------------------------------- MODULE KeyPool -------------------------------
(***************************************************************************)
(* The key pool of one simulated KMS (services/kms_mock/app/main.py).      *)
(*                                                                         *)
(* Two kinds of threads touch it.  The event loop runs the coroutines      *)
(* consume and prefetch_step; neither awaits inside its critical section,  *)
(* so one runs to its end before the other starts.  set_pool is a plain    *)
(* def: FastAPI runs it on a worker thread, WITHOUT the asyncio lock.      *)
(* CPython 3.11 (the image of the Dockerfile) hands the GIL over only at   *)
(* calls, so an action below is what runs between two calls: the property  *)
(* rho, and the builtins int, min and max.                                 *)
(*                                                                         *)
(* Ratios (threshold, refill_target, level) are multiples of 1/Unit.       *)
(***************************************************************************)
EXTENDS Integers, Sequences

CONSTANTS
    Capacity,       \* POOL_CAPACITY
    InitKeys,       \* POOL_INIT
    Threshold,      \* POOL_THRESHOLD, in units: the low watermark
    RefillTarget,   \* POOL_REFILL_TARGET, in units: the high watermark
    PrefetchRate,   \* PREFETCH_RATE: keys added by one tick
    Unit,           \* a ratio of 1.0
    Draws,          \* sizes of the enc_keys requests
    MaxConsumed,    \* bound: keys drawn in a behaviour
    Controllers,    \* worker threads that may run set_pool
    Updates,        \* bodies of POST /api/v1/pool: sequences of Assignments
    MaxUpdates,     \* bound: set_pool calls in a behaviour
    CapacityCeiling,\* no capacity in use is larger
    RateCeiling     \* no prefetch rate in use is larger

(***************************************************************************)
(* A PoolUpdate is the sequence of the fields that are not None, in the    *)
(* order set_pool looks at them.                                           *)
(***************************************************************************)
Assignments ==
    [field : {"capacity", "threshold", "refill_target", "prefetch_rate", "level",
              "stored"}, value : Int]
        \cup [field : {"prefetching"}, value : BOOLEAN]

ASSUME PoolAssumption ==
    /\ Unit \in Nat \ {0}
    /\ Capacity \in Nat \ {0}
    /\ InitKeys \in Nat
    /\ Threshold \in 0 .. Unit
    /\ RefillTarget \in 0 .. Unit
    /\ PrefetchRate \in Nat
    /\ Draws \subseteq Nat \ {0}
    /\ MaxConsumed \in Nat
    /\ Updates \subseteq Seq(Assignments)
    /\ MaxUpdates \in Nat
    /\ CapacityCeiling \in Nat /\ Capacity <= CapacityCeiling
    /\ RateCeiling \in Nat /\ PrefetchRate <= RateCeiling
    /\ \A u \in Updates : \A i \in DOMAIN u :
          /\ u[i].field = "capacity" => u[i].value <= CapacityCeiling
          /\ u[i].field = "prefetch_rate" => u[i].value <= RateCeiling

VARIABLES
    capacity, stored, threshold, refillTarget, prefetchRate,  \* PoolState
    prefetching,                \* is a refill under way?
    consumedTotal, prefetchedTotal,
    loop,                       \* where the event loop is
    target, added,              \* locals of prefetch_step
    reply,                      \* status of the last enc_keys
    ctl,                        \* set_pool calls, by worker thread
    updates                     \* set_pool calls so far

settings == <<capacity, threshold, refillTarget, prefetchRate>>
control  == <<ctl, updates>>
vars == <<settings, stored, prefetching, consumedTotal, prefetchedTotal,
          loop, target, added, reply, control>>

SmallerOf(a, b) == IF a < b THEN a ELSE b
LargerOf(a, b)  == IF a < b THEN b ELSE a

\* A ratio is clamped to 0.0 .. 1.0.
Ratio(v) == SmallerOf(LargerOf(v, 0), Unit)

\* rho < threshold
Low == stored * Unit < threshold * capacity

\* int(refill_target * capacity)
HighWatermark == (refillTarget * capacity) \div Unit

\* Where a worker thread is: the fields left, and a level computed but not stored.
Call(todo, phase, value) == [todo |-> todo, phase |-> phase, value |-> value]
Idle == Call(<<>>, "read", 0)

Init ==
    /\ capacity = Capacity
    /\ stored = SmallerOf(InitKeys, Capacity)
    /\ threshold = Threshold
    /\ refillTarget = RefillTarget
    /\ prefetchRate = PrefetchRate
    /\ prefetching = FALSE
    /\ consumedTotal = 0
    /\ prefetchedTotal = 0
    /\ loop = "idle"
    /\ target = 0
    /\ added = 0
    /\ reply = "none"
    /\ ctl = [c \in Controllers |-> Idle]
    /\ updates = 0

-----------------------------------------------------------------------------
(* enc_keys: consume, then arm the refill if the pool fell below threshold. *)

CoveredAlways(n) == TRUE                    \* mutant: no check
Covered(n) == n <= stored

DrawPartial(n) ==                           \* mutant: serve what there is
    /\ loop = "idle"
    /\ consumedTotal + n <= MaxConsumed
    /\ stored' = LargerOf(0, stored - n)
    /\ consumedTotal' = consumedTotal + n
    /\ reply' = "200"
    /\ loop' = "arm"
    /\ UNCHANGED <<settings, prefetching, prefetchedTotal, target, added, control>>

Draw(n) ==
    /\ loop = "idle"
    /\ consumedTotal + n <= MaxConsumed
    /\ Covered(n)
    /\ stored' = stored - n
    /\ consumedTotal' = consumedTotal + n
    /\ reply' = "200"
    /\ loop' = "arm"
    /\ UNCHANGED <<settings, prefetching, prefetchedTotal, target, added, control>>

Refuse(n) ==
    /\ loop = "idle"
    /\ ~Covered(n)
    /\ reply' = "503"
    /\ UNCHANGED <<settings, stored, prefetching, consumedTotal, prefetchedTotal,
                   loop, target, added, control>>

ArmOnPollOnly ==                            \* mutant: leave it to the next tick
    /\ loop = "arm"
    /\ loop' = "idle"
    /\ UNCHANGED <<settings, stored, prefetching, consumedTotal, prefetchedTotal,
                   target, added, reply, control>>

ArmAfterDraw ==
    /\ loop = "arm"
    /\ prefetching' = (prefetching \/ Low)
    /\ loop' = "idle"
    /\ UNCHANGED <<settings, stored, consumedTotal, prefetchedTotal, target, added,
                   reply, control>>

-----------------------------------------------------------------------------
(* prefetch_step, called by _prefetch_loop every prefetch_tick seconds.     *)

PrefetchBegin ==
    /\ loop = "idle"
    /\ IF prefetching
       THEN loop' = "room" /\ target' = HighWatermark
       ELSE loop' = "low"  /\ UNCHANGED target
    /\ UNCHANGED <<settings, stored, prefetching, consumedTotal, prefetchedTotal,
                   added, reply, control>>

\* After rho is computed: arm at the low watermark, or have nothing to do.
PrefetchLow ==
    /\ loop = "low"
    /\ prefetching' = (prefetching \/ Low)
    /\ IF prefetching'
       THEN loop' = "room" /\ target' = HighWatermark
       ELSE loop' = "idle" /\ UNCHANGED target
    /\ UNCHANGED <<settings, stored, consumedTotal, prefetchedTotal, added, reply,
                   control>>

ProductionUnclamped == prefetchRate         \* mutant: ignores the high watermark
ProductionUnlimited == LargerOf(0, target - stored)     \* mutant: ignores the rate

\* Keys one tick adds.
Production == SmallerOf(prefetchRate, LargerOf(0, target - stored))

PrefetchRoom ==
    /\ loop = "room"
    /\ added' = Production
    /\ loop' = "apply"
    /\ UNCHANGED <<settings, stored, prefetching, consumedTotal, prefetchedTotal,
                   target, reply, control>>

FullAtThreshold(n) == n * Unit >= threshold * capacity  \* mutant: no hysteresis
FullBeyond(n) == n > target                             \* mutant: off by one

\* Has the pool, now holding n keys, reached the high watermark?
Full(n) == n >= target

PrefetchApply ==
    /\ loop = "apply"
    /\ stored' = stored + added
    /\ prefetchedTotal' = prefetchedTotal + added
    /\ prefetching' = (prefetching /\ ~Full(stored'))
    /\ loop' = "idle"
    /\ UNCHANGED <<settings, consumedTotal, target, added, reply, control>>

-----------------------------------------------------------------------------
(* set_pool, on worker thread c.                                            *)

SetPool(c, u) ==
    /\ ctl[c].todo = <<>>
    /\ updates < MaxUpdates
    /\ u # <<>>
    /\ ctl' = [ctl EXCEPT ![c] = Call(u, "read", 0)]
    /\ updates' = updates + 1
    /\ UNCHANGED <<settings, stored, prefetching, consumedTotal, prefetchedTotal,
                   loop, target, added, reply>>

Field(c) == Head(ctl[c].todo).field
Value(c) == Head(ctl[c].todo).value
Done(c)  == Call(Tail(ctl[c].todo), "read", 0)

\* A field whose new value depends on the request alone: one store.
SetSetting(c) ==
    /\ \/ /\ Field(c) = "capacity"
          /\ capacity' = LargerOf(1, Value(c))
          /\ UNCHANGED <<threshold, refillTarget, prefetchRate, prefetching>>
       \/ /\ Field(c) = "threshold"
          /\ threshold' = Ratio(Value(c))
          /\ UNCHANGED <<capacity, refillTarget, prefetchRate, prefetching>>
       \/ /\ Field(c) = "refill_target"
          /\ refillTarget' = Ratio(Value(c))
          /\ UNCHANGED <<capacity, threshold, prefetchRate, prefetching>>
       \/ /\ Field(c) = "prefetch_rate"
          /\ prefetchRate' = LargerOf(0, Value(c))
          /\ UNCHANGED <<capacity, threshold, refillTarget, prefetching>>
       \/ /\ Field(c) = "prefetching"
          /\ prefetching' = Value(c)
          /\ UNCHANGED settings
    /\ ctl' = [ctl EXCEPT ![c] = Done(c)]
    /\ UNCHANGED <<stored, consumedTotal, prefetchedTotal, loop, target, added,
                   reply, updates>>

\* The keys a "level" or a "stored" asks for, under the capacity of this moment.
Requested(c) ==
    IF Field(c) = "level"
    THEN (Ratio(Value(c)) * capacity) \div Unit
    ELSE SmallerOf(LargerOf(Value(c), 0), capacity)

\* level and stored: the new value is computed ...
ComputeLevel(c) ==
    /\ ctl[c].phase = "read"
    /\ Field(c) \in {"level", "stored"}
    /\ ctl' = [ctl EXCEPT ![c] = Call(ctl[c].todo, "write", Requested(c))]
    /\ UNCHANGED <<settings, stored, prefetching, consumedTotal, prefetchedTotal,
                   loop, target, added, reply, updates>>

\* ... and stored one call later, whatever happened to the pool in between.
StoreLevel(c) ==
    /\ ctl[c].phase = "write"
    /\ stored' = ctl[c].value
    /\ ctl' = [ctl EXCEPT ![c] = Done(c)]
    /\ UNCHANGED <<settings, prefetching, consumedTotal, prefetchedTotal, loop,
                   target, added, reply, updates>>

\* The next store of a call that has started and not returned.
SetField(c) ==
    /\ ctl[c].todo # <<>>
    /\ SetSetting(c) \/ ComputeLevel(c) \/ StoreLevel(c)

-----------------------------------------------------------------------------
EncKeys == \E n \in Draws : Draw(n) \/ Refuse(n)

PrefetchStep == PrefetchBegin \/ PrefetchLow \/ PrefetchRoom \/ PrefetchApply

Control ==
    \E c \in Controllers :
        \/ \E u \in Updates : SetPool(c, u)
        \/ SetField(c)

Next == EncKeys \/ ArmAfterDraw \/ PrefetchStep \/ Control

(***************************************************************************)
(* _prefetch_loop never stops before shutdown and asyncio resumes every    *)
(* coroutine that can run; a worker thread that has started set_pool is    *)
(* scheduled until it returns.                                             *)
(***************************************************************************)
Fairness ==
    /\ WF_vars(ArmAfterDraw)
    /\ WF_vars(PrefetchBegin)
    /\ WF_vars(PrefetchLow)
    /\ WF_vars(PrefetchRoom)
    /\ WF_vars(PrefetchApply)
    /\ \A c \in Controllers : WF_vars(SetField(c))

Spec == Init /\ [][Next]_vars
FairSpec == Spec /\ Fairness

-----------------------------------------------------------------------------
(* Properties.                                                              *)

KS == INSTANCE KeyStore WITH Capacity <- Capacity, Draws <- Draws, stored <- stored

(***************************************************************************)
(* What every variable holds.  stored \in Nat is the point: a draw that    *)
(* races set_pool and the prefetch can never overdraw the pool.            *)
(***************************************************************************)
TypeOK ==
    /\ capacity \in Nat \ {0}
    /\ stored \in Nat
    /\ threshold \in 0 .. Unit
    /\ refillTarget \in 0 .. Unit
    /\ prefetchRate \in Nat
    /\ prefetching \in BOOLEAN
    /\ consumedTotal \in Nat
    /\ prefetchedTotal \in Nat
    /\ loop \in {"idle", "arm", "low", "room", "apply"}
    /\ target \in Nat
    /\ added \in Nat
    /\ reply \in {"none", "200", "503"}
    /\ ctl \in [Controllers ->
                  [todo : Seq(Assignments), phase : {"read", "write"}, value : Nat]]
    /\ updates \in Nat

(***************************************************************************)
(* The pool level rho is at most 1 ("stored keys out of capacity",         *)
(* main.py:8).  It holds as long as nobody writes capacity, level or       *)
(* stored at run time, even while the watermarks and the rate are retuned  *)
(* between the steps of a tick.                                            *)
(***************************************************************************)
StoredWithinCapacity == stored <= capacity

(***************************************************************************)
(* Every key is accounted for: what is stored and what was drawn is what   *)
(* the pool started with and what the prefetch produced.                   *)
(***************************************************************************)
Ledger ==
    stored + consumedTotal = SmallerOf(InitKeys, Capacity) + prefetchedTotal

\* No control call touches the key material or the capacity.
TuningOnly ==
    \A u \in Updates : \A i \in DOMAIN u :
        u[i].field \notin {"capacity", "level", "stored"}

\* The high watermark, as int() truncates it, is not below the low one.
Sane == threshold * capacity <= HighWatermark * Unit

(***************************************************************************)
(* A pool that a draw left below the threshold is being refilled ("arm the *)
(* pre-fetch the instant a draw brings the pool down", main.py:82-86):     *)
(* no tick may switch the refill off and leave the pool low.               *)
(***************************************************************************)
LowMeansArmed ==
    updates = 0 /\ consumedTotal > 0 /\ loop = "idle" /\ Sane /\ Low => prefetching

(***************************************************************************)
(* Once draws and control calls have stopped, a pool that prefetches and   *)
(* has sane watermarks ends above the threshold with the refill switched   *)
(* off, whatever the order in which its settings were changed.             *)
(***************************************************************************)
Settled == prefetchRate > 0 /\ Sane /\ loop = "idle" => ~Low /\ ~prefetching

Settles == <>[]Settled

(***************************************************************************)
(* A refill carries the pool up to the high watermark in force, not just   *)
(* above the threshold (the hysteresis of prefetch_step's docstring),      *)
(* unless a control call intervenes.                                       *)
(***************************************************************************)
RefillCompletes ==
    prefetching /\ prefetchRate > 0 /\ updates = 0
        ~> stored >= HighWatermark \/ updates > 0

(***************************************************************************)
(* The pool is a key store: a draw takes its keys or nothing and the       *)
(* refill never overfills it.                                              *)
(***************************************************************************)
ImplementsKeyStore == KS!Spec

(***************************************************************************)
(* The worst that a control call racing a tick can do: set_pool refills    *)
(* the pool while the tick still holds the room it computed before, so the *)
(* pool overshoots, but never by more than the keys of one tick.           *)
(***************************************************************************)
OvershootBounded == stored <= CapacityCeiling + RateCeiling
=============================================================================
