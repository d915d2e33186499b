------------------------------ MODULE PoolBench ------------------------------
(***************************************************************************)
(* The experiments of the measurement harness on one live pool: kpi5       *)
(* empties it, switches the refill off and fires a batch of circuits that  *)
(* should all be refused, kpi6 resizes it and drains it with concurrent    *)
(* workers; run_all runs one after the other.  The pool goes on with its   *)
(* ticks, other clients with their draws, and others may control it too.   *)
(***************************************************************************)
EXTENDS KeyPool

CONSTANTS
    Bench,          \* the worker thread that serves the harness's control calls
    REPS,           \* circuits of the batch
    NUM_KEYS,       \* keys a circuit of the load asks for
    LOAD_WORKERS,   \* circuits of the load at a time
    SmallCapacity, LowMark, HighMark, SlowRate  \* the pool of kpi6

VARIABLES
    step,           \* where the harness is
    ok, err,        \* circuits of the batch that were served, and not
    flying,         \* circuits of the load that are on their way
    since,          \* history: keys drawn since the harness last set the level
    underWay,       \* history: keys a tick was about to add at that moment
    meddled         \* history: somebody else has controlled the pool

benchVars == <<step, ok, err, flying, since, underWay, meddled>>

\* Bodies of control calls, in the order set_pool looks at the fields.
LevelFirst ==                               \* mutant: the rate after the level
    <<[field |-> "level", value |-> 0], [field |-> "prefetch_rate", value |-> 0]>>
Emptied ==
    <<[field |-> "prefetch_rate", value |-> 0], [field |-> "level", value |-> 0]>>
Restored ==
    <<[field |-> "prefetch_rate", value |-> PrefetchRate], [field |-> "level", value |-> Unit]>>

LevelBeforeCapacity ==                      \* mutant: a level of the old capacity
    <<[field |-> "level", value |-> Unit],
      [field |-> "capacity", value |-> SmallCapacity]>>
POOL_CFG ==
    <<[field |-> "capacity", value |-> SmallCapacity],
      [field |-> "threshold", value |-> LowMark],
      [field |-> "refill_target", value |-> HighMark],
      [field |-> "prefetch_rate", value |-> SlowRate],
      [field |-> "level", value |-> Unit]>>

ASSUME BenchAssumption ==
    /\ Bench \in Controllers
    /\ REPS \in Nat /\ NUM_KEYS \in Nat \ {0} /\ LOAD_WORKERS \in Nat
    /\ SmallCapacity \in 1 .. CapacityCeiling
    /\ LowMark \in 0 .. Unit /\ HighMark \in 0 .. Unit
    /\ SlowRate \in 0 .. RateCeiling

BenchInit ==
    /\ Init
    /\ step = "start"
    /\ ok = 0
    /\ err = 0
    /\ flying = 0
    /\ since = 0
    /\ underWay = 0
    /\ meddled = FALSE

-----------------------------------------------------------------------------
\* A control call is posted, and later answered.
Post(from, body, to) ==
    /\ step = from
    /\ SetPool(Bench, body)
    /\ step' = to
    /\ UNCHANGED <<ok, err, flying>>

Goes(from, to) ==
    /\ step = from
    /\ ctl[Bench].todo = << >>
    /\ step' = to
    /\ UNCHANGED <<ok, err, flying, vars>>

\* A circuit asks the pool for n keys, or comes to nothing somewhere in the chain.
Served(n) == Draw(n)
Unserved(n) == Refuse(n) \/ UNCHANGED vars

-----------------------------------------------------------------------------
(* kpi5: a batch on an exhausted pool, which is restored whatever happens.   *)

Batch ==
    /\ step = "batch" /\ ok + err < REPS
    /\ \/ Served(1) /\ ok' = ok + 1 /\ UNCHANGED err
       \/ Unserved(1) /\ err' = err + 1 /\ UNCHANGED ok
    /\ UNCHANGED <<step, flying>>

\* All circuits are answered, or one of them raises.
BatchEnds == Goes("batch", "restore")

ExhaustedPool ==
    \/ Post("start", Emptied, "emptying") \/ Goes("emptying", "batch")
    \/ Batch \/ BatchEnds
    \/ Post("restore", Restored, "restoring") \/ Goes("restoring", "configure")

-----------------------------------------------------------------------------
(* kpi6: the saw-tooth of a small pool under load.                           *)

\* A worker has a circuit under way, and the next one while the load lasts.
Asks ==
    /\ step = "load" /\ flying < LOAD_WORKERS
    /\ flying' = flying + 1
    /\ UNCHANGED <<step, ok, err, vars>>

IsAnswered ==
    /\ flying > 0
    /\ Served(NUM_KEYS) \/ Unserved(NUM_KEYS)
    /\ flying' = flying - 1
    /\ UNCHANGED <<step, ok, err>>

\* The harness waits 2 s for its workers, and no longer.
LoadOff == Goes("load", "leave")

SawTooth ==
    \/ Post("configure", POOL_CFG, "idle phase") \/ Goes("idle phase", "load")
    \/ Asks \/ IsAnswered \/ LoadOff
    \/ Post("leave", POOL_CFG, "leaving") \/ Goes("leaving", "done")

-----------------------------------------------------------------------------
\* One call of somebody else: the bound on meddling.
Meddle == ~meddled /\ \E c \in Controllers \ {Bench}, u \in Updates : SetPool(c, u)

Pool ==
    \/ EncKeys \/ ArmAfterDraw \/ PrefetchStep \/ Meddle
    \/ \E c \in Controllers : SetField(c)

LevelIsSet == ctl[Bench].phase = "write" /\ ctl'[Bench].phase = "read"

\* Keys that the tick under way has computed and not added yet.
Pending == IF loop = "apply" THEN added ELSE 0

Observe ==
    /\ underWay' = IF LevelIsSet THEN Pending ELSE underWay
    /\ since' = IF LevelIsSet THEN 0 ELSE since + (consumedTotal' - consumedTotal)
    /\ meddled' = (meddled \/ \E c \in Controllers \ {Bench} : ctl'[c] # ctl[c])

BenchNext ==
    /\ ExhaustedPool \/ SawTooth \/ (Pool /\ UNCHANGED <<step, ok, err, flying>>)
    /\ Observe

BenchSpec == BenchInit /\ [][BenchNext]_<<vars, benchVars>> /\ Fairness

-----------------------------------------------------------------------------
(* Properties.                                                               *)

(***************************************************************************)
(* "Disable pre-fetch (rate 0) so the pool stays empty for the batch"      *)
(* (kpi5_success_rate.py:57) is true but for a tick that had computed its  *)
(* keys and added them after the level was set: no circuit of the batch is *)
(* served but by those keys, and none if no tick was at that point.        *)
(***************************************************************************)
EmptyButForOneTick == step = "batch" /\ ~meddled => ok <= underWay

(***************************************************************************)
(* kpi6 starts from a full pool and leaves a full pool (kpi6_pool_rho.py:6 *)
(* and :93), whatever its capacity and its level were: all that is missing *)
(* was drawn since, and what there is too much one tick has added.         *)
(***************************************************************************)
ConfiguredIsFull ==
    step \in {"load", "leave", "done"} /\ ~meddled =>
        /\ capacity <= stored + since
        /\ stored <= capacity + RateCeiling
=============================================================================
