---------------------------- MODULE KeyPoolProofs ----------------------------
(***************************************************************************)
(* What TLAPS proves about KeyPool, for every capacity, watermark, rate,   *)
(* set of draws, number of worker threads and set of control calls.        *)
(***************************************************************************)
EXTENDS KeyPool, TLAPS

\* A product of naturals is a natural and division rounds it down to one.
LEMMA DivNat ==
    ASSUME NEW a \in Nat, NEW b \in Nat \ {0}
    PROVE  a \div b \in Nat
  BY SMT

\* A ratio of a capacity is never more than the capacity.
LEMMA ShareOfCapacity ==
    ASSUME NEW r \in 0 .. Unit, NEW c \in Nat
    PROVE  /\ (r * c) \div Unit \in Nat
           /\ (r * c) \div Unit <= c
  <1> USE PoolAssumption
  <1>1. r * c \in Nat
    BY SMT
  <1>2. r * c <= Unit * c
    BY SMT
  <1>3. \A d \in Nat : \A p \in Nat : p <= Unit * d => p \div Unit <= d
    BY SMT
  <1> QED
    BY <1>1, <1>2, <1>3, DivNat

\* What a field of a control call is worth.
LEMMA AssignmentValue ==
    ASSUME NEW s \in Seq(Assignments), s # <<>>
    PROVE  /\ Head(s) \in Assignments
           /\ Tail(s) \in Seq(Assignments)
           /\ Head(s).field = "prefetching" => Head(s).value \in BOOLEAN
           /\ Head(s).field # "prefetching" => Head(s).value \in Int
  <1>1. Head(s) \in Assignments /\ Tail(s) \in Seq(Assignments)
    OBVIOUS
  <1> QED
    BY <1>1 DEF Assignments

-----------------------------------------------------------------------------
(* Type correctness: in particular stored \in Nat, no draw ever overdraws.  *)

LEMMA InitType == Init => TypeOK
  <1> SUFFICES ASSUME Init PROVE TypeOK
    OBVIOUS
  <1>1. Idle \in [todo : Seq(Assignments), phase : {"read", "write"}, value : Nat]
    BY DEF Idle, Call
  <1>2. ctl \in [Controllers ->
                    [todo : Seq(Assignments), phase : {"read", "write"}, value : Nat]]
    BY <1>1 DEF Init
  <1>3. SmallerOf(InitKeys, Capacity) \in Nat
    BY PoolAssumption DEF SmallerOf
  <1> QED
    BY <1>2, <1>3, PoolAssumption DEF Init, TypeOK

LEMMA TickType ==
    TypeOK /\ (EncKeys \/ ArmAfterDraw \/ PrefetchStep) => TypeOK'
  <1> SUFFICES ASSUME TypeOK PROVE EncKeys \/ ArmAfterDraw \/ PrefetchStep => TypeOK'
    OBVIOUS
  <1> USE PoolAssumption DEF TypeOK, settings, control
  <1>1. ASSUME NEW n \in Draws, Draw(n) PROVE TypeOK'
    BY <1>1 DEF Draw, Covered
  <1>2. ASSUME NEW n \in Draws, Refuse(n) PROVE TypeOK'
    BY <1>2 DEF Refuse
  <1>3. ASSUME ArmAfterDraw PROVE TypeOK'
    BY <1>3 DEF ArmAfterDraw, Low
  <1>4. HighWatermark \in Nat
    BY ShareOfCapacity DEF HighWatermark
  <1>5. ASSUME PrefetchBegin PROVE TypeOK'
    BY <1>4, <1>5 DEF PrefetchBegin
  <1>6. ASSUME PrefetchLow PROVE TypeOK'
    BY <1>4, <1>6 DEF PrefetchLow, Low
  <1>7. ASSUME PrefetchRoom PROVE TypeOK'
    BY <1>7 DEF PrefetchRoom, Production, SmallerOf, LargerOf
  <1>8. ASSUME PrefetchApply PROVE TypeOK'
    BY <1>8 DEF PrefetchApply, Full
  <1> QED
    BY <1>1, <1>2, <1>3, <1>5, <1>6, <1>7, <1>8 DEF EncKeys, PrefetchStep

LEMMA ControlType == TypeOK /\ Control => TypeOK'
  <1> SUFFICES ASSUME TypeOK, NEW c \in Controllers,
                      \/ \E u \in Updates : SetPool(c, u)
                      \/ SetField(c)
               PROVE  TypeOK'
    BY DEF Control
  <1> USE PoolAssumption DEF TypeOK, settings, control
  <1>1. ASSUME NEW u \in Updates, SetPool(c, u) PROVE TypeOK'
    BY <1>1 DEF SetPool, Call
  <1>2. ASSUME ctl[c].todo # <<>>
        PROVE  /\ Done(c) \in [todo : Seq(Assignments), phase : {"read", "write"},
                               value : Nat]
               /\ Field(c) = "prefetching" => Value(c) \in BOOLEAN
               /\ Field(c) # "prefetching" => Value(c) \in Int
    BY <1>2, AssignmentValue DEF Done, Call, Field, Value
  <1>3. ASSUME ctl[c].todo # <<>>, SetSetting(c) PROVE TypeOK'
    <2>1. ctl' \in [Controllers -> [todo : Seq(Assignments),
                                    phase : {"read", "write"}, value : Nat]]
      BY <1>2, <1>3 DEF SetSetting
    <2> QED
      BY <1>2, <1>3, <2>1 DEF SetSetting, LargerOf, SmallerOf, Ratio
  <1>4. ASSUME ctl[c].todo # <<>>, ComputeLevel(c) PROVE TypeOK'
    <2>1. Value(c) \in Int
      BY <1>2, <1>4 DEF ComputeLevel
    <2>2. Ratio(Value(c)) \in 0 .. Unit
      BY <2>1 DEF Ratio, SmallerOf, LargerOf
    <2>3. (Ratio(Value(c)) * capacity) \div Unit \in Nat
      BY <2>2, ShareOfCapacity
    <2>4. SmallerOf(LargerOf(Value(c), 0), capacity) \in Nat
      BY <2>1 DEF SmallerOf, LargerOf
    <2>5. Requested(c) \in Nat
      BY <2>3, <2>4 DEF Requested
    <2> QED
      BY <1>4, <2>5 DEF ComputeLevel, Call
  <1>5. ASSUME ctl[c].todo # <<>>, StoreLevel(c) PROVE TypeOK'
    BY <1>2, <1>5 DEF StoreLevel
  <1> QED
    BY <1>1, <1>3, <1>4, <1>5 DEF SetField

(***************************************************************************)
(* Every variable keeps its type whatever the draws, the ticks and the     *)
(* control calls do to each other.                                         *)
(***************************************************************************)
THEOREM TypeCorrect == Spec => []TypeOK
  <1>1. TypeOK /\ [Next]_vars => TypeOK'
    <2>1. TypeOK /\ UNCHANGED vars => TypeOK'
      BY DEF TypeOK, vars, settings, control
    <2> QED
      BY <2>1, TickType, ControlType DEF Next
  <1> QED
    BY InitType, <1>1, PTL DEF Spec

-----------------------------------------------------------------------------
(* The pool under control calls that only tune it.                          *)

\* A control call has no field left that touches the key material.
TuningLeft ==
    \A c \in Controllers :
        /\ ctl[c].phase = "read"
        /\ \A i \in DOMAIN ctl[c].todo :
              ctl[c].todo[i].field \notin {"capacity", "level", "stored"}

(***************************************************************************)
(* The inductive invariant.  The locals of the tick are what makes         *)
(* StoredWithinCapacity non-inductive: the room was computed some steps    *)
(* before the keys are added, under watermarks that may have moved since.  *)
(***************************************************************************)
PoolInv ==
    /\ TypeOK
    /\ TuningLeft
    /\ capacity = Capacity
    /\ target <= capacity
    /\ StoredWithinCapacity
    /\ loop = "apply" => stored + added <= capacity
    /\ Ledger

LEMMA PoolInvInit == Init => PoolInv
  <1> SUFFICES ASSUME Init PROVE PoolInv
    OBVIOUS
  <1>1. TypeOK
    BY InitType
  <1>2. TuningLeft
    BY DEF Init, TuningLeft, Idle, Call
  <1> QED
    BY <1>1, <1>2, PoolAssumption
    DEF Init, PoolInv, StoredWithinCapacity, Ledger, SmallerOf

LEMMA PoolInvTick ==
    PoolInv /\ (EncKeys \/ ArmAfterDraw \/ PrefetchStep) => PoolInv'
  <1> SUFFICES ASSUME PoolInv, EncKeys \/ ArmAfterDraw \/ PrefetchStep PROVE PoolInv'
    OBVIOUS
  <1>1. TypeOK'
    BY TickType DEF PoolInv
  <1>2. TuningLeft'
    BY DEF PoolInv, TuningLeft, EncKeys, ArmAfterDraw, PrefetchStep, Draw, Refuse,
           PrefetchBegin, PrefetchLow, PrefetchRoom, PrefetchApply, control
  <1>3. HighWatermark \in Nat /\ HighWatermark <= capacity
    BY ShareOfCapacity, PoolAssumption DEF PoolInv, TypeOK, HighWatermark
  <1>a. SmallerOf(InitKeys, Capacity) \in Nat
    BY PoolAssumption DEF SmallerOf
  <1>b. /\ capacity \in Nat /\ stored \in Nat /\ target \in Nat /\ added \in Nat
        /\ prefetchRate \in Nat /\ consumedTotal \in Nat /\ prefetchedTotal \in Nat
        /\ Draws \subseteq Nat
    BY PoolAssumption DEF PoolInv, TypeOK
  <1> USE <1>a, <1>b DEF PoolInv, StoredWithinCapacity, Ledger, settings
  <1>4. CASE EncKeys
    BY <1>1, <1>2, <1>4 DEF EncKeys, Draw, Refuse, Covered
  <1>5. CASE ArmAfterDraw
    BY <1>1, <1>2, <1>5 DEF ArmAfterDraw
  <1>6. CASE PrefetchBegin
    BY <1>1, <1>2, <1>3, <1>6 DEF PrefetchBegin
  <1>7. CASE PrefetchLow
    BY <1>1, <1>2, <1>3, <1>7 DEF PrefetchLow
  <1>8. CASE PrefetchRoom
    BY <1>1, <1>2, <1>8 DEF PrefetchRoom, Production, SmallerOf, LargerOf
  <1>9. CASE PrefetchApply
    BY <1>1, <1>2, <1>9 DEF PrefetchApply
  <1> QED
    BY <1>4, <1>5, <1>6, <1>7, <1>8, <1>9 DEF PrefetchStep

LEMMA PoolInvControl ==
    ASSUME TuningOnly
    PROVE  PoolInv /\ Control => PoolInv' /\ UNCHANGED stored
  <1> SUFFICES ASSUME PoolInv, NEW c \in Controllers,
                      \/ \E u \in Updates : SetPool(c, u)
                      \/ SetField(c)
               PROVE  PoolInv' /\ UNCHANGED stored
    BY DEF Control
  <1>1. TypeOK'
    BY ControlType DEF PoolInv, Control
  <1>2. ASSUME ctl[c].todo # <<>>
        PROVE  /\ Field(c) \notin {"capacity", "level", "stored"}
               /\ Done(c).phase = "read"
               /\ \A i \in DOMAIN Done(c).todo :
                     Done(c).todo[i].field \notin {"capacity", "level", "stored"}
    BY <1>2 DEF PoolInv, TypeOK, TuningLeft, Field, Done, Call
  <1>3. CASE \E u \in Updates : SetPool(c, u)
    <2>1. TuningLeft'
      BY <1>3, TuningOnly DEF PoolInv, TypeOK, TuningLeft, TuningOnly, SetPool, Call
    <2> QED
      BY <1>1, <1>3, <2>1 DEF PoolInv, SetPool, StoredWithinCapacity, Ledger, settings
  <1>4. CASE ctl[c].todo # <<>> /\ SetSetting(c)
    <2>1. TuningLeft'
      BY <1>2, <1>4 DEF PoolInv, TypeOK, TuningLeft, SetSetting
    <2> QED
      BY <1>1, <1>2, <1>4, <2>1
      DEF PoolInv, SetSetting, StoredWithinCapacity, Ledger, settings
  <1>5. CASE ctl[c].todo # <<>> /\ ComputeLevel(c)
    BY <1>2, <1>5 DEF ComputeLevel
  <1>6. CASE ctl[c].todo # <<>> /\ StoreLevel(c)
    BY <1>6 DEF PoolInv, TuningLeft, StoreLevel
  <1> QED
    BY <1>3, <1>4, <1>5, <1>6 DEF SetField

LEMMA PoolInvStep ==
    ASSUME TuningOnly
    PROVE  PoolInv /\ [Next]_vars => PoolInv'
  <1>1. PoolInv /\ UNCHANGED vars => PoolInv'
    BY DEF PoolInv, TypeOK, TuningLeft, StoredWithinCapacity, Ledger, vars, settings,
           control
  <1> QED
    BY <1>1, PoolInvTick, PoolInvControl, TuningOnly DEF Next

LEMMA PoolInvariant == ASSUME TuningOnly PROVE Spec => []PoolInv
  BY PoolInvInit, PoolInvStep, TuningOnly, PTL DEF Spec

(***************************************************************************)
(* The pool level never exceeds 1, however the watermarks and the rate are *)
(* retuned while a tick is under way.                                      *)
(***************************************************************************)
THEOREM NeverOverfull == ASSUME TuningOnly PROVE Spec => []StoredWithinCapacity
  <1>1. PoolInv => StoredWithinCapacity
    BY DEF PoolInv
  <1> QED
    BY <1>1, PoolInvariant, TuningOnly, PTL

(***************************************************************************)
(* No key is lost or made up: what was drawn and what is left is what the  *)
(* pool started with and what the prefetch reported.                       *)
(***************************************************************************)
THEOREM KeysAccountedFor == ASSUME TuningOnly PROVE Spec => []Ledger
  <1>1. PoolInv => Ledger
    BY DEF PoolInv
  <1> QED
    BY <1>1, PoolInvariant, TuningOnly, PTL

(***************************************************************************)
(* The pool implements the key store: each draw is a grant of exactly the  *)
(* keys asked for, each refill stays within the capacity, and no other     *)
(* step touches the keys.                                                  *)
(***************************************************************************)
THEOREM PoolImplementsStore == ASSUME TuningOnly PROVE Spec => ImplementsKeyStore
  <1>1. Init => KS!Init
    BY PoolAssumption DEF Init, KS!Init, SmallerOf
  <1>2. PoolInv /\ [Next]_vars => [KS!Next]_stored
    <2> SUFFICES ASSUME PoolInv, [Next]_vars PROVE [KS!Next]_stored
      OBVIOUS
    <2>1. ASSUME NEW n \in Draws, Draw(n) PROVE KS!Grant(n)
      BY <2>1 DEF Draw, Covered, KS!Grant
    <2>2. ASSUME NEW n \in Draws, Refuse(n) PROVE UNCHANGED stored
      BY <2>2 DEF Refuse
    <2>3. CASE ArmAfterDraw \/ PrefetchBegin \/ PrefetchLow \/ PrefetchRoom
      BY <2>3 DEF ArmAfterDraw, PrefetchBegin, PrefetchLow, PrefetchRoom
    <2>4. CASE PrefetchApply
      <3>1. stored' \in stored .. Capacity
        BY <2>4, PoolAssumption DEF PoolInv, TypeOK, PrefetchApply
      <3> QED
        BY <3>1 DEF KS!Next, KS!Restock
    <2>5. CASE Control
      BY <2>5, PoolInvControl, TuningOnly
    <2>6. CASE UNCHANGED vars
      BY <2>6 DEF vars
    <2> QED
      BY <2>1, <2>2, <2>3, <2>4, <2>5, <2>6
      DEF Next, EncKeys, PrefetchStep, KS!Next
  <1> QED
    BY <1>1, <1>2, PoolInvariant, TuningOnly, PTL
    DEF Spec, ImplementsKeyStore, KS!Spec

-----------------------------------------------------------------------------
(* The refill is armed.                                                     *)

(***************************************************************************)
(* While nobody has called set_pool, the high watermark a tick reads is    *)
(* still the one in force when it decides whether to stop.                 *)
(***************************************************************************)
ArmedInv ==
    /\ TypeOK
    /\ updates = 0 =>
         /\ \A c \in Controllers : ctl[c].todo = <<>>
         /\ loop \in {"room", "apply"} => prefetching /\ target = HighWatermark
         /\ LowMeansArmed

\* A pool filled to the high watermark is not low, if the watermarks are sane.
LEMMA FullIsNotLow ==
    ASSUME TypeOK, Sane, NEW n \in Nat, n >= HighWatermark
    PROVE  ~(n * Unit < threshold * capacity)
  <1> DEFINE h == HighWatermark
  <1>1. h \in Nat
    BY ShareOfCapacity DEF TypeOK, HighWatermark
  <1>2. Unit \in Nat /\ threshold * capacity \in Nat
    BY PoolAssumption DEF TypeOK
  <1>3. threshold * capacity <= h * Unit
    BY DEF Sane
  <1> HIDE DEF h
  <1>4. \A a, b, u \in Nat : a >= b => a * u >= b * u
    BY SMT
  <1>5. n * Unit >= h * Unit
    BY <1>1, <1>2, <1>4 DEF h
  <1>6. n * Unit \in Nat /\ h * Unit \in Nat
    BY <1>1, <1>2
  <1> QED
    BY <1>2, <1>3, <1>5, <1>6

LEMMA ArmedInvInit == Init => ArmedInv
  BY InitType DEF Init, ArmedInv, Idle, Call, LowMeansArmed

LEMMA ArmedInvStep == ArmedInv /\ [Next]_vars => ArmedInv'
  <1> SUFFICES ASSUME ArmedInv, [Next]_vars PROVE ArmedInv'
    OBVIOUS
  <1>1. TypeOK'
    <2>1. UNCHANGED vars => TypeOK'
      BY DEF ArmedInv, TypeOK, vars, settings, control
    <2> QED
      BY <2>1, TickType, ControlType DEF ArmedInv, Next
  <1>2. ASSUME UNCHANGED settings
        PROVE  HighWatermark' = HighWatermark /\ Sane' = Sane
    BY <1>2 DEF settings, HighWatermark, Sane
  <1>3. ASSUME UNCHANGED <<settings, stored>> PROVE Low' = Low
    BY <1>3 DEF settings, Low
  <1>4. CASE EncKeys
    BY <1>1, <1>2, <1>3, <1>4
    DEF ArmedInv, EncKeys, Draw, Refuse, LowMeansArmed, control
  <1>5. CASE ArmAfterDraw
    <2>0. Low' = Low
      BY <1>3, <1>5 DEF ArmAfterDraw
    <2>1. /\ Low' => prefetching'
          /\ loop' = "idle" /\ updates' = updates /\ ctl' = ctl
      BY <1>5, <2>0, Zenon DEF ArmAfterDraw, control
    <2> QED
      BY <1>1, <2>1 DEF ArmedInv, LowMeansArmed
  <1>6. CASE PrefetchBegin
    BY <1>1, <1>2, <1>3, <1>6 DEF ArmedInv, PrefetchBegin, LowMeansArmed, control
  <1>7. CASE PrefetchLow
    <2>1. updates' = updates /\ ctl' = ctl /\ HighWatermark' = HighWatermark
      BY <1>2, <1>7 DEF PrefetchLow, control
    <2>2. \/ prefetching' /\ loop' = "room" /\ target' = HighWatermark
          \/ ~Low' /\ loop' = "idle"
      BY <1>3, <1>7 DEF PrefetchLow
    <2> QED
      BY <1>1, <2>1, <2>2 DEF ArmedInv, LowMeansArmed
  <1>8. CASE PrefetchRoom
    BY <1>1, <1>2, <1>8 DEF ArmedInv, PrefetchRoom, LowMeansArmed, control
  <1>9. CASE PrefetchApply
    <2>1. ASSUME updates = 0, Sane, Low', ~prefetching' PROVE FALSE
      <3>1. stored' >= HighWatermark
        BY <1>9, <2>1 DEF ArmedInv, PrefetchApply, Full
      <3>2. ~(stored' * Unit < threshold * capacity)
        BY <1>1, <2>1, <3>1, FullIsNotLow DEF ArmedInv, TypeOK
      <3> QED
        BY <1>9, <2>1, <3>2 DEF PrefetchApply, Low, settings
    <2>2. updates' = updates /\ ctl' = ctl /\ loop' = "idle" /\ Sane' = Sane
      BY <1>2, <1>9 DEF PrefetchApply, control
    <2> QED
      BY <1>1, <2>1, <2>2 DEF ArmedInv, LowMeansArmed
  <1>10. CASE Control
    <2> SUFFICES ASSUME updates' = 0 PROVE FALSE
      BY <1>1 DEF ArmedInv
    <2> PICK c \in Controllers : \/ \E u \in Updates : SetPool(c, u)
                                 \/ SetField(c)
      BY <1>10 DEF Control
    <2>1. CASE \E u \in Updates : SetPool(c, u)
      BY <2>1 DEF ArmedInv, TypeOK, SetPool
    <2>2. CASE SetField(c)
      BY <2>2 DEF ArmedInv, SetField, SetSetting, ComputeLevel, StoreLevel
    <2> QED
      BY <2>1, <2>2
  <1>11. CASE UNCHANGED vars
    BY <1>1, <1>2, <1>3, <1>11 DEF ArmedInv, LowMeansArmed, vars, control
  <1> QED
    BY <1>4, <1>5, <1>6, <1>7, <1>8, <1>9, <1>10, <1>11 DEF Next, PrefetchStep

(***************************************************************************)
(* A pool that a draw left low is being refilled, for every sane pair of   *)
(* watermarks: no tick switches the refill off and leaves the pool low.    *)
(***************************************************************************)
THEOREM LowPoolIsRefilled == Spec => []LowMeansArmed
  <1>1. ArmedInv => LowMeansArmed
    BY DEF ArmedInv, LowMeansArmed
  <1> QED
    BY ArmedInvInit, ArmedInvStep, <1>1, PTL DEF Spec

-----------------------------------------------------------------------------
(* The pool under any control calls.                                        *)

\* What a control call still has to write is within the ceilings.
CallsBounded ==
    \A c \in Controllers :
        /\ ctl[c].value <= CapacityCeiling
        /\ \A i \in DOMAIN ctl[c].todo :
              /\ ctl[c].todo[i].field = "capacity" =>
                    ctl[c].todo[i].value <= CapacityCeiling
              /\ ctl[c].todo[i].field = "prefetch_rate" =>
                    ctl[c].todo[i].value <= RateCeiling

(***************************************************************************)
(* A tick about to add keys found room when it looked; since then only a   *)
(* control call can have written stored, and it writes at most a capacity. *)
(***************************************************************************)
OvershootInv ==
    /\ TypeOK
    /\ CallsBounded
    /\ capacity <= CapacityCeiling
    /\ prefetchRate <= RateCeiling
    /\ target <= CapacityCeiling
    /\ OvershootBounded
    /\ loop = "apply" =>
          added <= RateCeiling /\ (added = 0 \/ stored <= CapacityCeiling)

LEMMA OvershootInit == Init => OvershootInv
  <1> SUFFICES ASSUME Init PROVE OvershootInv
    OBVIOUS
  <1>1. TypeOK
    BY InitType
  <1>2. CallsBounded
    BY PoolAssumption DEF Init, CallsBounded, Idle, Call
  <1> QED
    BY <1>1, <1>2, PoolAssumption
    DEF Init, OvershootInv, OvershootBounded, SmallerOf

LEMMA OvershootTick ==
    OvershootInv /\ (EncKeys \/ ArmAfterDraw \/ PrefetchStep) => OvershootInv'
  <1> SUFFICES ASSUME OvershootInv, EncKeys \/ ArmAfterDraw \/ PrefetchStep
               PROVE  OvershootInv'
    OBVIOUS
  <1>1. TypeOK'
    BY TickType DEF OvershootInv
  <1>2. CallsBounded'
    BY DEF OvershootInv, CallsBounded, EncKeys, ArmAfterDraw, PrefetchStep, Draw,
           Refuse, PrefetchBegin, PrefetchLow, PrefetchRoom, PrefetchApply, control
  <1>3. HighWatermark \in Nat /\ HighWatermark <= capacity
    BY ShareOfCapacity DEF OvershootInv, TypeOK, HighWatermark
  <1>4. /\ capacity \in Nat /\ stored \in Nat /\ target \in Nat /\ added \in Nat
        /\ prefetchRate \in Nat /\ Draws \subseteq Nat
        /\ CapacityCeiling \in Nat /\ RateCeiling \in Nat
    BY PoolAssumption DEF OvershootInv, TypeOK
  <1> USE <1>4 DEF OvershootInv, OvershootBounded, settings
  <1>5. CASE EncKeys
    BY <1>1, <1>2, <1>5 DEF EncKeys, Draw, Refuse, Covered
  <1>6. CASE ArmAfterDraw
    BY <1>1, <1>2, <1>6 DEF ArmAfterDraw
  <1>7. CASE PrefetchBegin
    BY <1>1, <1>2, <1>3, <1>7 DEF PrefetchBegin
  <1>8. CASE PrefetchLow
    BY <1>1, <1>2, <1>3, <1>8 DEF PrefetchLow
  <1>9. CASE PrefetchRoom
    BY <1>1, <1>2, <1>9 DEF PrefetchRoom, Production, SmallerOf, LargerOf
  <1>10. CASE PrefetchApply
    BY <1>1, <1>2, <1>10 DEF PrefetchApply
  <1> QED
    BY <1>5, <1>6, <1>7, <1>8, <1>9, <1>10 DEF PrefetchStep

LEMMA OvershootControl == OvershootInv /\ Control => OvershootInv'
  <1> SUFFICES ASSUME OvershootInv, NEW c \in Controllers,
                      \/ \E u \in Updates : SetPool(c, u)
                      \/ SetField(c)
               PROVE  OvershootInv'
    BY DEF Control
  <1>1. TypeOK'
    BY ControlType DEF OvershootInv, Control
  <1>2. /\ capacity \in Nat /\ stored \in Nat /\ target \in Nat /\ added \in Nat
        /\ prefetchRate \in Nat /\ CapacityCeiling \in Nat \ {0} /\ RateCeiling \in Nat
    BY PoolAssumption DEF OvershootInv, TypeOK
  <1>3. ASSUME ctl[c].todo # <<>>
        PROVE  /\ Field(c) = "capacity" => Value(c) \in Int /\ Value(c) <= CapacityCeiling
               /\ Field(c) = "prefetch_rate" => Value(c) \in Int /\ Value(c) <= RateCeiling
               /\ Field(c) # "prefetching" => Value(c) \in Int
               /\ Done(c).value = 0
               /\ \A i \in DOMAIN Done(c).todo :
                     /\ Done(c).todo[i].field = "capacity" =>
                           Done(c).todo[i].value <= CapacityCeiling
                     /\ Done(c).todo[i].field = "prefetch_rate" =>
                           Done(c).todo[i].value <= RateCeiling
    <2>1. ctl[c].todo \in Seq(Assignments)
      BY DEF OvershootInv, TypeOK
    <2>2. Field(c) # "prefetching" => Value(c) \in Int
      BY <1>3, <2>1, AssignmentValue DEF Field, Value
    <2> QED
      BY <1>3, <2>1, <2>2 DEF OvershootInv, CallsBounded, Field, Value, Done, Call
  <1>4. CASE \E u \in Updates : SetPool(c, u)
    <2>1. CallsBounded'
      BY <1>4, <1>2, PoolAssumption
      DEF OvershootInv, TypeOK, CallsBounded, SetPool, Call
    <2> QED
      BY <1>1, <1>4, <2>1 DEF OvershootInv, OvershootBounded, SetPool, settings
  <1>5. CASE ctl[c].todo # <<>> /\ SetSetting(c)
    <2>1. CallsBounded'
      BY <1>2, <1>3, <1>5 DEF OvershootInv, TypeOK, CallsBounded, SetSetting
    <2>2. capacity' <= CapacityCeiling /\ prefetchRate' <= RateCeiling
      BY <1>2, <1>3, <1>5 DEF OvershootInv, SetSetting, settings, LargerOf
    <2> QED
      BY <1>1, <1>5, <2>1, <2>2 DEF OvershootInv, OvershootBounded, SetSetting
  <1>6. CASE ctl[c].todo # <<>> /\ ComputeLevel(c)
    <2>1. Value(c) \in Int
      BY <1>3, <1>6 DEF ComputeLevel
    <2>2. Requested(c) <= CapacityCeiling
      <3>1. Ratio(Value(c)) \in 0 .. Unit
        BY <2>1, PoolAssumption DEF Ratio, SmallerOf, LargerOf
      <3> QED
        BY <1>2, <2>1, <3>1, ShareOfCapacity
        DEF OvershootInv, Requested, SmallerOf, LargerOf
    <2>3. CallsBounded'
      BY <1>2, <1>6, <2>2 DEF OvershootInv, TypeOK, CallsBounded, ComputeLevel, Call
    <2> QED
      BY <1>1, <1>6, <2>3 DEF OvershootInv, OvershootBounded, ComputeLevel, settings
  <1>7. CASE ctl[c].todo # <<>> /\ StoreLevel(c)
    <2>1. CallsBounded'
      BY <1>2, <1>3, <1>7 DEF OvershootInv, TypeOK, CallsBounded, StoreLevel
    <2>2. stored' \in Nat /\ stored' <= CapacityCeiling
      BY <1>1, <1>7 DEF OvershootInv, CallsBounded, StoreLevel, TypeOK
    <2> QED
      BY <1>1, <1>2, <1>7, <2>1, <2>2
      DEF OvershootInv, OvershootBounded, StoreLevel, settings
  <1> QED
    BY <1>4, <1>5, <1>6, <1>7 DEF SetField

(***************************************************************************)
(* Whatever control calls race the ticks, the pool never holds more than   *)
(* the largest capacity plus the keys of one tick.                         *)
(***************************************************************************)
THEOREM OvershootIsOneTick == Spec => []OvershootBounded
  <1>1. OvershootInv /\ [Next]_vars => OvershootInv'
    <2>1. OvershootInv /\ UNCHANGED vars => OvershootInv'
      BY DEF OvershootInv, TypeOK, CallsBounded, OvershootBounded, vars, settings,
             control
    <2> QED
      BY <2>1, OvershootTick, OvershootControl DEF Next
  <1>2. OvershootInv => OvershootBounded
    BY DEF OvershootInv
  <1> QED
    BY OvershootInit, <1>1, <1>2, PTL DEF Spec
=============================================================================
