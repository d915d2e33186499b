--------------------------- MODULE PoolBenchProofs ---------------------------
(***************************************************************************)
(* What TLAPS proves about PoolBench, for every pool, load and set of      *)
(* other clients and controllers.                                          *)
(***************************************************************************)
EXTENDS PoolBench, KeyPoolProofs

-----------------------------------------------------------------------------
(* The inductive invariant.                                                  *)

Todo == ctl[Bench].todo

\* Every field f of a control call has the value v.
Carries(todo, f, v) == \A i \in DOMAIN todo : todo[i].field = f => todo[i].value = v

\* The last thing a control call of the harness does is to set the level.
LevelLast(todo) ==
    /\ \A i \in DOMAIN todo : todo[i].field # "stored"
    /\ todo # <<>> => todo[Len(todo)].field = "level"

\* What was there when the level was set is all there is to be drawn.
Drained == prefetchRate = 0 /\ stored + ok + Pending <= underWay

\* The rate is set to 0 before the level is.
Draining ==
    /\ Carries(Todo, "prefetch_rate", 0) /\ Carries(Todo, "level", 0)
    /\ LevelLast(Todo)
    /\ \/ prefetchRate = 0
       \/ Todo # <<>> /\ Head(Todo).field = "prefetch_rate" /\ ctl[Bench].phase = "read"
    /\ ctl[Bench].phase = "write" => ctl[Bench].value = 0
    /\ Todo = <<>> => Drained

(***************************************************************************)
(* A tick may still go by a target of the capacity before, but then it has *)
(* not added anything since the level was set.                             *)
(***************************************************************************)
Filled ==
    /\ capacity = SmallCapacity
    /\ capacity <= stored + since
    /\ stored <= capacity + RateCeiling
    /\ loop = "room" => target <= capacity \/ stored <= capacity
    /\ loop = "apply" => added = 0 \/ stored <= capacity

\* The capacity is set before the level is.
Filling ==
    /\ Carries(Todo, "capacity", SmallCapacity) /\ Carries(Todo, "level", Unit)
    /\ LevelLast(Todo)
    /\ \/ capacity = SmallCapacity
       \/ Todo # <<>> /\ Head(Todo).field = "capacity" /\ ctl[Bench].phase = "read"
    /\ ctl[Bench].phase = "write" => ctl[Bench].value = SmallCapacity
    /\ Todo = <<>> => Filled

Alone == \A c \in Controllers \ {Bench} : ctl[c].todo = <<>>

Harness ==
    /\ ok \in Nat /\ since \in Nat /\ underWay \in Nat /\ meddled \in BOOLEAN
    /\ Todo = <<>> => ctl[Bench].phase = "read"
    /\ step \in {"start", "emptying"} => ok = 0
    /\ step \in {"batch", "load", "leave", "done"} => Todo = <<>>

Undisturbed ==
    ~meddled =>
        /\ Alone
        /\ step = "emptying" => Draining
        /\ step = "batch" => Drained
        /\ step \in {"idle phase", "leaving"} => Filling
        /\ step \in {"load", "leave", "done"} => Filled

BenchInv == OvershootInv /\ Harness /\ Undisturbed

-----------------------------------------------------------------------------
(* The control calls of the harness.                                         *)

\* No control call goes beyond the ceilings.
WithinCeilings(body) ==
    \A i \in DOMAIN body :
        /\ body[i].field = "capacity" => body[i].value <= CapacityCeiling
        /\ body[i].field = "prefetch_rate" => body[i].value <= RateCeiling

LEMMA BodiesAreCalls ==
    /\ Emptied \in Seq(Assignments) /\ WithinCeilings(Emptied)
    /\ Restored \in Seq(Assignments) /\ WithinCeilings(Restored)
    /\ POOL_CFG \in Seq(Assignments) /\ WithinCeilings(POOL_CFG)
<1>1. \A f \in {"capacity", "threshold", "refill_target", "prefetch_rate", "level", "stored"},
        v \in Int : [field |-> f, value |-> v] \in Assignments
  BY DEF Assignments
<1>2. /\ PrefetchRate \in Int /\ Unit \in Int /\ SmallCapacity \in Int /\ LowMark \in Int
      /\ HighMark \in Int /\ SlowRate \in Int
      /\ SmallCapacity <= CapacityCeiling /\ SlowRate <= RateCeiling /\ 0 <= RateCeiling
      /\ PrefetchRate <= RateCeiling
  BY PoolAssumption, BenchAssumption
<1>3. Emptied \in Seq(Assignments) /\ Restored \in Seq(Assignments) /\ POOL_CFG \in Seq(Assignments)
  BY <1>1, <1>2 DEF Emptied, Restored, POOL_CFG
<1>4. WithinCeilings(Emptied) /\ WithinCeilings(Restored)
  BY <1>2 DEF Emptied, Restored, WithinCeilings
<1>5. WithinCeilings(POOL_CFG)
  BY <1>2 DEF POOL_CFG, WithinCeilings
<1> QED  BY <1>3, <1>4, <1>5

LEMMA EmptiedInOrder ==
    /\ Emptied # <<>> /\ Head(Emptied).field = "prefetch_rate"
    /\ Carries(Emptied, "prefetch_rate", 0) /\ Carries(Emptied, "level", 0)
    /\ LevelLast(Emptied)
BY DEF Emptied, Carries, LevelLast

LEMMA ConfiguredInOrder ==
    /\ POOL_CFG # <<>> /\ Head(POOL_CFG).field = "capacity"
    /\ Carries(POOL_CFG, "capacity", SmallCapacity) /\ Carries(POOL_CFG, "level", Unit)
    /\ LevelLast(POOL_CFG)
BY DEF POOL_CFG, Carries, LevelLast

LEMMA NextField ==
    ASSUME NEW t \in Seq(Assignments), t # <<>>
    PROVE  /\ \A f, v : Carries(t, f, v) =>
                 /\ Carries(Tail(t), f, v)
                 /\ Head(t).field = f => Head(t).value = v
           /\ LevelLast(t) => /\ LevelLast(Tail(t))
                              /\ Head(t).field # "stored"
                              /\ Tail(t) = <<>> => Head(t).field = "level"
<1>1. /\ Len(t) \in Nat \ {0} /\ 1 \in DOMAIN t /\ Head(t) = t[1]
      /\ \A i \in DOMAIN Tail(t) : i + 1 \in DOMAIN t /\ Tail(t)[i] = t[i + 1]
      /\ Len(Tail(t)) = Len(t) - 1
      /\ Tail(t) = <<>> => Len(t) = 1
  OBVIOUS
<1>2. ASSUME NEW f, NEW v, Carries(t, f, v)
      PROVE  Carries(Tail(t), f, v) /\ (Head(t).field = f => Head(t).value = v)
  BY <1>1, <1>2 DEF Carries
<1>3. ASSUME LevelLast(t)
      PROVE  /\ LevelLast(Tail(t))
             /\ Head(t).field # "stored"
             /\ Tail(t) = <<>> => Head(t).field = "level"
  <2>1. Head(t).field # "stored" /\ (Tail(t) = <<>> => Head(t).field = "level")
    BY <1>1, <1>3 DEF LevelLast
  <2>2. \A i \in DOMAIN Tail(t) : Tail(t)[i].field # "stored"
    BY <1>1, <1>3 DEF LevelLast
  <2>3. ASSUME Tail(t) # <<>> PROVE Tail(t)[Len(Tail(t))] = t[Len(t)]
    BY <2>3
  <2> QED  BY <1>3, <2>1, <2>2, <2>3 DEF LevelLast
<1> QED  BY <1>2, <1>3

-----------------------------------------------------------------------------
(* The pool keeps its bound under the harness's draws and calls.             *)

\* A step of the pool or of one of its clients; no control call takes part.
Flow ==
    \/ \E n \in Nat \ {0} : Draw(n) \/ Refuse(n)
    \/ ArmAfterDraw
    \/ PrefetchStep
    \/ UNCHANGED vars

LEMMA FlowKeepsControl ==
    ASSUME TypeOK, Flow
    PROVE  /\ ctl' = ctl /\ UNCHANGED settings
           /\ consumedTotal \in Nat /\ consumedTotal' \in Nat
           /\ consumedTotal' - consumedTotal \in Nat
<1>1. consumedTotal \in Nat
  BY DEF TypeOK
<1>2. \/ consumedTotal' = consumedTotal
      \/ \E n \in Nat \ {0} : consumedTotal' = consumedTotal + n
  BY DEF Flow, Draw, Refuse, ArmAfterDraw, PrefetchStep, PrefetchBegin, PrefetchLow,
         PrefetchRoom, PrefetchApply, vars
<1>3. ctl' = ctl /\ UNCHANGED settings
  BY DEF Flow, Draw, Refuse, ArmAfterDraw, PrefetchStep, PrefetchBegin, PrefetchLow,
         PrefetchRoom, PrefetchApply, vars, control
<1>4. ASSUME NEW n \in Nat \ {0}, consumedTotal' = consumedTotal + n
      PROVE  consumedTotal' \in Nat /\ consumedTotal' - consumedTotal \in Nat
  BY <1>1, <1>4
<1>5. CASE consumedTotal' = consumedTotal
  BY <1>1, <1>3, <1>5
<1> QED  BY <1>1, <1>2, <1>3, <1>4, <1>5

LEMMA FlowBounded == OvershootInv /\ Flow => OvershootInv'
<1> SUFFICES ASSUME OvershootInv, Flow PROVE OvershootInv'
  OBVIOUS
<1>1. ASSUME NEW n \in Nat \ {0}, Draw(n) \/ Refuse(n) PROVE OvershootInv'
  <2>1. TypeOK'
    BY <1>1 DEF OvershootInv, TypeOK, Draw, Refuse, Covered, settings, control
  <2>2. CallsBounded'
    BY <1>1 DEF OvershootInv, CallsBounded, Draw, Refuse, control
  <2>3. /\ stored \in Nat /\ CapacityCeiling \in Nat /\ RateCeiling \in Nat
    BY PoolAssumption DEF OvershootInv, TypeOK
  <2> QED
    BY <1>1, <2>1, <2>2, <2>3
    DEF OvershootInv, OvershootBounded, Draw, Refuse, Covered, settings
<1>2. CASE ArmAfterDraw \/ PrefetchStep
  BY <1>2, OvershootTick
<1>3. CASE UNCHANGED vars
  BY <1>3 DEF OvershootInv, TypeOK, CallsBounded, OvershootBounded, vars, settings, control
<1> QED  BY <1>1, <1>2, <1>3 DEF Flow

LEMMA PostBounded ==
    ASSUME OvershootInv, NEW body \in Seq(Assignments), WithinCeilings(body),
           SetPool(Bench, body)
    PROVE  OvershootInv'
<1>1. TypeOK'
  BY BenchAssumption DEF OvershootInv, TypeOK, SetPool, Call, settings
<1>2. CallsBounded'
  BY PoolAssumption DEF OvershootInv, TypeOK, CallsBounded, SetPool, Call, WithinCeilings
<1> QED  BY <1>1, <1>2 DEF OvershootInv, OvershootBounded, SetPool, settings

-----------------------------------------------------------------------------
(* A drained and a filled pool under draws and ticks.                        *)

LEMMA PoolNumbers ==
    ASSUME OvershootInv
    PROVE  /\ stored \in Nat /\ target \in Nat /\ added \in Nat /\ prefetchRate \in Nat
           /\ capacity \in Nat \ {0} /\ consumedTotal \in Nat
           /\ CapacityCeiling \in Nat /\ RateCeiling \in Nat
           /\ Pending \in Nat /\ Pending <= RateCeiling
           /\ HighWatermark \in Nat /\ HighWatermark <= capacity
<1>1. HighWatermark \in Nat /\ HighWatermark <= capacity
  BY ShareOfCapacity DEF OvershootInv, TypeOK, HighWatermark
<1> QED  BY <1>1, PoolAssumption DEF OvershootInv, TypeOK, Pending

\* With the rate at 0, what is drawn is missing from the pool and its tick.
LEMMA NothingIsProduced ==
    ASSUME OvershootInv, prefetchRate = 0, Flow
    PROVE  /\ stored' \in Nat /\ Pending' \in Nat
           /\ stored' + Pending' + (consumedTotal' - consumedTotal) <= stored + Pending
<1>n. /\ stored \in Nat /\ target \in Nat /\ added \in Nat /\ consumedTotal \in Nat
      /\ Pending \in Nat
  BY PoolNumbers
<1>1. ASSUME NEW n \in Nat \ {0}, Draw(n)
      PROVE  /\ stored' = stored - n /\ consumedTotal' = consumedTotal + n
             /\ n <= stored /\ Pending' = 0
  BY <1>1 DEF Draw, Covered, Pending
<1>2. CASE (\E n \in Nat \ {0} : Refuse(n)) \/ UNCHANGED vars
  <2>1. stored' = stored /\ consumedTotal' = consumedTotal /\ Pending' = Pending
    BY <1>2 DEF Refuse, vars, Pending
  <2> QED  BY <1>n, <2>1
<1>3. CASE ArmAfterDraw \/ PrefetchBegin \/ PrefetchLow
  <2>1. stored' = stored /\ consumedTotal' = consumedTotal /\ Pending' = 0
    BY <1>3 DEF ArmAfterDraw, PrefetchBegin, PrefetchLow, Pending
  <2> QED  BY <1>n, <2>1
<1>4. CASE PrefetchRoom
  <2>1. Production = 0
    BY <1>n DEF Production, SmallerOf, LargerOf
  <2>2. stored' = stored /\ consumedTotal' = consumedTotal /\ Pending' = 0
    BY <1>4, <2>1 DEF PrefetchRoom, Pending
  <2> QED  BY <1>n, <2>2
<1>5. CASE PrefetchApply
  <2>1. stored' = stored + Pending /\ consumedTotal' = consumedTotal /\ Pending' = 0
    BY <1>5 DEF PrefetchApply, Pending
  <2> QED  BY <1>n, <2>1
<1>6. ASSUME NEW n \in Nat \ {0}, Draw(n)
      PROVE  /\ stored' \in Nat /\ Pending' \in Nat
             /\ stored' + Pending' + (consumedTotal' - consumedTotal) <= stored + Pending
  BY <1>n, <1>1, <1>6
<1> QED  BY <1>2, <1>3, <1>4, <1>5, <1>6 DEF Flow, PrefetchStep

LEMMA DrainedGoesOn ==
    ASSUME OvershootInv, Drained, Flow, ok \in Nat, ok' \in Nat,
           underWay \in Nat, underWay' = underWay,
           ok' <= ok + (consumedTotal' - consumedTotal)
    PROVE  Drained'
<1>1. UNCHANGED settings /\ consumedTotal \in Nat /\ consumedTotal' \in Nat
  BY FlowKeepsControl DEF OvershootInv
<1>2. prefetchRate = 0 /\ prefetchRate' = 0
  BY <1>1 DEF settings, Drained
<1>3. /\ stored \in Nat /\ Pending \in Nat /\ underWay \in Nat
      /\ stored + ok + Pending <= underWay
  BY PoolNumbers DEF Drained
<1>4. /\ stored' \in Nat /\ Pending' \in Nat
      /\ stored' + Pending' + (consumedTotal' - consumedTotal) <= stored + Pending
  BY <1>2, NothingIsProduced
<1>5. PICK s \in Nat, o \in Nat, p \in Nat, c \in Nat :
         s = stored /\ o = ok /\ p = Pending /\ c = consumedTotal
  BY <1>1, <1>3
<1>6. PICK t \in Nat, u \in Nat, q \in Nat, d \in Nat :
         t = stored' /\ u = ok' /\ q = Pending' /\ d = consumedTotal'
  BY <1>1, <1>4
<1>7. s + o + p <= underWay
  BY <1>3, <1>5
<1>8. t + q + (d - c) <= s + p /\ u <= o + (d - c)
  BY <1>4, <1>5, <1>6
<1>9. t + u + q <= underWay
  BY <1>3, <1>7, <1>8
<1>10. stored' + ok' + Pending' <= underWay
  BY <1>6, <1>9
<1> QED  BY <1>2, <1>10 DEF Drained

LEMMA FilledGoesOn ==
    ASSUME OvershootInv, Filled, Flow, since \in Nat,
           since' = since + (consumedTotal' - consumedTotal)
    PROVE  Filled'
<1>1. UNCHANGED settings
  BY FlowKeepsControl DEF OvershootInv
<1>2. capacity' = capacity /\ capacity' = SmallCapacity
  BY <1>1 DEF settings, Filled
<1>n. /\ stored \in Nat /\ target \in Nat /\ added \in Nat /\ prefetchRate \in Nat
      /\ capacity \in Nat \ {0} /\ consumedTotal \in Nat
      /\ CapacityCeiling \in Nat /\ RateCeiling \in Nat
      /\ HighWatermark \in Nat /\ HighWatermark <= capacity
  BY PoolNumbers
<1> USE <1>n, <1>2
<1>3. ASSUME NEW n \in Nat \ {0}, Draw(n) PROVE Filled'
  BY <1>3 DEF Draw, Filled, Covered
<1>4. CASE (\E n \in Nat \ {0} : Refuse(n)) \/ ArmAfterDraw \/ UNCHANGED vars
  BY <1>4 DEF Refuse, ArmAfterDraw, vars, Filled
<1>5. CASE PrefetchBegin \/ PrefetchLow
  BY <1>5 DEF PrefetchBegin, PrefetchLow, Filled
<1>6. CASE PrefetchRoom
  <2>1. Production = 0 \/ stored < target
    BY DEF Production, SmallerOf, LargerOf
  <2> QED  BY <1>6, <2>1 DEF PrefetchRoom, Filled
<1>7. CASE PrefetchApply
  <2>1. added <= RateCeiling
    BY <1>7 DEF PrefetchApply, OvershootInv
  <2> QED  BY <1>7, <2>1 DEF PrefetchApply, Filled
<1> QED  BY <1>3, <1>4, <1>5, <1>6, <1>7 DEF Flow, PrefetchStep

-----------------------------------------------------------------------------
(* The harness's control calls, field by field.                              *)

\* What the next store of a call is, and what is left of it.
LEMMA FieldEffect ==
    ASSUME OvershootInv, SetField(Bench), LevelLast(Todo)
    PROVE  /\ Todo # <<>> /\ Todo \in Seq(Assignments)
           /\ \/ /\ SetSetting(Bench) /\ Field(Bench) # "level"
                 /\ Todo' = Tail(Todo) /\ ctl'[Bench].phase = "read"
              \/ /\ ComputeLevel(Bench) /\ Field(Bench) = "level" /\ ctl[Bench].phase = "read"
                 /\ Todo' = Todo /\ ctl'[Bench].phase = "write"
                 /\ ctl'[Bench].value = (Ratio(Value(Bench)) * capacity) \div Unit
              \/ /\ StoreLevel(Bench) /\ ctl[Bench].phase = "write"
                 /\ Todo' = Tail(Todo) /\ ctl'[Bench].phase = "read"
<1>1. /\ Todo # <<>> /\ Todo \in Seq(Assignments) /\ Bench \in Controllers
      /\ ctl \in [Controllers ->
                    [todo : Seq(Assignments), phase : {"read", "write"}, value : Nat]]
  BY BenchAssumption DEF SetField, Todo, OvershootInv, TypeOK
<1>2. /\ Done(Bench).todo = Tail(Todo) /\ Done(Bench).phase = "read"
  BY DEF Done, Call, Todo
<1>3. ASSUME SetSetting(Bench)
      PROVE  /\ Field(Bench) # "level"
             /\ Todo' = Tail(Todo) /\ ctl'[Bench].phase = "read"
  <2>1. ctl' = [ctl EXCEPT ![Bench] = Done(Bench)] /\ Field(Bench) # "level"
    BY <1>3 DEF SetSetting
  <2> QED  BY <1>1, <1>2, <2>1 DEF Todo
<1>4. ASSUME ComputeLevel(Bench)
      PROVE  /\ Field(Bench) = "level" /\ ctl[Bench].phase = "read"
             /\ Todo' = Todo /\ ctl'[Bench].phase = "write"
             /\ ctl'[Bench].value = (Ratio(Value(Bench)) * capacity) \div Unit
  <2>1. Head(Todo).field # "stored"
    BY <1>1, NextField
  <2>2. Field(Bench) = "level"
    BY <1>4, <2>1 DEF ComputeLevel, Field, Todo
  <2>3. ctl' = [ctl EXCEPT ![Bench] =
                   Call(Todo, "write", (Ratio(Value(Bench)) * capacity) \div Unit)]
    BY <1>4, <2>2 DEF ComputeLevel, Requested, Todo
  <2>4. ctl'[Bench] = Call(Todo, "write", (Ratio(Value(Bench)) * capacity) \div Unit)
    BY <1>1, <2>3
  <2>5. ctl[Bench].phase = "read"
    BY <1>4 DEF ComputeLevel
  <2> QED  BY <2>2, <2>4, <2>5 DEF Call, Todo
<1>5. ASSUME StoreLevel(Bench)
      PROVE  /\ ctl[Bench].phase = "write"
             /\ Todo' = Tail(Todo) /\ ctl'[Bench].phase = "read"
  <2>1. ctl' = [ctl EXCEPT ![Bench] = Done(Bench)] /\ ctl[Bench].phase = "write"
    BY <1>5 DEF StoreLevel
  <2> QED  BY <1>1, <1>2, <2>1 DEF Todo
<1> QED  BY <1>1, <1>3, <1>4, <1>5 DEF SetField

LEMMA DrainingGoesOn ==
    ASSUME OvershootInv, Draining, SetField(Bench), ok = 0, ok' = 0,
           underWay' = IF LevelIsSet THEN Pending ELSE underWay
    PROVE  Draining'
<1>1. /\ Todo # <<>> /\ Todo \in Seq(Assignments)
      /\ \/ /\ SetSetting(Bench) /\ Field(Bench) # "level"
            /\ Todo' = Tail(Todo) /\ ctl'[Bench].phase = "read"
         \/ /\ ComputeLevel(Bench) /\ Field(Bench) = "level" /\ ctl[Bench].phase = "read"
            /\ Todo' = Todo /\ ctl'[Bench].phase = "write"
            /\ ctl'[Bench].value = (Ratio(Value(Bench)) * capacity) \div Unit
         \/ /\ StoreLevel(Bench) /\ ctl[Bench].phase = "write"
            /\ Todo' = Tail(Todo) /\ ctl'[Bench].phase = "read"
  BY FieldEffect DEF Draining
<1>2. /\ Carries(Tail(Todo), "prefetch_rate", 0) /\ Carries(Tail(Todo), "level", 0)
      /\ LevelLast(Tail(Todo))
      /\ Tail(Todo) = <<>> => Field(Bench) = "level"
      /\ Field(Bench) = "prefetch_rate" => Value(Bench) = 0
      /\ Field(Bench) = "level" => Value(Bench) = 0
      /\ Field(Bench) = Head(Todo).field
  BY <1>1, NextField DEF Draining, Field, Value, Todo
<1>3. CASE SetSetting(Bench) /\ Field(Bench) # "level" /\ Todo' = Tail(Todo)
           /\ ctl'[Bench].phase = "read"
  <2>1. prefetchRate' = 0
    <3>1. CASE Field(Bench) = "prefetch_rate"
      BY <1>2, <1>3, <3>1 DEF SetSetting, LargerOf
    <3>2. CASE Field(Bench) # "prefetch_rate"
      BY <1>2, <1>3, <3>2 DEF SetSetting, settings, Draining
    <3> QED  BY <3>1, <3>2
  <2> QED  BY <1>2, <1>3, <2>1 DEF Draining
<1>4. CASE ComputeLevel(Bench) /\ Field(Bench) = "level" /\ Todo' = Todo
           /\ ctl'[Bench].value = (Ratio(Value(Bench)) * capacity) \div Unit
  <2>1. Ratio(Value(Bench)) = 0
    BY <1>2, <1>4, PoolAssumption DEF Ratio, SmallerOf, LargerOf
  <2>2. (0 * capacity) \div Unit = 0
    BY PoolAssumption, PoolNumbers
  <2>3. prefetchRate' = 0
    BY <1>2, <1>4 DEF ComputeLevel, settings, Draining
  <2> QED  BY <1>1, <1>4, <2>1, <2>2, <2>3 DEF Draining
<1>5. CASE StoreLevel(Bench) /\ ctl[Bench].phase = "write" /\ Todo' = Tail(Todo)
           /\ ctl'[Bench].phase = "read"
  <2>1. prefetchRate' = 0 /\ stored' = 0
    BY <1>5 DEF StoreLevel, settings, Draining
  <2>2. Pending' = Pending
    BY <1>5 DEF StoreLevel, Pending
  <2>3. Pending \in Nat /\ underWay' = Pending
    BY <1>5, PoolNumbers DEF LevelIsSet
  <2>4. stored' + ok' + Pending' <= underWay'
    BY <2>1, <2>2, <2>3
  <2> QED  BY <1>2, <1>5, <2>1, <2>4 DEF Draining, Drained
<1> QED  BY <1>1, <1>3, <1>4, <1>5

LEMMA FillingGoesOn ==
    ASSUME OvershootInv, Filling, SetField(Bench), since' = IF LevelIsSet THEN 0 ELSE since
    PROVE  Filling'
<1>1. /\ Todo # <<>> /\ Todo \in Seq(Assignments)
      /\ \/ /\ SetSetting(Bench) /\ Field(Bench) # "level"
            /\ Todo' = Tail(Todo) /\ ctl'[Bench].phase = "read"
         \/ /\ ComputeLevel(Bench) /\ Field(Bench) = "level" /\ ctl[Bench].phase = "read"
            /\ Todo' = Todo /\ ctl'[Bench].phase = "write"
            /\ ctl'[Bench].value = (Ratio(Value(Bench)) * capacity) \div Unit
         \/ /\ StoreLevel(Bench) /\ ctl[Bench].phase = "write"
            /\ Todo' = Tail(Todo) /\ ctl'[Bench].phase = "read"
  BY FieldEffect DEF Filling
<1>2. /\ Carries(Tail(Todo), "capacity", SmallCapacity) /\ Carries(Tail(Todo), "level", Unit)
      /\ LevelLast(Tail(Todo))
      /\ Tail(Todo) = <<>> => Field(Bench) = "level"
      /\ Field(Bench) = "capacity" => Value(Bench) = SmallCapacity
      /\ Field(Bench) = "level" => Value(Bench) = Unit
      /\ Field(Bench) = Head(Todo).field
  BY <1>1, NextField DEF Filling, Field, Value, Todo
<1>3. SmallCapacity \in Nat \ {0} /\ Unit \in Nat \ {0} /\ RateCeiling \in Nat
  BY PoolAssumption, BenchAssumption
<1>4. CASE SetSetting(Bench) /\ Field(Bench) # "level" /\ Todo' = Tail(Todo)
           /\ ctl'[Bench].phase = "read"
  <2>1. capacity' = SmallCapacity
    <3>1. CASE Field(Bench) = "capacity"
      BY <1>2, <1>3, <1>4, <3>1 DEF SetSetting, LargerOf
    <3>2. CASE Field(Bench) # "capacity"
      BY <1>2, <1>4, <3>2 DEF SetSetting, settings, Filling
    <3> QED  BY <3>1, <3>2
  <2> QED  BY <1>2, <1>4, <2>1 DEF Filling
<1>5. CASE ComputeLevel(Bench) /\ Field(Bench) = "level" /\ Todo' = Todo
           /\ ctl'[Bench].value = (Ratio(Value(Bench)) * capacity) \div Unit
  <2>1. Ratio(Value(Bench)) = Unit
    BY <1>2, <1>3, <1>5 DEF Ratio, SmallerOf, LargerOf
  <2>2. capacity = SmallCapacity /\ capacity' = SmallCapacity
    BY <1>2, <1>5 DEF ComputeLevel, settings, Filling
  <2>3. (Unit * SmallCapacity) \div Unit = SmallCapacity
    BY <1>3
  <2> QED  BY <1>1, <1>5, <2>1, <2>2, <2>3 DEF Filling
<1>6. CASE StoreLevel(Bench) /\ ctl[Bench].phase = "write" /\ Todo' = Tail(Todo)
           /\ ctl'[Bench].phase = "read"
  <2>1. capacity' = SmallCapacity /\ stored' = SmallCapacity
    BY <1>6 DEF StoreLevel, settings, Filling
  <2>2. since' = 0
    BY <1>6 DEF LevelIsSet
  <2>3. SmallCapacity <= SmallCapacity + 0 /\ SmallCapacity <= SmallCapacity + RateCeiling
        /\ SmallCapacity <= SmallCapacity
    BY <1>3
  <2> QED  BY <1>2, <1>6, <2>1, <2>2, <2>3 DEF Filling, Filled
<1> QED  BY <1>1, <1>4, <1>5, <1>6

-----------------------------------------------------------------------------
(* Every step of the harness and of the pool keeps the invariant.            *)

LEMMA BenchStarts == BenchInit => BenchInv
<1> SUFFICES ASSUME BenchInit PROVE BenchInv
  OBVIOUS
<1>1. OvershootInv
  BY OvershootInit DEF BenchInit
<1>2. ctl[Bench].todo = <<>> /\ ctl[Bench].phase = "read"
  BY BenchAssumption DEF BenchInit, Init, Idle, Call
<1>3. Alone
  BY DEF BenchInit, Init, Alone, Idle, Call
<1> QED  BY <1>1, <1>2, <1>3 DEF BenchInit, BenchInv, Harness, Undisturbed, Todo

\* While nobody meddles, the other worker threads have nothing to do.
LEMMA StillAlone ==
    ASSUME Alone, Observe, ~meddled'
    PROVE  ~meddled /\ Alone'
BY DEF Alone, Observe

LEMMA NothingDrawn == \A n, c \in Nat : n + (c - c) = n
OBVIOUS

LEMMA FlowStep ==
    ASSUME BenchInv, Flow, Observe, step' = step,
           \/ ok' = ok
           \/ step = "batch" /\ ok' = ok + 1 /\ consumedTotal' = consumedTotal + 1
    PROVE  BenchInv'
<1>1. /\ ctl' = ctl /\ UNCHANGED settings /\ Todo' = Todo
      /\ consumedTotal \in Nat /\ consumedTotal' \in Nat /\ consumedTotal' - consumedTotal \in Nat
  BY FlowKeepsControl DEF BenchInv, OvershootInv, Todo
<1>0. underWay' = underWay
  BY <1>1 DEF Observe, LevelIsSet
<1>2. since' = since + (consumedTotal' - consumedTotal) /\ since' \in Nat
  <2>1. since' = since + (consumedTotal' - consumedTotal)
    BY <1>1 DEF Observe, LevelIsSet
  <2>2. PICK d \in Nat : d = consumedTotal' - consumedTotal
    BY <1>1
  <2>3. since \in Nat /\ since' = since + d
    BY <2>1, <2>2 DEF BenchInv, Harness
  <2> QED  BY <2>1, <2>3
<1>3. ok' \in Nat /\ ok' <= ok + (consumedTotal' - consumedTotal)
  <2>1. ok \in Nat
    BY DEF BenchInv, Harness
  <2>2. PICK d \in Nat : d = consumedTotal' - consumedTotal
    BY <1>1
  <2>3. CASE ok' = ok
    <3>1. ok \in Nat /\ ok <= ok + d
      BY <2>1
    <3> QED  BY <2>2, <2>3, <3>1
  <2>4. CASE ok' = ok + 1 /\ consumedTotal' = consumedTotal + 1
    <3>1. d = 1
      BY <1>1, <2>2, <2>4
    <3>2. ok + 1 \in Nat /\ ok + 1 <= ok + d
      BY <2>1, <3>1
    <3> QED  BY <2>2, <2>4, <3>2
  <2> QED  BY <2>3, <2>4
<1>4. OvershootInv'
  BY FlowBounded DEF BenchInv
<1>5. Harness'
  <2>1. meddled' \in BOOLEAN
    BY DEF Observe
  <2> QED  BY <1>0, <1>1, <1>2, <1>3, <2>1 DEF BenchInv, Harness
<1>6. Undisturbed'
  <2> SUFFICES ASSUME ~meddled'
               PROVE  /\ Alone'
                      /\ step = "emptying" => Draining'
                      /\ step = "batch" => Drained'
                      /\ step \in {"idle phase", "leaving"} => Filling'
                      /\ step \in {"load", "leave", "done"} => Filled'
    BY DEF Undisturbed
  <2>1. ~meddled
    BY DEF Observe
  <2>2. Alone'
    BY <2>1, StillAlone DEF BenchInv, Undisturbed
  <2>3. Drained => Drained'
    BY <1>0, <1>3, DrainedGoesOn DEF BenchInv, Harness
  <2>4. Filled => Filled'
    BY <1>2, FilledGoesOn DEF BenchInv, Harness
  <2>5. prefetchRate' = prefetchRate /\ capacity' = capacity
    BY <1>1 DEF settings
  <2>6. Draining => Draining'
    BY <1>1, <2>3, <2>5 DEF Draining
  <2>7. Filling => Filling'
    BY <1>1, <2>4, <2>5 DEF Filling
  <2> QED  BY <2>1, <2>2, <2>3, <2>4, <2>6, <2>7 DEF BenchInv, Undisturbed
<1> QED  BY <1>4, <1>5, <1>6 DEF BenchInv

LEMMA PostStep ==
    ASSUME BenchInv, Observe, ok' = ok, NEW body \in Seq(Assignments), body # <<>>,
           WithinCeilings(body), SetPool(Bench, body),
           step' \in {"emptying", "restoring", "idle phase", "leaving"},
           step' = "emptying" => step = "start" /\ body = Emptied,
           step' \in {"idle phase", "leaving"} => body = POOL_CFG
    PROVE  BenchInv'
<1>1. /\ ctl \in [Controllers ->
                    [todo : Seq(Assignments), phase : {"read", "write"}, value : Nat]]
      /\ Bench \in Controllers /\ consumedTotal \in Nat
  BY BenchAssumption DEF BenchInv, OvershootInv, TypeOK
<1>2. /\ ctl' = [ctl EXCEPT ![Bench] = Call(body, "read", 0)]
      /\ Todo = <<>> /\ consumedTotal' = consumedTotal
  BY DEF SetPool, Todo
<1>3. Todo' = body /\ ctl'[Bench].phase = "read"
  BY <1>1, <1>2 DEF Todo, Call
<1>4. since' \in Nat
  <2>1. since' = IF LevelIsSet THEN 0 ELSE since + (consumedTotal - consumedTotal)
    BY <1>2 DEF Observe
  <2>2. since \in Nat
    BY DEF BenchInv, Harness
  <2>3. since + (consumedTotal - consumedTotal) = since
    BY <1>1, <2>2, NothingDrawn
  <2> QED  BY <2>1, <2>2, <2>3
<1>5. OvershootInv'
  BY PostBounded DEF BenchInv
<1>6. Harness'
  <2>1. meddled' \in BOOLEAN /\ underWay' \in Nat
    BY PoolNumbers DEF Observe, BenchInv, Harness
  <2> QED  BY <1>3, <1>4, <2>1 DEF BenchInv, Harness
<1>7. Undisturbed'
  <2> SUFFICES ASSUME ~meddled'
               PROVE  /\ Alone'
                      /\ step' = "emptying" => Draining'
                      /\ step' \in {"idle phase", "leaving"} => Filling'
    BY DEF Undisturbed
  <2>1. ~meddled
    BY DEF Observe
  <2>2. Alone'
    BY <2>1, StillAlone DEF BenchInv, Undisturbed
  <2>3. ASSUME step' = "emptying" PROVE Draining'
    BY <1>3, <2>3, EmptiedInOrder DEF Draining
  <2>4. ASSUME step' \in {"idle phase", "leaving"} PROVE Filling'
    BY <1>3, <2>4, ConfiguredInOrder DEF Filling
  <2> QED  BY <2>2, <2>3, <2>4
<1> QED  BY <1>5, <1>6, <1>7 DEF BenchInv

LEMMA GoesStep ==
    ASSUME BenchInv, Observe, ok' = ok, UNCHANGED vars, Todo = <<>>,
           <<step, step'>> \in {<<"emptying", "batch">>, <<"batch", "restore">>,
                                <<"restoring", "configure">>, <<"idle phase", "load">>,
                                <<"load", "leave">>, <<"leaving", "done">>}
    PROVE  BenchInv'
<1>1. Flow
  BY DEF Flow
<1>2. ctl' = ctl /\ Todo' = Todo /\ consumedTotal' = consumedTotal /\ consumedTotal \in Nat
  BY DEF vars, control, Todo, BenchInv, OvershootInv, TypeOK
<1>3. since' = since /\ since \in Nat
  <2>1. since' = since + (consumedTotal - consumedTotal)
    BY <1>2 DEF Observe, LevelIsSet
  <2>2. since \in Nat
    BY DEF BenchInv, Harness
  <2>3. since + (consumedTotal - consumedTotal) = since
    BY <1>2, <2>2, NothingDrawn
  <2> QED  BY <2>1, <2>2, <2>3
<1>0. underWay' = underWay
  BY <1>2 DEF Observe, LevelIsSet
<1>4. OvershootInv'
  BY <1>1, FlowBounded DEF BenchInv
<1>5. Harness'
  <2>1. meddled' \in BOOLEAN
    BY DEF Observe
  <2> QED  BY <1>0, <1>2, <1>3, <2>1 DEF BenchInv, Harness
<1>6. Undisturbed'
  <2> SUFFICES ASSUME ~meddled'
               PROVE  /\ Alone'
                      /\ step' = "batch" => Drained'
                      /\ step' \in {"load", "leave", "done"} => Filled'
    BY DEF Undisturbed
  <2>1. ~meddled
    BY DEF Observe
  <2>2. Alone'
    BY <2>1, StillAlone DEF BenchInv, Undisturbed
  <2>3. Drained => Drained'
    BY <1>0 DEF Drained, Pending, vars, settings
  <2>4. Filled => Filled'
    BY <1>3 DEF Filled, vars, settings
  <2>5. step' = "batch" => Drained
    BY <2>1 DEF BenchInv, Undisturbed, Draining
  <2>6. step' \in {"load", "leave", "done"} => Filled
    BY <2>1 DEF BenchInv, Undisturbed, Filling
  <2> QED  BY <2>2, <2>3, <2>4, <2>5, <2>6
<1> QED  BY <1>4, <1>5, <1>6 DEF BenchInv

LEMMA ControlStep ==
    ASSUME BenchInv, Observe, ok' = ok, step' = step,
           NEW c \in Controllers,
           SetField(c) \/ (c # Bench /\ \E u \in Updates : SetPool(c, u))
    PROVE  BenchInv'
<1>1. /\ ctl \in [Controllers ->
                    [todo : Seq(Assignments), phase : {"read", "write"}, value : Nat]]
      /\ Bench \in Controllers /\ consumedTotal \in Nat
  BY BenchAssumption DEF BenchInv, OvershootInv, TypeOK
<1>2. consumedTotal' = consumedTotal
  BY DEF SetField, SetSetting, ComputeLevel, StoreLevel, SetPool
<1>3. since' = (IF LevelIsSet THEN 0 ELSE since) /\ since' \in Nat
  <2>1. since' = IF LevelIsSet THEN 0 ELSE since + (consumedTotal - consumedTotal)
    BY <1>2 DEF Observe
  <2>2. since \in Nat
    BY DEF BenchInv, Harness
  <2>3. since + (consumedTotal - consumedTotal) = since
    BY <1>1, <2>2, NothingDrawn
  <2> QED  BY <2>1, <2>2, <2>3
<1>4. OvershootInv'
  BY OvershootControl DEF BenchInv, Control
<1>0. underWay' = (IF LevelIsSet THEN Pending ELSE underWay) /\ underWay' \in Nat
  BY PoolNumbers DEF Observe, BenchInv, Harness
<1>5. CASE c # Bench
  <2>1. ctl'[Bench] = ctl[Bench] /\ Todo' = Todo
    BY <1>1, <1>5 DEF SetField, SetSetting, ComputeLevel, StoreLevel, SetPool, Todo
  <2>2. Harness'
    <3>1. meddled' \in BOOLEAN
      BY DEF Observe
    <3> QED  BY <1>0, <1>3, <2>1, <3>1 DEF BenchInv, Harness
  <2>3. ASSUME ~meddled' PROVE FALSE
    <3>1. Alone /\ ctl'[c] = ctl[c]
      BY <1>5, <2>3 DEF Observe, BenchInv, Undisturbed
    <3>2. ctl[c].todo = <<>>
      BY <1>5, <3>1 DEF Alone
    <3>3. PICK u \in Updates : SetPool(c, u)
      BY <3>2 DEF SetField
    <3>4. ctl'[c] = Call(u, "read", 0) /\ u # <<>>
      BY <1>1, <3>3 DEF SetPool
    <3>5. ctl'[c].todo = u
      BY <3>4 DEF Call
    <3> QED  BY <3>1, <3>2, <3>4, <3>5
  <2> QED  BY <1>4, <2>2, <2>3 DEF BenchInv, Undisturbed
<1>6. CASE c = Bench
  <2>1. SetField(Bench) /\ Todo # <<>>
    BY <1>6 DEF SetField, Todo
  <2>2. step \notin {"batch", "load", "leave", "done"}
    BY <2>1 DEF BenchInv, Harness
  <2>3. Harness'
    <3>1. meddled' \in BOOLEAN
      BY DEF Observe
    <3>2. Todo' = <<>> => ctl'[Bench].phase = "read"
      <4>1. ASSUME ComputeLevel(Bench) PROVE Todo' = Todo
        <5>1. ctl'[Bench] = Call(ctl[Bench].todo, "write", Requested(Bench))
          BY <1>1, <4>1 DEF ComputeLevel
        <5> QED  BY <5>1 DEF Call, Todo
      <4>2. ASSUME SetSetting(Bench) \/ StoreLevel(Bench) PROVE ctl'[Bench].phase = "read"
        <5>1. ctl'[Bench] = Done(Bench)
          BY <1>1, <4>2 DEF SetSetting, StoreLevel
        <5> QED  BY <5>1 DEF Done, Call
      <4> QED  BY <2>1, <4>1, <4>2 DEF SetField
    <3> QED  BY <1>0, <1>3, <2>2, <3>1, <3>2 DEF BenchInv, Harness
  <2>4. Undisturbed'
    <3> SUFFICES ASSUME ~meddled'
                 PROVE  /\ Alone'
                        /\ step = "emptying" => Draining'
                        /\ step \in {"idle phase", "leaving"} => Filling'
      BY <2>2 DEF Undisturbed
    <3>1. ~meddled
      BY DEF Observe
    <3>2. Alone'
      BY <3>1, StillAlone DEF BenchInv, Undisturbed
    <3>3. ASSUME step = "emptying" PROVE Draining'
      <4>1. ok = 0 /\ ok' = 0 /\ Draining /\ OvershootInv
        BY <3>1, <3>3 DEF BenchInv, Harness, Undisturbed
      <4> QED  BY <1>0, <2>1, <4>1, DrainingGoesOn
    <3>4. ASSUME step \in {"idle phase", "leaving"} PROVE Filling'
      <4>1. Filling /\ OvershootInv
        BY <3>1, <3>4 DEF BenchInv, Undisturbed
      <4> QED  BY <1>3, <2>1, <4>1, FillingGoesOn
    <3> QED  BY <3>2, <3>3, <3>4
  <2> QED  BY <1>4, <2>3, <2>4 DEF BenchInv
<1> QED  BY <1>5, <1>6

LEMMA BenchStep == BenchInv /\ [BenchNext]_<<vars, benchVars>> => BenchInv'
<1> SUFFICES ASSUME BenchInv, [BenchNext]_<<vars, benchVars>> PROVE BenchInv'
  OBVIOUS
<1>1. CASE UNCHANGED <<vars, benchVars>>
  <2>1. OvershootInv'
    BY <1>1, FlowBounded DEF BenchInv, Flow
  <2>2. Harness' /\ Todo' = Todo /\ ctl' = ctl
    BY <1>1 DEF vars, benchVars, control, BenchInv, Harness, Todo
  <2>3. (Drained => Drained') /\ (Filled => Filled') /\ (Alone => Alone')
    BY <1>1 DEF vars, benchVars, settings, control, Drained, Pending, Filled, Alone
  <2>4. (Draining => Draining') /\ (Filling => Filling')
    BY <1>1, <2>2, <2>3 DEF vars, settings, Draining, Filling
  <2>5. Undisturbed'
    BY <1>1, <2>3, <2>4 DEF benchVars, BenchInv, Undisturbed
  <2> QED  BY <2>1, <2>2, <2>5 DEF BenchInv
<1>2. ASSUME Observe, NEW from, NEW body, NEW to, Post(from, body, to),
             <<from, body, to>> \in {<<"start", Emptied, "emptying">>,
                                     <<"restore", Restored, "restoring">>,
                                     <<"configure", POOL_CFG, "idle phase">>,
                                     <<"leave", POOL_CFG, "leaving">>}
      PROVE  BenchInv'
  <2>1. body \in {Emptied, Restored, POOL_CFG}
    BY <1>2
  <2>2. body \in Seq(Assignments) /\ WithinCeilings(body)
    BY <2>1, BodiesAreCalls
  <2>3. step = from /\ step' = to /\ ok' = ok /\ SetPool(Bench, body) /\ body # <<>>
    BY <1>2 DEF Post, SetPool
  <2> QED  BY <1>2, <2>2, <2>3, PostStep
<1>3. ASSUME Observe, NEW from, NEW to, Goes(from, to),
             <<from, to>> \in {<<"emptying", "batch">>, <<"batch", "restore">>,
                               <<"restoring", "configure">>, <<"idle phase", "load">>,
                               <<"load", "leave">>, <<"leaving", "done">>}
      PROVE  BenchInv'
  BY <1>3, GoesStep DEF Goes, Todo
<1>4. ASSUME Observe, Batch PROVE BenchInv'
  <2>1. CASE Draw(1) /\ ok' = ok + 1
    <3>1. Flow /\ step = "batch" /\ step' = step /\ consumedTotal' = consumedTotal + 1
      BY <1>4, <2>1 DEF Flow, Batch, Draw
    <3> QED  BY <1>4, <2>1, <3>1, FlowStep
  <2>2. CASE Unserved(1) /\ ok' = ok
    <3>1. Flow /\ step' = step
      BY <1>4, <2>2 DEF Flow, Batch, Unserved
    <3> QED  BY <1>4, <2>2, <3>1, FlowStep
  <2> QED  BY <1>4, <2>1, <2>2 DEF Batch, Served
<1>5. ASSUME Observe, Asks PROVE BenchInv'
  BY <1>5, FlowStep DEF Flow, Asks
<1>6. ASSUME Observe, IsAnswered PROVE BenchInv'
  <2>1. Flow /\ step' = step /\ ok' = ok
    BY <1>6, BenchAssumption DEF Flow, IsAnswered, Served, Unserved
  <2> QED  BY <1>6, <2>1, FlowStep
<1>7. ASSUME Observe, Pool, UNCHANGED <<step, ok, err, flying>> PROVE BenchInv'
  <2>1. CASE EncKeys \/ ArmAfterDraw \/ PrefetchStep
    <3>1. Flow
      BY <2>1, PoolAssumption DEF Flow, EncKeys
    <3> QED  BY <1>7, <3>1, FlowStep
  <2>2. CASE Meddle \/ \E c \in Controllers : SetField(c)
    BY <1>7, <2>2, ControlStep DEF Meddle
  <2> QED  BY <1>7, <2>1, <2>2 DEF Pool
<1>8. CASE BenchNext
  <2>1. Observe /\ (ExhaustedPool \/ SawTooth \/ (Pool /\ UNCHANGED <<step, ok, err, flying>>))
    BY <1>8 DEF BenchNext
  <2>2. CASE ExhaustedPool
    BY <1>2, <1>3, <1>4, <2>1, <2>2 DEF ExhaustedPool, BatchEnds
  <2>3. CASE SawTooth
    BY <1>2, <1>3, <1>5, <1>6, <2>1, <2>3 DEF SawTooth, LoadOff
  <2> QED  BY <1>7, <2>1, <2>2, <2>3
<1> QED  BY <1>1, <1>8

LEMMA BenchAlways == BenchSpec => []BenchInv
BY BenchStarts, BenchStep, PTL DEF BenchSpec

(***************************************************************************)
(* The pool is never overdrawn under the harness either (stored \in Nat):  *)
(* whatever its control calls do between the draws of its batch and load.  *)
(***************************************************************************)
THEOREM BenchTypeCorrect == BenchSpec => []TypeOK
<1>1. BenchInv => TypeOK
  BY DEF BenchInv, OvershootInv
<1> QED  BY <1>1, BenchAlways, PTL

(***************************************************************************)
(* kpi5's batch: however many circuits it has and whatever the pool and    *)
(* its other clients do, none is served but by the keys of a tick that had *)
(* computed them when the level was set.                                   *)
(***************************************************************************)
THEOREM BatchIsRefused == BenchSpec => []EmptyButForOneTick
<1>1. BenchInv => EmptyButForOneTick
  <2> SUFFICES ASSUME BenchInv, step = "batch", ~meddled PROVE ok <= underWay
    BY DEF EmptyButForOneTick
  <2>1. stored + ok + Pending <= underWay
    BY DEF BenchInv, Undisturbed, Drained
  <2>2. stored \in Nat /\ ok \in Nat /\ Pending \in Nat /\ underWay \in Nat
    BY PoolNumbers DEF BenchInv, Harness
  <2> QED  BY <2>1, <2>2
<1> QED  BY <1>1, BenchAlways, PTL

(***************************************************************************)
(* kpi6 starts and leaves with a full pool, whatever it was before: what   *)
(* is missing was drawn since the level was set, and what is too much is   *)
(* one tick's.                                                             *)
(***************************************************************************)
THEOREM ConfiguredPoolIsFull == BenchSpec => []ConfiguredIsFull
<1>1. BenchInv => ConfiguredIsFull
  BY DEF BenchInv, Undisturbed, Filled, ConfiguredIsFull
<1> QED  BY <1>1, BenchAlways, PTL

(***************************************************************************)
(* The harness's control calls and draws overfill the pool by no more than *)
(* one tick's keys either.                                                 *)
(***************************************************************************)
THEOREM BenchOvershootIsOneTick == BenchSpec => []OvershootBounded
<1>1. BenchInv => OvershootBounded
  BY DEF BenchInv, OvershootInv
<1> QED  BY <1>1, BenchAlways, PTL
=============================================================================
