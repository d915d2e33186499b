--------------------------- MODULE TopologyProofs ---------------------------
(***************************************************************************)
(* Proofs about TopologyManager: requests are answered from a topology that *)
(* was in force while they were served, with either source; and, with the  *)
(* static source, what a refresh has loaded is never replaced by something *)
(* older, and a link that was put down stays out of the way.               *)
(***************************************************************************)
EXTENDS TopologyManager, WellFoundedInduction, TLAPS

Fetching == {"devices", "links", "reply"}

Domains ==
    /\ DOMAIN snap = Tasks /\ DOMAIN op = Tasks /\ DOMAIN holds = Tasks
    /\ DOMAIN answer = Tasks /\ DOMAIN route = Tasks /\ DOMAIN seen = Tasks
    /\ DOMAIN asOf = Tasks /\ DOMAIN began = Tasks
    /\ pc \in [Tasks -> {"idle", "audit", "done"} \cup Fetching]
    /\ \A t \in Tasks : ~Built(t) => holds[t] = None

\* What is cached has been built, and nobody writes it any more but edits.
CacheBuilt == cache # None => cache \in Tasks /\ Built(cache)

\* A waiting request holds a snapshot, which has been in force since it began.
HoldsCurrent ==
    \A t \in Tasks : pc[t] = "audit" =>
        /\ op[t] = Resolve
        /\ holds[t] \in Tasks /\ Built(holds[t])
        /\ snap[holds[t]] \in seen[t]

IInv == Domains /\ CacheBuilt /\ HoldsCurrent /\ AnswerWasCurrent

-----------------------------------------------------------------------------
(* What the steps have in common.                                           *)

\* Whoever watches adds what is in force, and what has been seen stays seen.
LEMMA SeenGrows ==
    ASSUME Observe, DOMAIN seen = Tasks
    PROVE  /\ DOMAIN seen' = Tasks
           /\ \A t \in Tasks : seen[t] \subseteq seen'[t]
           /\ \A t \in Tasks : pc[t] = "done" => seen'[t] = seen[t]
           /\ \A t \in Tasks : pc[t] # "done" /\ pc'[t] # "idle" /\ op'[t] = Resolve
                                 => InForce' \subseteq seen'[t]
  BY DEF Observe

\* A task that is done has its answer; nothing a later step does changes it.
LEMMA AnswersStay ==
    ASSUME IInv, Observe,
           NEW u \in Tasks, pc'[u] = pc[u], op'[u] = op[u],
           answer'[u] = answer[u], route'[u] = route[u], holds'[u] = holds[u]
    PROVE  Answered(u)' => \E s \in seen'[u] : FoundIn(s, u)'
  <1>1. SUFFICES ASSUME Answered(u)' PROVE \E s \in seen'[u] : FoundIn(s, u)'
    OBVIOUS
  <1>2. Answered(u)
    BY <1>1 DEF Answered
  <1>3. PICK s \in seen[u] : FoundIn(s, u)
    BY <1>2 DEF IInv, AnswerWasCurrent
  <1>4. FoundIn(s, u)'
    BY <1>3 DEF FoundIn
  <1>5. s \in seen'[u]
    BY <1>3, SeenGrows DEF IInv, Domains
  <1>6. QED
    BY <1>4, <1>5

\* A task that waits for its audit write still holds a snapshot it has seen, if
\* the step writes no snapshot but an unfinished one or the one in force.
LEMMA HoldersStay ==
    ASSUME IInv, Observe,
           NEW u \in Tasks, pc[u] = "audit", pc'[u] = "audit",
           op'[u] = op[u], holds'[u] = holds[u],
           \A h \in Tasks : Built(h) => Built(h)' /\
               (snap'[h] = snap[h] \/ (h = cache' /\ cache' # None))
    PROVE  /\ op'[u] = Resolve
           /\ holds'[u] \in Tasks /\ Built(holds[u])'
           /\ snap'[holds'[u]] \in seen'[u]
  <1>1. /\ op[u] = Resolve /\ holds[u] \in Tasks /\ Built(holds[u])
        /\ snap[holds[u]] \in seen[u]
    BY DEF IInv, HoldsCurrent
  <1>2. CASE snap'[holds[u]] = snap[holds[u]]
    BY <1>1, <1>2, SeenGrows DEF IInv, Domains
  <1>3. CASE holds[u] = cache' /\ cache' # None
    <2>1. InForce' \subseteq seen'[u]
      BY <1>1, SeenGrows DEF IInv, Domains
    <2>2. snap'[holds[u]] \in InForce'
      BY <1>3 DEF InForce
    <2>3. QED
      BY <1>1, <2>1, <2>2
  <1>4. QED
    BY <1>1, <1>2, <1>3

\* A task other than t that takes no step stays as the invariant has it.
LEMMA OthersStay ==
    ASSUME IInv, Observe, NEW t \in Tasks,
           \A u \in Tasks \ {t} : /\ pc'[u] = pc[u] /\ op'[u] = op[u]
                                  /\ answer'[u] = answer[u] /\ route'[u] = route[u]
                                  /\ holds'[u] = holds[u],
           \A h \in Tasks : Built(h) => Built(h)' /\
               (snap'[h] = snap[h] \/ (h = cache' /\ cache' # None))
    PROVE  \A u \in Tasks \ {t} :
              /\ pc'[u] = "audit" => /\ op'[u] = Resolve
                                     /\ holds'[u] \in Tasks /\ Built(holds[u])'
                                     /\ snap'[holds'[u]] \in seen'[u]
              /\ Answered(u)' => \E s \in seen'[u] : FoundIn(s, u)'
  <1>1. SUFFICES ASSUME NEW u \in Tasks \ {t}
                 PROVE  /\ pc'[u] = "audit" => /\ op'[u] = Resolve
                                               /\ holds'[u] \in Tasks /\ Built(holds[u])'
                                               /\ snap'[holds'[u]] \in seen'[u]
                        /\ Answered(u)' => \E s \in seen'[u] : FoundIn(s, u)'
    OBVIOUS
  <1>2. ASSUME pc'[u] = "audit"
        PROVE  /\ op'[u] = Resolve /\ holds'[u] \in Tasks /\ Built(holds[u])'
               /\ snap'[holds'[u]] \in seen'[u]
    <2>1. pc[u] = "audit" /\ holds'[u] = holds[u] /\ op'[u] = op[u]
      BY <1>2
    <2>2. QED
      BY <1>2, <2>1, HoldersStay DEF Built
  <1>3. Answered(u)' => \E s \in seen'[u] : FoundIn(s, u)'
    BY AnswersStay
  <1>4. QED
    BY <1>2, <1>3

\* The invariant, from what becomes of the stepping task and of all others.
LEMMA InvariantFrom ==
    ASSUME Domains', CacheBuilt',
           \A u \in Tasks :
              /\ pc'[u] = "audit" => /\ op'[u] = Resolve
                                     /\ holds'[u] \in Tasks /\ Built(holds[u])'
                                     /\ snap'[holds'[u]] \in seen'[u]
              /\ Answered(u)' => \E s \in seen'[u] : FoundIn(s, u)'
    PROVE  IInv'
  BY DEF IInv, HoldsCurrent, AnswerWasCurrent

\* get_snapshot has returned a snapshot that was cached, or that t has just built.
LEMMA GotKeeps ==
    ASSUME IInv, Observe, NEW t \in Tasks, NEW o, NEW s \in Tasks, NEW heap,
           pc[t] \in {"idle"} \cup Fetching,
           DOMAIN op' = Tasks, op'[t] = o, \A u \in Tasks \ {t} : op'[u] = op[u],
           route' = route,
           DOMAIN asOf' = Tasks, DOMAIN began' = Tasks,
           DOMAIN heap = Tasks,
           \A h \in Tasks : Built(h) => heap[h] = snap[h],
           s = t \/ Built(s),
           Got(t, o, s, heap)
    PROVE  IInv'
  <1>1. /\ cache' = s
        /\ snap' = IF o \in Edits THEN [heap EXCEPT ![s] = Edited(@, o)] ELSE heap
        /\ holds' = [holds EXCEPT ![t] = s]
        /\ pc'[t] \in {"audit", "done"}
        /\ pc'[t] = "audit" => o = Resolve
        /\ \A u \in Tasks \ {t} : pc'[u] = pc[u] /\ answer'[u] = answer[u]
        /\ pc'[t] = "done" /\ o = Resolve =>
              answer'[t] = "empty" /\ DOMAIN heap[s].nodes = {}
    BY DEF Got, IInv, Domains
  <1>2. Domains'
    <2>1. \A u \in Tasks : ~Built(u)' => holds'[u] = None
      BY <1>1 DEF IInv, Domains, Built
    <2>2. QED
      BY <1>1, <2>1, SeenGrows DEF IInv, Domains, Got, Fetching
  <1>3. None # s
    BY TopologyAssumption
  <1>4. Built(s)' /\ CacheBuilt'
    BY <1>1 DEF Built, CacheBuilt
  <1>5. \A h \in Tasks : Built(h) => Built(h)' /\
           (snap'[h] = snap[h] \/ (h = cache' /\ cache' # None))
    BY <1>1, <1>3 DEF Built, Fetching
  <1>6. op'[t] = o /\ holds'[t] = s /\ \A u \in Tasks \ {t} : op'[u] = op[u] /\ holds'[u] = holds[u]
    BY <1>1 DEF IInv, Domains
  <1>7. o = Resolve => snap' = heap /\ snap'[s] \in seen'[t]
    <2>1. SUFFICES ASSUME o = Resolve PROVE snap' = heap /\ snap'[s] \in seen'[t]
      OBVIOUS
    <2>2. snap' = heap
      BY <1>1, <2>1, TopologyAssumption
    <2>3. snap'[s] \in InForce'
      BY <1>1, <1>3 DEF InForce
    <2>4. InForce' \subseteq seen'[t]
      <3>1. pc[t] # "done" /\ pc'[t] # "idle" /\ op'[t] = Resolve
        BY <1>1, <1>6, <2>1 DEF Fetching
      <3>2. QED
        BY <3>1, SeenGrows DEF IInv, Domains
    <2>5. QED
      BY <2>2, <2>3, <2>4
  <1>8. /\ pc'[t] = "audit" => /\ op'[t] = Resolve
                               /\ holds'[t] \in Tasks /\ Built(holds[t])'
                               /\ snap'[holds'[t]] \in seen'[t]
        /\ Answered(t)' => \E x \in seen'[t] : FoundIn(x, t)'
    <2>1. pc'[t] = "audit" => /\ op'[t] = Resolve
                              /\ holds'[t] \in Tasks /\ Built(holds[t])'
                              /\ snap'[holds'[t]] \in seen'[t]
      BY <1>1, <1>4, <1>6, <1>7 DEF Built
    <2>2. ASSUME Answered(t)' PROVE \E x \in seen'[t] : FoundIn(x, t)'
      <3>1. pc'[t] = "done" /\ o = Resolve
        BY <2>2, <1>6 DEF Answered
      <3>2. answer'[t] = "empty" /\ DOMAIN snap'[s].nodes = {} /\ snap'[s] \in seen'[t]
        BY <3>1, <1>1, <1>7
      <3>3. FoundIn(snap[s], t)'
        BY <3>2 DEF FoundIn
      <3>4. QED
        BY <3>2, <3>3, <1>1
    <2>3. QED
      BY <2>1, <2>2
  <1>9. \A u \in Tasks \ {t} :
              /\ pc'[u] = "audit" => /\ op'[u] = Resolve
                                     /\ holds'[u] \in Tasks /\ Built(holds[u])'
                                     /\ snap'[holds'[u]] \in seen'[u]
              /\ Answered(u)' => \E x \in seen'[u] : FoundIn(x, u)'
    BY <1>1, <1>5, <1>6, OthersStay
  <1>10. QED
    BY <1>2, <1>4, <1>8, <1>9, InvariantFrom

-----------------------------------------------------------------------------
(* The steps.                                                               *)

LEMMA BeginKeeps ==
    ASSUME IInv, Observe, NEW t \in Tasks, NEW o \in Ops, Begin(t, o)
    PROVE  IInv'
  <1>1. /\ pc[t] = "idle" /\ route' = route /\ DOMAIN op' = Tasks
        /\ op'[t] = o /\ \A u \in Tasks \ {t} : op'[u] = op[u]
        /\ began' = [began EXCEPT ![t] = version] /\ DOMAIN began' = Tasks
    BY DEF Begin, IInv, Domains
  <1>2. CASE Cached(o) # None /\ Got(t, o, Cached(o), snap) /\ asOf' = asOf
    <2>1. Cached(o) \in Tasks /\ Built(Cached(o))
      BY <1>2 DEF Cached, IInv, CacheBuilt
    <2>2. QED
      BY <1>1, <1>2, <2>1, GotKeeps DEF IInv, Domains
  <1>3. CASE /\ Got(t, o, t, [snap EXCEPT ![t] = load_topology(source)])
             /\ asOf' = [asOf EXCEPT ![t] = version]
    <2>1. \A h \in Tasks : Built(h) => [snap EXCEPT ![t] = load_topology(source)][h] = snap[h]
      BY <1>1 DEF Built, IInv, Domains
    <2>2. QED
      BY <1>1, <1>3, <2>1, GotKeeps DEF IInv, Domains
  <1>4. CASE /\ cache' = None /\ pc' = [pc EXCEPT ![t] = "devices"]
             /\ UNCHANGED <<snap, holds, answer, asOf>>
    <2>1. Domains' /\ CacheBuilt'
      BY <1>1, <1>4, SeenGrows DEF IInv, Domains, CacheBuilt, Fetching, Built
    <2>2. /\ pc'[t] = "devices"
          /\ \A u \in Tasks \ {t} : pc'[u] = pc[u] /\ op'[u] = op[u]
      BY <1>1, <1>4 DEF IInv, Domains
    <2>3. \A h \in Tasks : Built(h) => Built(h)' /\ snap'[h] = snap[h]
      BY <1>1, <1>4, <2>2 DEF Built
    <2>4. QED
      BY <1>1, <1>4, <2>1, <2>2, <2>3, OthersStay, InvariantFrom DEF Answered
  <1>5. QED
    BY <1>2, <1>3, <1>4 DEF Begin

\* A step that only moves a fetching task on, or ends it without a topology.
LEMMA FetchKeeps ==
    ASSUME IInv, Observe, NEW t \in Tasks,
           ReadDevices(t) \/ ReadLinks(t) \/ FetchFails(t)
    PROVE  IInv'
  <1>1. /\ pc[t] \in Fetching /\ pc'[t] \notin {"audit"} /\ cache' = cache
        /\ \A u \in Tasks \ {t} : pc'[u] = pc[u] /\ answer'[u] = answer[u]
        /\ UNCHANGED <<op, holds, route>>
    BY DEF ReadDevices, ReadLinks, FetchFails, IInv, Domains, Fetching
  <1>2. Domains'
    BY SeenGrows DEF ReadDevices, ReadLinks, FetchFails, IInv, Domains, Fetching, Built
  <1>3. \A h \in Tasks : Built(h) => Built(h)' /\ snap'[h] = snap[h]
    BY <1>1 DEF ReadDevices, ReadLinks, FetchFails, IInv, Domains, Built, Fetching
  <1>4. CacheBuilt'
    BY <1>1, <1>3 DEF IInv, CacheBuilt
  <1>5. ~Answered(t)'
    BY <1>1 DEF Answered, IInv, Domains, Built, Fetching
  <1>6. QED
    BY <1>1, <1>2, <1>3, <1>4, <1>5, OthersStay, InvariantFrom

LEMMA FetchedKeeps ==
    ASSUME IInv, Observe, NEW t \in Tasks, Fetched(t)
    PROVE  IInv'
  <1>. DEFINE heap == [snap EXCEPT ![t] = FromOnos(@.nodes, @.links)]
  <1>1. /\ pc[t] \in Fetching /\ Got(t, op[t], t, heap)
        /\ UNCHANGED <<op, route, asOf, began>>
    BY DEF Fetched, Fetching
  <1>2. DOMAIN heap = Tasks /\ \A h \in Tasks : Built(h) => heap[h] = snap[h]
    BY <1>1 DEF Built, Fetching, IInv, Domains
  <1>. HIDE DEF heap
  <1>3. QED
    BY <1>1, <1>2, GotKeeps DEF IInv, Domains

LEMMA ComputeKeeps ==
    ASSUME IInv, Observe, NEW t \in Tasks, Compute(t)
    PROVE  IInv'
  <1>1. /\ pc[t] = "audit" /\ pc'[t] = "done"
        /\ UNCHANGED <<cache, snap, op, holds>>
        /\ \A u \in Tasks \ {t} : pc'[u] = pc[u] /\ answer'[u] = answer[u]
                                   /\ route'[u] = route[u]
    BY DEF Compute, IInv, Domains
  <1>2. Domains'
    BY SeenGrows DEF Compute, IInv, Domains, Built
  <1>3. \A h \in Tasks : Built(h) => Built(h)' /\ snap'[h] = snap[h]
    BY <1>1 DEF Built
  <1>4. CacheBuilt'
    BY <1>1, <1>3 DEF IInv, CacheBuilt
  <1>5. FoundIn(Dump(t), t)' /\ Dump(t)' = Dump(t)
    BY <1>1 DEF Compute, FoundIn, IInv, Domains, Dump
  <1>6. Dump(t) \in seen'[t]
    BY <1>1, SeenGrows DEF Dump, IInv, HoldsCurrent, Domains
  <1>7. \E s \in seen'[t] : FoundIn(s, t)'
    BY <1>5, <1>6 DEF FoundIn
  <1>8. QED
    BY <1>1, <1>2, <1>3, <1>4, <1>7, OthersStay, InvariantFrom

LEMMA SourceKeeps ==
    ASSUME IInv, Observe, SourceChanges
    PROVE  IInv'
  <1>1. UNCHANGED <<cache, snap, pc, op, holds, answer, route, asOf, began>>
    BY DEF SourceChanges
  <1>2. Domains' /\ CacheBuilt'
    BY <1>1, SeenGrows DEF IInv, Domains, CacheBuilt, Built
  <1>3. \A u \in Tasks :
           /\ pc'[u] = "audit" => /\ op'[u] = Resolve
                                  /\ holds'[u] \in Tasks /\ Built(holds[u])'
                                  /\ snap'[holds'[u]] \in seen'[u]
           /\ Answered(u)' => \E s \in seen'[u] : FoundIn(s, u)'
    BY <1>1, AnswersStay, SeenGrows DEF IInv, HoldsCurrent, Domains, Built
  <1>4. QED
    BY <1>2, <1>3, InvariantFrom, SMT

-----------------------------------------------------------------------------

LEMMA StepKeeps == IInv /\ [Next]_vars => IInv'
  <1>1. SUFFICES ASSUME IInv, [Next]_vars PROVE IInv'
    OBVIOUS
  <1>2. CASE Next
    <2>1. Observe
      BY <1>2 DEF Next
    <2>2. ASSUME NEW t \in Tasks, Task(t) PROVE IInv'
      <3>1. CASE \E o \in Ops : Begin(t, o)
        BY <1>1, <2>1, <3>1, BeginKeeps
      <3>2. CASE ReadDevices(t) \/ ReadLinks(t) \/ FetchFails(t)
        BY <1>1, <2>1, <3>2, FetchKeeps
      <3>3. CASE Fetched(t)
        BY <1>1, <2>1, <3>3, FetchedKeeps
      <3>4. CASE Compute(t)
        BY <1>1, <2>1, <3>4, ComputeKeeps
      <3>5. QED
        BY <2>2, <3>1, <3>2, <3>3, <3>4 DEF Task
    <2>3. CASE SourceChanges
      BY <1>1, <2>1, <2>3, SourceKeeps
    <2>4. QED
      BY <1>2, <2>2, <2>3 DEF Next
  <1>3. CASE UNCHANGED vars
    BY <1>1, <1>3 DEF vars, IInv, Domains, CacheBuilt, HoldsCurrent, AnswerWasCurrent,
                Built, Answered, FoundIn
  <1>4. QED
    BY <1>1, <1>2, <1>3

\* Whatever the source, the edits and the order of the tasks: a request is
\* answered from one topology that was in force while it was served
\* (attach_topology, get_snapshot, compute).
THEOREM AnswersAreCurrent == Spec => []AnswerWasCurrent
  <1>1. Init => IInv
    BY DEF Init, IInv, Domains, CacheBuilt, HoldsCurrent, AnswerWasCurrent, Answered
  <1>2. IInv /\ [Next]_vars => IInv'
    BY StepKeeps
  <1>3. IInv => AnswerWasCurrent
    BY DEF IInv
  <1>4. QED
    BY <1>1, <1>2, <1>3, PTL DEF Spec

-----------------------------------------------------------------------------
(* Refresh with the static source.                                          *)

\* Nothing is fetched; versions only grow; and the snapshot in force is no
\* older than the source was when any refresh began.
FreshInv ==
    /\ version \in Nat
    /\ \A t \in Tasks : began[t] \in Nat /\ began[t] <= version /\ asOf[t] \in Nat
    /\ \A t \in Tasks : pc[t] \notin Fetching
    /\ \A t \in Tasks : op[t] = Refresh /\ pc[t] = "done" /\ cache # None
                            => asOf[cache] >= began[t]

LEMMA BeginIsFresh ==
    ASSUME ~Live, IInv, FreshInv, NEW t \in Tasks, NEW o \in Ops, Begin(t, o)
    PROVE  FreshInv'
  <1>1. /\ pc[t] = "idle" /\ op'[t] = o /\ began'[t] = version /\ version' = version
        /\ \A u \in Tasks \ {t} : op'[u] = op[u] /\ began'[u] = began[u] /\ pc'[u] = pc[u]
        /\ pc'[t] \notin Fetching
    BY DEF Begin, Got, IInv, Domains, Fetching
  <1>2. CASE Cached(o) # None /\ Got(t, o, Cached(o), snap) /\ asOf' = asOf
    <2>1. o # Refresh /\ cache' = cache
      BY <1>2 DEF Cached, Got
    <2>2. QED
      BY <1>1, <1>2, <2>1 DEF FreshInv
  <1>3. CASE /\ Got(t, o, t, [snap EXCEPT ![t] = load_topology(source)])
             /\ asOf' = [asOf EXCEPT ![t] = version]
    <2>1. cache' = t /\ asOf'[t] = version
          /\ \A u \in Tasks \ {t} : asOf'[u] = asOf[u]
      BY <1>3 DEF Got, IInv, Domains
    <2>2. QED
      BY <1>1, <2>1 DEF FreshInv
  <1>4. QED
    BY <1>2, <1>3 DEF Begin

\* With the static source a refresh is final: what it loaded is only replaced
\* by something at least as recent (refresh, get_snapshot, load_topology).
THEOREM StaticRefreshIsFresh == ~Live /\ Spec => []RefreshedIsFresh
  <1>. SUFFICES ASSUME ~Live PROVE Spec => []RefreshedIsFresh
    OBVIOUS
  <1>1. Init => IInv /\ FreshInv
    BY DEF Init, IInv, Domains, CacheBuilt, HoldsCurrent, AnswerWasCurrent, Answered,
           FreshInv, Fetching
  <1>2. IInv /\ FreshInv /\ [Next]_vars => IInv' /\ FreshInv'
    <2>1. SUFFICES ASSUME IInv, FreshInv, [Next]_vars PROVE FreshInv'
      BY StepKeeps
    <2>2. ASSUME NEW t \in Tasks, Task(t) PROVE FreshInv'
      <3>1. CASE \E o \in Ops : Begin(t, o)
        BY <2>1, <3>1, BeginIsFresh
      <3>2. CASE ReadDevices(t) \/ ReadLinks(t) \/ FetchFails(t) \/ Fetched(t)
        BY <2>1, <3>2 DEF FreshInv, Fetching, ReadDevices, ReadLinks, FetchFails, Fetched
      <3>3. CASE Compute(t)
        <4>1. pc' = [pc EXCEPT ![t] = "done"] /\ pc[t] = "audit"
              /\ UNCHANGED <<version, cache, op, asOf, began>>
          BY <3>3 DEF Compute
        <4>2. op[t] = Resolve
          BY <2>1, <4>1 DEF IInv, HoldsCurrent
        <4>3. QED
          BY <2>1, <4>1, <4>2 DEF FreshInv, IInv, Domains, Resolve, Refresh, Fetching
      <3>4. QED
        BY <2>2, <3>1, <3>2, <3>3 DEF Task
    <2>3. CASE SourceChanges
      BY <2>1, <2>3 DEF SourceChanges, FreshInv
    <2>4. CASE UNCHANGED vars
      BY <2>1, <2>4 DEF vars, FreshInv
    <2>5. QED
      BY <2>1, <2>2, <2>3, <2>4 DEF Next
  <1>3. FreshInv => RefreshedIsFresh
    BY DEF FreshInv, RefreshedIsFresh
  <1>4. QED
    BY <1>1, <1>2, <1>3, PTL DEF Spec
-----------------------------------------------------------------------------
(* Lists of links.                                                          *)

\* Induction over the natural numbers, for a set instead of a predicate.
LEMMA SetInduction ==
    ASSUME NEW S \in SUBSET Nat, 0 \in S, \A n \in S : n + 1 \in S
    PROVE  S = Nat
<1> DEFINE R == OpToRel(<, Nat)
<1>1. IsWellFoundedOn(R, Nat)
  BY NatLessThanWellFounded
<1>2. \A x, y \in Nat : x < y <=> <<x, y>> \in R
  BY DEF OpToRel
<1> HIDE DEF R
<1>3. SUFFICES ASSUME S # Nat PROVE FALSE
  OBVIOUS
<1> DEFINE T == Nat \ S
<1>4. T # {} /\ T \subseteq Nat
  BY <1>3
<1> HIDE DEF T
<1>5. PICK x \in T : \A y \in T : ~ (<<y, x>> \in R)
  BY <1>1, <1>4, WFMin
<1>6. x \in Nat /\ x \notin S /\ x # 0
  BY <1>5 DEF T
<1>7. x - 1 \in Nat /\ x - 1 < x /\ (x - 1) + 1 = x
  BY <1>6
<1>8. x - 1 \in T
  BY <1>6, <1>7 DEF T
<1> QED  BY <1>2, <1>5, <1>6, <1>7, <1>8

\* One round of the recursion of Sublist, up to position n.
Grown(f, list, kept, n) ==
    [i \in 0 .. n |->
        IF i = 0 THEN << >>
        ELSE IF i \in kept THEN Append(f[i - 1], list[i])
        ELSE f[i - 1]]

LEMMA GrownExists ==
    ASSUME NEW list, NEW kept, NEW n \in Nat
    PROVE  \E f : f = Grown(f, list, kept, n)
<1> DEFINE T == {k \in Nat : \E f : f = Grown(f, list, kept, k)}
<1>1. 0 \in T
  <2> DEFINE f == [i \in 0 .. 0 |-> << >>]
  <2>1. f = Grown(f, list, kept, 0)
    BY DEF Grown
  <2> QED  BY <2>1
<1>2. ASSUME NEW k \in T PROVE k + 1 \in T
  <2>1. PICK f : f = Grown(f, list, kept, k)
    OBVIOUS
  <2> DEFINE g == [i \in 0 .. k + 1 |->
                      IF i <= k THEN f[i]
                      ELSE IF i \in kept THEN Append(f[k], list[i]) ELSE f[k]]
  <2>2. g = Grown(g, list, kept, k + 1)
    <3>1. \A i \in 0 .. k + 1 : g[i] = Grown(g, list, kept, k + 1)[i]
      <4> SUFFICES ASSUME NEW i \in 0 .. k + 1 PROVE g[i] = Grown(g, list, kept, k + 1)[i]
        OBVIOUS
      <4>1. CASE i = 0
        <5>1. f[0] = <<>>
          BY <2>1 DEF Grown
        <5> QED  BY <4>1, <5>1 DEF Grown
      <4>2. CASE i # 0 /\ i <= k
        <5>1. f[i] = IF i \in kept THEN Append(f[i - 1], list[i]) ELSE f[i - 1]
          <6>1. i \in 0 .. k
            BY <4>2
          <6>2. Grown(f, list, kept, k)[i] = IF i \in kept THEN Append(f[i - 1], list[i]) ELSE f[i - 1]
            BY <4>2, <6>1 DEF Grown
          <6> QED  BY <2>1, <6>2
        <5>2. g[i] = f[i] /\ g[i - 1] = f[i - 1]
          BY <4>2
        <5> QED  BY <4>2, <5>1, <5>2 DEF Grown
      <4>3. CASE i = k + 1
        <5>1. g[i - 1] = f[k]
          BY <4>3
        <5> QED  BY <4>3, <5>1 DEF Grown
      <4> QED  BY <4>1, <4>2, <4>3
    <3> QED  BY <3>1 DEF Grown
  <2>3. k + 1 \in Nat
    OBVIOUS
  <2> HIDE DEF g
  <2> QED  BY <2>2, <2>3
<1>3. T = Nat
  <2> HIDE DEF T
  <2>1. T \in SUBSET Nat
    BY DEF T
  <2> QED  BY <1>1, <1>2, <2>1, SetInduction
<1> QED  BY <1>3

LEMMA SublistGrows ==
    ASSUME NEW list, NEW kept, Len(list) \in Nat
    PROVE  \E f : f = Grown(f, list, kept, Len(list)) /\ Sublist(list, kept) = f[Len(list)]
<1> DEFINE g == CHOOSE f : f = Grown(f, list, kept, Len(list))
<1>1. g = Grown(g, list, kept, Len(list))
  BY GrownExists
<1>2. Sublist(list, kept) = g[Len(list)]
  BY DEF Sublist, Grown
<1> QED  BY <1>1, <1>2

\* A sublist consists of the elements at the positions that are kept.
LEMMA SublistKeeps ==
    ASSUME NEW S, NEW list \in Seq(S), NEW kept \in SUBSET (DOMAIN list)
    PROVE  Sublist(list, kept) \in Seq({list[i] : i \in kept})
<1> DEFINE K == {list[i] : i \in kept}
<1>1. Len(list) \in Nat /\ DOMAIN list = 1 .. Len(list)
  OBVIOUS
<1>2. PICK f : f = Grown(f, list, kept, Len(list)) /\ Sublist(list, kept) = f[Len(list)]
  BY <1>1, SublistGrows
<1> DEFINE T == {n \in Nat : n <= Len(list) => f[n] \in Seq(K)}
<1>3. 0 \in T
  <2>1. f[0] = << >>
    BY <1>1, <1>2 DEF Grown
  <2>2. << >> \in Seq(K)
    OBVIOUS
  <2> QED  BY <2>1, <2>2
<1>4. ASSUME NEW n \in T PROVE n + 1 \in T
  <2> SUFFICES ASSUME n + 1 <= Len(list) PROVE f[n + 1] \in Seq(K)
    OBVIOUS
  <2>1. f[n] \in Seq(K) /\ n + 1 \in 1 .. Len(list) /\ (n + 1) - 1 = n
    BY <1>1
  <2>2. Grown(f, list, kept, Len(list))[n + 1]
            = IF n + 1 \in kept THEN Append(f[n], list[n + 1]) ELSE f[n]
    BY <1>1, <2>1 DEF Grown
  <2>3. f[n + 1] = IF n + 1 \in kept THEN Append(f[n], list[n + 1]) ELSE f[n]
    BY <1>2, <2>2
  <2>4. n + 1 \in kept => list[n + 1] \in K
    OBVIOUS
  <2> HIDE DEF K
  <2> QED  BY <2>1, <2>3, <2>4
<1>5. T = Nat
  <2> HIDE DEF T
  <2>1. T \in SUBSET Nat
    BY DEF T
  <2> QED  BY <1>3, <1>4, <2>1, SetInduction
<1>6. f[Len(list)] \in Seq(K)
  BY <1>1, <1>5
<1> QED  BY <1>2, <1>6

LEMMA SublistTyped ==
    ASSUME NEW S, NEW list \in Seq(S), NEW kept \in SUBSET (DOMAIN list)
    PROVE  /\ Sublist(list, kept) \in Seq(S)
           /\ \A x \in ToSet(Sublist(list, kept)) : \E i \in kept : x = list[i]
<1>1. Sublist(list, kept) \in Seq({list[i] : i \in kept})
  BY SublistKeeps
<1>2. \A i \in kept : list[i] \in S
  OBVIOUS
<1> DEFINE r == Sublist(list, kept)
<1> HIDE DEF r
<1>3. \A j \in DOMAIN r : r[j] \in {list[i] : i \in kept}
  BY <1>1 DEF r
<1>4. r \in Seq(S)
  BY <1>1, <1>2 DEF r
<1> QED  BY <1>3, <1>4 DEF ToSet, r

\* An edit is one of the five the clients know, about nodes and links of the network.
LEMMA EditsTyped ==
    ASSUME NEW e \in Edits
    PROVE  /\ e.kind \in {"upsert_node", "remove_node", "upsert_link", "remove_link", "set_status"}
           /\ e.kind \in {"upsert_node", "remove_node"} => e.id \in Nodes
           /\ e.kind \notin {"upsert_node", "remove_node"} => Ends(e) \subseteq Nodes
           /\ e.kind = "upsert_link" =>
                [source |-> e.source, target |-> e.target, cost |-> e.cost,
                 type |-> e.type, status |-> e.status] \in Link
           /\ e.kind = "set_status" => e.status \in {"up", "down"}
<1>1. e.kind = "upsert_link" /\ [source |-> e.source, target |-> e.target, cost |-> e.cost,
                                 type |-> e.type, status |-> e.status] \in Link
        => Ends(e) \subseteq Nodes
  BY DEF Link, Ends
<1> QED  BY <1>1, InputAssumption

\* What upsert_link makes of a link between a and b.
Renewed(e, a, b) ==
    [source |-> a, target |-> b, cost |-> e.cost, type |-> e.type, status |-> e.status]

LEMMA RenewedTyped ==
    ASSUME NEW e \in Edits, e.kind = "upsert_link", NEW a \in Nodes, NEW b \in Nodes
    PROVE  Renewed(e, a, b) \in Link
BY EditsTyped DEF Renewed, Link

\* The position of the first link with the ends of e.
First(s, e) == SelectInSeq(s.links, LAMBDA l : Joins(l, e))

LEMMA UpsertLinkIs ==
    ASSUME NEW s, NEW e
    PROVE  UpsertLink(s, e) =
             [s EXCEPT !.links =
                IF Rejected(s, e) THEN s.links
                ELSE IF First(s, e) = 0 THEN Append(s.links, Renewed(e, e.source, e.target))
                ELSE [s.links EXCEPT ![First(s, e)] =
                         Renewed(e, s.links[First(s, e)].source, s.links[First(s, e)].target)]]
BY DEF UpsertLink, First, Renewed

LEMMA ReplacedTyped ==
    ASSUME NEW S, NEW list \in Seq(S), NEW i, NEW x \in S
    PROVE  [list EXCEPT ![i] = x] \in Seq(S)
<1>1. Len(list) \in Nat /\ list \in [1 .. Len(list) -> S]
  OBVIOUS
<1>2. [list EXCEPT ![i] = x] \in [1 .. Len(list) -> S]
  BY <1>1
<1> QED  BY <1>1, <1>2

LEMMA UpsertLinkTyped ==
    ASSUME NEW s \in Snapshots, NEW e \in Edits, e.kind = "upsert_link"
    PROVE  UpsertLink(s, e) \in Snapshots
<1> DEFINE new == Renewed(e, e.source, e.target)
           i == First(s, e)
           changed == [s.links EXCEPT ![i] = Renewed(e, s.links[i].source, s.links[i].target)]
<1>1. s.links \in Seq(Link) /\ s.nodes \in UNION {[S -> BOOLEAN] : S \in SUBSET Nodes}
  BY DEF Snapshots
<1>2. Append(s.links, new) \in Seq(Link)
  <2>1. e.source \in Nodes /\ e.target \in Nodes
    BY EditsTyped DEF Ends
  <2>2. new \in Link
    BY <2>1, RenewedTyped
  <2> HIDE DEF new
  <2> QED  BY <1>1, <2>2
<1>3. changed \in Seq(Link)
  <2> HIDE DEF i
  <2>1. CASE i \in DOMAIN s.links
    <3>1. s.links[i] \in Link
      BY <1>1, <2>1
    <3>2. s.links[i].source \in Nodes /\ s.links[i].target \in Nodes
      BY <3>1 DEF Link
    <3>3. Renewed(e, s.links[i].source, s.links[i].target) \in Link
      BY <3>2, RenewedTyped
    <3> DEFINE x == Renewed(e, s.links[i].source, s.links[i].target)
    <3>4. x \in Link
      BY <3>3
    <3> HIDE DEF x
    <3>5. [s.links EXCEPT ![i] = x] \in Seq(Link)
      BY <1>1, <3>4, ReplacedTyped
    <3> QED  BY <3>5 DEF x
  <2>2. CASE i \notin DOMAIN s.links
    <3>1. changed = s.links
      BY <1>1, <2>2
    <3> QED  BY <1>1, <3>1
  <2> QED  BY <2>1, <2>2
<1>4. UpsertLink(s, e) = [s EXCEPT !.links =
                            IF Rejected(s, e) THEN s.links
                            ELSE IF i = 0 THEN Append(s.links, new) ELSE changed]
  BY UpsertLinkIs
<1> HIDE DEF new, i, changed
<1>5. \A list \in Seq(Link) : [s EXCEPT !.links = list] \in Snapshots
  BY DEF Snapshots
<1> DEFINE list == IF Rejected(s, e) THEN s.links
                   ELSE IF i = 0 THEN Append(s.links, new) ELSE changed
<1>6. list \in Seq(Link)
  BY <1>1, <1>2, <1>3
<1>7. UpsertLink(s, e) = [s EXCEPT !.links = list]
  BY <1>4
<1> HIDE DEF list
<1> QED  BY <1>5, <1>6, <1>7

LEMMA StatusSet ==
    ASSUME NEW l \in Link, NEW v \in {"up", "down"}
    PROVE  /\ [l EXCEPT !.status = v] \in Link
           /\ [l EXCEPT !.status = v].status = v
           /\ Ends([l EXCEPT !.status = v]) = Ends(l)
BY DEF Link, Ends

\* Whatever the edit, a snapshot stays a snapshot.
LEMMA EditedTyped ==
    ASSUME NEW s \in Snapshots, NEW e \in Edits
    PROVE  Edited(s, e) \in Snapshots
<1>1. PICK S \in SUBSET Nodes : s.nodes \in [S -> BOOLEAN]
  BY DEF Snapshots
<1>2. s.links \in Seq(Link) /\ DOMAIN s.links = 1 .. Len(s.links)
  BY DEF Snapshots
<1>3. \A S2 \in SUBSET Nodes : \A f \in [S2 -> BOOLEAN] : f \in UNION {[S3 -> BOOLEAN] : S3 \in SUBSET Nodes}
  OBVIOUS
<1>4. \A list \in Seq(Link) : [s EXCEPT !.links = list] \in Snapshots
  BY DEF Snapshots
<1>5. CASE e.kind = "upsert_node"
  <2> DEFINE f == [n \in DOMAIN s.nodes \cup {e.id} |-> IF n = e.id THEN TRUE ELSE s.nodes[n]]
  <2>1. e.id \in Nodes
    BY <1>5, EditsTyped
  <2>2. S \cup {e.id} \in SUBSET Nodes /\ f \in [S \cup {e.id} -> BOOLEAN]
    BY <1>1, <2>1
  <2> HIDE DEF f
  <2>3. f \in UNION {[S3 -> BOOLEAN] : S3 \in SUBSET Nodes}
    BY <1>3, <2>2
  <2>4. [s EXCEPT !.nodes = f] \in Snapshots
    BY <2>3 DEF Snapshots
  <2> QED  BY <1>5, <2>4 DEF Edited, UpsertNode, f
<1>6. CASE e.kind = "remove_node"
  <2> DEFINE f == [n \in DOMAIN s.nodes \ {e.id} |-> s.nodes[n]]
             list == Sublist(s.links, {i \in DOMAIN s.links : e.id \notin Ends(s.links[i])})
  <2>1. S \ {e.id} \in SUBSET Nodes /\ f \in [S \ {e.id} -> BOOLEAN]
    BY <1>1
  <2>2. list \in Seq(Link)
    BY <1>2, SublistTyped
  <2>3. Edited(s, e) = [nodes |-> f, links |-> list]
    BY <1>6 DEF Edited, RemoveNode
  <2> HIDE DEF f, list
  <2>4. f \in UNION {[S3 -> BOOLEAN] : S3 \in SUBSET Nodes}
    BY <1>3, <2>1
  <2> QED  BY <2>2, <2>3, <2>4 DEF Snapshots
<1>7. CASE e.kind = "upsert_link"
  BY <1>7, UpsertLinkTyped DEF Edited
<1>8. CASE e.kind = "remove_link"
  <2> DEFINE list == Sublist(s.links, {i \in DOMAIN s.links : ~Joins(s.links[i], e)})
  <2>1. list \in Seq(Link)
    BY <1>2, SublistTyped
  <2>2. Edited(s, e) = [s EXCEPT !.links = list]
    BY <1>8 DEF Edited, RemoveLink
  <2> HIDE DEF list
  <2> QED  BY <1>4, <2>1, <2>2
<1>9. CASE e.kind = "set_status"
  <2> DEFINE list == [i \in DOMAIN s.links |->
                        IF Joins(s.links[i], e)
                        THEN [s.links[i] EXCEPT !.status = e.status] ELSE s.links[i]]
  <2>1. e.status \in {"up", "down"}
    BY <1>9, EditsTyped
  <2>2. \A i \in DOMAIN s.links : /\ s.links[i] \in Link
                                  /\ [s.links[i] EXCEPT !.status = e.status] \in Link
    <3> SUFFICES ASSUME NEW i \in DOMAIN s.links
                 PROVE  /\ s.links[i] \in Link
                        /\ [s.links[i] EXCEPT !.status = e.status] \in Link
      OBVIOUS
    <3>1. s.links[i] \in Link
      BY <1>2
    <3>2. [s.links[i] EXCEPT !.status = e.status] \in Link
      BY <2>1, <3>1, StatusSet
    <3> QED  BY <3>1, <3>2
  <2>3. Len(s.links) \in Nat /\ list \in [1 .. Len(s.links) -> Link]
    BY <1>2, <2>2
  <2>4. Edited(s, e) = [s EXCEPT !.links = list]
    BY <1>9 DEF Edited, SetLinkStatus
  <2> HIDE DEF list
  <2>5. list \in Seq(Link)
    BY <2>3
  <2> QED  BY <1>4, <2>4, <2>5
<1> QED  BY <1>5, <1>6, <1>7, <1>8, <1>9, EditsTyped

\* What is read from the source is a snapshot, also when the two reads differ.
LEMMA ReadTyped ==
    /\ Empty \in Snapshots
    /\ ~Live => \A f \in Sources : load_topology(f) \in Snapshots
    /\ Live => \A f \in Sources, g \in Snapshots : /\ [g EXCEPT !.nodes = f.nodes] \in Snapshots
                                                   /\ [g EXCEPT !.links = f.links] \in Snapshots
    /\ \A g \in Snapshots : FromOnos(g.nodes, g.links) \in Snapshots
<1>1. Empty \in Snapshots
  <2>1. << >> \in [{} -> BOOLEAN] /\ {} \in SUBSET Nodes /\ << >> \in Seq(Link)
    OBVIOUS
  <2>2. << >> \in UNION {[S -> BOOLEAN] : S \in SUBSET Nodes}
    BY <2>1
  <2> QED  BY <2>1, <2>2 DEF Empty, Snapshots
<1>2. ASSUME Live, NEW f \in Sources, NEW g \in Snapshots
      PROVE  [g EXCEPT !.nodes = f.nodes] \in Snapshots /\ [g EXCEPT !.links = f.links] \in Snapshots
  <2>1. f \in Snapshots
    BY <1>2, InputAssumption
  <2>2. [g EXCEPT !.nodes = f.nodes] \in Snapshots
    BY <2>1 DEF Snapshots
  <2>3. [g EXCEPT !.links = f.links] \in Snapshots
    BY <2>1 DEF Snapshots
  <2> QED  BY <2>2, <2>3
<1>3. ASSUME NEW g \in Snapshots PROVE FromOnos(g.nodes, g.links) \in Snapshots
  <2> DEFINE firsts == {i \in DOMAIN g.links :
                          /\ g.links[i].source # g.links[i].target
                          /\ \A j \in 1 .. i - 1 : Ends(g.links[j]) # Ends(g.links[i])}
  <2>1. firsts \in SUBSET DOMAIN g.links
    OBVIOUS
  <2>2. FromOnos(g.nodes, g.links) = [nodes |-> g.nodes, links |-> Sublist(g.links, firsts)]
    BY DEF FromOnos
  <2> HIDE DEF firsts
  <2>3. g.links \in Seq(Link)
    BY DEF Snapshots
  <2>4. Sublist(g.links, firsts) \in Seq(Link)
    BY <2>1, <2>3, SublistTyped
  <2>5. g.nodes \in UNION {[S -> BOOLEAN] : S \in SUBSET Nodes}
    BY DEF Snapshots
  <2>6. [nodes |-> g.nodes, links |-> Sublist(g.links, firsts)] \in Snapshots
    BY <2>4, <2>5 DEF Snapshots
  <2> QED  BY <2>2, <2>6
<1> QED  BY <1>1, <1>2, <1>3, InputAssumption

-----------------------------------------------------------------------------
(* Types.                                                                   *)

Phases == {"idle", "devices", "links", "reply", "audit", "done"}

\* Nobody refers to a snapshot that is still being read.
OnlyBuilt ==
    /\ \A t \in Tasks : pc[t] = "audit" => holds[t] # None
    /\ cache # None => Built(cache)
    /\ \A t \in Tasks : holds[t] # None => Built(holds[t])

\* What the tasks do, and what they hold.
TasksTyped ==
    /\ cache \in Tasks \cup {None}
    /\ snap \in [Tasks -> Snapshots]
    /\ pc \in [Tasks -> Phases]
    /\ holds \in [Tasks -> Tasks \cup {None}]
    /\ answer \in [Tasks -> Answers]
    /\ OnlyBuilt
    /\ \A t \in Tasks : pc[t] \in Fetching => Live

Versions ==
    /\ source \in Sources
    /\ version \in 0 .. MaxChanges
    /\ asOf \in [Tasks -> 0 .. version]
    /\ began \in [Tasks -> 0 .. version]

HistoryTyped ==
    /\ DOMAIN seen = Tasks
    /\ \A t \in Tasks : seen[t] \subseteq Snapshots
    /\ downed \subseteq SUBSET Nodes

TypeInv ==
    /\ TasksTyped /\ Versions /\ HistoryTyped
    /\ op \in [Tasks -> Ops]
    /\ route \in [Tasks -> SimplePaths \cup {<< >>}]

LEMMA TypeInvIsTypeOK == TypeInv => TypeOK
BY DEF TypeInv, TasksTyped, Versions, HistoryTyped, OnlyBuilt, TypeOK, Phases

LEMMA TypeInit == Init => TypeInv
<1> SUFFICES ASSUME Init PROVE TypeInv
  OBVIOUS
<1>1. Versions
  BY TopologyAssumption DEF Init, Versions
<1>2. TasksTyped
  BY ReadTyped DEF Init, TasksTyped, OnlyBuilt, Phases, Answers, Fetching
<1>3. HistoryTyped
  BY DEF Init, HistoryTyped
<1>4. op \in [Tasks -> Ops] /\ route \in [Tasks -> SimplePaths \cup {<< >>}]
  BY DEF Init, Ops
<1> QED  BY <1>1, <1>2, <1>3, <1>4 DEF TypeInv

\* What is seen was in force, and what is in force is a snapshot.
LEMMA SeenTyped ==
    ASSUME HistoryTyped, Observe, TasksTyped', downed' \subseteq SUBSET Nodes
    PROVE  HistoryTyped'
<1>1. InForce' \subseteq Snapshots
  BY DEF InForce, TasksTyped
<1> QED  BY <1>1 DEF HistoryTyped, Observe

LEMMA RecordTyped ==
    ASSUME HistoryTyped, NEW o \in Ops, Record(o)
    PROVE  downed' \subseteq SUBSET Nodes
<1>1. downed \subseteq SUBSET Nodes
  BY DEF HistoryTyped
<1>2. CASE o \in Edits /\ Lowers(o)
  <2>1. Ends(o) \subseteq Nodes
    BY <1>2, EditsTyped DEF Lowers
  <2>2. downed' = {} \/ downed' = downed \cup {Ends(o)}
    BY <1>2 DEF Record
  <2> QED  BY <1>1, <2>1, <2>2
<1>3. CASE ~(o \in Edits /\ Lowers(o))
  <2>1. downed' = {} \/ downed' = downed \ {Ends(o)} \/ downed' = downed
    BY <1>3 DEF Record
  <2> QED  BY <1>1, <2>1
<1> QED  BY <1>2, <1>3

LEMMA GotTyped ==
    ASSUME TasksTyped, NEW t \in Tasks, NEW o \in Ops, NEW s \in Tasks,
           NEW heap \in [Tasks -> Snapshots],
           pc[t] \in {"idle"} \cup Fetching,
           s = t \/ Built(s),
           Got(t, o, s, heap)
    PROVE  TasksTyped'
<1>1. pc'[t] \in {"audit", "done"} /\ \A u \in Tasks \ {t} : pc'[u] = pc[u]
  BY DEF Got, TasksTyped
<1>2. pc' \in [Tasks -> Phases]
  BY DEF Got, TasksTyped, Phases
<1>3. \A u \in Tasks : Built(u) => Built(u)'
  BY <1>1 DEF Built
<1>4. Built(s)'
  BY <1>1, <1>3 DEF Built
<1>5. cache' = s /\ holds' = [holds EXCEPT ![t] = s] /\ s # None
  BY TopologyAssumption DEF Got
<1>6. OnlyBuilt'
  <2>1. holds'[t] = s /\ \A u \in Tasks \ {t} : holds'[u] = holds[u]
    BY <1>5 DEF TasksTyped
  <2>2. \A u \in Tasks : pc'[u] = "audit" => holds'[u] # None
    BY <1>1, <1>5, <2>1 DEF TasksTyped, OnlyBuilt
  <2>3. \A u \in Tasks : holds'[u] # None => Built(holds[u])'
    <3> SUFFICES ASSUME NEW u \in Tasks, holds'[u] # None PROVE Built(holds[u])'
      OBVIOUS
    <3>1. CASE u = t
      BY <1>4, <2>1, <3>1 DEF Built
    <3>2. CASE u # t
      <4>1. holds[u] \in Tasks /\ Built(holds[u]) /\ holds'[u] = holds[u]
        BY <2>1, <3>2 DEF TasksTyped, OnlyBuilt
      <4> QED  BY <1>3, <4>1 DEF Built
    <3> QED  BY <3>1, <3>2
  <2>4. Built(cache)'
    BY <1>4, <1>5 DEF Built
  <2> QED  BY <2>2, <2>3, <2>4 DEF OnlyBuilt
<1>7. snap' \in [Tasks -> Snapshots]
  <2>1. CASE o \in Edits
    <3>1. heap[s] \in Snapshots
      OBVIOUS
    <3>2. Edited(heap[s], o) \in Snapshots
      BY <2>1, <3>1, EditedTyped
    <3>3. snap' = [heap EXCEPT ![s] = Edited(heap[s], o)]
      BY <2>1 DEF Got
    <3> QED  BY <3>2, <3>3
  <2>2. CASE o \notin Edits
    BY <2>2 DEF Got
  <2> QED  BY <2>1, <2>2
<1>8. answer' \in [Tasks -> Answers]
  <2>1. PICK a \in Answers : answer' = [answer EXCEPT ![t] = a]
    BY DEF Got, Answers
  <2> QED  BY <2>1 DEF TasksTyped
<1>9. cache' \in Tasks \cup {None} /\ holds' \in [Tasks -> Tasks \cup {None}]
  BY <1>5 DEF TasksTyped
<1>10. \A u \in Tasks : pc'[u] \in Fetching => Live
  BY <1>1 DEF TasksTyped, Fetching
<1> QED  BY <1>2, <1>6, <1>7, <1>8, <1>9, <1>10 DEF TasksTyped

LEMMA BeginTyped ==
    ASSUME TypeInv, NEW t \in Tasks, NEW o \in Ops, Begin(t, o)
    PROVE  /\ TasksTyped' /\ Versions'
           /\ op' \in [Tasks -> Ops] /\ route' \in [Tasks -> SimplePaths \cup {<< >>}]
<1>1. /\ pc[t] = "idle" /\ op' = [op EXCEPT ![t] = o] /\ began' = [began EXCEPT ![t] = version]
      /\ UNCHANGED <<source, version, route>>
  BY DEF Begin
<1>2. version \in 0 .. version /\ version \in Nat
  BY TopologyAssumption DEF TypeInv, Versions
<1>3. asOf' \in [Tasks -> 0 .. version] => Versions'
  BY <1>1, <1>2 DEF TypeInv, Versions
<1>4. CASE Cached(o) # None /\ Got(t, o, Cached(o), snap) /\ asOf' = asOf
  <2>1. Cached(o) \in Tasks /\ Built(Cached(o))
    BY <1>4 DEF Cached, TypeInv, TasksTyped, OnlyBuilt
  <2>2. TasksTyped'
    BY <1>1, <1>4, <2>1, GotTyped DEF TypeInv, TasksTyped
  <2>3. Versions'
    BY <1>3, <1>4 DEF TypeInv, Versions
  <2> QED  BY <1>1, <2>2, <2>3 DEF TypeInv
<1>5. CASE /\ ~Live /\ Got(t, o, t, [snap EXCEPT ![t] = load_topology(source)])
           /\ asOf' = [asOf EXCEPT ![t] = version]
  <2>1. load_topology(source) \in Snapshots
    BY <1>5, ReadTyped DEF TypeInv, Versions
  <2> DEFINE heap == [snap EXCEPT ![t] = load_topology(source)]
  <2>2. heap \in [Tasks -> Snapshots]
    BY <2>1 DEF TypeInv, TasksTyped
  <2>3. Got(t, o, t, heap)
    BY <1>5
  <2> HIDE DEF heap
  <2>4. TasksTyped'
    BY <1>1, <2>2, <2>3, GotTyped DEF TypeInv
  <2>5. asOf' \in [Tasks -> 0 .. version]
    BY <1>2, <1>5 DEF TypeInv, Versions
  <2> QED  BY <1>1, <1>3, <2>4, <2>5 DEF TypeInv
<1>6. CASE /\ Live /\ cache' = None /\ pc' = [pc EXCEPT ![t] = "devices"]
           /\ UNCHANGED <<snap, holds, answer, asOf>>
  <2>0. UNCHANGED <<snap, holds, answer, asOf>>
    BY <1>6
  <2>1. pc' \in [Tasks -> Phases] /\ pc'[t] = "devices" /\ \A u \in Tasks \ {t} : pc'[u] = pc[u]
    BY <1>6 DEF TypeInv, TasksTyped, Phases
  <2>2. \A u \in Tasks : Built(u) => Built(u)'
    BY <1>1, <2>1 DEF Built
  <2>3. OnlyBuilt'
    <3>1. \A u \in Tasks : holds[u] # None => Built(holds[u])'
      BY <2>0, <2>2 DEF TypeInv, TasksTyped, OnlyBuilt, Built
    <3>2. \A u \in Tasks : pc'[u] = "audit" => holds[u] # None
      BY <2>1 DEF TypeInv, TasksTyped, OnlyBuilt
    <3> QED  BY <1>6, <2>0, <3>1, <3>2 DEF OnlyBuilt, Built
  <2>4. TasksTyped'
    BY <1>6, <2>1, <2>3 DEF TypeInv, TasksTyped
  <2>5. Versions'
    BY <1>3, <1>6 DEF TypeInv, Versions
  <2> QED  BY <1>1, <2>4, <2>5 DEF TypeInv
<1> QED  BY <1>4, <1>5, <1>6 DEF Begin

\* A step that moves task t on, and refers to nothing new.
LEMMA MovedTyped ==
    ASSUME TypeInv, NEW t \in Tasks, NEW phase \in Phases, pc' = [pc EXCEPT ![t] = phase],
           Built(t) => phase = "done", phase # "audit", phase \in Fetching => Live,
           cache' = cache, holds' = holds, op' = op,
           snap' \in [Tasks -> Snapshots], answer' \in [Tasks -> Answers]
    PROVE  TasksTyped' /\ op' \in [Tasks -> Ops]
<1>1. pc' \in [Tasks -> Phases] /\ pc'[t] = phase /\ \A u \in Tasks \ {t} : pc'[u] = pc[u]
  BY DEF TypeInv, TasksTyped
<1>2. \A u \in Tasks : Built(u) => Built(u)'
  BY <1>1 DEF Built
<1>3. OnlyBuilt'
  <2>1. \A u \in Tasks : holds[u] # None => Built(holds[u])'
    BY <1>2 DEF TypeInv, TasksTyped, OnlyBuilt
  <2>2. \A u \in Tasks : pc'[u] = "audit" => holds[u] # None
    BY <1>1 DEF TypeInv, TasksTyped, OnlyBuilt
  <2>3. cache # None => Built(cache)'
    BY <1>2 DEF TypeInv, TasksTyped, OnlyBuilt
  <2> QED  BY <2>1, <2>2, <2>3 DEF OnlyBuilt, Built
<1>4. \A u \in Tasks : pc'[u] \in Fetching => Live
  BY <1>1 DEF TypeInv, TasksTyped
<1> QED  BY <1>1, <1>3, <1>4 DEF TypeInv, TasksTyped

LEMMA FetchTyped ==
    ASSUME TypeInv, NEW t \in Tasks,
           ReadDevices(t) \/ ReadLinks(t) \/ FetchFails(t) \/ Fetched(t)
    PROVE  /\ TasksTyped' /\ Versions'
           /\ op' \in [Tasks -> Ops] /\ route' \in [Tasks -> SimplePaths \cup {<< >>}]
<1>1. pc[t] \in Fetching /\ ~Built(t) /\ Live /\ op[t] \in Ops
  BY DEF ReadDevices, ReadLinks, FetchFails, Fetched, TypeInv, TasksTyped, Fetching, Built
<1>2. /\ snap[t] \in Snapshots /\ source \in Sources /\ version \in 0 .. version
      /\ snap \in [Tasks -> Snapshots] /\ answer \in [Tasks -> Answers]
  BY TopologyAssumption DEF TypeInv, TasksTyped, Versions
<1>3. UNCHANGED <<source, version, op, route, began>>
  BY DEF ReadDevices, ReadLinks, FetchFails, Fetched
<1>4. asOf' \in [Tasks -> 0 .. version]
  BY <1>2 DEF ReadDevices, ReadLinks, FetchFails, Fetched, TypeInv, Versions
<1>5. Versions'
  BY <1>3, <1>4 DEF TypeInv, Versions
<1>6. op' \in [Tasks -> Ops] /\ route' \in [Tasks -> SimplePaths \cup {<< >>}]
  BY <1>3 DEF TypeInv
<1>7. CASE ReadDevices(t)
  <2>1. [snap[t] EXCEPT !.nodes = source.nodes] \in Snapshots
    BY <1>1, <1>2, ReadTyped
  <2>2. snap' \in [Tasks -> Snapshots]
    BY <1>2, <1>7, <2>1 DEF ReadDevices
  <2>3. /\ pc' = [pc EXCEPT ![t] = "links"] /\ "links" \in Phases
        /\ UNCHANGED <<cache, holds, answer>>
    BY <1>7 DEF ReadDevices, Phases
  <2> QED  BY <1>1, <1>2, <1>3, <1>5, <1>6, <2>2, <2>3, MovedTyped
<1>8. CASE ReadLinks(t)
  <2>1. [snap[t] EXCEPT !.links = source.links] \in Snapshots
    BY <1>1, <1>2, ReadTyped
  <2>2. snap' \in [Tasks -> Snapshots]
    BY <1>2, <1>8, <2>1 DEF ReadLinks
  <2>3. /\ pc' = [pc EXCEPT ![t] = "reply"] /\ "reply" \in Phases
        /\ UNCHANGED <<cache, holds, answer>>
    BY <1>8 DEF ReadLinks, Phases
  <2> QED  BY <1>1, <1>2, <1>3, <1>5, <1>6, <2>2, <2>3, MovedTyped
<1>9. CASE FetchFails(t)
  <2>1. answer' \in [Tasks -> Answers]
    BY <1>2, <1>9 DEF FetchFails, Answers
  <2>2. /\ pc' = [pc EXCEPT ![t] = "done"] /\ "done" \in Phases /\ "done" \notin Fetching
        /\ UNCHANGED <<cache, holds, snap>>
    BY <1>9 DEF FetchFails, Phases, Fetching
  <2> QED  BY <1>1, <1>2, <1>3, <1>5, <1>6, <2>1, <2>2, MovedTyped
<1>10. CASE Fetched(t)
  <2> DEFINE heap == [snap EXCEPT ![t] = FromOnos(@.nodes, @.links)]
  <2>1. FromOnos(snap[t].nodes, snap[t].links) \in Snapshots
    BY <1>2, ReadTyped
  <2>2. heap \in [Tasks -> Snapshots]
    BY <1>2, <2>1
  <2>3. Got(t, op[t], t, heap)
    BY <1>10 DEF Fetched
  <2> HIDE DEF heap
  <2> QED  BY <1>1, <1>5, <1>6, <2>2, <2>3, GotTyped DEF TypeInv
<1> QED  BY <1>7, <1>8, <1>9, <1>10

LEMMA ComputeTyped ==
    ASSUME TypeInv, NEW t \in Tasks, Compute(t)
    PROVE  /\ TasksTyped' /\ Versions'
           /\ op' \in [Tasks -> Ops] /\ route' \in [Tasks -> SimplePaths \cup {<< >>}]
<1>1. /\ pc' = [pc EXCEPT ![t] = "done"] /\ "done" \in Phases /\ "done" \notin Fetching
      /\ UNCHANGED <<source, version, cache, snap, op, holds, asOf, began>>
  BY DEF Compute, Phases, Fetching
<1>2. ShortestPaths(Dump(t), Source, Destination) \subseteq SimplePaths
  BY DEF ShortestPaths
<1>3. \/ route' = route
      \/ \E p \in SimplePaths : route' = [route EXCEPT ![t] = p]
  BY <1>2 DEF Compute
<1>4. route' \in [Tasks -> SimplePaths \cup {<< >>}]
  BY <1>3 DEF TypeInv
<1>5. answer' \in [Tasks -> Answers]
  <2>1. PICK a \in Answers : answer' = [answer EXCEPT ![t] = a]
    BY DEF Compute, Answers
  <2> QED  BY <2>1 DEF TypeInv, TasksTyped
<1>6. Versions'
  BY <1>1 DEF TypeInv, Versions
<1>7. snap' \in [Tasks -> Snapshots]
  BY <1>1 DEF TypeInv, TasksTyped
<1> QED  BY <1>1, <1>4, <1>5, <1>6, <1>7, MovedTyped

LEMMA SourceTyped ==
    ASSUME TypeInv, SourceChanges
    PROVE  /\ TasksTyped' /\ Versions'
           /\ op' \in [Tasks -> Ops] /\ route' \in [Tasks -> SimplePaths \cup {<< >>}]
<1>1. /\ version < MaxChanges /\ version' = version + 1 /\ source' \in Sources
      /\ UNCHANGED <<cache, snap, pc, op, holds, answer, route, asOf, began>>
  BY DEF SourceChanges
<1>2. MaxChanges \in Nat /\ version \in 0 .. MaxChanges
  BY TopologyAssumption DEF TypeInv, Versions
<1>3. version + 1 \in 0 .. MaxChanges /\ \A v \in 0 .. version : v \in 0 .. version + 1
  BY <1>1, <1>2
<1>4. asOf \in [Tasks -> 0 .. version + 1] /\ began \in [Tasks -> 0 .. version + 1]
  BY <1>3 DEF TypeInv, Versions
<1>5. Versions'
  BY <1>1, <1>3, <1>4 DEF Versions
<1>6. TasksTyped'
  BY <1>1 DEF TypeInv, TasksTyped, OnlyBuilt, Built
<1> QED  BY <1>1, <1>5, <1>6 DEF TypeInv

LEMMA TypeStep == TypeInv /\ [Next]_vars => TypeInv'
<1> SUFFICES ASSUME TypeInv, [Next]_vars PROVE TypeInv'
  OBVIOUS
<1> DEFINE Others == /\ TasksTyped' /\ Versions'
                     /\ op' \in [Tasks -> Ops] /\ route' \in [Tasks -> SimplePaths \cup {<< >>}]
<1>1. CASE Next
  <2>1. Observe /\ HistoryTyped /\ downed \subseteq SUBSET Nodes
    BY <1>1 DEF Next, TypeInv, HistoryTyped
  <2>2. ASSUME NEW t \in Tasks, Task(t) PROVE Others /\ downed' \subseteq SUBSET Nodes
    <3>1. ASSUME NEW o \in Ops, Begin(t, o), Record(o)
          PROVE  Others /\ downed' \subseteq SUBSET Nodes
      BY <2>1, <3>1, BeginTyped, RecordTyped
    <3>2. CASE /\ ReadDevices(t) \/ ReadLinks(t) \/ Fetched(t) \/ FetchFails(t)
               /\ UNCHANGED downed
      BY <2>1, <3>2, FetchTyped
    <3>3. CASE Compute(t) /\ UNCHANGED downed
      BY <2>1, <3>3, ComputeTyped
    <3> QED  BY <2>2, <3>1, <3>2, <3>3 DEF Task
  <2>3. ASSUME SourceChanges, UNCHANGED downed PROVE Others /\ downed' \subseteq SUBSET Nodes
    BY <2>1, <2>3, SourceTyped
  <2>4. Others /\ downed' \subseteq SUBSET Nodes
    <3>1. CASE \E t \in Tasks : Task(t)
      BY <2>2, <3>1
    <3>2. CASE SourceChanges /\ UNCHANGED downed
      BY <2>3, <3>2
    <3> QED  BY <1>1, <3>1, <3>2 DEF Next
  <2>5. HistoryTyped'
    <3>1. TasksTyped' /\ downed' \subseteq SUBSET Nodes
      BY <2>4
    <3> HIDE DEF Others
    <3> QED  BY <2>1, <3>1, SeenTyped
  <2> QED  BY <2>4, <2>5 DEF TypeInv
<1>2. CASE UNCHANGED vars
  BY <1>2 DEF vars, TypeInv, TasksTyped, OnlyBuilt, Versions, HistoryTyped, Built
<1> QED  BY <1>1, <1>2

\* With either source every variable stays in its domain: in particular no
\* torn or half-edited topology leaves the snapshots, nobody holds or caches
\* one before both reads are in, and the history of seen topologies has only
\* such (get_snapshot, _from_onos, upsert_node .. set_link_status).
THEOREM TopologyTypeCorrect == Spec => []TypeOK
<1> QED  BY TypeInit, TypeStep, TypeInvIsTypeOK, PTL DEF Spec

-----------------------------------------------------------------------------
(* Edits with the static source.                                            *)

LEMMA LeastOf ==
    ASSUME NEW S \in SUBSET Nat, S # {}
    PROVE  /\ Min(S) \in S
           /\ \A x \in S : Min(S) <= x
<1> DEFINE R == OpToRel(<, Nat)
<1>1. IsWellFoundedOn(R, Nat)
  BY NatLessThanWellFounded
<1>2. \A x, y \in Nat : x < y <=> <<x, y>> \in R
  BY DEF OpToRel
<1> HIDE DEF R
<1>3. PICK m \in S : \A y \in S : ~ (<<y, m>> \in R)
  BY <1>1, WFMin
<1>4. \A y \in S : m <= y
  <2> SUFFICES ASSUME NEW y \in S PROVE m <= y
    OBVIOUS
  <2>1. ~ (y < m) /\ y \in Nat /\ m \in Nat
    BY <1>2, <1>3
  <2> QED  BY <2>1
<1> QED  BY <1>3, <1>4 DEF Min

LEMMA JoinsIsEnds == \A l, e : Joins(l, e) <=> Ends(l) = Ends(e)
BY DEF Joins, Same, Ends

\* The first link with the ends of e, or 0 if there is none.
LEMMA FirstIs ==
    ASSUME NEW s, NEW e, s.links \in Seq(Link)
    PROVE  \/ /\ First(s, e) = 0
              /\ \A k \in DOMAIN s.links : Ends(s.links[k]) # Ends(e)
           \/ /\ First(s, e) \in DOMAIN s.links
              /\ Ends(s.links[First(s, e)]) = Ends(e)
              /\ \A k \in DOMAIN s.links : k < First(s, e) => Ends(s.links[k]) # Ends(e)
<1> DEFINE I == {k \in 1 .. Len(s.links) : Joins(s.links[k], e)}
<1>1. First(s, e) = IF I # {} THEN Min(I) ELSE 0
  BY DEF First, SelectInSeq
<1>2. DOMAIN s.links = 1 .. Len(s.links)
  OBVIOUS
<1>3. \A k \in DOMAIN s.links : k \in I <=> Ends(s.links[k]) = Ends(e)
  BY <1>2, JoinsIsEnds
<1>4. I \subseteq DOMAIN s.links /\ I \in SUBSET Nat
  BY <1>2
<1> HIDE DEF I
<1>5. CASE I = {}
  BY <1>1, <1>3, <1>5
<1>6. CASE I # {}
  <2>1. First(s, e) \in I /\ \A k \in I : First(s, e) <= k
    BY <1>1, <1>4, <1>6, LeastOf
  <2>2. \A k \in DOMAIN s.links : k < First(s, e) => k \notin I
    BY <1>2, <1>4, <2>1
  <2> QED  BY <1>3, <1>4, <2>1, <2>2
<1> QED  BY <1>5, <1>6

\* The links of s between ends in D are down.
DownIn(s, D) == \A k \in DOMAIN s.links : Ends(s.links[k]) \in D => s.links[k].status = "down"

LEMMA SublistDown ==
    ASSUME NEW s, s.links \in Seq(Link), NEW kept \in SUBSET DOMAIN s.links, NEW D, NEW r,
           r.links = Sublist(s.links, kept),
           \A k \in kept : Ends(s.links[k]) \in D => s.links[k].status = "down"
    PROVE  DownIn(r, D)
<1>1. \A x \in ToSet(r.links) : \E k \in kept : x = s.links[k]
  BY SublistTyped
<1> QED  BY ZenonT(60), <1>1 DEF DownIn, ToSet

\* An edit leaves down what was put down, but for what it puts up itself.
LEMMA EditKeepsDown ==
    ASSUME NEW s \in Snapshots, NEW o \in Edits, DownIn(s, downed), Record(o)
    PROVE  DownIn(Edited(s, o), downed')
<1>1. o # Refresh /\ s.links \in Seq(Link) /\ DOMAIN s.links = 1 .. Len(s.links)
  BY TopologyAssumption DEF Snapshots
<1>2. CASE o.kind = "upsert_node"
  <2>1. downed' = downed
    BY <1>1, <1>2 DEF Record, Lowers, Raises
  <2>2. Edited(s, o).links = s.links
    BY <1>2 DEF Edited, UpsertNode, Snapshots
  <2> QED  BY <2>1, <2>2 DEF DownIn
<1>3. CASE o.kind = "remove_node"
  <2>1. downed' = downed
    BY <1>1, <1>3 DEF Record, Lowers, Raises
  <2> DEFINE kept == {i \in DOMAIN s.links : o.id \notin Ends(s.links[i])}
  <2>2. Edited(s, o).links = Sublist(s.links, kept)
    BY <1>3 DEF Edited, RemoveNode
  <2> HIDE DEF kept
  <2>3. kept \in SUBSET DOMAIN s.links
    BY DEF kept
  <2>4. \A k \in kept : Ends(s.links[k]) \in downed => s.links[k].status = "down"
    BY <2>3 DEF DownIn
  <2> QED  BY <1>1, <2>1, <2>2, <2>3, <2>4, SublistDown
<1>4. CASE o.kind = "remove_link"
  <2>1. downed' = downed \cup {Ends(o)}
    BY <1>1, <1>4 DEF Record, Lowers
  <2> DEFINE kept == {i \in DOMAIN s.links : ~Joins(s.links[i], o)}
  <2>2. Edited(s, o).links = Sublist(s.links, kept)
    BY <1>4 DEF Edited, RemoveLink, Snapshots
  <2> HIDE DEF kept
  <2>3. kept \in SUBSET DOMAIN s.links /\ \A k \in kept : Ends(s.links[k]) # Ends(o)
    BY JoinsIsEnds DEF kept
  <2>4. \A k \in kept : Ends(s.links[k]) \in downed' => s.links[k].status = "down"
    BY <2>1, <2>3 DEF DownIn
  <2> QED  BY <1>1, <2>2, <2>3, <2>4, SublistDown
<1>5. CASE o.kind = "set_status"
  <2> DEFINE list == [i \in DOMAIN s.links |->
                        IF Joins(s.links[i], o)
                        THEN [s.links[i] EXCEPT !.status = o.status] ELSE s.links[i]]
  <2>1. Edited(s, o).links = list
    BY <1>5 DEF Edited, SetLinkStatus, Snapshots
  <2>2. o.status \in {"up", "down"}
    BY <1>5, EditsTyped
  <2>3. downed' = IF o.status = "down" THEN downed \cup {Ends(o)} ELSE downed \ {Ends(o)}
    BY <1>1, <1>5 DEF Record, Lowers, Raises
  <2>4. ASSUME NEW k \in DOMAIN s.links, Ends(list[k]) \in downed'
        PROVE  list[k].status = "down"
    <3>1. s.links[k] \in Link
      BY <1>1
    <3>2. CASE Joins(s.links[k], o)
      <4>1. list[k] = [s.links[k] EXCEPT !.status = o.status]
        BY <3>2
      <4>2. Ends(list[k]) = Ends(s.links[k]) /\ list[k].status = o.status
        BY <2>2, <3>1, <4>1, StatusSet
      <4>3. Ends(list[k]) = Ends(o)
        BY <3>2, <4>2, JoinsIsEnds
      <4> QED  BY <2>2, <2>3, <2>4, <4>2, <4>3
    <3>3. CASE ~Joins(s.links[k], o)
      <4>1. list[k] = s.links[k] /\ Ends(list[k]) # Ends(o)
        BY <3>3, JoinsIsEnds
      <4>2. Ends(s.links[k]) \in downed
        BY <2>3, <2>4, <4>1
      <4> QED  BY <4>1, <4>2 DEF DownIn
    <3> QED  BY <3>2, <3>3
  <2>5. DOMAIN list = DOMAIN s.links
    OBVIOUS
  <2> HIDE DEF list
  <2> QED  BY <2>1, <2>4, <2>5 DEF DownIn
<1>6. CASE o.kind = "upsert_link"
  <2> DEFINE i == First(s, o)
             new == Renewed(o, o.source, o.target)
             x == Renewed(o, s.links[i].source, s.links[i].target)
  <2>1. downed' = downed \ {Ends(o)}
    BY <1>1, <1>6 DEF Record, Lowers, Raises
  <2>2. Edited(s, o).links = IF Rejected(s, o) THEN s.links
                             ELSE IF i = 0 THEN Append(s.links, new)
                             ELSE [s.links EXCEPT ![i] = x]
    BY <1>6, UpsertLinkIs DEF Edited, Snapshots
  <2>3. Ends(new) = Ends(o) /\ Ends(x) = Ends(s.links[i])
    BY DEF Renewed, Ends
  <2>4. i = 0 \/ (i \in DOMAIN s.links /\ Ends(s.links[i]) = Ends(o))
    BY <1>1, FirstIs
  <2> HIDE DEF i, new, x
  <2>5. CASE Rejected(s, o)
    BY <2>1, <2>2, <2>5 DEF DownIn
  <2>6. CASE ~Rejected(s, o) /\ i = 0
    <3>1. Edited(s, o).links = Append(s.links, new)
      BY <2>2, <2>6
    <3>2. \A k \in DOMAIN Append(s.links, new) :
             \/ k \in DOMAIN s.links /\ Append(s.links, new)[k] = s.links[k]
             \/ Append(s.links, new)[k] = new
      BY <1>1
    <3> QED  BY <2>1, <2>3, <3>1, <3>2 DEF DownIn
  <2>7. CASE ~Rejected(s, o) /\ i # 0
    <3>1. Edited(s, o).links = [s.links EXCEPT ![i] = x]
      BY <2>2, <2>7
    <3>2. Ends(x) = Ends(o)
      BY <2>3, <2>4, <2>7
    <3> QED  BY <2>1, <3>1, <3>2 DEF DownIn
  <2> QED  BY <2>5, <2>6, <2>7
<1> QED  BY <1>2, <1>3, <1>4, <1>5, <1>6, EditsTyped

\* Links that were put down are down in the topology in force.
StayInv ==
    /\ TypeInv
    /\ cache = None => downed = {}
    /\ cache # None => DownIn(snap[cache], downed)

\* What Got leaves in force, when it finds snapshot s in the heap.
LEMMA GotStays ==
    ASSUME NEW t \in Tasks, NEW o \in Ops, NEW s \in Tasks,
           NEW heap \in [Tasks -> Snapshots], DownIn(heap[s], downed) \/ o = Refresh,
           Got(t, o, s, heap), Record(o)
    PROVE  cache' # None /\ DownIn(snap[cache], downed)'
<1>1. cache' = s /\ s # None /\ heap[s] \in Snapshots
  BY TopologyAssumption DEF Got
<1>2. CASE o = Refresh
  <2>1. downed' = {}
    BY <1>2, TopologyAssumption DEF Record
  <2> QED  BY <1>1, <2>1 DEF DownIn
<1>3. CASE o \in Edits
  <2>1. o # Refresh
    BY <1>3, TopologyAssumption
  <2>2. snap'[s] = Edited(heap[s], o)
    BY <1>3 DEF Got
  <2>3. DownIn(Edited(heap[s], o), downed')
    BY <1>1, <1>3, <2>1, EditKeepsDown
  <2> QED  BY <1>1, <2>2, <2>3
<1>4. CASE o \notin Edits /\ o # Refresh
  <2>1. downed' = downed
    BY <1>4 DEF Record
  <2>2. snap' = heap
    BY <1>4 DEF Got
  <2> QED  BY <1>1, <1>4, <2>1, <2>2
<1> QED  BY <1>2, <1>3, <1>4

LEMMA StayStep == ~Live /\ StayInv /\ [Next]_vars => StayInv'
<1> SUFFICES ASSUME ~Live, StayInv, [Next]_vars PROVE StayInv'
  OBVIOUS
<1>1. TypeInv /\ TypeInv'
  BY TypeStep DEF StayInv
<1>2. ASSUME UNCHANGED <<cache, snap, downed>> PROVE StayInv'
  <2>1. cache' = cache /\ snap' = snap /\ downed' = downed
    BY <1>2
  <2>2. cache # None => DownIn(snap[cache], downed)'
    BY <2>1 DEF StayInv, DownIn
  <2>3. TypeInv' /\ (cache' = None => downed' = {})
    BY <1>1, <2>1 DEF StayInv
  <2> QED  BY <2>1, <2>2, <2>3 DEF StayInv
<1>3. ASSUME NEW t \in Tasks, NEW o \in Ops, Begin(t, o), Record(o) PROVE StayInv'
  <2>1. snap \in [Tasks -> Snapshots] /\ source \in Sources /\ cache \in Tasks \cup {None}
    BY <1>1 DEF TypeInv, TasksTyped, Versions
  <2>2. CASE Cached(o) # None /\ Got(t, o, Cached(o), snap)
    <3>1. cache # None /\ Cached(o) = cache
      BY <2>2 DEF Cached
    <3>2. cache \in Tasks /\ DownIn(snap[cache], downed)
      BY <2>1, <3>1 DEF StayInv
    <3> QED  BY <1>1, <1>3, <2>1, <2>2, <3>1, <3>2, GotStays DEF StayInv
  <2>3. CASE Cached(o) = None /\ Got(t, o, t, [snap EXCEPT ![t] = load_topology(source)])
    <3> DEFINE heap == [snap EXCEPT ![t] = load_topology(source)]
    <3>1. heap \in [Tasks -> Snapshots]
      BY <2>1, ReadTyped
    <3>2. o = Refresh \/ downed = {}
      BY <2>3 DEF Cached, StayInv
    <3>3. Got(t, o, t, heap)
      BY <2>3
    <3> HIDE DEF heap
    <3>4. DownIn(heap[t], downed) \/ o = Refresh
      BY <3>2 DEF DownIn
    <3> QED  BY <1>1, <1>3, <3>1, <3>3, <3>4, GotStays DEF StayInv
  <2> QED  BY <1>3, <2>2, <2>3 DEF Begin
<1>4. ASSUME NEW t \in Tasks, Task(t) PROVE StayInv'
  <2>1. pc[t] \notin Fetching
    BY <1>1 DEF TypeInv, TasksTyped
  <2>2. CASE Compute(t) /\ UNCHANGED downed
    BY <1>2, <2>2 DEF Compute
  <2>3. ~ (ReadDevices(t) \/ ReadLinks(t) \/ Fetched(t) \/ FetchFails(t))
    BY <2>1 DEF ReadDevices, ReadLinks, Fetched, FetchFails, Fetching
  <2> QED  BY <1>3, <1>4, <2>2, <2>3 DEF Task
<1>5. CASE SourceChanges /\ UNCHANGED downed
  BY <1>2, <1>5 DEF SourceChanges
<1>6. CASE UNCHANGED vars
  BY <1>2, <1>6 DEF vars
<1> QED  BY <1>4, <1>5, <1>6 DEF Next

\* With the static source a link put down or removed stays out of the topology
\* in force, whatever other edits follow, parallel links included, until one
\* puts it back or a refresh discards the edits (upsert_node .. refresh).
THEOREM StaticEditsStay == ~Live /\ Spec => []EditsStay
<1> SUFFICES ASSUME ~Live PROVE Spec => []EditsStay
  OBVIOUS
<1>1. Init => StayInv
  BY TypeInit DEF Init, StayInv
<1>2. StayInv => EditsStay
  <2> SUFFICES ASSUME StayInv, cache # None, NEW e \in downed,
                      NEW k \in DOMAIN snap[cache].links, Ends(snap[cache].links[k]) = e
               PROVE  ~Usable(snap[cache], snap[cache].links[k])
    BY DEF EditsStay, ToSet
  <2> QED  BY DEF StayInv, DownIn, Usable
<1>3. StayInv /\ [Next]_vars => StayInv'
  BY StayStep
<1> QED  BY <1>1, <1>2, <1>3, PTL DEF Spec

-----------------------------------------------------------------------------
(* The graph and the cheapest paths.                                        *)

\* What a recursion over the numbers up to n computes exists.
LEMMA RecursionExists ==
    ASSUME NEW D, NEW a \in D, NEW n \in Nat, NEW step \in [1 .. n -> [D -> D]]
    PROVE  \E f \in [0 .. n -> D] :
              f[0] = a /\ \A i \in 1 .. n : f[i] = step[i][f[i - 1]]
<1> DEFINE Good(f, k) == f[0] = a /\ \A i \in 1 .. k : f[i] = step[i][f[i - 1]]
           S == {k \in Nat : k <= n => \E f \in [0 .. k -> D] : Good(f, k)}
<1>1. 0 \in S
  <2> DEFINE f == [i \in 0 .. 0 |-> a]
  <2>1. f \in [0 .. 0 -> D] /\ Good(f, 0)
    OBVIOUS
  <2> QED  BY <2>1
<1>2. ASSUME NEW k \in S PROVE k + 1 \in S
  <2>1. k \in Nat /\ (k <= n => \E f \in [0 .. k -> D] : Good(f, k))
    OBVIOUS
  <2>2. (k + 1 <= n => \E f \in [0 .. k + 1 -> D] : Good(f, k + 1)) => k + 1 \in S
    <3> HIDE DEF Good
    <3> QED  BY <2>1
  <2>3. SUFFICES ASSUME k + 1 <= n PROVE \E f \in [0 .. k + 1 -> D] : Good(f, k + 1)
    <3> HIDE DEF S, Good
    <3> QED  BY <2>2
  <2>4. k <= n
    BY <2>1, <2>3
  <2>5. PICK f \in [0 .. k -> D] : Good(f, k)
    <3> HIDE DEF Good
    <3> QED  BY <2>1, <2>4
  <2> DEFINE g == [i \in 0 .. k + 1 |-> IF i = k + 1 THEN step[i][f[k]] ELSE f[i]]
  <2>6. g \in [0 .. k + 1 -> D]
    <3> SUFFICES ASSUME NEW i \in 0 .. k + 1 PROVE g[i] \in D
      OBVIOUS
    <3>1. CASE i = k + 1
      <4>1. i \in 1 .. n /\ k \in 0 .. k
        BY <2>1, <2>3, <3>1
      <4> QED  BY <2>5, <3>1, <4>1
    <3>2. CASE i # k + 1
      BY <2>1, <2>5, <3>2
    <3> QED  BY <3>1, <3>2
  <2>7. \A i \in 0 .. k : g[i] = f[i]
    BY <2>1
  <2>8. g[k + 1] = step[k + 1][g[k]]
    BY <2>1, <2>7
  <2> HIDE DEF g
  <2>9. \A i \in 1 .. k + 1 : g[i] = step[i][g[i - 1]]
    <3> SUFFICES ASSUME NEW i \in 1 .. k + 1 PROVE g[i] = step[i][g[i - 1]]
      OBVIOUS
    <3>1. CASE i = k + 1
      BY <2>1, <2>8, <3>1
    <3>2. CASE i # k + 1
      <4>1. i \in 1 .. k /\ i \in 0 .. k /\ i - 1 \in 0 .. k
        BY <2>1, <3>2
      <4> QED  BY <2>5, <2>7, <4>1
    <3> QED  BY <3>1, <3>2
  <2>10. g[0] = a
    BY <2>1, <2>5, <2>7
  <2> QED  BY <2>6, <2>9, <2>10
<1>3. S = Nat
  <2>1. S \in SUBSET Nat
    OBVIOUS
  <2> HIDE DEF S
  <2> QED  BY <1>1, <1>2, <2>1, SetInduction
<1>4. n \in S
  BY <1>3
<1> QED  BY <1>4

\* The edges found so far, with their costs.
Graphs == UNION {[E -> Nat] : E \in SUBSET SUBSET Nodes}

LEMMA AddEdgeTyped ==
    ASSUME NEW s, NEW g \in Graphs, NEW l \in Link
    PROVE  AddEdge(s, g, l) \in Graphs
<1>1. PICK E \in SUBSET SUBSET Nodes : g \in [E -> Nat]
  BY DEF Graphs
<1>2. Ends(l) \in SUBSET Nodes /\ l.cost \in Nat
  BY DEF Ends, Link
<1>3. Weigh(g, Ends(l), l.cost) \in [E \cup {Ends(l)} -> Nat]
  BY <1>1, <1>2 DEF Weigh
<1>4. E \cup {Ends(l)} \in SUBSET SUBSET Nodes
  BY <1>2
<1>5. Weigh(g, Ends(l), l.cost) \in Graphs
  BY <1>3, <1>4 DEF Graphs
<1> QED  BY <1>5 DEF AddEdge

LEMMA LinksTyped ==
    ASSUME NEW s \in Snapshots
    PROVE  s.links \in Seq(Link) /\ Len(s.links) \in Nat /\ DOMAIN s.links = 1 .. Len(s.links)
BY DEF Snapshots

LEMMA GraphGrows ==
    ASSUME NEW s \in Snapshots
    PROVE  \E f : /\ BuildGraph(s) = f[Len(s.links)]
                  /\ f[0] = << >>
                  /\ \A i \in 1 .. Len(s.links) : f[i] = AddEdge(s, f[i - 1], s.links[i])
<1>1. PICK n \in Nat : n = Len(s.links) /\ \A i \in 1 .. n : s.links[i] \in Link
  BY LinksTyped
<1> DEFINE Rec(f) == [i \in 0 .. n |-> IF i = 0 THEN << >> ELSE AddEdge(s, f[i - 1], s.links[i])]
           step == [i \in 1 .. n |-> [g \in Graphs |-> AddEdge(s, g, s.links[i])]]
           chosen == CHOOSE f : f = Rec(f)
<1>2. << >> \in Graphs
  <2>1. << >> \in [{} -> Nat]
    OBVIOUS
  <2> QED  BY <2>1 DEF Graphs
<1>3. step \in [1 .. n -> [Graphs -> Graphs]]
  BY <1>1, AddEdgeTyped
<1>10. \A i \in 1 .. n, g \in Graphs : step[i][g] = AddEdge(s, g, s.links[i])
  OBVIOUS
<1> HIDE DEF step
<1>4. PICK f \in [0 .. n -> Graphs] :
         f[0] = << >> /\ \A i \in 1 .. n : f[i] = step[i][f[i - 1]]
  BY <1>2, <1>3, RecursionExists
<1>5. f = Rec(f)
  <2>1. \A i \in 1 .. n : i - 1 \in 0 .. n /\ f[i - 1] \in Graphs
    OBVIOUS
  <2>2. \A i \in 0 .. n : f[i] = IF i = 0 THEN << >> ELSE AddEdge(s, f[i - 1], s.links[i])
    <3> SUFFICES ASSUME NEW i \in 1 .. n PROVE f[i] = AddEdge(s, f[i - 1], s.links[i])
      BY <1>4
    <3>1. f[i - 1] \in Graphs
      BY <2>1
    <3>2. step[i][f[i - 1]] = AddEdge(s, f[i - 1], s.links[i])
      BY <1>10, <3>1
    <3> QED  BY <1>4, <3>2
  <2> QED  BY <2>2
<1>6. chosen = Rec(chosen)
  BY <1>5
<1>7. BuildGraph(s) = chosen[n]
  BY <1>1 DEF BuildGraph
<1> HIDE DEF chosen
<1>8. \A i \in 0 .. n : chosen[i] = IF i = 0 THEN << >> ELSE AddEdge(s, chosen[i - 1], s.links[i])
  <2>1. \A i \in 0 .. n : Rec(chosen)[i] = IF i = 0 THEN << >>
                                           ELSE AddEdge(s, chosen[i - 1], s.links[i])
    OBVIOUS
  <2> QED  BY <1>6, <2>1
<1>9. chosen[0] = << >> /\ \A i \in 1 .. n : chosen[i] = AddEdge(s, chosen[i - 1], s.links[i])
  BY <1>8
<1> QED  BY <1>1, <1>7, <1>9

\* g has an edge for every two nodes that the usable ones among the first i links
\* of s join, with the least cost of these.
GraphOf(s, g, i) ==
    /\ \A e \in DOMAIN g : \E j \in 1 .. i :
          Usable(s, s.links[j]) /\ Ends(s.links[j]) = e /\ s.links[j].cost = g[e]
    /\ \A j \in 1 .. i :
          Usable(s, s.links[j]) =>
             Ends(s.links[j]) \in DOMAIN g /\ g[Ends(s.links[j])] <= s.links[j].cost

LEMMA AddEdgeRight ==
    ASSUME NEW s \in Snapshots, NEW i \in 1 .. Len(s.links), NEW g, GraphOf(s, g, i - 1)
    PROVE  GraphOf(s, AddEdge(s, g, s.links[i]), i)
<1> DEFINE l == s.links[i]
           h == AddEdge(s, g, l)
<1>1. \A j \in 1 .. Len(s.links) : s.links[j] \in Link /\ s.links[j].cost \in Nat
  <2>1. \A j \in 1 .. Len(s.links) : s.links[j] \in Link
    BY LinksTyped
  <2>2. \A x \in Link : x.cost \in Nat
    BY DEF Link
  <2> QED  BY <2>1, <2>2
<1>2. i \in Nat /\ \A j : j \in 1 .. i <=> j \in 1 .. i - 1 \/ j = i
  <2>1. i \in Nat /\ 1 <= i
    BY LinksTyped
  <2> QED  BY <2>1
<1>3. \A e \in DOMAIN g : \E j \in 1 .. i - 1 :
         Usable(s, s.links[j]) /\ Ends(s.links[j]) = e /\ s.links[j].cost = g[e]
  BY DEF GraphOf
<1>4. \A j \in 1 .. i - 1 :
         Usable(s, s.links[j]) =>
             Ends(s.links[j]) \in DOMAIN g /\ g[Ends(s.links[j])] <= s.links[j].cost
  BY DEF GraphOf
<1>5. \A e \in DOMAIN g : g[e] \in Nat
  <2>1. \A j \in 1 .. i - 1 : j \in 1 .. Len(s.links)
    BY DEF Snapshots
  <2> QED  BY <1>1, <1>3, <2>1
<1>6. l \in Link /\ l.cost \in Nat
  BY <1>1
<1>7. CASE ~Usable(s, l) \/ (Ends(l) \in DOMAIN g /\ g[Ends(l)] <= l.cost)
  <2>1. h = g
    BY <1>7 DEF AddEdge
  <2> HIDE DEF h
  <2>2. Usable(s, l) => Ends(l) \in DOMAIN g /\ g[Ends(l)] <= l.cost
    BY <1>7
  <2>3. GraphOf(s, g, i)
    BY <1>2, <1>3, <1>4, <2>2 DEF GraphOf
  <2> QED  BY <2>1, <2>3 DEF h
<1>8. CASE Usable(s, l) /\ (Ends(l) \in DOMAIN g => ~ (g[Ends(l)] <= l.cost))
  <2>1. h = Weigh(g, Ends(l), l.cost)
    BY <1>8 DEF AddEdge
  <2>2. /\ DOMAIN h = DOMAIN g \cup {Ends(l)}
        /\ h[Ends(l)] = l.cost
        /\ \A e \in DOMAIN g : e # Ends(l) => h[e] = g[e]
    BY <2>1 DEF Weigh
  <2> HIDE DEF h
  <2>3. \A e \in DOMAIN h : \E j \in 1 .. i :
           Usable(s, s.links[j]) /\ Ends(s.links[j]) = e /\ s.links[j].cost = h[e]
    BY <1>2, <1>3, <1>8, <2>2
  <2>4. ASSUME NEW j \in 1 .. i, Usable(s, s.links[j])
        PROVE  Ends(s.links[j]) \in DOMAIN h /\ h[Ends(s.links[j])] <= s.links[j].cost
    <3>1. CASE j = i
      BY <1>6, <2>2, <3>1
    <3>2. CASE j # i
      <4>1. Ends(s.links[j]) \in DOMAIN g /\ g[Ends(s.links[j])] <= s.links[j].cost
        BY <1>2, <1>4, <2>4, <3>2
      <4>2. s.links[j].cost \in Nat /\ g[Ends(s.links[j])] \in Nat
        <5>1. j \in 1 .. Len(s.links)
          BY DEF Snapshots
        <5> QED  BY <1>1, <1>5, <4>1, <5>1
      <4>3. CASE Ends(s.links[j]) = Ends(l)
        BY <1>6, <1>8, <2>2, <4>1, <4>2, <4>3
      <4>4. CASE Ends(s.links[j]) # Ends(l)
        BY <2>2, <4>1, <4>4
      <4> QED  BY <4>3, <4>4
    <3> QED  BY <3>1, <3>2
  <2> QED  BY <2>3, <2>4 DEF GraphOf, h
<1> QED  BY <1>7, <1>8

\* The graph has the cheapest of the parallel links, and no others.
LEMMA GraphIs ==
    ASSUME NEW s \in Snapshots
    PROVE  GraphOf(s, BuildGraph(s), Len(s.links))
<1>1. PICK f : /\ BuildGraph(s) = f[Len(s.links)]
               /\ f[0] = << >>
               /\ \A i \in 1 .. Len(s.links) : f[i] = AddEdge(s, f[i - 1], s.links[i])
  BY GraphGrows
<1>2. Len(s.links) \in Nat
  BY DEF Snapshots
<1> DEFINE S == {i \in Nat : i <= Len(s.links) => GraphOf(s, f[i], i)}
<1>3. 0 \in S
  BY <1>1 DEF GraphOf
<1>4. ASSUME NEW i \in S PROVE i + 1 \in S
  <2> SUFFICES ASSUME i + 1 <= Len(s.links) PROVE GraphOf(s, f[i + 1], i + 1)
    OBVIOUS
  <2>1. i \in Nat /\ i + 1 \in 1 .. Len(s.links) /\ (i + 1) - 1 = i
    BY <1>2
  <2>2. GraphOf(s, f[i], i) /\ f[i + 1] = AddEdge(s, f[i], s.links[i + 1])
    BY <1>1, <1>2, <2>1
  <2> QED  BY <2>1, <2>2, AddEdgeRight
<1>5. S = Nat
  <2>1. S \in SUBSET Nat
    OBVIOUS
  <2> HIDE DEF S
  <2> QED  BY <1>3, <1>4, <2>1, SetInduction
<1> QED  BY <1>1, <1>2, <1>5

Costs(n) == [1 .. n -> Nat]

\* Costs are added up from the first to the last.
LEMMA TotalGrows ==
    ASSUME NEW n \in Nat, NEW costs \in Costs(n)
    PROVE  \E f : /\ Total(costs) = f[n]
                  /\ f[0] = 0
                  /\ \A i \in 1 .. n : f[i] = f[i - 1] + costs[i]
<1> DEFINE Rec(f) == [i \in 0 .. n |-> IF i = 0 THEN 0 ELSE f[i - 1] + costs[i]]
           step == [i \in 1 .. n |-> [x \in Nat |-> x + costs[i]]]
           chosen == CHOOSE f : f = Rec(f)
<1>1. costs \in [1 .. n -> Nat] /\ Len(costs) = n
  BY DEF Costs
<1>2. PICK D : D = Nat
  OBVIOUS
<1>3. PICK zero \in D : zero = 0
  BY <1>2
<1>4. step \in [1 .. n -> [D -> D]]
  BY <1>1, <1>2
<1>5. \A i \in 1 .. n, x \in Nat : step[i][x] = x + costs[i]
  OBVIOUS
<1> HIDE DEF step
<1>6. PICK f \in [0 .. n -> D] : f[0] = zero /\ \A i \in 1 .. n : f[i] = step[i][f[i - 1]]
  BY <1>4, RecursionExists
<1>7. f[0] = 0 /\ \A i \in 1 .. n : f[i] = step[i][f[i - 1]]
  BY <1>3, <1>6
<1>8. f = Rec(f)
  <2>1. \A i \in 0 .. n : f[i] = IF i = 0 THEN 0 ELSE f[i - 1] + costs[i]
    <3> SUFFICES ASSUME NEW i \in 1 .. n PROVE f[i] = f[i - 1] + costs[i]
      BY <1>7
    <3>1. f[i - 1] \in Nat
      BY <1>2
    <3> QED  BY <1>5, <1>7, <3>1
  <2> QED  BY <2>1
<1>9. chosen = Rec(chosen)
  BY <1>8
<1>10. Total(costs) = chosen[n]
  BY <1>1 DEF Total
<1> HIDE DEF chosen
<1>11. \A i \in 0 .. n : chosen[i] = IF i = 0 THEN 0 ELSE chosen[i - 1] + costs[i]
  <2>1. \A i \in 0 .. n : Rec(chosen)[i] = IF i = 0 THEN 0 ELSE chosen[i - 1] + costs[i]
    OBVIOUS
  <2> QED  BY <1>9, <2>1
<1>12. chosen[0] = 0 /\ \A i \in 1 .. n : chosen[i] = chosen[i - 1] + costs[i]
  BY <1>11
<1> QED  BY <1>10, <1>12

\* Lower costs have a lower total.
LEMMA TotalGrowsWith ==
    ASSUME NEW n \in Nat, NEW low \in Costs(n), NEW high \in Costs(n),
           \A i \in 1 .. n : low[i] <= high[i]
    PROVE  Total(low) \in Nat /\ Total(high) \in Nat /\ Total(low) <= Total(high)
<1>1. PICK f : /\ Total(low) = f[n] /\ f[0] = 0
               /\ \A i \in 1 .. n : f[i] = f[i - 1] + low[i]
  BY TotalGrows
<1>2. PICK g : /\ Total(high) = g[n] /\ g[0] = 0
               /\ \A i \in 1 .. n : g[i] = g[i - 1] + high[i]
  BY TotalGrows
<1> DEFINE S == {i \in Nat : i <= n => f[i] \in Nat /\ g[i] \in Nat /\ f[i] <= g[i]}
<1>3. 0 \in S
  BY <1>1, <1>2
<1>4. ASSUME NEW i \in S PROVE i + 1 \in S
  <2>1. i \in Nat /\ (i <= n => f[i] \in Nat /\ g[i] \in Nat /\ f[i] <= g[i])
    OBVIOUS
  <2>2. ASSUME i + 1 <= n
        PROVE  f[i + 1] \in Nat /\ g[i + 1] \in Nat /\ f[i + 1] <= g[i + 1]
    <3>1. i + 1 \in 1 .. n /\ (i + 1) - 1 = i /\ i <= n
      BY <2>1, <2>2
    <3>2. f[i + 1] = f[i] + low[i + 1] /\ g[i + 1] = g[i] + high[i + 1]
      BY <1>1, <1>2, <3>1
    <3>3. low[i + 1] \in Nat /\ high[i + 1] \in Nat /\ low[i + 1] <= high[i + 1]
      BY <3>1 DEF Costs
    <3> QED  BY <2>1, <3>1, <3>2, <3>3
  <2> QED  BY <2>1, <2>2
<1>5. S = Nat
  <2>1. S \in SUBSET Nat
    OBVIOUS
  <2> HIDE DEF S
  <2> QED  BY <1>3, <1>4, <2>1, SetInduction
<1> QED  BY <1>1, <1>2, <1>5

\* Where the paths may lead.
Available(s) == {n \in DOMAIN s.nodes : s.nodes[n]}

LEMMA PathTyped ==
    ASSUME NEW p \in SimplePaths
    PROVE  Len(p) \in Nat \ {0} /\ p \in [1 .. Len(p) -> Nodes]
<1>1. PICK n \in 1 .. Cardinality(Nodes) : p \in [1 .. n -> Nodes]
  BY DEF SimplePaths
<1>2. n \in Nat \ {0}
  BY <1>1
<1>3. Len(p) = n
  BY <1>1, <1>2
<1> QED  BY <1>1, <1>2, <1>3

\* The links between a and b that a walk may take are what the edge stands for.
LEMMA EdgeIs ==
    ASSUME NEW s \in Snapshots, NEW a, NEW b
    PROVE  LET g == BuildGraph(s)
           IN /\ {a, b} \in DOMAIN g <=> Between(s, a, b) # {}
              /\ {a, b} \in DOMAIN g =>
                    \E l \in Between(s, a, b) : l.cost = g[{a, b}]
              /\ \A l \in Between(s, a, b) : l.cost \in Nat /\ g[{a, b}] <= l.cost
<1> DEFINE g == BuildGraph(s)
<1>1. GraphOf(s, g, Len(s.links))
  BY GraphIs
<1>2. s.links \in Seq(Link) /\ DOMAIN s.links = 1 .. Len(s.links)
  BY LinksTyped
<1> HIDE DEF g
<1>3. \A l : l \in Between(s, a, b) <=>
          \E j \in 1 .. Len(s.links) : l = s.links[j] /\ Usable(s, l) /\ Ends(l) = {a, b}
  BY <1>2 DEF Between, ToSet
<1>4. {a, b} \in DOMAIN g => \E l \in Between(s, a, b) : l.cost = g[{a, b}]
  BY <1>1, <1>3 DEF GraphOf
<1>5. ASSUME NEW l \in Between(s, a, b)
      PROVE  l.cost \in Nat /\ {a, b} \in DOMAIN g /\ g[{a, b}] <= l.cost
  <2>1. PICK j \in 1 .. Len(s.links) : l = s.links[j] /\ Usable(s, l) /\ Ends(l) = {a, b}
    BY <1>3
  <2>2. l \in Link
    BY <1>2, <2>1
  <2>3. l.cost \in Nat
    BY <2>2 DEF Link
  <2> QED  BY <1>1, <2>1, <2>3 DEF GraphOf
<1> QED  BY <1>4, <1>5 DEF g

\* The paths of the graph between two nodes that are up.
Found(s, p, a, b) ==
    /\ p \in SimplePaths /\ p[1] = a /\ p[Len(p)] = b
    /\ {a, b} \subseteq Available(s)
    /\ Hops(p) \subseteq DOMAIN BuildGraph(s)

LEMMA FoundIsReached ==
    ASSUME NEW s \in Snapshots, NEW p \in SimplePaths, NEW a, NEW b
    PROVE  Found(s, p, a, b) <=> Reaches(s, p, a, b)
<1>1. Len(p) \in Nat \ {0} /\ p \in [1 .. Len(p) -> Nodes] /\ DOMAIN p = 1 .. Len(p)
  BY PathTyped
<1> DEFINE hops == 1 .. Len(p) - 1
<1>2. Hops(p) \subseteq DOMAIN BuildGraph(s) <=>
          \A i \in hops : Between(s, p[i], p[i + 1]) # {}
  <2>1. Hops(p) \subseteq DOMAIN BuildGraph(s) <=>
            \A i \in hops : {p[i], p[i + 1]} \in DOMAIN BuildGraph(s)
    BY DEF Hops
  <2> QED  BY <2>1, EdgeIs
<1>3. (\A i \in hops : Between(s, p[i], p[i + 1]) # {}) <=> Walks(s, p) # {}
  <2>1. ASSUME \A i \in hops : Between(s, p[i], p[i + 1]) # {} PROVE Walks(s, p) # {}
    <3> DEFINE w == [i \in hops |-> CHOOSE l \in Between(s, p[i], p[i + 1]) : TRUE]
    <3>1. \A i \in hops : w[i] \in Between(s, p[i], p[i + 1])
      BY <2>1
    <3>2. \A i \in hops : w[i] \in ToSet(s.links)
      BY <3>1 DEF Between
    <3>3. DOMAIN w = hops /\ w \in [hops -> ToSet(s.links)]
      BY <3>2
    <3> HIDE DEF w
    <3> QED  BY <3>1, <3>3 DEF Walks
  <2>2. ASSUME Walks(s, p) # {} PROVE \A i \in hops : Between(s, p[i], p[i + 1]) # {}
    BY <2>2 DEF Walks
  <2> QED  BY <2>1, <2>2
<1>4. \A x, y : \A l \in Between(s, x, y) : x \in Available(s) /\ y \in Available(s)
  BY DEF Between, Usable, Available, Ends
<1>5. ASSUME p[1] \in Available(s), \A i \in hops : Between(s, p[i], p[i + 1]) # {}
      PROVE  \A i \in DOMAIN p : p[i] \in Available(s)
  <2> SUFFICES ASSUME NEW i \in 1 .. Len(p), i # 1 PROVE p[i] \in Available(s)
    BY <1>1, <1>5
  <2>1. i - 1 \in hops /\ (i - 1) + 1 = i
    BY <1>1
  <2>2. PICK l \in Between(s, p[i - 1], p[i]) : TRUE
    BY <1>5, <2>1
  <2> QED  BY <1>4, <2>2
<1>6. Reaches(s, p, a, b) <=>
          /\ p[1] = a /\ p[Len(p)] = b
          /\ \A i \in DOMAIN p : p[i] \in Available(s)
          /\ Walks(s, p) # {}
  BY DEF Reaches, Available
<1>7. 1 \in DOMAIN p /\ Len(p) \in DOMAIN p
  BY <1>1
<1> HIDE DEF hops
<1> QED  BY <1>2, <1>3, <1>5, <1>6, <1>7 DEF Found

\* The weight of a path of the graph is the price of its cheapest walk.
LEMMA WeightIs ==
    ASSUME NEW s \in Snapshots, NEW p, NEW a, NEW b, Found(s, p, a, b)
    PROVE  LET weight == PathWeight(BuildGraph(s), p)
           IN /\ weight \in Nat
              /\ \E w \in Walks(s, p) : Price(w) = weight
              /\ \A w \in Walks(s, p) : Price(w) \in Nat /\ weight <= Price(w)
<1> DEFINE g == BuildGraph(s)
           low == [i \in 1 .. Len(p) - 1 |-> g[{p[i], p[i + 1]}]]
           Prices(w) == [i \in DOMAIN w |-> w[i].cost]
<1>1. PICK m \in Nat : m = Len(p) - 1
  BY PathTyped DEF Found
<1>2. \A i \in 1 .. m : {p[i], p[i + 1]} \in DOMAIN g
  BY <1>1 DEF Found, Hops
<1>3. \A i \in 1 .. m : \E l \in Between(s, p[i], p[i + 1]) :
          l.cost = g[{p[i], p[i + 1]}] /\ l.cost \in Nat
  BY <1>2, EdgeIs
<1>4. low \in Costs(m)
  <2>1. \A i \in 1 .. m : g[{p[i], p[i + 1]}] \in Nat
    BY <1>3
  <2> QED  BY <1>1, <2>1 DEF Costs
<1>5. ASSUME NEW w \in Walks(s, p)
      PROVE  /\ Prices(w) \in Costs(m)
             /\ \A i \in 1 .. m : low[i] <= Prices(w)[i]
  <2>1. DOMAIN w = 1 .. m /\ \A i \in 1 .. m : w[i] \in Between(s, p[i], p[i + 1])
    BY <1>1 DEF Walks
  <2>2. \A i \in 1 .. m : w[i].cost \in Nat /\ g[{p[i], p[i + 1]}] <= w[i].cost
    BY <2>1, EdgeIs
  <2> QED  BY <1>1, <2>1, <2>2 DEF Costs
<1>6. \E w \in Walks(s, p) : Prices(w) = low
  <2> DEFINE w == [i \in 1 .. m |-> CHOOSE l \in Between(s, p[i], p[i + 1]) :
                                       l.cost = g[{p[i], p[i + 1]}]]
  <2>1. \A i \in 1 .. m : /\ w[i] \in Between(s, p[i], p[i + 1])
                          /\ w[i].cost = g[{p[i], p[i + 1]}]
    BY <1>3
  <2>2. DOMAIN w = 1 .. m /\ w = [i \in 1 .. m |-> w[i]]
    OBVIOUS
  <2> HIDE DEF w
  <2>3. \A i \in 1 .. m : w[i] \in ToSet(s.links)
    BY <2>1 DEF Between
  <2>4. w \in Walks(s, p)
    BY <1>1, <2>1, <2>2, <2>3 DEF Walks
  <2>5. Prices(w) = low
    BY <1>1, <2>1, <2>2
  <2> QED  BY <2>4, <2>5
<1>7. PathWeight(g, p) = Total(low) /\ \A w : Price(w) = Total(Prices(w))
  BY DEF PathWeight, Price
<1> HIDE DEF g, low, Prices
<1>8. \A w \in Walks(s, p) : Total(low) \in Nat /\ Total(Prices(w)) \in Nat
                             /\ Total(low) <= Total(Prices(w))
  BY <1>4, <1>5, TotalGrowsWith
<1> QED  BY <1>6, <1>7, <1>8 DEF g

LEMMA ShortestAre ==
    ASSUME NEW s \in Snapshots, NEW a, NEW b
    PROVE  \A p : p \in ShortestPaths(s, a, b) <=>
              /\ Found(s, p, a, b)
              /\ \A q : Found(s, q, a, b) =>
                    PathWeight(BuildGraph(s), p) <= PathWeight(BuildGraph(s), q)
BY DEF ShortestPaths, Found, Available

\* The search finds paths that are cheapest in the sense of the links.
LEMMA ShortestIsCheapest ==
    ASSUME NEW s \in Snapshots, NEW a, NEW b, NEW p \in ShortestPaths(s, a, b)
    PROVE  IsCheapest(s, p, a, b)
<1> DEFINE Weight(q) == PathWeight(BuildGraph(s), q)
<1>1. Found(s, p, a, b) /\ \A q : Found(s, q, a, b) => Weight(p) <= Weight(q)
  BY ShortestAre
<1>2. p \in SimplePaths /\ Reaches(s, p, a, b)
  BY <1>1, FoundIsReached DEF Found
<1>3. PICK w \in Walks(s, p) : Price(w) = Weight(p)
  BY <1>1, WeightIs
<1>4. ASSUME NEW q \in SimplePaths, Reaches(s, q, a, b), NEW v \in Walks(s, q)
      PROVE  Price(w) <= Price(v)
  <2>1. Found(s, q, a, b)
    BY <1>4, FoundIsReached
  <2>2. Weight(q) \in Nat /\ Price(v) \in Nat /\ Weight(q) <= Price(v)
    BY <2>1, WeightIs
  <2>3. Weight(p) \in Nat /\ Weight(p) <= Weight(q)
    BY <1>1, <2>1, WeightIs
  <2> HIDE DEF Weight
  <2> QED  BY <1>3, <2>2, <2>3
<1> QED  BY <1>2, <1>4 DEF IsCheapest

\* When the search finds no path there is none.
LEMMA NoneIsMissed ==
    ASSUME NEW s \in Snapshots, NEW a, NEW b, ShortestPaths(s, a, b) = {}
    PROVE  ~\E p \in SimplePaths : Reaches(s, p, a, b)
<1> SUFFICES ASSUME NEW p \in SimplePaths, Reaches(s, p, a, b) PROVE FALSE
  OBVIOUS
<1> DEFINE Weight(q) == PathWeight(BuildGraph(s), q)
           W == {n \in Nat : \E q : Found(s, q, a, b) /\ Weight(q) = n}
<1>1. Found(s, p, a, b)
  BY FoundIsReached
<1>2. \A q : Found(s, q, a, b) => Weight(q) \in W
  BY WeightIs
<1> HIDE DEF Weight
<1>3. W \in SUBSET Nat /\ W # {}
  BY <1>1, <1>2
<1>4. PICK n : n = Min(W)
  OBVIOUS
<1>5. n \in W /\ \A x \in W : n <= x
  BY <1>3, <1>4, LeastOf
<1>6. PICK q : Found(s, q, a, b) /\ Weight(q) = n
  BY <1>5
<1>7. \A r : Found(s, r, a, b) => Weight(q) <= Weight(r)
  BY <1>2, <1>5, <1>6
<1> QED  BY <1>6, <1>7, ShortestAre DEF Weight

\* Whatever was edited, and with any number of parallel links, the path a
\* request is answered with is a cheapest one, by the links themselves, in a
\* topology that was in force while the request was served; and where no path is
\* reported there was none (build_graph, compute_path).
THEOREM PathsAreCheapest == Spec => []PathIsCheapest
<1>1. TypeOK /\ AnswerWasCurrent => PathIsCheapest
  <2> SUFFICES ASSUME TypeOK, AnswerWasCurrent, NEW t \in Tasks,
                      Answered(t), answer[t] \in {"path", "no_path"}
               PROVE  \E s \in seen[t] :
                         IF answer[t] = "path"
                         THEN IsCheapest(s, route[t], Source, Destination)
                         ELSE ~\E p \in SimplePaths : Reaches(s, p, Source, Destination)
    BY DEF PathIsCheapest
  <2>1. PICK s \in seen[t] : FoundIn(s, t)
    BY DEF AnswerWasCurrent
  <2>2. s \in Snapshots
    BY DEF TypeOK
  <2>3. CASE answer[t] = "path"
    <3>1. route[t] \in ShortestPaths(s, Source, Destination)
      BY <2>1, <2>3 DEF FoundIn
    <3> QED  BY <2>2, <2>3, <3>1, ShortestIsCheapest
  <2>4. CASE answer[t] = "no_path"
    <3>1. ShortestPaths(s, Source, Destination) = {}
      BY <2>1, <2>4 DEF FoundIn
    <3>2. ~\E p \in SimplePaths : Reaches(s, p, Source, Destination)
      BY <2>2, <3>1, NoneIsMissed
    <3> QED  BY <2>4, <3>2
  <2> QED  BY <2>3, <2>4
<1> QED  BY <1>1, TopologyTypeCorrect, AnswersAreCurrent, PTL

=============================================================================
