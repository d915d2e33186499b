--------------------------- MODULE TopologyManager ---------------------------
(***************************************************************************)
(* The topology manager: a snapshot of the network, cached in a variable   *)
(* of the module, that requests read, the dashboard edits in place and     *)
(* refresh drops.  With the static source a snapshot is loaded without an  *)
(* await; with ONOS the devices and the links are two awaited reads, and   *)
(* other tasks run in between.  A request keeps its reference to the       *)
(* snapshot over an awaited audit write and serialises it afterwards; the  *)
(* path is then computed on that copy.                                     *)
(***************************************************************************)
EXTENDS PathEngine

CONSTANTS
    Tasks,          \* HTTP requests, each handled once
    None,           \* no snapshot
    Live,           \* settings.topology_source = "onos"
    Sources,        \* what the YAML file or ONOS may hold
    Edits,          \* live edits of the dashboard
    Source, Destination,    \* the endpoints every request asks for
    MaxChanges      \* bound: changes of the source

Resolve == [kind |-> "resolve"]
Refresh == [kind |-> "refresh"]
Graph   == [kind |-> "graph"]
Ops     == {Resolve, Refresh, Graph} \cup Edits

ASSUME TopologyAssumption ==
    /\ None \notin Tasks
    /\ Live \in BOOLEAN
    /\ Sources # {}
    /\ Edits \cap {Resolve, Refresh, Graph} = {}
    /\ MaxChanges \in Nat

Snapshots == [nodes : UNION {[S -> BOOLEAN] : S \in SUBSET Nodes}, links : Seq(Link)]

VARIABLES
    source,         \* the topology as the YAML file or ONOS has it
    version,        \* how often the source has changed
    cache,          \* _cache["snapshot"]: the task that built it, or None
    snap,           \* the snapshot each task built
    pc,             \* where each task is
    op,             \* what each task does
    holds,          \* the snapshot a task has a reference to
    answer,         \* how the task answered
    route,          \* the path it computed
    asOf,           \* history: version of the source a snapshot was read from
    began,          \* history: version of the source when the task began
    seen,           \* history: snapshots in force while the request was served
    downed          \* history: links put down or removed, and not put back

vars == <<source, version, cache, snap, pc, op, holds, answer, route,
          asOf, began, seen, downed>>

Empty == [nodes |-> << >>, links |-> << >>]

-----------------------------------------------------------------------------
(* Snapshots.                                                               *)

SameDirection(a, b, c, d) == a = c /\ b = d         \* mutant
Same(a, b, c, d) == {a, b} = {c, d}

Joins(l, e) == Same(l.source, l.target, e.source, e.target)

\* The links of a section of the YAML file have its type unless they say otherwise.
Section(links, type) ==
    [i \in DOMAIN links |->
        [source |-> links[i].source, target |-> links[i].target, cost |-> links[i].cost,
         type |-> IF "type" \in DOMAIN links[i] THEN links[i].type ELSE type,
         status |-> links[i].status]]

load_topology(file) ==
    [nodes |-> file.nodes,
     links |-> Section(file.links, "physical") \o Section(file.virtual, "vpn")]

\* The elements of list that are at the positions in kept, in their order.
Sublist(list, kept) ==
    LET upTo[i \in 0 .. Len(list)] ==
            IF i = 0 THEN << >>
            ELSE IF i \in kept THEN Append(upTo[i - 1], list[i])
            ELSE upTo[i - 1]
    IN upTo[Len(list)]

\* Both directions of an ONOS link become one edge, with the status of the first.
FromOnos(devices, links) ==
    LET firsts == {i \in DOMAIN links :
                      /\ links[i].source # links[i].target
                      /\ \A j \in 1 .. i - 1 : Ends(links[j]) # Ends(links[i])}
    IN [nodes |-> devices, links |-> Sublist(links, firsts)]

UpsertNode(s, e) ==
    [s EXCEPT !.nodes = [n \in DOMAIN @ \cup {e.id} |-> IF n = e.id THEN TRUE ELSE @[n]]]

RemoveNode(s, e) ==
    [nodes |-> [n \in DOMAIN s.nodes \ {e.id} |-> s.nodes[n]],
     links |-> Sublist(s.links, {i \in DOMAIN s.links : e.id \notin Ends(s.links[i])})]

\* A new link is checked, and not added if it fails; an existing one is not.
Rejected(s, e) ==
    /\ e.kind = "upsert_link" /\ e.type \notin Types
    /\ \A i \in DOMAIN s.links : ~Joins(s.links[i], e)

UpsertLink(s, e) ==
    LET i == SelectInSeq(s.links, LAMBDA l : Joins(l, e))
        With(a, b) == [source |-> a, target |-> b,
                       cost |-> e.cost, type |-> e.type, status |-> e.status]
    IN [s EXCEPT !.links =
           IF Rejected(s, e) THEN @
           ELSE IF i = 0 THEN Append(@, With(e.source, e.target))
           ELSE [@ EXCEPT ![i] = With(s.links[i].source, s.links[i].target)]]

RemoveLink(s, e) ==
    [s EXCEPT !.links = Sublist(@, {i \in DOMAIN @ : ~Joins(@[i], e)})]

SetLinkStatus(s, e) ==
    [s EXCEPT !.links = [i \in DOMAIN @ |->
        IF Joins(@[i], e) THEN [@[i] EXCEPT !.status = e.status] ELSE @[i]]]

Edited(s, e) ==
    CASE e.kind = "upsert_node" -> UpsertNode(s, e)
      [] e.kind = "remove_node" -> RemoveNode(s, e)
      [] e.kind = "upsert_link" -> UpsertLink(s, e)
      [] e.kind = "remove_link" -> RemoveLink(s, e)
      [] e.kind = "set_status"  -> SetLinkStatus(s, e)

(***************************************************************************)
(* What the source holds is validated when it is read, and the clients of  *)
(* the edits name nodes and send a status that a link may have.            *)
(***************************************************************************)
ASSUME InputAssumption ==
    /\ \A s \in Sources : (IF Live THEN s ELSE load_topology(s)) \in Snapshots
    /\ \A e \in Edits :
         \/ e.kind \in {"upsert_node", "remove_node"} /\ e.id \in Nodes
         \/ /\ e.kind = "upsert_link"
            /\ [source |-> e.source, target |-> e.target, cost |-> e.cost,
                type |-> e.type, status |-> e.status] \in Link
         \/ e.kind = "remove_link" /\ Ends(e) \subseteq Nodes
         \/ e.kind = "set_status" /\ Ends(e) \subseteq Nodes /\ e.status \in {"up", "down"}

-----------------------------------------------------------------------------

Init ==
    /\ source \in Sources
    /\ version = 0
    /\ cache = None
    /\ snap = [t \in Tasks |-> Empty]
    /\ pc = [t \in Tasks |-> "idle"]
    /\ op = [t \in Tasks |-> Graph]
    /\ holds = [t \in Tasks |-> None]
    /\ answer = [t \in Tasks |-> "none"]
    /\ route = [t \in Tasks |-> << >>]
    /\ asOf = [t \in Tasks |-> 0]
    /\ began = [t \in Tasks |-> 0]
    /\ seen = [t \in Tasks |-> {}]
    /\ downed = {}

\* get_snapshot has returned s to task t, which does o: what the task does up
\* to its next await.  An edit is applied, a request checked for emptiness.
Got(t, o, s, heap) ==
    LET refused == o = Resolve /\ DOMAIN heap[s].nodes = {}
        failed == o \in Edits /\ Rejected(heap[s], o)
    IN /\ cache' = s
       /\ snap' = IF o \in Edits THEN [heap EXCEPT ![s] = Edited(@, o)] ELSE heap
       /\ holds' = [holds EXCEPT ![t] = s]
       /\ pc' = [pc EXCEPT ![t] = IF o = Resolve /\ ~refused THEN "audit" ELSE "done"]
       /\ answer' = [answer EXCEPT ![t] =
                        IF refused THEN "empty" ELSE IF o = Resolve THEN "none"
                        ELSE IF failed THEN "500" ELSE "ok"]

KeptOnRefresh(o) == cache                           \* mutant
\* What get_snapshot finds in the cache; refresh has just emptied it.
Cached(o) == IF o = Refresh THEN None ELSE cache

\* A request arrives, and runs to its first await.
Begin(t, o) ==
    /\ pc[t] = "idle"
    /\ op' = [op EXCEPT ![t] = o]
    /\ began' = [began EXCEPT ![t] = version]
    /\ \/ /\ Cached(o) # None
          /\ Got(t, o, Cached(o), snap)
          /\ UNCHANGED asOf
       \/ /\ Cached(o) = None /\ ~Live
          /\ Got(t, o, t, [snap EXCEPT ![t] = load_topology(source)])
          /\ asOf' = [asOf EXCEPT ![t] = version]
       \/ /\ Cached(o) = None /\ Live
          /\ cache' = None
          /\ pc' = [pc EXCEPT ![t] = "devices"]
          /\ UNCHANGED <<snap, holds, answer, asOf>>
    /\ UNCHANGED <<source, version, route>>

CachedHalfRead(t) ==                                \* mutant: cached before the links
    /\ pc[t] = "devices"
    /\ snap' = [snap EXCEPT ![t].nodes = source.nodes]
    /\ cache' = t
    /\ asOf' = [asOf EXCEPT ![t] = version]
    /\ pc' = [pc EXCEPT ![t] = "links"]
    /\ UNCHANGED <<source, version, op, holds, answer, route, began>>
\* ONOS lists its devices, and later its links.
ReadDevices(t) ==
    /\ pc[t] = "devices"
    /\ snap' = [snap EXCEPT ![t].nodes = source.nodes]
    /\ asOf' = [asOf EXCEPT ![t] = version]
    /\ pc' = [pc EXCEPT ![t] = "links"]
    /\ UNCHANGED <<source, version, cache, op, holds, answer, route, began>>

ReadLinks(t) ==
    /\ pc[t] = "links"
    /\ snap' = [snap EXCEPT ![t].links = source.links]
    /\ pc' = [pc EXCEPT ![t] = "reply"]
    /\ UNCHANGED <<source, version, cache, op, holds, answer, route, asOf, began>>

\* The answer of ONOS arrives, and its snapshot is cached.
Fetched(t) ==
    /\ pc[t] = "reply"
    /\ Got(t, op[t], t, [snap EXCEPT ![t] = FromOnos(@.nodes, @.links)])
    /\ UNCHANGED <<source, version, op, route, asOf, began>>

\* ONOS cannot be reached or answers with an error, which only a request takes
\* for a rejection; or what it sends cannot be read.
FetchFails(t) ==
    /\ pc[t] \in {"devices", "links", "reply"}
    /\ pc' = [pc EXCEPT ![t] = "done"]
    /\ \/ answer' = [answer EXCEPT ![t] = "500"]
       \/ op[t] = Resolve /\ answer' = [answer EXCEPT ![t] = "source_error"]
    /\ UNCHANGED <<source, version, cache, snap, op, holds, route, asOf, began>>

LinksReread(t) ==                                   \* mutant: cache read again
    [nodes |-> snap[holds[t]].nodes,
     links |-> IF cache = None THEN << >> ELSE snap[cache].links]
\* ctx.model_dump() after the audit write.
Dump(t) == snap[holds[t]]

\* The audit write has returned: the snapshot is sent on and the path computed;
\* or the engine does not take the snapshot, and the request fails.
Compute(t) ==
    /\ pc[t] = "audit"
    /\ LET paths == ShortestPaths(Dump(t), Source, Destination)
       IN \/ /\ Valid(Dump(t))
             /\ route' \in {[route EXCEPT ![t] = p] : p \in paths}
             /\ answer' = [answer EXCEPT ![t] = "path"]
          \/ /\ Valid(Dump(t)) /\ paths = {} /\ UNCHANGED route
             /\ answer' = [answer EXCEPT ![t] = "no_path"]
          \/ /\ ~Valid(Dump(t)) /\ UNCHANGED route
             /\ answer' = [answer EXCEPT ![t] = "500"]
    /\ pc' = [pc EXCEPT ![t] = "done"]
    /\ UNCHANGED <<source, version, cache, snap, op, holds, asOf, began>>

\* A link fails or a device is discovered; or the YAML file is edited.
SourceChanges ==
    /\ version < MaxChanges
    /\ version' = version + 1
    /\ source' \in Sources \ {source}
    /\ UNCHANGED <<cache, snap, pc, op, holds, answer, route, asOf, began>>

-----------------------------------------------------------------------------
(* History.                                                                 *)

InForce == IF cache = None THEN {} ELSE {snap[cache]}

Lowers(o) == \/ o.kind = "remove_link"
             \/ o.kind = "set_status" /\ o.status = "down"
Raises(o) == o.kind \in {"upsert_link", "set_status"}

Observe ==
    seen' = [t \in Tasks |->
                IF pc[t] # "done" /\ pc'[t] # "idle" /\ op'[t] = Resolve
                THEN seen[t] \cup InForce'
                ELSE seen[t]]

Record(o) ==
    downed' = CASE o = Refresh -> {}
                [] o \in Edits /\ Lowers(o) -> downed \cup {Ends(o)}
                [] o \in Edits /\ ~Lowers(o) /\ Raises(o) -> downed \ {Ends(o)}
                [] OTHER -> downed

-----------------------------------------------------------------------------

Task(t) ==
    \/ \E o \in Ops : Begin(t, o) /\ Record(o)
    \/ /\ ReadDevices(t) \/ ReadLinks(t) \/ Fetched(t) \/ FetchFails(t) \/ Compute(t)
       /\ UNCHANGED downed

Next ==
    /\ \/ \E t \in Tasks : Task(t)
       \/ SourceChanges /\ UNCHANGED downed
    /\ Observe

Spec == Init /\ [][Next]_vars

-----------------------------------------------------------------------------
(* Properties.                                                              *)

Answers == {"none", "ok", "500", "path", "no_path", "empty", "source_error"}
Built(s) == pc[s] \in {"audit", "done"}

\* Every variable stays in its domain; a task that waits for its audit write
\* holds a snapshot, and nobody sees a snapshot before both reads of ONOS are in
\* (get_snapshot, _from_onos).
TypeOK ==
    /\ source \in Sources
    /\ version \in 0 .. MaxChanges
    /\ cache \in Tasks \cup {None}
    /\ snap \in [Tasks -> Snapshots]
    /\ pc \in [Tasks -> {"idle", "devices", "links", "reply", "audit", "done"}]
    /\ op \in [Tasks -> Ops]
    /\ holds \in [Tasks -> Tasks \cup {None}]
    /\ \A t \in Tasks : pc[t] = "audit" => holds[t] # None
    /\ \A s \in {cache} \cup {holds[t] : t \in Tasks} : s # None => Built(s)
    /\ answer \in [Tasks -> Answers]
    /\ route \in [Tasks -> SimplePaths \cup {<< >>}]
    /\ asOf \in [Tasks -> 0 .. version]
    /\ began \in [Tasks -> 0 .. version]
    /\ \A t \in Tasks : seen[t] \subseteq Snapshots
    /\ downed \subseteq SUBSET Nodes

\* The answer to request t, which got a snapshot, fits snapshot s.
FoundIn(s, t) ==
    \/ answer[t] = "empty"   /\ DOMAIN s.nodes = {}
    \/ answer[t] = "no_path" /\ Valid(s) /\ ShortestPaths(s, Source, Destination) = {}
    \/ answer[t] = "path"    /\ Valid(s) /\ route[t] \in ShortestPaths(s, Source, Destination)
    \/ answer[t] = "500"     /\ ~Valid(s)

Answered(t) == pc[t] = "done" /\ op[t] = Resolve /\ holds[t] # None

\* A request is answered from one topology that was in force while it was
\* served: a snapshot it holds over an await is never edited after it has been
\* replaced, nor seen half edited (attach_topology, upsert_node .. refresh).
AnswerWasCurrent ==
    \A t \in Tasks : Answered(t) => \E s \in seen[t] : FoundIn(s, t)

\* The path is a cheapest one in the sense of the links themselves, parallel
\* ones included, whatever edits made of them; and none is reported missing
\* (build_graph, compute_path).
PathIsCheapest ==
    \A t \in Tasks : Answered(t) /\ answer[t] \in {"path", "no_path"} =>
        \E s \in seen[t] :
            IF answer[t] = "path"
            THEN IsCheapest(s, route[t], Source, Destination)
            ELSE ~\E p \in SimplePaths : Reaches(s, p, Source, Destination)

\* A link put down or removed stays out of the topology in force until someone
\* puts it back or resets the topology (set_link_status, remove_link).
EditsStay ==
    cache # None => \A e \in downed : \A l \in ToSet(snap[cache].links) :
                        Ends(l) = e => ~Usable(snap[cache], l)

\* Once a refresh has answered, the topology in force is at least as recent as
\* the source was when the refresh began (refresh, get_snapshot).
RefreshedIsFresh ==
    \A t \in Tasks : op[t] = Refresh /\ pc[t] = "done" /\ answer[t] = "ok" /\ cache # None
                        => asOf[cache] >= began[t]
=============================================================================
