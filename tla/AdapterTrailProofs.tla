------------------------- MODULE AdapterTrailProofs -------------------------
(***************************************************************************)
(* What TLAPS proves about what the requests of AdapterChain leave behind: *)
(* the audit trail (what it may show, in which order, and what an answer   *)
(* says about it) and the keys that are left; that auditing costs no       *)
(* answer while there is enough time; and that the latencies of AuditTrail *)
(* are taken from the trail as they should be.                             *)
(***************************************************************************)
EXTENDS AuditTrail, AdapterChainProofs, FiniteSetTheorems, WellFoundedInduction

\* The service that writes an event.
Owner ==
    [request_received |-> "gateway", response_returned |-> "gateway",
     downstream_error |-> "gateway",
     auth_validated |-> "identity", resolution_failed |-> "identity",
     endpoints_resolved |-> "identity",
     topology_source_error |-> "topology", topology_empty |-> "topology",
     topology_attached |-> "topology",
     path_not_found |-> "pce", path_computed |-> "pce",
     kms_error |-> "kom", key_verify_skipped |-> "kom", keys_retrieved |-> "kom",
     service_provisioned |-> "provisioning"]

\* From where to where a handler may go.
MovesOf ==
    [gateway |->
        {<<"idle", "request_received">>, <<"request_received", "connect">>,
         <<"connect", "forward">>, <<"connect", "downstream_error">>,
         <<"forward", "response_returned">>, <<"forward", "downstream_error">>,
         <<"response_returned", "200">>, <<"response_returned", "503">>,
         <<"downstream_error", "502">>},
     identity |->
        {<<"idle", "auth_validated">>, <<"auth_validated", "resolution_failed">>,
         <<"auth_validated", "endpoints_resolved">>, <<"resolution_failed", "REJECTED">>,
         <<"endpoints_resolved", "connect">>, <<"connect", "forward">>,
         <<"connect", "500">>, <<"forward", "PROVISIONED">>,
         <<"forward", "REJECTED">>, <<"forward", "500">>},
     topology |->
        {<<"idle", "snapshot">>, <<"snapshot", "topology_attached">>,
         <<"snapshot", "topology_source_error">>, <<"snapshot", "topology_empty">>,
         <<"snapshot", "500">>,
         <<"topology_source_error", "REJECTED">>, <<"topology_empty", "REJECTED">>,
         <<"topology_attached", "connect">>, <<"connect", "forward">>,
         <<"connect", "500">>, <<"forward", "PROVISIONED">>,
         <<"forward", "REJECTED">>, <<"forward", "500">>},
     pce |->
        {<<"idle", "path_not_found">>, <<"idle", "path_computed">>,
         <<"path_not_found", "REJECTED">>, <<"path_computed", "connect">>,
         <<"connect", "forward">>, <<"connect", "500">>,
         <<"forward", "PROVISIONED">>, <<"forward", "REJECTED">>, <<"forward", "500">>},
     kom |->
        {<<"idle", "status">>, <<"idle", "enc_keys">>, <<"idle", "REJECTED">>,
         <<"status", "status">>, <<"status", "enc_keys">>, <<"status", "kms_error">>,
         <<"enc_keys", "dec_keys">>, <<"enc_keys", "kms_error">>,
         <<"dec_keys", "keys_retrieved">>, <<"dec_keys", "key_verify_skipped">>,
         <<"kms_error", "REJECTED">>, <<"key_verify_skipped", "keys_retrieved">>,
         <<"keys_retrieved", "connect">>, <<"connect", "forward">>,
         <<"connect", "500">>, <<"forward", "PROVISIONED">>, <<"forward", "500">>},
     provisioning |->
        {<<"idle", "service_provisioned">>, <<"service_provisioned", "PROVISIONED">>}]

\* Where the owner of an event is before the event is in the trail.
NotYet ==
    [request_received |-> {"idle", "request_received"},
     auth_validated |-> {"idle", "auth_validated"},
     endpoints_resolved |-> {"idle", "auth_validated", "endpoints_resolved"},
     topology_attached |-> {"idle", "snapshot", "topology_attached"},
     path_computed |-> {"idle", "path_computed"},
     keys_retrieved |->
        {"idle", "status", "enc_keys", "dec_keys", "key_verify_skipped", "keys_retrieved"},
     service_provisioned |-> {"idle", "service_provisioned"},
     response_returned |-> {"idle", "request_received", "connect", "forward", "response_returned"}]

\* No audit write arrives after its service gave it up.
NoLateWrites == \A a \in AuditResults : a.result # "late"

(***************************************************************************)
(* The inductive invariant of the order: an event is in the trail only if  *)
(* its service is past it, and the answer only if the chain is quiet.      *)
(***************************************************************************)
InOrder(r) ==
    \A i, j \in DOMAIN trail[r] :
        i < j /\ trail[r][i] \in Chain /\ trail[r][j] \in Chain
            => Position(trail[r][i]) < Position(trail[r][j])

TrailOrder(r) ==
    /\ \A e \in Chain : e \in Seen(r) => At(r, Owner[e]) \notin NotYet[e]
    /\ "response_returned" \in Seen(r)
          => At(r, "identity") \in {"PROVISIONED", "REJECTED"}
    /\ \A e \in Events : <<r, e>> \notin late
    /\ InOrder(r)

OrderInv == ChainInv /\ \A r \in Requests : TrailOrder(r)

\* Every audit write succeeds.
AllWritten == \A a \in AuditResults : a.result = "ok"

\* Where the owner of an event is only after the event is in the trail.
Written ==
    [request_received |-> {"connect", "forward", "response_returned", "200"},
     auth_validated |-> {"endpoints_resolved", "connect", "forward", "PROVISIONED"},
     endpoints_resolved |-> {"connect", "forward", "PROVISIONED"},
     topology_attached |-> {"connect", "forward", "PROVISIONED"},
     path_computed |-> {"connect", "forward", "PROVISIONED"},
     keys_retrieved |-> {"connect", "forward", "PROVISIONED"},
     service_provisioned |-> {"PROVISIONED"},
     response_returned |-> {"200"}]

(***************************************************************************)
(* The inductive invariant of completeness: who is past an event has       *)
(* written it, and a failure in the trail is the end of its service.       *)
(***************************************************************************)
TrailComplete(r) ==
    /\ \A s \in Services :
          At(r, s) \in Events => handler[<<r, s>>].result = "ok"
    /\ \A e \in Chain : At(r, Owner[e]) \in Written[e] => e \in Seen(r)
    /\ \A e \in Events \ (Chain \cup {"key_verify_skipped"}) :
          e \in Seen(r) => At(r, Owner[e]) \in {"REJECTED", "502"}
    /\ \A e \in Events : <<r, e>> \notin late

CompleteInv == ChainInv /\ \A r \in Requests : TrailComplete(r)

-----------------------------------------------------------------------------
(* The operators of the model and of the invariants.                        *)

LEMMA ChainIs ==
    Chain = {"request_received", "auth_validated", "endpoints_resolved",
             "topology_attached", "path_computed", "keys_retrieved",
             "service_provisioned", "response_returned"}
  BY DEF Chain, Sequence

LEMMA PositionIs ==
    /\ Position("request_received") = 1
    /\ Position("auth_validated") = 2
    /\ Position("endpoints_resolved") = 3
    /\ Position("topology_attached") = 4
    /\ Position("path_computed") = 5
    /\ Position("keys_retrieved") = 6
    /\ Position("service_provisioned") = 7
    /\ Position("response_returned") = 8
  <1>1. DOMAIN Sequence = 1 .. 8
    BY DEF Sequence
  <1>2. \A i, j \in 1 .. 8 : Sequence[i] = Sequence[j] => i = j
    BY DEF Sequence
  <1>3. ASSUME NEW i \in 1 .. 8 PROVE Position(Sequence[i]) = i
    BY <1>1, <1>2, <1>3 DEF Position
  <1> QED
    BY <1>3 DEF Sequence

\* A step of a handler goes to a place that follows, and leaves an event only
\* by the end of its audit write.
LEMMA StepMoves ==
    ASSUME TypeOK, NEW r \in Requests, NEW s \in Services, RequestInv(r),
           Step(r, s) \/ Receive(r, s)
    PROVE  \E p \in PlacesOf[s] : Enter(r, s, p) /\ <<At(r, s), p>> \in MovesOf[s]
  <1> USE ServicesAre
  <1> DEFINE here == At(r, s)
  <1>1. CASE Receive(r, s)
    <2>1. CASE s = "pce" /\ ReceivePce(r)
      BY <1>1, <2>1 DEF Receive, ReceivePce, PlacesOf, MovesOf
    <2>2. CASE s = "kom" /\ ReceiveKom(r)
      BY <1>1, <2>2 DEF Receive, ReceiveKom, KmsCall, PlacesOf, MovesOf
    <2>3. CASE s \in DOMAIN First /\ Enter(r, s, First[s])
      <3>1. First[s] \in PlacesOf[s] /\ <<"idle", First[s]>> \in MovesOf[s]
        BY <2>3 DEF First, PlacesOf, MovesOf
      <3> QED
        BY <1>1, <2>3, <3>1 DEF Receive
    <2> QED
      BY <1>1, <2>1, <2>2, <2>3 DEF Receive
  <1>2. CASE Audit(r, s)
    <2>1. here \in Events /\ here \in PlacesOf[s]
      BY <1>2 DEF Audit, Ready, RequestInv, InPlace
    <2>2. PICK p \in AfterEvent(r, s) : Enter(r, s, p)
      BY <1>2 DEF Audit
    <2> SUFFICES p \in PlacesOf[s] /\ <<here, p>> \in MovesOf[s]
      BY <2>2
    <2> USE <2>1, <2>2 DEF PlacesOf, MovesOf, Events
    <2>3. CASE s = "gateway"
      <3>1. p \in Gateway(r)[here]
        BY <2>3 DEF AfterEvent
      <3>2. here \in {"request_received", "downstream_error", "response_returned"}
        BY <2>3
      <3> QED
        BY <2>3, <3>1, <3>2 DEF Gateway, Final
    <2>4. CASE s = "identity"
      <3>1. p \in Identity[here] /\ Resolved \subseteq {"endpoints_resolved", "resolution_failed"}
        BY <2>4, ChainAssumption DEF AfterEvent, Resolved
      <3>2. here \in {"auth_validated", "resolution_failed", "endpoints_resolved"}
        BY <2>4
      <3>3. /\ Identity["auth_validated"] = Resolved
            /\ Identity["resolution_failed"] = {"REJECTED"}
            /\ Identity["endpoints_resolved"] = {"connect"}
        BY DEF Identity
      <3> QED
        BY <2>4, <3>1, <3>2, <3>3
    <2>5. CASE s = "topology"
      <3>1. p \in Topology[here]
        BY <2>5 DEF AfterEvent
      <3> QED
        BY <2>5, <3>1 DEF Topology
    <2>6. CASE s = "pce"
      <3>1. p \in Pce[here]
        BY <2>6 DEF AfterEvent
      <3> QED
        BY <2>6, <3>1 DEF Pce
    <2>7. CASE s = "kom"
      <3>1. p \in Kom[here]
        BY <2>7 DEF AfterEvent
      <3> QED
        BY <2>7, <3>1 DEF Kom
    <2>8. CASE s = "provisioning"
      <3>1. p \in Provisioning[here]
        BY <2>8 DEF AfterEvent
      <3> QED
        BY <2>8, <3>1 DEF Provisioning
    <2> QED
      BY <2>3, <2>4, <2>5, <2>6, <2>7, <2>8
  <1>3. CASE s = "topology" /\ Snapshot(r)
    <2>1. handler[<<r, "topology">>].result \in {"ok", "failed", "empty", "raised"}
      BY <1>3 DEF Snapshot, Ready, RequestInv, SourceRead
    <2> QED
      BY <1>3, <2>1 DEF Snapshot, Ready, PlacesOf, MovesOf
  <1>4. CASE s = "kom" /\ QueryRelay(r)
    BY <1>4 DEF QueryRelay, Ready, KmsCall, PlacesOf, MovesOf
  <1>5. CASE s = "kom" /\ EncKeys(r)
    BY <1>5 DEF EncKeys, Ready, PlacesOf, MovesOf
  <1>6. CASE s = "kom" /\ DecKeys(r)
    BY <1>6 DEF DecKeys, Ready, VerificationFailed, PlacesOf, MovesOf
  <1>7. CASE s \in Callers /\ Return(r, s)
    <2>1. At(r, Down[s]) \in {"PROVISIONED", "REJECTED"} /\ here = "forward"
      BY <1>7 DEF Return
    <2>2. s = "kom" => At(r, Down[s]) # "REJECTED"
      BY DEF RequestInv, InPlace, PlacesOf, Down
    <2>3. Enter(r, s, IF s = "gateway" THEN "response_returned" ELSE At(r, Down[s]))
      BY <1>7 DEF Return
    <2> QED
      BY <1>7, <2>1, <2>2, <2>3 DEF PlacesOf, MovesOf
  <1>8. CASE s \in Callers /\ Fail(r, s)
    BY <1>8 DEF Fail, GaveUp, PlacesOf, MovesOf
  <1>9. CASE s \in Callers /\ Connect(r, s)
    BY <1>9 DEF Connect, Ready, GaveUp, PlacesOf, MovesOf
  <1> QED
    BY <1>1, <1>2, <1>3, <1>4, <1>5, <1>6, <1>7, <1>8, <1>9 DEF Step

\* The trail grows by the event the handler has just written.
LEMMA StepWrites ==
    ASSUME NEW r \in Requests, NEW s \in Services, Step(r, s) \/ Receive(r, s)
    PROVE  trail' = IF At(r, s) \in Events /\ handler[<<r, s>>].result = "ok"
                    THEN [trail EXCEPT ![r] = Append(@, At(r, s))]
                    ELSE trail
  <1>1. CASE Audit(r, s)
    BY <1>1 DEF Audit, Ready
  <1>2. CASE trail' = trail /\ At(r, s) \in {"idle", "snapshot", "status", "enc_keys", "dec_keys",
                                             "connect", "forward"}
    BY <1>2 DEF Events
  <1>3. CASE Receive(r, s)
    BY <1>2, <1>3 DEF Receive
  <1>4. CASE (s = "topology" /\ Snapshot(r)) \/ (s \in Callers /\ (Connect(r, s) \/ Return(r, s) \/ Fail(r, s)))
    BY <1>2, <1>4 DEF Snapshot, Ready, Connect, Return, Fail
  <1>5. CASE s = "kom" /\ (QueryRelay(r) \/ EncKeys(r) \/ DecKeys(r))
    BY <1>2, <1>5 DEF QueryRelay, EncKeys, DecKeys, Ready
  <1> QED
    BY <1>1, <1>3, <1>4, <1>5 DEF Step

\* A list with one more element shows one more.
LEMMA AppendSeen ==
    ASSUME NEW S, NEW t \in Seq(S), NEW e \in S, NEW u, u = Append(t, e)
    PROVE  /\ DOMAIN u = DOMAIN t \cup {Len(t) + 1}
           /\ \A i \in DOMAIN t : u[i] = t[i] /\ i < Len(t) + 1 /\ i \in Nat
           /\ u[Len(t) + 1] = e
           /\ {u[i] : i \in DOMAIN u} = {t[i] : i \in DOMAIN t} \cup {e}
  <1>1. /\ DOMAIN u = DOMAIN t \cup {Len(t) + 1}
        /\ \A i \in DOMAIN t : u[i] = t[i] /\ i < Len(t) + 1 /\ i \in Nat
        /\ u[Len(t) + 1] = e
    OBVIOUS
  <1> QED
    BY <1>1

\* Below a service that has not called yet nobody has begun.
LEMMA BelowIdle ==
    ASSUME NEW r \in Requests, RequestInv(r)
    PROVE  /\ At(r, "gateway") \in BeforeCall => At(r, "identity") = "idle"
           /\ At(r, "identity") \in BeforeCall => At(r, "topology") = "idle"
           /\ At(r, "topology") \in BeforeCall => At(r, "pce") = "idle"
           /\ At(r, "pce") \in BeforeCall => At(r, "kom") = "idle"
           /\ At(r, "kom") \in BeforeCall => At(r, "provisioning") = "idle"
  BY ServicesAre DEF RequestInv, CalledOnce, Down

\* Once identity has answered, nobody below it is working.
LEMMA AnsweredIsQuiet ==
    ASSUME NEW r \in Requests, RequestInv(r),
           At(r, "identity") \in {"PROVISIONED", "REJECTED"}
    PROVE  \A s \in Services \ {"gateway"} : At(r, s) \in {"idle", "PROVISIONED", "REJECTED"}
  <1> USE ServicesAre DEF RequestInv, AnswersAgree, Down
  <1>0. "idle" \in BeforeCall
    BY DEF BeforeCall
  <1>1. At(r, "topology") \in {"idle", "PROVISIONED", "REJECTED"}
    OBVIOUS
  <1>2. At(r, "pce") \in {"idle", "PROVISIONED", "REJECTED"}
    BY <1>0, <1>1, BelowIdle
  <1>3. At(r, "kom") \in {"idle", "PROVISIONED", "REJECTED"}
    BY <1>0, <1>2, BelowIdle
  <1>4. At(r, "provisioning") \in {"idle", "PROVISIONED", "REJECTED"}
    BY <1>0, <1>3, BelowIdle
  <1> QED
    BY <1>1, <1>2, <1>3, <1>4

-----------------------------------------------------------------------------
(* The order of the trail.                                                  *)

\* What a service is about to write comes after all that is in the trail.
LEMMA NextEventIsLater ==
    ASSUME NEW r \in Requests, RequestInv(r), TrailOrder(r),
           NEW s \in Services, At(r, s) \in Chain, NEW d \in Chain, d \in Seen(r)
    PROVE  Position(d) < Position(At(r, s))
  <1> DEFINE e == At(r, s)
  <1>1. s = Owner[e]
    BY ServicesAre, ChainIs DEF RequestInv, InPlace, PlacesOf, Owner
  <1>2. At(r, Owner[d]) \notin NotYet[d]
    BY DEF TrailOrder
  <1>3. s # "gateway" => d # "response_returned"
    <2>1. e \notin {"idle", "PROVISIONED", "REJECTED"}
      BY ChainIs
    <2> QED
      BY <2>1, AnsweredIsQuiet DEF TrailOrder
  <1>4. e # "response_returned" => e \in BeforeCall
    BY ChainIs DEF BeforeCall, Events
  <1>5. \A c \in Chain : "idle" \in NotYet[c]
    BY ChainIs DEF NotYet
  <1>6. "idle" \in BeforeCall
    BY DEF BeforeCall
  <1> USE ChainIs, PositionIs, ServicesAre, <1>1, <1>2, <1>3, BelowIdle DEF Owner, NotYet
  <1>7. CASE e = "request_received"
    BY <1>4, <1>6, <1>7
  <1>8. CASE e = "auth_validated"
    BY <1>4, <1>6, <1>8
  <1>9. CASE e = "endpoints_resolved"
    BY <1>4, <1>6, <1>9
  <1>10. CASE e = "topology_attached"
    BY <1>4, <1>6, <1>10
  <1>11. CASE e = "path_computed"
    BY <1>4, <1>6, <1>11
  <1>12. CASE e = "keys_retrieved"
    BY <1>4, <1>6, <1>12
  <1>13. CASE e = "service_provisioned"
    BY <1>13
  <1>14. CASE e = "response_returned"
    BY <1>14
  <1> QED
    BY <1>7, <1>8, <1>9, <1>10, <1>11, <1>12, <1>13, <1>14

\* Moves never lead back before an event.
LEMMA MovesForward ==
    ASSUME NEW d \in Chain, NEW x, NEW p, <<x, p>> \in MovesOf[Owner[d]]
    PROVE  /\ x \notin NotYet[d] \/ x = d => p \notin NotYet[d]
           /\ p \in Written[d] => x \in Written[d] \/ x = d
  <1> USE DEF MovesOf, Owner, NotYet, Written
  <1>1. CASE d \in {"request_received", "response_returned"}
    BY <1>1
  <1>2. CASE d \in {"auth_validated", "endpoints_resolved"}
    BY <1>2
  <1>3. CASE d = "topology_attached"
    BY <1>3
  <1>4. CASE d = "path_computed"
    BY <1>4
  <1>5. CASE d = "keys_retrieved"
    BY <1>5
  <1>6. CASE d = "service_provisioned"
    BY <1>6
  <1> QED
    BY <1>1, <1>2, <1>3, <1>4, <1>5, <1>6, ChainIs

\* What a handler's step does to the trail of its request, and to late writes.
LEMMA StepTrail ==
    ASSUME NoLateWrites, ChainInv, NEW r \in Requests, NEW s \in Services,
           Step(r, s) \/ Receive(r, s)
    PROVE  \E p \in Places :
              /\ <<At(r, s), p>> \in MovesOf[s]
              /\ handler'[<<r, s>>].at = p
              /\ Enter(r, s, p)
              /\ \A x \in Requests : \A t \in Services :
                    x # r \/ t # s => handler'[<<x, t>>] = handler[<<x, t>>]
              /\ \A x \in Requests : \A d \in Events : <<x, d>> \in late' => <<x, d>> \in late
              /\ \A x \in Requests : x # r => trail'[x] = trail[x]
  <1>1. handler \in [Requests \X Services -> Handlers] /\ TypeOK /\ RequestInv(r)
    BY DEF ChainInv, TypeOK, Handlers, Places, Delays
  <1>2. PICK p \in PlacesOf[s] : Enter(r, s, p) /\ <<At(r, s), p>> \in MovesOf[s]
    BY <1>1, StepMoves
  <1>3. p \in Places
    BY PlacesOfService
  <1>4. /\ handler'[<<r, s>>].at = p
        /\ \A x \in Requests : \A t \in Services :
              x # r \/ t # s => handler'[<<x, t>>] = handler[<<x, t>>]
        /\ late' \subseteq late \cup {<<r, p>>}
    BY <1>1, <1>2, <1>3, EnterEffect
  <1>5. p \in Events => late' = late
    <2>1. PICK a \in Awaits(p) : a.result # "late" => late' = late
      BY <1>2 DEF Enter
    <2>2. p \in Events => a.result # "late"
      BY <1>3, <2>1, AwaitIsBounded DEF NoLateWrites
    <2> QED
      BY <2>1, <2>2
  <1>6. \A x \in Requests : x # r => trail'[x] = trail[x]
    BY <1>1, StepWrites DEF TypeOK
  <1> QED
    BY <1>2, <1>3, <1>4, <1>5, <1>6

\* A trail that grows by the event its handler was at stays in order.
LEMMA GrowthInOrder ==
    ASSUME TypeOK, NEW r \in Requests, RequestInv(r), TrailOrder(r), NEW s \in Services,
           At(r, s) \in Events, trail' = [trail EXCEPT ![r] = Append(@, At(r, s))]
    PROVE  /\ InOrder(r)'
           /\ Seen(r)' = Seen(r) \cup {At(r, s)}
  <1> DEFINE e == At(r, s)
  <1>1. trail[r] \in Seq(Events) /\ trail'[r] = Append(trail[r], e)
    BY DEF TypeOK
  <1> HIDE DEF e
  <1>2. /\ DOMAIN trail'[r] = DOMAIN trail[r] \cup {Len(trail[r]) + 1}
        /\ \A i \in DOMAIN trail[r] :
              trail'[r][i] = trail[r][i] /\ i < Len(trail[r]) + 1 /\ i \in Nat
        /\ trail'[r][Len(trail[r]) + 1] = e
        /\ {trail'[r][i] : i \in DOMAIN trail'[r]} = {trail[r][i] : i \in DOMAIN trail[r]} \cup {e}
    BY <1>1, AppendSeen DEF e
  <1>3. InOrder(r)'
    <2> SUFFICES ASSUME NEW i \in DOMAIN trail'[r], NEW j \in DOMAIN trail'[r], i < j,
                        trail'[r][i] \in Chain, trail'[r][j] \in Chain
                 PROVE  Position(trail'[r][i]) < Position(trail'[r][j])
      BY DEF InOrder
    <2>1. Len(trail[r]) \in Nat
      BY <1>1
    <2>2. i \in DOMAIN trail[r]
      BY <1>2, <2>1
    <2>3. CASE j \in DOMAIN trail[r]
      BY <1>2, <2>2, <2>3 DEF TrailOrder, InOrder
    <2>4. CASE j = Len(trail[r]) + 1
      <3>1. trail[r][i] \in Seen(r) /\ trail[r][i] \in Chain /\ e \in Chain
        BY <1>2, <2>2, <2>4 DEF Seen
      <3>2. Position(trail[r][i]) < Position(e)
        BY <3>1, NextEventIsLater DEF e
      <3> QED
        BY <1>2, <2>2, <2>4, <3>2
    <2> QED
      BY <1>2, <2>3, <2>4
  <1>4. Seen(r)' = Seen(r) \cup {e}
    BY <1>2 DEF Seen
  <1> QED
    BY <1>3, <1>4 DEF e

LEMMA StepOrder ==
    ASSUME NoLateWrites, OrderInv, ChainInv', NEW r \in Requests, NEW s \in Services,
           Step(r, s) \/ Receive(r, s), NEW q \in Requests
    PROVE  TrailOrder(q)'
  <1>1. TypeOK /\ ChainInv /\ RequestInv(r) /\ TrailOrder(r) /\ TrailOrder(q)
    BY DEF OrderInv, ChainInv
  <1>2. PICK p \in Places :
           /\ <<At(r, s), p>> \in MovesOf[s]
           /\ handler'[<<r, s>>].at = p
           /\ \A x \in Requests : \A t \in Services :
                 x # r \/ t # s => handler'[<<x, t>>] = handler[<<x, t>>]
           /\ \A x \in Requests : \A d \in Events : <<x, d>> \in late' => <<x, d>> \in late
           /\ \A x \in Requests : x # r => trail'[x] = trail[x]
    BY <1>1, StepTrail
  <1>3. \A d \in Events : <<q, d>> \notin late'
    BY <1>1, <1>2 DEF TrailOrder
  <1>4. \A d \in Chain : Owner[d] \in Services
    BY ChainIs, ServicesAre DEF Owner
  <1>5. CASE q # r
    <2>1. trail'[q] = trail[q] /\ \A t \in Services : handler'[<<q, t>>] = handler[<<q, t>>]
      BY <1>2, <1>5
    <2>2. Seen(q)' = Seen(q) /\ InOrder(q)'
      BY <1>1, <2>1 DEF Seen, InOrder, TrailOrder
    <2> QED
      BY <1>1, <1>3, <1>4, <2>1, <2>2, ServicesAre DEF TrailOrder, At
  <1>6. CASE q = r
    <2>1. /\ InOrder(r)'
          /\ Seen(r)' \subseteq Seen(r) \cup {At(r, s)}
      <3>1. CASE At(r, s) \in Events /\ handler[<<r, s>>].result = "ok"
        BY <1>1, <3>1, StepWrites, GrowthInOrder
      <3>2. CASE ~(At(r, s) \in Events /\ handler[<<r, s>>].result = "ok")
        <4>1. trail' = trail
          BY <3>2, StepWrites
        <4> QED
          BY <1>1, <4>1 DEF TrailOrder, InOrder, Seen
      <3> QED
        BY <3>1, <3>2
    <2>2. ASSUME NEW d \in Chain, d \in Seen(r)' PROVE handler'[<<r, Owner[d]>>].at \notin NotYet[d]
      <3>1. CASE Owner[d] = s
        BY <1>1, <1>2, <2>1, <2>2, <3>1, MovesForward DEF TrailOrder
      <3>2. CASE Owner[d] # s
        <4>1. handler'[<<r, Owner[d]>>] = handler[<<r, Owner[d]>>]
          BY <1>2, <1>4, <3>2
        <4>2. d # At(r, s)
          BY <1>1, <3>2, ChainIs, ServicesAre DEF RequestInv, InPlace, PlacesOf, Owner
        <4> QED
          BY <1>1, <2>1, <2>2, <4>1, <4>2 DEF TrailOrder, At
      <3> QED
        BY <3>1, <3>2
    <2>3. "response_returned" \in Seen(r)'
              => handler'[<<r, "identity">>].at \in {"PROVISIONED", "REJECTED"}
      <3>1. ASSUME handler[<<r, "identity">>].at \in {"PROVISIONED", "REJECTED"}
            PROVE  s # "identity"
        <4>1. \A x \in {"PROVISIONED", "REJECTED"} : <<x, p>> \notin MovesOf["identity"]
          BY DEF MovesOf
        <4> QED
          BY <1>2, <3>1, <4>1 DEF At
      <3>2. handler[<<r, "identity">>].at \in {"PROVISIONED", "REJECTED"}
              => handler'[<<r, "identity">>] = handler[<<r, "identity">>]
        BY <1>2, <3>1, ServicesAre
      <3>3. CASE "response_returned" \in Seen(r)
        BY <1>1, <3>2, <3>3 DEF TrailOrder, At
      <3>4. CASE At(r, s) = "response_returned"
        <4>1. s = "gateway"
          BY <1>1, <3>4, ServicesAre DEF RequestInv, InPlace, PlacesOf
        <4> QED
          BY <1>1, <3>2, <3>4, <4>1 DEF RequestInv, AnswersAgree, At
      <3> QED
        BY <2>1, <3>3, <3>4
    <2> QED
      BY <1>3, <1>6, <2>1, <2>2, <2>3 DEF TrailOrder, At
  <1> QED
    BY <1>5, <1>6

LEMMA NextOrder == NoLateWrites /\ OrderInv /\ [Next]_vars => OrderInv'
  <1> SUFFICES ASSUME NoLateWrites, OrderInv, [Next]_vars, NEW q \in Requests
               PROVE  TrailOrder(q)'
    BY NextKeeps DEF OrderInv
  <1>1. /\ ChainInv /\ ChainInv' /\ TrailOrder(q)
        /\ handler \in [Requests \X Services -> Handlers]
    BY NextKeeps DEF OrderInv, ChainInv, TypeOK, Handlers, Places, Delays
  <1>2. \A d \in Chain : Owner[d] \in Services /\ "gone" \notin NotYet[d]
    BY ChainIs, ServicesAre DEF Owner, NotYet
  <1>3. CASE /\ \A t \in Services :
                    \/ handler'[<<q, t>>].at = handler[<<q, t>>].at
                    \/ /\ handler[<<q, t>>].at \notin Ended
                       /\ handler'[<<q, t>>].at = "gone"
             /\ trail' = trail /\ late' \subseteq late
    <2>1. handler[<<q, "identity">>].at \in {"PROVISIONED", "REJECTED"}
             => handler'[<<q, "identity">>].at = handler[<<q, "identity">>].at
      BY <1>3, ServicesAre DEF Ended, Replies
    <2> QED
      BY <1>1, <1>2, <1>3, <2>1 DEF TrailOrder, InOrder, Seen, At
  <1>4. ASSUME NEW r \in Requests, NEW s \in Services, Step(r, s) PROVE TrailOrder(q)'
    BY <1>1, <1>4, StepOrder
  <1>5. ASSUME NEW r \in Requests, Submit(r) PROVE TrailOrder(q)'
    BY <1>1, <1>5, StepOrder, ServicesAre DEF Submit
  <1>6. CASE Tick
    BY <1>1, <1>3, <1>6, TickEffect DEF Tick
  <1>7. ASSUME NEW s \in Services, Crash(s) PROVE TrailOrder(q)'
    BY <1>1, <1>3, <1>7, CrashEffect DEF Crash
  <1>8. ASSUME NEW s \in Services, Restart(s) PROVE TrailOrder(q)'
    BY <1>3, <1>8 DEF Restart
  <1>9. ASSUME NEW r \in Requests, NEW p \in Events \cup {"enc_keys"}, Arrive(r, p)
        PROVE  TrailOrder(q)'
    <2>1. p = "enc_keys"
      BY <1>9 DEF Arrive, OrderInv, TrailOrder
    <2> QED
      BY <1>3, <1>9, <2>1 DEF Arrive
  <1>10. CASE UNCHANGED vars
    BY <1>3, <1>10 DEF vars
  <1> QED
    BY <1>4, <1>5, <1>6, <1>7, <1>8, <1>9, <1>10 DEF Next, Environment

(***************************************************************************)
(* The trail shows the levels of the chain in their order and each at most *)
(* once, whatever handlers outlive their callers, crash or lose a write,   *)
(* as long as no write arrives after its service gave it up.               *)
(***************************************************************************)
THEOREM TrailInOrder == ASSUME NoLateWrites PROVE Spec => []AuditOrder
  <1>1. Init => OrderInv
    <2> SUFFICES ASSUME Init, NEW r \in Requests PROVE TrailOrder(r)
      BY InitInv DEF OrderInv
    <2>1. trail[r] = <<>> /\ late = {}
      BY DEF Init
    <2>2. Seen(r) = {}
      BY <2>1 DEF Seen
    <2> QED
      BY <2>1, <2>2 DEF TrailOrder, InOrder
  <1>2. OrderInv => AuditOrder
    BY DEF OrderInv, TrailOrder, InOrder, AuditOrder
  <1> QED
    BY <1>1, <1>2, NextOrder, NoLateWrites, PTL DEF Spec
-----------------------------------------------------------------------------
(* What the trail says of the answer.                                       *)

\* The failures each service reports, and how it ends then.
LEMMA FailureEnds ==
    ASSUME NEW d \in Events \ (Chain \cup {"key_verify_skipped"}), NEW p,
           <<d, p>> \in MovesOf[Owner[d]]
    PROVE  p \in {"REJECTED", "502"}
  BY ChainIs DEF Events, Owner, MovesOf

LEMMA EndIsFinal ==
    ASSUME NEW s \in Services, NEW x \in {"REJECTED", "502"}, NEW p
    PROVE  <<x, p>> \notin MovesOf[s]
  BY ServicesAre DEF MovesOf

LEMMA OwnerWrites ==
    ASSUME NEW r \in Requests, InPlace(r), NEW s \in Services, At(r, s) \in Events
    PROVE  s = Owner[At(r, s)]
  BY ServicesAre DEF InPlace, PlacesOf, Owner, Events

LEMMA EnterWritten ==
    ASSUME AllWritten, handler \in [Requests \X Services -> Handlers],
           NEW r \in Requests, NEW s \in Services, NEW p \in Events, Enter(r, s, p)
    PROVE  handler'[<<r, s>>].result = "ok"
  <1>1. PICK a \in Awaits(p) :
          handler' = [handler EXCEPT ![<<r, s>>] =
                        [at |-> p, timer |-> a.delay, result |-> a.result]]
    BY DEF Enter
  <1>2. a.result = "ok"
    <2>1. p \in Places
      BY DEF Places
    <2> QED
      BY <2>1, AwaitIsBounded DEF AllWritten
  <1>3. handler'[<<r, s>>] = [at |-> p, timer |-> a.delay, result |-> a.result]
    BY <1>1
  <1> QED
    BY <1>2, <1>3

LEMMA WrittenIsNotLate == AllWritten => NoLateWrites
  BY DEF AllWritten, NoLateWrites

LEMMA StepComplete ==
    ASSUME AllWritten, CompleteInv, NEW r \in Requests, NEW s \in Services,
           Step(r, s) \/ Receive(r, s), NEW q \in Requests
    PROVE  TrailComplete(q)'
  <1>1. /\ TypeOK /\ ChainInv /\ RequestInv(r) /\ TrailComplete(r) /\ TrailComplete(q)
        /\ handler \in [Requests \X Services -> Handlers]
    BY DEF CompleteInv, ChainInv, TypeOK, Handlers, Places, Delays
  <1>2. PICK p \in Places :
           /\ <<At(r, s), p>> \in MovesOf[s]
           /\ handler'[<<r, s>>].at = p
           /\ Enter(r, s, p)
           /\ \A x \in Requests : \A t \in Services :
                 x # r \/ t # s => handler'[<<x, t>>] = handler[<<x, t>>]
           /\ \A x \in Requests : \A d \in Events : <<x, d>> \in late' => <<x, d>> \in late
           /\ \A x \in Requests : x # r => trail'[x] = trail[x]
    BY <1>1, StepTrail, WrittenIsNotLate
  <1>3. \A d \in Events : <<q, d>> \notin late'
    BY <1>1, <1>2 DEF TrailComplete
  <1>4. \A d \in Events : Owner[d] \in Services
    BY ServicesAre DEF Owner, Events
  <1>5. Chain \subseteq Events
    BY ChainIs DEF Events
  <1>6. CASE q # r
    <2>1. Seen(q)' = Seen(q) /\ \A t \in Services : handler'[<<q, t>>] = handler[<<q, t>>]
      BY <1>2, <1>6 DEF Seen
    <2> QED
      BY <1>1, <1>3, <1>4, <1>5, <2>1 DEF TrailComplete, At
  <1>7. CASE q = r
    <2>1. ASSUME NEW t \in Services, handler'[<<r, t>>].at \in Events
          PROVE  handler'[<<r, t>>].result = "ok"
      BY <1>1, <1>2, <2>1, EnterWritten DEF TrailComplete, At
    <2>2. /\ Seen(r) \subseteq Seen(r)'
          /\ Seen(r)' \subseteq Seen(r) \cup {At(r, s)}
          /\ At(r, s) \in Events => At(r, s) \in Seen(r)'
      <3>1. CASE At(r, s) \in Events
        <4>1. trail[r] \in Seq(Events) /\ trail'[r] = Append(trail[r], At(r, s))
          BY <1>1, <3>1, StepWrites DEF TrailComplete, TypeOK
        <4> QED
          BY <3>1, <4>1, AppendSeen DEF Seen
      <3>2. CASE At(r, s) \notin Events
        BY <3>2, StepWrites DEF Seen
      <3> QED
        BY <3>1, <3>2
    <2>3. ASSUME NEW d \in Chain, handler'[<<r, Owner[d]>>].at \in Written[d]
          PROVE  d \in Seen(r)'
      <3>1. CASE Owner[d] = s
        BY <1>1, <1>2, <1>5, <2>2, <2>3, <3>1, MovesForward DEF TrailComplete
      <3>2. CASE Owner[d] # s
        <4>1. handler'[<<r, Owner[d]>>] = handler[<<r, Owner[d]>>]
          BY <1>2, <1>4, <1>5, <3>2
        <4> QED
          BY <1>1, <2>2, <2>3, <4>1 DEF TrailComplete, At
      <3> QED
        BY <3>1, <3>2
    <2>4. ASSUME NEW d \in Events \ (Chain \cup {"key_verify_skipped"}), d \in Seen(r)'
          PROVE  handler'[<<r, Owner[d]>>].at \in {"REJECTED", "502"}
      <3>1. CASE d \in Seen(r)
        <4>1. handler[<<r, Owner[d]>>].at \in {"REJECTED", "502"}
          BY <1>1, <3>1 DEF TrailComplete, At
        <4>2. Owner[d] # s
          BY <1>2, <1>4, <4>1, EndIsFinal DEF At
        <4> QED
          BY <1>2, <1>4, <4>1, <4>2
      <3>2. CASE d = At(r, s)
        BY <1>1, <1>2, <3>2, OwnerWrites, FailureEnds DEF RequestInv
      <3> QED
        BY <2>2, <2>4, <3>1, <3>2
    <2> QED
      BY <1>3, <1>7, <2>1, <2>3, <2>4 DEF TrailComplete, At
  <1> QED
    BY <1>6, <1>7

LEMMA NextComplete == AllWritten /\ CompleteInv /\ [Next]_vars => CompleteInv'
  <1> SUFFICES ASSUME AllWritten, CompleteInv, [Next]_vars, NEW q \in Requests
               PROVE  TrailComplete(q)'
    BY NextKeeps DEF CompleteInv
  <1>1. TrailComplete(q) /\ handler \in [Requests \X Services -> Handlers]
    BY DEF CompleteInv, ChainInv, TypeOK, Handlers, Places, Delays
  <1>2. /\ \A d \in Events : Owner[d] \in Services
        /\ \A d \in Chain : "gone" \notin Written[d]
        /\ "gone" \notin Events
        /\ {"REJECTED", "502"} \subseteq Ended
        /\ Chain \subseteq Events
    BY ChainIs, ServicesAre DEF Owner, Events, Written, Ended, Answers, Replies
  <1>3. CASE /\ \A t \in Services :
                    \/ /\ handler'[<<q, t>>].at = handler[<<q, t>>].at
                       /\ handler'[<<q, t>>].result = handler[<<q, t>>].result
                    \/ /\ handler[<<q, t>>].at \notin Ended
                       /\ handler'[<<q, t>>].at = "gone"
             /\ trail' = trail /\ late' \subseteq late
    BY <1>1, <1>2, <1>3 DEF TrailComplete, Seen, At
  <1>4. ASSUME NEW r \in Requests, NEW s \in Services, Step(r, s) PROVE TrailComplete(q)'
    BY <1>4, StepComplete
  <1>5. ASSUME NEW r \in Requests, Submit(r) PROVE TrailComplete(q)'
    BY <1>5, StepComplete, ServicesAre DEF Submit
  <1>6. CASE Tick
    BY <1>1, <1>3, <1>6, TickEffect DEF Tick
  <1>7. ASSUME NEW s \in Services, Crash(s) PROVE TrailComplete(q)'
    BY <1>1, <1>3, <1>7, CrashEffect DEF Crash
  <1>8. ASSUME NEW s \in Services, Restart(s) PROVE TrailComplete(q)'
    BY <1>3, <1>8 DEF Restart
  <1>9. ASSUME NEW r \in Requests, NEW p \in Events \cup {"enc_keys"}, Arrive(r, p)
        PROVE  TrailComplete(q)'
    <2>1. p = "enc_keys"
      BY <1>9 DEF Arrive, CompleteInv, TrailComplete
    <2> QED
      BY <1>3, <1>9, <2>1 DEF Arrive
  <1>10. CASE UNCHANGED vars
    BY <1>3, <1>10 DEF vars
  <1> QED
    BY <1>4, <1>5, <1>6, <1>7, <1>8, <1>9, <1>10 DEF Next, Environment

\* Provisioning is in the trail, or on its way there, only if it was reached.
ProvisionedWasReached(r) ==
    "service_provisioned" \in Seen(r) \/ <<r, "service_provisioned">> \in late
        => At(r, "provisioning") # "idle"

ReachedInv == ChainInv /\ \A r \in Requests : ProvisionedWasReached(r)

LEMMA StepReached ==
    ASSUME ReachedInv, NEW r \in Requests, NEW s \in Services,
           Step(r, s) \/ Receive(r, s), NEW q \in Requests
    PROVE  ProvisionedWasReached(q)'
  <1>1. /\ handler \in [Requests \X Services -> Handlers]
        /\ TypeOK /\ RequestInv(r) /\ ProvisionedWasReached(q) /\ ProvisionedWasReached(r)
    BY DEF ReachedInv, ChainInv, TypeOK, Handlers, Places, Delays
  <1>2. PICK p \in PlacesOf[s] : Enter(r, s, p) /\ <<At(r, s), p>> \in MovesOf[s]
    BY <1>1, StepMoves
  <1>3. /\ handler'[<<r, s>>].at = p
        /\ \A x \in Requests : \A t \in Services :
              x # r \/ t # s => handler'[<<x, t>>] = handler[<<x, t>>]
        /\ late' \subseteq late \cup {<<r, p>>}
    BY <1>1, <1>2, EnterEffect, PlacesOfService
  <1>4. p # "idle"
    BY <1>2, ServicesAre DEF MovesOf
  <1>5. "provisioning" \in Services
    BY ServicesAre
  <1>6. CASE q # r
    <2>1. trail'[q] = trail[q]
      BY <1>1, <1>6, StepWrites DEF TypeOK
    <2>2. handler'[<<q, "provisioning">>] = handler[<<q, "provisioning">>]
      BY <1>3, <1>5, <1>6
    <2> QED
      BY <1>1, <1>3, <1>6, <2>1, <2>2 DEF ProvisionedWasReached, Seen, At
  <1>7. CASE q = r /\ s = "provisioning"
    BY <1>3, <1>4, <1>7 DEF ProvisionedWasReached, At
  <1>8. CASE q = r /\ s # "provisioning"
    <2>1. At(r, s) # "service_provisioned" /\ p # "service_provisioned"
      BY <1>1, <1>2, <1>8, ServicesAre DEF RequestInv, InPlace, PlacesOf
    <2>2. handler'[<<r, "provisioning">>] = handler[<<r, "provisioning">>]
      BY <1>3, <1>5, <1>8
    <2>3. "service_provisioned" \in Seen(r)' => "service_provisioned" \in Seen(r)
      <3>1. CASE At(r, s) \in Events /\ handler[<<r, s>>].result = "ok"
        <4>1. trail[r] \in Seq(Events) /\ trail'[r] = Append(trail[r], At(r, s))
          BY <1>1, <3>1, StepWrites DEF TypeOK
        <4> QED
          BY <2>1, <3>1, <4>1, AppendSeen DEF Seen
      <3>2. CASE ~(At(r, s) \in Events /\ handler[<<r, s>>].result = "ok")
        BY <3>2, StepWrites DEF Seen
      <3> QED
        BY <3>1, <3>2
    <2> QED
      BY <1>1, <1>3, <1>8, <2>1, <2>2, <2>3 DEF ProvisionedWasReached, At
  <1> QED
    BY <1>6, <1>7, <1>8

LEMMA NextReached == ReachedInv /\ [Next]_vars => ReachedInv'
  <1> SUFFICES ASSUME ReachedInv, [Next]_vars, NEW q \in Requests
               PROVE  ProvisionedWasReached(q)'
    BY NextKeeps DEF ReachedInv
  <1>1. /\ handler \in [Requests \X Services -> Handlers] /\ TypeOK
        /\ ProvisionedWasReached(q) /\ "provisioning" \in Services
    BY ServicesAre DEF ReachedInv, ChainInv, TypeOK, Handlers, Places, Delays
  <1>2. CASE /\ handler'[<<q, "provisioning">>].at \in {handler[<<q, "provisioning">>].at, "gone"}
             /\ "service_provisioned" \in Seen(q)' \/ <<q, "service_provisioned">> \in late'
                   => "service_provisioned" \in Seen(q) \/ <<q, "service_provisioned">> \in late
    BY <1>1, <1>2 DEF ProvisionedWasReached, At
  <1>3. ASSUME NEW r \in Requests, NEW s \in Services, Step(r, s)
        PROVE  ProvisionedWasReached(q)'
    BY <1>3, StepReached
  <1>4. ASSUME NEW r \in Requests, Submit(r) PROVE ProvisionedWasReached(q)'
    BY <1>4, StepReached, ServicesAre DEF Submit
  <1>5. CASE Tick
    BY <1>1, <1>2, <1>5, TickEffect DEF Tick, Seen
  <1>6. ASSUME NEW s \in Services, Crash(s) PROVE ProvisionedWasReached(q)'
    BY <1>1, <1>2, <1>6, CrashEffect DEF Crash, Seen
  <1>7. ASSUME NEW s \in Services, Restart(s) PROVE ProvisionedWasReached(q)'
    BY <1>2, <1>7 DEF Restart, Seen
  <1>8. ASSUME NEW r \in Requests, NEW p \in Events \cup {"enc_keys"}, Arrive(r, p)
        PROVE  ProvisionedWasReached(q)'
    <2>1. handler' = handler /\ late' \subseteq late /\ <<r, p>> \in late
      BY <1>8 DEF Arrive
    <2>2. CASE trail' = trail
      BY <1>2, <2>1, <2>2 DEF Seen
    <2>3. CASE p \in Events /\ trail' = [trail EXCEPT ![r] = Append(@, p)]
      <3>1. CASE q # r
        <4>1. trail'[q] = trail[q]
          BY <1>1, <2>3, <3>1 DEF TypeOK
        <4> QED
          BY <1>2, <2>1, <4>1 DEF Seen
      <3>2. CASE q = r
        <4>1. trail[r] \in Seq(Events) /\ trail'[r] = Append(trail[r], p)
          BY <1>1, <2>3 DEF TypeOK
        <4>2. Seen(r)' = Seen(r) \cup {p}
          BY <2>3, <4>1, AppendSeen DEF Seen
        <4> QED
          BY <1>2, <2>1, <3>2, <4>2
      <3> QED
        BY <3>1, <3>2
    <2> QED
      BY <1>8, <2>2, <2>3 DEF Arrive
  <1>9. CASE UNCHANGED vars
    BY <1>2, <1>9 DEF vars, Seen
  <1> QED
    BY <1>3, <1>4, <1>5, <1>6, <1>7, <1>8, <1>9 DEF Next, Environment

(***************************************************************************)
(* No 503 is given for a circuit the trail shows as provisioned, with any  *)
(* audit log, however late, lossy or slow.                                 *)
(***************************************************************************)
THEOREM RejectedIsNotProvisioned == Spec => []NothingProvisionedBy503
  <1>1. Init => ReachedInv
    <2> SUFFICES ASSUME Init, NEW r \in Requests PROVE ProvisionedWasReached(r)
      BY InitInv DEF ReachedInv
    <2>1. trail[r] = <<>> /\ late = {}
      BY DEF Init
    <2> QED
      BY <2>1 DEF ProvisionedWasReached, Seen
  <1>2. ReachedInv => NothingProvisionedBy503
    <2> SUFFICES ASSUME ReachedInv, NEW r \in Requests, answer[r] = "503"
                 PROVE  At(r, "provisioning") = "idle"
      BY DEF NothingProvisionedBy503, ReachedInv, ProvisionedWasReached
    <2> USE ServicesAre, BelowIdle
        DEF ReachedInv, ChainInv, RequestInv, AnswersAgree, BeforeCall, Down
    <2>1. At(r, "identity") = "REJECTED"
      BY DEF answer
    <2>2. At(r, "topology") \in {"idle", "REJECTED"}
      BY <2>1
    <2>3. At(r, "pce") \in {"idle", "REJECTED"}
      BY <2>2
    <2>4. At(r, "kom") \in {"idle", "REJECTED"}
      BY <2>3
    <2>5. At(r, "provisioning") \in {"idle", "REJECTED"}
      BY <2>4
    <2> QED
      BY <2>5 DEF InPlace, PlacesOf
  <1> QED
    BY <1>1, <1>2, NextReached, PTL DEF Spec

(***************************************************************************)
(* If every audit write succeeds, the trail tells the answer: a 200 has    *)
(* gone through every level and seen no failure, a 503 has provisioned     *)
(* nothing.                                                                *)
(***************************************************************************)
THEOREM TrailProvesAnswer == ASSUME AllWritten PROVE Spec => []TrailTellsAnswer
  <1>1. Init => CompleteInv
    <2> SUFFICES ASSUME Init, NEW r \in Requests PROVE TrailComplete(r)
      BY InitInv DEF CompleteInv
    <2>1. trail[r] = <<>> /\ late = {} /\ \A s \in Services : handler[<<r, s>>].at = "idle"
      BY DEF Init
    <2>2. /\ "idle" \notin Events
          /\ \A d \in Chain : "idle" \notin Written[d] /\ Owner[d] \in Services
      BY ChainIs, ServicesAre DEF Events, Written, Owner
    <2> QED
      BY <2>1, <2>2 DEF TrailComplete, Seen, At
  <1>2. CompleteInv => ProvedBy200
    <2> SUFFICES ASSUME CompleteInv, NEW r \in Requests, answer[r] = "200"
                 PROVE  Seen(r) \ {"key_verify_skipped"} = Chain
      BY DEF ProvedBy200
    <2>1. TrailComplete(r) /\ RequestInv(r) /\ TypeOK
      BY DEF CompleteInv, ChainInv
    <2>2. /\ At(r, "gateway") = "200"
          /\ At(r, "identity") = "PROVISIONED"
          /\ At(r, "topology") = "PROVISIONED"
          /\ At(r, "pce") = "PROVISIONED"
          /\ At(r, "kom") = "PROVISIONED"
          /\ At(r, "provisioning") = "PROVISIONED"
      <3>1. At(r, "gateway") = "200"
        BY DEF answer
      <3>2. At(r, "identity") = "PROVISIONED"
        BY <2>1, <3>1 DEF RequestInv, AnswersAgree
      <3>3. At(r, "topology") = "PROVISIONED" /\ At(r, "pce") = "PROVISIONED"
        BY <2>1, <3>2, ServicesAre DEF RequestInv, AnswersAgree, Down
      <3>4. At(r, "kom") = "PROVISIONED" /\ At(r, "provisioning") = "PROVISIONED"
        BY <2>1, <3>3, ServicesAre DEF RequestInv, AnswersAgree, Down
      <3> QED
        BY <3>1, <3>2, <3>3, <3>4
    <2>3. ASSUME NEW d \in Chain PROVE d \in Seen(r)
      <3>1. At(r, Owner[d]) \in Written[d]
        BY <2>2, ChainIs DEF Owner, Written
      <3> QED
        BY <2>1, <3>1 DEF TrailComplete
    <2>4. Seen(r) \subseteq Events
      BY <2>1 DEF Seen, TypeOK
    <2>5. \A d \in Events : At(r, Owner[d]) \notin {"REJECTED", "502"}
      BY <2>2 DEF Owner, Events
    <2>6. "key_verify_skipped" \notin Chain
      BY ChainIs
    <2> QED
      BY <2>1, <2>3, <2>4, <2>5, <2>6 DEF TrailComplete
  <1>3. Spec => []CompleteInv
    BY <1>1, NextComplete, AllWritten, PTL DEF Spec
  <1> QED
    BY <1>2, <1>3, RejectedIsNotProvisioned, PTL DEF TrailTellsAnswer

-----------------------------------------------------------------------------
(* Keys.                                                                    *)

\* Induction over the natural numbers, for a set instead of a predicate.
LEMMA SetInduction ==
    ASSUME NEW S \in SUBSET Nat, 0 \in S, \A n \in S : n + 1 \in S
    PROVE  S = Nat
<1> DEFINE R == OpToRel(<, Nat)
<1>1. IsWellFoundedOn(R, Nat)
  BY NatLessThanWellFounded
<1>2. \A x, y \in Nat : x < y <=> <<x, y>> \in R
  BY DEF OpToRel
<1> HIDE DEF R
<1>3. SUFFICES ASSUME S # Nat PROVE FALSE
  OBVIOUS
<1> DEFINE T == Nat \ S
<1>4. T # {} /\ T \subseteq Nat
  BY <1>3
<1> HIDE DEF T
<1>5. PICK x \in T : \A y \in T : ~ (<<y, x>> \in R)
  BY <1>1, <1>4, WFMin
<1>6. x \in Nat /\ x \notin S /\ x # 0
  BY <1>5 DEF T
<1>7. x - 1 \in Nat /\ x - 1 < x /\ (x - 1) + 1 = x
  BY <1>6
<1>8. x - 1 \in T
  BY <1>6, <1>7 DEF T
<1> QED  BY <1>2, <1>5, <1>6, <1>7, <1>8

\* The element that SumOf takes out of a set next.
Pick(S) == CHOOSE x \in S : TRUE

\* h adds f up over every subset of D that has at most n elements.
Adds(h, f, D, n) ==
    \A S \in SUBSET D : Cardinality(S) <= n =>
        h[S] = IF S = {} THEN 0 ELSE f[Pick(S)] + h[S \ {Pick(S)}]

LEMMA Smaller ==
    ASSUME NEW D, IsFiniteSet(D), NEW S \in SUBSET D, S # {}
    PROVE  /\ Pick(S) \in S
           /\ S \ {Pick(S)} \in SUBSET D
           /\ Cardinality(S) \in Nat \ {0}
           /\ Cardinality(S \ {Pick(S)}) = Cardinality(S) - 1
<1>1. Pick(S) \in S
  BY DEF Pick
<1>2. IsFiniteSet(S)
  BY FS_Subset
<1>3. Cardinality(S) \in Nat /\ Cardinality(S) # 0
  BY <1>2, FS_CardinalityType, FS_EmptySet
<1> QED  BY <1>1, <1>2, <1>3, FS_RemoveElement

LEMMA SumExists ==
    ASSUME NEW D, IsFiniteSet(D), NEW f \in [D -> Nat], NEW n \in Nat
    PROVE  \E h \in [SUBSET D -> Nat] : Adds(h, f, D, n)
<1> DEFINE T == {k \in Nat : \E h \in [SUBSET D -> Nat] : Adds(h, f, D, k)}
<1>1. 0 \in T
  <2> DEFINE h == [S \in SUBSET D |-> 0]
  <2>1. h \in [SUBSET D -> Nat]
    OBVIOUS
  <2>2. ASSUME NEW S \in SUBSET D, Cardinality(S) <= 0 PROVE S = {} /\ h[S] = 0
    <3>1. IsFiniteSet(S)
      BY FS_Subset
    <3>2. Cardinality(S) \in Nat
      BY <3>1, FS_CardinalityType
    <3>3. Cardinality(S) = 0
      BY <2>2, <3>2
    <3> QED  BY <3>1, <3>3, FS_EmptySet
  <2> HIDE DEF h
  <2>3. Adds(h, f, D, 0)
    BY <2>2 DEF Adds
  <2> QED  BY <2>1, <2>3
<1>2. ASSUME NEW k \in T PROVE k + 1 \in T
  <2>1. k \in Nat
    OBVIOUS
  <2>2. PICK g \in [SUBSET D -> Nat] : Adds(g, f, D, k)
    OBVIOUS
  <2> DEFINE h == [S \in SUBSET D |-> IF Cardinality(S) = k + 1
                                      THEN f[Pick(S)] + g[S \ {Pick(S)}] ELSE g[S]]
  <2>3. ASSUME NEW S \in SUBSET D PROVE h[S] \in Nat
    <3>1. CASE Cardinality(S) = k + 1
      <4>1. S # {}
        <5>1. IsFiniteSet(S) /\ Cardinality(S) # 0
          BY <2>1, <3>1, FS_Subset
        <5> QED  BY <5>1, FS_EmptySet
      <4>2. Pick(S) \in D /\ S \ {Pick(S)} \in SUBSET D
        BY <4>1, Smaller
      <4>3. f[Pick(S)] \in Nat /\ g[S \ {Pick(S)}] \in Nat
        BY <4>2
      <4> QED  BY <3>1, <4>3
    <3>2. CASE Cardinality(S) # k + 1
      BY <3>2
    <3> QED  BY <3>1, <3>2
  <2>4. h \in [SUBSET D -> Nat]
    BY <2>3
  <2>5. \A S \in SUBSET D : h[S] = IF Cardinality(S) = k + 1
                                   THEN f[Pick(S)] + g[S \ {Pick(S)}] ELSE g[S]
    OBVIOUS
  <2> HIDE DEF h
  <2>6. ASSUME NEW S \in SUBSET D, Cardinality(S) <= k + 1
        PROVE  h[S] = IF S = {} THEN 0 ELSE f[Pick(S)] + h[S \ {Pick(S)}]
    <3>1. CASE S = {}
      <4>1. Cardinality(S) = 0
        BY <3>1, FS_EmptySet
      <4>2. h[S] = g[S] /\ g[S] = 0
        BY <2>1, <2>2, <2>5, <3>1, <4>1 DEF Adds
      <4> QED  BY <3>1, <4>2
    <3>2. CASE S # {}
      <4>1. /\ S \ {Pick(S)} \in SUBSET D
            /\ Cardinality(S) \in Nat \ {0}
            /\ Cardinality(S \ {Pick(S)}) = Cardinality(S) - 1
        BY <3>2, Smaller
      <4>2. Cardinality(S \ {Pick(S)}) # k + 1
        BY <2>1, <2>6, <4>1
      <4>3. h[S \ {Pick(S)}] = g[S \ {Pick(S)}]
        BY <2>5, <4>1, <4>2
      <4>4. CASE Cardinality(S) = k + 1
        BY <2>5, <3>2, <4>3, <4>4
      <4>5. CASE Cardinality(S) # k + 1
        <5>1. Cardinality(S) <= k
          BY <2>1, <2>6, <4>1, <4>5
        <5> QED  BY <2>2, <2>5, <3>2, <4>3, <4>5, <5>1 DEF Adds
      <4> QED  BY <4>4, <4>5
    <3> QED  BY <3>1, <3>2
  <2>7. Adds(h, f, D, k + 1)
    BY <2>6 DEF Adds
  <2> QED  BY <2>1, <2>4, <2>7
<1>3. T = Nat
  <2>1. T \in SUBSET Nat
    OBVIOUS
  <2> HIDE DEF T
  <2> QED  BY <1>1, <1>2, <2>1, SetInduction
<1> QED  BY <1>3

\* What SumOf computes.
LEMMA SumIs ==
    ASSUME NEW D, IsFiniteSet(D), NEW f \in [D -> Nat]
    PROVE  \E h : SumOf(f) = h[D] /\ Adds(h, f, D, Cardinality(D))
<1> DEFINE Rec(h) == [S \in SUBSET D |->
                         IF S = {} THEN 0 ELSE f[Pick(S)] + h[S \ {Pick(S)}]]
           chosen == CHOOSE h : h = Rec(h)
<1>1. Cardinality(D) \in Nat
  BY FS_CardinalityType
<1>2. PICK h \in [SUBSET D -> Nat] : Adds(h, f, D, Cardinality(D))
  BY <1>1, SumExists
<1>3. \A S \in SUBSET D : Cardinality(S) <= Cardinality(D)
  BY FS_Subset
<1>4. h = Rec(h)
  <2>1. \A S \in SUBSET D : h[S] = Rec(h)[S]
    BY <1>2, <1>3 DEF Adds
  <2> QED  BY <2>1
<1>5. chosen = Rec(chosen)
  BY <1>4
<1>6. SumOf(f) = chosen[D]
  BY DEF SumOf, Pick
<1> HIDE DEF chosen
<1>7. \A S \in SUBSET D : chosen[S] = IF S = {} THEN 0
                                      ELSE f[Pick(S)] + chosen[S \ {Pick(S)}]
  <2>1. \A S \in SUBSET D : Rec(chosen)[S] = IF S = {} THEN 0
                                             ELSE f[Pick(S)] + chosen[S \ {Pick(S)}]
    OBVIOUS
  <2> QED  BY <1>5, <2>1
<1>8. Adds(chosen, f, D, Cardinality(D))
  BY <1>7 DEF Adds
<1> QED  BY <1>6, <1>8

\* When one term changes the sum changes as much.
LEMMA SumChanges ==
    ASSUME NEW D, IsFiniteSet(D), NEW f \in [D -> Nat], NEW g \in [D -> Nat], NEW x \in D,
           \A y \in D : y # x => g[y] = f[y]
    PROVE  SumOf(f) \in Nat /\ SumOf(g) \in Nat /\ SumOf(g) + f[x] = SumOf(f) + g[x]
<1>1. PICK a : SumOf(f) = a[D] /\ Adds(a, f, D, Cardinality(D))
  BY SumIs
<1>2. PICK b : SumOf(g) = b[D] /\ Adds(b, g, D, Cardinality(D))
  BY SumIs
<1>3. \A S \in SUBSET D : Cardinality(S) \in Nat /\ Cardinality(S) <= Cardinality(D)
  BY FS_Subset, FS_CardinalityType
<1> DEFINE Same(S) == /\ a[S] \in Nat /\ b[S] \in Nat
                      /\ IF x \in S THEN b[S] + f[x] = a[S] + g[x] ELSE b[S] = a[S]
           T == {n \in Nat : \A S \in SUBSET D : Cardinality(S) = n => Same(S)}
<1>4. 0 \in T
  <2>1. ASSUME NEW S \in SUBSET D, Cardinality(S) = 0 PROVE Same(S)
    <3>1. S = {}
      BY <2>1, FS_Subset, FS_EmptySet
    <3>2. a[S] = 0 /\ b[S] = 0
      BY <1>1, <1>2, <1>3, <3>1 DEF Adds
    <3> QED  BY <3>1, <3>2
  <2> QED  BY <2>1
<1>5. ASSUME NEW n \in T PROVE n + 1 \in T
  <2>1. n \in Nat /\ \A S \in SUBSET D : Cardinality(S) = n => Same(S)
    OBVIOUS
  <2>2. ASSUME NEW S \in SUBSET D, Cardinality(S) = n + 1 PROVE Same(S)
    <3>1. S # {}
      <4>1. IsFiniteSet(S) /\ Cardinality(S) # 0
        BY <2>1, <2>2, FS_Subset
      <4> QED  BY <4>1, FS_EmptySet
    <3> DEFINE y == Pick(S)
               R == S \ {y}
    <3>2. y \in S /\ y \in D /\ R \in SUBSET D /\ Cardinality(R) = n
      BY <2>1, <2>2, <3>1, Smaller
    <3>3. Same(R)
      <4> HIDE DEF Same, R, T
      <4> QED  BY <2>1, <3>2
    <3>4. a[S] = f[y] + a[R] /\ b[S] = g[y] + b[R]
      BY <1>1, <1>2, <1>3, <3>1 DEF Adds
    <3>5. f[y] \in Nat /\ g[y] \in Nat /\ f[x] \in Nat /\ g[x] \in Nat
      BY <3>2
    <3>6. x \in R <=> x \in S /\ x # y
      OBVIOUS
    <3>7. y # x => g[y] = f[y]
      BY <3>2
    <3> HIDE DEF R, y
    <3> QED  BY <3>2, <3>3, <3>4, <3>5, <3>6, <3>7
  <2>3. \A S \in SUBSET D : Cardinality(S) = n + 1 => Same(S)
    <3> HIDE DEF Same
    <3> QED  BY <2>2
  <2> HIDE DEF Same
  <2> QED  BY <2>1, <2>3
<1>6. T = Nat
  <2>1. T \in SUBSET Nat
    OBVIOUS
  <2> HIDE DEF T
  <2> QED  BY <1>4, <1>5, <2>1, SetInduction
<1>7. Same(D)
  <2>1. Cardinality(D) \in T
    BY <1>3, <1>6
  <2> HIDE DEF Same
  <2> QED  BY <2>1
<1> QED  BY <1>1, <1>2, <1>7

\* Nothing adds up to nothing.
LEMMA SumOfZeros ==
    ASSUME NEW D, IsFiniteSet(D), NEW f \in [D -> Nat], \A x \in D : f[x] = 0
    PROVE  SumOf(f) = 0
<1>1. PICK a : SumOf(f) = a[D] /\ Adds(a, f, D, Cardinality(D))
  BY SumIs
<1>2. \A S \in SUBSET D : Cardinality(S) \in Nat /\ Cardinality(S) <= Cardinality(D)
  BY FS_Subset, FS_CardinalityType
<1> DEFINE T == {n \in Nat : \A S \in SUBSET D : Cardinality(S) = n => a[S] = 0}
<1>3. 0 \in T
  <2>1. ASSUME NEW S \in SUBSET D, Cardinality(S) = 0 PROVE a[S] = 0
    <3>1. S = {}
      BY <2>1, FS_Subset, FS_EmptySet
    <3> QED  BY <1>1, <1>2, <3>1 DEF Adds
  <2> QED  BY <2>1
<1>4. ASSUME NEW n \in T PROVE n + 1 \in T
  <2>1. n \in Nat /\ \A S \in SUBSET D : Cardinality(S) = n => a[S] = 0
    OBVIOUS
  <2>2. ASSUME NEW S \in SUBSET D, Cardinality(S) = n + 1 PROVE a[S] = 0
    <3>1. S # {}
      <4>1. IsFiniteSet(S) /\ Cardinality(S) # 0
        BY <2>1, <2>2, FS_Subset
      <4> QED  BY <4>1, FS_EmptySet
    <3>2. /\ Pick(S) \in D /\ S \ {Pick(S)} \in SUBSET D
          /\ Cardinality(S \ {Pick(S)}) = n
      BY <2>1, <2>2, <3>1, Smaller
    <3>3. a[S] = f[Pick(S)] + a[S \ {Pick(S)}]
      BY <1>1, <1>2, <3>1 DEF Adds
    <3>4. a[S \ {Pick(S)}] = 0 /\ f[Pick(S)] = 0
      BY <2>1, <3>2
    <3> QED  BY <3>3, <3>4
  <2> QED  BY <2>1, <2>2
<1>5. T = Nat
  <2>1. T \in SUBSET Nat
    OBVIOUS
  <2> HIDE DEF T
  <2> QED  BY <1>3, <1>4, <2>1, SetInduction
<1>6. Cardinality(D) \in T
  BY <1>2, <1>5
<1> QED  BY <1>1, <1>6

-----------------------------------------------------------------------------
(* No key vanishes.                                                         *)

\* The path of a request is found before anything is drawn for it, and stays.
LEMMA RouteIsFixed ==
    ASSUME NEW r \in Requests, NEW s \in Services, TypeOK, RequestInv(r),
           Step(r, s) \/ Receive(r, s)
    PROVE  \/ UNCHANGED route
           \/ /\ UNCHANGED <<stored, drawn>>
              /\ drawn[r] = 0
              /\ \A q \in Requests : q # r => route'[q] = route[q]
<1>1. CASE Receive(r, s) /\ s = "pce" /\ ReceivePce(r)
  <2>1. At(r, "pce") = "idle"
    BY <1>1 DEF Receive
  <2>2. At(r, "kom") = "idle"
    BY <2>1, ServicesAre DEF RequestInv, CalledOnce, BeforeCall, Down
  <2>3. drawn[r] = 0
    BY <2>2 DEF RequestInv, DrawnOnce
  <2> QED  BY <1>1, <2>3 DEF Receive, ReceivePce, TypeOK
<1>2. CASE Receive(r, s) /\ UNCHANGED route
  BY <1>2
<1>3. CASE Audit(r, s) \/ Snapshot(r) \/ QueryRelay(r) \/ EncKeys(r) \/ DecKeys(r)
  BY <1>3 DEF Audit, Snapshot, QueryRelay, EncKeys, DecKeys
<1>4. CASE Connect(r, s) \/ Return(r, s) \/ Fail(r, s)
  BY <1>4 DEF Connect, Return, Fail
<1>5. Receive(r, s) => \/ s = "pce" /\ ReceivePce(r)
                       \/ UNCHANGED route
  BY DEF Receive, ReceiveKom
<1> QED  BY <1>1, <1>2, <1>3, <1>4, <1>5 DEF Step

LEMMA DrawnFromType ==
    ASSUME TypeOK, NEW k
    PROVE  DrawnFrom(k) \in [Requests -> Nat]
BY DEF TypeOK, DrawnFrom

\* Who reads neither the stores nor what was drawn keeps the account.
LEMMA AccountStays ==
    ASSUME TypeOK, KeysConserved, UNCHANGED <<stored, drawn>>,
           \A q \in Requests : drawn[q] # 0 => route'[q] = route[q]
    PROVE  KeysConserved'
<1>1. ASSUME NEW k \in Kms PROVE DrawnFrom(k)' = DrawnFrom(k)
  BY DEF DrawnFrom
<1> QED  BY <1>1 DEF KeysConserved

\* A draw takes from the store what it adds to the request.
LEMMA DrawKeepsAccount ==
    ASSUME TypeOK, KeysConserved, NEW r \in Requests, RouteKnown(r), MayDraw(r),
           Covered(r), Draw(r), UNCHANGED route
    PROVE  KeysConserved'
<1>1. SourceKms(r) \in Kms
  BY SourceIsKms
<1>2. NumKeys[r] \in Nat /\ NumKeys[r] <= stored[SourceKms(r)] /\ stored \in [Kms -> Nat]
  BY <1>1 DEF Covered, TypeOK
<1>3. drawn \in [Requests -> Nat] /\ drawn' = [drawn EXCEPT ![r] = drawn[r] + NumKeys[r]]
  BY DEF Draw, TypeOK
<1>4. route[r] # <<>>
  BY DEF RouteKnown
<1>5. ASSUME NEW k \in Kms PROVE InitStored[k] = stored'[k] + SumOf(DrawnFrom(k))'
  <2>1. InitStored[k] = stored[k] + SumOf(DrawnFrom(k)) /\ InitStored[k] \in Nat
    BY ChainAssumption DEF KeysConserved
  <2>2. CASE k # SourceKms(r)
    <3>1. stored'[k] = stored[k]
      BY <2>2 DEF Draw, TypeOK
    <3>2. ASSUME NEW q \in Requests PROVE DrawnFrom(k)'[q] = DrawnFrom(k)[q]
      BY <1>3, <2>2 DEF DrawnFrom, SourceKms
    <3>3. DrawnFrom(k)' = DrawnFrom(k)
      BY <3>2 DEF DrawnFrom
    <3> QED  BY <2>1, <3>1, <3>3
  <2>3. CASE k = SourceKms(r)
    <3>1. stored'[k] = stored[k] - NumKeys[r]
      BY <1>1, <1>2, <2>3 DEF Draw
    <3>2. DrawnFrom(k) \in [Requests -> Nat]
      BY DrawnFromType
    <3>3. DrawnFrom(k)' \in [Requests -> Nat]
      BY <1>2, <1>3 DEF DrawnFrom
    <3>4. \A q \in Requests : q # r => DrawnFrom(k)'[q] = DrawnFrom(k)[q]
      BY <1>3 DEF DrawnFrom
    <3>5. DrawnFrom(k)[r] = drawn[r] /\ DrawnFrom(k)'[r] = drawn[r] + NumKeys[r]
      BY <1>3, <1>4, <2>3 DEF DrawnFrom, SourceKms
    <3> DEFINE f == DrawnFrom(k)
    <3>6. PICK g : g = DrawnFrom(k)'
      OBVIOUS
    <3>7. SumOf(g) = SumOf(DrawnFrom(k))'
      BY <3>6
    <3> HIDE DEF f
    <3>8. IsFiniteSet(Requests) /\ f \in [Requests -> Nat] /\ g \in [Requests -> Nat]
      BY <3>2, <3>3, <3>6, ChainAssumption DEF f
    <3>9. \A y \in Requests : y # r => g[y] = f[y]
      BY <3>4, <3>6 DEF f
    <3>10. SumOf(f) \in Nat /\ SumOf(g) \in Nat /\ SumOf(g) + f[r] = SumOf(f) + g[r]
      BY <3>8, <3>9, SumChanges
    <3>11. f[r] = drawn[r] /\ g[r] = drawn[r] + NumKeys[r] /\ drawn[r] \in Nat
      BY <1>3, <3>5, <3>6 DEF f
    <3>12. InitStored[k] = stored[k] + SumOf(f) /\ stored[k] \in Nat
      BY <1>2, <2>1 DEF f
    <3>13. InitStored[k] = stored'[k] + SumOf(g)
      BY <1>2, <3>1, <3>10, <3>11, <3>12
    <3> QED  BY <3>7, <3>13
  <2> QED  BY <2>2, <2>3
<1> QED  BY <1>5 DEF KeysConserved

LEMMA NextAccount ==
    ChainInv /\ KeysConserved /\ [Next]_vars => KeysConserved'
<1> SUFFICES ASSUME ChainInv, KeysConserved, [Next]_vars PROVE KeysConserved'
  OBVIOUS
<1>1. TypeOK /\ \A r \in Requests : RequestInv(r)
  BY DEF ChainInv
<1>2. ASSUME NEW r \in Requests, NEW s \in Services, Step(r, s) \/ Receive(r, s)
      PROVE  KeysConserved'
  <2>1. CASE UNCHANGED <<stored, drawn>>
    BY <1>1, <1>2, <2>1, RouteIsFixed, AccountStays
  <2>2. CASE s = "kom" /\ EncKeys(r) /\ Covered(r) /\ Draw(r)
    <3>1. RouteKnown(r) /\ MayDraw(r) /\ UNCHANGED route
      BY <1>1, <2>2 DEF RequestInv, EncKeys, Ready, MayDraw
    <3> QED  BY <1>1, <2>2, <3>1, DrawKeepsAccount
  <2> QED  BY <1>2, <2>1, <2>2, OnlyEncKeysDraws
<1>3. ASSUME NEW r \in Requests, NEW p \in Events \cup {"enc_keys"}, Arrive(r, p)
      PROVE  KeysConserved'
  <2>1. CASE UNCHANGED <<stored, drawn>>
    BY <1>1, <1>3, <2>1, AccountStays DEF Arrive
  <2>2. CASE p = "enc_keys" /\ Covered(r) /\ Draw(r)
    <3>1. RouteKnown(r) /\ MayDraw(r) /\ UNCHANGED route
      BY <1>1, <1>3, <2>2 DEF RequestInv, Arrive, MayDraw
    <3> QED  BY <1>1, <2>2, <3>1, DrawKeepsAccount
  <2> QED  BY <1>3, <2>1, <2>2 DEF Arrive
<1>4. CASE UNCHANGED <<route, stored, drawn>>
  BY <1>1, <1>4, AccountStays
<1>5. ASSUME NEW r \in Requests, Submit(r) PROVE KeysConserved'
  BY <1>2, <1>5, ServicesAre DEF Submit
<1>6. ASSUME NEW s \in Services, Crash(s) \/ Restart(s) PROVE KeysConserved'
  BY <1>4, <1>6 DEF Crash, Restart
<1> QED  BY <1>2, <1>3, <1>4, <1>5, <1>6 DEF Next, Environment, Tick, vars

(***************************************************************************)
(* No key vanishes: what every KMS lost is what the requests whose path    *)
(* starts there cost, with orphaned handlers, draws that arrive after      *)
(* their caller gave up, and crashes.                                      *)
(***************************************************************************)
THEOREM NoKeyVanishes == Spec => []KeysConserved
<1>1. Init => KeysConserved
  <2> SUFFICES ASSUME Init, NEW k \in Kms
               PROVE  InitStored[k] = stored[k] + SumOf(DrawnFrom(k))
    BY DEF KeysConserved
  <2>1. TypeOK
    BY InitInv DEF ChainInv
  <2>2. stored[k] = InitStored[k] /\ InitStored[k] \in Nat
    BY ChainAssumption DEF Init
  <2>3. \A r \in Requests : DrawnFrom(k)[r] = 0
    BY DEF Init, DrawnFrom
  <2>4. SumOf(DrawnFrom(k)) = 0
    <3> DEFINE f == DrawnFrom(k)
    <3>1. f \in [Requests -> Nat] /\ (\A r \in Requests : f[r] = 0) /\ IsFiniteSet(Requests)
      BY <2>1, <2>3, DrawnFromType, ChainAssumption
    <3> HIDE DEF f
    <3>2. SumOf(f) = 0
      BY <3>1, SumOfZeros
    <3> QED  BY <3>2 DEF f
  <2> QED  BY <2>2, <2>4
<1> QED  BY <1>1, InitInv, NextKeeps, NextAccount, PTL DEF Spec

-----------------------------------------------------------------------------
(* Enough time.                                                             *)

NoCrashes == MaxCrashes = 0

\* How long an audit write, the reading of the topology, a call to a KMS and a
\* connection to the next service may take, and how many nodes a path may have.
Budgets == [audit : Nat, source : Nat, kms : Nat, connect : Nat, path : Nat \ {0, 1}]

Within(results, most) == \A x \in results : x.delay <= most

\* n calls to a KMS, one after the other.
Calls(b, n) == n * b.kms

\* b bounds every await; seven audit writes, four connections, the topology and
\* a KMS call per node of the path take less than the one timeout of the gateway;
\* every connection succeeds, and the source raises nothing that is not caught.
Enough(b) ==
    /\ Within(AuditResults, b.audit)
    /\ Within(SourceResults, b.source)
    /\ Within(KmsResults, b.kms)
    /\ Within(ConnectResults, b.connect)
    /\ \A p \in Routes : Len(p) <= b.path
    /\ Calls(b, b.path) + 7 * b.audit + 4 * b.connect + b.source < HttpTimeout
    /\ \A a \in ConnectResults : a.result = "ok"
    /\ \A a \in SourceResults : a.result # "raised"

EnoughTime == \E b \in Budgets : Enough(b)

\* What a service takes from the call to its answer, those below included.
Full(b) ==
    [identity     |-> Calls(b, b.path) + 7 * b.audit + 4 * b.connect + b.source,
     topology     |-> Calls(b, b.path) + 5 * b.audit + 3 * b.connect + b.source,
     pce          |-> Calls(b, b.path) + 4 * b.audit + 2 * b.connect,
     kom          |-> Calls(b, b.path) + 3 * b.audit + b.connect,
     provisioning |-> b.audit]

\* What it will still take when the await at p has ended.
Rest(b, s, queried, p) ==
    CASE p = "auth_validated"     -> Full(b).topology + b.audit + b.connect
      [] p = "endpoints_resolved" -> Full(b).topology + b.connect
      [] p = "snapshot"           -> Full(b).pce + b.audit + b.connect
      [] p = "topology_attached"  -> Full(b).pce + b.connect
      [] p = "path_computed"      -> Full(b).kom + b.connect
      [] p = "status"             -> Calls(b, b.path - (queried + 1)) + 3 * b.audit + b.connect
      [] p = "enc_keys"           -> b.kms + 3 * b.audit + b.connect
      [] p = "dec_keys"           -> 3 * b.audit + b.connect
      [] p = "key_verify_skipped" -> 2 * b.audit + b.connect
      [] p = "keys_retrieved"     -> b.audit + b.connect
      [] p = "connect"            -> Full(b)[Down[s]]
      [] OTHER                    -> 0

\* What service s will still take, when it is not waiting for its callee.
Left(b, r, s) ==
    IF At(r, s) = "idle" THEN Full(b)[s]
    ELSE handler[<<r, s>>].timer + Rest(b, s, hop[r], At(r, s))

Waits(r, s) == At(r, s) = "forward"

\* Service s has been called for r and does not wait for another.
Working(r, s) ==
    /\ \A c \in Callers : Down[c] = s => Waits(r, c)
    /\ At(r, s) \notin {"forward"} \cup Ended

Depth == [gateway |-> 1, identity |-> 2, topology |-> 3, pce |-> 4, kom |-> 5,
          provisioning |-> 6]

Broken == {"500", "502", "gone", "downstream_error"}

(***************************************************************************)
(* The inductive invariant: whoever waits for an answer can wait for       *)
(* longer than the services below it will take, so that no call fails.     *)
(***************************************************************************)
CanWait(b, r) ==
    \A c \in Callers : Waits(r, c) =>
        /\ handler[<<r, c>>].timer > 0
        /\ \A s \in Services : Depth[c] < Depth[s] /\ Working(r, s)
              => handler[<<r, c>>].timer > Left(b, r, s)

NoneBroken(r) == \A s \in Services : At(r, s) \notin Broken

\* Nobody waits for a connection that will fail, or for an error of the source.
NothingFails(r) == \A s \in Services :
    /\ At(r, s) = "connect" => handler[<<r, s>>].result = "ok"
    /\ At(r, s) = "snapshot" => handler[<<r, s>>].result # "raised"

RelaysLeft(r) ==
    /\ At(r, "kom") = "idle" => hop[r] = 0
    /\ At(r, "kom") = "status" => hop[r] < Len(route[r]) - 2

OnTime(b, r) == CanWait(b, r) /\ NoneBroken(r) /\ NothingFails(r) /\ RelaysLeft(r)

BudgetInv(b) == ChainInv /\ up = Services /\ \A r \in Requests : OnTime(b, r)

LEMMA CallsAre ==
    ASSUME NEW b \in Budgets, NEW n \in Nat
    PROVE  /\ Calls(b, n) \in Nat
           /\ Calls(b, n + 1) = Calls(b, n) + b.kms
<1> DEFINE k == b.kms
<1>1. k \in Nat
  BY DEF Budgets
<1> HIDE DEF k
<1>2. n * k \in Nat /\ (n + 1) * k = n * k + k
  BY <1>1
<1> QED  BY <1>2 DEF Calls, k

\* Querying a relay is one call less; the last two are enc_keys and dec_keys.
LEMMA CallsLeft ==
    ASSUME NEW b \in Budgets, NEW n \in Nat
    PROVE  /\ n >= 1 => Calls(b, n - 1) \in Nat /\ Calls(b, n) = Calls(b, n - 1) + b.kms
           /\ n >= 2 => Calls(b, n) >= b.kms + b.kms
<1>1. b.kms \in Nat
  BY DEF Budgets
<1>2. ASSUME n >= 1
      PROVE  n - 1 \in Nat /\ Calls(b, n - 1) \in Nat /\ Calls(b, n) = Calls(b, n - 1) + b.kms
  <2>1. n - 1 \in Nat /\ (n - 1) + 1 = n
    BY <1>2
  <2> QED  BY <2>1, CallsAre
<1>3. ASSUME n >= 2 PROVE Calls(b, n) >= b.kms + b.kms
  <2>1. n - 2 \in Nat /\ (n - 2) + 1 = n - 1
    BY <1>3
  <2>2. Calls(b, n - 2) \in Nat /\ Calls(b, n - 1) = Calls(b, n - 2) + b.kms
    BY <2>1, CallsAre
  <2> QED  BY <1>1, <1>2, <1>3, <2>2
<1> QED  BY <1>2, <1>3

LEMMA RestIs ==
    ASSUME NEW b, NEW s, NEW h
    PROVE  /\ Rest(b, s, h, "auth_validated") = Full(b).topology + b.audit + b.connect
           /\ Rest(b, s, h, "endpoints_resolved") = Full(b).topology + b.connect
           /\ Rest(b, s, h, "snapshot") = Full(b).pce + b.audit + b.connect
           /\ Rest(b, s, h, "topology_attached") = Full(b).pce + b.connect
           /\ Rest(b, s, h, "path_computed") = Full(b).kom + b.connect
           /\ Rest(b, s, h, "status")
                 = Calls(b, b.path - (h + 1)) + 3 * b.audit + b.connect
           /\ Rest(b, s, h, "enc_keys") = b.kms + 3 * b.audit + b.connect
           /\ Rest(b, s, h, "dec_keys") = 3 * b.audit + b.connect
           /\ Rest(b, s, h, "key_verify_skipped") = 2 * b.audit + b.connect
           /\ Rest(b, s, h, "keys_retrieved") = b.audit + b.connect
           /\ Rest(b, s, h, "connect") = Full(b)[Down[s]]
           /\ \A p \in {"request_received", "response_returned", "downstream_error",
                        "resolution_failed", "topology_source_error", "topology_empty",
                        "path_not_found", "kms_error", "service_provisioned"} :
                 Rest(b, s, h, p) = 0
BY DEF Rest

LEMMA FullIs ==
    ASSUME NEW b
    PROVE  /\ Full(b)["identity"] = Calls(b, b.path) + 7 * b.audit + 4 * b.connect + b.source
           /\ Full(b)["topology"] = Calls(b, b.path) + 5 * b.audit + 3 * b.connect + b.source
           /\ Full(b)["pce"] = Calls(b, b.path) + 4 * b.audit + 2 * b.connect
           /\ Full(b)["kom"] = Calls(b, b.path) + 3 * b.audit + b.connect
           /\ Full(b)["provisioning"] = b.audit
BY DEF Full

\* No service takes longer than its caller waits for it.
LEMMA FullIsShort ==
    ASSUME NEW b \in Budgets, Enough(b), NEW s \in Services \ {"gateway"}
    PROVE  Full(b)[s] \in Nat /\ Full(b)[s] < HttpTimeout
<1>1. b.audit \in Nat /\ b.source \in Nat /\ b.connect \in Nat /\ b.path \in Nat
  BY DEF Budgets
<1>2. Calls(b, b.path) \in Nat
  BY <1>1, CallsAre
<1>3. Calls(b, b.path) + 7 * b.audit + 4 * b.connect + b.source < HttpTimeout /\ HttpTimeout \in Nat
  BY ChainAssumption DEF Enough
<1> QED  BY <1>1, <1>2, <1>3, FullIs, ServicesAre

\* How long the await takes that a handler has entered.
LEMMA EnterTakes ==
    ASSUME NEW b, Enough(b), handler \in [Requests \X Services -> Handlers],
           NEW r \in Requests, NEW s \in Services, NEW p \in Places, Enter(r, s, p)
    PROVE  /\ handler'[<<r, s>>].timer \in Nat
           /\ p \in Events => handler'[<<r, s>>].timer <= b.audit
           /\ p = "snapshot" => handler'[<<r, s>>].timer <= b.source
           /\ p \in KmsCalls => handler'[<<r, s>>].timer <= b.kms
           /\ p = "connect" => /\ handler'[<<r, s>>].timer <= b.connect
                               /\ handler'[<<r, s>>].result = "ok"
           /\ p = "snapshot" => handler'[<<r, s>>].result # "raised"
<1>1. PICK a \in Awaits(p) :
        handler' = [handler EXCEPT ![<<r, s>>] =
                      [at |-> p, timer |-> a.delay, result |-> a.result]]
  BY DEF Enter
<1>2. handler'[<<r, s>>].timer = a.delay /\ handler'[<<r, s>>].result = a.result
  BY <1>1
<1>3. a.delay \in Nat
  BY AwaitIsBounded, ChainAssumption DEF Delays
<1>4. p \in Events => a \in AuditResults
  BY AwaitIsBounded
<1>5. p = "snapshot" => a \in SourceResults
  BY DEF Awaits, Events, KmsCalls
<1>6. p \in KmsCalls => a \in KmsResults
  BY DEF Awaits, Events, KmsCalls
<1>7. p = "connect" => a \in ConnectResults
  BY AwaitIsBounded
<1> QED  BY <1>2, <1>3, <1>4, <1>5, <1>6, <1>7 DEF Enough, Within

\* While whoever waits can wait, and nobody stops, no call fails.
LEMMA NoCallFails ==
    ASSUME NEW b, NEW r \in Requests, NEW s \in Callers, RequestInv(r),
           OnTime(b, r), up = Services
    PROVE  ~Fail(r, s)
<1> SUFFICES ASSUME Waits(r, s), CallFailed(r, s) PROVE FALSE
  BY DEF Fail, Waits
<1>1. Down[s] \in Services
  BY ServicesAre DEF Down
<1>2. At(r, Down[s]) \notin {"500", "gone"}
  BY <1>1 DEF OnTime, NoneBroken, Broken
<1>3. handler[<<r, s>>].timer > 0
  BY DEF OnTime, CanWait
<1> QED  BY <1>1, <1>2, <1>3 DEF CallFailed

\* How many relays have been queried.
LEMMA StepHops ==
    ASSUME TypeOK, NEW r \in Requests, NEW s \in Services, RequestInv(r),
           Step(r, s) \/ Receive(r, s)
    PROVE  /\ \A q \in Requests : q # r => hop'[q] = hop[q] /\ route'[q] = route[q]
           /\ s = "kom" /\ At(r, s) = "status" /\ handler'[<<r, s>>].at # "kms_error"
                 => /\ hop'[r] = hop[r] + 1
                    /\ handler'[<<r, s>>].at = KmsCall(r, hop[r] + 1)
           /\ ~(s = "kom" /\ At(r, s) = "status") => hop'[r] = hop[r]
           /\ s = "kom" /\ At(r, s) = "idle" /\ handler'[<<r, s>>].at # "REJECTED"
                 => handler'[<<r, s>>].at = KmsCall(r, 0)
           /\ ~(s = "pce" /\ At(r, s) = "idle") => route'[r] = route[r]
<1> DEFINE Goal ==
    /\ \A q \in Requests : q # r => hop'[q] = hop[q] /\ route'[q] = route[q]
    /\ s = "kom" /\ At(r, s) = "status" /\ handler'[<<r, s>>].at # "kms_error"
          => /\ hop'[r] = hop[r] + 1
             /\ handler'[<<r, s>>].at = KmsCall(r, hop[r] + 1)
    /\ ~(s = "kom" /\ At(r, s) = "status") => hop'[r] = hop[r]
    /\ s = "kom" /\ At(r, s) = "idle" /\ handler'[<<r, s>>].at # "REJECTED"
          => handler'[<<r, s>>].at = KmsCall(r, 0)
    /\ ~(s = "pce" /\ At(r, s) = "idle") => route'[r] = route[r]
<1> SUFFICES Goal
  OBVIOUS
<1>1. handler \in [Requests \X Services -> Handlers]
  BY DEF TypeOK, Handlers, Places, Delays
<1>2. ASSUME NEW p \in Places, Enter(r, s, p) PROVE handler'[<<r, s>>].at = p
  BY <1>1, <1>2, EnterEffect
<1>3. hop \in [Requests -> Nat] /\ route \in [Requests -> Routes \cup {<<>>}]
  BY DEF TypeOK
<1>4. ASSUME NEW n PROVE KmsCall(r, n) \in Places
  BY DEF KmsCall, Places, KmsCalls
<1>5. {"kms_error", "REJECTED"} \subseteq Places
  BY DEF Places, Events, Ended, Replies
<1>6. CASE Receive(r, s)
  <2>1. At(r, s) = "idle" /\ hop' = hop
    BY <1>6 DEF Receive
  <2>2. CASE s = "kom"
    <3>1. ReceiveKom(r)
      BY <1>6, <2>2 DEF Receive, First
    <3> QED  BY <1>2, <1>4, <1>5, <2>1, <2>2, <3>1 DEF ReceiveKom
  <2>3. CASE s = "pce"
    <3>1. ReceivePce(r)
      BY <1>6, <2>3 DEF Receive, First
    <3> QED  BY <1>3, <2>1, <2>3, <3>1 DEF ReceivePce
  <2>4. CASE s \notin {"kom", "pce"}
    BY <1>6, <2>1, <2>4 DEF Receive
  <2> QED  BY <2>2, <2>3, <2>4
<1>7. CASE s = "kom" /\ QueryRelay(r)
  <2>1. At(r, s) = "status" /\ route' = route
    BY <1>7 DEF QueryRelay, Ready
  <2>2. CASE hop' = [hop EXCEPT ![r] = @ + 1] /\ Enter(r, "kom", KmsCall(r, hop[r] + 1))
    BY <1>2, <1>3, <1>4, <1>7, <2>1, <2>2
  <2>3. CASE Enter(r, "kom", "kms_error") /\ UNCHANGED hop
    BY <1>2, <1>5, <1>7, <2>1, <2>3
  <2> QED  BY <1>7, <2>2, <2>3 DEF QueryRelay
<1>8. CASE UNCHANGED <<hop, route>> /\ At(r, s) \notin {"status", "idle"}
  BY <1>8
<1>9. CASE Audit(r, s)
  BY <1>8, <1>9 DEF Audit, Ready, Events
<1>10. CASE (s = "topology" /\ Snapshot(r)) \/ (s = "kom" /\ (EncKeys(r) \/ DecKeys(r)))
  BY <1>8, <1>10 DEF Snapshot, EncKeys, DecKeys, Ready
<1>11. CASE s \in Callers /\ (Connect(r, s) \/ Return(r, s) \/ Fail(r, s))
  BY <1>8, <1>11 DEF Connect, Return, Fail, Ready
<1> HIDE DEF Goal
<1> QED  BY <1>6, <1>7, <1>9, <1>10, <1>11 DEF Step

\* Where the step of a handler leads while no call fails, and when it is taken.
LEMMA StepIs ==
    ASSUME NEW b, ChainInv, NEW r \in Requests, NEW s \in Services, Enough(b),
           OnTime(b, r), up = Services, Step(r, s) \/ Receive(r, s)
    PROVE  \E p \in PlacesOf[s] \ Broken :
              /\ Enter(r, s, p)
              /\ <<At(r, s), p>> \in MovesOf[s]
              /\ At(r, s) = "forward" => p \in {"PROVISIONED", "REJECTED", "response_returned"}
              /\ At(r, s) \notin {"idle", "forward"} => handler[<<r, s>>].timer = 0
<1>0. TypeOK /\ RequestInv(r) /\ handler \in [Requests \X Services -> Handlers]
  BY DEF ChainInv, TypeOK, Handlers, Places, Delays
<1>1. PICK p \in PlacesOf[s] : Enter(r, s, p) /\ <<At(r, s), p>> \in MovesOf[s]
  BY <1>0, StepMoves
<1>2. p \in Places /\ handler'[<<r, s>>].at = p
  BY <1>0, <1>1, PlacesOfService, EnterEffect
<1>3. At(r, s) \notin Broken
  BY DEF OnTime, NoneBroken
<1>4. ASSUME At(r, s) = "forward"
      PROVE  p \in {"PROVISIONED", "REJECTED", "response_returned"}
  <2>1. s \in Callers /\ Return(r, s)
    <3>1. ~Receive(r, s) /\ ~Audit(r, s) /\ ~Connect(r, s)
      BY <1>4 DEF Receive, Audit, Connect, Ready, Events
    <3>2. s = "topology" => ~Snapshot(r)
      BY <1>4 DEF Snapshot, Ready
    <3>3. s = "kom" => ~QueryRelay(r) /\ ~EncKeys(r) /\ ~DecKeys(r)
      BY <1>4 DEF QueryRelay, EncKeys, DecKeys, Ready
    <3>4. s \in Callers => ~Fail(r, s)
      BY <1>0, NoCallFails
    <3> QED  BY <3>1, <3>2, <3>3, <3>4 DEF Step
  <2> DEFINE q == IF s = "gateway" THEN "response_returned" ELSE At(r, Down[s])
  <2>2. q \in {"PROVISIONED", "REJECTED", "response_returned"} /\ Enter(r, s, q)
    BY <2>1 DEF Return
  <2>3. q \in Places
    BY <2>2 DEF Places, Events, Ended, Replies
  <2> HIDE DEF q
  <2>4. handler'[<<r, s>>].at = q
    BY <1>0, <2>2, <2>3, EnterEffect
  <2> QED  BY <1>2, <2>2, <2>4
<1>5. At(r, s) \notin {"idle", "forward"} => handler[<<r, s>>].timer = 0
  BY DEF Step, Receive, Audit, Snapshot, QueryRelay, EncKeys, DecKeys, Connect, Return,
         Fail, Ready
<1>6. p \notin Broken
  <2>1. CASE At(r, s) = "forward"
    BY <1>4, <2>1 DEF Broken
  <2>2. CASE At(r, s) = "connect"
    <3>1. Connect(r, s)
      BY <2>2 DEF Step, Receive, Audit, Snapshot, QueryRelay, EncKeys, DecKeys, Return,
                  Fail, Ready, Events
    <3>2. Enter(r, s, "forward") /\ "forward" \in Places
      BY <2>2, <3>1 DEF Connect, OnTime, NothingFails, Places
    <3>3. handler'[<<r, s>>].at = "forward"
      BY <1>0, <3>2, EnterEffect
    <3> QED  BY <1>2, <3>3 DEF Broken
  <2>3. CASE At(r, s) = "snapshot"
    <3>1. s = "topology" /\ Snapshot(r)
      BY <2>3 DEF Step, Receive, Audit, QueryRelay, EncKeys, DecKeys, Connect, Return,
                  Fail, Ready, Events
    <3>2. handler[<<r, "topology">>].result \in {"ok", "failed", "empty"}
      BY <1>0, <2>3, <3>1 DEF OnTime, NothingFails, RequestInv, SourceRead
    <3>3. \E q \in {"topology_attached", "topology_source_error", "topology_empty"} :
             q \in Places /\ Enter(r, s, q)
      BY <3>1, <3>2 DEF Snapshot, Places, Events
    <3>4. handler'[<<r, s>>].at \in
             {"topology_attached", "topology_source_error", "topology_empty"}
      BY <1>0, <3>3, EnterEffect
    <3> QED  BY <1>2, <3>4 DEF Broken
  <2>4. CASE At(r, s) \notin {"forward", "connect", "snapshot"}
    BY <1>1, <1>3, <2>4, ServicesAre DEF MovesOf, Broken
  <2> QED  BY <2>1, <2>2, <2>3, <2>4
<1> QED  BY <1>1, <1>4, <1>5, <1>6

\* A relay is queried only while two calls are left after it.
LEMMA QueriesFit ==
    ASSUME NEW b \in Budgets, Enough(b), TypeOK, NEW r \in Requests, RelaysLeft(r),
           At(r, "kom") = "status"
    PROVE  hop[r] \in Nat /\ b.path - (hop[r] + 1) \in Nat /\ b.path - (hop[r] + 1) >= 2
<1>1. hop[r] \in Nat /\ hop[r] < Len(route[r]) - 2 /\ b.path \in Nat
  BY DEF TypeOK, RelaysLeft, Budgets
<1>2. CASE route[r] = <<>>
  BY <1>1, <1>2
<1>3. CASE route[r] \in Routes
  <2>1. Len(route[r]) \in Nat /\ Len(route[r]) <= b.path
    BY <1>3, ChainAssumption DEF Enough
  <2>2. \A h, n, m \in Nat : h < n - 2 /\ n <= m => m - (h + 1) >= 2 /\ m - (h + 1) \in Nat
    OBVIOUS
  <2> QED  BY <1>1, <2>1, <2>2
<1> QED  BY <1>2, <1>3 DEF TypeOK

\* What a service will still take is a number of seconds.
LEMMA LeftType ==
    ASSUME NEW b \in Budgets, Enough(b), TypeOK, NEW r \in Requests, RequestInv(r),
           RelaysLeft(r), NEW s \in Services \ {"gateway"},
           At(r, s) \notin {"forward"} \cup Ended
    PROVE  /\ Left(b, r, s) \in Nat
           /\ At(r, s) # "idle" =>
                 /\ handler[<<r, s>>].timer \in Nat /\ Rest(b, s, hop[r], At(r, s)) \in Nat
                 /\ Left(b, r, s) = handler[<<r, s>>].timer + Rest(b, s, hop[r], At(r, s))
<1>1. /\ b.audit \in Nat /\ b.source \in Nat /\ b.kms \in Nat /\ b.path \in Nat
      /\ b.connect \in Nat
  BY DEF Budgets
<1>2. \A t \in Services \ {"gateway"} : Full(b)[t] \in Nat
  BY FullIsShort
<1>3. handler[<<r, s>>].timer \in Nat
  BY ChainAssumption DEF TypeOK
<1>4. ASSUME At(r, s) # "idle" PROVE Rest(b, s, hop[r], At(r, s)) \in Nat
  <2>1. At(r, s) \in PlacesOf[s]
    BY DEF RequestInv, InPlace
  <2>2. At(r, s) \in {"auth_validated", "endpoints_resolved", "snapshot",
            "topology_attached", "path_computed", "enc_keys", "dec_keys",
            "key_verify_skipped", "keys_retrieved", "resolution_failed",
            "topology_source_error", "topology_empty", "path_not_found", "kms_error",
            "service_provisioned", "status", "connect"}
    BY <1>4, <2>1, ServicesAre DEF PlacesOf, Ended, Answers, Replies
  <2>3. CASE At(r, s) = "status"
    <3>1. s = "kom"
      BY <2>1, <2>3, ServicesAre DEF PlacesOf
    <3>2. Calls(b, b.path - (hop[r] + 1)) \in Nat
      BY <2>3, <3>1, QueriesFit, CallsAre
    <3> QED  BY <1>1, <2>3, <3>2, RestIs
  <2>4. Full(b).topology \in Nat /\ Full(b).pce \in Nat /\ Full(b).kom \in Nat
    BY <1>2, ServicesAre
  <2>5. CASE At(r, s) = "connect"
    <3>1. s \in Callers /\ Down[s] \in Services \ {"gateway"}
      BY <2>1, <2>5, ServicesAre DEF PlacesOf, Down
    <3> QED  BY <1>2, <2>5, <3>1, RestIs
  <2> QED  BY <1>1, <2>2, <2>3, <2>4, <2>5, RestIs
<1> QED  BY <1>2, <1>3, <1>4 DEF Left

\* The rules of the budget, one service at a time: t is what the next await
\* takes, and n the number of relays queried.
WithinBudget(b, s, n, n1, p, q, t) ==
    LET before == IF p = "idle" THEN Full(b)[s] ELSE Rest(b, s, n, p) IN
    /\ q \notin {"forward"} \cup Ended
          => Rest(b, s, n1, q) \in Nat /\ t + Rest(b, s, n1, q) <= before
    /\ q = "forward" => Full(b)[Down[s]] <= before

LEMMA MovesFit ==
    ASSUME NEW b \in Budgets, Enough(b), NEW n \in Nat, NEW p, NEW q, NEW t \in Nat,
           q \in Events => t <= b.audit, q = "snapshot" => t <= b.source,
           q = "connect" => t <= b.connect
    PROVE  \A s \in Services \ {"gateway", "kom"} :
              p # "forward" /\ <<p, q>> \in MovesOf[s] => WithinBudget(b, s, n, n, p, q, t)
<1>1. b.audit \in Nat /\ b.source \in Nat /\ b.connect \in Nat /\ b.path \in Nat
  BY DEF Budgets
<1>2. Calls(b, b.path) \in Nat
  BY <1>1, CallsAre
<1> USE DEF MovesOf, WithinBudget, Down, Events, Ended, Answers, Replies
<1>3. p # "forward" /\ <<p, q>> \in MovesOf["identity"] => WithinBudget(b, "identity", n, n, p, q, t)
  BY <1>1, <1>2, FullIs, RestIs
<1>4. p # "forward" /\ <<p, q>> \in MovesOf["topology"] => WithinBudget(b, "topology", n, n, p, q, t)
  BY <1>1, <1>2, FullIs, RestIs
<1>5. p # "forward" /\ <<p, q>> \in MovesOf["pce"] => WithinBudget(b, "pce", n, n, p, q, t)
  BY <1>1, <1>2, FullIs, RestIs
<1>6. p # "forward" /\ <<p, q>> \in MovesOf["provisioning"]
         => WithinBudget(b, "provisioning", n, n, p, q, t)
  BY <1>1, <1>2, FullIs, RestIs
<1> HIDE DEF MovesOf, WithinBudget
<1> QED  BY <1>3, <1>4, <1>5, <1>6, ServicesAre

\* The same of key orchestration, which counts its calls.
LEMMA KomMovesFit ==
    ASSUME NEW b \in Budgets, Enough(b), NEW n \in Nat, NEW n1 \in Nat, NEW p, NEW q,
           NEW t \in Nat, <<p, q>> \in MovesOf["kom"], p # "forward",
           q \in Events => t <= b.audit, q \in KmsCalls => t <= b.kms,
           q = "connect" => t <= b.connect,
           p = "idle" => n1 = 0,
           p = "status" => /\ b.path - (n + 1) \in Nat /\ b.path - (n + 1) >= 2
                           /\ q # "kms_error" => n1 = n + 1
    PROVE  WithinBudget(b, "kom", n, n1, p, q, t)
<1>1. /\ b.audit \in Nat /\ b.kms \in Nat /\ b.path \in Nat /\ b.path >= 2
      /\ b.connect \in Nat
  BY DEF Budgets
<1>2. Calls(b, b.path) \in Nat
  BY <1>1, CallsAre
<1> USE DEF WithinBudget, Down
<1>3. q \in {"status", "enc_keys", "dec_keys"} => t <= b.kms
  BY DEF KmsCalls
<1>4. q \in {"kms_error", "key_verify_skipped", "keys_retrieved"} => t <= b.audit
  BY DEF Events
<1>5. CASE p = "idle"
  <2>1. /\ Calls(b, b.path - 1) \in Nat /\ Calls(b, b.path) = Calls(b, b.path - 1) + b.kms
        /\ Calls(b, b.path) >= b.kms + b.kms
    BY <1>1, CallsLeft
  <2>2. q \in {"status", "enc_keys", "REJECTED"}
    BY <1>5 DEF MovesOf
  <2>3. CASE q = "status"
    <3>1. Rest(b, "kom", n1, "status") = Calls(b, b.path - 1) + 3 * b.audit + b.connect
      BY <1>5, RestIs
    <3> QED  BY <1>1, <1>2, <1>3, <1>5, <2>1, <2>3, <3>1, FullIs
  <2>4. CASE q = "enc_keys"
    BY <1>1, <1>2, <1>3, <1>5, <2>1, <2>4, FullIs, RestIs
  <2>5. CASE q = "REJECTED"
    BY <2>5 DEF Ended, Replies
  <2> QED  BY <2>2, <2>3, <2>4, <2>5
<1>6. CASE p = "status"
  <2> DEFINE m == b.path - (n + 1)
  <2>1. /\ m \in Nat /\ m >= 2
        /\ Calls(b, m - 1) \in Nat /\ Calls(b, m) = Calls(b, m - 1) + b.kms
        /\ Calls(b, m) >= b.kms + b.kms
    BY <1>6, CallsLeft
  <2>2. q \in {"status", "enc_keys", "kms_error"}
    BY <1>6 DEF MovesOf
  <2>3. Rest(b, "kom", n, "status") = Calls(b, m) + 3 * b.audit + b.connect
    BY RestIs
  <2>4. CASE q = "status"
    <3>1. n1 = n + 1
      BY <1>6, <2>4
    <3>2. b.path - (n1 + 1) = m - 1
      BY <1>1, <3>1
    <3>3. Rest(b, "kom", n1, "status") = Calls(b, m - 1) + 3 * b.audit + b.connect
      BY <3>2, RestIs
    <3> HIDE DEF m
    <3> QED  BY <1>1, <1>3, <1>6, <2>1, <2>3, <2>4, <3>3
  <2> HIDE DEF m
  <2>5. CASE q = "enc_keys"
    BY <1>1, <1>3, <1>6, <2>1, <2>3, <2>5, RestIs
  <2>6. CASE q = "kms_error"
    BY <1>1, <1>4, <1>6, <2>1, <2>3, <2>6, RestIs
  <2> QED  BY <2>2, <2>4, <2>5, <2>6
<1>7. CASE p \notin {"idle", "status"}
  BY <1>1, <1>3, <1>4, <1>7, FullIs, RestIs DEF MovesOf, Ended, Replies
<1> QED  BY <1>5, <1>6, <1>7

\* A step of a service leaves it no more to do, and a call takes no longer than
\* its caller still had.
LEMMA LeftShrinks ==
    ASSUME NEW b \in Budgets, Enough(b), ChainInv, NEW r \in Requests, OnTime(b, r),
           up = Services, NEW s \in Services \ {"gateway"}, Step(r, s) \/ Receive(r, s),
           At(r, s) # "forward"
    PROVE  /\ At(r, s)' \notin {"forward"} \cup Ended
                 => Left(b, r, s)' \in Nat /\ Left(b, r, s)' <= Left(b, r, s)
           /\ At(r, s)' = "forward" => Full(b)[Down[s]] <= Left(b, r, s)
<1>1. PICK p \in PlacesOf[s] \ Broken :
              /\ Enter(r, s, p)
              /\ <<At(r, s), p>> \in MovesOf[s]
              /\ At(r, s) \notin {"idle", "forward"} => handler[<<r, s>>].timer = 0
  BY StepIs
<1>2. TypeOK /\ RequestInv(r) /\ handler \in [Requests \X Services -> Handlers]
  BY DEF ChainInv, TypeOK, Handlers, Places, Delays
<1>3. p \in Places
  BY <1>1, PlacesOfService
<1>4. handler'[<<r, s>>].at = p
  BY <1>1, <1>2, <1>3, EnterEffect
<1> DEFINE t == handler'[<<r, s>>].timer
           n == hop[r]
           n1 == hop'[r]
<1>5. /\ t \in Nat
      /\ p \in Events => t <= b.audit
      /\ p = "snapshot" => t <= b.source
      /\ p \in KmsCalls => t <= b.kms
      /\ p = "connect" => t <= b.connect
  BY <1>1, <1>2, <1>3, EnterTakes
<1>6. n \in Nat /\ n1 \in Nat
  <2>1. hop' \in [Requests -> Nat]
    BY <1>2, StepType DEF Receive, TypeOK
  <2> QED  BY <1>2, <2>1 DEF TypeOK
<1>7. Left(b, r, s) = IF At(r, s) = "idle" THEN Full(b)[s] ELSE Rest(b, s, n, At(r, s))
  <2>1. CASE At(r, s) = "idle"
    BY <2>1 DEF Left
  <2>2. CASE At(r, s) # "idle"
    <3>1. handler[<<r, s>>].timer = 0
      BY <1>1, <2>2
    <3>2. At(r, s) \notin Ended
      BY <1>1, ServicesAre DEF MovesOf, Ended, Answers, Replies
    <3>3. /\ Rest(b, s, n, At(r, s)) \in Nat
          /\ Left(b, r, s) = handler[<<r, s>>].timer + Rest(b, s, n, At(r, s))
      BY <1>2, <2>2, <3>2, LeftType DEF OnTime
    <3> QED  BY <2>2, <3>1, <3>3
  <2> QED  BY <2>1, <2>2
<1>8. At(r, s)' = p
  BY <1>4 DEF At
<1>9. p # "idle" => Left(b, r, s)' = t + Rest(b, s, n1, p)
  BY <1>4, <1>8 DEF Left
<1>10. WithinBudget(b, s, n, n1, At(r, s), p, t)
  <2>1. CASE s = "kom"
    <3>1. At(r, s) = "idle" => n1 = 0
      BY <1>2, <2>1, StepHops DEF OnTime, RelaysLeft
    <3>2. At(r, s) = "status" => b.path - (n + 1) \in Nat /\ b.path - (n + 1) >= 2
      BY <1>2, <2>1, QueriesFit DEF OnTime
    <3>3. At(r, s) = "status" => (p # "kms_error" => n1 = n + 1)
      BY <1>2, <1>4, <2>1, StepHops
    <3> HIDE DEF t, n, n1
    <3>4. PICK q : q = At(r, s)
      OBVIOUS
    <3>5. <<q, p>> \in MovesOf["kom"] /\ q # "forward"
      BY <1>1, <2>1, <3>4
    <3>6. WithinBudget(b, "kom", n, n1, q, p, t)
      BY <1>5, <1>6, <3>1, <3>2, <3>3, <3>4, <3>5, KomMovesFit
    <3> QED  BY <2>1, <3>4, <3>6
  <2>2. CASE s # "kom"
    <3>1. n1 = n
      BY <1>2, <2>2, StepHops
    <3> HIDE DEF t, n, n1
    <3> QED  BY <1>1, <1>5, <1>6, <2>2, <3>1, MovesFit
  <2> QED  BY <2>1, <2>2
<1>11. p # "idle"
  BY <1>1, ServicesAre DEF MovesOf
<1> HIDE DEF t, n, n1
<1> QED  BY <1>5, <1>7, <1>8, <1>9, <1>10, <1>11 DEF WithinBudget

\* Whoever is called by an earlier service is below it.
LEMMA DownIsDeeper ==
    /\ \A c \in Callers : Down[c] \in Services /\ Depth[Down[c]] = Depth[c] + 1
    /\ \A s \in Services : Depth[s] \in Nat
    /\ \A s \in Services \ {"gateway"} : \E c \in Callers : Down[c] = s
    /\ \A c, d \in Callers : Down[c] = Down[d] => c = d
    /\ \A s \in Services : Depth[s] <= Depth["gateway"] => s = "gateway"
    /\ \A s, t \in Services : Depth[s] = Depth[t] => s = t
BY ServicesAre DEF Down, Depth

\* Under a handler that has not called yet nobody is at work.
LEMMA NobodyBelow ==
    ASSUME NEW r \in Requests, RequestInv(r), NEW s \in Callers, At(r, s) \in BeforeCall,
           NEW t \in Services, Depth[t] > Depth[s]
    PROVE  At(r, t) = "idle"
<1>1. "idle" \in BeforeCall
  BY DEF BeforeCall
<1> QED  BY <1>1, BelowIdle, ServicesAre DEF Depth

\* While no call fails, the caller of whoever is at work still waits.
LEMMA CallerWaits ==
    ASSUME NEW r \in Requests, RequestInv(r), NoneBroken(r), NEW c \in Callers,
           At(r, Down[c]) \notin {"idle"} \cup Ended
    PROVE  Waits(r, c)
<1>1. At(r, c) \in PlacesOf[c] /\ At(r, c) \notin Broken /\ c \in Services
  BY ServicesAre DEF RequestInv, InPlace, NoneBroken
<1>2. At(r, c) \notin BeforeCall
  BY DEF RequestInv, CalledOnce
<1>3. At(r, Down[c]) \notin {"idle", "PROVISIONED", "REJECTED"}
  BY DEF Ended, Replies
<1>4. At(r, c) \notin {"PROVISIONED", "REJECTED", "response_returned", "200", "503"}
  <2>1. CASE c = "gateway"
    BY <1>1, <1>3, <2>1 DEF RequestInv, AnswersAgree, PlacesOf, Down
  <2>2. CASE c # "gateway"
    BY <1>1, <1>3, <2>2, ServicesAre DEF RequestInv, AnswersAgree, PlacesOf
  <2> QED  BY <2>1, <2>2
<1> QED  BY <1>1, <1>2, <1>4, ServicesAre
         DEF PlacesOf, Broken, BeforeCall, Events, KmsCalls, Waits

\* Only the count of relays of a relay query matters.
LEMMA RestCounts ==
    ASSUME NEW b, NEW s, NEW h, NEW h1, NEW p, p # "status"
    PROVE  Rest(b, s, h1, p) = Rest(b, s, h, p)
BY DEF Rest

LEMMA OthersOnTime ==
    ASSUME NEW b, NEW r \in Requests, OnTime(b, r),
           \A s \in Services : handler'[<<r, s>>] = handler[<<r, s>>],
           hop'[r] = hop[r], route'[r] = route[r]
    PROVE  OnTime(b, r)'
<1>1. \A s \in Services : At(r, s)' = At(r, s)
  BY DEF At
<1>2. \A s \in Services : Left(b, r, s)' = Left(b, r, s)
  BY <1>1 DEF Left
<1>3. \A c \in Callers : c \in Services /\ (Waits(r, c)' <=> Waits(r, c))
  BY <1>1, ServicesAre DEF Waits
<1>4. \A s \in Services : Working(r, s)' <=> Working(r, s)
  BY <1>1, <1>3 DEF Working
<1>5. CanWait(b, r)'
  <2> SUFFICES ASSUME NEW c \in Callers, Waits(r, c)'
               PROVE  /\ handler'[<<r, c>>].timer > 0
                      /\ \A s \in Services : Depth[c] < Depth[s] /\ Working(r, s)'
                            => handler'[<<r, c>>].timer > Left(b, r, s)'
    BY DEF CanWait
  <2> QED  BY <1>2, <1>3, <1>4 DEF OnTime, CanWait
<1>6. NoneBroken(r)' /\ NothingFails(r)'
  BY <1>1 DEF OnTime, NoneBroken, NothingFails
<1>7. RelaysLeft(r)'
  BY <1>1, ServicesAre DEF OnTime, RelaysLeft
<1> QED  BY <1>5, <1>6, <1>7 DEF OnTime

LEMMA StepOnTime ==
    ASSUME NEW b \in Budgets, Enough(b), ChainInv, NEW r \in Requests, OnTime(b, r),
           up = Services, NEW s \in Services, Step(r, s) \/ Receive(r, s)
    PROVE  OnTime(b, r)'
<1>1. PICK p \in PlacesOf[s] \ Broken :
              /\ Enter(r, s, p)
              /\ <<At(r, s), p>> \in MovesOf[s]
              /\ At(r, s) = "forward" => p \in {"PROVISIONED", "REJECTED", "response_returned"}
  BY StepIs
<1>2. TypeOK /\ RequestInv(r) /\ handler \in [Requests \X Services -> Handlers]
  BY DEF ChainInv, TypeOK, Handlers, Places, Delays
<1>3. p \in Places
  BY <1>1, PlacesOfService
<1>4. /\ handler'[<<r, s>>].at = p
      /\ \A t \in Services : t # s => handler'[<<r, t>>] = handler[<<r, t>>]
      /\ p = "forward" => handler'[<<r, s>>].timer = HttpTimeout
      /\ p = "connect" => handler'[<<r, s>>].result = "ok"
      /\ p = "snapshot" => handler'[<<r, s>>].result # "raised"
  BY <1>1, <1>2, <1>3, EnterEffect, EnterTakes
<1>5. At(r, s)' = p /\ \A t \in Services : t # s => At(r, t)' = At(r, t)
  BY <1>4 DEF At
<1>6. p # "idle" /\ At(r, s) \notin Ended
  BY <1>1, ServicesAre DEF MovesOf, Ended, Answers, Replies
<1>7. p = "forward" => s \in Callers /\ At(r, s) \in BeforeCall /\ At(r, s) \notin {"idle", "forward"}
  BY <1>1, ServicesAre DEF MovesOf, BeforeCall, Events
<1>8. CanWait(b, r) /\ NoneBroken(r) /\ NothingFails(r) /\ RelaysLeft(r)
  BY DEF OnTime
<1>9. \A c \in Callers : c \in Services /\ Depth[c] \in Nat
  BY ServicesAre, DownIsDeeper
<1>10. \A t \in Services : t # s => Left(b, r, t)' = Left(b, r, t)
  <2> SUFFICES ASSUME NEW t \in Services, t # s PROVE Left(b, r, t)' = Left(b, r, t)
    OBVIOUS
  <2>1. handler'[<<r, t>>] = handler[<<r, t>>] /\ At(r, t)' = At(r, t)
    BY <1>4, <1>5
  <2>2. CASE hop'[r] = hop[r]
    BY <2>1, <2>2 DEF Left
  <2>3. CASE hop'[r] # hop[r]
    <3>1. s = "kom"
      BY <1>2, <2>3, StepHops
    <3>2. At(r, t) # "status"
      BY <1>2, <3>1, PlacesOfService DEF RequestInv, InPlace
    <3>3. Rest(b, t, hop'[r], At(r, t)) = Rest(b, t, hop[r], At(r, t))
      BY <3>2, RestCounts
    <3> QED  BY <2>1, <3>3 DEF Left
  <2> QED  BY <2>2, <2>3
<1>11. CanWait(b, r)'
  <2> SUFFICES ASSUME NEW c \in Callers, Waits(r, c)'
               PROVE  /\ handler'[<<r, c>>].timer > 0
                      /\ \A t \in Services : Depth[c] < Depth[t] /\ Working(r, t)'
                            => handler'[<<r, c>>].timer > Left(b, r, t)'
    BY DEF CanWait
  <2>1. CASE c = s
    <3>1. p = "forward"
      BY <1>5, <2>1 DEF Waits
    <3>2. ASSUME NEW t \in Services, Depth[c] < Depth[t]
          PROVE  t # s /\ t # "gateway" /\ Left(b, r, t)' = Full(b)[t]
      <4>1. At(r, t) = "idle"
        BY <1>2, <1>7, <2>1, <3>1, <3>2, NobodyBelow
      <4>2. t # s /\ t # "gateway"
        BY <1>9, <2>1, <3>2, ServicesAre DEF Depth
      <4> QED  BY <1>10, <4>1, <4>2 DEF Left
    <3> QED  BY <1>4, <2>1, <3>1, <3>2, FullIsShort, ChainAssumption
  <2>2. CASE c # s
    <3>1. Waits(r, c) /\ handler'[<<r, c>>] = handler[<<r, c>>]
      BY <1>4, <1>5, <1>9, <2>2 DEF Waits
    <3>2. handler[<<r, c>>].timer > 0
      BY <1>8, <3>1 DEF CanWait
    <3>3. handler[<<r, c>>].timer \in Nat
      BY <1>2, <1>9, ChainAssumption DEF Handlers, Delays
    <3>4. ASSUME NEW t \in Services, Depth[c] < Depth[t], Working(r, t)'
          PROVE  handler[<<r, c>>].timer > Left(b, r, t)'
      <4>1. t # "gateway"
        BY <1>9, <3>4, ServicesAre DEF Depth
      <4>2. PICK d \in Callers : Down[d] = t /\ \A e \in Callers : Down[e] = t => e = d
        BY <4>1, DownIsDeeper
      <4>3. At(r, d)' = "forward" /\ At(r, t)' \notin {"forward"} \cup Ended
        BY <3>4, <4>2 DEF Working, Waits
      <4>4. CASE t = s
        <5>1. d # s
          BY <4>2, <4>4, DownIsDeeper
        <5>2. At(r, d) = "forward"
          BY <1>5, <1>9, <4>3, <5>1
        <5>3. At(r, s) # "forward"
          BY <1>1, <1>5, <4>1, <4>3, <4>4, ServicesAre DEF Ended, Replies, PlacesOf
        <5>4. Working(r, s)
          BY <1>6, <4>2, <4>4, <5>2, <5>3 DEF Working, Waits
        <5>5. handler[<<r, c>>].timer > Left(b, r, s)
          BY <1>8, <3>1, <3>4, <4>4, <5>4 DEF CanWait
        <5>6. Left(b, r, s)' \in Nat /\ Left(b, r, s)' <= Left(b, r, s)
          BY <4>1, <4>3, <4>4, <5>3, LeftShrinks
        <5>7. Left(b, r, s) \in Nat
          BY <1>2, <1>6, <1>8, <4>1, <4>4, <5>3, LeftType
        <5> QED  BY <3>3, <4>4, <5>5, <5>6, <5>7
      <4>5. CASE t # s /\ d = s
        <5>1. p = "forward" /\ s \in Callers
          BY <1>5, <4>3, <4>5
        <5>2. At(r, t) = "idle"
          BY <1>2, <1>7, <4>2, <4>5, <5>1, DownIsDeeper, NobodyBelow
        <5>3. Left(b, r, t)' = Full(b)[t] /\ Full(b)[t] \in Nat
          BY <1>10, <4>1, <4>5, <5>2, FullIsShort DEF Left
        <5>4. Depth[c] < Depth[s] /\ s # "gateway"
          BY <1>9, <2>2, <3>4, <4>2, <4>5, DownIsDeeper
        <5>5. At(r, s) \notin {"idle", "forward"} \cup Ended
          BY <1>6, <1>7, <5>1
        <5>6. Working(r, s)
          BY <1>2, <1>8, <5>5, CallerWaits DEF Working
        <5>7. handler[<<r, c>>].timer > Left(b, r, s)
          BY <1>8, <3>1, <5>4, <5>6 DEF CanWait
        <5>8. Full(b)[t] <= Left(b, r, s)
          BY <1>5, <4>2, <4>5, <5>1, <5>4, <5>5, LeftShrinks
        <5>9. Left(b, r, s) \in Nat
          BY <1>2, <1>8, <5>4, <5>5, LeftType
        <5> QED  BY <3>3, <5>3, <5>7, <5>8, <5>9
      <4>6. CASE t # s /\ d # s
        <5>1. Working(r, t)
          BY <1>5, <1>9, <4>2, <4>3, <4>6 DEF Working, Waits
        <5> QED  BY <1>8, <1>10, <3>1, <3>4, <4>6, <5>1 DEF CanWait
      <4> QED  BY <4>4, <4>5, <4>6
    <3> QED  BY <3>1, <3>2, <3>4
  <2> QED  BY <2>1, <2>2
<1>12. NoneBroken(r)' /\ NothingFails(r)'
  BY <1>1, <1>4, <1>5, <1>8 DEF NoneBroken, NothingFails
<1>13. RelaysLeft(r)'
  <2>1. CASE s = "kom"
    <3>1. route'[r] = route[r]
      BY <1>2, <2>1, StepHops
    <3>2. ASSUME p = "status" PROVE hop'[r] < Len(route[r]) - 2
      <4>1. CASE At(r, s) = "idle"
        <5>1. hop'[r] = 0 /\ p = KmsCall(r, 0)
          BY <1>2, <1>4, <1>8, <2>1, <3>2, <4>1, StepHops DEF RelaysLeft
        <5> QED  BY <3>2, <5>1 DEF KmsCall
      <4>2. CASE At(r, s) = "status"
        <5>1. hop'[r] = hop[r] + 1 /\ p = KmsCall(r, hop[r] + 1)
          BY <1>2, <1>4, <2>1, <3>2, <4>2, StepHops
        <5> QED  BY <3>2, <5>1 DEF KmsCall
      <4> QED  BY <1>1, <2>1, <3>2, <4>1, <4>2 DEF MovesOf
    <3> QED  BY <1>5, <1>6, <2>1, <3>1, <3>2 DEF RelaysLeft
  <2>2. CASE s # "kom"
    <3>1. At(r, "kom")' = At(r, "kom") /\ hop'[r] = hop[r]
      BY <1>2, <1>5, <2>2, StepHops, ServicesAre
    <3>2. At(r, "kom") = "status" => route'[r] = route[r]
      <4>1. s = "pce" /\ At(r, s) = "idle" => At(r, "kom") = "idle"
        BY <1>2, BelowIdle DEF BeforeCall
      <4> QED  BY <1>2, <4>1, StepHops
    <3> QED  BY <1>8, <3>1, <3>2 DEF RelaysLeft
  <2> QED  BY <2>1, <2>2
<1> QED  BY <1>11, <1>12, <1>13 DEF OnTime

\* While somebody waits and nobody can go on, somebody below is at work.
LEMMA SomeoneWorks ==
    ASSUME NEW r \in Requests, RequestInv(r), Going(r) = {}, NEW c \in Callers, Waits(r, c)
    PROVE  \E t \in Services : Depth[c] < Depth[t] /\ Working(r, t)
<1>1. \A d \in Callers : Waits(r, d) => At(r, Down[d]) \notin Ended
  BY ServicesAre DEF Going, Waits
<1>2. ASSUME NEW d \in Callers, Waits(r, d), ~Waits(r, Down[d])
      PROVE  Working(r, Down[d])
  BY <1>1, <1>2, DownIsDeeper DEF Working, Waits
<1>3. At(r, "provisioning") # "forward"
  BY ServicesAre DEF RequestInv, InPlace, PlacesOf
<1>4. \A d \in Callers : Down[d] \in Services /\ Depth[d] \in Nat /\ Depth[Down[d]] = Depth[d] + 1
  BY DownIsDeeper, ServicesAre
<1> DEFINE Found(d) == \E t \in Services : Depth[d] < Depth[t] /\ Working(r, t)
<1>5. ASSUME NEW d \in Callers, Waits(r, d), Down[d] \in Callers,
             Waits(r, Down[d]) => Found(Down[d])
      PROVE  Found(d)
  <2>1. CASE ~Waits(r, Down[d])
    BY <1>2, <1>4, <1>5, <2>1
  <2>2. CASE Waits(r, Down[d])
    <3>1. PICK t \in Services : Depth[Down[d]] < Depth[t] /\ Working(r, t)
      BY <1>5, <2>2
    <3>2. Depth[t] \in Nat
      BY DownIsDeeper
    <3> QED  BY <1>4, <1>5, <3>1, <3>2
  <2> QED  BY <2>1, <2>2
<1>6. Waits(r, "kom") => Found("kom")
  BY <1>2, <1>3, <1>4, ServicesAre DEF Down, Waits
<1>7. /\ Down["gateway"] = "identity" /\ Down["identity"] = "topology"
      /\ Down["topology"] = "pce" /\ Down["pce"] = "kom"
  BY DEF Down
<1> HIDE DEF Found
<1>8. Waits(r, "pce") => Found("pce")
  BY <1>5, <1>6, <1>7, ServicesAre
<1>9. Waits(r, "topology") => Found("topology")
  BY <1>5, <1>7, <1>8, ServicesAre
<1>10. Waits(r, "identity") => Found("identity")
  BY <1>5, <1>7, <1>9, ServicesAre
<1>11. Waits(r, "gateway") => Found("gateway")
  BY <1>5, <1>7, <1>10, ServicesAre
<1>12. Found(c)
  BY <1>6, <1>8, <1>9, <1>10, <1>11, ServicesAre
<1> QED  BY <1>12 DEF Found

\* Time that passes for who waits passes for who works.
LEMMA TickOnTime ==
    ASSUME NEW b \in Budgets, Enough(b), ChainInv, NEW r \in Requests, OnTime(b, r), Tick
    PROVE  OnTime(b, r)'
<1>1. TypeOK /\ RequestInv(r) /\ handler \in [Requests \X Services -> Handlers]
  BY DEF ChainInv, TypeOK, Handlers, Places, Delays
<1>2. \A s \in Services :
         /\ handler'[<<r, s>>].at = handler[<<r, s>>].at
         /\ handler'[<<r, s>>].result = handler[<<r, s>>].result
         /\ handler'[<<r, s>>].timer =
               IF handler[<<r, s>>].timer > 0 THEN handler[<<r, s>>].timer - 1
               ELSE handler[<<r, s>>].timer
  BY <1>1, TickEffect
<1>3. \A s \in Services : At(r, s)' = At(r, s) /\ handler[<<r, s>>].timer \in Nat
  BY <1>1, <1>2, ChainAssumption DEF At, Handlers, Delays
<1>4. Going(r) = {} /\ hop' = hop /\ route' = route
  BY DEF Tick
<1>5. CanWait(b, r) /\ NoneBroken(r) /\ NothingFails(r) /\ RelaysLeft(r)
  BY DEF OnTime
<1>6. \A c \in Callers : c \in Services /\ (Waits(r, c)' <=> Waits(r, c))
  BY <1>3, ServicesAre DEF Waits
<1>7. \A s \in Services : Working(r, s)' <=> Working(r, s)
  BY <1>3, <1>6 DEF Working
<1>8. ASSUME NEW s \in Services \ {"gateway"}, Working(r, s)
      PROVE  /\ Left(b, r, s) \in Nat /\ Left(b, r, s) >= 1
             /\ Left(b, r, s)' = Left(b, r, s) - 1
  <2>1. At(r, s) \notin {"forward"} \cup Ended
    BY <1>8 DEF Working
  <2>2. At(r, s) # "idle"
    <3>1. PICK c \in Callers : Down[c] = s
      BY DownIsDeeper
    <3>2. Waits(r, c)
      BY <1>8, <3>1 DEF Working
    <3> QED  BY <1>4, <1>6, <3>1, <3>2 DEF Going, Waits
  <2>3. handler[<<r, s>>].timer # 0
    BY <1>4, <2>1, <2>2 DEF Going
  <2>4. /\ Rest(b, s, hop[r], At(r, s)) \in Nat
        /\ Left(b, r, s) = handler[<<r, s>>].timer + Rest(b, s, hop[r], At(r, s))
    BY <1>1, <1>5, <2>1, <2>2, LeftType
  <2>5. Left(b, r, s)' = handler'[<<r, s>>].timer + Rest(b, s, hop[r], At(r, s))
    BY <1>3, <1>4, <2>2 DEF Left
  <2>6. handler'[<<r, s>>].timer = handler[<<r, s>>].timer - 1
    BY <1>2, <1>3, <2>3
  <2> QED  BY <1>3, <2>3, <2>4, <2>5, <2>6
<1>9. CanWait(b, r)'
  <2> SUFFICES ASSUME NEW c \in Callers, Waits(r, c)'
               PROVE  /\ handler'[<<r, c>>].timer > 0
                      /\ \A s \in Services : Depth[c] < Depth[s] /\ Working(r, s)'
                            => handler'[<<r, c>>].timer > Left(b, r, s)'
    BY DEF CanWait
  <2>1. /\ handler[<<r, c>>].timer > 0
        /\ \A s \in Services : Depth[c] < Depth[s] /\ Working(r, s)
              => handler[<<r, c>>].timer > Left(b, r, s)
    BY <1>5, <1>6 DEF CanWait
  <2>2. handler[<<r, c>>].timer \in Nat /\ handler'[<<r, c>>].timer = handler[<<r, c>>].timer - 1
    BY <1>2, <1>3, <1>6, <2>1
  <2>3. \A s \in Services : Depth[c] < Depth[s] => s # "gateway"
    BY ServicesAre DEF Depth
  <2>4. PICK t \in Services : Depth[c] < Depth[t] /\ Working(r, t)
    BY <1>1, <1>4, <1>6, SomeoneWorks
  <2>5. handler[<<r, c>>].timer > Left(b, r, t) /\ Left(b, r, t) \in Nat /\ Left(b, r, t) >= 1
    BY <1>8, <2>1, <2>3, <2>4
  <2>6. handler'[<<r, c>>].timer > 0
    BY <2>2, <2>5
  <2>7. ASSUME NEW s \in Services, Depth[c] < Depth[s], Working(r, s)'
        PROVE  handler'[<<r, c>>].timer > Left(b, r, s)'
    <3>1. Working(r, s) /\ s # "gateway"
      BY <1>7, <2>3, <2>7
    <3>2. Left(b, r, s) \in Nat /\ Left(b, r, s)' = Left(b, r, s) - 1
      BY <1>8, <3>1
    <3> QED  BY <2>1, <2>2, <2>7, <3>1, <3>2
  <2> QED  BY <2>6, <2>7
<1>10. NoneBroken(r)' /\ NothingFails(r)'
  BY <1>2, <1>3, <1>5 DEF NoneBroken, NothingFails
<1>11. RelaysLeft(r)'
  BY <1>3, <1>4, <1>5, ServicesAre DEF RelaysLeft
<1> QED  BY <1>9, <1>10, <1>11 DEF OnTime

LEMMA BudgetKeeps ==
    ASSUME NoCrashes, NEW b \in Budgets, Enough(b), BudgetInv(b), [Next]_vars
    PROVE  BudgetInv(b)'
<1>1. ChainInv /\ up = Services /\ \A r \in Requests : OnTime(b, r)
  BY DEF BudgetInv
<1>2. ChainInv'
  BY <1>1, NextKeeps
<1>3. handler \in [Requests \X Services -> Handlers]
  BY <1>1 DEF ChainInv, TypeOK, Handlers, Places, Delays
<1>4. ASSUME NEW s \in Services, Crash(s) \/ Restart(s) PROVE FALSE
  BY <1>1, <1>4 DEF Crash, Restart, NoCrashes, ChainInv, TypeOK
<1>5. ASSUME NEW r \in Requests, NEW s \in Services, Step(r, s) \/ Receive(r, s)
      PROVE  BudgetInv(b)'
  <2>1. up' = up
    BY <1>1, <1>5, StepType DEF Receive, ChainInv
  <2>2. OnTime(b, r)'
    BY <1>1, <1>5, StepOnTime
  <2>3. \A q \in Requests : q # r => hop'[q] = hop[q] /\ route'[q] = route[q]
    BY <1>1, <1>5, StepHops DEF ChainInv
  <2>4. ASSUME NEW q \in Requests, q # r, NEW t \in Services
        PROVE  handler'[<<q, t>>] = handler[<<q, t>>]
    <3>1. PICK p \in PlacesOf[s] : Enter(r, s, p)
      BY <1>1, <1>5, StepMoves DEF ChainInv
    <3>2. p \in Places
      BY PlacesOfService
    <3> QED  BY <1>3, <2>4, <3>1, <3>2, EnterEffect
  <2>5. \A q \in Requests : q # r => OnTime(b, q)'
    BY <1>1, <2>3, <2>4, OthersOnTime
  <2> QED  BY <1>1, <1>2, <2>1, <2>2, <2>5 DEF BudgetInv
<1>6. ASSUME NEW r \in Requests, Submit(r) PROVE BudgetInv(b)'
  BY <1>5, <1>6, ServicesAre DEF Submit
<1>7. CASE UNCHANGED <<handler, hop, route, up>>
  <2>1. \A q \in Requests : OnTime(b, q)'
    BY <1>1, <1>7, OthersOnTime
  <2> QED  BY <1>1, <1>2, <1>7, <2>1 DEF BudgetInv
<1>8. ASSUME NEW r \in Requests, NEW p \in Events \cup {"enc_keys"}, Arrive(r, p)
      PROVE  BudgetInv(b)'
  BY <1>7, <1>8 DEF Arrive
<1>9. CASE Tick
  <2>1. \A q \in Requests : OnTime(b, q)'
    BY <1>1, <1>9, TickOnTime
  <2> QED  BY <1>1, <1>2, <1>9, <2>1 DEF BudgetInv, Tick
<1>10. CASE UNCHANGED vars
  BY <1>7, <1>10 DEF vars
<1> QED  BY <1>4, <1>5, <1>6, <1>8, <1>9, <1>10 DEF Next, Environment

(***************************************************************************)
(* Auditing does not break the flow: while no service stops, connections   *)
(* succeed, and seven writes, four connections, the topology source and    *)
(* the calls to the KMSs together take less than one timeout, no request   *)
(* is answered with a gateway error, as slow or lossy as the audit log may *)
(* be within its share.  Without EnoughTime one is (run chain_hung): four  *)
(* hung writes suffice.                                                    *)
(***************************************************************************)
THEOREM AuditingCostsNoAnswer ==
    ASSUME NoCrashes, EnoughTime
    PROVE  Spec => []AuditNeverBreaksFlow
<1> SUFFICES ASSUME NEW b \in Budgets, Enough(b)
             PROVE  Spec => []AuditNeverBreaksFlow
  BY EnoughTime DEF EnoughTime
<1>1. Init => BudgetInv(b)
  <2> SUFFICES ASSUME Init PROVE up = Services /\ \A r \in Requests : OnTime(b, r)
    BY InitInv DEF BudgetInv
  <2>1. \A r \in Requests : hop[r] = 0 /\ \A s \in Services : At(r, s) = "idle"
    BY DEF Init, At
  <2>2. ASSUME NEW r \in Requests PROVE OnTime(b, r)
    BY <2>1, ServicesAre DEF OnTime, CanWait, Waits, NoneBroken, Broken, NothingFails,
                             RelaysLeft
  <2> QED  BY <2>2 DEF Init
<1>2. BudgetInv(b) /\ [Next]_vars => BudgetInv(b)'
  BY BudgetKeeps
<1>3. BudgetInv(b) => AuditNeverBreaksFlow
  <2> SUFFICES ASSUME BudgetInv(b), NEW r \in Requests PROVE answer[r] # "502"
    BY DEF AuditNeverBreaksFlow
  <2>1. At(r, "gateway") # "502"
    BY ServicesAre DEF BudgetInv, OnTime, NoneBroken, Broken
  <2> QED  BY <2>1 DEF answer
<1> QED  BY <1>1, <1>2, <1>3, PTL DEF Spec

-----------------------------------------------------------------------------
(* The measurements taken from the trail.                                   *)

\* Where the owner of a failure is before the failure is in the trail.
NotYetFailed ==
    [downstream_error |-> {"idle", "request_received", "connect", "forward", "downstream_error"},
     resolution_failed |-> {"idle", "auth_validated", "resolution_failed"},
     topology_source_error |-> {"idle", "snapshot", "topology_source_error"},
     topology_empty |-> {"idle", "snapshot", "topology_empty"},
     path_not_found |-> {"idle", "path_not_found"},
     kms_error |-> {"idle", "status", "enc_keys", "kms_error"},
     key_verify_skipped |-> {"idle", "status", "enc_keys", "dec_keys", "key_verify_skipped"}]

Ahead(e) == IF e \in Chain THEN NotYet[e] ELSE NotYetFailed[e]

(***************************************************************************)
(* An event is written, or on its way, only if its service is past it or   *)
(* awaits a write that will be given up; and never both, so that no event  *)
(* is ever in the trail twice.                                             *)
(***************************************************************************)
WrittenOnce(r) ==
    \A e \in Events :
        /\ e \in Seen(r) \/ <<r, e>> \in late =>
              \/ At(r, Owner[e]) \notin Ahead(e)
              \/ At(r, Owner[e]) = e /\ handler[<<r, Owner[e]>>].result = "late"
        /\ <<r, e>> \in late => e \notin Seen(r)

OnceInv == ChainInv /\ \A r \in Requests : WrittenOnce(r)

LEMMA OwnerIs == \A e \in Events : Owner[e] \in Services
  BY ServicesAre DEF Events, Owner

\* An event is ahead of itself, the end is ahead of nothing, and a service that
\* moves to before an event was before it.
LEMMA AheadIs ==
    ASSUME NEW e \in Events
    PROVE  /\ {"idle", e} \subseteq Ahead(e)
           /\ "gone" \notin Ahead(e)
           /\ \A x, p : <<x, p>> \in MovesOf[Owner[e]] /\ p \in Ahead(e)
                 => x \in Ahead(e) /\ x # e
  <1> USE DEF MovesOf, Owner, NotYet, NotYetFailed, Ahead
  <1>1. CASE e \in {"request_received", "response_returned", "downstream_error"}
    BY <1>1, ChainIs
  <1>2. CASE e \in {"auth_validated", "resolution_failed", "endpoints_resolved"}
    BY <1>2, ChainIs
  <1>3. CASE e \in {"topology_source_error", "topology_empty", "topology_attached"}
    BY <1>3, ChainIs
  <1>4. CASE e \in {"path_not_found", "path_computed"}
    BY <1>4, ChainIs
  <1>5. CASE e \in {"kms_error", "key_verify_skipped", "keys_retrieved"}
    BY <1>5, ChainIs
  <1>6. CASE e = "service_provisioned"
    BY <1>6, ChainIs
  <1> QED
    BY <1>1, <1>2, <1>3, <1>4, <1>5, <1>6 DEF Events

\* What a handler's step does to its places, to the trail and to late writes.
LEMMA StepWriting ==
    ASSUME ChainInv, NEW r \in Requests, NEW s \in Services, Step(r, s) \/ Receive(r, s)
    PROVE  \E p \in Places :
              /\ <<At(r, s), p>> \in MovesOf[s]
              /\ p \in Events => Owner[p] = s
              /\ handler'[<<r, s>>].at = p
              /\ \A q \in Requests : \A t \in Services :
                    q # r \/ t # s => handler'[<<q, t>>] = handler[<<q, t>>]
              /\ late \subseteq late' /\ late' \subseteq late \cup {<<r, p>>}
              /\ handler'[<<r, s>>].result # "late" => late' = late
              /\ \A q \in Requests : q # r => trail'[q] = trail[q]
              /\ trail'[r] = IF At(r, s) \in Events /\ handler[<<r, s>>].result = "ok"
                             THEN Append(trail[r], At(r, s)) ELSE trail[r]
              /\ elapsed' = elapsed
  <1>1. handler \in [Requests \X Services -> Handlers] /\ TypeOK /\ RequestInv(r)
    BY DEF ChainInv, TypeOK, Handlers, Places, Delays
  <1>2. PICK p \in PlacesOf[s] : Enter(r, s, p) /\ <<At(r, s), p>> \in MovesOf[s]
    BY <1>1, StepMoves
  <1>3. p \in Places
    BY PlacesOfService
  <1>4. /\ handler'[<<r, s>>].at = p
        /\ \A q \in Requests : \A t \in Services :
              q # r \/ t # s => handler'[<<q, t>>] = handler[<<q, t>>]
        /\ late \subseteq late' /\ late' \subseteq late \cup {<<r, p>>}
        /\ handler'[<<r, s>>].result # "late" => late' = late
    BY <1>1, <1>2, <1>3, EnterEffect
  <1>5. /\ \A q \in Requests : q # r => trail'[q] = trail[q]
        /\ trail'[r] = IF At(r, s) \in Events /\ handler[<<r, s>>].result = "ok"
                       THEN Append(trail[r], At(r, s)) ELSE trail[r]
    BY <1>1, StepWrites DEF TypeOK
  <1>6. elapsed' = elapsed
    BY <1>1, StepType DEF Receive, Step
  <1>7. p \in Events => Owner[p] = s
    BY ServicesAre DEF PlacesOf, Owner, Events
  <1> QED
    BY <1>2, <1>3, <1>4, <1>5, <1>6, <1>7

\* What a trail shows is kept, and added to by what is written.
LEMMA TrailShows ==
    ASSUME TypeOK, NEW r \in Requests, NEW e \in Events, trail'[r] = Append(trail[r], e)
    PROVE  Seen(r)' = Seen(r) \cup {e}
  <1>1. trail[r] \in Seq(Events)
    BY DEF TypeOK
  <1> QED
    BY <1>1, AppendSeen DEF Seen

LEMMA StepOnce ==
    ASSUME OnceInv, NEW r \in Requests, NEW s \in Services, Step(r, s) \/ Receive(r, s),
           NEW q \in Requests
    PROVE  WrittenOnce(q)'
  <1>1. TypeOK /\ ChainInv /\ RequestInv(r) /\ WrittenOnce(q)
    BY DEF OnceInv, ChainInv
  <1>2. PICK p \in Places :
           /\ <<At(r, s), p>> \in MovesOf[s]
           /\ p \in Events => Owner[p] = s
           /\ handler'[<<r, s>>].at = p
           /\ \A x \in Requests : \A t \in Services :
                 x # r \/ t # s => handler'[<<x, t>>] = handler[<<x, t>>]
           /\ late \subseteq late' /\ late' \subseteq late \cup {<<r, p>>}
           /\ handler'[<<r, s>>].result # "late" => late' = late
           /\ \A x \in Requests : x # r => trail'[x] = trail[x]
           /\ trail'[r] = IF At(r, s) \in Events /\ handler[<<r, s>>].result = "ok"
                          THEN Append(trail[r], At(r, s)) ELSE trail[r]
    BY <1>1, StepWriting
  <1> SUFFICES ASSUME NEW e \in Events
               PROVE  /\ e \in Seen(q)' \/ <<q, e>> \in late' =>
                            \/ handler'[<<q, Owner[e]>>].at \notin Ahead(e)
                            \/ /\ handler'[<<q, Owner[e]>>].at = e
                               /\ handler'[<<q, Owner[e]>>].result = "late"
                      /\ <<q, e>> \in late' => e \notin Seen(q)'
    BY DEF WrittenOnce, At
  <1> DEFINE x == At(r, s)
  <1>3. Owner[e] \in Services
    BY OwnerIs
  <1>4. Seen(r)' = IF x \in Events /\ handler[<<r, s>>].result = "ok"
                   THEN Seen(r) \cup {x} ELSE Seen(r)
    BY <1>1, <1>2, TrailShows DEF Seen
  <1>5. x \in Events => s = Owner[x]
    BY <1>1, OwnerWrites DEF RequestInv
  <1>6. /\ e \in Seen(q) \/ <<q, e>> \in late =>
              \/ handler[<<q, Owner[e]>>].at \notin Ahead(e)
              \/ /\ handler[<<q, Owner[e]>>].at = e
                 /\ handler[<<q, Owner[e]>>].result = "late"
        /\ <<q, e>> \in late => e \notin Seen(q)
    BY <1>1 DEF WrittenOnce, At
  <1>7. CASE q # r
    <2>1. Seen(q)' = Seen(q)
      BY <1>2, <1>7 DEF Seen
    <2> QED
      BY <1>2, <1>3, <1>6, <1>7, <2>1
  <1>8. CASE q = r /\ Owner[e] # s
    <2>1. x # e /\ p # e
      BY <1>2, <1>5, <1>8
    <2> QED
      BY <1>2, <1>3, <1>4, <1>6, <1>8, <2>1
  <1>9. CASE q = r /\ Owner[e] = s
    <2>1. x = handler[<<q, s>>].at
      BY <1>9 DEF At
    <2>2. p \in Ahead(e) => x \in Ahead(e) /\ x # e
      BY <1>2, <1>9, AheadIs
    <2>3. e \in Ahead(e)
      BY AheadIs
    <2> HIDE DEF x
    <2>4. CASE p \in Ahead(e)
      <3>1. e \notin Seen(q) /\ <<q, e>> \notin late
        BY <1>6, <1>9, <2>1, <2>2, <2>4
      <3>2. e \notin Seen(q)'
        BY <1>4, <1>9, <2>2, <2>4, <3>1
      <3> QED
        BY <1>2, <1>9, <3>1, <3>2
    <2>5. CASE p \notin Ahead(e)
      <3>1. <<q, e>> \in late' => <<q, e>> \in late
        BY <1>2, <2>3, <2>5
      <3>2. <<q, e>> \in late => e \notin Seen(q)'
        BY <1>4, <1>6, <1>9, <2>1, <2>3
      <3> QED
        BY <1>2, <1>9, <2>5, <3>1, <3>2
    <2> QED
      BY <2>4, <2>5
  <1> QED
    BY <1>7, <1>8, <1>9

LEMMA NextOnce == OnceInv /\ [Next]_vars => OnceInv'
  <1> SUFFICES ASSUME OnceInv, [Next]_vars, ChainInv', NEW q \in Requests
               PROVE  WrittenOnce(q)'
    BY NextKeeps DEF OnceInv
  <1>0. /\ handler \in [Requests \X Services -> Handlers] /\ TypeOK
        /\ ChainInv /\ WrittenOnce(q)
    BY DEF OnceInv, ChainInv, TypeOK, Handlers, Places, Delays
  <1>1. ASSUME NEW r \in Requests, NEW s \in Services, Step(r, s)
        PROVE  WrittenOnce(q)'
    BY <1>1, StepOnce
  <1>2. ASSUME NEW r \in Requests, Submit(r) PROVE WrittenOnce(q)'
    BY <1>2, StepOnce, ServicesAre DEF Submit
  <1>3. CASE /\ trail' = trail /\ late' = late
             /\ \A s \in Services :
                   \/ /\ handler'[<<q, s>>].at = handler[<<q, s>>].at
                      /\ handler'[<<q, s>>].result = handler[<<q, s>>].result
                   \/ handler'[<<q, s>>].at = "gone"
    BY <1>0, <1>3, OwnerIs, AheadIs DEF WrittenOnce, Seen, At
  <1>4. CASE Tick
    BY <1>0, <1>3, <1>4, TickEffect DEF Tick
  <1>5. ASSUME NEW s \in Services, Crash(s) PROVE WrittenOnce(q)'
    BY <1>0, <1>3, <1>5, CrashEffect DEF Crash
  <1>6. ASSUME NEW s \in Services, Restart(s) PROVE WrittenOnce(q)'
    BY <1>3, <1>6 DEF Restart
  <1>7. CASE UNCHANGED vars
    BY <1>3, <1>7 DEF vars
  <1>8. ASSUME NEW r \in Requests, NEW p \in Events \cup {"enc_keys"}, Arrive(r, p)
        PROVE  WrittenOnce(q)'
    <2>1. handler' = handler /\ <<r, p>> \in late /\ late' = late \ {<<r, p>>}
      BY <1>8 DEF Arrive
    <2>2. Seen(q)' = IF q = r /\ p # "enc_keys" THEN Seen(q) \cup {p} ELSE Seen(q)
      <3>1. CASE p = "enc_keys"
        BY <1>8, <3>1 DEF Arrive, Seen
      <3>2. CASE p # "enc_keys"
        <4>1. trail'[q] = IF q = r THEN Append(trail[q], p) ELSE trail[q]
          BY <1>0, <1>8, <3>2 DEF Arrive, TypeOK
        <4>2. CASE q = r
          <5>1. p \in Events /\ trail'[q] = Append(trail[q], p)
            BY <3>2, <4>1, <4>2
          <5> QED
            BY <1>0, <3>2, <4>2, <5>1, TrailShows
        <4>3. CASE q # r
          BY <4>1, <4>3 DEF Seen
        <4> QED
          BY <4>2, <4>3
      <3> QED
        BY <3>1, <3>2
    <2> QED
      BY <1>0, <2>1, <2>2 DEF WrittenOnce, At
  <1> QED
    BY <1>1, <1>2, <1>4, <1>5, <1>6, <1>7, <1>8 DEF Next, Environment

-----------------------------------------------------------------------------
(* The times of the events.                                                 *)

\* An event of which the service has taken the time, and which is not lost yet.
Sent(r, e) == e \in Seen(r) \/ <<r, e>> \in late \/ At(r, Owner[e]) = e

\* In this step the service comes to write the event.
Comes(r, e) == At(r, Owner[e])' = e /\ At(r, Owner[e]) # e

(***************************************************************************)
(* The inductive invariant of the times: they are those of the past, in    *)
(* the order of the chain.                                                 *)
(***************************************************************************)
TimesInOrder(r) ==
    /\ \A e \in Events : Sent(r, e) => stamp[r][e] <= elapsed[r]
    /\ \A d, e \in Chain : Sent(r, d) /\ Sent(r, e) /\ Position(d) < Position(e)
          => stamp[r][d] <= stamp[r][e]
    /\ Sent(r, "response_returned") => At(r, "identity") \in {"PROVISIONED", "REJECTED"}

TimesInv ==
    /\ OnceInv
    /\ stamp \in [Requests -> [Events -> Nat]]
    /\ \A r \in Requests : TimesInOrder(r)

\* A handler begins when its caller waits for it.
LEMMA StepBegins ==
    ASSUME ChainInv, NEW r \in Requests, NEW s \in Services, Step(r, s) \/ Receive(r, s),
           At(r, s) = "idle"
    PROVE  \A c \in Callers : Down[c] = s => At(r, c) = "forward"
  BY StepIsLegal DEF ChainInv, LegalMove

\* A handler stays, moves on, or is gone with its service, and begins only when
\* it is called; time only passes.
LEMMA NextMoves ==
    ASSUME ChainInv, [Next]_vars, NEW r \in Requests
    PROVE  /\ \A s \in Services :
                 \/ handler'[<<r, s>>].at = handler[<<r, s>>].at
                 \/ <<handler[<<r, s>>].at, handler'[<<r, s>>].at>> \in MovesOf[s]
                 \/ handler'[<<r, s>>].at = "gone" /\ handler[<<r, s>>].at \notin Ended
           /\ \A c \in Callers :
                 \/ handler'[<<r, Down[c]>>].at = handler[<<r, Down[c]>>].at
                 \/ handler[<<r, Down[c]>>].at # "idle"
                 \/ handler[<<r, c>>].at = "forward"
           /\ elapsed[r] <= elapsed'[r]
  <1>0. /\ handler \in [Requests \X Services -> Handlers] /\ TypeOK
        /\ elapsed[r] \in Nat
    BY DEF ChainInv, TypeOK, Handlers, Places, Delays
  <1>1. \A c \in Callers : Down[c] \in Services
    BY ServicesAre DEF Down
  <1>2. ASSUME NEW q \in Requests, NEW s \in Services, Step(q, s) \/ Receive(q, s)
        PROVE  /\ \A t \in Services :
                     \/ handler'[<<r, t>>].at = handler[<<r, t>>].at
                     \/ <<handler[<<r, t>>].at, handler'[<<r, t>>].at>> \in MovesOf[t]
               /\ \A c \in Callers :
                     \/ handler'[<<r, Down[c]>>].at = handler[<<r, Down[c]>>].at
                     \/ handler[<<r, Down[c]>>].at # "idle"
                     \/ handler[<<r, c>>].at = "forward"
               /\ elapsed' = elapsed
    <2>1. PICK p \in Places :
             /\ <<At(q, s), p>> \in MovesOf[s]
             /\ handler'[<<q, s>>].at = p
             /\ \A x \in Requests : \A t \in Services :
                   x # q \/ t # s => handler'[<<x, t>>] = handler[<<x, t>>]
             /\ elapsed' = elapsed
      BY <1>2, StepWriting
    <2>2. At(q, s) = "idle" => \A c \in Callers : Down[c] = s => At(q, c) = "forward"
      BY <1>2, StepBegins
    <2> QED
      BY <1>1, <2>1, <2>2 DEF At
  <1>3. CASE Tick
    <2>1. elapsed'[r] = elapsed[r] + IF Open(r) THEN 1 ELSE 0
      BY <1>3 DEF Tick
    <2>2. elapsed[r] <= elapsed'[r]
      BY <1>0, <2>1
    <2>3. \A s \in Services : handler'[<<r, s>>].at = handler[<<r, s>>].at
      BY <1>0, <1>3, TickEffect
    <2> QED
      BY <1>1, <2>2, <2>3
  <1>4. ASSUME NEW s \in Services, Crash(s)
        PROVE  /\ \A t \in Services :
                     \/ handler'[<<r, t>>].at = handler[<<r, t>>].at
                     \/ /\ handler'[<<r, t>>].at = "gone"
                        /\ handler[<<r, t>>].at \notin Ended \cup {"idle"}
               /\ elapsed' = elapsed
    BY <1>0, <1>4, CrashEffect DEF Crash
  <1>5. CASE handler' = handler /\ elapsed' = elapsed
    BY <1>0, <1>5
  <1>6. \/ \E q \in Requests : \E s \in Services : Step(q, s) \/ Receive(q, s)
        \/ Tick
        \/ \E s \in Services : Crash(s)
        \/ handler' = handler /\ elapsed' = elapsed
    BY ServicesAre DEF Next, Environment, Submit, Arrive, Restart, vars
  <1> QED
    BY <1>0, <1>2, <1>3, <1>4, <1>5, <1>1, <1>6

\* An event is sent only by its service coming to it.
LEMMA NextSends ==
    ASSUME ChainInv, [Next]_vars, NEW r \in Requests, NEW e \in Events, Sent(r, e)'
    PROVE  Sent(r, e) \/ Comes(r, e)
  <1> SUFFICES ASSUME e \in Seen(r)' \/ <<r, e>> \in late',
                      handler[<<r, Owner[e]>>].at # e, handler'[<<r, Owner[e]>>].at # e
               PROVE  e \in Seen(r) \/ <<r, e>> \in late
    BY DEF Sent, Comes, At
  <1>0. TypeOK /\ RequestInv(r) /\ handler \in [Requests \X Services -> Handlers]
    BY DEF ChainInv, TypeOK, Handlers, Places, Delays
  <1>1. ASSUME NEW q \in Requests, NEW s \in Services, Step(q, s) \/ Receive(q, s)
        PROVE  e \in Seen(r) \/ <<r, e>> \in late
    <2>1. PICK p \in Places :
             /\ <<At(q, s), p>> \in MovesOf[s]
             /\ p \in Events => Owner[p] = s
             /\ handler'[<<q, s>>].at = p
             /\ \A x \in Requests : \A t \in Services :
                   x # q \/ t # s => handler'[<<x, t>>] = handler[<<x, t>>]
             /\ late \subseteq late' /\ late' \subseteq late \cup {<<q, p>>}
             /\ \A x \in Requests : x # q => trail'[x] = trail[x]
             /\ trail'[q] = IF At(q, s) \in Events /\ handler[<<q, s>>].result = "ok"
                            THEN Append(trail[q], At(q, s)) ELSE trail[q]
      BY <1>1, StepWriting
    <2>2. <<r, e>> \in late' => <<r, e>> \in late
      <3> SUFFICES ASSUME <<r, e>> = <<q, p>> PROVE FALSE
        BY <2>1
      <3> QED
        BY <2>1
    <2>3. e \in Seen(r)' => e \in Seen(r)
      <3>1. CASE trail'[r] = trail[r]
        BY <3>1 DEF Seen
      <3>2. CASE trail'[r] # trail[r]
        <4>1. r = q /\ At(r, s) \in Events /\ trail'[r] = Append(trail[r], At(r, s))
          BY <2>1, <3>2
        <4>2. At(r, s) # e
          BY <1>0, <4>1, OwnerWrites DEF RequestInv, At
        <4> QED
          BY <1>0, <4>1, <4>2, TrailShows
      <3> QED
        BY <3>1, <3>2
    <2> QED
      BY <2>2, <2>3
  <1>2. ASSUME NEW q \in Requests, NEW p \in Events \cup {"enc_keys"}, Arrive(q, p)
        PROVE  e \in Seen(r) \/ <<r, e>> \in late
    <2>1. late' \subseteq late /\ <<q, p>> \in late
      BY <1>2 DEF Arrive
    <2>2. CASE trail'[r] = trail[r]
      BY <2>1, <2>2 DEF Seen
    <2>3. CASE trail'[r] # trail[r]
      <3>1. r = q /\ p \in Events /\ trail'[r] = Append(trail[r], p)
        BY <1>0, <1>2, <2>3 DEF Arrive, TypeOK
      <3>2. Seen(r)' = Seen(r) \cup {p}
        BY <1>0, <3>1, TrailShows
      <3> QED
        BY <2>1, <3>1, <3>2
    <2> QED
      BY <2>2, <2>3
  <1>3. CASE trail' = trail /\ late' = late
    BY <1>3 DEF Seen
  <1>4. \/ \E q \in Requests : \E s \in Services : Step(q, s) \/ Receive(q, s)
        \/ \E q \in Requests : \E p \in Events \cup {"enc_keys"} : Arrive(q, p)
        \/ trail' = trail /\ late' = late
    BY ServicesAre DEF Next, Environment, Submit, Tick, Crash, Restart, vars
  <1> QED
    BY <1>1, <1>2, <1>3, <1>4

\* A service comes to an event that it has not sent, and past all that it has.
LEMMA ComesNew ==
    ASSUME OnceInv, [Next]_vars, NEW r \in Requests, NEW e \in Events, Comes(r, e)
    PROVE  /\ At(r, Owner[e]) \in Ahead(e) /\ ~ Sent(r, e)
           /\ <<At(r, Owner[e]), e>> \in MovesOf[Owner[e]]
  <1> DEFINE x == handler[<<r, Owner[e]>>].at
  <1>1. Owner[e] \in Services /\ ChainInv /\ WrittenOnce(r)
    BY OwnerIs DEF OnceInv
  <1>2. e # "gone" /\ e \in Ahead(e)
    BY AheadIs
  <1>3. <<x, e>> \in MovesOf[Owner[e]]
    BY <1>1, <1>2, NextMoves DEF Comes, At
  <1>4. x \in Ahead(e) /\ x # e
    BY <1>2, <1>3, AheadIs
  <1> QED
    BY <1>1, <1>3, <1>4 DEF WrittenOnce, Sent, At

LEMMA OwnerPlace ==
    \A s \in Services : \A e \in Events : e \in PlacesOf[s] => Owner[e] = s
  BY ServicesAre DEF PlacesOf, Owner, Events

\* A service takes the time when it comes to an event, and only then.
LEMMA StampIs ==
    ASSUME ChainInv', stamp' = Stamped, NEW r \in Requests
    PROVE  \A e \in Events :
              stamp'[r][e] = IF Comes(r, e) THEN elapsed[r] ELSE stamp[r][e]
  <1> SUFFICES ASSUME NEW e \in Events
               PROVE  stamp'[r][e] = IF Comes(r, e) THEN elapsed[r] ELSE stamp[r][e]
    OBVIOUS
  <1>1. \A s \in Services : At(r, s)' = e => s = Owner[e]
    BY OwnerPlace DEF ChainInv, RequestInv, InPlace
  <1>2. (\E s \in Services : At(r, s)' = e /\ At(r, s) # e) <=> Comes(r, e)
    BY <1>1, OwnerIs DEF Comes
  <1>3. stamp'[r][e] = IF \E s \in Services : At(r, s)' = e /\ At(r, s) # e
                       THEN elapsed[r] ELSE stamp[r][e]
    BY DEF Stamped
  <1> QED
    BY <1>2, <1>3

\* A service comes to an event of the chain after all those that were sent.
LEMMA ComesLater ==
    ASSUME OnceInv, [Next]_vars, NEW r \in Requests, TimesInOrder(r),
           NEW e \in Chain, Comes(r, e), NEW d \in Chain, Sent(r, d)
    PROVE  Position(d) < Position(e)
  <1> DEFINE x == At(r, Owner[e])
  <1>1. e \in Events /\ d \in Events /\ Owner[e] \in Services
    BY ChainIs, OwnerIs DEF Events
  <1>2. <<x, e>> \in MovesOf[Owner[e]] /\ d # e
    BY <1>1, ComesNew
  <1>3. At(r, Owner[d]) \notin NotYet[d] \/ At(r, Owner[d]) = d
    BY <1>1 DEF OnceInv, WrittenOnce, Sent, Ahead
  <1>4. RequestInv(r)
    BY DEF OnceInv, ChainInv
  <1>5. /\ d = "request_received" => At(r, "gateway") # "idle"
        /\ d = "auth_validated" => At(r, "identity") # "idle"
        /\ d = "endpoints_resolved" => At(r, "identity") \notin {"idle", "auth_validated"}
        /\ d = "topology_attached" => At(r, "topology") \notin {"idle", "snapshot"}
        /\ d = "path_computed" => At(r, "pce") # "idle"
        /\ d = "keys_retrieved"
              => At(r, "kom") \notin {"idle", "dec_keys", "key_verify_skipped"}
        /\ d = "service_provisioned" => At(r, "provisioning") # "idle"
        /\ d = "response_returned"
              => /\ At(r, "identity") # "idle"
                 /\ \A s \in Services \ {"gateway"} :
                       At(r, s) \in {"idle", "PROVISIONED", "REJECTED"}
    BY <1>3, <1>4, AnsweredIsQuiet DEF NotYet, Owner, TimesInOrder
  <1> HIDE DEF x
  <1>6. /\ e = "request_received" => x = "idle"
        /\ e = "auth_validated" => x = "idle"
        /\ e = "endpoints_resolved" => x = "auth_validated"
        /\ e = "topology_attached" => x = "snapshot"
        /\ e = "path_computed" => x = "idle"
        /\ e = "keys_retrieved" => x \in {"dec_keys", "key_verify_skipped"}
        /\ e = "service_provisioned" => x = "idle"
    BY <1>2 DEF MovesOf, Owner
  <1>7. /\ e = "request_received" => At(r, "gateway") = "idle"
        /\ e = "auth_validated" => At(r, "identity") = "idle"
        /\ e = "endpoints_resolved" => At(r, "identity") = "auth_validated"
        /\ e = "topology_attached" => At(r, "topology") = "snapshot"
        /\ e = "path_computed" => At(r, "pce") = "idle"
        /\ e = "keys_retrieved" => At(r, "kom") \in {"dec_keys", "key_verify_skipped"}
        /\ e = "service_provisioned" => At(r, "provisioning") = "idle"
    BY <1>6 DEF x, Owner
  <1>8. {"idle", "auth_validated", "snapshot", "dec_keys", "key_verify_skipped"}
           \subseteq BeforeCall \ {"PROVISIONED", "REJECTED"}
    BY DEF BeforeCall, Events, KmsCalls
  <1> HIDE DEF x
  <1> DEFINE Idle(s) == At(r, s) = "idle"
  <1>9. /\ e = "request_received" => Idle("identity")
        /\ e \in {"request_received", "auth_validated", "endpoints_resolved"}
              => Idle("topology")
        /\ e \in {"request_received", "auth_validated", "endpoints_resolved",
                  "topology_attached"} => Idle("pce")
        /\ e \in {"request_received", "auth_validated", "endpoints_resolved",
                  "topology_attached", "path_computed"} => Idle("kom")
        /\ e \in {"request_received", "auth_validated", "endpoints_resolved",
                  "topology_attached", "path_computed", "keys_retrieved"}
              => Idle("provisioning")
    BY <1>4, <1>7, <1>8, BelowIdle
  <1>10. e # "response_returned" => d # "response_returned"
    <2>1. e # x
      BY <1>1, ComesNew DEF Sent, x
    <2>2. \A c \in Callers : Down[c] = Owner[e] /\ x = "idle" => At(r, c) = "forward"
      BY <2>1, NextMoves DEF OnceInv, Comes, At, x
    <2>3. /\ e = "path_computed" => At(r, "topology") = "forward"
          /\ e = "auth_validated" => At(r, "gateway") = "forward"
          /\ e = "service_provisioned" => At(r, "kom") = "forward"
      BY <1>6, <2>2, ServicesAre DEF Owner, Down
    <2> QED
      BY <1>5, <1>7, <1>8, <1>9, <2>3, ChainIs, ServicesAre
  <1> USE ChainIs, PositionIs, <1>2, <1>5, <1>7, <1>9, <1>10
  <1>11. CASE e \in {"request_received", "auth_validated"}
    BY <1>11
  <1>12. CASE e \in {"endpoints_resolved", "topology_attached"}
    BY <1>12
  <1>13. CASE e \in {"path_computed", "keys_retrieved"}
    BY <1>13
  <1>14. CASE e \in {"service_provisioned", "response_returned"}
    BY <1>14
  <1> QED
    BY <1>11, <1>12, <1>13, <1>14

LEMMA NextTimes ==
    ASSUME TimesInv, Next, stamp' = Stamped
    PROVE  TimesInv'
  <1>1. /\ OnceInv /\ OnceInv' /\ ChainInv /\ ChainInv' /\ TypeOK
    BY NextOnce DEF TimesInv, OnceInv, ChainInv
  <1>2. stamp' \in [Requests -> [Events -> Nat]]
    BY <1>1 DEF TimesInv, TypeOK, Stamped
  <1> SUFFICES ASSUME NEW r \in Requests PROVE TimesInOrder(r)'
    BY <1>1, <1>2 DEF TimesInv
  <1>3. /\ elapsed[r] \in Nat /\ elapsed'[r] \in Nat /\ elapsed[r] <= elapsed'[r]
        /\ \A e \in Events : stamp[r][e] \in Nat /\ stamp'[r][e] \in Nat
    <2>1. elapsed[r] <= elapsed'[r]
      BY <1>1, NextMoves
    <2>2. elapsed[r] \in Nat /\ elapsed'[r] \in Nat
      BY <1>1 DEF TypeOK, ChainInv
    <2> QED
      BY <1>2, <2>1, <2>2 DEF TimesInv
  <1>4. \A e \in Events : Sent(r, e)' =>
           \/ Comes(r, e) /\ stamp'[r][e] = elapsed[r]
           \/ /\ ~ Comes(r, e) /\ Sent(r, e)
              /\ stamp'[r][e] = stamp[r][e] /\ stamp[r][e] <= elapsed[r]
    BY <1>1, NextSends, StampIs DEF TimesInv, TimesInOrder
  <1>5. Chain \subseteq Events
    BY ChainIs DEF Events
  <1>6. ASSUME NEW e \in Events, Sent(r, e)' PROVE stamp'[r][e] <= elapsed'[r]
    BY <1>3, <1>4, <1>6
  <1>7. ASSUME NEW d \in Chain, NEW e \in Chain, Sent(r, d)', Sent(r, e)',
               Position(d) < Position(e)
        PROVE  stamp'[r][d] <= stamp'[r][e]
    <2>1. d \in Events /\ e \in Events /\ Position(d) \in Int /\ Position(e) \in Int
      BY <1>5, ChainIs, PositionIs
    <2>2. CASE Comes(r, e)
      BY <1>3, <1>4, <1>7, <2>1, <2>2
    <2>3. CASE ~ Comes(r, e) /\ Comes(r, d)
      <3>1. Sent(r, e)
        BY <1>4, <1>7, <2>1, <2>3
      <3>2. Position(e) < Position(d)
        BY <1>1, <2>3, <3>1, ComesLater DEF TimesInv
      <3> QED
        BY <1>7, <2>1, <3>2
    <2>4. CASE ~ Comes(r, e) /\ ~ Comes(r, d)
      BY <1>4, <1>7, <2>1, <2>4 DEF TimesInv, TimesInOrder
    <2> QED
      BY <2>2, <2>3, <2>4
  <1>8. Sent(r, "response_returned")' => At(r, "identity")' \in {"PROVISIONED", "REJECTED"}
    <2>1. "response_returned" \in Events /\ Owner["response_returned"] = "gateway"
      BY DEF Events, Owner
    <2>2. CASE Comes(r, "response_returned")
      BY <1>1, <2>1, <2>2 DEF Comes, ChainInv, RequestInv, AnswersAgree
    <2>3. CASE Sent(r, "response_returned")
      <3>1. handler[<<r, "identity">>].at \in {"PROVISIONED", "REJECTED"}
        BY <2>3 DEF TimesInv, TimesInOrder, At
      <3>2. \A p : <<handler[<<r, "identity">>].at, p>> \notin MovesOf["identity"]
        BY <3>1 DEF MovesOf
      <3> QED
        BY <1>1, <3>1, <3>2, NextMoves, ServicesAre DEF Ended, Replies, At
    <2> QED
      BY <1>1, <2>1, <2>2, <2>3, NextSends
  <1> QED
    BY <1>6, <1>7, <1>8 DEF TimesInOrder

-----------------------------------------------------------------------------
(* The rows of the table.                                                   *)

\* What a table that started as t may hold.
RowSet(t) ==
    ToSet(t) \cup [request_id : Requests, event_type : Events, timestamp : Nat, hops : Int]

\* The rows this run has added to it.
Added(t) == {i \in DOMAIN rows : i > Len(t)}

Tells(i, r, e) == rows[i].request_id = r /\ rows[i].event_type = e

(***************************************************************************)
(* The inductive invariant of the table: what an earlier run left, and one *)
(* row for every event in the trail, with the time its service took.       *)
(***************************************************************************)
RowsFit(t) ==
    /\ rows \in Seq(RowSet(t))
    /\ Len(t) <= Len(rows) /\ \A i \in DOMAIN t : rows[i] = t[i]
    /\ \A i \in Added(t) :
          /\ rows[i].request_id \in Requests
          /\ rows[i].event_type \in Seen(rows[i].request_id)
    /\ \A i \in Added(t) : \A r \in Requests : \A e \in Events : Tells(i, r, e) =>
          /\ rows[i].timestamp = stamp[r][e]
          /\ e = "path_computed" => rows[i].hops = Len(route[r]) - 1
    /\ \A i, j \in Added(t) :
          Tells(i, rows[j].request_id, rows[j].event_type) => i = j
    /\ \A r \in Requests : \A e \in Seen(r) : \E i \in Added(t) : Tells(i, r, e)

\* A trail grows by an event that was sent and is not in it yet.
LEMMA NextGrows ==
    ASSUME OnceInv, Next
    PROVE  \/ trail' = trail
           \/ \E r \in Requests : \E e \in Events :
                 /\ trail' = [trail EXCEPT ![r] = Append(@, e)]
                 /\ e \notin Seen(r) /\ Sent(r, e)
  <1>0. \A r \in Requests : WrittenOnce(r)
    BY DEF OnceInv
  <1>1. ASSUME NEW r \in Requests, NEW s \in Services, Step(r, s) \/ Receive(r, s),
               trail' # trail
        PROVE  \E e \in Events :
                  /\ trail' = [trail EXCEPT ![r] = Append(@, e)]
                  /\ e \notin Seen(r) /\ Sent(r, e)
    <2> DEFINE e == At(r, s)
    <2>1. /\ e \in Events /\ handler[<<r, s>>].result = "ok"
          /\ trail' = [trail EXCEPT ![r] = Append(@, e)]
      BY <1>1, StepWrites
    <2>2. s = Owner[e]
      BY <2>1, OwnerWrites DEF OnceInv, ChainInv, RequestInv
    <2> HIDE DEF e
    <2>3. At(r, Owner[e]) = e /\ handler[<<r, Owner[e]>>].result # "late"
      BY <2>1, <2>2 DEF e
    <2>4. e \notin Seen(r)
      BY <1>0, <2>1, <2>3, AheadIs DEF WrittenOnce
    <2> QED
      BY <2>1, <2>3, <2>4 DEF Sent
  <1>2. ASSUME NEW r \in Requests, NEW e \in Events \cup {"enc_keys"}, Arrive(r, e),
               trail' # trail
        PROVE  /\ e \in Events
               /\ trail' = [trail EXCEPT ![r] = Append(@, e)]
               /\ e \notin Seen(r) /\ Sent(r, e)
    <2>1. /\ e \in Events /\ <<r, e>> \in late
          /\ trail' = [trail EXCEPT ![r] = Append(@, e)]
      BY <1>2 DEF Arrive
    <2> QED
      BY <1>0, <2>1 DEF WrittenOnce, Sent
  <1>3. \/ \E r \in Requests : \E s \in Services : Step(r, s) \/ Receive(r, s)
        \/ \E r \in Requests : \E e \in Events \cup {"enc_keys"} : Arrive(r, e)
        \/ trail' = trail
    BY ServicesAre DEF Next, Environment, Submit, Tick, Crash, Restart
  <1> QED
    BY <1>1, <1>2, <1>3

\* What has grown is found again, and stored.
LEMMA StoredIs ==
    ASSUME TypeOK, NEW r \in Requests, NEW e \in Events,
           trail' = [trail EXCEPT ![r] = Append(@, e)]
    PROVE  Stored = Append(rows, Row(r, e, stamp'[r][e], Len(route[r]) - 1))
  <1>1. /\ trail \in [Requests -> Seq(Events)]
        /\ trail[r] \in Seq(Events) /\ trail'[r] = Append(trail[r], e)
    BY DEF TypeOK
  <1>2. Len(trail'[r]) = Len(trail[r]) + 1 /\ Len(trail[r]) \in Nat /\ trail'[r][Len(trail'[r])] = e
    BY <1>1
  <1>3. trail'[r] # trail[r]
    <2> SUFFICES ASSUME trail'[r] = trail[r] PROVE FALSE
      OBVIOUS
    <2>1. Len(trail'[r]) = Len(trail[r])
      OBVIOUS
    <2> QED
      BY <1>2, <2>1
  <1>4. \A q \in Requests : trail'[q] # trail[q] <=> q = r
    BY <1>1, <1>3
  <1>5. (CHOOSE q \in Requests : trail'[q] # trail[q]) = r
    BY <1>4
  <1>6. Last(trail'[r]) = e
    BY <1>2 DEF Last
  <1> QED
    BY <1>3, <1>5, <1>6 DEF Stored

\* The path changes only before the path computation has begun.
LEMMA NextRoute ==
    ASSUME ChainInv, Next, NEW r \in Requests, route'[r] # route[r]
    PROVE  At(r, "pce") = "idle"
  <1>1. ASSUME NEW q \in Requests, NEW s \in Services, Step(q, s) \/ Receive(q, s)
        PROVE  At(r, "pce") = "idle"
    <2>1. PICK p \in PlacesOf[s] : LegalMove(q, s, p)
      BY <1>1, StepIsLegal DEF ChainInv
    <2>2. CASE q = r
      BY <2>1, <2>2 DEF LegalMove, LegalRoute
    <2>3. CASE q # r
      BY <1>1, <2>3, RouteIsFixed DEF ChainInv
    <2> QED
      BY <2>2, <2>3
  <1>2. \/ \E q \in Requests : \E s \in Services : Step(q, s) \/ Receive(q, s)
        \/ route' = route
    BY ServicesAre DEF Next, Environment, Submit, Tick, Crash, Restart, Arrive
  <1> QED
    BY <1>1, <1>2

\* What was sent keeps its time, and the path that was announced its length.
LEMMA SentStays ==
    ASSUME OnceInv, Next, stamp' = Stamped, NEW r \in Requests, NEW e \in Events, Sent(r, e)
    PROVE  /\ stamp'[r][e] = stamp[r][e]
           /\ e = "path_computed" => route'[r] = route[r]
  <1>1. OnceInv' /\ ChainInv /\ ChainInv'
    BY NextOnce DEF OnceInv
  <1>2. stamp'[r][e] = stamp[r][e]
    BY <1>1, ComesNew, StampIs
  <1>3. ASSUME e = "path_computed" PROVE route'[r] = route[r]
    <2>1. Owner[e] = "pce" /\ Ahead(e) = {"idle", "path_computed"}
      BY <1>3, ChainIs DEF Owner, Ahead, NotYet
    <2>2. At(r, "pce") # "idle"
      BY <1>3, <2>1 DEF OnceInv, WrittenOnce, Sent
    <2> QED
      BY <1>1, <2>2, NextRoute
  <1> QED
    BY <1>2, <1>3

\* The table without a new row: what it tells stays true.
LEMMA RowsStay ==
    ASSUME OnceInv, Next, stamp' = Stamped, NEW t, RowsFit(t), NEW i \in Added(t),
           NEW r \in Requests, NEW e \in Events, Tells(i, r, e)
    PROVE  /\ e \in Seen(r) /\ rows[i].timestamp = stamp'[r][e]
           /\ e = "path_computed" => rows[i].hops = Len(route'[r]) - 1
  <1>1. e \in Seen(r)
    BY DEF RowsFit, Tells
  <1>2. /\ rows[i].timestamp = stamp[r][e]
        /\ e = "path_computed" => rows[i].hops = Len(route[r]) - 1
    BY DEF RowsFit
  <1> QED
    BY <1>1, <1>2, SentStays DEF Sent

LEMMA NextRows ==
    ASSUME TimesInv, Next, stamp' = Stamped, rows' = Stored,
           NEW t, t \in Seq(ToSet(t)), RowsFit(t)
    PROVE  RowsFit(t)'
  <1>1. /\ OnceInv /\ TypeOK /\ TypeOK' /\ TimesInv'
    BY NextTimes, NextOnce DEF TimesInv, OnceInv, ChainInv
  <1>2. CASE trail' = trail
    <2>1. rows' = rows /\ \A r \in Requests : Seen(r)' = Seen(r)
      BY <1>2 DEF Stored, Seen
    <2>2. Added(t)' = Added(t) /\ \A i, r, e : Tells(i, r, e)' = Tells(i, r, e)
      BY <2>1 DEF Added, Tells
    <2>3. \A i \in Added(t) : \A r \in Requests : \A e \in Events : Tells(i, r, e) =>
             /\ rows[i].timestamp = stamp'[r][e]
             /\ e = "path_computed" => rows[i].hops = Len(route'[r]) - 1
      BY <1>1, RowsStay
    <2> QED
      BY <2>1, <2>2, <2>3 DEF RowsFit
  <1>3. ASSUME NEW q \in Requests, NEW d \in Events,
               trail' = [trail EXCEPT ![q] = Append(@, d)], d \notin Seen(q), Sent(q, d)
        PROVE  RowsFit(t)'
    <2> DEFINE new == Row(q, d, stamp'[q][d], Len(route[q]) - 1)
               n == Len(rows) + 1
    <2>1. rows' = Append(rows, new)
      BY <1>1, <1>3, StoredIs
    <2>2. /\ new \in RowSet(t)
          /\ new.request_id = q /\ new.event_type = d /\ new.timestamp = stamp'[q][d]
          /\ new.hops = Len(route[q]) - 1
      <3>1. stamp'[q][d] \in Nat
        BY <1>1 DEF TimesInv
      <3>2. Len(route[q]) \in Nat
        BY <1>1, ChainAssumption DEF TypeOK
      <3> QED
        BY <3>1, <3>2 DEF Row, RowSet
    <2> HIDE DEF new
    <2>3. rows \in Seq(RowSet(t)) /\ Len(t) \in Nat /\ Len(rows) \in Nat /\ Len(t) <= Len(rows)
      BY DEF RowsFit
    <2>4. /\ rows' \in Seq(RowSet(t)) /\ Len(rows') = n
          /\ DOMAIN rows' = DOMAIN rows \cup {n} /\ n \notin DOMAIN rows
          /\ \A i \in DOMAIN rows : rows'[i] = rows[i]
          /\ rows'[n] = new
      BY <2>1, <2>2, <2>3
    <2>5. Added(t)' = Added(t) \cup {n}
      BY <2>3, <2>4 DEF Added
    <2>6. n \notin Added(t) /\ Added(t) \subseteq DOMAIN rows /\ DOMAIN t \subseteq DOMAIN rows
      BY <2>3, <2>4 DEF Added
    <2> HIDE DEF n
    <2>7. /\ Seen(q)' = Seen(q) \cup {d}
          /\ \A r \in Requests : r # q => Seen(r)' = Seen(r)
      <3>1. trail'[q] = Append(trail[q], d) /\ \A r \in Requests : r # q => trail'[r] = trail[r]
        BY <1>1, <1>3 DEF TypeOK
      <3> QED
        BY <1>1, <3>1, TrailShows DEF Seen
    <2>8. /\ \A i \in Added(t) : i \in DOMAIN rows /\ rows'[i] = rows[i]
          /\ rows'[n].request_id = q /\ rows'[n].event_type = d
      BY <2>2, <2>4, <2>6
    <2>9. Len(t) <= Len(rows') /\ \A i \in DOMAIN t : rows'[i] = t[i]
      <3>1. Len(t) <= Len(rows')
        BY <2>3, <2>4 DEF n
      <3> QED
        BY <2>4, <2>6, <3>1 DEF RowsFit
    <2> DEFINE Shown(r) == {trail'[r][k] : k \in DOMAIN trail'[r]}
    <2>10. ASSUME NEW i \in Added(t)'
           PROVE  /\ rows'[i].request_id \in Requests
                  /\ rows'[i].event_type \in Shown(rows'[i].request_id)
      <3>1. \A r \in Requests : Seen(r) \subseteq Shown(r)
        BY <2>7 DEF Seen
      <3>2. d \in Shown(q)
        BY <2>7 DEF Seen
      <3> HIDE DEF Shown
      <3>3. CASE i \in Added(t)
        <4>1. rows[i].request_id \in Requests /\ rows[i].event_type \in Seen(rows[i].request_id)
          BY <3>3 DEF RowsFit
        <4> QED
          BY <2>8, <3>1, <3>3, <4>1
      <3>4. CASE i = n
        BY <2>8, <3>2, <3>4
      <3> QED
        BY <2>5, <3>3, <3>4
    <2>11. ASSUME NEW i \in Added(t)', NEW r \in Requests, NEW e \in Events,
                  rows'[i].request_id = r, rows'[i].event_type = e
           PROVE  /\ rows'[i].timestamp = stamp'[r][e]
                  /\ e = "path_computed" => rows'[i].hops = Len(route'[r]) - 1
      <3>1. CASE i \in Added(t)
        <4>1. rows'[i] = rows[i] /\ Tells(i, r, e)
          BY <2>8, <2>11, <3>1 DEF Tells
        <4> QED
          BY <1>1, <3>1, <4>1, RowsStay
      <3>2. CASE i = n
        <4>1. r = q /\ e = d
          BY <2>8, <2>11, <3>2
        <4>2. d = "path_computed" => route'[q] = route[q]
          BY <1>1, <1>3, SentStays
        <4> QED
          BY <2>2, <2>4, <3>2, <4>1, <4>2
      <3> QED
        BY <2>5, <3>1, <3>2
    <2>12. ASSUME NEW i \in Added(t)', NEW j \in Added(t)',
                  rows'[i].request_id = rows'[j].request_id,
                  rows'[i].event_type = rows'[j].event_type
           PROVE  i = j
      <3>1. ASSUME NEW k \in Added(t)
            PROVE  ~ (rows'[k].request_id = q /\ rows'[k].event_type = d)
        BY <1>3, <2>8 DEF RowsFit
      <3>2. CASE i \in Added(t) /\ j \in Added(t)
        <4>1. rows[i].request_id = rows[j].request_id /\ rows[i].event_type = rows[j].event_type
          BY <2>8, <2>12, <3>2
        <4> QED
          BY <3>2, <4>1 DEF RowsFit, Tells
      <3>3. CASE i \in Added(t) /\ j = n
        BY <2>8, <2>12, <3>1, <3>3
      <3>4. CASE i = n /\ j \in Added(t)
        BY <2>8, <2>12, <3>1, <3>4
      <3> QED
        BY <2>5, <3>2, <3>3, <3>4
    <2>13. ASSUME NEW r \in Requests, NEW e \in Seen(r)'
           PROVE  \E i \in Added(t)' : rows'[i].request_id = r /\ rows'[i].event_type = e
      <3>1. CASE e \in Seen(r)
        <4>1. PICK i \in Added(t) : rows[i].request_id = r /\ rows[i].event_type = e
          BY <3>1 DEF RowsFit, Tells
        <4> QED
          BY <2>5, <2>8, <4>1
      <3>2. CASE e \notin Seen(r)
        BY <2>5, <2>7, <2>8, <3>2
      <3> QED
        BY <3>1, <3>2
    <2>14. \A i \in Added(t)' : rows'[i].event_type \in Seen(rows[i].request_id)'
      BY <2>10 DEF Seen
    <2> HIDE DEF Shown
    <2> QED
      BY <2>4, <2>9, <2>10, <2>11, <2>12, <2>13, <2>14 DEF RowsFit, Tells
  <1> QED
    BY <1>1, <1>2, <1>3, NextGrows

-----------------------------------------------------------------------------
(* What a query returns.                                                    *)

LEMMA EventsFinite == IsFiniteSet(Events)
  <1> DEFINE nth == <<"request_received", "response_returned", "downstream_error",
                      "auth_validated", "resolution_failed", "endpoints_resolved",
                      "topology_source_error", "topology_empty", "topology_attached",
                      "path_not_found", "path_computed", "kms_error",
                      "key_verify_skipped", "keys_retrieved", "service_provisioned">>
             place == [e \in Events |-> CHOOSE i \in 1 .. 15 : nth[i] = e]
  <1>1. \A e \in Events : \E i \in 1 .. 15 : nth[i] = e
    <2>1. ASSUME NEW e \in Events
          PROVE  \/ e = nth[1] \/ e = nth[2] \/ e = nth[3] \/ e = nth[4] \/ e = nth[5]
                 \/ e = nth[6] \/ e = nth[7] \/ e = nth[8] \/ e = nth[9] \/ e = nth[10]
                 \/ e = nth[11] \/ e = nth[12] \/ e = nth[13] \/ e = nth[14] \/ e = nth[15]
      BY DEF Events
    <2> HIDE DEF nth
    <2> QED
      BY <2>1
  <1> HIDE DEF nth
  <1>2. \A e \in Events : place[e] \in 1 .. 15 /\ nth[place[e]] = e
    BY <1>1
  <1>3. place \in Injection(Events, 1 .. 15)
    BY <1>2 DEF Injection, IsInjective
  <1> HIDE DEF place
  <1>4. IsFiniteSet(1 .. 15)
    <2>1. 1 \in Int /\ 15 \in Int
      OBVIOUS
    <2> QED
      BY ONLY <2>1, FS_Interval
  <1> QED
    BY <1>3, <1>4, FS_Injection

\* The rows of a request are never more than a query returns.
LEMMA QueryIs ==
    ASSUME TypeOK, NEW t \in Tables, RowsFit(t), NEW r \in Requests
    PROVE  fetch_events(r) = RowsOf(r)
  <1> DEFINE old == {i \in DOMAIN t : t[i].request_id = r}
             new == {i \in Added(t) : rows[i].request_id = r}
             type == [i \in new |-> rows[i].event_type]
  <1>1. /\ t \in Seq(ToSet(t)) /\ Limit \in Nat
        /\ Cardinality(old) + Cardinality(Events) <= Limit
    BY TrailAssumption
  <1>2. rows \in Seq(RowSet(t)) /\ Len(t) \in Nat /\ Len(rows) \in Nat
    BY <1>1 DEF RowsFit
  <1>3. RowsOf(r) = old \cup new
    <2>1. DOMAIN t = 1 .. Len(t) /\ DOMAIN rows = 1 .. Len(rows) /\ Len(t) <= Len(rows)
      BY <1>1, <1>2 DEF RowsFit
    <2>2. \A i \in DOMAIN rows : i \in DOMAIN t \/ i \in Added(t)
      BY <1>2, <2>1 DEF Added
    <2>3. \A i \in DOMAIN t : i \in DOMAIN rows /\ rows[i] = t[i]
      BY <1>2, <2>1 DEF RowsFit
    <2>4. \A i \in Added(t) : i \in DOMAIN rows
      BY DEF Added
    <2> QED
      BY <2>2, <2>3, <2>4 DEF RowsOf
  <1>4. IsFiniteSet(old)
    <2>1. old \in SUBSET (1 .. Len(t))
      BY <1>1
    <2> QED
      BY <1>2, <2>1, FS_Interval, FS_Subset
  <1>5. IsFiniteSet(new) /\ Cardinality(new) <= Cardinality(Events)
    <2>1. \A q \in Requests : Seen(q) \subseteq Events
      BY DEF TypeOK, Seen
    <2>2. \A i \in new : rows[i].event_type \in Events
      BY <2>1 DEF RowsFit
    <2>3. \A i, j \in new : rows[i].event_type = rows[j].event_type => i = j
      BY DEF RowsFit, Tells
    <2> HIDE DEF new
    <2>4. type \in Injection(new, Events)
      BY <2>2, <2>3 DEF Injection, IsInjective
    <2> HIDE DEF type
    <2> QED
      BY <2>4, EventsFinite, FS_Injection
  <1> HIDE DEF old, new
  <1>6. IsFiniteSet(RowsOf(r)) /\ Cardinality(RowsOf(r)) <= Limit
    <2>1. /\ Cardinality(old) \in Nat /\ Cardinality(new) \in Nat
          /\ Cardinality(Events) \in Nat /\ Cardinality(old \cap new) \in Nat
      <3>1. old \cap new \in SUBSET old
        OBVIOUS
      <3> QED
        BY <1>4, <1>5, <3>1, EventsFinite, FS_CardinalityType, FS_Subset
    <2>2. /\ IsFiniteSet(old \cup new)
          /\ Cardinality(old \cup new)
                = Cardinality(old) + Cardinality(new) - Cardinality(old \cap new)
      BY <1>4, <1>5, FS_Union
    <2> QED
      BY <1>1, <1>3, <1>5, <2>1, <2>2
  <1>7. ASSUME NEW i \in RowsOf(r)
        PROVE  Cardinality({j \in RowsOf(r) : j <= i}) <= Limit
    <2> DEFINE upto == {j \in RowsOf(r) : j <= i}
    <2>1. upto \in SUBSET RowsOf(r)
      OBVIOUS
    <2>2. /\ IsFiniteSet(upto) /\ Cardinality(upto) <= Cardinality(RowsOf(r))
          /\ Cardinality(upto) \in Nat /\ Cardinality(RowsOf(r)) \in Nat
      <3> HIDE DEF upto
      <3> QED
        BY <1>6, <2>1, FS_Subset, FS_CardinalityType
    <2> HIDE DEF upto
    <2>3. Cardinality(upto) <= Limit
      BY <1>1, <1>6, <2>2
    <2> QED
      BY <2>3 DEF upto
  <1> QED
    BY <1>7 DEF fetch_events, Query

\* The last row of an event in the trail is the one this run added.
LEMMA LastIs ==
    ASSUME NEW t \in Tables, RowsFit(t), NEW r \in Requests, NEW e \in Events, e \in Seen(r)
    PROVE  /\ TimeOf(RowsOf(r), e) = stamp[r][e]
           /\ e = "path_computed" => path_info(RowsOf(r)) = Len(route[r]) - 1
  <1> DEFINE all == {i \in RowsOf(r) : rows[i].event_type = e}
  <1>1. t \in Seq(ToSet(t)) /\ rows \in Seq(RowSet(t)) /\ Len(t) \in Nat
    BY TrailAssumption DEF RowsFit
  <1>2. PICK i \in Added(t) : Tells(i, r, e)
    BY DEF RowsFit
  <1>3. i \in all /\ i \in Int /\ i > Len(t)
    BY <1>1, <1>2 DEF RowsOf, Tells, Added
  <1>4. \A j \in all : j \in Int /\ i >= j
    <2> SUFFICES ASSUME NEW j \in all PROVE j \in Int /\ i >= j
      OBVIOUS
    <2>1. j \in DOMAIN rows /\ j \in Int /\ Tells(j, r, e)
      BY <1>1 DEF RowsOf, Tells
    <2>2. CASE j > Len(t)
      BY <1>2, <1>3, <2>1, <2>2 DEF RowsFit, Tells, Added
    <2>3. CASE ~ (j > Len(t))
      BY <1>1, <1>3, <2>1, <2>3
    <2> QED
      BY <2>2, <2>3
  <1>5. LastOf(RowsOf(r), e) = i
    <2> HIDE DEF all
    <2>1. \A x \in all : (\A y \in all : x >= y) <=> x = i
      BY <1>3, <1>4
    <2>2. Max(all) = i
      BY <1>3, <2>1 DEF Max
    <2> QED
      BY <2>2 DEF LastOf, all
  <1>6. /\ rows[i].timestamp = stamp[r][e]
        /\ e = "path_computed" => rows[i].hops = Len(route[r]) - 1
    BY <1>2 DEF RowsFit
  <1> QED
    BY <1>5, <1>6 DEF TimeOf, path_info

-----------------------------------------------------------------------------
(* The samples.                                                             *)

LEMMA BoundsAre ==
    Bounds = {"request_received", "endpoints_resolved", "topology_attached",
              "path_computed", "keys_retrieved", "service_provisioned",
              "response_returned"}
  <1> USE DEF STAGES
  <1>1. DOMAIN STAGES = 1 .. 6
    OBVIOUS
  <1>2. /\ ToSet(STAGES[1]) = {"request_received", "endpoints_resolved"}
        /\ ToSet(STAGES[2]) = {"endpoints_resolved", "topology_attached"}
        /\ ToSet(STAGES[3]) = {"topology_attached", "path_computed"}
        /\ ToSet(STAGES[4]) = {"path_computed", "keys_retrieved"}
        /\ ToSet(STAGES[5]) = {"keys_retrieved", "service_provisioned"}
        /\ ToSet(STAGES[6]) = {"service_provisioned", "response_returned"}
    BY DEF ToSet
  <1>3. Bounds = UNION {ToSet(STAGES[i]) : i \in 1 .. 6}
    BY <1>1 DEF Bounds
  <1> DEFINE stage(i) == ToSet(STAGES[i])
  <1>4. Bounds = stage(1) \cup stage(2) \cup stage(3) \cup stage(4) \cup stage(5) \cup stage(6)
    <2> HIDE DEF STAGES
    <2>1. 1 .. 6 = {1, 2, 3, 4, 5, 6}
      OBVIOUS
    <2> QED
      BY <1>3, <2>1
  <1> HIDE DEF STAGES
  <1> QED
    BY <1>2, <1>4

LEMMA BoundsInChain == Bounds \subseteq Chain /\ Chain \subseteq Events
  BY BoundsAre, ChainIs DEF Events

(***************************************************************************)
(* The inductive invariant of the samples: what was measured without a gap *)
(* is what the events of this run say, and only an older row can have      *)
(* hidden a gap.                                                           *)
(***************************************************************************)
SampleFits(r) ==
    sample[r] # NoSample =>
        /\ sample[r].gap = {} =>
              /\ Bounds \subseteq Seen(r)
              /\ sample[r].e2e = stamp[r]["response_returned"] - stamp[r]["request_received"]
              /\ sample[r].hops = Len(route[r]) - 1
        /\ sample[r].gap # {} =>
              \E i \in DOMAIN rows : rows[i].request_id = r /\ rows[i].timestamp < 0

MeasureInv(t) ==
    /\ TimesInv /\ RowsFit(t)
    /\ sample = [r \in Requests |-> sample[r]]
    /\ \A r \in Requests : SampleFits(r)

\* The stages of a trail without a gap add up to the time between its ends.
LEMMA StagesAddUp ==
    ASSUME TimesInv, NEW t \in Tables, RowsFit(t), NEW r \in Requests, Bounds \subseteq Seen(r)
    PROVE  EndToEnd(stage_latencies(RowsOf(r)))
              = stamp[r]["response_returned"] - stamp[r]["request_received"]
  <1> DEFINE at(e) == stamp[r][e]
             d == stage_latencies(RowsOf(r))
  <1>1. \A e \in Bounds : /\ TimeOf(RowsOf(r), e) = at(e) /\ at(e) \in Int
                          /\ e \in Chain /\ e \in Events /\ Sent(r, e)
    BY BoundsInChain, LastIs DEF TimesInv, Sent
  <1>2. \A e, f \in Bounds : Position(e) < Position(f) => at(e) <= at(f)
    BY <1>1 DEF TimesInv, TimesInOrder
  <1>3. /\ at("request_received") <= at("endpoints_resolved")
        /\ at("endpoints_resolved") <= at("topology_attached")
        /\ at("topology_attached") <= at("path_computed")
        /\ at("path_computed") <= at("keys_retrieved")
        /\ at("keys_retrieved") <= at("service_provisioned")
        /\ at("service_provisioned") <= at("response_returned")
    BY <1>2, BoundsAre, PositionIs
  <1> HIDE DEF at
  <1>4. ASSUME NEW i \in 1 .. 6, NEW e \in Bounds, NEW f \in Bounds,
               STAGES[i][1] = e, STAGES[i][2] = f, at(e) <= at(f)
        PROVE  d[i] = at(f) - at(e)
    <2>1. DOMAIN STAGES = 1 .. 6
      BY DEF STAGES
    <2>2. d[i] = LET x == TimeOf(RowsOf(r), f) - TimeOf(RowsOf(r), e)
                 IN IF x > 0 THEN x ELSE 0
      BY <1>4, <2>1 DEF stage_latencies
    <2> HIDE DEF d
    <2> QED
      BY <1>1, <1>4, <2>2
  <1> HIDE DEF d
  <1>5. /\ d[1] = at("endpoints_resolved") - at("request_received")
        /\ d[2] = at("topology_attached") - at("endpoints_resolved")
        /\ d[3] = at("path_computed") - at("topology_attached")
    BY <1>3, <1>4, BoundsAre DEF STAGES
  <1>6. /\ d[4] = at("keys_retrieved") - at("path_computed")
        /\ d[5] = at("service_provisioned") - at("keys_retrieved")
        /\ d[6] = at("response_returned") - at("service_provisioned")
    BY <1>3, <1>4, BoundsAre DEF STAGES
  <1>7. \A e \in {"request_received", "endpoints_resolved", "topology_attached",
                  "path_computed", "keys_retrieved", "service_provisioned",
                  "response_returned"} : at(e) \in Int
    BY <1>1, BoundsAre
  <1>8. EndToEnd(d) = at("response_returned") - at("request_received")
    BY <1>5, <1>6, <1>7 DEF EndToEnd
  <1> QED
    BY <1>8 DEF at, d

LEMMA TimesStay ==
    ASSUME TimesInv, UNCHANGED vars, stamp' = stamp
    PROVE  TimesInv'
  <1>1. OnceInv'
    BY NextOnce DEF TimesInv
  <1>2. /\ UNCHANGED <<handler, trail, late, elapsed>>
        /\ \A r : \A e : Sent(r, e)' <=> Sent(r, e)
    BY DEF vars, Sent, Seen, At
  <1>3. ASSUME NEW r \in Requests PROVE TimesInOrder(r)'
    <2>1. At(r, "identity")' = At(r, "identity")
      BY <1>2 DEF At
    <2>2. TimesInOrder(r)
      BY DEF TimesInv
    <2> HIDE DEF Sent
    <2> QED
      BY <1>2, <2>1, <2>2 DEF TimesInOrder
  <1> QED
    BY <1>1, <1>3 DEF TimesInv

\* A measurement leaves a sample that fits.
LEMMA MeasureFits ==
    ASSUME NEW t \in Tables, MeasureInv(t), NEW q \in Requests, Measure(q)
    PROVE  MeasureInv(t)'
  <1>1. /\ UNCHANGED <<vars, rows, stamp>>
        /\ sample' = [sample EXCEPT ![q] = Sample(q, fetch_events(q))]
        /\ Complete(fetch_events(q))
    BY DEF Measure
  <1>2. fetch_events(q) = RowsOf(q)
    BY QueryIs DEF MeasureInv, TimesInv, OnceInv, ChainInv
  <1> DEFINE new == Sample(q, RowsOf(q))
  <1>3. /\ new.gap = Bounds \ Seen(q)
        /\ new.e2e = EndToEnd(stage_latencies(RowsOf(q)))
        /\ new.hops = path_info(RowsOf(q))
    BY DEF Sample, Seen, ToSet
  <1> HIDE DEF new
  <1>4. /\ sample' = [r \in Requests |-> sample'[r]]
        /\ sample'[q] = new
        /\ \A r \in Requests : r # q => sample'[r] = sample[r]
    <2>1. /\ sample = [r \in Requests |-> sample[r]]
          /\ sample' = [sample EXCEPT ![q] = new]
      BY <1>1, <1>2 DEF MeasureInv, new
    <2> QED
      BY <2>1
  <1>5. new.gap = {} =>
           /\ Bounds \subseteq Seen(q)
           /\ new.e2e = stamp[q]["response_returned"] - stamp[q]["request_received"]
           /\ new.hops = Len(route[q]) - 1
    <2> SUFFICES ASSUME new.gap = {}
                 PROVE  /\ Bounds \subseteq Seen(q)
                        /\ new.e2e = stamp[q]["response_returned"] - stamp[q]["request_received"]
                        /\ new.hops = Len(route[q]) - 1
      OBVIOUS
    <2>1. Bounds \subseteq Seen(q)
      BY <1>3
    <2>2. new.e2e = stamp[q]["response_returned"] - stamp[q]["request_received"]
      BY <1>3, <2>1, StagesAddUp DEF MeasureInv
    <2>3. "path_computed" \in Seen(q) /\ "path_computed" \in Events
      BY <2>1, BoundsAre DEF Events
    <2>4. new.hops = Len(route[q]) - 1
      BY <1>3, <2>3, LastIs DEF MeasureInv
    <2> QED
      BY <2>1, <2>2, <2>4
  <1>6. new.gap # {} =>
           \E i \in DOMAIN rows : rows[i].request_id = q /\ rows[i].timestamp < 0
    <2> SUFFICES ASSUME NEW e \in Bounds, e \notin Seen(q)
                 PROVE  \E i \in DOMAIN rows : rows[i].request_id = q /\ rows[i].timestamp < 0
      BY <1>3
    <2>1. e \in Types(RowsOf(q))
      BY <1>1, <1>2 DEF Complete
    <2>2. PICK i \in DOMAIN rows : rows[i].request_id = q /\ rows[i].event_type = e
      BY <2>1 DEF Types, RowsOf
    <2>3. i \notin Added(t)
      BY <2>2 DEF MeasureInv, RowsFit
    <2>4. i \in DOMAIN t /\ t[i] = rows[i]
      <3>1. t \in Seq(ToSet(t)) /\ rows \in Seq(RowSet(t)) /\ Len(t) \in Nat
        BY TrailAssumption DEF MeasureInv, RowsFit
      <3>2. i \in DOMAIN t
        BY <2>3, <3>1 DEF Added
      <3> QED
        BY <3>2 DEF MeasureInv, RowsFit
    <2> QED
      BY <2>2, <2>4, TrailAssumption
  <1>7. TimesInv' /\ RowsFit(t)'
    <2>1. TimesInv'
      BY <1>1, TimesStay DEF MeasureInv
    <2>2. RowsFit(t)'
      BY <1>1 DEF MeasureInv, RowsFit, Added, Tells, Seen, vars
    <2> QED
      BY <2>1, <2>2
  <1>8. ASSUME NEW r \in Requests PROVE SampleFits(r)'
    <2>1. rows' = rows /\ stamp' = stamp /\ route' = route /\ trail' = trail
      BY <1>1 DEF vars
    <2>2. CASE r = q
      BY <1>4, <1>5, <1>6, <2>1, <2>2 DEF SampleFits, Seen
    <2>3. CASE r # q
      BY <1>4, <2>1, <2>3 DEF MeasureInv, SampleFits, Seen
    <2> QED
      BY <2>2, <2>3
  <1> QED
    BY <1>4, <1>7, <1>8 DEF MeasureInv

\* What the chain does meanwhile leaves the samples what they were.
LEMMA SamplesStay ==
    ASSUME NEW t \in Tables, MeasureInv(t), Next, stamp' = Stamped, rows' = Stored,
           sample' = sample
    PROVE  MeasureInv(t)'
  <1>1. TimesInv' /\ RowsFit(t)' /\ OnceInv
    BY NextTimes, NextRows, TrailAssumption DEF MeasureInv, TimesInv
  <1>2. \A r \in Requests : Seen(r) \subseteq Seen(r)'
    <2>1. TypeOK
      BY DEF MeasureInv, TimesInv, OnceInv, ChainInv
    <2>2. CASE trail' = trail
      BY <2>2 DEF Seen
    <2>3. ASSUME NEW q \in Requests, NEW d \in Events,
                 trail' = [trail EXCEPT ![q] = Append(@, d)]
          PROVE  \A r \in Requests : Seen(r) \subseteq Seen(r)'
      <3>1. trail'[q] = Append(trail[q], d) /\ \A r \in Requests : r # q => trail'[r] = trail[r]
        BY <2>1, <2>3 DEF TypeOK
      <3> QED
        BY <2>1, <3>1, TrailShows DEF Seen
    <2> QED
      BY <1>1, <2>2, <2>3, NextGrows
  <1>3. \A i \in DOMAIN rows : i \in DOMAIN rows' /\ rows'[i] = rows[i]
    <2>1. rows \in Seq(RowSet(t)) /\ rows' \in Seq(RowSet(t))
      BY <1>1 DEF MeasureInv, RowsFit, RowSet
    <2>2. rows' = rows \/ \E x : rows' = Append(rows, x)
      BY DEF Stored
    <2> QED
      BY <2>1, <2>2
  <1>4. ASSUME NEW r \in Requests PROVE SampleFits(r)'
    <2>1. CASE sample[r].gap = {} /\ sample[r] # NoSample
      <3>1. /\ Bounds \subseteq Seen(r)
            /\ sample[r].e2e = stamp[r]["response_returned"] - stamp[r]["request_received"]
            /\ sample[r].hops = Len(route[r]) - 1
        BY <2>1 DEF MeasureInv, SampleFits
      <3>2. \A e \in Bounds : stamp'[r][e] = stamp[r][e]
        BY <1>1, <3>1, BoundsInChain, SentStays DEF Sent
      <3>3. route'[r] = route[r]
        BY <1>1, <3>1, BoundsAre, BoundsInChain, SentStays DEF Sent
      <3> QED
        BY <1>2, <2>1, <3>1, <3>2, <3>3, BoundsAre DEF SampleFits
    <2>2. CASE sample[r].gap # {} /\ sample[r] # NoSample
      BY <1>3, <2>2 DEF MeasureInv, SampleFits
    <2>3. CASE sample[r] = NoSample
      BY <2>3 DEF SampleFits
    <2> QED
      BY <2>1, <2>2, <2>3
  <1> QED
    BY <1>1, <1>4 DEF MeasureInv

LEMMA TrailInitFits == TrailInit => \E t \in Tables : MeasureInv(t)
  <1> SUFFICES ASSUME TrailInit PROVE \E t \in Tables : MeasureInv(t)
    OBVIOUS
  <1>1. ChainInv /\ rows \in Tables
    BY InitInv DEF TrailInit
  <1>2. \A r \in Requests : trail[r] = <<>> /\ \A s \in Services : At(r, s) = "idle"
    BY DEF TrailInit, Init, At
  <1>3. \A r \in Requests : Seen(r) = {}
    BY <1>2 DEF Seen
  <1>4. late = {} /\ stamp \in [Requests -> [Events -> Nat]]
    BY DEF TrailInit, Init
  <1>5. OnceInv
    BY <1>1, <1>3, <1>4 DEF OnceInv, WrittenOnce
  <1>6. \A r \in Requests : \A e \in Events : ~ Sent(r, e)
    BY <1>2, <1>3, <1>4, OwnerIs DEF Sent, Events
  <1>7. TimesInv
    <2>1. Chain \subseteq Events /\ "response_returned" \in Events
      BY BoundsInChain DEF Events
    <2> QED
      BY <1>4, <1>5, <1>6, <2>1 DEF TimesInv, TimesInOrder
  <1>8. RowsFit(rows)
    <2>1. rows \in Seq(ToSet(rows)) /\ Added(rows) = {}
      BY <1>1, TrailAssumption DEF Added
    <2>2. rows \in Seq(RowSet(rows)) /\ Len(rows) \in Nat
      BY <2>1 DEF RowSet
    <2> QED
      BY <1>3, <2>1, <2>2 DEF RowsFit
  <1>9. sample = [r \in Requests |-> sample[r]] /\ \A r \in Requests : SampleFits(r)
    BY DEF TrailInit, SampleFits
  <1> QED
    BY <1>1, <1>7, <1>8, <1>9 DEF MeasureInv

LEMMA TrailKeeps ==
    ASSUME \E t \in Tables : MeasureInv(t), [TrailNext]_<<vars, trailVars>>
    PROVE  (\E t \in Tables : MeasureInv(t))'
  <1>1. PICK t \in Tables : MeasureInv(t)
    OBVIOUS
  <1>2. CASE UNCHANGED <<vars, trailVars>>
    <2>1. UNCHANGED <<handler, trail, late, elapsed, route, stamp, rows, sample>> /\ UNCHANGED vars
      BY <1>2 DEF vars, trailVars
    <2>2. TimesInv'
      BY <1>1, <2>1, TimesStay DEF MeasureInv
    <2>3. RowsFit(t)'
      BY <1>1, <2>1 DEF MeasureInv, RowsFit, Added, Tells, Seen
    <2>4. sample' = [r \in Requests |-> sample'[r]] /\ \A r \in Requests : SampleFits(r)'
      BY <1>1, <2>1 DEF MeasureInv, SampleFits, Seen
    <2> QED
      BY <2>2, <2>3, <2>4 DEF MeasureInv
  <1>3. ASSUME NEW r \in Requests, Measure(r) PROVE MeasureInv(t)'
    BY <1>1, <1>3, MeasureFits
  <1>4. CASE Next /\ stamp' = Stamped /\ rows' = Stored /\ UNCHANGED sample
    BY <1>1, <1>4, SamplesStay
  <1> QED
    BY <1>2, <1>3, <1>4 DEF TrailNext

-----------------------------------------------------------------------------
(* The theorems.                                                            *)

LEMMA TrailInvariant == TrailSpec => [](\E t \in Tables : MeasureInv(t))
  <1>1. TrailInit => \E t \in Tables : MeasureInv(t)
    BY TrailInitFits
  <1>2. (\E t \in Tables : MeasureInv(t)) /\ [TrailNext]_<<vars, trailVars>>
           => (\E t \in Tables : MeasureInv(t))'
    BY TrailKeeps
  <1> QED
    BY <1>1, <1>2, PTL DEF TrailSpec

(***************************************************************************)
(* Watching changes nothing: with its store and its harness, the chain is  *)
(* still the chain of AdapterChain, and what is proved of it there holds.  *)
(***************************************************************************)
THEOREM TrailIsOfTheChain == TrailSpec => Spec
  <1>1. TrailInit => Init
    BY DEF TrailInit
  <1>2. [TrailNext]_<<vars, trailVars>> => [Next]_vars
    BY DEF TrailNext, Measure, vars, trailVars
  <1> QED
    BY <1>1, <1>2, PTL DEF TrailSpec, Spec

(***************************************************************************)
(* Whatever order, delay or loss its writes meet, and whatever rows an     *)
(* earlier run left under the same id, a request measured without a gap is *)
(* measured by its own events: its six stages add up to the time between   *)
(* its first event and its answer, and its hops are those of its path.     *)
(***************************************************************************)
THEOREM SamplesAreOfThisRun == TrailSpec => []SampleIsOfThisRun
  <1>1. (\E t \in Tables : MeasureInv(t)) => SampleIsOfThisRun
    BY DEF MeasureInv, SampleFits, SampleIsOfThisRun
  <1> QED
    BY <1>1, TrailInvariant, PTL

(***************************************************************************)
(* A request whose trail has a gap is measured only if an earlier run left *)
(* rows under its id: with an id of its own it is left out.                *)
(***************************************************************************)
THEOREM IncompleteIsLeftOut == TrailSpec => []GapsAreLeftOut
  <1>1. (\E t \in Tables : MeasureInv(t)) => GapsAreLeftOut
    BY DEF MeasureInv, SampleFits, GapsAreLeftOut
  <1> QED
    BY <1>1, TrailInvariant, PTL

(***************************************************************************)
(* The times of a request's rows are in the order of the chain, though the *)
(* rows themselves may not be: a late write is stored late, not stamped    *)
(* late.                                                                   *)
(***************************************************************************)
THEOREM StampsTellOrder == TrailSpec => []TimesTellOrder
  <1>1. ASSUME NEW t \in Tables, MeasureInv(t) PROVE TimesTellOrder
    <2> SUFFICES ASSUME NEW r \in Requests, NEW i \in DOMAIN rows, NEW j \in DOMAIN rows,
                        rows[i].request_id = r, rows[j].request_id = r,
                        rows[i].timestamp >= 0, rows[j].timestamp >= 0,
                        rows[i].event_type \in ToSet(Sequence),
                        rows[j].event_type \in ToSet(Sequence),
                        Position(rows[i].event_type) < Position(rows[j].event_type)
                 PROVE  rows[i].timestamp <= rows[j].timestamp
      BY DEF TimesTellOrder
    <2>1. ToSet(Sequence) = Chain
      BY DEF ToSet, Chain
    <2>2. ASSUME NEW k \in DOMAIN rows, rows[k].timestamp >= 0 PROVE k \in Added(t)
      <3>1. t \in Seq(ToSet(t)) /\ rows \in Seq(RowSet(t)) /\ Len(t) \in Nat
        BY <1>1, TrailAssumption DEF MeasureInv, RowsFit
      <3>2. k \notin DOMAIN t
        <4> SUFFICES ASSUME k \in DOMAIN t PROVE FALSE
          OBVIOUS
        <4>1. t[k].timestamp \in Int /\ t[k].timestamp < 0 /\ rows[k] = t[k]
          BY <1>1, TrailAssumption DEF MeasureInv, RowsFit
        <4> QED
          BY <2>2, <4>1
      <3> QED
        BY <3>1, <3>2 DEF Added
    <2>3. i \in Added(t) /\ j \in Added(t)
      BY <2>2
    <2> DEFINE d == rows[i].event_type
               e == rows[j].event_type
    <2>4. d \in Chain /\ e \in Chain /\ d \in Seen(r) /\ e \in Seen(r)
      BY <1>1, <2>1, <2>3 DEF MeasureInv, RowsFit
    <2>5. rows[i].timestamp = stamp[r][d] /\ rows[j].timestamp = stamp[r][e]
      BY <1>1, <2>3, <2>4, BoundsInChain DEF MeasureInv, RowsFit, Tells
    <2>6. stamp[r][d] <= stamp[r][e]
      BY <1>1, <2>4 DEF MeasureInv, TimesInv, TimesInOrder, Sent
    <2> QED
      BY <2>5, <2>6
  <1>2. (\E t \in Tables : MeasureInv(t)) => TimesTellOrder
    BY <1>1
  <1> QED
    BY <1>2, TrailInvariant, PTL

=============================================================================
