------------------------- MODULE AdapterChainProofs -------------------------
(***************************************************************************)
(* What TLAPS proves about AdapterChain, for every set of requests, paths  *)
(* and KMSs, every timeout, every outcome of an await and any number of    *)
(* crashes.                                                                *)
(***************************************************************************)
EXTENDS AdapterChain, TLAPS

-----------------------------------------------------------------------------
(* The inductive invariant, one request at a time.                          *)

\* The waiting points of each handler, and how it may have ended.
PlacesOf ==
    [gateway |->
        {"idle", "request_received", "connect", "forward", "response_returned",
         "downstream_error", "200", "502", "503", "gone"},
     identity |->
        {"idle", "auth_validated", "resolution_failed", "endpoints_resolved",
         "connect", "forward", "PROVISIONED", "REJECTED", "500", "gone"},
     topology |->
        {"idle", "snapshot", "topology_source_error", "topology_empty",
         "topology_attached", "connect", "forward", "PROVISIONED", "REJECTED", "500",
         "gone"},
     pce |->
        {"idle", "path_not_found", "path_computed", "connect", "forward",
         "PROVISIONED", "REJECTED", "500", "gone"},
     kom |->
        {"idle", "status", "enc_keys", "dec_keys", "kms_error",
         "key_verify_skipped", "keys_retrieved", "connect", "forward",
         "PROVISIONED", "REJECTED", "500", "gone"},
     provisioning |->
        {"idle", "service_provisioned", "PROVISIONED", "gone"}]

InPlace(r) == \A s \in Services : At(r, s) \in PlacesOf[s]

\* A service is called only after its caller's last await before the call.
BeforeCall ==
    {"idle", "snapshot", "connect"} \cup KmsCalls
        \cup (Events \ {"response_returned", "downstream_error"})

CalledOnce(r) ==
    \A c \in Callers : At(r, c) \in BeforeCall => At(r, Down[c]) = "idle"

\* An answer is the callee's answer; a rejection may also be the service's own.
AnswersAgree(r) ==
    /\ \A c \in Callers \ {"gateway"} :
          /\ At(r, c) = "PROVISIONED" => At(r, Down[c]) = "PROVISIONED"
          /\ At(r, c) = "REJECTED" => At(r, Down[c]) \in {"idle", "REJECTED"}
    /\ At(r, "gateway") = "response_returned"
          => At(r, "identity") \in {"PROVISIONED", "REJECTED"}
    /\ At(r, "gateway") = "200" => At(r, "identity") = "PROVISIONED"
    /\ At(r, "gateway") = "503" => At(r, "identity") = "REJECTED"

\* While a draw may still come, the path is known and every node has a KMS.
MayDraw(r) ==
    At(r, "kom") \in {"status", "enc_keys"} \/ <<r, "enc_keys">> \in late

RouteKnown(r) ==
    /\ At(r, "pce") \in {"path_computed", "connect", "forward"} => route[r] # <<>>
    /\ MayDraw(r) => /\ route[r] # <<>>
                     /\ \A i \in DOMAIN route[r] : route[r][i] \in Kms

\* Key orchestration holds the keys of r.
Supplied ==
    {"dec_keys", "key_verify_skipped", "keys_retrieved", "connect", "forward",
     "PROVISIONED"}

\* A request is drawn for at most once: by the handler that awaited the KMS, or
\* by the call it gave up, never by both.
DrawnOnce(r) ==
    /\ At(r, "kom") \in {"idle", "status"}
          => drawn[r] = 0 /\ <<r, "enc_keys">> \notin late
    /\ At(r, "kom") = "enc_keys" /\ handler[<<r, "kom">>].result # "late"
          => drawn[r] = 0 /\ <<r, "enc_keys">> \notin late
    /\ <<r, "enc_keys">> \in late => drawn[r] = 0
    /\ At(r, "kom") \in Supplied
          => drawn[r] = NumKeys[r] /\ <<r, "enc_keys">> \notin late

\* Reading the topology source ends in one of four ways.
SourceRead(r) ==
    At(r, "topology") = "snapshot"
        => handler[<<r, "topology">>].result \in {"ok", "failed", "empty", "raised"}

RequestInv(r) ==
    /\ InPlace(r) /\ CalledOnce(r) /\ AnswersAgree(r)
    /\ RouteKnown(r) /\ DrawnOnce(r) /\ SourceRead(r)

ChainInv == TypeOK /\ \A r \in Requests : RequestInv(r)

-----------------------------------------------------------------------------
(* The operators of the model.                                              *)

LEMMA ServicesAre ==
    /\ Callers = {"gateway", "identity", "topology", "pce", "kom"}
    /\ Services = {"gateway", "identity", "topology", "pce", "kom", "provisioning"}
  BY DEF Callers, Services, Down

Places ==
    {"idle", "snapshot", "connect", "forward"} \cup Events \cup KmsCalls \cup Ended

Delays == Nat

Handlers ==
    [at : Places, timer : Delays, result : {"ok", "failed", "late", "empty", "raised"}]

\* How long an await may take, and what it may come to.
LEMMA AwaitIsBounded ==
    ASSUME NEW p \in Places, NEW a \in Awaits(p)
    PROVE  /\ a.delay \in Delays
           /\ a.result \in {"ok", "failed", "late", "empty", "raised"}
           /\ p \in Events => /\ a \in AuditResults
                              /\ a.delay \in 0 .. AuditPhases * AuditTimeout
           /\ p = "connect" => a \in ConnectResults /\ a.delay \in 0 .. 2 * HttpTimeout
           /\ p = "forward" => a.delay = HttpTimeout
           /\ p = "snapshot" => a.result \in {"ok", "failed", "empty", "raised"}
  <1> USE ChainAssumption DEF Awaited
  <1>1. CASE p \in Events
    BY <1>1 DEF Awaits, AuditAwaits, AuditPhases, Delays, Events, KmsCalls
  <1>6. CASE p = "connect"
    BY <1>6 DEF Awaits, Delays, Events, KmsCalls
  <1>2. CASE p = "snapshot"
    BY <1>2 DEF Awaits, Delays, Events, KmsCalls
  <1>3. CASE p \in KmsCalls
    BY <1>3 DEF Awaits, Delays, Events, KmsCalls
  <1>4. CASE p = "forward"
    BY <1>4 DEF Awaits, Delays, Events, KmsCalls, Patience
  <1>5. CASE p \in {"idle"} \cup Ended
    BY <1>5 DEF Awaits, Delays, Events, KmsCalls, Ended, Answers, Replies
  <1> QED
    BY <1>1, <1>2, <1>3, <1>4, <1>5, <1>6 DEF Places

\* Entering a place touches one handler, and late writes and draws only there.
LEMMA EnterEffect ==
    ASSUME handler \in [Requests \X Services -> Handlers],
           NEW r \in Requests, NEW s \in Services, NEW p \in Places, Enter(r, s, p)
    PROVE  /\ handler' \in [Requests \X Services -> Handlers]
           /\ handler'[<<r, s>>].at = p
           /\ \A q \in Requests : \A t \in Services :
                 q # r \/ t # s => handler'[<<q, t>>] = handler[<<q, t>>]
           /\ late \subseteq late' /\ late' \subseteq late \cup {<<r, p>>}
           /\ p \notin Events \cup {"enc_keys"} => late' = late
           /\ handler'[<<r, s>>].result # "late" => late' = late
           /\ p \in Events => handler'[<<r, s>>].timer \in 0 .. AuditPhases * AuditTimeout
           /\ p = "connect" => handler'[<<r, s>>].timer \in 0 .. 2 * HttpTimeout
           /\ p = "forward" => handler'[<<r, s>>].timer = HttpTimeout
           /\ p = "snapshot" => handler'[<<r, s>>].result \in {"ok", "failed", "empty", "raised"}
  <1>1. PICK a \in Awaits(p) :
          /\ handler' = [handler EXCEPT ![<<r, s>>] =
                            [at |-> p, timer |-> a.delay, result |-> a.result]]
          /\ late' = IF a.result = "late" /\ p \in Events \cup {"enc_keys"}
                     THEN late \cup {<<r, p>>} ELSE late
    BY DEF Enter
  <1>2. [at |-> p, timer |-> a.delay, result |-> a.result] \in Handlers
    BY AwaitIsBounded DEF Handlers
  <1>3. /\ handler' \in [Requests \X Services -> Handlers]
        /\ handler'[<<r, s>>] = [at |-> p, timer |-> a.delay, result |-> a.result]
        /\ \A q \in Requests : \A t \in Services :
              q # r \/ t # s => handler'[<<q, t>>] = handler[<<q, t>>]
    BY <1>1, <1>2
  <1>4. /\ handler'[<<r, s>>].at = p
        /\ handler'[<<r, s>>].timer = a.delay
        /\ handler'[<<r, s>>].result = a.result
    BY <1>3
  <1>5. /\ late \subseteq late' /\ late' \subseteq late \cup {<<r, p>>}
        /\ p \notin Events \cup {"enc_keys"} => late' = late
        /\ a.result # "late" => late' = late
    BY <1>1
  <1> QED
    BY <1>3, <1>4, <1>5, AwaitIsBounded

-----------------------------------------------------------------------------
(* What a step of one handler may do without disturbing the invariant.      *)

LegalAnswer(r, s, p) ==
    /\ s \in Callers \ {"gateway"} =>
          /\ p = "PROVISIONED" => At(r, Down[s]) = "PROVISIONED"
          /\ p = "REJECTED" => At(r, Down[s]) \in {"idle", "REJECTED"}
    /\ s = "gateway" =>
          /\ p = "response_returned" => At(r, "identity") \in {"PROVISIONED", "REJECTED"}
          /\ p = "200" => At(r, "identity") = "PROVISIONED"
          /\ p = "503" => At(r, "identity") = "REJECTED"

LegalRoute(r, s, p) ==
    /\ route'[r] # route[r] => s = "pce" /\ At(r, s) = "idle"
    /\ s = "pce" /\ p \in {"path_computed", "connect", "forward"} => route'[r] # <<>>
    /\ s = "kom" /\ p \in {"status", "enc_keys"} =>
          route[r] # <<>> /\ \A i \in DOMAIN route[r] : route[r][i] \in Kms

LegalDraw(r, s, p) ==
    /\ s = "kom" /\ p \in {"status", "enc_keys"} => At(r, s) \in {"idle", "status"}
    /\ s = "kom" /\ p \in Supplied =>
          drawn'[r] = NumKeys[r] /\ <<r, "enc_keys">> \notin late
    /\ drawn'[r] # drawn[r] =>
          s = "kom" /\ p = "dec_keys" /\ <<r, "enc_keys">> \notin late

LegalMove(r, s, p) ==
    /\ p \in PlacesOf[s] \ {"idle", "gone"}
    /\ At(r, s) \notin Ended
    /\ p \in BeforeCall => At(r, s) \in BeforeCall
    /\ At(r, s) = "idle" => \A c \in Callers : Down[c] = s => At(r, c) = "forward"
    /\ LegalAnswer(r, s, p)
    /\ LegalRoute(r, s, p)
    /\ LegalDraw(r, s, p)

\* Nothing that RequestInv(r) is about has changed.
Undisturbed(r) ==
    /\ \A s \in Services : /\ handler'[<<r, s>>].at = handler[<<r, s>>].at
                           /\ handler'[<<r, s>>].result = handler[<<r, s>>].result
    /\ route'[r] = route[r]
    /\ drawn'[r] = drawn[r]
    /\ <<r, "enc_keys">> \in late' <=> <<r, "enc_keys">> \in late

LEMMA UndisturbedKeeps ==
    ASSUME NEW r \in Requests, RequestInv(r), Undisturbed(r)
    PROVE  RequestInv(r)'
  <1> USE ServicesAre DEF Undisturbed, At, RequestInv
  <1>1. InPlace(r)'
    BY DEF InPlace
  <1>2. CalledOnce(r)'
    BY DEF CalledOnce, Down
  <1>3. AnswersAgree(r)'
    BY DEF AnswersAgree, Down
  <1>4. RouteKnown(r)'
    BY DEF RouteKnown, MayDraw
  <1>5. DrawnOnce(r)'
    BY DEF DrawnOnce
  <1>6. SourceRead(r)'
    BY DEF SourceRead
  <1> QED
    BY <1>1, <1>2, <1>3, <1>4, <1>5, <1>6

\* A place of a service is a place.
LEMMA PlacesOfService ==
    ASSUME NEW s \in Services, NEW p \in PlacesOf[s]
    PROVE  /\ p \in Places
           /\ p \in {"status", "enc_keys", "dec_keys"} => s = "kom"
  BY ServicesAre
     DEF PlacesOf, Places, Events, KmsCalls, Ended, Answers, Replies

LEMMA LegalMoveKeeps ==
    ASSUME handler \in [Requests \X Services -> Handlers],
           NEW r \in Requests, NEW s \in Services, NEW p \in PlacesOf[s],
           RequestInv(r), LegalMove(r, s, p), Enter(r, s, p)
    PROVE  RequestInv(r)'
  <1>1. /\ handler'[<<r, s>>].at = p
        /\ \A t \in Services : t # s => handler'[<<r, t>>] = handler[<<r, t>>]
        /\ <<r, "enc_keys">> \in late' => <<r, "enc_keys">> \in late \/ p = "enc_keys"
        /\ p \notin Events \cup {"enc_keys"} => late' = late
        /\ handler'[<<r, s>>].result # "late" => late' = late
        /\ p = "snapshot" => handler'[<<r, s>>].result \in {"ok", "failed", "empty", "raised"}
    BY EnterEffect, PlacesOfService
  <1>2. p \in KmsCalls => s = "kom"
    BY PlacesOfService DEF KmsCalls
  <1> HIDE DEF Enter
  <1> USE ServicesAre DEF At, RequestInv, LegalMove
  <1>3. InPlace(r)'
    BY <1>1 DEF InPlace
  <1>4. CalledOnce(r)'
    <2> SUFFICES ASSUME NEW c \in Callers, handler'[<<r, c>>].at \in BeforeCall
                 PROVE  handler'[<<r, Down[c]>>].at = "idle"
      BY DEF CalledOnce
    <2>1. Down[c] \in Services /\ Down[c] # c
      BY DEF Down
    <2>2. handler[<<r, c>>].at \in BeforeCall
      BY <1>1
    <2>3. handler[<<r, Down[c]>>].at = "idle"
      BY <2>2 DEF CalledOnce
    <2>4. handler[<<r, c>>].at # "forward"
      BY <2>2 DEF BeforeCall, Events, KmsCalls
    <2>5. s # Down[c]
      BY <2>3, <2>4
    <2> QED
      BY <1>1, <2>1, <2>3, <2>5
  <1>5. AnswersAgree(r)'
    <2>1. {"PROVISIONED", "REJECTED"} \subseteq Ended
      BY DEF Ended, Replies
    <2>2. ASSUME NEW c \in Callers \ {"gateway"}
          PROVE  /\ handler'[<<r, c>>].at = "PROVISIONED"
                      => handler'[<<r, Down[c]>>].at = "PROVISIONED"
                 /\ handler'[<<r, c>>].at = "REJECTED"
                      => handler'[<<r, Down[c]>>].at \in {"idle", "REJECTED"}
      <3>1. Down[c] \in Services /\ Down[c] # c
        BY DEF Down
      <3>2. CASE s = c
        BY <1>1, <3>1, <3>2 DEF LegalAnswer
      <3>3. CASE s # c
        BY SMTT(30), <1>1, <2>1, <3>1, <3>3 DEF AnswersAgree
      <3> QED
        BY <3>2, <3>3
    <2>3. /\ handler'[<<r, "gateway">>].at = "response_returned"
               => handler'[<<r, "identity">>].at \in {"PROVISIONED", "REJECTED"}
          /\ handler'[<<r, "gateway">>].at = "200"
               => handler'[<<r, "identity">>].at = "PROVISIONED"
          /\ handler'[<<r, "gateway">>].at = "503"
               => handler'[<<r, "identity">>].at = "REJECTED"
      <3>1. CASE s = "gateway"
        BY <1>1, <3>1 DEF LegalAnswer
      <3>2. CASE s # "gateway"
        BY SMTT(30), <1>1, <2>1, <3>2 DEF AnswersAgree
      <3> QED
        BY <3>1, <3>2
    <2> QED
      BY <2>2, <2>3 DEF AnswersAgree
  <1>6. RouteKnown(r)'
    BY <1>1, <1>2 DEF RouteKnown, MayDraw, LegalRoute, CalledOnce, DrawnOnce, KmsCalls,
                      Down, BeforeCall
  <1>7. DrawnOnce(r)'
    BY <1>1, <1>2 DEF DrawnOnce, LegalDraw, KmsCalls, Supplied, Events
  <1>8. SourceRead(r)'
    BY <1>1 DEF SourceRead
  <1> QED
    BY <1>3, <1>4, <1>5, <1>6, <1>7, <1>8

-----------------------------------------------------------------------------
(* Every step of a handler is a legal move.                                 *)

LEMMA ReceiveIsLegal ==
    ASSUME TypeOK, NEW r \in Requests, NEW s \in Services, RequestInv(r), Receive(r, s)
    PROVE  \E p \in PlacesOf[s] : LegalMove(r, s, p) /\ Enter(r, s, p)
  <1> USE ServicesAre DEF At, RequestInv
  <1>1. /\ handler[<<r, s>>].at = "idle"
        /\ \A c \in Callers : Down[c] = s => handler[<<r, c>>].at = "forward"
        /\ drawn' = drawn
    BY DEF Receive
  <1>2. handler[<<r, s>>].at \notin Ended /\ handler[<<r, s>>].at \in BeforeCall
    BY <1>1 DEF BeforeCall, Ended, Answers, Replies
  <1>3. s \in Callers => handler[<<r, Down[s]>>].at = "idle"
    BY <1>2 DEF CalledOnce
  <1>4. CASE s \in DOMAIN First /\ Enter(r, s, First[s]) /\ UNCHANGED route
    <2>1. /\ s \in {"gateway", "identity", "topology", "provisioning"}
          /\ First[s] \in PlacesOf[s] \ {"idle", "gone"}
          /\ First[s] \notin {"PROVISIONED", "REJECTED", "response_returned", "200", "503"}
      BY <1>4 DEF First, PlacesOf
    <2>2. LegalMove(r, s, First[s])
      BY <1>1, <1>2, <1>4, <2>1 DEF LegalMove, LegalAnswer, LegalRoute, LegalDraw
    <2> QED
      BY <1>4, <2>1, <2>2
  <1>5. CASE s = "pce" /\ ReceivePce(r)
    <2>1. PICK q \in Routes :
            /\ route' = [route EXCEPT ![r] = q]
            /\ Enter(r, "pce", IF q = <<>> THEN "path_not_found" ELSE "path_computed")
      BY <1>5 DEF ReceivePce
    <2> DEFINE p == IF q = <<>> THEN "path_not_found" ELSE "path_computed"
    <2>2. p \in PlacesOf[s] \ {"idle", "gone"}
      BY <1>5 DEF PlacesOf
    <2>3. route'[r] = q
      BY <2>1 DEF TypeOK
    <2>4. LegalMove(r, s, p)
      BY <1>1, <1>2, <1>5, <2>2, <2>3 DEF LegalMove, LegalAnswer, LegalRoute, LegalDraw
    <2> QED
      BY <1>5, <2>1, <2>2, <2>4
  <1>6. CASE s = "kom" /\ ReceiveKom(r)
    <2> DEFINE p == IF \A i \in DOMAIN route[r] : route[r][i] \in Kms
                    THEN KmsCall(r, 0) ELSE "REJECTED"
    <2>1. p \in PlacesOf[s] \ {"idle", "gone"} /\ p \in {"status", "enc_keys", "REJECTED"}
      BY <1>6 DEF PlacesOf, KmsCall
    <2>2. route[r] # <<>>
      BY <1>1, <1>6 DEF RouteKnown, Down
    <2>3. p # "REJECTED" => \A i \in DOMAIN route[r] : route[r][i] \in Kms
      OBVIOUS
    <2>4. route' = route /\ Enter(r, s, p)
      BY <1>6 DEF ReceiveKom
    <2> HIDE DEF p
    <2>5. LegalMove(r, s, p)
      BY <1>1, <1>2, <1>3, <1>6, <2>1, <2>2, <2>3, <2>4
         DEF LegalMove, LegalAnswer, LegalRoute, LegalDraw, Supplied
    <2> QED
      BY <2>1, <2>4, <2>5
  <1> QED
    BY <1>4, <1>5, <1>6 DEF Receive

LEMMA AuditIsLegal ==
    ASSUME NEW r \in Requests, NEW s \in Services, RequestInv(r), Audit(r, s)
    PROVE  \E p \in PlacesOf[s] : LegalMove(r, s, p) /\ Enter(r, s, p)
  <1> USE ServicesAre DEF At, RequestInv
  <1> DEFINE here == handler[<<r, s>>].at
  <1>1. here \in Events /\ here \in PlacesOf[s] /\ route' = route /\ drawn' = drawn
    BY DEF Audit, Ready, InPlace
  <1>2. here \notin Ended /\ here # "idle"
    BY <1>1 DEF Ended, Answers, Replies, Events
  <1>3. PICK p \in AfterEvent(r, s) : Enter(r, s, p)
    BY DEF Audit
  <1>4. s \in Callers /\ here \in BeforeCall => handler[<<r, Down[s]>>].at = "idle"
    BY DEF CalledOnce
  <1>5. here \notin {"response_returned", "downstream_error"} => here \in BeforeCall
    BY <1>1 DEF BeforeCall
  <1> SUFFICES p \in PlacesOf[s] /\ LegalMove(r, s, p)
    BY <1>3
  <1> USE <1>1, <1>2, <1>4, <1>5
          DEF LegalMove, LegalAnswer, LegalRoute, LegalDraw, PlacesOf, Events
  <1>6. CASE s = "gateway"
    <2>1. p \in Gateway(r)[here]
      BY <1>3, <1>6 DEF AfterEvent
    <2>2. \/ here = "request_received" /\ p = "connect"
          \/ here = "downstream_error" /\ p = "502"
          \/ here = "response_returned" /\ p = Final(r)
      BY <1>6, <2>1 DEF Gateway
    <2> QED
      BY <1>6, <2>2 DEF Final, AnswersAgree, BeforeCall, KmsCalls
  <1>7. CASE s = "identity"
    <2>1. p \in Identity[here] /\ Resolved \subseteq {"endpoints_resolved", "resolution_failed"}
      BY <1>3, <1>7, ChainAssumption DEF AfterEvent, Resolved
    <2>2. \/ here = "auth_validated" /\ p \in {"resolution_failed", "endpoints_resolved"}
          \/ here = "resolution_failed" /\ p = "REJECTED"
          \/ here = "endpoints_resolved" /\ p = "connect"
      <3>1. here \in {"auth_validated", "resolution_failed", "endpoints_resolved"}
        BY <1>7
      <3>2. /\ Identity["auth_validated"] = Resolved
            /\ Identity["resolution_failed"] = {"REJECTED"}
            /\ Identity["endpoints_resolved"] = {"connect"}
        BY DEF Identity
      <3> QED
        BY <2>1, <3>1, <3>2
    <2> QED
      BY <1>7, <2>2
  <1>8. CASE s = "topology"
    <2>1. p \in Topology[here]
      BY <1>3, <1>8 DEF AfterEvent
    <2>2. \/ here \in {"topology_source_error", "topology_empty"} /\ p = "REJECTED"
          \/ here = "topology_attached" /\ p = "connect"
      BY <1>8, <2>1 DEF Topology
    <2> QED
      BY <1>8, <2>2
  <1>9. CASE s = "pce"
    <2>1. p \in Pce[here]
      BY <1>3, <1>9 DEF AfterEvent
    <2>2. \/ here = "path_not_found" /\ p = "REJECTED"
          \/ here = "path_computed" /\ p = "connect"
      BY <1>9, <2>1 DEF Pce
    <2> QED
      BY <1>9, <2>2 DEF RouteKnown
  <1>10. CASE s = "kom"
    <2>1. p \in Kom[here]
      BY <1>3, <1>10 DEF AfterEvent
    <2>2. \/ here = "kms_error" /\ p = "REJECTED"
          \/ here = "key_verify_skipped" /\ p = "keys_retrieved"
          \/ here = "keys_retrieved" /\ p = "connect"
      BY <1>10, <2>1 DEF Kom
    <2> QED
      BY <1>10, <2>2 DEF DrawnOnce, Supplied
  <1>11. CASE s = "provisioning"
    <2>1. p \in Provisioning[here]
      BY <1>3, <1>11 DEF AfterEvent
    <2>2. here = "service_provisioned" /\ p = "PROVISIONED"
      BY <1>11, <2>1 DEF Provisioning
    <2> QED
      BY <1>11, <2>2
  <1> QED
    BY <1>6, <1>7, <1>8, <1>9, <1>10, <1>11

LEMMA SnapshotIsLegal ==
    ASSUME TypeOK, NEW r \in Requests, RequestInv(r), Snapshot(r)
    PROVE  \E p \in PlacesOf["topology"] :
              LegalMove(r, "topology", p) /\ Enter(r, "topology", p)
  <1> USE ServicesAre DEF At, RequestInv
  <1>1. PICK p \in {"topology_attached", "topology_source_error", "topology_empty", "500"} :
            Enter(r, "topology", p)
    <2>1. handler[<<r, "topology">>].result \in {"ok", "failed", "empty", "raised"}
      BY DEF Snapshot, Ready, SourceRead
    <2> QED
      BY <2>1 DEF Snapshot
  <1>2. /\ handler[<<r, "topology">>].at = "snapshot"
        /\ route' = route /\ drawn' = drawn
    BY DEF Snapshot, Ready
  <1>3. p \in PlacesOf["topology"] \ {"idle", "gone"}
    BY DEF PlacesOf
  <1>4. LegalMove(r, "topology", p)
    BY <1>2, <1>3 DEF LegalMove, LegalAnswer, LegalRoute, LegalDraw, BeforeCall, Ended,
                      Answers, Replies
  <1> QED
    BY <1>1, <1>3, <1>4

LEMMA KeyCallIsLegal ==
    ASSUME TypeOK, NEW r \in Requests, RequestInv(r),
           QueryRelay(r) \/ EncKeys(r) \/ DecKeys(r)
    PROVE  \E p \in PlacesOf["kom"] : LegalMove(r, "kom", p) /\ Enter(r, "kom", p)
  <1> USE ServicesAre DEF At, RequestInv
  <1> DEFINE here == handler[<<r, "kom">>].at
  <1>1. here \in KmsCalls /\ route' = route
    BY DEF QueryRelay, EncKeys, DecKeys, Ready, KmsCalls
  <1>2. here \notin Ended /\ here # "idle" /\ here \in BeforeCall
    BY <1>1 DEF Ended, Answers, Replies, KmsCalls, BeforeCall
  <1>3. \E p \in PlacesOf["kom"] \ {"idle", "gone", "PROVISIONED", "REJECTED"} :
           LegalDraw(r, "kom", p) /\ LegalRoute(r, "kom", p) /\ Enter(r, "kom", p)
    <2>1. CASE QueryRelay(r)
      <3>1. PICK p \in {"status", "enc_keys", "kms_error"} : Enter(r, "kom", p)
        BY <2>1 DEF QueryRelay, KmsCall
      <3>2. here = "status" /\ drawn' = drawn
        BY <2>1 DEF QueryRelay, Ready
      <3> QED
        BY <1>1, <3>1, <3>2 DEF RouteKnown, MayDraw, LegalDraw, LegalRoute, Supplied,
                                PlacesOf
    <2>2. CASE EncKeys(r)
      <3>1. here = "enc_keys"
        BY <2>2 DEF EncKeys, Ready
      <3>2. CASE handler[<<r, "kom">>].result = "ok" /\ Covered(r)
        <4>1. drawn[r] = 0 /\ <<r, "enc_keys">> \notin late
          BY <3>1, <3>2 DEF DrawnOnce
        <4>2. drawn'[r] = NumKeys[r]
          <5>1. drawn' = [drawn EXCEPT ![r] = @ + NumKeys[r]]
            BY <2>2, <3>2 DEF EncKeys, Draw
          <5>2. drawn \in [Requests -> Nat] /\ NumKeys[r] \in Int
            BY ChainAssumption DEF TypeOK
          <5> QED
            BY <4>1, <5>1, <5>2
        <4> QED
          BY <1>1, <2>2, <3>2, <4>1, <4>2 DEF EncKeys, LegalDraw, LegalRoute, PlacesOf
      <3>3. CASE ~(handler[<<r, "kom">>].result = "ok" /\ Covered(r))
        <4>1. Enter(r, "kom", "kms_error") /\ drawn' = drawn
          BY <2>2, <3>3 DEF EncKeys
        <4> QED
          BY <1>1, <4>1 DEF LegalDraw, LegalRoute, PlacesOf, Supplied
      <3> QED
        BY <3>2, <3>3
    <2>3. CASE DecKeys(r)
      <3>1. PICK p \in {"keys_retrieved", "key_verify_skipped"} : Enter(r, "kom", p)
        BY <2>3 DEF DecKeys, VerificationFailed
      <3>2. here = "dec_keys" /\ drawn' = drawn
        BY <2>3 DEF DecKeys, Ready
      <3> QED
        BY <1>1, <3>1, <3>2 DEF DrawnOnce, LegalDraw, LegalRoute, Supplied, PlacesOf
    <2> QED
      BY <2>1, <2>2, <2>3
  <1> QED
    BY <1>2, <1>3 DEF LegalMove, LegalAnswer

LEMMA AnswerIsLegal ==
    ASSUME NEW r \in Requests, NEW s \in Callers, RequestInv(r),
           Connect(r, s) \/ Return(r, s) \/ Fail(r, s)
    PROVE  \E p \in PlacesOf[s] : LegalMove(r, s, p) /\ Enter(r, s, p)
  <1> USE ServicesAre DEF At, RequestInv
  <1>1. /\ handler[<<r, s>>].at \in {"connect", "forward"}
        /\ route' = route /\ drawn' = drawn
    BY DEF Connect, Ready, Return, Fail
  <1>2. {"connect", "forward"} \cap Ended = {} /\ handler[<<r, s>>].at # "idle"
    BY <1>1 DEF Ended, Answers, Replies
  <1>3. CASE Return(r, s)
    <2> DEFINE p == IF s = "gateway" THEN "response_returned" ELSE handler[<<r, Down[s]>>].at
    <2>1. Enter(r, s, p) /\ handler[<<r, Down[s]>>].at \in {"PROVISIONED", "REJECTED"}
      BY <1>3 DEF Return
    <2>2. p \in PlacesOf[s] \ {"idle", "gone"} /\ p \notin BeforeCall
      BY <2>1 DEF PlacesOf, BeforeCall, Events, KmsCalls
    <2>3. s = "gateway" => handler[<<r, "identity">>].at \in {"PROVISIONED", "REJECTED"}
      BY <2>1 DEF Down
    <2>4. LegalAnswer(r, s, p)
      BY <2>1, <2>3 DEF LegalAnswer
    <2>5. p \in {"PROVISIONED", "REJECTED", "response_returned"}
      BY <2>1
    <2> HIDE DEF p
    <2>6. LegalRoute(r, s, p) /\ LegalDraw(r, s, p)
      BY <1>1, <2>5 DEF LegalRoute, LegalDraw, DrawnOnce, Supplied
    <2> QED
      BY <1>1, <1>2, <2>1, <2>2, <2>4, <2>6 DEF LegalMove
  <1>4. CASE Connect(r, s) /\ Enter(r, s, "forward")
    <2>1. handler[<<r, s>>].at = "connect"
      BY <1>4 DEF Connect, Ready
    <2>2. "forward" \in PlacesOf[s] \ {"idle", "gone"} /\ "forward" \notin BeforeCall
      BY DEF PlacesOf, BeforeCall, Events, KmsCalls
    <2>3. LegalAnswer(r, s, "forward") /\ LegalRoute(r, s, "forward")
      BY <1>1, <2>1 DEF LegalAnswer, LegalRoute, RouteKnown
    <2>4. LegalDraw(r, s, "forward")
      BY <1>1, <2>1 DEF LegalDraw, DrawnOnce, Supplied
    <2> QED
      BY <1>1, <1>2, <1>4, <2>2, <2>3, <2>4 DEF LegalMove
  <1>5. CASE Enter(r, s, GaveUp(s))
    <2> DEFINE p == IF s = "gateway" THEN "downstream_error" ELSE "500"
    <2>1. Enter(r, s, p)
      BY <1>5 DEF GaveUp
    <2>2. p \in PlacesOf[s] \ {"idle", "gone"} /\ p \notin BeforeCall
      BY DEF PlacesOf, BeforeCall, Events, KmsCalls
    <2>3. LegalAnswer(r, s, p) /\ LegalRoute(r, s, p) /\ LegalDraw(r, s, p)
      BY <1>1 DEF LegalAnswer, LegalRoute, LegalDraw, Supplied
    <2> QED
      BY <1>1, <1>2, <2>1, <2>2, <2>3 DEF LegalMove
  <1> QED
    BY <1>3, <1>4, <1>5 DEF Connect, Fail

\* The first node of a path that may be drawn for is a KMS.
LEMMA SourceIsKms ==
    ASSUME TypeOK, NEW r \in Requests, RouteKnown(r), MayDraw(r)
    PROVE  SourceKms(r) \in Kms
  <1>1. route[r] \in Seq(STRING) /\ route[r] # <<>>
    BY ChainAssumption DEF TypeOK, RouteKnown
  <1>2. 1 \in DOMAIN route[r]
    BY <1>1
  <1> QED
    BY <1>2 DEF RouteKnown, SourceKms

\* A draw that the KMS can cover takes all the keys, and leaves no debt.
LEMMA DrawEffect ==
    ASSUME TypeOK, NEW r \in Requests, RouteKnown(r), MayDraw(r), Covered(r), Draw(r)
    PROVE  /\ stored' \in [Kms -> Nat]
           /\ drawn' \in [Requests -> Nat]
           /\ drawn'[r] = drawn[r] + NumKeys[r]
           /\ \A q \in Requests : q # r => drawn'[q] = drawn[q]
  <1>1. SourceKms(r) \in Kms
    BY SourceIsKms
  <1>2. NumKeys[r] \in 1 .. stored[SourceKms(r)]
    BY DEF Covered
  <1>3. stored[SourceKms(r)] \in Nat
    BY <1>1 DEF TypeOK
  <1>4. stored' = [stored EXCEPT ![SourceKms(r)] = @ - NumKeys[r]]
    BY DEF Draw
  <1>5. stored' \in [Kms -> Nat]
    BY <1>1, <1>2, <1>3, <1>4 DEF TypeOK
  <1>6. drawn \in [Requests -> Nat] /\ NumKeys[r] \in Nat
    BY <1>2, <1>3 DEF TypeOK
  <1>7. drawn' = [drawn EXCEPT ![r] = drawn[r] + NumKeys[r]]
    BY DEF Draw
  <1> QED
    BY <1>5, <1>6, <1>7

\* What a step of a handler does to everything but the handlers.
LEMMA StepType ==
    ASSUME TypeOK, NEW r \in Requests, NEW s \in Services, RequestInv(r), Step(r, s)
    PROVE  /\ route' \in [Requests -> Routes \cup {<<>>}]
           /\ hop' \in [Requests -> Nat]
           /\ stored' \in [Kms -> Nat]
           /\ drawn' \in [Requests -> Nat]
           /\ trail' \in [Requests -> Seq(Events)]
           /\ UNCHANGED <<up, crashes, elapsed>>
           /\ \A q \in Requests : q # r => route'[q] = route[q] /\ drawn'[q] = drawn[q]
  <1> USE DEF TypeOK
  <1>1. ASSUME Receive(r, s) PROVE UNCHANGED <<hop, stored, drawn, trail, up, crashes, elapsed>>
    BY <1>1 DEF Receive
  <1>2. CASE Receive(r, s)
    <2>1. CASE s = "pce" /\ ReceivePce(r)
      BY <1>1, <1>2, <2>1 DEF ReceivePce
    <2>2. CASE UNCHANGED route
      BY <1>1, <1>2, <2>2
    <2> QED
      BY <1>2, <2>1, <2>2 DEF Receive, ReceiveKom
  <1>3. CASE Audit(r, s)
    <2>1. At(r, s) \in Events
      BY <1>3 DEF Audit, Ready
    <2>2. trail' \in [Requests -> Seq(Events)]
      BY <1>3, <2>1 DEF Audit
    <2> QED
      BY <1>3, <2>2 DEF Audit
  <1>4. CASE Snapshot(r)
    BY <1>4 DEF Snapshot
  <1>5. CASE QueryRelay(r)
    <2>1. hop' = [hop EXCEPT ![r] = @ + 1] \/ hop' = hop
      BY <1>5 DEF QueryRelay
    <2>2. hop' \in [Requests -> Nat]
      BY <2>1
    <2> QED
      BY <1>5, <2>2 DEF QueryRelay
  <1>6. CASE EncKeys(r)
    <2>1. CASE Covered(r) /\ Draw(r)
      <3>1. RouteKnown(r) /\ MayDraw(r)
        BY <1>6 DEF EncKeys, Ready, MayDraw, RequestInv
      <3> QED
        BY <1>6, <2>1, <3>1, DrawEffect DEF EncKeys
    <2>2. CASE UNCHANGED <<stored, drawn>>
      BY <1>6, <2>2 DEF EncKeys
    <2> QED
      BY <1>6, <2>1, <2>2 DEF EncKeys
  <1>7. CASE DecKeys(r)
    BY <1>7 DEF DecKeys
  <1>8. CASE Connect(r, s) \/ Return(r, s) \/ Fail(r, s)
    BY <1>8 DEF Connect, Return, Fail
  <1> QED
    BY <1>2, <1>3, <1>4, <1>5, <1>6, <1>7, <1>8 DEF Step

\* A handler's step is a legal move of that handler.
LEMMA StepIsLegal ==
    ASSUME TypeOK, NEW r \in Requests, NEW s \in Services, RequestInv(r),
           Step(r, s) \/ Receive(r, s)
    PROVE  \E p \in PlacesOf[s] : LegalMove(r, s, p) /\ Enter(r, s, p)
  BY ReceiveIsLegal, AuditIsLegal, SnapshotIsLegal, KeyCallIsLegal, AnswerIsLegal DEF Step

LEMMA StepKeeps ==
    ASSUME ChainInv, NEW r \in Requests, NEW s \in Services, Step(r, s) \/ Receive(r, s)
    PROVE  ChainInv'
  <1>1. PICK p \in PlacesOf[s] : LegalMove(r, s, p) /\ Enter(r, s, p)
    BY StepIsLegal DEF ChainInv
  <1>2. handler \in [Requests \X Services -> Handlers]
    BY DEF ChainInv, TypeOK, Handlers, Places, Delays
  <1>3. /\ handler' \in [Requests \X Services -> Handlers]
        /\ \A q \in Requests : \A t \in Services :
              q # r => handler'[<<q, t>>] = handler[<<q, t>>]
        /\ late \subseteq late' /\ late' \subseteq late \cup {<<r, p>>}
        /\ p \notin Events \cup {"enc_keys"} => late' = late
    <2>1. p \in Places
      BY PlacesOfService
    <2> QED
      BY ZenonT(60), <1>1, <1>2, <2>1, EnterEffect
  <1>4. /\ route' \in [Requests -> Routes \cup {<<>>}]
        /\ hop' \in [Requests -> Nat]
        /\ stored' \in [Kms -> Nat]
        /\ drawn' \in [Requests -> Nat]
        /\ trail' \in [Requests -> Seq(Events)]
        /\ UNCHANGED <<up, crashes, elapsed>>
        /\ \A q \in Requests : q # r => route'[q] = route[q] /\ drawn'[q] = drawn[q]
    <2>1. CASE Step(r, s)
      BY <2>1, StepType DEF ChainInv
    <2>2. CASE Receive(r, s) /\ s = "gateway"
      BY <2>2 DEF ChainInv, TypeOK, Receive, First
    <2> QED
      BY <2>1, <2>2 DEF Step
  <1>5. TypeOK'
    BY <1>3, <1>4 DEF ChainInv, TypeOK, Handlers, Places, Delays
  <1>6. ASSUME NEW q \in Requests PROVE RequestInv(q)'
    <2>1. CASE q = r
      BY <1>1, <1>2, <2>1, LegalMoveKeeps DEF ChainInv
    <2>2. CASE q # r
      BY <1>3, <1>4, <2>2, UndisturbedKeeps DEF ChainInv, Undisturbed
    <2> QED
      BY <2>1, <2>2
  <1> QED
    BY <1>5, <1>6 DEF ChainInv

-----------------------------------------------------------------------------
(* The rest of the world.                                                   *)

\* A crash ends handlers that were neither idle nor had answered.
LEMMA CrashEffect ==
    ASSUME handler \in [Requests \X Services -> Handlers], NEW s \in Services, Crash(s)
    PROVE  /\ handler' \in [Requests \X Services -> Handlers]
           /\ \A q \in Requests : \A t \in Services :
                 \/ handler'[<<q, t>>] = handler[<<q, t>>]
                 \/ /\ t = s
                    /\ handler[<<q, t>>].at \notin Ended \cup {"idle"}
                    /\ handler'[<<q, t>>].at = "gone"
  <1> DEFINE gone == [at |-> "gone", timer |-> 0, result |-> "ok"]
  <1>1. gone \in Handlers
    BY ChainAssumption DEF Handlers, Places, Delays, Ended
  <1>2. handler' = [x \in Requests \X Services |->
                      IF x[2] = s /\ handler[x].at \notin Ended \cup {"idle"}
                      THEN gone ELSE handler[x]]
    BY DEF Crash
  <1> HIDE DEF gone
  <1>3. handler' \in [Requests \X Services -> Handlers]
    BY <1>1, <1>2
  <1>4. ASSUME NEW q \in Requests, NEW t \in Services
        PROVE  handler'[<<q, t>>] = IF t = s /\ handler[<<q, t>>].at \notin Ended \cup {"idle"}
                                    THEN gone ELSE handler[<<q, t>>]
    BY <1>2
  <1>5. gone.at = "gone"
    BY DEF gone
  <1> QED
    BY <1>3, <1>4, <1>5

LEMMA CrashKeeps ==
    ASSUME ChainInv, NEW s \in Services, Crash(s)
    PROVE  ChainInv'
  <1>1. handler \in [Requests \X Services -> Handlers]
    BY DEF ChainInv, TypeOK, Handlers, Places, Delays
  <1>2. /\ handler' \in [Requests \X Services -> Handlers]
        /\ \A q \in Requests : \A t \in Services :
              \/ handler'[<<q, t>>] = handler[<<q, t>>]
              \/ /\ handler[<<q, t>>].at \notin Ended \cup {"idle"}
                 /\ handler'[<<q, t>>].at = "gone"
    BY <1>1, CrashEffect
  <1>3. UNCHANGED <<route, hop, stored, drawn, trail, late, elapsed>>
    BY DEF Crash
  <1>4. TypeOK'
    BY <1>2, <1>3, ChainAssumption
       DEF ChainInv, TypeOK, Handlers, Places, Delays, Crash
  <1>5. ASSUME NEW r \in Requests PROVE RequestInv(r)'
    <2>1. RequestInv(r)
      BY DEF ChainInv
    <2>2. \A t \in Services :
             /\ \/ handler'[<<r, t>>] = handler[<<r, t>>]
                \/ handler'[<<r, t>>].at = "gone"
             /\ handler[<<r, t>>].at \in {"idle", "PROVISIONED", "REJECTED"}
                  => handler'[<<r, t>>] = handler[<<r, t>>]
      BY <1>2 DEF Ended, Replies
    <2>3. \A c \in Callers : c \in Services /\ Down[c] \in Services
      BY ServicesAre DEF Down
    <2> USE DEF RequestInv, At
    <2>4. InPlace(r)'
      <3>1. \A t \in Services : "gone" \in PlacesOf[t]
        BY ServicesAre DEF PlacesOf
      <3> QED
        BY <2>1, <2>2, <3>1 DEF InPlace
    <2>5. CalledOnce(r)'
      <3>1. "gone" \notin BeforeCall
        BY DEF BeforeCall, Events, KmsCalls
      <3> QED
        BY <2>1, <2>2, <2>3, <3>1 DEF CalledOnce
    <2>6. AnswersAgree(r)'
      <3>1. ASSUME NEW c \in Callers \ {"gateway"}
            PROVE  /\ handler'[<<r, c>>].at = "PROVISIONED"
                        => handler'[<<r, Down[c]>>].at = "PROVISIONED"
                   /\ handler'[<<r, c>>].at = "REJECTED"
                        => handler'[<<r, Down[c]>>].at \in {"idle", "REJECTED"}
        BY <2>1, <2>2, <2>3 DEF AnswersAgree
      <3>2. "gateway" \in Services /\ "identity" \in Services
        BY ServicesAre
      <3> QED
        BY <2>1, <2>2, <3>1, <3>2 DEF AnswersAgree
    <2>7. "pce" \in Services /\ "kom" \in Services /\ "topology" \in Services
      BY ServicesAre
    <2>8. RouteKnown(r)'
      BY <1>3, <2>1, <2>2, <2>7 DEF RouteKnown, MayDraw
    <2>9. DrawnOnce(r)' /\ SourceRead(r)'
      BY <1>3, <2>1, <2>2, <2>7 DEF DrawnOnce, Supplied, SourceRead
    <2> QED
      BY <2>4, <2>5, <2>6, <2>8, <2>9
  <1> QED
    BY <1>4, <1>5 DEF ChainInv

\* A late draw was not made by the handler that waited for it.
LEMMA ArriveKeeps ==
    ASSUME ChainInv, NEW q \in Requests, NEW p \in Events \cup {"enc_keys"}, Arrive(q, p)
    PROVE  ChainInv'
  <1> USE DEF ChainInv
  <1>1. /\ <<q, p>> \in late
        /\ late' = late \ {<<q, p>>}
        /\ UNCHANGED <<handler, route, hop, up, crashes, elapsed>>
    BY DEF Arrive
  <1>2. "enc_keys" \notin Events
    BY DEF Events
  <1>3. CASE p = "enc_keys" /\ Covered(q) /\ Draw(q) /\ UNCHANGED trail
    <2>1. RouteKnown(q) /\ MayDraw(q) /\ DrawnOnce(q)
      BY <1>1, <1>3 DEF RequestInv, MayDraw
    <2>2. /\ stored' \in [Kms -> Nat]
          /\ drawn' \in [Requests -> Nat]
          /\ drawn'[q] = drawn[q] + NumKeys[q]
          /\ \A r \in Requests : r # q => drawn'[r] = drawn[r]
      BY <1>3, <2>1, DrawEffect
    <2>3. TypeOK'
      BY <1>1, <1>3, <2>2 DEF TypeOK
    <2>4. ASSUME NEW r \in Requests PROVE RequestInv(r)'
      <3>1. RequestInv(r)
        OBVIOUS
      <3>2. CASE r # q
        <4>1. Undisturbed(r)
          BY <1>1, <1>3, <2>2, <3>2 DEF Undisturbed
        <4> QED
          BY <3>1, <4>1, UndisturbedKeeps
      <3>3. CASE r = q
        <4> USE <1>1, <1>3, <3>1, <3>3 DEF RequestInv, At
        <4>1. InPlace(r)' /\ CalledOnce(r)' /\ AnswersAgree(r)' /\ SourceRead(r)'
          BY DEF InPlace, CalledOnce, AnswersAgree, SourceRead
        <4>2. RouteKnown(r)'
          BY DEF RouteKnown, MayDraw
        <4>3. DrawnOnce(r)'
          BY DEF DrawnOnce
        <4> QED
          BY <4>1, <4>2, <4>3
      <3> QED
        BY <3>2, <3>3
    <2> QED
      BY <2>3, <2>4
  <1>4. CASE UNCHANGED <<stored, drawn>> /\ trail' \in [Requests -> Seq(Events)]
    <2>1. TypeOK'
      BY <1>1, <1>4 DEF TypeOK
    <2>2. ASSUME NEW r \in Requests PROVE RequestInv(r)'
      <3>1. RequestInv(r)
        OBVIOUS
      <3> USE <1>1, <1>4, <3>1 DEF RequestInv, At
      <3>2. InPlace(r)' /\ CalledOnce(r)' /\ AnswersAgree(r)' /\ SourceRead(r)'
        BY DEF InPlace, CalledOnce, AnswersAgree, SourceRead
      <3>3. RouteKnown(r)'
        BY DEF RouteKnown, MayDraw
      <3>4. DrawnOnce(r)'
        BY DEF DrawnOnce
      <3> QED
        BY <3>2, <3>3, <3>4
    <2> QED
      BY <2>1, <2>2
  <1>5. CASE p = "enc_keys"
    BY <1>3, <1>4, <1>5 DEF Arrive, TypeOK
  <1>6. CASE p # "enc_keys"
    <2>1. trail' = [trail EXCEPT ![q] = Append(@, p)] /\ p \in Events
      BY <1>6 DEF Arrive
    <2>2. trail' \in [Requests -> Seq(Events)]
      BY <2>1 DEF TypeOK
    <2> QED
      BY <1>4, <1>6, <2>2 DEF Arrive
  <1> QED
    BY <1>5, <1>6

\* Time touches timers only.
LEMMA TickEffect ==
    ASSUME handler \in [Requests \X Services -> Handlers], Tick
    PROVE  /\ handler' \in [Requests \X Services -> Handlers]
           /\ \A q \in Requests : \A t \in Services :
                 /\ handler'[<<q, t>>].at = handler[<<q, t>>].at
                 /\ handler'[<<q, t>>].result = handler[<<q, t>>].result
                 /\ handler'[<<q, t>>].timer =
                       IF handler[<<q, t>>].timer > 0 THEN handler[<<q, t>>].timer - 1
                       ELSE handler[<<q, t>>].timer
  <1>1. handler' = [x \in Requests \X Services |->
                      IF handler[x].timer > 0
                      THEN [handler[x] EXCEPT !.timer = @ - 1] ELSE handler[x]]
    BY DEF Tick
  <1>2. ASSUME NEW h \in Handlers, h.timer > 0
        PROVE  /\ [h EXCEPT !.timer = @ - 1] \in Handlers
               /\ [h EXCEPT !.timer = @ - 1].at = h.at
               /\ [h EXCEPT !.timer = @ - 1].result = h.result
               /\ [h EXCEPT !.timer = @ - 1].timer = h.timer - 1
    <2>1. h = [at |-> h.at, timer |-> h.timer, result |-> h.result]
      BY DEF Handlers
    <2>2. h.timer - 1 \in Delays
      <3>1. HttpTimeout \in Nat /\ AuditTimeout \in Nat
        BY ChainAssumption
      <3> QED
        BY <1>2, <3>1 DEF Handlers, Delays
    <2> HIDE DEF Delays
    <2> QED
      BY <2>1, <2>2 DEF Handlers
  <1>3. handler' \in [Requests \X Services -> Handlers]
    BY <1>1, <1>2
  <1>4. ASSUME NEW q \in Requests, NEW t \in Services
        PROVE  handler'[<<q, t>>] =
                  IF handler[<<q, t>>].timer > 0
                  THEN [handler[<<q, t>>] EXCEPT !.timer = @ - 1] ELSE handler[<<q, t>>]
    BY <1>1
  <1>5. ASSUME NEW q \in Requests, NEW t \in Services
        PROVE  /\ handler'[<<q, t>>].at = handler[<<q, t>>].at
               /\ handler'[<<q, t>>].result = handler[<<q, t>>].result
               /\ handler'[<<q, t>>].timer =
                     IF handler[<<q, t>>].timer > 0 THEN handler[<<q, t>>].timer - 1
                     ELSE handler[<<q, t>>].timer
    BY <1>2, <1>4
  <1> QED
    BY <1>3, <1>5

LEMMA TickKeeps == ChainInv /\ Tick => ChainInv'
  <1> SUFFICES ASSUME ChainInv, Tick PROVE ChainInv'
    OBVIOUS
  <1>1. handler \in [Requests \X Services -> Handlers]
    BY DEF ChainInv, TypeOK, Handlers, Places, Delays
  <1>2. /\ handler' \in [Requests \X Services -> Handlers]
        /\ \A q \in Requests : \A t \in Services :
              /\ handler'[<<q, t>>].at = handler[<<q, t>>].at
              /\ handler'[<<q, t>>].result = handler[<<q, t>>].result
    BY <1>1, TickEffect
  <1>3. UNCHANGED <<route, hop, stored, drawn, trail, late, up, crashes>>
    BY DEF Tick
  <1>4. elapsed' \in [Requests -> Nat]
    BY DEF Tick, ChainInv, TypeOK
  <1>5. TypeOK'
    BY <1>2, <1>3, <1>4 DEF ChainInv, TypeOK, Handlers, Places, Delays
  <1> QED
    BY <1>2, <1>3, <1>5, UndisturbedKeeps DEF ChainInv, Undisturbed

\* A request that no service has seen is in order.
LEMMA IdleIsInPlace ==
    ASSUME NEW r \in Requests, \A s \in Services : handler[<<r, s>>].at = "idle"
    PROVE  InPlace(r) /\ CalledOnce(r)
  <1>1. \A s \in Services : "idle" \in PlacesOf[s]
    BY ServicesAre DEF PlacesOf
  <1>2. \A c \in Callers : Down[c] \in Services
    BY ServicesAre DEF Down
  <1> QED
    BY <1>1, <1>2 DEF InPlace, CalledOnce, At

LEMMA InitInv == Init => ChainInv
  <1> SUFFICES ASSUME Init PROVE ChainInv
    OBVIOUS
  <1> USE ServicesAre, ChainAssumption DEF Init
  <1>1. TypeOK
    <2>1. [at |-> "idle", timer |-> 0, result |-> "ok"] \in Handlers
      BY DEF Handlers, Places, Delays
    <2>2. handler \in [Requests \X Services -> Handlers]
      BY <2>1
    <2> QED
      BY <2>2 DEF TypeOK, Handlers, Places, Delays
  <1>2. \A r \in Requests : \A s \in Services : handler[<<r, s>>].at = "idle"
    OBVIOUS
  <1>3. ASSUME NEW r \in Requests PROVE RequestInv(r)
    <2> USE <1>2 DEF At
    <2>1. InPlace(r) /\ CalledOnce(r)
      BY IdleIsInPlace
    <2>2. AnswersAgree(r) /\ SourceRead(r)
      BY DEF AnswersAgree, SourceRead
    <2>3. RouteKnown(r) /\ DrawnOnce(r)
      BY DEF RouteKnown, MayDraw, DrawnOnce, Supplied
    <2> QED
      BY <2>1, <2>2, <2>3 DEF RequestInv
  <1> QED
    BY <1>1, <1>3 DEF ChainInv

LEMMA NextKeeps == ChainInv /\ [Next]_vars => ChainInv'
  <1> SUFFICES ASSUME ChainInv, [Next]_vars PROVE ChainInv'
    OBVIOUS
  <1>1. ASSUME NEW r \in Requests, NEW s \in Services, Step(r, s) PROVE ChainInv'
    BY <1>1, StepKeeps
  <1>2. ASSUME NEW r \in Requests, Submit(r) PROVE ChainInv'
    BY <1>2, StepKeeps, ServicesAre DEF Submit
  <1>3. CASE UNCHANGED <<handler, route, drawn, late>> /\ TypeOK'
    BY <1>3, UndisturbedKeeps DEF ChainInv, Undisturbed
  <1>4. ASSUME NEW s \in Services, Restart(s) PROVE ChainInv'
    <2>1. TypeOK'
      BY <1>4 DEF ChainInv, TypeOK, Restart
    <2> QED
      BY <1>3, <1>4, <2>1 DEF Restart
  <1>5. CASE UNCHANGED vars
    <2>1. TypeOK'
      BY <1>5 DEF ChainInv, TypeOK, vars
    <2> QED
      BY <1>3, <1>5, <2>1 DEF vars
  <1> QED
    BY <1>1, <1>2, <1>4, <1>5, TickKeeps, CrashKeeps, ArriveKeeps DEF Next, Environment

(***************************************************************************)
(* Types.  No KMS is ever overdrawn, whatever requests race for its keys,  *)
(* time out, crash or draw after their caller gave up.                     *)
(***************************************************************************)
THEOREM ChainTypeCorrect == Spec => []TypeOK
  <1>1. ChainInv => TypeOK
    BY DEF ChainInv
  <1> QED
    BY <1>1, InitInv, NextKeeps, PTL DEF Spec

-----------------------------------------------------------------------------
(* The chain implements the circuit service.                                *)

\* Who answers PROVISIONED has it from key orchestration.
LEMMA ProvisionedBelow ==
    ASSUME NEW r \in Requests, RequestInv(r), At(r, "identity") = "PROVISIONED"
    PROVE  At(r, "kom") = "PROVISIONED"
  <1> USE ServicesAre DEF RequestInv, AnswersAgree, Down
  <1>1. At(r, "topology") = "PROVISIONED"
    OBVIOUS
  <1>2. At(r, "pce") = "PROVISIONED"
    BY <1>1
  <1> QED
    BY <1>2

\* Whoever is told 200 has keys, drawn by key orchestration itself.
LEMMA ServedIsSupplied ==
    ASSUME NEW r \in Requests, RequestInv(r), At(r, "gateway") = "200"
    PROVE  /\ At(r, "kom") = "PROVISIONED"
           /\ drawn[r] = NumKeys[r]
           /\ <<r, "enc_keys">> \notin late
  <1>1. At(r, "kom") = "PROVISIONED"
    BY ProvisionedBelow DEF RequestInv, AnswersAgree
  <1> QED
    BY <1>1 DEF RequestInv, DrawnOnce, Supplied

LEMMA AnswerIs ==
    ASSUME NEW r \in Requests
    PROVE  /\ handler[<<r, "gateway">>].at \in Answers \cup {"gone"}
                => answer[r] = handler[<<r, "gateway">>].at
           /\ handler[<<r, "gateway">>].at \notin Answers \cup {"gone"}
                => answer[r] = "none"
           /\ handler'[<<r, "gateway">>].at \in Answers \cup {"gone"}
                => answer'[r] = handler'[<<r, "gateway">>].at
           /\ handler'[<<r, "gateway">>].at \notin Answers \cup {"gone"}
                => answer'[r] = "none"
  BY DEF answer, At

LEMMA AnswerStays ==
    ASSUME \A r \in Requests :
              handler'[<<r, "gateway">>].at = handler[<<r, "gateway">>].at
    PROVE  answer' = answer
  BY DEF answer, At

\* A draw of the model is the draw of the circuit service.
LEMMA DrawIsSpend ==
    ASSUME ChainInv, NEW r \in Requests, MayDraw(r), Covered(r), Draw(r),
           drawn[r] = 0, At(r, "gateway") # "200", answer' = answer
    PROVE  CS!Next
  <1>1. SourceKms(r) \in Kms
    BY SourceIsKms DEF ChainInv, RequestInv
  <1>2. answer[r] # "200"
    BY AnswerIs DEF At
  <1>3. NumKeys[r] \in 1 .. stored[SourceKms(r)] /\ NumKeys[r] \in Int
    BY ChainAssumption DEF Covered
  <1>4. drawn' = [drawn EXCEPT ![r] = NumKeys[r]]
    <2>1. drawn[r] + NumKeys[r] = NumKeys[r]
      BY <1>3
    <2>2. drawn' = [drawn EXCEPT ![r] = drawn[r] + NumKeys[r]]
      BY DEF Draw
    <2> QED
      BY <2>1, <2>2
  <1>5. CS!Spend(r, SourceKms(r))
    BY <1>2, <1>3, <1>4 DEF CS!Spend, Draw
  <1> QED
    BY <1>1, <1>5 DEF CS!Next

LEMMA OnlyEncKeysDraws ==
    ASSUME NEW r \in Requests, NEW s \in Services, Step(r, s) \/ Receive(r, s)
    PROVE  \/ UNCHANGED <<stored, drawn>>
           \/ s = "kom" /\ EncKeys(r) /\ handler[<<r, "kom">>].result = "ok"
                 /\ Covered(r) /\ Draw(r)
  <1>1. CASE EncKeys(r) /\ s = "kom"
    BY <1>1 DEF EncKeys
  <1>2. CASE Receive(r, s) \/ Audit(r, s) \/ Snapshot(r) \/ QueryRelay(r) \/ DecKeys(r)
    BY <1>2 DEF Receive, Audit, Snapshot, QueryRelay, DecKeys
  <1>3. CASE s \in Callers /\ (Connect(r, s) \/ Return(r, s) \/ Fail(r, s))
    BY <1>3 DEF Connect, Return, Fail
  <1> QED
    BY <1>1, <1>2, <1>3 DEF Step

LEMMA StepRefines ==
    ASSUME ChainInv, NEW r \in Requests, NEW s \in Services, Step(r, s) \/ Receive(r, s)
    PROVE  CS!Next \/ UNCHANGED <<stored, drawn, answer>>
  <1>1. PICK p \in PlacesOf[s] : LegalMove(r, s, p) /\ Enter(r, s, p)
    BY StepIsLegal DEF ChainInv
  <1>2. RequestInv(r) /\ handler \in [Requests \X Services -> Handlers] /\ p \in Places
    BY PlacesOfService DEF ChainInv, TypeOK, Handlers, Places, Delays
  <1>3. /\ handler'[<<r, s>>].at = p
        /\ \A q \in Requests : \A t \in Services :
              q # r \/ t # s => handler'[<<q, t>>] = handler[<<q, t>>]
    BY <1>1, <1>2, EnterEffect
  <1>4. "gateway" \in Services
    BY ServicesAre
  <1>5. s # "gateway" => answer' = answer
    BY <1>3, <1>4, AnswerStays
  <1>6. CASE s = "gateway" /\ UNCHANGED <<stored, drawn>>
    <2>1. handler[<<r, "gateway">>].at \notin Answers \cup {"gone"}
      BY <1>1, <1>6 DEF LegalMove, At, Ended
    <2>2. CASE p \notin Answers \cup {"gone"}
      <3>1. answer' = answer
        BY <1>3, <1>4, <1>6, <2>1, <2>2 DEF answer, At
      <3> QED
        BY <1>6, <3>1
    <2>3. CASE p \in Answers \cup {"gone"}
      <3>1. p # "gone"
        BY <1>1 DEF LegalMove
      <3>2. answer' = [answer EXCEPT ![r] = p]
        BY <1>3, <1>4, <1>6, <2>1, <2>3 DEF answer, At
      <3>3. answer[r] = "none"
        BY <2>1, AnswerIs
      <3>4. RequestInv(r)'
        BY <1>1, <1>2, LegalMoveKeeps
      <3>5. p = "200" => drawn[r] = NumKeys[r]
        <4> SUFFICES ASSUME p = "200" PROVE At(r, "kom") = "PROVISIONED"
          BY <1>2 DEF RequestInv, DrawnOnce, Supplied
        <4>1. At(r, "identity") = "PROVISIONED"
          BY <1>1, <1>6 DEF LegalMove, LegalAnswer
        <4> QED
          BY <1>2, <4>1, ProvisionedBelow
      <3>6. CS!Answer(r, p)
        BY <1>6, <3>2, <3>3, <3>5 DEF CS!Answer
      <3>7. p \in {"200", "502", "503"}
        BY <2>3, <3>1 DEF Answers
      <3> QED
        BY <3>6, <3>7 DEF CS!Next
    <2> QED
      BY <2>2, <2>3
  <1>7. CASE s = "kom" /\ EncKeys(r) /\ handler[<<r, "kom">>].result = "ok"
             /\ Covered(r) /\ Draw(r)
    <2>1. At(r, "kom") = "enc_keys"
      BY <1>7 DEF EncKeys, Ready
    <2>2. drawn[r] = 0 /\ MayDraw(r)
      BY <1>2, <1>7, <2>1 DEF RequestInv, DrawnOnce, MayDraw
    <2>3. At(r, "gateway") # "200"
      BY <1>2, <2>1, ServedIsSupplied
    <2> QED
      BY <1>5, <1>7, <2>2, <2>3, DrawIsSpend
  <1> QED
    BY <1>5, <1>6, <1>7, OnlyEncKeysDraws

LEMMA CrashRefines ==
    ASSUME ChainInv, NEW s \in Services, Crash(s)
    PROVE  CS!Next
  <1>1. handler \in [Requests \X Services -> Handlers] /\ "gateway" \in Services
    BY ServicesAre DEF ChainInv, TypeOK, Handlers, Places, Delays
  <1>2. \A q \in Requests :
           \/ handler'[<<q, "gateway">>] = handler[<<q, "gateway">>]
           \/ /\ handler[<<q, "gateway">>].at \notin Ended \cup {"idle"}
              /\ handler'[<<q, "gateway">>].at = "gone"
    BY <1>1, CrashEffect
  <1> DEFINE R == {q \in Requests : answer'[q] # answer[q]}
  <1>3. ASSUME NEW q \in R PROVE answer[q] = "none" /\ answer'[q] = "gone"
    BY ZenonT(60), <1>2, AnswerIs DEF Ended
  <1>4. R \in SUBSET {q \in Requests : answer[q] = "none"}
    BY <1>3
  <1>5. answer' = [q \in Requests |-> IF q \in R THEN "gone" ELSE answer[q]]
    <2>1. answer' = [q \in Requests |-> answer'[q]]
      BY DEF answer
    <2> QED
      BY <1>3, <2>1
  <1>6. UNCHANGED <<stored, drawn>>
    BY DEF Crash
  <1> HIDE DEF R
  <1>7. CS!Cut
    BY <1>4, <1>5, <1>6 DEF CS!Cut
  <1> QED
    BY <1>7 DEF CS!Next

LEMMA ArriveRefines ==
    ASSUME ChainInv, NEW r \in Requests, NEW p \in Events \cup {"enc_keys"}, Arrive(r, p)
    PROVE  CS!Next \/ UNCHANGED <<stored, drawn, answer>>
  <1>1. answer' = answer
    BY AnswerStays DEF Arrive
  <1>2. CASE p = "enc_keys" /\ Covered(r) /\ Draw(r)
    <2>1. RequestInv(r) /\ <<r, "enc_keys">> \in late
      BY <1>2 DEF Arrive, ChainInv
    <2>2. drawn[r] = 0 /\ MayDraw(r)
      BY <2>1 DEF RequestInv, DrawnOnce, MayDraw
    <2>3. At(r, "gateway") # "200"
      BY <2>1, ServedIsSupplied
    <2> QED
      BY <1>1, <1>2, <2>2, <2>3, DrawIsSpend
  <1> QED
    BY <1>1, <1>2 DEF Arrive

LEMMA NextRefines ==
    ChainInv /\ [Next]_vars => [CS!Next]_<<stored, drawn, answer>>
  <1> SUFFICES ASSUME ChainInv, [Next]_vars
               PROVE  CS!Next \/ UNCHANGED <<stored, drawn, answer>>
    OBVIOUS
  <1>1. ASSUME NEW r \in Requests, Submit(r)
        PROVE  CS!Next \/ UNCHANGED <<stored, drawn, answer>>
    BY <1>1, StepRefines, ServicesAre DEF Submit
  <1>2. CASE UNCHANGED <<handler, stored, drawn>>
    BY <1>2, AnswerStays
  <1>3. CASE Tick
    <2>1. handler \in [Requests \X Services -> Handlers] /\ "gateway" \in Services
      BY ServicesAre DEF ChainInv, TypeOK, Handlers, Places, Delays
    <2>2. answer' = answer
      BY <1>3, <2>1, TickEffect, AnswerStays
    <2> QED
      BY <1>3, <2>2 DEF Tick
  <1>4. ASSUME NEW s \in Services, Restart(s) PROVE UNCHANGED <<handler, stored, drawn>>
    BY <1>4 DEF Restart
  <1>5. CASE UNCHANGED vars
    BY <1>2, <1>5 DEF vars
  <1> QED
    BY <1>1, <1>2, <1>3, <1>4, <1>5, StepRefines, CrashRefines, ArriveRefines
       DEF Next, Environment

(***************************************************************************)
(* The chain is a circuit service: ONOS is answered at most once, a        *)
(* request costs its keys at most once, from one KMS, and 200 is said only *)
(* of keys taken, whatever is late, lost, crashed or given up.             *)
(***************************************************************************)
THEOREM ChainImplementsCircuitService == Spec => ImplementsCircuitService
  <1>1. Init => CS!Init
    <2> SUFFICES ASSUME Init PROVE CS!Init
      OBVIOUS
    <2>1. \A r \in Requests : handler[<<r, "gateway">>].at = "idle"
      BY ServicesAre DEF Init
    <2>2. answer = [r \in Requests |-> "none"]
      BY <2>1 DEF answer, At, Answers
    <2> QED
      BY <2>2 DEF Init, CS!Init
  <1> QED
    BY <1>1, InitInv, NextKeeps, NextRefines, PTL DEF Spec, ImplementsCircuitService, CS!Spec

-----------------------------------------------------------------------------
(* How long ONOS waits.                                                     *)

(***************************************************************************)
(* The inductive invariant: the time a request has been with the gateway   *)
(* and the time its present await may still take fit into the awaits up to *)
(* that one.                                                               *)
(***************************************************************************)
TimeLeft(r) ==
    LET here == handler[<<r, "gateway">>].at
        used == elapsed[r] + handler[<<r, "gateway">>].timer
    IN  /\ here = "idle" => elapsed[r] = 0
        /\ here = "request_received" => used <= AuditPhases * AuditTimeout
        /\ here = "connect" => used <= AuditPhases * AuditTimeout + 2 * HttpTimeout
        /\ here = "forward" => used <= AuditPhases * AuditTimeout + CallPhases * HttpTimeout
        /\ here \in {"response_returned", "downstream_error"}
              => used <= CallPhases * HttpTimeout + 2 * AuditPhases * AuditTimeout
        /\ elapsed[r] <= CallPhases * HttpTimeout + 2 * AuditPhases * AuditTimeout

TimeInv == ChainInv /\ \A r \in Requests : TimeLeft(r)

\* The handler of the gateway, step by step.
LEMMA GatewayMoves ==
    ASSUME NEW r \in Requests, InPlace(r), Step(r, "gateway") \/ Receive(r, "gateway")
    PROVE  \E p \in PlacesOf["gateway"] :
              /\ Enter(r, "gateway", p)
              /\ \/ At(r, "gateway") = "idle" /\ p = "request_received"
                 \/ Ready(r, "gateway", "request_received") /\ p = "connect"
                 \/ Ready(r, "gateway", "connect") /\ p \in {"forward", "downstream_error"}
                 \/ At(r, "gateway") = "forward" /\ p \in {"response_returned", "downstream_error"}
                 \/ p \in {"200", "502", "503"}
  <1>1. CASE Receive(r, "gateway")
    BY <1>1 DEF Receive, First, PlacesOf
  <1>2. CASE Audit(r, "gateway")
    <2>1. PICK p \in Gateway(r)[At(r, "gateway")] : Enter(r, "gateway", p)
      BY <1>2 DEF Audit, AfterEvent
    <2>2. At(r, "gateway") \in {"request_received", "response_returned", "downstream_error"}
      BY <1>2, ServicesAre DEF Audit, Ready, InPlace, PlacesOf, Events
    <2>3. \/ Ready(r, "gateway", "request_received") /\ p = "connect"
          \/ p \in {"200", "502", "503"}
      BY <1>2, <2>1, <2>2 DEF Gateway, Final, Audit, Ready
    <2> QED
      BY <2>1, <2>3 DEF PlacesOf
  <1>3. CASE Return(r, "gateway")
    BY <1>3 DEF Return, PlacesOf
  <1>4. CASE Fail(r, "gateway")
    BY <1>4 DEF Fail, GaveUp, PlacesOf
  <1>5. CASE Connect(r, "gateway")
    BY <1>5 DEF Connect, GaveUp, PlacesOf
  <1> QED
    BY <1>1, <1>2, <1>3, <1>4, <1>5 DEF Step

LEMMA StepTime ==
    ASSUME TimeInv, NEW r \in Requests, NEW s \in Services, Step(r, s) \/ Receive(r, s),
           NEW q \in Requests
    PROVE  TimeLeft(q)'
  <1>1. /\ handler \in [Requests \X Services -> Handlers]
        /\ RequestInv(r)
        /\ elapsed \in [Requests -> Nat]
        /\ "gateway" \in Services
    BY ServicesAre DEF TimeInv, ChainInv, TypeOK, Handlers, Places, Delays
  <1>2. elapsed' = elapsed
    BY <1>1, StepType DEF TimeInv, ChainInv, Receive
  <1>3. CASE handler'[<<q, "gateway">>] = handler[<<q, "gateway">>]
    BY <1>2, <1>3 DEF TimeInv, TimeLeft
  <1>4. CASE s # "gateway" \/ q # r
    <2>1. PICK p \in PlacesOf[s] : Enter(r, s, p)
      BY StepIsLegal DEF TimeInv, ChainInv
    <2>2. p \in Places
      BY PlacesOfService
    <2>3. \A x \in Requests : \A t \in Services :
             x # r \/ t # s => handler'[<<x, t>>] = handler[<<x, t>>]
      BY <1>1, <2>1, <2>2, EnterEffect
    <2> QED
      BY <1>1, <1>3, <1>4, <2>3
  <1>5. CASE s = "gateway" /\ q = r
    <2>1. PICK p \in PlacesOf["gateway"] :
              /\ Enter(r, "gateway", p)
              /\ \/ At(r, "gateway") = "idle" /\ p = "request_received"
                 \/ Ready(r, "gateway", "request_received") /\ p = "connect"
                 \/ Ready(r, "gateway", "connect") /\ p \in {"forward", "downstream_error"}
                 \/ At(r, "gateway") = "forward" /\ p \in {"response_returned", "downstream_error"}
                 \/ p \in {"200", "502", "503"}
      BY <1>1, <1>5, GatewayMoves DEF RequestInv
    <2>2. p \in Places
      BY <1>1, PlacesOfService
    <2>3. /\ handler'[<<r, "gateway">>].at = p
          /\ p \in Events => handler'[<<r, "gateway">>].timer \in 0 .. AuditPhases * AuditTimeout
          /\ p = "connect" => handler'[<<r, "gateway">>].timer \in 0 .. 2 * HttpTimeout
          /\ p = "forward" => handler'[<<r, "gateway">>].timer = HttpTimeout
      BY <1>1, <2>1, <2>2, EnterEffect
    <2>4. {"request_received", "response_returned", "downstream_error"} \subseteq Events
      BY DEF Events
    <2>5. handler[<<r, "gateway">>].timer \in Nat /\ elapsed[r] \in Nat
      BY <1>1, ChainAssumption DEF Handlers, Delays
    <2>6. TimeLeft(r)
      BY DEF TimeInv
    <2> QED
      BY SMTT(30), <1>2, <1>5, <2>1, <2>3, <2>4, <2>5, <2>6, ChainAssumption
         DEF TimeLeft, At, Ready, AuditPhases, CallPhases
  <1> QED
    BY <1>4, <1>5

LEMMA TickTime ==
    ASSUME TimeInv, Tick, NEW q \in Requests
    PROVE  TimeLeft(q)'
  <1> DEFINE here  == handler[<<q, "gateway">>].at
             timer == handler[<<q, "gateway">>].timer
  <1>1. /\ handler \in [Requests \X Services -> Handlers]
        /\ elapsed[q] \in Nat
        /\ TimeLeft(q)
        /\ "gateway" \in Services
    BY ServicesAre DEF TimeInv, ChainInv, TypeOK, Handlers, Places, Delays
  <1>2. timer \in Nat
    BY <1>1, ChainAssumption DEF Handlers, Delays
  <1>3. /\ handler'[<<q, "gateway">>].at = here
        /\ handler'[<<q, "gateway">>].timer = IF timer > 0 THEN timer - 1 ELSE timer
    BY <1>1, TickEffect
  <1>4. elapsed'[q] = elapsed[q] + IF Open(q) THEN 1 ELSE 0
    BY DEF Tick
  <1>5. CASE Open(q)
    <2>1. here \notin Ended \cup {"idle"}
      BY <1>5 DEF Open, At
    <2>2. "gateway" \notin Going(q)
      BY DEF Tick
    <2>3. timer # 0
      BY <1>1, <2>1, <2>2 DEF Going, At
    <2>4. elapsed'[q] + handler'[<<q, "gateway">>].timer = elapsed[q] + timer
      BY <1>1, <1>2, <1>3, <1>4, <1>5, <2>3
    <2>5. here \in {"request_received", "connect", "forward", "response_returned", "downstream_error"}
      BY <2>1, ServicesAre
         DEF TimeInv, ChainInv, RequestInv, InPlace, At, PlacesOf, Ended, Answers
    <2>6. elapsed'[q] <= elapsed[q] + timer
      BY <1>1, <1>2, <1>4, <1>5, <2>3
    <2> QED
      BY SMTT(30), <1>1, <1>2, <1>3, <1>4, <2>4, <2>5, <2>6, ChainAssumption
         DEF TimeLeft, AuditPhases, CallPhases
  <1>6. CASE ~Open(q)
    <2>1. here \in Ended \cup {"idle"}
      BY <1>6 DEF Open, At
    <2>2. elapsed'[q] = elapsed[q]
      BY <1>1, <1>4, <1>6
    <2> QED
      BY <1>1, <1>3, <2>1, <2>2 DEF TimeLeft, Ended, Answers, Replies
  <1> QED
    BY <1>5, <1>6

LEMMA NextTime == TimeInv /\ [Next]_vars => TimeInv'
  <1> SUFFICES ASSUME TimeInv, [Next]_vars, NEW q \in Requests PROVE TimeLeft(q)'
    BY NextKeeps DEF TimeInv
  <1>1. ASSUME NEW r \in Requests, NEW s \in Services, Step(r, s) PROVE TimeLeft(q)'
    BY <1>1, StepTime
  <1>2. ASSUME NEW r \in Requests, Submit(r) PROVE TimeLeft(q)'
    BY <1>2, StepTime, ServicesAre DEF Submit
  <1>3. CASE UNCHANGED <<handler, elapsed>>
    BY <1>3 DEF TimeInv, TimeLeft
  <1>4. ASSUME NEW s \in Services, Crash(s) PROVE TimeLeft(q)'
    <2>1. handler \in [Requests \X Services -> Handlers] /\ "gateway" \in Services
      BY ServicesAre DEF TimeInv, ChainInv, TypeOK, Handlers, Places, Delays
    <2>2. \/ handler'[<<q, "gateway">>] = handler[<<q, "gateway">>]
          \/ handler'[<<q, "gateway">>].at = "gone"
      BY <1>4, <2>1, CrashEffect
    <2>3. elapsed' = elapsed
      BY <1>4 DEF Crash
    <2> QED
      BY <2>2, <2>3 DEF TimeInv, TimeLeft
  <1>5. ASSUME NEW s \in Services, Restart(s) PROVE TimeLeft(q)'
    BY <1>3, <1>5 DEF Restart
  <1>6. ASSUME NEW r \in Requests, NEW p \in Events \cup {"enc_keys"}, Arrive(r, p)
        PROVE  TimeLeft(q)'
    BY <1>3, <1>6 DEF Arrive
  <1>7. CASE UNCHANGED vars
    BY <1>3, <1>7 DEF vars
  <1> QED
    BY <1>1, <1>2, <1>4, <1>5, <1>6, <1>7, TickTime DEF Next, Environment

(***************************************************************************)
(* ONOS never waits longer than the phases of one call and of two audit    *)
(* writes may take, each at its full timeout, however many services below  *)
(* the gateway hang, fail or crash.                                        *)
(***************************************************************************)
THEOREM ChainAnswersInTime == Spec => []AnsweredInTime
  <1>1. Init => TimeInv
    <2> SUFFICES ASSUME Init, NEW r \in Requests PROVE TimeLeft(r)
      BY InitInv DEF TimeInv
    <2>1. handler[<<r, "gateway">>].at = "idle" /\ elapsed[r] = 0
      BY ServicesAre DEF Init
    <2> QED
      BY <2>1, ChainAssumption DEF TimeLeft, AuditPhases, CallPhases
  <1>2. TimeInv => AnsweredInTime
    BY DEF TimeInv, TimeLeft, AnsweredInTime
  <1> QED
    BY <1>1, <1>2, NextTime, PTL DEF Spec

-----------------------------------------------------------------------------
(* What a rejection costs.                                                  *)

\* No call to a KMS takes effect after key orchestration gave it up.
NoLateDraws == \A a \in KmsResults : a.result # "late"

Unspent == {"idle", "status", "enc_keys", "kms_error", "REJECTED"}

NothingSpent(r) ==
    /\ <<r, "enc_keys">> \notin late
    /\ At(r, "kom") \in Unspent => drawn[r] = 0

CostInv == ChainInv /\ \A r \in Requests : NothingSpent(r)

\* Key orchestration gives up only before it has keys.
LEMMA KomMoves ==
    ASSUME TypeOK, NEW r \in Requests, RequestInv(r), Step(r, "kom") \/ Receive(r, "kom")
    PROVE  \E p \in PlacesOf["kom"] :
              /\ Enter(r, "kom", p)
              /\ p \in Unspent => At(r, "kom") \in Unspent /\ drawn' = drawn
  <1> USE ServicesAre DEF PlacesOf, Unspent
  <1>1. CASE Receive(r, "kom")
    BY <1>1 DEF Receive, ReceiveKom, KmsCall, First
  <1>2. CASE Audit(r, "kom")
    <2>1. PICK p \in Kom[At(r, "kom")] : Enter(r, "kom", p) /\ drawn' = drawn
      BY <1>2 DEF Audit, AfterEvent
    <2>2. At(r, "kom") \in {"kms_error", "key_verify_skipped", "keys_retrieved"}
      BY <1>2 DEF Audit, Ready, RequestInv, InPlace, Events
    <2>3. \/ p = "REJECTED" /\ At(r, "kom") = "kms_error"
          \/ p \in {"keys_retrieved", "connect"}
      BY <2>1, <2>2 DEF Kom
    <2> QED
      BY <2>1, <2>3
  <1>3. CASE QueryRelay(r)
    BY <1>3 DEF QueryRelay, KmsCall, Ready
  <1>4. CASE EncKeys(r)
    <2>1. At(r, "kom") = "enc_keys"
      BY <1>4 DEF EncKeys, Ready
    <2>2. \/ Enter(r, "kom", "dec_keys")
          \/ Enter(r, "kom", "kms_error") /\ drawn' = drawn
      BY <1>4 DEF EncKeys
    <2> QED
      BY <2>1, <2>2
  <1>5. CASE DecKeys(r)
    BY <1>5 DEF DecKeys, VerificationFailed
  <1>6. CASE Return(r, "kom")
    <2>1. At(r, "provisioning") \in {"PROVISIONED", "REJECTED"}
      BY <1>6 DEF Return, Down
    <2>2. At(r, "provisioning") = "PROVISIONED"
      BY <2>1 DEF RequestInv, InPlace
    <2> QED
      BY <1>6, <2>2 DEF Return, Down
  <1>7. CASE Fail(r, "kom")
    BY <1>7 DEF Fail, GaveUp
  <1>8. CASE Connect(r, "kom")
    BY <1>8 DEF Connect, GaveUp
  <1> QED
    BY <1>1, <1>2, <1>3, <1>4, <1>5, <1>6, <1>7, <1>8 DEF Step

LEMMA StepCosts ==
    ASSUME NoLateDraws, CostInv, NEW r \in Requests, NEW s \in Services,
           Step(r, s) \/ Receive(r, s), NEW q \in Requests
    PROVE  NothingSpent(q)'
  <1>1. /\ handler \in [Requests \X Services -> Handlers]
        /\ TypeOK /\ RequestInv(r) /\ NothingSpent(q) /\ NothingSpent(r)
        /\ "kom" \in Services
    BY ServicesAre DEF CostInv, ChainInv, TypeOK, Handlers, Places, Delays
  <1>2. PICK p \in PlacesOf[s] :
           Enter(r, s, p) /\ (s = "kom" /\ p \in Unspent => At(r, "kom") \in Unspent /\ drawn' = drawn)
    BY <1>1, StepIsLegal, KomMoves
  <1>3. /\ p \in Places
        /\ p = "enc_keys" => s = "kom"
    BY PlacesOfService
  <1>4. p = "enc_keys" => late' = late
    BY <1>2, ChainAssumption DEF Enter, Awaits, Events, KmsCalls, NoLateDraws
  <1>5. /\ handler'[<<r, s>>].at = p
        /\ \A x \in Requests : \A t \in Services :
              x # r \/ t # s => handler'[<<x, t>>] = handler[<<x, t>>]
        /\ late' \subseteq late \cup {<<r, p>>}
    BY <1>1, <1>2, <1>3, EnterEffect
  <1>6. <<q, "enc_keys">> \notin late'
    BY <1>1, <1>4, <1>5 DEF NothingSpent
  <1>7. CASE q = r /\ s = "kom"
    BY <1>1, <1>2, <1>5, <1>6, <1>7 DEF NothingSpent, At
  <1>8. CASE q # r \/ s # "kom"
    <2>1. handler'[<<q, "kom">>] = handler[<<q, "kom">>]
      BY <1>1, <1>5, <1>8
    <2>2. drawn'[q] = drawn[q]
      <3>1. drawn' = drawn \/ (s = "kom" /\ drawn' = [drawn EXCEPT ![r] = @ + NumKeys[r]])
        BY OnlyEncKeysDraws DEF Draw
      <3> QED
        BY <1>1, <1>8, <3>1 DEF TypeOK
    <2> QED
      BY <1>1, <1>6, <2>1, <2>2 DEF NothingSpent, At
  <1> QED
    BY <1>7, <1>8

LEMMA NextCosts == NoLateDraws /\ CostInv /\ [Next]_vars => CostInv'
  <1> SUFFICES ASSUME NoLateDraws, CostInv, [Next]_vars, NEW q \in Requests
               PROVE  NothingSpent(q)'
    BY NextKeeps DEF CostInv
  <1>1. handler \in [Requests \X Services -> Handlers] /\ "kom" \in Services
    BY ServicesAre DEF CostInv, ChainInv, TypeOK, Handlers, Places, Delays
  <1>2. ASSUME NEW r \in Requests, NEW s \in Services, Step(r, s) PROVE NothingSpent(q)'
    BY <1>2, StepCosts
  <1>3. ASSUME NEW r \in Requests, Submit(r) PROVE NothingSpent(q)'
    BY <1>3, StepCosts, ServicesAre DEF Submit
  <1>4. CASE /\ handler'[<<q, "kom">>].at \in {handler[<<q, "kom">>].at, "gone"}
             /\ late' \subseteq late /\ drawn' = drawn
    BY <1>4 DEF CostInv, NothingSpent, At, Unspent
  <1>5. CASE Tick
    BY <1>1, <1>4, <1>5, TickEffect DEF Tick
  <1>6. ASSUME NEW s \in Services, Crash(s) PROVE NothingSpent(q)'
    BY <1>1, <1>4, <1>6, CrashEffect DEF Crash
  <1>7. ASSUME NEW s \in Services, Restart(s) PROVE NothingSpent(q)'
    BY <1>4, <1>7 DEF Restart
  <1>8. ASSUME NEW r \in Requests, NEW p \in Events \cup {"enc_keys"}, Arrive(r, p)
        PROVE  NothingSpent(q)'
    <2>1. p # "enc_keys"
      BY <1>8 DEF Arrive, CostInv, NothingSpent
    <2> QED
      BY <1>4, <1>8, <2>1 DEF Arrive
  <1>9. CASE UNCHANGED vars
    BY <1>4, <1>9 DEF vars
  <1> QED
    BY <1>2, <1>3, <1>5, <1>6, <1>7, <1>8, <1>9 DEF Next, Environment

(***************************************************************************)
(* A rejected request costs no key material, if a call that key            *)
(* orchestration gives up never takes effect afterwards.                   *)
(***************************************************************************)
THEOREM ChainRejectsForFree == ASSUME NoLateDraws PROVE Spec => []RejectedCostsNothing
  <1>1. Init => CostInv
    <2> SUFFICES ASSUME Init, NEW r \in Requests PROVE NothingSpent(r)
      BY InitInv DEF CostInv
    <2> QED
      BY DEF Init, NothingSpent
  <1>2. CostInv => RejectedCostsNothing
    <2> SUFFICES ASSUME CostInv, NEW r \in Requests, answer[r] = "503" PROVE drawn[r] = 0
      BY DEF RejectedCostsNothing
    <2> USE ServicesAre DEF CostInv, ChainInv, RequestInv, AnswersAgree, CalledOnce, BeforeCall, Down
    <2>1. At(r, "identity") = "REJECTED"
      BY DEF answer
    <2>2. At(r, "topology") \in {"idle", "REJECTED"}
      BY <2>1
    <2>3. At(r, "pce") \in {"idle", "REJECTED"}
      BY <2>2
    <2>4. At(r, "kom") \in {"idle", "REJECTED"}
      BY <2>3
    <2> QED
      BY <2>4 DEF NothingSpent, Unspent
  <1> QED
    BY <1>1, <1>2, NextCosts, NoLateDraws, PTL DEF Spec

-----------------------------------------------------------------------------
=============================================================================
