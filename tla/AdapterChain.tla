---------------------------- MODULE AdapterChain ----------------------------
(***************************************************************************)
(* The chain of six services that turns a virtual circuit request into     *)
(* keys: gateway -> identity -> topology manager -> path computation ->    *)
(* key orchestration -> provisioning, and the answer back up.  Every       *)
(* service awaits its audit writes, and a callee that has its request for  *)
(* at most HttpTimeout seconds.  A handler whose caller has given up is    *)
(* not cancelled: it runs on to its end.                                   *)
(*                                                                         *)
(* Time is counted in seconds and passes only while every handler awaits:  *)
(* what a handler computes between two awaits takes no time.               *)
(***************************************************************************)
EXTENDS Integers, Sequences, FiniteSets

CONSTANTS
    Requests,       \* requests ONOS sends, each once
    NumKeys,        \* keys each asks for
    Resolutions,    \* may endpoints resolve to a KMS domain? (events)
    Routes,         \* paths compute_path may find; <<>> is "no path"
    Kms,            \* nodes of the KMS registry
    InitStored,     \* keys each KMS starts with
    HttpTimeout,    \* settings.http_timeout, of each phase of a call
    AuditTimeout,   \* settings.audit_timeout, of each phase of a write
    ConnectResults, \* what may become of connecting and sending a request
    AuditResults,   \* what may become of an audit write
    SourceResults,  \* what may become of reading the topology source
    KmsResults,     \* what may become of a call to a KMS
    MaxCrashes      \* bound: crashes in a behaviour

\* An await: how long it takes, and how it ends.  "late" is a call that the
\* caller gives up and the callee still carries out.
Awaited(results) == [delay : Nat, result : results]

\* The phases a timeout of httpx is for, each anew: to connect, to send and to
\* read.  The audit client is shared, and may have to wait for a connection too.
CallPhases  == 3
AuditPhases == 4

ASSUME ChainAssumption ==
    /\ IsFiniteSet(Requests)
    /\ Resolutions \subseteq {"endpoints_resolved", "resolution_failed"}
    /\ NumKeys \in [Requests -> Int]
    /\ Routes \subseteq Seq(STRING)
    /\ InitStored \in [Kms -> Nat]
    /\ HttpTimeout \in Nat \ {0} /\ AuditTimeout \in Nat \ {0}
    /\ AuditResults \subseteq Awaited({"ok", "failed", "late"})
    /\ \A a \in AuditResults : a.delay <= AuditPhases * AuditTimeout
    /\ ConnectResults \subseteq Awaited({"ok", "failed"})
    /\ \A a \in ConnectResults : a.delay <= 2 * HttpTimeout
    /\ SourceResults \subseteq Awaited({"ok", "failed", "empty", "raised"})
    /\ KmsResults \subseteq Awaited({"ok", "failed", "late"})
    /\ MaxCrashes \in Nat

VARIABLES
    handler,        \* handler[<<r, s>>]: service s working on request r
    route,          \* ctx.path.path_nodes
    hop,            \* relays the orchestration has queried
    stored,         \* keys left in each KMS
    drawn,          \* keys drawn for each request
    trail,          \* audit events of each request, in order of arrival
    late,           \* writes and draws that will arrive after all, or never
    up,             \* services running
    crashes,
    elapsed         \* seconds a request has been with the gateway

vars == <<handler, route, hop, stored, drawn, trail, late, up, crashes, elapsed>>

Down == [gateway |-> "identity", identity |-> "topology", topology |-> "pce",
         pce |-> "kom", kom |-> "provisioning"]

Callers  == DOMAIN Down
Services == Callers \cup {"provisioning"}

-----------------------------------------------------------------------------
(* Where a handler can be.                                                  *)

Events ==
    {"request_received", "response_returned", "downstream_error",
     "auth_validated", "resolution_failed", "endpoints_resolved",
     "topology_source_error", "topology_empty", "topology_attached",
     "path_not_found", "path_computed",
     "kms_error", "key_verify_skipped", "keys_retrieved", "service_provisioned"}

KmsCalls == {"status", "enc_keys", "dec_keys"}
Answers  == {"200", "502", "503"}
Replies  == {"PROVISIONED", "REJECTED", "500"}
Ended    == Answers \cup Replies \cup {"gone"}

AuditInBackground == {[delay |-> 0, result |-> "late"]}    \* mutant: not awaited
AuditAwaits == AuditResults

PatienceWithoutEnd == 10 * HttpTimeout      \* mutant: no timeout to speak of
Patience == HttpTimeout

\* What an await may come to.  A forward ends with the callee, or at the timeout.
Awaits(p) ==
    CASE p \in Events   -> AuditAwaits
      [] p = "connect"  -> ConnectResults
      [] p = "snapshot" -> SourceResults
      [] p \in KmsCalls -> KmsResults
      [] p = "forward"  -> {[delay |-> Patience, result |-> "ok"]}
      [] OTHER          -> {[delay |-> 0, result |-> "ok"]}

At(r, s) == handler[<<r, s>>].at
Ready(r, s, p) == At(r, s) = p /\ handler[<<r, s>>].timer = 0

\* The handler goes on to p; a late write or draw is on its way from now on.
Enter(r, s, p) ==
    \E a \in Awaits(p) :
        /\ handler' = [handler EXCEPT ![<<r, s>>] =
                          [at |-> p, timer |-> a.delay, result |-> a.result]]
        /\ late' = IF a.result = "late" /\ p \in Events \cup {"enc_keys"}
                   THEN late \cup {<<r, p>>}
                   ELSE late

Init ==
    /\ handler = [x \in Requests \X Services |->
                     [at |-> "idle", timer |-> 0, result |-> "ok"]]
    /\ route = [r \in Requests |-> <<>>]
    /\ hop = [r \in Requests |-> 0]
    /\ stored = InitStored
    /\ drawn = [r \in Requests |-> 0]
    /\ trail = [r \in Requests |-> <<>>]
    /\ late = {}
    /\ up = Services
    /\ crashes = 0
    /\ elapsed = [r \in Requests |-> 0]

-----------------------------------------------------------------------------
(* A service receives the context.                                          *)

\* The first await of the services that decide nothing before it.
First == [gateway |-> "request_received", identity |-> "auth_validated",
          topology |-> "snapshot", provisioning |-> "service_provisioned"]

\* The KMS call after n relays.
KmsCall(r, n) == IF n < Len(route[r]) - 2 THEN "status" ELSE "enc_keys"

\* The first await of the path computation depends on the path it finds.
ReceivePce(r) ==
    \E p \in Routes :
        /\ route' = [route EXCEPT ![r] = p]
        /\ Enter(r, "pce", IF p = <<>> THEN "path_not_found" ELSE "path_computed")

\* Every node of the path must be in the KMS registry.
ReceiveKom(r) ==
    /\ Enter(r, "kom", IF \A i \in DOMAIN route[r] : route[r][i] \in Kms
                       THEN KmsCall(r, 0) ELSE "REJECTED")
    /\ UNCHANGED route

Receive(r, s) ==
    /\ At(r, s) = "idle"
    /\ s \in up
    /\ \A c \in Callers : Down[c] = s => At(r, c) = "forward"
    /\ \/ s = "pce" /\ ReceivePce(r)
       \/ s = "kom" /\ ReceiveKom(r)
       \/ s \in DOMAIN First /\ Enter(r, s, First[s]) /\ UNCHANGED route
    /\ UNCHANGED <<hop, stored, drawn, trail, up, crashes, elapsed>>

-----------------------------------------------------------------------------
(* An audit write ends, well or not, and the handler goes on.               *)

ResolvedSilently == {"connect"}             \* mutant: resolution is not audited
Resolved == Resolutions

FinalAlways200(r) == "200"                  \* mutant: a rejection is a success
Final(r) == IF At(r, "identity") = "REJECTED" THEN "503" ELSE "200"

\* Where each handler may go after each of its audit writes.
Gateway(r)   == [request_received      |-> {"connect"},
                 downstream_error      |-> {"502"},
                 response_returned     |-> {Final(r)}]
Identity     == [auth_validated        |-> Resolved,
                 resolution_failed     |-> {"REJECTED"},
                 endpoints_resolved    |-> {"connect"}]
Topology     == [topology_source_error |-> {"REJECTED"},
                 topology_empty        |-> {"REJECTED"},
                 topology_attached     |-> {"connect"}]
Pce          == [path_not_found        |-> {"REJECTED"},
                 path_computed         |-> {"connect"}]
Kom          == [kms_error             |-> {"REJECTED"},
                 key_verify_skipped    |-> {"keys_retrieved"},
                 keys_retrieved        |-> {"connect"}]
Provisioning == [service_provisioned   |-> {"PROVISIONED"}]

AfterEvent(r, s) ==
    LET p == At(r, s) IN
    CASE s = "gateway"      -> Gateway(r)[p]
      [] s = "identity"     -> Identity[p]
      [] s = "topology"     -> Topology[p]
      [] s = "pce"          -> Pce[p]
      [] s = "kom"          -> Kom[p]
      [] s = "provisioning" -> Provisioning[p]

AuditStrict(r, s) ==                        \* mutant: a failed write raises
    /\ \E p \in Events : Ready(r, s, p)
    /\ trail' = IF handler[<<r, s>>].result = "ok"
                THEN [trail EXCEPT ![r] = Append(@, At(r, s))]
                ELSE trail
    /\ IF handler[<<r, s>>].result = "ok"
       THEN \E p \in AfterEvent(r, s) : Enter(r, s, p)
       ELSE Enter(r, s, IF s = "gateway" THEN "502" ELSE "500")
    /\ UNCHANGED <<route, hop, stored, drawn, up, crashes, elapsed>>

\* A lost write changes nothing but the trail: log_event swallows every error.
Audit(r, s) ==
    /\ \E p \in Events : Ready(r, s, p)
    /\ trail' = IF handler[<<r, s>>].result = "ok"
                THEN [trail EXCEPT ![r] = Append(@, At(r, s))]
                ELSE trail
    /\ \E p \in AfterEvent(r, s) : Enter(r, s, p)
    /\ UNCHANGED <<route, hop, stored, drawn, up, crashes, elapsed>>

\* The topology manager has its snapshot, or the source failed or was empty.
\* Of its errors only httpx.HTTPError is caught: any other ends in a 500.
Snapshot(r) ==
    /\ Ready(r, "topology", "snapshot")
    /\ LET result == handler[<<r, "topology">>].result IN
       Enter(r, "topology", CASE result = "ok"     -> "topology_attached"
                              [] result = "failed" -> "topology_source_error"
                              [] result = "empty"  -> "topology_empty"
                              [] result = "raised" -> "500")
    /\ UNCHANGED <<route, hop, stored, drawn, trail, up, crashes, elapsed>>

-----------------------------------------------------------------------------
(* Key orchestration: relay statuses, enc_keys, dec_keys.                   *)

QueryRelay(r) ==
    /\ Ready(r, "kom", "status")
    /\ IF handler[<<r, "kom">>].result = "ok"
       THEN /\ hop' = [hop EXCEPT ![r] = @ + 1]
            /\ Enter(r, "kom", KmsCall(r, hop[r] + 1))
       ELSE /\ Enter(r, "kom", "kms_error")
            /\ UNCHANGED hop
    /\ UNCHANGED <<route, stored, drawn, trail, up, crashes, elapsed>>

DestinationKms(r) == route[r][Len(route[r])]    \* mutant: draws at the wrong end
SourceKms(r) == route[r][1]

CoveredAlways(r) == TRUE                    \* mutant: the KMS never refuses
\* The KMS refuses a draw of no keys (422) and one it cannot cover (503).
Covered(r) == NumKeys[r] \in 1 .. stored[SourceKms(r)]

Draw(r) ==
    /\ stored' = [stored EXCEPT ![SourceKms(r)] = @ - NumKeys[r]]
    /\ drawn' = [drawn EXCEPT ![r] = @ + NumKeys[r]]

\* A KMS that answers 200 gives at least one key (kms_mock: number ge=1), so the
\* orchestration always has ids to verify.
EncKeys(r) ==
    /\ Ready(r, "kom", "enc_keys")
    /\ IF handler[<<r, "kom">>].result = "ok" /\ Covered(r)
       THEN Draw(r) /\ Enter(r, "kom", "dec_keys")
       ELSE Enter(r, "kom", "kms_error") /\ UNCHANGED <<stored, drawn>>
    /\ UNCHANGED <<route, hop, trail, up, crashes, elapsed>>

VerificationRequired == "kms_error"         \* mutant: no keys without verification
\* The keys are used even if the other end could not show that it has them.
VerificationFailed == "key_verify_skipped"

DecKeys(r) ==
    /\ Ready(r, "kom", "dec_keys")
    /\ Enter(r, "kom", IF handler[<<r, "kom">>].result = "ok" THEN "keys_retrieved"
                       ELSE VerificationFailed)
    /\ UNCHANGED <<route, hop, stored, drawn, trail, up, crashes, elapsed>>

-----------------------------------------------------------------------------
(* The callee is called; it answers, or the caller gives up on it.          *)

\* Only the gateway catches the error; every other service answers 500.
GaveUp(s) == IF s = "gateway" THEN "downstream_error" ELSE "500"

\* The request is with the callee, or the connection failed.
Connect(r, s) ==
    /\ Ready(r, s, "connect")
    /\ Enter(r, s, IF handler[<<r, s>>].result = "ok" THEN "forward" ELSE GaveUp(s))
    /\ UNCHANGED <<route, hop, stored, drawn, trail, up, crashes, elapsed>>

Return(r, s) ==
    /\ At(r, s) = "forward"
    /\ At(r, Down[s]) \in {"PROVISIONED", "REJECTED"}
    /\ Enter(r, s, IF s = "gateway" THEN "response_returned" ELSE At(r, Down[s]))
    /\ UNCHANGED <<route, hop, stored, drawn, trail, up, crashes, elapsed>>

OnlyErrorStatus(r, s) == At(r, Down[s]) = "500"     \* mutant: no transport errors
\* An error status, a refused or broken connection, or the timeout.
CallFailed(r, s) ==
    \/ At(r, Down[s]) \in {"500", "gone"}
    \/ At(r, Down[s]) = "idle" /\ Down[s] \notin up
    \/ handler[<<r, s>>].timer = 0

Fail(r, s) ==
    /\ At(r, s) = "forward"
    /\ CallFailed(r, s)
    /\ Enter(r, s, GaveUp(s))
    /\ UNCHANGED <<route, hop, stored, drawn, trail, up, crashes, elapsed>>

-----------------------------------------------------------------------------
(* What the services do not control.                                        *)

\* A service stops: its handlers are gone, what they had answered is not.
Crash(s) ==
    /\ s \in up
    /\ crashes < MaxCrashes
    /\ up' = up \ {s}
    /\ crashes' = crashes + 1
    /\ handler' = [x \in DOMAIN handler |->
                      IF x[2] = s /\ handler[x].at \notin Ended \cup {"idle"}
                      THEN [at |-> "gone", timer |-> 0, result |-> "ok"]
                      ELSE handler[x]]
    /\ UNCHANGED <<route, hop, stored, drawn, trail, late, elapsed>>

Restart(s) ==
    /\ s \notin up
    /\ up' = up \cup {s}
    /\ UNCHANGED <<handler, route, hop, stored, drawn, trail, late, crashes, elapsed>>

\* A write or a draw whose caller gave up reaches its destination.
Arrive(r, p) ==
    /\ <<r, p>> \in late
    /\ late' = late \ {<<r, p>>}
    /\ IF p = "enc_keys"
       THEN /\ IF Covered(r) THEN Draw(r) ELSE UNCHANGED <<stored, drawn>>
            /\ UNCHANGED trail
       ELSE /\ trail' = [trail EXCEPT ![r] = Append(@, p)]
            /\ UNCHANGED <<stored, drawn>>
    /\ UNCHANGED <<handler, route, hop, up, crashes, elapsed>>

\* The services that can go on with request r at once.
Going(r) ==
    {s \in Services :
        IF At(r, s) = "forward"
        THEN At(r, Down[s]) \in Ended \cup {"idle"} \/ handler[<<r, s>>].timer = 0
        ELSE At(r, s) \notin Ended \cup {"idle"} /\ handler[<<r, s>>].timer = 0}

Open(r) == At(r, "gateway") \notin Ended \cup {"idle"}

Tick ==
    /\ \A r \in Requests : Going(r) = {}
    /\ \E x \in DOMAIN handler : handler[x].timer > 0 /\ handler[x].at \notin Ended
    /\ handler' = [x \in DOMAIN handler |->
                      IF handler[x].timer > 0
                      THEN [handler[x] EXCEPT !.timer = @ - 1] ELSE handler[x]]
    /\ elapsed' = [r \in Requests |-> elapsed[r] + IF Open(r) THEN 1 ELSE 0]
    /\ UNCHANGED <<route, hop, stored, drawn, trail, late, up, crashes>>

-----------------------------------------------------------------------------
Submit(r) == Receive(r, "gateway")

\* What service s does for request r once it has it.
Step(r, s) ==
    \/ s # "gateway" /\ Receive(r, s)
    \/ Audit(r, s)
    \/ s = "topology" /\ Snapshot(r)
    \/ s = "kom" /\ (QueryRelay(r) \/ EncKeys(r) \/ DecKeys(r))
    \/ s \in Callers /\ (Connect(r, s) \/ Return(r, s) \/ Fail(r, s))

Environment ==
    \/ \E r \in Requests : Submit(r)
    \/ \E r \in Requests, p \in Events \cup {"enc_keys"} : Arrive(r, p)
    \/ \E s \in Services : Crash(s) \/ Restart(s)

Next ==
    \/ \E r \in Requests, s \in Services : Step(r, s)
    \/ Tick
    \/ Environment

Spec == Init /\ [][Next]_vars

(***************************************************************************)
(* Handlers that can run do (each service is an event loop that never      *)
(* blocks) and time passes.  Nothing is assumed of late arrivals, of       *)
(* restarts or of how many requests are sent.                              *)
(***************************************************************************)
Fairness ==
    /\ \A r \in Requests, s \in Services : WF_vars(Step(r, s))
    /\ WF_vars(Tick)

FairSpec == Spec /\ Fairness

-----------------------------------------------------------------------------
(* Properties.                                                              *)

(***************************************************************************)
(* Types.  No KMS is overdrawn, however many requests race for its keys    *)
(* and however late their draws arrive.                                    *)
(***************************************************************************)
TypeOK ==
    /\ handler \in [Requests \X Services ->
                      [at : {"idle", "snapshot", "connect", "forward"} \cup Events
                                \cup KmsCalls \cup Ended,
                       timer : Nat,
                       result : {"ok", "failed", "late", "empty", "raised"}]]
    /\ route \in [Requests -> Routes \cup {<<>>}]
    /\ hop \in [Requests -> Nat]
    /\ stored \in [Kms -> Nat]
    /\ drawn \in [Requests -> Nat]
    /\ trail \in [Requests -> Seq(Events)]
    /\ late \subseteq Requests \X (Events \cup {"enc_keys"})
    /\ up \subseteq Services
    /\ crashes \in 0 .. MaxCrashes
    /\ elapsed \in [Requests -> Nat]

answer == [r \in Requests |->
              IF At(r, "gateway") \in Answers \cup {"gone"}
              THEN At(r, "gateway") ELSE "none"]

\* The values of f, added up.
SumOf(f) ==
    LET sum[S \in SUBSET DOMAIN f] ==
            IF S = {} THEN 0
            ELSE LET x == CHOOSE x \in S : TRUE IN f[x] + sum[S \ {x}]
    IN sum[DOMAIN f]

\* What each request whose path starts at k was given.
DrawnFrom(k) ==
    [r \in Requests |-> IF route[r] # <<>> /\ route[r][1] = k THEN drawn[r] ELSE 0]

(***************************************************************************)
(* What every KMS lost is what the requests whose path starts there cost:  *)
(* orphaned handlers and late draws included, no key vanishes unaccounted. *)
(***************************************************************************)
KeysConserved ==
    \A k \in Kms : InitStored[k] = stored[k] + SumOf(DrawnFrom(k))

Sequence ==
    <<"request_received", "auth_validated", "endpoints_resolved", "topology_attached",
      "path_computed", "keys_retrieved", "service_provisioned", "response_returned">>

Chain == {Sequence[i] : i \in DOMAIN Sequence}

\* What the audit log knows of a request.
Seen(r) == {trail[r][i] : i \in DOMAIN trail[r]}

(***************************************************************************)
(* The audit trail of a 200 shows that the chain went through every level  *)
(* RUNBOOK.md:92-99 announces, and no failure, if no write was lost; and   *)
(* no 503 is given for a circuit the trail shows as provisioned.           *)
(***************************************************************************)
ProvedBy200 == \A r \in Requests :
    answer[r] = "200" => Seen(r) \ {"key_verify_skipped"} = Chain

NothingProvisionedBy503 == \A r \in Requests :
    answer[r] = "503" => "service_provisioned" \notin Seen(r)

TrailTellsAnswer == ProvedBy200 /\ NothingProvisionedBy503

(***************************************************************************)
(* The trail never shows an event of the chain twice, or two of them in    *)
(* the wrong order: each write is awaited before the next service is       *)
(* called, even by handlers that outlive the answer.  With                 *)
(* TrailTellsAnswer, a 200 leaves exactly the sequence above.              *)
(***************************************************************************)
Position(e) == CHOOSE i \in DOMAIN Sequence : Sequence[i] = e

AuditOrder ==
    \A r \in Requests : \A i, j \in DOMAIN trail[r] :
        i < j /\ trail[r][i] \in Chain /\ trail[r][j] \in Chain
            => Position(trail[r][i]) < Position(trail[r][j])

(***************************************************************************)
(* A request that is rejected with 503 costs no key material, provided no  *)
(* draw is still on its way to a KMS.                                      *)
(***************************************************************************)
RejectedCostsNothing == \A r \in Requests : answer[r] = "503" => drawn[r] = 0

(***************************************************************************)
(* ONOS gets its answer within the phases of the gateway's one call and of *)
(* two audit writes, however many services down the chain hang, provided   *)
(* an answer that has begun to arrive arrives whole.                       *)
(***************************************************************************)
AnsweredInTime ==
    \A r \in Requests :
        elapsed[r] <= CallPhases * HttpTimeout + 2 * AuditPhases * AuditTimeout

(***************************************************************************)
(* "Auditing must never break the main flow" (logging_client.py:3): with   *)
(* every service up, no request is answered with a gateway error.          *)
(***************************************************************************)
AuditNeverBreaksFlow == \A r \in Requests : answer[r] # "502"

(***************************************************************************)
(* Every request that reaches the gateway is answered, unless the gateway  *)
(* itself stops.                                                           *)
(***************************************************************************)
EveryRequestAnswered ==
    \A r \in Requests :
        At(r, "gateway") = "request_received" ~> At(r, "gateway") \in Answers \cup {"gone"}

(***************************************************************************)
(* The chain is a circuit service.                                         *)
(***************************************************************************)
CS == INSTANCE CircuitService WITH Requests <- Requests, NumKeys <- NumKeys,
    Kms <- Kms, InitStored <- InitStored, stored <- stored, drawn <- drawn,
    answer <- answer

ImplementsCircuitService == CS!Spec
=============================================================================
