------------------------------ MODULE Dashboard ------------------------------
(***************************************************************************)
(* The demonstrator of dashboard.js: a provisioning job that walks through *)
(* the six stages with a delay before each, and the handlers of clicks     *)
(* that change the topology meanwhile and reroute the circuit when they    *)
(* have told the backend.  JavaScript runs each piece between two awaits   *)
(* without interruption; an action is one such piece.  The colours of the  *)
(* stages, the log, the costs shown and the posts themselves are left out. *)
(***************************************************************************)
EXTENDS DashboardPath

CONSTANTS
    None,           \* no circuit, no response
    MainLinks,      \* the links of the initial topology
    InitialPool,    \* the key pool of each city in it
    Relays,         \* the trusted relay nodes
    Keys,           \* numbers of keys a request may ask for
    PoolEdits,      \* what the operator may set a pool to: city and value
    MaxJobs,        \* bound: tokens taken by jobs and resets
    MaxEdits        \* bound: edits of the topology

ASSUME DashboardAssumption ==
    /\ MainLinks \subseteq Links
    /\ InitialPool \in [Cities -> 0 .. 100]
    /\ {Source, Destination} \subseteq Cities /\ Source # Destination
    /\ \A d, e \in Links : EndsOf[d] = EndsOf[e] => d = e
    /\ Keys \subseteq Nat \ {0} /\ 1 \in Keys
    /\ \A e \in Links, k \in Keys : 100 * CostOf[e] + 90 * KeyBudget(k) + 15 * 35 <= MaxStep
    /\ PoolEdits \subseteq Cities \X (0 .. 100)
    /\ MaxJobs \in Nat /\ MaxEdits \in Nat

ScenarioKinds == {"failure", "drain"}

VARIABLES
    link,       \* status of every link, "absent" when not in the topology
    pool,       \* key pool of every city
    jobId,      \* token of the newest job
    jobs,       \* the provisioning jobs, by token
    running,    \* a job is shown as running
    button,     \* provisionBtn is enabled
    komShown,   \* komNodes is not empty
    circuit,    \* activeCircuit
    response,   \* lastResponse
    pending,    \* handlers of edits that have not rerouted yet
    waits,      \* scenarios that wait for the job they started
    edits       \* bound: edits made

editVars == <<link, pool, pending, edits>>
jobVars  == <<jobId, jobs, running, button, komShown>>
shown    == <<circuit, response>>
vars     == <<editVars, jobVars, shown, waits>>

Tokens   == 1 .. MaxJobs
Stages   == {"gateway", "identity", "topology", "pce", "kom", "komfail", "prov"}
Planned  == {"kom", "komfail", "prov"}

InitialLink == [e \in Links |-> IF e \in MainLinks THEN "up" ELSE "absent"]

NoJob == [at |-> "none", keys |-> 1, path |-> << >>, lost |-> {}]
Over  == [NoJob EXCEPT !.at = "over"]

Init ==
    /\ link = InitialLink /\ pool = InitialPool
    /\ jobId = 0 /\ jobs = [t \in Tokens |-> NoJob]
    /\ running = FALSE /\ button = TRUE /\ komShown = FALSE
    /\ circuit = None /\ response = None
    /\ pending = 0 /\ waits = {} /\ edits = 0

-----------------------------------------------------------------------------
(* The provisioning job.                                                    *)

AnyJob(t) == t \in Tokens                           \* mutant: no token check
Current(t) == t = jobId

\* Synchronous part of provisionCircuit, up to the first await.
Start(keys) ==
    /\ jobId < MaxJobs
    /\ jobId' = jobId + 1
    /\ jobs' = [jobs EXCEPT ![jobId + 1] = [NoJob EXCEPT !.at = "gateway", !.keys = keys]]
    /\ running' = TRUE /\ button' = FALSE /\ komShown' = FALSE
    /\ circuit' = None /\ response' = None

\* failProvision
Fail(t) ==
    /\ jobs' = [jobs EXCEPT ![t] = Over]
    /\ response' = [job |-> t, status |-> "REJECTED"]
    /\ circuit' = None
    /\ running' = FALSE /\ button' = TRUE
    /\ UNCHANGED <<jobId, komShown, editVars, waits>>

Click ==
    /\ button
    /\ \E keys \in Keys : Start(keys)
    /\ UNCHANGED <<editVars, waits>>

Advance(t) ==
    /\ Current(t)
    /\ \E step \in {<<"gateway", "identity">>, <<"identity", "topology">>, <<"topology", "pce">>} :
          /\ jobs[t].at = step[1]
          /\ jobs' = [jobs EXCEPT ![t].at = step[2]]
    /\ UNCHANGED <<jobId, running, button, komShown, editVars, shown, waits>>

\* The path is computed and the keys of its KMS are checked.
Plan(t) ==
    LET budget == KeyBudget(jobs[t].keys)
    IN /\ Current(t) /\ jobs[t].at = "pce"
       /\ \E path \in {ComputePath(link, pool, budget)} :
          \/ path = << >> /\ Fail(t)
          \/ /\ path # << >>
             /\ jobs' = [jobs EXCEPT
                   ![t].at = IF Allocates(path, pool, budget) THEN "kom" ELSE "komfail",
                   ![t].path = path]
             /\ komShown' = TRUE
             /\ UNCHANGED <<jobId, running, button, editVars, shown, waits>>

WaitingOrchestrate(t) ==                            \* mutant: waits for its KMS
    /\ Current(t) /\ jobs[t].at = "kom" /\ komShown
    /\ jobs' = [jobs EXCEPT ![t].at = "prov"]
    /\ UNCHANGED <<jobId, running, button, komShown, editVars, shown, waits>>

\* The animation of the KMS, which throws when a reset has emptied komNodes.
Orchestrate(t) ==
    /\ Current(t) /\ jobs[t].at = "kom"
    /\ \/ ~ komShown /\ Fail(t)
       \/ /\ komShown
          /\ jobs' = [jobs EXCEPT ![t].at = "prov"]
          /\ UNCHANGED <<jobId, running, button, komShown, editVars, shown, waits>>

Refuse(t) == Current(t) /\ jobs[t].at = "komfail" /\ Fail(t)

Commit(t) ==
    /\ Current(t) /\ jobs[t].at = "prov"
    /\ jobs' = [jobs EXCEPT ![t] = Over]
    /\ circuit' = [job |-> t, state |-> "ACTIVE", keys |-> jobs[t].keys,
                   path |-> jobs[t].path, lost |-> jobs[t].lost]
    /\ response' = [job |-> t, status |-> "ACTIVE"]
    /\ pool' = Consume(jobs[t].path, pool, KeyBudget(jobs[t].keys))
    /\ running' = FALSE /\ button' = TRUE
    /\ UNCHANGED <<jobId, komShown, link, pending, edits, waits>>

\* A superseded job ends without a word.
GiveUp(t) ==
    /\ ~ Current(t) /\ jobs[t].at \in Stages
    /\ jobs' = [jobs EXCEPT ![t] = Over]
    /\ UNCHANGED <<jobId, running, button, komShown, editVars, shown, waits>>

JobStep(t) ==
    Advance(t) \/ Plan(t) \/ Orchestrate(t) \/ Refuse(t) \/ Commit(t) \/ GiveUp(t)

-----------------------------------------------------------------------------
(* Edits of the topology.                                                   *)

\* History: what the planned job loses when the links become those of new.
WithLost(new) ==
    [t \in Tokens |->
       IF jobs[t].at \in Planned
       THEN [jobs[t] EXCEPT !.lost = @ \cup {e \in Links : link[e] = "up" /\ new[e] # "up"}]
       ELSE jobs[t]]

SetLinks(new) == link' = new /\ jobs' = WithLost(new)

\* An edit whose handler awaits the backend, or a delay, before it reroutes.
Edit ==
    /\ edits < MaxEdits
    /\ edits' = edits + 1 /\ pending' = pending + 1

Steady == UNCHANGED <<jobId, running, button, komShown, shown>>

ToggleLink(e) ==
    /\ link[e] # "absent"
    /\ Edit
    /\ SetLinks([link EXCEPT ![e] = IF @ = "up" THEN "down" ELSE "up"])
    /\ Steady /\ UNCHANGED <<pool, waits>>

\* addLinkFromForm, add-firenze and addNodeFromPicker, for the links they add.
AddLink(e) ==
    /\ e \notin MainLinks
    /\ Edit
    /\ SetLinks([link EXCEPT ![e] = "up"])
    /\ Steady /\ UNCHANGED <<pool, waits>>

SetPool(n, value) ==
    /\ Edit
    /\ pool' = [pool EXCEPT ![n] = value]
    /\ Steady /\ UNCHANGED <<link, jobs, waits>>

RerouteActive(l, p) ==
    circuit.state = "ACTIVE" /\ ComputePath(l, p, KeyBudget(circuit.keys)) # << >>   \* mutant
Reroutes(l, p) == ComputePath(l, p, KeyBudget(circuit.keys)) # << >>

\* rerouteActiveCircuit over links l and pools p.
Reroute(l, p) ==
    \/ circuit = None /\ UNCHANGED shown
    \/ /\ circuit # None /\ Reroutes(l, p)
       /\ circuit' = [circuit EXCEPT
             !.state = "ACTIVE_REROUTED", !.lost = {},
             !.path = ComputePath(l, p, KeyBudget(circuit.keys))]
       /\ response' = [response EXCEPT !.status = "ACTIVE"]
    \/ /\ circuit # None /\ ~ Reroutes(l, p)
       /\ circuit' = [circuit EXCEPT !.state = "DEGRADED"]
       /\ response' = [response EXCEPT !.status = "DEGRADED"]

\* The backend has answered, or has not within API_TIMEOUT_MS.
Synced ==
    /\ pending > 0
    /\ pending' = pending - 1
    /\ Reroute(link, pool)
    /\ UNCHANGED <<link, pool, edits, jobVars, waits>>

RestoreLinks ==
    LET new == [e \in Links |-> IF link[e] = "down" THEN "up" ELSE link[e]]
    IN /\ edits < MaxEdits
       /\ edits' = edits + 1
       /\ SetLinks(new)
       /\ Reroute(new, pool)
       /\ UNCHANGED <<pool, pending, jobId, running, button, komShown, waits>>

\* "Reset topologia": a job that runs is not told.
ResetTopology ==
    /\ edits < MaxEdits
    /\ edits' = edits + 1
    /\ SetLinks(InitialLink) /\ pool' = InitialPool
    /\ circuit' = None /\ response' = None /\ komShown' = FALSE
    /\ UNCHANGED <<jobId, running, button, pending, waits>>

\* "Reset demo": takes a token, so that a job that runs gives up.
ResetDemo ==
    /\ jobId < MaxJobs
    /\ jobId' = jobId + 1
    /\ link' = InitialLink /\ pool' = InitialPool
    /\ circuit' = None /\ response' = None /\ komShown' = FALSE
    /\ running' = FALSE
    /\ UNCHANGED <<jobs, button, pending, edits, waits>>

-----------------------------------------------------------------------------
(* The one-click scenarios.                                                 *)

Preferred(s, Good(_)) ==
    LET i == SelectInSeq(s, Good) IN IF i = 0 THEN s[1] ELSE s[i]

\* The first that Good likes, among those that leave a path if there are such.
Choice(candidates, LeavesPath(_), Good(_)) ==
    LET spared == SelectSeq(candidates, LeavesPath)
    IN Preferred(IF spared = << >> THEN candidates ELSE spared, Good)

\* pickPathLinkToFail chooses among these; null if there are none.
UpOnPath ==
    LET p == circuit.path
        onPath == [i \in 1 .. Len(p) - 1 |-> CHOOSE e \in Links : EndsOf[e] = {p[i], p[i + 1]}]
    IN SelectSeq(onPath, LAMBDA e : link[e] = "up")

LinkToFail ==
    Choice(UpOnPath,
           LAMBDA e : Reroutes([link EXCEPT ![e] = "down"], pool),
           LAMBDA e : EndsOf[e] \cap {Source, Destination} = {})

Intermediates == SelectSeq(circuit.path, LAMBDA n : n \notin {Source, Destination})

\* pickPoolNodeToDrain
NodeToDrain ==
    Choice(Intermediates,
           LAMBDA n : Reroutes(link, [pool EXCEPT ![n] = 8]),
           LAMBDA n : n \in Relays)

\* The event of scenario 2 or 3; the reroute follows after a delay.
Strike(kind) ==
    \/ /\ kind = "failure" /\ UpOnPath # << >>
       /\ Edit
       /\ SetLinks([link EXCEPT ![LinkToFail] = "down"])
       /\ UNCHANGED pool
    \/ /\ kind = "drain" /\ Intermediates # << >>
       /\ Edit
       /\ pool' = [pool EXCEPT ![NodeToDrain] = 8]
       /\ UNCHANGED <<link, jobs>>
    \/ /\ IF kind = "failure" THEN UpOnPath = << >> ELSE Intermediates = << >>
       /\ UNCHANGED <<editVars, jobs>>

\* executeNormalProvisioningScenario
Normal ==
    /\ link' = InitialLink /\ pool' = InitialPool
    /\ Start(1)
    /\ UNCHANGED <<pending, edits>>

Scenario1 == Normal /\ UNCHANGED waits

Scenario(kind) ==
    \/ /\ circuit = None
       /\ Normal
       /\ waits' = waits \cup {[kind |-> kind, job |-> jobId + 1]}
    \/ /\ circuit # None
       /\ Strike(kind)
       /\ Steady /\ UNCHANGED waits

\* The job a scenario started is over, well or not.
Resume(w) ==
    /\ jobs[w.job].at = "over"
    /\ waits' = waits \ {w}
    /\ \/ circuit = None /\ UNCHANGED <<editVars, jobs>>
       \/ circuit # None /\ Strike(w.kind)
    /\ Steady

-----------------------------------------------------------------------------

Next ==
    \/ Click
    \/ \E t \in Tokens : JobStep(t)
    \/ \E e \in Links : ToggleLink(e) \/ AddLink(e)
    \/ \E e \in PoolEdits : SetPool(e[1], e[2])
    \/ Synced
    \/ RestoreLinks \/ ResetTopology \/ ResetDemo
    \/ Scenario1
    \/ \E kind \in ScenarioKinds : Scenario(kind)
    \/ \E w \in waits : Resume(w)

\* Every delay ends.
Spec == Init /\ [][Next]_vars /\ \A t \in Tokens : WF_vars(JobStep(t))

-----------------------------------------------------------------------------
(* Properties.                                                              *)

JobRecords == [at : Stages \cup {"none", "over"}, keys : Keys,
               path : SimplePaths \cup {<< >>}, lost : SUBSET Links]

\* Types of the page's state, and of the records of jobs and circuits.
TypeOK ==
    /\ link \in [Links -> {"up", "down", "absent"}]
    /\ pool \in [Cities -> 0 .. 100]
    /\ jobId \in 0 .. MaxJobs
    /\ \A t \in Tokens : jobs[t] \in JobRecords
    /\ {running, button, komShown} \subseteq BOOLEAN
    /\ circuit = None \/ circuit.state \in {"ACTIVE", "ACTIVE_REROUTED", "DEGRADED"}
    /\ response = None \/ response.status \in {"ACTIVE", "REJECTED", "DEGRADED"}
    /\ pending \in 0 .. MaxEdits /\ edits \in 0 .. MaxEdits
    /\ \A w \in waits : w.kind \in ScenarioKinds /\ w.job \in Tokens

\* What the page shows as the result and the circuit is the newest job's,
\* and it says "running" exactly while that job is: jobs that a click, a
\* scenario or a reset superseded write nothing (isJobCurrent).
LatestOnly ==
    /\ circuit # None => circuit.job = jobId
    /\ response # None => response.job = jobId
    /\ running <=> jobId \in Tokens /\ jobs[jobId].at \in Stages

\* Every path planned for a request is a cheapest one for the links and the
\* pools of that moment, and a request is refused only if there is none or a
\* KMS on it lacks keys (computePathByCost).
PlansAreBest ==
    [][\A t \in Tokens :
          jobs[t].at = "pce" /\ jobs'[t].at # "pce" /\ Current(t) =>
             IsBest(jobs'[t].path, link, pool, KeyBudget(jobs[t].keys))]_vars

Down(c) == {e \in LinksOf(c.path) : link[e] # "up"}

\* Once every handler has rerouted, the circuit is what its state says:
\* DEGRADED only if there is no path, ACTIVE_REROUTED on a cheapest one, and
\* ACTIVE on links that are up, but for those lost while its job was on the
\* way from the path computation to the end.
Settled ==
    pending = 0 /\ circuit # None =>
       LET budget == KeyBudget(circuit.keys)
       IN CASE circuit.state = "DEGRADED" -> IsBest(<< >>, link, pool, budget)
            [] circuit.state = "ACTIVE_REROUTED" -> IsBest(circuit.path, link, pool, budget)
            [] OTHER -> Down(circuit) \subseteq circuit.lost

\* A job does not run for ever: it commits, fails or is superseded, also when
\* a reset takes the KMS it animates away (the catch of provisionCircuit).
JobsEnd == running ~> ~ running
=============================================================================
