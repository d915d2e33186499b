# A verification project for the QSDN adapter

The repository is an adapter between an SDN controller (ONOS) and a network of
key management systems (KMS) that deliver quantum keys over the ETSI GS QKD 014
interface: six HTTP services in a chain, an audit log beside them, simulated KMS
with a key pool each, and a dashboard. This directory holds TLA+ modules
translated from that code, TLC configurations that check them on small
instances, and proofs, checked by TLAPS, of what holds for every instance.

    tlc -workers 2 -config KeyPool_tuned.cfg MCKeyPool.tla
    for m in KeyPoolProofs PoolBenchProofs AdapterChainProofs AdapterTrailProofs \
             TopologyProofs PageSyncProofs DashboardProofs KeyMeshProofs
    do tlapm $m.tla; done

`PROJECT.json` lists the components, the runs, the mutation each property is
known to catch, the source lines every definition translates, the
disagreements found between code and documents, the hazards and the theorems.

## 1. The system

| component | source | state | operations |
|---|---|---|---|
| Northbound gateway | `services/northbound_api_gateway` | none | `POST virtual-circuits`: audit, one call to identity with a timeout of 10 s per phase, audit, 200/502/503 |
| Identity and authentication | `services/identity_auth` | none | resolve both names (404 is turned into a REJECTED answer), audit, call on |
| Topology manager | `services/topology_manager` | one cached snapshot per process | attach the topology and call on; live edits of nodes and links; refresh; read |
| Path computation engine | `services/path_computation_engine` | none | build the graph of the nodes and links that are up, cheapest path, call on |
| Key orchestration manager | `services/key_orchestration_manager` | none | status of every relay KMS, `enc_keys` at the source, `dec_keys` at the destination, call on |
| Service provisioning | `services/service_provisioning` | none | build the circuit, audit, 200 |
| Audit log | `services/audit_log` | SQLite table | append, query by request id with a limit; every service awaits its writes, for up to 3 s per phase |
| KMS | `services/kms_mock` | key pool: stored, capacity, watermarks, rate, refill flag | draw, refill loop, control endpoint |
| Dashboard page | `services/dashboard/.../dashboard.js` | its own topology, pools, circuit, jobs | provisioning job in stages, edits, rerouting, scenarios, resets |
| Dashboard proxy | `services/dashboard/app/main.py` | none | forwards the page's posts to the topology manager |
| Next Door patches | `ndks/patches` | list of peers under a lock | scan the peers, broadcast keys |
| Measurement harness | `bench` | none | posts circuits, reads their audit trails back, controls and loads a pool |

The chain is nested: every service awaits the answer of the next, so the answer
of ONOS comes back through all of them, and every service between has its own
handler open. Services share nothing but what they send. A KMS is touched by
draws (event loop), by its refill loop (event loop) and by its control endpoint
(a worker thread). The topology cache is shared by all requests of one process.

What is hard about it:

* **timeouts without cancellation**: a caller that gives up does not stop the
  handlers below it, which go on to draw keys and to provision;
* **awaited audit writes** on the path of every request;
* **a draw that takes effect after its caller gave up**;
* **the control endpoint of a KMS runs without the lock** of the pool;
* **a cache written after an await** without being read again;
* **jobs, handlers and resets of the page** that interleave at every delay;
* **posts of the page** that nobody waits for and whose answer nobody reads;
* **broadcasts under a lock** to peers that broadcast under theirs.

Per component, what makes it correct: the pool never goes negative, never
overfills and is refilled when low; a request is answered, in bounded time, in a
way that matches what it cost and what the audit trail says; it is answered from
one topology that was in force; a path is a cheapest one; the page shows the
newest job, and a circuit that is what its state says, and the backend follows
the page; a key reaches the far end of its circuit and is gone once handed over,
and no call between two KMEs waits for ever; the harness measures what it says it measures.

## 2. Modules

| module | models | uses |
|---|---|---|
| `KeyStore` | the abstract promise of a KMS: a draw takes all it asked for or nothing, never over capacity | |
| `KeyPool` | `PoolState`, the refill loop, `enc_keys`, `set_pool` | `KeyStore` |
| `KeyPoolProofs` | theorems about `KeyPool` | |
| `CircuitService` | the abstract promise to ONOS: one answer, one draw, 200 only for keys drawn | |
| `AdapterChain` | the six services, audit writes, timeouts, crashes, KMS calls | `CircuitService` |
| `AdapterChainProofs` | theorems about its types, answers, draws and time, and its refinement | `AdapterChain` |
| `AdapterTrailProofs` | theorems about the audit trail, the keys that are left, the time auditing takes, and the latencies taken from the trail | `AdapterChainProofs`, `AuditTrail` |
| `PathEngine` | `build_graph`, `compute_path`, and the definition of a cheapest path over the links themselves | |
| `TopologyManager` | the cache, both sources, edits, refresh, requests | `PathEngine` |
| `TopologyProofs` | theorems about `TopologyManager` and about `BuildGraph` | `TopologyManager` |
| `DashboardPath` | the page's search, key check and consumption | |
| `Dashboard` | its jobs, edits, rerouting, resets, scenarios | `DashboardPath` |
| `DashboardProofs` | theorems about the search, and about `Dashboard` | `Dashboard` |
| `PageSync` | the page's posts to the topology manager, through the proxy | `TopologyManager` |
| `PageSyncProofs` | theorems about `PageSync`: it refines `TopologyManager` | `PageSync`, `TopologyProofs` |
| `AuditTrail` | the audit store, time stamps, and the harness that reads trails back | `AdapterChain` |
| `KeyMesh` | scanner and broadcaster of the Next Door KMEs, simulated KMS, and the two calls of key orchestration | |
| `KeyMeshProofs` | theorems about `KeyMesh` | `KeyMesh` |
| `PoolBench` | the pool experiments kpi5 and kpi6 on a live pool | `KeyPool` |
| `PoolBenchProofs` | theorems about `PoolBench` | `PoolBench` |
| `MC*` | constants for TLC | |

Every operator named with a comment `mutant` is a wrong version of the next
definition; no action uses it. `PROJECT.json` says which property catches it.

### KeyPool

One action is what runs between two points where the other thread may run. The
image runs CPython 3.11, which hands over the interpreter lock only at calls and
backward jumps; between `if n > self.stored` and `self.stored -= n` there is
none, so a draw is one action, while `prefetch_step` calls `rho`, `int`, `max`
and `min` and is four (`PrefetchBegin`, `PrefetchLow`, `PrefetchRoom`,
`PrefetchApply`), with the locals `target` and `added` as variables.
`set_pool` takes the fields of its body in the order of the code
(`SetField`: `SetSetting`, or `ComputeLevel` and then `StoreLevel`, between which it
calls).
It is a plain `def`, so FastAPI runs it on a worker thread without the asyncio
lock. Ratios are multiples of 1/`Unit` with `Unit` a power of two, for which the
code's floating point is exact. `prefetch_tick`, a delay, is left out.

Bounds: `MaxConsumed` keys drawn, `MaxUpdates` control calls, the sets of draw
sizes and of bodies. With capacity 4 or 5 and rate 2 a refill takes two ticks, so
draws and control calls fall inside it, `int()` truncates, and the last tick is
clamped.

### PoolBench

Composes `KeyPool` with the measurement harness, a client that controls the pool
through the same endpoint (its calls are those of one controller thread) and
draws through circuits. `ExhaustedPool` is kpi5's last scenario: `Emptied`,
`REPS` circuits, `Restored` in the `finally`, which also runs if a circuit
raises (`BatchEnds` at any time). `SawTooth` is kpi6: `POOL_CFG`, an idle phase,
workers that post circuits until the load is off, and `POOL_CFG` again after
2 s, whether the workers have ended or not. A circuit draws (`Served`) or comes
to nothing anywhere in the chain (`Unserved`). Somebody else may make one
control call at any point (`Meddle`); the two properties of the harness are
stated while nobody has, the pool's own in any case. `Draws = {}` means that
only the harness draws.

kpi5_success_rate.py:57 says that rate 0 keeps the pool empty for the batch, so
that every circuit of it is refused. That is so but for one tick:
one that had computed its keys (`Pending`) adds them after the level was
set to 0, and the batch is served by them. `underWay` records how many they are
at that moment, and `EmptyButForOneTick` says that the batch gets those
and no others: none at all if no tick was at that point.

Bounds: a batch of `REPS` = 2, `LOAD_WORKERS` = 2 circuits of two keys at a time,
3 keys drawn in all, 5 control calls, four of them the harness's. The pool starts
low and with its refill on, so that a tick may be under way when kpi5 empties it
(`ok = 0` is false in this run); it is made smaller than its keys by kpi6 and
larger by others.

### AdapterChain

A handler per request and service, each with the point it waits at and a timer;
an action is what the service runs between two awaits. The bodies of messages
are what later steps tell apart: the route, the number of keys, the answer. The
inputs are the outcomes of resolution, of the topology source, of each
connection, of each KMS call and of each audit write. Time passes only
when nothing can run (`Tick`); computing takes none.

A timeout of httpx is not one of the whole call: it is given anew to each phase,
to get a connection from the pool, to connect, to write and to read. A call of
the chain makes its own client, so it has three (`CallPhases`): `Connect` ends the
first two, in the time of `ConnectResults`, at most two timeouts, and then the
caller waits at `forward` for `Patience` at most. The audit client of a service is shared by its handlers,
so a write has four (`AuditPhases`). Two things are taken of reading: an answer
whose first bytes arrive arrives whole (the answers are one small JSON object
each), and nothing trickles; otherwise even these sums would not be bounds.

A caller whose timer runs out gets an error and goes on, and the called handler
stays: uvicorn does not cancel it. `Crash(s)` ends all handlers of a service and cuts its callers off;
`Restart` brings it back, empty, because no service persists anything.
A hung draw takes effect when it arrives (`Arrive`), after its caller left. The
pools are numbers here, with no refill: refilling would hide a double draw.

`Requests` is any finite set: ONOS has sent finitely many. `KeysConserved` adds
up what the requests whose path starts at a KMS were given (`SumOf`,
`DrawnFrom`), with a recursive function over sets of requests.
`TrailTellsAnswer` and `AuditOrder` are stated over the set of events seen and
over pairs of positions, so that they can be proved without a filter over the
trail.

Bounds: one request, three KMS, at most `MaxCrashes` crashes. Timeouts are
3 and 1 units where only their order matters and the real 10 and 3 seconds where
how many fit matters (`chain_hung`). A connection is made at once, after two whole
timeouts, or not at all (`SlowConnect`). That two requests race for the keys of
one KMS is left to the theorems, which hold for any number of requests
(`ChainTypeCorrect`, `NoKeyVanishes`, `ChainImplementsCircuitService`), and, for one
pool, to `pool_control`.

Three facts read from the code that the model keeps: the gateway's branch for a
structured error answer cannot be reached, because identity answers 200 with
`REJECTED` in the body; the branch of key orchestration for an empty list of key
ids cannot either, because a KMS gives as many keys as it is asked for, at least
one (`number` has `ge=1`, anything less is an error); and key
orchestration rejects a path over a node without
a KMS without an audit event of its own.

### AuditTrail

Extends `AdapterChain` without changing a step of it: `rows` is the SQLite table,
which gets a row whenever the chain's `trail` grows (insert and commit run under
one lock), and `stamp` is the time a service built the event, taken when the
handler starts its audit write. The table survives runs of the stack, so it may
hold rows of an earlier run under the same request id (`Tables`). `Query` is the
`WHERE request_id .. ORDER BY id ASC LIMIT` of the store, as the set of the ids
it returns; `Measure` is what the harness does after an answer: read the rows,
take the last event of every kind, subtract, and keep a sample only when all
stages are complete. `gap` is history: the events of this run that had not
arrived when the harness looked.

`TrailAssumption` says two things of the table a run starts with. Its rows are
older than the run: their times, counted from the arrival of the request, are
negative. And what it holds for one request, with every event this run can add,
is within the limit of a query, 200 unless the client says otherwise
(`audit_log/app/main.py`). Beyond the limit the query returns the oldest rows,
while README.md:226 speaks of the last, and the harness would read an earlier
run; a request has at most a dozen events, so that takes some twenty runs under
one id, and no run is about it.

Bounds: one request with all paths and topology errors, writes of 2 s that arrive
late or never, at most `MaxLate` = 1 of them at a time, and `HttpTimeout` 30, so
that the gateway outlasts them; `chain_hung` is the case where it does not.

### PathEngine and TopologyManager

`BuildGraph` is a recursive function over the list of links, as the code is a
loop whose body is `AddEdge`: a parallel edge keeps the smaller cost. The search
of networkx is any cheapest path in that graph, by the sum of its weights
(`Total`). `IsCheapest` is stated over the links, not over the graph.
`InputAssumption` says what the inputs are: links between two nodes with costs
that are natural numbers, and sources that hold nodes and links of the model.
Removing a link or a node keeps the order of the rest (`Sublist`).

`snap[t]` is the snapshot task t built, `cache` names the one in force and
`holds[t]` the one a request has a reference to: the code shares the object, so an
edit shows in it until the request serialises it (`Dump`), after an awaited
audit write. With the static source nothing is awaited while a snapshot is built;
with ONOS the devices and the links are two awaited reads (`ReadDevices`,
`ReadLinks`), each of which may fail (`FetchFails`): an error of httpx becomes the
source error the service answers itself, any other exception a 500. `source` changes on its own.
Refresh empties the cache before it reads; an empty answer of ONOS is cached like
any other; the two directions of an ONOS link collapse to the first's status.

The static source is a file with two sections of links, `load_topology` puts them
in one list with the section's type where the file gives none. The edit of an
existing link assigns its type and status unchecked and answers 200, a new link
is checked and refused with 500 (`Rejected`); the engine validates what it
receives and answers 500 for a snapshot with an illegal type (`Valid`).

Left out: negative costs (accepted by the endpoint, then refused by the search), and failures of the audit writes of edits (`AdapterChain` has them).

Bounds: three tasks, each any operation, and `MaxChanges` changes of the source:
a request, an edit or refresh, and a fetch that overtakes another. The tasks are
symmetric.

### PageSync

Composes the page's topology with `TopologyManager`: `Click`, `AddLink` and
`Reset` change `page` at once and put a numbered post on its way; `CarriedOut`
hands any post, in any order, to a task of the topology manager, `Lost` drops
one. The page looks at no answer. What it posts is what the code posts: the
object has `type: "link"`, the discriminator of the proxy's message, which the
topology manager takes for the type of the link, and a click names no cost, so
the upsert resets it to 1. Other clients edit, refresh and request in between.
`AddCity` shows a city with its links and posts the city alone (its neighbours are
taken to be on the page); `AddLink` posts the link, with the type that is refused
for a new one.
`orderly` records that since page and backend last agreed only posts of the page
have been carried out, in their order.

So the page shows links that the backend does not have: those its user adds,
those of added cities, and those of its defaults that the source lacks
(`INITIAL_LINKS` of dashboard.js is not the list of `config/topology.yaml`).
`BackendFollowsPage` says of each link the page shows which of the two is the
case: one the source has is in the backend, up or down as shown, and any other
is not there, whatever was clicked, added or reset.

`PageAssumption` is the page's start: with the static source all links of the
file are up, no two links of the page or of a city join the same cities, and the
links of a city have it as an end.

Bounds: two posts (one for the violation run), two links to click on and two to
add, one city to add with a link, three cities in all. The file (`Sparse`) has
only some of the links the page may show, and one that the page lacks, and may
change to one with a faulty link (`Faulty`).

### KeyMesh

What two key stores hold. The orchestration of a circuit calls `enc_keys` at one
end and `dec_keys` at the other; a simulated KMS answers at once, with a random
key or with a digest of the key's name; a Next Door KME serves the call under its
lock and, holding it, posts to all its peers one by one (`Broadcast`, `Posted`,
`PostFails`), each of which needs its own lock to take the post. Scanner threads
ask the same peers for their status and swap the list under the lock. A post that
times out is on its way still (`late`) and may arrive after the removal of the
key. `Stop` loses keys, list and threads of a KME.

The program that the two classes are patched into is not in the repository. Its
handlers (`Acquire`, `Deliver`, `Answer`, `Arrive`, `Possible`) are
modelled from how the patches and the ETSI client use it, and marked external;
the comment that takes both of its locks together (`broadcaster.py`, module
header) makes them one lock here.

What a Next Door KME hands over for a name is the key that was stored under it: the
store is external and its contents are not in question. What the orchestration
makes of two keys is: it counts them (`DecKeys`), and run `mesh_mock` has two
simulated KMS at its ends, as `config/kms_registry.yaml` has them.

The mesh is full: `FullMeshAssumption` says that the KMEs a KME posts to are all
others, as in `docker-compose.yml`, which gives every KME the addresses of all
the others. The proofs about far ends rest on it.

Time is not counted: a call can time out exactly while its callee waits for a
lock or is down, and an answer that needs no waiting is given at once.

Bounds: three KMEs and a simulated KMS; two circuits whose ends are fixed per
behaviour (`Endpoints`: the broadcasts of two KMEs meet head on, one end
simulated, or the other); one KME scans on (`Watched`), one stops and starts once
(`Failing`, `MaxOutages`), and one knows nobody at the beginning.

### DashboardPath and Dashboard

JavaScript is not interrupted between two awaits; an action is such a piece.
`jobs[t].at` is the stage before whose delay job t waits. `Plan` is the path
computation with the start of key orchestration and the key check; the delays
per KMS are one step, since each does the same check. `Fail` is `failProvision`;
`Orchestrate` goes there when `komNodes` was emptied by a reset, because the code
then throws and its `catch` calls it. `pending` counts the handlers of edits
that still have to reroute: which edit they belong to matters to the log only.
`Scenario` and `Resume` are the two halves of scenarios 2 and 3 around the job
they wait for. Costs and penalties are in hundredths; the code adds them as
floating point, so two paths of the same cost may be told apart there by
rounding. One pair of endpoints, both of the initial topology, is requested.
A form whose endpoints are equal changes nothing and is left out.

`ComputePath` is the code's loop: every city has a label with the distance, the
predecessor and the visited flag of the search; a visit (`Visit`) relaxes the
neighbours of the nearest city that is open, until none is or it is the
destination (`Done`), and the way is read off the predecessors (`Way`).
`IsBest`, over all simple paths, is the reference. `PathAssumption` says that
costs are positive: the page reads a cost as `Number(..) || 1`
(dashboard.js:225, 1486, 1634) and its form refuses one that is not above 0
(:1445). `Infinite` stands for `Infinity`, and `DashboardAssumption` bounds every
step by `MaxStep`, so that no distance gets there.

Bounds: `MaxJobs` tokens, `MaxEdits` edits; four cities, two relays, five links
of which one is added. Two tokens let a job be superseded, two edits let a
circuit be degraded and restored. The pools make both relays cheapest in turn
and the key check fail.

## 3. Runs

| run | question | properties |
|---|---|---|
| `pool_tuned` | with control calls that only tune the pool, is it a key store that refills? | `StoredWithinCapacity`, `Ledger`, `LowMeansArmed`, `RefillCompletes`, `ImplementsKeyStore` |
| `pool_control` | what do the experiments of kpi5 and kpi6 and a second thread of arbitrary control calls leave standing? | `TypeOK`, `OvershootBounded`, `EmptyButForOneTick`, `ConfiguredIsFull`, `Settles` |
| `chain_faults` | a crash, slow and failed connections, hung and late KMS calls, topology errors: is every request answered, in time, once, truthfully, audited in order, and are its keys accounted for? | `TypeOK`, `KeysConserved`, `TrailTellsAnswer`, `AuditOrder`, `AnsweredInTime`, `EveryRequestAnswered`, `ImplementsCircuitService` |
| `chain_audit` | late and lost audit writes: do they stay without effect on the flow, and does the harness measure what it says? | `RejectedCostsNothing`, `AuditNeverBreaksFlow`, `SampleIsOfThisRun`, `GapsAreLeftOut`, `TimesTellOrder` |
| `chain_hung` | (violation) an audit log that hangs | `AuditNeverBreaksFlow` |
| `topo_static` | static source, posts of the page, edits, refreshes and requests of others | `AnswerWasCurrent`, `PathIsCheapest`, `EditsStay`, `RefreshedIsFresh`, `BackendFollowsPage` |
| `topo_onos` | ONOS source: awaited, failing, torn reads | `TypeOK`, `AnswerWasCurrent` |
| `topo_refresh` | (violation) does a refresh stay in force with ONOS? | `RefreshedIsFresh` |
| `page_click` | (violation) does a request find the way that is left after a click on a link? | `FallbackIsFound` |
| `dash_jobs` | jobs, edits, scenarios, resets of the page | `TypeOK`, `LatestOnly`, `Settled`, `PlansAreBest`, `JobsEnd` |
| `mesh_ndks` | broadcasts, scans and an outage: does the key reach the far end, is a used one gone, does every call end, does the mesh re-form? | `TypeOK`, `KeyReachesFarEnd`, `UsedKeyIsGone`, `EveryCallEnds`, `MeshReforms` |
| `mesh_mock` | (violation) has a verified circuit the same key at both ends? | `VerifiedKeyIsShared` |

Deadlock checking is off where everything may come to rest: all requests are
answered, all tasks done, or nobody clicks. `KeyPool` never rests (the refill
loop) and keeps it on.

The four disagreements, each with its quotation in `PROJECT.json`:

1. auditing can break the flow: four awaited writes of 3 s exceed the 10 s of
   the gateway, which answers 502 while the chain goes on and draws keys;
2. with ONOS, a fetch that began before a refresh and ends after it puts the old
   topology back;
3. a click on a link of the page posts an edit whose type is that of the message:
   the topology manager takes it with 200, and from then on the engine refuses
   every snapshot, so that the request which was to find the way that is left is
   answered 500;
4. `key_shared_verified` compares the number of keys, not the keys: with a
   simulated KMS at the source it is recorded as true though the two ends hold
   different ones (a random key and a digest of its name).

Two more have no violation run of their own, because a passing run and a theorem
say exactly how far the words hold:

* kpi5_success_rate.py:57, "so the pool stays empty for the batch": one tick under
  way puts keys into the emptied pool, and the batch is served by them and by no
  others (`EmptyButForOneTick`);
* README.md:165-166, that with an added city whose KMS exists "il provisioning ci
  passa davvero end-to-end": the city is posted, its links never are, and a link
  added on the page is refused, so none of them is ever in the backend
  (`BackendFollowsPage`).

Behaviours the models have and no run is about, because no document says
otherwise:

* lowering the capacity of a KMS leaves more keys stored than it can hold, until
  they are drawn;
* with watermarks so close that `int()` puts the high one below the threshold, a
  low pool may never be refilled (capacity 5, both at 0.5): `LowMeansArmed` and
  `Settles` are stated for the others (`Sane`);
* a link that is cut on the page after a job has computed its path and before the
  circuit is committed is not looked at again until the next edit: `Settled`
  leaves those links out (`lost`), and so does not speak of this window.

`EditsStay` holds with the static source only: the code documents that edits are
for that mode.

## 4. Fairness

* `KeyPool`: the refill loop and started control calls go on (weak fairness on
  each step): `_prefetch_loop` runs until shutdown, and a worker thread that has
  started `set_pool` is scheduled until it returns.
  Nothing makes clients draw.
* `AdapterChain`: every handler that can run does (each service is an event loop
  that never blocks), and time passes. Nothing is assumed of late arrivals, of
  restarts, or of how many requests ONOS sends.
* `Dashboard`: a delay ends (`WF` on each job). Nothing makes anybody click, and
  `JobsEnd` needs no answer of the backend: provisioning does not wait for one.
* `KeyMesh`: threads run (weak fairness of posts, answers, the orchestration and
  the scanner's calls), and a thread that keeps asking for a lock gets it (strong
  fairness of taking it): the lock of a KME is free most of the time, because a
  scanner pauses 15 s after a round and circuits are finitely many, but it is
  taken and released while others wait. Nothing is assumed of circuits that
  begin, of outages, nor that a KME starts again.
* `PoolBench`: that of `KeyPool`. Nothing makes the harness go on.
* `PageSync` and `AuditTrail` have safety properties only.

## 5. Proofs

Eight modules, `*Proofs.tla`, each checked by `tlapm`. A theorem holds for all
values of the constants that meet the named assumptions of the module it is
about: `PoolAssumption`, `BenchAssumption`, `ChainAssumption`, `TrailAssumption`,
`TopologyAssumption` and `InputAssumption`, `PageAssumption`, `PathAssumption`
and `DashboardAssumption`, `MeshAssumption` and `FullMeshAssumption`. TLC evaluates
all of them in the runs. Where a theorem needs more, it says so in its
statement, and the run that checks the same property meets it:

| hypothesis | theorems | met by |
|---|---|---|
| `TuningOnly`: control calls change neither capacity nor level | `NeverOverfull`, `KeysAccountedFor`, `PoolImplementsStore` | `pool_tuned` |
| `NoLateDraws`: no KMS call takes effect after it was given up | `ChainRejectsForFree` | `chain_audit` |
| `NoLateWrites`: no audit write arrives after it was given up | `TrailInOrder` | `chain_faults` |
| `AllWritten`: every audit write succeeds | `TrailProvesAnswer` | `chain_faults` |
| `NoCrashes` and `EnoughTime`: every connection is made, the topology source raises nothing, and seven audit writes, four connections, the topology source and a KMS call per node of the path together take less than the gateway's timeout | `AuditingCostsNoAnswer` | `chain_audit` (7 * 2 + 4 * 0 + 0 + 3 * 1 < 30) |
| `~Live`: the source is the static file | `StaticRefreshIsFresh`, `StaticEditsStay`, half of `PageKeepsManager`, `BackendFollows` | `topo_static` |

They are not there for convenience. Without the first, lowering the capacity
overfills the pool, as section 3 says. A late draw costs keys after a rejection,
and a late write arrives in any order. Four hung writes take longer than the
gateway waits (`chain_hung`). With ONOS, edits do not stay and a refresh
can be undone (`topo_refresh`).

Each invariant below was checked by TLC before it was proved.

### KeyPool and PoolBench

* `TypeCorrect`: types of the pool, `stored >= 0` among them. Needed: what is
  known of the locals in between, that `added` is not negative and that a
  started control call holds a legal body, and so does what is left of it.
* `OvershootIsOneTick`: under any control calls,
  `stored <= CapacityCeiling + RateCeiling`. A control call may put `stored` at
  capacity after a tick has computed `added` and before it adds it; the
  invariant (`OvershootInv`) carries that `added` is at most a rate and that a
  level computed by a control call is at most a capacity.
* `NeverOverfull`, `KeysAccountedFor`, `PoolImplementsStore`: the room a tick
  uses was computed some steps before, under watermarks that may have moved
  since, so the strengthening (`PoolInv`) carries `target <= capacity`,
  `stored + added <= capacity` while a tick is between computing and adding, and
  that no control call has a field left that touches the keys. The refinement
  maps a draw to `Grant` and a tick to `Restock`.
* `LowPoolIsRefilled`: with sane watermarks, a pool below its threshold that a
  draw left has its flag up, or is about to: the flag is cleared only by a tick
  that sees the pool full, and full is not low when watermarks are sane.
* `BatchIsRefused` (`EmptyButForOneTick`), `ConfiguredPoolIsFull` (and `BenchTypeCorrect`,
  `BenchOvershootIsOneTick`, by the same argument as for the pool alone): the
  invariant `BenchInv` adds to `OvershootInv` how far the harness's own control
  call has got (`Draining`, `Filling`: which fields are left, and that the level
  is set last) and what the finished call leaves behind. `Drained` counts the
  keys of a tick that was under way when the level was set to 0; `Filled` says
  that a tick which still goes by the old capacity has not added anything since
  the level was set. `Undisturbed` holds only while nobody else controlled the
  pool, as the properties do.

### AdapterChain

* `ChainInv`, the invariant all theorems about the chain rest on, is a
  conjunction per request: a handler waits only where its service can wait
  (`InPlace`); a service whose caller has not called it has no handler
  (`CalledOnce`); an answer is the callee's answer, and a rejection may also be
  the service's own (`AnswersAgree`); whoever may draw knows the path, and every
  node of it has a KMS (`RouteKnown`); a request is drawn for by its handler or
  by the call that handler gave up, never by both (`DrawnOnce`). From it follow
  `ChainTypeCorrect` (no KMS is overdrawn) and `ChainImplementsCircuitService`.
* `ChainAnswersInTime`: `TimeInv` bounds, for each point the gateway can wait at,
  the time that has passed plus what its timer still allows: a write, the phases of
  its one call (two to be connected, one to be answered), and a write again.
* `ChainRejectsForFree`: `CostInv` says that a request whose handler was not
  supplied has drawn nothing; a 503 then means that the rejection came from
  before the draw.
* `TrailInOrder`: an event of the chain is in the trail only when its service is
  past it, and `response_returned` only when the chain below is quiet
  (`OrderInv`). The moves a handler may make are a table (`MovesOf`), so that an
  action is one line of the proof.
* `TrailProvesAnswer`: `CompleteInv` is the converse: a service that is past an
  event has written it, and a failure in the trail is the end of its service.
* `RejectedIsNotProvisioned`, the second half of `TrailTellsAnswer`, for any
  audit log, however late or lossy (`ReachedInv`).
* `NoKeyVanishes`: `SumOf` is a recursion over a set of requests in the order
  `CHOOSE` gives. The lemmas show that the recursion defines a function on the
  subsets of a finite set, and that changing one value changes the sum by as
  much; a draw changes one value, and the path of a request that has drawn does
  not change.
* `AuditingCostsNoAnswer` (`AuditNeverBreaksFlow`): a budget gives each service the
  time it takes from the call to its answer, those below it included (`Full`), and
  each await the time that is left after it (`Rest`). The invariant (`BudgetInv`)
  says that whoever waits for its callee can wait longer than whichever service
  below is at work will still take (`CanWait`). A step of a service leaves it no
  more to do (`LeftShrinks`); a second that passes for the one who waits passes for
  the one who works (`TickOnTime`), and somebody does work (`SomeoneWorks`).

### AuditTrail

`TrailIsOfTheChain`: with its store, its clock and its harness the chain is still
`AdapterChain` (`TrailSpec => Spec`), so what is proved of the chain holds here.
The other three need no hypothesis on the audit log: writes may be lost, late
and in any order, and services may stop.

* `OnceInv`: an event is in the trail, or on its way there, only when its service
  is past it or is about to give the write up, and never both. So no event is in
  the trail twice.
* `TimesInv`: the times of the events that were sent off are of the past and in
  the order of the chain (`TimesInOrder`). A service comes to an event only after
  every event that precedes it in the chain has been sent, whether or not it
  ever arrives.
* `RowsFit`: the table is what it was at the start and after it exactly one row
  for each event in the trail, with the time its service took. Hence
  `StampsTellOrder` (`TimesTellOrder`): a row stored late is not stamped late.
* `MeasureInv`: a sample without a gap was taken when all seven events that bound
  a stage had arrived. The query then returned all rows of the request, because
  there are no more of them than the limit; the last row of a kind is that of
  this run, because an older row comes earlier in the table; the times grow
  along the stages, so no difference is cut off at 0, and the six add up to the
  time between the ends. Hence `SamplesAreOfThisRun` (`SampleIsOfThisRun`), and
  `IncompleteIsLeftOut` (`GapsAreLeftOut`): only an older row can stand in for an
  event that is missing.

### TopologyManager and PathEngine

* `AnswersAreCurrent`: each request is answered from a snapshot in force while
  it was served, for any edits, tasks and source. `AnswerWasCurrent` alone is not
  inductive: it says nothing of a request that waits for its audit write. The
  strengthening (`IInv`) says that the cache names a built snapshot
  (`CacheBuilt`) and that what a waiting request holds was in force since it has
  it (`HoldsCurrent`).
* `StaticRefreshIsFresh`: with the static source (`FreshInv`).
* `TopologyTypeCorrect`: no torn or half-edited topology is cached, held or was
  ever in force. `TypeInv` carries what a task has read of the devices while it
  reads the links; most of it is lemmas about lists, because edits are
  `SelectInSeq`, `Sublist`, `ReplaceAt` and `Append` on the list of links.
* `StaticEditsStay`: `StayInv`, that what an edit put down or removed is so in the
  cached list, whichever of several parallel links the edit met first.
* `PathsAreCheapest`: `BuildGraph` and `Total` are recursive functions. `GraphIs`
  says what the graph holds after the first i links (an edge for the links so
  far, with the smallest of their costs), by induction on i, and `TotalGrows`
  that a path's total is at least that of another whose edges are no heavier.
  Hence a path that is cheapest in the graph is cheapest over the links.

### PageSync

* `PageImplementsManager`: every step of the page, its posts and their delivery is
  a step of `TopologyManager` or a stutter (`PageSpec => Spec`), so the theorems
  about it hold with the page beside it (`PageKeepsManager`).
* `BackendFollows`: `FollowInv` relates page and backend while the posts are
  carried out in their order, for the links the page shows and the source has
  (`Displays`): what the page shows of one is the outcome of the last post under
  way that decides about it, or no such post is under way and the topology in
  force shows the same. A reset decides about all links. And
  a post of the page, whatever it adds or toggles, never changes which cities
  are joined (`Pairs`, `PostAddsNoLink`): a link that is there keeps its ends, and a
  new one has a type that is refused.

### KeyMesh

The three theorems follow from `MeshInv`, per circuit: the handler serves the
call the orchestration waits for (`InStep`); a key that a Next Door KME
holds or posts was drawn at one, for one it knows (`FromKme`); as long as no KME has stopped, every KME
has the key, has missed a post about it, or is still on the list to be posted to
(`Reaching`), and the same of its removal (`Removing`); a post that arrives late
was counted as missed (`LateWasMissed`). `TypeOK` holds the lock discipline: the
lock of a KME is held exactly while a handler of it posts.

### Dashboard

* `SearchIsBest`: for any topology, any state of links and pools and any budget,
  the page's search returns a cheapest simple path, or `<<>>` when there is none.
  `SearchInv` is the invariant of its loop: distances are those of the way back
  over the predecessors (`Traced`), no visited city is farther than one that is
  not (`InOrder`), every road out of a visited city has been tried (`Settles`),
  and each round visits one city more. When the search is over nothing nearer is
  left (`NothingNearer`), the way back is a simple path of the distance found
  (`BehindIsPath`), and if the destination was not reached no path leads there
  (`NoWay`).
* `PageShowsNewest` (`LatestOnly`) and `PageTyped` (`TypeOK`): `PageInv` says that
  what is shown has the newest token (`ShownIsNewest`), that the page runs
  exactly while the job of the newest token is at a stage (`RunningIsNewest`), and
  that no token is used before it is given (`Unused`). Its types leave open what
  the search returns (`Paths`); `SearchIsBest` fills that in.
* `PlansBest` (`PlansAreBest`): the action property, one case per action; all but
  the path computation leave the planned paths alone.
* `CircuitSettled` (`Settled`): `CircuitInv` adds that a job on its way from the
  path computation to the end has noted every link of its path that is no longer
  up (`LossKnown`), so that the circuit it commits to is ACTIVE on links that are
  up, but for those. An edit of the topology leaves a handler that has still to
  reroute, and rerouting makes the circuit the best one of the moment or
  degraded.

### How induction is done

The induction theorems of the library take an operator and cannot be
instantiated here. Where induction over numbers or finite sets is needed
(`SumOf`, `BuildGraph`, `Total`, the search of the page), it is made first-order: the set of numbers for
which the claim fails has a least element (`WFMin` with `NatLessThanWellFounded`),
from which `SetInduction` follows: a set of naturals that contains 0 and the
successor of each of its elements is `Nat`. It is applied to the set of those n for
which the claim holds; for finite sets, n is the cardinality. That a recursive
definition has a value is a lemma of its own (`RecursionExists`).

### Only model-checked

Every invariant and every action property the passing runs check is stated by
a theorem. Left to TLC is liveness (`RefillCompletes`, `Settles`,
`EveryRequestAnswered`, `JobsEnd`, `EveryCallEnds`, `MeshReforms`): it rests on
fairness, that is on `ENABLED`, which the prover does not reach.
`FallbackIsFound`, `VerifiedKeyIsShared`, `RefreshedIsFresh` with ONOS and `AuditNeverBreaksFlow` with a
hung audit log are violated, as section 3 says.

## 6. Not modelled

* the bytes of the keys, certificates, and the Next Door program itself, except
  what its two patched classes and the ETSI client show of it;
* the SQLite file: a failure between insert and commit, and the column list;
* names and aliases of cities, except whether they resolve: a table and a
  membership test without state;
* drawing, log, costs and times of the page;
* settings and payload models as such: declarations, whose values are constants
  of the modules;
* the benchmarks kpi3 and kpi4, plots, scripts, Mininet and deployment: clients
  and environment of the system, with no state of its own logic.

## 7. Plan

What is left, as the code changes or clients come to depend on it:

1. the full query of the audit store (all requests at once), whose limit decides
   which of the rows are seen;
2. negative link costs, which the topology endpoint accepts and the search
   refuses;
3. the benchmarks kpi3 and kpi4, if they are given logic of their own.
