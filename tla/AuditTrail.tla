----------------------------- MODULE AuditTrail -----------------------------
(***************************************************************************)
(* What becomes of the events of the chain: each carries the time at which *)
(* its service built it, and is a row of one append-only table from the    *)
(* moment its write arrives, for this and all later runs of the stack.     *)
(* The measurement harness posts a request, reads the rows of its id back  *)
(* as soon as it is answered, and splits the latency into six stages.      *)
(*                                                                         *)
(* The times of a request count from its arrival at the gateway.           *)
(***************************************************************************)
EXTENDS AdapterChain, SequencesExt

CONSTANTS
    Tables,         \* what the table may hold when the stack starts
    Limit,          \* rows a query returns at most
    MaxLate,        \* bound: writes on their way whose service has given up
    NoSample        \* nothing measured

\* The rows an earlier run left are older than any request of this one, and
\* what a run adds to them stays within what a query returns.
ASSUME TrailAssumption ==
    /\ Limit \in Nat
    /\ \A table \in Tables :
          /\ table \in Seq(ToSet(table))
          /\ \A i \in DOMAIN table : table[i].timestamp \in Int /\ table[i].timestamp < 0
          /\ \A r \in Requests :
                Cardinality({i \in DOMAIN table : table[i].request_id = r})
                    + Cardinality(Events) <= Limit

VARIABLES
    rows,           \* table "events", in the order of its ids
    stamp,          \* AuditEvent.timestamp of each event of this run
    sample          \* what the harness made of each request

trailVars == <<rows, stamp, sample>>

Row(r, e, t, n) == [request_id |-> r, event_type |-> e, timestamp |-> t, hops |-> n]

TrailInit ==
    /\ Init
    /\ rows \in Tables
    /\ stamp = [r \in Requests |-> [e \in Events |-> 0]]
    /\ sample = [r \in Requests |-> NoSample]

-----------------------------------------------------------------------------
(* The store.                                                               *)

StampedOnArrival ==                         \* mutant: the store stamps the events
    [r \in Requests |-> [e \in Events |->
        IF trail'[r] # trail[r] /\ Last(trail'[r]) = e THEN elapsed[r] ELSE stamp[r][e]]]
\* A service builds an event, which takes its time stamp, and sends it off.
Stamped ==
    [r \in Requests |-> [e \in Events |->
        IF \E s \in Services : At(r, s)' = e /\ At(r, s) # e
        THEN elapsed[r] ELSE stamp[r][e]]]

\* The insert and its commit, under the store's lock.
Stored ==
    IF trail' = trail THEN rows
    ELSE LET r == CHOOSE q \in Requests : trail'[q] # trail[q]
             e == Last(trail'[r])
         IN Append(rows, Row(r, e, stamp'[r][e], Len(route[r]) - 1))

RowsOf(r) == {i \in DOMAIN rows : rows[i].request_id = r}

QueryAll(r, limit) == DOMAIN rows           \* mutant: every request's rows
\* The rows of request r, by their ids: the oldest, and at most limit of them.
Query(r, limit) == {i \in RowsOf(r) : Cardinality({j \in RowsOf(r) : j <= i}) <= limit}

-----------------------------------------------------------------------------
(* The harness.                                                             *)

\* The six stages, by the events that bound them.
STAGES ==
    <<<<"request_received", "endpoints_resolved">>,
      <<"endpoints_resolved", "topology_attached">>,
      <<"topology_attached", "path_computed">>,
      <<"path_computed", "keys_retrieved">>,
      <<"keys_retrieved", "service_provisioned">>,
      <<"service_provisioned", "response_returned">>>>

Bounds == UNION {ToSet(STAGES[i]) : i \in DOMAIN STAGES}

Types(events) == {rows[i].event_type : i \in events}

FirstOf(events, e) == Min({i \in events : rows[i].event_type = e})   \* mutant
\* Where the last event of type e is: a new run wins over the rows of an old one.
LastOf(events, e) == Max({i \in events : rows[i].event_type = e})

fetch_events(r) == Query(r, Limit)

TimeOf(events, e) == rows[LastOf(events, e)].timestamp

stage_latencies(events) ==
    [i \in DOMAIN STAGES |->
        LET d == TimeOf(events, STAGES[i][2]) - TimeOf(events, STAGES[i][1])
        IN IF d > 0 THEN d ELSE 0]

\* "Sum of the six".
EndToEnd(d) == d[1] + d[2] + d[3] + d[4] + d[5] + d[6]

\* stage_latencies is None unless both ends of every stage are there.
Complete(events) == Bounds \subseteq Types(events)

path_info(events) == rows[LastOf(events, "path_computed")].hops

\* What one trail comes to; its gap is history: the events of this run that had
\* not arrived.
Sample(r, events) ==
    [stages |-> stage_latencies(events),
     e2e |-> EndToEnd(stage_latencies(events)),
     hops |-> path_info(events),
     gap |-> Bounds \ ToSet(trail[r])]

post_circuit(r) == At(r, "gateway")

\* Only an answer of 200 with a complete trail is a sample.
Measure(r) ==
    /\ sample[r] = NoSample
    /\ post_circuit(r) = "200"
    /\ LET events == fetch_events(r)
       IN Complete(events) /\ sample' = [sample EXCEPT ![r] = Sample(r, events)]
    /\ UNCHANGED <<vars, rows, stamp>>

TrailNext ==
    \/ /\ Next
       /\ Cardinality(late') <= MaxLate
       /\ stamp' = Stamped
       /\ rows' = Stored
       /\ UNCHANGED sample
    \/ \E r \in Requests : Measure(r)

TrailSpec == TrailInit /\ [][TrailNext]_<<vars, trailVars>>

-----------------------------------------------------------------------------
(* Properties.                                                              *)

(***************************************************************************)
(* "Sum of the six == end-to-end audit latency" (bench/common.py:36), and  *)
(* the last occurrence is that of the new run (bench/common.py:100): what  *)
(* the harness measures is this run of the request, in whatever order its  *)
(* events arrived and whatever rows an earlier run left under the same id, *)
(* unless an event of this run was missing when it looked.                 *)
(***************************************************************************)
SampleIsOfThisRun ==
    \A r \in Requests : sample[r] # NoSample /\ sample[r].gap = {} =>
        /\ sample[r].e2e = stamp[r]["response_returned"] - stamp[r]["request_received"]
        /\ sample[r].hops = Len(route[r]) - 1

(***************************************************************************)
(* With an id of its own, a request whose trail has a gap is left out      *)
(* rather than measured wrong (stage_latencies_ms).                        *)
(***************************************************************************)
GapsAreLeftOut ==
    \A r \in Requests : sample[r] # NoSample =>
        \/ sample[r].gap = {}
        \/ \E i \in DOMAIN rows : rows[i].request_id = r /\ rows[i].timestamp < 0

(***************************************************************************)
(* However late its writes arrive, a request's events bear times in the    *)
(* order of the chain: sorted by time stamp the trail reads as announced   *)
(* (build_event, AuditEvent.timestamp).                                    *)
(***************************************************************************)
TimesTellOrder ==
    \A r \in Requests :
        LET own == {rows[i] : i \in {j \in DOMAIN rows : rows[j].request_id = r}}
        IN  \A x, y \in {row \in own : row.timestamp >= 0 /\ row.event_type \in ToSet(Sequence)} :
                Position(x.event_type) < Position(y.event_type) => x.timestamp <= y.timestamp
=============================================================================
