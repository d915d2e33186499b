------------------------------- MODULE KeyMesh -------------------------------
(***************************************************************************)
(* Key material for a circuit: the orchestration draws a key at one end    *)
(* of the path and asks for the same key at the other, from simulated KMS  *)
(* ("mock") or from Next Door KMEs ("ndks") in a full mesh.                *)
(*                                                                         *)
(* A Next Door KME answers its calls under one lock (the two of the        *)
(* application are always taken together), which it keeps while it posts   *)
(* the key to every other KME, one after the other; the other KME's        *)
(* handler needs that KME's lock.  A scanner thread asks the other KMEs    *)
(* for their status and swaps the list of known KMEs.  Every call has a    *)
(* timeout, and a caller that gives up does not stop the callee: a post    *)
(* that timed out may still arrive.  A call can only time out while its    *)
(* callee waits for a lock; what needs no waiting is instantaneous.        *)
(*                                                                         *)
(* The Next Door application itself is not part of the repository: what    *)
(* its handlers do is taken from how the two patched files are used.       *)
(***************************************************************************)
EXTENDS Integers, Sequences, FiniteSets

CONSTANTS
    Requests,       \* circuits, one key each
    Endpoints,      \* what the ends of the circuits may be, all taken together
    Cities,         \* entries of the KMS registry
    Backend,        \* "mock" or "ndks", for each city
    Others,         \* OTHER_KMES of each Next Door KME, in order
    Free,           \* nobody has the lock
    InitPeers,      \* the KMEs each knows at the beginning
    Watched,        \* bound: KMEs whose scanner goes on scanning
    Failing,        \* bound: cities whose KMS may stop
    MaxOutages      \* bound: how often one stops

Kmes == {c \in Cities : Backend[c] = "ndks"}

\* The members of a list of KMEs.
On(list) == {list[i] : i \in DOMAIN list}

ASSUME MeshAssumption ==
    /\ Backend \in [Cities -> {"mock", "ndks"}]
    /\ Endpoints \subseteq [Requests -> Cities \X Cities]
    /\ Others \in [Kmes -> Seq(Kmes)]
    /\ Free \notin Requests
    /\ InitPeers \in [Kmes -> SUBSET Kmes]
    /\ Watched \subseteq Kmes /\ Failing \subseteq Cities
    /\ MaxOutages \in Nat

\* The mesh is full: docker-compose.yml gives each KME all the others.
ASSUME FullMeshAssumption == \A c \in Kmes : On(Others[c]) = Kmes \ {c}

VARIABLES
    ends,           \* both ends of each circuit's path
    up,             \* cities whose KMS runs
    outages,
    lock,           \* the request whose handler has the lock of a KME, or Free
    peers,          \* kme_list of each KME
    scan,           \* scanner thread of each KME
    held,           \* keys each KME keeps for its SAE to ask for
    handler,        \* the KMS' handler of the orchestration's last call
    late,           \* posts whose sender has given up, on their way
    kom,            \* where the orchestration of each circuit is
    verified,       \* key_shared_verified
    got,            \* history: the key the far end gave out, if verified
    missed          \* history: KMEs a post about a key has not reached in time

vars == <<ends, up, outages, lock, peers, scan, held, handler, late, kom, verified,
          got, missed>>

From(r) == ends[r][1]
To(r) == ends[r][2]

NoKey == <<"none">>
Fresh(r)  == <<"random", r>>
Digest(r) == <<"digest", r>>        \* _deterministic_key, of the key_ID

Idle == [call |-> "none", at |-> "idle", todo |-> << >>, key |-> NoKey]
Scanning(c) == [todo |-> Others[c], found |-> {}]

Init ==
    /\ ends \in Endpoints
    /\ up = Cities
    /\ outages = 0
    /\ lock = [c \in Kmes |-> Free]
    /\ peers = InitPeers
    /\ scan = [c \in Kmes |-> Scanning(c)]
    /\ held = [c \in Kmes |-> {}]
    /\ handler = [r \in Requests |-> Idle]
    /\ late = {}
    /\ kom = [r \in Requests |-> "idle"]
    /\ verified = [r \in Requests |-> FALSE]
    /\ got = [r \in Requests |-> NoKey]
    /\ missed = [r \in Requests |-> {}]

-----------------------------------------------------------------------------
(* The scanner of a KME.                                                     *)

\* A call to KME p fails: refused if p is down, or timed out if it is busy.
CallFails(p) == p \notin up \/ lock[p] # Free

\* The status of the next KME on the list, or none: the KME is down or busy.
Fetch(c) ==
    /\ c \in up /\ scan[c].todo # << >>
    /\ LET p == Head(scan[c].todo) IN
       \/ /\ p \in up /\ lock[p] = Free
          /\ scan' = [scan EXCEPT ![c] = [todo |-> Tail(@.todo), found |-> @.found \cup {p}]]
       \/ /\ CallFails(p)
          /\ scan' = [scan EXCEPT ![c].todo = Tail(@)]
    /\ UNCHANGED <<ends, up, outages, lock, peers, held, handler, late, kom, verified, got, missed>>

OldAndFetched(c) == peers[c] \cup scan[c].found     \* mutant: the list is not cleared
Fetched(c) == scan[c].found

\* The list is swapped under the lock, and the next round begins after a while.
Swap(c) ==
    /\ c \in up /\ scan[c].todo = << >> /\ lock[c] = Free
    /\ peers' = [peers EXCEPT ![c] = Fetched(c)]
    /\ scan' = [scan EXCEPT ![c] = Scanning(c)]
    /\ UNCHANGED <<ends, up, outages, lock, held, handler, late, kom, verified, got, missed>>

\* find_kme: the SAE of city d is the KME's own or that of a KME it knows.
Finds(c, d) == d = c \/ d \in peers[c]

-----------------------------------------------------------------------------
(* A KMS serves a call of the orchestration.                                 *)

Serving(r) == IF handler[r].call = "enc" THEN From(r) ELSE To(r)

\* A call reaches city c; a mock KMS answers at once, from its pool if it can.
Outcomes(r, call, c) ==
    IF c \notin up THEN {<<"gone", NoKey>>}
    ELSE IF Backend[c] = "ndks" THEN {<<"lock", NoKey>>}
    ELSE IF call = "dec" THEN {<<"ok", Digest(r)>>}
    ELSE {<<"ok", Fresh(r)>>, <<"refused", NoKey>>}

Called(r, call, c) ==
    \E o \in Outcomes(r, call, c) :
        handler' = [handler EXCEPT ![r] =
                       [call |-> call, at |-> o[1], todo |-> << >>, key |-> o[2]]]

\* What a KME can do for a call: make a key for an SAE it finds, or hand over
\* the key it was sent.
Possible(r, c) ==
    IF handler[r].call = "enc" THEN Finds(c, To(r)) ELSE r \in held[c]

RemovesNowhere(r) ==                        \* mutant: a used key is not removed
    IF handler[r].call = "enc" THEN Others[Serving(r)] ELSE << >>
\* The KMEs a handler posts to: send_keys after enc_keys, remove_keys after dec_keys.
Broadcast(r) == Others[Serving(r)]

\* Taking the lock, the handler makes or hands over the key and begins to post;
\* or it refuses, and the lock is free again.
Acquire(r) ==
    LET c == Serving(r) IN
    /\ handler[r].at = "lock"
    /\ lock[c] = Free
    /\ IF Possible(r, c)
       THEN /\ lock' = [lock EXCEPT ![c] = r]
            /\ held' = [held EXCEPT ![c] = IF handler[r].call = "enc"
                                           THEN @ \cup {r} ELSE @ \ {r}]
            /\ handler' = [handler EXCEPT ![r] =
                              [call |-> @.call, at |-> "post", todo |-> Broadcast(r),
                               key |-> Fresh(r)]]
       ELSE /\ handler' = [handler EXCEPT ![r].at = "refused"]
            /\ UNCHANGED <<lock, held>>
    /\ UNCHANGED <<ends, up, outages, peers, scan, late, kom, verified, got, missed>>

\* /kme/keys/exchange and /kme/keys/remove at KME p.
Deliver(r, call, p) ==
    held' = [held EXCEPT ![p] = IF call = "enc" THEN @ \cup {r} ELSE @ \ {r}]

Posting(r) == handler[r].at = "post" /\ handler[r].todo # << >>

Posted(r) ==
    /\ Posting(r)
    /\ LET p == Head(handler[r].todo) IN
       /\ p \in up /\ lock[p] = Free
       /\ Deliver(r, handler[r].call, p)
    /\ handler' = [handler EXCEPT ![r].todo = Tail(@)]
    /\ UNCHANGED <<ends, up, outages, lock, peers, scan, late, kom, verified, got, missed>>

NeverTimesOut(p) == p \notin up              \* mutant: the post has no timeout
PostTimesOut(p) == CallFails(p)

Abandoned(r) == << >>                       \* mutant: the exception ends the loop
Remaining(r) == Tail(handler[r].todo)

\* The post is refused by a KME that is down, or times out at a busy one, where
\* its handler still waits for the lock; the loop goes on with the next KME.
PostFails(r) ==
    /\ Posting(r)
    /\ LET p == Head(handler[r].todo) IN
       /\ PostTimesOut(p)
       /\ missed' = [missed EXCEPT ![r] = @ \cup {p}]
       /\ late' = IF p \in up THEN late \cup {<<r, handler[r].call, p>>} ELSE late
    /\ handler' = [handler EXCEPT ![r].todo = Remaining(r)]
    /\ UNCHANGED <<ends, up, outages, lock, peers, scan, held, kom, verified, got>>

AnswerKeepsLock(r) ==                       \* mutant: the lock is not given back
    /\ handler[r].at = "post" /\ handler[r].todo = << >>
    /\ handler' = [handler EXCEPT ![r].at = "ok"]
    /\ UNCHANGED <<ends, up, outages, lock, peers, scan, held, late, kom, verified, got, missed>>
\* All KMEs have been posted to: the handler gives back the lock and answers.
Answer(r) ==
    /\ handler[r].at = "post" /\ handler[r].todo = << >>
    /\ lock' = [lock EXCEPT ![Serving(r)] = Free]
    /\ handler' = [handler EXCEPT ![r].at = "ok"]
    /\ UNCHANGED <<ends, up, outages, peers, scan, held, late, kom, verified, got, missed>>

\* A post that had timed out gets its lock after all.
Arrive(r, call, p) ==
    /\ <<r, call, p>> \in late
    /\ lock[p] = Free
    /\ late' = late \ {<<r, call, p>>}
    /\ Deliver(r, call, p)
    /\ UNCHANGED <<ends, up, outages, lock, peers, scan, handler, kom, verified, got, missed>>

-----------------------------------------------------------------------------
(* The orchestration.                                                        *)

\* The handler waits for a lock, its own or that of the KME it posts to.
Stuck(r) ==
    \/ handler[r].at = "lock" /\ lock[Serving(r)] # Free
    \/ Posting(r) /\ CallFails(Head(handler[r].todo))

Failed(r) == handler[r].at \in {"refused", "gone"} \/ Stuck(r)

Orchestrate(r) ==
    /\ kom[r] = "idle"
    /\ kom' = [kom EXCEPT ![r] = "enc"]
    /\ Called(r, "enc", From(r))
    /\ UNCHANGED <<ends, up, outages, lock, peers, scan, held, late, verified, got, missed>>

EncFails(r) ==
    /\ kom[r] = "enc" /\ Failed(r)
    /\ kom' = [kom EXCEPT ![r] = "REJECTED"]
    /\ UNCHANGED <<ends, up, outages, lock, peers, scan, held, handler, late, verified, got, missed>>

EncKeys(r) ==
    /\ kom[r] = "enc" /\ handler[r].at = "ok"
    /\ kom' = [kom EXCEPT ![r] = "dec"]
    /\ Called(r, "dec", To(r))
    /\ UNCHANGED <<ends, up, outages, lock, peers, scan, held, late, verified, got, missed>>

\* As many keys as key_IDs have come back: their contents are not compared.
DecKeys(r) ==
    /\ kom[r] = "dec" /\ handler[r].at = "ok"
    /\ kom' = [kom EXCEPT ![r] = "KEYED"]
    /\ verified' = [verified EXCEPT ![r] = TRUE]
    /\ got' = [got EXCEPT ![r] = handler[r].key]
    /\ UNCHANGED <<ends, up, outages, lock, peers, scan, held, handler, late, missed>>

\* The circuit goes on without verification.
DecFails(r) ==
    /\ kom[r] = "dec" /\ Failed(r)
    /\ kom' = [kom EXCEPT ![r] = "KEYED"]
    /\ UNCHANGED <<ends, up, outages, lock, peers, scan, held, handler, late, verified, got, missed>>

-----------------------------------------------------------------------------
(* A KMS stops, with its threads, its keys and its list, and starts again.   *)

Running(r) == handler[r].at \in {"lock", "post"}

Stop(c) ==
    /\ c \in up /\ outages < MaxOutages
    /\ up' = up \ {c}
    /\ outages' = outages + 1
    /\ handler' = [r \in Requests |->
                      IF Running(r) /\ Serving(r) = c
                      THEN [call |-> handler[r].call, at |-> "gone", todo |-> << >>, key |-> NoKey]
                      ELSE handler[r]]
    /\ late' = {m \in late : m[3] # c}
    /\ lock'  = [k \in Kmes |-> IF k = c THEN Free ELSE lock[k]]
    /\ peers' = [k \in Kmes |-> IF k = c THEN {} ELSE peers[k]]
    /\ held'  = [k \in Kmes |-> IF k = c THEN {} ELSE held[k]]
    /\ scan'  = [k \in Kmes |-> IF k = c THEN Scanning(k) ELSE scan[k]]
    /\ UNCHANGED <<ends, kom, verified, got, missed>>

Start(c) ==
    /\ c \notin up
    /\ up' = up \cup {c}
    /\ UNCHANGED <<ends, outages, lock, peers, scan, held, handler, late, kom, verified, got, missed>>

-----------------------------------------------------------------------------
Serve(r) == Posted(r) \/ PostFails(r) \/ Answer(r)
Client(r) == EncFails(r) \/ EncKeys(r) \/ DecKeys(r) \/ DecFails(r)
Scanner(c) == Fetch(c) \/ Swap(c)
Posts == Requests \X {"enc", "dec"} \X Kmes

Next ==
    \/ \E r \in Requests : Orchestrate(r) \/ Acquire(r) \/ Serve(r) \/ Client(r)
    \/ \E m \in Posts : Arrive(m[1], m[2], m[3])
    \/ \E c \in Watched : Scanner(c)
    \/ \E c \in Failing : Stop(c) \/ Start(c)

Spec == Init /\ [][Next]_vars

(***************************************************************************)
(* Threads run.  A lock is free most of the time (a scanner pauses for 15  *)
(* seconds and circuits are finitely many), so who keeps asking gets it.   *)
(* Nothing is assumed of circuits, nor of the restart of a KME.            *)
(***************************************************************************)
Fairness ==
    /\ \A r \in Requests : WF_vars(Serve(r)) /\ WF_vars(Client(r)) /\ SF_vars(Acquire(r))
    /\ \A c \in Watched : WF_vars(Fetch(c)) /\ SF_vars(Swap(c))

FairSpec == Spec /\ Fairness

-----------------------------------------------------------------------------
(* Properties.                                                               *)

Keys == {NoKey} \cup {Fresh(r) : r \in Requests} \cup {Digest(r) : r \in Requests}

(***************************************************************************)
(* Types; and the lock of a KME is held exactly while one of its handlers  *)
(* broadcasts, so that no path through a handler keeps it.                 *)
(***************************************************************************)
TypeOK ==
    /\ ends \in Endpoints
    /\ up \subseteq Cities
    /\ outages \in 0 .. MaxOutages
    /\ lock \in [Kmes -> Requests \cup {Free}]
    /\ \A c \in Kmes, r \in Requests :
          lock[c] = r <=> handler[r].at = "post" /\ Serving(r) = c
    /\ peers \in [Kmes -> SUBSET Kmes]
    /\ \A c \in Kmes : scan[c].found \subseteq Kmes /\ Len(scan[c].todo) <= Len(Others[c])
    /\ held \in [Kmes -> SUBSET Requests]
    /\ \A r \in Requests :
          /\ handler[r].call \in {"none", "enc", "dec"}
          /\ handler[r].at \in {"idle", "lock", "post", "ok", "refused", "gone"}
          /\ handler[r].key \in Keys
    /\ late \subseteq Posts
    /\ kom \in [Requests -> {"idle", "enc", "dec", "KEYED", "REJECTED"}]
    /\ verified \in [Requests -> BOOLEAN]
    /\ got \in [Requests -> Keys]
    /\ missed \in [Requests -> SUBSET Kmes]

(***************************************************************************)
(* `key_shared_verified: true` when the same key was retrieved at the      *)
(* destination too (README.md:203-204): a verified circuit has one key,    *)
(* the one its source drew.                                                *)
(***************************************************************************)
VerifiedKeyIsShared == \A r \in Requests : verified[r] => got[r] = Fresh(r)

(***************************************************************************)
(* A KME that one broadcast cannot reach keeps no other from its key: the  *)
(* far end can only refuse a key whose post to it failed, or that it lost  *)
(* when it stopped (Broadcaster.__broadcast).                              *)
(***************************************************************************)
KeyReachesFarEnd ==
    \A r \in Requests :
        handler[r].call = "dec" /\ handler[r].at = "refused" /\ Backend[From(r)] = "ndks"
            => To(r) \in missed[r] \/ outages > 0

(***************************************************************************)
(* A key that was handed over is held nowhere else, except where a post of *)
(* its exchange or its removal failed: a removal that overtakes a late     *)
(* exchange is the only way to leave a used key behind.                    *)
(***************************************************************************)
UsedKeyIsGone ==
    \A r \in Requests :
        handler[r].call = "dec" /\ handler[r].at = "ok" =>
            \A c \in Kmes : r \in held[c] => c \in missed[r]

(***************************************************************************)
(* "senza deadlock" (README.md:218-219): every call a KME has taken ends,  *)
(* however the KMEs' broadcasts and scans wait for each other.             *)
(***************************************************************************)
EveryCallEnds == \A r \in Requests : Running(r) ~> ~Running(r)

(***************************************************************************)
(* Whatever dropped out, the KMEs that run end up knowing exactly the      *)
(* others that run (Scanner.start).                                        *)
(***************************************************************************)
MeshReforms ==
    <>[](\A c \in Watched \cap up : peers[c] = {p \in up \cap Kmes : p # c})
=============================================================================
