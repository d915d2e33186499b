---------------------------- MODULE KeyMeshProofs ----------------------------
(***************************************************************************)
(* What TLAPS proves about KeyMesh, for every full mesh of KMEs, every set *)
(* of circuits between them and the simulated cities, and any number of    *)
(* outages.                                                                *)
(***************************************************************************)
EXTENDS KeyMesh, TLAPS

-----------------------------------------------------------------------------
(* The inductive invariant, one circuit at a time.                           *)

Handlers ==
    [call : {"none", "enc", "dec"},
     at   : {"idle", "lock", "post", "ok", "refused", "gone"},
     todo : Seq(Kmes),
     key  : Keys]

Threads == [todo : Seq(Kmes), found : SUBSET Kmes]

Recorded == handler \in [Requests -> Handlers] /\ scan \in [Kmes -> Threads]

\* The handler serves the call that the orchestration waits for, or has given
\* up; only a KME's handler waits for a lock or posts.
InStep(r) ==
    /\ kom[r] = "idle" => handler[r].call = "none"
    /\ handler[r].call = "none" => handler[r].at = "idle"
    /\ kom[r] \in {"enc", "dec"} => handler[r].call = kom[r]
    /\ Running(r) => Serving(r) \in Kmes
    /\ handler[r].at = "ok" => handler[r].todo = << >>

\* A KME's key comes from a KME, for a KME it knows.
FromKme(r) ==
    /\ handler[r].at = "post" => From(r) \in Kmes
    /\ \A c \in Kmes : r \in held[c] => From(r) \in Kmes
    /\ From(r) \in Kmes /\ (handler[r].call = "enc" => handler[r].at \in {"post", "ok"})
          /\ handler[r].call # "none"
          => To(r) \in Kmes

\* A post that is still on its way was missed; removals are posted last.
LateWasMissed ==
    \A m \in late :
        /\ From(m[1]) \in Kmes
        /\ m[3] \in missed[m[1]]
        /\ m[2] = "dec" => handler[m[1]].call = "dec" /\ handler[m[1]].at # "lock"

\* The key is at KME c, or its post to c failed, or is still to be made.
Sent(r, c) == r \in held[c] \/ c \in missed[r] \/ c \in On(handler[r].todo)

\* How far the exchange of a key has got, while no KME has stopped.
Reaching(r) ==
    outages = 0 /\ From(r) \in Kmes =>
        /\ handler[r].call = "enc" /\ handler[r].at \in {"post", "ok"}
              => \A c \in Kmes : Sent(r, c)
        /\ handler[r].call = "dec" /\ handler[r].at = "lock"
              => r \in held[To(r)] \/ To(r) \in missed[r]
        /\ handler[r].call = "dec" /\ handler[r].at = "refused"
              => To(r) \in missed[r]

\* How far its removal has got.
Removing(r) ==
    handler[r].call = "dec" /\ handler[r].at \in {"post", "ok"} =>
        \A c \in Kmes : r \in held[c] => c \in missed[r] \/ c \in On(handler[r].todo)

Circuit(r) == InStep(r) /\ FromKme(r) /\ Reaching(r) /\ Removing(r)

MeshInv == TypeOK /\ Recorded /\ LateWasMissed /\ \A r \in Requests : Circuit(r)

-----------------------------------------------------------------------------
(* Lists, records and constants.                                             *)

LEMMA OnList ==
    ASSUME NEW S, NEW list \in Seq(S)
    PROVE  /\ On(list) \subseteq S
           /\ list = << >> => On(list) = {}
           /\ list # << >> => /\ Head(list) \in S
                             /\ Tail(list) \in Seq(S)
                             /\ Len(Tail(list)) <= Len(list)
                             /\ On(list) = {Head(list)} \cup On(Tail(list))
<1>1. On(list) \subseteq S
  BY DEF On
<1>2. list = << >> => On(list) = {}
  BY DEF On
<1>3. ASSUME list # << >>
      PROVE  /\ Head(list) \in S
             /\ Tail(list) \in Seq(S)
             /\ Len(Tail(list)) <= Len(list)
             /\ On(list) = {Head(list)} \cup On(Tail(list))
  <2>1. /\ Head(list) \in S
        /\ Tail(list) \in Seq(S)
        /\ Len(Tail(list)) <= Len(list)
    BY <1>3
  <2>2. On(list) \subseteq {Head(list)} \cup On(Tail(list))
    <3>1. SUFFICES ASSUME NEW i \in DOMAIN list, list[i] # Head(list)
                   PROVE  list[i] \in On(Tail(list))
      BY DEF On
    <3>2. i - 1 \in DOMAIN Tail(list) /\ Tail(list)[i - 1] = list[i]
      BY <1>3, <3>1
    <3> QED  BY <3>2 DEF On
  <2>3. On(Tail(list)) \subseteq On(list)
    <3>1. SUFFICES ASSUME NEW i \in DOMAIN Tail(list)
                   PROVE  Tail(list)[i] \in On(list)
      BY DEF On
    <3>2. i + 1 \in DOMAIN list /\ list[i + 1] = Tail(list)[i]
      BY <1>3, <3>1
    <3> QED  BY <3>2 DEF On
  <2>4. Head(list) \in On(list)
    BY <1>3 DEF On
  <2> QED  BY <2>1, <2>2, <2>3, <2>4
<1> QED  BY <1>1, <1>2, <1>3

LEMMA EndsAreCities ==
    ASSUME ends \in Endpoints, NEW r \in Requests
    PROVE  /\ From(r) \in Cities /\ To(r) \in Cities
           /\ From(r) \in Kmes <=> Backend[From(r)] = "ndks"
           /\ To(r) \in Kmes <=> Backend[To(r)] = "ndks"
<1>1. ends \in [Requests -> Cities \X Cities]
  BY MeshAssumption
<1>2. ends[r] \in Cities \X Cities
  BY <1>1
<1> QED  BY <1>2 DEF From, To, Kmes

LEMMA OthersOf ==
    ASSUME NEW c \in Kmes
    PROVE  Others[c] \in Seq(Kmes) /\ On(Others[c]) = Kmes \ {c}
BY MeshAssumption, FullMeshAssumption

LEMMA HandlerIs ==
    ASSUME Recorded, NEW r \in Requests
    PROVE  /\ handler[r].call \in {"none", "enc", "dec"}
           /\ handler[r].at \in {"idle", "lock", "post", "ok", "refused", "gone"}
           /\ handler[r].todo \in Seq(Kmes)
           /\ handler[r].key \in Keys
BY DEF Recorded, Handlers

-----------------------------------------------------------------------------
(* The initial states.                                                       *)

LEMMA MeshInit == Init => MeshInv
<1> SUFFICES ASSUME Init PROVE MeshInv
  OBVIOUS
<1>1. \A r \in Requests : /\ handler[r] = Idle /\ kom[r] = "idle"
                          /\ verified[r] = FALSE
  BY DEF Init
<1>2. Recorded
  <2>1. Idle \in Handlers
    BY DEF Idle, Handlers, Keys
  <2>2. \A c \in Kmes : Scanning(c) \in Threads
    BY OthersOf DEF Scanning, Threads
  <2> QED  BY <2>1, <2>2 DEF Init, Recorded
<1>3. TypeOK
  <2>1. \A c \in Kmes : scan[c].found \subseteq Kmes /\ Len(scan[c].todo) <= Len(Others[c])
    BY OthersOf DEF Init, Scanning
  <2>2. \A c \in Kmes, r \in Requests :
          lock[c] = r <=> handler[r].at = "post" /\ Serving(r) = c
    BY <1>1, MeshAssumption DEF Init, Idle
  <2>3. \A r \in Requests :
          /\ handler[r].call \in {"none", "enc", "dec"}
          /\ handler[r].at \in {"idle", "lock", "post", "ok", "refused", "gone"}
          /\ handler[r].key \in Keys
    BY <1>2, HandlerIs
  <2> QED  BY <2>1, <2>2, <2>3, MeshAssumption DEF Init, TypeOK, Keys
<1>4. LateWasMissed
  BY DEF Init, LateWasMissed
<1>5. ASSUME NEW r \in Requests PROVE Circuit(r)
  BY <1>1 DEF Init, Circuit, InStep, FromKme, Reaching, Removing, Idle, Running
<1> QED  BY <1>2, <1>3, <1>4, <1>5 DEF MeshInv

-----------------------------------------------------------------------------
(* The parts of the type invariant, and what a step leaves alone.            *)

Typed ==
    /\ ends \in Endpoints
    /\ up \subseteq Cities
    /\ outages \in 0 .. MaxOutages
    /\ lock \in [Kmes -> Requests \cup {Free}]
    /\ peers \in [Kmes -> SUBSET Kmes]
    /\ held \in [Kmes -> SUBSET Requests]
    /\ late \subseteq Posts
    /\ kom \in [Requests -> {"idle", "enc", "dec", "KEYED", "REJECTED"}]
    /\ verified \in [Requests -> BOOLEAN]
    /\ got \in [Requests -> Keys]
    /\ missed \in [Requests -> SUBSET Kmes]

Locked ==
    \A c \in Kmes, r \in Requests :
        lock[c] = r <=> handler[r].at = "post" /\ Serving(r) = c

Rounds == \A c \in Kmes : Len(scan[c].todo) <= Len(Others[c])

LEMMA TypeParts == TypeOK => Typed /\ Locked /\ Rounds
BY DEF TypeOK, Typed, Locked, Rounds

LEMMA PartsType == Typed /\ Locked /\ Rounds /\ Recorded => TypeOK
<1> SUFFICES ASSUME Typed, Locked, Rounds, Recorded PROVE TypeOK
  OBVIOUS
<1>1. \A r \in Requests :
        /\ handler[r].call \in {"none", "enc", "dec"}
        /\ handler[r].at \in {"idle", "lock", "post", "ok", "refused", "gone"}
        /\ handler[r].key \in Keys
  BY HandlerIs
<1>2. \A c \in Kmes : scan[c].found \subseteq Kmes /\ Len(scan[c].todo) <= Len(Others[c])
  BY DEF Recorded, Threads, Rounds
<1>3. \A c \in Kmes, r \in Requests :
        lock[c] = r <=> handler[r].at = "post" /\ Serving(r) = c
  BY DEF Locked
<1> QED  BY <1>1, <1>2, <1>3 DEF Typed, TypeOK

LEMMA PartsTypeNext == Typed' /\ Locked' /\ Rounds' /\ Recorded' => TypeOK'
<1>1. (Typed /\ Locked /\ Rounds /\ Recorded => TypeOK)'
  BY PartsType, PTL
<1> QED  BY <1>1

\* Nothing of circuit r changes.
Keeps(r) ==
    /\ handler'[r] = handler[r]
    /\ kom'[r] = kom[r] /\ verified'[r] = verified[r] /\ got'[r] = got[r]
    /\ missed'[r] = missed[r]
    /\ \A c \in Kmes : r \in held'[c] <=> r \in held[c]

LEMMA CircuitKept ==
    ASSUME ends \in Endpoints, NEW r \in Requests, Circuit(r), Keeps(r),
           ends' = ends, outages' = outages
    PROVE  Circuit(r)'
<1>1. From(r)' = From(r) /\ To(r)' = To(r) /\ Serving(r)' = Serving(r) /\ Running(r)' = Running(r)
  BY DEF Keeps, From, To, Serving, Running
<1>2. InStep(r)'
  BY <1>1 DEF Circuit, InStep, Keeps
<1>4. FromKme(r)'
  BY <1>1 DEF Circuit, FromKme, Keeps
<1>5. \A c \in Kmes : Sent(r, c)' <=> Sent(r, c)
  BY DEF Sent, Keeps
<1>6. Reaching(r)'
  <2>1. From(r) \in Kmes /\ handler[r].call = "dec" => To(r) \in Kmes
    BY DEF Circuit, FromKme
  <2> QED  BY <1>1, <1>5, <2>1 DEF Circuit, Reaching, Keeps
<1>7. Removing(r)'
  BY <1>1 DEF Circuit, Removing, Keeps
<1> QED  BY <1>2, <1>4, <1>6, <1>7 DEF Circuit

\* The locks stay as they are while nobody begins or ends a broadcast.
LEMMA LockedKept ==
    ASSUME Locked, lock' = lock, ends' = ends,
           \A r \in Requests : \/ handler'[r].at = handler[r].at /\ handler'[r].call = handler[r].call
                               \/ handler[r].at # "post" /\ handler'[r].at # "post"
    PROVE  Locked'
<1> SUFFICES ASSUME NEW c \in Kmes, NEW r \in Requests
             PROVE  lock[c] = r <=> handler'[r].at = "post" /\ Serving(r)' = c
  BY DEF Locked
<1>1. lock[c] = r <=> handler[r].at = "post" /\ Serving(r) = c
  BY DEF Locked
<1> QED  BY <1>1 DEF Serving, From, To

LEMMA LateKept ==
    ASSUME LateWasMissed, late' \subseteq late, ends' = ends, missed' = missed,
           late \subseteq Posts,
           \A r \in Requests : handler'[r] = handler[r]
    PROVE  LateWasMissed'
BY DEF LateWasMissed, From, Posts

LEMMA ThreadGoesOn ==
    ASSUME NEW t \in Threads, NEW list
    PROVE  [t EXCEPT !.todo = list] = [todo |-> list, found |-> t.found]
<1>1. PICK l \in Seq(Kmes), f \in SUBSET Kmes : t = [todo |-> l, found |-> f]
  BY DEF Threads
<1> QED  BY <1>1

-----------------------------------------------------------------------------
(* The scanner's steps, and a KME that starts.                               *)

LEMMA ScanFetch ==
    ASSUME MeshInv, NEW c \in Kmes, Fetch(c)
    PROVE  MeshInv'
<1> USE DEF MeshInv
<1>1. scan[c] \in Threads /\ scan \in [Kmes -> Threads]
  BY DEF Recorded
<1>2. /\ Head(scan[c].todo) \in Kmes
      /\ Tail(scan[c].todo) \in Seq(Kmes)
      /\ Len(Tail(scan[c].todo)) <= Len(scan[c].todo)
      /\ Len(scan[c].todo) \in Nat
  BY <1>1, OnList DEF Threads, Fetch
<1>3. PICK f \in SUBSET Kmes :
        scan' = [scan EXCEPT ![c] = [todo |-> Tail(scan[c].todo), found |-> f]]
  <2>1. CASE scan' = [scan EXCEPT ![c].todo = Tail(@)]
    <3>1. scan[c].found \in SUBSET Kmes
      BY <1>1 DEF Threads
    <3>2. [scan[c] EXCEPT !.todo = Tail(@)] = [todo |-> Tail(scan[c].todo), found |-> scan[c].found]
      BY <1>1, ThreadGoesOn
    <3> QED  BY <2>1, <3>1, <3>2
  <2>2. CASE scan' = [scan EXCEPT ![c] = [todo |-> Tail(@.todo),
                                          found |-> @.found \cup {Head(scan[c].todo)}]]
    <3>1. scan[c].found \cup {Head(scan[c].todo)} \in SUBSET Kmes
      BY <1>1, <1>2 DEF Threads
    <3> QED  BY <2>2, <3>1
  <2> QED  BY <2>1, <2>2 DEF Fetch
<1>4. Recorded'
  <2>1. [todo |-> Tail(scan[c].todo), found |-> f] \in Threads
    BY <1>2 DEF Threads
  <2>2. scan' \in [Kmes -> Threads]
    BY <1>1, <1>3, <2>1
  <2> QED  BY <2>2 DEF Recorded, Fetch
<1>5. Rounds'
  <2>1. \A k \in Kmes : Len(scan[k].todo) <= Len(Others[k]) /\ Len(Others[k]) \in Nat
    BY TypeParts, OthersOf DEF Rounds
  <2>2. \A k \in Kmes : scan'[k] = IF k = c THEN [todo |-> Tail(scan[c].todo), found |-> f]
                                   ELSE scan[k]
    BY <1>1, <1>3
  <2>3. Len(scan'[c].todo) <= Len(Others[c])
    <3>1. Len(Tail(scan[c].todo)) \in Nat
      BY <1>2
    <3> QED  BY <1>2, <2>1, <2>2, <3>1
  <2> QED  BY <2>1, <2>2, <2>3 DEF Rounds
<1>6. Typed' /\ Locked'
  <2>1. Typed'
    BY TypeParts DEF Typed, Fetch
  <2> QED  BY <2>1, TypeParts, LockedKept DEF Fetch
<1>7. TypeOK'
  BY <1>4, <1>5, <1>6, PartsTypeNext
<1>8. LateWasMissed' /\ \A r \in Requests : Circuit(r)'
  <2>1. \A r \in Requests : Keeps(r)
    BY DEF Keeps, Fetch
  <2> QED  BY <2>1, CircuitKept, LateKept, TypeParts DEF Fetch, Typed
<1> QED  BY <1>4, <1>7, <1>8

LEMMA ListSwap ==
    ASSUME MeshInv, NEW c \in Kmes, Swap(c)
    PROVE  MeshInv'
<1> USE DEF MeshInv
<1>1. scan \in [Kmes -> Threads] /\ scan[c].found \in SUBSET Kmes
  BY DEF Recorded, Threads
<1>2. Scanning(c) \in Threads
  BY OthersOf DEF Scanning, Threads
<1>3. Recorded'
  BY <1>1, <1>2 DEF Recorded, Swap
<1>4. Rounds'
  <2>1. \A k \in Kmes : Len(scan[k].todo) <= Len(Others[k]) /\ Len(Others[k]) \in Nat
    BY TypeParts, OthersOf DEF Rounds
  <2>2. \A k \in Kmes : scan'[k] = IF k = c THEN Scanning(c) ELSE scan[k]
    BY <1>1 DEF Swap
  <2> QED  BY <2>1, <2>2 DEF Rounds, Scanning
<1>5. Typed'
  BY <1>1, TypeParts DEF Typed, Swap, Fetched
<1>6. Locked'
  BY TypeParts, LockedKept DEF Swap
<1>7. TypeOK'
  BY <1>3, <1>4, <1>5, <1>6, PartsTypeNext
<1>8. LateWasMissed' /\ \A r \in Requests : Circuit(r)'
  <2>1. \A r \in Requests : Keeps(r)
    BY DEF Keeps, Swap
  <2> QED  BY <2>1, CircuitKept, LateKept, TypeParts DEF Swap, Typed
<1> QED  BY <1>3, <1>7, <1>8

LEMMA KmsStart ==
    ASSUME MeshInv, NEW c \in Failing, Start(c)
    PROVE  MeshInv'
<1> USE DEF MeshInv
<1>1. Recorded' /\ Rounds'
  BY TypeParts DEF Recorded, Rounds, Start
<1>2. Typed'
  BY MeshAssumption, TypeParts DEF Typed, Start
<1>3. Locked'
  BY TypeParts, LockedKept DEF Start
<1>4. TypeOK'
  BY <1>1, <1>2, <1>3, PartsTypeNext
<1>5. LateWasMissed' /\ \A r \in Requests : Circuit(r)'
  <2>1. \A r \in Requests : Keeps(r)
    BY DEF Keeps, Start
  <2> QED  BY <2>1, CircuitKept, LateKept, TypeParts DEF Start, Typed
<1> QED  BY <1>1, <1>4, <1>5

LEMMA KmsStop ==
    ASSUME MeshInv, NEW c \in Failing, Stop(c)
    PROVE  MeshInv'
<1> USE DEF MeshInv
<1>1. \A r \in Requests :
        /\ handler[r] \in Handlers
        /\ \/ handler'[r] = handler[r] /\ ~(Running(r) /\ Serving(r) = c)
           \/ /\ Running(r) /\ Serving(r) = c
              /\ handler'[r] \in Handlers
              /\ handler'[r].at = "gone" /\ handler'[r].call = handler[r].call
  <2> SUFFICES ASSUME NEW r \in Requests
               PROVE  /\ handler[r] \in Handlers
                      /\ \/ handler'[r] = handler[r] /\ ~(Running(r) /\ Serving(r) = c)
                         \/ /\ Running(r) /\ Serving(r) = c
                            /\ handler'[r] \in Handlers
                            /\ handler'[r].at = "gone" /\ handler'[r].call = handler[r].call
    OBVIOUS
  <2>1. handler[r] \in Handlers /\ handler[r].call \in {"none", "enc", "dec"}
    BY HandlerIs DEF Recorded
  <2>2. [call |-> handler[r].call, at |-> "gone", todo |-> << >>, key |-> NoKey] \in Handlers
    BY <2>1 DEF Handlers, Keys
  <2> QED  BY <2>1, <2>2 DEF Stop
<1>2. \A r \in Requests : Serving(r)' = Serving(r) /\ From(r)' = From(r) /\ To(r)' = To(r)
  BY <1>1 DEF Serving, From, To, Stop
<1>3. \A k \in Kmes : Scanning(k) \in Threads
  BY OthersOf DEF Scanning, Threads
<1>4. Recorded'
  <2>1. handler' \in [Requests -> Handlers]
    BY <1>1 DEF Stop
  <2>2. scan' \in [Kmes -> Threads]
    BY <1>3 DEF Stop, Recorded
  <2> QED  BY <2>1, <2>2 DEF Recorded
<1>5. Rounds'
  <2>1. \A k \in Kmes : Len(scan[k].todo) <= Len(Others[k]) /\ Len(Others[k]) \in Nat
    BY TypeParts, OthersOf DEF Rounds
  <2>2. \A k \in Kmes : scan'[k].todo = IF k = c THEN Others[k] ELSE scan[k].todo
    BY DEF Stop, Scanning
  <2>3. \A k \in Kmes : Len(scan'[k].todo) <= Len(Others[k])
    BY <2>1, <2>2
  <2> QED  BY <2>3 DEF Rounds
<1>6. Typed'
  <2>1. outages' \in 0 .. MaxOutages /\ up' \subseteq Cities
    <3>1. outages \in 0 .. MaxOutages /\ outages < MaxOutages /\ outages' = outages + 1
      BY TypeParts DEF Typed, Stop
    <3>2. up \subseteq Cities /\ up' = up \ {c}
      BY TypeParts DEF Typed, Stop
    <3> QED  BY <3>1, <3>2, MeshAssumption
  <2>2. lock' \in [Kmes -> Requests \cup {Free}] /\ peers' \in [Kmes -> SUBSET Kmes]
    BY TypeParts DEF Typed, Stop
  <2>3. held' \in [Kmes -> SUBSET Requests] /\ late' \subseteq Posts
    BY TypeParts DEF Typed, Stop
  <2> QED  BY <2>1, <2>2, <2>3, TypeParts DEF Typed, Stop
<1>7. Locked'
  <2> SUFFICES ASSUME NEW k \in Kmes, NEW r \in Requests
               PROVE  lock'[k] = r <=> handler'[r].at = "post" /\ Serving(r)' = k
    BY DEF Locked
  <2>1. lock[k] = r <=> handler[r].at = "post" /\ Serving(r) = k
    BY TypeParts DEF Locked
  <2>2. lock'[k] = IF k = c THEN Free ELSE lock[k]
    BY DEF Stop
  <2>3. Free # r
    BY MeshAssumption
  <2> QED  BY <1>1, <1>2, <2>1, <2>2, <2>3 DEF Running
<1>8. TypeOK'
  BY <1>4, <1>5, <1>6, <1>7, PartsTypeNext
<1>9. LateWasMissed'
  <2>1. late' \subseteq late /\ missed' = missed
    BY DEF Stop
  <2>2. \A m \in late : m[1] \in Requests
    BY TypeParts DEF Typed, Posts
  <2> QED  BY <1>1, <1>2, <2>1, <2>2 DEF LateWasMissed, Running
<1>10. ASSUME NEW r \in Requests PROVE Circuit(r)'
  <2>1. /\ kom' = kom /\ verified' = verified /\ got' = got /\ missed' = missed
        /\ \A k \in Kmes : r \in held'[k] => r \in held[k]
    BY DEF Stop
  <2>4. outages' # 0
    <3>1. outages \in 0 .. MaxOutages /\ outages' = outages + 1
      BY TypeParts DEF Typed, Stop
    <3> QED  BY <3>1, MeshAssumption
  <2>2. CASE handler'[r] = handler[r]
    <3>1. InStep(r)'
      BY <1>2, <2>1, <2>2 DEF Circuit, InStep, Running, Fresh
    <3>2. FromKme(r)' /\ Reaching(r)'
      BY <1>2, <2>1, <2>2, <2>4 DEF Circuit, FromKme, Reaching
    <3>3. Removing(r)'
      BY <1>2, <2>1, <2>2 DEF Circuit, Removing
    <3> QED  BY <3>1, <3>2, <3>3 DEF Circuit
  <2>3. CASE handler'[r].at = "gone" /\ handler'[r].call = handler[r].call /\ Running(r)
    <3>1. handler[r].call # "none"
      BY <2>3 DEF Circuit, InStep, Running
    <3>2. InStep(r)'
      BY <1>2, <2>1, <2>3, <3>1 DEF Circuit, InStep, Running, Fresh
    <3>3. FromKme(r)' /\ Reaching(r)'
      BY <1>2, <2>1, <2>3, <2>4 DEF Circuit, FromKme, Reaching
    <3>4. Removing(r)'
      BY <2>3 DEF Removing
    <3> QED  BY <3>2, <3>3, <3>4 DEF Circuit
  <2> QED  BY <1>1, <2>2, <2>3
<1> QED  BY <1>4, <1>8, <1>9, <1>10

-----------------------------------------------------------------------------
(* What the steps of a handler have in common.                               *)

LEMMA HandlerIsSet ==
    ASSUME Recorded, NEW r \in Requests, NEW h \in Handlers,
           handler' = [handler EXCEPT ![r] = h], scan' = scan
    PROVE  /\ Recorded'
           /\ handler'[r] = h
           /\ \A q \in Requests \ {r} : handler'[q] = handler[q]
BY DEF Recorded

LEMMA HandlerGoesOn ==
    ASSUME NEW h \in Handlers
    PROVE  /\ \A a : [h EXCEPT !.at = a]
                        = [call |-> h.call, at |-> a, todo |-> h.todo, key |-> h.key]
           /\ \A l : [h EXCEPT !.todo = l]
                        = [call |-> h.call, at |-> h.at, todo |-> l, key |-> h.key]
<1>1. PICK cl \in {"none", "enc", "dec"},
           a \in {"idle", "lock", "post", "ok", "refused", "gone"},
           l \in Seq(Kmes), k \in Keys : h = [call |-> cl, at |-> a, todo |-> l, key |-> k]
  BY DEF Handlers
<1> QED  BY <1>1

LEMMA LateStays ==
    ASSUME LateWasMissed, late \subseteq Posts, ends' = ends, late' \subseteq late,
           \A q \in Requests :
               /\ missed[q] \subseteq missed'[q]
               /\ \/ handler'[q] = handler[q]
                  \/ handler[q].call # "dec"
                  \/ handler'[q].call = "dec" /\ handler'[q].at # "lock"
    PROVE  LateWasMissed'
<1> SUFFICES ASSUME NEW m \in late
             PROVE  /\ From(m[1])' \in Kmes
                    /\ m[3] \in missed'[m[1]]
                    /\ m[2] = "dec" => handler'[m[1]].call = "dec" /\ handler'[m[1]].at # "lock"
  BY DEF LateWasMissed
<1>1. m[1] \in Requests
  BY DEF Posts
<1>2. /\ From(m[1]) \in Kmes
      /\ m[3] \in missed[m[1]]
      /\ m[2] = "dec" => handler[m[1]].call = "dec" /\ handler[m[1]].at # "lock"
  BY DEF LateWasMissed
<1> QED  BY <1>1, <1>2 DEF From

LEMMA OneCircuitMoves ==
    ASSUME MeshInv, NEW r \in Requests, ends' = ends, outages' = outages,
           \A q \in Requests \ {r} : Keeps(q),
           Typed', Locked', Rounds', Recorded', LateWasMissed', Circuit(r)'
    PROVE  MeshInv'
<1>1. TypeOK'
  BY PartsTypeNext
<1>2. \A q \in Requests \ {r} : Circuit(q)'
  BY CircuitKept, TypeParts DEF MeshInv, Typed
<1> QED  BY <1>1, <1>2 DEF MeshInv

\* The handler of a call that has just reached a city.
LEMMA CallIsTaken ==
    ASSUME Recorded, NEW r \in Requests, NEW call \in {"enc", "dec"}, NEW c \in Cities,
           Called(r, call, c), scan' = scan
    PROVE  /\ Recorded'
           /\ handler'[r].call = call /\ handler'[r].todo = << >>
           /\ handler'[r].at \in {"lock", "ok", "refused", "gone"}
           /\ c \in Kmes => handler'[r].at \in {"lock", "gone"}
           /\ c \notin Kmes => handler'[r].at # "lock"
           /\ call = "dec" => handler'[r].at # "refused"
           /\ \A q \in Requests \ {r} : handler'[q] = handler[q]
<1>1. PICK o \in Outcomes(r, call, c) :
        handler' = [handler EXCEPT ![r] =
                       [call |-> call, at |-> o[1], todo |-> << >>, key |-> o[2]]]
  BY DEF Called
<1>2. /\ o[1] \in {"lock", "ok", "refused", "gone"} /\ o[2] \in Keys
      /\ c \in Kmes => o[1] \in {"lock", "gone"}
      /\ c \notin Kmes => o[1] # "lock"
      /\ call = "dec" => o[1] # "refused"
  BY DEF Outcomes, Kmes, Keys
<1>3. << >> \in Seq(Kmes)
  OBVIOUS
<1>4. [call |-> call, at |-> o[1], todo |-> << >>, key |-> o[2]] \in Handlers
  BY <1>2, <1>3 DEF Handlers
<1>5. /\ Recorded'
      /\ handler'[r] = [call |-> call, at |-> o[1], todo |-> << >>, key |-> o[2]]
      /\ \A q \in Requests \ {r} : handler'[q] = handler[q]
  BY <1>1, <1>4, HandlerIsSet
<1> QED  BY <1>2, <1>5

-----------------------------------------------------------------------------
(* The orchestration's steps.                                                *)

LEMMA KeyIsAskedFor ==
    ASSUME MeshInv, NEW r \in Requests, Orchestrate(r)
    PROVE  MeshInv'
<1> USE DEF MeshInv
<1>1. Typed /\ Locked /\ Rounds /\ Circuit(r)
  BY TypeParts
<1>2. handler[r].call = "none" /\ handler[r].at = "idle"
  BY <1>1 DEF Orchestrate, Circuit, InStep
<1>3. From(r) \in Cities
  BY <1>1, EndsAreCities DEF Typed
<1>4. /\ Recorded'
      /\ handler'[r].call = "enc" /\ handler'[r].todo = << >>
      /\ handler'[r].at \in {"lock", "ok", "refused", "gone"}
      /\ From(r) \in Kmes => handler'[r].at \in {"lock", "gone"}
      /\ From(r) \notin Kmes => handler'[r].at # "lock"
      /\ \A q \in Requests \ {r} : handler'[q] = handler[q]
  BY <1>3, CallIsTaken DEF Orchestrate
<1>5. /\ kom'[r] = "enc" /\ \A q \in Requests \ {r} : kom'[q] = kom[q]
      /\ kom' \in [Requests -> {"idle", "enc", "dec", "KEYED", "REJECTED"}]
  BY <1>1 DEF Typed, Orchestrate
<1>6. Typed'
  BY <1>1, <1>5 DEF Typed, Orchestrate
<1>7. Rounds'
  BY <1>1 DEF Rounds, Orchestrate
<1>8. Locked'
  BY <1>1, <1>2, <1>4, LockedKept DEF Orchestrate
<1>9. LateWasMissed'
  BY <1>1, <1>2, <1>4, LateStays DEF Typed, Orchestrate
<1>10. \A q \in Requests \ {r} : Keeps(q)
  BY <1>4, <1>5 DEF Keeps, Orchestrate
<1>11. Circuit(r)'
  <2>1. From(r)' = From(r) /\ To(r)' = To(r)
    BY DEF From, To, Orchestrate
  <2>2. InStep(r)'
    BY <1>4, <1>5, <2>1 DEF InStep, Running, Serving
  <2>4. FromKme(r)' /\ Reaching(r)'
    BY <1>1, <1>4, <2>1 DEF Circuit, FromKme, Reaching, Orchestrate
  <2>5. Removing(r)'
    BY <1>4 DEF Removing
  <2> QED  BY <2>2, <2>4, <2>5 DEF Circuit
<1> QED  BY <1>4, <1>6, <1>7, <1>8, <1>9, <1>10, <1>11, OneCircuitMoves DEF Orchestrate

LEMMA KeyIsAskedAgain ==
    ASSUME MeshInv, NEW r \in Requests, EncKeys(r)
    PROVE  MeshInv'
<1> USE DEF MeshInv
<1>1. Typed /\ Locked /\ Rounds /\ Circuit(r)
  BY TypeParts
<1>2. handler[r].call = "enc" /\ handler[r].at = "ok" /\ handler[r].todo = << >>
  BY <1>1 DEF EncKeys, Circuit, InStep
<1>3. To(r) \in Cities
  BY <1>1, EndsAreCities DEF Typed
<1>4. /\ Recorded'
      /\ handler'[r].call = "dec" /\ handler'[r].todo = << >>
      /\ handler'[r].at \in {"lock", "ok", "gone"}
      /\ To(r) \in Kmes => handler'[r].at \in {"lock", "gone"}
      /\ To(r) \notin Kmes => handler'[r].at # "lock"
      /\ \A q \in Requests \ {r} : handler'[q] = handler[q]
  BY <1>3, CallIsTaken DEF EncKeys
<1>5. /\ kom'[r] = "dec" /\ \A q \in Requests \ {r} : kom'[q] = kom[q]
      /\ kom' \in [Requests -> {"idle", "enc", "dec", "KEYED", "REJECTED"}]
  BY <1>1 DEF Typed, EncKeys
<1>6. Typed'
  BY <1>1, <1>5 DEF Typed, EncKeys
<1>7. Rounds'
  BY <1>1 DEF Rounds, EncKeys
<1>8. Locked'
  BY <1>1, <1>2, <1>4, LockedKept DEF EncKeys
<1>9. LateWasMissed'
  BY <1>1, <1>2, <1>4, LateStays DEF Typed, EncKeys
<1>10. \A q \in Requests \ {r} : Keeps(q)
  BY <1>4, <1>5 DEF Keeps, EncKeys
<1>11. Circuit(r)'
  <2>1. From(r)' = From(r) /\ To(r)' = To(r)
    BY DEF From, To, EncKeys
  <2>2. InStep(r)'
    BY <1>4, <1>5, <2>1 DEF InStep, Running, Serving
  <2>4. From(r) \in Kmes => To(r) \in Kmes
    BY <1>1, <1>2 DEF Circuit, FromKme
  <2>5. FromKme(r)'
    BY <1>1, <1>4, <2>1, <2>4 DEF Circuit, FromKme, EncKeys
  <2>6. Reaching(r)'
    <3>1. On(handler[r].todo) = {}
      BY <1>2 DEF On
    <3>2. outages = 0 /\ From(r) \in Kmes => \A c \in Kmes : r \in held[c] \/ c \in missed[r]
      BY <1>1, <1>2, <3>1 DEF Circuit, Reaching, Sent
    <3> QED  BY <1>4, <2>1, <2>4, <3>2 DEF Reaching, EncKeys
  <2>7. Removing(r)'
    <3>1. handler'[r].at \in {"post", "ok"} => From(r) \notin Kmes
      BY <1>4, <2>4
    <3>2. \A c \in Kmes : r \in held[c] => From(r) \in Kmes
      BY <1>1 DEF Circuit, FromKme
    <3> QED  BY <3>1, <3>2 DEF Removing, EncKeys
  <2> QED  BY <2>2, <2>5, <2>6, <2>7 DEF Circuit
<1> QED  BY <1>4, <1>6, <1>7, <1>8, <1>9, <1>10, <1>11, OneCircuitMoves DEF EncKeys

LEMMA KeyIsReceivedOrNot ==
    ASSUME MeshInv, NEW r \in Requests, EncFails(r) \/ DecKeys(r) \/ DecFails(r)
    PROVE  MeshInv'
<1> USE DEF MeshInv
<1>1. Typed /\ Locked /\ Rounds /\ Circuit(r)
  BY TypeParts
<1>2. /\ UNCHANGED <<ends, up, outages, lock, peers, scan, held, handler, late, missed>>
      /\ kom'[r] \in {"REJECTED", "KEYED"}
      /\ \A q \in Requests \ {r} : kom'[q] = kom[q] /\ verified'[q] = verified[q] /\ got'[q] = got[q]
      /\ kom' \in [Requests -> {"idle", "enc", "dec", "KEYED", "REJECTED"}]
  BY <1>1 DEF Typed, EncFails, DecKeys, DecFails
<1>3. \/ verified' = verified /\ got' = got
      \/ /\ handler[r].call = "dec" /\ handler[r].at = "ok"
         /\ verified' = [verified EXCEPT ![r] = TRUE]
         /\ got' = [got EXCEPT ![r] = handler[r].key]
  BY <1>1 DEF EncFails, DecKeys, DecFails, Circuit, InStep
<1>4. Typed'
  BY <1>1, <1>2, <1>3, HandlerIs DEF Typed
<1>5. Rounds' /\ Recorded'
  BY <1>1, <1>2 DEF Rounds, Recorded
<1>6. Locked' /\ LateWasMissed'
  BY <1>1, <1>2, LockedKept, LateKept DEF Typed
<1>7. \A q \in Requests \ {r} : Keeps(q)
  BY <1>2 DEF Keeps
<1>8. Circuit(r)'
  <2>1. From(r)' = From(r) /\ To(r)' = To(r) /\ Serving(r)' = Serving(r) /\ Running(r)' = Running(r)
    BY <1>2 DEF From, To, Serving, Running
  <2>2. InStep(r)'
    BY <1>1, <1>2, <2>1 DEF Circuit, InStep
  <2>4. FromKme(r)' /\ Removing(r)'
    BY <1>1, <1>2, <2>1 DEF Circuit, FromKme, Removing
  <2>5. Reaching(r)'
    BY <1>1, <1>2, <2>1 DEF Circuit, Reaching, Sent
  <2> QED  BY <2>2, <2>4, <2>5 DEF Circuit
<1> QED  BY <1>2, <1>4, <1>5, <1>6, <1>7, <1>8, OneCircuitMoves

-----------------------------------------------------------------------------
(* The handler's steps.                                                      *)

LEMMA HandlerRefuses ==
    ASSUME MeshInv, NEW r \in Requests, Acquire(r), ~Possible(r, Serving(r))
    PROVE  MeshInv'
<1> USE DEF MeshInv
<1>1. Typed /\ Locked /\ Rounds /\ Circuit(r)
  BY TypeParts
<1>2. /\ handler[r].at = "lock" /\ handler' = [handler EXCEPT ![r].at = "refused"]
      /\ UNCHANGED <<ends, up, outages, lock, held, peers, scan, late, kom, verified, got, missed>>
  BY DEF Acquire
<1>3. /\ Recorded'
      /\ handler'[r].call = handler[r].call /\ handler'[r].at = "refused"
      /\ \A q \in Requests \ {r} : handler'[q] = handler[q]
  <2> DEFINE h == [call |-> handler[r].call, at |-> "refused",
                   todo |-> handler[r].todo, key |-> handler[r].key]
  <2>1. handler[r] \in Handlers
    BY DEF Recorded
  <2>2. handler' = [handler EXCEPT ![r] = h]
    BY <1>2, <2>1, HandlerGoesOn
  <2>3. h \in Handlers
    BY HandlerIs DEF Handlers
  <2> HIDE DEF h
  <2>4. Recorded' /\ handler'[r] = h /\ \A q \in Requests \ {r} : handler'[q] = handler[q]
    BY <1>2, <2>2, <2>3, HandlerIsSet
  <2> QED  BY <2>4 DEF h
<1>4. Typed' /\ Rounds'
  BY <1>1, <1>2 DEF Typed, Rounds
<1>5. Locked'
  BY <1>1, <1>2, <1>3, LockedKept
<1>6. LateWasMissed'
  BY <1>1, <1>2, <1>3, LateStays DEF Typed
<1>7. \A q \in Requests \ {r} : Keeps(q)
  BY <1>2, <1>3 DEF Keeps
<1>8. Circuit(r)'
  <2>1. From(r)' = From(r) /\ To(r)' = To(r) /\ Serving(r)' = Serving(r)
    BY <1>2, <1>3 DEF From, To, Serving
  <2>2. handler[r].call \in {"enc", "dec"}
    BY <1>1, <1>2, HandlerIs DEF Circuit, InStep
  <2>3. InStep(r)' /\ Removing(r)'
    BY <1>1, <1>2, <1>3, <2>1, <2>2 DEF Circuit, InStep, Removing, Running, Fresh
  <2>4. FromKme(r)'
    BY <1>1, <1>2, <1>3, <2>1 DEF Circuit, FromKme
  <2>5. Reaching(r)'
    <3>1. handler[r].call = "dec" => r \notin held[To(r)]
      BY DEF Acquire, Possible, Serving
    <3> QED  BY <1>1, <1>2, <1>3, <2>1, <3>1 DEF Circuit, Reaching
  <2> QED  BY <2>3, <2>4, <2>5 DEF Circuit
<1> QED  BY <1>2, <1>3, <1>4, <1>5, <1>6, <1>7, <1>8, OneCircuitMoves

LEMMA HandlerTakesLock ==
    ASSUME MeshInv, NEW r \in Requests, Acquire(r), Possible(r, Serving(r))
    PROVE  MeshInv'
<1> USE DEF MeshInv
<1> DEFINE c == Serving(r)
           call == handler[r].call
           list == Others[Serving(r)]
           h == [call |-> call, at |-> "post", todo |-> list, key |-> Fresh(r)]
<1>1. Typed /\ Locked /\ Rounds /\ Circuit(r)
  BY TypeParts
<1>2. /\ handler[r].at = "lock" /\ lock[c] = Free
      /\ lock' = [lock EXCEPT ![c] = r]
      /\ held' = [held EXCEPT ![c] = IF call = "enc" THEN @ \cup {r} ELSE @ \ {r}]
      /\ handler' = [handler EXCEPT ![r] = h]
      /\ UNCHANGED <<ends, up, outages, peers, scan, late, kom, verified, got, missed>>
  BY DEF Acquire, Broadcast
<1>3. c \in Kmes /\ call \in {"enc", "dec"}
  BY <1>1, <1>2, HandlerIs DEF Circuit, InStep, Running
<1>4. list \in Seq(Kmes) /\ On(list) = Kmes \ {c}
  BY <1>3, OthersOf
<1>5. /\ Recorded' /\ handler'[r] = h
      /\ \A q \in Requests \ {r} : handler'[q] = handler[q]
  <2>1. h \in Handlers
    BY <1>3, <1>4 DEF Handlers, Keys
  <2> QED  BY <1>2, <2>1, HandlerIsSet
<1>6. h.call = call /\ h.at = "post" /\ h.todo = list /\ h.key = Fresh(r)
  OBVIOUS
<1> HIDE DEF h
<1>7. /\ lock' \in [Kmes -> Requests \cup {Free}] /\ held' \in [Kmes -> SUBSET Requests]
      /\ \A k \in Kmes : lock'[k] = IF k = c THEN r ELSE lock[k]
      /\ \A k \in Kmes, q \in Requests \ {r} : q \in held'[k] <=> q \in held[k]
      /\ \A k \in Kmes : r \in held'[k] <=> IF k = c THEN call = "enc" ELSE r \in held[k]
  BY <1>1, <1>2, <1>3 DEF Typed
<1>8. Typed' /\ Rounds'
  BY <1>1, <1>2, <1>7 DEF Typed, Rounds
<1>9. From(r)' = From(r) /\ To(r)' = To(r) /\ Serving(r)' = c
  BY <1>2, <1>5, <1>6 DEF From, To, Serving
<1>10. Locked'
  <2> SUFFICES ASSUME NEW k \in Kmes, NEW q \in Requests
               PROVE  lock'[k] = q <=> handler'[q].at = "post" /\ Serving(q)' = k
    BY DEF Locked
  <2>1. /\ lock[k] = q <=> handler[q].at = "post" /\ Serving(q) = k
        /\ lock[c] = q <=> handler[q].at = "post" /\ Serving(q) = c
        /\ lock[k] = r <=> handler[r].at = "post" /\ Serving(r) = k
    BY <1>1, <1>3 DEF Locked
  <2>2. CASE q = r
    BY <1>2, <1>5, <1>6, <1>7, <1>9, <2>1, <2>2
  <2>3. CASE q # r
    <3>1. handler'[q] = handler[q] /\ Serving(q)' = Serving(q)
      BY <1>2, <1>5, <2>3 DEF Serving, From, To
    <3> QED  BY <1>2, <1>7, <2>1, <2>3, <3>1, MeshAssumption
  <2> QED  BY <2>2, <2>3
<1>11. LateWasMissed'
  BY <1>1, <1>2, <1>3, <1>5, <1>6, LateStays DEF Typed
<1>12. \A q \in Requests \ {r} : Keeps(q)
  BY <1>2, <1>5, <1>7 DEF Keeps
<1>13. From(r) \in Kmes /\ To(r) \in Kmes
  <2>1. CASE call = "enc"
    <3>1. c = From(r) /\ (To(r) = From(r) \/ To(r) \in peers[From(r)])
      BY <2>1 DEF Possible, Finds, Serving
    <3> QED  BY <1>1, <1>3, <3>1 DEF Typed
  <2>2. CASE call = "dec"
    <3>1. c = To(r) /\ r \in held[c]
      BY <2>2 DEF Possible, Serving
    <3> QED  BY <1>1, <1>3, <3>1 DEF Circuit, FromKme
  <2> QED  BY <1>3, <2>1, <2>2
<1>14. Circuit(r)'
  <2>1. InStep(r)'
    BY <1>1, <1>2, <1>3, <1>5, <1>6, <1>9 DEF Circuit, InStep, Running, Fresh
  <2>2. FromKme(r)'
    BY <1>9, <1>13 DEF FromKme
  <2>3. Reaching(r)'
    <3>1. ASSUME call = "enc", NEW k \in Kmes PROVE Sent(r, k)'
      BY <1>4, <1>5, <1>6, <1>7, <3>1 DEF Sent
    <3> QED  BY <1>5, <1>6, <3>1 DEF Reaching
  <2>4. Removing(r)'
    <3>1. ASSUME call = "dec", NEW k \in Kmes, r \in held'[k] PROVE k \in On(list)
      BY <1>4, <1>7, <3>1
    <3> QED  BY <1>5, <1>6, <3>1 DEF Removing
  <2> QED  BY <2>1, <2>2, <2>3, <2>4 DEF Circuit
<1> QED  BY <1>2, <1>5, <1>8, <1>10, <1>11, <1>12, <1>14, OneCircuitMoves

LEMMA HandlerAnswers ==
    ASSUME MeshInv, NEW r \in Requests, Answer(r)
    PROVE  MeshInv'
<1> USE DEF MeshInv
<1>1. Typed /\ Locked /\ Rounds /\ Circuit(r)
  BY TypeParts
<1>2. /\ handler[r].at = "post" /\ handler[r].todo = << >>
      /\ handler' = [handler EXCEPT ![r].at = "ok"]
      /\ lock' = [lock EXCEPT ![Serving(r)] = Free]
      /\ UNCHANGED <<ends, up, outages, peers, scan, held, late, kom, verified, got, missed>>
  BY DEF Answer
<1>3. /\ Recorded'
      /\ handler'[r].call = handler[r].call /\ handler'[r].at = "ok"
      /\ handler'[r].todo = handler[r].todo /\ handler'[r].key = handler[r].key
      /\ \A q \in Requests \ {r} : handler'[q] = handler[q]
  <2> DEFINE h == [call |-> handler[r].call, at |-> "ok",
                   todo |-> handler[r].todo, key |-> handler[r].key]
  <2>1. handler[r] \in Handlers
    BY DEF Recorded
  <2>2. handler' = [handler EXCEPT ![r] = h]
    BY <1>2, <2>1, HandlerGoesOn
  <2>3. h \in Handlers
    BY HandlerIs DEF Handlers
  <2> HIDE DEF h
  <2>4. Recorded' /\ handler'[r] = h /\ \A q \in Requests \ {r} : handler'[q] = handler[q]
    BY <1>2, <2>2, <2>3, HandlerIsSet
  <2> QED  BY <2>4 DEF h
<1>4. Serving(r) \in Kmes
  BY <1>1, <1>2 DEF Circuit, InStep, Running
<1>5. Typed' /\ Rounds'
  BY <1>1, <1>2 DEF Typed, Rounds
<1>6. Locked'
  <2> SUFFICES ASSUME NEW k \in Kmes, NEW q \in Requests
               PROVE  lock'[k] = q <=> handler'[q].at = "post" /\ Serving(q)' = k
    BY DEF Locked
  <2>1. lock'[k] = IF k = Serving(r) THEN Free ELSE lock[k]
    BY <1>1, <1>2 DEF Typed
  <2>2. /\ lock[k] = q <=> handler[q].at = "post" /\ Serving(q) = k
        /\ lock[Serving(r)] = q <=> handler[q].at = "post" /\ Serving(q) = Serving(r)
        /\ lock[Serving(r)] = r
    BY <1>1, <1>2, <1>4 DEF Locked
  <2>3. Serving(q)' = Serving(q)
    BY <1>2, <1>3 DEF Serving, From, To
  <2> QED  BY <1>2, <1>3, <2>1, <2>2, <2>3, MeshAssumption
<1>7. LateWasMissed'
  BY <1>1, <1>2, <1>3, LateStays DEF Typed
<1>8. \A q \in Requests \ {r} : Keeps(q)
  BY <1>2, <1>3 DEF Keeps
<1>9. Circuit(r)'
  <2>1. From(r)' = From(r) /\ To(r)' = To(r) /\ Serving(r)' = Serving(r)
    BY <1>2, <1>3 DEF From, To, Serving
  <2>2. InStep(r)'
    BY <1>1, <1>2, <1>3, <2>1 DEF Circuit, InStep, Running, Fresh
  <2>3. FromKme(r)' /\ Removing(r)'
    BY <1>1, <1>2, <1>3, <2>1 DEF Circuit, FromKme, Removing
  <2>4. Reaching(r)'
    BY <1>1, <1>2, <1>3, <2>1 DEF Circuit, Reaching, Sent
  <2> QED  BY <2>2, <2>3, <2>4 DEF Circuit
<1> QED  BY <1>2, <1>3, <1>5, <1>6, <1>7, <1>8, <1>9, OneCircuitMoves

\* A post takes the next KME off the list, and has reached or missed it.
LEMMA HandlerPosts ==
    ASSUME MeshInv, NEW r \in Requests, Posted(r) \/ PostFails(r)
    PROVE  MeshInv'
<1> USE DEF MeshInv
<1> DEFINE p == Head(handler[r].todo)
           call == handler[r].call
<1>1. Typed /\ Locked /\ Rounds /\ Circuit(r) /\ LateWasMissed
  BY TypeParts
<1>2. /\ handler[r].at = "post" /\ handler[r].todo # << >>
      /\ handler' = [handler EXCEPT ![r].todo = Tail(@)]
      /\ UNCHANGED <<ends, up, outages, lock, peers, scan, kom, verified, got>>
  BY DEF Posted, PostFails, Posting, Remaining
<1>3. /\ p \in Kmes /\ Tail(handler[r].todo) \in Seq(Kmes)
      /\ On(handler[r].todo) = {p} \cup On(Tail(handler[r].todo))
  BY <1>2, HandlerIs, OnList
<1>4. /\ Recorded'
      /\ handler'[r].call = call /\ handler'[r].at = "post"
      /\ handler'[r].todo = Tail(handler[r].todo) /\ handler'[r].key = handler[r].key
      /\ \A q \in Requests \ {r} : handler'[q] = handler[q]
  <2> DEFINE h == [call |-> handler[r].call, at |-> handler[r].at,
                   todo |-> Tail(handler[r].todo), key |-> handler[r].key]
  <2>1. handler[r] \in Handlers
    BY DEF Recorded
  <2>2. handler' = [handler EXCEPT ![r] = h]
    BY <1>2, <2>1, HandlerGoesOn
  <2>3. h \in Handlers
    BY <1>3, HandlerIs DEF Handlers
  <2> HIDE DEF h
  <2>4. Recorded' /\ handler'[r] = h /\ \A q \in Requests \ {r} : handler'[q] = handler[q]
    BY <1>2, <2>2, <2>3, HandlerIsSet
  <2> QED  BY <1>2, <2>4 DEF h
<1>5. From(r) \in Kmes /\ Serving(r) \in Kmes /\ call \in {"enc", "dec"}
  BY <1>1, <1>2, HandlerIs DEF Circuit, FromKme, InStep, Running
<1> HIDE DEF p
\* What differs between a post that gets through and one that fails.
<1>6. /\ held' \in [Kmes -> SUBSET Requests] /\ missed' \in [Requests -> SUBSET Kmes]
      /\ late' \subseteq late \cup {<<r, call, p>>}
      /\ \A k \in Kmes, q \in Requests \ {r} : q \in held'[k] <=> q \in held[k]
      /\ \A q \in Requests \ {r} : missed'[q] = missed[q]
      /\ missed[r] \subseteq missed'[r]
      /\ <<r, call, p>> \in late' => p \in missed'[r]
      /\ \A k \in Kmes \ {p} : r \in held'[k] <=> r \in held[k]
      /\ p \in missed'[r] \/ (r \in held'[p] <=> call = "enc")
  <2>1. CASE Posted(r)
    <3>1. /\ held' = [held EXCEPT ![p] = IF call = "enc" THEN @ \cup {r} ELSE @ \ {r}]
          /\ late' = late /\ missed' = missed
      BY <2>1 DEF Posted, Deliver, p
    <3>2. <<r, call, p>> \in late => p \in missed[r]
      BY <1>1 DEF LateWasMissed
    <3> QED  BY <1>1, <1>3, <3>1, <3>2 DEF Typed
  <2>2. CASE PostFails(r)
    <3>1. /\ held' = held /\ late' \subseteq late \cup {<<r, call, p>>}
          /\ missed' = [missed EXCEPT ![r] = @ \cup {p}]
      BY <2>2 DEF PostFails, p
    <3> QED  BY <1>1, <1>3, <3>1 DEF Typed
  <2> QED  BY <2>1, <2>2
<1>7. Typed' /\ Rounds'
  <2>1. <<r, call, p>> \in Posts
    BY <1>3, <1>5 DEF Posts
  <2> QED  BY <1>1, <1>2, <1>6, <2>1 DEF Typed, Rounds
<1>8. Locked'
  BY <1>1, <1>2, <1>4, LockedKept
<1>9. LateWasMissed'
  <2> SUFFICES ASSUME NEW m \in late'
               PROVE  /\ From(m[1])' \in Kmes
                      /\ m[3] \in missed'[m[1]]
                      /\ m[2] = "dec" => handler'[m[1]].call = "dec" /\ handler'[m[1]].at # "lock"
    BY DEF LateWasMissed
  <2>1. CASE m = <<r, call, p>>
    BY <1>2, <1>4, <1>5, <1>6, <2>1 DEF From
  <2>2. CASE m \in late
    <3>1. m[1] \in Requests
      BY <1>1, <2>2 DEF Typed, Posts
    <3>2. /\ From(m[1]) \in Kmes
          /\ m[3] \in missed[m[1]]
          /\ m[2] = "dec" => handler[m[1]].call = "dec" /\ handler[m[1]].at # "lock"
      BY <1>1, <2>2 DEF LateWasMissed
    <3> QED  BY <1>2, <1>4, <1>6, <3>1, <3>2 DEF From
  <2> QED  BY <1>6, <2>1, <2>2
<1>10. \A q \in Requests \ {r} : Keeps(q)
  BY <1>2, <1>4, <1>6 DEF Keeps
<1>11. Circuit(r)'
  <2>1. From(r)' = From(r) /\ To(r)' = To(r) /\ Serving(r)' = Serving(r)
    BY <1>2, <1>4 DEF From, To, Serving
  <2>2. InStep(r)'
    BY <1>1, <1>2, <1>4, <1>5, <2>1 DEF Circuit, InStep, Running, Fresh
  <2>3. FromKme(r)'
    BY <1>1, <1>2, <1>4, <1>5, <2>1 DEF Circuit, FromKme
  <2>4. Reaching(r)'
    <3>1. ASSUME outages = 0, call = "enc", NEW k \in Kmes PROVE Sent(r, k)'
      <4>1. Sent(r, k)
        BY <1>1, <1>2, <1>5, <3>1 DEF Circuit, Reaching
      <4> QED  BY <1>3, <1>4, <1>6, <3>1, <4>1 DEF Sent
    <3> QED  BY <1>2, <1>4, <2>1, <3>1 DEF Reaching
  <2>5. Removing(r)'
    <3>1. ASSUME call = "dec", NEW k \in Kmes, r \in held'[k]
          PROVE  k \in missed'[r] \/ k \in On(Tail(handler[r].todo))
      <4>1. r \in held[k] => k \in missed[r] \/ k \in On(handler[r].todo)
        BY <1>1, <1>2, <3>1 DEF Circuit, Removing
      <4> QED  BY <1>3, <1>6, <3>1, <4>1
    <3> QED  BY <1>4, <3>1 DEF Removing
  <2> QED  BY <2>2, <2>3, <2>4, <2>5 DEF Circuit
<1> QED  BY <1>2, <1>4, <1>7, <1>8, <1>9, <1>10, <1>11, OneCircuitMoves

LEMMA LatePostArrives ==
    ASSUME MeshInv, NEW r \in Requests, NEW call \in {"enc", "dec"}, NEW p \in Kmes,
           Arrive(r, call, p)
    PROVE  MeshInv'
<1> USE DEF MeshInv
<1>1. Typed /\ Locked /\ Rounds /\ Circuit(r) /\ LateWasMissed
  BY TypeParts
<1>2. /\ <<r, call, p>> \in late /\ late' \subseteq late
      /\ held' = [held EXCEPT ![p] = IF call = "enc" THEN @ \cup {r} ELSE @ \ {r}]
      /\ UNCHANGED <<ends, up, outages, lock, peers, scan, handler, kom, verified, got, missed>>
  BY DEF Arrive, Deliver
<1>3. /\ From(r) \in Kmes /\ p \in missed[r]
      /\ call = "dec" => handler[r].call = "dec" /\ handler[r].at # "lock"
  BY <1>1, <1>2 DEF LateWasMissed
<1>4. /\ held' \in [Kmes -> SUBSET Requests]
      /\ \A k \in Kmes, q \in Requests \ {r} : q \in held'[k] <=> q \in held[k]
      /\ \A k \in Kmes \ {p} : r \in held'[k] <=> r \in held[k]
  BY <1>1, <1>2 DEF Typed
<1>5. Typed' /\ Rounds' /\ Recorded'
  BY <1>1, <1>2, <1>4 DEF Typed, Rounds, Recorded
<1>6. Locked' /\ LateWasMissed'
  BY <1>1, <1>2, LockedKept, LateKept DEF Typed
<1>7. \A q \in Requests \ {r} : Keeps(q)
  BY <1>2, <1>4 DEF Keeps
<1>8. Circuit(r)'
  <2>1. /\ From(r)' = From(r) /\ To(r)' = To(r) /\ Serving(r)' = Serving(r)
        /\ Running(r)' = Running(r)
    BY <1>2 DEF From, To, Serving, Running
  <2>2. InStep(r)'
    BY <1>1, <1>2, <2>1 DEF Circuit, InStep, Fresh
  <2>3. FromKme(r)'
    BY <1>1, <1>2, <1>3, <2>1 DEF Circuit, FromKme
  <2>4. Reaching(r)'
    <3>1. \A k \in Kmes : Sent(r, k) => Sent(r, k)'
      BY <1>2, <1>3, <1>4 DEF Sent
    <3>2. \A k \in Kmes : r \in held[k] \/ k \in missed[r] => r \in held'[k] \/ k \in missed[r]
      BY <1>3, <1>4
    <3>3. handler[r].call = "dec" => To(r) \in Kmes
      BY <1>1, <1>3 DEF Circuit, FromKme
    <3> QED  BY <1>1, <1>2, <2>1, <3>1, <3>2, <3>3 DEF Circuit, Reaching
  <2>5. Removing(r)'
    BY <1>1, <1>2, <1>3, <1>4 DEF Circuit, Removing
  <2> QED  BY <2>2, <2>3, <2>4, <2>5 DEF Circuit
<1> QED  BY <1>2, <1>5, <1>6, <1>7, <1>8, OneCircuitMoves

-----------------------------------------------------------------------------
(* Every step keeps the invariant.                                           *)

LEMMA MeshNext == MeshInv /\ [Next]_vars => MeshInv'
<1> SUFFICES ASSUME MeshInv, [Next]_vars PROVE MeshInv'
  OBVIOUS
<1>1. CASE UNCHANGED vars
  <2> USE <1>1 DEF vars, MeshInv
  <2>1. Typed /\ Locked /\ Rounds
    BY TypeParts
  <2>2. Typed' /\ Rounds' /\ Recorded'
    BY <2>1 DEF Typed, Rounds, Recorded
  <2>3. Locked' /\ LateWasMissed'
    BY <2>1, LockedKept, LateKept DEF Typed
  <2>4. \A r \in Requests : Circuit(r)'
    <3>1. \A r \in Requests : Keeps(r)
      BY DEF Keeps
    <3> QED  BY <2>1, <3>1, CircuitKept DEF Typed
  <2>5. TypeOK'
    BY <2>2, <2>3, PartsTypeNext
  <2> QED  BY <2>2, <2>3, <2>4, <2>5
<1>2. ASSUME NEW r \in Requests, Orchestrate(r) \/ Acquire(r) \/ Serve(r) \/ Client(r)
      PROVE  MeshInv'
  <2>1. CASE Orchestrate(r)
    BY <2>1, KeyIsAskedFor
  <2>2. CASE Acquire(r)
    BY <2>2, HandlerRefuses, HandlerTakesLock
  <2>3. CASE Serve(r)
    BY <2>3, HandlerPosts, HandlerAnswers DEF Serve
  <2>4. CASE Client(r)
    BY <2>4, KeyIsAskedAgain, KeyIsReceivedOrNot DEF Client
  <2> QED  BY <1>2, <2>1, <2>2, <2>3, <2>4
<1>3. ASSUME NEW m \in Posts, Arrive(m[1], m[2], m[3]) PROVE MeshInv'
  BY <1>3, LatePostArrives DEF Posts
<1>4. ASSUME NEW c \in Watched, Scanner(c) PROVE MeshInv'
  BY <1>4, MeshAssumption, ScanFetch, ListSwap DEF Scanner
<1>5. ASSUME NEW c \in Failing, Stop(c) \/ Start(c) PROVE MeshInv'
  BY <1>5, KmsStop, KmsStart
<1> QED  BY <1>1, <1>2, <1>3, <1>4, <1>5 DEF Next

LEMMA MeshAlways == Spec => []MeshInv
BY MeshInit, MeshNext, PTL DEF Spec

-----------------------------------------------------------------------------
(***************************************************************************)
(* Types; and a KME's lock is held exactly while one of its handlers posts *)
(* (the handlers of enc_keys and dec_keys around Broadcaster.__broadcast). *)
(***************************************************************************)
THEOREM MeshTypeCorrect == Spec => []TypeOK
<1>1. MeshInv => TypeOK
  BY DEF MeshInv
<1> QED  BY <1>1, MeshAlways, PTL

(***************************************************************************)
(* The far end refuses a key only if a post to it failed or a KME stopped: *)
(* that one KME of the list cannot be reached costs no other its key       *)
(* (Broadcaster.__broadcast).                                              *)
(***************************************************************************)
THEOREM BroadcastReachesFarEnd == Spec => []KeyReachesFarEnd
<1>1. MeshInv => KeyReachesFarEnd
  <2> SUFFICES ASSUME MeshInv, NEW r \in Requests,
                      handler[r].call = "dec", handler[r].at = "refused",
                      Backend[From(r)] = "ndks"
               PROVE  To(r) \in missed[r] \/ outages > 0
    BY DEF KeyReachesFarEnd
  <2>1. From(r) \in Kmes /\ outages \in 0 .. MaxOutages
    BY TypeParts, EndsAreCities DEF MeshInv, Typed
  <2>2. outages = 0 => To(r) \in missed[r]
    BY <2>1 DEF MeshInv, Circuit, Reaching
  <2> QED  BY <2>1, <2>2, MeshAssumption
<1> QED  BY <1>1, MeshAlways, PTL

(***************************************************************************)
(* A key that was handed over is left only at KMEs that missed a post      *)
(* about it (Broadcaster.remove_keys): it does not matter when the posts   *)
(* that had timed out arrive.                                              *)
(***************************************************************************)
THEOREM HandedOverKeyIsGone == Spec => []UsedKeyIsGone
<1>1. MeshInv => UsedKeyIsGone
  <2> SUFFICES ASSUME MeshInv, NEW r \in Requests,
                      handler[r].call = "dec", handler[r].at = "ok",
                      NEW c \in Kmes, r \in held[c]
               PROVE  c \in missed[r]
    BY DEF UsedKeyIsGone
  <2>1. handler[r].todo = << >>
    BY DEF MeshInv, Circuit, InStep
  <2>2. On(handler[r].todo) = {}
    BY <2>1 DEF On
  <2> QED  BY <2>2 DEF MeshInv, Circuit, Removing
<1> QED  BY <1>1, MeshAlways, PTL
=============================================================================
