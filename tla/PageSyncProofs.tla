---------------------------- MODULE PageSyncProofs ----------------------------
(***************************************************************************)
(* What is proved of the page beside the topology manager: together they   *)
(* take only steps of the topology manager, whose theorems therefore hold  *)
(* with the page posting, losing and overtaking edits; and, with the       *)
(* static source, the backend follows the page.                            *)
(***************************************************************************)
EXTENDS PageSync, TopologyProofs

pageTuple == <<vars, pageVars>>

-----------------------------------------------------------------------------
(* Types.                                                                    *)

\* What the page may post.
Postable == PagePosts \cup {Refresh}

\* The posts are numbered in the order they were sent in, and a reset that
\* nothing has been posted after is all that the page shows.
PageInv ==
    /\ sent \in Nat
    /\ \A p \in posts : p.op \in Postable /\ p.n \in 1 .. sent
    /\ \A p, q \in posts : p.n = q.n => p = q
    /\ \A k, l \in DOMAIN page : Ends(k) = Ends(l) => k = l
    /\ \A p \in posts : p.op = Refresh /\ p.n = sent => page = Default

LEMMA PostableIsOp == Postable \subseteq Ops
BY PageAssumption DEF Postable, Ops

LEMMA PageInit1 == PageInit => PageInv
<1> SUFFICES ASSUME PageInit PROVE PageInv
  OBVIOUS
<1>1. page = Default /\ posts = {} /\ sent = 0
  BY DEF PageInit
<1>2. DOMAIN page = PageLinks
  BY <1>1 DEF Default
<1>3. \A k, l \in PageLinks : Ends(k) = Ends(l) => k = l
  BY PageAssumption, JoinsIsEnds
<1> QED  BY <1>1, <1>2, <1>3 DEF PageInv

\* What the page posts is an edit that a client may make.
LEMMA PagePostIs ==
    ASSUME NEW o \in PagePosts
    PROVE  /\ o \in Edits /\ o # Refresh /\ o.kind \in {"upsert_link", "upsert_node"}
           /\ o.kind = "upsert_link" => o.type \notin Types
<1>1. o \in Edits /\ o # Refresh
  BY PageAssumption, TopologyAssumption
<1>2. CASE \E l \in Clicked, st \in {"up", "down"} : o = Toggled(l, st)
  BY <1>1, <1>2 DEF Toggled, Posted, Types
<1>3. CASE \E l \in FormLinks : o = Posted(l, "up")
  BY <1>1, <1>3 DEF Posted, Types
<1>4. CASE \E c \in Cities : o = AddedNode(c)
  BY <1>1, <1>4 DEF AddedNode
<1> QED  BY <1>2, <1>3, <1>4 DEF PagePosts

\* A post gets the next number.
LEMMA Sends ==
    ASSUME PageInv, NEW o \in Postable, Post(o)
    PROVE  LET new == [n |-> sent + 1, op |-> o]
           IN /\ sent \in Nat /\ sent' = sent + 1
              /\ posts' = posts \cup {new}
              /\ \A q \in posts : q.n <= sent /\ q.n < new.n
              /\ \A p \in posts' : p.op \in Postable /\ p.n \in 1 .. sent'
              /\ \A p, q \in posts' : p.n = q.n => p = q
<1> DEFINE new == [n |-> sent + 1, op |-> o]
<1>1. sent \in Nat /\ sent' = sent + 1 /\ posts' = posts \cup {new}
  BY DEF PageInv, Post
<1>2. \A q \in posts : q.n \in 1 .. sent /\ q.op \in Postable
  BY DEF PageInv
<1>3. new.n = sent + 1 /\ new.op = o
  OBVIOUS
<1> HIDE DEF new
<1>4. \A q \in posts : q.n <= sent /\ q.n < new.n
  BY <1>1, <1>2, <1>3
<1>5. \A p \in posts' : p.op \in Postable /\ p.n \in 1 .. sent'
  BY <1>1, <1>2, <1>3
<1>6. \A p, q \in posts' : p.n = q.n => p = q
  <2> SUFFICES ASSUME NEW p \in posts', NEW q \in posts', p.n = q.n PROVE p = q
    OBVIOUS
  <2>1. CASE p \in posts /\ q \in posts
    BY <2>1 DEF PageInv
  <2>2. CASE p = new \/ q = new
    <3>1. \A r \in posts : r.n # new.n
      BY <1>1, <1>2, <1>3
    <3> QED  BY <1>1, <2>2, <3>1
  <2> QED  BY <1>1, <2>1, <2>2
<1> QED  BY <1>1, <1>4, <1>5, <1>6 DEF new

LEMMA PageStep == PageInv /\ [PageNext]_pageTuple => PageInv'
<1> SUFFICES ASSUME PageInv, [PageNext]_pageTuple PROVE PageInv'
  OBVIOUS
<1>1. ASSUME posts' \subseteq posts, UNCHANGED <<page, sent>> PROVE PageInv'
  BY <1>1 DEF PageInv
<1>2. CASE Backend
  <2>1. CASE \E t \in Tasks : ByOthers(t) /\ UNCHANGED <<page, posts, sent>>
    BY <1>1, <2>1
  <2>2. CASE \E p \in posts, t \in Tasks : CarriedOut(p, t)
    BY <1>1, <2>2 DEF CarriedOut
  <2>3. CASE SourceChanges /\ orderly' = FALSE /\ UNCHANGED <<downed, page, posts, sent>>
    BY <1>1, <2>3
  <2> QED  BY <1>2, <2>1, <2>2, <2>3 DEF Backend
<1>3. ASSUME NEW o \in Postable, Post(o),
             \A k, l \in DOMAIN page' : Ends(k) = Ends(l) => k = l,
             o = Refresh => page' = Default
      PROVE  PageInv'
  <2> DEFINE new == [n |-> sent + 1, op |-> o]
  <2>1. /\ sent \in Nat /\ sent' = sent + 1
        /\ posts' = posts \cup {new}
        /\ \A q \in posts : q.n <= sent /\ q.n < new.n
        /\ \A p \in posts' : p.op \in Postable /\ p.n \in 1 .. sent'
        /\ \A p, q \in posts' : p.n = q.n => p = q
    BY <1>3, Sends
  <2>2. new.op = o
    OBVIOUS
  <2> HIDE DEF new
  <2>3. \A p \in posts : p.n # sent'
    <3> SUFFICES ASSUME NEW p \in posts PROVE p.n # sent'
      OBVIOUS
    <3>1. p.n \in 1 .. sent
      BY DEF PageInv
    <3> QED  BY <2>1, <3>1
  <2>4. \A p \in posts' : p.op = Refresh /\ p.n = sent' => page' = Default
    BY <1>3, <2>1, <2>2, <2>3
  <2>5. sent' \in Nat
    BY <2>1
  <2> QED  BY <1>3, <2>1, <2>4, <2>5 DEF PageInv
<1>4. ASSUME NEW l \in Clicked, Click(l) PROVE PageInv'
  <2>1. PICK st \in {"up", "down"} : page' = [page EXCEPT ![l] = st] /\ Post(Toggled(l, st))
    BY <1>4 DEF Click
  <2>2. Toggled(l, st) \in Postable /\ Toggled(l, st) # Refresh
    BY <2>1, PageAssumption, TopologyAssumption DEF Postable, PagePosts
  <2>3. DOMAIN page' = DOMAIN page
    BY <2>1
  <2> QED  BY <1>3, <2>1, <2>2, <2>3 DEF PageInv
<1>5. ASSUME NEW l \in FormLinks, AddLink(l) PROVE PageInv'
  <2>1. DOMAIN page' = DOMAIN page \cup {l} /\ Post(Posted(l, "up"))
    BY <1>5 DEF AddLink, With
  <2>2. Posted(l, "up") \in Postable /\ Posted(l, "up") # Refresh
    BY PageAssumption, TopologyAssumption DEF Postable, PagePosts
  <2>3. \A k \in DOMAIN page : Ends(k) # Ends(l)
    BY <1>5, JoinsIsEnds DEF AddLink
  <2> QED  BY <1>3, <2>1, <2>2, <2>3 DEF PageInv
<1>6. ASSUME NEW c \in Cities, AddCity(c) PROVE PageInv'
  <2>1. DOMAIN page' = DOMAIN page \cup c.links /\ Post(AddedNode(c))
    BY <1>6 DEF AddCity, With
  <2>2. AddedNode(c) \in Postable /\ AddedNode(c) # Refresh
    BY PageAssumption, TopologyAssumption DEF Postable, PagePosts
  <2>3. \A k, l \in c.links : Ends(k) = Ends(l) => k = l
    BY PageAssumption, JoinsIsEnds
  <2>4. \A k \in DOMAIN page, l \in c.links : Ends(k) # Ends(l)
    BY <1>6, PageAssumption DEF AddCity
  <2>5. \A k, l \in DOMAIN page' : Ends(k) = Ends(l) => k = l
    BY <2>1, <2>3, <2>4 DEF PageInv
  <2> QED  BY <1>3, <2>1, <2>2, <2>5
<1>7. CASE Reset
  <2>1. page' = Default /\ DOMAIN page' = PageLinks /\ Post(Refresh)
    BY <1>7 DEF Reset, Default
  <2>2. Refresh \in Postable
    BY DEF Postable
  <2>3. \A k, l \in PageLinks : Ends(k) = Ends(l) => k = l
    BY PageAssumption, JoinsIsEnds
  <2> QED  BY <1>3, <2>1, <2>2, <2>3
<1>8. ASSUME NEW p \in posts, Lost(p) PROVE PageInv'
  BY <1>1, <1>8 DEF Lost
<1>9. CASE UNCHANGED pageTuple
  BY <1>1, <1>9 DEF pageTuple, pageVars
<1> QED  BY <1>2, <1>4, <1>5, <1>7, <1>8, <1>9, <1>6 DEF PageNext

-----------------------------------------------------------------------------
(* The page beside the backend takes the steps of the backend.               *)

LEMMA PageStepIsStep == PageInv /\ [PageNext]_pageTuple => [Next]_vars
<1> SUFFICES ASSUME PageInv, [PageNext]_pageTuple PROVE [Next]_vars
  OBVIOUS
<1>1. CASE Backend /\ Observe
  <2>1. ASSUME NEW t \in Tasks, ByOthers(t) PROVE Task(t)
    BY <2>1 DEF ByOthers, Task
  <2>2. ASSUME NEW p \in posts, NEW t \in Tasks, CarriedOut(p, t) PROVE Task(t)
    <3>1. p.op \in Ops
      BY PostableIsOp DEF PageInv
    <3> QED  BY <2>2, <3>1 DEF CarriedOut, Task
  <2> QED  BY <1>1, <2>1, <2>2 DEF Backend, Next
<1>2. ASSUME NEW o, Post(o) PROVE UNCHANGED vars
  BY <1>2 DEF Post
<1>3. CASE \E l \in Clicked : Click(l)
  BY <1>2, <1>3 DEF Click
<1>4. CASE \E l \in FormLinks : AddLink(l)
  BY <1>2, <1>4 DEF AddLink
<1>5. CASE \E c \in Cities : AddCity(c)
  BY <1>2, <1>5 DEF AddCity
<1>6. CASE Reset
  BY <1>2, <1>6 DEF Reset
<1>7. CASE \E p \in posts : Lost(p)
  BY <1>7 DEF Lost
<1>8. CASE UNCHANGED pageTuple
  BY <1>8 DEF pageTuple
<1> QED  BY <1>1, <1>3, <1>4, <1>6, <1>7, <1>8, <1>5 DEF PageNext

\* Whatever the page posts, and whatever becomes of the posts, the topology
\* manager behaves as it does for any clients (dashboard.js syncBackend..,
\* the proxy's live edits, main.py).
THEOREM PageImplementsManager == PageSpec => Spec
<1>1. PageInit => Init /\ PageInv
  BY PageInit1 DEF PageInit
<1>2. PageInv /\ [PageNext]_pageTuple => PageInv'
  BY PageStep
<1>3. PageInv /\ [PageNext]_pageTuple => [Next]_vars
  BY PageStepIsStep
<1>4. PageSpec <=> PageInit /\ [][PageNext]_pageTuple
  BY DEF PageSpec, pageTuple
<1> QED  BY <1>1, <1>2, <1>3, <1>4, PTL DEF Spec

\* What is proved of the topology manager holds with the page beside it.
THEOREM PageKeepsManager ==
    /\ PageSpec => [](TypeOK /\ AnswerWasCurrent /\ PathIsCheapest)
    /\ ~Live /\ PageSpec => [](EditsStay /\ RefreshedIsFresh)
<1>1. PageSpec => [](TypeOK /\ AnswerWasCurrent /\ PathIsCheapest)
  BY PageImplementsManager, TopologyTypeCorrect, AnswersAreCurrent, PathsAreCheapest, PTL
<1>2. ASSUME ~Live PROVE PageSpec => [](EditsStay /\ RefreshedIsFresh)
  <2>1. (Spec => []EditsStay) /\ (Spec => []RefreshedIsFresh)
    BY <1>2, StaticEditsStay, StaticRefreshIsFresh
  <2> QED  BY <2>1, PageImplementsManager, PTL
<1> QED  BY <1>1, <1>2

-----------------------------------------------------------------------------
(* With the static source the backend follows the page.                     *)

\* The topology that the next request finds.
Current == IF cache = None THEN load_topology(source) ELSE snap[cache]

\* The first link of s with the ends of l, which is the one edited, has status st.
Shows(s, l, st) ==
    \A i \in DOMAIN s.links :
        /\ Ends(s.links[i]) = Ends(l)
        /\ \A j \in DOMAIN s.links : j < i => Ends(s.links[j]) # Ends(l)
        => s.links[i].status = st

\* The pairs of nodes that s has a link between.
Pairs(s) == {Ends(s.links[i]) : i \in DOMAIN s.links}

\* Posts that decide on l, and what they make of it.
Decides(o, l) == o = Refresh \/ (o.kind = "upsert_link" /\ Ends(o) = Ends(l))
Outcome(o) == IF o = Refresh THEN "up" ELSE o.status

\* The last of the posts in S that decide on l makes of it what the page shows.
LastIn(S, l, st) ==
    \E p \in S : /\ Decides(p.op, l) /\ Outcome(p.op) = st
                 /\ \A q \in S : Decides(q.op, l) => q.n <= p.n

\* What the page shows of l is under way, or in force.
Follows(S, s, l, st) ==
    \/ LastIn(S, l, st)
    \/ (\A p \in S : ~Decides(p.op, l)) /\ Shows(s, l, st)

\* The page shows l as st; what it does not show it has left as it was.
Displays(l, st) ==
    \/ l \in DOMAIN page /\ st = page[l]
    \/ (\A k \in DOMAIN page : Ends(k) # Ends(l)) /\ st = "up"

FollowInv ==
    /\ TypeInv /\ PageInv
    /\ orderly => /\ source = Home
                  /\ Pairs(Current) = Pairs(load_topology(Home))
                  /\ \A l, st : Displays(l, st) => Follows(posts, Current, l, st)

LEMMA FirstShows ==
    ASSUME NEW s, NEW l, NEW st, s.links \in Seq(Link), Shows(s, l, st)
    PROVE  /\ First(s, l) # 0 => s.links[First(s, l)].status = st
           /\ First(s, l) # 0 <=> Ends(l) \in Pairs(s)
<1>1. First(s, l) # 0 =>
          /\ First(s, l) \in DOMAIN s.links
          /\ Ends(s.links[First(s, l)]) = Ends(l)
          /\ \A k \in DOMAIN s.links : k < First(s, l) => Ends(s.links[k]) # Ends(l)
  BY FirstIs
<1>2. First(s, l) = 0 => \A k \in DOMAIN s.links : Ends(s.links[k]) # Ends(l)
  BY FirstIs
<1> QED  BY <1>1, <1>2 DEF Shows, Pairs

\* The page's own topology shows every link up, and so does a fresh backend.
LEMMA HomeShows == ~Live => \A l : Shows(load_topology(Home), l, "up")
BY PageAssumption DEF Shows, ToSet

\* A post sets the link it names, and no other.
LEMMA EditShows ==
    ASSUME NEW s \in Snapshots, NEW o \in PagePosts, o.kind = "upsert_link", NEW l, NEW st,
           \/ Ends(o) = Ends(l) /\ st = o.status
           \/ Ends(o) # Ends(l) /\ Shows(s, l, st)
    PROVE  Shows(Edited(s, o), l, st)
<1> DEFINE i == First(s, o)
           new == Renewed(o, o.source, o.target)
           x == Renewed(o, s.links[i].source, s.links[i].target)
<1>1. s.links \in Seq(Link) /\ DOMAIN s.links = 1 .. Len(s.links)
  BY DEF Snapshots
<1>2. Edited(s, o).links = IF Rejected(s, o) THEN s.links
                           ELSE IF i = 0 THEN Append(s.links, new)
                           ELSE [s.links EXCEPT ![i] = x]
  BY PagePostIs, UpsertLinkIs DEF Edited, Snapshots
<1>3. Ends(new) = Ends(o) /\ Ends(x) = Ends(s.links[i]) /\ new.status = o.status
      /\ x.status = o.status
  BY DEF Renewed, Ends
<1>4. \/ i = 0 /\ \A k \in DOMAIN s.links : Ends(s.links[k]) # Ends(o)
      \/ /\ i \in DOMAIN s.links
         /\ Ends(s.links[i]) = Ends(o)
         /\ \A k \in DOMAIN s.links : k < i => Ends(s.links[k]) # Ends(o)
  BY <1>1, FirstIs
<1>5. Rejected(s, o) => \A k \in DOMAIN s.links : Ends(s.links[k]) # Ends(o)
  BY JoinsIsEnds DEF Rejected
<1> HIDE DEF i, new, x
<1>6. CASE Rejected(s, o)
  BY <1>2, <1>5, <1>6 DEF Shows
<1>7. CASE ~Rejected(s, o) /\ i = 0
  <2> DEFINE list == Append(s.links, new)
  <2>1. Edited(s, o).links = list
    BY <1>2, <1>7
  <2>2. DOMAIN s.links \subseteq DOMAIN list /\ \A k \in DOMAIN s.links : list[k] = s.links[k]
    BY <1>1
  <2>3. \A k \in DOMAIN list : k \in DOMAIN s.links \/ list[k] = new
    BY <1>1
  <2> HIDE DEF list
  <2>4. \A k \in DOMAIN s.links : Ends(s.links[k]) # Ends(o)
    BY <1>1, <1>4, <1>7
  <2> QED  BY <1>3, <2>1, <2>2, <2>3, <2>4 DEF Shows
<1>8. CASE ~Rejected(s, o) /\ i # 0
  <2> DEFINE list == [s.links EXCEPT ![i] = x]
  <2>1. Edited(s, o).links = list
    BY <1>2, <1>8
  <2>2. i \in DOMAIN s.links /\ Ends(s.links[i]) = Ends(o)
        /\ \A k \in DOMAIN s.links : k < i => Ends(s.links[k]) # Ends(o)
    BY <1>4, <1>8
  <2>3. DOMAIN list = DOMAIN s.links /\ list[i] = x
        /\ \A k \in DOMAIN s.links : k # i => list[k] = s.links[k]
    BY <2>2
  <2> HIDE DEF list
  <2>4. \A k \in DOMAIN list : Ends(list[k]) = Ends(s.links[k])
    BY <1>3, <2>2, <2>3
  <2>5. CASE Ends(o) = Ends(l) /\ st = o.status
    <3> SUFFICES ASSUME NEW k \in DOMAIN list, Ends(list[k]) = Ends(l),
                        \A j \in DOMAIN list : j < k => Ends(list[j]) # Ends(l)
                 PROVE  list[k].status = st
      BY <2>1 DEF Shows
    <3>1. ~ (k < i) /\ ~ (i < k)
      BY <2>2, <2>3, <2>4, <2>5
    <3>2. k = i
      BY <1>1, <2>2, <2>3, <3>1
    <3> QED  BY <1>3, <2>3, <2>5, <3>2
  <2>6. CASE Ends(o) # Ends(l) /\ Shows(s, l, st)
    <3> SUFFICES ASSUME NEW k \in DOMAIN list, Ends(list[k]) = Ends(l),
                        \A j \in DOMAIN list : j < k => Ends(list[j]) # Ends(l)
                 PROVE  list[k].status = st
      BY <2>1 DEF Shows
    <3>1. k # i /\ list[k] = s.links[k]
      BY <2>2, <2>3, <2>4, <2>6
    <3>2. s.links[k].status = st
      BY <2>3, <2>4, <2>6, <3>1 DEF Shows
    <3> QED  BY <3>1, <3>2
  <2> QED  BY <2>5, <2>6
<1> QED  BY <1>6, <1>7, <1>8

\* It adds no link either, for none of those it would add passes the check.
LEMMA PostAddsNoLink ==
    ASSUME NEW s \in Snapshots, NEW o \in PagePosts
    PROVE  /\ Pairs(Edited(s, o)) = Pairs(s)
           /\ o.kind = "upsert_node" => Edited(s, o).links = s.links
<1>1. s.links \in Seq(Link) /\ DOMAIN s.links = 1 .. Len(s.links)
  BY DEF Snapshots
<1>2. CASE o.kind = "upsert_node"
  <2>1. Edited(s, o).links = s.links
    BY <1>2 DEF Edited, UpsertNode, Snapshots
  <2> QED  BY <2>1 DEF Pairs
<1>3. CASE o.kind = "upsert_link"
  <2> DEFINE i == First(s, o)
             x == Renewed(o, s.links[i].source, s.links[i].target)
  <2>1. Edited(s, o).links = IF Rejected(s, o) THEN s.links
                             ELSE IF i = 0 THEN Append(s.links, Renewed(o, o.source, o.target))
                             ELSE [s.links EXCEPT ![i] = x]
    BY <1>3, UpsertLinkIs DEF Edited, Snapshots
  <2>2. \/ i = 0 /\ \A k \in DOMAIN s.links : Ends(s.links[k]) # Ends(o)
        \/ i # 0 /\ i \in DOMAIN s.links
    BY <1>1, FirstIs
  <2>3. i = 0 => Rejected(s, o)
    BY <1>3, <2>2, PagePostIs, JoinsIsEnds DEF Rejected
  <2>4. Ends(x) = Ends(s.links[i])
    BY DEF Renewed, Ends
  <2> HIDE DEF i, x
  <2>5. CASE Edited(s, o).links = s.links
    BY <1>3, <2>5 DEF Pairs
  <2>6. CASE i \in DOMAIN s.links /\ Edited(s, o).links = [s.links EXCEPT ![i] = x]
    <3> DEFINE list == [s.links EXCEPT ![i] = x]
    <3>1. DOMAIN list = DOMAIN s.links /\ \A k \in DOMAIN s.links : Ends(list[k]) = Ends(s.links[k])
      BY <2>4, <2>6
    <3>2. Edited(s, o).links = list
      BY <2>6
    <3> HIDE DEF list
    <3> QED  BY <1>3, <3>1, <3>2 DEF Pairs
  <2> QED  BY <2>1, <2>2, <2>3, <2>5, <2>6
<1> QED  BY <1>2, <1>3, PagePostIs

\* What a request leaves in force.
LEMMA BeginCurrent ==
    ASSUME ~Live, TypeInv, NEW t \in Tasks, NEW o \in Ops, Begin(t, o)
    PROVE  /\ Current \in Snapshots
           /\ source' = source
           /\ Current' = IF o \in Edits THEN Edited(Current, o)
                         ELSE IF o = Refresh THEN load_topology(source)
                         ELSE Current
<1>1. snap \in [Tasks -> Snapshots] /\ source \in Sources /\ cache \in Tasks \cup {None}
  BY DEF TypeInv, TasksTyped, Versions
<1>2. load_topology(source) \in Snapshots
  BY <1>1, InputAssumption
<1>3. Current \in Snapshots /\ source' = source
  BY <1>1, <1>2 DEF Current, Begin
<1>4. o \in Edits => o # Refresh
  BY TopologyAssumption
<1>5. CASE Cached(o) # None /\ Got(t, o, Cached(o), snap)
  <2>1. o # Refresh /\ cache \in Tasks /\ cache' = cache /\ Current = snap[cache]
    BY <1>1, <1>5 DEF Cached, Got, Current
  <2>2. Current' = snap'[cache]
    BY <2>1, TopologyAssumption DEF Current
  <2>3. snap'[cache] = IF o \in Edits THEN Edited(snap[cache], o) ELSE snap[cache]
    BY <1>1, <1>5, <2>1 DEF Got, Cached
  <2> QED  BY <1>3, <2>1, <2>2, <2>3
<1>6. CASE Cached(o) = None /\ Got(t, o, t, [snap EXCEPT ![t] = load_topology(source)])
  <2>1. cache' = t /\ Current' = snap'[t]
    BY <1>6, TopologyAssumption DEF Got, Current
  <2>2. snap'[t] = IF o \in Edits THEN Edited(load_topology(source), o) ELSE load_topology(source)
    BY <1>1, <1>6 DEF Got
  <2>3. o # Refresh => Current = load_topology(source)
    BY <1>6 DEF Cached, Current
  <2> QED  BY <1>3, <1>4, <2>1, <2>2, <2>3
<1> QED  BY <1>5, <1>6 DEF Begin

\* A post that decides on no link the page shows, or on one just set, is the last.
LEMMA PostFollows ==
    ASSUME PageInv, NEW o \in Postable, Post(o), NEW l, NEW st, NEW new,
           IF Decides(o, l) THEN Outcome(o) = new ELSE new = st /\ Follows(posts, Current, l, st)
    PROVE  Follows(posts', Current', l, new)
<1> DEFINE p == [n |-> sent + 1, op |-> o]
<1>1. posts' = posts \cup {p} /\ \A q \in posts : q.n < p.n /\ q.n \in Nat
  BY Sends DEF PageInv
<1>2. p.op = o /\ p.n = sent + 1 /\ sent \in Nat
  BY DEF PageInv
<1> HIDE DEF p
<1>3. Current' = Current
  BY DEF Post, vars, Current
<1>4. CASE Decides(o, l)
  <2>1. \A q \in posts' : q.n <= p.n
    BY <1>1, <1>2
  <2>2. LastIn(posts', l, new)
    BY <1>1, <1>2, <1>4, <2>1 DEF LastIn
  <2> QED  BY <2>2 DEF Follows
<1>5. CASE ~Decides(o, l)
  <2>1. CASE LastIn(posts, l, st)
    <3>1. LastIn(posts', l, st)
      BY <1>1, <1>2, <1>5, <2>1 DEF LastIn
    <3> QED  BY <1>5, <3>1 DEF Follows
  <2>2. CASE (\A q \in posts : ~Decides(q.op, l)) /\ Shows(Current, l, st)
    <3>1. \A q \in posts' : ~Decides(q.op, l)
      BY <1>1, <1>2, <1>5, <2>2
    <3> QED  BY <1>3, <1>5, <2>2, <3>1 DEF Follows, Shows
  <2> QED  BY <1>5, <2>1, <2>2 DEF Follows
<1> QED  BY <1>4, <1>5

\* The first of the posts is carried out.
LEMMA CarriedFollows ==
    ASSUME ~Live, TypeInv, PageInv, source = Home, NEW t \in Tasks, NEW p \in posts,
           CarriedOut(p, t), \A q \in posts : p.n <= q.n,
           NEW l, NEW st, Follows(posts, Current, l, st)
    PROVE  Follows(posts', Current', l, st)
<1>1. posts' = posts \ {p} /\ Begin(t, p.op)
  BY DEF CarriedOut
<1>2. \A q \in posts : q.n \in Nat
  BY DEF PageInv
<1>3. p.op \in Postable /\ p.op \in Ops
  BY PostableIsOp DEF PageInv
<1>4. p.op \in PagePosts \/ p.op = Refresh
  BY <1>3 DEF Postable
<1>5. Current \in Snapshots
  BY <1>1, <1>3, BeginCurrent
<1>6. p.op = Refresh => Current' = load_topology(Home)
  BY <1>1, <1>3, BeginCurrent, TopologyAssumption
<1>7. p.op # Refresh => p.op \in PagePosts /\ Current' = Edited(Current, p.op)
  BY <1>1, <1>3, <1>4, BeginCurrent, PagePostIs
<1>8. CASE LastIn(posts, l, st)
  <2>1. PICK last \in posts : /\ Decides(last.op, l) /\ Outcome(last.op) = st
                              /\ \A q \in posts : Decides(q.op, l) => q.n <= last.n
    BY <1>8 DEF LastIn
  <2>2. CASE last # p
    BY <1>1, <2>1, <2>2 DEF Follows, LastIn
  <2>3. CASE last = p
    <3>1. \A q \in posts' : ~Decides(q.op, l)
      <4> SUFFICES ASSUME NEW q \in posts', Decides(q.op, l) PROVE FALSE
        OBVIOUS
      <4>1. q \in posts /\ q # p /\ q.n <= p.n /\ p.n <= q.n
        BY <1>1, <2>1, <2>3
      <4>2. q.n = p.n
        BY <1>2, <4>1
      <4> QED  BY <4>1, <4>2 DEF PageInv
    <3>2. Shows(Current', l, st)
      <4>1. CASE p.op = Refresh
        BY <1>6, <2>1, <2>3, <4>1, HomeShows DEF Outcome
      <4>2. CASE p.op # Refresh
        <5>1. p.op.kind = "upsert_link" /\ Ends(p.op) = Ends(l) /\ p.op.status = st
          BY <2>1, <2>3, <4>2 DEF Decides, Outcome
        <5> QED  BY <1>5, <1>7, <4>2, <5>1, EditShows
      <4> QED  BY <4>1, <4>2
    <3> QED  BY <3>1, <3>2 DEF Follows, Shows
  <2> QED  BY <2>2, <2>3
<1>9. CASE (\A q \in posts : ~Decides(q.op, l)) /\ Shows(Current, l, st)
  <2>1. p.op # Refresh /\ (p.op.kind = "upsert_link" => Ends(p.op) # Ends(l))
    BY <1>9 DEF Decides
  <2>2. p.op \in PagePosts /\ Current' = Edited(Current, p.op)
    BY <1>7, <2>1
  <2>3. ASSUME NEW s \in Snapshots, NEW o \in PagePosts,
               o.kind = "upsert_link" => Ends(o) # Ends(l), Shows(s, l, st)
        PROVE  Shows(Edited(s, o), l, st)
    <3>1. CASE o.kind = "upsert_link"
      BY <2>3, <3>1, EditShows
    <3>2. CASE o.kind = "upsert_node"
      <4>1. Edited(s, o).links = s.links
        BY <3>2, PostAddsNoLink
      <4> QED  BY <2>3, <4>1 DEF Shows
    <3> QED  BY <3>1, <3>2, PagePostIs
  <2>4. Shows(Current', l, st)
    BY <1>5, <1>9, <2>1, <2>2, <2>3
  <2> QED  BY <1>1, <1>9, <2>4 DEF Follows, Shows
<1> QED  BY <1>8, <1>9 DEF Follows

\* Nor does it change which links there are.
LEMMA CarriedKeepsPairs ==
    ASSUME ~Live, TypeInv, PageInv, source = Home, NEW t \in Tasks, NEW p \in posts,
           CarriedOut(p, t), Pairs(Current) = Pairs(load_topology(Home))
    PROVE  Pairs(Current') = Pairs(load_topology(Home))
<1>1. p.op \in Postable /\ p.op \in Ops /\ Begin(t, p.op)
  BY PostableIsOp DEF PageInv, CarriedOut
<1>2. Current \in Snapshots
  BY <1>1, BeginCurrent
<1>3. CASE p.op = Refresh
  <2>1. Current' = load_topology(Home)
    BY <1>1, <1>3, BeginCurrent, TopologyAssumption
  <2> QED  BY <2>1
<1>4. CASE p.op \in PagePosts
  <2>1. Current' = Edited(Current, p.op)
    BY <1>1, <1>4, BeginCurrent, PagePostIs
  <2> QED  BY <1>2, <1>4, <2>1, PostAddsNoLink
<1> QED  BY <1>1, <1>3, <1>4 DEF Postable

LEMMA FollowInit == ~Live /\ PageInit => FollowInv
<1> SUFFICES ASSUME ~Live, PageInit PROVE FollowInv
  OBVIOUS
<1>1. TypeInv /\ PageInv
  BY TypeInit, PageInit1 DEF PageInit
<1>2. posts = {} /\ page = Default /\ orderly = (source = Home) /\ cache = None
  BY DEF PageInit, Init
<1>3. ASSUME source = Home, NEW l, NEW st, Displays(l, st) PROVE Follows(posts, Current, l, st)
  <2>1. st = "up" /\ Current = load_topology(Home)
    BY <1>2, <1>3 DEF Default, Displays, Current
  <2>2. Shows(Current, l, st)
    BY <2>1, HomeShows
  <2> QED  BY <1>2, <2>2 DEF Follows
<1>4. source = Home => Pairs(Current) = Pairs(load_topology(Home))
  BY <1>2 DEF Current
<1> QED  BY <1>1, <1>2, <1>3, <1>4 DEF FollowInv

\* While the page and the backend agree, a post keeps them so, if it decides on
\* the links that the page shows in another way than before, and as they are shown.
LEMMA SentFollows ==
    ASSUME FollowInv, PageInv', TypeInv', NEW o \in Postable, Post(o),
           \A l, st : Displays(l, st)' =>
               IF Decides(o, l) THEN Outcome(o) = st ELSE Displays(l, st)
    PROVE  FollowInv'
<1>1. source' = source /\ orderly' = orderly /\ Current' = Current
  BY DEF Post, vars, Current
<1>2. ASSUME orderly, NEW l, NEW st, Displays(l, st)' PROVE Follows(posts', Current', l, st)
  <2>1. ~Decides(o, l) => Follows(posts, Current, l, st)
    BY <1>2 DEF FollowInv
  <2> QED  BY <1>2, <2>1, PostFollows DEF FollowInv
<1> QED  BY <1>1, <1>2 DEF FollowInv

\* What others ask for leaves page and backend as they are, or out of step.
LEMMA OthersFollow ==
    ASSUME ~Live, FollowInv, PageInv', TypeInv', NEW t \in Tasks, ByOthers(t),
           UNCHANGED <<page, posts, sent>>
    PROVE  FollowInv'
<1>1. TypeInv
  BY DEF FollowInv
<1>2. ASSUME orderly' => orderly /\ source' = source /\ Current' = Current PROVE FollowInv'
  <2>1. \A l, st : Displays(l, st)' => Displays(l, st)
    BY DEF Displays
  <2> QED  BY <1>2, <2>1 DEF FollowInv
<1>3. CASE \E o \in Ops \ PagePosts :
              Begin(t, o) /\ Record(o) /\ orderly' = (orderly /\ ~Disturbs(o))
  <2>1. PICK o \in Ops \ PagePosts :
              Begin(t, o) /\ orderly' = (orderly /\ ~Disturbs(o))
    BY <1>3
  <2> QED  BY <1>1, <1>2, <2>1, BeginCurrent DEF Disturbs
<1>4. CASE Compute(t) /\ UNCHANGED <<downed, orderly>>
  BY <1>2, <1>4 DEF Compute, Current
<1>5. ~ (ReadDevices(t) \/ ReadLinks(t) \/ Fetched(t) \/ FetchFails(t))
  <2>1. pc[t] \notin Fetching
    BY <1>1 DEF TypeInv, TasksTyped
  <2> QED  BY <2>1 DEF ReadDevices, ReadLinks, Fetched, FetchFails, Fetching
<1> QED  BY <1>3, <1>4, <1>5 DEF ByOthers

LEMMA PostArrives ==
    ASSUME ~Live, FollowInv, PageInv', TypeInv', NEW p \in posts, NEW t \in Tasks,
           CarriedOut(p, t)
    PROVE  FollowInv'
<1>1. TypeInv /\ PageInv
  BY DEF FollowInv
<1>2. /\ posts' = posts \ {p} /\ page' = page /\ Begin(t, p.op) /\ source' = source
      /\ orderly' = (Realigns(p) \/ (orderly /\ \A q \in posts : p.n <= q.n))
  BY DEF CarriedOut, Begin
<1>3. \A l, st : Displays(l, st)' => Displays(l, st)
  BY <1>2 DEF Displays
<1>4. CASE orderly /\ \A q \in posts : p.n <= q.n
  <2>1. ASSUME NEW l, NEW st, Displays(l, st) PROVE Follows(posts', Current', l, st)
    BY <1>1, <1>4, <2>1, CarriedFollows DEF FollowInv
  <2>2. Pairs(Current') = Pairs(load_topology(Home))
    BY <1>1, <1>4, CarriedKeepsPairs DEF FollowInv
  <2> QED  BY <1>2, <1>3, <1>4, <2>1, <2>2 DEF FollowInv
<1>5. CASE Realigns(p)
  <2>1. p.op = Refresh /\ posts' = {} /\ source = Home /\ page = Default
    BY <1>1, <1>2, <1>5 DEF Realigns, PageInv
  <2>2. Current' = load_topology(Home)
    BY <1>1, <1>2, <2>1, BeginCurrent, TopologyAssumption DEF Ops
  <2>3. ASSUME NEW l, NEW st, Displays(l, st) PROVE Follows(posts', Current', l, st)
    <3>1. st = "up"
      BY <2>1, <2>3 DEF Default, Displays
    <3>2. Shows(Current', l, st)
      BY <2>2, <3>1, HomeShows
    <3> QED  BY <2>1, <3>2 DEF Follows
  <2> QED  BY <1>2, <1>3, <2>1, <2>2, <2>3 DEF FollowInv
<1>6. CASE ~orderly'
  BY <1>6 DEF FollowInv
<1> QED  BY <1>2, <1>4, <1>5, <1>6

LEMMA FollowStep == ~Live /\ FollowInv /\ [PageNext]_pageTuple => FollowInv'
<1> SUFFICES ASSUME ~Live, FollowInv, [PageNext]_pageTuple PROVE FollowInv'
  OBVIOUS
<1>1. TypeInv /\ PageInv /\ PageInv' /\ TypeInv'
  BY PageStep, PageStepIsStep, TypeStep DEF FollowInv
<1>2. CASE Backend
  <2>1. CASE SourceChanges /\ orderly' = FALSE
    BY <1>1, <2>1 DEF FollowInv
  <2> QED  BY <1>1, <1>2, <2>1, OthersFollow, PostArrives DEF Backend
<1>3. ASSUME NEW l \in Clicked, Click(l) PROVE FollowInv'
  <2>1. PICK st \in {"up", "down"} : page' = [page EXCEPT ![l] = st] /\ Post(Toggled(l, st))
    BY <1>3 DEF Click
  <2> DEFINE o == Toggled(l, st)
  <2>2. o \in PagePosts /\ o.kind = "upsert_link" /\ Ends(o) = Ends(l) /\ o.status = st
    BY <2>1 DEF PagePosts, Toggled, Posted, Ends
  <2>3. Post(o)
    BY <2>1
  <2> HIDE DEF o
  <2>4. o \in Postable /\ Outcome(o) = st /\ \A k : Decides(o, k) <=> Ends(k) = Ends(l)
    BY <2>2, PagePostIs DEF Postable, Outcome, Decides
  <2>5. l \in DOMAIN page /\ \A k \in DOMAIN page : Ends(k) = Ends(l) => k = l
    BY <1>1, <1>3 DEF Click, PageInv
  <2>6. \A k, x : Displays(k, x)' => IF Decides(o, k) THEN Outcome(o) = x ELSE Displays(k, x)
    BY <2>1, <2>4, <2>5 DEF Displays
  <2> QED  BY <1>1, <2>3, <2>4, <2>6, SentFollows
<1>4. ASSUME NEW l \in FormLinks, AddLink(l) PROVE FollowInv'
  <2> DEFINE o == Posted(l, "up")
  <2>1. page' = [k \in DOMAIN page \cup {l} |-> IF k \in {l} THEN "up" ELSE page[k]] /\ Post(o)
    BY <1>4 DEF AddLink, With
  <2>2. o \in PagePosts /\ o.kind = "upsert_link" /\ Ends(o) = Ends(l) /\ o.status = "up"
    BY DEF PagePosts, Posted, Ends
  <2> HIDE DEF o
  <2>3. o \in Postable /\ Outcome(o) = "up" /\ \A k : Decides(o, k) <=> Ends(k) = Ends(l)
    BY <2>2, PagePostIs DEF Postable, Outcome, Decides
  <2>4. \A k \in DOMAIN page : Ends(k) # Ends(l)
    BY <1>4, JoinsIsEnds DEF AddLink
  <2>5. \A k, x : Displays(k, x)' => IF Decides(o, k) THEN Outcome(o) = x ELSE Displays(k, x)
    BY <2>1, <2>3, <2>4 DEF Displays
  <2> QED  BY <1>1, <2>1, <2>3, <2>5, SentFollows
<1>5. ASSUME NEW c \in Cities, AddCity(c) PROVE FollowInv'
  <2> DEFINE o == AddedNode(c)
  <2>1. page' = [k \in DOMAIN page \cup c.links |-> IF k \in c.links THEN "up" ELSE page[k]]
        /\ Post(o)
    BY <1>5 DEF AddCity, With
  <2>2. o \in PagePosts /\ o.kind = "upsert_node"
    BY DEF PagePosts, AddedNode
  <2> HIDE DEF o
  <2>3. o \in Postable /\ \A k : ~Decides(o, k)
    BY <2>2, PagePostIs DEF Postable, Decides
  <2>4. \A k \in DOMAIN page, l \in c.links : Ends(k) # Ends(l)
    BY <1>5, PageAssumption DEF AddCity
  <2>5. \A k, x : Displays(k, x)' => Displays(k, x)
    BY <2>1, <2>4 DEF Displays
  <2> QED  BY <1>1, <2>1, <2>3, <2>5, SentFollows
<1>6. CASE Reset
  <2>1. page' = Default /\ Post(Refresh)
    BY <1>6 DEF Reset
  <2>2. Refresh \in Postable /\ Outcome(Refresh) = "up" /\ \A k : Decides(Refresh, k)
    BY DEF Postable, Outcome, Decides
  <2>3. \A k, x : Displays(k, x)' => x = "up"
    BY <2>1 DEF Displays, Default
  <2> QED  BY <1>1, <2>1, <2>2, <2>3, SentFollows
<1>7. ASSUME NEW p \in posts, Lost(p) PROVE FollowInv'
  BY <1>1, <1>7 DEF Lost, FollowInv
<1>8. CASE UNCHANGED pageTuple
  <2>1. Current' = Current /\ \A l, st : Displays(l, st)' => Displays(l, st)
    BY <1>8 DEF pageTuple, pageVars, vars, Current, Displays
  <2> QED  BY <1>1, <1>8, <2>1 DEF pageTuple, pageVars, vars, FollowInv
<1> QED  BY <1>2, <1>3, <1>4, <1>5, <1>6, <1>7, <1>8 DEF PageNext

\* With the static source, once the page's posts have been carried out in their
\* order, or a reset has made good for lost and overtaken ones: of the links that
\* the page shows, those of the source are in the backend, the first between two
\* nodes up or down as the page shows it, and no other is, whoever added it to
\* the page (toggleLinkState, addLinkFromForm, addNodeFromPicker, resetTopology,
\* upsert_link, refresh).
THEOREM BackendFollows == ~Live /\ PageSpec => []BackendFollowsPage
<1> SUFFICES ASSUME ~Live PROVE PageSpec => []BackendFollowsPage
  OBVIOUS
<1>1. PageInit => FollowInv
  BY FollowInit
<1>2. FollowInv => BackendFollowsPage
  <2> SUFFICES ASSUME FollowInv, Settled, NEW l \in DOMAIN page
               PROVE  LET i == SelectInSeq(snap[cache].links, LAMBDA k : Ends(k) = Ends(l))
                      IN IF \E k \in ToSet(load_topology(Home).links) : Ends(k) = Ends(l)
                         THEN i # 0 /\ snap[cache].links[i].status = page[l]
                         ELSE i = 0
    BY DEF BackendFollowsPage
  <2> DEFINE i == SelectInSeq(snap[cache].links, LAMBDA k : Ends(k) = Ends(l))
  <2>1. Shows(snap[cache], l, page[l]) /\ Pairs(snap[cache]) = Pairs(load_topology(Home))
    BY DEF FollowInv, Settled, Displays, Follows, LastIn, Current
  <2>2. snap[cache].links \in Seq(Link)
    BY DEF FollowInv, Settled, TypeInv, TasksTyped, Snapshots
  <2>3. /\ First(snap[cache], l) # 0 =>
              snap[cache].links[First(snap[cache], l)].status = page[l]
        /\ First(snap[cache], l) # 0 <=> Ends(l) \in Pairs(snap[cache])
    BY <2>1, <2>2, FirstShows
  <2>4. {k \in 1 .. Len(snap[cache].links) : Ends(snap[cache].links[k]) = Ends(l)}
            = {k \in 1 .. Len(snap[cache].links) : Joins(snap[cache].links[k], l)}
    BY JoinsIsEnds
  <2>5. i = First(snap[cache], l)
    BY <2>4 DEF First, SelectInSeq
  <2>6. Ends(l) \in Pairs(snap[cache])
            <=> \E k \in ToSet(load_topology(Home).links) : Ends(k) = Ends(l)
    BY <2>1 DEF Pairs, ToSet
  <2> HIDE DEF i
  <2>7. IF \E k \in ToSet(load_topology(Home).links) : Ends(k) = Ends(l)
        THEN i # 0 /\ snap[cache].links[i].status = page[l]
        ELSE i = 0
    BY <2>3, <2>5, <2>6
  <2> QED  BY <2>7 DEF i
<1>3. FollowInv /\ [PageNext]_pageTuple => FollowInv'
  BY FollowStep
<1>4. PageSpec <=> PageInit /\ [][PageNext]_pageTuple
  BY DEF PageSpec, pageTuple
<1> QED  BY <1>1, <1>2, <1>3, <1>4, PTL

=============================================================================
