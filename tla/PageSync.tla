------------------------------- MODULE PageSync -------------------------------
(***************************************************************************)
(* The dashboard's page beside the topology manager: what a user changes   *)
(* on the page is posted, through the dashboard's proxy, as a live edit of *)
(* the backend.  The page does not wait for a post before it takes the     *)
(* next click, gives up on one after 4.5 s without recalling it, and looks *)
(* at no answer: posts are carried out in any order, or lost, and may be   *)
(* refused, while clients of the backend go on with their requests.  The   *)
(* page shows links that the backend does not have and will not take.      *)
(***************************************************************************)
EXTENDS TopologyManager

CONSTANTS
    Home,           \* the source that the page's own default topology resembles
    PageLinks,      \* the page's default links, with the ends in its order
    Clicked,        \* links a user may click on when the page shows them
    FormLinks,      \* links a user may add
    Cities,         \* cities a user may add, with the links the page gives them
    MaxPosts        \* bound: posts the page sends

Posted(l, status) == [kind |-> "upsert_link", source |-> l.source, target |-> l.target,
                      cost |-> l.cost, type |-> "link", status |-> status]

\* toggleLinkState: the post names no action, cost or type of link; upsert and
\* 1 are the topology manager's defaults, and its type is that of the message.
Toggled(l, status) == Posted([l EXCEPT !.cost = 1], status)

\* addNodeFromPicker: the city is posted, its links are not.
AddedNode(city) == [kind |-> "upsert_node", id |-> city.id]

PagePosts == {Toggled(l, st) : l \in Clicked, st \in {"up", "down"}}
             \cup {Posted(l, "up") : l \in FormLinks}
             \cup {AddedNode(c) : c \in Cities}

ASSUME PageAssumption ==
    /\ Home \in Sources
    /\ ~Live => \A l \in ToSet(load_topology(Home).links) : l.status = "up"
    /\ \A S \in {PageLinks} \cup {c.links : c \in Cities} :
          \A k, l \in S : Joins(k, l) => k = l
    /\ \A c \in Cities : \A l \in c.links : c.id \in Ends(l)
    /\ PagePosts \subseteq Edits
    /\ MaxPosts \in Nat

VARIABLES
    page,           \* state.topology.links: the links shown, with their status
    posts,          \* posts on their way, numbered
    sent,           \* how many the page has sent
    orderly         \* history: nothing but the page's posts, in order, since they agreed

pageVars == <<page, posts, sent, orderly>>

Default == [l \in PageLinks |-> "up"]

PageInit ==
    /\ Init
    /\ page = Default
    /\ posts = {}
    /\ sent = 0
    /\ orderly = (source = Home)

-----------------------------------------------------------------------------
(* The page.                                                                 *)

Post(o) ==
    /\ sent < MaxPosts
    /\ sent' = sent + 1
    /\ posts' = posts \cup {[n |-> sent', op |-> o]}
    /\ UNCHANGED <<orderly, vars>>

Click(l) ==
    /\ l \in DOMAIN page
    /\ LET status == IF page[l] = "up" THEN "down" ELSE "up"
       IN /\ page' = [page EXCEPT ![l] = status]
          /\ Post(Toggled(l, status))

\* The page with the links of S beside its own.
With(S) == [k \in DOMAIN page \cup S |-> IF k \in S THEN "up" ELSE page[k]]

AddLink(l) ==
    /\ ~\E k \in DOMAIN page : Joins(k, l)
    /\ page' = With({l})
    /\ Post(Posted(l, "up"))

AddCity(c) ==
    /\ \A k \in DOMAIN page : c.id \notin Ends(k)
    /\ page' = With(c.links)
    /\ Post(AddedNode(c))

Reset ==
    /\ page' = Default
    /\ Post(Refresh)

-----------------------------------------------------------------------------
(* The posts.                                                                *)

\* A refresh that nothing has been posted after brings page and backend together.
Realigns(p) == p.op = Refresh /\ p.n = sent /\ posts = {p} /\ source = Home

\* The proxy passes a post on, and task t of the topology manager serves it.
CarriedOut(p, t) ==
    /\ p \in posts
    /\ Begin(t, p.op) /\ Record(p.op)
    /\ posts' = posts \ {p}
    /\ orderly' = (Realigns(p) \/ (orderly /\ \A q \in posts : p.n <= q.n))
    /\ UNCHANGED <<page, sent>>

\* The proxy cannot be reached, or cannot reach the topology manager.
Lost(p) ==
    /\ p \in posts
    /\ posts' = posts \ {p}
    /\ orderly' = FALSE
    /\ UNCHANGED <<page, sent, vars>>

-----------------------------------------------------------------------------
(* Everything else that the topology manager serves.                         *)

Disturbs(o) == o = Refresh \/ o \in Edits

ByOthers(t) ==
    \/ \E o \in Ops \ PagePosts :
          /\ Begin(t, o) /\ Record(o)
          /\ orderly' = (orderly /\ ~Disturbs(o))
    \/ /\ ReadDevices(t) \/ ReadLinks(t) \/ Fetched(t) \/ FetchFails(t) \/ Compute(t)
       /\ UNCHANGED <<downed, orderly>>

Backend ==
    \/ \E t \in Tasks : ByOthers(t) /\ UNCHANGED <<page, posts, sent>>
    \/ \E p \in posts, t \in Tasks : CarriedOut(p, t)
    \/ /\ SourceChanges /\ orderly' = FALSE
       /\ UNCHANGED <<downed, page, posts, sent>>

PageNext ==
    \/ Backend /\ Observe
    \/ \E l \in Clicked : Click(l)
    \/ \E l \in FormLinks : AddLink(l)
    \/ \E c \in Cities : AddCity(c)
    \/ Reset
    \/ \E p \in posts : Lost(p)

PageSpec == PageInit /\ [][PageNext]_<<vars, pageVars>>

-----------------------------------------------------------------------------
(* Properties.                                                               *)

Settled == orderly /\ posts = {} /\ cache # None

(***************************************************************************)
(* Once the posts of the page have been carried out in their order, or     *)
(* lost or overtaken ones have been made good by a reset, every link the   *)
(* page shows and the source has is in the backend, up or down as the page *)
(* shows it, although each click posts a whole link and not a status; and  *)
(* every other link the page shows, its user's and those of the cities     *)
(* included, is NOT in the backend: the type the page posts is refused for *)
(* a new link (toggleLinkState, addLinkFromForm, addNodeFromPicker,        *)
(* resetTopology, upsert_link, refresh).                                   *)
(***************************************************************************)
BackendFollowsPage ==
    Settled => \A l \in DOMAIN page :
        LET i == SelectInSeq(snap[cache].links, LAMBDA k : Ends(k) = Ends(l))
        IN IF \E k \in ToSet(load_topology(Home).links) : Ends(k) = Ends(l)
           THEN i # 0 /\ snap[cache].links[i].status = page[l]
           ELSE i = 0

(***************************************************************************)
(* README.md:167-168 and RUNBOOK.md:113-116: after a click on a link a     *)
(* request finds the way that is left.  While one topology was in force,   *)
(* the one of the page, a request gets a path if the page shows one.       *)
(***************************************************************************)
FallbackIsFound ==
    \A t \in Tasks :
        Settled /\ Answered(t) /\ seen[t] = {snap[cache]} =>
            \/ answer[t] = "path"
            \/ ~\E p \in SimplePaths :
                  /\ p[1] = Source /\ p[Len(p)] = Destination
                  /\ Hops(p) \subseteq {Ends(l) : l \in {k \in DOMAIN page : page[k] = "up"}}
=============================================================================
