------------------------------ MODULE MCPageSync ------------------------------
(***************************************************************************)
(* Constants for model checking PageSync.                                  *)
(***************************************************************************)
EXTENDS PageSync, MCTopologyManager

\* The file lacks a link that the page may show, and has one, beside a parallel
\* one, that the page lacks; the page has its links with their ends the other way.
Sparse == [Mesh EXCEPT !.links = <<L("a", "b", 1, "up"), L("b", "c", 1, "up")>>]
PageSources == {Sparse, Faulty}

Shown(s, t, c) == [source |-> s, target |-> t, cost |-> c]
OneLink == {Shown("b", "a", 1)}
Clickable == OneLink \cup {Shown("c", "a", 2)}
AllShown == OneLink \cup {Shown("b", "c", 1), Shown("a", "c", 4)}
MoreLinks == {Shown("c", "a", 2), Shown("b", "c", 2)}
MoreCities == {[id |-> "c", links |-> {Shown("c", "a", 2)}]}
Nothing == {}

AnyEdits == PagePosts \cup StaticEdits
=============================================================================
