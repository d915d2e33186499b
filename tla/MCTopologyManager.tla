-------------------------- MODULE MCTopologyManager --------------------------
(***************************************************************************)
(* Constants for model checking TopologyManager.                           *)
(***************************************************************************)
EXTENDS TopologyManager

LinkOf(s, t, c, ty, st) ==
    [source |-> s, target |-> t, cost |-> c, type |-> ty, status |-> st]
L(s, t, c, st) == LinkOf(s, t, c, "physical", st)

AllUp(S) == [n \in S |-> TRUE]

\* The YAML file: a triangle with a dear direct link and, on one side, a
\* virtual link beside the physical one.
Mesh == [nodes |-> AllUp({"a", "b", "c"}),
         links |-> <<L("a", "b", 1, "up"), L("b", "c", 1, "up"),
                     L("a", "c", 4, "up")>>,
         virtual |-> <<[source |-> "c", target |-> "b", cost |-> 4, status |-> "up"]>>]
Faulty == [Mesh EXCEPT !.links[1].status = "down", !.nodes["b"] = FALSE]
StaticSources == {Mesh, Faulty}

\* ONOS lists both directions of a link, which need not agree; a device may
\* be missing that a link already names.
Twins(x, y) == <<L("a", "b", 1, "up"), L("b", "a", 1, "up"),
                 L("b", "c", 1, x), L("c", "b", 1, y), L("c", "c", 1, "up")>>
OnosSources == {[nodes |-> AllUp({"a", "b", "c"}), links |-> Twins("down", "up")],
                [nodes |-> AllUp({"a", "b", "c"}), links |-> Twins("up", "down")],
                Empty}

SetStatus(s, t, st) == [kind |-> "set_status", source |-> s, target |-> t, status |-> st]
Upsert(s, t, c, st) == [kind |-> "upsert_link", source |-> s, target |-> t,
                        cost |-> c, type |-> "physical", status |-> st]
DropLink(s, t) == [kind |-> "remove_link", source |-> s, target |-> t]
AddNode(n)  == [kind |-> "upsert_node", id |-> n]
DropNode(n) == [kind |-> "remove_node", id |-> n]

\* Links are named by their ends in either order.
StaticEdits == {SetStatus("b", "a", "down"), SetStatus("a", "b", "up"),
                SetStatus("b", "c", "down"), Upsert("c", "a", 1, "up"),
                DropLink("c", "a"), AddNode("b"), DropNode("b")}
OnosEdits == {SetStatus("b", "a", "down"), DropNode("c")}
OneEdit == {SetStatus("b", "a", "down")}

\* Tasks are alike.
TaskSymmetry == Permutations(Tasks)
=============================================================================
