----------------------------- MODULE PathEngine -----------------------------
(***************************************************************************)
(* The path search of the path computation engine: the graph it builds     *)
(* from a topology snapshot, and the cheapest paths networkx may return.   *)
(*                                                                         *)
(* A snapshot has nodes, a function from the nodes it lists to whether     *)
(* they are available, and links, in the order of the list.                *)
(***************************************************************************)
EXTENDS Integers, Sequences, FiniteSets, SequencesExt

CONSTANT Nodes

Types == {"physical", "vpn"}

\* A link as the topology manager keeps it: edits assign its type unchecked.
Link == [source : Nodes, target : Nodes, cost : Nat,
         type : Types \cup {"link"}, status : {"up", "down"}]

\* The engine takes a snapshot only if every link has one of the types.
Valid(snapshot) == \A l \in ToSet(snapshot.links) : l.type \in Types

Ends(l) == {l.source, l.target}

Usable(snapshot, l) ==
    /\ l.status = "up"
    /\ \A n \in Ends(l) : n \in DOMAIN snapshot.nodes /\ snapshot.nodes[n]

-----------------------------------------------------------------------------
(* The code: one pass over the links.                                       *)

Weigh(g, e, c) == [d \in DOMAIN g \cup {e} |-> IF d = e THEN c ELSE g[d]]

LastEdgeWins(snapshot, g, l) ==             \* mutant: parallel links overwrite
    IF Usable(snapshot, l) THEN Weigh(g, Ends(l), l.cost) ELSE g
\* Of the usable links between two nodes the cheapest is kept.
AddEdge(snapshot, g, l) ==
    IF ~Usable(snapshot, l) \/ (Ends(l) \in DOMAIN g /\ g[Ends(l)] <= l.cost)
    THEN g
    ELSE Weigh(g, Ends(l), l.cost)

\* The edges of the graph with their costs.
BuildGraph(snapshot) ==
    LET graph[i \in 0 .. Len(snapshot.links)] ==
            IF i = 0 THEN << >> ELSE AddEdge(snapshot, graph[i - 1], snapshot.links[i])
    IN graph[Len(snapshot.links)]

\* What a list of costs comes to.
Total(costs) ==
    LET sum[i \in 0 .. Len(costs)] == IF i = 0 THEN 0 ELSE sum[i - 1] + costs[i]
    IN sum[Len(costs)]

SimplePaths == {p \in UNION {[1 .. n -> Nodes] : n \in 1 .. Cardinality(Nodes)} :
                   IsInjective(p)}

Hops(p) == {{p[i], p[i + 1]} : i \in 1 .. Len(p) - 1}

PathWeight(g, p) == Total([i \in 1 .. Len(p) - 1 |-> g[{p[i], p[i + 1]}]])

\* The paths nx.shortest_path may return; it breaks ties by the order of the lists.
ShortestPaths(snapshot, source, destination) ==
    LET g == BuildGraph(snapshot)
        open == {n \in DOMAIN snapshot.nodes : snapshot.nodes[n]}
        found == {p \in SimplePaths : /\ p[1] = source /\ p[Len(p)] = destination
                                      /\ {source, destination} \subseteq open
                                      /\ Hops(p) \subseteq DOMAIN g}
    IN {p \in found : \A q \in found : PathWeight(g, p) <= PathWeight(g, q)}

-----------------------------------------------------------------------------
(* The reference: what a cheapest path is, without a graph.                  *)

\* The links that join a and b.
Between(snapshot, a, b) ==
    {l \in ToSet(snapshot.links) : Usable(snapshot, l) /\ Ends(l) = {a, b}}

\* Every way of walking p, with the links it takes.
Walks(snapshot, p) ==
    {w \in [1 .. Len(p) - 1 -> ToSet(snapshot.links)] :
        \A i \in DOMAIN w : w[i] \in Between(snapshot, p[i], p[i + 1])}

Price(w) == Total([i \in DOMAIN w |-> w[i].cost])

Reaches(snapshot, p, source, destination) ==
    /\ p[1] = source /\ p[Len(p)] = destination
    /\ \A i \in DOMAIN p : p[i] \in DOMAIN snapshot.nodes /\ snapshot.nodes[p[i]]
    /\ Walks(snapshot, p) # {}

\* No other walk from source to destination is cheaper than the best along p.
IsCheapest(snapshot, p, source, destination) ==
    /\ Reaches(snapshot, p, source, destination)
    /\ \E w \in Walks(snapshot, p) :
          \A q \in SimplePaths :
             Reaches(snapshot, q, source, destination) =>
                 \A v \in Walks(snapshot, q) : Price(w) <= Price(v)
=============================================================================
