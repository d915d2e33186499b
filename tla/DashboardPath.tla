---------------------------- MODULE DashboardPath ----------------------------
(***************************************************************************)
(* The path search of the dashboard's own simulation (dashboard.js): the   *)
(* search for a cheapest path with penalties for poor key pools, and the   *)
(* check that every KMS on the path can give the keys.                     *)
(*                                                                         *)
(* Costs and penalties are in hundredths, so that 0.9 and 0.15 are exact.  *)
(***************************************************************************)
EXTENDS Integers, Sequences, FiniteSets, SequencesExt

CONSTANTS
    NodeOrder,      \* the cities, in the order of the topology
    Links,          \* every link the topology may have
    EndsOf,         \* the two cities of each
    CostOf,         \* the cost of each
    Source, Destination

ASSUME PathAssumption ==
    /\ NodeOrder \in Seq(ToSet(NodeOrder)) /\ "none" \notin ToSet(NodeOrder)
    /\ CostOf \in [Links -> Nat \ {0}]

Cities == ToSet(NodeOrder)

\* No distance yet.
Infinite == 1000000

\* The longest step for which no distance gets there.
MaxStep == Infinite \div (Len(NodeOrder) + 1)

\* computeKeyBudget, for a key of 256 bits.
KeyBudget(keys) == Max({6, 2 * keys * 4})

CanTraverse(n, pool) == pool[n] > (IF n = Destination THEN 0 ELSE 10)

BudgetPenalty(n, pool, budget) ==
    IF n # Destination /\ pool[n] < budget THEN 90 * (budget - pool[n]) ELSE 0

WarnPenalty(n, pool) == IF pool[n] < 35 THEN 15 * (35 - pool[n]) ELSE 0

\* What it takes to go over link e to city n.
StepCost(e, n, pool, budget) ==
    100 * CostOf[e] + BudgetPenalty(n, pool, budget) + WarnPenalty(n, pool)

\* The links that lead from a to b and may be taken.
Roads(a, b, link, pool) ==
    {e \in Links : EndsOf[e] = {a, b} /\ link[e] = "up" /\ CanTraverse(b, pool)}

-----------------------------------------------------------------------------

FirstFound(d, old) == old = Infinite /\ d < Infinite    \* mutant: never improved
Improves(d, old) == d < old

Rank(n) == Min({i \in DOMAIN NodeOrder : NodeOrder[i] = n})

\* What the search knows of a city: dist, prev and visited.
Label == [dist : 0 .. Infinite, prev : Cities \cup {"none"}, visited : BOOLEAN]

Unlabelled ==
    [n \in Cities |-> [dist |-> IF n = Source THEN 0 ELSE Infinite,
                       prev |-> "none", visited |-> FALSE]]

\* The cities that may be visited next.
Open(labels) == {n \in Cities : ~ labels[n].visited /\ labels[n].dist < Infinite}

\* The nearest of them, the first in order if there are several.
Nearest(labels) ==
    CHOOSE n \in Open(labels) : \A m \in Open(labels) :
        \/ labels[n].dist < labels[m].dist
        \/ labels[n].dist = labels[m].dist /\ Rank(n) <= Rank(m)

\* The distance of city n over its neighbour c.
Via(labels, c, n, link, pool, budget) ==
    Min({Infinite} \cup {labels[c].dist + StepCost(e, n, pool, budget) :
                            e \in Roads(c, n, link, pool)})

Relaxed(labels, c, n, link, pool, budget) ==
    LET via == Via(labels, c, n, link, pool, budget)
    IN IF Improves(via, labels[n].dist)
       THEN [labels[n] EXCEPT !.dist = via, !.prev = c]
       ELSE labels[n]

Visit(labels, c, link, pool, budget) ==
    [n \in Cities |-> [Relaxed(labels, c, n, link, pool, budget)
                          EXCEPT !.visited = @ \/ n = c]]

\* The search is over when no city is left that can be reached, or when the
\* nearest one is the destination.
Done(labels) == Open(labels) = {} \/ Nearest(labels) = Destination

\* reconstructPath: the way back from the destination, or <<>>.
Way(labels) ==
    LET way[left \in 0 .. Len(NodeOrder)] ==
            [p \in Seq(Cities) |->
                IF left = 0 \/ p[1] = Source THEN p
                ELSE IF labels[p[1]].prev = "none" THEN << >>
                ELSE way[left - 1][<<labels[p[1]].prev>> \o p]]
    IN way[Len(NodeOrder)][<<Destination>>]

\* computePathByCost: there are no more visits than cities.
ComputePath(link, pool, budget) ==
    LET visit[left \in 0 .. Len(NodeOrder)] ==
            [labels \in [Cities -> Label] |->
                IF left = 0 \/ Done(labels) THEN Way(labels)
                ELSE visit[left - 1][Visit(labels, Nearest(labels), link, pool, budget)]]
    IN visit[Len(NodeOrder)][Unlabelled]

LinksOf(p) == {e \in Links : \E i \in 1 .. Len(p) - 1 : EndsOf[e] = {p[i], p[i + 1]}}

\* allocateKeys: can every KMS on the path give the keys?
Allocates(p, pool, budget) == \A i \in DOMAIN p : pool[p[i]] >= budget

Delta(budget) == Max({4, (budget + 1) \div 2})

Unclamped(p, pool, budget) ==                       \* mutant: keys not checked again
    [n \in Cities |-> IF n \in ToSet(p) THEN pool[n] - Delta(budget) ELSE pool[n]]

\* consumePoolsAlongPath
Consume(p, pool, budget) ==
    [n \in Cities |-> IF n \in ToSet(p)
                      THEN Max({0, pool[n] - Delta(budget)})
                      ELSE pool[n]]

-----------------------------------------------------------------------------
(* The reference.                                                           *)

SimplePaths == {p \in UNION {[1 .. n -> Cities] : n \in 1 .. Len(NodeOrder)} :
                   IsInjective(p) /\ p[1] = Source /\ p[Len(p)] = Destination}

Feasible(p, link, pool) ==
    \A i \in 1 .. Len(p) - 1 : Roads(p[i], p[i + 1], link, pool) # {}

\* The cheapest way from a to its neighbour b.
Hop(a, b, link, pool, budget) ==
    Min({StepCost(e, b, pool, budget) : e \in Roads(a, b, link, pool)})

Length(p, link, pool, budget) ==
    LET upto[i \in 1 .. Len(p)] ==
            IF i = 1 THEN 0
            ELSE upto[i - 1] + Hop(p[i - 1], p[i], link, pool, budget)
    IN upto[Len(p)]

\* p is a cheapest path, or there is none and p is <<>>.
IsBest(p, link, pool, budget) ==
    LET open == {q \in SimplePaths : Feasible(q, link, pool)}
    IN IF open = {} THEN p = << >>
       ELSE p \in open /\ \A q \in open :
               Length(p, link, pool, budget) <= Length(q, link, pool, budget)
=============================================================================
