--------------------------- MODULE DashboardProofs ---------------------------
(***************************************************************************)
(* What TLAPS proves about Dashboard, for every topology, every pool and   *)
(* any number of jobs and edits: what the path search finds, and what the  *)
(* page shows and keeps however jobs, edits and scenarios interleave.      *)
(***************************************************************************)
EXTENDS Dashboard, WellFoundedInduction, FiniteSetTheorems, TLAPS

-----------------------------------------------------------------------------
(* Numbers.                                                                  *)

\* Induction over the natural numbers, for a set instead of a predicate.
LEMMA CountInduction ==
    ASSUME NEW S \in SUBSET Nat, 0 \in S, \A n \in S : n + 1 \in S
    PROVE  S = Nat
<1> DEFINE R == OpToRel(<, Nat)
<1>1. IsWellFoundedOn(R, Nat)
  BY NatLessThanWellFounded
<1>2. \A x, y \in Nat : x < y <=> <<x, y>> \in R
  BY DEF OpToRel
<1> HIDE DEF R
<1>3. SUFFICES ASSUME S # Nat PROVE FALSE
  OBVIOUS
<1> DEFINE T == Nat \ S
<1>4. T # {} /\ T \subseteq Nat
  BY <1>3
<1> HIDE DEF T
<1>5. PICK x \in T : \A y \in T : ~ (<<y, x>> \in R)
  BY <1>1, <1>4, WFMin
<1>6. x \in Nat /\ x \notin S /\ x # 0
  BY <1>5 DEF T
<1>7. x - 1 \in Nat /\ x - 1 < x /\ (x - 1) + 1 = x
  BY <1>6
<1>8. x - 1 \in T
  BY <1>6, <1>7 DEF T
<1> QED  BY <1>2, <1>5, <1>6, <1>7, <1>8

LEMMA LeastNumber ==
    ASSUME NEW S \in SUBSET Nat, S # {}
    PROVE  /\ Min(S) \in S
           /\ \A x \in S : Min(S) <= x
<1> DEFINE R == OpToRel(<, Nat)
<1>1. IsWellFoundedOn(R, Nat)
  BY NatLessThanWellFounded
<1>2. \A x, y \in Nat : x < y <=> <<x, y>> \in R
  BY DEF OpToRel
<1> HIDE DEF R
<1>3. PICK m \in S : \A y \in S : ~ (<<y, m>> \in R)
  BY <1>1, WFMin
<1>4. \A y \in S : m <= y
  <2> SUFFICES ASSUME NEW y \in S PROVE m <= y
    OBVIOUS
  <2>1. ~ (y < m) /\ y \in Nat /\ m \in Nat
    BY <1>2, <1>3
  <2> QED  BY <2>1
<1> QED  BY <1>3, <1>4 DEF Min

LEMMA MaxOfTwo ==
    ASSUME NEW a \in Int, NEW b \in Int
    PROVE  /\ Max({a, b}) \in {a, b}
           /\ Max({a, b}) >= a /\ Max({a, b}) >= b
<1>1. \E x \in {a, b} : \A y \in {a, b} : x >= y
  OBVIOUS
<1> QED  BY <1>1 DEF Max

LEMMA Budgeted == ASSUME NEW k \in Keys PROVE KeyBudget(k) \in Nat
<1> DEFINE need == 2 * k * 4
<1>1. need \in Nat
  BY DashboardAssumption
<1> HIDE DEF need
<1>2. Max({6, need}) \in {6, need}
  BY <1>1, MaxOfTwo
<1>3. Max({6, need}) \in Nat
  BY <1>1, <1>2
<1> QED  BY <1>3 DEF KeyBudget, need

\* What no distance after i visits exceeds.
Cap(i) == MaxStep * i

LEMMA CityFacts ==
    /\ Len(NodeOrder) \in Nat \ {0}
    /\ IsFiniteSet(Cities) /\ Cardinality(Cities) <= Len(NodeOrder)
    /\ Source \in Cities /\ Destination \in Cities /\ Source # Destination
    /\ "none" \notin Cities
<1>1. Source \in Cities /\ Destination \in Cities /\ Source # Destination
  BY DashboardAssumption
<1>2. NodeOrder \in Seq(Cities) /\ "none" \notin Cities
  BY PathAssumption DEF Cities
<1>3. Len(NodeOrder) \in Nat /\ DOMAIN NodeOrder = 1 .. Len(NodeOrder)
  BY <1>2
<1>4. NodeOrder \in Surjection(1 .. Len(NodeOrder), Cities)
  BY <1>2, <1>3 DEF Surjection, Cities, ToSet
<1>5. IsFiniteSet(1 .. Len(NodeOrder))
  BY <1>3, FS_Interval
<1>6. IsFiniteSet(Cities) /\ Cardinality(Cities) <= Cardinality(1 .. Len(NodeOrder))
  BY <1>4, <1>5, FS_Surjection
<1>7. Cardinality(1 .. Len(NodeOrder)) = Len(NodeOrder)
  <2>1. 0 \in Int /\ 1 \in Int /\ Len(NodeOrder) \in Int
    BY <1>3
  <2>2. Cardinality(1 .. Len(NodeOrder)) = IF 1 > Len(NodeOrder) THEN 0 ELSE Len(NodeOrder) - 1 + 1
    BY <2>1, FS_Interval
  <2> QED  BY <1>3, <2>2
<1>8. Len(NodeOrder) # 0
  BY <1>1, <1>3 DEF Cities, ToSet
<1> QED  BY <1>1, <1>2, <1>3, <1>6, <1>7, <1>8

LEMMA CapFacts ==
    /\ MaxStep \in Nat /\ Cap(0) = 0
    /\ \A i \in Nat : Cap(i) \in Nat /\ Cap(i + 1) = Cap(i) + MaxStep
    /\ \A i \in 0 .. Len(NodeOrder) : Cap(i) < Infinite
<1> DEFINE N == Len(NodeOrder)
<1>1. N \in Nat
  BY CityFacts
<1>2. MaxStep \in Nat /\ MaxStep * (N + 1) <= Infinite
  <2> HIDE DEF N
  <2>1. 1000000 \div (N + 1) \in Nat /\ (1000000 \div (N + 1)) * (N + 1) <= 1000000
    BY <1>1
  <2> QED  BY <2>1 DEF MaxStep, Infinite, N
<1> HIDE DEF N
<1>3. \A i \in Nat : Cap(i) \in Nat /\ Cap(i + 1) = Cap(i) + MaxStep
  BY <1>2 DEF Cap
<1>4. ASSUME NEW i \in 0 .. N PROVE Cap(i) < Infinite
  <2>1. CASE MaxStep = 0
    BY <1>2, <2>1 DEF Cap, Infinite
  <2>2. CASE MaxStep # 0
    <3>1. MaxStep * i < MaxStep * (N + 1)
      BY <1>1, <1>2, <2>2
    <3> QED  BY <1>1, <1>2, <3>1 DEF Cap, Infinite
  <2> QED  BY <2>1, <2>2
<1> QED  BY <1>2, <1>3, <1>4 DEF Cap, N

-----------------------------------------------------------------------------
(* One visit of the search.                                                  *)

\* Every step is longer than nothing and short enough.
Steps(p, b) == \A e \in Links, n \in Cities : StepCost(e, n, p, b) \in 1 .. MaxStep

LEMMA StepsBounded ==
    ASSUME NEW p \in [Cities -> 0 .. 100], NEW k \in Keys
    PROVE  Steps(p, KeyBudget(k))
<1> DEFINE b == KeyBudget(k)
<1> SUFFICES ASSUME NEW e \in Links, NEW n \in Cities
             PROVE  StepCost(e, n, p, b) \in 1 .. MaxStep
  BY DEF Steps
<1>1. CostOf[e] \in Nat \ {0} /\ p[n] \in 0 .. 100 /\ b \in Nat /\ MaxStep \in Nat
  BY PathAssumption, CapFacts, Budgeted
<1>2. 100 * CostOf[e] + 90 * b + 15 * 35 <= MaxStep
  BY DashboardAssumption
<1> HIDE DEF b
<1>3. BudgetPenalty(n, p, b) \in 0 .. 90 * b
  BY <1>1 DEF BudgetPenalty
<1>4. WarnPenalty(n, p) \in 0 .. 15 * 35
  BY <1>1 DEF WarnPenalty
<1> QED  BY <1>1, <1>2, <1>3, <1>4 DEF StepCost

LEMMA MaxStepIs == MaxStep \in Nat
BY CapFacts

LEMMA HopIs ==
    ASSUME NEW l, NEW p, NEW b, Steps(p, b), NEW c, NEW n \in Cities, Roads(c, n, l, p) # {}
    PROVE  /\ Hop(c, n, l, p, b) \in 1 .. MaxStep
           /\ \E e \in Roads(c, n, l, p) : Hop(c, n, l, p, b) = StepCost(e, n, p, b)
           /\ \A e \in Roads(c, n, l, p) : Hop(c, n, l, p, b) <= StepCost(e, n, p, b)
<1> DEFINE S == {StepCost(e, n, p, b) : e \in Roads(c, n, l, p)}
<1>1. \A e \in Roads(c, n, l, p) : StepCost(e, n, p, b) \in 1 .. MaxStep
  BY DEF Steps, Roads
<1>2. S \in SUBSET Nat /\ S # {}
  <2>1. \A e \in Roads(c, n, l, p) : StepCost(e, n, p, b) \in Nat
    BY <1>1, CapFacts
  <2> QED  BY <2>1
<1>3. Hop(c, n, l, p, b) = Min(S)
  BY DEF Hop
<1>4. Min(S) \in S /\ \A x \in S : Min(S) <= x
  <2> HIDE DEF S
  <2> QED  BY <1>2, LeastNumber
<1> QED  BY <1>1, <1>3, <1>4

LEMMA LabelIs ==
    /\ Infinite \in Nat
    /\ \A x \in Label : /\ x.dist \in Nat /\ x.dist <= Infinite
                        /\ x.prev \in Cities \cup {"none"} /\ x.visited \in BOOLEAN
<1>1. Infinite \in Nat
  BY DEF Infinite
<1> QED  BY <1>1 DEF Label

\* The way over c, for a city c that is not as far as Infinite.
LEMMA ViaIs ==
    ASSUME NEW l, NEW p, NEW b, Steps(p, b), NEW f \in [Cities -> Label],
           NEW c \in Cities, NEW n \in Cities, f[c].dist + MaxStep < Infinite
    PROVE  Via(f, c, n, l, p, b) =
             IF Roads(c, n, l, p) = {} THEN Infinite ELSE f[c].dist + Hop(c, n, l, p, b)
<1> DEFINE S == {StepCost(e, n, p, b) : e \in Roads(c, n, l, p)}
           T == {Infinite} \cup {f[c].dist + StepCost(e, n, p, b) : e \in Roads(c, n, l, p)}
<1>1. f[c].dist \in Nat /\ Infinite \in Nat
  BY LabelIs
<1>2. Via(f, c, n, l, p, b) = Min(T)
  BY DEF Via
<1>3. \A e \in Roads(c, n, l, p) : StepCost(e, n, p, b) \in 1 .. MaxStep
  BY DEF Steps, Roads
<1>4. T \in SUBSET Nat /\ T # {}
  <2> DEFINE d == f[c].dist
  <2>1. d \in Nat
    BY <1>1
  <2> HIDE DEF d
  <2>2. \A e \in Roads(c, n, l, p) : d + StepCost(e, n, p, b) \in Nat
    BY <1>3, <2>1, MaxStepIs
  <2> QED  BY <1>1, <2>2 DEF d
<1>5. Min(T) \in T /\ \A x \in T : Min(T) <= x
  <2> HIDE DEF T
  <2> QED  BY <1>4, LeastNumber
<1>6. CASE Roads(c, n, l, p) = {}
  <2>1. T = {Infinite}
    BY <1>6
  <2> QED  BY <1>2, <1>5, <1>6, <2>1
<1>7. CASE Roads(c, n, l, p) # {}
  <2> DEFINE h == Hop(c, n, l, p, b)
  <2>1. /\ h \in 1 .. MaxStep
        /\ \E e \in Roads(c, n, l, p) : h = StepCost(e, n, p, b)
        /\ \A e \in Roads(c, n, l, p) : h <= StepCost(e, n, p, b)
    BY <1>7, HopIs
  <2> HIDE DEF h
  <2>2. f[c].dist + h \in T
    BY <2>1
  <2>3. \A x \in T : f[c].dist + h <= x
    <3> DEFINE d == f[c].dist
    <3>1. d \in Nat /\ d + MaxStep < Infinite
      BY <1>1
    <3> HIDE DEF d
    <3>2. \A e \in Roads(c, n, l, p) : d + h <= d + StepCost(e, n, p, b)
      BY <1>3, <2>1, <3>1, MaxStepIs
    <3>3. d + h <= Infinite
      BY <1>1, <2>1, <3>1, MaxStepIs
    <3> QED  BY <3>2, <3>3 DEF d
  <2>4. Min(T) = f[c].dist + h
    <3> DEFINE m == Min(T)
               s == f[c].dist + h
    <3>1. m \in Nat /\ s \in Nat /\ m <= s /\ s <= m
      BY <1>1, <1>4, <1>5, <2>2, <2>3
    <3> HIDE DEF m, s
    <3>2. m = s
      BY <3>1
    <3> QED  BY <3>2 DEF m, s
  <2> QED  BY <1>2, <1>7, <2>4 DEF h
<1> QED  BY <1>6, <1>7

\* What a visit of c makes of city n.
LEMMA VisitIs ==
    ASSUME NEW l, NEW p, NEW b, Steps(p, b), NEW f \in [Cities -> Label],
           NEW c \in Cities, f[c].dist + MaxStep < Infinite,
           NEW n \in Cities
    PROVE  LET g == Visit(f, c, l, p, b)
               d == f[c].dist + Hop(c, n, l, p, b)
           IN /\ g[n].visited = (f[n].visited \/ n = c)
              /\ \/ /\ Roads(c, n, l, p) # {} /\ d < f[n].dist
                    /\ g[n].dist = d /\ g[n].prev = c
                 \/ /\ Roads(c, n, l, p) = {} \/ ~ (d < f[n].dist)
                    /\ g[n].dist = f[n].dist /\ g[n].prev = f[n].prev
              /\ g[n] \in Label
<1> DEFINE g == Visit(f, c, l, p, b)
           d == f[c].dist + Hop(c, n, l, p, b)
           v == Via(f, c, n, l, p, b)
           r == Relaxed(f, c, n, l, p, b)
<1>1. f[n] \in Label /\ f[c].dist \in Nat /\ Infinite \in Nat
  BY LabelIs
<1>2. v = IF Roads(c, n, l, p) = {} THEN Infinite ELSE d
  BY ViaIs
<1>3. Roads(c, n, l, p) # {} => d \in 0 .. Infinite
  <2>1. Roads(c, n, l, p) # {} => Hop(c, n, l, p, b) \in 1 .. MaxStep
    BY HopIs
  <2> DEFINE h == Hop(c, n, l, p, b)
             e == f[c].dist
  <2>2. (Roads(c, n, l, p) # {} => h \in 1 .. MaxStep) /\ e \in Nat /\ e + MaxStep < Infinite
    BY <1>1, <2>1
  <2> HIDE DEF h, e
  <2>3. Roads(c, n, l, p) # {} => e + h \in 0 .. Infinite
    BY <1>1, <2>2, MaxStepIs
  <2> QED  BY <2>3 DEF h, e
<1>4. r = IF v < f[n].dist THEN [f[n] EXCEPT !.dist = v, !.prev = c] ELSE f[n]
  BY DEF Relaxed, Improves
<1>5. g[n] = [r EXCEPT !.visited = @ \/ n = c]
  BY DEF Visit
<1> HIDE DEF g, d, v, r
<1>6. f[n].dist \in 0 .. Infinite /\ f[n].visited \in BOOLEAN /\ f[n].prev \in Cities \cup {"none"}
  BY <1>1 DEF Label
<1>7. CASE Roads(c, n, l, p) # {} /\ d < f[n].dist
  <2>1. r = [f[n] EXCEPT !.dist = d, !.prev = c]
    BY <1>2, <1>4, <1>7
  <2>2. r \in Label /\ r.dist = d /\ r.prev = c /\ r.visited = f[n].visited
    BY <1>1, <1>3, <1>7, <2>1 DEF Label
  <2>3. /\ g[n] \in Label /\ g[n].dist = d /\ g[n].prev = c
        /\ g[n].visited = (f[n].visited \/ n = c)
    BY <1>5, <2>2 DEF Label
  <2> QED  BY <1>7, <2>3 DEF g, d
<1>8. CASE Roads(c, n, l, p) = {} \/ ~ (d < f[n].dist)
  <2>1. r = f[n]
    BY <1>1, <1>2, <1>4, <1>6, <1>8
  <2>2. /\ g[n] \in Label /\ g[n].dist = f[n].dist /\ g[n].prev = f[n].prev
        /\ g[n].visited = (f[n].visited \/ n = c)
    BY <1>1, <1>5, <2>1 DEF Label
  <2> QED  BY <1>8, <2>2 DEF g, d
<1> QED  BY <1>7, <1>8

-----------------------------------------------------------------------------
(* What the search knows after i visits, over links l and pools p.           *)

\* The way over c is the one n is labelled with.
Leads(f, c, n, l, p, b) ==
    /\ c \in Cities /\ Roads(c, n, l, p) # {}
    /\ f[n].dist = f[c].dist + Hop(c, n, l, p, b)

Seen(f) == {n \in Cities : f[n].visited}

Labelled(f)   == f \in [Cities -> Label] /\ f[Source].dist = 0
Capped(f, i)  == \A n \in Cities : f[n].dist < Infinite => f[n].dist <= Cap(i)
Traced(f, l, p, b) ==
    \A n \in Cities \ {Source} :
        \/ f[n].dist = Infinite /\ f[n].prev = "none"
        \/ /\ f[n].dist < Infinite /\ Leads(f, f[n].prev, n, l, p, b)
           /\ f[f[n].prev].visited
InOrder(f) ==
    \A u \in Seen(f) : /\ f[u].dist < Infinite
                       /\ \A n \in Cities : ~ f[n].visited => f[u].dist <= f[n].dist
Settles(f, l, p, b) ==
    \A u \in Seen(f), n \in Cities :
        Roads(u, n, l, p) # {} => f[n].dist <= f[u].dist + Hop(u, n, l, p, b)

SearchInv(f, i, l, p, b) ==
    /\ Labelled(f) /\ Capped(f, i) /\ Traced(f, l, p, b) /\ InOrder(f) /\ Settles(f, l, p, b)
    /\ Cardinality(Seen(f)) = i

LEMMA SearchBegins ==
    ASSUME NEW l, NEW p, NEW b
    PROVE  SearchInv(Unlabelled, 0, l, p, b)
<1> DEFINE f == Unlabelled
<1>1. Source \in Cities /\ Infinite \in Nat /\ 0 < Infinite
  BY CityFacts DEF Infinite
<1>2. \A n \in Cities : /\ f[n].dist = IF n = Source THEN 0 ELSE Infinite
                        /\ f[n].prev = "none" /\ f[n].visited = FALSE
  BY DEF Unlabelled
<1>3. f \in [Cities -> Label]
  <2>1. \A n \in Cities : [dist |-> IF n = Source THEN 0 ELSE Infinite,
                           prev |-> "none", visited |-> FALSE] \in Label
    BY <1>1 DEF Label
  <2> QED  BY <2>1 DEF Unlabelled
<1> HIDE DEF f
<1>4. Labelled(f)
  BY <1>1, <1>2, <1>3 DEF Labelled
<1>5. Seen(f) = {}
  BY <1>2 DEF Seen
<1>6. Cardinality(Seen(f)) = 0
  <2>1. Cardinality({}) = 0
    BY FS_EmptySet
  <2> QED  BY <1>5, <2>1
<1>7. InOrder(f) /\ Settles(f, l, p, b)
  BY <1>5 DEF InOrder, Settles
<1>8. Capped(f, 0)
  <2>1. Cap(0) = 0
    BY CapFacts
  <2>2. \A n \in Cities : f[n].dist \in {0, Infinite}
    BY <1>2
  <2>3. \A n \in Cities : f[n].dist < Infinite => f[n].dist <= 0
    BY <1>1, <2>2
  <2> QED  BY <2>1, <2>3 DEF Capped
<1>9. Traced(f, l, p, b)
  <2>1. \A n \in Cities \ {Source} : f[n].dist = Infinite /\ f[n].prev = "none"
    BY <1>2
  <2> QED  BY <2>1 DEF Traced
<1> QED  BY <1>4, <1>6, <1>7, <1>8, <1>9 DEF SearchInv, f

LEMMA RankIs == ASSUME NEW n \in Cities PROVE Rank(n) \in Nat
<1> DEFINE S == {i \in DOMAIN NodeOrder : NodeOrder[i] = n}
<1>1. S \in SUBSET Nat
  BY PathAssumption, CityFacts DEF Cities
<1>2. S # {}
  BY DEF Cities, ToSet
<1>3. Rank(n) = Min(S)
  BY DEF Rank
<1> HIDE DEF S
<1> QED  BY <1>1, <1>2, <1>3, LeastNumber

LEMMA NearestIs ==
    ASSUME NEW f \in [Cities -> Label], Open(f) # {}
    PROVE  /\ Nearest(f) \in Open(f)
           /\ \A m \in Open(f) : f[Nearest(f)].dist <= f[m].dist
<1> DEFINE Near(n, m) == \/ f[n].dist < f[m].dist
                         \/ f[n].dist = f[m].dist /\ Rank(n) <= Rank(m)
           D == {f[n].dist : n \in Open(f)}
<1>1. \A n \in Open(f) : n \in Cities /\ f[n].dist \in Nat /\ Rank(n) \in Nat
  BY LabelIs, RankIs DEF Open
<1>2. D \in SUBSET Nat /\ D # {}
  BY <1>1
<1>3. PICK d \in D : \A x \in D : d <= x
  <2> HIDE DEF D
  <2> QED  BY <1>2, LeastNumber
<1> DEFINE R == {Rank(n) : n \in {m \in Open(f) : f[m].dist = d}}
<1>4. R \in SUBSET Nat /\ R # {}
  BY <1>1, <1>3
<1>5. PICK r \in R : \A x \in R : r <= x
  <2> HIDE DEF R
  <2> QED  BY <1>4, LeastNumber
<1>6. PICK n \in Open(f) : f[n].dist = d /\ Rank(n) = r
  BY <1>5
<1>7. \A m \in Open(f) : Near(n, m)
  <2> SUFFICES ASSUME NEW m \in Open(f) PROVE Near(n, m)
    OBVIOUS
  <2>1. f[m].dist \in Nat /\ d \in Nat /\ d <= f[m].dist
    BY <1>1, <1>2, <1>3
  <2>2. CASE f[m].dist = d
    <3>1. Rank(m) \in R
      BY <2>2
    <3> QED  BY <1>5, <1>6, <2>2, <3>1
  <2>3. CASE f[m].dist # d
    BY <1>6, <2>1, <2>3
  <2> QED  BY <2>2, <2>3
<1>8. Nearest(f) = CHOOSE x \in Open(f) : \A m \in Open(f) : Near(x, m)
  BY DEF Nearest
<1>9. Nearest(f) \in Open(f) /\ \A m \in Open(f) : Near(Nearest(f), m)
  <2> HIDE DEF Near
  <2> QED  BY <1>7, <1>8
<1>10. \A m \in Open(f) : f[Nearest(f)].dist \in Nat /\ f[m].dist \in Nat
  BY <1>1, <1>9
<1> QED  BY <1>9, <1>10

LEMMA VisitKeeps ==
    ASSUME NEW l, NEW p, NEW b, Steps(p, b), NEW f, NEW i \in Nat, i < Len(NodeOrder),
           SearchInv(f, i, l, p, b), Open(f) # {}
    PROVE  SearchInv(Visit(f, Nearest(f), l, p, b), i + 1, l, p, b)
<1> DEFINE c == Nearest(f)
           g == Visit(f, c, l, p, b)
           Far(n) == f[c].dist + Hop(c, n, l, p, b)
           Moved(n) == /\ Roads(c, n, l, p) # {} /\ Far(n) < f[n].dist
                       /\ g[n].dist = Far(n) /\ g[n].prev = c
           Same(n) == /\ Roads(c, n, l, p) = {} \/ ~ (Far(n) < f[n].dist)
                      /\ g[n].dist = f[n].dist /\ g[n].prev = f[n].prev
<1>1. f \in [Cities -> Label] /\ f[Source].dist = 0
  BY DEF SearchInv, Labelled
<1>2. /\ c \in Open(f) /\ c \in Cities /\ ~ f[c].visited /\ f[c].dist < Infinite
      /\ \A m \in Open(f) : f[c].dist <= f[m].dist
  BY <1>1, NearestIs DEF Open
<1> HIDE DEF c
<1>3. /\ \A n \in Cities : f[n].dist \in Nat /\ f[n].dist <= Infinite /\ f[n] \in Label
      /\ Infinite \in Nat
  BY <1>1, LabelIs
<1>4. /\ MaxStep \in Nat /\ Cap(i) \in Nat /\ Cap(i + 1) = Cap(i) + MaxStep
      /\ Cap(i + 1) < Infinite
  <2>1. i + 1 \in 0 .. Len(NodeOrder)
    BY CityFacts
  <2> QED  BY <2>1, CapFacts
<1>5. f[c].dist <= Cap(i)
  BY <1>2 DEF SearchInv, Capped
<1>6. f[c].dist \in Nat /\ f[c].dist + MaxStep < Infinite
  BY <1>2, <1>3, <1>4, <1>5
<1>7. ASSUME NEW n \in Cities
      PROVE  /\ g[n].visited = (f[n].visited \/ n = c)
             /\ Moved(n) \/ Same(n)
             /\ g[n] \in Label
  BY ZenonT(60), <1>1, <1>2, <1>6, VisitIs
<1>8. \A n \in Cities : Roads(c, n, l, p) # {} =>
         /\ Hop(c, n, l, p, b) \in 1 .. MaxStep
         /\ Far(n) \in Nat /\ Far(n) > f[c].dist /\ Far(n) <= Cap(i + 1)
  <2> SUFFICES ASSUME NEW n \in Cities, Roads(c, n, l, p) # {}
               PROVE  /\ Hop(c, n, l, p, b) \in 1 .. MaxStep
                      /\ Far(n) \in Nat /\ Far(n) > f[c].dist /\ Far(n) <= Cap(i + 1)
    OBVIOUS
  <2> DEFINE h == Hop(c, n, l, p, b)
  <2>1. h \in 1 .. MaxStep
    BY HopIs
  <2> HIDE DEF h
  <2> QED  BY <1>4, <1>5, <1>6, <2>1 DEF h
<1>9. g = [n \in Cities |-> g[n]]
  BY DEF Visit
<1> HIDE DEF g
<1>10. g \in [Cities -> Label]
  BY <1>7, <1>9
<1>11. \A n \in Cities : g[n].dist \in Nat /\ g[n].dist <= f[n].dist
  BY <1>3, <1>7, <1>8
\* What is visited has its final distance.
<1>12. \A n \in Seen(f) \cup {c} : n \in Cities /\ g[n].dist = f[n].dist /\ g[n].prev = f[n].prev
  <2> SUFFICES ASSUME NEW n \in Seen(f) \cup {c}
               PROVE  n \in Cities /\ g[n].dist = f[n].dist /\ g[n].prev = f[n].prev
    OBVIOUS
  <2>1. n \in Cities
    BY <1>2 DEF Seen
  <2>2. f[n].dist <= f[c].dist
    BY <1>2, <1>3, <2>1 DEF SearchInv, InOrder
  <2>3. ~ Moved(n)
    BY <1>3, <1>6, <1>8, <2>1, <2>2
  <2> QED  BY <1>7, <2>1, <2>3
<1>13. Seen(g) = Seen(f) \cup {c}
  BY <1>2, <1>7 DEF Seen
<1>14. Labelled(g)
  <2>1. Source \in Cities /\ g[Source].dist <= 0 /\ g[Source].dist \in Nat
    BY <1>1, <1>11, CityFacts
  <2> QED  BY <1>10, <2>1 DEF Labelled
<1>15. Capped(g, i + 1)
  <2> SUFFICES ASSUME NEW n \in Cities, g[n].dist < Infinite
               PROVE  g[n].dist <= Cap(i + 1)
    BY DEF Capped
  <2>1. CASE Moved(n)
    BY <1>8, <2>1
  <2>2. CASE Same(n)
    <3>1. f[n].dist <= Cap(i)
      BY <2>2 DEF SearchInv, Capped
    <3> QED  BY <1>3, <1>4, <2>2, <3>1
  <2> QED  BY <1>7, <2>1, <2>2
<1>16. Traced(g, l, p, b)
  <2> SUFFICES ASSUME NEW n \in Cities \ {Source}
               PROVE  \/ g[n].dist = Infinite /\ g[n].prev = "none"
                      \/ /\ g[n].dist < Infinite /\ Leads(g, g[n].prev, n, l, p, b)
                         /\ g[g[n].prev].visited
    BY DEF Traced
  <2>1. CASE Moved(n)
    <3>1. g[n].dist < Infinite
      <4>1. g[n].dist \in Nat /\ g[n].dist <= Cap(i + 1)
        BY <1>8, <2>1
      <4> HIDE DEF Moved
      <4> QED  BY <1>3, <1>4, <4>1
    <3>2. g[n].prev = c /\ g[c].dist = f[c].dist /\ g[c].visited
      BY <1>2, <1>7, <1>12, <2>1
    <3>3. Leads(g, c, n, l, p, b)
      BY <1>2, <2>1, <3>2 DEF Leads
    <3> QED  BY <3>1, <3>2, <3>3
  <2>2. CASE Same(n)
    <3>1. CASE f[n].dist = Infinite /\ f[n].prev = "none"
      <4>1. g[n].dist = Infinite /\ g[n].prev = "none"
        BY <2>2, <3>1
      <4> QED  BY <4>1
    <3>2. CASE /\ f[n].dist < Infinite /\ Leads(f, f[n].prev, n, l, p, b)
               /\ f[f[n].prev].visited
      <4> DEFINE d == f[n].prev
      <4>1. d \in Cities /\ f[d].visited /\ Leads(f, d, n, l, p, b)
        BY <3>2 DEF Leads
      <4> HIDE DEF d
      <4>2. g[d].dist = f[d].dist /\ g[d].visited
        BY <1>7, <1>12, <4>1 DEF Seen
      <4>3. Leads(g, d, n, l, p, b)
        BY <2>2, <4>1, <4>2 DEF Leads
      <4> QED  BY <2>2, <3>2, <4>2, <4>3 DEF d
    <3> QED  BY <3>1, <3>2 DEF SearchInv, Traced
  <2> QED  BY <1>7, <2>1, <2>2
<1>17. InOrder(g)
  <2> SUFFICES ASSUME NEW u \in Seen(g)
               PROVE  /\ g[u].dist < Infinite
                      /\ \A n \in Cities : ~ g[n].visited => g[u].dist <= g[n].dist
    BY DEF InOrder
  <2>1. u \in Cities /\ g[u].dist = f[u].dist
    BY <1>12, <1>13
  <2>2. f[u].dist < Infinite /\ f[u].dist <= f[c].dist
    BY <1>2, <1>3, <1>13 DEF SearchInv, InOrder
  <2>3. ASSUME NEW n \in Cities, ~ g[n].visited PROVE f[u].dist <= g[n].dist
    <3>1. ~ f[n].visited
      BY <1>7, <2>3
    <3>2. CASE Moved(n)
      <4>1. g[n].dist \in Nat /\ g[n].dist > f[c].dist
        BY <1>8, <3>2
      <4> QED  BY <1>3, <1>6, <2>1, <2>2, <4>1
    <3>3. CASE Same(n)
      <4>1. f[c].dist <= f[n].dist
        <5>1. CASE f[n].dist < Infinite
          BY <1>2, <3>1, <5>1 DEF Open
        <5>2. CASE ~ (f[n].dist < Infinite)
          BY <1>2, <1>3, <5>2
        <5> QED  BY <5>1, <5>2
      <4> QED  BY <1>3, <1>6, <2>1, <2>2, <3>3, <4>1
    <3> QED  BY <1>7, <3>2, <3>3
  <2> QED  BY <2>1, <2>2, <2>3
<1>18. Settles(g, l, p, b)
  <2> SUFFICES ASSUME NEW u \in Seen(g), NEW n \in Cities, Roads(u, n, l, p) # {}
               PROVE  g[n].dist <= g[u].dist + Hop(u, n, l, p, b)
    BY DEF Settles
  <2> DEFINE h == Hop(u, n, l, p, b)
  <2>1. u \in Cities /\ g[u].dist = f[u].dist /\ h \in Nat
    BY <1>4, <1>12, <1>13, HopIs
  <2>2. CASE u \in Seen(f)
    <3>1. f[n].dist <= f[u].dist + h
      BY <2>2 DEF SearchInv, Settles
    <3> HIDE DEF h
    <3> QED  BY <1>3, <1>11, <2>1, <3>1 DEF h
  <2>3. CASE u = c
    <3>1. g[n].dist <= Far(n)
      BY <1>3, <1>7, <1>8, <2>3
    <3> QED  BY <2>1, <2>3, <3>1
  <2> QED  BY <1>13, <2>2, <2>3
<1>19. Cardinality(Seen(g)) = i + 1
  <2>1. Seen(f) \in SUBSET Cities /\ c \notin Seen(f)
    BY <1>2 DEF Seen
  <2>2. IsFiniteSet(Seen(f))
    BY <2>1, CityFacts, FS_Subset
  <2>3. Cardinality(Seen(f)) = i
    BY DEF SearchInv
  <2> QED  BY <1>13, <2>1, <2>2, <2>3, FS_AddElement
<1> QED  BY <1>14, <1>15, <1>16, <1>17, <1>18, <1>19 DEF SearchInv, g, c

-----------------------------------------------------------------------------
(* The length of a path.                                                     *)

\* One round of the recursion of Length, up to position n.
Upto(u, q, n, l, p, b) ==
    [i \in 1 .. n |-> IF i = 1 THEN 0 ELSE u[i - 1] + Hop(q[i - 1], q[i], l, p, b)]

LEMMA UptoExists ==
    ASSUME NEW q, NEW l, NEW p, NEW b, NEW n \in Nat
    PROVE  \E u : u = Upto(u, q, n, l, p, b)
<1> DEFINE T == {k \in Nat : \E u : u = Upto(u, q, k, l, p, b)}
<1>1. 0 \in T
  <2> DEFINE u == [i \in 1 .. 0 |-> 0]
  <2>1. u = Upto(u, q, 0, l, p, b)
    BY DEF Upto
  <2> QED  BY <2>1
<1>2. ASSUME NEW k \in T PROVE k + 1 \in T
  <2>1. PICK u : u = Upto(u, q, k, l, p, b)
    OBVIOUS
  <2> DEFINE g == [i \in 1 .. k + 1 |->
                      IF i <= k THEN u[i]
                      ELSE IF i = 1 THEN 0 ELSE u[i - 1] + Hop(q[i - 1], q[i], l, p, b)]
             w == Upto(g, q, k + 1, l, p, b)
  <2>2. \A i \in 1 .. k + 1 : g[i] = w[i]
    <3> SUFFICES ASSUME NEW i \in 1 .. k + 1 PROVE g[i] = w[i]
      OBVIOUS
    <3>0. w[i] = IF i = 1 THEN 0 ELSE g[i - 1] + Hop(q[i - 1], q[i], l, p, b)
      BY DEF Upto
    <3>1. CASE i <= k
      <4>1. u[i] = IF i = 1 THEN 0 ELSE u[i - 1] + Hop(q[i - 1], q[i], l, p, b)
        <5>1. Upto(u, q, k, l, p, b)[i] = IF i = 1 THEN 0 ELSE u[i - 1] + Hop(q[i - 1], q[i], l, p, b)
          BY <3>1 DEF Upto
        <5> QED  BY <2>1, <5>1
      <4>2. g[i] = u[i] /\ (i # 1 => g[i - 1] = u[i - 1])
        BY <3>1
      <4> HIDE DEF g, w
      <4> QED  BY <3>0, <4>1, <4>2
    <3>2. CASE i = k + 1
      <4>1. g[i] = IF i = 1 THEN 0 ELSE u[i - 1] + Hop(q[i - 1], q[i], l, p, b)
        BY <3>2
      <4>2. i # 1 => g[i - 1] = u[i - 1]
        BY <3>2
      <4> HIDE DEF g, w
      <4> QED  BY <3>0, <4>1, <4>2
    <3> QED  BY <3>1, <3>2
  <2>3. g = w
    BY <2>2 DEF Upto
  <2> HIDE DEF g
  <2> QED  BY <2>3
<1>3. T = Nat
  <2> HIDE DEF T
  <2>1. T \in SUBSET Nat
    BY DEF T
  <2> QED  BY <1>1, <1>2, <2>1, CountInduction
<1> QED  BY <1>3

LEMMA LengthIs ==
    ASSUME NEW q, NEW l, NEW p, NEW b, Len(q) \in Nat \ {0}
    PROVE  \E u : /\ u[1] = 0 /\ Length(q, l, p, b) = u[Len(q)]
                  /\ \A i \in 2 .. Len(q) : u[i] = u[i - 1] + Hop(q[i - 1], q[i], l, p, b)
<1> DEFINE u == CHOOSE u : u = Upto(u, q, Len(q), l, p, b)
<1>1. u = Upto(u, q, Len(q), l, p, b)
  BY UptoExists
<1>2. Length(q, l, p, b) = u[Len(q)]
  BY DEF Length, Upto
<1> HIDE DEF u
<1> DEFINE w == Upto(u, q, Len(q), l, p, b)
<1>3. w[1] = 0
  BY DEF Upto
<1>4. \A i \in 2 .. Len(q) : w[i] = u[i - 1] + Hop(q[i - 1], q[i], l, p, b)
  BY DEF Upto
<1> HIDE DEF w
<1>5. w = u
  BY <1>1 DEF w
<1> QED  BY <1>2, <1>3, <1>4, <1>5

-----------------------------------------------------------------------------
(* Nothing is nearer than what the search has found when it ends.            *)

Final(f) == \A m \in Open(f) : f[Destination].dist <= f[m].dist

LEMMA DoneIsFinal ==
    ASSUME NEW f \in [Cities -> Label], Done(f)
    PROVE  Final(f)
<1>1. CASE Open(f) = {}
  BY <1>1 DEF Final
<1>2. CASE Open(f) # {} /\ Nearest(f) = Destination
  BY <1>2, NearestIs DEF Final
<1> QED  BY <1>1, <1>2 DEF Done

\* After as many visits as there are cities every city has been visited.
LEMMA FullIsFinal ==
    ASSUME NEW l, NEW p, NEW b, NEW f, SearchInv(f, Len(NodeOrder), l, p, b)
    PROVE  Final(f)
<1>1. Seen(f) \in SUBSET Cities /\ Cardinality(Seen(f)) = Len(NodeOrder)
  BY DEF SearchInv, Seen
<1>2. Cardinality(Seen(f)) <= Cardinality(Cities) /\ Cardinality(Cities) <= Len(NodeOrder)
  BY <1>1, CityFacts, FS_Subset
<1>3. Cardinality(Cities) \in Nat
  BY CityFacts, FS_CardinalityType
<1>4. Cardinality(Seen(f)) = Cardinality(Cities)
  BY <1>1, <1>2, <1>3, CityFacts
<1>5. Seen(f) = Cities
  BY <1>1, <1>4, CityFacts, FS_Subset
<1> QED  BY <1>5 DEF Final, Open, Seen

LEMMA NothingNearer ==
    ASSUME NEW l, NEW p, NEW b, Steps(p, b), NEW f, NEW i,
           SearchInv(f, i, l, p, b), Final(f),
           NEW q \in SimplePaths, Feasible(q, l, p)
    PROVE  /\ f[Destination].dist <= Length(q, l, p, b)
           /\ Length(q, l, p, b) \in Nat /\ Length(q, l, p, b) < Infinite
<1> DEFINE n == Len(q)
<1>1. /\ n \in 1 .. Len(NodeOrder) /\ q \in [1 .. n -> Cities]
      /\ q[1] = Source /\ q[n] = Destination
  <2>1. PICK m \in 1 .. Len(NodeOrder) : q \in [1 .. m -> Cities]
    BY DEF SimplePaths
  <2>2. m \in Nat
    BY CityFacts
  <2>3. q \in Seq(Cities) /\ Len(q) = m
    BY <2>1, <2>2
  <2> QED  BY <2>1, <2>3 DEF SimplePaths
<1>2. n \in Nat \ {0} /\ n <= Len(NodeOrder) /\ Len(NodeOrder) \in Nat
  BY <1>1, CityFacts
<1>3. PICK u : /\ u[1] = 0 /\ Length(q, l, p, b) = u[n]
               /\ \A j \in 2 .. n : u[j] = u[j - 1] + Hop(q[j - 1], q[j], l, p, b)
  BY <1>2, LengthIs
<1>4. /\ \A c \in Cities : f[c].dist \in Nat /\ f[c].dist <= Infinite
      /\ Infinite \in Nat /\ f[Source].dist = 0 /\ f \in [Cities -> Label]
  BY LabelIs DEF SearchInv, Labelled
<1>5. \A j \in 1 .. n - 1 :
         /\ q[j] \in Cities /\ q[j + 1] \in Cities
         /\ Roads(q[j], q[j + 1], l, p) # {}
         /\ Hop(q[j], q[j + 1], l, p, b) \in 1 .. MaxStep
  <2> SUFFICES ASSUME NEW j \in 1 .. n - 1
               PROVE  /\ q[j] \in Cities /\ q[j + 1] \in Cities
                      /\ Roads(q[j], q[j + 1], l, p) # {}
                      /\ Hop(q[j], q[j + 1], l, p, b) \in 1 .. MaxStep
    OBVIOUS
  <2>1. j \in 1 .. n /\ j + 1 \in 1 .. n
    BY <1>2
  <2>2. q[j] \in Cities /\ q[j + 1] \in Cities
    BY <1>1, <2>1
  <2>3. Roads(q[j], q[j + 1], l, p) # {}
    BY DEF Feasible
  <2> QED  BY <2>2, <2>3, HopIs
<1> HIDE DEF n
<1> DEFINE D == f[Destination].dist
           Good(j) == /\ u[j + 1] \in Nat /\ u[j + 1] <= Cap(j)
                      /\ D <= u[j + 1] \/ f[q[j + 1]].dist <= u[j + 1]
           S == {j \in Nat : j < n => Good(j)}
<1>6. 0 \in S
  <2>1. Good(0)
    <3>1. 0 + 1 = 1 /\ q[1] = Source /\ u[1] = 0 /\ f[Source].dist = 0 /\ Cap(0) = 0
      BY <1>1, <1>3, <1>4, CapFacts
    <3> QED  BY <3>1
  <2> HIDE DEF Good
  <2> QED  BY <2>1
<1>7. ASSUME NEW j \in S PROVE j + 1 \in S
  <2> SUFFICES ASSUME j + 1 < n PROVE Good(j + 1)
    OBVIOUS
  <2>1. j \in Nat /\ Good(j)
    BY <1>2
  <2> DEFINE a == q[j + 1]
             c == q[j + 2]
             h == Hop(a, c, l, p, b)
  <2>2. a \in Cities /\ c \in Cities /\ Roads(a, c, l, p) # {} /\ h \in 1 .. MaxStep
    <3>1. j + 1 \in 1 .. n - 1 /\ (j + 1) + 1 = j + 2
      BY <1>2, <2>1
    <3> QED  BY <1>5, <3>1
  <2>3. u[j + 2] = u[j + 1] + h
    <3>1. j + 2 \in 2 .. n /\ (j + 2) - 1 = j + 1
      BY <1>2, <2>1
    <3> QED  BY <1>3, <3>1
  <2>4. MaxStep \in Nat /\ Cap(j) \in Nat /\ Cap(j + 1) = Cap(j) + MaxStep
    BY <2>1, CapFacts
  <2>5. D \in Nat /\ f[a].dist \in Nat /\ f[c].dist \in Nat
    BY <1>4, <2>2, CityFacts
  <2>6. Cap(j) < Infinite
    BY <1>2, <2>1, CapFacts
  <2> HIDE DEF D, a, h
  <2>7. u[j + 2] \in Nat /\ u[j + 2] <= Cap(j + 1) /\ u[j + 1] <= u[j + 2]
    BY <2>1, <2>2, <2>3, <2>4
  <2>8. D <= u[j + 2] \/ f[c].dist <= u[j + 2]
    <3>1. CASE D <= u[j + 1]
      BY <2>1, <2>5, <2>7, <3>1
    <3>2. CASE f[a].dist <= u[j + 1]
      <4>1. CASE f[a].visited
        <5>1. f[c].dist <= f[a].dist + h
          BY <2>2, <4>1 DEF SearchInv, Settles, Seen, h
        <5> QED  BY <2>1, <2>2, <2>3, <2>4, <2>5, <3>2, <5>1
      <4>2. CASE ~ f[a].visited
        <5>1. f[a].dist < Infinite
          BY <1>4, <2>1, <2>4, <2>5, <2>6, <3>2
        <5>2. a \in Open(f)
          BY <2>2, <4>2, <5>1 DEF Open
        <5>3. D <= f[a].dist
          BY <5>2 DEF Final, D
        <5> QED  BY <2>1, <2>5, <2>7, <3>2, <5>3
      <4> QED  BY <4>1, <4>2
    <3> QED  BY <2>1, <3>1, <3>2 DEF a
  <2>9. (j + 1) + 1 = j + 2
    BY <2>1
  <2> QED  BY <2>7, <2>8, <2>9
<1>8. S = Nat
  <2> HIDE DEF S
  <2>1. S \in SUBSET Nat
    BY DEF S
  <2> QED  BY <1>6, <1>7, <2>1, CountInduction
<1>9. n - 1 \in Nat /\ n - 1 < n /\ (n - 1) + 1 = n
  BY <1>2
<1>10. Good(n - 1)
  <2> HIDE DEF Good
  <2> QED  BY <1>8, <1>9
<1>11. Cap(n - 1) < Infinite /\ Cap(n - 1) \in Nat
  <2> DEFINE m == n - 1
  <2>1. m \in 0 .. Len(NodeOrder) /\ m \in Nat
    BY <1>2, <1>9
  <2> HIDE DEF m
  <2>2. Cap(m) < Infinite /\ Cap(m) \in Nat
    BY <2>1, CapFacts
  <2> QED  BY <2>2 DEF m
<1> QED  BY <1>1, <1>3, <1>4, <1>9, <1>10, <1>11

-----------------------------------------------------------------------------
(* The way back.                                                             *)

\* A piece of the way to the destination, as the labels lead.
Behind(f, q, l, p, b) ==
    /\ q \in Seq(Cities) /\ Len(q) # 0 /\ q[Len(q)] = Destination
    /\ \A j \in 1 .. Len(q) : f[q[j]].dist < Infinite
    /\ \A j \in 1 .. Len(q) - 1 : Leads(f, q[j], q[j + 1], l, p, b)

\* The distance grows at every step, so that no city comes twice.
LEMMA BehindGrows ==
    ASSUME NEW l, NEW p, NEW b, Steps(p, b), NEW f \in [Cities -> Label],
           NEW q, Behind(f, q, l, p, b)
    PROVE  \A j, k \in 1 .. Len(q) : j < k => f[q[j]].dist < f[q[k]].dist
<1> DEFINE n == Len(q)
           d(j) == f[q[j]].dist
<1>1. n \in Nat /\ \A j \in 1 .. n : q[j] \in Cities /\ d(j) \in Nat
  <2>1. n \in Nat /\ \A j \in 1 .. n : q[j] \in Cities
    BY DEF Behind
  <2> QED  BY <2>1, LabelIs
<1>2. \A j \in 1 .. n - 1 : d(j) < d(j + 1)
  <2> SUFFICES ASSUME NEW j \in 1 .. n - 1 PROVE d(j) < d(j + 1)
    OBVIOUS
  <2> DEFINE h == Hop(q[j], q[j + 1], l, p, b)
  <2>1. j \in 1 .. n /\ j + 1 \in 1 .. n
    BY <1>1
  <2>2. Leads(f, q[j], q[j + 1], l, p, b)
    BY DEF Behind
  <2>3. h \in 1 .. MaxStep /\ d(j + 1) = d(j) + h
    BY <1>1, <2>1, <2>2, HopIs DEF Leads
  <2>4. d(j) \in Nat
    BY <1>1, <2>1
  <2> HIDE DEF h, d
  <2> QED  BY <2>3, <2>4, MaxStepIs
<1> HIDE DEF d, n
<1> DEFINE S == {e \in Nat : \A j \in 1 .. n : j + e + 1 <= n => d(j) < d(j + e + 1)}
<1>3. 0 \in S
  <2>1. \A j \in 1 .. n : j + 0 + 1 <= n => j \in 1 .. n - 1 /\ j + 0 + 1 = j + 1
    BY <1>1
  <2> QED  BY <1>2, <2>1
<1>4. ASSUME NEW e \in S PROVE e + 1 \in S
  <2>1. e \in Nat /\ \A j \in 1 .. n : j + e + 1 <= n => d(j) < d(j + e + 1)
    OBVIOUS
  <2> HIDE DEF S
  <2>2. ASSUME NEW j \in 1 .. n, j + (e + 1) + 1 <= n
        PROVE  d(j) < d(j + (e + 1) + 1)
    <3> DEFINE k == j + e + 1
    <3>1. k \in 1 .. n - 1 /\ k \in 1 .. n /\ k + 1 \in 1 .. n /\ j + (e + 1) + 1 = k + 1 /\ k <= n
      BY <1>1, <2>1, <2>2
    <3>2. d(j) < d(k)
      BY <2>1, <3>1
    <3> HIDE DEF k
    <3>3. d(k) < d(k + 1) /\ d(j) \in Nat /\ d(k) \in Nat /\ d(k + 1) \in Nat
      BY <1>1, <1>2, <3>1
    <3>4. d(j) < d(k + 1)
      BY <3>2, <3>3
    <3> QED  BY <3>1, <3>4
  <2> QED  BY <2>1, <2>2 DEF S
<1>5. S = Nat
  <2> HIDE DEF S
  <2>1. S \in SUBSET Nat
    BY DEF S
  <2> QED  BY <1>3, <1>4, <2>1, CountInduction
<1>6. ASSUME NEW j \in 1 .. n, NEW k \in 1 .. n, j < k PROVE d(j) < d(k)
  <2> DEFINE e == k - j - 1
  <2>1. e \in Nat /\ j + e + 1 = k /\ k <= n
    BY <1>1, <1>6
  <2> HIDE DEF e
  <2>2. e \in S
    BY <1>5, <2>1
  <2> QED  BY <2>1, <2>2
<1> QED  BY <1>6 DEF d, n

LEMMA BehindIsSimple ==
    ASSUME NEW l, NEW p, NEW b, Steps(p, b), NEW f \in [Cities -> Label],
           NEW q, Behind(f, q, l, p, b)
    PROVE  /\ Len(q) \in 1 .. Len(NodeOrder)
           /\ q \in [1 .. Len(q) -> Cities] /\ IsInjective(q)
<1>1. q \in [1 .. Len(q) -> Cities] /\ Len(q) \in Nat \ {0}
  BY DEF Behind
<1>2. ASSUME NEW j \in 1 .. Len(q), NEW k \in 1 .. Len(q), q[j] = q[k] PROVE j = k
  <2>1. ASSUME NEW i \in 1 .. Len(q), NEW m \in 1 .. Len(q), i < m, q[i] = q[m] PROVE FALSE
    <3>1. f[q[i]].dist < f[q[m]].dist
      BY <2>1, BehindGrows
    <3>2. f[q[m]].dist \in Nat
      BY <1>1, LabelIs
    <3> QED  BY <2>1, <3>1, <3>2
  <2>2. j < k \/ k < j \/ j = k
    BY <1>1
  <2> QED  BY <1>2, <2>1, <2>2
<1>3. IsInjective(q)
  BY <1>1, <1>2 DEF IsInjective
<1>4. q \in Injection(1 .. Len(q), Cities)
  BY <1>1, <1>3 DEF Injection
<1>5. Cardinality(1 .. Len(q)) <= Cardinality(Cities)
  BY <1>4, CityFacts, FS_Injection
<1>6. Cardinality(1 .. Len(q)) = Len(q)
  <2> DEFINE m == Len(q)
  <2>1. m \in Nat \ {0} /\ m \in Int /\ 1 \in Int
    BY <1>1
  <2> HIDE DEF m
  <2>2. Cardinality(1 .. m) = IF 1 > m THEN 0 ELSE m - 1 + 1
    BY <2>1, FS_Interval
  <2>3. Cardinality(1 .. m) = m
    BY <2>1, <2>2
  <2> QED  BY <2>3 DEF m
<1>7. Cardinality(Cities) \in Nat
  BY CityFacts, FS_CardinalityType
<1>8. Len(q) <= Len(NodeOrder)
  BY <1>1, <1>5, <1>6, <1>7, CityFacts
<1> QED  BY <1>1, <1>3, <1>8, CityFacts

\* One round of the recursion of Way, up to n cities left.
Ways(w, f, n) ==
    [left \in 0 .. n |->
        [q \in Seq(Cities) |->
            IF left = 0 \/ q[1] = Source THEN q
            ELSE IF f[q[1]].prev = "none" THEN << >>
            ELSE w[left - 1][<<f[q[1]].prev>> \o q]]]

LEMMA WaysExist ==
    ASSUME NEW f, NEW n \in Nat
    PROVE  \E w : w = Ways(w, f, n)
<1> DEFINE Turn(v) == [q \in Seq(Cities) |->
                         IF q[1] = Source THEN q
                         ELSE IF f[q[1]].prev = "none" THEN << >>
                         ELSE v[<<f[q[1]].prev>> \o q]]
           First == [q \in Seq(Cities) |-> q]
           W(w, m) == [left \in 0 .. m |-> IF left = 0 THEN First ELSE Turn(w[left - 1])]
           T == {k \in Nat : \E w : w = W(w, k)}
<1>1. \A w, m : W(w, m) = Ways(w, f, m)
  BY DEF Ways
<1> HIDE DEF Turn, First
<1>2. 0 \in T
  <2> DEFINE w == [left \in 0 .. 0 |-> First]
  <2>1. w = W(w, 0)
    OBVIOUS
  <2> QED  BY <2>1
<1>3. ASSUME NEW k \in T PROVE k + 1 \in T
  <2>1. PICK w : w = W(w, k)
    OBVIOUS
  <2> DEFINE g == [left \in 0 .. k + 1 |->
                      IF left <= k THEN w[left] ELSE Turn(w[k])]
             v == W(g, k + 1)
  <2>2. \A i \in 0 .. k + 1 : g[i] = v[i]
    <3> SUFFICES ASSUME NEW i \in 0 .. k + 1 PROVE g[i] = v[i]
      OBVIOUS
    <3>0. v[i] = IF i = 0 THEN First ELSE Turn(g[i - 1])
      OBVIOUS
    <3>1. CASE i <= k
      <4>1. W(w, k)[i] = IF i = 0 THEN First ELSE Turn(w[i - 1])
        BY <3>1
      <4>2. g[i] = w[i] /\ (i # 0 => g[i - 1] = w[i - 1])
        BY <3>1
      <4> HIDE DEF g, v, W
      <4> QED  BY <2>1, <3>0, <4>1, <4>2
    <3>2. CASE i = k + 1
      <4>1. g[i] = Turn(w[k]) /\ i # 0 /\ g[i - 1] = w[k]
        BY <3>2
      <4> HIDE DEF g, v
      <4> QED  BY <3>0, <4>1
    <3> QED  BY <3>1, <3>2
  <2>3. g = v
    BY <2>2
  <2> HIDE DEF g, W
  <2> QED  BY <2>3
<1>4. T = Nat
  <2> HIDE DEF T
  <2>1. T \in SUBSET Nat
    BY DEF T
  <2> QED  BY <1>2, <1>3, <2>1, CountInduction
<1> HIDE DEF W
<1> QED  BY <1>1, <1>4

\* A way back that ends at the source is a path, as long as the label says.
LEMMA BehindIsPath ==
    ASSUME NEW l, NEW p, NEW b, Steps(p, b), NEW f \in [Cities -> Label], f[Source].dist = 0,
           NEW q, Behind(f, q, l, p, b), q[1] = Source
    PROVE  /\ q \in SimplePaths /\ Feasible(q, l, p)
           /\ Length(q, l, p, b) = f[Destination].dist
<1> DEFINE n == Len(q)
<1>1. n \in 1 .. Len(NodeOrder) /\ q \in [1 .. n -> Cities] /\ IsInjective(q)
  BY BehindIsSimple
<1>2. q[n] = Destination /\ n \in Nat \ {0}
  BY <1>1, CityFacts DEF Behind
<1>3. q \in SimplePaths
  BY <1>1, <1>2 DEF SimplePaths
<1>4. Feasible(q, l, p)
  BY DEF Behind, Leads, Feasible
<1>5. PICK u : /\ u[1] = 0 /\ Length(q, l, p, b) = u[n]
               /\ \A j \in 2 .. n : u[j] = u[j - 1] + Hop(q[j - 1], q[j], l, p, b)
  BY <1>2, LengthIs
<1>6. \A j \in 1 .. n - 1 : f[q[j + 1]].dist = f[q[j]].dist + Hop(q[j], q[j + 1], l, p, b)
  BY DEF Behind, Leads
<1> HIDE DEF n
<1> DEFINE S == {j \in Nat : j < n => u[j + 1] = f[q[j + 1]].dist}
<1>7. 0 \in S
  <2>1. 0 + 1 = 1
    OBVIOUS
  <2> QED  BY <1>5, <2>1
<1>8. ASSUME NEW j \in S PROVE j + 1 \in S
  <2> SUFFICES ASSUME j + 1 < n PROVE u[(j + 1) + 1] = f[q[(j + 1) + 1]].dist
    OBVIOUS
  <2>1. j \in Nat /\ u[j + 1] = f[q[j + 1]].dist
    BY <1>2
  <2> DEFINE k == j + 1
  <2>2. k \in 1 .. n - 1 /\ k + 1 \in 2 .. n /\ (k + 1) - 1 = k
    BY <1>2, <2>1
  <2>3. u[k] = f[q[k]].dist
    BY <2>1
  <2> HIDE DEF k
  <2>4. u[k + 1] = u[k] + Hop(q[k], q[k + 1], l, p, b)
    BY <1>5, <2>2
  <2>5. u[k + 1] = f[q[k + 1]].dist
    BY <1>6, <2>2, <2>3, <2>4
  <2> QED  BY <2>5 DEF k
<1>9. S = Nat
  <2> HIDE DEF S
  <2>1. S \in SUBSET Nat
    BY DEF S
  <2> QED  BY <1>7, <1>8, <2>1, CountInduction
<1>10. n - 1 \in Nat /\ n - 1 < n /\ (n - 1) + 1 = n
  BY <1>2
<1>11. u[n] = f[q[n]].dist
  BY <1>9, <1>10
<1> QED  BY <1>2, <1>3, <1>4, <1>5, <1>11

\* The next step back.
LEMMA BackStays ==
    ASSUME NEW l, NEW p, NEW b, Steps(p, b), NEW f \in [Cities -> Label], Traced(f, l, p, b),
           NEW q, Behind(f, q, l, p, b), q[1] # Source
    PROVE  /\ f[q[1]].prev # "none"
           /\ Behind(f, <<f[q[1]].prev>> \o q, l, p, b)
           /\ <<f[q[1]].prev>> \o q \in Seq(Cities)
           /\ Len(<<f[q[1]].prev>> \o q) = Len(q) + 1
<1> DEFINE n == Len(q)
           c == f[q[1]].prev
           r == <<c>> \o q
<1>1. n \in Nat \ {0} /\ q \in Seq(Cities) /\ \A j \in 1 .. n : q[j] \in Cities
  BY DEF Behind
<1>2. q[1] \in Cities \ {Source} /\ f[q[1]].dist < Infinite /\ 1 \in 1 .. n
  BY <1>1 DEF Behind
<1>3. f[q[1]].dist \in Nat /\ Infinite \in Nat
  BY <1>2, LabelIs
<1>4. Leads(f, c, q[1], l, p, b)
  BY <1>2, <1>3 DEF Traced
<1>5. c \in Cities /\ c # "none"
  BY <1>4, CityFacts DEF Leads
<1>6. f[c].dist < Infinite
  <2> DEFINE h == Hop(c, q[1], l, p, b)
  <2>1. h \in 1 .. MaxStep /\ f[q[1]].dist = f[c].dist + h
    BY <1>2, <1>4, HopIs DEF Leads
  <2>2. f[c].dist \in Nat
    BY <1>5, LabelIs
  <2> HIDE DEF h, c
  <2> QED  BY <1>2, <1>3, <2>1, <2>2, MaxStepIs
<1> HIDE DEF n, c
<1>7. /\ r \in Seq(Cities) /\ Len(r) = n + 1 /\ r[1] = c
      /\ \A j \in 1 .. n : r[j + 1] = q[j]
  BY <1>1, <1>5 DEF n
<1> HIDE DEF r
<1>8. \A j \in 2 .. n + 1 : j - 1 \in 1 .. n /\ r[j] = q[j - 1]
  <2> SUFFICES ASSUME NEW j \in 2 .. n + 1 PROVE j - 1 \in 1 .. n /\ r[j] = q[j - 1]
    OBVIOUS
  <2>1. j - 1 \in 1 .. n /\ (j - 1) + 1 = j
    BY <1>1
  <2> QED  BY <1>7, <2>1
<1>9. Behind(f, r, l, p, b)
  <2>1. r[n + 1] = Destination
    <3>1. q[n] = Destination /\ n \in 1 .. n
      BY <1>1 DEF Behind, n
    <3> QED  BY <1>7, <3>1
  <2>2. ASSUME NEW j \in 1 .. n + 1 PROVE f[r[j]].dist < Infinite
    <3>1. CASE j = 1
      BY <1>6, <1>7, <3>1
    <3>2. CASE j # 1
      <4>1. j \in 2 .. n + 1
        BY <1>1, <3>2
      <4>2. r[j] = q[j - 1] /\ j - 1 \in 1 .. n
        BY <1>8, <4>1
      <4> QED  BY <4>2 DEF Behind, n
    <3> QED  BY <3>1, <3>2
  <2>3. ASSUME NEW j \in 1 .. n PROVE Leads(f, r[j], r[j + 1], l, p, b)
    <3>1. CASE j = 1
      BY <1>2, <1>4, <1>7, <3>1
    <3>2. CASE j # 1
      <4>1. j \in 2 .. n + 1 /\ j - 1 \in 1 .. n - 1 /\ (j - 1) + 1 = j
        BY <1>1, <3>2
      <4>2. r[j] = q[j - 1] /\ r[j + 1] = q[j]
        BY <1>7, <1>8, <4>1
      <4>3. Leads(f, q[j - 1], q[(j - 1) + 1], l, p, b)
        BY <4>1 DEF Behind, n
      <4> QED  BY <4>1, <4>2, <4>3
    <3> QED  BY <3>1, <3>2
  <2>4. Len(r) # 0 /\ Len(r) - 1 = n
    BY <1>1, <1>7
  <2> QED  BY <1>7, <2>1, <2>2, <2>3, <2>4 DEF Behind
<1> QED  BY <1>5, <1>7, <1>9 DEF r, c, n

\* Way leads back to the source, for a destination that is labelled.
LEMMA WayIs ==
    ASSUME NEW l, NEW p, NEW b, Steps(p, b), NEW f \in [Cities -> Label], Traced(f, l, p, b),
           f[Destination].dist < Infinite
    PROVE  Behind(f, Way(f), l, p, b) /\ Way(f)[1] = Source
<1> DEFINE N == Len(NodeOrder)
           w == CHOOSE w : w = Ways(w, f, N)
           first == <<Destination>>
<1>1. N \in Nat
  BY CityFacts
<1>2. w = Ways(w, f, N)
  BY <1>1, WaysExist
<1>3. Way(f) = w[N][first]
  BY DEF Way, Ways
<1> HIDE DEF w, N
<1>4. \A left \in 0 .. N, q \in Seq(Cities) :
         w[left][q] = IF left = 0 \/ q[1] = Source THEN q
                      ELSE IF f[q[1]].prev = "none" THEN << >>
                      ELSE w[left - 1][<<f[q[1]].prev>> \o q]
  <2> DEFINE v == Ways(w, f, N)
  <2>1. \A left \in 0 .. N : v[left] =
            [q \in Seq(Cities) |-> IF left = 0 \/ q[1] = Source THEN q
                                   ELSE IF f[q[1]].prev = "none" THEN << >>
                                   ELSE w[left - 1][<<f[q[1]].prev>> \o q]]
    BY DEF Ways
  <2>2. v = w
    BY <1>2
  <2> HIDE DEF v
  <2> QED  BY <2>1, <2>2
<1> DEFINE Fits(q, left) == Behind(f, q, l, p, b) /\ q \in Seq(Cities) /\ Len(q) + left = N + 1
           Good(q) == Behind(f, q, l, p, b) /\ q[1] = Source
           S == {left \in Nat : left <= N => \A q : Fits(q, left) => Good(w[left][q])}
<1>5. 0 \in S
  <2> SUFFICES ASSUME NEW q, Fits(q, 0) PROVE FALSE
    OBVIOUS
  <2>1. Len(q) \in 1 .. N
    BY BehindIsSimple DEF N
  <2> QED  BY <1>1, <2>1
<1>6. ASSUME NEW k \in S PROVE k + 1 \in S
  <2> DEFINE left == k + 1
  <2>1. k \in Nat /\ (k <= N => \A q : Fits(q, k) => Good(w[k][q]))
    OBVIOUS
  <2>2. SUFFICES ASSUME left <= N, NEW q, Fits(q, left) PROVE Good(w[left][q])
    BY <2>1
  <2>3. left \in 0 .. N /\ left # 0 /\ left - 1 = k /\ k <= N
    BY <1>1, <2>1, <2>2
  <2> HIDE DEF left
  <2>4. CASE q[1] = Source
    <3>1. w[left][q] = q
      BY <1>4, <2>2, <2>3, <2>4
    <3> QED  BY <2>2, <2>4, <3>1
  <2>5. CASE q[1] # Source
    <3> DEFINE r == <<f[q[1]].prev>> \o q
    <3>1. /\ f[q[1]].prev # "none" /\ Behind(f, r, l, p, b)
          /\ r \in Seq(Cities) /\ Len(r) = Len(q) + 1
      <4>1. Behind(f, q, l, p, b)
        BY <2>2
      <4> HIDE DEF Fits, Good, S
      <4> QED  BY <2>5, <4>1, BackStays
    <3> HIDE DEF r
    <3>2. w[left][q] = w[k][r]
      BY <1>4, <2>2, <2>3, <2>5, <3>1 DEF r
    <3>3. Len(q) \in Nat
      BY <2>2 DEF Behind
    <3>4. Len(r) + k = N + 1
      <4>1. Len(q) + left = N + 1 /\ left \in Nat /\ left - 1 = k
        BY <2>1, <2>2, <2>3
      <4>2. Len(r) = Len(q) + 1
        BY <3>1
      <4> HIDE DEF Fits, S
      <4> QED  BY <1>1, <2>1, <3>3, <4>1, <4>2
    <3>5. Fits(r, k)
      BY <3>1, <3>4
    <3> HIDE DEF Fits, Good
    <3> QED  BY <2>1, <2>3, <3>2, <3>5
  <2> QED  BY <2>4, <2>5
<1>7. S = Nat
  <2> HIDE DEF S
  <2>1. S \in SUBSET Nat
    BY DEF S
  <2> QED  BY <1>5, <1>6, <2>1, CountInduction
<1>8. Fits(first, N)
  <2>1. first \in Seq(Cities) /\ Len(first) = 1 /\ first[1] = Destination
    BY CityFacts
  <2>2. Behind(f, first, l, p, b)
    BY <2>1 DEF Behind
  <2> QED  BY <1>1, <2>1, <2>2
<1>9. \A q : Fits(q, N) => Good(w[N][q])
  <2> HIDE DEF Fits, Good
  <2> QED  BY <1>1, <1>7
<1>10. Good(w[N][first])
  <2> HIDE DEF Fits, Good, first
  <2> QED  BY <1>8, <1>9
<1> QED  BY <1>3, <1>10

\* One round of the recursion of ComputePath, up to n visits left.
Visits(v, l, p, b, n) ==
    [left \in 0 .. n |->
        [f \in [Cities -> Label] |->
            IF left = 0 \/ Done(f) THEN Way(f)
            ELSE v[left - 1][Visit(f, Nearest(f), l, p, b)]]]

LEMMA VisitsExist ==
    ASSUME NEW l, NEW p, NEW b, NEW n \in Nat
    PROVE  \E v : v = Visits(v, l, p, b, n)
<1> DEFINE Turn(u) == [f \in [Cities -> Label] |->
                         IF Done(f) THEN Way(f) ELSE u[Visit(f, Nearest(f), l, p, b)]]
           First == [f \in [Cities -> Label] |-> Way(f)]
           W(w, m) == [left \in 0 .. m |-> IF left = 0 THEN First ELSE Turn(w[left - 1])]
           T == {k \in Nat : \E w : w = W(w, k)}
<1>1. \A w, m : W(w, m) = Visits(w, l, p, b, m)
  BY DEF Visits
<1> HIDE DEF Turn, First
<1>2. 0 \in T
  <2> DEFINE w == [left \in 0 .. 0 |-> First]
  <2>1. w = W(w, 0)
    OBVIOUS
  <2> QED  BY <2>1
<1>3. ASSUME NEW k \in T PROVE k + 1 \in T
  <2>1. PICK w : w = W(w, k)
    OBVIOUS
  <2> DEFINE g == [left \in 0 .. k + 1 |->
                      IF left <= k THEN w[left] ELSE Turn(w[k])]
             v == W(g, k + 1)
  <2>2. \A i \in 0 .. k + 1 : g[i] = v[i]
    <3> SUFFICES ASSUME NEW i \in 0 .. k + 1 PROVE g[i] = v[i]
      OBVIOUS
    <3>0. v[i] = IF i = 0 THEN First ELSE Turn(g[i - 1])
      OBVIOUS
    <3>1. CASE i <= k
      <4>1. W(w, k)[i] = IF i = 0 THEN First ELSE Turn(w[i - 1])
        BY <3>1
      <4>2. g[i] = w[i] /\ (i # 0 => g[i - 1] = w[i - 1])
        BY <3>1
      <4> HIDE DEF g, v, W
      <4> QED  BY <2>1, <3>0, <4>1, <4>2
    <3>2. CASE i = k + 1
      <4>1. g[i] = Turn(w[k]) /\ i # 0 /\ g[i - 1] = w[k]
        BY <3>2
      <4> HIDE DEF g, v
      <4> QED  BY <3>0, <4>1
    <3> QED  BY <3>1, <3>2
  <2>3. g = v
    BY <2>2
  <2> HIDE DEF g, W
  <2> QED  BY <2>3
<1>4. T = Nat
  <2> HIDE DEF T
  <2>1. T \in SUBSET Nat
    BY DEF T
  <2> QED  BY <1>2, <1>3, <2>1, CountInduction
<1> HIDE DEF W
<1> QED  BY <1>1, <1>4

\* The search ends with labels that nothing is nearer than.
LEMMA SearchEnds ==
    ASSUME NEW l, NEW p, NEW b, Steps(p, b)
    PROVE  \E g, i : /\ SearchInv(g, i, l, p, b) /\ Final(g)
                     /\ ComputePath(l, p, b) = Way(g)
<1> DEFINE N == Len(NodeOrder)
           v == CHOOSE v : v = Visits(v, l, p, b, N)
<1>1. N \in Nat
  BY CityFacts
<1>2. v = Visits(v, l, p, b, N)
  BY <1>1, VisitsExist
<1>3. ComputePath(l, p, b) = v[N][Unlabelled]
  BY DEF ComputePath, Visits
<1> HIDE DEF v, N
<1>4. \A left \in 0 .. N, f \in [Cities -> Label] :
         v[left][f] = IF left = 0 \/ Done(f) THEN Way(f)
                      ELSE v[left - 1][Visit(f, Nearest(f), l, p, b)]
  <2> DEFINE w == Visits(v, l, p, b, N)
  <2>1. \A left \in 0 .. N : w[left] =
            [f \in [Cities -> Label] |->
                IF left = 0 \/ Done(f) THEN Way(f)
                ELSE v[left - 1][Visit(f, Nearest(f), l, p, b)]]
    BY DEF Visits
  <2>2. w = v
    BY <1>2
  <2> HIDE DEF w
  <2> QED  BY <2>1, <2>2
<1> DEFINE Ends(left, f) == \E g, i : SearchInv(g, i, l, p, b) /\ Final(g) /\ v[left][f] = Way(g)
           S == {left \in Nat : left <= N => \A f : SearchInv(f, N - left, l, p, b) => Ends(left, f)}
<1>5. \A f, i : SearchInv(f, i, l, p, b) => f \in [Cities -> Label]
  BY DEF SearchInv, Labelled
<1>6. 0 \in S
  <2> SUFFICES ASSUME NEW f, SearchInv(f, N - 0, l, p, b) PROVE Ends(0, f)
    OBVIOUS
  <2>1. N - 0 = N /\ 0 \in 0 .. N
    BY <1>1
  <2>2. SearchInv(f, N, l, p, b)
    BY <2>1
  <2>3. Final(f)
    BY <2>2, FullIsFinal DEF N
  <2>4. v[0][f] = Way(f)
    BY <1>4, <1>5, <2>1, <2>2
  <2> QED  BY <2>2, <2>3, <2>4
<1>7. ASSUME NEW k \in S PROVE k + 1 \in S
  <2>1. k \in Nat /\ (k <= N => \A f : SearchInv(f, N - k, l, p, b) => Ends(k, f))
    OBVIOUS
  <2> DEFINE left == k + 1
  <2>2. SUFFICES ASSUME left <= N, NEW f, SearchInv(f, N - left, l, p, b) PROVE Ends(left, f)
    BY <2>1
  <2> DEFINE i == N - left
  <2>3. /\ left \in 0 .. N /\ left # 0 /\ left - 1 = k /\ k <= N
        /\ i \in Nat /\ i < N /\ i + 1 = N - k
    BY <1>1, <2>1, <2>2
  <2>4. SearchInv(f, i, l, p, b)
    BY <2>2
  <2> HIDE DEF left, i, S
  <2>5. f \in [Cities -> Label]
    BY <1>5, <2>4
  <2>6. CASE Done(f)
    <3>1. v[left][f] = Way(f) /\ Final(f)
      BY <1>4, <2>3, <2>5, <2>6, DoneIsFinal
    <3> QED  BY <2>4, <3>1
  <2>7. CASE ~ Done(f)
    <3> DEFINE g == Visit(f, Nearest(f), l, p, b)
    <3>1. v[left][f] = v[k][g]
      BY <1>4, <2>3, <2>5, <2>7
    <3>2. Open(f) # {}
      BY <2>7 DEF Done
    <3>3. SearchInv(g, i + 1, l, p, b)
      BY <2>3, <2>4, <3>2, VisitKeeps DEF N
    <3> HIDE DEF g
    <3>4. Ends(k, g)
      <4>1. SearchInv(g, N - k, l, p, b)
        BY <2>3, <3>3
      <4> HIDE DEF Ends
      <4> QED  BY <2>1, <2>3, <4>1
    <3> QED  BY <3>1, <3>4
  <2> QED  BY <2>6, <2>7
<1>8. S = Nat
  <2> HIDE DEF S
  <2>1. S \in SUBSET Nat
    BY DEF S
  <2> QED  BY <1>6, <1>7, <2>1, CountInduction
<1>9. SearchInv(Unlabelled, N - N, l, p, b)
  <2>1. N - N = 0
    BY <1>1
  <2> QED  BY <2>1, SearchBegins
<1>10. Ends(N, Unlabelled)
  <2> HIDE DEF Ends
  <2> QED  BY <1>1, <1>8, <1>9
<1> QED  BY <1>3, <1>10

\* Without a label there is no way.
LEMMA NoWay ==
    ASSUME NEW l, NEW p, NEW b, NEW f \in [Cities -> Label], Traced(f, l, p, b),
           ~ (f[Destination].dist < Infinite)
    PROVE  Way(f) = << >>
<1> DEFINE N == Len(NodeOrder)
           w == CHOOSE w : w = Ways(w, f, N)
           first == <<Destination>>
<1>1. N \in Nat \ {0}
  BY CityFacts
<1>2. w = Ways(w, f, N)
  BY <1>1, WaysExist
<1>3. Way(f) = w[N][first]
  BY DEF Way, Ways
<1> HIDE DEF w, N
<1>4. first \in Seq(Cities) /\ first[1] = Destination /\ Destination # Source
  BY CityFacts
<1>5. f[Destination].prev = "none"
  BY CityFacts DEF Traced
<1> DEFINE v == Ways(w, f, N)
<1>6. v[N][first] = IF N = 0 \/ first[1] = Source THEN first
                    ELSE IF f[first[1]].prev = "none" THEN << >>
                    ELSE w[N - 1][<<f[first[1]].prev>> \o first]
  <2> HIDE DEF first
  <2>1. N \in 0 .. N
    BY <1>1
  <2> QED  BY <1>4, <2>1 DEF Ways
<1>7. v = w
  BY <1>2
<1> HIDE DEF v, first
<1> QED  BY <1>1, <1>3, <1>4, <1>5, <1>6, <1>7

(***************************************************************************)
(* computePathByCost: for every topology, every state of the links and of  *)
(* the pools and every request, the search returns a simple path from the  *)
(* source to the destination that is as cheap as any, or <<>> if there is  *)
(* none.                                                                   *)
(***************************************************************************)
THEOREM SearchIsBest ==
    ASSUME NEW l, NEW p \in [Cities -> 0 .. 100], NEW k \in Keys
    PROVE  /\ ComputePath(l, p, KeyBudget(k)) \in SimplePaths \cup {<< >>}
           /\ IsBest(ComputePath(l, p, KeyBudget(k)), l, p, KeyBudget(k))
<1> DEFINE b == KeyBudget(k)
           path == ComputePath(l, p, b)
           open == {q \in SimplePaths : Feasible(q, l, p)}
<1>1. Steps(p, b)
  BY StepsBounded
<1> HIDE DEF b
<1>2. PICK f, i : SearchInv(f, i, l, p, b) /\ Final(f) /\ path = Way(f)
  BY <1>1, SearchEnds
<1> HIDE DEF path
<1>3. f \in [Cities -> Label] /\ f[Source].dist = 0 /\ Traced(f, l, p, b)
  BY <1>2 DEF SearchInv, Labelled
<1>4. f[Destination].dist \in Nat /\ Infinite \in Nat
  BY <1>3, LabelIs, CityFacts
<1>5. \A q \in open : /\ f[Destination].dist <= Length(q, l, p, b)
                      /\ Length(q, l, p, b) \in Nat /\ Length(q, l, p, b) < Infinite
  BY <1>1, <1>2, NothingNearer
<1>6. CASE f[Destination].dist < Infinite
  <2>1. Behind(f, path, l, p, b) /\ path[1] = Source
    BY <1>1, <1>2, <1>3, <1>6, WayIs
  <2>2. path \in open /\ Length(path, l, p, b) = f[Destination].dist
    BY <1>1, <1>3, <2>1, BehindIsPath
  <2> QED  BY <1>5, <2>2 DEF IsBest, path, b
<1>7. CASE ~ (f[Destination].dist < Infinite)
  <2>1. path = << >>
    BY <1>2, <1>3, <1>7, NoWay
  <2>2. open = {}
    <3> SUFFICES ASSUME NEW q \in open PROVE FALSE
      OBVIOUS
    <3> DEFINE m == Length(q, l, p, b)
    <3>1. f[Destination].dist <= m /\ m \in Nat /\ m < Infinite
      BY <1>5
    <3> HIDE DEF m
    <3> QED  BY <1>4, <1>7, <3>1
  <2> QED  BY <2>1, <2>2 DEF IsBest, path, b
<1> QED  BY <1>6, <1>7

-----------------------------------------------------------------------------
(* The inductive invariant.                                                  *)

LinkStates == [Links -> {"up", "down", "absent"}]
PoolStates == [Cities -> 0 .. 100]

\* Whatever the path search may return.
Paths == {<<>>} \cup {ComputePath(l, p, KeyBudget(k)) :
                         l \in LinkStates, p \in PoolStates, k \in Keys}

Records   == [at : Stages \cup {"none", "over"}, keys : Keys, path : Paths, lost : SUBSET Links]
Circuits  == [job : Tokens, state : {"ACTIVE", "ACTIVE_REROUTED", "DEGRADED"},
              keys : Keys, path : Paths, lost : SUBSET Links]
Responses == [job : Tokens, status : {"ACTIVE", "REJECTED", "DEGRADED"}]
Waits     == [kind : ScenarioKinds, job : Tokens]

Topology ==
    /\ link \in LinkStates /\ pool \in PoolStates
    /\ edits \in 0 .. MaxEdits /\ pending \in 0 .. edits

JobsTyped ==
    /\ jobId \in 0 .. MaxJobs
    /\ jobs \in [Tokens -> Records]
    /\ running \in BOOLEAN /\ button \in BOOLEAN /\ komShown \in BOOLEAN
    /\ waits \subseteq Waits

Shown ==
    /\ circuit # None => circuit \in Circuits
    /\ response # None => response \in Responses
    /\ circuit # None => response \in Responses

\* No job has a token that nobody has taken yet.
Unused == \A t \in Tokens : t > jobId => jobs[t].at = "none"

\* The parts of LatestOnly: what is shown, and what is said to run.
ShownIsNewest ==
    /\ circuit # None => circuit.job = jobId /\ response.job = jobId
    /\ response # None => response.job = jobId
RunningIsNewest == running <=> jobId \in Tokens /\ jobs[jobId].at \in Stages

PageInv == Topology /\ JobsTyped /\ Shown /\ ShownIsNewest /\ Unused /\ RunningIsNewest

-----------------------------------------------------------------------------
(* Records and what makes them.                                              *)

\* One path search, made with what the page may show.
LEMMA SearchStays ==
    ASSUME NEW l \in LinkStates, NEW p \in PoolStates, NEW k \in Keys
    PROVE  ComputePath(l, p, KeyBudget(k)) \in Paths
BY DEF Paths

LEMMA FreshRecords ==
    /\ NoJob \in Records /\ NoJob.at = "none"
    /\ Over \in Records /\ Over.at = "over"
    /\ \A k \in Keys : LET j == [NoJob EXCEPT !.at = "gateway", !.keys = k]
                       IN j \in Records /\ j.at = "gateway"
<1>1. <<>> \in Paths /\ 1 \in Keys
  BY DashboardAssumption DEF Paths
<1> QED  BY <1>1 DEF Records, NoJob, Over, Stages

\* The history of lost links does not touch the stage of a job.
LEMMA LostKeepsStages ==
    ASSUME NEW new, jobs \in [Tokens -> Records]
    PROVE  /\ WithLost(new) \in [Tokens -> Records]
           /\ \A t \in Tokens : WithLost(new)[t].at = jobs[t].at
<1>1. {e \in Links : link[e] = "up" /\ new[e] # "up"} \in SUBSET Links
  OBVIOUS
<1> QED  BY <1>1 DEF WithLost, Records

\* The pools stay between empty and full when a circuit takes its keys.
LEMMA ConsumeStays ==
    ASSUME NEW k \in Keys, NEW p, pool \in PoolStates
    PROVE  Consume(p, pool, KeyBudget(k)) \in PoolStates
<1> DEFINE b == KeyBudget(k)
<1>1. b \in Nat
  BY Budgeted
<1>2. (b + 1) \div 2 \in Int
  BY <1>1
<1>3. Delta(b) \in Nat
  <2> DEFINE half == (b + 1) \div 2
  <2>1. half \in Int
    BY <1>2
  <2> HIDE DEF half
  <2>2. Max({4, half}) \in {4, half} /\ Max({4, half}) >= 4
    BY <2>1, MaxOfTwo
  <2>3. Max({4, half}) \in Nat
    BY <2>1, <2>2
  <2> QED  BY <2>3 DEF Delta, half
<1>4. \A n \in Cities : Max({0, pool[n] - Delta(b)}) \in 0 .. 100
  <2> SUFFICES ASSUME NEW n \in Cities
               PROVE  Max({0, pool[n] - Delta(b)}) \in 0 .. 100
    OBVIOUS
  <2>1. pool[n] \in 0 .. 100
    BY DEF PoolStates
  <2> DEFINE r == pool[n] - Delta(b)
  <2>2. r \in Int /\ r <= 100
    BY <1>3, <2>1
  <2> HIDE DEF r
  <2>3. Max({0, r}) \in {0, r} /\ Max({0, r}) >= 0
    BY <2>2, MaxOfTwo
  <2>4. Max({0, r}) \in 0 .. 100
    BY <2>2, <2>3
  <2> QED  BY <2>4 DEF r
<1>5. \A n \in Cities : pool[n] \in 0 .. 100
  BY DEF PoolStates
<1> QED  BY <1>4, <1>5 DEF Consume, PoolStates

-----------------------------------------------------------------------------
(* The jobs.                                                                 *)

LEMMA InitPage == Init => PageInv
<1> SUFFICES ASSUME Init PROVE PageInv
  OBVIOUS
<1>1. NoJob \in Records /\ NoJob.at = "none" /\ NoJob.at \notin Stages
  BY FreshRecords DEF Stages
<1>2. Topology
  <2>1. link \in LinkStates /\ pool \in PoolStates
    BY DashboardAssumption DEF Init, LinkStates, PoolStates, InitialLink
  <2>2. edits \in 0 .. MaxEdits /\ pending \in 0 .. edits
    BY DashboardAssumption DEF Init
  <2> QED  BY <2>1, <2>2 DEF Topology
<1>3. JobsTyped
  <2>1. jobId \in 0 .. MaxJobs /\ waits \subseteq Waits
    BY DashboardAssumption DEF Init
  <2>2. jobs \in [Tokens -> Records]
    BY <1>1 DEF Init
  <2> QED  BY <2>1, <2>2 DEF Init, JobsTyped
<1>4. Shown /\ ShownIsNewest
  BY DEF Init, Shown, ShownIsNewest
<1>5. Unused /\ RunningIsNewest
  BY <1>1 DEF Init, Unused, RunningIsNewest, Tokens
<1> QED  BY <1>2, <1>3, <1>4, <1>5 DEF PageInv

\* Where the stages of the jobs stay as they are, so does what runs.
LEMMA StagesKept ==
    ASSUME PageInv, jobId' = jobId, running' = running,
           \A t \in Tokens : jobs'[t].at = jobs[t].at
    PROVE  Unused' /\ RunningIsNewest'
BY DEF PageInv, Unused, RunningIsNewest

LEMMA StartPage ==
    ASSUME PageInv, NEW k \in Keys, Start(k)
    PROVE  /\ jobId' \in 0 .. MaxJobs /\ jobs' \in [Tokens -> Records]
           /\ running' \in BOOLEAN /\ button' \in BOOLEAN /\ komShown' \in BOOLEAN
           /\ jobId' \in Tokens /\ jobId' = jobId + 1
           /\ Shown' /\ ShownIsNewest' /\ Unused' /\ RunningIsNewest'
<1> DEFINE j == [NoJob EXCEPT !.at = "gateway", !.keys = k]
<1>1. j \in Records /\ j.at = "gateway" /\ j.at \in Stages
  BY FreshRecords DEF Stages
<1> HIDE DEF j
<1>2. jobId \in 0 .. MaxJobs /\ jobs \in [Tokens -> Records] /\ MaxJobs \in Nat
  BY DashboardAssumption DEF PageInv, JobsTyped
<1>3. jobId' = jobId + 1 /\ jobId + 1 \in Tokens /\ jobId' \in Tokens /\ jobId' \in 0 .. MaxJobs
  BY <1>2 DEF Start, Tokens
<1>4. jobs' = [jobs EXCEPT ![jobId + 1] = j]
  BY DEF Start, j
<1>5. /\ jobs' \in [Tokens -> Records] /\ jobs'[jobId'].at \in Stages
      /\ \A t \in Tokens : t # jobId' => jobs'[t] = jobs[t]
  BY <1>1, <1>2, <1>3, <1>4
<1>6. \A t \in Tokens : t > jobId' => t > jobId /\ t # jobId'
  BY <1>2, <1>3 DEF Tokens
<1>7. Unused'
  BY <1>5, <1>6 DEF PageInv, Unused
<1>8. Shown' /\ ShownIsNewest'
  BY DEF Start, Shown, ShownIsNewest
<1>9. running' = TRUE /\ button' = FALSE /\ komShown' = FALSE
  BY DEF Start
<1>10. RunningIsNewest'
  BY <1>3, <1>5, <1>9 DEF RunningIsNewest
<1> QED  BY <1>3, <1>5, <1>7, <1>8, <1>9, <1>10

LEMMA ClickPage ==
    ASSUME PageInv, Click
    PROVE  PageInv'
<1> PICK k \in Keys : Start(k)
  BY DEF Click
<1>1. UNCHANGED <<link, pool, pending, edits, waits>>
  BY DEF Click, editVars
<1>2. Topology'
  BY <1>1 DEF PageInv, Topology
<1>3. waits' \subseteq Waits
  BY <1>1 DEF PageInv, JobsTyped
<1>4. JobsTyped'
  BY <1>3, StartPage DEF JobsTyped
<1> QED  BY <1>2, <1>4, StartPage DEF PageInv

\* The newest job fails.
LEMMA FailPage ==
    ASSUME PageInv, NEW t \in Tokens, t = jobId, Fail(t)
    PROVE  PageInv'
<1>1. Over \in Records /\ Over.at = "over" /\ Over.at \notin Stages
  BY FreshRecords DEF Stages
<1>2. jobs \in [Tokens -> Records] /\ jobs' = [jobs EXCEPT ![t] = Over]
  BY DEF PageInv, JobsTyped, Fail
<1>3. UNCHANGED <<link, pool, pending, edits, jobId, komShown, waits>>
  BY DEF Fail, editVars
<1>4. Topology'
  BY <1>3 DEF PageInv, Topology
<1>5. jobs' \in [Tokens -> Records]
  BY <1>1, <1>2
<1>6. JobsTyped'
  BY <1>3, <1>5 DEF PageInv, JobsTyped, Fail
<1>7. circuit' = None /\ response' = [job |-> t, status |-> "REJECTED"]
  BY DEF Fail
<1>8. Shown' /\ ShownIsNewest'
  BY <1>3, <1>7 DEF Shown, ShownIsNewest, Responses
<1>9. Unused'
  <2>1. \A u \in Tokens : u > jobId => u # t
    BY DEF Tokens
  <2> QED  BY <1>2, <1>3, <2>1 DEF PageInv, Unused
<1>10. RunningIsNewest'
  BY <1>1, <1>2, <1>3 DEF Fail, RunningIsNewest
<1> QED  BY <1>4, <1>6, <1>8, <1>9, <1>10 DEF PageInv

\* The newest job goes from one stage to the next.
LEMMA StagePage ==
    ASSUME PageInv, NEW t \in Tokens, t = jobId, jobs[t].at \in Stages,
           jobs' \in [Tokens -> Records], jobs'[t].at \in Stages,
           \A u \in Tokens \ {t} : jobs'[u].at = jobs[u].at,
           komShown' \in BOOLEAN,
           UNCHANGED <<jobId, running, button, editVars, shown, waits>>
    PROVE  PageInv'
<1>1. UNCHANGED <<link, pool, pending, edits, jobId, running, button, circuit, response, waits>>
  BY DEF editVars, shown
<1>2. Topology'
  BY <1>1 DEF PageInv, Topology
<1>3. JobsTyped'
  BY <1>1 DEF PageInv, JobsTyped
<1>4. Shown' /\ ShownIsNewest'
  BY <1>1 DEF PageInv, Shown, ShownIsNewest
<1>5. Unused'
  <2>1. \A u \in Tokens : u > jobId => u # t
    BY DEF Tokens
  <2> QED  BY <1>1, <2>1 DEF PageInv, Unused
<1>6. RunningIsNewest'
  BY <1>1 DEF PageInv, RunningIsNewest
<1> QED  BY <1>2, <1>3, <1>4, <1>5, <1>6 DEF PageInv

\* No piece of a job that another has superseded changes what is shown.
LEMMA JobPage ==
    ASSUME PageInv, NEW t \in Tokens, JobStep(t)
    PROVE  PageInv'
<1>1. jobs \in [Tokens -> Records] /\ link \in LinkStates /\ pool \in PoolStates
  BY DEF PageInv, JobsTyped, Topology
<1>2. CASE Advance(t)
  <2>1. PICK step \in {<<"gateway", "identity">>, <<"identity", "topology">>, <<"topology", "pce">>} :
              jobs[t].at = step[1] /\ jobs' = [jobs EXCEPT ![t].at = step[2]]
    BY <1>2 DEF Advance
  <2>2. step[1] \in Stages /\ step[2] \in Stages
    BY DEF Stages
  <2>3. <<>> \in Paths
    BY DEF Paths
  <2>4. /\ jobs' \in [Tokens -> Records] /\ jobs'[t].at = step[2]
        /\ \A u \in Tokens \ {t} : jobs'[u].at = jobs[u].at
    BY <1>1, <2>1, <2>2, <2>3 DEF Records
  <2>5. t = jobId /\ UNCHANGED <<jobId, running, button, komShown, editVars, shown, waits>>
    BY <1>2 DEF Advance, Current
  <2>6. komShown' \in BOOLEAN
    BY <2>5 DEF PageInv, JobsTyped
  <2> QED  BY <2>1, <2>2, <2>4, <2>5, <2>6, StagePage
<1>3. CASE Plan(t)
  <2> DEFINE budget == KeyBudget(jobs[t].keys)
             path == ComputePath(link, pool, budget)
             next == IF Allocates(path, pool, budget) THEN "kom" ELSE "komfail"
  <2>1. t = jobId /\ jobs[t].at = "pce" /\ "pce" \in Stages /\ next \in Stages
    BY <1>3 DEF Plan, Current, Stages
  <2>2. path \in Paths
    <3>1. jobs[t].keys \in Keys
      BY <1>1 DEF Records
    <3> QED  BY <1>1, <3>1, SearchStays
  <2>3. \/ Fail(t)
        \/ /\ jobs' = [jobs EXCEPT ![t].at = next, ![t].path = path]
           /\ komShown' = TRUE
           /\ UNCHANGED <<jobId, running, button, editVars, shown, waits>>
    BY <1>3 DEF Plan
  <2>4. CASE Fail(t)
    BY <2>1, <2>4, FailPage
  <2>5. CASE /\ jobs' = [jobs EXCEPT ![t].at = next, ![t].path = path]
             /\ komShown' = TRUE
             /\ UNCHANGED <<jobId, running, button, editVars, shown, waits>>
    <3> HIDE DEF budget, path, next
    <3>1. /\ jobs' \in [Tokens -> Records] /\ jobs'[t].at = next
          /\ \A u \in Tokens \ {t} : jobs'[u].at = jobs[u].at
      BY ZenonT(60), <1>1, <2>1, <2>2, <2>5 DEF Records
    <3> QED  BY <2>1, <2>5, <3>1, StagePage
  <2> QED  BY <2>3, <2>4, <2>5
<1>4. CASE Orchestrate(t)
  <2>1. t = jobId /\ jobs[t].at = "kom" /\ "kom" \in Stages /\ "prov" \in Stages /\ <<>> \in Paths
    BY <1>4 DEF Orchestrate, Current, Stages, Paths
  <2>2. CASE Fail(t)
    BY <2>1, <2>2, FailPage
  <2>3. CASE /\ jobs' = [jobs EXCEPT ![t].at = "prov"]
             /\ UNCHANGED <<jobId, running, button, komShown, editVars, shown, waits>>
    <3>1. /\ jobs' \in [Tokens -> Records] /\ jobs'[t].at = "prov"
          /\ \A u \in Tokens \ {t} : jobs'[u].at = jobs[u].at
      BY <1>1, <2>1, <2>3 DEF Records
    <3>2. komShown' \in BOOLEAN
      BY <2>3 DEF PageInv, JobsTyped
    <3> QED  BY <2>1, <2>3, <3>1, <3>2, StagePage
  <2> QED  BY <1>4, <2>2, <2>3 DEF Orchestrate
<1>5. CASE Refuse(t)
  BY <1>5, FailPage DEF Refuse, Current
<1>6. CASE Commit(t)
  <2> DEFINE c == [job |-> t, state |-> "ACTIVE", keys |-> jobs[t].keys,
                   path |-> jobs[t].path, lost |-> jobs[t].lost]
  <2>1. t = jobId /\ jobs' = [jobs EXCEPT ![t] = Over]
    BY <1>6 DEF Commit, Current
  <2>2. Over \in Records /\ Over.at = "over" /\ Over.at \notin Stages
    BY FreshRecords DEF Stages
  <2>3. jobs' \in [Tokens -> Records]
    BY <1>1, <2>1, <2>2
  <2>4. jobs[t] \in Records
    BY <1>1
  <2>5. c \in Circuits /\ c.job = t
    BY <2>4 DEF Circuits, Records
  <2>6. /\ circuit' = c /\ response' = [job |-> t, status |-> "ACTIVE"]
        /\ pool' = Consume(jobs[t].path, pool, KeyBudget(jobs[t].keys))
        /\ running' = FALSE /\ button' = TRUE
        /\ UNCHANGED <<jobId, komShown, link, pending, edits, waits>>
    BY <1>6 DEF Commit
  <2>7. pool' \in PoolStates
    <3>1. jobs[t].keys \in Keys
      BY <2>4 DEF Records
    <3> QED  BY <1>1, <2>6, <3>1, ConsumeStays
  <2>8. Topology'
    BY <2>6, <2>7 DEF PageInv, Topology
  <2>9. JobsTyped'
    BY <2>3, <2>6 DEF PageInv, JobsTyped
  <2>10. Shown' /\ ShownIsNewest'
    <3> HIDE DEF c
    <3>1. response' \in Responses /\ response'.job = t
      BY <2>6 DEF Responses
    <3> QED  BY <2>1, <2>5, <2>6, <3>1 DEF Shown, ShownIsNewest
  <2>11. Unused'
    <3>1. \A u \in Tokens : u > jobId => u # t
      BY <2>1 DEF Tokens
    <3> QED  BY <1>1, <2>1, <2>6, <3>1 DEF PageInv, Unused
  <2>12. RunningIsNewest'
    BY <1>1, <2>1, <2>2, <2>6 DEF RunningIsNewest
  <2> QED  BY <2>8, <2>9, <2>10, <2>11, <2>12 DEF PageInv
<1>7. CASE GiveUp(t)
  <2>1. t # jobId /\ jobs[t].at \in Stages /\ jobs' = [jobs EXCEPT ![t] = Over]
    BY <1>7 DEF GiveUp, Current
  <2>2. Over \in Records /\ Over.at = "over"
    BY FreshRecords
  <2>3. jobs' \in [Tokens -> Records] /\ \A u \in Tokens \ {t} : jobs'[u] = jobs[u]
    BY <1>1, <2>1, <2>2
  <2>4. UNCHANGED <<link, pool, pending, edits, jobId, running, button, komShown, circuit, response, waits>>
    BY <1>7 DEF GiveUp, editVars, shown
  <2>5. Topology'
    BY <2>4 DEF PageInv, Topology
  <2>6. JobsTyped'
    BY <2>3, <2>4 DEF PageInv, JobsTyped
  <2>7. Shown' /\ ShownIsNewest'
    BY <2>4 DEF PageInv, Shown, ShownIsNewest
  <2>8. Unused'
    <3>1. ~ (t > jobId)
      BY <2>1 DEF PageInv, Unused, Stages
    <3> QED  BY <2>3, <2>4, <3>1 DEF PageInv, Unused
  <2>9. RunningIsNewest'
    BY <2>1, <2>3, <2>4 DEF PageInv, RunningIsNewest
  <2> QED  BY <2>5, <2>6, <2>7, <2>8, <2>9 DEF PageInv
<1> QED  BY <1>2, <1>3, <1>4, <1>5, <1>6, <1>7 DEF JobStep

-----------------------------------------------------------------------------
(* Edits of the topology, and scenarios.                                     *)

\* What an edit keeps, whatever it does to the topology and to the circuit.
LEMMA EditPage ==
    ASSUME PageInv, Topology', Shown', ShownIsNewest',
           jobs' \in [Tokens -> Records],
           \A t \in Tokens : jobs'[t].at = jobs[t].at,
           UNCHANGED <<jobId, running, button>>, komShown' \in BOOLEAN,
           waits' \subseteq Waits
    PROVE  PageInv'
<1>1. JobsTyped'
  BY DEF PageInv, JobsTyped
<1>2. Unused' /\ RunningIsNewest'
  BY StagesKept
<1> QED  BY <1>1, <1>2 DEF PageInv

LEMMA SteadyPage ==
    ASSUME PageInv, Topology', Steady, waits' \subseteq Waits,
           \/ jobs' = jobs
           \/ \E new \in LinkStates : jobs' = WithLost(new)
    PROVE  PageInv'
<1>1. UNCHANGED <<jobId, running, button, komShown, circuit, response>>
  BY DEF Steady, shown
<1>2. jobs' \in [Tokens -> Records] /\ \A t \in Tokens : jobs'[t].at = jobs[t].at
  <2>1. jobs \in [Tokens -> Records]
    BY DEF PageInv, JobsTyped
  <2> QED  BY <2>1, LostKeepsStages
<1>3. Shown' /\ ShownIsNewest'
  BY <1>1 DEF PageInv, Shown, ShownIsNewest
<1>4. komShown' \in BOOLEAN
  BY <1>1 DEF PageInv, JobsTyped
<1> QED  BY <1>1, <1>2, <1>3, <1>4, EditPage

LEMMA EditTopology ==
    ASSUME PageInv, Edit, link' \in LinkStates, pool' \in PoolStates
    PROVE  Topology'
<1>1. MaxEdits \in Nat /\ edits \in 0 .. MaxEdits /\ pending \in 0 .. edits
  BY DashboardAssumption DEF PageInv, Topology
<1>2. edits' = edits + 1 /\ pending' = pending + 1 /\ edits < MaxEdits
  BY DEF Edit
<1>3. edits + 1 \in 0 .. MaxEdits /\ pending + 1 \in 0 .. edits + 1
  BY <1>1, <1>2
<1> QED  BY <1>2, <1>3 DEF Topology

\* A reroute changes the circuit and the answer, but not whose they are.
LEMMA ReroutePage ==
    ASSUME PageInv, NEW l \in LinkStates, NEW p \in PoolStates, Reroute(l, p),
           jobId' = jobId
    PROVE  Shown' /\ ShownIsNewest'
<1>1. CASE circuit = None /\ UNCHANGED shown
  BY <1>1 DEF PageInv, Shown, ShownIsNewest, shown
<1>2. CASE circuit # None /\ Reroutes(l, p)
  <2> DEFINE path == ComputePath(l, p, KeyBudget(circuit.keys))
  <2>1. circuit \in Circuits /\ circuit.job = jobId
    BY <1>2 DEF PageInv, Shown, ShownIsNewest
  <2>2. response \in Responses
    BY <1>2 DEF PageInv, Shown
  <2>3. circuit.keys \in Keys
    BY <2>1 DEF Circuits
  <2>4. path \in Paths
    BY <2>3, SearchStays
  <2>5. /\ circuit' = [circuit EXCEPT !.state = "ACTIVE_REROUTED", !.lost = {}, !.path = path]
        /\ response' = [response EXCEPT !.status = "ACTIVE"]
    BY <1>2 DEF Reroute
  <2> HIDE DEF path
  <2>6. circuit' \in Circuits /\ circuit'.job = circuit.job
    BY <2>1, <2>4, <2>5 DEF Circuits
  <2>7. response' \in Responses /\ response'.job = response.job
    BY <2>2, <2>5 DEF Responses
  <2>8. response.job = jobId
    BY <1>2 DEF PageInv, ShownIsNewest
  <2> QED  BY <2>1, <2>6, <2>7, <2>8 DEF Shown, ShownIsNewest
<1>3. CASE circuit # None /\ ~ Reroutes(l, p)
  <2>1. circuit \in Circuits /\ circuit.job = jobId
    BY <1>3 DEF PageInv, Shown, ShownIsNewest
  <2>2. response \in Responses
    BY <1>3 DEF PageInv, Shown
  <2>3. /\ circuit' = [circuit EXCEPT !.state = "DEGRADED"]
        /\ response' = [response EXCEPT !.status = "DEGRADED"]
    BY <1>3 DEF Reroute
  <2>4. circuit' \in Circuits /\ circuit'.job = circuit.job
    BY <2>1, <2>3 DEF Circuits
  <2>5. response' \in Responses /\ response'.job = response.job
    BY <2>2, <2>3 DEF Responses
  <2>6. response.job = jobId
    BY <1>3 DEF PageInv, ShownIsNewest
  <2> QED  BY <2>1, <2>4, <2>5, <2>6 DEF Shown, ShownIsNewest
<1> QED  BY <1>1, <1>2, <1>3 DEF Reroute

LEMMA TopologyEdits ==
    ASSUME PageInv,
           \/ \E e \in Links : ToggleLink(e) \/ AddLink(e)
           \/ \E e \in PoolEdits : SetPool(e[1], e[2])
    PROVE  PageInv'
<1>1. waits \subseteq Waits /\ link \in LinkStates /\ pool \in PoolStates
  BY DEF PageInv, JobsTyped, Topology
<1>2. ASSUME NEW e \in Links, ToggleLink(e)
      PROVE  PageInv'
  <2> DEFINE new == [link EXCEPT ![e] = IF @ = "up" THEN "down" ELSE "up"]
  <2>1. new \in LinkStates
    BY <1>1 DEF LinkStates
  <2>2. link' = new /\ jobs' = WithLost(new) /\ pool' = pool /\ waits' = waits /\ Edit /\ Steady
    BY <1>2 DEF ToggleLink, SetLinks
  <2> HIDE DEF new
  <2>3. Topology'
    BY <1>1, <2>1, <2>2, EditTopology
  <2> QED  BY <1>1, <2>1, <2>2, <2>3, SteadyPage
<1>3. ASSUME NEW e \in Links, AddLink(e)
      PROVE  PageInv'
  <2> DEFINE new == [link EXCEPT ![e] = "up"]
  <2>1. new \in LinkStates
    BY <1>1 DEF LinkStates
  <2>2. link' = new /\ jobs' = WithLost(new) /\ pool' = pool /\ waits' = waits /\ Edit /\ Steady
    BY <1>3 DEF AddLink, SetLinks
  <2> HIDE DEF new
  <2>3. Topology'
    BY <1>1, <2>1, <2>2, EditTopology
  <2> QED  BY <1>1, <2>1, <2>2, <2>3, SteadyPage
<1>4. ASSUME NEW e \in PoolEdits, SetPool(e[1], e[2])
      PROVE  PageInv'
  <2>1. e[2] \in 0 .. 100
    BY DashboardAssumption
  <2>2. pool' \in PoolStates
    BY <1>1, <1>4, <2>1 DEF SetPool, PoolStates
  <2>3. Edit /\ Steady /\ link' = link /\ jobs' = jobs /\ waits' = waits
    BY <1>4 DEF SetPool
  <2>4. Topology'
    BY <1>1, <2>2, <2>3, EditTopology
  <2> QED  BY <1>1, <2>3, <2>4, SteadyPage
<1> QED  BY <1>2, <1>3, <1>4

LEMMA SyncedPage ==
    ASSUME PageInv, Synced
    PROVE  PageInv'
<1>1. /\ UNCHANGED <<link, pool, edits, jobId, jobs, running, button, komShown, waits>>
      /\ pending > 0 /\ pending' = pending - 1 /\ Reroute(link, pool)
  BY DEF Synced, jobVars
<1>2. /\ link \in LinkStates /\ pool \in PoolStates /\ waits \subseteq Waits
      /\ jobs \in [Tokens -> Records] /\ komShown \in BOOLEAN
  BY DEF PageInv, JobsTyped, Topology
<1>3. Topology'
  <2>1. MaxEdits \in Nat /\ edits \in 0 .. MaxEdits /\ pending \in 0 .. edits
    BY DashboardAssumption DEF PageInv, Topology
  <2>2. pending - 1 \in 0 .. edits
    BY <1>1, <2>1
  <2> QED  BY <1>1, <1>2, <2>1, <2>2 DEF Topology
<1>4. Shown' /\ ShownIsNewest'
  BY <1>1, <1>2, ReroutePage
<1> QED  BY <1>1, <1>2, <1>3, <1>4, EditPage

LEMMA RestorePage ==
    ASSUME PageInv, RestoreLinks
    PROVE  PageInv'
<1> DEFINE new == [e \in Links |-> IF link[e] = "down" THEN "up" ELSE link[e]]
<1>1. /\ edits < MaxEdits /\ edits' = edits + 1
      /\ link' = new /\ jobs' = WithLost(new) /\ Reroute(new, pool)
      /\ UNCHANGED <<pool, pending, jobId, running, button, komShown, waits>>
  BY DEF RestoreLinks, SetLinks
<1>2. /\ link \in LinkStates /\ pool \in PoolStates /\ waits \subseteq Waits
      /\ jobs \in [Tokens -> Records] /\ komShown \in BOOLEAN
  BY DEF PageInv, JobsTyped, Topology
<1>3. new \in LinkStates
  BY <1>2 DEF LinkStates
<1> HIDE DEF new
<1>4. Topology'
  <2>1. MaxEdits \in Nat /\ edits \in 0 .. MaxEdits /\ pending \in 0 .. edits
    BY DashboardAssumption DEF PageInv, Topology
  <2>2. edits + 1 \in 0 .. MaxEdits /\ pending \in 0 .. edits + 1
    BY <1>1, <2>1
  <2> QED  BY <1>1, <1>2, <1>3, <2>2 DEF Topology
<1>5. Shown' /\ ShownIsNewest'
  BY <1>1, <1>2, <1>3, ReroutePage
<1>6. jobs' \in [Tokens -> Records] /\ \A t \in Tokens : jobs'[t].at = jobs[t].at
  BY <1>1, <1>2, LostKeepsStages
<1> QED  BY <1>1, <1>2, <1>4, <1>5, <1>6, EditPage

LEMMA PoolSet ==
    ASSUME NEW f \in PoolStates, NEW n, NEW v \in 0 .. 100
    PROVE  [f EXCEPT ![n] = v] \in PoolStates
BY DEF PoolStates

LEMMA InitialTopology == InitialLink \in LinkStates /\ InitialPool \in PoolStates
BY DashboardAssumption DEF InitialLink, LinkStates, PoolStates

LEMMA ResetTopologyPage ==
    ASSUME PageInv, ResetTopology
    PROVE  PageInv'
<1>1. /\ edits < MaxEdits /\ edits' = edits + 1
      /\ link' = InitialLink /\ jobs' = WithLost(InitialLink) /\ pool' = InitialPool
      /\ circuit' = None /\ response' = None /\ komShown' = FALSE
      /\ UNCHANGED <<jobId, running, button, pending, waits>>
  BY DEF ResetTopology, SetLinks
<1>2. waits \subseteq Waits /\ jobs \in [Tokens -> Records]
  BY DEF PageInv, JobsTyped
<1>3. Topology'
  <2>1. MaxEdits \in Nat /\ edits \in 0 .. MaxEdits /\ pending \in 0 .. edits
    BY DashboardAssumption DEF PageInv, Topology
  <2>2. edits + 1 \in 0 .. MaxEdits /\ pending \in 0 .. edits + 1
    BY <1>1, <2>1
  <2> QED  BY <1>1, <2>2, InitialTopology DEF Topology
<1>4. Shown' /\ ShownIsNewest'
  BY <1>1 DEF Shown, ShownIsNewest
<1>5. jobs' \in [Tokens -> Records] /\ \A t \in Tokens : jobs'[t].at = jobs[t].at
  BY <1>1, <1>2, InitialTopology, LostKeepsStages
<1> QED  BY <1>1, <1>2, <1>3, <1>4, <1>5, EditPage

\* The token that "Reset demo" takes is nobody's: no job runs under it.
LEMMA ResetDemoPage ==
    ASSUME PageInv, ResetDemo
    PROVE  PageInv'
<1>1. /\ jobId < MaxJobs /\ jobId' = jobId + 1
      /\ link' = InitialLink /\ pool' = InitialPool
      /\ circuit' = None /\ response' = None /\ komShown' = FALSE /\ running' = FALSE
      /\ UNCHANGED <<jobs, button, pending, edits, waits>>
  BY DEF ResetDemo
<1>2. Topology'
  BY <1>1, InitialTopology DEF PageInv, Topology
<1>3. jobId \in 0 .. MaxJobs /\ MaxJobs \in Nat
  BY DashboardAssumption DEF PageInv, JobsTyped
<1>4. jobId + 1 \in 0 .. MaxJobs /\ jobId + 1 > jobId
  BY <1>1, <1>3
<1>5. JobsTyped'
  BY <1>1, <1>4 DEF PageInv, JobsTyped
<1>6. Shown' /\ ShownIsNewest'
  BY <1>1 DEF Shown, ShownIsNewest
<1>7. Unused'
  <2>1. \A t \in Tokens : t > jobId + 1 => t > jobId
    BY <1>3 DEF Tokens
  <2> QED  BY <1>1, <2>1 DEF PageInv, Unused
<1>8. RunningIsNewest'
  <2>1. jobId' \in Tokens => jobs'[jobId'].at = "none"
    BY <1>1, <1>4 DEF PageInv, Unused
  <2> QED  BY <1>1, <2>1 DEF RunningIsNewest, Stages
<1> QED  BY <1>2, <1>5, <1>6, <1>7, <1>8 DEF PageInv

\* Whichever link or city a scenario picks.
LEMMA StrikeKeeps ==
    ASSUME PageInv, NEW kind, Strike(kind)
    PROVE  /\ Topology'
           /\ \/ jobs' = jobs
              \/ \E new \in LinkStates : jobs' = WithLost(new)
<1>1. link \in LinkStates /\ pool \in PoolStates
  BY DEF PageInv, Topology
<1>2. CASE /\ Edit /\ SetLinks([link EXCEPT ![LinkToFail] = "down"]) /\ UNCHANGED pool
  <2> DEFINE new == [link EXCEPT ![LinkToFail] = "down"]
  <2>1. new \in LinkStates
    BY <1>1 DEF LinkStates
  <2>2. link' = new /\ jobs' = WithLost(new) /\ pool' = pool /\ Edit
    BY <1>2 DEF SetLinks
  <2> HIDE DEF new
  <2> QED  BY <1>1, <2>1, <2>2, EditTopology
<1>3. CASE /\ Edit /\ pool' = [pool EXCEPT ![NodeToDrain] = 8] /\ UNCHANGED <<link, jobs>>
  <2> DEFINE n == NodeToDrain
  <2> HIDE DEF n
  <2>1. [pool EXCEPT ![n] = 8] \in PoolStates
    <3>1. 8 \in 0 .. 100
      OBVIOUS
    <3> QED  BY <1>1, <3>1, PoolSet
  <2>2. pool' \in PoolStates
    BY <1>3, <2>1 DEF n
  <2> QED  BY <1>1, <1>3, <2>2, EditTopology
<1>4. CASE UNCHANGED <<editVars, jobs>>
  BY <1>4 DEF editVars, PageInv, Topology
<1> QED  BY <1>2, <1>3, <1>4 DEF Strike

LEMMA NormalPage ==
    ASSUME PageInv, Normal, waits' \subseteq Waits
    PROVE  PageInv'
<1>1. /\ link' = InitialLink /\ pool' = InitialPool
      /\ Start(1) /\ UNCHANGED <<pending, edits>> /\ 1 \in Keys
  BY DashboardAssumption DEF Normal
<1>2. Topology'
  BY <1>1, InitialTopology DEF PageInv, Topology
<1>3. JobsTyped'
  BY <1>1, StartPage DEF JobsTyped
<1> QED  BY <1>1, <1>2, <1>3, StartPage DEF PageInv

LEMMA ScenarioPage ==
    ASSUME PageInv, Scenario1 \/ \E kind \in ScenarioKinds : Scenario(kind)
    PROVE  PageInv'
<1>1. waits \subseteq Waits
  BY DEF PageInv, JobsTyped
<1>2. CASE Scenario1
  BY <1>1, <1>2, NormalPage DEF Scenario1
<1>3. ASSUME NEW kind \in ScenarioKinds, Scenario(kind)
      PROVE  PageInv'
  <2>1. CASE Normal /\ waits' = waits \cup {[kind |-> kind, job |-> jobId + 1]}
    <3>1. 1 \in Keys /\ Start(1)
      BY <2>1, DashboardAssumption DEF Normal
    <3>2. jobId + 1 \in Tokens
      BY <3>1, StartPage
    <3>3. waits' \subseteq Waits
      BY <1>1, <2>1, <3>2 DEF Waits
    <3> QED  BY <2>1, <3>3, NormalPage
  <2>2. CASE Strike(kind) /\ Steady /\ UNCHANGED waits
    BY <1>1, <2>2, StrikeKeeps, SteadyPage
  <2> QED  BY <1>3, <2>1, <2>2 DEF Scenario
<1> QED  BY <1>2, <1>3

LEMMA ResumePage ==
    ASSUME PageInv, NEW w \in waits, Resume(w)
    PROVE  PageInv'
<1>1. waits' \subseteq Waits /\ Steady
  BY DEF PageInv, JobsTyped, Resume
<1>2. CASE UNCHANGED <<editVars, jobs>>
  <2>1. Topology'
    BY <1>2 DEF editVars, PageInv, Topology
  <2> QED  BY <1>1, <1>2, <2>1, SteadyPage
<1>3. CASE Strike(w.kind)
  BY <1>1, <1>3, StrikeKeeps, SteadyPage
<1> QED  BY <1>2, <1>3 DEF Resume

-----------------------------------------------------------------------------
(* The newest job.                                                           *)

LEMMA PageStep == PageInv /\ [Next]_vars => PageInv'
<1> SUFFICES ASSUME PageInv, [Next]_vars PROVE PageInv'
  OBVIOUS
<1>1. CASE Click
  BY <1>1, ClickPage
<1>2. ASSUME NEW t \in Tokens, JobStep(t) PROVE PageInv'
  BY <1>2, JobPage
<1>3. CASE \/ \E e \in Links : ToggleLink(e) \/ AddLink(e)
           \/ \E e \in PoolEdits : SetPool(e[1], e[2])
  BY <1>3, TopologyEdits
<1>4. CASE Synced
  BY <1>4, SyncedPage
<1>5. CASE RestoreLinks \/ ResetTopology \/ ResetDemo
  BY <1>5, RestorePage, ResetTopologyPage, ResetDemoPage
<1>6. CASE Scenario1 \/ \E kind \in ScenarioKinds : Scenario(kind)
  BY <1>6, ScenarioPage
<1>7. ASSUME NEW w \in waits, Resume(w) PROVE PageInv'
  BY <1>7, ResumePage
<1>8. CASE UNCHANGED vars
  <2>1. /\ UNCHANGED <<link, pool, pending, edits, jobId, jobs, running, button, komShown>>
        /\ UNCHANGED <<circuit, response, waits>>
    BY <1>8 DEF vars, editVars, jobVars, shown
  <2>2. Topology' /\ JobsTyped'
    BY <2>1 DEF PageInv, Topology, JobsTyped
  <2>3. Shown' /\ ShownIsNewest'
    BY <2>1 DEF PageInv, Shown, ShownIsNewest
  <2>4. Unused' /\ RunningIsNewest'
    BY <2>1, StagesKept
  <2> QED  BY <2>2, <2>3, <2>4 DEF PageInv
<1> QED  BY <1>1, <1>2, <1>3, <1>4, <1>5, <1>6, <1>7, <1>8 DEF Next

(***************************************************************************)
(* However jobs, edits, resets and scenarios interleave, the page shows    *)
(* the result and the circuit of the newest job and of no other, and it    *)
(* says that a job is running exactly while the newest one is              *)
(* (provisionCircuit, isJobCurrent, rerouteActiveCircuit).                 *)
(***************************************************************************)
THEOREM PageShowsNewest == Spec => []LatestOnly
<1>1. PageInv => LatestOnly
  BY DEF PageInv, ShownIsNewest, RunningIsNewest, LatestOnly
<1> QED  BY <1>1, InitPage, PageStep, PTL DEF Spec

(***************************************************************************)
(* The page's state stays in its types: the key pools between empty and    *)
(* full, the jobs in their stages, and every planned path a simple path    *)
(* from the source to the destination (dashboard.js).                      *)
(***************************************************************************)
THEOREM PageTyped == Spec => []TypeOK
<1>1. Paths \subseteq SimplePaths \cup {<< >>}
  <2> SUFFICES ASSUME NEW l \in LinkStates, NEW p \in PoolStates, NEW k \in Keys
               PROVE  ComputePath(l, p, KeyBudget(k)) \in SimplePaths \cup {<< >>}
    BY DEF Paths
  <2>1. p \in [Cities -> 0 .. 100]
    BY DEF PoolStates
  <2> QED  BY <2>1, SearchIsBest
<1>2. Records \subseteq JobRecords
  <2> SUFFICES ASSUME NEW r \in Records PROVE r \in JobRecords
    OBVIOUS
  <2> QED  BY <1>1 DEF Records, JobRecords
<1>3. PageInv => TypeOK
  <2> SUFFICES ASSUME PageInv PROVE TypeOK
    OBVIOUS
  <2>1. /\ link \in [Links -> {"up", "down", "absent"}] /\ pool \in [Cities -> 0 .. 100]
        /\ edits \in 0 .. MaxEdits /\ pending \in 0 .. edits /\ MaxEdits \in Nat
    BY DashboardAssumption DEF PageInv, Topology, LinkStates, PoolStates
  <2>2. pending \in 0 .. MaxEdits
    BY <2>1
  <2>3. \A t \in Tokens : jobs[t] \in JobRecords
    BY <1>2 DEF PageInv, JobsTyped
  <2>4. jobId \in 0 .. MaxJobs /\ {running, button, komShown} \subseteq BOOLEAN
    BY DEF PageInv, JobsTyped
  <2>5. \A w \in waits : w.kind \in ScenarioKinds /\ w.job \in Tokens
    BY DEF PageInv, JobsTyped, Waits
  <2>6. circuit = None \/ circuit.state \in {"ACTIVE", "ACTIVE_REROUTED", "DEGRADED"}
    BY DEF PageInv, Shown, Circuits
  <2>7. response = None \/ response.status \in {"ACTIVE", "REJECTED", "DEGRADED"}
    BY DEF PageInv, Shown, Responses
  <2> QED  BY <2>1, <2>2, <2>3, <2>4, <2>5, <2>6, <2>7 DEF TypeOK
<1> QED  BY <1>3, InitPage, PageStep, PTL DEF Spec

-----------------------------------------------------------------------------
(* What is planned.                                                          *)

\* The search over links and pools the page may have.
LEMMA BestPath ==
    ASSUME NEW l, NEW p \in PoolStates, NEW k \in Keys
    PROVE  /\ ComputePath(l, p, KeyBudget(k)) \in SimplePaths \cup {<< >>}
           /\ IsBest(ComputePath(l, p, KeyBudget(k)), l, p, KeyBudget(k))
<1>1. p \in [Cities -> 0 .. 100]
  BY DEF PoolStates
<1> QED  BY <1>1, SearchIsBest

\* Only the path computation takes the newest job out of its stage.
LEMMA PlanStep ==
    ASSUME PageInv, [Next]_vars, NEW t \in Tokens,
           jobs[t].at = "pce", jobs'[t].at # "pce", Current(t)
    PROVE  Plan(t)
<1>1. jobs \in [Tokens -> Records] /\ t = jobId /\ jobId \in 0 .. MaxJobs
  BY DEF PageInv, JobsTyped, Current
<1>2. ASSUME NEW new, jobs' = WithLost(new) PROVE FALSE
  BY <1>1, <1>2, LostKeepsStages
<1>3. jobs' # jobs
  OBVIOUS
<1>4. ASSUME NEW keys \in Keys, Start(keys) PROVE FALSE
  <2>1. t # jobId + 1 /\ jobId + 1 \in Tokens
    BY <1>1, <1>4, StartPage DEF Tokens
  <2> QED  BY <1>1, <1>4, <2>1 DEF Start
<1>5. ASSUME NEW kind, Strike(kind) PROVE FALSE
  BY <1>2, <1>3, <1>5 DEF Strike, SetLinks
<1>6. ASSUME NEW u \in Tokens, JobStep(u) PROVE Plan(t)
  <2>1. CASE u = t
    <3>1. ~ Advance(t)
      BY DEF Advance
    <3>2. ~ Orchestrate(t) /\ ~ Refuse(t) /\ ~ Commit(t) /\ ~ GiveUp(t)
      BY DEF Orchestrate, Refuse, Commit, GiveUp
    <3> QED  BY <1>6, <2>1, <3>1, <3>2 DEF JobStep
  <2>2. CASE u # t
    <3>1. GiveUp(u)
      BY <1>1, <1>6, <2>2 DEF JobStep, Advance, Plan, Orchestrate, Refuse, Commit, Current
    <3>2. jobs' = [jobs EXCEPT ![u] = Over]
      BY <3>1 DEF GiveUp
    <3> QED  BY <1>1, <2>2, <3>2
  <2> QED  BY <2>1, <2>2
<1>7. ~ Click
  BY <1>4 DEF Click
<1>8. \A e \in Links : ~ ToggleLink(e) /\ ~ AddLink(e)
  BY <1>2 DEF ToggleLink, AddLink, SetLinks
<1>9. \A e \in PoolEdits : ~ SetPool(e[1], e[2])
  BY <1>3 DEF SetPool
<1>10. ~ Synced /\ ~ ResetDemo
  BY <1>3 DEF Synced, ResetDemo, jobVars
<1>11. ~ RestoreLinks /\ ~ ResetTopology
  BY <1>2 DEF RestoreLinks, ResetTopology, SetLinks
<1>12. ~ Normal
  BY <1>4, DashboardAssumption DEF Normal
<1>13. ~ Scenario1 /\ \A kind \in ScenarioKinds : ~ Scenario(kind)
  BY <1>5, <1>12 DEF Scenario1, Scenario
<1>14. \A w \in waits : ~ Resume(w)
  BY <1>3, <1>5 DEF Resume
<1>15. ~ UNCHANGED vars
  BY <1>3 DEF vars, jobVars
<1> QED  BY <1>6, <1>7, <1>8, <1>9, <1>10, <1>11, <1>13, <1>14, <1>15 DEF Next

(***************************************************************************)
(* Every path planned for a request is a cheapest one for the links and    *)
(* the pools of that moment, and the path computation refuses a request    *)
(* only if there is none (provisionCircuit, computePathByCost).            *)
(***************************************************************************)
THEOREM PlansBest == Spec => PlansAreBest
<1> DEFINE Best == \A t \in Tokens :
              jobs[t].at = "pce" /\ jobs'[t].at # "pce" /\ Current(t) =>
                 IsBest(jobs'[t].path, link, pool, KeyBudget(jobs[t].keys))
<1>1. PageInv /\ [Next]_vars => Best
  <2> SUFFICES ASSUME PageInv, [Next]_vars, NEW t \in Tokens,
                      jobs[t].at = "pce", jobs'[t].at # "pce", Current(t)
               PROVE  IsBest(jobs'[t].path, link, pool, KeyBudget(jobs[t].keys))
    OBVIOUS
  <2> DEFINE b == KeyBudget(jobs[t].keys)
             path == ComputePath(link, pool, b)
             next == IF Allocates(path, pool, b) THEN "kom" ELSE "komfail"
  <2>1. jobs \in [Tokens -> Records] /\ pool \in PoolStates /\ jobs[t].keys \in Keys
    BY DEF PageInv, JobsTyped, Topology, Records
  <2>2. IsBest(path, link, pool, b)
    BY <2>1, BestPath
  <2>3. \/ path = << >> /\ Fail(t)
        \/ jobs' = [jobs EXCEPT ![t].at = next, ![t].path = path]
    <3>1. Plan(t)
      BY PlanStep
    <3> QED  BY <3>1 DEF Plan
  <2> HIDE DEF b, path, next
  <2>4. CASE path = << >> /\ Fail(t)
    <3>1. jobs'[t] = Over /\ Over.path = << >>
      BY <2>1, <2>4 DEF Fail, Over, NoJob
    <3> QED  BY <2>2, <2>4, <3>1 DEF b
  <2>5. CASE jobs' = [jobs EXCEPT ![t].at = next, ![t].path = path]
    <3>1. jobs'[t].path = path
      BY <2>1, <2>5 DEF Records
    <3> QED  BY <2>2, <3>1 DEF b
  <2> QED  BY <2>3, <2>4, <2>5
<1>2. PageInv /\ [Next]_vars => [Best]_vars
  BY <1>1
<1> QED  BY <1>2, InitPage, PageStep, PTL DEF Spec, PlansAreBest

-----------------------------------------------------------------------------
(* The circuit.                                                              *)

\* What the newest job, once planned, has lost of its path.
LossKnown ==
    jobId \in Tokens /\ jobs[jobId].at \in Planned =>
       {e \in LinksOf(jobs[jobId].path) : link[e] # "up"} \subseteq jobs[jobId].lost

CircuitInv == LossKnown /\ Settled

LEMMA InitCircuit == Init => CircuitInv
<1> SUFFICES ASSUME Init PROVE CircuitInv
  OBVIOUS
<1>1. jobId = 0 /\ circuit = None
  BY DEF Init
<1>2. jobId \notin Tokens
  BY <1>1 DEF Tokens
<1> QED  BY <1>1, <1>2 DEF CircuitInv, LossKnown, Settled

\* No job of that token is planned, and there is no circuit.
LEMMA CircuitCleared ==
    ASSUME circuit' = None, jobId' \in Tokens => jobs'[jobId'].at \notin Planned
    PROVE  CircuitInv'
BY DEF CircuitInv, LossKnown, Settled

\* A path that the search has found is up.
LEMMA BestIsUp ==
    ASSUME NEW l, NEW p, NEW b, NEW q, IsBest(q, l, p, b), q # << >>
    PROVE  \A e \in LinksOf(q) : l[e] = "up"
<1>1. Feasible(q, l, p)
  BY DEF IsBest
<1> SUFFICES ASSUME NEW e \in LinksOf(q) PROVE l[e] = "up"
  OBVIOUS
<1>2. PICK i \in 1 .. Len(q) - 1 : EndsOf[e] = {q[i], q[i + 1]}
  BY DEF LinksOf
<1>3. PICK d \in Links : EndsOf[d] = {q[i], q[i + 1]} /\ l[d] = "up"
  BY <1>1 DEF Feasible, Roads
<1>4. d = e
  BY <1>2, <1>3, DashboardAssumption DEF LinksOf
<1> QED  BY <1>3, <1>4

\* The history keeps up with the links.
LEMMA LossKept ==
    ASSUME PageInv, LossKnown, NEW new, jobs' = WithLost(new), link' = new, jobId' = jobId
    PROVE  LossKnown'
<1> SUFFICES ASSUME jobId \in Tokens, jobs'[jobId].at \in Planned,
                    NEW e \in LinksOf(jobs'[jobId].path), new[e] # "up"
             PROVE  e \in jobs'[jobId].lost
  BY DEF LossKnown
<1>1. jobs[jobId] \in Records
  BY DEF PageInv, JobsTyped
<1> DEFINE dropped == {d \in Links : link[d] = "up" /\ new[d] # "up"}
<1>2. /\ jobs[jobId].at \in Planned /\ jobs'[jobId].path = jobs[jobId].path
      /\ jobs'[jobId].lost = jobs[jobId].lost \cup dropped
  BY <1>1 DEF WithLost, Records
<1>3. e \in Links
  BY DEF LinksOf
<1>4. CASE link[e] = "up"
  BY <1>2, <1>3, <1>4
<1>5. CASE link[e] # "up"
  <2>1. e \in jobs[jobId].lost
    BY <1>2, <1>5 DEF LossKnown
  <2> QED  BY <1>2, <2>1
<1> QED  BY <1>4, <1>5

\* Once rerouted, the circuit is what its state says.
LEMMA RerouteSettles ==
    ASSUME PageInv, NEW l, NEW p \in PoolStates, Reroute(l, p), link' = l, pool' = p,
           circuit # None
    PROVE  Settled'
<1> DEFINE b == KeyBudget(circuit.keys)
           path == ComputePath(l, p, b)
<1>1. circuit \in Circuits /\ circuit.keys \in Keys
  BY DEF PageInv, Shown, Circuits
<1>2. IsBest(path, l, p, b)
  BY <1>1, BestPath
<1>3. CASE /\ path # << >>
           /\ circuit' = [circuit EXCEPT !.state = "ACTIVE_REROUTED", !.lost = {}, !.path = path]
  <2> HIDE DEF b, path
  <2>1. circuit'.state = "ACTIVE_REROUTED" /\ circuit'.path = path /\ circuit'.keys = circuit.keys
    BY <1>1, <1>3 DEF Circuits
  <2>2. IsBest(circuit'.path, link', pool', KeyBudget(circuit'.keys))
    BY <1>2, <2>1 DEF b
  <2> QED  BY <2>1, <2>2 DEF Settled
<1>4. CASE path = << >> /\ circuit' = [circuit EXCEPT !.state = "DEGRADED"]
  <2> HIDE DEF b, path
  <2>1. circuit'.state = "DEGRADED" /\ circuit'.keys = circuit.keys
    BY <1>1, <1>4 DEF Circuits
  <2>2. IsBest(<< >>, link', pool', KeyBudget(circuit'.keys))
    BY <1>2, <1>4, <2>1 DEF b
  <2> QED  BY <2>1, <2>2 DEF Settled
<1> QED  BY <1>3, <1>4 DEF Reroute, Reroutes

\* Nothing that the circuit depends on changes.
LEMMA SettledKept ==
    ASSUME Settled, UNCHANGED <<link, pool, circuit, pending>>
    PROVE  Settled'
BY DEF Settled, Down

\* While an edit's handler has not rerouted, nothing is said.
LEMMA Unsettled ==
    ASSUME PageInv, Edit
    PROVE  Settled'
<1>1. pending \in Nat /\ pending' = pending + 1
  BY DEF PageInv, Topology, Edit
<1>2. pending' # 0
  BY <1>1
<1> QED  BY <1>2 DEF Settled

LEMMA JobCircuit ==
    ASSUME PageInv, CircuitInv, NEW t \in Tokens, JobStep(t)
    PROVE  CircuitInv'
<1>1. /\ jobs \in [Tokens -> Records] /\ jobs[t] \in Records
      /\ pool \in PoolStates /\ jobs[t].keys \in Keys
  BY DEF PageInv, JobsTyped, Topology, Records
<1>2. ASSUME Fail(t), t = jobId PROVE CircuitInv'
  <2>1. jobs' = [jobs EXCEPT ![t] = Over] /\ jobId' = jobId /\ circuit' = None
    BY <1>2 DEF Fail
  <2>2. jobs'[jobId'].at \notin Planned
    BY <1>1, <1>2, <2>1, FreshRecords DEF Planned
  <2> QED  BY <2>1, <2>2, CircuitCleared
<1>3. CASE Advance(t)
  <2>1. PICK step \in {<<"gateway", "identity">>, <<"identity", "topology">>, <<"topology", "pce">>} :
              jobs' = [jobs EXCEPT ![t].at = step[2]]
    BY <1>3 DEF Advance
  <2>2. t = jobId /\ UNCHANGED <<jobId, link, pool, pending, circuit>>
    BY <1>3 DEF Advance, Current, editVars, shown
  <2>3. jobs'[jobId'].at \notin Planned
    BY <1>1, <2>1, <2>2 DEF Planned, Records
  <2> QED  BY <2>2, <2>3, SettledKept DEF CircuitInv, LossKnown
<1>4. CASE Plan(t)
  <2> DEFINE b == KeyBudget(jobs[t].keys)
             path == ComputePath(link, pool, b)
             next == IF Allocates(path, pool, b) THEN "kom" ELSE "komfail"
  <2>1. t = jobId
    BY <1>4 DEF Plan, Current
  <2>2. IsBest(path, link, pool, b)
    BY <1>1, BestPath
  <2>3. \/ Fail(t)
        \/ /\ path # << >>
           /\ jobs' = [jobs EXCEPT ![t].at = next, ![t].path = path]
           /\ UNCHANGED <<jobId, editVars, shown>>
    BY <1>4 DEF Plan
  <2> HIDE DEF b, path, next
  <2>4. CASE /\ path # << >>
             /\ jobs' = [jobs EXCEPT ![t].at = next, ![t].path = path]
             /\ UNCHANGED <<jobId, editVars, shown>>
    <3>1. UNCHANGED <<jobId, link, pool, pending, circuit>>
      BY <2>4 DEF editVars, shown
    <3>2. jobs'[jobId'].path = path
      BY <1>1, <2>1, <2>4 DEF Records
    <3>3. \A e \in LinksOf(path) : link[e] = "up"
      BY <2>2, <2>4, BestIsUp
    <3>4. LossKnown'
      BY <3>1, <3>2, <3>3 DEF LossKnown
    <3> QED  BY <3>1, <3>4, SettledKept DEF CircuitInv
  <2> QED  BY <1>2, <2>1, <2>3, <2>4
<1>5. CASE Orchestrate(t)
  <2>1. t = jobId /\ jobs[t].at = "kom"
    BY <1>5 DEF Orchestrate, Current
  <2>2. CASE /\ jobs' = [jobs EXCEPT ![t].at = "prov"]
             /\ UNCHANGED <<jobId, editVars, shown>>
    <3>1. UNCHANGED <<jobId, link, pool, pending, circuit>>
      BY <2>2 DEF editVars, shown
    <3>2. jobs'[t].path = jobs[t].path /\ jobs'[t].lost = jobs[t].lost
      BY <1>1, <2>2 DEF Records
    <3>3. LossKnown'
      BY <2>1, <3>1, <3>2 DEF CircuitInv, LossKnown, Planned
    <3> QED  BY <3>1, <3>3, SettledKept DEF CircuitInv
  <2> QED  BY <1>2, <1>5, <2>1, <2>2 DEF Orchestrate
<1>6. CASE Refuse(t)
  BY <1>2, <1>6 DEF Refuse, Current
<1>7. CASE Commit(t)
  <2>1. t = jobId /\ jobs[t].at = "prov" /\ jobs' = [jobs EXCEPT ![t] = Over]
    BY <1>7 DEF Commit, Current
  <2>2. /\ circuit' = [job |-> t, state |-> "ACTIVE", keys |-> jobs[t].keys,
                       path |-> jobs[t].path, lost |-> jobs[t].lost]
        /\ UNCHANGED <<jobId, link>>
    BY <1>7 DEF Commit
  <2>3. jobs'[jobId'].at \notin Planned
    BY <1>1, <2>1, <2>2, FreshRecords DEF Planned
  <2>4. LossKnown'
    BY <2>3 DEF LossKnown
  <2>5. {e \in LinksOf(jobs[t].path) : link[e] # "up"} \subseteq jobs[t].lost
    BY <2>1 DEF CircuitInv, LossKnown, Planned
  <2>6. circuit'.state = "ACTIVE" /\ circuit'.path = jobs[t].path /\ circuit'.lost = jobs[t].lost
    BY <2>2
  <2>7. Down(circuit)' \subseteq circuit'.lost
    BY <2>2, <2>5, <2>6 DEF Down
  <2>8. Settled'
    BY <2>6, <2>7 DEF Settled
  <2> QED  BY <2>4, <2>8 DEF CircuitInv
<1>8. CASE GiveUp(t)
  <2>1. t # jobId /\ jobs' = [jobs EXCEPT ![t] = Over]
    BY <1>8 DEF GiveUp, Current
  <2>2. UNCHANGED <<jobId, link, pool, pending, circuit>>
    BY <1>8 DEF GiveUp, editVars, shown
  <2>3. jobs'[jobId] = jobs[jobId]
    BY <1>1, <2>1
  <2>4. LossKnown'
    BY <2>2, <2>3 DEF CircuitInv, LossKnown
  <2> QED  BY <2>2, <2>4, SettledKept DEF CircuitInv
<1> QED  BY <1>3, <1>4, <1>5, <1>6, <1>7, <1>8 DEF JobStep

LEMMA StartCircuit ==
    ASSUME PageInv, NEW k \in Keys, Start(k)
    PROVE  CircuitInv'
<1>1. circuit' = None /\ jobId' = jobId + 1 /\ jobId' \in Tokens
  BY StartPage DEF Start
<1>2. jobs' = [jobs EXCEPT ![jobId + 1] = [NoJob EXCEPT !.at = "gateway", !.keys = k]]
  BY DEF Start
<1>3. jobs'[jobId'].at = "gateway"
  BY <1>1, <1>2, FreshRecords DEF PageInv, JobsTyped
<1> QED  BY <1>1, <1>3, CircuitCleared DEF Planned

\* The event of a scenario, or nothing.
LEMMA StrikeCircuit ==
    ASSUME PageInv, CircuitInv, Steady,
           \/ \E kind : Strike(kind)
           \/ UNCHANGED <<editVars, jobs>>
    PROVE  CircuitInv'
<1>1. UNCHANGED <<jobId, circuit>>
  BY DEF Steady, shown
<1>2. CASE /\ Edit /\ SetLinks([link EXCEPT ![LinkToFail] = "down"])
  <2> DEFINE new == [link EXCEPT ![LinkToFail] = "down"]
  <2>1. link' = new /\ jobs' = WithLost(new)
    BY <1>2 DEF SetLinks
  <2> HIDE DEF new
  <2>2. LossKnown'
    BY <1>1, <2>1, LossKept DEF CircuitInv
  <2> QED  BY <1>2, <2>2, Unsettled DEF CircuitInv
<1>3. CASE Edit /\ UNCHANGED <<link, jobs>>
  <2>1. LossKnown'
    BY <1>1, <1>3 DEF CircuitInv, LossKnown
  <2> QED  BY <1>3, <2>1, Unsettled DEF CircuitInv
<1>4. CASE UNCHANGED <<editVars, jobs>>
  <2>1. UNCHANGED <<link, pool, pending, jobs>>
    BY <1>4 DEF editVars
  <2>2. LossKnown'
    BY <1>1, <2>1 DEF CircuitInv, LossKnown
  <2> QED  BY <1>1, <2>1, <2>2, SettledKept DEF CircuitInv
<1> QED  BY <1>2, <1>3, <1>4 DEF Strike

LEMMA EditCircuit ==
    ASSUME PageInv, CircuitInv,
           \/ \E e \in Links : ToggleLink(e) \/ AddLink(e)
           \/ \E e \in PoolEdits : SetPool(e[1], e[2])
    PROVE  CircuitInv'
<1>1. Edit /\ Steady
  BY DEF ToggleLink, AddLink, SetPool
<1>2. jobId' = jobId
  BY <1>1 DEF Steady
<1>3. ASSUME NEW new, SetLinks(new) PROVE LossKnown'
  BY <1>2, <1>3, LossKept DEF SetLinks, CircuitInv
<1>4. ASSUME UNCHANGED <<link, jobs>> PROVE LossKnown'
  BY <1>2, <1>4 DEF CircuitInv, LossKnown
<1>5. LossKnown'
  BY <1>3, <1>4 DEF ToggleLink, AddLink, SetPool
<1> QED  BY <1>1, <1>5, Unsettled DEF CircuitInv

\* A reroute over the links and the pools as they are after the step.
LEMMA RerouteCircuit ==
    ASSUME PageInv, CircuitInv, Reroute(link', pool'), pool' \in PoolStates, LossKnown'
    PROVE  CircuitInv'
<1>1. CASE circuit = None
  <2>1. circuit' = None
    BY <1>1 DEF Reroute, shown
  <2> QED  BY <2>1 DEF CircuitInv, Settled
<1>2. CASE circuit # None
  <2>1. Settled'
    BY <1>2, RerouteSettles
  <2> QED  BY <2>1 DEF CircuitInv
<1> QED  BY <1>1, <1>2

LEMMA ResetCircuit ==
    ASSUME PageInv, CircuitInv, Synced \/ RestoreLinks \/ ResetTopology \/ ResetDemo
    PROVE  CircuitInv'
<1>1. pool \in PoolStates
  BY DEF PageInv, Topology
<1>2. CASE Synced
  <2>1. UNCHANGED <<link, pool, jobId, jobs>> /\ Reroute(link, pool)
    BY <1>2 DEF Synced, jobVars
  <2>2. LossKnown'
    BY <2>1 DEF CircuitInv, LossKnown
  <2> QED  BY <1>1, <2>1, <2>2, RerouteCircuit
<1>3. CASE RestoreLinks
  <2> DEFINE new == [e \in Links |-> IF link[e] = "down" THEN "up" ELSE link[e]]
  <2>1. link' = new /\ jobs' = WithLost(new) /\ Reroute(new, pool) /\ UNCHANGED <<pool, jobId>>
    BY <1>3 DEF RestoreLinks, SetLinks
  <2> HIDE DEF new
  <2>2. LossKnown'
    BY <2>1, LossKept DEF CircuitInv
  <2> QED  BY <1>1, <2>1, <2>2, RerouteCircuit
<1>4. CASE ResetTopology
  <2>1. link' = InitialLink /\ jobs' = WithLost(InitialLink) /\ jobId' = jobId /\ circuit' = None
    BY <1>4 DEF ResetTopology, SetLinks
  <2>2. LossKnown'
    BY <2>1, LossKept DEF CircuitInv
  <2> QED  BY <2>1, <2>2 DEF CircuitInv, Settled
<1>5. CASE ResetDemo
  <2>1. jobId' = jobId + 1 /\ jobs' = jobs /\ circuit' = None
    BY <1>5 DEF ResetDemo
  <2>2. jobId \in Nat
    BY DEF PageInv, JobsTyped
  <2>3. jobId' > jobId
    BY <2>1, <2>2
  <2>4. jobId' \in Tokens => jobs'[jobId'].at = "none"
    BY <2>1, <2>3 DEF PageInv, Unused
  <2> QED  BY <2>1, <2>4, CircuitCleared DEF Planned
<1> QED  BY <1>2, <1>3, <1>4, <1>5

LEMMA CircuitStep == PageInv /\ CircuitInv /\ [Next]_vars => CircuitInv'
<1> SUFFICES ASSUME PageInv, CircuitInv, [Next]_vars PROVE CircuitInv'
  OBVIOUS
<1>1. CASE Click
  BY <1>1, StartCircuit DEF Click
<1>2. ASSUME NEW t \in Tokens, JobStep(t) PROVE CircuitInv'
  BY <1>2, JobCircuit
<1>3. CASE \/ \E e \in Links : ToggleLink(e) \/ AddLink(e)
           \/ \E e \in PoolEdits : SetPool(e[1], e[2])
  BY <1>3, EditCircuit
<1>4. CASE Synced \/ RestoreLinks \/ ResetTopology \/ ResetDemo
  BY <1>4, ResetCircuit
<1>5. CASE Normal
  BY <1>5, StartCircuit, DashboardAssumption DEF Normal
<1>6. CASE Scenario1 \/ \E kind \in ScenarioKinds : Scenario(kind)
  BY <1>5, <1>6, StrikeCircuit DEF Scenario1, Scenario
<1>7. ASSUME NEW w \in waits, Resume(w) PROVE CircuitInv'
  BY <1>7, StrikeCircuit DEF Resume
<1>8. CASE UNCHANGED vars
  <2>1. UNCHANGED <<link, pool, pending, jobId, jobs, circuit>>
    BY <1>8 DEF vars, editVars, jobVars, shown
  <2>2. LossKnown'
    BY <2>1 DEF CircuitInv, LossKnown
  <2> QED  BY <2>1, <2>2, SettledKept DEF CircuitInv
<1> QED  BY <1>1, <1>2, <1>3, <1>4, <1>6, <1>7, <1>8 DEF Next

(***************************************************************************)
(* Once every handler has rerouted, the circuit is what its state says:    *)
(* DEGRADED only if there is no path, ACTIVE_REROUTED on a cheapest one,   *)
(* and ACTIVE on links that are up, but for those lost while its job was   *)
(* on the way from the path computation to the end (rerouteActiveCircuit,  *)
(* provisionCircuit).                                                      *)
(***************************************************************************)
THEOREM CircuitSettled == Spec => []Settled
<1>1. Init => PageInv /\ CircuitInv
  BY InitPage, InitCircuit
<1>2. PageInv /\ CircuitInv /\ [Next]_vars => (PageInv /\ CircuitInv)'
  BY PageStep, CircuitStep
<1>3. PageInv /\ CircuitInv => Settled
  BY DEF CircuitInv
<1> QED  BY <1>1, <1>2, <1>3, PTL DEF Spec
=============================================================================
