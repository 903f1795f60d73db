----------------------------- MODULE Planning_proofs ----------------------------
(***************************************************************************)
(* What a plan of the day moves and what a call of /plan-daily takes away, *)
(* for any number of warehouses, stores, calls, stocks and orders.         *)
(*                                                                         *)
(* The plan is computed by recursion over finite data, so these proofs     *)
(* rest on the inductions and sums of Sums.  From there: sorting; the      *)
(* greedy loop and its invariant; what the phases do to the gaps, one      *)
(* after the other; the transactions; the scraps that are too little to be *)
(* sent; which pair the loop gives what.                                   *)
(***************************************************************************)
EXTENDS Planning, Sums

-----------------------------------------------------------------------------
(* Sorting *)

Gaps == [Locations -> Int]

\* A strict total order of the locations.
LEMMA AheadOrders ==
    ASSUME NEW g \in Gaps, NEW l \in Locations, NEW m \in Locations, NEW n \in Locations
    PROVE  /\ ~Ahead(g, l, l)
           /\ l = m \/ Ahead(g, l, m) \/ Ahead(g, m, l)
           /\ Ahead(g, l, m) /\ Ahead(g, m, n) => Ahead(g, l, n)
<1>1. /\ g[l] \in Int /\ g[m] \in Int /\ g[n] \in Int
      /\ Order[l] \in Nat /\ Order[m] \in Nat /\ Order[n] \in Nat
      /\ Order[l] = Order[m] => l = m
  BY PlanningAssumption DEF Gaps
<1>. QED
  BY <1>1 DEF Ahead

\* Of several locations one comes last.
LEMMA LastExists ==
    ASSUME NEW g \in Gaps, NEW T \in SUBSET Locations, IsFiniteSet(T), T # {}
    PROVE  \E x \in T : \A y \in T \ {x} : Ahead(g, y, x)
<1> DEFINE Last(s) == \E x \in s : \A y \in s \ {x} : Ahead(g, y, x)
           Q == {s \in SUBSET T : s = {} \/ Last(s)}
<1>1. {} \in Q
  OBVIOUS
<1>2. ASSUME NEW s \in SUBSET T, NEW x \in T, s \in Q
      PROVE  s \cup {x} \in Q
  <2>1. CASE s = {}
    BY <2>1
  <2>2. CASE x \in s
    <3>1. s \cup {x} = s
      BY <2>2
    <3>. QED
      BY <1>2, <3>1
  <2>3. CASE s # {} /\ x \notin s
    <3>1. PICK z \in s : \A y \in s \ {z} : Ahead(g, y, z)
      BY <1>2, <2>3
    <3>2. z \in Locations /\ x \in Locations /\ z # x
      BY <2>3
    <3>3. CASE Ahead(g, x, z)
      <4>1. \A y \in (s \cup {x}) \ {z} : Ahead(g, y, z)
        BY <3>1, <3>3
      <4>. QED
        BY <4>1
    <3>4. CASE Ahead(g, z, x)
      <4>1. ASSUME NEW y \in s PROVE Ahead(g, y, x)
        BY <3>1, <3>2, <3>4, AheadOrders
      <4>. QED
        BY <4>1
    <3>. QED
      BY <3>2, <3>3, <3>4, AheadOrders
  <2>. QED
    BY <2>1, <2>2, <2>3
<1>3. SUBSET T \subseteq Q
  <2> HIDE DEF Q
  <2>1. IsFiniteSet(T) /\ \A s \in SUBSET T, x \in T : s \in Q => s \cup {x} \in Q
    BY <1>2
  <2>. QED
    BY ONLY <1>1, <2>1, BySets
<1>. QED
  BY <1>3

InOrder(g, q) == \A i, j \in DOMAIN q : i < j => Ahead(g, q[i], q[j])

\* Every set of locations can be sorted.
LEMMA SortedExists ==
    ASSUME NEW g \in Gaps, NEW T \in SUBSET Locations, IsFiniteSet(T)
    PROVE  \E q \in [1 .. Cardinality(T) -> T] : InOrder(g, q)
<1> DEFINE Good(s) == \E q \in [1 .. Cardinality(s) -> s] : InOrder(g, q)
           Bad == {s \in SUBSET T : ~Good(s)}
<1>1. SUFFICES ASSUME Bad # {} PROVE FALSE
  OBVIOUS
<1>2. PICK m \in Bad : \A k \in Bad : k \subseteq m => k = m
  <2>1. Bad \in SUBSET (SUBSET T)
    OBVIOUS
  <2> HIDE DEF Bad
  <2>. QED
    BY <1>1, <2>1, SmallestSet
<1>a. m \in SUBSET T /\ ~Good(m) /\ \A k \in SUBSET T : k \subseteq m /\ k # m => Good(k)
  BY <1>2
<1>3. m # {}
  <2>1. Cardinality({}) = 0
    BY FS_EmptySet
  <2>2. <<>> \in [1 .. Cardinality({}) -> {}] /\ InOrder(g, <<>>)
    BY <2>1 DEF InOrder
  <2>3. Good({})
    BY ONLY <2>2
  <2>. QED
    BY ONLY <1>a, <2>3
<1>4. IsFiniteSet(m) /\ m \in SUBSET Locations
  BY ONLY <1>a, FS_Subset, IsFiniteSet(T), T \in SUBSET Locations
<1>5. PICK x \in m : \A y \in m \ {x} : Ahead(g, y, x)
  BY ONLY <1>3, <1>4, LastExists, g \in Gaps
<1> DEFINE n == Cardinality(m \ {x})
<1>6. /\ n \in Nat
      /\ Cardinality(m) = n + 1
  <2>1. IsFiniteSet(m \ {x}) /\ n = Cardinality(m) - 1
    BY ONLY <1>4, <1>5, x \in m, FS_RemoveElement
  <2>2. n \in Nat /\ Cardinality(m) \in Nat
    BY ONLY <1>4, <2>1, FS_CardinalityType
  <2>. QED
    BY ONLY <2>1, <2>2
<1>7. PICK q \in [1 .. n -> m \ {x}] : InOrder(g, q)
  <2>1. Good(m \ {x})
    BY ONLY <1>a, x \in m
  <2>. QED
    BY ONLY <2>1
<1> HIDE DEF n, Good, Bad
<1> DEFINE r == [i \in 1 .. n + 1 |-> IF i = n + 1 THEN x ELSE q[i]]
<1>8. r \in [1 .. n + 1 -> m]
  BY <1>6, <1>7
<1>9. InOrder(g, r)
  <2>1. ASSUME NEW i \in 1 .. n + 1, NEW j \in 1 .. n + 1, i < j
        PROVE  Ahead(g, r[i], r[j])
    <3>1. i \in 1 .. n /\ r[i] = q[i] /\ q[i] \in m \ {x}
      BY <1>6, <1>7, <2>1
    <3>2. CASE j = n + 1
      BY <1>5, <3>1, <3>2
    <3>3. CASE j # n + 1
      <4>1. j \in 1 .. n /\ r[j] = q[j]
        BY <1>6, <2>1, <3>3
      <4>. QED
        BY <1>7, <2>1, <3>1, <4>1 DEF InOrder
    <3>. QED
      BY <3>2, <3>3
  <2>. QED
    BY <2>1 DEF InOrder
<1>. QED
  <2>1. Good(m)
    BY ONLY <1>6, <1>8, <1>9 DEF Good
  <2>. QED
    BY ONLY <1>a, <2>1

\* What is sorted has every location once.
LEMMA SortedIs ==
    ASSUME NEW g \in Gaps, NEW T \in SUBSET Locations
    PROVE  /\ IsFiniteSet(T)
           /\ Cardinality(T) \in Nat
           /\ Sorted(g, T) \in [1 .. Cardinality(T) -> T]
           /\ Len(Sorted(g, T)) = Cardinality(T)
           /\ \A i, j \in 1 .. Cardinality(T) : Sorted(g, T)[i] = Sorted(g, T)[j] => i = j
           /\ \A i, j \in 1 .. Cardinality(T) : i < j => Ahead(g, Sorted(g, T)[i], Sorted(g, T)[j])
           /\ \A x \in T : \E i \in 1 .. Cardinality(T) : Sorted(g, T)[i] = x
<1> DEFINE n == Cardinality(T)
           q == Sorted(g, T)
<1>1. IsFiniteSet(T) /\ n \in Nat
  BY PlanningAssumption, FS_Subset, FS_CardinalityType
<1>2. q \in [1 .. n -> T] /\ InOrder(g, q)
  BY <1>1, SortedExists DEF Sorted, InOrder
<1> HIDE DEF q
<1>3. Len(q) = n
  BY <1>1, <1>2
<1>4. ASSUME NEW i \in 1 .. n, NEW j \in 1 .. n, i < j
      PROVE  q[i] # q[j]
  <2>1. Ahead(g, q[i], q[j]) /\ q[i] \in Locations
    BY <1>2, <1>4 DEF InOrder
  <2>. QED
    BY <2>1, AheadOrders
<1>5. \A i, j \in 1 .. n : q[i] = q[j] => i = j
  <2> SUFFICES ASSUME NEW i \in 1 .. n, NEW j \in 1 .. n, q[i] = q[j], i # j PROVE FALSE
    OBVIOUS
  <2>1. i < j \/ j < i
    BY <1>1
  <2>. QED
    BY <1>4, <2>1
<1>6. q \in Surjection(1 .. n, T)
  <2>1. q \in Injection(1 .. n, T)
    BY <1>2, <1>5 DEF Injection, IsInjective
  <2>2. Cardinality(1 .. n) = n
    BY <1>1, FS_Interval
  <2>. QED
    BY <1>1, <2>1, <2>2, FS_Injection
<1>7. \A x \in T : \E i \in 1 .. n : q[i] = x
  BY <1>6 DEF Surjection
<1>8. \A i, j \in 1 .. n : i < j => Ahead(g, q[i], q[j])
  BY <1>2 DEF InOrder
<1>. QED
  BY <1>1, <1>2, <1>3, <1>5, <1>7, <1>8 DEF q

-----------------------------------------------------------------------------
(* The greedy loop *)

Begun(g, S) == [i |-> 1, j |-> 1, gap |-> g, moved |-> [p \in S \X S |-> 0]]

Turns(g, S) == Len(Givers(g, S)) + Len(Takers(g, S))

Next1(g, S, b) == Turn(b, Givers(g, S), Takers(g, S))

\* r is what happens in n turns.
Runs(r, g, S, n) ==
    r = [k \in 0 .. n |-> IF k = 0 THEN Begun(g, S) ELSE Next1(g, S, r[k - 1])]

\* Match is the last state of its turns.
LEMMA MatchRuns ==
    ASSUME NEW g, NEW S
    PROVE  Match(g, S) = (CHOOSE r : Runs(r, g, S, Turns(g, S)))[Turns(g, S)]
  BY DEF Match, Runs, Turns, Begun, Next1

\* The turns can be taken.
LEMMA RunExists ==
    ASSUME NEW g, NEW S, NEW n \in Nat
    PROVE  \E r : Runs(r, g, S, n)
<1> DEFINE Q == {k \in Nat : \E r : Runs(r, g, S, k)}
<1>1. 0 \in Q
  <2>1. Runs([k \in 0 .. 0 |-> Begun(g, S)], g, S, 0)
    <3>1. \A k \in 0 .. 0 : k = 0
      OBVIOUS
    <3>. QED
      BY <3>1 DEF Runs
  <2>. QED
    BY <2>1
<1>2. ASSUME NEW k \in Nat, k \in Q
      PROVE  k + 1 \in Q
  <2>1. PICK r : Runs(r, g, S, k)
    BY <1>2
  <2> DEFINE t == [m \in 0 .. k + 1 |-> IF m = k + 1 THEN Next1(g, S, r[k]) ELSE r[m]]
  <2>2. \A m \in 0 .. k : r[m] = IF m = 0 THEN Begun(g, S) ELSE Next1(g, S, r[m - 1])
    BY <2>1, Zenon DEF Runs
  <2>3. ASSUME NEW m \in 0 .. k + 1
        PROVE  t[m] = IF m = 0 THEN Begun(g, S) ELSE Next1(g, S, t[m - 1])
    <3>1. CASE m = k + 1
      <4>1. m # 0 /\ m - 1 = k /\ k \in 0 .. k + 1 /\ k # k + 1
        BY <3>1
      <4>. QED
        BY <3>1, <4>1
    <3>2. CASE m # k + 1
      <4>1. m \in 0 .. k
        BY <3>2
      <4>2. CASE m = 0
        BY <2>2, <4>1, <4>2, <3>2
      <4>3. CASE m # 0
        <5>1. m - 1 \in 0 .. k + 1 /\ m - 1 # k + 1
          BY <4>1, <4>3
        <5>. QED
          BY <2>2, <4>1, <4>3, <3>2, <5>1
      <4>. QED
        BY <4>2, <4>3
    <3>. QED
      BY <3>1, <3>2
  <2>4. Runs(t, g, S, k + 1)
    <3> DEFINE u == [m \in 0 .. k + 1 |->
                       IF m = 0 THEN Begun(g, S) ELSE Next1(g, S, t[m - 1])]
    <3>1. DOMAIN t = 0 .. k + 1 /\ DOMAIN u = 0 .. k + 1
      OBVIOUS
    <3>2. \A m \in 0 .. k + 1 : t[m] = u[m]
      BY <2>3
    <3>3. t = u
      BY <3>1, <3>2
    <3> HIDE DEF t
    <3>. QED
      BY <3>3 DEF Runs
  <2>. QED
    BY <2>4
<1> HIDE DEF Q
<1>3. n \in Q
  <2>1. \A k \in Nat : k \in Q => k + 1 \in Q
    BY <1>2
  <2>. QED
    BY ONLY <1>1, <2>1, ByNumbers, n \in Nat
<1>. QED
  BY <1>3 DEF Q

\* What is true before the first turn and stays true in every turn is true of the
\* result; Q says it, of a number of turns and what they have led to.
LEMMA ByTurns ==
    ASSUME NEW g, NEW S, NEW Q, Turns(g, S) \in Nat,
           <<0, Begun(g, S)>> \in Q,
           \A k \in Nat : \A b : <<k, b>> \in Q => <<k + 1, Next1(g, S, b)>> \in Q
    PROVE  <<Turns(g, S), Match(g, S)>> \in Q
<1> DEFINE n == Turns(g, S)
           r == CHOOSE r1 : Runs(r1, g, S, n)
<1>1. Runs(r, g, S, n)
  BY RunExists
<1>2. Match(g, S) = r[n]
  BY MatchRuns
<1> HIDE DEF r, n
<1>0. n \in Nat
  BY DEF n
<1>3. \A k \in 0 .. n : r[k] = IF k = 0 THEN Begun(g, S) ELSE Next1(g, S, r[k - 1])
  BY <1>1, Zenon DEF Runs
<1> DEFINE P == {k \in Nat : k <= n => <<k, r[k]>> \in Q}
<1>4. 0 \in P
  BY <1>0, <1>3
<1>5. ASSUME NEW k \in Nat, k \in P
      PROVE  k + 1 \in P
  <2>1. SUFFICES ASSUME k + 1 <= n PROVE <<k + 1, r[k + 1]>> \in Q
    OBVIOUS
  <2>2. k + 1 \in 0 .. n /\ k + 1 # 0 /\ (k + 1) - 1 = k /\ k <= n
    BY <1>0, <2>1
  <2>3. r[k + 1] = Next1(g, S, r[k])
    BY <1>3, <2>2
  <2>4. <<k, r[k]>> \in Q
    BY <1>5, <2>2
  <2>. QED
    BY <2>3, <2>4
<1> HIDE DEF P
<1>6. n \in P
  <2>1. \A k \in Nat : k \in P => k + 1 \in P
    BY <1>5
  <2>. QED
    BY ONLY <1>4, <2>1, ByNumbers, <1>0
<1>7. <<n, r[n]>> \in Q
  BY <1>0, <1>6 DEF P
<1>. QED
  BY <1>2, <1>7 DEF n

-----------------------------------------------------------------------------
(* The invariant of the greedy loop *)

\* What a location gives to, or gets from, each other
GivenBy(v, S, s) == [t \in S |-> v[<<s, t>>]]
TakenBy(v, S, t) == [s \in S |-> v[<<s, t>>]]

State(S) == [i : Nat, j : Nat, gap : Gaps, moved : [S \X S -> Nat]]

\* Gaps only shrink, those outside of S stay as they are.
GapsOK(g, S, h) ==
    \A l \in Locations :
        /\ g[l] < 0 => h[l] <= 0
        /\ g[l] > 0 => h[l] >= 0
        /\ g[l] = 0 \/ l \notin S => h[l] = g[l]

\* Goods go from those with too many to those with too few.
MovedOK(g, S, v) ==
    \A s, t \in S : v[<<s, t>>] # 0 => g[s] < 0 /\ g[t] > 0

\* What has become of a gap has been moved.
SumsOK(g, S, b) ==
    \A l \in S : /\ g[l] < 0 => Sum(GivenBy(b.moved, S, l), S) = b.gap[l] - g[l]
                 /\ g[l] > 0 => Sum(TakenBy(b.moved, S, l), S) = g[l] - b.gap[l]

\* Where the loop is after k turns, and that it never comes back to a pair.
PlaceOK(g, S, k, b) ==
    LET give == Givers(g, S)
        need == Takers(g, S)
    IN  /\ b.i \in 1 .. Len(give) + 1
        /\ b.j \in 1 .. Len(need) + 1
        /\ b.i > Len(give) \/ b.j > Len(need) \/ b.i + b.j >= k + 2
        /\ \A x \in 1 .. Len(give), y \in 1 .. Len(need) :
              b.moved[<<give[x], need[y]>>] # 0 =>
                  x <= b.i /\ y <= b.j /\ (x # b.i \/ y # b.j)

LoopInv(g, S, k, b) ==
    /\ b \in State(S)
    /\ GapsOK(g, S, b.gap)
    /\ MovedOK(g, S, b.moved)
    /\ SumsOK(g, S, b)
    /\ PlaceOK(g, S, k, b)

\* The locations that give and take
LEMMA ListsAre ==
    ASSUME NEW g \in Gaps, NEW S \in SUBSET Locations
    PROVE  LET give == Givers(g, S)
               need == Takers(g, S)
           IN  /\ IsFiniteSet(S)
               /\ Len(give) \in Nat /\ Len(need) \in Nat
               /\ \A x \in 1 .. Len(give) : give[x] \in S /\ g[give[x]] < 0
               /\ \A y \in 1 .. Len(need) : need[y] \in S /\ g[need[y]] > 0
               /\ \A x, y \in 1 .. Len(give) : give[x] = give[y] => x = y
               /\ \A x, y \in 1 .. Len(need) : need[x] = need[y] => x = y
               /\ \A s \in S : g[s] < 0 => \E x \in 1 .. Len(give) : give[x] = s
               /\ \A s \in S : g[s] > 0 => \E x \in 1 .. Len(need) : need[x] = s
<1> DEFINE A == {l \in S : g[l] < 0}
           B == {l \in S : g[l] > 0}
<1>1. A \in SUBSET Locations /\ B \in SUBSET Locations /\ IsFiniteSet(S)
  BY PlanningAssumption, FS_Subset
<1>2. \A s \in S : (g[s] < 0 => s \in A) /\ (g[s] > 0 => s \in B)
  OBVIOUS
<1>3. (\A s \in A : s \in S /\ g[s] < 0) /\ (\A s \in B : s \in S /\ g[s] > 0)
  OBVIOUS
<1>4. Givers(g, S) = Sorted(g, A) /\ Takers(g, S) = Sorted(g, B)
  BY DEF Givers, Takers
<1> HIDE DEF A, B
<1> DEFINE give == Sorted(g, A)
           need == Sorted(g, B)
<1>5. /\ Len(give) \in Nat
      /\ \A x \in 1 .. Len(give) : give[x] \in A
      /\ \A x, y \in 1 .. Len(give) : give[x] = give[y] => x = y
      /\ \A s \in A : \E x \in 1 .. Len(give) : give[x] = s
  BY <1>1, SortedIs
<1>6. /\ Len(need) \in Nat
      /\ \A x \in 1 .. Len(need) : need[x] \in B
      /\ \A x, y \in 1 .. Len(need) : need[x] = need[y] => x = y
      /\ \A s \in B : \E x \in 1 .. Len(need) : need[x] = s
  BY <1>1, SortedIs
<1> HIDE DEF give, need
<1>. QED
  BY <1>1, <1>2, <1>3, <1>4, <1>5, <1>6 DEF give, need

\* The loop begins with its invariant.
LEMMA BegunOK ==
    ASSUME NEW g \in Gaps, NEW S \in SUBSET Locations
    PROVE  LoopInv(g, S, 0, Begun(g, S))
<1> DEFINE b == Begun(g, S)
<1>1. /\ b \in State(S) /\ b.gap = g /\ b.i = 1 /\ b.j = 1
      /\ \A s, t \in S : b.moved[<<s, t>>] = 0
  BY DEF Begun, State, Gaps
<1> HIDE DEF b
<1>2. GapsOK(g, S, b.gap) /\ MovedOK(g, S, b.moved)
  BY <1>1 DEF GapsOK, MovedOK, Gaps
<1>3. SumsOK(g, S, b)
  <2>1. \A l \in S : /\ Sum(GivenBy(b.moved, S, l), S) = 0
                     /\ Sum(TakenBy(b.moved, S, l), S) = 0
    <3> SUFFICES ASSUME NEW l \in S
                 PROVE  /\ Sum(GivenBy(b.moved, S, l), S) = 0
                        /\ Sum(TakenBy(b.moved, S, l), S) = 0
      OBVIOUS
    <3>1. /\ \A x \in S : GivenBy(b.moved, S, l)[x] = 0
          /\ \A x \in S : TakenBy(b.moved, S, l)[x] = 0
      BY <1>1 DEF GivenBy, TakenBy
    <3>. QED
      BY <3>1, ListsAre, SumOfZeros
  <2>. QED
    BY <1>1, <2>1 DEF SumsOK, Gaps
<1>4. PlaceOK(g, S, 0, b)
  <2>1. \A x \in 1 .. Len(Givers(g, S)), y \in 1 .. Len(Takers(g, S)) :
            b.moved[<<Givers(g, S)[x], Takers(g, S)[y]>>] = 0
    BY <1>1, ListsAre
  <2>2. Len(Givers(g, S)) \in Nat /\ Len(Takers(g, S)) \in Nat
    BY ListsAre
  <2>. QED
    BY <1>1, <2>1, <2>2 DEF PlaceOK
<1>. QED
  BY <1>1, <1>2, <1>3, <1>4 DEF LoopInv, b

\* A turn that does something: s, whose turn it is to give, gives q to t.
TurnOf(g, S, b, s, t, q) ==
    /\ s = Givers(g, S)[b.i] /\ t = Takers(g, S)[b.j]
    /\ g[s] < 0 /\ g[t] > 0
    /\ q <= -b.gap[s] /\ q <= b.gap[t]
    /\ q = -b.gap[s] \/ q = b.gap[t]
    /\ b.moved[<<s, t>>] = 0
    /\ Next1(g, S, b) =
          [i |-> IF b.gap[s] + q = 0 THEN b.i + 1 ELSE b.i,
           j |-> IF b.gap[t] = q THEN b.j + 1 ELSE b.j,
           gap |-> [b.gap EXCEPT ![s] = @ + q, ![t] = @ - q],
           moved |-> [b.moved EXCEPT ![<<s, t>>] = q]]

\* Before the end of the lists every turn does something.
LEMMA TurnIs ==
    ASSUME NEW g \in Gaps, NEW S \in SUBSET Locations, NEW k \in Nat, NEW b,
           LoopInv(g, S, k, b),
           b.i <= Len(Givers(g, S)), b.j <= Len(Takers(g, S))
    PROVE  \E s, t \in S, q \in Nat : TurnOf(g, S, b, s, t, q)
<1> DEFINE s == Givers(g, S)[b.i]
           t == Takers(g, S)[b.j]
           q == Lower(-b.gap[s], b.gap[t])
<1>1. b.i \in 1 .. Len(Givers(g, S)) /\ b.j \in 1 .. Len(Takers(g, S))
  BY ListsAre DEF LoopInv, PlaceOK
<1>2. s \in S /\ t \in S /\ g[s] < 0 /\ g[t] > 0
  BY <1>1, ListsAre
<1>3. b.gap[s] \in Int /\ b.gap[t] \in Int /\ b.gap[s] <= 0 /\ b.gap[t] >= 0
  BY <1>2 DEF LoopInv, State, Gaps, GapsOK
<1>4. q \in Nat /\ q <= -b.gap[s] /\ q <= b.gap[t] /\ (q = -b.gap[s] \/ q = b.gap[t])
  <2> HIDE DEF s, t
  <2>. QED
    BY <1>3 DEF Lower
<1>5. b.moved[<<s, t>>] = 0
  BY <1>1 DEF LoopInv, PlaceOK
<1>6. Next1(g, S, b) =
         [i |-> IF b.gap[s] + q = 0 THEN b.i + 1 ELSE b.i,
          j |-> IF b.gap[t] = q THEN b.j + 1 ELSE b.j,
          gap |-> [b.gap EXCEPT ![s] = @ + q, ![t] = @ - q],
          moved |-> [b.moved EXCEPT ![<<s, t>>] = q]]
  <2>1. ~(b.i > Len(Givers(g, S)) \/ b.j > Len(Takers(g, S)))
    BY <1>1, ListsAre
  <2>. QED
    BY <2>1, Zenon DEF Next1, Turn
<1> HIDE DEF s, t, q
<1>. QED
  BY <1>2, <1>4, <1>5, <1>6 DEF s, t, TurnOf

\* v and w are about pairs of S, and w has something for s and t where v has nothing.
PairAdded(v, w, S, s, t) ==
    /\ v[<<s, t>>] = 0
    /\ \A x, y \in S : /\ v[<<x, y>>] \in Nat /\ w[<<x, y>>] \in Nat
                       /\ x # s \/ y # t => w[<<x, y>>] = v[<<x, y>>]

\* It counts for its giver and for its taker.
PairCounts(v, w, S, s, t, l) ==
    /\ l = s => Sum(GivenBy(w, S, l), S) = Sum(GivenBy(v, S, l), S) + w[<<s, t>>]
    /\ l # s => Sum(GivenBy(w, S, l), S) = Sum(GivenBy(v, S, l), S)
    /\ l = t => Sum(TakenBy(w, S, l), S) = Sum(TakenBy(v, S, l), S) + w[<<s, t>>]
    /\ l # t => Sum(TakenBy(w, S, l), S) = Sum(TakenBy(v, S, l), S)

\* A pair that is added counts for its giver and for its taker.
LEMMA PairAdds ==
    ASSUME NEW S, IsFiniteSet(S), NEW v, NEW w, NEW s \in S, NEW t \in S, NEW l \in S,
           PairAdded(v, w, S, s, t)
    PROVE  PairCounts(v, w, S, s, t, l)
<1> DEFINE A == GivenBy(v, S, l)
           B == GivenBy(w, S, l)
           C == TakenBy(v, S, l)
           D == TakenBy(w, S, l)
<1>1. \A x \in S : /\ A[x] = v[<<l, x>>] /\ A[x] \in Int
                   /\ B[x] = w[<<l, x>>] /\ B[x] \in Int
                   /\ C[x] = v[<<x, l>>] /\ C[x] \in Int
                   /\ D[x] = w[<<x, l>>] /\ D[x] \in Int
  BY DEF GivenBy, TakenBy, PairAdded
<1> HIDE DEF A, B, C, D
<1>2. ASSUME NEW x \in S
      PROVE  /\ l # s \/ x # t => B[x] = A[x]
             /\ x # s \/ l # t => D[x] = C[x]
  <2>1. /\ l # s \/ x # t => w[<<l, x>>] = v[<<l, x>>]
        /\ x # s \/ l # t => w[<<x, l>>] = v[<<x, l>>]
    BY DEF PairAdded
  <2>. QED
    BY <1>1, <2>1
<1>3. Sum(A, S) \in Int /\ Sum(C, S) \in Int
  BY <1>1, SumType
<1>4. /\ l = s => Sum(B, S) = Sum(A, S) + w[<<s, t>>]
      /\ l # s => Sum(B, S) = Sum(A, S)
  <2>1. CASE l = s
    <3>1. DifferAt(A, B, S, t)
      BY <1>1, <1>2, <2>1 DEF DifferAt
    <3>2. Sum(B, S) = Sum(A, S) + (B[t] - A[t])
      BY ONLY <3>1, IsFiniteSet(S), t \in S, SumChange
    <3>3. A[t] = 0 /\ B[t] = w[<<s, t>>] /\ B[t] \in Int
      BY <1>1, <2>1 DEF PairAdded
    <3>. QED
      BY <2>1, <3>2, <3>3
  <2>2. CASE l # s
    <3>1. \A x \in S : B[x] = A[x]
      BY <1>2, <2>2
    <3>2. Sum(B, S) = Sum(A, S)
      BY ONLY <3>1, SumSame
    <3>. QED
      BY <1>3, <2>2, <3>2
  <2>. QED
    BY <2>1, <2>2
<1>5. /\ l = t => Sum(D, S) = Sum(C, S) + w[<<s, t>>]
      /\ l # t => Sum(D, S) = Sum(C, S)
  <2>1. CASE l = t
    <3>1. DifferAt(C, D, S, s)
      BY <1>1, <1>2, <2>1 DEF DifferAt
    <3>2. Sum(D, S) = Sum(C, S) + (D[s] - C[s])
      BY ONLY <3>1, IsFiniteSet(S), s \in S, SumChange
    <3>3. C[s] = 0 /\ D[s] = w[<<s, t>>] /\ D[s] \in Int
      BY <1>1, <2>1 DEF PairAdded
    <3>. QED
      BY <2>1, <3>2, <3>3
  <2>2. CASE l # t
    <3>1. \A x \in S : D[x] = C[x]
      BY <1>2, <2>2
    <3>2. Sum(D, S) = Sum(C, S)
      BY ONLY <3>1, SumSame
    <3>. QED
      BY <1>3, <2>2, <3>2
  <2>. QED
    BY <2>1, <2>2
<1>. QED
  BY <1>4, <1>5 DEF A, B, C, D, PairCounts

\* The loop keeps its invariant.
LEMMA TurnKeepsInv ==
    ASSUME NEW g \in Gaps, NEW S \in SUBSET Locations, NEW k \in Nat, NEW b,
           LoopInv(g, S, k, b)
    PROVE  LoopInv(g, S, k + 1, Next1(g, S, b))
<1> DEFINE give == Givers(g, S)
           need == Takers(g, S)
<1>0. /\ IsFiniteSet(S) /\ Len(give) \in Nat /\ Len(need) \in Nat
      /\ \A x, y \in 1 .. Len(give) : give[x] = give[y] => x = y
      /\ \A x, y \in 1 .. Len(need) : need[x] = need[y] => x = y
      /\ \A x \in 1 .. Len(give) : give[x] \in S
      /\ \A x \in 1 .. Len(need) : need[x] \in S
  BY ListsAre
<1>1. CASE b.i > Len(give) \/ b.j > Len(need)
  <2>1. Next1(g, S, b) = b
    BY <1>1, Zenon DEF Next1, Turn
  <2>2. PlaceOK(g, S, k + 1, b)
    BY <1>1 DEF LoopInv, PlaceOK
  <2>. QED
    BY <2>1, <2>2 DEF LoopInv
<1>2. CASE ~(b.i > Len(give) \/ b.j > Len(need))
  <2>1. b.i \in 1 .. Len(give) /\ b.j \in 1 .. Len(need)
    BY <1>0, <1>2 DEF LoopInv, PlaceOK
  <2>a. b.i <= Len(give) /\ b.j <= Len(need)
    BY <1>0, <2>1
  <2>b. PICK s \in S, t \in S, q \in Nat : TurnOf(g, S, b, s, t, q)
    BY ONLY <2>a, TurnIs, g \in Gaps, S \in SUBSET Locations, k \in Nat, LoopInv(g, S, k, b)
  <2>2. /\ s = give[b.i] /\ t = need[b.j]
        /\ g[s] < 0 /\ g[t] > 0
        /\ q <= -b.gap[s] /\ q <= b.gap[t]
        /\ q = -b.gap[s] \/ q = b.gap[t]
        /\ b.moved[<<s, t>>] = 0
        /\ Next1(g, S, b) =
              [i |-> IF b.gap[s] + q = 0 THEN b.i + 1 ELSE b.i,
               j |-> IF b.gap[t] = q THEN b.j + 1 ELSE b.j,
               gap |-> [b.gap EXCEPT ![s] = @ + q, ![t] = @ - q],
               moved |-> [b.moved EXCEPT ![<<s, t>>] = q]]
    BY <2>b DEF TurnOf
  <2> DEFINE c == Next1(g, S, b)
  <2>3. b.gap \in Gaps /\ b.moved \in [S \X S -> Nat] /\ b.i \in Nat /\ b.j \in Nat
    BY DEF LoopInv, State
  <2>4. s # t /\ s \in Locations /\ t \in Locations /\ g[s] \in Int /\ g[t] \in Int
    BY <2>2 DEF Gaps
  <2>5. /\ c.gap \in Gaps
        /\ c.gap[s] = b.gap[s] + q
        /\ c.gap[t] = b.gap[t] - q
        /\ \A l \in Locations \ {s, t} : c.gap[l] = b.gap[l]
    <3>1. c.gap = [b.gap EXCEPT ![s] = @ + q, ![t] = @ - q]
      BY <2>2
    <3>. QED
      BY <2>3, <2>4, <3>1 DEF Gaps
  <2>6. /\ c.moved \in [S \X S -> Nat]
        /\ c.moved[<<s, t>>] = q
        /\ \A x, y \in S : x # s \/ y # t => c.moved[<<x, y>>] = b.moved[<<x, y>>]
    <3>1. c.moved = [b.moved EXCEPT ![<<s, t>>] = q]
      BY <2>2
    <3>. QED
      BY <2>3, <3>1
  <2>7. /\ c.i \in {b.i, b.i + 1} /\ c.j \in {b.j, b.j + 1}
        /\ c.i = b.i + 1 \/ c.j = b.j + 1
    BY <2>2, <2>3, <2>4 DEF Gaps
  <2>8. c = [i |-> c.i, j |-> c.j, gap |-> c.gap, moved |-> c.moved]
    BY <2>2
  <2> HIDE DEF c
  <2>9. c \in State(S)
    BY <2>3, <2>5, <2>6, <2>7, <2>8 DEF State
  <2>10. GapsOK(g, S, c.gap)
    <3>1. GapsOK(g, S, b.gap)
      BY DEF LoopInv
    <3>2. b.gap[s] \in Int /\ b.gap[t] \in Int
      BY <2>3, <2>4 DEF Gaps
    <3>3. /\ c.gap[s] <= 0 /\ c.gap[t] >= 0
      BY <2>2, <2>5, <3>2
    <3> SUFFICES ASSUME NEW l \in Locations
                 PROVE  /\ g[l] < 0 => c.gap[l] <= 0
                        /\ g[l] > 0 => c.gap[l] >= 0
                        /\ g[l] = 0 \/ l \notin S => c.gap[l] = g[l]
      BY DEF GapsOK
    <3>4. CASE l = s
      BY <2>2, <2>4, <3>3, <3>4
    <3>5. CASE l = t
      BY <2>2, <2>4, <3>3, <3>5
    <3>6. CASE l \notin {s, t}
      BY <2>5, <3>1, <3>6 DEF GapsOK
    <3>. QED
      BY <3>4, <3>5, <3>6
  <2>11. MovedOK(g, S, c.moved)
    BY <2>2, <2>6 DEF LoopInv, MovedOK
  <2>12. SumsOK(g, S, c)
    <3>1. SumsOK(g, S, b)
      BY DEF LoopInv
    <3> SUFFICES ASSUME NEW l \in S
                 PROVE  /\ g[l] < 0 => Sum(GivenBy(c.moved, S, l), S) = c.gap[l] - g[l]
                        /\ g[l] > 0 => Sum(TakenBy(c.moved, S, l), S) = g[l] - c.gap[l]
      BY DEF SumsOK
    <3>2. l \in Locations /\ g[l] \in Int /\ b.gap[l] \in Int
      BY <2>3 DEF Gaps
    <3>3. /\ l = s => Sum(GivenBy(c.moved, S, l), S) = Sum(GivenBy(b.moved, S, l), S) + q
          /\ l # s => Sum(GivenBy(c.moved, S, l), S) = Sum(GivenBy(b.moved, S, l), S)
          /\ l = t => Sum(TakenBy(c.moved, S, l), S) = Sum(TakenBy(b.moved, S, l), S) + q
          /\ l # t => Sum(TakenBy(c.moved, S, l), S) = Sum(TakenBy(b.moved, S, l), S)
      <4>1. PairAdded(b.moved, c.moved, S, s, t)
        BY <2>2, <2>3, <2>6 DEF PairAdded
      <4>2. IsFiniteSet(S)
        BY <1>0
      <4>3. PairCounts(b.moved, c.moved, S, s, t, l)
        BY ONLY <4>1, <4>2, PairAdds, s \in S, t \in S, l \in S
      <4>. QED
        BY <2>6, <4>3 DEF PairCounts
    <3>4. /\ g[l] < 0 => Sum(GivenBy(b.moved, S, l), S) = b.gap[l] - g[l]
          /\ g[l] > 0 => Sum(TakenBy(b.moved, S, l), S) = g[l] - b.gap[l]
      BY <3>1 DEF SumsOK
    <3>5. c.gap[l] = IF l = s THEN b.gap[l] + q ELSE IF l = t THEN b.gap[l] - q ELSE b.gap[l]
      BY <2>4, <2>5, <3>2
    <3>6. (g[l] < 0 => l # t) /\ (g[l] > 0 => l # s)
      BY <2>2, <2>4
    <3>. QED
      BY <3>2, <3>3, <3>4, <3>5, <3>6
  <2>13. PlaceOK(g, S, k + 1, c)
    <3>1. /\ b.i > Len(give) \/ b.j > Len(need) \/ b.i + b.j >= k + 2
          /\ \A x \in 1 .. Len(give), y \in 1 .. Len(need) :
                b.moved[<<give[x], need[y]>>] # 0 =>
                    x <= b.i /\ y <= b.j /\ (x # b.i \/ y # b.j)
      BY DEF LoopInv, PlaceOK
    <3>2. /\ c.i \in 1 .. Len(give) + 1 /\ c.j \in 1 .. Len(need) + 1
          /\ c.i + c.j >= (k + 1) + 2
      <4>1. b.i + b.j >= k + 2
        BY <1>2, <3>1
      <4>2. b.i \in Nat /\ b.j \in Nat /\ k \in Nat
        BY <2>3
      <4> DEFINE m == Len(give)
                 n == Len(need)
      <4>3. m \in Nat /\ n \in Nat /\ b.i \in 1 .. m /\ b.j \in 1 .. n
        BY <1>0, <2>1
      <4> HIDE DEF m, n
      <4>4. c.i \in 1 .. m + 1 /\ c.j \in 1 .. n + 1
        BY <2>7, <4>3
      <4>5. c.i + c.j >= (k + 1) + 2
        BY <2>7, <4>1, <4>2
      <4>. QED
        BY <4>4, <4>5 DEF m, n
    <3>3. ASSUME NEW x \in 1 .. Len(give), NEW y \in 1 .. Len(need),
                 c.moved[<<give[x], need[y]>>] # 0
          PROVE  x <= c.i /\ y <= c.j /\ (x # c.i \/ y # c.j)
      <4>1. give[x] \in S /\ need[y] \in S
        BY <1>0
      <4>2. CASE x = b.i /\ y = b.j
        BY <1>0, <2>1, <2>7, <4>2
      <4>3. CASE x # b.i \/ y # b.j
        <5>1. give[x] # s \/ need[y] # t
          BY <1>0, <2>1, <2>2, <4>3
        <5>2. b.moved[<<give[x], need[y]>>] # 0
          BY <2>6, <3>3, <4>1, <5>1
        <5>3. x <= b.i /\ y <= b.j /\ (x # b.i \/ y # b.j)
          BY <3>1, <5>2
        <5>. QED
          BY <1>0, <2>1, <2>7, <5>3
      <4>. QED
        BY <4>2, <4>3
    <3>. QED
      BY <3>2, <3>3 DEF PlaceOK
  <2>. QED
    BY <2>9, <2>10, <2>11, <2>12, <2>13 DEF LoopInv, c
<1>. QED
  BY <1>1, <1>2

\* What the loop leaves
LEMMA MatchOK ==
    ASSUME NEW g \in Gaps, NEW S \in SUBSET Locations
    PROVE  LoopInv(g, S, Turns(g, S), Match(g, S))
<1> DEFINE Q == {x \in Nat \X State(S) : LoopInv(g, S, x[1], x[2])}
<1>1. <<0, Begun(g, S)>> \in Q
  BY BegunOK DEF LoopInv
<1>2. ASSUME NEW k \in Nat, NEW b, <<k, b>> \in Q
      PROVE  <<k + 1, Next1(g, S, b)>> \in Q
  <2>1. LoopInv(g, S, k, b)
    BY <1>2
  <2>2. LoopInv(g, S, k + 1, Next1(g, S, b))
    BY <2>1, TurnKeepsInv
  <2>. QED
    BY <2>2 DEF LoopInv
<1>3. Turns(g, S) \in Nat
  BY ListsAre DEF Turns
<1> HIDE DEF Q
<1>4. <<Turns(g, S), Match(g, S)>> \in Q
  <2>1. \A k \in Nat : \A b : <<k, b>> \in Q => <<k + 1, Next1(g, S, b)>> \in Q
    BY <1>2
  <2>. QED
    BY ONLY <1>1, <1>3, <2>1, ByTurns
<1>. QED
  BY <1>4 DEF Q

-----------------------------------------------------------------------------
(* Rows *)

Qtys(R)    == [r \in R |-> r.qty]
Carried(R) == SumOver(R, RowQty)
From(R, l) == {r \in R : r.src = l}
To(R, l)   == {r \in R : r.tgt = l}

\* What rows carry, as a sum.
LEMMA CarriedIs ==
    ASSUME NEW T, NEW R, T \subseteq R
    PROVE  Carried(T) = Sum(Qtys(R), T)
<1>1. [r \in T |-> Qtys(R)[r]] = [r \in T |-> r.qty]
  BY DEF Qtys
<1>2. Carried(T) = Total([r \in T |-> r.qty])
  BY Zenon DEF Carried, SumOver, RowQty, Total
<1>. QED
  BY ONLY <1>1, <1>2 DEF Sum

\* No rows carry nothing.
LEMMA NoneCarried == Carried({}) = 0
<1>1. Carried({}) = Sum(Qtys({}), {})
  BY CarriedIs
<1>. QED
  BY <1>1, SumEmpty

\* Two sets of rows carry no more than the one and the other.
LEMMA CarriedTogether ==
    ASSUME NEW A, IsFiniteSet(A), NEW B, IsFiniteSet(B), \A r \in A \cup B : r.qty \in Nat
    PROVE  /\ IsFiniteSet(A \cup B)
           /\ Carried(A) \in Nat /\ Carried(B) \in Nat /\ Carried(A \cup B) \in Nat
           /\ Carried(A \cup B) <= Carried(A) + Carried(B)
<1> DEFINE U == A \cup B
           F == Qtys(U)
           C == B \ A
<1>1. \A r \in U : F[r] \in Nat
  BY DEF Qtys
<1>2. Carried(A) = Sum(F, A) /\ Carried(B) = Sum(F, B) /\ Carried(U) = Sum(F, U)
  <2>1. A \subseteq U /\ B \subseteq U /\ U \subseteq U
    OBVIOUS
  <2>. QED
    BY ONLY <2>1, CarriedIs
<1>3. IsFiniteSet(U) /\ IsFiniteSet(C)
  <2>1. C \in SUBSET B
    OBVIOUS
  <2>. QED
    BY <2>1, FS_Union, FS_Subset
<1> HIDE DEF F
<1>4. Sum(F, A) \in Nat /\ Sum(F, B) \in Nat /\ Sum(F, C) \in Nat /\ Sum(F, U) \in Nat
  <2>1. \A r \in A : F[r] \in Nat
    BY <1>1
  <2>2. \A r \in B : F[r] \in Nat
    BY <1>1
  <2>3. \A r \in C : F[r] \in Nat
    BY <1>1
  <2>. QED
    BY ONLY <1>1, <1>3, <2>1, <2>2, <2>3, IsFiniteSet(A), IsFiniteSet(B), SumNat
<1>5. Sum(F, U) = Sum(F, A) + Sum(F, C)
  <2>1. A \cap C = {} /\ \A r \in A \cup C : F[r] \in Int
    BY <1>1
  <2>2. Sum(F, A \cup C) = Sum(F, A) + Sum(F, C)
    BY ONLY <1>3, <2>1, IsFiniteSet(A), SumUnion
  <2>3. A \cup C = U
    OBVIOUS
  <2>. QED
    BY ONLY <2>2, <2>3, Zenon
<1>6. Sum(F, C) <= Sum(F, B)
  <2>1. C \in SUBSET B /\ \A r \in B : F[r] \in Nat
    BY <1>1
  <2>. QED
    BY ONLY <2>1, IsFiniteSet(B), SumPart
<1> HIDE DEF U, C
<1>7. Sum(F, U) <= Sum(F, A) + Sum(F, B)
  BY ONLY <1>4, <1>5, <1>6
<1>. QED
  BY <1>2, <1>3, <1>4, <1>7 DEF U

\* The rows for what has been moved
RowsOf(type, v, S) ==
    {[type |-> type, src |-> p[1], tgt |-> p[2], qty |-> v[p]] :
        p \in {x \in S \X S : v[x] >= MinRow}}

\* r is the row of s and t, which have enough to send.
RowAt(type, v, S, r) ==
    \E s, t \in S : /\ v[<<s, t>>] >= MinRow
                    /\ r = [type |-> type, src |-> s, tgt |-> t, qty |-> v[<<s, t>>]]

\* A row is for a pair with enough to send.
LEMMA RowIs ==
    ASSUME NEW type, NEW S, NEW v \in [S \X S -> Nat], NEW r \in RowsOf(type, v, S)
    PROVE  RowAt(type, v, S, r)
<1>1. PICK p \in S \X S : /\ v[p] >= MinRow
                          /\ r = [type |-> type, src |-> p[1], tgt |-> p[2], qty |-> v[p]]
  BY DEF RowsOf
<1>2. PICK s \in S, t \in S : p = <<s, t>>
  OBVIOUS
<1>. QED
  BY <1>1, <1>2 DEF RowAt

\* The rows take from a location no more than what is moved from there.
LEMMA RowsFrom ==
    ASSUME NEW type, NEW S, IsFiniteSet(S), NEW v \in [S \X S -> Nat], NEW l \in S
    PROVE  LET R == From(RowsOf(type, v, S), l)
           IN  IsFiniteSet(R) /\ Carried(R) <= Sum(GivenBy(v, S, l), S)
<1> DEFINE R == From(RowsOf(type, v, S), l)
           T == {t \in S : v[<<l, t>>] >= MinRow}
           k == [t \in T |-> [type |-> type, src |-> l, tgt |-> t, qty |-> v[<<l, t>>]]]
           F == GivenBy(v, S, l)
           G == Qtys(R)
<1>1. R = {k[t] : t \in T}
  <2>1. ASSUME NEW r \in R
        PROVE  r \in {k[t] : t \in T}
    <3>1. r \in RowsOf(type, v, S) /\ r.src = l
      BY DEF From
    <3>a. RowAt(type, v, S, r)
      BY ONLY <3>1, RowIs, v \in [S \X S -> Nat]
    <3>2. PICK s \in S, t \in S :
              /\ v[<<s, t>>] >= MinRow
              /\ r = [type |-> type, src |-> s, tgt |-> t, qty |-> v[<<s, t>>]]
      BY <3>a DEF RowAt
    <3>3. s = l
      BY <3>1, <3>2
    <3>4. t \in T /\ r = k[t]
      BY <3>2, <3>3
    <3>. QED
      BY <3>4
  <2>2. ASSUME NEW t \in T
        PROVE  k[t] \in R
    <3>1. <<l, t>> \in {x \in S \X S : v[x] >= MinRow}
      OBVIOUS
    <3>2. k[t] = [type |-> type, src |-> <<l, t>>[1], tgt |-> <<l, t>>[2], qty |-> v[<<l, t>>]]
      OBVIOUS
    <3>3. k[t] \in RowsOf(type, v, S)
      BY <3>1, <3>2 DEF RowsOf
    <3>4. k[t].src = l
      OBVIOUS
    <3>. QED
      BY <3>3, <3>4 DEF From
  <2>. QED
    BY <2>1, <2>2
<1>2. \A x, y \in T : k[x] = k[y] => x = y
  <2>1. \A x \in T : k[x].tgt = x
    OBVIOUS
  <2> HIDE DEF k
  <2>. QED
    BY <2>1
<1>3. \A x \in T : k[x].qty = F[x] /\ F[x] \in Int
  BY DEF GivenBy
<1>4. \A x \in S : F[x] \in Nat
  BY DEF GivenBy
<1>5. T \in SUBSET S /\ IsFiniteSet(T)
  <2>1. T \in SUBSET S
    OBVIOUS
  <2>. QED
    BY ONLY <2>1, IsFiniteSet(S), FS_Subset
<1> HIDE DEF R, T, k, F
<1>6. \A x \in T : G[k[x]] = F[x] /\ F[x] \in Int
  BY <1>1, <1>3 DEF Qtys
<1>7. Carried(R) = Sum(G, R)
  BY CarriedIs
<1> HIDE DEF G
<1>8. IsFiniteSet(R) /\ Sum(G, R) = Sum(F, T)
  <2>1. Mapped(k, T, R, F, G)
    BY ONLY <1>1, <1>2, <1>6 DEF Mapped
  <2>. QED
    BY ONLY <1>5, <2>1, SumImage
<1>9. Sum(F, T) <= Sum(F, S)
  BY ONLY <1>4, <1>5, IsFiniteSet(S), SumPart
<1>. QED
  BY <1>7, <1>8, <1>9 DEF R, F

\* Those who have enough for l to send it
Senders(v, S, l) == {s \in S : v[<<s, l>>] >= MinRow}

\* They bring to a location no more than what is moved there.
LEMMA RowsTo ==
    ASSUME NEW type, NEW S, IsFiniteSet(S), NEW v \in [S \X S -> Nat], NEW l \in S
    PROVE  LET R == To(RowsOf(type, v, S), l)
           IN  /\ IsFiniteSet(R)
               /\ Carried(R) <= Sum(TakenBy(v, S, l), S)
               /\ Carried(R) = Sum(TakenBy(v, S, l), Senders(v, S, l))
<1> DEFINE R == To(RowsOf(type, v, S), l)
           T == {s \in S : v[<<s, l>>] >= MinRow}
           k == [s \in T |-> [type |-> type, src |-> s, tgt |-> l, qty |-> v[<<s, l>>]]]
           F == TakenBy(v, S, l)
           G == Qtys(R)
<1>1. R = {k[t] : t \in T}
  <2>1. ASSUME NEW r \in R
        PROVE  r \in {k[t] : t \in T}
    <3>1. r \in RowsOf(type, v, S) /\ r.tgt = l
      BY DEF To
    <3>a. RowAt(type, v, S, r)
      BY ONLY <3>1, RowIs, v \in [S \X S -> Nat]
    <3>2. PICK s \in S, t \in S :
              /\ v[<<s, t>>] >= MinRow
              /\ r = [type |-> type, src |-> s, tgt |-> t, qty |-> v[<<s, t>>]]
      BY <3>a DEF RowAt
    <3>3. t = l
      BY <3>1, <3>2
    <3>4. s \in T /\ r = k[s]
      BY <3>2, <3>3
    <3>. QED
      BY <3>4
  <2>2. ASSUME NEW s \in T
        PROVE  k[s] \in R
    <3>1. <<s, l>> \in {x \in S \X S : v[x] >= MinRow}
      OBVIOUS
    <3>2. k[s] = [type |-> type, src |-> <<s, l>>[1], tgt |-> <<s, l>>[2], qty |-> v[<<s, l>>]]
      OBVIOUS
    <3>3. k[s] \in RowsOf(type, v, S)
      BY <3>1, <3>2 DEF RowsOf
    <3>4. k[s].tgt = l
      OBVIOUS
    <3>. QED
      BY <3>3, <3>4 DEF To
  <2>. QED
    BY <2>1, <2>2
<1>2. \A x, y \in T : k[x] = k[y] => x = y
  <2>1. \A x \in T : k[x].src = x
    OBVIOUS
  <2> HIDE DEF k
  <2>. QED
    BY <2>1
<1>3. \A x \in T : k[x].qty = F[x] /\ F[x] \in Int
  BY DEF TakenBy
<1>4. \A x \in S : F[x] \in Nat
  BY DEF TakenBy
<1>a. T = Senders(v, S, l)
  BY DEF Senders
<1>5. T \in SUBSET S /\ IsFiniteSet(T)
  <2>1. T \in SUBSET S
    OBVIOUS
  <2>. QED
    BY ONLY <2>1, IsFiniteSet(S), FS_Subset
<1> HIDE DEF R, T, k, F
<1>6. \A x \in T : G[k[x]] = F[x] /\ F[x] \in Int
  BY <1>1, <1>3 DEF Qtys
<1>7. Carried(R) = Sum(G, R)
  BY CarriedIs
<1> HIDE DEF G
<1>8. IsFiniteSet(R) /\ Sum(G, R) = Sum(F, T)
  <2>1. Mapped(k, T, R, F, G)
    BY ONLY <1>1, <1>2, <1>6 DEF Mapped
  <2>. QED
    BY ONLY <1>5, <2>1, SumImage
<1>9. Sum(F, T) <= Sum(F, S)
  BY ONLY <1>4, <1>5, IsFiniteSet(S), SumPart
<1>. QED
  BY <1>7, <1>8, <1>9, <1>a DEF R, F

-----------------------------------------------------------------------------
(* Phases *)

\* What rows do to the gap of l when it goes from x to y: it shrinks by no less than
\* they carry, keeps its sign, and they only take from a surplus and give to a lack.
FlowAt(x, y, R, l) ==
    /\ IsFiniteSet(From(R, l)) /\ IsFiniteSet(To(R, l))
    /\ x < 0 => y <= 0 /\ Carried(From(R, l)) <= y - x /\ To(R, l) = {}
    /\ x > 0 => y >= 0 /\ Carried(To(R, l)) <= x - y /\ From(R, l) = {}
    /\ x = 0 => y = 0 /\ From(R, l) = {} /\ To(R, l) = {}

AreRows(R) == \A r \in R : r.src \in Locations /\ r.tgt \in Locations /\ r.qty \in Nat

Flow(g, h, R) == AreRows(R) /\ \A l \in Locations : FlowAt(g[l], h[l], R, l)

\* One step after the other.
LEMMA FlowsAdd ==
    ASSUME NEW x \in Int, NEW y \in Int, NEW z \in Int, NEW R, NEW Q, NEW l,
           AreRows(R), AreRows(Q), FlowAt(x, y, R, l), FlowAt(y, z, Q, l)
    PROVE  FlowAt(x, z, R \cup Q, l)
<1>1. /\ From(R \cup Q, l) = From(R, l) \cup From(Q, l)
      /\ To(R \cup Q, l) = To(R, l) \cup To(Q, l)
  BY DEF From, To
<1> DEFINE A == From(R, l)
           B == From(Q, l)
           C == To(R, l)
           D == To(Q, l)
<1>2. /\ IsFiniteSet(A) /\ IsFiniteSet(B) /\ \A r \in A \cup B : r.qty \in Nat
      /\ IsFiniteSet(C) /\ IsFiniteSet(D) /\ \A r \in C \cup D : r.qty \in Nat
  BY DEF FlowAt, AreRows, From, To
<1> HIDE DEF A, B, C, D
<1>3. /\ IsFiniteSet(A \cup B)
      /\ Carried(A) \in Nat /\ Carried(B) \in Nat /\ Carried(A \cup B) \in Nat
      /\ Carried(A \cup B) <= Carried(A) + Carried(B)
  BY ONLY <1>2, CarriedTogether
<1>4. /\ IsFiniteSet(C \cup D)
      /\ Carried(C) \in Nat /\ Carried(D) \in Nat /\ Carried(C \cup D) \in Nat
      /\ Carried(C \cup D) <= Carried(C) + Carried(D)
  BY ONLY <1>2, CarriedTogether
<1> DEFINE ab == Carried(A \cup B)
           cd == Carried(C \cup D)
           a  == Carried(A)
           b  == Carried(B)
           c  == Carried(C)
           d  == Carried(D)
<1>5. /\ x < 0 => y <= 0 /\ a <= y - x /\ C = {}
      /\ x > 0 => y >= 0 /\ c <= x - y /\ A = {}
      /\ x = 0 => y = 0 /\ A = {} /\ C = {}
      /\ y < 0 => z <= 0 /\ b <= z - y /\ D = {}
      /\ y > 0 => z >= 0 /\ d <= y - z /\ B = {}
      /\ y = 0 => z = 0 /\ B = {} /\ D = {}
  BY DEF FlowAt, A, B, C, D
<1>6. (A = {} => a = 0) /\ (B = {} => b = 0) /\ (C = {} => c = 0) /\ (D = {} => d = 0)
  BY NoneCarried
<1>7. /\ a \in Nat /\ b \in Nat /\ c \in Nat /\ d \in Nat /\ ab \in Nat /\ cd \in Nat
      /\ ab <= a + b /\ cd <= c + d
  BY <1>3, <1>4
<1> HIDE DEF a, b, c, d, ab, cd
<1>8. /\ x < 0 => z <= 0 /\ ab <= z - x
      /\ x > 0 => z >= 0 /\ cd <= x - z
      /\ x = 0 => z = 0
  BY ONLY <1>5, <1>6, <1>7, x \in Int, y \in Int, z \in Int
<1>9. /\ x < 0 => C = {} /\ D = {}
      /\ x > 0 => A = {} /\ B = {}
      /\ x = 0 => A = {} /\ B = {} /\ C = {} /\ D = {}
  BY ONLY <1>5, x \in Int, y \in Int
<1>10. /\ x < 0 => C \cup D = {}
       /\ x > 0 => A \cup B = {}
       /\ x = 0 => A \cup B = {} /\ C \cup D = {}
  BY <1>9
<1>11. From(R \cup Q, l) = A \cup B /\ To(R \cup Q, l) = C \cup D
  BY <1>1 DEF A, B, C, D
<1> DEFINE U == A \cup B
           V == C \cup D
<1>12. /\ IsFiniteSet(U) /\ IsFiniteSet(V)
       /\ From(R \cup Q, l) = U /\ To(R \cup Q, l) = V
       /\ Carried(U) = ab /\ Carried(V) = cd
       /\ x < 0 => V = {}
       /\ x > 0 => U = {}
       /\ x = 0 => U = {} /\ V = {}
  BY <1>3, <1>4, <1>10, <1>11 DEF ab, cd
<1> HIDE DEF U, V
<1>. QED
  BY <1>8, <1>12 DEF FlowAt

\* Two plans, one after the other
LEMMA FlowsTogether ==
    ASSUME NEW g \in Gaps, NEW h \in Gaps, NEW k \in Gaps, NEW R, NEW Q,
           Flow(g, h, R), Flow(h, k, Q)
    PROVE  Flow(g, k, R \cup Q)
<1>1. AreRows(R) /\ AreRows(Q) /\ AreRows(R \cup Q)
  BY DEF Flow, AreRows
<1>2. ASSUME NEW l \in Locations
      PROVE  FlowAt(g[l], k[l], R \cup Q, l)
  <2>1. g[l] \in Int /\ h[l] \in Int /\ k[l] \in Int
    BY DEF Gaps
  <2>2. FlowAt(g[l], h[l], R, l) /\ FlowAt(h[l], k[l], Q, l)
    BY DEF Flow
  <2>. QED
    BY ONLY <1>1, <2>1, <2>2, FlowsAdd
<1>. QED
  BY <1>1, <1>2 DEF Flow

\* The rows of a phase are among its locations, and of its type.
Within(R, S, type) == \A r \in R : r.src \in S /\ r.tgt \in S /\ r.type = type

\* A phase
LEMMA PhaseFlows ==
    ASSUME NEW g \in Gaps, NEW S \in SUBSET Locations, NEW type
    PROVE  LET P == Phase(type, g, S)
           IN  /\ P.gap \in Gaps
               /\ \A l \in Locations \ S : P.gap[l] = g[l]
               /\ Within(P.rows, S, type)
               /\ Flow(g, P.gap, P.rows)
<1> DEFINE P == Phase(type, g, S)
           m == Match(g, S)
           v == m.moved
           R == RowsOf(type, v, S)
<1>1. LoopInv(g, S, Turns(g, S), m)
  BY MatchOK
<1>2. /\ v \in [S \X S -> Nat] /\ m.gap \in Gaps
      /\ GapsOK(g, S, m.gap) /\ MovedOK(g, S, v) /\ SumsOK(g, S, m)
  BY <1>1 DEF LoopInv, State
<1>3. /\ P.gap = [l \in Locations |-> IF l \in S THEN m.gap[l] ELSE g[l]]
      /\ P.rows = R
  BY DEF Phase, RowsOf
<1>4. IsFiniteSet(S) /\ MinRow \in Nat /\ MinRow > 0
  BY PlanningAssumption, FS_Subset
<1>5. /\ P.gap \in Gaps
      /\ \A l \in Locations : P.gap[l] = m.gap[l]
      /\ \A l \in Locations \ S : P.gap[l] = g[l]
  BY <1>2, <1>3 DEF Gaps, GapsOK
<1> HIDE DEF P, R
<1>6. ASSUME NEW r \in R
      PROVE  /\ r.src \in S /\ r.tgt \in S /\ r.type = type /\ r.qty \in Nat
             /\ g[r.src] < 0 /\ g[r.tgt] > 0
  <2>1. RowAt(type, v, S, r)
    BY <1>2, RowIs DEF R
  <2>2. PICK s \in S, t \in S :
            /\ v[<<s, t>>] >= MinRow
            /\ r = [type |-> type, src |-> s, tgt |-> t, qty |-> v[<<s, t>>]]
    BY <2>1 DEF RowAt
  <2>3. v[<<s, t>>] \in Nat
    BY <1>2
  <2>4. v[<<s, t>>] # 0
    BY <1>4, <2>2, <2>3
  <2>. QED
    BY <1>2, <2>2, <2>3, <2>4 DEF MovedOK
<1>7. AreRows(R) /\ Within(R, S, type)
  BY <1>6 DEF AreRows, Within
<1>8. ASSUME NEW l \in Locations
      PROVE  FlowAt(g[l], P.gap[l], R, l)
  <2> DEFINE x == g[l]
             y == m.gap[l]
             A == From(R, l)
             B == To(R, l)
  <2>1. x \in Int /\ y \in Int
    BY <1>2 DEF Gaps
  <2>2. /\ A # {} => l \in S /\ x < 0
        /\ B # {} => l \in S /\ x > 0
    BY <1>6 DEF From, To
  <2>3. /\ x < 0 => y <= 0
        /\ x > 0 => y >= 0
        /\ x = 0 \/ l \notin S => y = x
    BY <1>2 DEF GapsOK
  <2>4. CASE l \in S
    <3>1. /\ x < 0 => Sum(GivenBy(v, S, l), S) = y - x
          /\ x > 0 => Sum(TakenBy(v, S, l), S) = x - y
      BY <1>2, <2>4 DEF SumsOK
    <3>2. /\ IsFiniteSet(A) /\ Carried(A) <= Sum(GivenBy(v, S, l), S)
          /\ IsFiniteSet(B) /\ Carried(B) <= Sum(TakenBy(v, S, l), S)
      BY <1>2, <1>4, <2>4, RowsFrom, RowsTo DEF R
    <3> HIDE DEF x, y, A, B
    <3>3. /\ x < 0 => Carried(A) <= y - x /\ B = {}
          /\ x > 0 => Carried(B) <= x - y /\ A = {}
          /\ x = 0 => A = {} /\ B = {}
      BY <2>1, <2>2, <3>1, <3>2
    <3>. QED
      BY <1>5, <2>3, <3>2, <3>3 DEF FlowAt, x, y, A, B
  <2>5. CASE l \notin S
    <3>1. A = {} /\ B = {} /\ IsFiniteSet(A) /\ IsFiniteSet(B)
      BY <2>2, <2>5, FS_EmptySet
    <3>2. Carried(A) = 0 /\ Carried(B) = 0
      BY <3>1, NoneCarried
    <3> HIDE DEF x, y, A, B
    <3>3. y = x /\ 0 <= y - x /\ 0 <= x - y
      BY <2>1, <2>3, <2>5
    <3>4. FlowAt(x, y, R, l)
      BY <2>1, <2>3, <3>1, <3>2, <3>3 DEF FlowAt, A, B
    <3>. QED
      BY <1>5, <3>4 DEF x, y
  <2>. QED
    BY <2>4, <2>5
<1>9. Flow(g, P.gap, R)
  BY <1>7, <1>8 DEF Flow
<1>. QED
  BY <1>3, <1>5, <1>7, <1>9 DEF P

\* Between two locations there is one row.
OnePerPair(R) == \A r, q \in R : r.src = q.src /\ r.tgt = q.tgt => r = q

\* A phase makes one row for a pair.
LEMMA PhaseOnePerPair ==
    ASSUME NEW g \in Gaps, NEW S \in SUBSET Locations, NEW type
    PROVE  OnePerPair(Phase(type, g, S).rows)
<1> DEFINE v == Match(g, S).moved
           R == Phase(type, g, S).rows
<1>1. v \in [S \X S -> Nat]
  BY MatchOK DEF LoopInv, State
<1>2. R = RowsOf(type, v, S)
  BY DEF Phase, RowsOf
<1> HIDE DEF R, v
<1>3. ASSUME NEW r \in R
      PROVE  r = [type |-> type, src |-> r.src, tgt |-> r.tgt, qty |-> v[<<r.src, r.tgt>>]]
  <2>1. RowAt(type, v, S, r)
    BY <1>1, <1>2, RowIs
  <2>. QED
    BY <2>1 DEF RowAt
<1>. QED
  BY <1>3 DEF OnePerPair, R

\* Each warehouse has its own locations.
OwnScopes(scope) ==
    /\ scope \in [Whs -> SUBSET Locations]
    /\ \A w \in Whs : \A l \in scope[w] : WhOf[l] = w

\* The phases of all warehouses are one flow, as none touches the locations of another.
LEMMA InTurnFlows ==
    ASSUME NEW g \in Gaps, NEW scope, OwnScopes(scope), NEW type
    PROVE  LET P == InTurn(type, g, scope)
           IN  /\ P.gap \in Gaps
               /\ Flow(g, P.gap, P.rows)
               /\ OnePerPair(P.rows)
               /\ \A r \in P.rows : \E w \in Whs : r.src \in scope[w] /\ r.tgt \in scope[w]
               /\ \A l \in Locations :
                     LET O == Phase(type, g, scope[WhOf[l]])
                     IN  P.gap[l] = O.gap[l] /\ To(P.rows, l) = To(O.rows, l)
<1> DEFINE P == InTurn(type, g, scope)
           ph(w) == Phase(type, g, scope[w])
           R(w) == ph(w).rows
<1>1. P.rows = UNION {R(w) : w \in Whs} /\ P.gap = [l \in Locations |-> ph(WhOf[l]).gap[l]]
  <2> DEFINE ps == [w \in Whs |-> ph(w)]
  <2>1. P = [gap  |-> [l \in Locations |-> ps[WhOf[l]].gap[l]],
             rows |-> UNION {ps[w].rows : w \in Whs}]
    BY DEF InTurn
  <2>2. \A w \in Whs : ps[w] = ph(w)
    OBVIOUS
  <2>3. \A l \in Locations : WhOf[l] \in Whs
    BY PlanningAssumption
  <2> HIDE DEF ps, ph, P
  <2>4. UNION {ps[w].rows : w \in Whs} = UNION {R(w) : w \in Whs}
    BY <2>2
  <2>5. [l \in Locations |-> ps[WhOf[l]].gap[l]] = [l \in Locations |-> ph(WhOf[l]).gap[l]]
    BY <2>2, <2>3
  <2>. QED
    BY <2>1, <2>4, <2>5
<1>2. ASSUME NEW w \in Whs
      PROVE  /\ ph(w).gap \in Gaps
             /\ Within(R(w), scope[w], type)
             /\ Flow(g, ph(w).gap, R(w))
             /\ OnePerPair(R(w))
  <2>1. scope[w] \in SUBSET Locations
    BY DEF OwnScopes
  <2>. QED
    BY ONLY <2>1, g \in Gaps, PhaseFlows, PhaseOnePerPair
<1> HIDE DEF P, ph
<1>3. P.gap \in Gaps
  BY <1>1, <1>2, PlanningAssumption DEF Gaps
<1>4. ASSUME NEW r \in P.rows
      PROVE  \E w \in Whs : r \in R(w)
  BY <1>1
<1>5. \A w \in Whs : \A r \in R(w) :
         /\ r \in P.rows
         /\ r.src \in scope[w] /\ r.tgt \in scope[w]
         /\ WhOf[r.src] = w /\ WhOf[r.tgt] = w
  BY <1>1, <1>2 DEF Within, OwnScopes
<1>6. AreRows(P.rows)
  BY <1>2, <1>4 DEF AreRows, Flow
<1>7. ASSUME NEW l \in Locations
      PROVE  /\ FlowAt(g[l], P.gap[l], P.rows, l)
             /\ P.gap[l] = ph(WhOf[l]).gap[l]
             /\ To(P.rows, l) = To(ph(WhOf[l]).rows, l)
  <2>1. WhOf[l] \in Whs
    BY PlanningAssumption
  <2>2. FlowAt(g[l], ph(WhOf[l]).gap[l], R(WhOf[l]), l)
    BY <1>2, <2>1 DEF Flow
  <2>3. From(P.rows, l) = From(R(WhOf[l]), l)
    BY <1>4, <1>5, <2>1 DEF From
  <2>4. To(P.rows, l) = To(R(WhOf[l]), l)
    BY <1>4, <1>5, <2>1 DEF To
  <2>5. P.gap[l] = ph(WhOf[l]).gap[l]
    BY <1>1
  <2>6. To(P.rows, l) = To(ph(WhOf[l]).rows, l)
    BY <2>4
  <2> HIDE DEF R
  <2>. QED
    BY <2>2, <2>3, <2>4, <2>5, <2>6 DEF FlowAt
<1>8. Flow(g, P.gap, P.rows)
  BY <1>6, <1>7 DEF Flow
<1>9. OnePerPair(P.rows)
  <2> SUFFICES ASSUME NEW r \in P.rows, NEW q \in P.rows, r.src = q.src, r.tgt = q.tgt
               PROVE  r = q
    BY DEF OnePerPair
  <2>1. PICK w \in Whs : r \in R(w)
    BY <1>4
  <2>2. q \in R(w)
    BY <1>4, <1>5, <2>1
  <2>. QED
    BY <1>2, <2>1, <2>2 DEF OnePerPair
<1>. QED
  BY <1>3, <1>4, <1>5, <1>7, <1>8, <1>9 DEF P, ph

\* What a warehouse still lacks is a number.
LEMMA ResidualIsInt ==
    ASSUME NEW g \in Gaps, NEW w \in Whs
    PROVE  Residual(g, w) \in Int
<1> DEFINE T == {l \in StoresOf(w) \cup {w} : g[l] > 0}
<1>1. T \in SUBSET Locations
  BY DEF StoresOf, Locations
<1>2. IsFiniteSet(T) /\ \A l \in T : g[l] \in Int
  BY <1>1, PlanningAssumption, FS_Subset DEF Gaps
<1>3. Residual(g, w) = Sum(g, T)
  BY Zenon DEF Residual, SumOver, Sum, Total
<1>. QED
  BY <1>2, <1>3, SumType

\* The phases of a plan
First(g) == InTurn("REBALANCE", g, [w \in Whs |-> StoresOf(w)])
Scope(h) == [w \in Whs |-> IF h[w] < 0 THEN Refilled(h, w) ELSE {}]
Second(g) == InTurn("WH_TO_STORE", First(g).gap, Scope(First(g).gap))
Third(g) == Phase("WH_TRANSFER", Second(g).gap, Whs)
Moves(g) == (First(g).rows \cup Second(g).rows) \cup Third(g).rows

\* The order that makes up for what a warehouse still lacks
Bought(h, w) == [type |-> "PUBLISHER_ORDER", src |-> None, tgt |-> w,
                 qty |-> Higher(Residual(h, w), MinEoq)]

Orders(h) == {Bought(h, w) : w \in {v \in Whs : StoresOf(v) # {} /\ Residual(h, v) >= MinRow}}

\* The locations of a row tell which phase it is from.
RowsAre(g) ==
    /\ \A r \in First(g).rows : r.src \in Stores /\ r.tgt \in Stores
    /\ \A r \in Second(g).rows : r.src \in Whs /\ r.tgt \in Stores
    /\ \A r \in Third(g).rows : r.src \in Whs /\ r.tgt \in Whs
    /\ \A r \in Orders(Third(g).gap) : r.src = None /\ r.tgt \in Whs /\ r.qty \in Nat

\* The phases are flows, each from the gaps that the one before has left.
PhasesFlow(g) ==
    /\ First(g).gap \in Gaps /\ Flow(g, First(g).gap, First(g).rows)
    /\ Second(g).gap \in Gaps /\ Flow(First(g).gap, Second(g).gap, Second(g).rows)
    /\ Third(g).gap \in Gaps /\ Flow(Second(g).gap, Third(g).gap, Third(g).rows)

\* What a plan is.
LEMMA DailyPlanIs ==
    ASSUME NEW g
    PROVE  DailyPlan(g) = Moves(g) \cup Orders(Third(g).gap)
  BY DEF DailyPlan, Moves, Orders, Bought, First, Second, Scope, Third

\* The scopes of the phases that are made for every warehouse
LEMMA ScopesAreOwn ==
    ASSUME NEW h
    PROVE  OwnScopes([w \in Whs |-> StoresOf(w)]) /\ OwnScopes(Scope(h))
  BY PlanningAssumption DEF OwnScopes, StoresOf, Refilled, Locations, Scope

\* So a plan has its phases.
LEMMA PhasesAre ==
    ASSUME NEW g \in Gaps
    PROVE  /\ PhasesFlow(g)
           /\ OnePerPair(First(g).rows) /\ OnePerPair(Second(g).rows)
           /\ OnePerPair(Third(g).rows)
           /\ \A r \in First(g).rows : \E w \in Whs : r.src \in StoresOf(w) /\ r.tgt \in StoresOf(w)
           /\ \A r \in Second(g).rows : \E w \in Whs : /\ r.src \in Scope(First(g).gap)[w]
                                                      /\ r.tgt \in Scope(First(g).gap)[w]
           /\ Within(Third(g).rows, Whs, "WH_TRANSFER")
<1> DEFINE sa == [w \in Whs |-> StoresOf(w)]
           h  == First(g).gap
           sb == Scope(h)
           k  == Second(g).gap
<1>1. OwnScopes(sa) /\ OwnScopes(sb)
  BY ScopesAreOwn
<1>2. \A w \in Whs : sa[w] = StoresOf(w)
  OBVIOUS
<1> HIDE DEF sa
<1>3. LET P == InTurn("REBALANCE", g, sa)
      IN  /\ P.gap \in Gaps /\ Flow(g, P.gap, P.rows) /\ OnePerPair(P.rows)
          /\ \A r \in P.rows : \E w \in Whs : r.src \in sa[w] /\ r.tgt \in sa[w]
  BY ONLY <1>1, g \in Gaps, InTurnFlows
<1>4. /\ h \in Gaps /\ Flow(g, h, First(g).rows) /\ OnePerPair(First(g).rows)
      /\ \A r \in First(g).rows : \E w \in Whs : r.src \in sa[w] /\ r.tgt \in sa[w]
  BY <1>3 DEF First, sa
<1> HIDE DEF h, sb
<1>5. LET P == InTurn("WH_TO_STORE", h, sb)
      IN  /\ P.gap \in Gaps /\ Flow(h, P.gap, P.rows) /\ OnePerPair(P.rows)
          /\ \A r \in P.rows : \E w \in Whs : r.src \in sb[w] /\ r.tgt \in sb[w]
  BY ONLY <1>1, <1>4, InTurnFlows
<1>6. /\ k \in Gaps /\ Flow(h, k, Second(g).rows) /\ OnePerPair(Second(g).rows)
      /\ \A r \in Second(g).rows : \E w \in Whs : r.src \in sb[w] /\ r.tgt \in sb[w]
  BY <1>5 DEF Second, h, sb
<1> HIDE DEF k
<1>7. Whs \in SUBSET Locations
  BY DEF Locations
<1>8. LET P == Phase("WH_TRANSFER", k, Whs)
      IN  /\ P.gap \in Gaps /\ Flow(k, P.gap, P.rows) /\ OnePerPair(P.rows)
          /\ Within(P.rows, Whs, "WH_TRANSFER")
  BY ONLY <1>6, <1>7, PhaseFlows, PhaseOnePerPair
<1>9. /\ Third(g).gap \in Gaps /\ Flow(k, Third(g).gap, Third(g).rows)
      /\ OnePerPair(Third(g).rows) /\ Within(Third(g).rows, Whs, "WH_TRANSFER")
  BY <1>8 DEF Third, k
<1>10. PhasesFlow(g)
  BY <1>4, <1>6, <1>9 DEF PhasesFlow, h, k
<1>. QED
  BY <1>2, <1>4, <1>6, <1>9, <1>10 DEF h, sb

\* Orders from the publisher are for warehouses, one for each.
LEMMA OrdersAre ==
    ASSUME NEW h \in Gaps
    PROVE  /\ \A r \in Orders(h) : /\ r.src = None /\ r.tgt \in Whs /\ r.qty \in Nat
                                   /\ r = Bought(h, r.tgt)
           /\ OnePerPair(Orders(h))
<1>1. MinEoq \in Nat /\ \A w \in Whs : Residual(h, w) \in Int
  BY PlanningAssumption, ResidualIsInt
<1>2. ASSUME NEW r \in Orders(h)
      PROVE  /\ r.src = None /\ r.tgt \in Whs /\ r.qty \in Nat
             /\ r = Bought(h, r.tgt)
  <2>1. PICK w \in Whs : r = Bought(h, w)
    BY DEF Orders
  <2>2. Higher(Residual(h, w), MinEoq) \in Nat
    BY <1>1 DEF Higher
  <2>. QED
    BY <2>1, <2>2 DEF Bought
<1>. QED
  BY <1>2 DEF OnePerPair

\* The locations of the rows
LEMMA RowsAreOfPhases ==
    ASSUME NEW g \in Gaps
    PROVE  RowsAre(g)
<1> DEFINE h == First(g).gap
           Q == Second(g).rows
<1>1. \A r \in First(g).rows : r.src \in Stores /\ r.tgt \in Stores
  BY PhasesAre DEF StoresOf
<1>2. ASSUME NEW r \in Q
      PROVE  r.src \in Whs /\ r.tgt \in Stores
  <2>1. PICK w \in Whs : r.src \in Scope(h)[w] /\ r.tgt \in Scope(h)[w]
    BY PhasesAre
  <2>2. /\ h[w] < 0 /\ w \in Locations
        /\ r.src \in {w} \cup {s \in Stores : h[s] > 0}
        /\ r.tgt \in {w} \cup {s \in Stores : h[s] > 0}
    BY <2>1 DEF Scope, Refilled, StoresOf, Locations
  <2>3. Flow(h, Second(g).gap, Q)
    BY PhasesAre DEF PhasesFlow
  <2>4. r.tgt # w
    <3>1. To(Q, w) = {}
      BY <2>2, <2>3 DEF Flow, FlowAt
    <3>. QED
      BY <3>1 DEF To
  <2>5. \A s \in Stores : h[s] > 0 => r.src # s
    <3>1. \A s \in Stores : h[s] > 0 => From(Q, s) = {}
      BY <2>3 DEF Flow, FlowAt, Locations
    <3>. QED
      BY <3>1 DEF From
  <2>. QED
    BY <2>2, <2>4, <2>5
<1>3. \A r \in Third(g).rows : r.src \in Whs /\ r.tgt \in Whs
  BY PhasesAre DEF Within
<1>4. \A r \in Orders(Third(g).gap) : r.src = None /\ r.tgt \in Whs /\ r.qty \in Nat
  BY PhasesAre, OrdersAre DEF PhasesFlow
<1>. QED
  BY <1>1, <1>2, <1>3, <1>4 DEF RowsAre

\* The moves of a plan are one flow.
LEMMA MovesFlow ==
    ASSUME NEW g \in Gaps
    PROVE  Flow(g, Third(g).gap, Moves(g))
<1>1. PhasesFlow(g)
  BY PhasesAre
<1>2. Flow(g, Second(g).gap, First(g).rows \cup Second(g).rows)
  BY <1>1, FlowsTogether DEF PhasesFlow
<1>. QED
  BY <1>1, <1>2, FlowsTogether DEF PhasesFlow, Moves

\* A plan has quantities, and one row for a pair.
LEMMA DailyPlanRows ==
    ASSUME NEW g \in Gaps
    PROVE  /\ \A r \in DailyPlan(g) : r.qty \in Nat
           /\ OnePerPair(DailyPlan(g))
<1> DEFINE A == First(g).rows
           B == Second(g).rows
           C == Third(g).rows
           N == Orders(Third(g).gap)
<1>1. DailyPlan(g) = ((A \cup B) \cup C) \cup N
  BY DailyPlanIs DEF Moves
<1>2. /\ OnePerPair(A) /\ OnePerPair(B) /\ OnePerPair(C) /\ OnePerPair(N)
  BY PhasesAre, OrdersAre DEF PhasesFlow
<1>3. /\ \A r \in A : r.src \in Stores /\ r.tgt \in Stores
      /\ \A r \in B : r.src \in Whs /\ r.tgt \in Stores
      /\ \A r \in C : r.src \in Whs /\ r.tgt \in Whs
      /\ \A r \in N : r.src = None /\ r.tgt \in Whs
  BY RowsAreOfPhases DEF RowsAre
<1>4. Whs \cap Stores = {} /\ None \notin Whs /\ None \notin Stores
  BY PlanningAssumption DEF Locations
<1>5. \A r \in DailyPlan(g) : r.qty \in Nat
  BY <1>1, MovesFlow, RowsAreOfPhases DEF Flow, AreRows, RowsAre, Moves
<1> HIDE DEF A, B, C, N
<1>6. OnePerPair(DailyPlan(g))
  <2> SUFFICES ASSUME NEW r \in DailyPlan(g), NEW q \in DailyPlan(g),
                      r.src = q.src, r.tgt = q.tgt
               PROVE  r = q
    BY DEF OnePerPair
  <2>1. \/ r \in A /\ q \in A
        \/ r \in B /\ q \in B
        \/ r \in C /\ q \in C
        \/ r \in N /\ q \in N
    BY <1>1, <1>3, <1>4
  <2>. QED
    BY <1>2, <2>1 DEF OnePerPair
<1>. QED
  BY <1>5, <1>6

\* So a plan stays within the gaps.
LEMMA DailyPlanWithin ==
    ASSUME NEW g \in Gaps, NEW l \in Locations
    PROVE  LET moves == {r \in DailyPlan(g) : r.src # None}
           IN  /\ SumOver({r \in moves : r.src = l}, RowQty) <= Higher(0, -g[l])
               /\ SumOver({r \in moves : r.tgt = l}, RowQty) <= Higher(0, g[l])
<1> DEFINE M == Moves(g)
           h == Third(g).gap
           moves == {r \in DailyPlan(g) : r.src # None}
<1>1. Flow(g, h, M) /\ h \in Gaps
  BY MovesFlow, PhasesAre DEF PhasesFlow
<1>2. moves = M
  <2>1. \A r \in M : r.src # None
    BY <1>1, PlanningAssumption DEF Flow, AreRows
  <2>2. \A r \in Orders(h) : r.src = None
    BY <1>1, OrdersAre
  <2> HIDE DEF M, h
  <2>3. DailyPlan(g) = M \cup Orders(h)
    BY DailyPlanIs DEF M, h
  <2>. QED
    BY <2>1, <2>2, <2>3
<1> HIDE DEF M, h
<1>3. /\ SumOver({r \in moves : r.src = l}, RowQty) = Carried(From(M, l))
      /\ SumOver({r \in moves : r.tgt = l}, RowQty) = Carried(To(M, l))
  BY <1>2, Zenon DEF Carried, From, To
<1> DEFINE x == g[l]
           y == h[l]
           A == From(M, l)
           B == To(M, l)
<1>4. x \in Int /\ y \in Int
  BY <1>1 DEF Gaps
<1>5. /\ x < 0 => y <= 0 /\ Carried(A) <= y - x /\ B = {}
      /\ x > 0 => y >= 0 /\ Carried(B) <= x - y /\ A = {}
      /\ x = 0 => A = {} /\ B = {}
      /\ IsFiniteSet(A) /\ IsFiniteSet(B)
  BY <1>1 DEF Flow, FlowAt
<1>6. (A = {} => Carried(A) = 0) /\ (B = {} => Carried(B) = 0)
  BY NoneCarried
<1>7. Carried(A) \in Nat /\ Carried(B) \in Nat
  <2>1. \A r \in A \cup B : r.qty \in Nat
    BY <1>1 DEF Flow, AreRows, From, To
  <2> HIDE DEF A, B
  <2>. QED
    BY ONLY <1>5, <2>1, CarriedTogether
<1> HIDE DEF x, y, A, B
<1>8. Carried(A) <= Higher(0, -x) /\ Carried(B) <= Higher(0, x)
  BY <1>4, <1>5, <1>6, <1>7 DEF Higher
<1>. QED
  BY <1>3, <1>8 DEF x, A, B, moves

-----------------------------------------------------------------------------
(* What a call is deleting *)

\* The variables are functions to records; no more of their types is needed.
Shaped ==
    /\ DOMAIN orders = Ids
    /\ \A o \in Ids : DOMAIN orders[o] = DOMAIN Absent
    /\ DOMAIN approvals = Ids
    /\ DOMAIN plan = Planners
    /\ \A p \in Planners : DOMAIN plan[p] = DOMAIN Idle

\* What an open call is deleting is still PENDING, and no other call deletes it.
GoneArePending ==
    \A p \in Planners :
        /\ plan[p].gone \subseteq Ids
        /\ \A o \in plan[p].gone : orders[o].status = "PENDING"
        /\ \A q \in Planners \ {p} : plan[p].gone \cap plan[q].gone = {}

PlanInv == Shaped /\ GoneArePending

\* The fields of a call of /plan-daily
LEMMA IdleFields ==
    /\ DOMAIN Idle = {"step", "found", "gone", "unapproved", "seen", "book", "gap", "rows"}
    /\ Idle.step = "idle" /\ Idle.gone = {} /\ Idle.unapproved = {}
  BY DEF Idle

\* The fields of an order
LEMMA OrderFields ==
    /\ DOMAIN Absent = {"type", "src", "tgt", "qty", "status", "planned", "arrived",
                         "retargeted", "parent"}
    /\ \A r, st, x : DOMAIN AsOrder(r, st, x) = DOMAIN Absent
    /\ \A o, t : DOMAIN ChainedTo(o, t) = DOMAIN Absent
  BY DEF Absent, AsOrder, ChainedTo

\* A new row gets a free id.
LEMMA PlacedIsFree ==
    ASSUME NEW rows, NEW free, \E g \in [rows -> free] : IsInjective(g)
    PROVE  Placed(rows, free) \in [rows -> free]
  BY DEF Placed

\* One row does, when there is a free id.
LEMMA OneIsPlaced ==
    ASSUME NEW r, NEW free, free # {}
    PROVE  Placed({r}, free)[r] \in free
<1>1. PICK k \in free : TRUE
  OBVIOUS
<1>2. [x \in {r} |-> k] \in [{r} -> free] /\ IsInjective([x \in {r} |-> k])
  BY <1>1 DEF IsInjective
<1>. QED
  BY <1>2, PlacedIsFree

-----------------------------------------------------------------------------
(* Steps *)

\* Steps of others: plan stays, and no PENDING order that is being deleted changes.
LEMMA OthersKeepInv ==
    ASSUME PlanInv, plan' = plan, DOMAIN orders' = Ids, DOMAIN approvals' = Ids,
           \A o \in Ids : DOMAIN orders'[o] = DOMAIN Absent,
           \A p \in Planners : \A o \in plan[p].gone : orders'[o].status = "PENDING"
    PROVE  PlanInv'
  BY DEF PlanInv, Shaped, GoneArePending

\* Nobody deletes what is not PENDING.
LEMMA OthersAreKept ==
    ASSUME PlanInv, NEW p \in Planners, NEW o \in plan[p].gone
    PROVE  o \in Ids /\ orders[o].status = "PENDING"
  BY DEF PlanInv, GoneArePending

\* /decide takes an id that is free.
LEMMA DecideKeepsInv ==
    ASSUME PlanInv, Decide
    PROVE  PlanInv'
<1>1. PICK r, free :
         /\ free = {o \in Ids : orders[o].status = "ABSENT"}
         /\ free # {}
         /\ orders' = [orders EXCEPT ![Placed({r}, free)[r]] =
                         AsOrder(r, "PENDING", FALSE)]
  BY DEF Decide
<1>2. PICK k \in Ids : /\ orders[k].status = "ABSENT"
                       /\ orders' = [orders EXCEPT ![k] = AsOrder(r, "PENDING", FALSE)]
  BY <1>1, OneIsPlaced
<1>3. plan' = plan /\ DOMAIN approvals' = Ids
  BY DEF Decide, PlanInv, Shaped
<1>4. /\ DOMAIN orders' = Ids
      /\ \A o \in Ids : DOMAIN orders'[o] = DOMAIN Absent
      /\ \A o \in Ids \ {k} : orders'[o] = orders[o]
  <2> DEFINE new == AsOrder(r, "PENDING", FALSE)
  <2>1. DOMAIN new = DOMAIN Absent
    BY OrderFields
  <2>2. orders' = [orders EXCEPT ![k] = new]
    BY <1>2
  <2> HIDE DEF new
  <2>. QED
    BY <2>1, <2>2 DEF PlanInv, Shaped
<1>5. \A p \in Planners : k \notin plan[p].gone
  BY <1>2, OthersAreKept
<1>. QED
  BY <1>3, <1>4, <1>5, OthersKeepInv, OthersAreKept

\* An approval waits for the calls that delete its order.
LEMMA ApproveKeepsInv ==
    ASSUME PlanInv, NEW o \in Ids, NEW s \in Sides, Approve(o, s)
    PROVE  PlanInv'
<1> DEFINE st == IF orders[o].src = None THEN "IN_TRANSIT" ELSE "APPROVED"
           done == [orders EXCEPT ![o].status = st]
           free == {k \in Ids : orders[k].status = "ABSENT"}
<1>1. /\ plan' = plan /\ \A p \in Planners : o \notin plan[p].gone
      /\ DOMAIN approvals' = Ids
  BY DEF Approve, HeldBy, PlanInv, Shaped
<1>2. /\ DOMAIN done = Ids
      /\ \A k \in Ids : DOMAIN done[k] = DOMAIN Absent
      /\ \A k \in Ids \ {o} : done[k] = orders[k]
  BY DEF PlanInv, Shaped
<1>3. CASE orders' = done
  BY <1>1, <1>2, <1>3, OthersKeepInv, OthersAreKept
<1>4. ASSUME NEW t, free # {},
             orders' = [done EXCEPT ![Placed({t}, free)[t]] = ChainedTo(o, t)]
      PROVE  PlanInv'
  <2>1. PICK k \in free : orders' = [done EXCEPT ![k] = ChainedTo(o, t)]
    BY <1>4, OneIsPlaced
  <2>2. /\ k \in Ids
        /\ \A p \in Planners : k \notin plan[p].gone
    BY <2>1, OthersAreKept
  <2>3. /\ DOMAIN orders' = Ids
        /\ \A x \in Ids : DOMAIN orders'[x] = DOMAIN Absent
        /\ \A x \in Ids \ {o, k} : orders'[x] = orders[x]
    <3> HIDE DEF done
    <3>1. DOMAIN ChainedTo(o, t) = DOMAIN Absent
      BY OrderFields
    <3>. QED
      BY <1>2, <2>1, <2>2, <3>1
  <2>. QED
    BY <1>1, <2>2, <2>3, OthersKeepInv, OthersAreKept
<1>5. CASE UNCHANGED orders
  BY <1>1, <1>5, OthersKeepInv, OthersAreKept DEF PlanInv, Shaped
<1>. QED
  BY <1>3, <1>4, <1>5 DEF Approve

\* An edited order has another quantity or another target.
LEMMA EditChanges ==
    ASSUME PlanInv, NEW o \in Ids, Edit(o)
    PROVE  /\ DOMAIN orders' = Ids
           /\ DOMAIN orders'[o] = DOMAIN Absent
           /\ \A k \in Ids \ {o} : orders'[k] = orders[k]
           /\ orders'[o].qty \in NewQtys \cup {orders[o].qty}
           /\ \A x \in {"src", "status", "planned", "arrived"} : orders'[o][x] = orders[o][x]
           /\ orders'[o].tgt # orders[o].tgt => orders'[o].retargeted
           /\ orders[o].retargeted => orders'[o].retargeted
<1>1. PICK l \in NewTargets \cup {orders[o].tgt}, q \in NewQtys \cup {orders[o].qty} :
         orders' = [orders EXCEPT ![o] =
                      [orders[o] EXCEPT !.tgt = l, !.qty = q,
                                        !.retargeted = @ \/ l # orders[o].tgt]]
  BY Zenon DEF Edit
<1>2. DOMAIN orders = Ids /\ DOMAIN orders[o] = DOMAIN Absent
  BY DEF PlanInv, Shaped
<1>3. /\ DOMAIN orders' = Ids
      /\ \A k \in Ids \ {o} : orders'[k] = orders[k]
  BY <1>1, <1>2
<1>4. orders'[o] = [orders[o] EXCEPT !.tgt = l, !.qty = q,
                                    !.retargeted = @ \/ l # orders[o].tgt]
  BY <1>1, <1>2, OrderFields
<1>. QED
  BY <1>2, <1>3, <1>4, OrderFields

\* The other changes of one order are not for orders that are being deleted.
LEMMA MovesKeepInv ==
    ASSUME PlanInv, NEW o \in Ids,
           Dispatch(o) \/ Arrive(o) \/ Receive(o) \/ Edit(o) \/ LegacyReject(o)
    PROVE  PlanInv'
<1>1. /\ plan' = plan /\ \A p \in Planners : o \notin plan[p].gone
      /\ DOMAIN approvals' = Ids
  <2>1. CASE Dispatch(o) \/ Arrive(o) \/ Receive(o)
    BY <2>1, OthersAreKept DEF Dispatch, Arrive, Receive, PlanInv, Shaped
  <2>2. CASE Edit(o)
    <3>1. UNCHANGED <<approvals, plan>> /\ \A p \in Planners : ~HeldBy(p, o)
      BY <2>2, Zenon DEF Edit
    <3>. QED
      BY <3>1 DEF HeldBy, PlanInv, Shaped
  <2>3. CASE LegacyReject(o)
    <3>1. Needs(o) # {}
      BY DEF Needs
    <3>. QED
      BY <2>3, <3>1 DEF LegacyReject, HeldBy, PlanInv, Shaped
  <2>. QED
    BY <2>1, <2>2, <2>3
<1>2. CASE Dispatch(o) \/ Arrive(o) \/ Receive(o) \/ LegacyReject(o)
  <2>1. \/ \E st \in {"IN_TRANSIT", "EXECUTED", "REJECTED"} :
               orders' = [orders EXCEPT ![o].status = st]
        \/ orders' = [orders EXCEPT ![o].arrived = TRUE]
    BY <1>2 DEF Dispatch, Arrive, Receive, LegacyReject
  <2>2. /\ DOMAIN orders' = Ids
        /\ \A k \in Ids : DOMAIN orders'[k] = DOMAIN Absent
        /\ \A k \in Ids \ {o} : orders'[k] = orders[k]
    BY <2>1 DEF PlanInv, Shaped
  <2>. QED
    BY <1>1, <2>2, OthersKeepInv, OthersAreKept
<1>3. CASE Edit(o)
  <2>1. \A k \in Ids : DOMAIN orders'[k] = DOMAIN Absent
    BY <1>3, EditChanges DEF PlanInv, Shaped
  <2>. QED
    BY <1>1, <1>3, <2>1, EditChanges, OthersKeepInv, OthersAreKept
<1>. QED
  BY <1>2, <1>3

\* A rejection with its cascade waits for the calls that delete one of its orders.
LEMMA RejectKeepsInv ==
    ASSUME PlanInv, NEW o \in Ids, Reject(o)
    PROVE  PlanInv'
<1>1. PICK closed : /\ \A p \in Planners : closed \cap plan[p].gone = {}
                    /\ orders' = [k \in Ids |-> IF k \in closed
                                                THEN [orders[k] EXCEPT !.status = "REJECTED"]
                                                ELSE orders[k]]
  BY DEF Reject
<1>2. plan' = plan /\ DOMAIN approvals' = Ids
  BY DEF Reject, PlanInv, Shaped
<1>3. /\ DOMAIN orders' = Ids
      /\ \A k \in Ids : DOMAIN orders'[k] = DOMAIN Absent
      /\ \A k \in Ids \ closed : orders'[k] = orders[k]
  BY <1>1 DEF PlanInv, Shaped
<1>4. ASSUME NEW p \in Planners, NEW k \in plan[p].gone
      PROVE  orders'[k].status = "PENDING"
  BY <1>1, <1>3, <1>4, OthersAreKept
<1>. QED
  BY <1>2, <1>3, <1>4, OthersKeepInv

\* A call that changes only itself and goes on deleting what it was, or nothing.
LEMMA OwnStepKeepsInv ==
    ASSUME PlanInv, NEW p \in Planners, NEW c, DOMAIN c = DOMAIN Idle,
           c.gone \in {{}, plan[p].gone},
           plan' = [plan EXCEPT ![p] = c], orders' = orders, approvals' = approvals
    PROVE  PlanInv'
<1>1. \A q \in Planners : /\ plan'[q].gone \subseteq plan[q].gone
                          /\ DOMAIN plan'[q] = DOMAIN Idle
  BY DEF PlanInv, Shaped
<1>2. Shaped'
  BY <1>1 DEF PlanInv, Shaped
<1>3. GoneArePending'
  BY <1>1 DEF PlanInv, GoneArePending
<1>. QED
  BY <1>2, <1>3 DEF PlanInv

\* A call that starts to delete takes proposals that nobody else is deleting.
LEMMA DeleteKeepsInv ==
    ASSUME PlanInv, NEW p \in Planners, DeleteOrders(p)
    PROVE  PlanInv'
<1> DEFINE rows == plan[p].found \cap Doomed
           c == [plan[p] EXCEPT !.step = "stock", !.gone = rows]
<1>1. orders' = orders /\ approvals' = approvals
  BY DEF DeleteOrders
<1>2. CASE plan' = [plan EXCEPT ![p] = Idle]
  BY <1>1, <1>2, IdleFields, OwnStepKeepsInv
<1>3. CASE plan' = [plan EXCEPT ![p] = c]
  <2>1. DOMAIN c = DOMAIN Idle /\ c.gone = rows
    BY IdleFields DEF PlanInv, Shaped
  <2>2. /\ plan'[p].gone = rows
        /\ \A q \in Planners \ {p} : plan'[q] = plan[q]
    BY <1>3, <2>1 DEF PlanInv, Shaped
  <2>3. /\ rows \subseteq Ids
        /\ \A o \in rows : orders[o].status = "PENDING"
        /\ \A q \in Planners \ {p} : rows \cap plan[q].gone = {}
    BY DEF DeleteOrders, Doomed, HeldBy
  <2> HIDE DEF rows
  <2>4. Shaped'
    BY <1>1, <1>3, <2>1 DEF PlanInv, Shaped
  <2>5. GoneArePending'
    BY <1>1, <2>2, <2>3 DEF PlanInv, GoneArePending
  <2>. QED
    BY <2>4, <2>5 DEF PlanInv
<1>. QED
  BY <1>2, <1>3 DEF DeleteOrders

\* What a commit makes of an order: a new row, nothing, or what it was.
Inserted(p, f, o) ==
    \/ \E r \in plan[p].rows : f[r] = o /\ orders'[o] = AsOrder(r, "PENDING", TRUE)
    \/ o \in plan[p].gone /\ orders'[o] = Absent
    \/ o \notin plan[p].gone /\ orders'[o] = orders[o]

\* The commit of a plan changes orders that are free or that it was deleting.
LEMMA InsertChangesItsOwn ==
    ASSUME PlanInv, NEW p \in Planners, InsertPlan(p)
    PROVE  /\ DOMAIN orders' = Ids
           /\ \E f : \A o \in Ids : Inserted(p, f, o)
           /\ \A o \in Ids :
                 \/ orders'[o] = orders[o]
                 \/ /\ o \in plan[p].gone \/ orders[o].status = "ABSENT"
                    /\ DOMAIN orders'[o] = DOMAIN Absent
<1> DEFINE c    == plan[p]
           free == {o \in Ids : orders[o].status = "ABSENT" \/ o \in c.gone}
           f    == Placed(c.rows, free)
           new  == [r \in c.rows |-> AsOrder(r, "PENDING", TRUE)]
<1>1. orders' = [o \in Ids |->
                   IF \E r \in c.rows : f[r] = o
                   THEN new[CHOOSE r \in c.rows : f[r] = o]
                   ELSE IF o \in c.gone THEN Absent ELSE orders[o]]
  BY DEF InsertPlan
<1>2. f \in [c.rows -> free]
  BY PlacedIsFree DEF InsertPlan
<1> HIDE DEF f
<1>3. ASSUME NEW o \in Ids, NEW r \in c.rows, f[r] = o
      PROVE  \E k \in c.rows : f[k] = o /\ orders'[o] = AsOrder(k, "PENDING", TRUE)
  BY <1>1, <1>3
<1>4. ASSUME NEW o \in Ids, ~\E r \in c.rows : f[r] = o
      PROVE  orders'[o] = IF o \in c.gone THEN Absent ELSE orders[o]
  BY <1>1, <1>4
<1>5. DOMAIN orders' = Ids
  BY <1>1
<1>6. ASSUME NEW o \in Ids
      PROVE  Inserted(p, f, o)
  BY <1>3, <1>4 DEF Inserted
<1>7. ASSUME NEW o \in Ids, orders'[o] # orders[o]
      PROVE  /\ o \in c.gone \/ orders[o].status = "ABSENT"
             /\ DOMAIN orders'[o] = DOMAIN Absent
  <2>1. CASE \E r \in c.rows : f[r] = o
    <3>1. PICK k \in c.rows : f[k] = o /\ orders'[o] = AsOrder(k, "PENDING", TRUE)
      BY <1>3, <2>1
    <3>2. o \in free
      BY <1>2, <3>1
    <3>. QED
      BY <3>1, <3>2, OrderFields
  <2>2. CASE ~\E r \in c.rows : f[r] = o
    BY <1>4, <1>7, <2>2
  <2>. QED
    BY <2>1, <2>2
<1>. QED
  BY <1>5, <1>6, <1>7

\* After the commit of a call it is idle; the others only find less.
LEMMA InsertEndsOne ==
    ASSUME PlanInv, NEW p \in Planners, InsertPlan(p)
    PROVE  /\ DOMAIN plan' = Planners
           /\ plan'[p] = Idle
           /\ \A q \in Planners \ {p} :
                 /\ DOMAIN plan'[q] = DOMAIN Idle
                 /\ \A x \in DOMAIN Idle \ {"found"} : plan'[q][x] = plan[q][x]
<1>1. plan' = [q \in Planners |->
                 IF q = p THEN Idle ELSE [plan[q] EXCEPT !.found = @ \ plan[p].gone]]
  BY DEF InsertPlan
<1>2. DOMAIN plan' = Planners /\ plan'[p] = Idle
  BY <1>1
<1>3. ASSUME NEW q \in Planners \ {p}
      PROVE  /\ DOMAIN plan'[q] = DOMAIN Idle
             /\ \A x \in DOMAIN Idle \ {"found"} : plan'[q][x] = plan[q][x]
  <2>1. plan'[q] = [plan[q] EXCEPT !.found = @ \ plan[p].gone]
    BY <1>1
  <2>2. DOMAIN plan[q] = DOMAIN Idle
    BY DEF PlanInv, Shaped
  <2>. QED
    BY <2>1, <2>2
<1>. QED
  BY <1>2, <1>3

\* So the other calls still delete proposals.
LEMMA InsertKeepsInv ==
    ASSUME PlanInv, NEW p \in Planners, InsertPlan(p)
    PROVE  PlanInv'
<1>2. /\ plan'[p].gone = {}
      /\ \A q \in Planners \ {p} : plan'[q].gone = plan[q].gone
      /\ DOMAIN plan' = Planners
      /\ \A q \in Planners : DOMAIN plan'[q] = DOMAIN Idle
  BY IdleFields, InsertEndsOne
<1>3. Shaped'
  <2>1. \A o \in Ids : DOMAIN orders'[o] = DOMAIN Absent
    BY InsertChangesItsOwn, OrderFields DEF PlanInv, Shaped
  <2>2. DOMAIN approvals' = Ids
    BY DEF InsertPlan
  <2>. QED
    BY <1>2, <2>1, <2>2, InsertChangesItsOwn DEF Shaped
<1>4. ASSUME NEW q \in Planners \ {p}, NEW o \in plan[q].gone
      PROVE  orders'[o] = orders[o]
  <2>1. o \in Ids /\ orders[o].status = "PENDING" /\ o \notin plan[p].gone
    BY <1>4 DEF PlanInv, GoneArePending
  <2>. QED
    BY <2>1, InsertChangesItsOwn
<1>5. GoneArePending'
  BY <1>2, <1>4 DEF PlanInv, GoneArePending
<1>. QED
  BY <1>3, <1>5 DEF PlanInv

\* The invariant holds in every state.
LEMMA PlanInvHolds == Spec => []PlanInv
<1>1. Init => PlanInv
  BY IdleFields, OrderFields DEF Init, PlanInv, Shaped, GoneArePending
<1>2. ASSUME PlanInv, [Next]_vars
      PROVE  PlanInv'
  <2>1. ASSUME NEW p \in Planners, DeleteApprovals(p)
        PROVE  PlanInv'
    <3> DEFINE c == [Idle EXCEPT !.step = "orders",
                       !.unapproved = {k \in Doomed \X Sides : k[2] \in approvals[k[1]]}]
    <3>1. plan' = [plan EXCEPT ![p] = c] /\ UNCHANGED <<orders, approvals>>
      BY <2>1 DEF DeleteApprovals
    <3>2. DOMAIN c = DOMAIN Idle /\ c.gone = {}
      BY IdleFields
    <3> HIDE DEF c
    <3>. QED
      BY <1>2, <3>1, <3>2, OwnStepKeepsInv
  <2>2. ASSUME NEW p \in Planners, ReadStock(p)
        PROVE  PlanInv'
    <3> DEFINE c == [plan[p] EXCEPT !.step = "incoming", !.seen = stock, !.book = mode]
    <3>1. plan' = [plan EXCEPT ![p] = c] /\ UNCHANGED <<orders, approvals>>
      BY <2>2 DEF ReadStock
    <3>2. DOMAIN c = DOMAIN Idle /\ c.gone = plan[p].gone
      BY <1>2, IdleFields DEF PlanInv, Shaped
    <3> HIDE DEF c
    <3>. QED
      BY <1>2, <3>1, <3>2, OwnStepKeepsInv
  <2>3. ASSUME NEW p \in Planners, ReadIncoming(p)
        PROVE  PlanInv'
    <3> DEFINE g == Gap(plan[p].seen)
               rows == IF plan[p].book # "INACTIVE" THEN DailyPlan(g) ELSE {}
               c == [plan[p] EXCEPT !.step = "insert", !.gap = g, !.rows = rows]
    <3>1. plan' = [plan EXCEPT ![p] = c] /\ UNCHANGED <<orders, approvals>>
      BY <2>3 DEF ReadIncoming
    <3> HIDE DEF g, rows
    <3>2. DOMAIN c = DOMAIN Idle /\ c.gone = plan[p].gone
      BY <1>2, IdleFields DEF PlanInv, Shaped
    <3> HIDE DEF c
    <3>. QED
      BY <1>2, <3>1, <3>2, OwnStepKeepsInv
  <2>4. ASSUME NEW p \in Planners, PlanFails(p)
        PROVE  PlanInv'
    BY <1>2, <2>4, IdleFields, OwnStepKeepsInv DEF PlanFails
  <2>5. ASSUME ChangeBookStatus \/ UNCHANGED vars
        PROVE  PlanInv'
    BY <1>2, <2>5 DEF ChangeBookStatus, vars, PlanInv, Shaped, GoneArePending
  <2>6. ASSUME NEW p \in Planners, FindOrders(p)
        PROVE  PlanInv'
    <3> DEFINE c == [plan[p] EXCEPT !.step = "delete", !.found = Doomed]
    <3>1. plan' = [plan EXCEPT ![p] = c] /\ UNCHANGED <<orders, approvals>>
      BY <2>6 DEF FindOrders
    <3>2. DOMAIN c = DOMAIN Idle /\ c.gone = plan[p].gone
      BY <1>2, IdleFields DEF PlanInv, Shaped
    <3> HIDE DEF c
    <3>. QED
      BY <1>2, <3>1, <3>2, OwnStepKeepsInv
  <2>. QED
    BY <1>2, <2>1, <2>2, <2>3, <2>4, <2>5, <2>6, DeleteKeepsInv, InsertKeepsInv,
       DecideKeepsInv, ApproveKeepsInv, MovesKeepInv, RejectKeepsInv DEF Next
<1>. QED
  BY <1>1, <1>2, PTL DEF Spec

-----------------------------------------------------------------------------
(* Whose rows a call deletes *)

\* What an open call deletes are orders of a plan and their approvals: all approvals
\* of the orders, and no approval that another call is deleting.
DeletedArePlanned ==
    \A p \in Planners :
        /\ plan[p].unapproved \subseteq Ids \X Sides
        /\ \A o \in plan[p].gone :
              /\ orders[o].planned
              /\ \A s \in approvals[o] : <<o, s>> \in plan[p].unapproved
        /\ \A o \in Ids, s \in Sides :
              <<o, s>> \in plan[p].unapproved =>
                  /\ s \in approvals[o]
                  /\ orders[o].planned
                  /\ orders[o].status # "ABSENT"
        /\ \A q \in Planners \ {p} : plan[p].unapproved \cap plan[q].unapproved = {}

\* No order goes, and none leaves its plan.
Lasting ==
    \A o \in Ids : orders[o].status # "ABSENT" =>
        /\ orders'[o].status # "ABSENT"
        /\ orders[o].planned => orders'[o].planned

\* Steps of others: plan stays, an order that is being deleted gets no approval, and an
\* approval that is being deleted stays till then.
LEMMA OthersKeepDeleted ==
    ASSUME PlanInv, DeletedArePlanned, plan' = plan, Lasting,
           \A p \in Planners : \A o \in plan[p].gone : approvals'[o] \subseteq approvals[o],
           \A p \in Planners : \A o \in Ids, s \in Sides :
               <<o, s>> \in plan[p].unapproved /\ s \in approvals[o] => s \in approvals'[o]
    PROVE  DeletedArePlanned'
<1>1. ASSUME NEW p \in Planners, NEW o \in plan[p].gone
      PROVE  /\ orders'[o].planned
             /\ \A s \in approvals'[o] : <<o, s>> \in plan[p].unapproved
  <2>1. o \in Ids /\ orders[o].status # "ABSENT" /\ orders[o].planned
    BY <1>1, OthersAreKept DEF DeletedArePlanned
  <2>. QED
    BY <1>1, <2>1 DEF Lasting, DeletedArePlanned
<1>2. ASSUME NEW p \in Planners, NEW o \in Ids, NEW s \in Sides,
             <<o, s>> \in plan[p].unapproved
      PROVE  s \in approvals'[o] /\ orders'[o].planned /\ orders'[o].status # "ABSENT"
  BY <1>2 DEF Lasting, DeletedArePlanned
<1>. QED
  BY <1>1, <1>2 DEF DeletedArePlanned

\* A call that changes only itself and goes on deleting what it was, or nothing.
LEMMA OwnStepKeepsDeleted ==
    ASSUME PlanInv, DeletedArePlanned, NEW p \in Planners, NEW c,
           \/ c.gone = plan[p].gone /\ c.unapproved = plan[p].unapproved
           \/ c.gone = {} /\ c.unapproved = {},
           plan' = [plan EXCEPT ![p] = c], orders' = orders, approvals' = approvals
    PROVE  DeletedArePlanned'
<1>1. \A q \in Planners : /\ plan'[q].gone \in {{}, plan[q].gone}
                          /\ plan'[q].unapproved \in {{}, plan[q].unapproved}
                          /\ plan'[q].unapproved = {} => plan'[q].gone = {} \/ plan[q].unapproved = {}
  BY DEF PlanInv, Shaped
<1>. QED
  BY <1>1 DEF DeletedArePlanned

\* Orders that are changed one by one
LEMMA OthersLast ==
    ASSUME PlanInv,
           \/ Decide
           \/ \E o \in Ids : \/ \E s \in Sides : Approve(o, s)
                            \/ Dispatch(o) \/ Arrive(o) \/ Receive(o)
                            \/ Edit(o) \/ Reject(o) \/ LegacyReject(o)
    PROVE  Lasting
<1>1. CASE Decide
  <2>1. PICK r, free :
           /\ free = {o \in Ids : orders[o].status = "ABSENT"}
           /\ free # {}
           /\ orders' = [orders EXCEPT ![Placed({r}, free)[r]] =
                           AsOrder(r, "PENDING", FALSE)]
    BY <1>1 DEF Decide
  <2>2. PICK k \in Ids : /\ orders[k].status = "ABSENT"
                         /\ orders' = [orders EXCEPT ![k] = AsOrder(r, "PENDING", FALSE)]
    BY <2>1, OneIsPlaced
  <2>3. \A o \in Ids \ {k} : orders'[o] = orders[o]
    <3> DEFINE new == AsOrder(r, "PENDING", FALSE)
    <3>1. orders' = [orders EXCEPT ![k] = new]
      BY <2>2
    <3> HIDE DEF new
    <3>. QED
      BY <3>1 DEF PlanInv, Shaped
  <2>. QED
    BY <2>2, <2>3 DEF Lasting
<1>2. ASSUME NEW o \in Ids, NEW s \in Sides, Approve(o, s)
      PROVE  Lasting
  <2> DEFINE st == IF orders[o].src = None THEN "IN_TRANSIT" ELSE "APPROVED"
             done == [orders EXCEPT ![o].status = st]
             free == {k \in Ids : orders[k].status = "ABSENT"}
  <2>1. /\ DOMAIN done = Ids
        /\ \A k \in Ids \ {o} : done[k] = orders[k]
        /\ done[o].status # "ABSENT" /\ done[o].planned = orders[o].planned
    BY OrderFields DEF PlanInv, Shaped
  <2>2. \/ orders' \in {done, orders}
        \/ \E t : free # {} /\ orders' = [done EXCEPT ![Placed({t}, free)[t]] = ChainedTo(o, t)]
    BY <1>2 DEF Approve
  <2> HIDE DEF done
  <2>3. CASE orders' \in {done, orders}
    BY <2>1, <2>3 DEF Lasting
  <2>4. ASSUME NEW t, free # {},
               orders' = [done EXCEPT ![Placed({t}, free)[t]] = ChainedTo(o, t)]
        PROVE  Lasting
    <3>1. PICK k \in free : orders' = [done EXCEPT ![k] = ChainedTo(o, t)]
      BY <2>4, OneIsPlaced
    <3>2. \A x \in Ids \ {k} : orders'[x] = done[x]
      BY <2>1, <3>1
    <3>. QED
      BY <2>1, <3>1, <3>2 DEF Lasting
  <2>. QED
    BY <2>2, <2>3, <2>4
<1>3. ASSUME NEW o \in Ids, Dispatch(o) \/ Arrive(o) \/ Receive(o) \/ LegacyReject(o)
      PROVE  Lasting
  <2>1. \/ \E st \in {"IN_TRANSIT", "EXECUTED", "REJECTED"} :
               orders' = [orders EXCEPT ![o].status = st]
        \/ orders' = [orders EXCEPT ![o].arrived = TRUE]
    BY <1>3 DEF Dispatch, Arrive, Receive, LegacyReject
  <2>. QED
    BY <2>1, OrderFields DEF PlanInv, Shaped, Lasting
<1>4. ASSUME NEW o \in Ids, Edit(o)
      PROVE  Lasting
  BY <1>4, EditChanges DEF Lasting
<1>5. ASSUME NEW o \in Ids, Reject(o)
      PROVE  Lasting
  <2>1. \A k \in Ids : orders'[k] \in {orders[k], [orders[k] EXCEPT !.status = "REJECTED"]}
    BY <1>5 DEF Reject
  <2>. QED
    BY <2>1, OrderFields DEF PlanInv, Shaped, Lasting
<1>. QED
  BY <1>1, <1>2, <1>3, <1>4, <1>5

\* A commit leaves the rows the other calls delete.
LEMMA InsertKeepsDeleted ==
    ASSUME PlanInv, DeletedArePlanned, NEW p \in Planners, InsertPlan(p)
    PROVE  DeletedArePlanned'
<1>1. /\ plan'[p].gone = {} /\ plan'[p].unapproved = {}
      /\ \A q \in Planners \ {p} : /\ plan'[q].gone = plan[q].gone
                                  /\ plan'[q].unapproved = plan[q].unapproved
  BY IdleFields, InsertEndsOne
<1>2. approvals' = [o \in Ids |->
                      IF o \in plan[p].gone THEN {}
                      ELSE {s \in approvals[o] : <<o, s>> \notin plan[p].unapproved}]
  BY DEF InsertPlan
<1>3. ASSUME NEW q \in Planners \ {p}, NEW o \in plan[q].gone
      PROVE  /\ orders'[o].planned
             /\ \A s \in approvals'[o] : <<o, s>> \in plan[q].unapproved
  <2>1. o \in Ids /\ orders[o].status = "PENDING" /\ o \notin plan[p].gone
    BY <1>3 DEF PlanInv, GoneArePending
  <2>2. orders'[o] = orders[o] /\ approvals'[o] \subseteq approvals[o]
    BY <1>2, <2>1, InsertChangesItsOwn
  <2>. QED
    BY <2>2 DEF DeletedArePlanned
<1>4. ASSUME NEW q \in Planners \ {p}, NEW o \in Ids, NEW s \in Sides,
             <<o, s>> \in plan[q].unapproved
      PROVE  s \in approvals'[o] /\ orders'[o].planned /\ orders'[o].status # "ABSENT"
  <2>1. /\ s \in approvals[o] /\ orders[o].planned /\ orders[o].status # "ABSENT"
        /\ <<o, s>> \notin plan[p].unapproved
    BY <1>4 DEF DeletedArePlanned
  <2>2. o \notin plan[p].gone
    BY <2>1 DEF DeletedArePlanned
  <2>. QED
    BY <1>2, <2>1, <2>2, InsertChangesItsOwn
<1>5. \A q \in Planners : plan'[q].unapproved \subseteq plan[q].unapproved
  BY <1>1
<1>. QED
  BY <1>1, <1>3, <1>4, <1>5 DEF DeletedArePlanned

\* The invariant holds in every state.
LEMMA DeletedHolds == Spec => [](PlanInv /\ DeletedArePlanned)
<1>1. Init => DeletedArePlanned
  BY IdleFields DEF Init, DeletedArePlanned
<1>2. ASSUME PlanInv, DeletedArePlanned, [Next]_vars
      PROVE  DeletedArePlanned'
  <2>1. ASSUME NEW p \in Planners, DeleteApprovals(p)
        PROVE  DeletedArePlanned'
    <3> DEFINE rows == {k \in Doomed \X Sides : k[2] \in approvals[k[1]]}
               c == [Idle EXCEPT !.step = "orders", !.unapproved = rows]
    <3>1. /\ plan' = [plan EXCEPT ![p] = c] /\ UNCHANGED <<orders, approvals>>
          /\ \A q \in Planners : plan[q].unapproved \cap rows = {}
      BY <2>1 DEF DeleteApprovals
    <3>2. c.gone = {} /\ c.unapproved = rows
      BY IdleFields
    <3> HIDE DEF c
    <3>3. \A q \in Planners : plan'[q] = IF q = p THEN c ELSE plan[q]
      BY <1>2, <3>1 DEF PlanInv, Shaped
    <3>4. /\ rows \subseteq Ids \X Sides
          /\ \A o \in Ids, s \in Sides :
                <<o, s>> \in rows => /\ s \in approvals[o]
                                    /\ orders[o].planned
                                    /\ orders[o].status # "ABSENT"
      BY DEF Doomed
    <3> HIDE DEF rows
    <3>. QED
      BY <1>2, <3>1, <3>2, <3>3, <3>4 DEF DeletedArePlanned
  <2>2. ASSUME NEW p \in Planners, DeleteOrders(p)
        PROVE  DeletedArePlanned'
    <3> DEFINE rows == plan[p].found \cap Doomed
               kept == {o \in rows : \E s \in approvals[o] :
                                         <<o, s>> \notin plan[p].unapproved}
               c == [plan[p] EXCEPT !.step = "stock", !.gone = rows]
    <3>1. UNCHANGED <<orders, approvals>>
      BY <2>2 DEF DeleteOrders
    <3>2. CASE plan' = [plan EXCEPT ![p] = Idle]
      BY <1>2, <3>1, <3>2, IdleFields, OwnStepKeepsDeleted
    <3>3. CASE plan' = [plan EXCEPT ![p] = c] /\ kept = {}
      <4>1. c.gone = rows /\ c.unapproved = plan[p].unapproved
        BY <1>2, IdleFields DEF PlanInv, Shaped
      <4>2. \A o \in rows : /\ orders[o].planned
                            /\ \A s \in approvals[o] : <<o, s>> \in plan[p].unapproved
        BY <3>3 DEF Doomed
      <4> HIDE DEF c, rows
      <4>3. \A q \in Planners : plan'[q] = IF q = p THEN c ELSE plan[q]
        BY <1>2, <3>3 DEF PlanInv, Shaped
      <4>. QED
        BY <1>2, <3>1, <4>1, <4>2, <4>3 DEF DeletedArePlanned
    <3>. QED
      BY <2>2, <3>2, <3>3 DEF DeleteOrders
  <2>3. ASSUME NEW p \in Planners, FindOrders(p) \/ ReadStock(p) \/ ReadIncoming(p)
        PROVE  DeletedArePlanned'
    <3>1. PICK c : /\ plan' = [plan EXCEPT ![p] = c]
                   /\ c.gone = plan[p].gone /\ c.unapproved = plan[p].unapproved
      <4>1. ASSUME FindOrders(p)
            PROVE  \E c : /\ plan' = [plan EXCEPT ![p] = c]
                          /\ c.gone = plan[p].gone /\ c.unapproved = plan[p].unapproved
        <5> DEFINE c == [plan[p] EXCEPT !.step = "delete", !.found = Doomed]
        <5>1. plan' = [plan EXCEPT ![p] = c]
          BY <4>1 DEF FindOrders
        <5>2. c.gone = plan[p].gone /\ c.unapproved = plan[p].unapproved
          BY <1>2, IdleFields DEF PlanInv, Shaped
        <5> HIDE DEF c
        <5>. QED
          BY <5>1, <5>2
      <4>2. ASSUME ReadStock(p)
            PROVE  \E c : /\ plan' = [plan EXCEPT ![p] = c]
                          /\ c.gone = plan[p].gone /\ c.unapproved = plan[p].unapproved
        <5> DEFINE c == [plan[p] EXCEPT !.step = "incoming", !.seen = stock, !.book = mode]
        <5>1. plan' = [plan EXCEPT ![p] = c]
          BY <4>2 DEF ReadStock
        <5>2. c.gone = plan[p].gone /\ c.unapproved = plan[p].unapproved
          BY <1>2, IdleFields DEF PlanInv, Shaped
        <5> HIDE DEF c
        <5>. QED
          BY <5>1, <5>2
      <4>3. ASSUME ReadIncoming(p)
            PROVE  \E c : /\ plan' = [plan EXCEPT ![p] = c]
                          /\ c.gone = plan[p].gone /\ c.unapproved = plan[p].unapproved
        <5> DEFINE g == Gap(plan[p].seen)
                   rows == IF plan[p].book # "INACTIVE" THEN DailyPlan(g) ELSE {}
                   c == [plan[p] EXCEPT !.step = "insert", !.gap = g, !.rows = rows]
        <5>1. plan' = [plan EXCEPT ![p] = c]
          BY <4>3 DEF ReadIncoming
        <5> HIDE DEF g, rows
        <5>2. c.gone = plan[p].gone /\ c.unapproved = plan[p].unapproved
          BY <1>2, IdleFields DEF PlanInv, Shaped
        <5> HIDE DEF c
        <5>. QED
          BY <5>1, <5>2
      <4>. QED
        BY <2>3, <4>1, <4>2, <4>3
    <3>2. UNCHANGED <<orders, approvals>>
      BY <2>3 DEF FindOrders, ReadStock, ReadIncoming
    <3>. QED
      BY <1>2, <3>1, <3>2, OwnStepKeepsDeleted
  <2>4. ASSUME NEW p \in Planners, PlanFails(p)
        PROVE  DeletedArePlanned'
    BY <1>2, <2>4, IdleFields, OwnStepKeepsDeleted DEF PlanFails
  <2>5. ASSUME Decide \/ \E o \in Ids : \/ Dispatch(o) \/ Arrive(o) \/ Receive(o)
                                       \/ Edit(o) \/ Reject(o)
        PROVE  DeletedArePlanned'
    <3>1. UNCHANGED <<approvals, plan>>
      BY <2>5, Zenon DEF Decide, Dispatch, Arrive, Receive, Edit, Reject
    <3>2. Lasting
      BY <1>2, <2>5, OthersLast
    <3>. QED
      BY <1>2, <3>1, <3>2, OthersKeepDeleted
  <2>6. ASSUME NEW o \in Ids, NEW s \in Sides, Approve(o, s)
        PROVE  DeletedArePlanned'
    <3>1. /\ plan' = plan
          /\ approvals' = [approvals EXCEPT ![o] = @ \cup {s}]
          /\ \A p \in Planners : o \notin plan[p].gone
      BY <2>6 DEF Approve, HeldBy
    <3>2. Lasting
      BY <1>2, <2>6, OthersLast
    <3>3. \A k \in Ids : /\ approvals[k] \subseteq approvals'[k]
                         /\ k # o => approvals'[k] = approvals[k]
      BY <1>2, <3>1 DEF PlanInv, Shaped
    <3>. QED
      BY <1>2, <3>1, <3>2, <3>3, OthersAreKept, OthersKeepDeleted
  <2>7. ASSUME NEW o \in Ids, LegacyReject(o)
        PROVE  DeletedArePlanned'
    <3>1. plan' = plan
      BY <2>7 DEF LegacyReject
    <3>2. PICK s \in Needs(o) :
             /\ \A p \in Planners : ~HeldBy(p, o) /\ <<o, s>> \notin plan[p].unapproved
             /\ approvals' = [approvals EXCEPT ![o] = @ \ {s}]
      BY <2>7, Zenon DEF LegacyReject
    <3>3. Lasting
      BY <1>2, <2>7, OthersLast
    <3>4. \A k \in Ids : approvals'[k] = IF k = o THEN approvals[o] \ {s} ELSE approvals[k]
      BY <1>2, <3>2 DEF PlanInv, Shaped
    <3>. QED
      BY <1>2, <3>1, <3>2, <3>3, <3>4, OthersAreKept, OthersKeepDeleted
  <2>8. ASSUME ChangeBookStatus \/ UNCHANGED vars
        PROVE  DeletedArePlanned'
    BY <1>2, <2>8 DEF ChangeBookStatus, vars, DeletedArePlanned
  <2>. QED
    BY <1>2, <2>1, <2>2, <2>3, <2>4, <2>5, <2>6, <2>7, <2>8, InsertKeepsDeleted DEF Next
<1>. QED
  BY <1>1, <1>2, PlanInvHolds, PTL DEF Spec

\* OnlyProposalsReplaced: whatever else goes on, a plan that is committed takes the
\* place of proposals of the day's plan at that moment, and of no other orders; and it
\* takes the approvals of no order of /decide.
THEOREM OnlyProposalsAreReplaced == Spec => OnlyProposalsReplaced
<1> DEFINE Kept(o) == orders[o].status # "ABSENT" =>
                          /\ orders'[o] = orders[o]
                          /\ orders[o].planned \/ approvals'[o] = approvals[o]
           Replaces ==
      \A p \in Planners :
          plan[p].step = "insert" /\ plan'[p].step = "idle" => \A o \in Ids \ Doomed : Kept(o)
<1>1. ASSUME PlanInv, DeletedArePlanned, [Next]_vars
      PROVE  [Replaces]_vars
  <2>1. SUFFICES ASSUME NEW p \in Planners, NEW o \in Ids \ Doomed,
                        plan[p].step = "insert", plan'[p].step = "idle",
                        orders[o].status # "ABSENT"
                 PROVE  /\ orders'[o] = orders[o]
                        /\ orders[o].planned \/ approvals'[o] = approvals[o]
    OBVIOUS
  <2>2. ASSUME NEW q \in Planners, InsertPlan(q)
        PROVE  /\ orders'[o] = orders[o]
               /\ orders[o].planned \/ approvals'[o] = approvals[o]
    <3>1. o \notin plan[q].gone
      BY <1>1, OthersAreKept DEF DeletedArePlanned, Doomed
    <3>2. orders'[o] = orders[o]
      BY <1>1, <2>1, <2>2, <3>1, InsertChangesItsOwn
    <3>3. approvals'[o] = {s \in approvals[o] : <<o, s>> \notin plan[q].unapproved}
      BY <2>2, <3>1 DEF InsertPlan
    <3>4. ASSUME ~orders[o].planned
          PROVE  \A s \in approvals[o] : <<o, s>> \notin plan[q].unapproved
      BY <1>1, <3>4 DEF DeletedArePlanned
    <3>. QED
      BY <3>2, <3>3, <3>4
  <2>3. CASE UNCHANGED <<orders, approvals>>
    BY <2>3
  <2>4. CASE plan' = plan
    BY <2>1, <2>4
  <2>5. ASSUME NEW q \in Planners,
               \/ DeleteApprovals(q) \/ FindOrders(q) \/ DeleteOrders(q)
               \/ ReadStock(q) \/ ReadIncoming(q) \/ PlanFails(q)
        PROVE  UNCHANGED <<orders, approvals>>
    BY <2>5, Zenon DEF DeleteApprovals, FindOrders, DeleteOrders, ReadStock, ReadIncoming,
                       PlanFails
  <2>6. ASSUME \/ Decide \/ ChangeBookStatus \/ UNCHANGED vars
               \/ \E k \in Ids : \/ \E s \in Sides : Approve(k, s)
                                \/ Dispatch(k) \/ Arrive(k) \/ Receive(k)
                                \/ Edit(k) \/ Reject(k) \/ LegacyReject(k)
        PROVE  plan' = plan
    BY <2>6, Zenon DEF Decide, Approve, Dispatch, Arrive, Receive, Edit, Reject,
                       LegacyReject, ChangeBookStatus, vars
  <2>. QED
    BY <1>1, <2>2, <2>3, <2>4, <2>5, <2>6 DEF Next
<1>. QED
  BY <1>1, DeletedHolds, PTL DEF Spec, OnlyProposalsReplaced

-----------------------------------------------------------------------------
(* What a call has read and what it is about to insert *)

\* What the database holds
StockTypes ==
    /\ stock \in [Locations -> Nat]
    /\ \A o \in Ids : orders[o].qty \in Nat

\* A call that has read the stock has read quantities.
SeenTypes ==
    \A p \in Planners : plan[p].step = "incoming" => plan[p].seen \in [Locations -> Nat]

\* A call that is about to insert has the plan of its gaps.
PlansAreMade ==
    \A p \in Planners : plan[p].step = "insert" =>
        /\ plan[p].gap \in Gaps
        /\ plan[p].rows = IF plan[p].book # "INACTIVE" THEN DailyPlan(plan[p].gap) ELSE {}

PlanTypes == StockTypes /\ SeenTypes /\ PlansAreMade

\* Orders add up.
LEMMA OrdersSum ==
    ASSUME StockTypes, NEW T \in SUBSET Ids
    PROVE  SumOver(T, QtyOf) \in Nat
<1> DEFINE F == [o \in Ids |-> orders[o].qty]
<1>1. IsFiniteSet(T) /\ \A o \in T : F[o] \in Nat
  BY PlanningAssumption, FS_Subset DEF StockTypes
<1>2. [o \in T |-> F[o]] = [o \in T |-> orders[o].qty]
  OBVIOUS
<1>3. SumOver(T, QtyOf) = Total([o \in T |-> orders[o].qty])
  BY Zenon DEF SumOver, QtyOf, Total
<1>4. SumOver(T, QtyOf) = Sum(F, T)
  BY ONLY <1>2, <1>3 DEF Sum
<1>. QED
  BY ONLY <1>1, <1>4, SumNat

\* Gaps are numbers.
LEMMA GapIsInt ==
    ASSUME StockTypes, NEW seen \in [Locations -> Nat]
    PROVE  Gap(seen) \in Gaps
<1> DEFINE chained(l) == IF l \in Stores THEN ChainedIncoming(l) ELSE 0
<1>1. ASSUME NEW l \in Locations
      PROVE  Desired[l] - seen[l] - Incoming(l) - chained(l) \in Int
  <2>1. Incoming(l) \in Int
    <3>1. {o \in Ids : Live(o) /\ orders[o].tgt = l} \in SUBSET Ids
      OBVIOUS
    <3>. QED
      BY ONLY <3>1, OrdersSum, StockTypes DEF Incoming
  <2>2. ASSUME l \in Stores
        PROVE  ChainedIncoming(l) \in Int
    <3> DEFINE big == {o \in Ids : /\ Live(o)
                                   /\ orders[o].type \in {"WH_TRANSFER", "PUBLISHER_ORDER"}
                                   /\ orders[o].tgt = WhOf[l]}
               n == Cardinality(StoresOf(WhOf[l]))
               x == SumOver(big, QtyOf)
    <3>1. x \in Int
      <4>1. big \in SUBSET Ids
        OBVIOUS
      <4>. QED
        BY ONLY <4>1, OrdersSum, StockTypes
    <3>2. n \in Nat /\ n # 0
      <4>1. StoresOf(WhOf[l]) \in SUBSET Locations /\ l \in StoresOf(WhOf[l])
        BY <2>2 DEF StoresOf, Locations
      <4>2. IsFiniteSet(StoresOf(WhOf[l]))
        BY <4>1, PlanningAssumption, FS_Subset
      <4>. QED
        BY <4>1, <4>2, FS_CardinalityType, FS_EmptySet
    <3>3. ChainedIncoming(l) = x \div n
      BY Zenon DEF ChainedIncoming
    <3> HIDE DEF x, n
    <3>. QED
      BY <3>1, <3>2, <3>3
  <2>3. chained(l) \in Int
    BY <2>2
  <2>4. Desired[l] \in Int /\ seen[l] \in Int
    BY PlanningAssumption
  <2> HIDE DEF chained
  <2>. QED
    BY <2>1, <2>3, <2>4
<1>2. Gap(seen) = [l \in Locations |-> Desired[l] - seen[l] - Incoming(l) - chained(l)]
  BY DEF Gap
<1> HIDE DEF chained
<1>. QED
  BY <1>1, <1>2 DEF Gaps

\* A plan has quantities.
LEMMA RowsHaveQty ==
    ASSUME PlanTypes, NEW p \in Planners, plan[p].step = "insert", NEW r \in plan[p].rows
    PROVE  r.qty \in Nat
<1>1. plan[p].gap \in Gaps /\ r \in DailyPlan(plan[p].gap)
  BY DEF PlanTypes, PlansAreMade
<1>. QED
  BY <1>1, DailyPlanRows

\* An order that is made of a row has its quantity.
LEMMA OrderQty ==
    /\ Absent.qty = 0
    /\ \A r, st, x : AsOrder(r, st, x).qty = r.qty
  BY DEF Absent, AsOrder

\* /decide asks for quantities.
LEMMA DecideKeepsTypes ==
    ASSUME PlanInv, PlanTypes, Decide
    PROVE  StockTypes'
<1>1. PICK t \in Locations, qty \in DecideQtys :
         \E r \in Cascade(t, qty) :
            orders' = [orders EXCEPT
                         ![Placed({r}, {o \in Ids : orders[o].status = "ABSENT"})[r]] =
                            AsOrder(r, "PENDING", FALSE)]
  BY DEF Decide
<1>a. PICK r \in Cascade(t, qty) :
         orders' = [orders EXCEPT
                      ![Placed({r}, {o \in Ids : orders[o].status = "ABSENT"})[r]] =
                         AsOrder(r, "PENDING", FALSE)]
  BY <1>1
<1>2. r.qty \in Nat
  <2>1. qty \in Nat /\ Higher(Eoq, qty) \in Nat
    BY PlanningAssumption DEF Higher
  <2>2. r.qty \in {qty, Higher(Eoq, qty)}
    BY DEF Cascade
  <2>. QED
    BY <2>1, <2>2
<1> DEFINE k == Placed({r}, {o \in Ids : orders[o].status = "ABSENT"})[r]
<1>3. orders' = [orders EXCEPT ![k] = AsOrder(r, "PENDING", FALSE)]
  BY <1>a
<1>4. stock' = stock
  BY DEF Decide
<1> HIDE DEF k
<1> DEFINE new == AsOrder(r, "PENDING", FALSE)
<1>5. \A o \in Ids : orders'[o] = orders[o] \/ orders'[o] = new
  BY <1>3 DEF PlanInv, Shaped
<1>6. new.qty = r.qty
  BY OrderQty
<1> HIDE DEF new
<1>. QED
  BY <1>2, <1>4, <1>5, <1>6 DEF PlanTypes, StockTypes

\* A chained order has the quantity of its order.
LEMMA ApproveKeepsTypes ==
    ASSUME PlanInv, PlanTypes, NEW o \in Ids, NEW s \in Sides, Approve(o, s)
    PROVE  StockTypes'
<1> DEFINE st == IF orders[o].src = None THEN "IN_TRANSIT" ELSE "APPROVED"
           done == [orders EXCEPT ![o].status = st]
           free == {k \in Ids : orders[k].status = "ABSENT"}
<1>1. DOMAIN done = Ids /\ \A k \in Ids : done[k].qty = orders[k].qty
  BY DEF PlanInv, Shaped, Absent
<1>2. \/ orders' = done
      \/ \E t : orders' = [done EXCEPT ![Placed({t}, free)[t]] = ChainedTo(o, t)]
      \/ orders' = orders
  BY DEF Approve
<1>3. \A t : ChainedTo(o, t).qty = orders[o].qty
  BY DEF ChainedTo
<1> HIDE DEF done
<1>4. ASSUME NEW k \in Ids
      PROVE  orders'[k].qty \in {orders[k].qty, orders[o].qty}
  <2>1. CASE orders' = done \/ orders' = orders
    BY <1>1, <2>1
  <2>2. ASSUME NEW t, NEW i, orders' = [done EXCEPT ![i] = ChainedTo(o, t)]
        PROVE  orders'[k].qty \in {orders[k].qty, orders[o].qty}
    <3>1. orders'[k] = done[k] \/ orders'[k] = ChainedTo(o, t)
      BY <1>1, <2>2
    <3>. QED
      BY <1>1, <1>3, <3>1
  <2>. QED
    BY <1>2, <2>1, <2>2
<1>5. stock' = stock
  BY DEF Approve
<1>. QED
  BY <1>4, <1>5 DEF PlanTypes, StockTypes

\* Goods move in the quantities of orders, and no stock is taken that is not there.
LEMMA MovesKeepTypes ==
    ASSUME PlanInv, PlanTypes, NEW o \in Ids,
           Dispatch(o) \/ Arrive(o) \/ Receive(o) \/ LegacyReject(o)
    PROVE  StockTypes'
<1>1. \A k \in Ids : orders'[k].qty = orders[k].qty
  <2>1. \/ \E st \in {"IN_TRANSIT", "EXECUTED", "REJECTED"} :
               orders' = [orders EXCEPT ![o].status = st]
        \/ orders' = [orders EXCEPT ![o].arrived = TRUE]
    BY DEF Dispatch, Arrive, Receive, LegacyReject
  <2>. QED
    BY <2>1, OrderFields DEF PlanInv, Shaped
<1>2. stock' \in [Locations -> Nat]
  <2>1. orders[o].qty \in Nat /\ stock \in [Locations -> Nat]
    BY DEF PlanTypes, StockTypes
  <2>2. CASE Dispatch(o)
    <3> DEFINE s == orders[o].src
               q == orders[o].qty
    <3>1. stock' = [stock EXCEPT ![s] = @ - q] /\ stock[s] >= q
      BY <2>2 DEF Dispatch
    <3> HIDE DEF s, q
    <3>2. q \in Nat
      BY <2>1 DEF q
    <3>3. stock' = [l \in Locations |-> IF l = s THEN stock[l] - q ELSE stock[l]]
      BY <2>1, <3>1
    <3>4. \A l \in Locations : (IF l = s THEN stock[l] - q ELSE stock[l]) \in Nat
      BY <2>1, <3>1, <3>2
    <3>. QED
      BY <3>3, <3>4
  <2>3. CASE Arrive(o)
    <3> DEFINE t == orders[o].tgt
               q == orders[o].qty
    <3>1. stock' = [stock EXCEPT ![t] = @ + q]
      BY <2>3 DEF Arrive
    <3> HIDE DEF t, q
    <3>2. q \in Nat
      BY <2>1 DEF q
    <3>3. stock' = [l \in Locations |-> IF l = t THEN stock[l] + q ELSE stock[l]]
      BY <2>1, <3>1
    <3>4. \A l \in Locations : (IF l = t THEN stock[l] + q ELSE stock[l]) \in Nat
      BY <2>1, <3>1, <3>2
    <3>. QED
      BY <3>3, <3>4
  <2>4. CASE Receive(o) \/ LegacyReject(o)
    BY <2>1, <2>4 DEF Receive, LegacyReject
  <2>. QED
    BY <2>2, <2>3, <2>4
<1>. QED
  BY <1>1, <1>2 DEF PlanTypes, StockTypes

\* An order is given a quantity.
LEMMA EditKeepsTypes ==
    ASSUME PlanInv, PlanTypes, NEW o \in Ids, Edit(o)
    PROVE  StockTypes'
<1>1. stock' = stock
  BY Zenon DEF Edit
<1>2. orders'[o].qty \in Nat
  BY EditChanges, PlanningAssumption DEF PlanTypes, StockTypes
<1>. QED
  BY <1>1, <1>2, EditChanges DEF PlanTypes, StockTypes

\* What goes back are quantities of orders.
LEMMA RejectKeepsTypes ==
    ASSUME PlanInv, PlanTypes, NEW o \in Ids, Reject(o)
    PROVE  StockTypes'
<1>1. \A k \in Ids : orders'[k] \in {orders[k], [orders[k] EXCEPT !.status = "REJECTED"]}
  BY DEF Reject
<1>2. \A k \in Ids : orders'[k].qty = orders[k].qty
  BY <1>1, OrderFields DEF PlanInv, Shaped
<1>3. \E back \in [Locations -> SUBSET Ids] :
         stock' = [l \in Locations |-> stock[l] + SumOver(back[l], QtyOf)]
  <2> DEFINE closed == {k \in Ids : (k = o \/ orders[k].parent = o) /\ Open(k)}
             back == [l \in Locations |-> {k \in closed : /\ orders[k].status = "IN_TRANSIT"
                                                         /\ orders[k].src = l}]
  <2>1. back \in [Locations -> SUBSET Ids]
    OBVIOUS
  <2>2. stock' = [l \in Locations |-> stock[l] + SumOver(back[l], QtyOf)]
    BY DEF Reject
  <2> HIDE DEF back
  <2>. QED
    BY <2>1, <2>2
<1>4. PICK back \in [Locations -> SUBSET Ids] :
         stock' = [l \in Locations |-> stock[l] + SumOver(back[l], QtyOf)]
  BY <1>3
<1>5. ASSUME NEW l \in Locations
      PROVE  stock[l] + SumOver(back[l], QtyOf) \in Nat
  <2>1. SumOver(back[l], QtyOf) \in Nat
    <3>1. back[l] \in SUBSET Ids /\ StockTypes
      BY DEF PlanTypes
    <3>. QED
      BY ONLY <3>1, OrdersSum
  <2>2. stock[l] \in Nat
    BY DEF PlanTypes, StockTypes
  <2>. QED
    BY <2>1, <2>2
<1>6. stock' \in [Locations -> Nat]
  BY <1>4, <1>5
<1>. QED
  BY <1>2, <1>6 DEF PlanTypes, StockTypes

\* A plan is inserted with its quantities.
LEMMA InsertKeepsTypes ==
    ASSUME PlanInv, PlanTypes, NEW p \in Planners, InsertPlan(p)
    PROVE  StockTypes'
<1>1. PICK f : \A o \in Ids : Inserted(p, f, o)
  BY InsertChangesItsOwn
<1>2. plan[p].step = "insert" /\ stock' = stock
  BY DEF InsertPlan
<1>3. ASSUME NEW o \in Ids
      PROVE  orders'[o].qty \in Nat
  <2>1. ASSUME NEW r \in plan[p].rows, orders'[o] = AsOrder(r, "PENDING", TRUE)
        PROVE  orders'[o].qty \in Nat
    <3>1. r.qty \in Nat
      BY <1>2, RowsHaveQty
    <3>2. AsOrder(r, "PENDING", TRUE).qty = r.qty
      BY DEF AsOrder
    <3>. QED
      BY <2>1, <3>1, <3>2
  <2>2. CASE orders'[o] = Absent
    BY <2>2, OrderQty
  <2>3. CASE orders'[o] = orders[o]
    BY <2>3 DEF PlanTypes, StockTypes
  <2>. QED
    BY <1>1, <2>1, <2>2, <2>3 DEF Inserted
<1>. QED
  BY <1>2, <1>3 DEF PlanTypes, StockTypes

\* A call that does not change its reading and its plan, or begins anew.
LEMMA CallsKeepTypes ==
    ASSUME PlanInv, PlanTypes, NEW p \in Planners, NEW c,
           plan' = [plan EXCEPT ![p] = c],
           c.step \notin {"incoming", "insert"}
    PROVE  SeenTypes' /\ PlansAreMade'
<1>1. \A q \in Planners : plan'[q] = IF q = p THEN c ELSE plan[q]
  BY DEF PlanInv, Shaped
<1>. QED
  BY <1>1 DEF PlanTypes, SeenTypes, PlansAreMade

\* Types are kept by every step.
LEMMA PlanTypesHold == Spec => [](PlanInv /\ PlanTypes)
<1>1. Init => PlanTypes
  BY PlanningAssumption, IdleFields, OrderQty
     DEF Init, PlanTypes, StockTypes, SeenTypes, PlansAreMade
<1>2. ASSUME PlanInv, PlanTypes, [Next]_vars
      PROVE  PlanTypes'
  <2>1. ASSUME NEW p \in Planners, DeleteApprovals(p)
        PROVE  PlanTypes'
    <3> DEFINE c == [Idle EXCEPT !.step = "orders",
                       !.unapproved = {k \in Doomed \X Sides : k[2] \in approvals[k[1]]}]
    <3>1. plan' = [plan EXCEPT ![p] = c] /\ UNCHANGED <<stock, orders>>
      BY <2>1 DEF DeleteApprovals
    <3>2. c.step = "orders"
      BY DEF Idle
    <3> HIDE DEF c
    <3>3. SeenTypes' /\ PlansAreMade'
      BY <1>2, <3>1, <3>2, CallsKeepTypes
    <3>. QED
      BY <1>2, <3>1, <3>3 DEF PlanTypes, StockTypes
  <2>2. ASSUME NEW p \in Planners, DeleteOrders(p)
        PROVE  PlanTypes'
    <3> DEFINE c == [plan[p] EXCEPT !.step = "stock", !.gone = plan[p].found \cap Doomed]
    <3>1. /\ plan' = [plan EXCEPT ![p] = Idle] \/ plan' = [plan EXCEPT ![p] = c]
          /\ UNCHANGED <<stock, orders>>
      BY <2>2 DEF DeleteOrders
    <3>2. Idle.step = "idle" /\ c.step = "stock"
      BY <1>2, IdleFields DEF PlanInv, Shaped
    <3> HIDE DEF c
    <3>3. SeenTypes' /\ PlansAreMade'
      BY <1>2, <3>1, <3>2, CallsKeepTypes
    <3>. QED
      BY <1>2, <3>1, <3>3 DEF PlanTypes, StockTypes
  <2>3. ASSUME NEW p \in Planners, ReadStock(p)
        PROVE  PlanTypes'
    <3> DEFINE c == [plan[p] EXCEPT !.step = "incoming", !.seen = stock, !.book = mode]
    <3>1. plan' = [plan EXCEPT ![p] = c] /\ UNCHANGED <<stock, orders>>
      BY <2>3 DEF ReadStock
    <3>2. c.step = "incoming" /\ c.seen = stock
      BY <1>2, IdleFields DEF PlanInv, Shaped
    <3> HIDE DEF c
    <3>3. \A q \in Planners : plan'[q] = IF q = p THEN c ELSE plan[q]
      BY <1>2, <3>1 DEF PlanInv, Shaped
    <3>. QED
      BY <1>2, <3>1, <3>2, <3>3 DEF PlanTypes, StockTypes, SeenTypes, PlansAreMade
  <2>4. ASSUME NEW p \in Planners, ReadIncoming(p)
        PROVE  PlanTypes'
    <3> DEFINE g == Gap(plan[p].seen)
               rows == IF plan[p].book # "INACTIVE" THEN DailyPlan(g) ELSE {}
               c == [plan[p] EXCEPT !.step = "insert", !.gap = g, !.rows = rows]
    <3>1. /\ plan' = [plan EXCEPT ![p] = c]
          /\ UNCHANGED <<stock, orders>>
          /\ plan[p].step = "incoming"
      BY <2>4 DEF ReadIncoming
    <3>2. g \in Gaps
      BY <1>2, <3>1, GapIsInt DEF PlanTypes, SeenTypes
    <3> HIDE DEF g
    <3>3. /\ c.step = "insert" /\ c.gap = g
          /\ c.rows = IF c.book # "INACTIVE" THEN DailyPlan(c.gap) ELSE {}
      BY <1>2, IdleFields DEF PlanInv, Shaped
    <3> HIDE DEF c
    <3>4. \A q \in Planners : plan'[q] = IF q = p THEN c ELSE plan[q]
      BY <1>2, <3>1 DEF PlanInv, Shaped
    <3>. QED
      BY <1>2, <3>1, <3>2, <3>3, <3>4 DEF PlanTypes, StockTypes, SeenTypes, PlansAreMade
  <2>5. ASSUME NEW p \in Planners, InsertPlan(p)
        PROVE  PlanTypes'
    <3>1. \A q \in Planners : \/ plan'[q].step = "idle"
                             \/ \A x \in {"step", "seen", "book", "gap", "rows"} :
                                    plan'[q][x] = plan[q][x]
      BY <1>2, <2>5, InsertEndsOne, IdleFields
    <3>2. SeenTypes' /\ PlansAreMade'
      BY <1>2, <3>1 DEF PlanTypes, SeenTypes, PlansAreMade
    <3>3. StockTypes'
      BY <1>2, <2>5, InsertKeepsTypes
    <3>. QED
      BY <3>2, <3>3 DEF PlanTypes
  <2>7. ASSUME NEW p \in Planners, PlanFails(p)
        PROVE  PlanTypes'
    <3>1. plan' = [plan EXCEPT ![p] = Idle]
      BY <2>7 DEF PlanFails
    <3>2. SeenTypes' /\ PlansAreMade'
      BY <1>2, <3>1, IdleFields, CallsKeepTypes
    <3>3. StockTypes'
      BY <1>2, <2>7 DEF PlanFails, PlanTypes, StockTypes
    <3>. QED
      BY <3>2, <3>3 DEF PlanTypes
  <2>8. ASSUME NEW p \in Planners, FindOrders(p)
        PROVE  PlanTypes'
    <3> DEFINE c == [plan[p] EXCEPT !.step = "delete", !.found = Doomed]
    <3>1. plan' = [plan EXCEPT ![p] = c] /\ UNCHANGED <<stock, orders>>
      BY <2>8 DEF FindOrders
    <3>2. c.step = "delete"
      BY <1>2, IdleFields DEF PlanInv, Shaped
    <3> HIDE DEF c
    <3>3. SeenTypes' /\ PlansAreMade'
      BY <1>2, <3>1, <3>2, CallsKeepTypes
    <3>. QED
      BY <1>2, <3>1, <3>3 DEF PlanTypes, StockTypes
  <2>6. CASE plan' = plan
    <3>1. SeenTypes' /\ PlansAreMade'
      BY <1>2, <2>6 DEF PlanTypes, SeenTypes, PlansAreMade
    <3>2. UNCHANGED <<stock, orders>> => StockTypes'
      BY <1>2 DEF PlanTypes, StockTypes
    <3>a. ASSUME Decide PROVE PlanTypes'
      BY <1>2, <3>1, <3>a, DecideKeepsTypes DEF PlanTypes
    <3>b. ASSUME NEW o \in Ids, NEW s \in Sides, Approve(o, s) PROVE PlanTypes'
      BY <1>2, <3>1, <3>b, ApproveKeepsTypes DEF PlanTypes
    <3>c. ASSUME NEW o \in Ids,
                 \/ Dispatch(o) \/ Arrive(o) \/ Receive(o)
                 \/ Edit(o) \/ Reject(o) \/ LegacyReject(o)
          PROVE  PlanTypes'
      BY <1>2, <3>1, <3>c, MovesKeepTypes, EditKeepsTypes, RejectKeepsTypes DEF PlanTypes
    <3>4. CASE \E p \in Planners : \/ DeleteApprovals(p) \/ FindOrders(p) \/ DeleteOrders(p)
                                   \/ ReadStock(p) \/ ReadIncoming(p)
                                   \/ InsertPlan(p) \/ PlanFails(p)
      BY <2>1, <2>2, <2>3, <2>4, <2>5, <2>7, <2>8, <3>4
    <3>5. CASE ChangeBookStatus \/ UNCHANGED vars
      BY <3>1, <3>2, <3>5 DEF ChangeBookStatus, vars, PlanTypes
    <3>. QED
      BY <1>2, <3>a, <3>b, <3>c, <3>4, <3>5 DEF Next
  <2>9. ASSUME \/ Decide \/ ChangeBookStatus \/ UNCHANGED vars
               \/ \E o \in Ids : \/ \E s \in Sides : Approve(o, s)
                                \/ Dispatch(o) \/ Arrive(o) \/ Receive(o)
                                \/ Edit(o) \/ Reject(o) \/ LegacyReject(o)
        PROVE  plan' = plan
    BY <2>9, Zenon DEF Decide, Approve, Dispatch, Arrive, Receive, Edit, Reject,
                       LegacyReject, ChangeBookStatus, vars
  <2>. QED
    BY <1>2, <2>1, <2>2, <2>3, <2>4, <2>5, <2>6, <2>7, <2>8, <2>9 DEF Next
<1>. QED
  BY <1>1, <1>2, PlanInvHolds, PTL DEF Spec

\* PlanWithinGaps: however many books, stores and calls, no plan takes more than a
\* surplus, brings more than a lack, or sends a location what it gives away.
THEOREM PlansStayWithinGaps == Spec => []PlanWithinGaps
<1>1. ASSUME PlanTypes
      PROVE  PlanWithinGaps
  <2>1. ASSUME NEW p \in Planners, plan[p].step = "insert", plan[p].book # "INACTIVE",
               NEW l \in Locations
        PROVE  LET moves == {r \in plan[p].rows : r.src # None}
               IN  /\ SumOver({r \in moves : r.src = l}, RowQty) <= Higher(0, -plan[p].gap[l])
                   /\ SumOver({r \in moves : r.tgt = l}, RowQty) <= Higher(0, plan[p].gap[l])
    <3> DEFINE g == plan[p].gap
    <3>1. g \in Gaps /\ plan[p].rows = DailyPlan(g)
      BY <1>1, <2>1 DEF PlanTypes, PlansAreMade
    <3> HIDE DEF g
    <3>2. LET moves == {r \in DailyPlan(g) : r.src # None}
          IN  /\ SumOver({r \in moves : r.src = l}, RowQty) <= Higher(0, -g[l])
              /\ SumOver({r \in moves : r.tgt = l}, RowQty) <= Higher(0, g[l])
      BY ONLY <3>1, DailyPlanWithin, l \in Locations
    <3>. QED
      BY <3>1, <3>2, Zenon DEF g
  <2>. QED
    BY <2>1, Zenon DEF PlanWithinGaps
<1>. QED
  BY <1>1, PlanTypesHold, PTL

-----------------------------------------------------------------------------
(* The only call *)

\* A call that deletes has found every proposal, and in the end deleted every one.
AllGone ==
    \A p \in Planners :
        /\ plan[p].step = "delete" => Doomed \subseteq plan[p].found
        /\ plan[p].step \in {"stock", "incoming", "insert"} => Doomed \subseteq plan[p].gone

CallInv == OneProposalPerPair /\ AllGone

\* No new proposals: there are fewer, between the same locations or retargeted.
Fewer == \A o \in Doomed' : /\ o \in Doomed
                            /\ \/ orders'[o].retargeted
                               \/ /\ ~orders[o].retargeted
                                  /\ orders'[o].src = orders[o].src
                                  /\ orders'[o].tgt = orders[o].tgt

\* Fewer proposals are as distinct.
LEMMA FewerAreDistinct ==
    ASSUME CallInv, Fewer
    PROVE  OneProposalPerPair'
<1> SUFFICES ASSUME NEW o \in Doomed', NEW k \in Doomed',
                    ~orders'[o].retargeted, ~orders'[k].retargeted,
                    orders'[o].src = orders'[k].src, orders'[o].tgt = orders'[k].tgt
             PROVE  o = k
  BY DEF OneProposalPerPair
<1>. QED
  BY DEF Fewer, CallInv, OneProposalPerPair

\* Steps of others keep it.
LEMMA OthersKeepCallInv ==
    ASSUME CallInv, Fewer, plan' = plan
    PROVE  CallInv'
<1>1. Doomed' \subseteq Doomed
  BY DEF Fewer
<1>2. AllGone'
  BY <1>1 DEF CallInv, AllGone
<1>. QED
  BY <1>2, FewerAreDistinct DEF CallInv

\* An order that is not changed, or is not a proposal, is no new proposal.
LEMMA FewerOrders ==
    ASSUME \A o \in Ids : \/ orders'[o] = orders[o]
                          \/ orders'[o].status # "PENDING" \/ ~orders'[o].planned
    PROVE  Fewer
  BY DEF Fewer, Doomed

\* /decide makes no proposal of the day's plan.
LEMMA DecideMakesNoProposal ==
    ASSUME PlanInv, Decide
    PROVE  Fewer
<1>1. PICK r, k : orders' = [orders EXCEPT ![k] = AsOrder(r, "PENDING", FALSE)]
  BY DEF Decide
<1> DEFINE new == AsOrder(r, "PENDING", FALSE)
<1>2. new.planned = FALSE
  BY DEF AsOrder
<1> HIDE DEF new
<1>3. \A o \in Ids : orders'[o] = orders[o] \/ orders'[o] = new
  BY <1>1 DEF new, PlanInv, Shaped
<1>. QED
  BY <1>2, <1>3, FewerOrders

\* An approval makes none.
LEMMA ApproveMakesNoProposal ==
    ASSUME PlanInv, NEW o \in Ids, NEW s \in Sides, Approve(o, s)
    PROVE  Fewer
<1> DEFINE st == IF orders[o].src = None THEN "IN_TRANSIT" ELSE "APPROVED"
           done == [orders EXCEPT ![o].status = st]
<1>1. \/ orders' = done
      \/ \E k, t : orders' = [done EXCEPT ![k] = ChainedTo(o, t)]
      \/ orders' = orders
  BY DEF Approve
<1>2. /\ DOMAIN done = Ids
      /\ done[o].status # "PENDING"
      /\ \A k \in Ids \ {o} : done[k] = orders[k]
  BY DEF PlanInv, Shaped, Absent
<1> HIDE DEF done
<1>3. ASSUME NEW k, NEW t, orders' = [done EXCEPT ![k] = ChainedTo(o, t)]
      PROVE  Fewer
  <2>1. ChainedTo(o, t).status # "PENDING"
    BY DEF ChainedTo
  <2>2. \A x \in Ids : orders'[x] = done[x] \/ orders'[x] = ChainedTo(o, t)
    BY <1>2, <1>3
  <2>. QED
    BY <1>2, <2>1, <2>2, FewerOrders
<1>4. CASE orders' = done \/ orders' = orders
  BY <1>2, <1>4, FewerOrders
<1>. QED
  BY <1>1, <1>3, <1>4

\* Other steps keep the status of an order that is PENDING, or take it away.
LEMMA MovesMakeNoProposal ==
    ASSUME PlanInv, NEW o \in Ids,
           \/ Dispatch(o) \/ Arrive(o) \/ Receive(o)
           \/ Edit(o) \/ Reject(o) \/ LegacyReject(o)
    PROVE  Fewer
<1>1. CASE Dispatch(o) \/ Arrive(o) \/ Receive(o) \/ LegacyReject(o)
  <2>1. \/ \E st \in {"IN_TRANSIT", "EXECUTED", "REJECTED"} :
               orders' = [orders EXCEPT ![o].status = st]
        \/ orders' = [orders EXCEPT ![o].arrived = TRUE] /\ orders[o].status = "IN_TRANSIT"
    BY <1>1 DEF Dispatch, Arrive, Receive, LegacyReject
  <2>2. \A k \in Ids : orders'[k] = orders[k] \/ orders'[k].status # "PENDING"
    BY <2>1 DEF PlanInv, Shaped, Absent
  <2>. QED
    BY <2>2, FewerOrders
<1>2. CASE Edit(o)
  BY <1>2, EditChanges DEF Fewer, Doomed
<1>3. CASE Reject(o)
  <2>1. \A k \in Ids : orders'[k] \in {orders[k], [orders[k] EXCEPT !.status = "REJECTED"]}
    BY <1>3 DEF Reject
  <2>2. \A k \in Ids : orders'[k] = orders[k] \/ orders'[k].status # "PENDING"
    BY <2>1, OrderFields DEF PlanInv, Shaped
  <2>. QED
    BY <2>2, FewerOrders
<1>. QED
  BY <1>1, <1>2, <1>3

\* The only call has deleted all proposals: those after its commit are rows of its plan.
LEMMA InsertKeepsCallInv ==
    ASSUME PlanInv, PlanTypes, CallInv, NEW p \in Planners, \A q \in Planners : q = p,
           InsertPlan(p)
    PROVE  CallInv'
<1>1. PICK f : \A o \in Ids : Inserted(p, f, o)
  BY InsertChangesItsOwn
<1>2. plan[p].step = "insert"
  BY DEF InsertPlan
<1>3. OnePerPair(plan[p].rows)
  <2> DEFINE g == plan[p].gap
  <2>1. g \in Gaps /\ plan[p].rows \in {DailyPlan(g), {}}
    BY <1>2 DEF PlanTypes, PlansAreMade
  <2> HIDE DEF g
  <2>3. OnePerPair(DailyPlan(g))
    BY <2>1, DailyPlanRows
  <2>. QED
    BY <2>1, <2>3 DEF OnePerPair
<1>4. ASSUME NEW o \in Doomed'
      PROVE  \E r \in plan[p].rows :
                f[r] = o /\ orders'[o].src = r.src /\ orders'[o].tgt = r.tgt
  <2>1. o \in Ids /\ orders'[o].status = "PENDING" /\ orders'[o].planned
    BY DEF Doomed
  <2>2. orders'[o] # Absent
    BY <2>1 DEF Absent
  <2>3. ~(o \notin plan[p].gone /\ orders'[o] = orders[o])
    BY <1>2, <2>1 DEF CallInv, AllGone, Doomed
  <2>4. PICK r \in plan[p].rows : f[r] = o /\ orders'[o] = AsOrder(r, "PENDING", TRUE)
    BY <1>1, <2>1, <2>2, <2>3 DEF Inserted
  <2>5. /\ AsOrder(r, "PENDING", TRUE).src = r.src
        /\ AsOrder(r, "PENDING", TRUE).tgt = r.tgt
    BY DEF AsOrder
  <2>. QED
    BY <2>4, <2>5
<1>5. OneProposalPerPair'
  <2> SUFFICES ASSUME NEW o \in Doomed', NEW k \in Doomed',
                      ~orders'[o].retargeted, ~orders'[k].retargeted,
                      orders'[o].src = orders'[k].src, orders'[o].tgt = orders'[k].tgt
               PROVE  o = k
    BY DEF OneProposalPerPair
  <2>1. PICK r \in plan[p].rows :
            f[r] = o /\ orders'[o].src = r.src /\ orders'[o].tgt = r.tgt
    BY <1>4
  <2>2. PICK q \in plan[p].rows :
            f[q] = k /\ orders'[k].src = q.src /\ orders'[k].tgt = q.tgt
    BY <1>4
  <2>. QED
    BY <1>3, <2>1, <2>2 DEF OnePerPair
<1>6. AllGone'
  <2>1. \A q \in Planners : plan'[q] = Idle
    BY InsertEndsOne
  <2>. QED
    BY <2>1, IdleFields DEF AllGone
<1>. QED
  BY <1>5, <1>6 DEF CallInv

\* OneProposalPerPair: when /plan-daily is called again and again, one call after the
\* other, no two proposals of the day's plan are for the same two locations, whatever
\* people do meanwhile, as long as they give neither of the two another target.
THEOREM OneProposalHolds ==
    ASSUME \A p, q \in Planners : p = q
    PROVE  Spec => []OneProposalPerPair
<1>1. Init => CallInv
  <2>1. ASSUME Init PROVE Doomed = {}
    BY <2>1 DEF Init, Doomed, Absent
  <2>. QED
    BY <2>1 DEF CallInv, OneProposalPerPair, AllGone
<1>2. ASSUME PlanInv, PlanTypes, CallInv, [Next]_vars
      PROVE  CallInv'
  <2>1. ASSUME NEW p \in Planners, NEW c, plan' = [plan EXCEPT ![p] = c], orders' = orders,
               c.step = "delete" => Doomed \subseteq c.found,
               c.step \in {"stock", "incoming", "insert"} => Doomed \subseteq c.gone
        PROVE  CallInv'
    <3>1. \A q \in Planners : plan'[q] = c
      BY <1>2, <2>1 DEF PlanInv, Shaped
    <3>2. Doomed' = Doomed /\ Fewer
      BY <2>1 DEF Doomed, Fewer
    <3>3. AllGone'
      BY <2>1, <3>1, <3>2 DEF AllGone
    <3>. QED
      BY <1>2, <3>2, <3>3, FewerAreDistinct DEF CallInv
  <2>2. ASSUME NEW p \in Planners, DeleteApprovals(p)
        PROVE  CallInv'
    <3> DEFINE c == [Idle EXCEPT !.step = "orders",
                       !.unapproved = {k \in Doomed \X Sides : k[2] \in approvals[k[1]]}]
    <3>1. plan' = [plan EXCEPT ![p] = c] /\ orders' = orders
      BY <2>2 DEF DeleteApprovals
    <3>2. c.step = "orders"
      BY DEF Idle
    <3> HIDE DEF c
    <3>. QED
      BY <2>1, <3>1, <3>2
  <2>3. ASSUME NEW p \in Planners, DeleteOrders(p)
        PROVE  CallInv'
    <3> DEFINE rows == plan[p].found \cap Doomed
               c == [plan[p] EXCEPT !.step = "stock", !.gone = rows]
    <3>1. /\ plan' = [plan EXCEPT ![p] = Idle] \/ plan' = [plan EXCEPT ![p] = c]
          /\ orders' = orders
      BY <2>3 DEF DeleteOrders
    <3>2. Idle.step = "idle" /\ c.step = "stock" /\ c.gone = rows
      BY <1>2, IdleFields DEF PlanInv, Shaped
    <3>3. Doomed \subseteq rows
      BY <1>2, <2>3 DEF DeleteOrders, CallInv, AllGone
    <3> HIDE DEF c, rows
    <3>. QED
      BY <2>1, <3>1, <3>2, <3>3
  <2>4. ASSUME NEW p \in Planners, ReadStock(p)
        PROVE  CallInv'
    <3> DEFINE c == [plan[p] EXCEPT !.step = "incoming", !.seen = stock, !.book = mode]
    <3>1. plan' = [plan EXCEPT ![p] = c] /\ orders' = orders /\ plan[p].step = "stock"
      BY <2>4 DEF ReadStock
    <3>2. c.gone = plan[p].gone /\ c.step # "delete"
      BY <1>2, IdleFields DEF PlanInv, Shaped
    <3> HIDE DEF c
    <3>. QED
      BY <1>2, <2>1, <3>1, <3>2 DEF CallInv, AllGone
  <2>5. ASSUME NEW p \in Planners, ReadIncoming(p)
        PROVE  CallInv'
    <3> DEFINE g == Gap(plan[p].seen)
               rows == IF plan[p].book # "INACTIVE" THEN DailyPlan(g) ELSE {}
               c == [plan[p] EXCEPT !.step = "insert", !.gap = g, !.rows = rows]
    <3>1. plan' = [plan EXCEPT ![p] = c] /\ orders' = orders /\ plan[p].step = "incoming"
      BY <2>5 DEF ReadIncoming
    <3> HIDE DEF g, rows
    <3>2. c.gone = plan[p].gone /\ c.step # "delete"
      BY <1>2, IdleFields DEF PlanInv, Shaped
    <3> HIDE DEF c
    <3>. QED
      BY <1>2, <2>1, <3>1, <3>2 DEF CallInv, AllGone
  <2>6. ASSUME NEW p \in Planners, PlanFails(p)
        PROVE  CallInv'
    BY <2>1, <2>6, IdleFields DEF PlanFails
  <2>7. ASSUME NEW p \in Planners, InsertPlan(p)
        PROVE  CallInv'
    BY <1>2, <2>7, InsertKeepsCallInv
  <2>8. ASSUME Decide
        PROVE  CallInv'
    BY <1>2, <2>8, DecideMakesNoProposal, OthersKeepCallInv DEF Decide
  <2>9. ASSUME NEW o \in Ids, NEW s \in Sides, Approve(o, s)
        PROVE  CallInv'
    <3>1. plan' = plan
      BY <2>9 DEF Approve
    <3>. QED
      BY <1>2, <2>9, <3>1, ApproveMakesNoProposal, OthersKeepCallInv
  <2>10. ASSUME NEW o \in Ids,
                \/ Dispatch(o) \/ Arrive(o) \/ Receive(o)
                \/ Edit(o) \/ Reject(o) \/ LegacyReject(o)
         PROVE  CallInv'
    <3>1. plan' = plan
      BY <2>10, Zenon DEF Dispatch, Arrive, Receive, Edit, Reject, LegacyReject
    <3>. QED
      BY <1>2, <2>10, <3>1, MovesMakeNoProposal, OthersKeepCallInv
  <2>11. ASSUME ChangeBookStatus \/ UNCHANGED vars
         PROVE  CallInv'
    BY <1>2, <2>11 DEF ChangeBookStatus, vars, CallInv, OneProposalPerPair, AllGone, Doomed
  <2>12. ASSUME NEW p \in Planners, FindOrders(p)
         PROVE  CallInv'
    <3> DEFINE c == [plan[p] EXCEPT !.step = "delete", !.found = Doomed]
    <3>1. plan' = [plan EXCEPT ![p] = c] /\ orders' = orders
      BY <2>12 DEF FindOrders
    <3>2. c.step = "delete" /\ c.found = Doomed
      BY <1>2, IdleFields DEF PlanInv, Shaped
    <3> HIDE DEF c
    <3>. QED
      BY <2>1, <3>1, <3>2
  <2>. QED
    BY <1>2, <2>2, <2>3, <2>4, <2>5, <2>6, <2>7, <2>8, <2>9, <2>10, <2>11, <2>12 DEF Next
<1>3. CallInv => OneProposalPerPair
  BY DEF CallInv
<1>. QED
  BY <1>1, <1>2, <1>3, PlanTypesHold, PTL DEF Spec

-----------------------------------------------------------------------------
(* What is too little to be sent *)

Scraps(v, S) == [x \in S \X S |-> IF v[x] >= MinRow THEN 0 ELSE v[x]]
LostTo(v, S) == [t \in S |-> Sum(TakenBy(Scraps(v, S), S, t), S)]
Lost(v, S)   == Sum(LostTo(v, S), S)

\* Scraps are small.
LEMMA ScrapsAreSmall ==
    ASSUME NEW S, IsFiniteSet(S), NEW v \in [S \X S -> Nat]
    PROVE  /\ Scraps(v, S) \in [S \X S -> Nat]
           /\ \A s, t \in S : /\ Scraps(v, S)[<<s, t>>] \in Nat
                              /\ Scraps(v, S)[<<s, t>>] <= MinRow - 1
                              /\ v[<<s, t>>] = 0 => Scraps(v, S)[<<s, t>>] = 0
           /\ \A t \in S : LostTo(v, S)[t] \in Nat
           /\ Lost(v, S) \in Nat
           /\ MinRow \in Nat /\ MinRow - 1 \in Nat
<1> DEFINE d == Scraps(v, S)
<1>1. MinRow \in Nat /\ MinRow - 1 \in Nat
  BY PlanningAssumption
<1>2. d \in [S \X S -> Nat] /\ \A s, t \in S : d[<<s, t>>] <= MinRow - 1
  BY <1>1 DEF Scraps
<1>a. \A s, t \in S : v[<<s, t>>] = 0 => d[<<s, t>>] = 0
  BY DEF Scraps
<1> HIDE DEF d
<1>3. ASSUME NEW t \in S
      PROVE  Sum(TakenBy(d, S, t), S) \in Nat
  <2>1. \A x \in S : TakenBy(d, S, t)[x] \in Nat
    BY <1>2 DEF TakenBy
  <2>. QED
    BY ONLY <2>1, IsFiniteSet(S), SumNat
<1>4. \A t \in S : LostTo(v, S)[t] \in Nat
  BY <1>3 DEF LostTo, d
<1>5. Lost(v, S) \in Nat
  BY ONLY <1>4, IsFiniteSet(S), SumNat DEF Lost
<1>. QED
  BY <1>1, <1>2, <1>a, <1>4, <1>5 DEF d

\* The loop has left no more scraps than it has made steps along the two lists.
ScrapsOK(g, S, b) ==
    LET m == Len(Givers(g, S))
        n == Len(Takers(g, S))
    IN  /\ Lost(b.moved, S) <= (MinRow - 1) * (b.i + b.j - 2)
        /\ Lost(b.moved, S) <= (MinRow - 1) * Higher(0, m + n - 1)

\* At first there are none.
LEMMA BegunHasNoScraps ==
    ASSUME NEW g \in Gaps, NEW S \in SUBSET Locations
    PROVE  ScrapsOK(g, S, Begun(g, S))
<1> DEFINE b == Begun(g, S)
           v == b.moved
<1>1. /\ v \in [S \X S -> Nat] /\ b.i = 1 /\ b.j = 1
      /\ \A s, t \in S : v[<<s, t>>] = 0
  BY DEF Begun
<1> HIDE DEF b
<1>2. IsFiniteSet(S) /\ Len(Givers(g, S)) \in Nat /\ Len(Takers(g, S)) \in Nat
  BY ListsAre
<1>3. \A s, t \in S : Scraps(v, S)[<<s, t>>] = 0
  BY <1>1, <1>2, ScrapsAreSmall
<1>4. \A t \in S : LostTo(v, S)[t] = 0
  <2> SUFFICES ASSUME NEW t \in S PROVE Sum(TakenBy(Scraps(v, S), S, t), S) = 0
    BY DEF LostTo
  <2>1. \A x \in S : TakenBy(Scraps(v, S), S, t)[x] = 0
    BY <1>3 DEF TakenBy
  <2>. QED
    BY ONLY <1>2, <2>1, SumOfZeros
<1>5. Lost(v, S) = 0
  BY ONLY <1>2, <1>4, SumOfZeros DEF Lost
<1> DEFINE m == Len(Givers(g, S))
           n == Len(Takers(g, S))
           c == MinRow - 1
<1>6. c \in Nat /\ m \in Nat /\ n \in Nat
  BY <1>2, PlanningAssumption
<1> HIDE DEF c, m, n, v
<1>7. c * (b.i + b.j - 2) = 0
  BY <1>1, <1>6
<1>8. c * Higher(0, m + n - 1) >= 0
  <2> DEFINE h == Higher(0, m + n - 1)
  <2>1. h \in Nat
    BY <1>6 DEF Higher
  <2> HIDE DEF h
  <2>2. c * h >= 0
    BY <1>6, <2>1
  <2>. QED
    BY <2>2 DEF h
<1>. QED
  BY <1>5, <1>7, <1>8 DEF ScrapsOK, b, c, m, n, v

\* One pair more, with at most so much.
LEMMA PairLoses ==
    ASSUME NEW S, IsFiniteSet(S), NEW v \in [S \X S -> Nat], NEW w \in [S \X S -> Nat],
           NEW s \in S, NEW t \in S, PairAdded(v, w, S, s, t)
    PROVE  Lost(w, S) <= Lost(v, S) + (MinRow - 1)
<1> DEFINE d == Scraps(v, S)
           e == Scraps(w, S)
           F == LostTo(v, S)
           G == LostTo(w, S)
<1>1. /\ MinRow \in Nat /\ MinRow - 1 \in Nat
      /\ \A x, y \in S : d[<<x, y>>] \in Nat /\ e[<<x, y>>] \in Nat
      /\ e[<<s, t>>] <= MinRow - 1
      /\ v[<<s, t>>] = 0 => d[<<s, t>>] = 0
      /\ \A x \in S : F[x] \in Nat /\ G[x] \in Nat
      /\ Lost(v, S) \in Nat /\ Lost(w, S) \in Nat
  BY ScrapsAreSmall
<1>2. PairAdded(d, e, S, s, t)
  <2>1. \A x, y \in S : x # s \/ y # t => w[<<x, y>>] = v[<<x, y>>]
    BY DEF PairAdded
  <2>2. \A x, y \in S : x # s \/ y # t => e[<<x, y>>] = d[<<x, y>>]
    BY <2>1 DEF Scraps
  <2>3. d[<<s, t>>] = 0
    BY <1>1 DEF PairAdded
  <2> HIDE DEF d, e
  <2>. QED
    BY <1>1, <2>2, <2>3 DEF PairAdded
<1>3. /\ \A x \in S : F[x] = Sum(TakenBy(d, S, x), S)
      /\ \A x \in S : G[x] = Sum(TakenBy(e, S, x), S)
  BY DEF LostTo
<1>4. Lost(v, S) = Sum(F, S) /\ Lost(w, S) = Sum(G, S)
  BY DEF Lost
<1> HIDE DEF d, e, F, G
<1>5. ASSUME NEW x \in S
      PROVE  PairCounts(d, e, S, s, t, x)
  BY ONLY <1>2, PairAdds, IsFiniteSet(S), s \in S, t \in S, x \in S
<1>6. DifferAt(F, G, S, t)
  BY <1>1, <1>3, <1>5 DEF DifferAt, PairCounts
<1>7. Sum(G, S) = Sum(F, S) + (G[t] - F[t])
  BY ONLY <1>6, IsFiniteSet(S), t \in S, SumChange
<1>8. G[t] = F[t] + e[<<s, t>>]
  BY <1>3, <1>5 DEF PairCounts
<1> DEFINE x1 == Lost(w, S)
           x2 == Lost(v, S)
           g1 == G[t]
           f1 == F[t]
           q == e[<<s, t>>]
<1>9. /\ x1 \in Nat /\ x2 \in Nat /\ g1 \in Nat /\ f1 \in Nat /\ q \in Nat
      /\ x1 = x2 + (g1 - f1) /\ g1 = f1 + q /\ q <= MinRow - 1 /\ MinRow \in Nat
  BY <1>1, <1>4, <1>7, <1>8
<1> HIDE DEF x1, x2, g1, f1, q
<1>10. x1 <= x2 + (MinRow - 1)
  BY ONLY <1>9
<1>. QED
  BY <1>10 DEF x1, x2

\* A turn makes a step along one of the lists, and leaves at most one scrap.
LEMMA TurnKeepsScraps ==
    ASSUME NEW g \in Gaps, NEW S \in SUBSET Locations, NEW k \in Nat, NEW b,
           LoopInv(g, S, k, b), ScrapsOK(g, S, b)
    PROVE  ScrapsOK(g, S, Next1(g, S, b))
<1> DEFINE give == Givers(g, S)
           need == Takers(g, S)
           m == Len(give)
           n == Len(need)
<1>1. CASE b.i > Len(give) \/ b.j > Len(need)
  <2>1. Next1(g, S, b) = b
    BY <1>1, Zenon DEF Next1, Turn
  <2>. QED
    BY <2>1
<1>2. CASE ~(b.i > Len(give) \/ b.j > Len(need))
  <2>1. IsFiniteSet(S) /\ m \in Nat /\ n \in Nat
    BY ListsAre
  <2>2. /\ b.i \in 1 .. m /\ b.j \in 1 .. n
        /\ b.gap \in Gaps /\ b.moved \in [S \X S -> Nat]
    BY <1>2, <2>1 DEF LoopInv, PlaceOK, State
  <2>3. b.i <= Len(give) /\ b.j <= Len(need)
    BY <2>1, <2>2
  <2>b. PICK s \in S, t \in S, q \in Nat : TurnOf(g, S, b, s, t, q)
    BY ONLY <2>3, TurnIs, g \in Gaps, S \in SUBSET Locations, k \in Nat, LoopInv(g, S, k, b)
  <2>4. /\ s = give[b.i] /\ t = need[b.j]
        /\ g[s] < 0 /\ g[t] > 0
        /\ q <= -b.gap[s] /\ q <= b.gap[t]
        /\ q = -b.gap[s] \/ q = b.gap[t]
        /\ b.moved[<<s, t>>] = 0
        /\ Next1(g, S, b) =
              [i |-> IF b.gap[s] + q = 0 THEN b.i + 1 ELSE b.i,
               j |-> IF b.gap[t] = q THEN b.j + 1 ELSE b.j,
               gap |-> [b.gap EXCEPT ![s] = @ + q, ![t] = @ - q],
               moved |-> [b.moved EXCEPT ![<<s, t>>] = q]]
    BY <2>b DEF TurnOf
  <2> DEFINE a == Next1(g, S, b)
             v == b.moved
             w == a.moved
  <2>5. b.gap[s] \in Int /\ b.gap[t] \in Int
    BY <2>2 DEF Gaps
  <2>6. /\ a.i \in {b.i, b.i + 1} /\ a.j \in {b.j, b.j + 1}
        /\ a.i = b.i + 1 \/ a.j = b.j + 1
    <3>1. /\ a.i = IF b.gap[s] + q = 0 THEN b.i + 1 ELSE b.i
          /\ a.j = IF b.gap[t] = q THEN b.j + 1 ELSE b.j
      BY <2>4
    <3>2. b.gap[s] + q = 0 \/ b.gap[t] = q
      BY <2>4, <2>5
    <3> HIDE DEF a
    <3>. QED
      BY <3>1, <3>2
  <2>7. w = [v EXCEPT ![<<s, t>>] = q]
    BY <2>4
  <2> HIDE DEF a, v
  <2>8. v \in [S \X S -> Nat]
    BY <2>2 DEF v
  <2>9. w \in [S \X S -> Nat]
    BY <2>7, <2>8
  <2>10. PairAdded(v, w, S, s, t)
    <3>1. v[<<s, t>>] = 0
      BY <2>4 DEF v
    <3>. QED
      BY <2>7, <2>8, <2>9, <3>1 DEF PairAdded
  <2> DEFINE x == Lost(v, S)
             y == Lost(w, S)
             c == MinRow - 1
  <2>11. y <= x + c
    BY ONLY <2>1, <2>8, <2>9, <2>10, PairLoses, s \in S, t \in S
  <2>12. x \in Nat /\ y \in Nat /\ c \in Nat
    BY ONLY <2>1, <2>8, <2>9, ScrapsAreSmall
  <2>13. x <= c * (b.i + b.j - 2)
    BY DEF ScrapsOK, v
  <2> HIDE DEF w, x, y, c, m, n
  <2> DEFINE p == b.i + b.j - 2
             r == a.i + a.j - 2
             u == Higher(0, m + n - 1)
  <2>14. p \in Nat /\ r \in Nat /\ u \in Nat /\ p + 1 <= r /\ p + 1 <= u
    BY <2>1, <2>2, <2>6 DEF Higher
  <2> HIDE DEF p, r, u
  <2>15. x <= c * p
    BY <2>13 DEF p
  <2>16. \A z \in Nat : p + 1 <= z => c * p + c <= c * z
    <3> SUFFICES ASSUME NEW z \in Nat, p + 1 <= z PROVE c * p + c <= c * z
      OBVIOUS
    <3>1. PICK f \in Nat : z = p + 1 + f
      <4>1. z - p - 1 \in Nat /\ z = p + 1 + (z - p - 1)
        BY <2>14
      <4>. QED
        BY <4>1
    <3>2. c * z = c * p + c + c * f
      BY ONLY <2>12, <2>14, <3>1, f \in Nat
    <3>3. c * f >= 0 /\ c * f \in Int /\ c * p \in Int
      BY ONLY <2>12, <2>14, f \in Nat
    <3>. QED
      BY ONLY <2>12, <3>2, <3>3
  <2>17. c * p \in Int /\ c * r \in Int /\ c * u \in Int
    BY ONLY <2>12, <2>14
  <2>18. y <= c * r /\ y <= c * u
    <3>1. c * p + c <= c * r /\ c * p + c <= c * u
      BY <2>14, <2>16
    <3>. QED
      BY ONLY <2>11, <2>12, <2>15, <2>17, <3>1
  <2>. QED
    BY <2>18 DEF ScrapsOK, a, w, y, c, r, u, m, n
<1>. QED
  BY <1>1, <1>2

\* Sorted lists are as long as their sets.
LEMMA ListsAreShort ==
    ASSUME NEW g \in Gaps, NEW S \in SUBSET Locations, S # {}
    PROVE  /\ Len(Givers(g, S)) + Len(Takers(g, S)) <= Cardinality(S)
           /\ Cardinality(S) \in Nat \ {0}
<1> DEFINE A == {l \in S : g[l] < 0}
           B == {l \in S : g[l] > 0}
<1>1. /\ Len(Givers(g, S)) = Cardinality(A) /\ IsFiniteSet(A) /\ Cardinality(A) \in Nat
      /\ Len(Takers(g, S)) = Cardinality(B) /\ IsFiniteSet(B) /\ Cardinality(B) \in Nat
  <2>1. A \in SUBSET Locations /\ B \in SUBSET Locations
    OBVIOUS
  <2> HIDE DEF A, B
  <2>2. Givers(g, S) = Sorted(g, A) /\ Takers(g, S) = Sorted(g, B)
    BY DEF Givers, Takers, A, B
  <2>. QED
    BY <2>1, <2>2, SortedIs
<1>2. A \cap B = {} /\ A \cup B \in SUBSET S
  BY DEF Gaps
<1> HIDE DEF A, B
<1>3. IsFiniteSet(S) /\ Cardinality(S) \in Nat \ {0}
  BY PlanningAssumption, FS_Subset, FS_CardinalityType, FS_EmptySet
<1>4. Cardinality(A \cup B) <= Cardinality(S)
  BY <1>2, <1>3, FS_Subset
<1>5. Cardinality(A \cup B) = Cardinality(A) + Cardinality(B) - Cardinality(A \cap B)
  BY <1>1, FS_Union
<1>6. Cardinality(A \cap B) = 0
  BY <1>2, FS_EmptySet
<1>. QED
  BY <1>1, <1>3, <1>4, <1>5, <1>6

\* What the loop leaves as scraps, in all
LEMMA MatchLoses ==
    ASSUME NEW g \in Gaps, NEW S \in SUBSET Locations, S # {}
    PROVE  Lost(Match(g, S).moved, S) <= (MinRow - 1) * (Cardinality(S) - 1)
<1> DEFINE Q == {x \in Nat \X State(S) : LoopInv(g, S, x[1], x[2]) /\ ScrapsOK(g, S, x[2])}
<1>1. <<0, Begun(g, S)>> \in Q
  BY BegunOK, BegunHasNoScraps DEF LoopInv
<1>2. ASSUME NEW k \in Nat, NEW b, <<k, b>> \in Q
      PROVE  <<k + 1, Next1(g, S, b)>> \in Q
  <2>1. LoopInv(g, S, k, b) /\ ScrapsOK(g, S, b)
    BY <1>2
  <2>2. LoopInv(g, S, k + 1, Next1(g, S, b)) /\ ScrapsOK(g, S, Next1(g, S, b))
    BY <2>1, TurnKeepsInv, TurnKeepsScraps
  <2>. QED
    BY <2>2 DEF LoopInv
<1>3. Turns(g, S) \in Nat
  BY ListsAre DEF Turns
<1> HIDE DEF Q
<1>4. <<Turns(g, S), Match(g, S)>> \in Q
  <2>1. \A k \in Nat : \A b : <<k, b>> \in Q => <<k + 1, Next1(g, S, b)>> \in Q
    BY <1>2
  <2>. QED
    BY ONLY <1>1, <1>3, <2>1, ByTurns
<1>5. ScrapsOK(g, S, Match(g, S)) /\ Match(g, S).moved \in [S \X S -> Nat]
  BY <1>4 DEF Q, State
<1> DEFINE x == Lost(Match(g, S).moved, S)
           c == MinRow - 1
           m == Len(Givers(g, S))
           n == Len(Takers(g, S))
           h == Higher(0, m + n - 1)
           z == Cardinality(S) - 1
<1>6. x \in Nat /\ c \in Nat
  BY ONLY <1>5, ListsAre, ScrapsAreSmall, g \in Gaps, S \in SUBSET Locations
<1>7. x <= c * h
  BY <1>5 DEF ScrapsOK
<1>8. h \in Nat /\ z \in Nat /\ h <= z
  <2>1. /\ m \in Nat /\ n \in Nat /\ m + n <= Cardinality(S)
        /\ Cardinality(S) \in Nat \ {0}
    BY ListsAre, ListsAreShort
  <2> HIDE DEF m, n
  <2>. QED
    BY <2>1 DEF Higher
<1> HIDE DEF x, c, h, z
<1>9. PICK f \in Nat : z = h + f
  <2>1. z - h \in Nat /\ z = h + (z - h)
    BY <1>8
  <2>. QED
    BY <2>1
<1>10. c * z = c * h + c * f /\ c * f >= 0 /\ c * f \in Int /\ c * h \in Int
  BY ONLY <1>6, <1>8, <1>9, f \in Nat
<1>11. x <= c * z
  BY ONLY <1>6, <1>7, <1>10
<1>. QED
  BY <1>11 DEF x, c, z

-----------------------------------------------------------------------------
(* What a phase brings, and what it leaves as scraps *)

\* Two sets of rows with nothing in common carry what the one and the other carry.
LEMMA CarriedApart ==
    ASSUME NEW A, IsFiniteSet(A), NEW B, IsFiniteSet(B), A \cap B = {},
           \A r \in A \cup B : r.qty \in Nat
    PROVE  Carried(A \cup B) = Carried(A) + Carried(B)
<1> DEFINE U == A \cup B
           F == Qtys(U)
<1>1. \A r \in A \cup B : F[r] \in Int
  BY DEF Qtys
<1>2. Carried(A) = Sum(F, A) /\ Carried(B) = Sum(F, B) /\ Carried(U) = Sum(F, U)
  <2>1. A \subseteq U /\ B \subseteq U /\ U \subseteq U
    OBVIOUS
  <2>. QED
    BY ONLY <2>1, CarriedIs
<1> HIDE DEF F
<1>3. Sum(F, A \cup B) = Sum(F, A) + Sum(F, B)
  BY ONLY <1>1, IsFiniteSet(A), IsFiniteSet(B), A \cap B = {}, SumUnion
<1>. QED
  BY <1>2, <1>3

\* What does not go to l as a row, because it is too little
ScrapsAt(g, S, l) == IF l \in S THEN LostTo(Match(g, S).moved, S)[l] ELSE 0

\* The rows of R bring l what it lacks less, all but d.
Accounted(x, y, R, d, l) ==
    /\ Carried(To(R, l)) \in Nat /\ d \in Nat
    /\ Higher(0, x) = Higher(0, y) + Carried(To(R, l)) + d

\* What is moved to l is what it gets as rows, and scraps.
LEMMA TakenIs ==
    ASSUME NEW S, IsFiniteSet(S), NEW v \in [S \X S -> Nat], NEW l \in S
    PROVE  /\ Sum(TakenBy(v, S, l), Senders(v, S, l)) \in Nat
           /\ Sum(TakenBy(v, S, l), S) =
                 Sum(TakenBy(v, S, l), Senders(v, S, l)) + LostTo(v, S)[l]
<1> DEFINE T == Senders(v, S, l)
           F == TakenBy(v, S, l)
           E == TakenBy(Scraps(v, S), S, l)
           K == [s \in S |-> IF s \in T THEN F[s] ELSE 0]
<1>1. /\ \A s \in S : F[s] \in Nat /\ K[s] \in Nat /\ E[s] \in Nat
      /\ \A s \in S : F[s] = K[s] + E[s]
      /\ \A s \in T : K[s] = F[s]
      /\ \A s \in S \ T : K[s] = 0
  <2>1. \A s \in S : F[s] = v[<<s, l>>] /\ v[<<s, l>>] \in Nat
    BY DEF TakenBy
  <2>2. \A s \in S : E[s] = IF v[<<s, l>>] >= MinRow THEN 0 ELSE v[<<s, l>>]
    BY DEF TakenBy, Scraps
  <2> HIDE DEF F, E
  <2>. QED
    BY <2>1, <2>2 DEF Senders
<1>2. T \in SUBSET S
  BY DEF Senders
<1>3. LostTo(v, S)[l] = Sum(E, S)
  BY DEF LostTo
<1> HIDE DEF T, F, E, K
<1>4. IsFiniteSet(T) /\ IsFiniteSet(S \ T)
  BY <1>2, FS_Subset
<1>5. Sum(F, S) = Sum(K, S) + Sum(E, S)
  <2>1. Termwise(F, K, E, S)
    BY <1>1 DEF Termwise
  <2>. QED
    BY ONLY <2>1, IsFiniteSet(S), SumPlus
<1>6. Sum(K, S) = Sum(F, T)
  <2>1. Sum(K, T) = Sum(F, T)
    BY ONLY <1>1, SumSame
  <2>2. Sum(K, S \ T) = 0
    BY ONLY <1>1, <1>4, SumOfZeros
  <2>3. Sum(K, T \cup (S \ T)) = Sum(K, T) + Sum(K, S \ T)
    <3>1. T \cap (S \ T) = {} /\ \A s \in T \cup (S \ T) : K[s] \in Int
      BY <1>1, <1>2
    <3>. QED
      BY ONLY <1>4, <3>1, SumUnion
  <2>4. T \cup (S \ T) = S
    BY <1>2
  <2>5. Sum(K, T) \in Int
    <3>1. \A s \in T : K[s] \in Int
      BY <1>1, <1>2
    <3>. QED
      BY ONLY <1>4, <3>1, SumType
  <2>. QED
    BY <2>1, <2>2, <2>3, <2>4, <2>5
<1>7. Sum(F, T) \in Nat
  <2>1. \A s \in T : F[s] \in Nat
    BY <1>1, <1>2
  <2>. QED
    BY ONLY <1>4, <2>1, SumNat
<1>. QED
  BY <1>3, <1>5, <1>6, <1>7 DEF F, T

\* A phase brings a location the rows for what it lacks less, but for the scraps.
LEMMA PhaseAccounts ==
    ASSUME NEW g \in Gaps, NEW S \in SUBSET Locations, NEW type, NEW l \in Locations
    PROVE  Accounted(g[l], Phase(type, g, S).gap[l], Phase(type, g, S).rows,
                     ScrapsAt(g, S, l), l)
<1> DEFINE P == Phase(type, g, S)
           m == Match(g, S)
           v == m.moved
           x == g[l]
           y == m.gap[l]
           C == Carried(To(P.rows, l))
           d == ScrapsAt(g, S, l)
<1>1. LoopInv(g, S, Turns(g, S), m)
  BY MatchOK
<1>2. /\ v \in [S \X S -> Nat] /\ m.gap \in Gaps
      /\ GapsOK(g, S, m.gap) /\ MovedOK(g, S, v) /\ SumsOK(g, S, m)
  BY <1>1 DEF LoopInv, State
<1>3. P.gap[l] = y /\ P.rows = RowsOf(type, v, S)
  BY <1>2 DEF Phase, RowsOf, GapsOK
<1>4. IsFiniteSet(S)
  BY PlanningAssumption, FS_Subset
<1>5. x \in Int /\ y \in Int
  BY <1>2 DEF Gaps
<1>6. /\ x < 0 => y <= 0
      /\ x > 0 => y >= 0
      /\ x = 0 \/ l \notin S => y = x
  BY <1>2 DEF GapsOK
<1>7. CASE l \in S
  <2> DEFINE F == TakenBy(v, S, l)
             T == Senders(v, S, l)
             a == Sum(F, S)
  <2>1. /\ Sum(F, T) \in Nat
        /\ a = Sum(F, T) + LostTo(v, S)[l]
    BY ONLY <1>2, <1>4, <1>7, TakenIs
  <2>2. C = Sum(F, T)
    <3> HIDE DEF m
    <3> DEFINE u == v
    <3>1. u \in [S \X S -> Nat]
      BY <1>2
    <3> HIDE DEF u
    <3>2. Carried(To(RowsOf(type, u, S), l)) = Sum(TakenBy(u, S, l), Senders(u, S, l))
      BY ONLY <1>4, <1>7, <3>1, RowsTo
    <3>. QED
      BY <1>3, <3>2 DEF u
  <2>3. d = LostTo(v, S)[l]
    BY <1>7 DEF ScrapsAt
  <2>4. d \in Nat
    <3>1. \A t \in S : LostTo(v, S)[t] \in Nat
      BY ONLY <1>2, <1>4, ScrapsAreSmall
    <3>. QED
      BY <1>7, <2>3, <3>1
  <2>5. x > 0 => a = x - y
    BY <1>2, <1>7 DEF SumsOK
  <2>6. ~(x > 0) => a = 0
    <3>1. ASSUME ~(x > 0), NEW s \in S
          PROVE  F[s] = 0
      <4>1. v[<<s, l>>] = 0
        BY <1>2, <1>7, <3>1 DEF MovedOK
      <4>. QED
        BY <4>1 DEF TakenBy
    <3>2. ~(x > 0) => \A s \in S : F[s] = 0
      BY <3>1
    <3>. QED
      BY ONLY <1>4, <3>2, SumOfZeros
  <2> HIDE DEF P, m, x, y, C, d, a, F, T
  <2>7. Higher(0, x) = Higher(0, y) + C + d
    BY <1>5, <1>6, <2>1, <2>2, <2>3, <2>4, <2>5, <2>6 DEF Higher
  <2>. QED
    <3>1. P.gap[l] = y /\ C \in Nat
      BY <1>3, <2>1, <2>2
    <3>2. Higher(0, x) = Higher(0, P.gap[l]) + C + d
      BY ONLY <2>7, <3>1
    <3>. QED
      BY ONLY <2>4, <3>1, <3>2, Zenon DEF Accounted, P, x, C, d
<1>8. CASE l \notin S
  <2>1. To(P.rows, l) = {}
    <3>1. \A r \in P.rows : r.tgt \in S
      BY PhaseFlows DEF Within
    <3>. QED
      BY <1>8, <3>1 DEF To
  <2>2. C = 0
    BY <2>1, NoneCarried
  <2>3. d = 0
    BY <1>8 DEF ScrapsAt
  <2> HIDE DEF P, m, x, y, C, d
  <2>4. y = x /\ Higher(0, x) = Higher(0, y) + C + d
    BY <1>5, <1>6, <1>8, <2>2, <2>3 DEF Higher
  <2>. QED
    BY <1>3, <2>2, <2>3, <2>4 DEF Accounted, P, x, C, d
<1>. QED
  BY <1>7, <1>8

-----------------------------------------------------------------------------
(* What all phases bring *)

\* What locations lack, what the moves of a plan bring them, and what they do not
\* get in each phase because it is too little
Lacks(g) == [l \in Locations |-> Higher(0, g[l])]
Got(g)   == [l \in Locations |-> Carried(To(Moves(g), l))]

LostFirst(g)  == [l \in Locations |-> ScrapsAt(g, StoresOf(WhOf[l]), l)]
LostSecond(g) == [l \in Locations |->
                    ScrapsAt(First(g).gap, Scope(First(g).gap)[WhOf[l]], l)]
LostThird(g)  == [l \in Locations |-> ScrapsAt(Second(g).gap, Whs, l)]

\* Each of these is a number.
Numbers(g) ==
    /\ Lacks(g) \in [Locations -> Nat] /\ Lacks(Third(g).gap) \in [Locations -> Nat]
    /\ Got(g) \in [Locations -> Nat] /\ LostFirst(g) \in [Locations -> Nat]
    /\ LostSecond(g) \in [Locations -> Nat] /\ LostThird(g) \in [Locations -> Nat]

\* The moves are those of the phases, which have no rows in common.
LEMMA MovesOfPhases ==
    ASSUME NEW g \in Gaps, NEW l \in Locations
    PROVE  Carried(To(Moves(g), l)) =
              Carried(To(First(g).rows, l)) + Carried(To(Second(g).rows, l))
                  + Carried(To(Third(g).rows, l))
<1> DEFINE A == To(First(g).rows, l)
           B == To(Second(g).rows, l)
           C == To(Third(g).rows, l)
<1>1. /\ IsFiniteSet(A) /\ IsFiniteSet(B) /\ IsFiniteSet(C)
      /\ \A r \in A \cup B : r.qty \in Nat
      /\ \A r \in (A \cup B) \cup C : r.qty \in Nat
  BY PhasesAre DEF PhasesFlow, Flow, FlowAt, AreRows, To
<1>2. A \cap B = {} /\ (A \cup B) \cap C = {}
  <2>1. Whs \cap Stores = {}
    BY PlanningAssumption
  <2>2. /\ \A r \in A : r.src \in Stores /\ r.tgt \in Stores
        /\ \A r \in B : r.src \in Whs /\ r.tgt \in Stores
        /\ \A r \in C : r.src \in Whs /\ r.tgt \in Whs
    BY RowsAreOfPhases DEF RowsAre, To
  <2> HIDE DEF A, B, C
  <2>. QED
    BY <2>1, <2>2
<1>3. To(Moves(g), l) = (A \cup B) \cup C
  BY DEF Moves, To
<1> HIDE DEF A, B, C
<1>4. IsFiniteSet(A \cup B)
  BY <1>1, FS_Union
<1>5. Carried(A \cup B) = Carried(A) + Carried(B)
  BY ONLY <1>1, <1>2, CarriedApart
<1>6. Carried((A \cup B) \cup C) = Carried(A \cup B) + Carried(C)
  BY ONLY <1>1, <1>2, <1>4, CarriedApart
<1>. QED
  BY <1>3, <1>5, <1>6 DEF A, B, C

\* What a location lacks comes, or is still lacking after the phases, or is scraps.
LEMMA LocationAccounts ==
    ASSUME NEW g \in Gaps, NEW l \in Locations
    PROVE  /\ Lacks(g)[l] \in Nat /\ Lacks(Third(g).gap)[l] \in Nat /\ Got(g)[l] \in Nat
           /\ LostFirst(g)[l] \in Nat /\ LostSecond(g)[l] \in Nat /\ LostThird(g)[l] \in Nat
           /\ Lacks(g)[l] = Lacks(Third(g).gap)[l] + Got(g)[l]
                               + LostFirst(g)[l] + LostSecond(g)[l] + LostThird(g)[l]
<1> DEFINE h  == First(g).gap
           k  == Second(g).gap
           sa == [w \in Whs |-> StoresOf(w)]
           sb == Scope(h)
           w  == WhOf[l]
<1>1. w \in Whs
  BY PlanningAssumption
<1>2. h \in Gaps /\ k \in Gaps /\ Third(g).gap \in Gaps
  BY PhasesAre DEF PhasesFlow
<1>3. OwnScopes(sa) /\ OwnScopes(sb)
  BY ScopesAreOwn
<1>4. sa[w] = StoresOf(w) /\ StoresOf(w) \in SUBSET Locations /\ sb[w] \in SUBSET Locations
  BY <1>1, <1>3 DEF OwnScopes, StoresOf, Locations
<1>5. Accounted(g[l], h[l], First(g).rows, ScrapsAt(g, StoresOf(w), l), l)
  <2> DEFINE O == Phase("REBALANCE", g, sa[w])
             P == InTurn("REBALANCE", g, sa)
  <2>1. P.gap[l] = O.gap[l] /\ To(P.rows, l) = To(O.rows, l)
    BY ONLY <1>3, g \in Gaps, l \in Locations, InTurnFlows
  <2>2. Accounted(g[l], O.gap[l], O.rows, ScrapsAt(g, sa[w], l), l)
    BY <1>4, PhaseAccounts
  <2>3. P = First(g)
    BY DEF First
  <2> HIDE DEF O, P, sa, h, w
  <2>4. Accounted(g[l], P.gap[l], P.rows, ScrapsAt(g, sa[w], l), l)
    BY <2>1, <2>2 DEF Accounted
  <2>. QED
    BY <1>4, <2>3, <2>4 DEF h
<1>6. Accounted(h[l], k[l], Second(g).rows, ScrapsAt(h, sb[w], l), l)
  <2> HIDE DEF h, sb, sa
  <2> DEFINE O == Phase("WH_TO_STORE", h, sb[w])
             P == InTurn("WH_TO_STORE", h, sb)
  <2>1. P.gap[l] = O.gap[l] /\ To(P.rows, l) = To(O.rows, l)
    BY ONLY <1>2, <1>3, l \in Locations, InTurnFlows
  <2>2. Accounted(h[l], O.gap[l], O.rows, ScrapsAt(h, sb[w], l), l)
    BY <1>2, <1>4, PhaseAccounts
  <2>3. P = Second(g)
    BY DEF Second, h, sb
  <2> HIDE DEF O, P, k, w
  <2>4. Accounted(h[l], P.gap[l], P.rows, ScrapsAt(h, sb[w], l), l)
    BY <2>1, <2>2 DEF Accounted
  <2>. QED
    BY <2>3, <2>4 DEF k
<1>7. Accounted(k[l], Third(g).gap[l], Third(g).rows, ScrapsAt(k, Whs, l), l)
  <2>1. Whs \in SUBSET Locations
    BY DEF Locations
  <2> HIDE DEF k
  <2>2. Accounted(k[l], Phase("WH_TRANSFER", k, Whs).gap[l],
                  Phase("WH_TRANSFER", k, Whs).rows, ScrapsAt(k, Whs, l), l)
    BY <1>2, <2>1, PhaseAccounts
  <2>. QED
    BY <2>2 DEF Third, k
<1>8. Got(g)[l] = Carried(To(First(g).rows, l)) + Carried(To(Second(g).rows, l))
                      + Carried(To(Third(g).rows, l))
  BY MovesOfPhases DEF Got
<1>9. /\ Lacks(g)[l] = Higher(0, g[l]) /\ Lacks(Third(g).gap)[l] = Higher(0, Third(g).gap[l])
      /\ LostFirst(g)[l] = ScrapsAt(g, StoresOf(w), l)
      /\ LostSecond(g)[l] = ScrapsAt(h, sb[w], l)
      /\ LostThird(g)[l] = ScrapsAt(k, Whs, l)
  BY DEF Lacks, LostFirst, LostSecond, LostThird
<1>10. Higher(0, g[l]) \in Nat /\ Higher(0, Third(g).gap[l]) \in Nat
  <2> DEFINE x == g[l]
             y == Third(g).gap[l]
  <2>1. x \in Int /\ y \in Int
    BY <1>2 DEF Gaps
  <2> HIDE DEF x, y
  <2>2. Higher(0, x) \in Nat /\ Higher(0, y) \in Nat
    BY <2>1 DEF Higher
  <2>. QED
    BY <2>2 DEF x, y
<1> HIDE DEF h, k, sa, sb, w
<1>. QED
  BY <1>5, <1>6, <1>7, <1>8, <1>9, <1>10 DEF Accounted

\* These are numbers.
LEMMA NumbersAre ==
    ASSUME NEW g \in Gaps
    PROVE  Numbers(g)
<1>1. \A l \in Locations :
          /\ Lacks(g)[l] \in Nat /\ Lacks(Third(g).gap)[l] \in Nat /\ Got(g)[l] \in Nat
          /\ LostFirst(g)[l] \in Nat /\ LostSecond(g)[l] \in Nat /\ LostThird(g)[l] \in Nat
  BY LocationAccounts
<1>. QED
  BY <1>1 DEF Numbers, Lacks, Got, LostFirst, LostSecond, LostThird

\* The same for all locations of a set
LEMMA SetAccounts ==
    ASSUME NEW g \in Gaps, NEW T \in SUBSET Locations
    PROVE  /\ IsFiniteSet(T)
           /\ Sum(Lacks(g), T) \in Nat /\ Sum(Lacks(Third(g).gap), T) \in Nat
           /\ Sum(Got(g), T) \in Nat /\ Sum(LostFirst(g), T) \in Nat
           /\ Sum(LostSecond(g), T) \in Nat /\ Sum(LostThird(g), T) \in Nat
           /\ Sum(Lacks(g), T) = Sum(Lacks(Third(g).gap), T) + Sum(Got(g), T)
                 + Sum(LostFirst(g), T) + Sum(LostSecond(g), T) + Sum(LostThird(g), T)
<1> DEFINE A == Lacks(Third(g).gap)
           B == Got(g)
           C == LostFirst(g)
           D == LostSecond(g)
           E == LostThird(g)
           F == [l \in T |-> A[l] + B[l]]
           G == [l \in T |-> F[l] + C[l]]
           H == [l \in T |-> G[l] + D[l]]
           K == Lacks(g)
<1>1. IsFiniteSet(T)
  BY PlanningAssumption, FS_Subset
<1>2. \A l \in T : /\ A[l] \in Nat /\ B[l] \in Nat /\ C[l] \in Nat /\ D[l] \in Nat /\ E[l] \in Nat
                   /\ K[l] \in Nat
                   /\ K[l] = A[l] + B[l] + C[l] + D[l] + E[l]
  BY LocationAccounts
<1> HIDE DEF A, B, C, D, E, K
<1>3. \A l \in T : F[l] = A[l] + B[l] /\ G[l] = F[l] + C[l] /\ H[l] = G[l] + D[l]
  OBVIOUS
<1> HIDE DEF F, G, H
<1>4. /\ Termwise(F, A, B, T) /\ Termwise(G, F, C, T) /\ Termwise(H, G, D, T)
      /\ Termwise(K, H, E, T)
  BY <1>2, <1>3 DEF Termwise
<1>5. /\ Sum(F, T) = Sum(A, T) + Sum(B, T) /\ Sum(G, T) = Sum(F, T) + Sum(C, T)
      /\ Sum(H, T) = Sum(G, T) + Sum(D, T) /\ Sum(K, T) = Sum(H, T) + Sum(E, T)
  BY ONLY <1>1, <1>4, SumPlus
<1>6. /\ Sum(A, T) \in Nat /\ Sum(B, T) \in Nat /\ Sum(C, T) \in Nat /\ Sum(D, T) \in Nat
      /\ Sum(E, T) \in Nat /\ Sum(K, T) \in Nat
  <2>1. /\ \A l \in T : A[l] \in Nat
        /\ \A l \in T : B[l] \in Nat
        /\ \A l \in T : C[l] \in Nat
        /\ \A l \in T : D[l] \in Nat
        /\ \A l \in T : E[l] \in Nat
        /\ \A l \in T : K[l] \in Nat
    BY <1>2
  <2>. QED
    BY ONLY <1>1, <2>1, SumNat
<1>. QED
  BY <1>1, <1>5, <1>6 DEF A, B, C, D, E, K

\* What only those in A may give, leaves a scrap for each of them at most.
LEMMA LostToFew ==
    ASSUME NEW S, IsFiniteSet(S), NEW v \in [S \X S -> Nat], NEW l \in S, NEW A \in SUBSET S,
           \A s \in S \ A : v[<<s, l>>] = 0
    PROVE  LostTo(v, S)[l] <= (MinRow - 1) * Cardinality(A)
<1> DEFINE E == TakenBy(Scraps(v, S), S, l)
           c == MinRow - 1
<1>1. LostTo(v, S)[l] = Sum(E, S)
  BY DEF LostTo
<1>2. /\ \A s \in S : E[s] \in Nat /\ E[s] <= c
      /\ \A s \in S \ A : E[s] = 0
      /\ c \in Nat
  <2>1. /\ \A s, t \in S : /\ Scraps(v, S)[<<s, t>>] \in Nat
                           /\ Scraps(v, S)[<<s, t>>] <= MinRow - 1
                           /\ v[<<s, t>>] = 0 => Scraps(v, S)[<<s, t>>] = 0
        /\ MinRow - 1 \in Nat
    BY ScrapsAreSmall
  <2>2. \A s \in S : E[s] = Scraps(v, S)[<<s, l>>]
    BY DEF TakenBy
  <2> HIDE DEF E
  <2>. QED
    BY <2>1, <2>2
<1> HIDE DEF E, c
<1>3. IsFiniteSet(A) /\ IsFiniteSet(S \ A)
  BY FS_Subset
<1>4. Sum(E, S \ A) = 0
  BY ONLY <1>2, <1>3, SumOfZeros
<1>5. Sum(E, A) <= c * Cardinality(A) /\ Sum(E, A) \in Int
  <2>1. \A s \in A : E[s] \in Nat /\ E[s] <= c
    BY <1>2
  <2>2. \A s \in A : E[s] \in Int
    BY <2>1
  <2>. QED
    <3>1. Sum(E, A) <= c * Cardinality(A)
      BY ONLY <1>2, <1>3, <2>1, SumBound
    <3>2. Sum(E, A) \in Int
      BY ONLY <1>3, <2>2, SumType
    <3>. QED
      BY <3>1, <3>2
<1>6. Sum(E, A \cup (S \ A)) = Sum(E, A) + Sum(E, S \ A)
  <2>1. A \cap (S \ A) = {} /\ \A s \in A \cup (S \ A) : E[s] \in Int
    BY <1>2
  <2>. QED
    BY ONLY <1>3, <2>1, SumUnion
<1>7. A \cup (S \ A) = S
  OBVIOUS
<1>8. Sum(E, S) = Sum(E, A) + Sum(E, S \ A)
  BY ONLY <1>6, <1>7, Zenon
<1>9. Sum(E, S) <= c * Cardinality(A)
  BY ONLY <1>4, <1>5, <1>8
<1>. QED
  BY <1>1, <1>9 DEF c

\* The same for the scraps of a phase
LEMMA ScrapsOfFew ==
    ASSUME NEW g \in Gaps, NEW S \in SUBSET Locations, NEW l \in S, NEW A \in SUBSET S,
           g[l] > 0 => \A s \in S : g[s] < 0 => s \in A
    PROVE  /\ ScrapsAt(g, S, l) <= (MinRow - 1) * Cardinality(A)
           /\ ~(g[l] > 0) => ScrapsAt(g, S, l) <= 0
<1> DEFINE v == Match(g, S).moved
<1>1. v \in [S \X S -> Nat] /\ MovedOK(g, S, v) /\ IsFiniteSet(S)
  BY MatchOK, ListsAre DEF LoopInv, State
<1>2. ScrapsAt(g, S, l) = LostTo(v, S)[l]
  BY DEF ScrapsAt
<1>3. \A s \in S \ A : v[<<s, l>>] = 0
  BY <1>1 DEF MovedOK
<1>4. ~(g[l] > 0) => \A s \in S \ {} : v[<<s, l>>] = 0
  BY <1>1 DEF MovedOK
<1> HIDE DEF v
<1>5. LostTo(v, S)[l] <= (MinRow - 1) * Cardinality(A)
  BY ONLY <1>1, <1>3, LostToFew, l \in S, A \in SUBSET S
<1>6. ~(g[l] > 0) => LostTo(v, S)[l] <= 0
  <2>1. ~(g[l] > 0) => LostTo(v, S)[l] <= (MinRow - 1) * Cardinality({})
    <3>1. {} \in SUBSET S
      OBVIOUS
    <3>. QED
      BY ONLY <1>1, <1>4, <3>1, LostToFew, l \in S
  <2>2. (MinRow - 1) * Cardinality({}) = 0
    BY PlanningAssumption, FS_EmptySet
  <2>. QED
    BY <2>1, <2>2
<1>. QED
  BY <1>2, <1>5, <1>6

-----------------------------------------------------------------------------
(* A warehouse and its stores *)

Here(w) == StoresOf(w) \cup {w}

\* w and its stores are locations, w is not one of the stores.
LEMMA HereIs ==
    ASSUME NEW w \in Whs
    PROVE  /\ StoresOf(w) \in SUBSET Locations /\ Here(w) \in SUBSET Locations
           /\ w \in Locations /\ w \notin StoresOf(w)
           /\ \A l \in Here(w) : WhOf[l] = w
           /\ IsFiniteSet(StoresOf(w)) /\ IsFiniteSet(Here(w)) /\ IsFiniteSet(Whs)
           /\ Cardinality(StoresOf(w)) \in Nat /\ Cardinality(Whs) \in Nat \ {0}
           /\ MinRow - 1 \in Nat
<1>1. /\ StoresOf(w) \in SUBSET Locations /\ Here(w) \in SUBSET Locations
      /\ w \in Locations /\ w \notin StoresOf(w)
      /\ \A l \in Here(w) : WhOf[l] = w
      /\ Whs \in SUBSET Locations
  BY PlanningAssumption DEF StoresOf, Here, Locations
<1>2. IsFiniteSet(StoresOf(w)) /\ IsFiniteSet(Here(w)) /\ IsFiniteSet(Whs)
  BY <1>1, PlanningAssumption, FS_Subset
<1>3. Cardinality(StoresOf(w)) \in Nat /\ Cardinality(Whs) \in Nat \ {0}
  BY <1>2, FS_CardinalityType, FS_EmptySet
<1>. QED
  BY <1>1, <1>2, <1>3, PlanningAssumption

\* The sum over a warehouse and its stores
LEMMA SumHere ==
    ASSUME NEW w \in Whs, NEW F \in [Locations -> Nat]
    PROVE  /\ Sum(F, Here(w)) = F[w] + Sum(F, StoresOf(w))
           /\ Sum(F, StoresOf(w)) \in Nat
<1>1. IsFiniteSet(StoresOf(w)) /\ w \notin StoresOf(w)
  BY HereIs
<1>2. \A l \in StoresOf(w) \cup {w} : l \in Locations
  BY HereIs
<1>3. /\ \A l \in StoresOf(w) \cup {w} : F[l] \in Int
      /\ \A l \in StoresOf(w) : F[l] \in Nat
  BY ONLY <1>2, F \in [Locations -> Nat]
<1>4. Sum(F, StoresOf(w) \cup {w}) = F[w] + Sum(F, StoresOf(w))
  BY ONLY <1>1, <1>3, SumAdd
<1>5. Sum(F, StoresOf(w)) \in Nat
  BY ONLY <1>1, <1>3, SumNat
<1>. QED
  BY <1>4, <1>5 DEF Here

\* Scraps among the stores: one for each store but one
LEMMA FirstLoses ==
    ASSUME NEW g \in Gaps, NEW w \in Whs, StoresOf(w) # {}
    PROVE  Sum(LostFirst(g), Here(w)) <= (MinRow - 1) * (Cardinality(StoresOf(w)) - 1)
<1> DEFINE F == LostFirst(g)
           S == StoresOf(w)
           v == Match(g, S).moved
<1>1. F \in [Locations -> Nat]
  BY NumbersAre DEF Numbers
<1>2. F[w] = 0
  BY HereIs, PlanningAssumption DEF LostFirst, ScrapsAt
<1>3. \A l \in S : F[l] = LostTo(v, S)[l]
  <2>1. \A l \in S : l \in Locations /\ WhOf[l] = w
    BY HereIs DEF Here
  <2>. QED
    BY <2>1 DEF LostFirst, ScrapsAt
<1>4. S \in SUBSET Locations
  BY HereIs
<1> HIDE DEF F, S
<1>5. Sum(F, S) = Lost(v, S)
  <2> HIDE DEF v
  <2>1. Sum(F, S) = Sum(LostTo(v, S), S)
    BY ONLY <1>3, SumSame
  <2>. QED
    BY <2>1 DEF Lost
<1>6. Lost(v, S) <= (MinRow - 1) * (Cardinality(S) - 1)
  <2>1. S # {}
    BY DEF S
  <2>. QED
    BY ONLY <1>4, <2>1, g \in Gaps, MatchLoses
<1>7. Sum(F, Here(w)) = F[w] + Sum(F, S) /\ Sum(F, S) \in Nat
  BY ONLY <1>1, w \in Whs, SumHere DEF S
<1>8. Sum(F, Here(w)) = Sum(F, S)
  BY <1>2, <1>7
<1>. QED
  BY <1>5, <1>6, <1>8 DEF F, S

\* Scraps from the body to the stores: one for each store
LEMMA SecondLoses ==
    ASSUME NEW g \in Gaps, NEW w \in Whs
    PROVE  Sum(LostSecond(g), Here(w)) <= (MinRow - 1) * Cardinality(StoresOf(w))
<1> DEFINE F == LostSecond(g)
           S == StoresOf(w)
           h == First(g).gap
           sb == Scope(h)
           Z == sb[w]
           c == MinRow - 1
<1>1. F \in [Locations -> Nat]
  BY NumbersAre DEF Numbers
<1>2. h \in Gaps
  BY PhasesAre DEF PhasesFlow
<1>3. /\ Z \in SUBSET Locations
      /\ Z # {} => h[w] < 0 /\ Z = {w} \cup {s \in S : h[s] > 0}
  <2>1. OwnScopes(sb)
    BY ScopesAreOwn
  <2> HIDE DEF h
  <2>2. Z = IF h[w] < 0 THEN Refilled(h, w) ELSE {}
    BY DEF Scope
  <2>. QED
    BY <2>1, <2>2 DEF OwnScopes, Refilled
<1>4. \A l \in Here(w) : F[l] = ScrapsAt(h, Z, l)
  BY HereIs DEF LostSecond
<1> HIDE DEF F, h, sb, Z
<1>5. c \in Nat
  BY PlanningAssumption
<1>6. F[w] = 0
  <2>1. CASE w \in Z
    <3>1. ~(h[w] > 0)
      BY <1>2, <1>3, <2>1 DEF Gaps, Locations
    <3>2. ScrapsAt(h, Z, w) <= 0
      BY <1>2, <1>3, <2>1, <3>1, ScrapsOfFew
    <3>3. F[w] <= 0 /\ F[w] \in Nat
      BY <1>1, <1>4, <3>2, HereIs DEF Here
    <3>. QED
      BY <3>3
  <2>2. CASE w \notin Z
    BY <1>4, <2>2 DEF Here, ScrapsAt
  <2>. QED
    BY <2>1, <2>2
<1>7. ASSUME NEW l \in S
      PROVE  F[l] \in Nat /\ F[l] <= c
  <2>1. l \in Locations /\ l \in Here(w) /\ l # w
    BY HereIs DEF Here
  <2>2. F[l] \in Nat /\ F[l] = ScrapsAt(h, Z, l)
    BY <1>1, <1>4, <2>1
  <2>3. CASE l \in Z
    <3>1. h[w] < 0 /\ Z = {w} \cup {s \in S : h[s] > 0}
      BY <1>3, <2>3
    <3>2. \A s \in Z : h[s] < 0 => s \in {w}
      <4>1. \A s \in S : h[s] \in Int
        BY <1>2, HereIs DEF Gaps
      <4>. QED
        BY <3>1, <4>1
    <3>3. {w} \in SUBSET Z
      BY <3>1
    <3>4. ScrapsAt(h, Z, l) <= (MinRow - 1) * Cardinality({w})
      BY ONLY <1>2, <1>3, <2>3, <3>2, <3>3, ScrapsOfFew
    <3>5. Cardinality({w}) = 1
      BY FS_Singleton
    <3>. QED
      BY <1>5, <2>2, <3>4, <3>5
  <2>4. CASE l \notin Z
    BY <1>5, <2>2, <2>4 DEF ScrapsAt
  <2>. QED
    BY <2>3, <2>4
<1>8. Sum(F, S) <= c * Cardinality(S)
  <2>1. IsFiniteSet(S)
    BY HereIs
  <2> HIDE DEF c, S
  <2>. QED
    BY ONLY <1>5, <1>7, <2>1, SumBound
<1>9. Sum(F, Here(w)) = F[w] + Sum(F, S) /\ Sum(F, S) \in Nat
  BY ONLY <1>1, w \in Whs, SumHere
<1>10. Sum(F, Here(w)) = Sum(F, S)
  BY <1>6, <1>9
<1>. QED
  BY <1>8, <1>10 DEF F

\* Scraps from other bodies: one for each
LEMMA ThirdLoses ==
    ASSUME NEW g \in Gaps, NEW w \in Whs
    PROVE  Sum(LostThird(g), Here(w)) <= (MinRow - 1) * (Cardinality(Whs) - 1)
<1> DEFINE F == LostThird(g)
           S == StoresOf(w)
           k == Second(g).gap
           A == Whs \ {w}
<1>1. F \in [Locations -> Nat]
  BY NumbersAre DEF Numbers
<1>2. k \in Gaps /\ Whs \in SUBSET Locations
  BY PhasesAre DEF PhasesFlow, Locations
<1>3. \A l \in Here(w) : F[l] = ScrapsAt(k, Whs, l)
  BY HereIs DEF LostThird
<1> HIDE DEF F, k
<1>4. \A l \in S : F[l] = 0
  BY <1>3, PlanningAssumption DEF Here, StoresOf, ScrapsAt
<1>5. Sum(F, S) = 0
  <2>1. IsFiniteSet(S)
    BY HereIs
  <2>. QED
    BY ONLY <1>4, <2>1, SumOfZeros
<1>6. F[w] <= (MinRow - 1) * Cardinality(A)
  <2>1. A \in SUBSET Whs /\ (k[w] > 0 => \A s \in Whs : k[s] < 0 => s \in A)
    BY <1>2 DEF Gaps
  <2>2. ScrapsAt(k, Whs, w) <= (MinRow - 1) * Cardinality(A)
    BY ONLY <1>2, <2>1, w \in Whs, ScrapsOfFew
  <2>3. w \in Here(w)
    BY DEF Here
  <2>. QED
    BY <1>3, <2>2, <2>3
<1>7. Cardinality(A) = Cardinality(Whs) - 1
  BY HereIs, FS_RemoveElement
<1>8. Sum(F, Here(w)) = F[w] + Sum(F, S)
  BY ONLY <1>1, w \in Whs, SumHere
<1>9. F[w] \in Nat
  BY <1>1, HereIs
<1>10. Sum(F, Here(w)) = F[w]
  BY <1>5, <1>8, <1>9
<1>. QED
  BY <1>6, <1>7, <1>10 DEF F

-----------------------------------------------------------------------------
(* What a plan brings *)

Into(R, T) == {r \in R : r.tgt \in T}

\* A row alone carries its quantity.
LEMMA OneCarried ==
    ASSUME NEW r, r.qty \in Nat
    PROVE  IsFiniteSet({r}) /\ Carried({r}) = r.qty
<1> DEFINE F == Qtys({r})
<1>1. Carried({r}) = Sum(F, {r})
  BY CarriedIs
<1>2. F[r] = r.qty
  BY DEF Qtys
<1> HIDE DEF F
<1>3. Sum(F, {} \cup {r}) = F[r] + Sum(F, {})
  <2>1. IsFiniteSet({}) /\ r \notin {} /\ \A x \in {} \cup {r} : F[x] \in Int
    BY <1>2, FS_EmptySet
  <2>. QED
    BY ONLY <2>1, SumAdd
<1>4. {} \cup {r} = {r}
  OBVIOUS
<1>5. Sum(F, {r}) = F[r] + Sum(F, {})
  BY ONLY <1>3, <1>4, Zenon
<1>6. Sum(F, {}) = 0
  BY SumEmpty
<1>. QED
  BY <1>1, <1>2, <1>5, <1>6, FS_Singleton

\* What comes to a set of locations is what comes to each of them.
LEMMA IntoIsSum ==
    ASSUME NEW R, AreRows(R), NEW T \in SUBSET Locations,
           \A l \in Locations : IsFiniteSet(To(R, l)),
           NEW F, \A l \in T : F[l] = Carried(To(R, l))
    PROVE  IsFiniteSet(Into(R, T)) /\ Carried(Into(R, T)) = Sum(F, T)
<1> DEFINE Q == {s \in SUBSET T : IsFiniteSet(Into(R, s)) /\ Carried(Into(R, s)) = Sum(F, s)}
<1>0. IsFiniteSet(T)
  BY PlanningAssumption, FS_Subset
<1>1. {} \in Q
  <2>1. Into(R, {}) = {}
    BY DEF Into
  <2>2. IsFiniteSet(Into(R, {})) /\ Carried(Into(R, {})) = 0
    BY <2>1, NoneCarried, FS_EmptySet
  <2>. QED
    BY <2>2, SumEmpty
<1>2. ASSUME NEW s \in SUBSET T, NEW x \in T, s \in Q
      PROVE  s \cup {x} \in Q
  <2>1. CASE x \in s
    <3>1. s \cup {x} = s
      BY <2>1
    <3>. QED
      BY <1>2, <3>1
  <2>2. CASE x \notin s
    <3> DEFINE A == Into(R, s)
               B == To(R, x)
    <3>1. IsFiniteSet(A) /\ IsFiniteSet(B) /\ Carried(A) = Sum(F, s)
      BY <1>2
    <3>2. A \cap B = {} /\ Into(R, s \cup {x}) = A \cup B /\ \A r \in A \cup B : r.qty \in Nat
      BY <2>2 DEF Into, To, AreRows
    <3>3. F[x] = Carried(B) /\ \A l \in T : F[l] \in Int
      <4>1. ASSUME NEW l \in T
            PROVE  Carried(To(R, l)) \in Nat
        <5>1. IsFiniteSet(To(R, l)) /\ \A r \in To(R, l) \cup To(R, l) : r.qty \in Nat
          BY DEF To, AreRows
        <5>. QED
          BY ONLY <5>1, CarriedTogether
      <4>. QED
        BY <4>1
    <3> HIDE DEF A, B
    <3>4. Carried(A \cup B) = Carried(A) + Carried(B) /\ IsFiniteSet(A \cup B)
      BY ONLY <3>1, <3>2, CarriedApart, FS_Union
    <3>5. Sum(F, s \cup {x}) = F[x] + Sum(F, s)
      <4>1. IsFiniteSet(s) /\ \A y \in s \cup {x} : F[y] \in Int
        BY <1>0, <3>3, FS_Subset
      <4>. QED
        BY ONLY <2>2, <4>1, SumAdd
    <3>6. Sum(F, s) \in Int
      <4>1. IsFiniteSet(s) /\ \A y \in s : F[y] \in Int
        BY <1>0, <3>3, FS_Subset
      <4>. QED
        BY ONLY <4>1, SumType
    <3>7. /\ IsFiniteSet(Into(R, s \cup {x}))
          /\ Carried(Into(R, s \cup {x})) = Sum(F, s \cup {x})
      <4>1. Carried(A) + Carried(B) = F[x] + Sum(F, s)
        BY ONLY <3>1, <3>3, <3>6, x \in T
      <4>2. Into(R, s \cup {x}) = A \cup B
        BY <3>2
      <4>. QED
        BY ONLY <3>4, <3>5, <4>1, <4>2, Zenon
    <3>. QED
      BY <3>7
  <2>. QED
    BY <2>1, <2>2
<1>3. SUBSET T \subseteq Q
  <2> HIDE DEF Q
  <2>. QED
    BY <1>0, <1>1, <1>2, BySets
<1>. QED
  BY <1>3

\* What a warehouse and its stores lack, as a sum over all of them
LEMMA LackIs ==
    ASSUME NEW g \in Gaps, NEW w \in Whs
    PROVE  /\ SumOver({l \in Here(w) : g[l] > 0}, LAMBDA l : g[l]) = Sum(Lacks(g), Here(w))
           /\ Residual(g, w) = Sum(Lacks(g), Here(w))
<1> DEFINE T == {l \in Here(w) : g[l] > 0}
           F == Lacks(g)
           Z == Here(w) \ T
<1>1. /\ SumOver(T, LAMBDA l : g[l]) = Sum(g, T)
      /\ Residual(g, w) = Sum(g, T)
  BY Zenon DEF Residual, SumOver, Sum, Total, Here
<1>2. IsFiniteSet(T) /\ IsFiniteSet(Z) /\ T \cap Z = {} /\ T \cup Z = Here(w)
  BY HereIs, FS_Subset
<1>3. /\ \A l \in T : g[l] = F[l] /\ F[l] \in Int
      /\ \A l \in Z : F[l] = 0 /\ F[l] \in Int
  <2>1. \A l \in Here(w) : l \in Locations /\ g[l] \in Int
    BY HereIs DEF Gaps
  <2>2. \A l \in Here(w) : F[l] = IF 0 > g[l] THEN 0 ELSE g[l]
    BY <2>1 DEF Lacks, Higher
  <2> HIDE DEF F
  <2>. QED
    BY <2>1, <2>2
<1> HIDE DEF T, F, Z
<1>4. Sum(g, T) = Sum(F, T)
  BY ONLY <1>3, SumSame
<1>5. Sum(F, Z) = 0
  BY ONLY <1>2, <1>3, SumOfZeros
<1>6. Sum(F, T \cup Z) = Sum(F, T) + Sum(F, Z)
  <2>1. \A l \in T \cup Z : F[l] \in Int
    BY <1>3
  <2>. QED
    BY ONLY <1>2, <2>1, SumUnion
<1>7. Sum(F, T) \in Int
  <2>1. \A l \in T : F[l] \in Int
    BY <1>3
  <2>. QED
    BY ONLY <1>2, <2>1, SumType
<1>8. Sum(F, Here(w)) = Sum(F, T)
  <2>1. Sum(F, Here(w)) = Sum(F, T) + Sum(F, Z)
    BY ONLY <1>2, <1>6, Zenon
  <2>. QED
    BY ONLY <1>5, <1>7, <2>1
<1>. QED
  BY <1>1, <1>4, <1>8 DEF T, F

\* The publisher's order is for all that a warehouse with stores lacks, if that is
\* enough for an order.
LEMMA OrderedFor ==
    ASSUME NEW h \in Gaps, NEW w \in Whs, StoresOf(w) # {}
    PROVE  /\ IsFiniteSet(Into(Orders(h), Here(w)))
           /\ Carried(Into(Orders(h), Here(w))) \in Nat
           /\ Residual(h, w) - Carried(Into(Orders(h), Here(w))) <= MinRow - 1
<1> DEFINE B == Into(Orders(h), Here(w))
           x == Residual(h, w)
           b == Bought(h, w)
<1>1. x \in Int /\ MinRow \in Nat /\ MinEoq \in Nat
  BY ResidualIsInt, PlanningAssumption
<1>2. ASSUME NEW r \in B
      PROVE  r = b
  <2>1. r \in Orders(h) /\ r.tgt \in Here(w)
    BY DEF Into
  <2>2. r.tgt \in Whs /\ r = Bought(h, r.tgt)
    BY <2>1, OrdersAre
  <2>3. r.tgt = w
    <3>1. Whs \cap StoresOf(w) = {}
      BY PlanningAssumption DEF StoresOf
    <3>. QED
      BY <2>1, <2>2, <3>1 DEF Here
  <2>. QED
    BY <2>2, <2>3
<1>3. CASE x >= MinRow
  <2>1. b \in B
    <3>1. b \in Orders(h)
      BY <1>3 DEF Orders
    <3>2. b.tgt = w
      BY DEF Bought
    <3> HIDE DEF b
    <3>. QED
      BY <3>1, <3>2 DEF Into, Here
  <2>2. B = {b}
    BY <1>2, <2>1
  <2>3. b.qty \in Nat /\ x <= b.qty
    <3>1. b.qty = Higher(x, MinEoq)
      BY DEF Bought
    <3> HIDE DEF x, b
    <3>. QED
      BY <1>1, <3>1 DEF Higher
  <2> HIDE DEF x, b, B
  <2>4. IsFiniteSet(B) /\ Carried(B) = b.qty
    BY <2>2, <2>3, OneCarried
  <2>5. Carried(B) \in Nat /\ x - Carried(B) <= MinRow - 1
    BY <1>1, <2>3, <2>4, PlanningAssumption
  <2>. QED
    BY <2>4, <2>5 DEF B, x
<1>4. CASE ~(x >= MinRow)
  <2>1. B = {}
    <3>1. ASSUME NEW r \in B
          PROVE  FALSE
      <4>1. PICK v \in Whs : r = Bought(h, v) /\ Residual(h, v) >= MinRow
        BY DEF Into, Orders
      <4>2. r.tgt = v /\ r.tgt = w
        BY <1>2, <4>1 DEF Bought
      <4>. QED
        BY <1>4, <4>1, <4>2
    <3>. QED
      BY <3>1
  <2> HIDE DEF B, x
  <2>2. IsFiniteSet(B) /\ Carried(B) = 0
    BY <2>1, NoneCarried, FS_EmptySet
  <2>3. Carried(B) \in Nat /\ x - Carried(B) <= MinRow - 1
    BY <1>1, <1>4, <2>2
  <2>. QED
    BY <2>2, <2>3 DEF B, x
<1>. QED
  BY <1>3, <1>4

\* So a plan makes up for what a warehouse and its stores lack, but for scraps.
LEMMA DailyPlanSupplies ==
    ASSUME NEW g \in Gaps, NEW w \in Whs, StoresOf(w) # {}
    PROVE  SumOver({l \in Here(w) : g[l] > 0}, LAMBDA l : g[l])
               - Carried(Into(DailyPlan(g), Here(w)))
             <= (MinRow - 1) * (2 * Cardinality(StoresOf(w)) + Cardinality(Whs) - 2 + 1)
<1> DEFINE T  == Here(w)
           h  == Third(g).gap
           A  == Into(Moves(g), T)
           B  == Into(Orders(h), T)
           x  == Sum(Lacks(g), T)
           y  == Sum(Lacks(h), T)
           a  == Carried(A)
           b  == Carried(B)
           d1 == Sum(LostFirst(g), T)
           d2 == Sum(LostSecond(g), T)
           d3 == Sum(LostThird(g), T)
           c  == MinRow - 1
           n  == Cardinality(StoresOf(w))
           m  == Cardinality(Whs)
<1>1. h \in Gaps /\ Flow(g, h, Moves(g))
  BY PhasesAre, MovesFlow DEF PhasesFlow
<1>2. T \in SUBSET Locations /\ c \in Nat /\ n \in Nat /\ m \in Nat
  BY HereIs
<1>3. /\ SumOver({l \in Here(w) : g[l] > 0}, LAMBDA l : g[l]) = x
      /\ Residual(h, w) = y
  BY <1>1, LackIs
<1>4. IsFiniteSet(A) /\ a = Sum(Got(g), T)
  <2>1. AreRows(Moves(g)) /\ \A l \in Locations : IsFiniteSet(To(Moves(g), l))
    BY <1>1 DEF Flow, FlowAt
  <2>2. \A l \in T : Got(g)[l] = Carried(To(Moves(g), l))
    BY <1>2 DEF Got
  <2> HIDE DEF T
  <2>. QED
    BY ONLY <1>2, <2>1, <2>2, IntoIsSum
<1>5. /\ x \in Nat /\ y \in Nat /\ Sum(Got(g), T) \in Nat
      /\ d1 \in Nat /\ d2 \in Nat /\ d3 \in Nat
      /\ x = y + Sum(Got(g), T) + d1 + d2 + d3
  <2> HIDE DEF T
  <2>. QED
    BY <1>2, SetAccounts
<1>6. IsFiniteSet(B) /\ b \in Nat /\ y - b <= c
  BY <1>1, <1>3, OrderedFor
<1>7. d1 <= c * (n - 1) /\ d2 <= c * n /\ d3 <= c * (m - 1)
  BY FirstLoses, SecondLoses, ThirdLoses
<1>8. Carried(Into(DailyPlan(g), T)) = a + b
  <2>1. /\ \A r \in A : r.src # None /\ r.qty \in Nat
        /\ \A r \in B : r.src = None /\ r.qty \in Nat
    BY <1>1, OrdersAre, PlanningAssumption DEF Flow, AreRows, Into
  <2>2. A \cap B = {}
    BY <2>1
  <2>3. Into(DailyPlan(g), T) = A \cup B
    BY DailyPlanIs DEF Into
  <2>4. \A r \in A \cup B : r.qty \in Nat
    BY <2>1
  <2> HIDE DEF A, B
  <2>5. Carried(A \cup B) = Carried(A) + Carried(B)
    BY ONLY <1>4, <1>6, <2>2, <2>4, CarriedApart
  <2>. QED
    BY <2>3, <2>5
<1> DEFINE z == Carried(Into(DailyPlan(g), T))
<1> HIDE DEF T, h, A, B, x, y, a, b, d1, d2, d3, c, n, m, z
<1>9. x - z <= c + d1 + d2 + d3
  <2>1. z = a + b
    BY <1>8 DEF z
  <2>2. a \in Nat /\ x = y + a + d1 + d2 + d3
    BY <1>4, <1>5
  <2>. QED
    BY ONLY <1>2, <1>5, <1>6, <2>1, <2>2
<1>10. /\ c * (n - 1) = c * n - c /\ c * (m - 1) = c * m - c
       /\ c * (2 * n + m - 2 + 1) = c * n + c * n + c * m - c
       /\ c * n \in Int /\ c * m \in Int
  BY ONLY <1>2
<1>11. x - z <= c * (2 * n + m - 2 + 1)
  <2> DEFINE cn == c * n
             cm == c * m
             e  == c * (2 * n + m - 2 + 1)
  <2>1. d1 <= cn - c /\ d2 <= cn /\ d3 <= cm - c /\ e = cn + cn + cm - c
    BY <1>7, <1>10
  <2>2. cn \in Int /\ cm \in Int /\ x \in Nat /\ z \in Nat
    BY <1>4, <1>5, <1>6, <1>8, <1>10 DEF z
  <2> HIDE DEF cn, cm, e
  <2>3. x - z <= e
    BY ONLY <1>2, <1>5, <1>9, <2>1, <2>2
  <2>. QED
    BY <2>3 DEF e
<1>. QED
  BY <1>3, <1>11 DEF x, z, c, n, m, T

\* ShortagePlanned: however many warehouses and stores, a plan makes up for all that a
\* warehouse and its stores lack but for so many scraps.
THEOREM ShortagesArePlanned == Spec => []ShortagePlanned
<1>1. ASSUME PlanTypes
      PROVE  ShortagePlanned
  <2>1. ASSUME NEW p \in Planners, plan[p].step = "insert", plan[p].book # "INACTIVE",
               NEW w \in {v \in Whs : StoresOf(v) # {}}
        PROVE  LET here  == StoresOf(w) \cup {w}
                   lack  == SumOver({l \in here : plan[p].gap[l] > 0},
                                    LAMBDA l : plan[p].gap[l])
                   in    == SumOver({r \in plan[p].rows : r.tgt \in here}, RowQty)
                   pairs == 2 * Cardinality(StoresOf(w)) + Cardinality(Whs) - 2
               IN  lack - in <= (MinRow - 1) * (pairs + 1)
    <3> DEFINE g == plan[p].gap
    <3>1. g \in Gaps /\ plan[p].rows = DailyPlan(g)
      BY <1>1, <2>1 DEF PlanTypes, PlansAreMade
    <3>2. w \in Whs /\ StoresOf(w) # {}
      BY <2>1
    <3> HIDE DEF g
    <3>3. SumOver({l \in Here(w) : g[l] > 0}, LAMBDA l : g[l])
              - Carried(Into(DailyPlan(g), Here(w)))
            <= (MinRow - 1) * (2 * Cardinality(StoresOf(w)) + Cardinality(Whs) - 2 + 1)
      BY ONLY <3>1, <3>2, DailyPlanSupplies
    <3>. QED
      BY <3>1, <3>3, Zenon DEF g, Carried, Into, Here
  <2>. QED
    BY <2>1, Zenon DEF ShortagePlanned
<1>. QED
  BY <1>1, PlanTypesHold, PTL

-----------------------------------------------------------------------------
(* What is laid end to end *)

\* The locations of a list that come before its x-th
Upto(q, x) == {q[z] : z \in {y \in 1 .. Len(q) : y < x}}

\* q is a list of different locations of T.
ListOf(q, T) ==
    /\ Len(q) \in Nat /\ q \in [1 .. Len(q) -> T]
    /\ \A x, y \in 1 .. Len(q) : q[x] = q[y] => x = y

\* A is where each of the pieces of lengths f begins when they are laid end to end.
Marks(A, f, n) ==
    /\ A[1] = 0
    /\ \A x \in 1 .. n + 1 : A[x] \in Nat
    /\ \A x \in 1 .. n : A[x + 1] = A[x] + f[x] /\ f[x] \in Nat
    /\ \A x, y \in 1 .. n + 1 : x <= y => A[x] <= A[y]

\* Sums over the beginnings of a list are such marks.
LEMMA MarksAre ==
    ASSUME NEW T, IsFiniteSet(T), NEW q, ListOf(q, T), NEW F, \A l \in T : F[l] \in Nat
    PROVE  Marks([x \in 1 .. Len(q) + 1 |-> Sum(F, Upto(q, x))],
                 [x \in 1 .. Len(q) |-> F[q[x]]], Len(q))
<1> DEFINE n == Len(q)
           A == [x \in 1 .. n + 1 |-> Sum(F, Upto(q, x))]
           f == [x \in 1 .. n |-> F[q[x]]]
<1>0. n \in Nat /\ \A x \in 1 .. n : q[x] \in T
  BY DEF ListOf
<1>1. ASSUME NEW x \in 1 .. n + 1
      PROVE  /\ Upto(q, x) \in SUBSET T /\ IsFiniteSet(Upto(q, x))
             /\ \A l \in Upto(q, x) : F[l] \in Nat
             /\ \A l \in Upto(q, x) : F[l] \in Int
  <2>1. Upto(q, x) \in SUBSET T
    BY <1>0 DEF Upto
  <2>2. IsFiniteSet(Upto(q, x))
    BY ONLY <2>1, FS_Subset, IsFiniteSet(T)
  <2> DEFINE U == Upto(q, x)
  <2>3. \A l \in U : l \in T
    BY <2>1
  <2> HIDE DEF U
  <2>4. \A l \in U : F[l] \in Nat /\ F[l] \in Int
    BY <2>3
  <2>. QED
    BY <2>1, <2>2, <2>4 DEF U
<1>2. Upto(q, 1) = {}
  BY <1>0 DEF Upto
<1>3. A[1] = 0
  <2>1. A[1] = Sum(F, Upto(q, 1))
    BY <1>0
  <2>2. Sum(F, Upto(q, 1)) = Sum(F, {})
    BY ONLY <1>2, Zenon
  <2>3. Sum(F, {}) = 0
    BY ONLY SumEmpty
  <2> HIDE DEF A
  <2>. QED
    BY <2>1, <2>2, <2>3
<1>4. ASSUME NEW x \in 1 .. n + 1
      PROVE  A[x] \in Nat
  <2>1. Sum(F, Upto(q, x)) \in Nat
    BY ONLY <1>1, x \in 1 .. n + 1, SumNat
  <2>. QED
    BY <2>1
<1>5. ASSUME NEW x \in 1 .. n
      PROVE  A[x + 1] = A[x] + f[x] /\ f[x] \in Nat
  <2>1. x \in 1 .. n + 1 /\ x + 1 \in 1 .. n + 1
    BY <1>0
  <2>2. Upto(q, x + 1) = Upto(q, x) \cup {q[x]} /\ q[x] \notin Upto(q, x)
    <3>1. \A z \in 1 .. n : z < x + 1 <=> z < x \/ z = x
      BY <1>0
    <3>2. \A z \in 1 .. n : z < x => q[z] # q[x]
      BY <1>0 DEF ListOf
    <3>. QED
      BY <3>1, <3>2 DEF Upto
  <2>3. Sum(F, Upto(q, x) \cup {q[x]}) = F[q[x]] + Sum(F, Upto(q, x))
    <3> DEFINE U == Upto(q, x)
    <3>1. IsFiniteSet(U) /\ q[x] \notin U /\ \A l \in U \cup {q[x]} : F[l] \in Int
      BY <1>0, <1>1, <2>1, <2>2
    <3> HIDE DEF U
    <3>2. Sum(F, U \cup {q[x]}) = F[q[x]] + Sum(F, U)
      BY ONLY <3>1, SumAdd
    <3>. QED
      BY <3>2 DEF U
  <2>4. A[x] = Sum(F, Upto(q, x)) /\ A[x + 1] = Sum(F, Upto(q, x + 1)) /\ f[x] = F[q[x]]
    BY <2>1
  <2>5. A[x] \in Nat /\ F[q[x]] \in Nat
    BY <1>0, <1>4, <2>1
  <2> HIDE DEF A, f
  <2>6. A[x + 1] = F[q[x]] + A[x]
    BY <2>2, <2>3, <2>4
  <2>. QED
    BY <2>4, <2>5, <2>6
<1>6. ASSUME NEW x \in 1 .. n + 1, NEW y \in 1 .. n + 1, x <= y
      PROVE  A[x] <= A[y]
  <2>1. Upto(q, x) \in SUBSET Upto(q, y)
    <3>1. \A z \in 1 .. n : z < x => z < y
      BY <1>0, <1>6
    <3>. QED
      BY <3>1 DEF Upto
  <2>2. Sum(F, Upto(q, x)) <= Sum(F, Upto(q, y))
    BY ONLY <1>1, <2>1, y \in 1 .. n + 1, SumPart
  <2>. QED
    BY <2>2
<1> HIDE DEF A, f, n
<1>7. Marks(A, f, n)
  BY <1>3, <1>4, <1>5, <1>6 DEF Marks
<1>. QED
  BY <1>7 DEF A, f, n

\* A sorted list lists what comes before in the order.
LEMMA BeforeIsUpto ==
    ASSUME NEW g \in Gaps, NEW T \in SUBSET Locations, NEW x \in 1 .. Len(Sorted(g, T))
    PROVE  {m \in T \ {Sorted(g, T)[x]} : Ahead(g, m, Sorted(g, T)[x])} = Upto(Sorted(g, T), x)
<1> DEFINE q == Sorted(g, T)
           n == Cardinality(T)
<1>1. /\ n \in Nat /\ q \in [1 .. n -> T] /\ Len(q) = n
      /\ \A y \in T : \E i \in 1 .. n : q[i] = y
      /\ \A i, j \in 1 .. n : q[i] = q[j] => i = j
      /\ \A i, j \in 1 .. n : i < j => Ahead(g, q[i], q[j])
  BY SortedIs
<1>a. x \in 1 .. n
  BY <1>1
<1> HIDE DEF q, n
<1>2. ASSUME NEW y \in 1 .. n
      PROVE  Ahead(g, q[y], q[x]) /\ q[y] # q[x] <=> y < x
  <2>1. q[y] \in Locations /\ q[x] \in Locations
    BY <1>1, <1>a
  <2>2. CASE y < x
    BY <1>1, <1>a, <2>2
  <2>3. CASE y = x
    BY <1>a, <2>3
  <2>4. CASE x < y
    <3>1. Ahead(g, q[x], q[y]) /\ ~(y < x)
      BY <1>1, <1>a, <2>4
    <3>2. ~Ahead(g, q[y], q[x])
      BY <2>1, <3>1, AheadOrders
    <3>. QED
      BY <3>1, <3>2
  <2>. QED
    BY <1>1, <1>a, <2>2, <2>3, <2>4
<1>3. {m \in T \ {q[x]} : Ahead(g, m, q[x])} = Upto(q, x)
  <2>1. ASSUME NEW m \in T, m # q[x], Ahead(g, m, q[x])
        PROVE  m \in Upto(q, x)
    <3>1. PICK y \in 1 .. n : q[y] = m
      BY <1>1
    <3>2. y < x
      BY <1>2, <2>1, <3>1
    <3>. QED
      BY <1>1, <3>1, <3>2 DEF Upto
  <2>2. ASSUME NEW m \in Upto(q, x)
        PROVE  m \in T /\ m # q[x] /\ Ahead(g, m, q[x])
    <3>1. PICK y \in 1 .. n : y < x /\ m = q[y]
      BY <1>1 DEF Upto
    <3>. QED
      BY <1>1, <1>2, <3>1
  <2>. QED
    BY <2>1, <2>2
<1>. QED
  BY <1>3 DEF q

-----------------------------------------------------------------------------
(* The greedy loop goes along both *)

\* Where what each giver can spare, and what each taker lacks, begins when it is laid
\* end to end
Spare(g) == [l \in Locations |-> -g[l]]

GiveMarks(g, S) ==
    [x \in 1 .. Len(Givers(g, S)) + 1 |-> Sum(Spare(g), Upto(Givers(g, S), x))]
NeedMarks(g, S) ==
    [y \in 1 .. Len(Takers(g, S)) + 1 |-> Sum(g, Upto(Takers(g, S), y))]

\* These are marks.
LEMMA MarksOfLists ==
    ASSUME NEW g \in Gaps, NEW S \in SUBSET Locations
    PROVE  /\ Marks(GiveMarks(g, S),
                    [x \in 1 .. Len(Givers(g, S)) |-> -g[Givers(g, S)[x]]], Len(Givers(g, S)))
           /\ Marks(NeedMarks(g, S),
                    [y \in 1 .. Len(Takers(g, S)) |-> g[Takers(g, S)[y]]], Len(Takers(g, S)))
<1> DEFINE P == {l \in S : g[l] < 0}
           R == {l \in S : g[l] > 0}
           give == Givers(g, S)
           need == Takers(g, S)
           F == Spare(g)
<1>1. /\ ListOf(give, P) /\ IsFiniteSet(P)
      /\ ListOf(need, R) /\ IsFiniteSet(R)
  <2>1. P \in SUBSET Locations /\ R \in SUBSET Locations
    OBVIOUS
  <2>2. give = Sorted(g, P) /\ need = Sorted(g, R)
    BY DEF Givers, Takers
  <2> HIDE DEF P, R, give, need
  <2>. QED
    BY <2>1, <2>2, SortedIs DEF ListOf
<1>2. (\A l \in P : F[l] \in Nat /\ F[l] = -g[l]) /\ (\A l \in R : g[l] \in Nat)
  BY DEF Spare, Gaps
<1> HIDE DEF P, R, F, give, need
<1>3. /\ Marks([x \in 1 .. Len(give) + 1 |-> Sum(F, Upto(give, x))],
               [x \in 1 .. Len(give) |-> F[give[x]]], Len(give))
      /\ Marks([y \in 1 .. Len(need) + 1 |-> Sum(g, Upto(need, y))],
               [y \in 1 .. Len(need) |-> g[need[y]]], Len(need))
  BY <1>1, <1>2, MarksAre
<1>4. [x \in 1 .. Len(give) |-> F[give[x]]] = [x \in 1 .. Len(give) |-> -g[give[x]]]
  <2>1. \A x \in 1 .. Len(give) : give[x] \in P
    BY <1>1 DEF ListOf
  <2>2. \A x \in 1 .. Len(give) : F[give[x]] = -g[give[x]]
    BY <1>2, <2>1
  <2>. QED
    BY <2>2
<1>. QED
  BY <1>3, <1>4 DEF GiveMarks, NeedMarks, F, give, need

\* What the stretches from a1 to a2 and from b1 to b2 have in common up to m
Shared(a1, a2, b1, b2, m) == Higher(0, Lower(Lower(a2, b2), m) - Higher(a1, b1))

\* The loop has dealt with the first m of both.
LaidUpTo(g, S, b, m) ==
    LET give == Givers(g, S)
        need == Takers(g, S)
        A    == GiveMarks(g, S)
        B    == NeedMarks(g, S)
    IN  /\ A[b.i] <= m /\ B[b.j] <= m
        /\ m = A[b.i] \/ m = B[b.j]
        /\ b.i <= Len(give) => m <= A[b.i + 1] /\ b.gap[give[b.i]] = m - A[b.i + 1]
        /\ b.j <= Len(need) => m <= B[b.j + 1] /\ b.gap[need[b.j]] = B[b.j + 1] - m
        /\ \A x \in 1 .. Len(give) : x > b.i => b.gap[give[x]] = g[give[x]]
        /\ \A y \in 1 .. Len(need) : y > b.j => b.gap[need[y]] = g[need[y]]
        /\ \A x \in 1 .. Len(give), y \in 1 .. Len(need) :
              b.moved[<<give[x], need[y]>>] = Shared(A[x], A[x + 1], B[y], B[y + 1], m)

LaidOK(g, S, b) == \E m \in Nat : LaidUpTo(g, S, b, m)

\* A list of marks, entry by entry
LEMMA MarkFacts ==
    ASSUME NEW g \in Gaps, NEW S \in SUBSET Locations
    PROVE  LET give == Givers(g, S)
               need == Takers(g, S)
               A    == GiveMarks(g, S)
               B    == NeedMarks(g, S)
           IN  /\ Len(give) \in Nat /\ Len(need) \in Nat
               /\ A[1] = 0 /\ B[1] = 0
               /\ \A x \in 1 .. Len(give) + 1 : A[x] \in Nat
               /\ \A y \in 1 .. Len(need) + 1 : B[y] \in Nat
               /\ \A x \in 1 .. Len(give) : g[give[x]] = A[x] - A[x + 1]
               /\ \A y \in 1 .. Len(need) : g[need[y]] = B[y + 1] - B[y]
               /\ \A x, z \in 1 .. Len(give) + 1 : x <= z => A[x] <= A[z]
               /\ \A y, z \in 1 .. Len(need) + 1 : y <= z => B[y] <= B[z]
<1> DEFINE give == Givers(g, S)
           need == Takers(g, S)
           A    == GiveMarks(g, S)
           B    == NeedMarks(g, S)
           f    == [x \in 1 .. Len(give) |-> -g[give[x]]]
           h    == [y \in 1 .. Len(need) |-> g[need[y]]]
<1>1. Marks(A, f, Len(give)) /\ Marks(B, h, Len(need))
  BY MarksOfLists
<1>2. Len(give) \in Nat /\ Len(need) \in Nat
  BY ListsAre
<1>3. /\ \A x \in 1 .. Len(give) : f[x] = -g[give[x]] /\ g[give[x]] \in Int
      /\ \A y \in 1 .. Len(need) : h[y] = g[need[y]]
  <2>1. \A x \in 1 .. Len(give) : give[x] \in Locations
    BY ListsAre
  <2>. QED
    BY <2>1 DEF Gaps
<1> HIDE DEF f, h, A, B, give, need
<1>4. \A x \in 1 .. Len(give) : g[give[x]] = A[x] - A[x + 1]
  <2> SUFFICES ASSUME NEW x \in 1 .. Len(give) PROVE g[give[x]] = A[x] - A[x + 1]
    OBVIOUS
  <2>1. A[x + 1] = A[x] + f[x] /\ f[x] = -g[give[x]] /\ g[give[x]] \in Int
    BY <1>1, <1>3 DEF Marks
  <2>2. A[x] \in Nat
    BY <1>1, <1>2 DEF Marks
  <2>. QED
    BY ONLY <2>1, <2>2
<1>5. \A y \in 1 .. Len(need) : g[need[y]] = B[y + 1] - B[y]
  <2> SUFFICES ASSUME NEW y \in 1 .. Len(need) PROVE g[need[y]] = B[y + 1] - B[y]
    OBVIOUS
  <2>1. B[y + 1] = B[y] + h[y] /\ h[y] = g[need[y]] /\ h[y] \in Nat
    BY <1>1, <1>3 DEF Marks
  <2>2. B[y] \in Nat
    BY <1>1, <1>2 DEF Marks
  <2>. QED
    BY ONLY <2>1, <2>2
<1>6. /\ A[1] = 0 /\ B[1] = 0
      /\ \A x \in 1 .. Len(give) + 1 : A[x] \in Nat
      /\ \A y \in 1 .. Len(need) + 1 : B[y] \in Nat
      /\ \A x, z \in 1 .. Len(give) + 1 : x <= z => A[x] <= A[z]
      /\ \A y, z \in 1 .. Len(need) + 1 : y <= z => B[y] <= B[z]
  BY <1>1 DEF Marks
<1>. QED
  BY <1>2, <1>4, <1>5, <1>6 DEF A, B, give, need

\* At first nothing has been dealt with.
LEMMA BegunIsLaid ==
    ASSUME NEW g \in Gaps, NEW S \in SUBSET Locations
    PROVE  LaidOK(g, S, Begun(g, S))
<1> DEFINE b    == Begun(g, S)
           give == Givers(g, S)
           need == Takers(g, S)
           A    == GiveMarks(g, S)
           B    == NeedMarks(g, S)
<1>1. /\ b.i = 1 /\ b.j = 1 /\ b.gap = g
      /\ \A s, t \in S : b.moved[<<s, t>>] = 0
  BY DEF Begun
<1>2. /\ Len(give) \in Nat /\ Len(need) \in Nat
      /\ A[1] = 0 /\ B[1] = 0
      /\ \A x \in 1 .. Len(give) + 1 : A[x] \in Nat
      /\ \A y \in 1 .. Len(need) + 1 : B[y] \in Nat
      /\ \A x \in 1 .. Len(give) : g[give[x]] = A[x] - A[x + 1]
      /\ \A y \in 1 .. Len(need) : g[need[y]] = B[y + 1] - B[y]
  BY MarkFacts
<1>3. /\ \A x \in 1 .. Len(give) : give[x] \in S
      /\ \A y \in 1 .. Len(need) : need[y] \in S
  BY ListsAre
<1> HIDE DEF b, give, need, A, B
<1>4. ASSUME NEW x \in 1 .. Len(give), NEW y \in 1 .. Len(need)
      PROVE  b.moved[<<give[x], need[y]>>] = Shared(A[x], A[x + 1], B[y], B[y + 1], 0)
  <2>1. b.moved[<<give[x], need[y]>>] = 0
    BY <1>1, <1>3
  <2>2. A[x] \in Nat /\ A[x + 1] \in Nat /\ B[y] \in Nat /\ B[y + 1] \in Nat
    BY <1>2
  <2>3. Shared(A[x], A[x + 1], B[y], B[y + 1], 0) = 0
    BY <2>2 DEF Shared, Higher, Lower
  <2>. QED
    BY <2>1, <2>3
<1>5. /\ b.i <= Len(give) => 0 <= A[b.i + 1] /\ b.gap[give[b.i]] = 0 - A[b.i + 1]
      /\ b.j <= Len(need) => 0 <= B[b.j + 1] /\ b.gap[need[b.j]] = B[b.j + 1] - 0
  <2>1. ASSUME 1 <= Len(give)
        PROVE  0 <= A[2] /\ g[give[1]] = 0 - A[2]
    <3>1. 1 \in 1 .. Len(give) /\ 2 \in 1 .. Len(give) + 1 /\ 1 + 1 = 2
      BY <1>2, <2>1
    <3>. QED
      BY <1>2, <3>1
  <2>2. ASSUME 1 <= Len(need)
        PROVE  0 <= B[2] /\ g[need[1]] = B[2] - 0
    <3>1. 1 \in 1 .. Len(need) /\ 2 \in 1 .. Len(need) + 1 /\ 1 + 1 = 2
      BY <1>2, <2>2
    <3>. QED
      BY <1>2, <3>1
  <2>3. b.i + 1 = 2 /\ b.j + 1 = 2
    BY <1>1
  <2>. QED
    BY <1>1, <2>1, <2>2, <2>3
<1>6. LaidUpTo(g, S, b, 0)
  <2>1. /\ A[b.i] <= 0 /\ B[b.j] <= 0
        /\ 0 = A[b.i] \/ 0 = B[b.j]
        /\ \A x \in 1 .. Len(give) : x > b.i => b.gap[give[x]] = g[give[x]]
        /\ \A y \in 1 .. Len(need) : y > b.j => b.gap[need[y]] = g[need[y]]
    BY <1>1, <1>2
  <2>. QED
    BY <1>4, <1>5, <2>1, Zenon DEF LaidUpTo, give, need, A, B
<1>. QED
  BY <1>6 DEF LaidOK, b

\* A turn deals with q more of both, from m on.
LEMMA TurnKeepsLaid ==
    ASSUME NEW g \in Gaps, NEW S \in SUBSET Locations, NEW k \in Nat, NEW b,
           LoopInv(g, S, k, b), LaidOK(g, S, b)
    PROVE  LaidOK(g, S, Next1(g, S, b))
<1> DEFINE give == Givers(g, S)
           need == Takers(g, S)
           A    == GiveMarks(g, S)
           B    == NeedMarks(g, S)
<1>0. /\ Len(give) \in Nat /\ Len(need) \in Nat
      /\ \A x \in 1 .. Len(give) + 1 : A[x] \in Nat
      /\ \A y \in 1 .. Len(need) + 1 : B[y] \in Nat
      /\ \A x \in 1 .. Len(give) : g[give[x]] = A[x] - A[x + 1]
      /\ \A y \in 1 .. Len(need) : g[need[y]] = B[y + 1] - B[y]
      /\ \A x, z \in 1 .. Len(give) + 1 : x <= z => A[x] <= A[z]
      /\ \A y, z \in 1 .. Len(need) + 1 : y <= z => B[y] <= B[z]
  BY MarkFacts
<1>a. /\ \A x \in 1 .. Len(give) : give[x] \in S /\ give[x] \in Locations /\ g[give[x]] < 0
      /\ \A y \in 1 .. Len(need) : need[y] \in S /\ need[y] \in Locations /\ g[need[y]] > 0
      /\ \A x, z \in 1 .. Len(give) : give[x] = give[z] => x = z
      /\ \A y, z \in 1 .. Len(need) : need[y] = need[z] => y = z
  BY ListsAre
<1>1. CASE b.i > Len(give) \/ b.j > Len(need)
  <2>1. Next1(g, S, b) = b
    BY <1>1, Zenon DEF Next1, Turn
  <2>. QED
    BY <2>1
<1>2. CASE ~(b.i > Len(give) \/ b.j > Len(need))
  <2>1. /\ b.i \in 1 .. Len(give) /\ b.j \in 1 .. Len(need)
        /\ b.gap \in Gaps /\ b.moved \in [S \X S -> Nat]
    BY <1>0, <1>2 DEF LoopInv, PlaceOK, State
  <2>2. b.i <= Len(give) /\ b.j <= Len(need)
    BY <1>0, <2>1
  <2>b. PICK s \in S, t \in S, q \in Nat : TurnOf(g, S, b, s, t, q)
    BY ONLY <2>2, TurnIs, g \in Gaps, S \in SUBSET Locations, k \in Nat, LoopInv(g, S, k, b)
  <2>3. /\ s = give[b.i] /\ t = need[b.j]
        /\ g[s] < 0 /\ g[t] > 0
        /\ q <= -b.gap[s] /\ q <= b.gap[t]
        /\ q = -b.gap[s] \/ q = b.gap[t]
        /\ b.moved[<<s, t>>] = 0
        /\ Next1(g, S, b) =
              [i |-> IF b.gap[s] + q = 0 THEN b.i + 1 ELSE b.i,
               j |-> IF b.gap[t] = q THEN b.j + 1 ELSE b.j,
               gap |-> [b.gap EXCEPT ![s] = @ + q, ![t] = @ - q],
               moved |-> [b.moved EXCEPT ![<<s, t>>] = q]]
    BY <2>b DEF TurnOf
  <2>4. PICK m \in Nat : LaidUpTo(g, S, b, m)
    BY DEF LaidOK
  <2> DEFINE c == Next1(g, S, b)
             i == b.i
             j == b.j
             n == m + q
  <2>5. /\ A[i] <= m /\ B[j] <= m
        /\ m = A[i] \/ m = B[j]
        /\ m <= A[i + 1] /\ b.gap[s] = m - A[i + 1]
        /\ m <= B[j + 1] /\ b.gap[t] = B[j + 1] - m
        /\ \A x \in 1 .. Len(give) : x > i => b.gap[give[x]] = g[give[x]]
        /\ \A y \in 1 .. Len(need) : y > j => b.gap[need[y]] = g[need[y]]
    BY <2>2, <2>3, <2>4 DEF LaidUpTo
  <2>6. \A x \in 1 .. Len(give), y \in 1 .. Len(need) :
            b.moved[<<give[x], need[y]>>] = Shared(A[x], A[x + 1], B[y], B[y + 1], m)
    BY <2>4 DEF LaidUpTo
  <2>7. /\ c.i = IF b.gap[s] + q = 0 THEN i + 1 ELSE i
        /\ c.j = IF b.gap[t] = q THEN j + 1 ELSE j
        /\ c.gap = [b.gap EXCEPT ![s] = @ + q, ![t] = @ - q]
        /\ c.moved = [b.moved EXCEPT ![<<s, t>>] = q]
    BY <2>3
  <2>8. s # t /\ s \in Locations /\ t \in Locations
    BY <2>3 DEF Gaps
  <2>9. /\ c.gap[s] = b.gap[s] + q
        /\ c.gap[t] = b.gap[t] - q
        /\ \A l \in Locations \ {s, t} : c.gap[l] = b.gap[l]
    BY <2>1, <2>7, <2>8 DEF Gaps
  <2>10. /\ c.moved[<<s, t>>] = q
         /\ \A x, y \in S : x # s \/ y # t => c.moved[<<x, y>>] = b.moved[<<x, y>>]
    BY <2>1, <2>7
  <2> HIDE DEF c, A, B, give, need
  <2>11. i \in 1 .. Len(give) /\ j \in 1 .. Len(need) /\ i \in Nat /\ j \in Nat
    BY <1>0, <2>1
  <2>12. /\ i \in 1 .. Len(give) + 1 /\ i + 1 \in 1 .. Len(give) + 1
         /\ j \in 1 .. Len(need) + 1 /\ j + 1 \in 1 .. Len(need) + 1
    BY <1>0, <2>11
  <2>13. /\ A[i] \in Nat /\ A[i + 1] \in Nat /\ B[j] \in Nat /\ B[j + 1] \in Nat
         /\ m \in Nat /\ q \in Nat /\ n \in Nat
         /\ n <= A[i + 1] /\ n <= B[j + 1]
         /\ n = A[i + 1] \/ n = B[j + 1]
         /\ b.gap[s] + q = 0 <=> n = A[i + 1]
         /\ b.gap[t] = q <=> n = B[j + 1]
    <3>1. A[i] \in Nat /\ A[i + 1] \in Nat /\ B[j] \in Nat /\ B[j + 1] \in Nat
      BY <1>0, <2>12
    <3> DEFINE e == b.gap[s]
               f == b.gap[t]
               x == A[i + 1]
               y == B[j + 1]
    <3>2. /\ m <= x /\ e = m - x /\ m <= y /\ f = y - m
          /\ q <= -e /\ q <= f /\ (q = -e \/ q = f)
          /\ x \in Nat /\ y \in Nat /\ n = m + q
      BY <2>3, <2>5, <3>1
    <3> HIDE DEF e, f, x, y, n, i, j
    <3>3. /\ n \in Nat /\ n <= x /\ n <= y /\ (n = x \/ n = y)
          /\ e + q = 0 <=> n = x
          /\ f = q <=> n = y
      BY ONLY <3>2, m \in Nat, q \in Nat
    <3>. QED
      BY <3>1, <3>3 DEF e, f, x, y
  <2> HIDE DEF i, j, n
  <2>14. /\ c.i = IF n = A[i + 1] THEN i + 1 ELSE i
         /\ c.j = IF n = B[j + 1] THEN j + 1 ELSE j
    BY <2>7, <2>13
  <2>15. /\ A[c.i] <= n /\ B[c.j] <= n
         /\ n = A[c.i] \/ n = B[c.j]
    <3>1. A[i] <= n /\ B[j] <= n
      BY <2>5, <2>13 DEF n
    <3>. QED
      BY <2>13, <2>14, <3>1
  <2>16. /\ c.gap[s] = n - A[i + 1]
         /\ c.gap[t] = B[j + 1] - n
    BY <2>5, <2>9, <2>13 DEF n
  <2>17. /\ \A x \in 1 .. Len(give) : x > i => c.gap[give[x]] = g[give[x]]
         /\ \A y \in 1 .. Len(need) : y > j => c.gap[need[y]] = g[need[y]]
    <3>1. ASSUME NEW x \in 1 .. Len(give), x > i
          PROVE  c.gap[give[x]] = g[give[x]]
      <4>1. give[x] # s
        <5>1. x # i
          BY <2>11, <3>1
        <5>. QED
          BY <1>a, <2>3, <2>11, <5>1 DEF i
      <4>2. give[x] # t
        BY <1>a, <2>3, <2>8 DEF Gaps
      <4>. QED
        BY <1>a, <2>5, <2>9, <3>1, <4>1, <4>2
    <3>2. ASSUME NEW y \in 1 .. Len(need), y > j
          PROVE  c.gap[need[y]] = g[need[y]]
      <4>1. need[y] # t
        <5>1. y # j
          BY <2>11, <3>2
        <5>. QED
          BY <1>a, <2>3, <2>11, <5>1 DEF j
      <4>2. need[y] # s
        BY <1>a, <2>3, <2>8 DEF Gaps
      <4>. QED
        BY <1>a, <2>5, <2>9, <3>2, <4>1, <4>2
    <3>. QED
      BY <3>1, <3>2
  <2>18. c.i <= Len(give) => n <= A[c.i + 1] /\ c.gap[give[c.i]] = n - A[c.i + 1]
    <3>1. CASE n = A[i + 1]
      <4>1. c.i = i + 1
        BY <2>14, <3>1
      <4>2. SUFFICES ASSUME i + 1 <= Len(give)
                     PROVE  n <= A[i + 1 + 1] /\ c.gap[give[i + 1]] = n - A[i + 1 + 1]
        BY <4>1
      <4> DEFINE z == i + 1
      <4>3. z \in 1 .. Len(give) /\ z > i /\ z \in 1 .. Len(give) + 1
            /\ z + 1 \in 1 .. Len(give) + 1 /\ z <= z + 1
        BY <1>0, <2>11, <4>2
      <4>z. n = A[z]
        BY <3>1
      <4> HIDE DEF z
      <4>4. c.gap[give[z]] = A[z] - A[z + 1] /\ A[z] <= A[z + 1]
        BY <1>0, <2>17, <4>3
      <4>. QED
        BY <4>z, <4>4 DEF z
    <3>2. CASE n # A[i + 1]
      BY <2>3, <2>13, <2>14, <2>16, <3>2 DEF i
    <3>. QED
      BY <3>1, <3>2
  <2>19. c.j <= Len(need) => n <= B[c.j + 1] /\ c.gap[need[c.j]] = B[c.j + 1] - n
    <3>1. CASE n = B[j + 1]
      <4>1. c.j = j + 1
        BY <2>14, <3>1
      <4>2. SUFFICES ASSUME j + 1 <= Len(need)
                     PROVE  n <= B[j + 1 + 1] /\ c.gap[need[j + 1]] = B[j + 1 + 1] - n
        BY <4>1
      <4> DEFINE z == j + 1
      <4>3. z \in 1 .. Len(need) /\ z > j /\ z \in 1 .. Len(need) + 1
            /\ z + 1 \in 1 .. Len(need) + 1 /\ z <= z + 1
        BY <1>0, <2>11, <4>2
      <4>z. n = B[z]
        BY <3>1
      <4> HIDE DEF z
      <4>4. c.gap[need[z]] = B[z + 1] - B[z] /\ B[z] <= B[z + 1]
        BY <1>0, <2>17, <4>3
      <4>. QED
        BY <4>z, <4>4 DEF z
    <3>2. CASE n # B[j + 1]
      BY <2>3, <2>13, <2>14, <2>16, <3>2 DEF j
    <3>. QED
      BY <3>1, <3>2
  <2>20. /\ \A x \in 1 .. Len(give) : x > c.i => c.gap[give[x]] = g[give[x]]
         /\ \A y \in 1 .. Len(need) : y > c.j => c.gap[need[y]] = g[need[y]]
    <3>1. /\ \A x \in 1 .. Len(give) : x > c.i => x > i
          /\ \A y \in 1 .. Len(need) : y > c.j => y > j
      BY <1>0, <2>11, <2>14
    <3>. QED
      BY <2>17, <3>1
  <2>21. ASSUME NEW x \in 1 .. Len(give), NEW y \in 1 .. Len(need)
         PROVE  c.moved[<<give[x], need[y]>>] = Shared(A[x], A[x + 1], B[y], B[y + 1], n)
    <3> DEFINE a1 == A[x]
               a2 == A[x + 1]
               b1 == B[y]
               b2 == B[y + 1]
    <3>1. /\ x \in Nat /\ y \in Nat
          /\ x \in 1 .. Len(give) + 1 /\ x + 1 \in 1 .. Len(give) + 1
          /\ y \in 1 .. Len(need) + 1 /\ y + 1 \in 1 .. Len(need) + 1
      BY <1>0
    <3>2. a1 \in Nat /\ a2 \in Nat /\ b1 \in Nat /\ b2 \in Nat
      BY <1>0, <3>1
    <3>3. b.moved[<<give[x], need[y]>>] = Shared(a1, a2, b1, b2, m)
      BY <2>6
    <3>4. CASE x = i /\ y = j
      <4>1. give[x] = s /\ need[y] = t
        BY <2>3, <3>4 DEF i, j
      <4>2. c.moved[<<give[x], need[y]>>] = q
        BY <2>10, <4>1
      <4>3. a1 = A[i] /\ a2 = A[i + 1] /\ b1 = B[j] /\ b2 = B[j + 1]
        BY <3>4
      <4> HIDE DEF a1, a2, b1, b2
      <4>4. /\ a1 <= m /\ b1 <= m /\ (m = a1 \/ m = b1)
            /\ n <= a2 /\ n <= b2 /\ (n = a2 \/ n = b2)
        BY <2>5, <2>13, <4>3
      <4>5. Shared(a1, a2, b1, b2, n) = q
        BY <2>13, <3>2, <4>4 DEF Shared, Higher, Lower, n
      <4>. QED
        BY <4>2, <4>5 DEF a1, a2, b1, b2
    <3>5. CASE x # i \/ y # j
      <4>1. c.moved[<<give[x], need[y]>>] = b.moved[<<give[x], need[y]>>]
        <5>1. give[x] \in S /\ need[y] \in S
          BY <1>a
        <5>2. give[x] # s \/ need[y] # t
          BY <1>a, <2>3, <2>11, <3>5 DEF i, j
        <5>. QED
          BY <2>10, <5>1, <5>2
      <4>2. \/ a2 <= m \/ b2 <= m
            \/ a1 >= n \/ b1 >= n
        <5>1. CASE x < i
          <6>1. x + 1 <= i
            BY <2>11, <3>1, <5>1
          <6>2. A[x + 1] <= A[i]
            BY <1>0, <2>12, <3>1, <6>1
          <6>. QED
            BY <2>5, <2>13, <3>2, <6>2
        <5>2. CASE x > i
          <6>1. i + 1 <= x
            BY <2>11, <3>1, <5>2
          <6>2. A[i + 1] <= A[x]
            BY <1>0, <2>12, <3>1, <6>1
          <6>. QED
            BY <2>13, <3>2, <6>2
        <5>3. CASE y < j
          <6>1. y + 1 <= j
            BY <2>11, <3>1, <5>3
          <6>2. B[y + 1] <= B[j]
            BY <1>0, <2>12, <3>1, <6>1
          <6>. QED
            BY <2>5, <2>13, <3>2, <6>2
        <5>4. CASE y > j
          <6>1. j + 1 <= y
            BY <2>11, <3>1, <5>4
          <6>2. B[j + 1] <= B[y]
            BY <1>0, <2>12, <3>1, <6>1
          <6>. QED
            BY <2>13, <3>2, <6>2
        <5>5. x < i \/ x > i \/ y < j \/ y > j
          BY <2>11, <3>1, <3>5
        <5>. QED
          BY <5>1, <5>2, <5>3, <5>4, <5>5
      <4> HIDE DEF a1, a2, b1, b2
      <4>3. Shared(a1, a2, b1, b2, n) = Shared(a1, a2, b1, b2, m)
        BY <2>13, <3>2, <4>2 DEF Shared, Higher, Lower, n
      <4>. QED
        BY <3>3, <4>1, <4>3 DEF a1, a2, b1, b2
    <3>. QED
      BY <3>4, <3>5
  <2>22. LaidUpTo(g, S, c, n)
    BY <2>15, <2>18, <2>19, <2>20, <2>21, Zenon DEF LaidUpTo, give, need, A, B
  <2>. QED
    BY <2>13, <2>22 DEF LaidOK, c
<1>. QED
  BY <1>1, <1>2

\* In the end all is dealt with that can be.
LEMMA MatchIsLaid ==
    ASSUME NEW g \in Gaps, NEW S \in SUBSET Locations,
           NEW x \in 1 .. Len(Givers(g, S)), NEW y \in 1 .. Len(Takers(g, S))
    PROVE  Match(g, S).moved[<<Givers(g, S)[x], Takers(g, S)[y]>>] =
              Higher(0, Lower(GiveMarks(g, S)[x + 1], NeedMarks(g, S)[y + 1])
                            - Higher(GiveMarks(g, S)[x], NeedMarks(g, S)[y]))
<1> DEFINE Q == {z \in Nat \X State(S) : LoopInv(g, S, z[1], z[2]) /\ LaidOK(g, S, z[2])}
<1>1. <<0, Begun(g, S)>> \in Q
  BY BegunOK, BegunIsLaid DEF LoopInv
<1>2. ASSUME NEW k \in Nat, NEW b, <<k, b>> \in Q
      PROVE  <<k + 1, Next1(g, S, b)>> \in Q
  <2>1. LoopInv(g, S, k, b) /\ LaidOK(g, S, b)
    BY <1>2
  <2>2. LoopInv(g, S, k + 1, Next1(g, S, b)) /\ LaidOK(g, S, Next1(g, S, b))
    BY <2>1, TurnKeepsInv, TurnKeepsLaid
  <2>. QED
    BY <2>2 DEF LoopInv
<1>3. Turns(g, S) \in Nat
  BY ListsAre DEF Turns
<1> HIDE DEF Q
<1>4. <<Turns(g, S), Match(g, S)>> \in Q
  <2>1. \A k \in Nat : \A b : <<k, b>> \in Q => <<k + 1, Next1(g, S, b)>> \in Q
    BY <1>2
  <2>. QED
    BY ONLY <1>1, <1>3, <2>1, ByTurns
<1> DEFINE b    == Match(g, S)
           give == Givers(g, S)
           need == Takers(g, S)
           A    == GiveMarks(g, S)
           B    == NeedMarks(g, S)
<1>5. LoopInv(g, S, Turns(g, S), b) /\ LaidOK(g, S, b)
  BY <1>4 DEF Q
<1>6. /\ Len(give) \in Nat /\ Len(need) \in Nat
      /\ \A z \in 1 .. Len(give) + 1 : A[z] \in Nat
      /\ \A z \in 1 .. Len(need) + 1 : B[z] \in Nat
      /\ \A u, z \in 1 .. Len(give) + 1 : u <= z => A[u] <= A[z]
      /\ \A u, z \in 1 .. Len(need) + 1 : u <= z => B[u] <= B[z]
  BY MarkFacts
<1>7. /\ b.i \in 1 .. Len(give) + 1 /\ b.j \in 1 .. Len(need) + 1
      /\ b.i > Len(give) \/ b.j > Len(need)
  <2>1. /\ b.i \in 1 .. Len(give) + 1 /\ b.j \in 1 .. Len(need) + 1
        /\ b.i > Len(give) \/ b.j > Len(need) \/ b.i + b.j >= Len(give) + Len(need) + 2
    BY <1>5 DEF LoopInv, PlaceOK, Turns
  <2>2. Len(give) \in Nat /\ Len(need) \in Nat
    BY <1>6
  <2> DEFINE gl == Len(give)
             nl == Len(need)
             i == b.i
             j == b.j
  <2> HIDE DEF gl, nl, i, j
  <2>3. /\ gl \in Nat /\ nl \in Nat /\ i \in 1 .. gl + 1 /\ j \in 1 .. nl + 1
        /\ i > gl \/ j > nl \/ i + j >= gl + nl + 2
    BY <2>1, <2>2 DEF gl, nl, i, j
  <2>4. i > gl \/ j > nl
    BY <2>3
  <2>. QED
    BY <2>1, <2>4 DEF gl, nl, i, j
<1>8. PICK m \in Nat : LaidUpTo(g, S, b, m)
  BY <1>5 DEF LaidOK
<1>9. /\ A[b.i] <= m /\ B[b.j] <= m
      /\ b.moved[<<give[x], need[y]>>] = Shared(A[x], A[x + 1], B[y], B[y + 1], m)
  BY <1>8 DEF LaidUpTo
<1> HIDE DEF b, give, need, A, B
<1>x. x \in 1 .. Len(give) /\ y \in 1 .. Len(need)
  BY DEF give, need
<1>10. /\ x \in 1 .. Len(give) + 1 /\ x + 1 \in 1 .. Len(give) + 1
       /\ y \in 1 .. Len(need) + 1 /\ y + 1 \in 1 .. Len(need) + 1
  BY <1>6, <1>x
<1> DEFINE a1 == A[x]
           a2 == A[x + 1]
           b1 == B[y]
           b2 == B[y + 1]
<1>11. a1 \in Nat /\ a2 \in Nat /\ b1 \in Nat /\ b2 \in Nat
  BY <1>6, <1>10
<1>12. a2 <= m \/ b2 <= m
  <2>1. CASE b.i > Len(give)
    <3>1. x + 1 <= b.i
      BY <1>6, <1>7, <1>10, <2>1
    <3>2. A[x + 1] <= A[b.i] /\ A[b.i] \in Nat
      BY <1>6, <1>7, <1>10, <3>1
    <3>. QED
      BY <1>9, <1>11, <3>2
  <2>2. CASE b.j > Len(need)
    <3>1. y + 1 <= b.j
      BY <1>6, <1>7, <1>10, <2>2
    <3>2. B[y + 1] <= B[b.j] /\ B[b.j] \in Nat
      BY <1>6, <1>7, <1>10, <3>1
    <3>. QED
      BY <1>9, <1>11, <3>2
  <2>. QED
    BY <1>7, <2>1, <2>2
<1> HIDE DEF a1, a2, b1, b2
<1>13. Shared(a1, a2, b1, b2, m) = Higher(0, Lower(a2, b2) - Higher(a1, b1))
  BY <1>11, <1>12 DEF Shared, Higher, Lower
<1>. QED
  BY <1>9, <1>13 DEF a1, a2, b1, b2, b, give, need, A, B

\* That is where the two overlap.
LEMMA MatchIsOverlap ==
    ASSUME NEW g \in Gaps, NEW S \in SUBSET Locations, NEW s \in S, NEW t \in S
    PROVE  Match(g, S).moved[<<s, t>>] =
              IF g[s] < 0 /\ g[t] > 0 THEN Overlap(g, S, s, t) ELSE 0
<1>1. CASE ~(g[s] < 0 /\ g[t] > 0)
  <2>1. MovedOK(g, S, Match(g, S).moved)
    BY MatchOK DEF LoopInv
  <2>2. Match(g, S).moved[<<s, t>>] = 0
    BY <1>1, <2>1 DEF MovedOK
  <2>. QED
    BY <1>1, <2>2
<1>2. CASE g[s] < 0 /\ g[t] > 0
  <2> DEFINE P    == {l \in S : g[l] < 0}
             R    == {l \in S : g[l] > 0}
             give == Givers(g, S)
             need == Takers(g, S)
             A    == GiveMarks(g, S)
             B    == NeedMarks(g, S)
             X    == {m \in P \ {s} : Ahead(g, m, s)}
             Y    == {m \in R \ {t} : Ahead(g, m, t)}
             F    == Spare(g)
  <2>1. PICK x \in 1 .. Len(give) : give[x] = s
    BY <1>2, ListsAre
  <2>2. PICK y \in 1 .. Len(need) : need[y] = t
    BY <1>2, ListsAre
  <2>3. /\ x \in 1 .. Len(give) + 1 /\ x + 1 \in 1 .. Len(give) + 1
        /\ y \in 1 .. Len(need) + 1 /\ y + 1 \in 1 .. Len(need) + 1
    <3>1. Len(give) \in Nat /\ Len(need) \in Nat
      BY ListsAre
    <3> HIDE DEF give, need
    <3>. QED
      BY <3>1
  <2>4. X = Upto(give, x) /\ Y = Upto(need, y)
    <3>1. P \in SUBSET Locations /\ R \in SUBSET Locations
      OBVIOUS
    <3>2. give = Sorted(g, P) /\ need = Sorted(g, R)
      BY DEF Givers, Takers
    <3> HIDE DEF P, R, give, need
    <3>3. {m \in P \ {Sorted(g, P)[x]} : Ahead(g, m, Sorted(g, P)[x])} = Upto(Sorted(g, P), x)
      <4>1. x \in 1 .. Len(Sorted(g, P))
        BY <3>2
      <4>. QED
        BY ONLY <3>1, <4>1, g \in Gaps, BeforeIsUpto
    <3>4. {m \in R \ {Sorted(g, R)[y]} : Ahead(g, m, Sorted(g, R)[y])} = Upto(Sorted(g, R), y)
      <4>1. y \in 1 .. Len(Sorted(g, R))
        BY <3>2
      <4>. QED
        BY ONLY <3>1, <4>1, g \in Gaps, BeforeIsUpto
    <3>5. Sorted(g, P)[x] = s /\ Sorted(g, R)[y] = t
      BY <2>1, <2>2, <3>2
    <3>. QED
      BY <3>2, <3>3, <3>4, <3>5
  <2>5. A[x] = Sum(F, Upto(give, x)) /\ B[y] = Sum(g, Upto(need, y))
    BY <2>3 DEF GiveMarks, NeedMarks
  <2>6. A[x] = Total([m \in X |-> -g[m]]) /\ B[y] = Total([m \in Y |-> g[m]])
    <3>1. [m \in X |-> F[m]] = [m \in X |-> -g[m]]
      <4>1. \A m \in X : m \in Locations
        OBVIOUS
      <4> HIDE DEF X
      <4>. QED
        BY <4>1 DEF Spare
    <3> HIDE DEF X, Y, F, A, B, give, need
    <3>2. A[x] = Sum(F, X) /\ B[y] = Sum(g, Y)
      BY <2>4, <2>5
    <3>. QED
      BY <3>1, <3>2 DEF Sum
  <2> DEFINE a == Total([m \in X |-> -g[m]])
             b == Total([m \in Y |-> g[m]])
  <2>7. Overlap(g, S, s, t) = Higher(0, Lower(a - g[s], b + g[t]) - Higher(a, b))
    BY Zenon DEF Overlap, SumOver, Total
  <2>8. A[x + 1] = A[x] - g[s] /\ B[y + 1] = B[y] + g[t]
    <3>1. /\ \A z \in 1 .. Len(give) + 1 : A[z] \in Nat
          /\ \A z \in 1 .. Len(need) + 1 : B[z] \in Nat
          /\ \A z \in 1 .. Len(give) : g[give[z]] = A[z] - A[z + 1]
          /\ \A z \in 1 .. Len(need) : g[need[z]] = B[z + 1] - B[z]
      BY MarkFacts
    <3> HIDE DEF A, B, give, need
    <3>2. g[s] = A[x] - A[x + 1] /\ g[t] = B[y + 1] - B[y]
      BY <2>1, <2>2, <3>1
    <3>3. A[x] \in Nat /\ A[x + 1] \in Nat /\ B[y] \in Nat /\ B[y + 1] \in Nat
      BY <2>3, <3>1
    <3>. QED
      BY ONLY <3>2, <3>3
  <2>9. Match(g, S).moved[<<give[x], need[y]>>] =
           Higher(0, Lower(A[x + 1], B[y + 1]) - Higher(A[x], B[y]))
    BY MatchIsLaid
  <2> HIDE DEF a, b, A, B, give, need
  <2>10. A[x] = a /\ B[y] = b
    BY <2>6 DEF a, b
  <2>11. Match(g, S).moved[<<s, t>>] = Overlap(g, S, s, t)
    BY ONLY <2>1, <2>2, <2>7, <2>8, <2>9, <2>10, Zenon
  <2>. QED
    BY <1>2, <2>11
<1>. QED
  BY <1>1, <1>2

\* GreedyIsOverlap: however many locations, the greedy loop gives every pair of them
\* where what the one can spare and what the other lacks overlap.
THEOREM GreedyOverlaps == Spec => []GreedyIsOverlap
<1>1. ASSUME PlanTypes
      PROVE  GreedyIsOverlap
  <2>1. ASSUME NEW p \in Planners, plan[p].step = "insert",
               NEW S \in {StoresOf(w) : w \in Whs} \cup {Whs, Locations},
               NEW s \in S, NEW t \in S
        PROVE  Match(plan[p].gap, S).moved[<<s, t>>] =
                  IF plan[p].gap[s] < 0 /\ plan[p].gap[t] > 0
                  THEN Overlap(plan[p].gap, S, s, t) ELSE 0
    <3>1. plan[p].gap \in Gaps
      BY <1>1, <2>1 DEF PlanTypes, PlansAreMade
    <3>2. S \in SUBSET Locations
      BY DEF StoresOf, Locations
    <3>. QED
      BY ONLY <3>1, <3>2, MatchIsOverlap, s \in S, t \in S
  <2>. QED
    BY <2>1, Zenon DEF GreedyIsOverlap
<1>. QED
  BY <1>1, PlanTypesHold, PTL

=============================================================================
