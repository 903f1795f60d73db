---------------------------------- MODULE Sums ----------------------------------
(***************************************************************************)
(* Facts about sums over finite sets, and the two inductions they rest on. *)
(* A sum is a fold; the library's folds choose one element after the       *)
(* other, and these lemmas say that it does not matter which.              *)
(***************************************************************************)
EXTENDS Integers, Functions, FunctionTheorems, FiniteSetTheorems,
        WellFoundedInduction, TLAPS

-----------------------------------------------------------------------------
(* Induction: the sets for which something holds are a set themselves       *)

\* A set of finite sets has a smallest one.
LEMMA SmallestSet ==
    ASSUME NEW S, IsFiniteSet(S), NEW Q \in SUBSET (SUBSET S), Q # {}
    PROVE  \E m \in Q : \A k \in Q : k \subseteq m => k = m
<1>1. IsWellFoundedOn(StrictSubsetOrdering(S), SUBSET S)
  BY FS_StrictSubsetOrderingWellFounded, FS_FiniteSubsetsOfFinite
<1>2. PICK x \in Q : \A y \in Q : ~(<<y, x>> \in StrictSubsetOrdering(S))
  BY <1>1, WFMin
<1>. QED
  BY <1>2 DEF StrictSubsetOrdering

\* Induction over a finite set, element by element.
LEMMA BySets ==
    ASSUME NEW S, IsFiniteSet(S), NEW Q,
           {} \in Q,
           \A T \in SUBSET S, x \in S : T \in Q => T \cup {x} \in Q
    PROVE  SUBSET S \subseteq Q
<1> DEFINE Bad == (SUBSET S) \ Q
<1>1. SUFFICES ASSUME Bad # {} PROVE FALSE
  OBVIOUS
<1>2. PICK m \in Bad : \A k \in Bad : k \subseteq m => k = m
  <2>1. Bad \in SUBSET (SUBSET S)
    OBVIOUS
  <2> HIDE DEF Bad
  <2>. QED
    BY <1>1, <2>1, SmallestSet
<1>3. PICK x \in m : TRUE
  BY <1>2
<1>4. m \ {x} \in Q /\ x \in S /\ m = (m \ {x}) \cup {x}
  BY <1>2, <1>3
<1>. QED
  BY <1>2, <1>4

\* Induction over the natural numbers.
LEMMA ByNumbers ==
    ASSUME NEW Q, 0 \in Q, \A n \in Nat : n \in Q => n + 1 \in Q
    PROVE  Nat \subseteq Q
<1> DEFINE R == OpToRel(<, Nat)
           Bad == Nat \ Q
<1>1. IsWellFoundedOn(R, Nat)
  BY NatLessThanWellFounded
<1>2. \A x, y \in Nat : x < y => <<x, y>> \in R
  BY DEF OpToRel
<1> HIDE DEF R
<1>3. SUFFICES ASSUME Bad # {} PROVE FALSE
  OBVIOUS
<1>4. PICK m \in Bad : \A k \in Bad : ~(<<k, m>> \in R)
  BY <1>1, <1>3, WFMin
<1>5. m # 0
  BY <1>4
<1>6. m - 1 \in Nat /\ m - 1 < m /\ (m - 1) + 1 = m
  BY <1>4, <1>5
<1>7. m - 1 \in Q
  BY <1>2, <1>4, <1>6
<1>. QED
  BY <1>4, <1>6, <1>7

-----------------------------------------------------------------------------
(* Sums *)

Total(F) == FoldFunction(+, 0, F)

\* The sum of F over a part of its domain.
Sum(F, T) == Total([x \in T |-> F[x]])

Pick(s) == CHOOSE x \in s : TRUE

\* h is the table that the fold of F builds.
Table(F, h, D) ==
    h = [s \in D |-> IF s = {} THEN 0 ELSE F[Pick(s)] + h[s \ {Pick(s)}]]

\* The fold of F is the last entry of its table.
LEMMA TotalIsTable ==
    ASSUME NEW F
    PROVE  Total(F) = (CHOOSE h : Table(F, h, SUBSET DOMAIN F))[DOMAIN F]
  BY DEF Total, FoldFunction, FoldFunctionOnSet, MapThenFoldSet, Table, Pick

\* There is such a table.
LEMMA TableExists ==
    ASSUME NEW F, NEW S, IsFiniteSet(S)
    PROVE  \E h : Table(F, h, SUBSET S)
<1> DEFINE D(n) == {s \in SUBSET S : Cardinality(s) <= n}
           Q == {n \in Nat : \E h : Table(F, h, D(n))}
<1>c. \A s \in SUBSET S : IsFiniteSet(s) /\ Cardinality(s) \in Nat
  BY FS_Subset, FS_CardinalityType
<1>1. 0 \in Q
  <2>1. D(0) = {{}}
    BY <1>c, FS_EmptySet
  <2>2. Table(F, [s \in D(0) |-> 0], D(0))
    BY <2>1, Zenon DEF Table
  <2>. QED
    BY <2>2
<1>2. ASSUME NEW n \in Nat, n \in Q
      PROVE  n + 1 \in Q
  <2>1. PICK h : Table(F, h, D(n))
    BY <1>2
  <2> DEFINE g == [s \in D(n + 1) |-> IF s = {} THEN 0 ELSE F[Pick(s)] + h[s \ {Pick(s)}]]
  <2>2. ASSUME NEW s \in D(n + 1), s # {}
        PROVE  s \ {Pick(s)} \in D(n)
    <3>1. Pick(s) \in s
      BY <2>2 DEF Pick
    <3>2. Cardinality(s \ {Pick(s)}) = Cardinality(s) - 1
      BY <1>c, <3>1, FS_RemoveElement
    <3>. QED
      BY <1>c, <3>2
  <2>3. ASSUME NEW s \in D(n)
        PROVE  g[s] = h[s]
    <3>1. s \in D(n + 1)
      BY <1>c
    <3>. QED
      BY <2>1, <3>1, Zenon DEF Table
  <2>4. Table(F, g, D(n + 1))
    <3> HIDE DEF D
    <3>1. \A s \in D(n + 1) : s # {} => g[s \ {Pick(s)}] = h[s \ {Pick(s)}]
      BY <2>2, <2>3
    <3>2. g = [s \in D(n + 1) |-> IF s = {} THEN 0 ELSE F[Pick(s)] + g[s \ {Pick(s)}]]
      BY <3>1
    <3>. QED
      BY <3>2, Zenon DEF Table
  <2>. QED
    BY <2>4
<1>3. Cardinality(S) \in Q
  <2> HIDE DEF Q
  <2>. QED
    BY <1>1, <1>2, ByNumbers, FS_CardinalityType
<1>4. D(Cardinality(S)) = SUBSET S
  BY <1>c, FS_Subset
<1>. QED
  BY <1>3, <1>4

\* Tables of functions that agree on T agree on the subsets of T.
LEMMA TablesAgree ==
    ASSUME NEW F, NEW G, NEW S, NEW U, NEW g, NEW h, NEW T, IsFiniteSet(T),
           T \subseteq S, T \subseteq U, \A x \in T : F[x] = G[x],
           Table(F, g, SUBSET S), Table(G, h, SUBSET U)
    PROVE  g[T] = h[T]
<1> DEFINE Bad == {s \in SUBSET T : g[s] # h[s]}
<1>1. SUFFICES ASSUME Bad # {} PROVE FALSE
  OBVIOUS
<1>2. PICK m \in Bad : \A k \in Bad : k \subseteq m => k = m
  <2>1. Bad \in SUBSET (SUBSET T)
    OBVIOUS
  <2> HIDE DEF Bad
  <2>. QED
    BY <1>1, <2>1, SmallestSet
<1>3. /\ g[m] = IF m = {} THEN 0 ELSE F[Pick(m)] + g[m \ {Pick(m)}]
      /\ h[m] = IF m = {} THEN 0 ELSE G[Pick(m)] + h[m \ {Pick(m)}]
  <2>1. m \in SUBSET S /\ m \in SUBSET U
    BY <1>2
  <2>. QED
    BY <2>1, Zenon DEF Table
<1>4. m # {}
  BY <1>2, <1>3
<1>5. Pick(m) \in m
  BY <1>4 DEF Pick
<1>6. g[m \ {Pick(m)}] = h[m \ {Pick(m)}]
  BY <1>2, <1>5
<1>. QED
  BY <1>2, <1>3, <1>4, <1>5, <1>6

\* The sum of nothing.
LEMMA SumEmpty == ASSUME NEW F PROVE Sum(F, {}) = 0
<1> DEFINE G == [x \in {} |-> F[x]]
<1>1. PICK h : Table(G, h, SUBSET {})
  BY TableExists, FS_EmptySet
<1> DEFINE k == CHOOSE h1 : Table(G, h1, SUBSET {})
<1>2. Table(G, k, SUBSET {})
  BY <1>1
<1> HIDE DEF k
<1>3. k[{}] = 0
  BY <1>2, Zenon DEF Table
<1>4. Sum(F, {}) = k[{}]
  BY TotalIsTable DEF Sum, k
<1>. QED
  BY <1>3, <1>4

\* The fold takes one element after the other.
LEMMA SumPick ==
    ASSUME NEW F, NEW T, IsFiniteSet(T), T # {}
    PROVE  /\ Pick(T) \in T
           /\ Sum(F, T) = F[Pick(T)] + Sum(F, T \ {Pick(T)})
<1> DEFINE U == T \ {Pick(T)}
           G == [x \in T |-> F[x]]
           H == [x \in U |-> F[x]]
           g == CHOOSE h1 : Table(G, h1, SUBSET T)
           h == CHOOSE h1 : Table(H, h1, SUBSET U)
<1>1. Pick(T) \in T
  BY DEF Pick
<1>2. IsFiniteSet(U)
  BY FS_RemoveElement
<1>3. Table(G, g, SUBSET T) /\ Table(H, h, SUBSET U)
  BY <1>2, TableExists
<1>4. Sum(F, T) = g[T] /\ Sum(F, U) = h[U]
  <2>1. DOMAIN G = T /\ DOMAIN H = U
    OBVIOUS
  <2>. QED
    BY <2>1, TotalIsTable DEF Sum
<1> HIDE DEF g, h
<1>5. g[T] = G[Pick(T)] + g[U]
  <2>1. T \in SUBSET T
    OBVIOUS
  <2>2. g[T] = IF T = {} THEN 0 ELSE G[Pick(T)] + g[T \ {Pick(T)}]
    BY <1>3, <2>1, Zenon DEF Table
  <2>. QED
    BY <2>2
<1>6. g[U] = h[U]
  <2>1. \A x \in U : G[x] = H[x]
    OBVIOUS
  <2>2. U \subseteq T
    OBVIOUS
  <2> HIDE DEF G, H, U
  <2>. QED
    BY <1>2, <1>3, <2>1, <2>2, TablesAgree
<1>. QED
  BY <1>1, <1>4, <1>5, <1>6

\* A sum of integers is an integer.
LEMMA SumType ==
    ASSUME NEW T, IsFiniteSet(T), NEW F, \A x \in T : F[x] \in Int
    PROVE  Sum(F, T) \in Int
<1> DEFINE Bad == {s \in SUBSET T : Sum(F, s) \notin Int}
<1>1. SUFFICES ASSUME Bad # {} PROVE FALSE
  OBVIOUS
<1>2. PICK m \in Bad : \A k \in Bad : k \subseteq m => k = m
  <2>1. Bad \in SUBSET (SUBSET T)
    OBVIOUS
  <2> HIDE DEF Bad
  <2>. QED
    BY <1>1, <2>1, SmallestSet
<1>3. m # {}
  <2>1. Sum(F, {}) \in Int
    BY SumEmpty
  <2>. QED
    BY <1>2, <2>1
<1>4. /\ Pick(m) \in m
      /\ Sum(F, m) = F[Pick(m)] + Sum(F, m \ {Pick(m)})
  BY <1>2, <1>3, FS_Subset, SumPick
<1>5. Sum(F, m \ {Pick(m)}) \in Int
  BY <1>2, <1>4
<1>. QED
  BY <1>2, <1>4, <1>5

\* In which order does not matter.
LEMMA SumRemove ==
    ASSUME NEW T, IsFiniteSet(T), NEW F, \A x \in T : F[x] \in Int, NEW x \in T
    PROVE  Sum(F, T) = F[x] + Sum(F, T \ {x})
<1> DEFINE Bad == {s \in SUBSET T : \E y \in s : Sum(F, s) # F[y] + Sum(F, s \ {y})}
<1>1. SUFFICES ASSUME Bad # {} PROVE FALSE
  OBVIOUS
<1>2. PICK m \in Bad : \A k \in Bad : k \subseteq m => k = m
  <2>1. Bad \in SUBSET (SUBSET T)
    OBVIOUS
  <2> HIDE DEF Bad
  <2>. QED
    BY <1>1, <2>1, SmallestSet
<1>3. PICK y \in m : Sum(F, m) # F[y] + Sum(F, m \ {y})
  BY <1>2
<1> DEFINE p == Pick(m)
<1>4. p \in m /\ Sum(F, m) = F[p] + Sum(F, m \ {p})
  BY <1>2, <1>3, FS_Subset, SumPick
<1> HIDE DEF p
<1>5. p # y
  BY <1>3, <1>4
<1>6. Sum(F, m \ {p}) = F[y] + Sum(F, (m \ {p}) \ {y})
  BY <1>2, <1>3, <1>4, <1>5
<1>7. Sum(F, m \ {y}) = F[p] + Sum(F, (m \ {y}) \ {p})
  BY <1>2, <1>3, <1>4, <1>5
<1>8. Sum(F, (m \ {p}) \ {y}) = Sum(F, (m \ {y}) \ {p})
  <2>1. (m \ {p}) \ {y} = (m \ {y}) \ {p}
    OBVIOUS
  <2>. QED
    BY <2>1
<1>9. Sum(F, (m \ {y}) \ {p}) \in Int
  <2>1. (m \ {y}) \ {p} \in SUBSET T
    BY <1>2
  <2>2. IsFiniteSet((m \ {y}) \ {p})
    BY <2>1, FS_Subset
  <2>. QED
    BY <2>1, <2>2, SumType
<1>10. F[y] \in Int /\ F[p] \in Int
  BY <1>2, <1>3, <1>4
<1> HIDE DEF Bad
<1>. QED
  BY <1>3, <1>4, <1>6, <1>7, <1>8, <1>9, <1>10

\* One element more.
LEMMA SumAdd ==
    ASSUME NEW T, IsFiniteSet(T), NEW F, NEW x, x \notin T,
           \A y \in T \cup {x} : F[y] \in Int
    PROVE  Sum(F, T \cup {x}) = F[x] + Sum(F, T)
<1>1. IsFiniteSet(T \cup {x}) /\ (T \cup {x}) \ {x} = T
  BY FS_AddElement
<1>. QED
  BY <1>1, SumRemove

\* Equal terms have equal sums.
LEMMA SumSame ==
    ASSUME NEW T, NEW F, NEW G, \A x \in T : F[x] = G[x]
    PROVE  Sum(F, T) = Sum(G, T)
<1>1. [x \in T |-> F[x]] = [x \in T |-> G[x]]
  OBVIOUS
<1>. QED
  BY <1>1 DEF Sum

\* Smaller terms have a smaller sum.
LEMMA SumAtMost ==
    ASSUME NEW T, IsFiniteSet(T), NEW F, NEW G,
           \A x \in T : F[x] \in Int /\ G[x] \in Int /\ F[x] <= G[x]
    PROVE  Sum(F, T) <= Sum(G, T)
<1> DEFINE Q == {s \in SUBSET T : Sum(F, s) <= Sum(G, s)}
<1>1. {} \in Q
  BY SumEmpty
<1>2. ASSUME NEW s \in SUBSET T, NEW x \in T, s \in Q
      PROVE  s \cup {x} \in Q
  <2>1. CASE x \in s
    <3>1. s \cup {x} = s
      BY <2>1
    <3>. QED
      BY <1>2, <3>1
  <2>2. CASE x \notin s
    <3>1. IsFiniteSet(s) /\ \A y \in s \cup {x} : y \in T
      BY <1>2, FS_Subset
    <3>2. /\ Sum(F, s \cup {x}) = F[x] + Sum(F, s)
          /\ Sum(G, s \cup {x}) = G[x] + Sum(G, s)
      BY <2>2, <3>1, SumAdd
    <3>3. Sum(F, s) \in Int /\ Sum(G, s) \in Int
      BY <3>1, SumType
    <3>4. Sum(F, s \cup {x}) <= Sum(G, s \cup {x})
      BY <1>2, <3>2, <3>3
    <3>. QED
      BY <1>2, <3>4
  <2>. QED
    BY <2>1, <2>2
<1>3. SUBSET T \subseteq Q
  <2> HIDE DEF Q
  <2>. QED
    BY <1>1, <1>2, BySets
<1>. QED
  BY <1>3

\* Zeros add up to zero.
LEMMA SumOfZeros ==
    ASSUME NEW T, IsFiniteSet(T), NEW F, \A x \in T : F[x] = 0
    PROVE  Sum(F, T) = 0
<1> DEFINE Q == {s \in SUBSET T : Sum(F, s) = 0}
<1>1. {} \in Q
  BY SumEmpty
<1>2. ASSUME NEW s \in SUBSET T, NEW x \in T, s \in Q
      PROVE  s \cup {x} \in Q
  <2>1. CASE x \in s
    <3>1. s \cup {x} = s
      BY <2>1
    <3>. QED
      BY <1>2, <3>1
  <2>2. CASE x \notin s
    <3>1. IsFiniteSet(s) /\ \A y \in s \cup {x} : F[y] = 0 /\ F[y] \in Int
      BY <1>2, FS_Subset
    <3>2. Sum(F, s \cup {x}) = F[x] + Sum(F, s)
      BY <2>2, <3>1, SumAdd
    <3>. QED
      BY <1>2, <3>1, <3>2
  <2>. QED
    BY <2>1, <2>2
<1>3. SUBSET T \subseteq Q
  <2> HIDE DEF Q
  <2>. QED
    BY <1>1, <1>2, BySets
<1>. QED
  BY <1>3

\* A sum of naturals is a natural.
LEMMA SumNat ==
    ASSUME NEW T, IsFiniteSet(T), NEW F, \A x \in T : F[x] \in Nat
    PROVE  Sum(F, T) \in Nat
<1> DEFINE Z == [x \in T |-> 0]
<1>1. Sum(Z, T) = 0
  BY SumOfZeros
<1>2. Sum(Z, T) <= Sum(F, T)
  BY SumAtMost
<1>3. Sum(F, T) \in Int
  BY SumType
<1>. QED
  BY <1>1, <1>2, <1>3

\* What is added one element at a time can be added in parts.
LEMMA SumUnion ==
    ASSUME NEW S, IsFiniteSet(S), NEW T, IsFiniteSet(T), S \cap T = {},
           NEW F, \A x \in S \cup T : F[x] \in Int
    PROVE  Sum(F, S \cup T) = Sum(F, S) + Sum(F, T)
<1> DEFINE Q == {s \in SUBSET T : Sum(F, S \cup s) = Sum(F, S) + Sum(F, s)}
<1>0. Sum(F, S) \in Int
  BY SumType
<1>1. {} \in Q
  <2>1. S \cup {} = S
    OBVIOUS
  <2>. QED
    BY <1>0, <2>1, SumEmpty
<1>2. ASSUME NEW s \in SUBSET T, NEW x \in T, s \in Q
      PROVE  s \cup {x} \in Q
  <2>1. CASE x \in s
    <3>1. s \cup {x} = s
      BY <2>1
    <3>. QED
      BY <1>2, <3>1
  <2>2. CASE x \notin s
    <3>1. /\ IsFiniteSet(s) /\ IsFiniteSet(S \cup s)
          /\ x \notin S \cup s
      BY <1>2, <2>2, FS_Subset, FS_Union
    <3>2. /\ Sum(F, s \cup {x}) = F[x] + Sum(F, s)
          /\ Sum(F, (S \cup s) \cup {x}) = F[x] + Sum(F, S \cup s)
      BY <2>2, <3>1, SumAdd
    <3>3. Sum(F, s) \in Int /\ F[x] \in Int
      BY <3>1, SumType
    <3>4. Sum(F, S \cup (s \cup {x})) = Sum(F, (S \cup s) \cup {x})
      <4>1. S \cup (s \cup {x}) = (S \cup s) \cup {x}
        OBVIOUS
      <4>. QED
        BY <4>1
    <3>5. Sum(F, S \cup s) = Sum(F, S) + Sum(F, s)
      BY <1>2
    <3>6. Sum(F, S \cup (s \cup {x})) = Sum(F, S) + Sum(F, s \cup {x})
      BY <1>0, <3>2, <3>3, <3>4, <3>5
    <3>. QED
      BY <1>2, <3>6
  <2>. QED
    BY <2>1, <2>2
<1>3. SUBSET T \subseteq Q
  <2> HIDE DEF Q
  <2>1. \A s \in SUBSET T, x \in T : s \in Q => s \cup {x} \in Q
    BY <1>2
  <2>2. IsFiniteSet(T)
    OBVIOUS
  <2>. QED
    BY ONLY <1>1, <2>1, <2>2, BySets
<1>. QED
  BY <1>3

\* A part of a sum of naturals is no more than the sum.
LEMMA SumPart ==
    ASSUME NEW T, IsFiniteSet(T), NEW S \in SUBSET T, NEW F, \A x \in T : F[x] \in Nat
    PROVE  Sum(F, S) <= Sum(F, T)
<1>1. IsFiniteSet(S) /\ IsFiniteSet(T \ S) /\ T = S \cup (T \ S) /\ S \cap (T \ S) = {}
  BY FS_Subset
<1>2. Sum(F, T) = Sum(F, S) + Sum(F, T \ S)
  BY <1>1, SumUnion
<1>3. Sum(F, S) \in Nat /\ Sum(F, T \ S) \in Nat
  BY <1>1, SumNat
<1>. QED
  BY <1>2, <1>3

\* F and G give integers to T, which may differ at x only.
DifferAt(F, G, T, x) ==
    \A y \in T : F[y] \in Int /\ G[y] \in Int /\ (y # x => G[y] = F[y])

\* One term changes, and the sum by as much.
LEMMA SumChange ==
    ASSUME NEW T, IsFiniteSet(T), NEW F, NEW G, NEW x \in T, DifferAt(F, G, T, x)
    PROVE  Sum(G, T) = Sum(F, T) + (G[x] - F[x])
<1>0. \A y \in T : F[y] \in Int /\ G[y] \in Int /\ (y # x => G[y] = F[y])
  BY DEF DifferAt
<1>1. IsFiniteSet(T \ {x})
  BY FS_RemoveElement
<1>2. Sum(F, T) = F[x] + Sum(F, T \ {x}) /\ Sum(G, T) = G[x] + Sum(G, T \ {x})
  BY <1>0, SumRemove
<1>3. Sum(F, T \ {x}) = Sum(G, T \ {x})
  BY <1>0, SumSame
<1>4. Sum(F, T \ {x}) \in Int
  BY <1>0, <1>1, SumType
<1>. QED
  BY <1>0, <1>2, <1>3, <1>4

\* k maps T to R, different elements to different ones, and F to G.
Mapped(k, T, R, F, G) ==
    /\ R = {k[x] : x \in T}
    /\ \A x, y \in T : k[x] = k[y] => x = y
    /\ \A x \in T : G[k[x]] = F[x] /\ F[x] \in Int

\* A sum over the images of different elements, under a map k.
LEMMA SumImage ==
    ASSUME NEW T, IsFiniteSet(T), NEW R, NEW k, NEW F, NEW G, Mapped(k, T, R, F, G)
    PROVE  IsFiniteSet(R) /\ Sum(G, R) = Sum(F, T)
<1> DEFINE I(s) == {k[x] : x \in s}
           Q == {s \in SUBSET T : IsFiniteSet(I(s)) /\ Sum(G, I(s)) = Sum(F, s)}
<1>1. {} \in Q
  <2>1. I({}) = {}
    OBVIOUS
  <2>. QED
    BY <2>1, SumEmpty, FS_EmptySet
<1>2. ASSUME NEW s \in SUBSET T, NEW x \in T, s \in Q
      PROVE  s \cup {x} \in Q
  <2>1. CASE x \in s
    <3>1. s \cup {x} = s
      BY <2>1
    <3>. QED
      BY <1>2, <3>1
  <2>2. CASE x \notin s
    <3>1. I(s \cup {x}) = I(s) \cup {k[x]} /\ k[x] \notin I(s)
      BY <2>2 DEF Mapped
    <3>2. IsFiniteSet(s) /\ IsFiniteSet(I(s)) /\ IsFiniteSet(I(s) \cup {k[x]})
      BY <1>2, FS_Subset, FS_AddElement
    <3>3. \A y \in I(s) \cup {k[x]} : G[y] \in Int
      BY DEF Mapped
    <3>4. \A y \in s \cup {x} : F[y] \in Int
      BY DEF Mapped
    <3>5. Sum(F, s \cup {x}) = F[x] + Sum(F, s)
      BY <2>2, <3>2, <3>4, SumAdd
    <3>6. Sum(G, I(s) \cup {k[x]}) = G[k[x]] + Sum(G, I(s))
      <4> HIDE DEF I
      <4>. QED
        BY <3>1, <3>2, <3>3, SumAdd
    <3>7. Sum(G, I(s)) = Sum(F, s)
      BY <1>2
    <3>8. Sum(G, I(s \cup {x})) = Sum(F, s \cup {x})
      BY <3>1, <3>5, <3>6, <3>7 DEF Mapped
    <3>. QED
      BY <1>2, <3>1, <3>2, <3>8
  <2>. QED
    BY <2>1, <2>2
<1>3. SUBSET T \subseteq Q
  <2> HIDE DEF Q
  <2>. QED
    BY <1>1, <1>2, BySets
<1>. QED
  BY <1>3 DEF Mapped

\* Terms of at most c.
LEMMA SumBound ==
    ASSUME NEW T, IsFiniteSet(T), NEW F, NEW c \in Nat,
           \A x \in T : F[x] \in Nat /\ F[x] <= c
    PROVE  Sum(F, T) <= c * Cardinality(T)
<1> DEFINE Q == {s \in SUBSET T : Sum(F, s) <= c * Cardinality(s)}
<1>1. {} \in Q
  BY SumEmpty, FS_EmptySet
<1>2. ASSUME NEW s \in SUBSET T, NEW x \in T, s \in Q
      PROVE  s \cup {x} \in Q
  <2>1. CASE x \in s
    <3>1. s \cup {x} = s
      BY <2>1
    <3>. QED
      BY <1>2, <3>1
  <2>2. CASE x \notin s
    <3> DEFINE n == Cardinality(s)
               a == Sum(F, s)
               b == Sum(F, s \cup {x})
    <3>1. IsFiniteSet(s) /\ n \in Nat /\ Cardinality(s \cup {x}) = n + 1
      BY <2>2, FS_Subset, FS_CardinalityType, FS_AddElement
    <3>2. a \in Int
      <4>1. \A y \in s : F[y] \in Int
        OBVIOUS
      <4>. QED
        BY ONLY <3>1, <4>1, SumType
    <3>3. b = F[x] + a
      <4>1. \A y \in s \cup {x} : F[y] \in Int
        OBVIOUS
      <4>. QED
        BY ONLY <2>2, <3>1, <4>1, SumAdd
    <3>4. a <= c * n /\ F[x] \in Nat /\ F[x] <= c
      BY <1>2
    <3> HIDE DEF n, a, b
    <3>5. b <= c * n + c
      BY ONLY <3>1, <3>2, <3>3, <3>4, c \in Nat
    <3>6. c * (n + 1) = c * n + c
      BY ONLY <3>1, c \in Nat
    <3>7. b <= c * Cardinality(s \cup {x})
      BY <3>1, <3>5, <3>6
    <3>. QED
      BY <3>7 DEF b
  <2>. QED
    BY <2>1, <2>2
<1>3. SUBSET T \subseteq Q
  <2> HIDE DEF Q
  <2>. QED
    BY <1>1, <1>2, BySets
<1>. QED
  BY <1>3

\* H is F and G, term by term.
Termwise(H, F, G, T) == \A x \in T : F[x] \in Int /\ G[x] \in Int /\ H[x] = F[x] + G[x]

\* Sums add up.
LEMMA SumPlus ==
    ASSUME NEW T, IsFiniteSet(T), NEW F, NEW G, NEW H, Termwise(H, F, G, T)
    PROVE  Sum(H, T) = Sum(F, T) + Sum(G, T)
<1> DEFINE Q == {s \in SUBSET T : Sum(H, s) = Sum(F, s) + Sum(G, s)}
<1>1. {} \in Q
  BY SumEmpty
<1>2. ASSUME NEW s \in SUBSET T, NEW x \in T, s \in Q
      PROVE  s \cup {x} \in Q
  <2>1. CASE x \in s
    <3>1. s \cup {x} = s
      BY <2>1
    <3>. QED
      BY <1>2, <3>1
  <2>2. CASE x \notin s
    <3>1. IsFiniteSet(s)
      BY FS_Subset
    <3>2. \A y \in s \cup {x} : F[y] \in Int /\ G[y] \in Int /\ H[y] \in Int
      BY DEF Termwise
    <3>3. /\ Sum(F, s \cup {x}) = F[x] + Sum(F, s)
          /\ Sum(G, s \cup {x}) = G[x] + Sum(G, s)
          /\ Sum(H, s \cup {x}) = H[x] + Sum(H, s)
      BY ONLY <2>2, <3>1, <3>2, SumAdd
    <3>4. Sum(F, s) \in Int /\ Sum(G, s) \in Int
      BY ONLY <3>1, <3>2, SumType
    <3>5. Sum(H, s) = Sum(F, s) + Sum(G, s)
      BY <1>2
    <3>6. H[x] = F[x] + G[x] /\ F[x] \in Int /\ G[x] \in Int
      BY DEF Termwise
    <3>7. Sum(H, s \cup {x}) = Sum(F, s \cup {x}) + Sum(G, s \cup {x})
      BY ONLY <3>3, <3>4, <3>5, <3>6
    <3>. QED
      BY <3>7
  <2>. QED
    BY <2>1, <2>2
<1>3. SUBSET T \subseteq Q
  <2> HIDE DEF Q
  <2>. QED
    BY <1>1, <1>2, BySets
<1>. QED
  BY <1>3

=============================================================================
