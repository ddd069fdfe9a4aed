----------------------------- MODULE DataLemmas -----------------------------
(***************************************************************************)
(* Facts about finite sets and sequences that the proofs of this project   *)
(* share.  Those that need induction are shown by minimal counterexample:  *)
(* among the finite subsets of a set that have a bad property there is one *)
(* with no bad strict subset.                                              *)
(***************************************************************************)
EXTENDS Integers, FiniteSetsExt, SequencesExt, Functions, Folds, FiniteSetTheorems,
        SequenceTheorems, WellFoundedInduction, TLAPS

LEMMA FunctionIsSeq ==
  ASSUME NEW S, NEW n \in Nat, NEW f \in [1..n -> S]
  PROVE  f \in Seq(S)
BY SeqDef

LEMMA MinimalSet ==
  ASSUME NEW D, NEW T, T \subseteq FiniteSubsetsOf(D), T # {}
  PROVE  \E S \in T : \A U \in T : U \subseteq S => U = S
<1>1. \E S \in T : \A U \in T : <<U, S>> \notin StrictSubsetOrdering(D)
  <2>1. IsWellFoundedOn(StrictSubsetOrdering(D), FiniteSubsetsOf(D))
    BY FS_StrictSubsetOrderingWellFounded
  <2> QED  BY <2>1, WFMin
<1> QED  BY <1>1 DEF StrictSubsetOrdering, FiniteSubsetsOf

\* the form the lemmas below use: if some subset of a finite set is bad, then some
\* bad subset has no bad strict subset
LEMMA LeastBad ==
  ASSUME NEW S, IsFiniteSet(S), NEW Bad \in SUBSET (SUBSET S), Bad # {}
  PROVE  \E T \in Bad : IsFiniteSet(T) /\ \A U \in Bad : U \subseteq T => U = T
<1>1. Bad \subseteq FiniteSubsetsOf(S)  BY FS_Subset DEF FiniteSubsetsOf
<1>2. PICK T \in Bad : \A U \in Bad : U \subseteq T => U = T  BY <1>1, MinimalSet
<1> QED  BY <1>2, FS_Subset

LEMMA GreatestExists ==
  ASSUME NEW S, S \subseteq Int, IsFiniteSet(S), S # {}
  PROVE  \E m \in S : \A x \in S : m >= x
<1> DEFINE Bad == {s \in SUBSET S : s # {} /\ ~\E m \in s : \A x \in s : m >= x}
<1>1. SUFFICES ASSUME Bad # {} PROVE FALSE  OBVIOUS
<1>2. PICK T \in Bad : IsFiniteSet(T) /\ \A U \in Bad : U \subseteq T => U = T
  <2> HIDE DEF Bad
  <2>1. Bad \in SUBSET (SUBSET S)  BY DEF Bad
  <2>2. IsFiniteSet(S)  OBVIOUS
  <2> QED  BY ONLY <1>1, <2>1, <2>2, LeastBad
<1>3. PICK a \in T : TRUE  OBVIOUS
<1>4. CASE T = {a}  BY <1>4
<1>5. CASE T # {a}
  <2>1. T \ {a} \notin Bad  BY <1>2, <1>3
  <2>2. PICK m \in T \ {a} : \A x \in T \ {a} : m >= x  BY <2>1, <1>3, <1>5
  <2>3. m \in Int /\ a \in Int  OBVIOUS
  <2>4. CASE m >= a  BY <2>2, <2>4
  <2>5. CASE ~(m >= a)
    <3>1. \A x \in T : a >= x
      <4> SUFFICES ASSUME NEW x \in T PROVE a >= x  OBVIOUS
      <4>1. x \in Int  OBVIOUS
      <4> QED  BY <2>2, <2>3, <2>5, <4>1
    <3> QED  BY <3>1
  <2> QED  BY <2>4, <2>5
<1> QED  BY <1>4, <1>5

LEMMA MaxIsGreatest ==
  ASSUME NEW S, S \subseteq Int, IsFiniteSet(S), S # {}
  PROVE  Max(S) \in S /\ \A x \in S : Max(S) >= x
BY GreatestExists DEF Max

LEMMA LeastExists ==
  ASSUME NEW S, S \subseteq Int, IsFiniteSet(S), S # {}
  PROVE  \E m \in S : \A x \in S : m <= x
<1> DEFINE N == {-x : x \in S}
           neg == [x \in S |-> -x]
<1>1. neg \in Surjection(S, N)  BY DEF Surjection
<1>2. IsFiniteSet(N)  BY <1>1, FS_Surjection
<1>3. N \in SUBSET Int /\ N # {}
  <2>1. PICK a \in S : TRUE  OBVIOUS
  <2>2. -a \in N  OBVIOUS
  <2>3. \A x \in S : -x \in Int  OBVIOUS
  <2> QED  BY <2>2, <2>3
<1>4. PICK m \in N : \A x \in N : m >= x
  <2> HIDE DEF N
  <2> QED  BY <1>2, <1>3, GreatestExists
<1>5. PICK a \in S : m = -a  OBVIOUS
<1>6. ASSUME NEW x \in S PROVE a <= x
  <2>1. -a >= -x  BY <1>4, <1>5
  <2>2. a \in Int /\ x \in Int  OBVIOUS
  <2> QED  BY <2>1, <2>2
<1> QED  BY <1>6

LEMMA MinIsLeast ==
  ASSUME NEW S, S \subseteq Int, IsFiniteSet(S), S # {}
  PROVE  Min(S) \in S /\ \A x \in S : Min(S) <= x
BY LeastExists DEF Min

-----------------------------------------------------------------------------
(* SumFunctionOnSet of the community modules, which the counters use: the  *)
(* sum is the value at S of the recursion that takes out one element after *)
(* the other.                                                              *)

Sum(f, S) == SumFunctionOnSet(f, S)

\* the element taken out of s
Pick(s) == CHOOSE x \in s : TRUE

LEMMA PickIn == ASSUME NEW s, s # {} PROVE Pick(s) \in s
BY DEF Pick

\* g holds the sums of f over all subsets of S
Solves(g, f, S) ==
  g = [s \in SUBSET S |-> IF s = {} THEN 0 ELSE f[Pick(s)] + g[s \ {Pick(s)}]]

LEMMA SumIsSolution ==
  ASSUME NEW f, NEW S
  PROVE  Sum(f, S) = (CHOOSE g : Solves(g, f, S))[S]
BY DEF Sum, SumFunctionOnSet, FoldFunctionOnSet, MapThenFoldSet, Solves, Pick

\* two solutions agree where both are defined
LEMMA SolutionsAgree ==
  ASSUME NEW f, NEW S, IsFiniteSet(S), NEW T \in SUBSET S,
         NEW g, NEW h, Solves(g, f, S), Solves(h, f, T)
  PROVE  g[T] = h[T]
<1> DEFINE Bad == {s \in SUBSET T : g[s] # h[s]}
<1>1. SUFFICES ASSUME Bad # {} PROVE FALSE  OBVIOUS
<1>2. PICK s \in Bad : \A U \in Bad : U \subseteq s => U = s
  <2> HIDE DEF Bad
  <2>1. Bad \in SUBSET (SUBSET S)  BY DEF Bad
  <2> QED  BY <1>1, <2>1, LeastBad
<1>3. s \in SUBSET S /\ s \in SUBSET T /\ g[s] # h[s]  OBVIOUS
<1>4. s # {}  BY <1>3 DEF Solves
<1>5. Pick(s) \in s  BY <1>4, PickIn
<1>6. g[s \ {Pick(s)}] = h[s \ {Pick(s)}]  BY <1>2, <1>3, <1>5
<1>7. /\ g[s] = f[Pick(s)] + g[s \ {Pick(s)}]
      /\ h[s] = f[Pick(s)] + h[s \ {Pick(s)}]
  BY <1>3, <1>4 DEF Solves
<1> QED  BY <1>3, <1>6, <1>7

LEMMA SolutionExists == ASSUME NEW f, NEW S, IsFiniteSet(S) PROVE \E g : Solves(g, f, S)
<1> DEFINE Bad == {s \in SUBSET S : ~\E g : Solves(g, f, s)}
<1>1. SUFFICES ASSUME Bad # {} PROVE FALSE  OBVIOUS
<1>2. PICK T \in Bad : IsFiniteSet(T) /\ \A U \in Bad : U \subseteq T => U = T
  <2> HIDE DEF Bad
  <2>1. Bad \in SUBSET (SUBSET S)  BY DEF Bad
  <2> QED  BY <1>1, <2>1, LeastBad
<1>3. ~\E g : Solves(g, f, T)  OBVIOUS
<1> DEFINE G(U) == CHOOSE g : Solves(g, f, U)
<1>4. \A U \in SUBSET T : U # T => Solves(G(U), f, U)
  <2>1. \A U \in SUBSET T : U # T => \E g : Solves(g, f, U)  BY <1>2
  <2> QED  BY <2>1
<1> DEFINE h == [s \in SUBSET T |->
                   IF s = {} THEN 0 ELSE f[Pick(s)] + G(s \ {Pick(s)})[s \ {Pick(s)}]]
<1>5. ASSUME NEW s \in SUBSET T, s # T  PROVE h[s] = G(s)[s]
  <2>1. Solves(G(s), f, s)  BY <1>4, <1>5
  <2>2. CASE s = {}
    <3>1. h[s] = 0  BY <2>2
    <3>2. G(s)[s] = 0
      <4> HIDE DEF G
      <4> QED  BY <2>1, <2>2 DEF Solves
    <3> QED  BY <3>1, <3>2
  <2>3. CASE s # {}
    <3> DEFINE u == s \ {Pick(s)}
    <3>1. Pick(s) \in s  BY <2>3, PickIn
    <3>2. Solves(G(u), f, u) /\ u \in SUBSET s  BY <1>4, <1>5, <3>1
    <3>3. G(s)[u] = G(u)[u]
      <4> HIDE DEF G, u
      <4>1. IsFiniteSet(s)  BY <1>2, FS_Subset
      <4> QED  BY <2>1, <3>2, <4>1, SolutionsAgree
    <3>4. G(s)[s] = f[Pick(s)] + G(s)[u]
      <4> HIDE DEF G
      <4> QED  BY <2>1, <2>3 DEF Solves
    <3>5. h[s] = f[Pick(s)] + G(u)[u]  BY <2>3
    <3> QED  BY <3>3, <3>4, <3>5
  <2> QED  BY <2>2, <2>3
<1>6. ASSUME NEW s \in SUBSET T, s # {}  PROVE h[s] = f[Pick(s)] + h[s \ {Pick(s)}]
  <2>1. Pick(s) \in s  BY <1>6, PickIn
  <2>2. s \ {Pick(s)} \in SUBSET T /\ s \ {Pick(s)} # T  BY <2>1
  <2>3. h[s \ {Pick(s)}] = G(s \ {Pick(s)})[s \ {Pick(s)}]  BY <2>2, <1>5
  <2>4. h[s] = f[Pick(s)] + G(s \ {Pick(s)})[s \ {Pick(s)}]  BY <1>6
  <2> HIDE DEF h, G
  <2> QED  BY <2>3, <2>4
<1>7. h[{}] = 0 /\ h = [s \in SUBSET T |-> h[s]]  OBVIOUS
<1>8. Solves(h, f, T)
  <2> HIDE DEF h
  <2>1. \A s \in SUBSET T : h[s] = IF s = {} THEN 0 ELSE f[Pick(s)] + h[s \ {Pick(s)}]
    BY <1>6, <1>7
  <2> QED  BY <1>7, <2>1 DEF Solves
<1> QED  BY <1>3, <1>8

-----------------------------------------------------------------------------
LEMMA SumEmpty == ASSUME NEW f PROVE Sum(f, {}) = 0
<1> DEFINE g == CHOOSE g : Solves(g, f, {})
<1>1. Solves(g, f, {})  BY FS_EmptySet, SolutionExists
<1>2. Sum(f, {}) = g[{}]  BY SumIsSolution
<1> HIDE DEF g
<1> QED  BY <1>1, <1>2 DEF Solves

LEMMA SumStep ==
  ASSUME NEW f, NEW S, IsFiniteSet(S), S # {}
  PROVE  Sum(f, S) = f[Pick(S)] + Sum(f, S \ {Pick(S)})
<1> DEFINE g(U) == CHOOSE g : Solves(g, f, U)
           T == S \ {Pick(S)}
<1>1. \A U : IsFiniteSet(U) => Solves(g(U), f, U)  BY SolutionExists
<1>2. \A U : Sum(f, U) = g(U)[U]  BY SumIsSolution
<1> HIDE DEF g
<1>3. IsFiniteSet(T) /\ T \in SUBSET S  BY FS_Subset
<1>4. Solves(g(S), f, S) /\ Solves(g(T), f, T)  BY <1>1, <1>3
<1>5. g(S)[S] = f[Pick(S)] + g(S)[T]  BY <1>4 DEF Solves
<1>6. g(S)[T] = g(T)[T]
  <2> HIDE DEF T
  <2> QED  BY <1>3, <1>4, SolutionsAgree
<1> QED  BY <1>2, <1>5, <1>6

LEMMA SumType ==
  ASSUME NEW D, NEW f \in [D -> Nat], NEW S \in SUBSET D, IsFiniteSet(S)
  PROVE  Sum(f, S) \in Nat
<1> DEFINE Bad == {s \in SUBSET S : Sum(f, s) \notin Nat}
<1>1. SUFFICES ASSUME Bad # {} PROVE FALSE  OBVIOUS
<1>2. PICK T \in Bad : IsFiniteSet(T) /\ \A U \in Bad : U \subseteq T => U = T
  <2> HIDE DEF Bad
  <2>1. Bad \in SUBSET (SUBSET S)  BY DEF Bad
  <2> QED  BY <1>1, <2>1, LeastBad
<1>3. T \in SUBSET S /\ Sum(f, T) \notin Nat  OBVIOUS
<1>4. T # {}  BY <1>3, SumEmpty
<1>5. Pick(T) \in T  BY <1>4, PickIn
<1>6. Sum(f, T \ {Pick(T)}) \in Nat  BY <1>2, <1>3, <1>5
<1>7. f[Pick(T)] \in Nat  BY <1>3, <1>5
<1> QED  BY <1>2, <1>3, <1>4, <1>6, <1>7, SumStep

\* the order in which the elements are taken out does not matter
LEMMA SumRemove ==
  ASSUME NEW D, NEW f \in [D -> Nat], NEW S \in SUBSET D, IsFiniteSet(S), NEW x \in S
  PROVE  Sum(f, S) = f[x] + Sum(f, S \ {x})
<1> DEFINE Bad == {s \in SUBSET S : \E y \in s : Sum(f, s) # f[y] + Sum(f, s \ {y})}
<1>1. SUFFICES ASSUME Bad # {} PROVE FALSE  OBVIOUS
<1>2. PICK T \in Bad : IsFiniteSet(T) /\ \A U \in Bad : U \subseteq T => U = T
  <2> HIDE DEF Bad
  <2>1. Bad \in SUBSET (SUBSET S)  BY DEF Bad
  <2> QED  BY <1>1, <2>1, LeastBad
<1>3. T \in SUBSET S  OBVIOUS
<1>4. PICK y \in T : Sum(f, T) # f[y] + Sum(f, T \ {y})  OBVIOUS
<1> DEFINE c == Pick(T)
           Rest == (T \ {c}) \ {y}
<1>5. c \in T  BY PickIn
<1>6. Sum(f, T) = f[c] + Sum(f, T \ {c})  BY <1>2, <1>5, SumStep
<1>7. c # y  BY <1>4, <1>6
<1>8. T \ {c} \notin Bad /\ T \ {y} \notin Bad  BY <1>2, <1>5
<1>9. Sum(f, T \ {c}) = f[y] + Sum(f, Rest)  BY <1>3, <1>7, <1>8
<1>10. Sum(f, T \ {y}) = f[c] + Sum(f, (T \ {y}) \ {c})  BY <1>3, <1>5, <1>7, <1>8
<1>11. Rest = (T \ {y}) \ {c}  OBVIOUS
<1>12. Sum(f, Rest) \in Nat /\ f[c] \in Nat /\ f[y] \in Nat
  <2>1. IsFiniteSet(Rest) /\ Rest \in SUBSET D  BY <1>2, <1>3, FS_Subset
  <2> QED  BY <2>1, SumType, <1>3, <1>5
<1> HIDE DEF Bad, c, Rest
<1> QED  BY <1>4, <1>6, <1>9, <1>10, <1>11, <1>12

LEMMA SumAdd ==
  ASSUME NEW D, NEW f \in [D -> Nat], NEW S \in SUBSET D, IsFiniteSet(S), NEW x \in D \ S
  PROVE  Sum(f, S \cup {x}) = Sum(f, S) + f[x]
<1>1. IsFiniteSet(S \cup {x})  BY FS_AddElement
<1>2. Sum(f, S \cup {x}) = f[x] + Sum(f, (S \cup {x}) \ {x})  BY <1>1, SumRemove
<1>3. (S \cup {x}) \ {x} = S  OBVIOUS
<1>4. Sum(f, S) \in Nat  BY SumType
<1> QED  BY <1>2, <1>3, <1>4

LEMMA SumCong ==
  ASSUME NEW S, IsFiniteSet(S), NEW f, NEW g, \A x \in S : f[x] = g[x]
  PROVE  Sum(f, S) = Sum(g, S)
<1> DEFINE Bad == {s \in SUBSET S : Sum(f, s) # Sum(g, s)}
<1>1. SUFFICES ASSUME Bad # {} PROVE FALSE  OBVIOUS
<1>2. PICK T \in Bad : IsFiniteSet(T) /\ \A U \in Bad : U \subseteq T => U = T
  <2> HIDE DEF Bad
  <2>1. Bad \in SUBSET (SUBSET S)  BY DEF Bad
  <2> QED  BY <1>1, <2>1, LeastBad
<1>3. T \in SUBSET S /\ Sum(f, T) # Sum(g, T)  OBVIOUS
<1>4. T # {}  BY <1>3, SumEmpty
<1>5. Pick(T) \in T  BY <1>4, PickIn
<1>6. Sum(f, T \ {Pick(T)}) = Sum(g, T \ {Pick(T)})  BY <1>2, <1>3, <1>5
<1> QED  BY <1>2, <1>3, <1>4, <1>5, <1>6, SumStep

-----------------------------------------------------------------------------
(* Powers of two: 2 ^ n is the number of subsets of 1..n.                  *)

\* among the numbers that have a bad property there is a first one
LEMMA FirstBad ==
  ASSUME NEW Bad, Bad \subseteq Nat, Bad # {}
  PROVE  \E n \in Bad : \A m \in Nat : m < n => m \notin Bad
<1>1. PICK n \in Bad : \A m \in Bad : <<m, n>> \notin OpToRel(<, Nat)
  <2>1. IsWellFoundedOn(OpToRel(<, Nat), Nat)  BY NatLessThanWellFounded
  <2> QED  BY <2>1, WFMin
<1> QED  BY <1>1 DEF OpToRel

LEMMA PowerSize ==
  ASSUME NEW n \in Nat
  PROVE  IsFiniteSet(SUBSET (1..n)) /\ Cardinality(SUBSET (1..n)) = 2 ^ n
<1>1. IsFiniteSet(1..n) /\ Cardinality(1..n) = n
  <2>1. IsFiniteSet(1..n) /\ Cardinality(1..n) = IF 1 > n THEN 0 ELSE n - 1 + 1
    BY FS_Interval
  <2> QED  BY <2>1
<1> QED  BY <1>1, FS_SUBSET

LEMMA PowerType == ASSUME NEW n \in Nat PROVE 2 ^ n \in Nat \ {0}
<1>1. 2 ^ n \in Nat  BY PowerSize, FS_CardinalityType
<1>2. 2 ^ n # 0
  <2>1. {} \in SUBSET (1..n)  OBVIOUS
  <2> QED  BY <2>1, PowerSize, FS_EmptySet
<1> QED  BY <1>1, <1>2

LEMMA PowerStep == ASSUME NEW n \in Nat PROVE 2 ^ (n + 1) = 2 * 2 ^ n
<1> DEFINE A == SUBSET (1..n)
           B == {s \in SUBSET (1..(n + 1)) : n + 1 \in s}
           f == [s \in A |-> s \cup {n + 1}]
<1>1. IsFiniteSet(A) /\ Cardinality(A) = 2 ^ n  BY PowerSize
<1>2. SUBSET (1..(n + 1)) = A \cup B
  <2>1. 1..(n + 1) = (1..n) \cup {n + 1}  OBVIOUS
  <2> QED  BY <2>1
<1>3. A \cap B = {}
  <2>1. n + 1 \notin 1..n  OBVIOUS
  <2> QED  BY <2>1
<1>4. f \in Bijection(A, B)
  <2>1. 1..(n + 1) = (1..n) \cup {n + 1} /\ n + 1 \notin 1..n  OBVIOUS
  <2>2. f \in [A -> B]  BY <2>1
  <2>3. \A s, t \in A : f[s] = f[t] => s = t  BY <2>1
  <2>4. \A u \in B : \E s \in A : f[s] = u
    <3> SUFFICES ASSUME NEW u \in B PROVE \E s \in A : f[s] = u  OBVIOUS
    <3>1. u \ {n + 1} \in A  BY <2>1
    <3>2. f[u \ {n + 1}] = u  BY <3>1
    <3> QED  BY <3>1, <3>2
  <2> HIDE DEF f, A, B
  <2> QED  BY <2>2, <2>3, <2>4 DEF Bijection, Injection, IsInjective, Surjection
<1> HIDE DEF A, B, f
<1>5. IsFiniteSet(B) /\ Cardinality(B) = 2 ^ n
  BY <1>1, <1>4, FS_Bijection DEF ExistsBijection
<1>6. Cardinality(A \cup B) = Cardinality(A) + Cardinality(B) - Cardinality(A \cap B)
  BY <1>1, <1>5, FS_Union
<1>7. Cardinality({}) = 0  BY FS_EmptySet
<1>8. Cardinality(SUBSET (1..(n + 1))) = 2 ^ (n + 1)  BY PowerSize
<1>9. 2 ^ (n + 1) = Cardinality(A) + Cardinality(B) - 0
  BY <1>2, <1>3, <1>6, <1>7, <1>8
<1>10. 2 ^ (n + 1) = 2 ^ n + 2 ^ n  BY <1>1, <1>5, <1>9, PowerType
<1> QED  BY <1>10, PowerType

LEMMA PowerSum ==
  ASSUME NEW m \in Nat, NEW n \in Nat
  PROVE  2 ^ (m + n) = 2 ^ m * 2 ^ n
<1> DEFINE Bad == {k \in Nat : 2 ^ (m + k) # 2 ^ m * 2 ^ k}
<1> SUFFICES ASSUME Bad # {} PROVE FALSE  OBVIOUS
<1>1. PICK k \in Bad : \A j \in Nat : j < k => j \notin Bad
  <2> HIDE DEF Bad
  <2>1. Bad \subseteq Nat  BY DEF Bad
  <2> QED  BY <2>1, FirstBad
<1>2. 2 ^ m \in Nat \ {0}  BY PowerType
<1>3. k # 0
  <2>1. m + 0 = m /\ 2 ^ 0 = 1  OBVIOUS
  <2>2. 2 ^ m * 1 = 2 ^ m  BY <1>2
  <2> QED  BY <2>1, <2>2
<1>4. k - 1 \in Nat /\ (k - 1) + 1 = k /\ (m + (k - 1)) + 1 = m + k  BY <1>3
<1>5. 2 ^ (m + (k - 1)) = 2 ^ m * 2 ^ (k - 1)  BY <1>1, <1>4
<1>6. 2 ^ (k - 1) \in Nat  BY <1>4, PowerType
<1>7. 2 ^ k = 2 * 2 ^ (k - 1)  BY <1>4, PowerStep
<1>8. 2 ^ (m + k) = 2 * 2 ^ (m + (k - 1))
  <2>1. m + (k - 1) \in Nat  BY <1>4
  <2> QED  BY <1>4, <2>1, PowerStep
<1>9. \A a, b \in Nat : 2 * (a * b) = a * (2 * b)  OBVIOUS
<1> QED  BY <1>2, <1>5, <1>6, <1>7, <1>8, <1>9

LEMMA PowerMonotonic ==
  ASSUME NEW m \in Nat, NEW n \in Nat, m <= n
  PROVE  2 ^ m <= 2 ^ n
<1>1. n - m \in Nat /\ m + (n - m) = n  OBVIOUS
<1>2. 2 ^ n = 2 ^ m * 2 ^ (n - m)  BY <1>1, PowerSum
<1>3. 2 ^ m \in Nat \ {0} /\ 2 ^ (n - m) \in Nat \ {0}  BY <1>1, PowerType
<1>4. \A a, b \in Nat \ {0} : a <= a * b  OBVIOUS
<1> QED  BY <1>2, <1>3, <1>4

LEMMA DivMod ==
  ASSUME NEW x \in Nat, NEW y \in Nat \ {0}
  PROVE  /\ x \div y \in Nat
         /\ x % y \in 0..(y - 1)
         /\ x = (x \div y) * y + (x % y)
<1>1. x \div y \in Nat  OBVIOUS
<1>2. x % y \in 0..(y - 1)  OBVIOUS
<1>3. x = (x \div y) * y + (x % y)  OBVIOUS
<1> QED  BY <1>1, <1>2, <1>3, Zenon

LEMMA ModUnique ==
  ASSUME NEW d \in Nat \ {0}, NEW k \in Nat, NEW s \in Nat, s < d
  PROVE  (k * d + s) \div d = k /\ (k * d + s) % d = s
<1> DEFINE x == k * d + s
           j == x \div d
           r == x % d
<1>1. \A a, b \in Nat : a * b \in Nat  OBVIOUS
<1>2. x \in Nat  BY <1>1
<1>4. j \in Nat /\ r \in 0..(d - 1) /\ x = j * d + r  BY <1>2, DivMod
<1> HIDE DEF j, r
<1>5. \A a, b \in Nat : a < b => a * d + d <= b * d
  <2> SUFFICES ASSUME NEW a \in Nat, NEW b \in Nat, a < b PROVE a * d + d <= b * d  OBVIOUS
  <2>1. b - a \in Nat \ {0}  OBVIOUS
  <2>2. \A e \in Nat \ {0} : d <= e * d  OBVIOUS
  <2>3. d <= (b - a) * d  BY <2>1, <2>2
  <2>4. (b - a) * d = b * d - a * d  OBVIOUS
  <2>5. a * d \in Nat /\ b * d \in Nat  BY <1>1
  <2> QED  BY <2>3, <2>4, <2>5
<1>6. k * d \in Nat /\ j * d \in Nat  BY <1>1, <1>4
<1>7. ~(j < k) /\ ~(k < j)  BY <1>4, <1>5, <1>6
<1>8. j = k  BY <1>4, <1>7
<1>9. r = s  BY <1>4, <1>6, <1>8
<1> QED  BY <1>8, <1>9 DEF j, r

\* the last p * q values are q rows of p
LEMMA ModSplit ==
  ASSUME NEW n \in Nat, NEW p \in Nat \ {0}, NEW q \in Nat \ {0}
  PROVE  n % (p * q) = (n % p) + ((n \div p) % q) * p
<1> DEFINE a == n \div p
           r == n % p
           b == a \div q
           c == a % q
<1>1. \A x, y \in Nat : x * y \in Nat  OBVIOUS
<1>3. a \in Nat /\ r \in 0..(p - 1) /\ n = a * p + r  BY DivMod
<1> HIDE DEF a, r
<1>4. b \in Nat /\ c \in 0..(q - 1) /\ a = b * q + c  BY <1>3, DivMod
<1> HIDE DEF b, c
<1> DEFINE d == p * q
           s == c * p + r
<1>5. d \in Nat \ {0}
  <2>1. \A x, y \in Nat \ {0} : x * y \in Nat \ {0}  OBVIOUS
  <2> QED  BY <2>1
<1>6. s \in Nat /\ s < d
  <2>1. \A x, y \in Nat : \A z \in Nat : x <= y - 1 => x * z + z <= z * y
    <3> SUFFICES ASSUME NEW x \in Nat, NEW y \in Nat, NEW z \in Nat, x <= y - 1 PROVE x * z + z <= z * y
      OBVIOUS
    <3>1. \A u, w \in Nat : u * w \in Nat  OBVIOUS
    <3>2. (y - 1) - x \in Nat  OBVIOUS
    <3>3. ((y - 1) - x) * z \in Nat  BY <3>1, <3>2
    <3>4. ((y - 1) - x) * z = z * y - (x * z + z)  OBVIOUS
    <3> QED  BY <3>1, <3>3, <3>4
  <2>2. c \in Nat /\ q \in Nat /\ c <= q - 1 /\ r \in Nat /\ r < p  BY <1>3, <1>4
  <2>3. c * p + p <= p * q  BY <2>1, <2>2
  <2>4. c * p \in Nat  BY <1>1, <2>2
  <2> QED  BY <2>2, <2>3, <2>4, <1>5
<1>7. n = b * d + s
  <2>1. \A w, x, y, z \in Nat : (w * x + y) * z = w * (z * x) + y * z  OBVIOUS
  <2>2. c \in Nat /\ q \in Nat /\ p \in Nat  BY <1>4
  <2>3. a * p = b * (p * q) + c * p  BY <1>4, <2>1, <2>2
  <2>4. b * (p * q) \in Nat /\ c * p \in Nat  BY <1>1, <1>4, <1>5
  <2> QED  BY <1>3, <2>3, <2>4
<1> HIDE DEF d, s
<1>8. n % d = s  BY <1>4, <1>5, <1>6, <1>7, ModUnique
<1> QED  BY <1>8 DEF a, r, c, d, s

LEMMA IntervalFinite == ASSUME NEW n \in Nat PROVE IsFiniteSet(1..n)
BY FS_Interval

LEMMA SumNext ==
  ASSUME NEW n \in Nat, NEW m \in Nat, m + 1 <= n, NEW g \in [1..n -> Nat]
  PROVE  Sum(g, 1..(m + 1)) = Sum(g, 1..m) + g[m + 1]
<1> DEFINE D == 1..n
           h == g
           S == 1..m
           x == m + 1
<1>1. h \in [D -> Nat] /\ S \in SUBSET D /\ IsFiniteSet(S) /\ x \in D \ S
  BY IntervalFinite
<1>2. 1..(m + 1) = S \cup {x}  OBVIOUS
<1> HIDE DEF D, S, h, x
<1>3. Sum(h, S \cup {x}) = Sum(h, S) + h[x]  BY <1>1, SumAdd
<1> QED  BY <1>2, <1>3 DEF S, h, x

-----------------------------------------------------------------------------
(* Parts of sequences.                                                     *)

LEMMA SubPart ==
  ASSUME NEW T, NEW w \in Seq(T), NEW a \in Nat, NEW b \in Nat, a <= b, b <= Len(w)
  PROVE  /\ SubSeq(w, a + 1, b) \in Seq(T)
         /\ Len(SubSeq(w, a + 1, b)) = b - a
         /\ DOMAIN SubSeq(w, a + 1, b) = 1..(b - a)
         /\ \A i \in 1..(b - a) : SubSeq(w, a + 1, b)[i] = w[a + i]
<1>1. \A i \in (a + 1)..b : w[i] \in T
  <2>1. (a + 1)..b \subseteq 1..Len(w)  BY LenProperties
  <2> QED  BY <2>1, ElementOfSeq
<1> DEFINE s == SubSeq(w, a + 1, b)
<1>2. /\ s \in Seq(T)
      /\ Len(s) = IF a + 1 <= b THEN b - (a + 1) + 1 ELSE 0
      /\ \A i \in 1..(b - (a + 1) + 1) : s[i] = w[(a + 1) + i - 1]
  BY <1>1, SubSeqProperties
<1> HIDE DEF s
<1>3. b - (a + 1) + 1 = b - a /\ \A i \in 1..(b - a) : (a + 1) + i - 1 = a + i  OBVIOUS
<1>4. Len(s) = b - a  BY <1>2
<1>5. DOMAIN s = 1..(b - a)  BY <1>2, <1>4, LenProperties
<1> QED  BY <1>2, <1>3, <1>4, <1>5 DEF s

LEMMA SubHead ==
  ASSUME NEW T, NEW w \in Seq(T), NEW k \in 0..Len(w)
  PROVE  /\ SubSeq(w, 1, k) \in Seq(T) /\ Len(SubSeq(w, 1, k)) = k
         /\ DOMAIN SubSeq(w, 1, k) = 1..k
         /\ \A i \in 1..k : SubSeq(w, 1, k)[i] = w[i]
<1> DEFINE s == SubSeq(w, 0 + 1, k)
<1>1. 0 \in Nat /\ k \in Nat /\ 0 <= k /\ k <= Len(w) /\ k - 0 = k  BY LenProperties
<1>2. s \in Seq(T) /\ Len(s) = k /\ DOMAIN s = 1..k /\ \A i \in 1..k : s[i] = w[0 + i]
  BY <1>1, SubPart
<1>3. s = SubSeq(w, 1, k)  OBVIOUS
<1> HIDE DEF s
<1>4. \A i \in 1..k : s[i] = w[i]  BY <1>1, <1>2
<1> QED  BY <1>2, <1>3, <1>4

LEMMA SubOfSub ==
  ASSUME NEW T, NEW w \in Seq(T), NEW a \in Nat, NEW b \in Nat, a <= b, b <= Len(w),
         NEW k \in Nat, NEW l \in Nat, k <= l, l <= b - a
  PROVE  SubSeq(SubSeq(w, a + 1, b), k + 1, l) = SubSeq(w, (a + k) + 1, a + l)
<1> DEFINE s == SubSeq(w, a + 1, b)
           t == SubSeq(s, k + 1, l)
           u == SubSeq(w, (a + k) + 1, a + l)
<1>1. s \in Seq(T) /\ Len(s) = b - a /\ \A i \in 1..(b - a) : s[i] = w[a + i]  BY SubPart
<1>2. a + k \in Nat /\ a + l \in Nat /\ a + k <= a + l /\ a + l <= Len(w)
      /\ (a + l) - (a + k) = l - k
  BY LenProperties
<1>3. u \in Seq(T) /\ Len(u) = l - k /\ \A i \in 1..(l - k) : u[i] = w[(a + k) + i]
  BY <1>2, SubPart
<1> HIDE DEF s, u
<1>4. t \in Seq(T) /\ Len(t) = l - k /\ \A i \in 1..(l - k) : t[i] = s[k + i]
  BY <1>1, SubPart
<1> HIDE DEF t
<1>5. \A i \in 1..(l - k) : t[i] = u[i]
  <2> SUFFICES ASSUME NEW i \in 1..(l - k) PROVE t[i] = u[i]  OBVIOUS
  <2>1. k + i \in 1..(b - a) /\ a + (k + i) = (a + k) + i  OBVIOUS
  <2>2. t[i] = s[k + i]  BY <1>4
  <2>3. s[k + i] = w[(a + k) + i]  BY <1>1, <2>1
  <2> QED  BY <1>3, <2>2, <2>3
<1>6. t = u  BY <1>3, <1>4, <1>5, SeqEqual
<1> QED  BY <1>6 DEF s, t, u

LEMMA ConcatParts ==
  ASSUME NEW T, NEW u \in Seq(T), NEW w \in Seq(T)
  PROVE  /\ u \o w \in Seq(T) /\ Len(u \o w) = Len(u) + Len(w)
         /\ SubSeq(u \o w, 1, Len(u)) = u
         /\ SubSeq(u \o w, Len(u) + 1, Len(u) + Len(w)) = w
<1> DEFINE c == u \o w
           m == Len(u)
           n == Len(w)
<1>1. /\ c \in Seq(T) /\ Len(c) = m + n
      /\ \A i \in 1..(m + n) : c[i] = IF i <= m THEN u[i] ELSE w[i - m]
  BY ConcatProperties
<1>2. m \in Nat /\ n \in Nat  BY LenProperties
<1> HIDE DEF c
<1>3. SubSeq(c, 1, m) = u
  <2> DEFINE s == SubSeq(c, 0 + 1, m)
  <2>1. 0 \in Nat /\ 0 <= m /\ m <= Len(c) /\ m - 0 = m  BY <1>1, <1>2
  <2>2. s \in Seq(T) /\ Len(s) = m /\ \A i \in 1..m : s[i] = c[0 + i]
    BY <1>1, <1>2, <2>1, SubPart
  <2>3. s = SubSeq(c, 1, m)  OBVIOUS
  <2> HIDE DEF s
  <2>4. \A i \in 1..m : s[i] = u[i]  BY <1>1, <1>2, <2>2
  <2>5. s = u  BY <2>2, <2>4, SeqEqual
  <2> QED  BY <2>3, <2>5
<1>4. SubSeq(c, m + 1, m + n) = w
  <2> DEFINE s == SubSeq(c, m + 1, m + n)
  <2>1. m <= m + n /\ m + n <= Len(c) /\ (m + n) - m = n /\ m + n \in Nat  BY <1>1, <1>2
  <2>2. s \in Seq(T) /\ Len(s) = n /\ \A i \in 1..n : s[i] = c[m + i]
    BY <1>1, <1>2, <2>1, SubPart
  <2> HIDE DEF s
  <2>3. \A i \in 1..n : s[i] = w[i]
    <3> SUFFICES ASSUME NEW i \in 1..n PROVE s[i] = w[i]  OBVIOUS
    <3>1. m + i \in 1..(m + n) /\ ~(m + i <= m) /\ (m + i) - m = i  BY <1>2
    <3> QED  BY <1>1, <2>2, <3>1
  <2>4. s = w  BY <2>2, <2>3, SeqEqual
  <2> QED  BY <2>4 DEF s
<1> QED  BY <1>1, <1>3, <1>4 DEF c

-----------------------------------------------------------------------------
(* Sequences put together of others.                                       *)

\* g concatenates the first m of the sequences
Flattens(g, seqs, m) ==
  g = [i \in 1..m |-> IF i = 1 THEN seqs[i] ELSE g[i - 1] \o seqs[i]]

LEMMA FlattenExists == ASSUME NEW seqs, NEW n \in Nat PROVE \E g : Flattens(g, seqs, n)
<1> DEFINE Bad == {m \in Nat : ~\E g : Flattens(g, seqs, m)}
<1> SUFFICES ASSUME Bad # {} PROVE FALSE  OBVIOUS
<1>1. PICK m \in Bad : \A k \in Nat : k < m => k \notin Bad
  <2>1. Bad \subseteq Nat  OBVIOUS
  <2> HIDE DEF Bad
  <2> QED  BY <2>1, FirstBad
<1>2. m # 0
  <2> SUFFICES ASSUME m = 0 PROVE FALSE  OBVIOUS
  <2> DEFINE g == [i \in 1..0 |-> 0]
  <2>1. g = [i \in 1..0 |-> IF i = 1 THEN seqs[i] ELSE g[i - 1] \o seqs[i]]  OBVIOUS
  <2> HIDE DEF g
  <2>2. Flattens(g, seqs, m)  BY <2>1 DEF Flattens
  <2> QED  BY <2>2
<1>3. m - 1 \in Nat /\ m - 1 < m  BY <1>2
<1>4. PICK g : Flattens(g, seqs, m - 1)  BY <1>1, <1>3
<1> DEFINE h == [i \in 1..m |-> IF i \in 1..(m - 1) THEN g[i]
                               ELSE IF i = 1 THEN seqs[i] ELSE g[i - 1] \o seqs[i]]
<1>5. \A i \in 1..(m - 1) : g[i] = IF i = 1 THEN seqs[i] ELSE g[i - 1] \o seqs[i]
  BY <1>4 DEF Flattens
<1>6. ASSUME NEW i \in 1..m PROVE h[i] = IF i = 1 THEN seqs[i] ELSE h[i - 1] \o seqs[i]
  <2>1. h[i] = IF i = 1 THEN seqs[i] ELSE g[i - 1] \o seqs[i]  BY <1>5
  <2>2. i # 1 => h[i - 1] = g[i - 1]
    <3>1. i # 1 => i - 1 \in 1..(m - 1) /\ i - 1 \in 1..m  BY <1>3
    <3> QED  BY <3>1
  <2> QED  BY <2>1, <2>2
<1>7. h = [i \in 1..m |-> h[i]]  OBVIOUS
<1>8. Flattens(h, seqs, m)
  <2> HIDE DEF h
  <2> QED  BY <1>6, <1>7 DEF Flattens
<1> HIDE DEF h
<1> QED  BY <1>1, <1>8

LEMMA FlattenType == ASSUME NEW T, NEW seqs \in Seq(Seq(T)) PROVE FlattenSeq(seqs) \in Seq(T)
<1> DEFINE n == Len(seqs)
           g == CHOOSE g : Flattens(g, seqs, n)
<1>1. n \in Nat /\ \A i \in 1..n : seqs[i] \in Seq(T)  BY LenProperties, ElementOfSeq
<1>2. Flattens(g, seqs, n)  BY <1>1, FlattenExists
<1>3. FlattenSeq(seqs) = IF n = 0 THEN seqs ELSE g[n]  BY DEF FlattenSeq, Flattens
<1> HIDE DEF g, n
<1> DEFINE Bad == {i \in 1..n : g[i] \notin Seq(T)}
<1>4. Bad = {}
  <2> SUFFICES ASSUME Bad # {} PROVE FALSE  OBVIOUS
  <2>1. PICK i \in Bad : \A k \in Nat : k < i => k \notin Bad
    <3>1. Bad \subseteq Nat  BY <1>1
    <3> HIDE DEF Bad
    <3> QED  BY <3>1, FirstBad
  <2>2. g[i] = IF i = 1 THEN seqs[i] ELSE g[i - 1] \o seqs[i]  BY <1>2 DEF Flattens
  <2>3. i # 1 /\ i \in 1..n  BY <1>1, <2>2
  <2>4. i - 1 \in 1..n /\ i - 1 < i /\ i - 1 \in Nat  BY <1>1, <2>3
  <2>5. g[i - 1] \in Seq(T)  BY <2>1, <2>4
  <2>6. g[i] \in Seq(T)  BY <1>1, <2>2, <2>3, <2>5, ConcatProperties
  <2> QED  BY <2>6
<1>5. CASE n = 0
  <2>1. seqs = << >>  BY <1>5, EmptySeq DEF n
  <2> QED  BY <1>3, <1>5, <2>1, EmptySeq
<1>6. CASE n # 0
  <2>1. n \in 1..n  BY <1>1, <1>6
  <2> QED  BY <1>3, <1>4, <1>6, <2>1
<1> QED  BY <1>5, <1>6

LEMMA FlattenEmpty == FlattenSeq(<< >>) = << >>
BY DEF FlattenSeq

\* the first k sequences are concatenated on the way to all of them
LEMMA FlattenFirst ==
  ASSUME NEW T, NEW seqs \in Seq(Seq(T)), NEW g, Flattens(g, seqs, Len(seqs)),
         NEW k \in 1..Len(seqs)
  PROVE  FlattenSeq(SubSeq(seqs, 1, k)) = g[k]
<1> DEFINE ss == SubSeq(seqs, 1, k)
           h == CHOOSE h : Flattens(h, ss, k)
<1>1. Len(seqs) \in Nat /\ k \in Nat /\ k \in 0..Len(seqs)  BY LenProperties
<1>2. Len(ss) = k /\ \A i \in 1..k : ss[i] = seqs[i]  BY <1>1, SubHead
<1> HIDE DEF ss
<1>3. Flattens(h, ss, k)  BY <1>1, FlattenExists
<1>4. FlattenSeq(ss) = h[k]
  <2>1. FlattenSeq(ss) = IF Len(ss) = 0 THEN ss ELSE (CHOOSE f : Flattens(f, ss, Len(ss)))[Len(ss)]
    BY DEF FlattenSeq, Flattens
  <2> QED  BY <1>2, <2>1
<1> HIDE DEF h
<1> DEFINE Bad == {i \in 1..k : h[i] # g[i]}
<1>5. Bad = {}
  <2> SUFFICES ASSUME Bad # {} PROVE FALSE  OBVIOUS
  <2>1. PICK i \in Bad : \A j \in Nat : j < i => j \notin Bad
    <3>1. Bad \subseteq Nat  OBVIOUS
    <3> HIDE DEF Bad
    <3> QED  BY <3>1, FirstBad
  <2>2. i \in 1..k /\ i \in 1..Len(seqs)  BY <1>1
  <2>3. h[i] = IF i = 1 THEN ss[i] ELSE h[i - 1] \o ss[i]  BY <1>3, <2>2 DEF Flattens
  <2>4. g[i] = IF i = 1 THEN seqs[i] ELSE g[i - 1] \o seqs[i]  BY <2>2 DEF Flattens
  <2>5. i # 1  BY <1>2, <2>1, <2>2, <2>3, <2>4
  <2>6. i - 1 \in 1..k /\ i - 1 \in Nat /\ i - 1 < i  BY <2>2, <2>5
  <2>7. h[i - 1] = g[i - 1]  BY <2>1, <2>6
  <2> QED  BY <1>2, <2>1, <2>2, <2>3, <2>4, <2>7
<1>6. h[k] = g[k]  BY <1>1, <1>5
<1> QED  BY <1>4, <1>6 DEF ss

LEMMA FlattenStep ==
  ASSUME NEW T, NEW seqs \in Seq(Seq(T)), NEW k \in 0..(Len(seqs) - 1)
  PROVE  FlattenSeq(SubSeq(seqs, 1, k + 1)) = FlattenSeq(SubSeq(seqs, 1, k)) \o seqs[k + 1]
<1>1. Len(seqs) \in Nat /\ k + 1 \in 1..Len(seqs)  BY LenProperties
<1>2. PICK g : Flattens(g, seqs, Len(seqs))  BY <1>1, FlattenExists
<1>3. FlattenSeq(SubSeq(seqs, 1, k + 1)) = g[k + 1]  BY <1>1, <1>2, FlattenFirst
<1>4. g[k + 1] = IF k + 1 = 1 THEN seqs[k + 1] ELSE g[(k + 1) - 1] \o seqs[k + 1]
  BY <1>1, <1>2 DEF Flattens
<1>5. CASE k = 0
  <2>1. SubSeq(seqs, 1, k) = << >>  BY <1>5, SubSeqEmpty
  <2>2. seqs[k + 1] \in Seq(T)  BY <1>1, ElementOfSeq
  <2>3. << >> \o seqs[k + 1] = seqs[k + 1]  BY <2>2, ConcatEmptySeq
  <2>4. FlattenSeq(SubSeq(seqs, 1, k)) = << >>  BY <2>1, FlattenEmpty
  <2>5. g[k + 1] = seqs[k + 1]  BY <1>4, <1>5
  <2> QED  BY <1>3, <2>3, <2>4, <2>5
<1>6. CASE k # 0
  <2>1. k \in 1..Len(seqs) /\ (k + 1) - 1 = k /\ k + 1 # 1  BY <1>1, <1>6
  <2>2. FlattenSeq(SubSeq(seqs, 1, k)) = g[k]  BY <1>2, <2>1, FlattenFirst
  <2> QED  BY <1>3, <1>4, <2>1, <2>2
<1> QED  BY <1>5, <1>6

LEMMA Regroup ==
  ASSUME NEW T, NEW r \in Seq(T), NEW s \in Seq(T), NEW t \in Seq(T)
  PROVE  (r \o s) \o t = r \o (s \o t) /\ s \o t \in Seq(T)
<1>1. (r \o s) \o t = r \o (s \o t)  BY ConcatAssociative
<1>2. s \o t \in Seq(T)  BY ConcatProperties
<1> QED  BY <1>1, <1>2

LEMMA FlattenSplit ==
  ASSUME NEW T, NEW seqs \in Seq(Seq(T)), NEW k \in 0..Len(seqs)
  PROVE  \E rest \in Seq(T) :
           FlattenSeq(seqs) = FlattenSeq(SubSeq(seqs, 1, k)) \o rest
<1> DEFINE n == Len(seqs)
           F(j) == FlattenSeq(SubSeq(seqs, 1, j))
           Bad == {d \in 0..n : ~\E rest \in Seq(T) : F(n) = F(n - d) \o rest}
<1>1. n \in Nat  BY LenProperties
<1>2. \A j \in 0..n : F(j) \in Seq(T)
  <2> SUFFICES ASSUME NEW j \in 0..n PROVE F(j) \in Seq(T)  OBVIOUS
  <2>1. SubSeq(seqs, 1, j) \in Seq(Seq(T))  BY SubHead
  <2> QED  BY <2>1, FlattenType
<1>3. SubSeq(seqs, 1, n) = seqs  BY SubSeqFull
<1>4. \A j \in 0..(n - 1) : F(j + 1) = F(j) \o seqs[j + 1] /\ seqs[j + 1] \in Seq(T)
  <2> SUFFICES ASSUME NEW j \in 0..(n - 1)
               PROVE  F(j + 1) = F(j) \o seqs[j + 1] /\ seqs[j + 1] \in Seq(T)
    OBVIOUS
  <2>1. j + 1 \in 1..Len(seqs)  BY <1>1
  <2> QED  BY <2>1, FlattenStep, ElementOfSeq
<1>5. Bad = {}
  <2> SUFFICES ASSUME Bad # {} PROVE FALSE  OBVIOUS
  <2>1. PICK d \in Bad : \A e \in Nat : e < d => e \notin Bad
    <3>1. Bad \subseteq Nat  BY <1>1
    <3> HIDE DEF Bad
    <3> QED  BY <3>1, FirstBad
  <2>2. d # 0
    <3> SUFFICES ASSUME d = 0 PROVE FALSE  OBVIOUS
    <3>1. F(n) \in Seq(T) /\ n - 0 = n  BY <1>1, <1>2
    <3> HIDE DEF F
    <3>2. F(n) = F(n) \o << >> /\ << >> \in Seq(T)  BY <3>1, ConcatEmptySeq, EmptySeq
    <3> QED  BY <2>1, <3>1, <3>2
  <2>3. d - 1 \in 0..n /\ d - 1 \in Nat /\ d - 1 < d /\ n - d \in 0..(n - 1) /\ n - d \in 0..n
        /\ (n - d) + 1 = n - (d - 1)
    BY <1>1, <2>2
  <2> HIDE DEF F
  <2>4. PICK rest \in Seq(T) : F(n) = F(n - (d - 1)) \o rest  BY <2>1, <2>3
  <2> DEFINE s == seqs[(n - d) + 1]
             a == F(n - d)
  <2>5. F(n - (d - 1)) = a \o s /\ s \in Seq(T) /\ a \in Seq(T)  BY <1>2, <1>4, <2>3
  <2> HIDE DEF s, a
  <2>6. (a \o s) \o rest = a \o (s \o rest) /\ s \o rest \in Seq(T)
    <3>1. s \in Seq(T) /\ a \in Seq(T) /\ rest \in Seq(T)  BY <2>5
    <3>2. \A x, y, z \in Seq(T) : (x \o y) \o z = x \o (y \o z) /\ y \o z \in Seq(T)
      BY Regroup
    <3> QED  BY ONLY <3>1, <3>2
  <2>7. F(n) = a \o (s \o rest)  BY <2>4, <2>5, <2>6
  <2>8. \E x \in Seq(T) : F(n) = a \o x
    <3>1. PICK y : y = s \o rest  OBVIOUS
    <3>2. y \in Seq(T) /\ F(n) = a \o y  BY <2>6, <2>7, <3>1
    <3> QED  BY <3>2
  <2>9. \E x \in Seq(T) : F(n) = F(n - d) \o x  BY <2>8 DEF a
  <2>10. d \in 0..n /\ ~\E x \in Seq(T) : F(n) = F(n - d) \o x  BY <2>1
  <2> QED  BY <2>9, <2>10
<1>6. n - k \in 0..n /\ n - (n - k) = k  BY <1>1
<1> HIDE DEF F
<1>7. \E rest \in Seq(T) : F(n) = F(n - (n - k)) \o rest  BY <1>5, <1>6
<1>8. \E rest \in Seq(T) : F(n) = F(k) \o rest  BY <1>6, <1>7
<1> QED  BY <1>3, <1>8 DEF F
=============================================================================
