----------------------------- MODULE TraceProofs -----------------------------
(***************************************************************************)
(* Theorems about TraceTree, for every batch of spans and all options.     *)
(***************************************************************************)
EXTENDS TraceTree, DataLemmas

(* Listed puts the members of a finite set in the order of before.         *)

\* before is a strict total order of its domain
Orders(before, D) ==
  /\ before \in [D -> SUBSET D]
  /\ \A i \in D : i \notin before[i]
  /\ \A i, j \in D : i # j => i \in before[j] \/ j \in before[i]
  /\ \A i, j \in D : i \in before[j] => before[i] \subseteq before[j]

LEMMA RanksAreTaken ==
  ASSUME NEW D, IsFiniteSet(D), NEW before, Orders(before, D)
  PROVE  /\ \A k \in 1..Cardinality(D) : \E i \in D : Cardinality(before[i]) = k - 1
         /\ \A i, j \in D : i \in before[j] => Cardinality(before[i]) < Cardinality(before[j])
<1> DEFINE rank == [i \in D |-> Cardinality(before[i])]
           n == Cardinality(D)
<1>1. n \in Nat  BY FS_CardinalityType
<1>2. ASSUME NEW i \in D
      PROVE  /\ IsFiniteSet(before[i])
             /\ Cardinality(before[i]) \in Nat /\ Cardinality(before[i]) < n
  <2>1. before[i] \in SUBSET D /\ before[i] # D  BY DEF Orders
  <2>2. IsFiniteSet(before[i]) /\ Cardinality(before[i]) <= n /\ Cardinality(before[i]) # n
    BY <2>1, FS_Subset
  <2>3. Cardinality(before[i]) \in Nat  BY <2>2, FS_CardinalityType
  <2> QED  BY <1>1, <2>2, <2>3
<1>3. ASSUME NEW i \in D, NEW j \in D, i \in before[j]
      PROVE  Cardinality(before[i]) < Cardinality(before[j])
  <2>1. before[i] \in SUBSET before[j] /\ before[i] # before[j]  BY <1>3 DEF Orders
  <2>2. Cardinality(before[i]) <= Cardinality(before[j])
        /\ Cardinality(before[i]) # Cardinality(before[j])
    BY <1>2, <2>1, FS_Subset
  <2> QED  BY <1>2, <2>2
<1>4. rank \in [D -> 0..(n - 1)]
  <2>1. \A i \in D : Cardinality(before[i]) \in 0..(n - 1)  BY <1>1, <1>2
  <2> QED  BY <2>1
<1>5. \A i, j \in D : rank[i] = rank[j] => i = j
  <2> SUFFICES ASSUME NEW i \in D, NEW j \in D, i # j PROVE rank[i] # rank[j]  OBVIOUS
  <2>1. i \in before[j] \/ j \in before[i]  BY DEF Orders
  <2> QED  BY <1>2, <1>3, <2>1
<1>6. rank \in Injection(D, 0..(n - 1))
  <2> HIDE DEF rank, n
  <2> QED  BY <1>4, <1>5 DEF Injection, IsInjective
<1>7. IsFiniteSet(0..(n - 1)) /\ Cardinality(0..(n - 1)) = n
  <2> HIDE DEF n
  <2>1. 0 \in Int /\ n - 1 \in Int  BY <1>1
  <2>2. IsFiniteSet(0..(n - 1))
        /\ Cardinality(0..(n - 1)) = IF 0 > n - 1 THEN 0 ELSE (n - 1) - 0 + 1
    BY ONLY <2>1, FS_Interval
  <2> QED  BY <1>1, <2>2
<1>8. rank \in Surjection(D, 0..(n - 1))  BY <1>6, <1>7, FS_Injection
<1>9. ASSUME NEW k \in 1..n PROVE \E i \in D : Cardinality(before[i]) = k - 1
  <2>1. k - 1 \in 0..(n - 1)  BY <1>1
  <2>2. \E i \in D : rank[i] = k - 1
    <3> HIDE DEF rank, n
    <3> QED  BY <1>8, <2>1 DEF Surjection
  <2> QED  BY <2>2
<1> QED  BY <1>3, <1>9

LEMMA ListedProperties ==
  ASSUME NEW D, IsFiniteSet(D), NEW before, Orders(before, D)
  PROVE  /\ Listed(before) \in Seq(D)
         /\ Len(Listed(before)) = Cardinality(D)
         /\ DOMAIN Listed(before) = 1..Cardinality(D)
         /\ ToSet(Listed(before)) = D
         /\ \A k, m \in 1..Cardinality(D) :
              k < m => Listed(before)[k] \in before[Listed(before)[m]]
<1> DEFINE n == Cardinality(D)
           s == Listed(before)
<1>1. n \in Nat  BY FS_CardinalityType
<1>2. DOMAIN before = D  BY DEF Orders
<1>3. s = [k \in 1..n |-> CHOOSE i \in D : Cardinality(before[i]) = k - 1]
  BY <1>2 DEF Listed
<1>4. \A k \in 1..n : s[k] \in D /\ Cardinality(before[s[k]]) = k - 1
  BY <1>3, RanksAreTaken
<1>5. s \in [1..n -> D]  BY <1>3, <1>4
<1> HIDE DEF s, n
<1>6. s \in Seq(D)  BY <1>1, <1>5, FunctionIsSeq
<1>7. Len(s) = n /\ DOMAIN s = 1..n  BY <1>1, <1>5, <1>6, LenProperties
<1>8. \A i, j \in D : Cardinality(before[i]) = Cardinality(before[j]) => i = j
  <2> SUFFICES ASSUME NEW i \in D, NEW j \in D, i # j
               PROVE  Cardinality(before[i]) # Cardinality(before[j])
    OBVIOUS
  <2>1. i \in before[j] \/ j \in before[i]  BY DEF Orders
  <2>2. Cardinality(before[i]) < Cardinality(before[j])
        \/ Cardinality(before[j]) < Cardinality(before[i])
    BY <2>1, RanksAreTaken
  <2>3. Cardinality(before[i]) \in Nat /\ Cardinality(before[j]) \in Nat
    BY FS_Subset, FS_CardinalityType DEF Orders
  <2> QED  BY <2>2, <2>3
<1>9. \A i \in D : \E k \in 1..n : s[k] = i
  <2> SUFFICES ASSUME NEW i \in D PROVE \E k \in 1..n : s[k] = i  OBVIOUS
  <2>1. before[i] \in SUBSET D /\ before[i] # D  BY DEF Orders
  <2>2. Cardinality(before[i]) \in Nat /\ Cardinality(before[i]) < n
    <3>1. Cardinality(before[i]) <= n /\ Cardinality(before[i]) # n  BY <2>1, FS_Subset DEF n
    <3>2. Cardinality(before[i]) \in Nat  BY <2>1, FS_Subset, FS_CardinalityType
    <3> QED  BY <1>1, <3>1, <3>2
  <2>3. Cardinality(before[i]) + 1 \in 1..n  BY <1>1, <2>2
  <2>4. Cardinality(before[s[Cardinality(before[i]) + 1]]) = Cardinality(before[i])
    BY <1>4, <2>2, <2>3
  <2> QED  BY <1>4, <1>8, <2>3, <2>4
<1>10. ToSet(s) = D  BY <1>5, <1>7, <1>9 DEF ToSet
<1>11. ASSUME NEW k \in 1..n, NEW m \in 1..n, k < m PROVE s[k] \in before[s[m]]
  <2>1. s[k] \in D /\ s[m] \in D  BY <1>4
  <2>2. s[k] # s[m]  BY <1>4, <1>11
  <2>3. s[k] \in before[s[m]] \/ s[m] \in before[s[k]]  BY <2>1, <2>2 DEF Orders
  <2>4. CASE s[m] \in before[s[k]]
    <3>1. m - 1 < k - 1  BY <1>4, <2>1, <2>4, RanksAreTaken
    <3> QED  BY <1>11, <3>1
  <2> QED  BY <2>3, <2>4
<1> QED  BY <1>6, <1>7, <1>10, <1>11 DEF s, n

LEMMA InOrderProperties ==
  ASSUME NEW S, S \subseteq Nat, IsFiniteSet(S)
  PROVE  /\ InOrder(S) \in Seq(S)
         /\ Len(InOrder(S)) = Cardinality(S)
         /\ DOMAIN InOrder(S) = 1..Cardinality(S)
         /\ ToSet(InOrder(S)) = S
         /\ \A k, m \in 1..Cardinality(S) : k < m => InOrder(S)[k] < InOrder(S)[m]
<1> DEFINE before == [i \in S |-> {j \in S : j < i}]
<1>1. Orders(before, S)
  <2>1. before \in [S -> SUBSET S]  OBVIOUS
  <2>2. \A i \in S : i \notin before[i]  OBVIOUS
  <2>3. \A i, j \in S : i # j => i \in before[j] \/ j \in before[i]  OBVIOUS
  <2>4. \A i, j, k \in S : k < i /\ i < j => k < j  OBVIOUS
  <2>5. \A i, j \in S : i \in before[j] => before[i] \subseteq before[j]  BY <2>4
  <2> QED  BY <2>1, <2>2, <2>3, <2>5 DEF Orders
<1>2. \A i, j \in S : i \in before[j] => i < j  OBVIOUS
<1>3. InOrder(S) = Listed(before)  BY DEF InOrder
<1> HIDE DEF before
<1>4. /\ Listed(before) \in Seq(S)
      /\ Len(Listed(before)) = Cardinality(S)
      /\ DOMAIN Listed(before) = 1..Cardinality(S)
      /\ ToSet(Listed(before)) = S
      /\ \A k, m \in 1..Cardinality(S) :
           k < m => Listed(before)[k] \in before[Listed(before)[m]]
  BY <1>1, ListedProperties
<1>5. \A k \in 1..Cardinality(S) : Listed(before)[k] \in S  BY <1>4, ElementOfSeq
<1> QED  BY <1>2, <1>3, <1>4, <1>5

\* the spans of a batch
LEMMA SpansType ==
  ASSUME case \in CaseType
  PROVE  /\ Spans \in Seq(SpanType)
         /\ Positions = 1..Len(Spans) /\ Len(Spans) \in Nat
         /\ IsFiniteSet(Positions) /\ Cardinality(Positions) = Len(Spans)
         /\ \A i \in Positions : i \in Nat /\ Spans[i] \in SpanType
<1>1. Spans \in Seq(SpanType)  BY DEF Spans, CaseType
<1>2. Positions = 1..Len(Spans) /\ Len(Spans) \in Nat
  BY <1>1, LenProperties DEF Positions, Spans
<1>3. IsFiniteSet(1..Len(Spans)) /\ Cardinality(1..Len(Spans)) = Len(Spans)
  <2>1. /\ IsFiniteSet(1..Len(Spans))
        /\ Cardinality(1..Len(Spans)) = IF 1 > Len(Spans) THEN 0 ELSE Len(Spans) - 1 + 1
    BY <1>2, FS_Interval
  <2> QED  BY <1>2, <2>1
<1> QED  BY <1>1, <1>2, <1>3, ElementOfSeq

LEMMA sortSpansProperties ==
  ASSUME case \in CaseType, NEW S, S \subseteq Positions
  PROVE  /\ sortSpans(S) \in Seq(S)
         /\ Len(sortSpans(S)) = Cardinality(S)
         /\ DOMAIN sortSpans(S) = 1..Cardinality(S)
         /\ ToSet(sortSpans(S)) = S
         /\ \A k, m \in 1..Cardinality(S) : k < m =>
              LET i == sortSpans(S)[k]  j == sortSpans(S)[m]
              IN  \/ Spans[i].start < Spans[j].start
                  \/ Spans[i].start = Spans[j].start /\ i < j
<1> DEFINE Ahead(i, j) == \/ Spans[i].start < Spans[j].start
                          \/ Spans[i].start = Spans[j].start /\ i < j
           before == [i \in S |-> {j \in S : Ahead(j, i)}]
<1>1. IsFiniteSet(S)  BY SpansType, FS_Subset
<1>2. \A i \in S : i \in Nat /\ Spans[i].start \in Nat  BY SpansType DEF SpanType
<1>3. Orders(before, S)
  <2>1. before \in [S -> SUBSET S]  OBVIOUS
  <2>2. \A i \in S : ~Ahead(i, i)  BY <1>2
  <2>3. \A i, j \in S : i # j => Ahead(i, j) \/ Ahead(j, i)  BY <1>2
  <2>4. \A i, j, k \in S : Ahead(i, j) /\ Ahead(j, k) => Ahead(i, k)  BY <1>2
  <2>5. \A i, j \in S : i \in before[j] <=> Ahead(i, j)  OBVIOUS
  <2> HIDE DEF before, Ahead
  <2>6. \A i, j \in S : i \in before[j] => before[i] \subseteq before[j]
    <3> SUFFICES ASSUME NEW i \in S, NEW j \in S, i \in before[j], NEW k \in before[i]
                 PROVE  k \in before[j]
      OBVIOUS
    <3>1. k \in S  BY <2>1
    <3> QED  BY <2>4, <2>5, <3>1
  <2> QED  BY <2>1, <2>2, <2>3, <2>5, <2>6 DEF Orders
<1>4. \A i, j \in S : i \in before[j] => Ahead(i, j)  OBVIOUS
<1>5. sortSpans(S) = Listed(before)  BY DEF sortSpans
<1> HIDE DEF before
<1>6. /\ Listed(before) \in Seq(S)
      /\ Len(Listed(before)) = Cardinality(S)
      /\ DOMAIN Listed(before) = 1..Cardinality(S)
      /\ ToSet(Listed(before)) = S
      /\ \A k, m \in 1..Cardinality(S) :
           k < m => Listed(before)[k] \in before[Listed(before)[m]]
  BY <1>1, <1>3, ListedProperties
<1>7. \A k \in 1..Cardinality(S) : Listed(before)[k] \in S  BY <1>6, ElementOfSeq
<1>8. \A k, m \in 1..Cardinality(S) :
        k < m => Ahead(Listed(before)[k], Listed(before)[m])
  BY <1>4, <1>6, <1>7
<1> QED  BY <1>5, <1>6, <1>8

LEMMA ImageFinite ==
  ASSUME NEW S, IsFiniteSet(S), NEW f
  PROVE  IsFiniteSet({f[x] : x \in S})
<1> DEFINE g == [x \in S |-> f[x]]
<1>1. g \in Surjection(S, {f[x] : x \in S})  BY DEF Surjection
<1> QED  BY <1>1, FS_Surjection

\* a sequence of spans as a set
LEMMA ToSetType ==
  ASSUME case \in CaseType, NEW tr \in Seq(Positions)
  PROVE  /\ ToSet(tr) \subseteq Positions /\ IsFiniteSet(ToSet(tr))
         /\ tr # << >> => tr[1] \in ToSet(tr) /\ ToSet(tr) # {}
         /\ tr = << >> => ToSet(tr) = {}
<1>1. DOMAIN tr = 1..Len(tr) /\ Len(tr) \in Nat /\ \A k \in 1..Len(tr) : tr[k] \in Positions
  BY LenProperties, ElementOfSeq
<1>2. ToSet(tr) \subseteq Positions  BY <1>1 DEF ToSet
<1>3. tr # << >> => 1 \in 1..Len(tr)  BY <1>1, EmptySeq
<1>4. IsFiniteSet(ToSet(tr))  BY <1>2, SpansType, FS_Subset
<1>5. tr # << >> => tr[1] \in ToSet(tr)  BY <1>1, <1>3 DEF ToSet
<1>6. tr = << >> => ToSet(tr) = {}  BY DEF ToSet
<1> QED  BY <1>2, <1>4, <1>5, <1>6

\* gr is the traces of the spans S: one sequence each, no trace left out
Grouped(gr, S) ==
  /\ gr \in Seq(Seq(Positions))
  /\ \A k \in 1..Len(gr) :
       /\ gr[k] # << >> /\ Len(gr[k]) = Cardinality(ToSet(gr[k]))
       /\ ToSet(gr[k]) = {i \in S : Spans[i].trace = Spans[gr[k][1]].trace}
  /\ \A k, m \in 1..Len(gr) : k # m => Spans[gr[k][1]].trace # Spans[gr[m][1]].trace
  /\ \A i \in S : \E k \in 1..Len(gr) : i \in ToSet(gr[k])

LEMMA groupTracesProperties ==
  ASSUME case \in CaseType, NEW S, S \subseteq Positions, NEW gr, gr = groupTraces(S)
  PROVE  Grouped(gr, S)
<1> DEFINE F == {i \in S : \A j \in S : j < i => Spans[j].trace # Spans[i].trace}
           first == InOrder(F)
           Same(i) == {j \in S : Spans[j].trace = Spans[i].trace}
           n == Cardinality(F)
<1>1. /\ IsFiniteSet(F) /\ F \subseteq Nat /\ S \subseteq Nat /\ n \in Nat
      /\ \A i : IsFiniteSet(Same(i)) /\ Same(i) \subseteq Nat
  BY SpansType, FS_Subset, FS_CardinalityType
<1>2. /\ DOMAIN first = 1..n
      /\ \A k \in 1..n : first[k] \in F
      /\ \A k, m \in 1..n : k < m => first[k] < first[m]
      /\ ToSet(first) = F
  <2> HIDE DEF F
  <2> QED  BY <1>1, InOrderProperties, ElementOfSeq
<1>3. gr = [k \in 1..n |-> InOrder(Same(first[k]))]  BY <1>2 DEF groupTraces
<1>4. ASSUME NEW k \in 1..n
      PROVE  /\ gr[k] \in Seq(Positions) /\ gr[k] # << >>
             /\ Len(gr[k]) = Cardinality(ToSet(gr[k]))
             /\ ToSet(gr[k]) = Same(first[k])
             /\ gr[k][1] \in Same(first[k])
  <2>1. gr[k] = InOrder(Same(first[k]))  BY <1>3
  <2>2. /\ gr[k] \in Seq(Same(first[k])) /\ ToSet(gr[k]) = Same(first[k])
        /\ Len(gr[k]) = Cardinality(Same(first[k]))
    <3> HIDE DEF Same
    <3> QED  BY <1>1, <2>1, InOrderProperties
  <2>3. first[k] \in Same(first[k])  BY <1>2
  <2>4. Same(first[k]) \subseteq Positions  OBVIOUS
  <2> HIDE DEF Same
  <2>5. gr[k] \in Seq(Positions)  BY <2>2, <2>4, SeqMonotonic
  <2> QED  BY <2>2, <2>3, <2>5, ToSetType
<1>5. gr \in Seq(Seq(Positions)) /\ Len(gr) = n
  <2> HIDE DEF n
  <2>1. gr \in [1..n -> Seq(Positions)]  BY <1>3, <1>4
  <2> QED  BY <1>1, <2>1, FunctionIsSeq, LenProperties
<1>6. \A k \in 1..n : Spans[gr[k][1]].trace = Spans[first[k]].trace  BY <1>4
<1>7. ASSUME NEW k \in 1..n, NEW m \in 1..n, k # m
      PROVE  Spans[first[k]].trace # Spans[first[m]].trace
  <2>1. first[k] < first[m] \/ first[m] < first[k]  BY <1>1, <1>2, <1>7
  <2> QED  BY <1>2, <2>1
<1>8. ASSUME NEW i \in S PROVE \E k \in 1..n : i \in Same(first[k])
  <2> DEFINE least == Min(Same(i))
  <2>1. Same(i) \subseteq Int /\ IsFiniteSet(Same(i)) /\ i \in Same(i)  BY <1>1
  <2>2. least \in Same(i) /\ \A j \in Same(i) : least <= j
    <3> HIDE DEF Same
    <3> QED  BY <2>1, MinIsLeast
  <2> HIDE DEF least
  <2>3. least \in F
    <3> SUFFICES ASSUME NEW j \in S, j < least, Spans[j].trace = Spans[least].trace
                 PROVE  FALSE
      BY <2>2
    <3>1. j \in Same(i)  BY <2>2
    <3> QED  BY <1>1, <2>2, <3>1
  <2>4. PICK k \in 1..n : first[k] = least
    <3> HIDE DEF F, n, first
    <3> QED  BY <1>2, <2>3 DEF ToSet
  <2> QED  BY <2>2, <2>4
<1> HIDE DEF n, first, F
<1>9. \A k \in 1..Len(gr) :
        /\ gr[k] # << >> /\ Len(gr[k]) = Cardinality(ToSet(gr[k]))
        /\ ToSet(gr[k]) = {i \in S : Spans[i].trace = Spans[gr[k][1]].trace}
  BY <1>4, <1>5, <1>6
<1>10. \A k, m \in 1..Len(gr) : k # m => Spans[gr[k][1]].trace # Spans[gr[m][1]].trace
  <2> SUFFICES ASSUME NEW k \in 1..n, NEW m \in 1..n, k # m
               PROVE  Spans[gr[k][1]].trace # Spans[gr[m][1]].trace
    BY <1>5
  <2>1. Spans[gr[k][1]].trace = Spans[first[k]].trace  BY <1>6
  <2>2. Spans[gr[m][1]].trace = Spans[first[m]].trace  BY <1>6
  <2> QED  BY <1>7, <2>1, <2>2
<1>11. \A i \in S : \E k \in 1..Len(gr) : i \in ToSet(gr[k])  BY <1>4, <1>5, <1>8
<1> QED  BY <1>5, <1>9, <1>10, <1>11 DEF Grouped

\* the traces that Group puts on the list
LEMMA GroupMakes ==
  ASSUME TypeOK, Group
  PROVE  Grouped(traces', filterSpans)
<1>1. filterSpans \subseteq Positions /\ case \in CaseType
  BY DEF filterSpans, OfService, TypeOK
<1> QED  BY <1>1, groupTracesProperties DEF Group

-----------------------------------------------------------------------------
(* What a header shows.                                                    *)

LEMMA StartedProperties ==
  ASSUME case \in CaseType, NEW tr \in Seq(Positions)
  PROVE  /\ Started(tr) \in Nat
         /\ \A i \in ToSet(tr) :
              Spans[i].start > 0 => 0 < Started(tr) /\ Started(tr) <= Spans[i].start
         /\ tr # << >> => \E i \in ToSet(tr) : Started(tr) = Spans[i].start
<1> DEFINE G == ToSet(tr)
           all == {Spans[i].start : i \in G}
           starts == all \ {0}
<1>1. G \subseteq Positions /\ IsFiniteSet(G)  BY ToSetType
<1>2. all = {[j \in G |-> Spans[j].start][i] : i \in G}  OBVIOUS
<1>3. IsFiniteSet(all)
  <2> HIDE DEF G
  <2>1. IsFiniteSet({[j \in G |-> Spans[j].start][i] : i \in G})  BY <1>1, ImageFinite
  <2> QED  BY <1>2, <2>1
<1>4. starts \subseteq Nat \ {0}
  <2>1. all \subseteq Nat  BY <1>1, SpansType DEF SpanType
  <2> HIDE DEF all
  <2> QED  BY <2>1
<1>5. IsFiniteSet(starts)  BY <1>3, FS_Subset
<1>6. Started(tr) = IF starts = {} THEN 0 ELSE Min(starts)  BY DEF Started
<1>a. starts = {} /\ tr # << >> => 0 \in all
  <2> SUFFICES ASSUME starts = {}, tr # << >> PROVE 0 \in all  OBVIOUS
  <2>1. PICK i : i \in G  BY ToSetType
  <2>2. Spans[i].start \in all  BY <2>1
  <2> HIDE DEF all
  <2> QED  BY <2>2
<1>b. starts \subseteq all
  <2> HIDE DEF all
  <2> QED  OBVIOUS
<1> HIDE DEF starts
<1>7. starts # {} => Min(starts) \in starts /\ \A t \in starts : Min(starts) <= t
  <2>1. starts \subseteq Int  BY <1>4
  <2> QED  BY <1>5, <2>1, MinIsLeast
<1>8. starts # {} => Min(starts) \in Nat /\ Min(starts) > 0
  <2>1. starts # {} => Min(starts) \in Nat \ {0}  BY <1>4, <1>7
  <2>2. \A n \in Nat \ {0} : n \in Nat /\ n > 0  OBVIOUS
  <2> QED  BY <2>1, <2>2
<1>9. \A i \in G : Spans[i].start > 0 => Spans[i].start \in starts
  <2> SUFFICES ASSUME NEW i \in G, Spans[i].start > 0 PROVE Spans[i].start \in starts
    OBVIOUS
  <2>1. Spans[i].start \in all /\ Spans[i].start # 0  OBVIOUS
  <2> QED  BY <2>1 DEF starts
<1>10. tr # << >> => Started(tr) \in all
  <2> HIDE DEF all
  <2> QED  BY <1>6, <1>7, <1>a, <1>b
<1>11. \A i \in G : Spans[i].start > 0 => 0 < Started(tr) /\ Started(tr) <= Spans[i].start
  BY <1>6, <1>7, <1>8, <1>9
<1> QED  BY <1>6, <1>8, <1>10, <1>11

LEMMA ExtentProperties ==
  ASSUME case \in CaseType, NEW tr \in Seq(Positions), tr # << >>
  PROVE  /\ Extent(tr) \in Nat
         /\ \A i \in ToSet(tr) :
              Spans[i].end > Started(tr) => Spans[i].end - Started(tr) <= Extent(tr)
         /\ Extent(tr) > 0 => \E i \in ToSet(tr) : Spans[i].end = Started(tr) + Extent(tr)
<1> DEFINE G == ToSet(tr)
           ends == {Spans[i].end : i \in G}
<1>1. G \subseteq Positions /\ IsFiniteSet(G) /\ G # {}  BY ToSetType
<1>2. ends = {[j \in G |-> Spans[j].end][i] : i \in G}  OBVIOUS
<1>3. IsFiniteSet(ends)
  <2> HIDE DEF G
  <2>1. IsFiniteSet({[j \in G |-> Spans[j].end][i] : i \in G})  BY <1>1, ImageFinite
  <2> QED  BY <1>2, <2>1
<1>4. ends \subseteq Nat /\ ends # {}  BY <1>1, SpansType DEF SpanType
<1>5. Extent(tr) = IF Max(ends) > Started(tr) THEN Max(ends) - Started(tr) ELSE 0
  BY DEF Extent
<1> HIDE DEF ends
<1>6. Max(ends) \in ends /\ \A t \in ends : t <= Max(ends)
  <2>1. ends \subseteq Int  BY <1>4
  <2> QED  BY <1>3, <1>4, <2>1, MaxIsGreatest
<1>7. Max(ends) \in Nat  BY <1>4, <1>6
<1>8. Started(tr) \in Nat  BY StartedProperties
<1>9. \A i \in G : Spans[i].end \in ends /\ Spans[i].end \in Nat
  BY <1>1, SpansType DEF SpanType, ends
<1>10. PICK i \in G : Spans[i].end = Max(ends)  BY <1>6 DEF ends
<1>11. Extent(tr) > 0 => Spans[i].end = Started(tr) + Extent(tr)  BY <1>5, <1>7, <1>8, <1>10
<1> QED  BY <1>5, <1>6, <1>7, <1>8, <1>9, <1>11

LEMMA ResourcesProperties ==
  ASSUME case \in CaseType, NEW tr \in Seq(Positions)
  PROVE  /\ Resources(tr) \in Seq(Nat \ {0})
         /\ LET carrying == {i \in ToSet(tr) : case.showResource /\ Spans[i].resource # 0}
            IN  /\ \A r \in ToSet(Resources(tr)) : \E i \in carrying : Spans[i].resource = r
                /\ \A i \in carrying : \E j \in carrying :
                     /\ Spans[j].service = Spans[i].service
                     /\ Spans[j].resource \in ToSet(Resources(tr))
<1> DEFINE carrying == {i \in ToSet(tr) : case.showResource /\ Spans[i].resource # 0}
           served == {Spans[i].service : i \in carrying}
           services == InOrder(served)
           of(svc) == {i \in carrying : Spans[i].service = svc}
           n == Cardinality(served)
<1>1. carrying \subseteq Positions /\ IsFiniteSet(carrying)
  BY ToSetType, FS_Subset
<1>2. served = {[j \in carrying |-> Spans[j].service][i] : i \in carrying}  OBVIOUS
<1>3. IsFiniteSet(served)
  <2> HIDE DEF carrying
  <2>1. IsFiniteSet({[j \in carrying |-> Spans[j].service][i] : i \in carrying})
    BY <1>1, ImageFinite
  <2> QED  BY <1>2, <2>1
<1>4. served \subseteq Nat  BY <1>1, SpansType DEF SpanType
<1>5. /\ n \in Nat /\ DOMAIN services = 1..n /\ \A k \in 1..n : services[k] \in served
      /\ ToSet(services) = served
  <2> HIDE DEF served
  <2> QED  BY <1>3, <1>4, InOrderProperties, ElementOfSeq, FS_CardinalityType
<1>6. \A svc \in served : Max(of(svc)) \in of(svc)
  <2> SUFFICES ASSUME NEW svc \in served PROVE Max(of(svc)) \in of(svc)  OBVIOUS
  <2>1. of(svc) \subseteq Int /\ of(svc) # {}  BY <1>1, SpansType
  <2>2. IsFiniteSet(of(svc))  BY <1>1, FS_Subset
  <2> HIDE DEF of
  <2> QED  BY <2>1, <2>2, MaxIsGreatest
<1>7. Resources(tr) = [k \in 1..n |-> Spans[Max(of(services[k]))].resource]
  BY <1>5 DEF Resources
<1>8. \A k \in 1..n : Spans[Max(of(services[k]))].resource \in Nat \ {0}
  <2> SUFFICES ASSUME NEW k \in 1..n
               PROVE  Spans[Max(of(services[k]))].resource \in Nat \ {0}
    OBVIOUS
  <2>1. Max(of(services[k])) \in carrying  BY <1>5, <1>6
  <2> QED  BY <1>1, <2>1, SpansType DEF SpanType
<1>9. Resources(tr) \in [1..n -> Nat \ {0}]
  <2> HIDE DEF n, of, services
  <2> QED  BY <1>7, <1>8
<1> HIDE DEF n, of, services
<1>10. Resources(tr) \in Seq(Nat \ {0}) /\ DOMAIN Resources(tr) = 1..n
  BY <1>5, <1>9, FunctionIsSeq
<1>11. ASSUME NEW r \in ToSet(Resources(tr))
       PROVE  \E i \in carrying : Spans[i].resource = r
  <2>1. PICK k \in 1..n : r = Resources(tr)[k]  BY <1>10 DEF ToSet
  <2>2. Max(of(services[k])) \in carrying  BY <1>5, <1>6 DEF of
  <2> QED  BY <1>7, <2>1, <2>2
<1>12. ASSUME NEW i \in carrying
       PROVE  \E j \in carrying : /\ Spans[j].service = Spans[i].service
                                  /\ Spans[j].resource \in ToSet(Resources(tr))
  <2>1. Spans[i].service \in served  OBVIOUS
  <2>2. PICK k \in 1..n : services[k] = Spans[i].service
    <3> HIDE DEF served
    <3> QED  BY <1>5, <2>1 DEF ToSet
  <2>3. services[k] \in served  BY <1>5
  <2>4. Max(of(services[k])) \in of(services[k])  BY <1>6, <2>3
  <2>5. Resources(tr)[k] \in ToSet(Resources(tr))  BY <1>10 DEF ToSet
  <2> QED  BY <1>7, <2>2, <2>4, <2>5 DEF of
<1> QED  BY <1>10, <1>11, <1>12

LEMMA DetailsType ==
  ASSUME case \in CaseType, NEW sp \in SpanType
  PROVE  Details(sp) \in Detail
<1>1. sp.attrs \in Nat /\ sp.links \in Nat /\ sp.events \in Seq(Nat) /\ sp.start \in Nat
  BY DEF SpanType
<1>2. \A t \in Nat : offset(t, sp.start) \in Seq(Nat)
  <2> SUFFICES ASSUME NEW t \in Nat PROVE offset(t, sp.start) \in Seq(Nat)  OBVIOUS
  <2>1. CASE t >= sp.start /\ sp.start # 0
    <3>1. t - sp.start \in Nat  BY <1>1, <2>1
    <3>2. offset(t, sp.start) = <<t - sp.start>>  BY <2>1 DEF offset
    <3> QED  BY <3>1, <3>2
  <2>2. CASE ~(t >= sp.start /\ sp.start # 0)  BY <2>2 DEF offset
  <2> QED  BY <2>1, <2>2
<1>3. DOMAIN sp.events = 1..Len(sp.events) /\ Len(sp.events) \in Nat
      /\ \A k \in 1..Len(sp.events) : sp.events[k] \in Nat
  BY <1>1, LenProperties, ElementOfSeq
<1> DEFINE offsets == [k \in DOMAIN sp.events |-> offset(sp.events[k], sp.start)]
<1>4. offsets \in [1..Len(sp.events) -> Seq(Nat)]  BY <1>2, <1>3
<1>5. offsets \in Seq(Seq(Nat))
  <2> HIDE DEF offsets
  <2> QED  BY <1>3, <1>4, FunctionIsSeq
<1>6. << >> \in Seq(Seq(Nat))  BY EmptySeq
<1>7. Details(sp) = [attrs |-> IF case.hideAttrs THEN 0 ELSE sp.attrs,
                     events |-> IF case.hideEvents THEN << >> ELSE offsets,
                     links |-> sp.links]
  BY DEF Details
<1> HIDE DEF offsets
<1> QED  BY <1>1, <1>5, <1>6, <1>7 DEF Detail

-----------------------------------------------------------------------------
(* The lists of calls and rows as sets of spans.                           *)

Call == [span : Positions, depth : Nat]
SpansOf(list) == {list[k].span : k \in DOMAIN list}

LEMMA ToSetTail ==
  ASSUME NEW T, NEW p \in Seq(T), p # << >>
  PROVE  ToSet(p) = {Head(p)} \cup ToSet(Tail(p))
<1>1. /\ DOMAIN p = 1..Len(p) /\ Len(p) \in Nat \ {0}
      /\ DOMAIN Tail(p) = 1..(Len(p) - 1)
      /\ \A k \in 1..(Len(p) - 1) : Tail(p)[k] = p[k + 1]
      /\ Head(p) = p[1]
  BY LenProperties, EmptySeq, HeadTailProperties
<1>2. ASSUME NEW k \in 1..Len(p) PROVE p[k] \in {Head(p)} \cup ToSet(Tail(p))
  <2>1. CASE k = 1  BY <1>1, <2>1
  <2>2. CASE k # 1
    <3>1. k - 1 \in 1..(Len(p) - 1) /\ Tail(p)[k - 1] = p[k]  BY <1>1, <2>2
    <3> QED  BY <1>1, <3>1 DEF ToSet
  <2> QED  BY <2>1, <2>2
<1>3. ASSUME NEW k \in 1..(Len(p) - 1) PROVE Tail(p)[k] \in ToSet(p)
  <2>1. k + 1 \in 1..Len(p)  BY <1>1
  <2> QED  BY <1>1, <2>1 DEF ToSet
<1>4. Head(p) \in ToSet(p)
  <2>1. 1 \in 1..Len(p)  BY <1>1
  <2> QED  BY <1>1, <2>1 DEF ToSet
<1>5. ToSet(p) \subseteq {Head(p)} \cup ToSet(Tail(p))  BY <1>1, <1>2 DEF ToSet
<1>6. ToSet(Tail(p)) \subseteq ToSet(p)  BY <1>1, <1>3 DEF ToSet
<1> QED  BY <1>4, <1>5, <1>6

LEMMA ToSetConcat ==
  ASSUME NEW T, NEW p \in Seq(T), NEW q \in Seq(T)
  PROVE  ToSet(p \o q) = ToSet(p) \cup ToSet(q)
<1>1. /\ DOMAIN p = 1..Len(p) /\ Len(p) \in Nat
      /\ DOMAIN q = 1..Len(q) /\ Len(q) \in Nat
      /\ DOMAIN (p \o q) = 1..(Len(p) + Len(q))
      /\ \A k \in 1..(Len(p) + Len(q)) :
           (p \o q)[k] = IF k <= Len(p) THEN p[k] ELSE q[k - Len(p)]
  BY LenProperties, ConcatProperties
<1>2. ASSUME NEW k \in 1..(Len(p) + Len(q))
      PROVE  (p \o q)[k] \in ToSet(p) \cup ToSet(q)
  <2>1. CASE k <= Len(p)
    <3>1. k \in 1..Len(p) /\ (p \o q)[k] = p[k]  BY <1>1, <2>1
    <3> QED  BY <1>1, <3>1 DEF ToSet
  <2>2. CASE ~(k <= Len(p))
    <3>1. k - Len(p) \in 1..Len(q) /\ (p \o q)[k] = q[k - Len(p)]  BY <1>1, <2>2
    <3> QED  BY <1>1, <3>1 DEF ToSet
  <2> QED  BY <2>1, <2>2
<1>3. ASSUME NEW k \in 1..Len(p) PROVE p[k] \in ToSet(p \o q)
  <2>1. k \in 1..(Len(p) + Len(q)) /\ (p \o q)[k] = p[k]  BY <1>1
  <2> QED  BY <1>1, <2>1 DEF ToSet
<1>4. ASSUME NEW k \in 1..Len(q) PROVE q[k] \in ToSet(p \o q)
  <2>1. k + Len(p) \in 1..(Len(p) + Len(q)) /\ (p \o q)[k + Len(p)] = q[k]  BY <1>1
  <2> QED  BY <1>1, <2>1 DEF ToSet
<1>5. ToSet(p \o q) \subseteq ToSet(p) \cup ToSet(q)  BY <1>1, <1>2 DEF ToSet
<1>6. ToSet(p) \subseteq ToSet(p \o q)  BY <1>1, <1>3 DEF ToSet
<1>7. ToSet(q) \subseteq ToSet(p \o q)  BY <1>1, <1>4 DEF ToSet
<1> QED  BY <1>5, <1>6, <1>7

LEMMA SpansOfMembers == ASSUME NEW p PROVE SpansOf(p) = {e.span : e \in ToSet(p)}
BY DEF SpansOf, ToSet

LEMMA SpansOfTail ==
  ASSUME NEW T, NEW p \in Seq(T), p # << >>
  PROVE  SpansOf(p) = {Head(p).span} \cup SpansOf(Tail(p))
<1>1. ToSet(p) = {Head(p)} \cup ToSet(Tail(p))  BY ToSetTail
<1> QED  BY <1>1, SpansOfMembers

LEMMA SpansOfConcat ==
  ASSUME NEW T, NEW p \in Seq(T), NEW q \in Seq(T)
  PROVE  SpansOf(p \o q) = SpansOf(p) \cup SpansOf(q)
<1>1. ToSet(p \o q) = ToSet(p) \cup ToSet(q)  BY ToSetConcat
<1> QED  BY <1>1, SpansOfMembers

LEMMA SpansOfAppend ==
  ASSUME NEW T, NEW p \in Seq(T), NEW e \in T
  PROVE  SpansOf(Append(p, e)) = SpansOf(p) \cup {e.span}
<1> DEFINE q == <<e>>
<1>1. q \in Seq(T) /\ DOMAIN q = {1} /\ q[1] = e  OBVIOUS
<1>2. Append(p, e) = p \o q  BY AppendIsConcat
<1> HIDE DEF q
<1>3. SpansOf(q) = {e.span}  BY <1>1 DEF SpansOf
<1>4. SpansOf(p \o q) = SpansOf(p) \cup SpansOf(q)  BY <1>1, SpansOfConcat
<1> QED  BY <1>2, <1>3, <1>4

LEMMA CallsProperties ==
  ASSUME NEW s \in Seq(Positions), NEW d \in Nat
  PROVE  /\ Calls(s, d) \in Seq(Call)
         /\ Len(Calls(s, d)) = Len(s)
         /\ \A k \in 1..Len(s) : Calls(s, d)[k] = [span |-> s[k], depth |-> d]
         /\ SpansOf(Calls(s, d)) = ToSet(s)
<1>1. DOMAIN s = 1..Len(s) /\ Len(s) \in Nat /\ \A k \in 1..Len(s) : s[k] \in Positions
  BY LenProperties, ElementOfSeq
<1>2. Calls(s, d) = [k \in 1..Len(s) |-> [span |-> s[k], depth |-> d]]
  BY <1>1 DEF Calls
<1>3. Calls(s, d) \in [1..Len(s) -> Call]  BY <1>1, <1>2 DEF Call
<1>4. Calls(s, d) \in Seq(Call)  BY <1>1, <1>3, FunctionIsSeq
<1>5. Len(Calls(s, d)) = Len(s)  BY <1>1, <1>3, <1>4, LenProperties
<1>6. \A k \in 1..Len(s) : Calls(s, d)[k].span = s[k]  BY <1>2
<1>7. DOMAIN Calls(s, d) = 1..Len(s)  BY <1>2
<1> HIDE DEF Call
<1>8. SpansOf(Calls(s, d)) = ToSet(s)  BY <1>1, <1>6, <1>7 DEF SpansOf, ToSet
<1> QED  BY <1>2, <1>4, <1>5, <1>8

LEMMA ChildrenProperties ==
  ASSUME case \in CaseType, NEW tr \in Seq(Positions), NEW id
  PROVE  /\ Children(tr, id) \in Seq(Positions)
         /\ ToSet(Children(tr, id)) = {i \in ToSet(tr) : IsChild(tr, i) /\ Spans[i].parent = id}
         /\ Roots(tr) \in Seq(Positions)
         /\ ToSet(Roots(tr)) = {i \in ToSet(tr) : ~IsChild(tr, i)}
<1> DEFINE C == {i \in ToSet(tr) : IsChild(tr, i) /\ Spans[i].parent = id}
           R == {i \in ToSet(tr) : ~IsChild(tr, i)}
<1>1. C \subseteq Positions /\ R \subseteq Positions  BY ToSetType
<1>2. Children(tr, id) = sortSpans(C) /\ Roots(tr) = sortSpans(R)  BY DEF Children, Roots
<1> HIDE DEF C, R
<1>3. sortSpans(C) \in Seq(C) /\ ToSet(sortSpans(C)) = C  BY <1>1, sortSpansProperties
<1>4. sortSpans(R) \in Seq(R) /\ ToSet(sortSpans(R)) = R  BY <1>1, sortSpansProperties
<1>5. sortSpans(C) \in Seq(Positions) /\ sortSpans(R) \in Seq(Positions)
  BY <1>1, <1>3, <1>4, SeqMonotonic
<1> QED  BY <1>2, <1>3, <1>4, <1>5 DEF C, R

-----------------------------------------------------------------------------
(* TraceInv: the traces still to draw are the groups of the kept spans, and *)
(* the walks stay within the first of them.                                *)

Current == ToSet(Head(traces))
Waiting == SpansOf(pending)
Drawn == SpansOf(rows)

GroupsInv ==
  /\ \A k \in 1..Len(traces) :
       /\ traces[k] # << >>
       /\ ToSet(traces[k]) = {i \in filterSpans : Spans[i].trace = Spans[traces[k][1]].trace}
  /\ \A k, m \in 1..Len(traces) : k # m => Spans[traces[k][1]].trace # Spans[traces[m][1]].trace

PhaseInv ==
  /\ phase = "filter" => traces = << >> /\ rows = << >>
  /\ phase \in {"head", "width", "print"} => traces # << >> /\ case.mode = "pretty"
  /\ phase = "finished" => traces = << >>
  /\ phase \notin {"width", "print", "overflow"} => pending = << >>

WalkInv ==
  /\ phase \in {"width", "print"} => Waiting \subseteq Current
  /\ phase = "width" =>
       /\ ToSet(loop) \subseteq Current
       /\ \A i \in Current : i \in ToSet(loop) \cup Waiting \/ Key(i) \in DOMAIN depth

TraceInv == TypeOK /\ GroupsInv /\ PhaseInv /\ WalkInv

\* what stays the same as long as the batch does
LEMMA BatchKept ==
  ASSUME case' = case
  PROVE  /\ Spans' = Spans /\ Positions' = Positions /\ filterSpans' = filterSpans
         /\ \A i : Key(i)' = Key(i)
BY DEF Spans, Positions, filterSpans, OfService, Key

LEMMA SkippedKept ==
  ASSUME case' = case
  PROVE  (NoneSkipped' <=> NoneSkipped) /\ (KeysTellIds' <=> KeysTellIds)
BY BatchKept DEF NoneSkipped, KeysTellIds, Acyclic

\* Where ids have one length, a key tells its id.
LEMMA EqualIdsTell ==
  ASSUME case \in CaseType,
         \A i, j \in filterSpans : Len(Spans[i].id) = Len(Spans[j].id)
  PROVE  KeysTellIds
<1> SUFFICES ASSUME NEW i \in filterSpans, NEW j \in filterSpans, Key(i) = Key(j)
             PROVE  Spans[i].id = Spans[j].id
  BY DEF KeysTellIds
<1>1. i \in Positions /\ j \in Positions  BY DEF filterSpans, OfService
<1>2. PICK a, x, b, y : a = Spans[i].id /\ x = Spans[i].name /\ b = Spans[j].id /\ y = Spans[j].name
  OBVIOUS
<1>3. a \in Seq(Nat) /\ x \in Seq(Nat) /\ b \in Seq(Nat) /\ y \in Seq(Nat)
  BY <1>1, <1>2, SpansType DEF SpanType
<1>4. a \o x = b \o y /\ Len(a) = Len(b)  BY <1>2 DEF Key
<1>5. \A k \in 1..Len(a) : a[k] = b[k]
  <2> SUFFICES ASSUME NEW k \in 1..Len(a) PROVE a[k] = b[k]  OBVIOUS
  <2>1. Len(a) \in Nat /\ Len(x) \in Nat /\ Len(y) \in Nat  BY <1>3, LenProperties
  <2>2. k \in 1..(Len(a) + Len(x)) /\ k \in 1..(Len(b) + Len(y)) /\ k <= Len(a) /\ k <= Len(b)
    BY <1>4, <2>1
  <2>3. (a \o x)[k] = a[k]  BY ONLY <1>3, <2>2, ConcatProperties
  <2>4. (b \o y)[k] = b[k]  BY ONLY <1>3, <2>2, ConcatProperties
  <2> QED  BY <1>4, <2>3, <2>4
<1>6. a = b  BY ONLY <1>3, <1>4, <1>5, SeqEqual
<1> QED  BY <1>2, <1>6

LEMMA TraceInit == Init => TraceInv
<1> SUFFICES ASSUME Init PROVE TraceInv  OBVIOUS
<1>1. TypeOK
  BY CasesAssumption, LimitsAssumption, EmptySeq DEF Init, TypeOK
<1> QED  BY <1>1 DEF Init, TraceInv, GroupsInv, PhaseInv, WalkInv, Waiting, SpansOf

LEMMA TypeStep ==
  ASSUME TraceInv, [Next]_vars
  PROVE  TypeOK'
<1> USE DEF TraceInv
<1>0. case' = case  BY DEF Next, vars, Flat, Group, Header, NextWalk, Walk, StackOverflow,
                           WidthKnown, SpanNode, TraceDone, Over
<1>1. /\ case \in CaseType /\ Positions' = Positions
      /\ traces \in Seq(Seq(Positions)) /\ loop \in Seq(Positions) /\ pending \in Seq(Call)
      /\ rows \in Seq(Row) /\ width \in 0..MaxColumn
      /\ DOMAIN depth \subseteq Seq(Nat) /\ \A k \in DOMAIN depth : depth[k] \in Nat
  BY <1>0, BatchKept DEF TypeOK, Call
<1>2. traces # << >> => Head(traces) \in Seq(Positions)  BY <1>1, HeadTailProperties
<1>3. loop # << >> => Head(loop) \in Positions /\ Tail(loop) \in Seq(Positions)
  BY <1>1, HeadTailProperties
<1>4. pending # << >> => Head(pending) \in Call /\ Tail(pending) \in Seq(Call)
  BY <1>1, HeadTailProperties
<1>5. << >> \in Seq(Call)  BY EmptySeq
<1>6. ASSUME traces # << >>, NEW d \in Nat, NEW id
      PROVE  /\ Calls(Children(Head(traces), id), d) \in Seq(Call)
             /\ Calls(Roots(Head(traces)), d) \in Seq(Call)
  BY <1>1, <1>2, <1>6, ChildrenProperties, CallsProperties
<1>7. filterSpans \subseteq Positions /\ IsFiniteSet(filterSpans) /\ filterSpans \subseteq Nat
  <2>1. filterSpans \subseteq Positions  BY DEF filterSpans, OfService
  <2> QED  BY <1>1, <2>1, SpansType, FS_Subset
<1> USE DEF TypeOK
<1>8. CASE Flat
  <2> DEFINE spans == InOrder(filterSpans)
             n == Cardinality(filterSpans)
  <2>1. n \in Nat /\ DOMAIN spans = 1..n /\ \A k \in 1..n : spans[k] \in Nat
    BY <1>7, InOrderProperties, ElementOfSeq, FS_CardinalityType
  <2>2. NoDetails \in Detail  BY EmptySeq DEF NoDetails, Detail
  <2>3. \A i \in Nat : FlatRow(i) \in Row  BY <2>2 DEF FlatRow, Row
  <2>4. rows' = [k \in 1..n |-> FlatRow(spans[k])]  BY <1>8, <2>1 DEF Flat
  <2> HIDE DEF spans, n
  <2>5. rows' \in [1..n -> Row]  BY <2>1, <2>3, <2>4
  <2>6. rows' \in Seq(Row)  BY <2>1, <2>5, FunctionIsSeq
  <2> QED  BY <1>8, <1>1, <2>6 DEF Flat
<1>9. CASE Group
  <2>1. traces' \in Seq(Seq(Positions))  BY <1>9, GroupMakes DEF Grouped
  <2> QED  BY <1>9, <1>1, <2>1 DEF Group
<1>10. CASE Header
  <2> DEFINE tr == Head(traces)
             head == [trace |-> Spans[tr[1]].trace, spans |-> Len(tr),
                      extent |-> Extent(tr), start |-> Started(tr),
                      services |-> {Spans[i].service : i \in ToSet(tr)} \ {0},
                      resources |-> Resources(tr)]
             HeadType == [trace : Nat, spans : Nat, extent : Nat, start : Nat,
                          services : SUBSET Nat, resources : Seq(Nat \ {0})]
  <2>1. traces # << >>  BY <1>10 DEF Header, PhaseInv
  <2>2. tr \in Seq(Positions)  BY <1>2, <2>1
  <2>3. tr # << >>
    <3>1. 1 \in 1..Len(traces) /\ tr = traces[1]  BY <1>1, <2>1, EmptySeq, HeadTailProperties
    <3> QED  BY <3>1 DEF GroupsInv
  <2>4. ToSet(tr) \subseteq Positions /\ tr[1] \in Positions  BY <1>1, <2>2, <2>3, ToSetType
  <2>5. Spans[tr[1]].trace \in Nat /\ \A i \in ToSet(tr) : Spans[i].service \in Nat
    BY <1>1, <2>4, SpansType DEF SpanType
  <2>6. Len(tr) \in Nat  BY <2>2, LenProperties
  <2>7. Extent(tr) \in Nat /\ Started(tr) \in Nat /\ Resources(tr) \in Seq(Nat \ {0})
    BY <1>1, <2>2, <2>3, ExtentProperties, StartedProperties, ResourcesProperties
  <2>8. head \in HeadType
    <3>1. {Spans[i].service : i \in ToSet(tr)} \ {0} \in SUBSET Nat  BY <2>5
    <3> HIDE DEF tr
    <3> QED  BY <2>5, <2>6, <2>7, <3>1
  <2>9. /\ heads' = Append(heads, head) /\ loop' = tr /\ depth' = << >> /\ phase' = "width"
        /\ UNCHANGED <<case, traces, pending, width, rows>>
    BY <1>10 DEF Header
  <2> HIDE DEF head, tr
  <2>10. heads' \in Seq(HeadType)
    <3>1. heads \in Seq(HeadType)  OBVIOUS
    <3> HIDE DEF HeadType
    <3> QED  BY <2>8, <2>9, <3>1, AppendProperties
  <2>11. DOMAIN << >> = {}  OBVIOUS
  <2> QED  BY <1>1, <2>2, <2>9, <2>10, <2>11
<1>11. CASE NextWalk
  <2>1. /\ loop' = Tail(loop) /\ loop # << >>
        /\ pending' = IF Key(Head(loop)) \in DOMAIN depth THEN << >> ELSE Calls(<<Head(loop)>>, 0)
        /\ UNCHANGED <<case, phase, traces, depth, width, heads, rows>>
    BY <1>11 DEF NextWalk
  <2>2. <<Head(loop)>> \in Seq(Positions)  BY <1>3, <2>1
  <2>3. Calls(<<Head(loop)>>, 0) \in Seq(Call)  BY <2>2, CallsProperties
  <2>4. pending' \in Seq(Call)  BY <1>5, <2>1, <2>3
  <2> QED  BY <1>1, <1>3, <2>1, <2>4 DEF Call
<1>12. CASE Walk
  <2> DEFINE c == Head(pending)
  <2>1. /\ pending # << >> /\ c.depth < StackLimit
        /\ depth' = [key \in DOMAIN depth \cup {Key(c.span)} |->
                       IF key = Key(c.span) THEN c.depth ELSE depth[key]]
        /\ pending' = Calls(Children(Head(traces), Spans[c.span].id), c.depth + 1) \o Tail(pending)
        /\ UNCHANGED <<case, phase, traces, loop, width, heads, rows>>
    BY <1>12 DEF Walk
  <2>2. c \in Call /\ Tail(pending) \in Seq(Call)  BY <1>4, <2>1
  <2>3. c.span \in Positions /\ c.depth \in Nat  BY <2>2 DEF Call
  <2>4. Key(c.span) \in Seq(Nat)
    <3>1. Spans[c.span].id \in Seq(Nat) /\ Spans[c.span].name \in Seq(Nat)
      BY <1>1, <2>3, SpansType DEF SpanType
    <3> QED  BY <3>1, ConcatProperties DEF Key
  <2>5. traces # << >>  BY <1>12 DEF Walk, PhaseInv
  <2> HIDE DEF c
  <2>6. pending' \in Seq(Call)
    <3>1. c.depth + 1 \in Nat  BY <2>3
    <3>2. Calls(Children(Head(traces), Spans[c.span].id), c.depth + 1) \in Seq(Call)
      BY <1>6, <2>5, <3>1
    <3> QED  BY <2>1, <2>2, <3>2, ConcatProperties
  <2>7. DOMAIN depth' \subseteq Seq(Nat) /\ \A k \in DOMAIN depth' : depth'[k] \in Nat
    BY <1>1, <2>1, <2>3, <2>4
  <2> QED  BY <1>1, <2>1, <2>6, <2>7 DEF Call
<1>13. CASE StackOverflow  BY <1>1, <1>13 DEF StackOverflow, Call
<1>14. CASE WidthKnown
  <2> DEFINE tr == Head(traces)
             names == {Len(Spans[i].name) + 3 * depth[Key(i)] : i \in ToSet(tr)}
             w == Max({0} \cup names)
  <2>1. /\ phase = "width" /\ pending = << >> /\ loop = << >>
        /\ width' = IF w > MaxColumn THEN MaxColumn ELSE w
        /\ pending' = Calls(Roots(tr), 0)
        /\ phase' = "print"
        /\ UNCHANGED <<case, traces, loop, depth, heads, rows>>
    BY <1>14 DEF WidthKnown
  <2>2. traces # << >>  BY <2>1 DEF PhaseInv
  <2>3. tr \in Seq(Positions)  BY <1>2, <2>2
  <2>4. ToSet(tr) \subseteq Positions /\ IsFiniteSet(ToSet(tr))  BY <1>1, <2>3, ToSetType
  <2>5. ASSUME NEW i \in ToSet(tr) PROVE Len(Spans[i].name) + 3 * depth[Key(i)] \in Nat
    <3>1. ToSet(loop) = {} /\ Waiting = {}  BY <2>1 DEF ToSet, Waiting, SpansOf
    <3>2. Key(i) \in DOMAIN depth  BY <2>1, <3>1 DEF WalkInv, Current
    <3>3. depth[Key(i)] \in Nat  BY <1>1, <3>2
    <3>4. Len(Spans[i].name) \in Nat  BY <1>1, <2>4, SpansType, LenProperties DEF SpanType
    <3>5. \A a, b \in Nat : a + 3 * b \in Nat  OBVIOUS
    <3> QED  BY ONLY <3>3, <3>4, <3>5
  <2>6. IsFiniteSet({0} \cup names)
    <3> DEFINE G == ToSet(tr)
               f == [i \in G |-> Len(Spans[i].name) + 3 * depth[Key(i)]]
    <3>1. names = {f[i] : i \in G}  OBVIOUS
    <3>2. IsFiniteSet({f[i] : i \in G})
      <4> HIDE DEF f, G
      <4>1. IsFiniteSet(G)  BY <2>4 DEF G
      <4> QED  BY <4>1, ImageFinite
    <3>3. IsFiniteSet(names)  BY <3>1, <3>2
    <3> HIDE DEF names
    <3> QED  BY <3>3, FS_Singleton, FS_Union
  <2>7. {0} \cup names \subseteq Nat  BY <2>5
  <2>8. w \in Nat
    <3> HIDE DEF names
    <3>1. {0} \cup names \subseteq Int /\ {0} \cup names # {}  BY <2>7
    <3>2. w \in {0} \cup names  BY <2>6, <3>1, MaxIsGreatest
    <3> QED  BY <2>7, <3>2
  <2> HIDE DEF w
  <2>9. width' \in 0..MaxColumn  BY <2>1, <2>8, LimitsAssumption
  <2>10. pending' \in Seq(Call)  BY <1>6, <2>1, <2>2
  <2> HIDE DEF tr
  <2> QED  BY <1>1, <2>1, <2>9, <2>10 DEF Call
<1>15. CASE SpanNode
  <2> DEFINE c    == Head(pending)
             sp   == Spans[c.span]
             used == 3 * c.depth + IF sp.name = << >> THEN Placeholder ELSE Len(sp.name)
             row  == [span    |-> c.span, depth |-> c.depth,
                      flagged |-> sp.parent # << >> /\ c.depth = 0,
                      column  |-> IF used > width THEN used ELSE width,
                      details |-> Details(sp)]
  <2>1. /\ pending # << >> /\ rows' = Append(rows, row)
        /\ pending' = Calls(Children(Head(traces), sp.id), c.depth + 1) \o Tail(pending)
        /\ UNCHANGED <<case, phase, traces, loop, depth, width, heads>>
    BY <1>15 DEF SpanNode
  <2>2. c \in Call /\ Tail(pending) \in Seq(Call)  BY <1>4, <2>1
  <2>3. c.span \in Positions /\ c.span \in Nat /\ c.depth \in Nat /\ sp \in SpanType
    BY <1>1, <2>2, SpansType DEF Call
  <2>4. Len(sp.name) \in Nat  BY <2>3, LenProperties DEF SpanType
  <2>5. traces # << >>  BY <1>15 DEF SpanNode, PhaseInv
  <2>6. row \in Row
    <3>1. used \in Nat
      <4>1. (IF sp.name = << >> THEN Placeholder ELSE Len(sp.name)) \in Nat
        BY <2>4, LimitsAssumption
      <4>2. \A x, y \in Nat : 3 * x + y \in Nat  OBVIOUS
      <4> HIDE DEF c, sp
      <4> QED  BY <2>3, <4>1, <4>2
    <3>2. Details(sp) \in Detail  BY <1>1, <2>3, DetailsType
    <3> HIDE DEF c, sp, used
    <3>3. (IF used > width THEN used ELSE width) \in Nat  BY <3>1, LimitsAssumption
    <3> QED  BY <2>3, <3>2, <3>3 DEF Row
  <2> HIDE DEF c, sp, row
  <2>7. rows' \in Seq(Row)  BY <1>1, <2>1, <2>6, AppendProperties
  <2>8. pending' \in Seq(Call)
    <3>1. c.depth + 1 \in Nat  BY <2>3
    <3>2. Calls(Children(Head(traces), sp.id), c.depth + 1) \in Seq(Call)
      BY <1>6, <2>5, <3>1
    <3> QED  BY <2>1, <2>2, <3>2, ConcatProperties
  <2> QED  BY <1>1, <2>1, <2>7, <2>8 DEF Call
<1>16. CASE TraceDone
  <2>1. traces # << >>  BY <1>16 DEF TraceDone, PhaseInv
  <2>2. Tail(traces) \in Seq(Seq(Positions))  BY <1>1, <2>1, HeadTailProperties
  <2> QED  BY <1>1, <1>16, <2>2 DEF TraceDone, Call
<1>17. CASE UNCHANGED vars  BY <1>1, <1>17 DEF vars, Call
<1> QED
  BY <1>8, <1>9, <1>10, <1>11, <1>12, <1>13, <1>14, <1>15, <1>16, <1>17 DEF Next, Over

\* a call is made: those it makes come first, then the others
LEMMA CallMade ==
  ASSUME pending \in Seq(Call), pending # << >>, NEW kids \in Seq(Positions), NEW d \in Nat,
         pending' = Calls(kids, d) \o Tail(pending)
  PROVE  /\ Waiting = {Head(pending).span} \cup SpansOf(Tail(pending))
         /\ Waiting' = ToSet(kids) \cup SpansOf(Tail(pending))
<1>1. Tail(pending) \in Seq(Call)  BY HeadTailProperties
<1>2. Calls(kids, d) \in Seq(Call) /\ SpansOf(Calls(kids, d)) = ToSet(kids)
  BY CallsProperties
<1>3. SpansOf(pending) = {Head(pending).span} \cup SpansOf(Tail(pending))  BY SpansOfTail
<1>4. SpansOf(Calls(kids, d) \o Tail(pending)) = ToSet(kids) \cup SpansOf(Tail(pending))
  <2> DEFINE p == Calls(kids, d)
             q == Tail(pending)
  <2> HIDE DEF p, q
  <2>1. p \in Seq(Call) /\ q \in Seq(Call)  BY <1>1, <1>2 DEF p, q
  <2>2. SpansOf(p \o q) = SpansOf(p) \cup SpansOf(q)  BY ONLY <2>1, SpansOfConcat
  <2> QED  BY <1>2, <2>2 DEF p, q
<1>5. SpansOf(pending') = ToSet(kids) \cup SpansOf(Tail(pending))  BY <1>4
<1> QED  BY <1>3, <1>5 DEF Waiting

LEMMA CurrentProperties ==
  ASSUME TypeOK, GroupsInv, traces # << >>
  PROVE  /\ Head(traces) \in Seq(Positions) /\ Head(traces) # << >>
         /\ Head(traces) = traces[1] /\ 1 \in 1..Len(traces)
         /\ Current = {i \in filterSpans : Spans[i].trace = Spans[traces[1][1]].trace}
         /\ Current \subseteq Positions /\ IsFiniteSet(Current)
<1>1. traces \in Seq(Seq(Positions)) /\ case \in CaseType  BY DEF TypeOK
<1>2. 1 \in 1..Len(traces)  BY <1>1, EmptySeq
<1>3. Head(traces) = traces[1] /\ Head(traces) \in Seq(Positions)
  BY <1>1, HeadTailProperties
<1>4. Current \subseteq Positions /\ IsFiniteSet(Current)  BY <1>1, <1>3, ToSetType DEF Current
<1> QED  BY <1>2, <1>3, <1>4 DEF GroupsInv, Current

LEMMA GroupsKept ==
  ASSUME GroupsInv, case' = case, traces' = traces
  PROVE  GroupsInv'
BY BatchKept DEF GroupsInv

LEMMA GroupsStep ==
  ASSUME TraceInv, [Next]_vars
  PROVE  GroupsInv'
<1> USE DEF TraceInv
<1>1. case' = case  BY DEF Next, vars, Flat, Group, Header, NextWalk, Walk, StackOverflow,
                           WidthKnown, SpanNode, TraceDone, Over
<1>2. CASE Group
  <2>1. Grouped(traces', filterSpans)  BY <1>2, GroupMakes
  <2>2. Spans' = Spans /\ filterSpans' = filterSpans  BY <1>1, BatchKept
  <2> QED  BY <2>1, <2>2 DEF GroupsInv, Grouped
<1>3. CASE TraceDone
  <2>1. traces # << >> /\ traces \in Seq(Seq(Positions))
    BY <1>3 DEF TraceDone, PhaseInv, TypeOK
  <2>2. /\ traces' = Tail(traces) /\ Len(traces) \in Nat
        /\ Len(traces') = Len(traces) - 1
        /\ \A k \in 1..Len(traces') : k + 1 \in 1..Len(traces) /\ traces'[k] = traces[k + 1]
    BY <1>3, <2>1, HeadTailProperties, LenProperties DEF TraceDone
  <2>3. \A k \in 1..Len(traces') :
          /\ traces'[k] # << >>
          /\ ToSet(traces'[k])
               = {i \in filterSpans : Spans[i].trace = Spans[traces'[k][1]].trace}
    BY <2>2 DEF GroupsInv
  <2>4. ASSUME NEW k \in 1..Len(traces'), NEW m \in 1..Len(traces'), k # m
        PROVE  Spans[traces'[k][1]].trace # Spans[traces'[m][1]].trace
    <3>1. k + 1 \in 1..Len(traces) /\ m + 1 \in 1..Len(traces) /\ k + 1 # m + 1
      BY <2>2, <2>4
    <3>2. Spans[traces[k + 1][1]].trace # Spans[traces[m + 1][1]].trace
      BY <3>1 DEF GroupsInv
    <3> QED  BY <2>2, <3>2
  <2> QED  BY <1>1, <2>3, <2>4, BatchKept DEF GroupsInv
<1>4. CASE ~(Group \/ TraceDone)
  <2>1. CASE Flat  BY <1>1, <2>1, GroupsKept DEF Flat
  <2>2. CASE Header  BY <1>1, <2>2, GroupsKept DEF Header
  <2>3. CASE NextWalk  BY <1>1, <2>3, GroupsKept DEF NextWalk
  <2>4. CASE Walk  BY <1>1, <2>4, GroupsKept DEF Walk
  <2>5. CASE StackOverflow  BY <1>1, <2>5, GroupsKept DEF StackOverflow
  <2>6. CASE WidthKnown  BY <1>1, <2>6, GroupsKept DEF WidthKnown
  <2>7. CASE SpanNode  BY <1>1, <2>7, GroupsKept DEF SpanNode
  <2>8. CASE UNCHANGED vars  BY <1>1, <2>8, GroupsKept DEF vars
  <2> QED  BY <1>4, <2>1, <2>2, <2>3, <2>4, <2>5, <2>6, <2>7, <2>8 DEF Next, Over
<1> QED  BY <1>2, <1>3, <1>4

LEMMA PhaseStep ==
  ASSUME TraceInv, [Next]_vars
  PROVE  PhaseInv'
<1> USE DEF TraceInv, PhaseInv
<1>1. case' = case  BY DEF Next, vars, Flat, Group, Header, NextWalk, Walk, StackOverflow,
                           WidthKnown, SpanNode, TraceDone, Over
<1>2. CASE Flat  BY <1>1, <1>2 DEF Flat
<1>3. CASE Group
  <2>1. filterSpans \subseteq Positions /\ case \in CaseType
    BY DEF filterSpans, OfService, TypeOK
  <2>2. Grouped(traces', filterSpans)  BY <1>3, GroupMakes
  <2>3. CASE filterSpans = {}
    <3>1. ASSUME traces' # << >> PROVE FALSE
      <4>1. 1 \in 1..Len(traces')  BY <2>2, <3>1, EmptySeq DEF Grouped
      <4>2. traces'[1] # << >> /\ ToSet(traces'[1]) = {}  BY <2>2, <2>3, <4>1 DEF Grouped
      <4>3. traces'[1] \in Seq(Positions)  BY <2>2, <4>1, ElementOfSeq DEF Grouped
      <4> QED  BY <2>1, <4>2, <4>3, ToSetType
    <3> QED  BY <1>3, <2>3, <3>1 DEF Group
  <2>4. CASE filterSpans # {}
    <3>1. traces' # << >>  BY <2>2, <2>4 DEF Grouped
    <3> QED  BY <1>1, <1>3, <2>4, <3>1 DEF Group
  <2> QED  BY <2>3, <2>4
<1>4. CASE Header  BY <1>1, <1>4 DEF Header
<1>5. CASE NextWalk  BY <1>1, <1>5 DEF NextWalk
<1>6. CASE Walk  BY <1>1, <1>6 DEF Walk
<1>7. CASE StackOverflow  BY <1>1, <1>7 DEF StackOverflow
<1>8. CASE WidthKnown  BY <1>1, <1>8 DEF WidthKnown
<1>9. CASE SpanNode  BY <1>1, <1>9 DEF SpanNode
<1>10. CASE TraceDone
  <2>1. traces # << >> /\ traces \in Seq(Seq(Positions))  BY <1>10 DEF TraceDone, TypeOK
  <2>2. Tail(traces) \in Seq(Seq(Positions)) /\ Len(Tail(traces)) = Len(traces) - 1
    BY <2>1, HeadTailProperties
  <2>3. Len(traces) \in Nat /\ Len(traces) # 0  BY <2>1, EmptySeq
  <2>4. Tail(traces) = << >> <=> Len(traces) = 1
    <3>1. Tail(traces) = << >> <=> Len(Tail(traces)) = 0
      <4> DEFINE t == Tail(traces)
      <4> HIDE DEF t
      <4>1. t \in Seq(Seq(Positions))  BY <2>2 DEF t
      <4>2. t = << >> <=> Len(t) = 0  BY ONLY <4>1, EmptySeq
      <4> QED  BY <4>2 DEF t
    <3>2. Len(Tail(traces)) = 0 <=> Len(traces) = 1  BY <2>2, <2>3
    <3> QED  BY <3>1, <3>2
  <2> QED  BY <1>1, <1>10, <2>4 DEF TraceDone
<1>11. CASE UNCHANGED vars  BY <1>11 DEF vars
<1> QED
  BY <1>2, <1>3, <1>4, <1>5, <1>6, <1>7, <1>8, <1>9, <1>10, <1>11 DEF Next, Over

\* the walks never leave the trace
LEMMA WalkStep ==
  ASSUME TraceInv, [Next]_vars
  PROVE  WalkInv'
<1> USE DEF TraceInv
<1>1. case' = case  BY DEF Next, vars, Flat, Group, Header, NextWalk, Walk, StackOverflow,
                           WidthKnown, SpanNode, TraceDone, Over
<1>2. /\ case \in CaseType /\ traces \in Seq(Seq(Positions))
      /\ loop \in Seq(Positions) /\ pending \in Seq(Call)
  BY DEF TypeOK, Call
<1>3. SpansOf(<< >>) = {} /\ ToSet(<< >>) = {}  BY DEF SpansOf, ToSet
<1>4. CASE phase' \notin {"width", "print"}  BY <1>4 DEF WalkInv
<1>5. CASE Header
  <2>1. /\ phase = "head" /\ loop' = Head(traces) /\ phase' = "width"
        /\ UNCHANGED <<case, traces, pending>>
    BY <1>5 DEF Header
  <2>2. Waiting' = {}  BY <1>3, <2>1 DEF PhaseInv, Waiting
  <2>3. Current' = ToSet(Head(traces))  BY <2>1 DEF Current
  <2>4. ToSet(loop)' = ToSet(Head(traces))  BY <2>1
  <2> QED  BY <2>1, <2>2, <2>3, <2>4 DEF WalkInv
<1>6. CASE NextWalk
  <2>1. /\ phase = "width" /\ pending = << >> /\ loop # << >> /\ loop' = Tail(loop)
        /\ pending' = IF Key(Head(loop)) \in DOMAIN depth THEN << >> ELSE Calls(<<Head(loop)>>, 0)
        /\ UNCHANGED <<case, phase, traces, depth>>
    BY <1>6 DEF NextWalk
  <2>2. ToSet(loop) = {Head(loop)} \cup ToSet(Tail(loop))  BY <1>2, <2>1, ToSetTail
  <2>3. SpansOf(Calls(<<Head(loop)>>, 0)) = {Head(loop)}
    <3>1. <<Head(loop)>> \in Seq(Positions)  BY <1>2, <2>1, HeadTailProperties
    <3>2. ToSet(<<Head(loop)>>) = {Head(loop)}  BY DEF ToSet
    <3> QED  BY <3>1, <3>2, CallsProperties
  <2>4. Waiting' = IF Key(Head(loop)) \in DOMAIN depth THEN {} ELSE {Head(loop)}
    BY <1>3, <2>1, <2>3 DEF Waiting
  <2>5. Waiting = {}  BY <1>3, <2>1 DEF Waiting
  <2>6. /\ ToSet(loop) \subseteq Current
        /\ \A i \in Current : i \in ToSet(loop) \/ Key(i) \in DOMAIN depth
    BY <2>1, <2>5 DEF WalkInv
  <2>7. ToSet(loop)' = ToSet(Tail(loop))  BY <2>1
  <2>8. Current' = Current  BY <2>1 DEF Current
  <2>9. \A i \in Current : \/ i \in ToSet(Tail(loop)) \cup Waiting'
                           \/ Key(i) \in DOMAIN depth
    BY <2>2, <2>4, <2>6
  <2>10. Waiting' \subseteq Current /\ ToSet(Tail(loop)) \subseteq Current
    BY <2>2, <2>4, <2>6
  <2> QED  BY <1>1, <2>1, <2>7, <2>8, <2>9, <2>10, BatchKept DEF WalkInv
<1>7. CASE Walk
  <2> DEFINE c == Head(pending)
             kids == Children(Head(traces), Spans[c.span].id)
  <2>1. /\ phase = "width" /\ pending # << >>
        /\ depth' = [key \in DOMAIN depth \cup {Key(c.span)} |->
                       IF key = Key(c.span) THEN c.depth ELSE depth[key]]
        /\ pending' = Calls(kids, c.depth + 1) \o Tail(pending)
        /\ UNCHANGED <<case, phase, traces, loop>>
    BY <1>7 DEF Walk
  <2>2. traces # << >>  BY <2>1 DEF PhaseInv
  <2>3. c \in Call  BY <1>2, <2>1, HeadTailProperties
  <2>4. kids \in Seq(Positions) /\ ToSet(kids) \subseteq Current
    <3>1. Head(traces) \in Seq(Positions)  BY <1>2, <2>2, HeadTailProperties
    <3>2. /\ kids \in Seq(Positions)
          /\ ToSet(kids) = {i \in ToSet(Head(traces)) : IsChild(Head(traces), i)
                                                      /\ Spans[i].parent = Spans[c.span].id}
      BY <1>2, <3>1, ChildrenProperties
    <3> HIDE DEF kids
    <3> QED  BY <3>2 DEF Current
  <2>5. c.depth + 1 \in Nat  BY <2>3 DEF Call
  <2>6. /\ Waiting = {c.span} \cup SpansOf(Tail(pending))
        /\ Waiting' = ToSet(kids) \cup SpansOf(Tail(pending))
    <3> HIDE DEF kids
    <3> QED  BY <1>2, <2>1, <2>4, <2>5, CallMade
  <2>7. DOMAIN depth' = DOMAIN depth \cup {Key(c.span)}  BY <2>1
  <2>8. Current' = Current /\ ToSet(loop)' = ToSet(loop)  BY <2>1 DEF Current
  <2>9. /\ Waiting \subseteq Current /\ ToSet(loop) \subseteq Current
        /\ \A i \in Current : i \in ToSet(loop) \cup Waiting \/ Key(i) \in DOMAIN depth
    BY <2>1 DEF WalkInv
  <2> HIDE DEF c, kids
  <2>10. \A i \in Current : i \in ToSet(loop) \cup Waiting' \/ Key(i) \in DOMAIN depth'
    BY <2>6, <2>7, <2>9
  <2>11. Waiting' \subseteq Current  BY <2>4, <2>6, <2>9
  <2> QED  BY <1>1, <2>1, <2>8, <2>9, <2>10, <2>11, BatchKept DEF WalkInv
<1>8. CASE WidthKnown
  <2>1. /\ phase = "width" /\ phase' = "print" /\ pending' = Calls(Roots(Head(traces)), 0)
        /\ UNCHANGED <<case, traces>>
    BY <1>8 DEF WidthKnown
  <2>2. traces # << >>  BY <2>1 DEF PhaseInv
  <2>3. Roots(Head(traces)) \in Seq(Positions) /\ ToSet(Roots(Head(traces))) \subseteq Current
    BY <1>2, <2>2, CurrentProperties, ChildrenProperties DEF Current
  <2>4. SpansOf(Calls(Roots(Head(traces)), 0)) = ToSet(Roots(Head(traces)))
    BY <2>3, CallsProperties
  <2>5. Waiting' = ToSet(Roots(Head(traces)))  BY <2>1, <2>4 DEF Waiting
  <2>6. Current' = Current  BY <2>1 DEF Current
  <2> QED  BY <2>1, <2>3, <2>5, <2>6 DEF WalkInv
<1>9. CASE SpanNode
  <2> DEFINE c == Head(pending)
             kids == Children(Head(traces), Spans[c.span].id)
  <2>1. /\ phase = "print" /\ pending # << >>
        /\ pending' = Calls(kids, c.depth + 1) \o Tail(pending)
        /\ UNCHANGED <<case, phase, traces, loop>>
    BY <1>9 DEF SpanNode
  <2>2. traces # << >>  BY <2>1 DEF PhaseInv
  <2>3. c \in Call  BY <1>2, <2>1, HeadTailProperties
  <2>4. kids \in Seq(Positions) /\ ToSet(kids) \subseteq Current
    <3>1. Head(traces) \in Seq(Positions)  BY <1>2, <2>2, HeadTailProperties
    <3>2. /\ kids \in Seq(Positions)
          /\ ToSet(kids) = {i \in ToSet(Head(traces)) : IsChild(Head(traces), i)
                                                      /\ Spans[i].parent = Spans[c.span].id}
      BY <1>2, <3>1, ChildrenProperties
    <3> HIDE DEF kids
    <3> QED  BY <3>2 DEF Current
  <2>5. c.depth + 1 \in Nat  BY <2>3 DEF Call
  <2>6. /\ Waiting = {c.span} \cup SpansOf(Tail(pending))
        /\ Waiting' = ToSet(kids) \cup SpansOf(Tail(pending))
    <3> HIDE DEF kids
    <3> QED  BY <1>2, <2>1, <2>4, <2>5, CallMade
  <2>7. Current' = Current  BY <2>1 DEF Current
  <2>8. Waiting \subseteq Current  BY <2>1 DEF WalkInv
  <2> HIDE DEF c, kids
  <2>9. Waiting' \subseteq Current  BY <2>4, <2>6, <2>8
  <2> QED  BY <2>1, <2>7, <2>9 DEF WalkInv
<1>10. CASE UNCHANGED vars
  <2>1. Current' = Current /\ Waiting' = Waiting /\ ToSet(loop)' = ToSet(loop)
    BY <1>10 DEF vars, Current, Waiting
  <2> QED  BY <1>1, <1>10, <2>1, BatchKept DEF WalkInv, vars
<1>11. CASE ~(Header \/ NextWalk \/ Walk \/ WidthKnown \/ SpanNode \/ UNCHANGED vars)
  <2>1. phase' \notin {"width", "print"}
    BY <1>11 DEF Next, Flat, Group, StackOverflow, TraceDone, Over
  <2> QED  BY <1>4, <2>1
<1> QED  BY <1>5, <1>6, <1>7, <1>8, <1>9, <1>10, <1>11

LEMMA TraceAlways == Spec => []TraceInv
<1>1. TraceInv /\ [Next]_vars => TraceInv'
  BY TypeStep, GroupsStep, PhaseStep, WalkStep DEF TraceInv
<1> QED  BY <1>1, TraceInit, PTL DEF Spec

\* The renderer's state is of its type for every batch: in particular the width of the
\* name column never reads a depth that the walk has not stored (nameColumnWidth,
\* render.go:216), and a header is only printed of a trace that has spans.
THEOREM TraceTypeCorrect == Spec => []TypeOK
<1>1. TraceInv => TypeOK  BY DEF TraceInv
<1> QED  BY <1>1, TraceAlways, PTL

-----------------------------------------------------------------------------
(* The recursion of nameColumnWidth.  It goes from parents to children, the *)
(* property speaks of parents; in a finite set the two kinds of cycle are  *)
(* the same.                                                               *)

ChildIn(x, i) ==
  /\ Spans[x].parent # << >>
  /\ Spans[x].parent # Spans[x].id
  /\ Spans[x].parent = Spans[i].id

\* every member of C has a child in C: a walk that enters C never comes out
Descends(C) == C # {} /\ \A i \in C : \E x \in C : ChildIn(x, i)

\* If every part of a finite graph has a member with no successor in it, every part
\* has one with no predecessor in it.
LEMMA SinksMakeSources ==
  ASSUME NEW G, IsFiniteSet(G), NEW R, \A x \in G : <<x, x>> \notin R,
         \A C \in SUBSET G : C # {} => \E z \in C : \A y \in C : <<z, y>> \notin R
  PROVE  \A C \in SUBSET G : C # {} => \E z \in C : \A y \in C : <<y, z>> \notin R
<1> DEFINE Bad == {C \in SUBSET G : C # {} /\ \A z \in C : \E y \in C : <<y, z>> \in R}
<1>1. SUFFICES ASSUME Bad # {} PROVE FALSE  OBVIOUS
<1>2. PICK C \in Bad : \A U \in Bad : U \subseteq C => U = C
  <2> HIDE DEF Bad
  <2>1. Bad \in SUBSET (SUBSET G)  BY DEF Bad
  <2> QED  BY <1>1, <2>1, LeastBad
<1>3. PICK z \in C : \A y \in C : <<z, y>> \notin R  OBVIOUS
<1>4. \A x \in C \ {z} : \E y \in C \ {z} : <<y, x>> \in R  BY <1>3
<1>5. C \ {z} \notin Bad
  <2> HIDE DEF Bad
  <2>1. C \ {z} # C  BY <1>3
  <2> QED  BY <1>2, <2>1
<1>6. C = {z}  BY <1>4, <1>5
<1> QED  BY <1>6

\* the children of a span of the trace, as traceTree's map gives them
LEMMA KidsOf ==
  ASSUME TypeOK, GroupsInv, traces # << >>, NEW i \in Current
  PROVE  /\ Children(Head(traces), Spans[i].id) \in Seq(Positions)
         /\ ToSet(Children(Head(traces), Spans[i].id)) = {x \in Current : ChildIn(x, i)}
<1>1. case \in CaseType /\ Head(traces) \in Seq(Positions)
  BY CurrentProperties DEF TypeOK
<1>2. \A x \in Current : IsChild(Head(traces), x) /\ Spans[x].parent = Spans[i].id
                           <=> ChildIn(x, i)
  BY DEF IsChild, ChildIn, Current
<1>3. /\ Children(Head(traces), Spans[i].id) \in Seq(Positions)
      /\ ToSet(Children(Head(traces), Spans[i].id))
           = {x \in Current : IsChild(Head(traces), x) /\ Spans[x].parent = Spans[i].id}
  BY <1>1, ChildrenProperties DEF Current
<1> HIDE DEF Current
<1> QED  BY <1>2, <1>3

LEMMA AcyclicTraces ==
  ASSUME TypeOK, GroupsInv, traces # << >>, Acyclic
  PROVE  \A C \in SUBSET Current : ~Descends(C)
<1> DEFINE R == {e \in Current \X Current : ChildIn(e[1], e[2])}
<1>1. Current \subseteq filterSpans /\ IsFiniteSet(Current)
      /\ \A i, j \in Current : Spans[i].trace = Spans[j].trace
  BY CurrentProperties
<1>2. \A x, y : <<x, y>> \in R <=> x \in Current /\ y \in Current /\ ChildIn(x, y)
  OBVIOUS
<1>3. \A x \in Current : <<x, x>> \notin R  BY DEF ChildIn
<1>4. ASSUME NEW C \in SUBSET Current, C # {}
      PROVE  \E z \in C : \A y \in C : <<z, y>> \notin R
  <2>1. C \in (SUBSET filterSpans) \ {{}}  BY <1>1, <1>4
  <2>2. PICK z \in C : \A y \in C :
          Spans[z].trace = Spans[y].trace =>
            Spans[z].parent \in {<< >>, Spans[z].id} \/ Spans[z].parent # Spans[y].id
    BY <2>1 DEF Acyclic
  <2>3. \A y \in C : ~ChildIn(z, y)
    <3> SUFFICES ASSUME NEW y \in C PROVE ~ChildIn(z, y)  OBVIOUS
    <3>1. Spans[z].trace = Spans[y].trace  BY <1>1
    <3> QED  BY <2>2, <3>1 DEF ChildIn
  <2> QED  BY <2>3
<1> HIDE DEF R
<1>5. \A C \in SUBSET Current : C # {} => \E z \in C : \A y \in C : <<y, z>> \notin R
  BY <1>1, <1>3, <1>4, SinksMakeSources
<1>6. ASSUME NEW C \in SUBSET Current, Descends(C) PROVE FALSE
  <2>1. PICK z \in C : \A y \in C : <<y, z>> \notin R  BY <1>5, <1>6 DEF Descends
  <2>2. PICK y \in C : ChildIn(y, z)  BY <1>6 DEF Descends
  <2> QED  BY <1>2, <2>1, <2>2
<1> QED  BY <1>6

CycleInv == NoneSkipped =>
  /\ phase = "width" =>
       \A C \in SUBSET Current :
         Descends(C) /\ (\E i \in C : Key(i) \in DOMAIN depth) => C \cap Waiting # {}
  /\ phase = "print" => \A C \in SUBSET Current : ~Descends(C)

LEMMA DescendsKept ==
  ASSUME case' = case
  PROVE  /\ \A x, i : ChildIn(x, i)' <=> ChildIn(x, i)
         /\ \A C : Descends(C)' <=> Descends(C)
BY BatchKept DEF ChildIn, Descends

\* what Walk does, as the layers above TraceInv see it
LEMMA WalkMoves ==
  ASSUME TraceInv, Walk
  PROVE  /\ phase = "width" /\ traces # << >> /\ Current' = Current
         /\ case' = case /\ phase' = phase
         /\ Head(pending) \in Call /\ Head(pending).span \in Current
         /\ Waiting = {Head(pending).span} \cup SpansOf(Tail(pending))
         /\ Waiting' = {x \in Current : ChildIn(x, Head(pending).span)} \cup SpansOf(Tail(pending))
         /\ DOMAIN depth' = DOMAIN depth \cup {Key(Head(pending).span)}
<1> USE DEF TraceInv
<1> DEFINE c == Head(pending)
           kids == Children(Head(traces), Spans[c.span].id)
<1>1. /\ phase = "width" /\ pending # << >>
      /\ depth' = [key \in DOMAIN depth \cup {Key(c.span)} |->
                     IF key = Key(c.span) THEN c.depth ELSE depth[key]]
      /\ pending' = Calls(kids, c.depth + 1) \o Tail(pending)
      /\ UNCHANGED <<case, phase, traces>>
  BY DEF Walk
<1>2. traces # << >>  BY <1>1 DEF PhaseInv
<1>3. pending \in Seq(Call)  BY DEF TypeOK, Call
<1>4. c \in Call  BY <1>1, <1>3, HeadTailProperties
<1>5. c.depth + 1 \in Nat  BY <1>4 DEF Call
<1>6. Waiting = {c.span} \cup SpansOf(Tail(pending))  BY <1>1, <1>3, SpansOfTail DEF Waiting
<1>7. c.span \in Current  BY <1>1, <1>6 DEF WalkInv
<1>8. kids \in Seq(Positions) /\ ToSet(kids) = {x \in Current : ChildIn(x, c.span)}
  BY <1>2, <1>7, KidsOf
<1> HIDE DEF kids
<1>9. Waiting' = ToSet(kids) \cup SpansOf(Tail(pending))
  BY <1>1, <1>3, <1>5, <1>8, CallMade
<1>10. Current' = Current  BY <1>1 DEF Current
<1> QED  BY <1>1, <1>2, <1>4, <1>6, <1>7, <1>8, <1>9, <1>10

\* Once a set of spans that call each other is entered, a call of one of them is always
\* pending; so when nameColumnWidth is through there is none, unless one was passed over
\* for spans with the same keys.
LEMMA CycleStep ==
  ASSUME TraceInv, CycleInv, [Next]_vars
  PROVE  CycleInv'
<1> USE DEF TraceInv
<1>1. case' = case  BY DEF Next, vars, Flat, Group, Header, NextWalk, Walk, StackOverflow,
                           WidthKnown, SpanNode, TraceDone, Over
<1>2. SpansOf(<< >>) = {} /\ ToSet(<< >>) = {}  BY DEF SpansOf, ToSet
<1>a. SUFFICES ASSUME NoneSkipped PROVE CycleInv'  BY <1>1, SkippedKept DEF CycleInv
<1>3. CASE phase' \notin {"width", "print"}  BY <1>3 DEF CycleInv
<1>4. CASE Header
  <2>1. phase' = "width" /\ DOMAIN depth' = {}  BY <1>4 DEF Header
  <2> QED  BY <2>1 DEF CycleInv
<1>5. CASE NextWalk
  <2>1. /\ phase = "width" /\ pending = << >> /\ UNCHANGED <<phase, traces, depth>>
    BY <1>5 DEF NextWalk
  <2>2. Waiting = {} /\ Current' = Current  BY <1>2, <2>1 DEF Waiting, Current
  <2>3. \A C \in SUBSET Current : Descends(C) => ~\E i \in C : Key(i) \in DOMAIN depth
    BY <1>a, <2>1, <2>2 DEF CycleInv
  <2> QED  BY <1>1, <2>1, <2>2, <2>3, BatchKept, DescendsKept DEF CycleInv
<1>6. CASE Walk
  <2> DEFINE c == Head(pending).span
  <2>1. /\ phase = "width" /\ Current' = Current /\ phase' = phase
        /\ Waiting = {c} \cup SpansOf(Tail(pending))
        /\ Waiting' = {x \in Current : ChildIn(x, c)} \cup SpansOf(Tail(pending))
        /\ DOMAIN depth' = DOMAIN depth \cup {Key(c)}
    BY <1>6, WalkMoves
  <2> HIDE DEF c
  <2>2. ASSUME NEW C \in SUBSET Current, Descends(C), NEW i \in C, Key(i) \in DOMAIN depth'
        PROVE  C \cap Waiting' # {}
    <3>1. CASE \E j \in C : Spans[j].id = Spans[c].id
      <4>1. PICK j \in C : Spans[j].id = Spans[c].id  BY <3>1
      <4>2. PICK x \in C : ChildIn(x, j)  BY <2>2, <4>1 DEF Descends
      <4>3. ChildIn(x, c)  BY <4>1, <4>2 DEF ChildIn
      <4> QED  BY <2>1, <4>2, <4>3
    <3>2. CASE ~\E j \in C : Spans[j].id = Spans[c].id
      <4>1. /\ c \in Current /\ Current \subseteq filterSpans /\ case.mode = "pretty"
            /\ Spans[i].trace = Spans[c].trace
        BY <1>6, WalkMoves, CurrentProperties DEF PhaseInv, c
      <4>2. ~Acyclic  BY <1>6, <2>2, WalkMoves, AcyclicTraces
      <4>3. KeysTellIds  BY <1>a, <4>1, <4>2 DEF NoneSkipped
      <4>4. c \notin C /\ Key(i) # Key(c)  BY <3>2, <4>1, <4>3 DEF KeysTellIds
      <4>5. C \cap Waiting # {}  BY <1>a, <2>1, <2>2, <4>4 DEF CycleInv
      <4> QED  BY <2>1, <4>4, <4>5
    <3> QED  BY <3>1, <3>2
  <2> QED  BY <1>1, <2>1, <2>2, BatchKept, DescendsKept DEF CycleInv
<1>7. CASE WidthKnown
  <2>1. /\ phase = "width" /\ phase' = "print" /\ pending = << >> /\ loop = << >>
        /\ UNCHANGED <<traces>>
    BY <1>7 DEF WidthKnown
  <2>2. Waiting = {} /\ ToSet(loop) = {} /\ Current' = Current
    BY <1>2, <2>1 DEF Waiting, Current
  <2>3. \A i \in Current : Key(i) \in DOMAIN depth  BY <2>1, <2>2 DEF WalkInv
  <2>4. \A C \in SUBSET Current : ~Descends(C)
    <3> SUFFICES ASSUME NEW C \in SUBSET Current, Descends(C) PROVE FALSE  OBVIOUS
    <3>1. PICK i \in C : TRUE  BY DEF Descends
    <3> QED  BY <1>a, <2>1, <2>2, <2>3, <3>1 DEF CycleInv
  <2> QED  BY <1>1, <2>1, <2>2, <2>4, DescendsKept DEF CycleInv
<1>8. CASE SpanNode
  <2>1. phase = "print" /\ phase' = phase /\ Current' = Current
    BY <1>8 DEF SpanNode, Current
  <2> QED  BY <1>1, <1>a, <2>1, DescendsKept DEF CycleInv
<1>9. CASE UNCHANGED vars
  <2>1. Current' = Current /\ Waiting' = Waiting  BY <1>9 DEF vars, Current, Waiting
  <2> QED  BY <1>1, <1>9, <1>a, <2>1, BatchKept, DescendsKept DEF CycleInv, vars
<1>10. CASE ~(Header \/ NextWalk \/ Walk \/ WidthKnown \/ SpanNode \/ UNCHANGED vars)
  <2>1. phase' \notin {"width", "print"}
    BY <1>10 DEF Next, Flat, Group, StackOverflow, TraceDone, Over
  <2> QED  BY <1>3, <2>1
<1> QED  BY <1>4, <1>5, <1>6, <1>7, <1>8, <1>9, <1>10

\* a pending call of walk is as deep as a chain of other spans of the trace is long
Chained(call) ==
  \E A \in SUBSET Current :
    /\ Cardinality(A) = call.depth
    /\ call.span \notin A
    /\ \A a \in A : \E x \in A \cup {call.span} : ChildIn(x, a)

ChainInv ==
  /\ case \in Cases
  /\ Acyclic =>
       /\ phase # "overflow"
       /\ phase = "width" => \A call \in ToSet(pending) : Chained(call)

LEMMA ChainedKept ==
  ASSUME case' = case, Current' = Current
  PROVE  /\ Acyclic' <=> Acyclic
         /\ \A call : Chained(call)' <=> Chained(call)
<1>1. Acyclic' <=> Acyclic  BY BatchKept DEF Acyclic
<1> QED  BY <1>1, DescendsKept DEF Chained

LEMMA ChainInit == Init => ChainInv
BY DEF Init, ChainInv

\* The chain of a call is as long as it is deep and one span short of the trace.
LEMMA ChainStep ==
  ASSUME TraceInv, ChainInv, [Next]_vars, \A c \in Cases : Len(c.spans) <= StackLimit
  PROVE  ChainInv'
<1> USE DEF TraceInv
<1>1. case' = case  BY DEF Next, vars, Flat, Group, Header, NextWalk, Walk, StackOverflow,
                           WidthKnown, SpanNode, TraceDone, Over
<1>2. case \in CaseType /\ pending \in Seq(Call) /\ StackLimit \in Nat
  BY LimitsAssumption DEF TypeOK, Call
<1>3. Acyclic' <=> Acyclic  BY <1>1, BatchKept DEF Acyclic
<1>4. CASE Header
  <2>1. pending' = << >> /\ phase' = "width"  BY <1>4 DEF Header, PhaseInv
  <2>2. ToSet(pending)' = {}  BY <2>1 DEF ToSet
  <2> QED  BY <1>1, <1>3, <2>1, <2>2 DEF ChainInv
<1>5. CASE NextWalk
  <2>1. /\ phase = "width" /\ phase' = phase /\ pending = << >> /\ loop # << >>
        /\ pending' = IF Key(Head(loop)) \in DOMAIN depth THEN << >> ELSE Calls(<<Head(loop)>>, 0)
        /\ traces' = traces
    BY <1>5 DEF NextWalk
  <2>2. <<Head(loop)>> \in Seq(Positions)
    <3>1. loop \in Seq(Positions)  BY DEF TypeOK
    <3> QED  BY <2>1, <3>1, HeadTailProperties
  <2>3. Calls(<<Head(loop)>>, 0) = <<[span |-> Head(loop), depth |-> 0]>>
    BY DEF Calls
  <2>4. ToSet(pending') \subseteq {[span |-> Head(loop), depth |-> 0]}
    BY <2>1, <2>3 DEF ToSet
  <2>5. Chained([span |-> Head(loop), depth |-> 0])
    BY FS_EmptySet DEF Chained
  <2>6. Current' = Current  BY <2>1 DEF Current
  <2> QED  BY <1>1, <1>3, <2>1, <2>4, <2>5, <2>6, ChainedKept DEF ChainInv
<1>6. CASE Walk
  <2> DEFINE c == Head(pending)
             kids == Children(Head(traces), Spans[c.span].id)
  <2>1. /\ phase = "width" /\ phase' = phase /\ pending # << >> /\ traces' = traces
        /\ pending' = Calls(kids, c.depth + 1) \o Tail(pending)
    BY <1>6 DEF Walk
  <2>2. traces # << >> /\ Current' = Current /\ c \in Call /\ c.span \in Current
    BY <1>6, WalkMoves
  <2>3. kids \in Seq(Positions) /\ ToSet(kids) = {x \in Current : ChildIn(x, c.span)}
    BY <2>2, KidsOf
  <2>4. c.depth \in Nat /\ c.depth + 1 \in Nat  BY <2>2 DEF Call
  <2> HIDE DEF kids, c
  <2>5. Calls(kids, c.depth + 1) \in Seq(Call) /\ Tail(pending) \in Seq(Call)
        /\ Len(Calls(kids, c.depth + 1)) = Len(kids)
        /\ \A k \in 1..Len(kids) :
             Calls(kids, c.depth + 1)[k] = [span |-> kids[k], depth |-> c.depth + 1]
    BY <1>2, <2>1, <2>3, <2>4, CallsProperties, HeadTailProperties
  <2>6. ToSet(pending) = {c} \cup ToSet(Tail(pending))  BY <1>2, <2>1, ToSetTail DEF c
  <2>7. ToSet(pending') = ToSet(Calls(kids, c.depth + 1)) \cup ToSet(Tail(pending))
    <3> DEFINE p == Calls(kids, c.depth + 1)
               q == Tail(pending)
    <3> HIDE DEF p, q
    <3>1. p \in Seq(Call) /\ q \in Seq(Call)  BY <2>5 DEF p, q
    <3>2. ToSet(p \o q) = ToSet(p) \cup ToSet(q)  BY ONLY <3>1, ToSetConcat
    <3> QED  BY <2>1, <3>2 DEF p, q
  <2>8. ASSUME Acyclic, NEW call \in ToSet(Calls(kids, c.depth + 1)) PROVE Chained(call)
    <3>1. DOMAIN kids = 1..Len(kids) /\ DOMAIN Calls(kids, c.depth + 1) = 1..Len(kids)
      BY <2>3, <2>5, LenProperties
    <3>2. PICK k \in 1..Len(kids) : call = [span |-> kids[k], depth |-> c.depth + 1]
      BY <2>5, <2>8, <3>1 DEF ToSet
    <3>3. kids[k] \in Current /\ ChildIn(kids[k], c.span)
      BY <2>3, <3>1, <3>2 DEF ToSet
    <3>4. Chained(c)  BY <2>1, <2>6, <2>8 DEF ChainInv
    <3>5. PICK A \in SUBSET Current :
            /\ Cardinality(A) = c.depth /\ c.span \notin A
            /\ \A a \in A : \E x \in A \cup {c.span} : ChildIn(x, a)
      BY <3>4 DEF Chained
    <3> DEFINE B == A \cup {c.span}
    <3>6. B \in SUBSET Current  BY <2>2
    <3>7. IsFiniteSet(A)  BY <2>2, CurrentProperties, FS_Subset
    <3>8. Cardinality(B) = c.depth + 1  BY <3>5, <3>7, FS_AddElement
    <3>9. kids[k] \notin B
      <4> SUFFICES ASSUME kids[k] \in B PROVE FALSE  OBVIOUS
      <4>1. Descends(B)  BY <3>3, <3>5 DEF Descends
      <4> QED  BY <2>2, <2>8, <3>6, <4>1, AcyclicTraces
    <3>10. \A a \in B : \E x \in B \cup {kids[k]} : ChildIn(x, a)  BY <3>3, <3>5
    <3> HIDE DEF B
    <3> QED  BY <3>2, <3>6, <3>8, <3>9, <3>10 DEF Chained
  <2>9. Acyclic => \A call \in ToSet(pending') : Chained(call)
    BY <2>1, <2>6, <2>7, <2>8 DEF ChainInv
  <2> QED  BY <1>1, <1>3, <2>1, <2>2, <2>9, ChainedKept DEF ChainInv
<1>7. CASE StackOverflow
  <2>1. phase = "width" /\ pending # << >> /\ Head(pending).depth >= StackLimit /\ phase' = "overflow"
    BY <1>7 DEF StackOverflow
  <2>2. ASSUME Acyclic PROVE FALSE
    <3>1. traces # << >>  BY <2>1 DEF PhaseInv
    <3>2. Head(pending) \in ToSet(pending)  BY <1>2, <2>1, ToSetTail
    <3>3. Chained(Head(pending)) /\ Head(pending).depth \in Nat
      <4>1. Chained(Head(pending))  BY <2>1, <2>2, <3>2 DEF ChainInv
      <4>2. Head(pending) \in Call  BY <1>2, <2>1, HeadTailProperties
      <4> QED  BY <4>1, <4>2 DEF Call
    <3>4. Head(pending).span \in Current
      BY <1>2, <2>1, SpansOfTail DEF WalkInv, Waiting
    <3>5. PICK A \in SUBSET Current :
            Cardinality(A) = Head(pending).depth /\ Head(pending).span \notin A
      BY <3>3 DEF Chained
    <3>6. Current \subseteq Positions /\ IsFiniteSet(Positions)
          /\ Cardinality(Positions) = Len(Spans) /\ Len(Spans) \in Nat
      BY <1>2, <3>1, CurrentProperties, SpansType
    <3>7. IsFiniteSet(A)  BY <3>6, FS_Subset
    <3>8. Cardinality(A \cup {Head(pending).span}) = Head(pending).depth + 1
      BY <3>5, <3>7, FS_AddElement
    <3>9. Cardinality(A \cup {Head(pending).span}) <= Len(Spans)
      <4>1. A \cup {Head(pending).span} \in SUBSET Positions  BY <3>4, <3>6
      <4> QED  BY <3>6, <4>1, FS_Subset
    <3>10. Len(Spans) <= StackLimit  BY DEF ChainInv, Spans
    <3> QED  BY <1>2, <2>1, <3>3, <3>6, <3>8, <3>9, <3>10
  <2> QED  BY <1>1, <1>3, <2>1, <2>2 DEF ChainInv
<1>8. CASE UNCHANGED vars
  <2>1. Current' = Current  BY <1>8 DEF vars, Current
  <2> QED  BY <1>1, <1>8, <2>1, ChainedKept DEF ChainInv, vars
<1>9. CASE ~(Header \/ NextWalk \/ Walk \/ StackOverflow \/ UNCHANGED vars)
  <2>1. phase' \notin {"width", "overflow"}
    BY <1>9 DEF Next, Flat, Group, WidthKnown, SpanNode, TraceDone, Over
  <2> QED  BY <1>1, <1>3, <2>1 DEF ChainInv
<1> QED  BY <1>4, <1>5, <1>6, <1>7, <1>8, <1>9

\* Only a cycle of parents can exhaust the stack (walk, render.go:224): as long as the
\* stack holds one call per span of a batch, a batch whose parent ids form no cycle is
\* measured without running out of it, repeated and empty ids included.
THEOREM NoOverflow ==
  ASSUME \A c \in Cases : Len(c.spans) <= StackLimit
  PROVE  Spec => []OnlyCyclesOverflow
<1>1. TraceInv /\ ChainInv /\ [Next]_vars => ChainInv'  BY ChainStep
<1>2. ChainInv => OnlyCyclesOverflow  BY DEF ChainInv, OnlyCyclesOverflow
<1> QED  BY <1>1, <1>2, ChainInit, TraceAlways, PTL DEF Spec

-----------------------------------------------------------------------------
(* What has been printed: every kept span is drawn or in a trace that is   *)
(* still to draw, and in the trace being drawn nothing below a drawn span  *)
(* is forgotten.                                                           *)

PrintInv ==
  /\ Drawn \subseteq filterSpans
  /\ NoneSkipped /\ phase # "filter" =>
       \A i \in filterSpans : i \in Drawn \/ \E k \in 1..Len(traces) : i \in ToSet(traces[k])
  /\ \A k \in 1..Len(traces) :
       k > 1 \/ phase \in {"head", "width"} => ToSet(traces[k]) \cap Drawn = {}
  /\ phase = "print" =>
       \A i \in Current :
         ~IsChild(Head(traces), i) \/ (\E p \in Current \cap Drawn : ChildIn(i, p))
           => i \in Drawn \cup Waiting

LEMMA RootsOf ==
  ASSUME TypeOK, GroupsInv, traces # << >>
  PROVE  /\ Roots(Head(traces)) \in Seq(Positions)
         /\ ToSet(Roots(Head(traces))) = {x \in Current : ~IsChild(Head(traces), x)}
<1>1. case \in CaseType /\ Head(traces) \in Seq(Positions)
  BY CurrentProperties DEF TypeOK
<1> QED  BY <1>1, ChildrenProperties DEF Current

LEMMA IsChildKept ==
  ASSUME case' = case, traces' = traces
  PROVE  \A i : IsChild(Head(traces), i)' <=> IsChild(Head(traces), i)
BY BatchKept DEF IsChild

LEMMA HasParent ==
  ASSUME traces # << >>, NEW i \in Current, IsChild(Head(traces), i)
  PROVE  \E p \in Current : ChildIn(i, p)
BY DEF IsChild, ChildIn, Current

\* what SpanNode does, as the layers above TraceInv see it
LEMMA SpanMoves ==
  ASSUME TraceInv, SpanNode
  PROVE  /\ phase = "print" /\ traces # << >> /\ Current' = Current
         /\ case' = case /\ phase' = phase /\ traces' = traces
         /\ Head(pending) \in Call /\ Head(pending).span \in Current
         /\ Waiting = {Head(pending).span} \cup SpansOf(Tail(pending))
         /\ Waiting' = {x \in Current : ChildIn(x, Head(pending).span)} \cup SpansOf(Tail(pending))
         /\ Drawn' = Drawn \cup {Head(pending).span}
<1> USE DEF TraceInv
<1> DEFINE c == Head(pending)
           kids == Children(Head(traces), Spans[c.span].id)
           row == [span    |-> c.span, depth |-> c.depth,
                   flagged |-> Spans[c.span].parent # << >> /\ c.depth = 0,
                   column  |-> IF 3 * c.depth + (IF Spans[c.span].name = << >> THEN Placeholder
                                                 ELSE Len(Spans[c.span].name)) > width
                               THEN 3 * c.depth + IF Spans[c.span].name = << >> THEN Placeholder
                                                  ELSE Len(Spans[c.span].name)
                               ELSE width,
                   details |-> Details(Spans[c.span])]
<1>1. /\ phase = "print" /\ pending # << >>
      /\ rows' = Append(rows, row)
      /\ pending' = Calls(kids, c.depth + 1) \o Tail(pending)
      /\ UNCHANGED <<case, phase, traces>>
  BY DEF SpanNode
<1>2. traces # << >>  BY <1>1 DEF PhaseInv
<1>3. pending \in Seq(Call) /\ rows \in Seq(Row)  BY DEF TypeOK, Call
<1>4. c \in Call  BY <1>1, <1>3, HeadTailProperties
<1>5. c.depth + 1 \in Nat  BY <1>4 DEF Call
<1>6. Waiting = {c.span} \cup SpansOf(Tail(pending))  BY <1>1, <1>3, SpansOfTail DEF Waiting
<1>7. c.span \in Current  BY <1>1, <1>6 DEF WalkInv
<1>8. kids \in Seq(Positions) /\ ToSet(kids) = {x \in Current : ChildIn(x, c.span)}
  BY <1>2, <1>7, KidsOf
<1>9. row.span = c.span  OBVIOUS
<1> HIDE DEF kids, row
<1>10. Waiting' = ToSet(kids) \cup SpansOf(Tail(pending))
  BY <1>1, <1>3, <1>5, <1>8, CallMade
<1>11. Current' = Current  BY <1>1 DEF Current
<1>12. Drawn' = Drawn \cup {c.span}
  <2>1. rows \in Seq(Row \cup {row})  BY <1>3, SeqMonotonic
  <2>2. SpansOf(Append(rows, row)) = SpansOf(rows) \cup {row.span}  BY <2>1, SpansOfAppend
  <2> QED  BY <1>1, <1>9, <2>2 DEF Drawn
<1> QED  BY <1>1, <1>2, <1>4, <1>6, <1>7, <1>8, <1>10, <1>11, <1>12

\* A trace whose recursion ends is drawn whole: going up from a span that is missing,
\* parent after parent, comes to a root, and roots are drawn.
LEMMA TraceDrawn ==
  ASSUME TraceInv, CycleInv, PrintInv, NoneSkipped, phase = "print", pending = << >>
  PROVE  Current \subseteq Drawn
<1> USE DEF TraceInv
<1>1. traces # << >>  BY DEF PhaseInv
<1>2. IsFiniteSet(Current)  BY <1>1, CurrentProperties
<1>3. Waiting = {}  BY DEF Waiting, SpansOf
<1> DEFINE R == {e \in Current \X Current : ChildIn(e[2], e[1])}
<1>4. \A x, y : <<x, y>> \in R <=> x \in Current /\ y \in Current /\ ChildIn(y, x)
  OBVIOUS
<1>5. \A x \in Current : <<x, x>> \notin R  BY DEF ChildIn
<1> HIDE DEF R
<1>6. \A C \in SUBSET Current : C # {} => \E z \in C : \A y \in C : <<z, y>> \notin R
  <2> SUFFICES ASSUME NEW C \in SUBSET Current, C # {},
                      \A z \in C : \E y \in C : <<z, y>> \in R
               PROVE  FALSE
    OBVIOUS
  <2>1. Descends(C)  BY <1>4 DEF Descends
  <2> QED  BY <2>1 DEF CycleInv
<1>7. \A C \in SUBSET Current : C # {} => \E z \in C : \A y \in C : <<y, z>> \notin R
  BY <1>2, <1>5, <1>6, SinksMakeSources
<1>8. SUFFICES ASSUME Current \ Drawn # {} PROVE FALSE  OBVIOUS
<1>9. PICK z \in Current \ Drawn : \A y \in Current \ Drawn : <<y, z>> \notin R
  <2>1. Current \ Drawn \in SUBSET Current  OBVIOUS
  <2> QED  BY <1>7, <1>8, <2>1
<1>10. IsChild(Head(traces), z) /\ ~\E p \in Current \cap Drawn : ChildIn(z, p)
  BY <1>3, <1>9 DEF PrintInv
<1>11. PICK p \in Current : ChildIn(z, p)  BY <1>1, <1>9, <1>10, HasParent
<1> QED  BY <1>4, <1>9, <1>10, <1>11

LEMMA PrintInit == Init => PrintInv
BY DEF Init, PrintInv, Drawn, SpansOf

LEMMA PrintKept ==
  ASSUME PrintInv, phase # "filter", phase' # "print", UNCHANGED <<case, traces, rows>>,
         phase \in {"head", "width"} \/ phase' \notin {"head", "width"}
  PROVE  PrintInv'
<1>1. Drawn' = Drawn  BY DEF Drawn
<1> QED  BY <1>1, BatchKept, SkippedKept DEF PrintInv

LEMMA PrintStep ==
  ASSUME TraceInv, CycleInv, PrintInv, [Next]_vars
  PROVE  PrintInv'
<1> USE DEF TraceInv
<1>1. case' = case  BY DEF Next, vars, Flat, Group, Header, NextWalk, Walk, StackOverflow,
                           WidthKnown, SpanNode, TraceDone, Over
<1>2. /\ case \in CaseType /\ traces \in Seq(Seq(Positions)) /\ filterSpans' = filterSpans
      /\ filterSpans \subseteq Positions /\ (NoneSkipped' <=> NoneSkipped)
  BY <1>1, BatchKept, SkippedKept DEF TypeOK, filterSpans, OfService
<1>3. SpansOf(<< >>) = {}  BY DEF SpansOf
<1>4. CASE Flat
  <2> DEFINE spans == InOrder(filterSpans)
  <2>1. /\ phase = "filter" /\ phase' = "finished" /\ traces' = traces
        /\ rows' = [k \in DOMAIN spans |-> FlatRow(spans[k])]
    BY <1>4 DEF Flat
  <2>2. ToSet(spans) = filterSpans
    <3>1. IsFiniteSet(filterSpans) /\ filterSpans \subseteq Nat
      BY <1>2, SpansType, FS_Subset
    <3> QED  BY <3>1, InOrderProperties
  <2> HIDE DEF spans
  <2>3. Drawn' = ToSet(spans)  BY <2>1 DEF Drawn, SpansOf, ToSet, FlatRow
  <2>4. traces' = << >>  BY <2>1 DEF PhaseInv
  <2> QED  BY <1>2, <2>1, <2>2, <2>3, <2>4 DEF PrintInv
<1>5. CASE Group
  <2>1. /\ phase = "filter" /\ phase' \in {"finished", "head"} /\ rows' = rows
    BY <1>5 DEF Group
  <2>2. Drawn' = {}  BY <1>3, <2>1 DEF PhaseInv, Drawn
  <2>3. \A i \in filterSpans : \E k \in 1..Len(traces') : i \in ToSet(traces'[k])
    BY <1>5, GroupMakes DEF Grouped
  <2> QED  BY <1>2, <2>1, <2>2, <2>3 DEF PrintInv
<1>6. CASE Header  BY <1>6, PrintKept DEF Header
<1>7. CASE NextWalk  BY <1>7, PrintKept DEF NextWalk
<1>8. CASE Walk  BY <1>8, PrintKept DEF Walk
<1>9. CASE StackOverflow  BY <1>9, PrintKept DEF StackOverflow
<1>10. CASE WidthKnown
  <2>1. /\ phase = "width" /\ phase' = "print" /\ pending' = Calls(Roots(Head(traces)), 0)
        /\ UNCHANGED <<case, traces, rows>>
    BY <1>10 DEF WidthKnown
  <2>2. traces # << >>  BY <2>1 DEF PhaseInv
  <2>3. Roots(Head(traces)) \in Seq(Positions)
        /\ ToSet(Roots(Head(traces))) = {x \in Current : ~IsChild(Head(traces), x)}
    BY <2>2, RootsOf
  <2>4. Waiting' = {x \in Current : ~IsChild(Head(traces), x)}
    BY <2>1, <2>3, CallsProperties DEF Waiting
  <2>5. Drawn' = Drawn /\ Current' = Current  BY <2>1 DEF Drawn, Current
  <2>6. Current \cap Drawn = {}
    <3>1. 1 \in 1..Len(traces) /\ Current = ToSet(traces[1])
      BY <2>2, CurrentProperties DEF Current
    <3> QED  BY <2>1, <3>1 DEF PrintInv
  <2>7. \A i \in Current : ~IsChild(Head(traces), i) => i \in Waiting'  BY <2>4
  <2>8. \A i \in Current :
          ~IsChild(Head(traces), i) \/ (\E p \in Current \cap Drawn : ChildIn(i, p))
            => i \in Drawn \cup Waiting'
    BY <2>6, <2>7
  <2>9. (\A i \in Current :
          ~IsChild(Head(traces), i) \/ (\E p \in Current \cap Drawn : ChildIn(i, p))
            => i \in Drawn \cup Waiting)'
    BY <1>1, <2>1, <2>5, <2>8, IsChildKept, DescendsKept
  <2>10. /\ Drawn' \subseteq filterSpans'
         /\ NoneSkipped' => \A i \in filterSpans' :
              i \in Drawn' \/ \E k \in 1..Len(traces') : i \in ToSet(traces'[k])
         /\ \A k \in 1..Len(traces') : k > 1 => ToSet(traces'[k]) \cap Drawn' = {}
    BY <1>2, <2>1, <2>5 DEF PrintInv
  <2> QED  BY <2>1, <2>9, <2>10 DEF PrintInv
<1>11. CASE SpanNode
  <2> DEFINE c == Head(pending).span
  <2>1. /\ phase = "print" /\ traces # << >> /\ Current' = Current
        /\ case' = case /\ phase' = phase /\ traces' = traces
        /\ c \in Current
        /\ Waiting = {c} \cup SpansOf(Tail(pending))
        /\ Waiting' = {x \in Current : ChildIn(x, c)} \cup SpansOf(Tail(pending))
        /\ Drawn' = Drawn \cup {c}
    BY <1>11, SpanMoves
  <2> HIDE DEF c
  <2>2. c \in filterSpans /\ \A k \in 1..Len(traces) : k > 1 => c \notin ToSet(traces[k])
    <3>1. 1 \in 1..Len(traces)
          /\ Current = {i \in filterSpans : Spans[i].trace = Spans[traces[1][1]].trace}
      BY <2>1, CurrentProperties
    <3>2. ASSUME NEW k \in 1..Len(traces), k > 1 PROVE c \notin ToSet(traces[k])
      <4>1. Spans[traces[k][1]].trace # Spans[traces[1][1]].trace  BY <3>1, <3>2 DEF GroupsInv
      <4>2. \A i \in ToSet(traces[k]) : Spans[i].trace = Spans[traces[k][1]].trace
        BY DEF GroupsInv
      <4> QED  BY <2>1, <3>1, <4>1, <4>2
    <3> QED  BY <2>1, <3>1, <3>2
  <2>3. ASSUME NEW i \in Current,
               ~IsChild(Head(traces), i) \/ (\E p \in Current \cap Drawn' : ChildIn(i, p))
        PROVE  i \in Drawn' \cup Waiting'
    <3>1. CASE ChildIn(i, c)  BY <2>1, <3>1
    <3>2. CASE ~ChildIn(i, c)
      <4>1. ~IsChild(Head(traces), i) \/ (\E p \in Current \cap Drawn : ChildIn(i, p))
        BY <2>1, <2>3, <3>2
      <4>2. i \in Drawn \cup Waiting  BY <2>1, <4>1 DEF PrintInv
      <4> QED  BY <2>1, <4>2
    <3> QED  BY <3>1, <3>2
  <2>4. (\A i \in Current :
          ~IsChild(Head(traces), i) \/ (\E p \in Current \cap Drawn : ChildIn(i, p))
            => i \in Drawn \cup Waiting)'
    BY <2>1, <2>3, IsChildKept, DescendsKept
  <2>5. /\ Drawn' \subseteq filterSpans'
        /\ NoneSkipped' => \A i \in filterSpans' :
             i \in Drawn' \/ \E k \in 1..Len(traces') : i \in ToSet(traces'[k])
        /\ \A k \in 1..Len(traces') : k > 1 => ToSet(traces'[k]) \cap Drawn' = {}
    BY <1>2, <2>1, <2>2 DEF PrintInv
  <2> QED  BY <2>1, <2>4, <2>5 DEF PrintInv
<1>12. CASE TraceDone
  <2>1. /\ phase = "print" /\ pending = << >> /\ traces' = Tail(traces)
        /\ phase' \in {"finished", "head"} /\ rows' = rows
    BY <1>12 DEF TraceDone
  <2>2. traces # << >>  BY <2>1 DEF PhaseInv
  <2>3. (NoneSkipped => Current \subseteq Drawn) /\ Drawn' = Drawn
    BY <2>1, TraceDrawn DEF Drawn
  <2>4. /\ Len(traces) \in Nat /\ Len(traces') = Len(traces) - 1
        /\ \A k \in 1..Len(traces') : k + 1 \in 1..Len(traces) /\ traces'[k] = traces[k + 1]
    BY <1>2, <2>1, <2>2, HeadTailProperties, LenProperties
  <2>5. \A k \in 1..Len(traces') : ToSet(traces'[k]) \cap Drawn = {}
    <3> SUFFICES ASSUME NEW k \in 1..Len(traces') PROVE ToSet(traces'[k]) \cap Drawn = {}
      OBVIOUS
    <3>1. k + 1 \in 1..Len(traces) /\ k + 1 > 1 /\ traces'[k] = traces[k + 1]  BY <2>4
    <3> QED  BY <3>1 DEF PrintInv
  <2>6. ASSUME NoneSkipped, NEW i \in filterSpans, i \notin Drawn
        PROVE  \E k \in 1..Len(traces') : i \in ToSet(traces'[k])
    <3>1. PICK k \in 1..Len(traces) : i \in ToSet(traces[k])  BY <2>1, <2>6 DEF PrintInv
    <3>2. k # 1
      <4>1. Current = ToSet(traces[1])  BY <2>2, CurrentProperties DEF Current
      <4> QED  BY <2>3, <2>6, <3>1, <4>1
    <3>3. k - 1 \in 1..Len(traces') /\ (k - 1) + 1 = k  BY <2>4, <3>2
    <3>4. traces'[k - 1] = traces[k]  BY <2>4, <3>3
    <3> QED  BY <3>1, <3>3, <3>4
  <2>7. Drawn \subseteq filterSpans  BY DEF PrintInv
  <2> QED  BY <1>2, <2>1, <2>3, <2>5, <2>6, <2>7 DEF PrintInv
<1>13. CASE UNCHANGED vars
  <2>1. /\ Current' = Current /\ Waiting' = Waiting /\ Drawn' = Drawn
        /\ UNCHANGED <<case, traces, phase>>
    BY <1>13 DEF vars, Current, Waiting, Drawn
  <2> QED  BY <1>2, <2>1, IsChildKept, DescendsKept DEF PrintInv
<1> QED
  BY <1>4, <1>5, <1>6, <1>7, <1>8, <1>9, <1>10, <1>11, <1>12, <1>13 DEF Next, Over

LEMMA PrintAlways == Spec => [](TraceInv /\ CycleInv /\ PrintInv)
<1>1. Init => CycleInv  BY DEF Init, CycleInv
<1>2. TraceInv /\ CycleInv /\ [Next]_vars => CycleInv'  BY CycleStep
<1>3. TraceInv /\ CycleInv /\ PrintInv /\ [Next]_vars => PrintInv'  BY PrintStep
<1> QED  BY <1>1, <1>2, <1>3, PrintInit, TraceAlways, PTL DEF Spec

LEMMA AllDrawn ==
  ASSUME TraceInv, PrintInv, NoneSkipped, phase = "finished"
  PROVE  Drawn = filterSpans
<1>1. traces = << >>  BY DEF TraceInv, PhaseInv
<1> QED  BY <1>1 DEF PrintInv

\* The duration gate (filterSpans, render.go:93) never punches holes in a tree: when a
\* batch is printed, in every mode and with repeated ids too, a span is shown exactly if it
\* is of the chosen service and some span of that service in its trace is long enough; all
\* but a cycle of parents that nameColumnWidth passed over for spans with the same keys,
\* which ids of one length rule out (EqualIdsTell).
THEOREM GateHolds == Spec => []GateKeepsWholeTraces
<1>1. TraceInv /\ PrintInv => GateKeepsWholeTraces
  <2> SUFFICES ASSUME TraceInv, PrintInv, phase = "finished", NoneSkipped
               PROVE  \A i \in Positions :
                 (\E k \in DOMAIN rows : rows[k].span = i) <=>
                   /\ case.service \in {0, Spans[i].service}
                   /\ case.minDuration > 0 =>
                        \E j \in Positions : /\ Spans[j].trace = Spans[i].trace
                                             /\ case.service \in {0, Spans[j].service}
                                             /\ DurationNano(Spans[j]) >= case.minDuration
    BY DEF GateKeepsWholeTraces
  <2>2. Drawn = filterSpans  BY AllDrawn
  <2>3. case.minDuration \in Nat  BY DEF TraceInv, TypeOK, CaseType
  <2>4. ASSUME NEW i \in Positions
        PROVE  (\E k \in DOMAIN rows : rows[k].span = i) <=> i \in filterSpans
    BY <2>2 DEF Drawn, SpansOf
  <2> QED  BY <2>3, <2>4 DEF filterSpans, OfService
<1> QED  BY <1>1, PrintAlways, PTL

-----------------------------------------------------------------------------
(* No span is drawn twice, if the ids tell the spans of a trace apart.     *)

Distinct(list) == \A k, m \in DOMAIN list : list[k].span = list[m].span => k = m

LEMMA DistinctTail ==
  ASSUME NEW T, NEW p \in Seq(T), p # << >>, Distinct(p)
  PROVE  Distinct(Tail(p)) /\ Head(p).span \notin SpansOf(Tail(p))
<1>1. /\ DOMAIN p = 1..Len(p) /\ Len(p) \in Nat \ {0}
      /\ DOMAIN Tail(p) = 1..(Len(p) - 1)
      /\ \A k \in 1..(Len(p) - 1) : Tail(p)[k] = p[k + 1]
      /\ Head(p) = p[1]
  BY LenProperties, EmptySeq, HeadTailProperties
<1>2. ASSUME NEW k \in 1..(Len(p) - 1), NEW m \in 1..(Len(p) - 1),
             Tail(p)[k].span = Tail(p)[m].span
      PROVE  k = m
  <2>1. k + 1 \in 1..Len(p) /\ m + 1 \in 1..Len(p)  BY <1>1
  <2>2. k + 1 = m + 1  BY <1>1, <1>2, <2>1 DEF Distinct
  <2> QED  BY <2>2
<1>3. ASSUME NEW k \in 1..(Len(p) - 1) PROVE Tail(p)[k].span # Head(p).span
  <2>1. k + 1 \in 1..Len(p) /\ 1 \in 1..Len(p) /\ k + 1 # 1  BY <1>1
  <2> QED  BY <1>1, <2>1 DEF Distinct
<1>4. Distinct(Tail(p))  BY <1>1, <1>2 DEF Distinct
<1> QED  BY <1>1, <1>3, <1>4 DEF SpansOf

LEMMA DistinctConcat ==
  ASSUME NEW T, NEW p \in Seq(T), NEW q \in Seq(T), Distinct(p), Distinct(q),
         SpansOf(p) \cap SpansOf(q) = {}
  PROVE  Distinct(p \o q)
<1>1. /\ DOMAIN p = 1..Len(p) /\ Len(p) \in Nat
      /\ DOMAIN q = 1..Len(q) /\ Len(q) \in Nat
      /\ DOMAIN (p \o q) = 1..(Len(p) + Len(q))
      /\ \A k \in 1..(Len(p) + Len(q)) :
           (p \o q)[k] = IF k <= Len(p) THEN p[k] ELSE q[k - Len(p)]
  BY LenProperties, ConcatProperties
<1> SUFFICES ASSUME NEW k \in 1..(Len(p) + Len(q)), NEW m \in 1..(Len(p) + Len(q)),
                    (p \o q)[k].span = (p \o q)[m].span
             PROVE  k = m
  BY <1>1 DEF Distinct
<1>2. CASE k <= Len(p) /\ m <= Len(p)
  <2>1. k \in 1..Len(p) /\ m \in 1..Len(p) /\ p[k].span = p[m].span  BY <1>1, <1>2
  <2> QED  BY <1>1, <2>1 DEF Distinct
<1>3. CASE ~(k <= Len(p)) /\ ~(m <= Len(p))
  <2>1. /\ k - Len(p) \in 1..Len(q) /\ m - Len(p) \in 1..Len(q)
        /\ q[k - Len(p)].span = q[m - Len(p)].span
    BY <1>1, <1>3
  <2>2. k - Len(p) = m - Len(p)  BY <1>1, <2>1 DEF Distinct
  <2> QED  BY <1>1, <2>2
<1>4. CASE k <= Len(p) /\ ~(m <= Len(p))
  <2>1. k \in 1..Len(p) /\ m - Len(p) \in 1..Len(q) /\ p[k].span = q[m - Len(p)].span
    BY <1>1, <1>4
  <2>2. p[k].span \in SpansOf(p) /\ q[m - Len(p)].span \in SpansOf(q)
    BY <1>1, <2>1 DEF SpansOf
  <2> QED  BY <2>1, <2>2
<1>5. CASE ~(k <= Len(p)) /\ m <= Len(p)
  <2>1. m \in 1..Len(p) /\ k - Len(p) \in 1..Len(q) /\ p[m].span = q[k - Len(p)].span
    BY <1>1, <1>5
  <2>2. p[m].span \in SpansOf(p) /\ q[k - Len(p)].span \in SpansOf(q)
    BY <1>1, <2>1 DEF SpansOf
  <2> QED  BY <2>1, <2>2
<1> QED  BY <1>2, <1>3, <1>4, <1>5

LEMMA DistinctAppend ==
  ASSUME NEW T, NEW p \in Seq(T), NEW e \in T, Distinct(p), e.span \notin SpansOf(p)
  PROVE  Distinct(Append(p, e))
<1>1. <<e>> \in Seq(T) /\ Append(p, e) = p \o <<e>>  OBVIOUS
<1>2. DOMAIN <<e>> = {1} /\ <<e>>[1] = e  OBVIOUS
<1>3. Distinct(<<e>>) /\ SpansOf(<<e>>) = {e.span}  BY <1>2 DEF Distinct, SpansOf
<1>4. SpansOf(p) \cap SpansOf(<<e>>) = {}  BY <1>3
<1>5. Distinct(p \o <<e>>)  BY <1>1, <1>3, <1>4, DistinctConcat
<1> QED  BY <1>1, <1>5

\* what a sort returns has every span once
LEMMA SortedOnce ==
  ASSUME case \in CaseType, NEW S, S \subseteq Positions, NEW d \in Nat
  PROVE  Distinct(Calls(sortSpans(S), d))
<1> DEFINE s == sortSpans(S)
<1>1. /\ s \in Seq(S) /\ DOMAIN s = 1..Cardinality(S)
      /\ \A k, m \in 1..Cardinality(S) : k < m =>
           \/ Spans[s[k]].start < Spans[s[m]].start
           \/ Spans[s[k]].start = Spans[s[m]].start /\ s[k] < s[m]
  BY sortSpansProperties
<1>2. Cardinality(S) \in Nat  BY SpansType, FS_Subset, FS_CardinalityType
<1> HIDE DEF s
<1>3. s \in Seq(Positions)  BY <1>1, SeqMonotonic
<1>4. \A k \in 1..Cardinality(S) : Spans[s[k]].start \in Nat /\ s[k] \in Nat
  BY <1>1, <1>3, ElementOfSeq, SpansType, LenProperties DEF SpanType
<1>5. \A k, m \in 1..Cardinality(S) : k < m => s[k] # s[m]  BY <1>1, <1>4
<1>6. \A k, m \in 1..Cardinality(S) : s[k] = s[m] => k = m  BY <1>2, <1>5
<1>7. DOMAIN Calls(s, d) = 1..Cardinality(S)
      /\ \A k \in 1..Cardinality(S) : Calls(s, d)[k].span = s[k]
  BY <1>1 DEF Calls
<1> QED  BY <1>6, <1>7 DEF Distinct, s

OnceInv ==
  /\ DistinctIds \/ case.mode = "flat" => Distinct(rows)
  /\ DistinctIds /\ phase = "print" =>
       /\ Distinct(pending) /\ Waiting \cap Drawn = {}
       /\ \A x \in Waiting \cup (Drawn \cap Current) :
            IsChild(Head(traces), x) => \E p \in Current \cap Drawn : ChildIn(x, p)

LEMMA OnceInit == Init => OnceInv
BY DEF Init, OnceInv, Distinct

LEMMA OnceKept ==
  ASSUME OnceInv, case' = case, rows' = rows, phase' # "print"
  PROVE  OnceInv'
<1>1. DistinctIds' <=> DistinctIds  BY BatchKept DEF DistinctIds
<1> QED  BY <1>1 DEF OnceInv

\* A span is pushed when its parent is drawn, and with distinct ids that happens once.
LEMMA OnceStep ==
  ASSUME TraceInv, PrintInv, OnceInv, [Next]_vars
  PROVE  OnceInv'
<1> USE DEF TraceInv
<1>1. case' = case  BY DEF Next, vars, Flat, Group, Header, NextWalk, Walk, StackOverflow,
                           WidthKnown, SpanNode, TraceDone, Over
<1>2. DistinctIds' <=> DistinctIds  BY <1>1, BatchKept DEF DistinctIds
<1>3. /\ case \in CaseType /\ pending \in Seq(Call) /\ rows \in Seq(Row)
      /\ filterSpans \subseteq Positions
  BY DEF TypeOK, Call, filterSpans, OfService
<1>4. CASE Flat
  <2> DEFINE spans == InOrder(filterSpans)
             n == Cardinality(filterSpans)
  <2>1. phase' = "finished" /\ rows' = [k \in DOMAIN spans |-> FlatRow(spans[k])]
    BY <1>4 DEF Flat
  <2>2. IsFiniteSet(filterSpans) /\ filterSpans \subseteq Nat  BY <1>3, SpansType, FS_Subset
  <2>3. /\ n \in Nat /\ spans \in Seq(filterSpans) /\ DOMAIN spans = 1..n
        /\ \A k, m \in 1..n : k < m => spans[k] < spans[m]
    BY <2>2, InOrderProperties, FS_CardinalityType
  <2>4. \A k \in 1..n : spans[k] \in Nat
    <3> HIDE DEF spans, n
    <3> QED  BY <2>2, <2>3, ElementOfSeq, LenProperties
  <2> HIDE DEF spans, n
  <2>5. \A k, m \in 1..n : spans[k] = spans[m] => k = m  BY <2>3, <2>4
  <2>6. DOMAIN rows' = 1..n /\ \A k \in 1..n : rows'[k].span = spans[k]
    BY <2>1, <2>3 DEF FlatRow
  <2>7. Distinct(rows')  BY <2>5, <2>6 DEF Distinct
  <2> QED  BY <2>1, <2>7 DEF OnceInv
<1>5. CASE WidthKnown
  <2>1. /\ phase = "width" /\ phase' = "print" /\ pending' = Calls(Roots(Head(traces)), 0)
        /\ UNCHANGED <<case, traces, rows>>
    BY <1>5 DEF WidthKnown
  <2>2. traces # << >>  BY <2>1 DEF PhaseInv
  <2>3. Roots(Head(traces)) \in Seq(Positions)
        /\ ToSet(Roots(Head(traces))) = {x \in Current : ~IsChild(Head(traces), x)}
    BY <2>2, RootsOf
  <2>4. Waiting' = {x \in Current : ~IsChild(Head(traces), x)}
    BY <2>1, <2>3, CallsProperties DEF Waiting
  <2>5. Drawn' = Drawn /\ Current' = Current  BY <2>1 DEF Drawn, Current
  <2>6. Current \cap Drawn = {}
    <3>1. 1 \in 1..Len(traces) /\ Current = ToSet(traces[1])
      BY <2>2, CurrentProperties DEF Current
    <3> QED  BY <2>1, <3>1 DEF PrintInv
  <2>7. Distinct(pending')
    <3>1. ToSet(Head(traces)) \subseteq Positions  BY <2>2, CurrentProperties DEF Current
    <3> DEFINE S == {i \in ToSet(Head(traces)) : ~IsChild(Head(traces), i)}
    <3>2. S \subseteq Positions  BY <3>1
    <3>3. Roots(Head(traces)) = sortSpans(S)  BY DEF Roots
    <3> HIDE DEF S
    <3> QED  BY <1>3, <2>1, <3>2, <3>3, SortedOnce
  <2>8. (\A x \in Waiting \cup (Drawn \cap Current) :
          IsChild(Head(traces), x) => \E p \in Current \cap Drawn : ChildIn(x, p))'
    BY <2>1, <2>4, <2>5, <2>6, IsChildKept
  <2>9. Waiting' \cap Drawn' = {}  BY <2>4, <2>5, <2>6
  <2>10. Distinct(pending)'  BY <2>7
  <2>11. (DistinctIds \/ case.mode = "flat" => Distinct(rows))'  BY <1>2, <2>1 DEF OnceInv
  <2> QED  BY <2>8, <2>9, <2>10, <2>11 DEF OnceInv
<1>6. CASE SpanNode
  <2> DEFINE c == Head(pending)
             kids == Children(Head(traces), Spans[c.span].id)
             Rest == SpansOf(Tail(pending))
  <2>1. /\ phase = "print" /\ traces # << >> /\ Current' = Current
        /\ phase' = phase /\ traces' = traces
        /\ c \in Call /\ c.span \in Current
        /\ Waiting = {c.span} \cup Rest
        /\ Waiting' = {x \in Current : ChildIn(x, c.span)} \cup Rest
        /\ Drawn' = Drawn \cup {c.span}
    BY <1>6, SpanMoves
  <2>2. /\ pending # << >> /\ pending' = Calls(kids, c.depth + 1) \o Tail(pending)
        /\ \E row : rows' = Append(rows, row) /\ row.span = c.span
    <3>1. pending # << >> /\ pending' = Calls(kids, c.depth + 1) \o Tail(pending)
      BY <1>6 DEF SpanNode
    <3>2. PICK used, details :
            rows' = Append(rows, [span |-> c.span, depth |-> c.depth,
                                  flagged |-> Spans[c.span].parent # << >> /\ c.depth = 0,
                                  column |-> used, details |-> details])
      BY <1>6 DEF SpanNode
    <3> HIDE DEF c, kids
    <3> QED  BY <3>1, <3>2
  <2>3. kids \in Seq(Positions) /\ ToSet(kids) = {x \in Current : ChildIn(x, c.span)}
    BY <2>1, KidsOf
  <2>4. c.depth + 1 \in Nat  BY <2>1 DEF Call
  <2>5. Distinct(Calls(kids, c.depth + 1))
    <3>1. ToSet(Head(traces)) \subseteq Positions  BY <2>1, CurrentProperties DEF Current
    <3> DEFINE S == {i \in ToSet(Head(traces)) : IsChild(Head(traces), i)
                                                 /\ Spans[i].parent = Spans[c.span].id}
    <3>2. S \subseteq Positions  BY <3>1
    <3>3. kids = sortSpans(S)  BY DEF Children
    <3> HIDE DEF S, c, kids
    <3> QED  BY <1>3, <2>4, <3>2, <3>3, SortedOnce
  <2>6. /\ Calls(kids, c.depth + 1) \in Seq(Call)
        /\ SpansOf(Calls(kids, c.depth + 1)) = {x \in Current : ChildIn(x, c.span)}
    <3> HIDE DEF c, kids
    <3> QED  BY <2>3, <2>4, CallsProperties
  <2>7. ASSUME DistinctIds
        PROVE  /\ Distinct(rows)' /\ Distinct(pending)' /\ Waiting' \cap Drawn' = {}
               /\ \A x \in Waiting' \cup (Drawn' \cap Current) :
                    IsChild(Head(traces), x) => \E p \in Current \cap Drawn' : ChildIn(x, p)
    <3>1. /\ Distinct(rows) /\ Distinct(pending) /\ Waiting \cap Drawn = {}
          /\ \A x \in Waiting \cup (Drawn \cap Current) :
               IsChild(Head(traces), x) => \E p \in Current \cap Drawn : ChildIn(x, p)
      BY <2>1, <2>7 DEF OnceInv
    <3>2. Distinct(Tail(pending)) /\ c.span \notin Rest /\ Tail(pending) \in Seq(Call)
      BY <1>3, <2>2, <3>1, DistinctTail, HeadTailProperties
    <3> HIDE DEF c, kids, Rest
    <3>3. \A x, p \in Current : ChildIn(x, p) /\ ChildIn(x, c.span) => p = c.span
      <4>1. Current \subseteq filterSpans
            /\ \A i, j \in Current : Spans[i].trace = Spans[j].trace
        BY <2>1, CurrentProperties
      <4> QED  BY <2>1, <2>7, <4>1 DEF DistinctIds, ChildIn
    <3>4. ASSUME NEW x \in Current, ChildIn(x, c.span) PROVE x \notin Waiting \cup Drawn
      <4>1. SUFFICES ASSUME x \in Waiting \cup Drawn PROVE FALSE  OBVIOUS
      <4>2. IsChild(Head(traces), x)  BY <2>1, <3>4 DEF IsChild, ChildIn, Current
      <4>3. PICK p \in Current \cap Drawn : ChildIn(x, p)  BY <3>1, <3>4, <4>1, <4>2
      <4>4. p = c.span  BY <3>3, <3>4, <4>3
      <4> QED  BY <2>1, <3>1, <4>3, <4>4
    <3>5. c.span \notin Drawn  BY <2>1, <3>1
    <3>6. Waiting' \cap Drawn' = {}
      <4>1. \A x \in Current : ChildIn(x, c.span) => x # c.span  BY DEF ChildIn
      <4> QED  BY <2>1, <3>1, <3>2, <3>4, <3>5, <4>1
    <3>7. Distinct(pending')
      <4>1. SpansOf(Calls(kids, c.depth + 1)) \cap SpansOf(Tail(pending)) = {}
        BY <2>1, <2>6, <3>4 DEF Rest
      <4> QED  BY <2>2, <2>5, <2>6, <3>2, <4>1, DistinctConcat
    <3>8. Distinct(rows')
      <4>1. PICK row : rows' = Append(rows, row) /\ row.span = c.span  BY <2>2
      <4>2. rows \in Seq(Row \cup {row})  BY <1>3, SeqMonotonic
      <4>3. row.span \notin SpansOf(rows)  BY <3>5, <4>1 DEF Drawn
      <4> QED  BY <3>1, <4>1, <4>2, <4>3, DistinctAppend
    <3>9. ASSUME NEW x \in Waiting' \cup (Drawn' \cap Current), IsChild(Head(traces), x)
          PROVE  \E p \in Current \cap Drawn' : ChildIn(x, p)
      <4>1. CASE x \in Current /\ ChildIn(x, c.span)  BY <2>1, <4>1
      <4>2. CASE x \in Waiting \cup (Drawn \cap Current)  BY <2>1, <3>1, <3>9, <4>2
      <4> QED  BY <2>1, <3>9, <4>1, <4>2
    <3> QED  BY <3>6, <3>7, <3>8, <3>9
  <2>8. case.mode = "pretty"  BY <2>1 DEF PhaseInv
  <2>9. DistinctIds /\ phase' = "print" =>
          (\A x \in Waiting \cup (Drawn \cap Current) :
            IsChild(Head(traces), x) => \E p \in Current \cap Drawn : ChildIn(x, p))'
    BY <1>1, <2>1, <2>7, IsChildKept, DescendsKept
  <2>10. (DistinctIds \/ case.mode = "flat" => Distinct(rows))'  BY <1>1, <1>2, <2>7, <2>8
  <2>11. DistinctIds => Distinct(pending)' /\ (Waiting \cap Drawn)' = {}  BY <2>7
  <2> QED  BY <1>2, <2>1, <2>9, <2>10, <2>11 DEF OnceInv
<1>7. CASE UNCHANGED vars
  <2>1. /\ Current' = Current /\ Waiting' = Waiting /\ Drawn' = Drawn
        /\ UNCHANGED <<case, traces, phase, rows, pending>>
    BY <1>7 DEF vars, Current, Waiting, Drawn
  <2> QED  BY <1>2, <2>1, IsChildKept, DescendsKept DEF OnceInv
<1>8. CASE Group  BY <1>8, OnceKept DEF Group
<1>9. CASE Header  BY <1>9, OnceKept DEF Header
<1>10. CASE NextWalk  BY <1>10, OnceKept DEF NextWalk
<1>11. CASE Walk  BY <1>11, OnceKept DEF Walk
<1>12. CASE StackOverflow  BY <1>12, OnceKept DEF StackOverflow
<1>13. CASE TraceDone  BY <1>13, OnceKept DEF TraceDone
<1> QED
  BY <1>4, <1>5, <1>6, <1>7, <1>8, <1>9, <1>10, <1>11, <1>12, <1>13 DEF Next, Over

\* "Partial batches still render instead of vanishing" (buildTree, render.go:188): in
\* every batch whose ids tell the spans of a trace apart, whatever parents are missing
\* and in whatever order spans arrive, each kept span is drawn, and only once, unless
\* a cycle of parents is passed over for spans with the same keys (as in GateHolds).
THEOREM DrawnOnce == Spec => []EverySpanDrawnOnce
<1>1. TraceInv /\ PrintInv /\ OnceInv => EverySpanDrawnOnce
  <2> SUFFICES ASSUME TraceInv, PrintInv, OnceInv, phase = "finished", NoneSkipped,
                      DistinctIds \/ case.mode = "flat"
               PROVE  /\ Len(rows) = Cardinality(filterSpans)
                      /\ {rows[k].span : k \in DOMAIN rows} = filterSpans
    BY DEF EverySpanDrawnOnce
  <2>2. Drawn = filterSpans  BY AllDrawn
  <2>3. Distinct(rows)  BY DEF OnceInv
  <2>4. rows \in Seq(Row)  BY DEF TraceInv, TypeOK
  <2>5. DOMAIN rows = 1..Len(rows) /\ Len(rows) \in Nat  BY <2>4, LenProperties
  <2> DEFINE f == [k \in 1..Len(rows) |-> rows[k].span]
  <2>6. f \in Bijection(1..Len(rows), filterSpans)
    <3>1. f \in [1..Len(rows) -> filterSpans]  BY <2>2, <2>5 DEF Drawn, SpansOf
    <3>2. \A k, m \in 1..Len(rows) : f[k] = f[m] => k = m  BY <2>3, <2>5 DEF Distinct
    <3>3. \A i \in filterSpans : \E k \in 1..Len(rows) : f[k] = i
      BY <2>2, <2>5 DEF Drawn, SpansOf
    <3> HIDE DEF f
    <3> QED  BY <3>1, <3>2, <3>3 DEF Bijection, Injection, IsInjective, Surjection
  <2>7. IsFiniteSet(1..Len(rows)) /\ Cardinality(1..Len(rows)) = Len(rows)
    <3>1. /\ IsFiniteSet(1..Len(rows))
          /\ Cardinality(1..Len(rows)) = IF 1 > Len(rows) THEN 0 ELSE Len(rows) - 1 + 1
      BY <2>5, FS_Interval
    <3> QED  BY <2>5, <3>1
  <2>8. Cardinality(filterSpans) = Len(rows)
    <3>1. ExistsBijection(1..Len(rows), filterSpans)  BY <2>6 DEF ExistsBijection
    <3> QED  BY <2>7, <3>1, FS_Bijection
  <2> QED  BY <2>2, <2>8 DEF Drawn, SpansOf
<1>2. TraceInv /\ PrintInv /\ OnceInv /\ [Next]_vars => OnceInv'  BY OnceStep
<1> QED  BY <1>1, <1>2, OnceInit, PrintAlways, PTL DEF Spec
=============================================================================
