------------------------------ MODULE RowProofs ------------------------------
(***************************************************************************)
(* Theorems about what TraceTree prints, for every batch of spans and all  *)
(* options: the order and the columns of the rows, and what headers say.   *)
(***************************************************************************)
EXTENDS TraceProofs

(* The rows are a preorder of the tree.                                    *)

\* the order of sortSpans
Earlier(i, j) ==
  \/ Spans[i].start < Spans[j].start
  \/ Spans[i].start = Spans[j].start /\ i < j

Siblings(i, j, d) ==
  /\ Spans[i].trace = Spans[j].trace
  /\ d > 0 => Spans[i].parent = Spans[j].parent

\* After the first n rows of list a row of span i at depth d is in its place.
Fits(list, n, i, d) ==
  /\ d > 0 =>
       \E p \in 1..n :
         /\ Spans[list[p].span].trace = Spans[i].trace /\ list[p].depth = d - 1
         /\ Spans[list[p].span].id = Spans[i].parent
         /\ \A m \in (p + 1)..n : list[m].depth >= d
  /\ \A m \in 1..n :
       list[m].depth = d /\ Siblings(list[m].span, i, d) => Earlier(list[m].span, i)

\* The calls of list are as deep as those behind them or deeper, siblings in order.
Ordered(list) ==
  \A l, j \in DOMAIN list : l < j =>
    /\ list[l].depth >= list[j].depth
    /\ list[l].depth = list[j].depth /\ Siblings(list[l].span, list[j].span, list[j].depth)
         => Earlier(list[l].span, list[j].span)

TreeInv ==
  /\ case.mode = "pretty" /\ DistinctIds =>
       \A k \in DOMAIN rows : Fits(rows, k - 1, rows[k].span, rows[k].depth)
  /\ phase = "print" /\ DistinctIds =>
       /\ Ordered(pending)
       /\ \A j \in DOMAIN pending : Fits(rows, Len(rows), pending[j].span, pending[j].depth)

\* The calls that are pushed together are for the spans of S, in the order of sortSpans.
Pushed(list, S, d) ==
  /\ list \in Seq(Call)
  /\ \A k \in DOMAIN list : list[k].span \in S /\ list[k].depth = d
  /\ \A k, m \in DOMAIN list : k < m => Earlier(list[k].span, list[m].span)

LEMMA SortedCalls ==
  ASSUME case \in CaseType, NEW S, S \subseteq Positions, NEW d \in Nat
  PROVE  Pushed(Calls(sortSpans(S), d), S, d)
<1> DEFINE s == sortSpans(S)
           list == Calls(s, d)
<1>1. /\ s \in Seq(S) /\ Len(s) = Cardinality(S)
      /\ \A k, m \in 1..Cardinality(S) : k < m => Earlier(s[k], s[m])
  BY sortSpansProperties DEF Earlier
<1> HIDE DEF s
<1>2. s \in Seq(Positions)  BY <1>1, SeqMonotonic
<1>3. \A k \in 1..Len(s) : s[k] \in S  BY <1>1, ElementOfSeq
<1>4. /\ list \in Seq(Call) /\ Len(list) = Len(s)
      /\ \A k \in 1..Len(s) : list[k] = [span |-> s[k], depth |-> d]
  BY <1>2, CallsProperties
<1> HIDE DEF list
<1>5. DOMAIN list = 1..Len(s)  BY <1>4, LenProperties
<1>6. Pushed(list, S, d)  BY <1>1, <1>3, <1>4, <1>5 DEF Pushed
<1> QED  BY <1>6 DEF list, s

LEMMA PushedKids ==
  ASSUME TypeOK, GroupsInv, traces # << >>, NEW i \in Current, NEW d \in Nat
  PROVE  LET kids == Calls(Children(Head(traces), Spans[i].id), d)
             K == {x \in Current : ChildIn(x, i)}
         IN  Pushed(kids, K, d) /\ Distinct(kids) /\ SpansOf(kids) = K
<1> DEFINE S == {x \in ToSet(Head(traces)) :
                   IsChild(Head(traces), x) /\ Spans[x].parent = Spans[i].id}
           list == Children(Head(traces), Spans[i].id)
           kids == Calls(list, d)
<1>1. /\ S \subseteq Positions /\ S = {x \in Current : ChildIn(x, i)}
      /\ case \in CaseType
  BY CurrentProperties DEF Current, IsChild, ChildIn, TypeOK
<1>2. list = sortSpans(S)  BY DEF Children
<1>3. list \in Seq(Positions) /\ ToSet(list) = S  BY <1>1, KidsOf
<1> HIDE DEF S, list
<1>4. Pushed(kids, S, d) /\ Distinct(kids)  BY <1>1, <1>2, SortedCalls, SortedOnce
<1>5. SpansOf(kids) = S  BY <1>3, CallsProperties
<1> QED  BY <1>1, <1>4, <1>5 DEF list

LEMMA FitsKept ==
  ASSUME case' = case
  PROVE  /\ \A list, n, i, d : Fits(list, n, i, d)' <=> Fits(list, n, i, d)
         /\ \A list : Ordered(list)' <=> Ordered(list)
         /\ DistinctIds' <=> DistinctIds
BY BatchKept DEF Fits, Ordered, Siblings, Earlier, DistinctIds

LEMMA FitsAppend ==
  ASSUME NEW list \in Seq(Row), NEW row, NEW n \in 0..Len(list), NEW i, NEW d,
         Fits(list, n, i, d)
  PROVE  Fits(Append(list, row), n, i, d)
<1>1. Len(list) \in Nat /\ \A k \in 1..Len(list) : Append(list, row)[k] = list[k]
  <2>1. list \in Seq(Row \cup {row}) /\ row \in Row \cup {row}  BY SeqMonotonic
  <2> QED  BY <2>1, AppendProperties, LenProperties
<1>2. \A k \in 1..n : Append(list, row)[k] = list[k]  BY <1>1
<1>3. \A p \in 1..n : \A m \in (p + 1)..n : m \in 1..n  OBVIOUS
<1> QED  BY <1>2, <1>3 DEF Fits

LEMMA TreeInit == Init => TreeInv
BY DEF Init, TreeInv

LEMMA TreeKept ==
  ASSUME TreeInv, case' = case, rows' = rows, phase' # "print"
  PROVE  TreeInv'
BY FitsKept DEF TreeInv

\* While a span waits none of its children is drawn: their parent is another span then.
LEMMA ChildrenLater ==
  ASSUME TraceInv, PrintInv, OnceInv, DistinctIds, phase = "print",
         NEW i \in Waiting, NEW y \in Drawn,
         Spans[y].trace = Spans[i].trace, Spans[y].parent = Spans[i].id, Spans[i].id # << >>
  PROVE  FALSE
<1>1. traces # << >>  BY DEF TraceInv, PhaseInv
<1>2. /\ Current = {x \in filterSpans : Spans[x].trace = Spans[traces[1][1]].trace}
      /\ i \in Current /\ y \in filterSpans
  BY <1>1, CurrentProperties DEF TraceInv, WalkInv, PrintInv
<1>3. y \in Current /\ y # i  BY <1>2 DEF OnceInv
<1>4. Spans[y].id # Spans[i].id  BY <1>2, <1>3 DEF DistinctIds
<1>5. IsChild(Head(traces), y)  BY <1>2, <1>4 DEF IsChild, Current
<1>6. PICK p \in Current \cap Drawn : ChildIn(y, p)  BY <1>3, <1>5 DEF OnceInv
<1>7. p = i  BY <1>2, <1>6 DEF ChildIn, DistinctIds
<1> QED  BY <1>6, <1>7 DEF OnceInv

LEMMA TreeSpanNode ==
  ASSUME TraceInv, PrintInv, OnceInv, TreeInv, SpanNode, DistinctIds
  PROVE  /\ \A k \in DOMAIN rows' : Fits(rows', k - 1, rows'[k].span, rows'[k].depth)
         /\ Ordered(pending')
         /\ \A j \in DOMAIN pending' :
              Fits(rows', Len(rows'), pending'[j].span, pending'[j].depth)
<1> DEFINE c == Head(pending)
           d == c.depth + 1
           kids == Calls(Children(Head(traces), Spans[c.span].id), d)
           tail == Tail(pending)
           n == Len(rows)
           q == Len(kids)
<1>1. /\ phase = "print" /\ traces # << >> /\ case.mode = "pretty"
      /\ c \in Call /\ c.span \in Current /\ c.span \in Waiting
      /\ case \in CaseType /\ pending \in Seq(Call) /\ rows \in Seq(Row)
  BY SpanMoves DEF TraceInv, TypeOK, Call, PhaseInv
<1>2. /\ pending # << >> /\ pending' = kids \o tail
      /\ \E row : rows' = Append(rows, row) /\ row.span = c.span /\ row.depth = c.depth
  <2>1. pending # << >> /\ pending' = kids \o tail  BY DEF SpanNode
  <2>2. PICK flag, used, details :
          rows' = Append(rows, [span |-> c.span, depth |-> c.depth, flagged |-> flag,
                                column |-> used, details |-> details])
    BY DEF SpanNode
  <2> HIDE DEF c
  <2> QED  BY <2>1, <2>2
<1>3. PICK row : rows' = Append(rows, row) /\ row.span = c.span /\ row.depth = c.depth
  BY <1>2
<1>4. d \in Nat /\ c.depth \in Nat /\ d = c.depth + 1  BY <1>1 DEF Call
<1>5. /\ kids \in Seq(Call)
      /\ \A k \in DOMAIN kids :
           kids[k].span \in Current /\ ChildIn(kids[k].span, c.span) /\ kids[k].depth = d
      /\ \A k, m \in DOMAIN kids : k < m => Earlier(kids[k].span, kids[m].span)
  <2>1. Pushed(kids, {x \in Current : ChildIn(x, c.span)}, d)
    <3> HIDE DEF c, d
    <3> QED  BY <1>1, <1>4, PushedKids DEF TraceInv
  <2> HIDE DEF kids, d, c
  <2> QED  BY <2>1 DEF Pushed
<1>6. /\ tail \in Seq(Call) /\ Len(pending) \in Nat /\ Len(pending) >= 1
      /\ Len(tail) = Len(pending) - 1 /\ DOMAIN pending = 1..Len(pending)
      /\ c = pending[1]
      /\ \A k \in 1..Len(tail) : tail[k] = pending[k + 1]
  BY <1>1, <1>2, HeadTailProperties, EmptySeq, LenProperties
<1> HIDE DEF c, d, tail
<1>7. /\ q \in Nat /\ DOMAIN kids = 1..q /\ Len(tail) \in Nat
      /\ DOMAIN pending' = 1..(q + Len(tail))
      /\ \A j \in 1..(q + Len(tail)) :
           pending'[j] = IF j <= q THEN kids[j] ELSE pending[j - q + 1]
  <2>1. q \in Nat /\ DOMAIN kids = 1..q /\ Len(tail) \in Nat  BY <1>5, <1>6, LenProperties
  <2>2. /\ DOMAIN (kids \o tail) = 1..(q + Len(tail))
        /\ \A j \in 1..(q + Len(tail)) :
             (kids \o tail)[j] = IF j <= q THEN kids[j] ELSE tail[j - q]
    <3> HIDE DEF kids
    <3>1. kids \in Seq(Call) /\ tail \in Seq(Call)  BY <1>5, <1>6
    <3>2. /\ kids \o tail \in Seq(Call) /\ Len(kids \o tail) = Len(kids) + Len(tail)
          /\ \A j \in 1..(Len(kids) + Len(tail)) :
               (kids \o tail)[j] = IF j <= Len(kids) THEN kids[j] ELSE tail[j - Len(kids)]
      BY <3>1, ConcatProperties
    <3> QED  BY <3>2, LenProperties
  <2> HIDE DEF kids, q
  <2>3. ASSUME NEW j \in 1..(q + Len(tail)), ~(j <= q) PROVE tail[j - q] = pending[j - q + 1]
    <3>1. j - q \in 1..Len(tail)  BY <2>1, <2>3
    <3> QED  BY <1>6, <3>1
  <2> QED  BY <1>2, <2>1, <2>2, <2>3
<1> HIDE DEF kids, q
<1>8. /\ n \in Nat /\ DOMAIN rows = 1..n /\ Len(rows') = n + 1 /\ DOMAIN rows' = 1..(n + 1)
      /\ \A k \in 1..n : rows'[k] = rows[k]
      /\ rows'[n + 1] = row
  <2>1. rows \in Seq(Row \cup {row}) /\ row \in Row \cup {row}  BY <1>1, SeqMonotonic
  <2> QED  BY <1>3, <2>1, AppendProperties, LenProperties
<1>9. /\ Ordered(pending)
      /\ \A j \in 1..Len(pending) : Fits(rows, n, pending[j].span, pending[j].depth)
      /\ \A k \in 1..n : Fits(rows, k - 1, rows[k].span, rows[k].depth)
  BY <1>1, <1>6, <1>8 DEF TreeInv
<1>10. \A m \in 0..n : \A i, e : Fits(rows, m, i, e) => Fits(rows', m, i, e)
  BY <1>1, <1>3, FitsAppend
<1> HIDE DEF n
<1>11. \A k \in 1..(n + 1) : Fits(rows', k - 1, rows'[k].span, rows'[k].depth)
  <2> SUFFICES ASSUME NEW k \in 1..(n + 1)
               PROVE  Fits(rows', k - 1, rows'[k].span, rows'[k].depth)
    OBVIOUS
  <2>1. CASE k \in 1..n  BY <1>8, <1>9, <1>10, <2>1
  <2>2. CASE k = n + 1
    <3>1. Fits(rows, n, c.span, c.depth)  BY <1>6, <1>9
    <3> QED  BY <1>3, <1>8, <1>10, <2>2, <3>1
  <2> QED  BY <1>8, <2>1, <2>2
<1>12. Ordered(pending')
  <2> SUFFICES ASSUME NEW l \in 1..(q + Len(tail)), NEW j \in 1..(q + Len(tail)), l < j
               PROVE  /\ pending'[l].depth >= pending'[j].depth
                      /\ /\ pending'[l].depth = pending'[j].depth
                         /\ Siblings(pending'[l].span, pending'[j].span, pending'[j].depth)
                         => Earlier(pending'[l].span, pending'[j].span)
    BY <1>7 DEF Ordered
  <2>1. CASE j <= q
    <3>1. pending'[l] = kids[l] /\ pending'[j] = kids[j] /\ l \in 1..q /\ j \in 1..q
      BY <1>7, <2>1
    <3>2. kids[l].depth = d /\ kids[j].depth = d  BY <1>5, <1>7, <3>1
    <3>3. Earlier(kids[l].span, kids[j].span)  BY <1>5, <1>7, <3>1
    <3> QED  BY <1>4, <3>1, <3>2, <3>3
  <2>2. CASE ~(j <= q) /\ l <= q
    <3>1. /\ pending'[l] = kids[l] /\ l \in 1..q
          /\ pending'[j] = pending[j - q + 1] /\ j - q + 1 \in 1..Len(pending)
          /\ 1 < j - q + 1 /\ 1 \in 1..Len(pending)
      BY <1>6, <1>7, <2>2
    <3>2. PICK e \in 1..Len(pending) : e = j - q + 1  BY <3>1
    <3>3. pending[1].depth >= pending[e].depth  BY <1>6, <1>9, <3>1, <3>2 DEF Ordered
    <3>4. pending[e] \in Call  BY <1>1, ElementOfSeq
    <3>5. pending[e].depth \in Nat  BY <3>4 DEF Call
    <3>6. kids[l].depth = d /\ c.depth >= pending[e].depth  BY <1>5, <1>6, <1>7, <3>1, <3>3
    <3>7. pending'[l].depth = d /\ pending'[j] = pending[e]  BY <3>1, <3>2, <3>6
    <3>8. d >= pending[e].depth /\ d # pending[e].depth  BY <1>4, <3>5, <3>6
    <3> QED  BY <3>7, <3>8
  <2>3. CASE ~(l <= q)
    <3>1. /\ pending'[l] = pending[l - q + 1] /\ l - q + 1 \in 1..Len(pending)
          /\ pending'[j] = pending[j - q + 1] /\ j - q + 1 \in 1..Len(pending)
          /\ l - q + 1 < j - q + 1
      BY <1>6, <1>7, <2>3
    <3> QED  BY <1>6, <1>9, <3>1 DEF Ordered
  <2> QED  BY <2>1, <2>2, <2>3
<1>13. ASSUME NEW j \in 1..q PROVE Fits(rows', n + 1, kids[j].span, d)
  <2> DEFINE x == kids[j].span
  <2>1. x \in Current /\ ChildIn(x, c.span)  BY <1>5, <1>7
  <2>2. Spans[x].trace = Spans[c.span].trace  BY <1>1, <2>1, CurrentProperties DEF TraceInv
  <2>3. \E p \in 1..(n + 1) :
          /\ Spans[rows'[p].span].trace = Spans[x].trace /\ rows'[p].depth = d - 1
          /\ Spans[rows'[p].span].id = Spans[x].parent
          /\ \A m \in (p + 1)..(n + 1) : rows'[m].depth >= d
    <3>1. n + 1 \in 1..(n + 1) /\ \A m \in (n + 1 + 1)..(n + 1) : FALSE  BY <1>8
    <3>2. rows'[n + 1].depth = d - 1  BY <1>3, <1>4, <1>8
    <3> QED  BY <1>3, <1>8, <2>1, <2>2, <3>1, <3>2 DEF ChildIn
  <2>4. ASSUME NEW m \in 1..(n + 1), rows'[m].depth = d, Siblings(rows'[m].span, x, d)
        PROVE  FALSE
    <3>1. m # n + 1  BY <1>3, <1>4, <1>8, <2>4
    <3>2. m \in 1..n /\ rows'[m] = rows[m] /\ rows[m].span \in Drawn
      BY <1>8, <3>1 DEF Drawn, SpansOf
    <3>3. /\ Spans[rows[m].span].trace = Spans[c.span].trace
          /\ Spans[rows[m].span].parent = Spans[c.span].id /\ Spans[c.span].id # << >>
      BY <1>4, <2>1, <2>2, <2>4, <3>2 DEF Siblings, ChildIn
    <3> QED  BY <1>1, <3>2, <3>3, ChildrenLater
  <2> HIDE DEF x
  <2>5. Fits(rows', n + 1, x, d)  BY <2>3, <2>4 DEF Fits
  <2> QED  BY <2>5 DEF x
<1>14. ASSUME NEW j \in 2..Len(pending)
       PROVE  Fits(rows', n + 1, pending[j].span, pending[j].depth)
  <2> DEFINE x == pending[j].span
             e == pending[j].depth
  <2>1. /\ Fits(rows', n, x, e) /\ c.depth >= e
        /\ c.depth = e /\ Siblings(c.span, x, e) => Earlier(c.span, x)
    <3>1. 1 \in 1..Len(pending) /\ j \in 1..Len(pending) /\ 1 < j  BY <1>6
    <3>2. Fits(rows', n, x, e)  BY <1>8, <1>9, <1>10, <3>1
    <3> QED  BY <1>6, <1>9, <3>1, <3>2 DEF Ordered
  <2> HIDE DEF x, e
  <2>2. e > 0 =>
          \E p \in 1..(n + 1) :
            /\ Spans[rows'[p].span].trace = Spans[x].trace /\ rows'[p].depth = e - 1
            /\ Spans[rows'[p].span].id = Spans[x].parent
            /\ \A m \in (p + 1)..(n + 1) : rows'[m].depth >= e
    <3> SUFFICES ASSUME e > 0
                 PROVE  \E p \in 1..(n + 1) :
                          /\ Spans[rows'[p].span].trace = Spans[x].trace
                          /\ rows'[p].depth = e - 1
                          /\ Spans[rows'[p].span].id = Spans[x].parent
                          /\ \A m \in (p + 1)..(n + 1) : rows'[m].depth >= e
      OBVIOUS
    <3>1. PICK p \in 1..n :
            /\ Spans[rows'[p].span].trace = Spans[x].trace /\ rows'[p].depth = e - 1
            /\ Spans[rows'[p].span].id = Spans[x].parent
            /\ \A m \in (p + 1)..n : rows'[m].depth >= e
      BY <2>1 DEF Fits
    <3>2. p \in 1..(n + 1) /\ \A m \in (p + 1)..(n + 1) : m \in (p + 1)..n \/ m = n + 1
      BY <1>8
    <3>3. rows'[n + 1].depth >= e  BY <1>3, <1>8, <2>1
    <3>4. \A m \in (p + 1)..(n + 1) : rows'[m].depth >= e  BY <3>1, <3>2, <3>3
    <3> QED  BY <3>1, <3>2, <3>4
  <2>3. ASSUME NEW m \in 1..(n + 1), rows'[m].depth = e, Siblings(rows'[m].span, x, e)
        PROVE  Earlier(rows'[m].span, x)
    <3>1. CASE m \in 1..n  BY <2>1, <2>3, <3>1 DEF Fits
    <3>2. CASE m = n + 1  BY <1>3, <1>8, <2>1, <2>3, <3>2
    <3> QED  BY <1>8, <3>1, <3>2
  <2>4. Fits(rows', n + 1, x, e)  BY <2>2, <2>3 DEF Fits
  <2> QED  BY <2>4 DEF x, e
<1>15. \A j \in DOMAIN pending' : Fits(rows', n + 1, pending'[j].span, pending'[j].depth)
  <2> SUFFICES ASSUME NEW j \in 1..(q + Len(tail))
               PROVE  Fits(rows', n + 1, pending'[j].span, pending'[j].depth)
    BY <1>7
  <2>1. CASE j <= q
    <3>1. j \in 1..q /\ pending'[j] = kids[j] /\ kids[j].depth = d  BY <1>5, <1>7, <2>1
    <3> QED  BY <1>13, <3>1
  <2>2. CASE ~(j <= q)
    <3>1. j - q + 1 \in 2..Len(pending) /\ pending'[j] = pending[j - q + 1]
      BY <1>6, <1>7, <2>2
    <3> QED  BY <1>14, <3>1
  <2> QED  BY <2>1, <2>2
<1> QED  BY <1>8, <1>11, <1>12, <1>15

LEMMA TreeWidthKnown ==
  ASSUME TraceInv, PrintInv, WidthKnown
  PROVE  /\ Ordered(pending')
         /\ \A j \in DOMAIN pending' : Fits(rows, Len(rows), pending'[j].span, pending'[j].depth)
<1>1. phase = "width" /\ pending' = Calls(Roots(Head(traces)), 0)  BY DEF WidthKnown
<1>2. traces # << >> /\ case \in CaseType /\ rows \in Seq(Row)
  BY <1>1 DEF TraceInv, PhaseInv, TypeOK
<1> DEFINE S == {x \in ToSet(Head(traces)) : ~IsChild(Head(traces), x)}
<1>3. /\ Current = {x \in filterSpans : Spans[x].trace = Spans[traces[1][1]].trace}
      /\ S \subseteq Current /\ S \subseteq Positions
      /\ Current = ToSet(traces[1]) /\ 1 \in 1..Len(traces)
  BY <1>2, CurrentProperties DEF TraceInv, Current
<1>4. pending' = Calls(sortSpans(S), 0)  BY <1>1 DEF Roots
<1> HIDE DEF S
<1>5. /\ \A k \in DOMAIN pending' : pending'[k].span \in S /\ pending'[k].depth = 0
      /\ \A k, m \in DOMAIN pending' : k < m => Earlier(pending'[k].span, pending'[m].span)
  <2>1. Pushed(Calls(sortSpans(S), 0), S, 0)  BY <1>2, <1>3, SortedCalls
  <2>2. Pushed(pending', S, 0)  BY <1>4, <2>1
  <2> QED  BY <2>2 DEF Pushed
<1>6. Ordered(pending')  BY <1>5 DEF Ordered
<1>7. ASSUME NEW x \in Current, NEW m \in 1..Len(rows)
      PROVE  Spans[rows[m].span].trace # Spans[x].trace
  <2>1. rows[m].span \in Drawn  BY <1>2, LenProperties DEF Drawn, SpansOf
  <2>2. rows[m].span \in filterSpans /\ rows[m].span \notin Current
    BY <1>1, <1>3, <2>1 DEF PrintInv
  <2> QED  BY <1>3, <2>2
<1>8. \A x \in Current : Fits(rows, Len(rows), x, 0)  BY <1>7 DEF Fits, Siblings
<1> QED  BY <1>3, <1>5, <1>6, <1>8

LEMMA TreeStep ==
  ASSUME TraceInv, PrintInv, OnceInv, TreeInv, [Next]_vars
  PROVE  TreeInv'
<1>1. CASE SpanNode
  <2>1. case' = case /\ phase' = phase /\ phase = "print"  BY <1>1 DEF SpanNode
  <2>2. ASSUME DistinctIds
        PROVE  /\ (\A k \in DOMAIN rows : Fits(rows, k - 1, rows[k].span, rows[k].depth))'
               /\ Ordered(pending)'
               /\ (\A j \in DOMAIN pending :
                     Fits(rows, Len(rows), pending[j].span, pending[j].depth))'
    BY <1>1, <2>1, <2>2, TreeSpanNode, FitsKept
  <2> QED  BY <2>1, <2>2, FitsKept DEF TreeInv
<1>2. CASE WidthKnown
  <2>1. case' = case /\ rows' = rows  BY <1>2 DEF WidthKnown
  <2>2. /\ Ordered(pending)'
        /\ (\A j \in DOMAIN pending :
              Fits(rows, Len(rows), pending[j].span, pending[j].depth))'
    BY <1>2, <2>1, TreeWidthKnown, FitsKept
  <2> QED  BY <2>1, <2>2, FitsKept DEF TreeInv
<1>3. CASE Flat
  <2>1. case' = case /\ case.mode = "flat" /\ phase' = "finished"  BY <1>3 DEF Flat
  <2> QED  BY <2>1 DEF TreeInv
<1>4. CASE UNCHANGED vars
  <2>1. UNCHANGED <<case, phase, rows, pending>>  BY <1>4 DEF vars
  <2> QED  BY <2>1, FitsKept DEF TreeInv
<1>5. CASE Group  BY <1>5, TreeKept DEF Group
<1>6. CASE Header  BY <1>6, TreeKept DEF Header
<1>7. CASE NextWalk  BY <1>7, TreeKept DEF NextWalk
<1>8. CASE Walk  BY <1>8, TreeKept DEF Walk
<1>9. CASE StackOverflow  BY <1>9, TreeKept DEF StackOverflow
<1>10. CASE TraceDone  BY <1>10, TreeKept DEF TraceDone
<1> QED
  BY <1>1, <1>2, <1>3, <1>4, <1>5, <1>6, <1>7, <1>8, <1>9, <1>10 DEF Next, Over

\* buildTree and spanNode (render.go:189, 251): whatever order the batch has, and whether
\* parents are missing, in it or name themselves, the rows of a trace with distinct ids
\* are its trees in preorder: a row one level down stands under its parent, and siblings
\* come by start time, those that start together in arrival order.
THEOREM RowsAreTrees == Spec => []RowsFormTree
<1>1. TraceInv /\ TreeInv => RowsFormTree
  <2> SUFFICES ASSUME TraceInv, TreeInv, case.mode = "pretty", DistinctIds
               PROVE  RowsFormTree
    BY DEF RowsFormTree
  <2>1. DOMAIN rows = 1..Len(rows) /\ Len(rows) \in Nat
    BY LenProperties DEF TraceInv, TypeOK
  <2> SUFFICES ASSUME NEW k \in 1..Len(rows)
               PROVE  LET row == rows[k] IN
                      /\ row.depth > 0 =>
                           \E p \in 1..(k - 1) :
                             /\ SameTrace(p, k) /\ rows[p].depth = row.depth - 1
                             /\ Spans[rows[p].span].id = Spans[row.span].parent
                             /\ \A m \in (p + 1)..(k - 1) : rows[m].depth >= row.depth
                      /\ \A m \in 1..(k - 1) :
                           /\ SameTrace(m, k) /\ rows[m].depth = row.depth
                           /\ row.depth > 0 =>
                                Spans[rows[m].span].parent = Spans[row.span].parent
                           => \/ Spans[rows[m].span].start < Spans[row.span].start
                              \/ /\ Spans[rows[m].span].start = Spans[row.span].start
                                 /\ rows[m].span < row.span
    BY <2>1 DEF RowsFormTree
  <2>2. Fits(rows, k - 1, rows[k].span, rows[k].depth)  BY <2>1 DEF TreeInv
  <2> QED  BY <2>2 DEF Fits, Siblings, Earlier, SameTrace
<1>2. TraceInv /\ PrintInv /\ OnceInv /\ TreeInv /\ [Next]_vars => TreeInv'  BY TreeStep
<1>3. TraceInv /\ PrintInv /\ OnceInv /\ [Next]_vars => OnceInv'  BY OnceStep
<1> QED  BY <1>1, <1>2, <1>3, OnceInit, TreeInit, PrintAlways, PTL DEF Spec

-----------------------------------------------------------------------------
(* Headers announce the rows below them.                                   *)

OfTrace(t) == {i \in filterSpans : Spans[i].trace = t}

HeaderOf(tr) ==
  [trace |-> Spans[tr[1]].trace, spans |-> Len(tr), extent |-> Extent(tr),
   start |-> Started(tr), services |-> {Spans[i].service : i \in ToSet(tr)} \ {0},
   resources |-> Resources(tr)]

\* tr lists the drawn spans of a trace, of which the header tells
Tells(head, tr) ==
  /\ tr \in Seq(Positions) /\ tr # << >> /\ Len(tr) = Cardinality(ToSet(tr))
  /\ ToSet(tr) = OfTrace(head.trace) /\ head = HeaderOf(tr)

HeadersInv ==
  /\ \A k \in 1..Len(traces) : Len(traces[k]) = Cardinality(ToSet(traces[k]))
  /\ phase = "filter" => heads = << >>
  /\ \A h \in DOMAIN heads : \E tr : Tells(heads[h], tr)
  /\ \A g, h \in DOMAIN heads : g # h => heads[g].trace # heads[h].trace
  /\ \A k \in 1..Len(traces), h \in DOMAIN heads :
       k > 1 \/ phase = "head" \/ h < Len(heads) => heads[h].trace # Spans[traces[k][1]].trace
  /\ phase \in {"width", "print"} =>
       heads # << >> /\ heads[Len(heads)].trace = Spans[traces[1][1]].trace

LEMMA HeadersInit == Init => HeadersInv
BY DEF Init, HeadersInv

LEMMA TellsKept ==
  ASSUME case' = case
  PROVE  \A head, tr : Tells(head, tr)' <=> Tells(head, tr)
<1>1. /\ \A t : OfTrace(t)' = OfTrace(t)
      /\ \A tr : HeaderOf(tr)' = HeaderOf(tr)
      /\ Positions' = Positions
  BY BatchKept DEF OfTrace, HeaderOf, Extent, Started, Resources
<1> QED  BY <1>1 DEF Tells

LEMMA HeadersKept ==
  ASSUME HeadersInv, case' = case, traces' = traces, heads' = heads,
         phase' # "head", phase' # "filter",
         phase' \in {"width", "print"} => phase \in {"width", "print"}
  PROVE  HeadersInv'
BY BatchKept, TellsKept DEF HeadersInv

LEMMA HeadersStep ==
  ASSUME TraceInv, HeadersInv, [Next]_vars
  PROVE  HeadersInv'
<1> USE DEF TraceInv
<1>1. case' = case  BY DEF Next, vars, Flat, Group, Header, NextWalk, Walk, StackOverflow,
                           WidthKnown, SpanNode, TraceDone, Over
<1>2. Spans' = Spans /\ \A head, tr : Tells(head, tr)' <=> Tells(head, tr)
  BY <1>1, BatchKept, TellsKept
<1>3. CASE Group
  <2>1. phase = "filter" /\ heads' = heads /\ phase' \in {"finished", "head"}
    BY <1>3 DEF Group
  <2>2. \A k \in 1..Len(traces') :
          /\ traces'[k] # << >> /\ Len(traces'[k]) = Cardinality(ToSet(traces'[k]))
          /\ ToSet(traces'[k])
               = {i \in filterSpans : Spans[i].trace = Spans[traces'[k][1]].trace}
    BY <1>3, GroupMakes DEF Grouped
  <2>3. heads' = << >> /\ DOMAIN heads' = {}  BY <2>1 DEF HeadersInv
  <2> QED  BY <2>1, <2>2, <2>3 DEF HeadersInv
<1>4. CASE Header
  <2> DEFINE tr == Head(traces)
             n == Len(heads)
  <2>1. /\ phase = "head" /\ phase' = "width" /\ traces' = traces
        /\ heads' = Append(heads, HeaderOf(tr))
    BY <1>4 DEF Header, HeaderOf
  <2>2. traces # << >>  BY <2>1 DEF PhaseInv
  <2>3. /\ tr \in Seq(Positions) /\ tr # << >> /\ tr = traces[1] /\ 1 \in 1..Len(traces)
        /\ ToSet(tr) = {i \in filterSpans : Spans[i].trace = Spans[traces[1][1]].trace}
    BY <2>2, CurrentProperties DEF Current
  <2>4. HeaderOf(tr).trace = Spans[traces[1][1]].trace  BY <2>3 DEF HeaderOf
  <2>5. Tells(HeaderOf(tr), tr)  BY <2>3, <2>4 DEF Tells, OfTrace, HeadersInv
  <2> HIDE DEF tr
  <2>6. PICK H : heads \in Seq(H)  BY DEF TypeOK
  <2>7. /\ n \in Nat /\ DOMAIN heads = 1..n
        /\ DOMAIN heads' = 1..(n + 1) /\ Len(heads') = n + 1 /\ heads' # << >>
        /\ \A h \in 1..n : heads'[h] = heads[h]
        /\ heads'[n + 1] = HeaderOf(tr)
    <3>1. heads \in Seq(H \cup {HeaderOf(tr)}) /\ HeaderOf(tr) \in H \cup {HeaderOf(tr)}
      BY <2>6, SeqMonotonic
    <3> QED  BY <2>1, <3>1, AppendProperties, LenProperties
  <2> HIDE DEF n
  <2>8. \A h \in 1..(n + 1) : \E t : Tells(heads'[h], t)
    <3> SUFFICES ASSUME NEW h \in 1..(n + 1) PROVE \E t : Tells(heads'[h], t)  OBVIOUS
    <3>1. CASE h \in 1..n  BY <2>7, <3>1 DEF HeadersInv
    <3>2. CASE h = n + 1  BY <2>5, <2>7, <3>2
    <3> QED  BY <2>7, <3>1, <3>2
  <2>9. \A h \in 1..n, k \in 1..Len(traces) : heads[h].trace # Spans[traces[k][1]].trace
    BY <2>1, <2>7 DEF HeadersInv
  <2>10. ASSUME NEW g \in 1..(n + 1), NEW h \in 1..(n + 1), g # h
         PROVE  heads'[g].trace # heads'[h].trace
    <3>1. CASE g \in 1..n /\ h \in 1..n  BY <2>7, <2>10, <3>1 DEF HeadersInv
    <3>2. \A l \in 1..n : heads[l].trace # heads'[n + 1].trace  BY <2>3, <2>4, <2>7, <2>9
    <3>3. CASE g = n + 1 /\ h \in 1..n  BY <2>7, <3>2, <3>3
    <3>4. CASE h = n + 1 /\ g \in 1..n  BY <2>7, <3>2, <3>4
    <3> QED  BY <2>7, <2>10, <3>1, <3>3, <3>4
  <2>11. ASSUME NEW k \in 1..Len(traces), NEW h \in 1..(n + 1), k > 1 \/ h < n + 1
         PROVE  heads'[h].trace # Spans[traces[k][1]].trace
    <3>1. CASE h \in 1..n  BY <2>7, <2>9, <3>1
    <3>2. CASE h = n + 1
      <4>1. k # 1  BY <2>7, <2>11, <3>2
      <4> QED  BY <2>3, <2>4, <2>7, <3>2, <4>1 DEF GroupsInv
    <3> QED  BY <2>7, <3>1, <3>2
  <2> QED  BY <1>2, <2>1, <2>4, <2>7, <2>8, <2>10, <2>11 DEF HeadersInv
<1>5. CASE TraceDone
  <2>1. /\ phase = "print" /\ phase' \in {"finished", "head"} /\ heads' = heads
        /\ traces # << >> /\ traces \in Seq(Seq(Positions))
    BY <1>5 DEF TraceDone, PhaseInv, TypeOK
  <2>2. /\ traces' = Tail(traces) /\ Len(traces) \in Nat
        /\ Len(traces') = Len(traces) - 1
        /\ \A k \in 1..Len(traces') : k + 1 \in 1..Len(traces) /\ traces'[k] = traces[k + 1]
    BY <1>5, <2>1, HeadTailProperties, LenProperties DEF TraceDone
  <2>3. ASSUME NEW k \in 1..Len(traces'), NEW h \in DOMAIN heads
        PROVE  heads[h].trace # Spans[traces'[k][1]].trace
    <3>1. k + 1 \in 1..Len(traces) /\ traces'[k] = traces[k + 1] /\ k + 1 > 1  BY <2>2
    <3> QED  BY <3>1 DEF HeadersInv
  <2>4. \A k \in 1..Len(traces') : Len(traces'[k]) = Cardinality(ToSet(traces'[k]))
    BY <2>2 DEF HeadersInv
  <2> QED  BY <1>2, <2>1, <2>3, <2>4 DEF HeadersInv
<1>6. CASE ~(Group \/ Header \/ TraceDone)
  <2>1. CASE Flat  BY <1>1, <2>1, HeadersKept DEF Flat
  <2>2. CASE NextWalk  BY <1>1, <2>2, HeadersKept DEF NextWalk
  <2>3. CASE Walk  BY <1>1, <2>3, HeadersKept DEF Walk
  <2>4. CASE StackOverflow  BY <1>1, <2>4, HeadersKept DEF StackOverflow
  <2>5. CASE WidthKnown  BY <1>1, <2>5, HeadersKept DEF WidthKnown
  <2>6. CASE SpanNode  BY <1>1, <2>6, HeadersKept DEF SpanNode
  <2>7. CASE UNCHANGED vars  BY <1>2, <2>7 DEF vars, HeadersInv
  <2> QED  BY <1>6, <2>1, <2>2, <2>3, <2>4, <2>5, <2>6, <2>7 DEF Next, Over
<1> QED  BY <1>3, <1>4, <1>5, <1>6

PlacedInv ==
  /\ \A k \in DOMAIN rows : rows[k].details \in {NoDetails, Details(Spans[rows[k].span])}
  /\ case.mode = "pretty" => \A k \in DOMAIN rows : \E h \in DOMAIN heads : k \in RowsOf(h)
  /\ \A g, h \in DOMAIN heads : g < h => \A k \in RowsOf(g), m \in RowsOf(h) : k < m

LEMMA PlacedInit == Init => PlacedInv
BY DEF Init, PlacedInv

LEMMA Appended ==
  ASSUME NEW T, NEW list \in Seq(T), NEW e
  PROVE  /\ DOMAIN Append(list, e) = 1..(Len(list) + 1)
         /\ \A k \in 1..Len(list) : Append(list, e)[k] = list[k]
         /\ Append(list, e)[Len(list) + 1] = e
<1>1. list \in Seq(T \cup {e}) /\ e \in T \cup {e}  BY SeqMonotonic
<1> QED  BY <1>1, AppendProperties, LenProperties

LEMMA PlacedKept ==
  ASSUME PlacedInv, case' = case, heads' = heads, rows' = rows
  PROVE  PlacedInv'
<1>1. \A sp : Details(sp)' = Details(sp)  BY DEF Details
<1>2. \A h : RowsOf(h)' = RowsOf(h)  BY BatchKept DEF RowsOf
<1> QED  BY <1>1, <1>2, BatchKept DEF PlacedInv

LEMMA PlacedStep ==
  ASSUME TraceInv, PrintInv, HeadersInv, PlacedInv, [Next]_vars
  PROVE  PlacedInv'
<1> USE DEF TraceInv
<1> DEFINE n == Len(rows)
           N == Len(heads)
           After(h) == {k \in DOMAIN rows' : Spans[rows'[k].span].trace = heads'[h].trace}
<1>1. case' = case  BY DEF Next, vars, Flat, Group, Header, NextWalk, Walk, StackOverflow,
                           WidthKnown, SpanNode, TraceDone, Over
<1>2. Spans' = Spans /\ \A sp : Details(sp)' = Details(sp)
  BY <1>1, BatchKept DEF Details
<1>3. n \in Nat /\ DOMAIN rows = 1..n /\ N \in Nat /\ DOMAIN heads = 1..N
  BY LenProperties DEF TypeOK
<1>4. ASSUME /\ \A k \in DOMAIN rows' :
                  rows'[k].details \in {NoDetails, Details(Spans[rows'[k].span])}
             /\ case.mode = "pretty" =>
                  \A k \in DOMAIN rows' : \E h \in DOMAIN heads' : k \in After(h)
             /\ \A g, h \in DOMAIN heads' :
                  g < h => \A k \in After(g), m \in After(h) : k < m
      PROVE  PlacedInv'
  BY <1>1, <1>2, <1>4 DEF PlacedInv, RowsOf
<1>5. CASE Flat
  <2>1. /\ phase = "filter" /\ case.mode = "flat" /\ heads' = heads
        /\ \A k \in DOMAIN rows' : rows'[k].details = NoDetails
    BY <1>5 DEF Flat, FlatRow
  <2>2. heads' = << >> /\ DOMAIN heads' = {}  BY <2>1 DEF HeadersInv
  <2> QED  BY <1>4, <2>1, <2>2
<1>6. CASE Header
  <2> DEFINE head == HeaderOf(Head(traces))
  <2>1. /\ phase = "head" /\ rows' = rows /\ heads' = Append(heads, head)
    BY <1>6 DEF Header, HeaderOf
  <2>2. traces # << >>  BY <2>1 DEF PhaseInv
  <2>3. /\ Head(traces) = traces[1] /\ 1 \in 1..Len(traces)
        /\ ToSet(traces[1]) = {i \in filterSpans : Spans[i].trace = Spans[traces[1][1]].trace}
    BY <2>2, CurrentProperties DEF Current
  <2>4. head.trace = Spans[traces[1][1]].trace  BY <2>3 DEF HeaderOf
  <2>5. ASSUME NEW k \in 1..n PROVE Spans[rows[k].span].trace # head.trace
    <3>1. rows[k].span \in Drawn  BY <1>3 DEF Drawn, SpansOf
    <3>2. rows[k].span \in filterSpans /\ rows[k].span \notin ToSet(traces[1])
      BY <2>1, <2>3, <3>1 DEF PrintInv
    <3> QED  BY <2>3, <2>4, <3>2
  <2> HIDE DEF head
  <2>6. PICK H : heads \in Seq(H)  BY DEF TypeOK
  <2>7. /\ DOMAIN heads' = 1..(N + 1)
        /\ \A h \in 1..N : heads'[h] = heads[h]
        /\ heads'[N + 1] = head
    BY <2>1, <2>6, Appended
  <2>8. After(N + 1) = {}  BY <1>2, <1>3, <2>1, <2>5, <2>7 DEF RowsOf
  <2>9. \A h \in 1..N : After(h) = RowsOf(h)  BY <1>2, <2>1, <2>7 DEF RowsOf
  <2> HIDE DEF n, N, After
  <2>10. ASSUME NEW g \in 1..(N + 1), NEW h \in 1..(N + 1), g < h,
                NEW k \in After(g), NEW m \in After(h)
         PROVE  k < m
    <3>1. h # N + 1  BY <2>8, <2>10
    <3>2. g \in 1..N /\ h \in 1..N  BY <1>3, <2>10, <3>1
    <3> QED  BY <1>3, <2>9, <2>10, <3>2 DEF PlacedInv
  <2>11. case.mode = "pretty" =>
           \A k \in DOMAIN rows : \E h \in 1..(N + 1) : k \in After(h)
    <3>1. \A h \in 1..N : h \in 1..(N + 1)  BY <1>3
    <3> QED  BY <1>3, <2>9, <3>1 DEF PlacedInv
  <2>12. \A k \in DOMAIN rows : rows[k].details \in {NoDetails, Details(Spans[rows[k].span])}
    BY DEF PlacedInv
  <2> QED  BY <1>4, <2>1, <2>7, <2>10, <2>11, <2>12
<1>7. CASE SpanNode
  <2> DEFINE c == Head(pending)
  <2>1. /\ phase = "print" /\ traces # << >> /\ heads' = heads /\ c.span \in Current
        /\ \E row : /\ rows' = Append(rows, row) /\ row.span = c.span
                    /\ row.details = Details(Spans[c.span])
    <3>1. phase = "print" /\ traces # << >> /\ c.span \in Current  BY <1>7, SpanMoves
    <3>2. PICK flag, used :
            rows' = Append(rows, [span |-> c.span, depth |-> c.depth, flagged |-> flag,
                                  column |-> used, details |-> Details(Spans[c.span])])
      BY <1>7 DEF SpanNode
    <3>3. heads' = heads  BY <1>7 DEF SpanNode
    <3> HIDE DEF c
    <3> QED  BY <3>1, <3>2, <3>3
  <2>2. PICK row : /\ rows' = Append(rows, row) /\ row.span = c.span
                   /\ row.details = Details(Spans[c.span])
    BY <2>1
  <2> HIDE DEF c
  <2>3. /\ DOMAIN rows' = 1..(n + 1)
        /\ \A k \in 1..n : rows'[k] = rows[k]
        /\ rows'[n + 1] = row
    BY <2>2, Appended DEF TypeOK
  <2>4. N \in 1..N /\ Spans[c.span].trace = heads[N].trace
    <3>1. heads # << >> /\ heads[N].trace = Spans[traces[1][1]].trace
      BY <2>1 DEF HeadersInv
    <3>2. Spans[c.span].trace = Spans[traces[1][1]].trace
      BY <2>1, CurrentProperties
    <3>3. N # 0  BY <3>1, EmptySeq DEF TypeOK
    <3> QED  BY <1>3, <3>1, <3>2, <3>3
  <2>5. n + 1 \in After(N)
    <3>1. n + 1 \in DOMAIN rows' /\ heads'[N].trace = heads[N].trace  BY <1>3, <2>1, <2>3
    <3> QED  BY <2>2, <2>3, <2>4, <3>1
  <2>6. ASSUME NEW h \in 1..N
        PROVE  /\ RowsOf(h) \subseteq After(h)
               /\ \A k \in After(h) : k \in RowsOf(h) \/ (k = n + 1 /\ h = N)
    <3>1. \A k \in 1..n : k \in After(h) <=> k \in RowsOf(h)
      BY <1>2, <1>3, <2>1, <2>3 DEF RowsOf
    <3>2. RowsOf(h) \subseteq 1..n /\ After(h) \subseteq 1..(n + 1)
      BY <1>3, <2>3 DEF RowsOf
    <3>3. n + 1 \in After(h) => h = N
      <4>1. n + 1 \in After(h) => heads[h].trace = heads[N].trace
        BY <1>2, <2>1, <2>2, <2>3, <2>4 DEF RowsOf
      <4> QED  BY <1>3, <2>4, <4>1 DEF HeadersInv
    <3> HIDE DEF n, N, After
    <3>4. \A k \in 1..(n + 1) : k \in 1..n \/ k = n + 1  BY <1>3
    <3> QED  BY <3>1, <3>2, <3>3, <3>4
  <2>7. \A h \in 1..N : RowsOf(h) \subseteq 1..n  BY <1>3 DEF RowsOf
  <2> HIDE DEF n, N, After
  <2>8. ASSUME NEW g \in 1..N, NEW h \in 1..N, g < h, NEW k \in After(g), NEW m \in After(h)
        PROVE  k < m
    <3>1. g # N  BY <1>3, <2>8
    <3>2. k \in RowsOf(g)  BY <2>6, <2>8, <3>1
    <3>3. CASE m \in RowsOf(h)  BY <1>3, <2>8, <3>2, <3>3 DEF PlacedInv
    <3>4. CASE m = n + 1  BY <1>3, <2>7, <3>2, <3>4
    <3> QED  BY <2>6, <2>8, <3>3, <3>4
  <2>9. case.mode = "pretty" => \A k \in 1..(n + 1) : \E h \in 1..N : k \in After(h)
    <3> SUFFICES ASSUME case.mode = "pretty", NEW k \in 1..(n + 1)
                 PROVE  \E h \in 1..N : k \in After(h)
      OBVIOUS
    <3>1. CASE k \in 1..n
      <4>1. PICK h \in 1..N : k \in RowsOf(h)  BY <1>3, <3>1 DEF PlacedInv
      <4> QED  BY <2>6, <4>1
    <3>2. CASE k = n + 1  BY <2>4, <2>5, <3>2
    <3> QED  BY <1>3, <3>1, <3>2
  <2>10. ASSUME NEW k \in 1..(n + 1)
         PROVE  rows'[k].details \in {NoDetails, Details(Spans[rows'[k].span])}
    <3>1. CASE k \in 1..n  BY <1>3, <2>3, <3>1 DEF PlacedInv
    <3>2. CASE k = n + 1  BY <2>2, <2>3, <3>2
    <3> QED  BY <1>3, <3>1, <3>2
  <2> QED  BY <1>3, <1>4, <2>1, <2>3, <2>8, <2>9, <2>10
<1>8. CASE ~(Flat \/ Header \/ SpanNode)
  <2>1. heads' = heads /\ rows' = rows
    BY <1>8 DEF Next, vars, Group, NextWalk, Walk, StackOverflow, WidthKnown, TraceDone, Over
  <2> QED  BY <1>1, <2>1, PlacedKept
<1> QED  BY <1>5, <1>6, <1>7, <1>8

LEMMA HeadersAlways ==
  Spec => [](TraceInv /\ PrintInv /\ OnceInv /\ HeadersInv /\ PlacedInv)
<1>1. TraceInv /\ PrintInv /\ OnceInv /\ [Next]_vars => OnceInv'  BY OnceStep
<1>2. TraceInv /\ HeadersInv /\ [Next]_vars => HeadersInv'  BY HeadersStep
<1>3. TraceInv /\ PrintInv /\ HeadersInv /\ PlacedInv /\ [Next]_vars => PlacedInv'
  BY PlacedStep
<1> QED
  BY <1>1, <1>2, <1>3, OnceInit, HeadersInit, PlacedInit, PrintAlways, PTL DEF Spec

\* What is drawn of a span within its time is no longer than its trace.
LEMMA WithinExtent ==
  ASSUME case \in CaseType, NEW tr \in Seq(Positions), tr # << >>,
         NEW i \in ToSet(tr), Spans[i].start > 0,
         NEW t \in Nat, t >= Spans[i].start, t <= Spans[i].end
  PROVE  t - Spans[i].start <= Extent(tr)
<1>1. i \in Positions /\ Spans[i].start \in Nat /\ Spans[i].end \in Nat
  BY ToSetType, SpansType DEF SpanType
<1>2. Started(tr) \in Nat /\ Started(tr) <= Spans[i].start  BY StartedProperties
<1>3. /\ Extent(tr) \in Nat
      /\ Spans[i].end > Started(tr) => Spans[i].end - Started(tr) <= Extent(tr)
  BY ExtentProperties
<1> QED  BY <1>1, <1>2, <1>3

LEMMA HeaderTold ==
  ASSUME TraceInv, HeadersInv, NEW h \in DOMAIN heads
  PROVE  \E tr \in Seq(Positions) :
           /\ tr # << >> /\ Len(tr) = Cardinality(ToSet(tr))
           /\ ToSet(tr) = OfTrace(heads[h].trace)
           /\ heads[h].spans = Len(tr) /\ heads[h].extent = Extent(tr)
           /\ heads[h].start = Started(tr) /\ heads[h].resources = Resources(tr)
           /\ heads[h].services = {Spans[i].service : i \in ToSet(tr)} \ {0}
<1>1. PICK tr : Tells(heads[h], tr)  BY DEF HeadersInv
<1>2. /\ tr \in Seq(Positions) /\ tr # << >> /\ Len(tr) = Cardinality(ToSet(tr))
      /\ ToSet(tr) = OfTrace(heads[h].trace)
  BY <1>1 DEF Tells
<1>3. /\ heads[h].spans = Len(tr) /\ heads[h].extent = Extent(tr)
      /\ heads[h].start = Started(tr) /\ heads[h].resources = Resources(tr)
      /\ heads[h].services = {Spans[i].service : i \in ToSet(tr)} \ {0}
  <2>1. heads[h] = HeaderOf(tr)  BY <1>1 DEF Tells
  <2> QED  BY <2>1 DEF HeaderOf
<1> QED  BY <1>2, <1>3

\* The rows of the header's trace show the spans it was made from.
LEMMA RowsTold ==
  ASSUME TraceInv, PrintInv, NEW h \in DOMAIN heads
  PROVE  /\ RowsOf(h) \subseteq 1..Len(rows)
         /\ \A k \in RowsOf(h) : rows[k].span \in OfTrace(heads[h].trace)
         /\ NoneSkipped /\ phase = "finished" =>
              {rows[k].span : k \in RowsOf(h)} = OfTrace(heads[h].trace)
<1>1. DOMAIN rows = 1..Len(rows)  BY LenProperties DEF TraceInv, TypeOK
<1>2. \A k \in RowsOf(h) : rows[k].span \in OfTrace(heads[h].trace)
  BY DEF RowsOf, OfTrace, PrintInv, Drawn, SpansOf
<1>3. ASSUME NoneSkipped, phase = "finished", NEW i \in OfTrace(heads[h].trace)
      PROVE  \E k \in RowsOf(h) : rows[k].span = i
  <2>1. i \in Drawn  BY <1>3, AllDrawn DEF OfTrace
  <2> QED  BY <2>1 DEF Drawn, SpansOf, RowsOf, OfTrace
<1> QED  BY <1>1, <1>2, <1>3 DEF RowsOf

\* event (render.go:307) places an event by its distance from the span's start, and
\* traceTree (render.go:128) shows the extent of the trace: for every batch, whatever
\* start times are missing and whatever order its times have, the distance is the true
\* one and within the extent.
THEOREM OffsetsFit == Spec => []OffsetsFitExtent
<1>1. TraceInv /\ PrintInv /\ HeadersInv /\ PlacedInv => OffsetsFitExtent
  <2> SUFFICES ASSUME TraceInv, PrintInv, HeadersInv, PlacedInv,
                      NEW h \in DOMAIN heads, NEW k \in RowsOf(h),
                      NEW e \in DOMAIN rows[k].details.events,
                      Spans[rows[k].span].events[e] <= Spans[rows[k].span].end,
                      NEW d \in ToSet(rows[k].details.events[e])
               PROVE  /\ d <= heads[h].extent
                      /\ Spans[rows[k].span].start + d = Spans[rows[k].span].events[e]
    BY DEF OffsetsFitExtent
  <2> DEFINE i == rows[k].span
             sp == Spans[rows[k].span]
             t == sp.events[e]
  <2>1. case \in CaseType  BY DEF TraceInv, TypeOK
  <2>2. PICK tr \in Seq(Positions) :
          tr # << >> /\ ToSet(tr) = OfTrace(heads[h].trace) /\ heads[h].extent = Extent(tr)
    BY HeaderTold
  <2>3. i \in ToSet(tr) /\ i \in Positions  BY <2>1, <2>2, RowsTold, ToSetType
  <2>4. sp \in SpanType /\ sp.start \in Nat  BY <2>1, <2>3, SpansType DEF SpanType
  <2>5. rows[k].details = Details(sp)
    <3>1. k \in DOMAIN rows  BY DEF RowsOf
    <3>2. rows[k].details \in {NoDetails, Details(sp)}  BY <3>1 DEF PlacedInv
    <3>3. rows[k].details # NoDetails  BY DEF NoDetails
    <3> QED  BY <3>2, <3>3
  <2>6. e \in DOMAIN sp.events /\ rows[k].details.events[e] = offset(t, sp.start)
    <3> DEFINE offsets == [m \in DOMAIN sp.events |-> offset(sp.events[m], sp.start)]
    <3>1. rows[k].details.events = IF case.hideEvents THEN << >> ELSE offsets
      BY <2>5 DEF Details
    <3>2. ~case.hideEvents  BY <3>1
    <3>3. rows[k].details.events = offsets  BY <3>1, <3>2
    <3>4. e \in DOMAIN sp.events  BY <3>3
    <3> QED  BY <3>3, <3>4
  <2>7. t \in Nat
    <3>1. sp.events \in Seq(Nat)  BY <2>4 DEF SpanType
    <3>2. DOMAIN sp.events = 1..Len(sp.events)  BY <3>1, LenProperties
    <3> HIDE DEF sp
    <3> QED  BY <2>6, <3>1, <3>2, ElementOfSeq
  <2> HIDE DEF t, sp, i
  <2>8. t >= sp.start /\ sp.start # 0 /\ d = t - sp.start
    <3>1. d \in ToSet(offset(t, sp.start))  BY <2>6
    <3>2. ToSet(<< >>) = {}  BY DEF ToSet
    <3>3. t >= sp.start /\ sp.start # 0  BY <3>1, <3>2 DEF offset
    <3>4. offset(t, sp.start) = <<t - sp.start>>  BY <3>3 DEF offset
    <3>5. ToSet(<<t - sp.start>>) = {t - sp.start}  BY DEF ToSet
    <3> QED  BY <3>1, <3>3, <3>4, <3>5
  <2>9. t - sp.start <= Extent(tr)
    <3>1. t <= sp.end /\ sp.start > 0  BY <2>4, <2>8 DEF t, sp
    <3> QED  BY <2>1, <2>2, <2>3, <2>7, <2>8, <3>1, WithinExtent DEF sp, i
  <2> QED  BY <2>2, <2>4, <2>7, <2>8, <2>9 DEF t, sp
<1> QED  BY <1>1, HeadersAlways, PTL

\* --resource (traceTree, render.go:162): for every batch with distinct ids, of which no
\* cycle of parents is passed over, the resources listed under a header are resources of
\* the trace's spans, and every span's resource is listed unless another one of the same
\* service stands in its place.
THEOREM ResourcesAreListed == Spec => []ResourcesListed
<1>1. TraceInv /\ PrintInv /\ HeadersInv => ResourcesListed
  <2> SUFFICES ASSUME TraceInv, PrintInv, HeadersInv, phase = "finished", case.showResource,
                      NoneSkipped, NEW h \in DOMAIN heads
               PROVE  LET having == {i \in {rows[k].span : k \in RowsOf(h)} :
                                       Spans[i].resource # 0}
                      IN  /\ ToSet(heads[h].resources) \subseteq {Spans[i].resource : i \in having}
                          /\ \A i \in having :
                               \/ \E j \in having : /\ Spans[j].service = Spans[i].service
                                                    /\ Spans[j].resource # Spans[i].resource
                               \/ Spans[i].resource \in ToSet(heads[h].resources)
    BY DEF ResourcesListed
  <2>1. case \in CaseType  BY DEF TraceInv, TypeOK
  <2>2. PICK tr \in Seq(Positions) :
          ToSet(tr) = OfTrace(heads[h].trace) /\ heads[h].resources = Resources(tr)
    BY HeaderTold
  <2>3. {rows[k].span : k \in RowsOf(h)} = ToSet(tr)  BY <2>2, RowsTold
  <2> DEFINE having == {i \in ToSet(tr) : Spans[i].resource # 0}
             carrying == {i \in ToSet(tr) : case.showResource /\ Spans[i].resource # 0}
  <2>4. having = carrying  OBVIOUS
  <2>5. /\ \A r \in ToSet(Resources(tr)) : \E i \in carrying : Spans[i].resource = r
        /\ \A i \in carrying : \E j \in carrying :
             /\ Spans[j].service = Spans[i].service
             /\ Spans[j].resource \in ToSet(Resources(tr))
    BY <2>1, ResourcesProperties
  <2>6. ToSet(heads[h].resources) \subseteq {Spans[i].resource : i \in having}
    <3> HIDE DEF having, carrying
    <3> QED  BY <2>2, <2>4, <2>5
  <2>7. \A i \in having :
          \/ \E j \in having : /\ Spans[j].service = Spans[i].service
                               /\ Spans[j].resource # Spans[i].resource
          \/ Spans[i].resource \in ToSet(heads[h].resources)
    <3> HIDE DEF having, carrying
    <3> QED  BY <2>2, <2>4, <2>5
  <2> QED  BY <2>3, <2>6, <2>7
<1> QED  BY <1>1, HeadersAlways, PTL

LEMMA ConvexIsInterval ==
  ASSUME NEW n \in Nat, NEW K, K \subseteq 1..n, K # {},
         \A k, m \in K : \A l \in 1..n : k <= l /\ l <= m => l \in K
  PROVE  \E above \in 0..n : K = (above + 1)..(above + Cardinality(K))
<1>1. IsFiniteSet(K) /\ K \subseteq Int
  <2>1. IsFiniteSet(1..n) /\ K \in SUBSET (1..n)  BY FS_Interval
  <2>2. IsFiniteSet(K)  BY <2>1, FS_Subset
  <2>3. \A k \in K : k \in Int  OBVIOUS
  <2> QED  BY <2>2, <2>3
<1>2. PICK lo \in K : \A k \in K : lo <= k
  <2>1. Min(K) \in K /\ \A k \in K : Min(K) <= k  BY <1>1, MinIsLeast
  <2> QED  BY <2>1
<1>3. PICK hi \in K : \A k \in K : k <= hi
  <2>1. Max(K) \in K /\ \A k \in K : k <= Max(K)  BY <1>1, MaxIsGreatest
  <2> QED  BY <2>1
<1>4. lo \in 1..n /\ hi \in 1..n /\ lo <= hi  BY <1>2
<1>5. K = lo..hi
  <2>1. \A k \in K : k \in Int /\ lo <= k /\ k <= hi  BY <1>2, <1>3
  <2>2. \A l \in lo..hi : l \in 1..n /\ lo <= l /\ l <= hi  BY <1>4
  <2>3. lo..hi \subseteq K  BY <2>2
  <2>4. K \subseteq lo..hi  BY <1>4, <2>1
  <2> QED  BY <2>3, <2>4
<1>6. Cardinality(lo..hi) = hi - lo + 1
  <2>1. lo \in Int /\ hi \in Int  BY <1>4
  <2>2. Cardinality(lo..hi) = IF lo > hi THEN 0 ELSE hi - lo + 1  BY <2>1, FS_Interval
  <2> QED  BY <1>4, <2>2
<1>7. lo - 1 \in 0..n /\ lo = (lo - 1) + 1 /\ hi = (lo - 1) + Cardinality(K)
  BY <1>4, <1>5, <1>6
<1> QED  BY <1>5, <1>7

\* The rows of a trace lie together.
LEMMA RowsTogether ==
  ASSUME TraceInv, PlacedInv, case.mode = "pretty", NEW h \in DOMAIN heads
  PROVE  \A k, m \in RowsOf(h) : \A l \in 1..Len(rows) : k <= l /\ l <= m => l \in RowsOf(h)
<1>1. /\ DOMAIN rows = 1..Len(rows) /\ Len(rows) \in Nat
      /\ DOMAIN heads = 1..Len(heads) /\ Len(heads) \in Nat
  BY LenProperties DEF TraceInv, TypeOK
<1> SUFFICES ASSUME NEW k \in RowsOf(h), NEW m \in RowsOf(h), NEW l \in 1..Len(rows),
                    k <= l, l <= m
             PROVE  l \in RowsOf(h)
  OBVIOUS
<1>2. PICK g \in DOMAIN heads : l \in RowsOf(g)  BY <1>1 DEF PlacedInv
<1>3. k \in 1..Len(rows) /\ m \in 1..Len(rows)  BY <1>1 DEF RowsOf
<1>4. ~(g < h)
  <2>1. g < h => l < k  BY <1>2 DEF PlacedInv
  <2> QED  BY <1>1, <1>3, <2>1
<1>5. ~(h < g)
  <2>1. h < g => m < l  BY <1>2 DEF PlacedInv
  <2> QED  BY <1>1, <1>3, <2>1
<1>6. g = h  BY <1>1, <1>2, <1>4, <1>5
<1> QED  BY <1>2, <1>6

\* traceTree (render.go:128): for every batch with distinct ids, of which no cycle of
\* parents is passed over, each header is followed by exactly the rows it counts, all of the trace it names and below those of the headers
\* before it; its services are theirs, its start is that of the row that starts first and
\* its extent lasts to the end of the row that ends last, start times that are missing left
\* out.
THEOREM HeadersDescribe == Spec => []HeaderDescribesRows
<1>1. TraceInv /\ PrintInv /\ OnceInv /\ HeadersInv /\ PlacedInv => HeaderDescribesRows
  <2> SUFFICES ASSUME TraceInv, PrintInv, OnceInv, HeadersInv, PlacedInv,
                      phase = "finished", case.mode = "pretty", DistinctIds,
                      NoneSkipped, NEW h \in DOMAIN heads
               PROVE  LET shown == {Spans[rows[k].span] : k \in RowsOf(h)} IN
                      /\ heads[h].spans > 0
                      /\ \E above \in 0..Len(rows) :
                           RowsOf(h) = (above + 1)..(above + heads[h].spans)
                      /\ heads[h].services = {sp.service : sp \in shown} \ {0}
                      /\ heads[h].start \in {sp.start : sp \in shown}
                      /\ \A sp \in shown :
                           sp.start > 0 => 0 < heads[h].start /\ heads[h].start <= sp.start
                      /\ \A sp \in shown :
                           sp.end > heads[h].start => sp.end - heads[h].start <= heads[h].extent
                      /\ heads[h].extent > 0 =>
                           \E sp \in shown : sp.end = heads[h].start + heads[h].extent
    BY DEF HeaderDescribesRows, PlacedInv
  <2>1. case \in CaseType /\ Len(rows) \in Nat  BY LenProperties DEF TraceInv, TypeOK
  <2>2. PICK tr \in Seq(Positions) :
          /\ tr # << >> /\ Len(tr) = Cardinality(ToSet(tr))
          /\ ToSet(tr) = OfTrace(heads[h].trace)
          /\ heads[h].spans = Len(tr) /\ heads[h].extent = Extent(tr)
          /\ heads[h].start = Started(tr)
          /\ heads[h].services = {Spans[i].service : i \in ToSet(tr)} \ {0}
    BY HeaderTold
  <2> DEFINE G == ToSet(tr)
             K == RowsOf(h)
             f == [k \in K |-> rows[k].span]
  <2>3. K \subseteq 1..Len(rows) /\ {rows[k].span : k \in K} = G  BY <2>2, RowsTold
  <2>4. Len(tr) > 0
    <3>1. Len(tr) \in Nat /\ Len(tr) # 0  BY <2>2, EmptySeq, LenProperties
    <3> QED  BY <3>1
  <2>5. Cardinality(K) = Cardinality(G)
    <3>1. \A k, m \in K : f[k] = f[m] => k = m  BY DEF OnceInv, Distinct, RowsOf
    <3>2. f \in [K -> G] /\ \A i \in G : \E k \in K : f[k] = i  BY <2>3
    <3>3. f \in Bijection(K, G)
      <4> HIDE DEF f, K, G
      <4> QED  BY <3>1, <3>2 DEF Bijection, Injection, IsInjective, Surjection
    <3>4. IsFiniteSet(K)
      <4>1. IsFiniteSet(1..Len(rows))  BY <2>1, FS_Interval
      <4> QED  BY <2>3, <4>1, FS_Subset
    <3>5. ExistsBijection(K, G)  BY <3>3 DEF ExistsBijection
    <3> QED  BY <3>4, <3>5, FS_Bijection
  <2>6. \E above \in 0..Len(rows) : K = (above + 1)..(above + heads[h].spans)
    <3>1. G # {}  BY <2>1, <2>2, ToSetType
    <3>2. K # {}  BY <2>3, <3>1
    <3>3. \A k, m \in K : \A l \in 1..Len(rows) : k <= l /\ l <= m => l \in K  BY RowsTogether
    <3> HIDE DEF K, G
    <3>4. \E above \in 0..Len(rows) : K = (above + 1)..(above + Cardinality(K))
      BY <2>1, <2>3, <3>2, <3>3, ConvexIsInterval
    <3> QED  BY <2>2, <2>5, <3>4 DEF G
  <2>7. {Spans[rows[k].span] : k \in K} = {Spans[i] : i \in G}
    <3> HIDE DEF K, G
    <3> QED  BY <2>3
  <2>8. heads[h].services = {sp.service : sp \in {Spans[i] : i \in G}} \ {0}
    <3> HIDE DEF K
    <3> QED  BY <2>2
  <2>9. /\ \E i \in G : heads[h].start = Spans[i].start
        /\ \A i \in G :
             Spans[i].start > 0 => 0 < heads[h].start /\ heads[h].start <= Spans[i].start
    BY <2>1, <2>2, StartedProperties
  <2>10. /\ \A i \in G :
              Spans[i].end > heads[h].start => Spans[i].end - heads[h].start <= heads[h].extent
         /\ heads[h].extent > 0 =>
              \E i \in G : Spans[i].end = heads[h].start + heads[h].extent
    BY <2>1, <2>2, ExtentProperties
  <2> HIDE DEF K, G
  <2> DEFINE shown == {Spans[i] : i \in G}
  <2>11. heads[h].start \in {sp.start : sp \in shown}  BY <2>9
  <2>12. \A sp \in shown : sp.start > 0 => 0 < heads[h].start /\ heads[h].start <= sp.start
    BY <2>9
  <2>13. /\ \A sp \in shown :
              sp.end > heads[h].start => sp.end - heads[h].start <= heads[h].extent
         /\ heads[h].extent > 0 => \E sp \in shown : sp.end = heads[h].start + heads[h].extent
    BY <2>10
  <2> HIDE DEF shown
  <2> QED  BY <2>2, <2>4, <2>6, <2>7, <2>8, <2>11, <2>12, <2>13 DEF K, shown
<1> QED  BY <1>1, HeadersAlways, PTL

-----------------------------------------------------------------------------
(* The walk ends with the depth each row is drawn at.                      *)

\* no two spans of a trace share a key of the depth map
KeysApart == DistinctIds /\ KeysTellIds

Tree == \A C \in SUBSET Current : ~Descends(C)

\* The call was made by walking down from s, over spans that are no longer in W.
Below(call, s, W) ==
  \E A \in SUBSET (Current \ W) :
    /\ \/ call.span = s /\ call.depth = 0 /\ A = {}
       \/ s \in A /\ \E a \in A : ChildIn(call.span, a)
    /\ \A a \in A : \E x \in A \cup {call.span} : ChildIn(x, a)
    /\ \A a \in A : a = s \/ \E q \in A : ChildIn(a, q)

\* With the calls of p still to make, dm is right for the spans walked so far, save
\* that a span may wait to be walked again, one below its parent.
Walked(p, dm) ==
  /\ Distinct(p)
  /\ \E s \in Current : \A j \in DOMAIN p : Below(p[j], s, SpansOf(p))
  /\ \A i, x \in Current : Key(i) \in DOMAIN dm /\ ChildIn(x, i) =>
       \/ \E j \in DOMAIN p : p[j].span = x /\ p[j].depth = dm[Key(i)] + 1
       \/ x \notin SpansOf(p) /\ Key(x) \in DOMAIN dm /\ dm[Key(x)] = dm[Key(i)] + 1
  /\ \A x \in Current : ~(\E i \in Current : ChildIn(x, i)) /\ Key(x) \in DOMAIN dm =>
       dm[Key(x)] = 0

\* The calls or rows of list have the depths of the walk.
Deep(list, dm) ==
  \A k \in DOMAIN list : list[k].span \in Current => list[k].depth = dm[Key(list[k].span)]

\* The durations of the rows of this trace stand in column w or behind a name too long.
Wide(list, w) ==
  \A k \in DOMAIN list :
    list[k].span \in Current /\ Spans[list[k].span].name # << >> =>
      list[k].column = w \/ list[k].column > MaxColumn

Aligned(list) ==
  \A k, m \in DOMAIN list :
    /\ Spans[list[k].span].trace = Spans[list[m].span].trace
    /\ list[k].column <= MaxColumn
    /\ Spans[list[k].span].name # << >> /\ Spans[list[m].span].name # << >>
    => list[m].column = list[k].column \/ list[m].column > MaxColumn

\* What nameColumnWidth leaves behind: depths for the rows and a width for them.
Measured(dm, w) ==
  /\ \A i, x \in Current : ChildIn(x, i) => dm[Key(x)] = dm[Key(i)] + 1
  /\ \A i \in Current : Len(Spans[i].name) + 3 * dm[Key(i)] <= w \/ w = MaxColumn

LineInv ==
  /\ KeysApart => Aligned(rows)
  /\ phase = "width" /\ KeysApart /\ Tree => Walked(pending, depth)
  /\ phase = "print" /\ KeysApart =>
       /\ Measured(depth, width)
       /\ Deep(pending, depth) /\ Deep(rows, depth) /\ Wide(rows, width)

LEMMA LineInit == Init => LineInv
BY DEF Init, LineInv, Aligned

LEMMA WalkedKept ==
  ASSUME case' = case, Current' = Current
  PROVE  /\ Tree' <=> Tree
         /\ \A p, dm : Walked(p, dm)' <=> Walked(p, dm)
         /\ \A list : Aligned(list)' <=> Aligned(list)
         /\ \A list, dm : Deep(list, dm)' <=> Deep(list, dm)
         /\ \A list, w : Wide(list, w)' <=> Wide(list, w)
         /\ \A dm, w : Measured(dm, w)' <=> Measured(dm, w)
<1>1. /\ \A x, i : ChildIn(x, i)' <=> ChildIn(x, i)
      /\ \A C : Descends(C)' <=> Descends(C)
  BY BatchKept DEF ChildIn, Descends
<1>2. Spans' = Spans /\ \A i : Key(i)' = Key(i)  BY BatchKept
<1>3. \A call, s, W : Below(call, s, W)' <=> Below(call, s, W)  BY <1>2 DEF Below, ChildIn
<1>4. \A p, dm : Walked(p, dm)' <=> Walked(p, dm)  BY <1>1, <1>2, <1>3 DEF Walked
<1>5. Tree' <=> Tree  BY <1>1 DEF Tree
<1>6. /\ \A list : Aligned(list)' <=> Aligned(list)
      /\ \A list, dm : Deep(list, dm)' <=> Deep(list, dm)
      /\ \A list, w : Wide(list, w)' <=> Wide(list, w)
      /\ \A dm, w : Measured(dm, w)' <=> Measured(dm, w)
  BY <1>1, <1>2 DEF Aligned, Deep, Wide, Measured
<1> QED  BY <1>4, <1>5, <1>6

LEMMA OnlyParent ==
  ASSUME TraceInv, KeysApart, traces # << >>
  PROVE  /\ \A x, i, k \in Current : ChildIn(x, i) /\ ChildIn(x, k) => i = k
         /\ \A i, k \in Current : Key(i) = Key(k) => i = k
         /\ \A x, i : ChildIn(x, i) => x # i
<1>1. /\ Current \subseteq filterSpans
      /\ \A i, k \in Current : Spans[i].trace = Spans[k].trace
  BY CurrentProperties DEF TraceInv
<1>2. \A i, k \in Current : i # k => Spans[i].id # Spans[k].id
  BY <1>1 DEF KeysApart, DistinctIds
<1>3. \A i, k \in Current : Key(i) = Key(k) => Spans[i].id = Spans[k].id
  BY <1>1 DEF KeysApart, KeysTellIds
<1> QED  BY <1>2, <1>3 DEF ChildIn

LEMMA NotAbove ==
  ASSUME Tree, NEW i \in Current, NEW A \in SUBSET Current,
         \A a \in A : \E x \in A \cup {i} : ChildIn(x, a),
         NEW k \in A, ChildIn(k, i)
  PROVE  FALSE
<1>1. Descends(A \cup {i})  BY DEF Descends
<1> QED  BY <1>1 DEF Tree

LEMMA WalkedStep ==
  ASSUME TraceInv, KeysApart, Tree, Walk, Walked(pending, depth)
  PROVE  Walked(pending', depth')
<1> DEFINE c == Head(pending)
           i == c.span
           kids == Calls(Children(Head(traces), Spans[i].id), c.depth + 1)
           tail == Tail(pending)
           K == {x \in Current : ChildIn(x, i)}
           W == SpansOf(pending)
           rest == SpansOf(tail)
           V == SpansOf(pending')
<1>1. /\ traces # << >> /\ c \in Call /\ i \in Current /\ W = {i} \cup rest /\ V = K \cup rest
      /\ DOMAIN depth' = DOMAIN depth \cup {Key(i)}
  BY WalkMoves DEF Waiting
<1>2. /\ pending # << >> /\ pending' = kids \o tail
      /\ depth' = [key \in DOMAIN depth \cup {Key(i)} |->
                     IF key = Key(i) THEN c.depth ELSE depth[key]]
  BY DEF Walk
<1>3. pending \in Seq(Call) /\ c.depth \in Nat /\ c.depth + 1 \in Nat
  <2>1. pending \in Seq(Call)  BY DEF TraceInv, TypeOK, Call
  <2> HIDE DEF c
  <2> QED  BY <1>1, <2>1 DEF Call
<1>4. Pushed(kids, K, c.depth + 1) /\ Distinct(kids) /\ SpansOf(kids) = K
  <2>1. TypeOK /\ GroupsInv /\ traces # << >> /\ i \in Current /\ c.depth + 1 \in Nat
    BY <1>1, <1>3 DEF TraceInv
  <2> HIDE DEF c, i
  <2> QED  BY <2>1, PushedKids
<1>5. /\ tail \in Seq(Call) /\ Distinct(tail) /\ i \notin rest /\ c = pending[1]
      /\ \A e \in ToSet(pending) : e = c \/ e \in ToSet(tail)
      /\ \A e \in ToSet(tail) : e \in ToSet(pending)
  <2>1. Distinct(pending)  BY DEF Walked
  <2>2. Distinct(tail) /\ i \notin rest  BY <1>2, <1>3, <2>1, DistinctTail
  <2>3. tail \in Seq(Call) /\ c = pending[1]  BY <1>2, <1>3, HeadTailProperties
  <2>4. ToSet(pending) = {c} \cup ToSet(tail)  BY <1>2, <1>3, ToSetTail
  <2> HIDE DEF c, i, tail, rest
  <2> QED  BY <2>2, <2>3, <2>4
<1>6. /\ \A x, j, k \in Current : ChildIn(x, j) /\ ChildIn(x, k) => j = k
      /\ \A j, k \in Current : Key(j) = Key(k) => j = k
      /\ \A x, j : ChildIn(x, j) => x # j
  BY <1>1, OnlyParent
<1>7. PICK s \in Current : \A e \in ToSet(pending) : Below(e, s, W)
  BY DEF Walked, ToSet
<1> HIDE DEF c, i, kids, tail, K, W, rest, V
<1>8. c \in ToSet(pending) /\ \A e \in ToSet(pending) : e.span \in W
  BY <1>2, <1>3, ToSetTail DEF c, W, SpansOf, ToSet
<1>9. PICK A \in SUBSET (Current \ W) :
        /\ \/ i = s /\ c.depth = 0 /\ A = {}
           \/ s \in A /\ \E a \in A : ChildIn(i, a)
        /\ \A a \in A : \E x \in A \cup {i} : ChildIn(x, a)
        /\ \A a \in A : a = s \/ \E q \in A : ChildIn(a, q)
  BY <1>7, <1>8 DEF Below, i
<1>10. K \cap A = {} /\ s \notin K /\ i \notin K
  <2>1. ASSUME NEW k \in A, ChildIn(k, i) PROVE FALSE  BY <1>1, <1>9, <2>1, NotAbove
  <2> QED  BY <1>6, <1>9, <2>1 DEF K
<1>11. K \cap W = {}
  <2> SUFFICES ASSUME NEW e \in ToSet(pending), e.span \in K PROVE FALSE
    BY DEF W, SpansOf, ToSet
  <2>1. e.span # s /\ Below(e, s, W)  BY <1>7, <1>10
  <2>2. PICK a \in Current \ W : ChildIn(e.span, a)  BY <2>1 DEF Below
  <2>3. a = i  BY <1>1, <1>6, <2>2 DEF K
  <2> QED  BY <1>1, <2>2, <2>3
<1>12. A \cup {i} \in SUBSET (Current \ V)  BY <1>1, <1>5, <1>9, <1>10
<1>13. \A call : call.span \in K => Below(call, s, V)
  <2> SUFFICES ASSUME NEW call, call.span \in K PROVE Below(call, s, V)  OBVIOUS
  <2> DEFINE B == A \cup {i}
  <2>1. s \in B /\ ChildIn(call.span, i)  BY <1>9 DEF K
  <2>2. \A a \in B : \E x \in B \cup {call.span} : ChildIn(x, a)  BY <1>9, <2>1
  <2>3. \A a \in B : a = s \/ \E q \in B : ChildIn(a, q)  BY <1>9
  <2>4. i \in B  OBVIOUS
  <2> HIDE DEF B
  <2>5. B \in SUBSET (Current \ V)  BY <1>12 DEF B
  <2> QED  BY <2>1, <2>2, <2>3, <2>4, <2>5 DEF Below
<1>14. \A e \in ToSet(tail) : Below(e, s, V)
  <2> SUFFICES ASSUME NEW e \in ToSet(tail) PROVE Below(e, s, V)  OBVIOUS
  <2>1. PICK B \in SUBSET (Current \ W) :
          /\ \/ e.span = s /\ e.depth = 0 /\ B = {}
             \/ s \in B /\ \E a \in B : ChildIn(e.span, a)
          /\ \A a \in B : \E x \in B \cup {e.span} : ChildIn(x, a)
          /\ \A a \in B : a = s \/ \E q \in B : ChildIn(a, q)
    BY <1>5, <1>7 DEF Below
  <2>2. ASSUME NEW x \in B, x \in K PROVE FALSE
    <3>1. PICK q \in B : ChildIn(x, q)  BY <1>10, <2>1, <2>2
    <3>2. q = i  BY <1>1, <1>6, <2>1, <2>2, <3>1 DEF K
    <3> QED  BY <1>1, <2>1, <3>1, <3>2
  <2>3. B \in SUBSET (Current \ V)  BY <1>1, <2>1, <2>2
  <2> QED  BY <2>1, <2>3 DEF Below
<1>15. ToSet(pending') = ToSet(kids) \cup ToSet(tail) /\ Distinct(pending')
  <2>1. kids \in Seq(Call)  BY <1>4 DEF Pushed
  <2>2. SpansOf(kids) \cap SpansOf(tail) = {}  BY <1>1, <1>4, <1>11 DEF rest
  <2> QED  BY <1>2, <1>4, <1>5, <2>1, <2>2, ToSetConcat, DistinctConcat
<1>16. \A e \in ToSet(kids) : e.span \in K /\ e.depth = c.depth + 1
  BY <1>4 DEF Pushed, ToSet
<1>17. \A j \in DOMAIN pending' : Below(pending'[j], s, V)
  BY <1>13, <1>14, <1>15, <1>16 DEF ToSet
<1>18. ASSUME NEW k \in Current, NEW x \in Current, Key(k) \in DOMAIN depth', ChildIn(x, k)
       PROVE  \/ \E e \in ToSet(pending') : e.span = x /\ e.depth = depth'[Key(k)] + 1
              \/ x \notin V /\ Key(x) \in DOMAIN depth' /\ depth'[Key(x)] = depth'[Key(k)] + 1
  <2>1. CASE k = i
    <3>1. x \in K /\ depth'[Key(k)] = c.depth  BY <1>2, <1>18, <2>1 DEF K
    <3>2. PICK e \in ToSet(kids) : e.span = x  BY <1>4, <3>1 DEF SpansOf, ToSet
    <3> QED  BY <1>15, <1>16, <3>1, <3>2
  <2>2. CASE k # i
    <3>1. /\ Key(k) # Key(i) /\ Key(k) \in DOMAIN depth /\ depth'[Key(k)] = depth[Key(k)]
          /\ x \notin K
      BY <1>1, <1>2, <1>6, <1>18, <2>2 DEF K
    <3>2. \/ \E e \in ToSet(pending) : e.span = x /\ e.depth = depth[Key(k)] + 1
          \/ x \notin W /\ Key(x) \in DOMAIN depth /\ depth[Key(x)] = depth[Key(k)] + 1
      BY <1>18, <3>1 DEF Walked, ToSet, W
    <3>3. CASE x = i
      <4>1. \A e \in ToSet(tail) : e.span # i  BY <1>5 DEF rest, SpansOf, ToSet
      <4>2. c.depth = depth[Key(k)] + 1  BY <1>1, <1>5, <3>2, <3>3, <4>1
      <4>3. x \notin V  BY <1>1, <1>5, <3>1, <3>3
      <4> QED  BY <1>2, <3>1, <3>3, <4>2, <4>3
    <3>4. CASE x # i
      <4>1. Key(x) # Key(i)  BY <1>1, <1>6, <3>4
      <4>2. CASE x \in W
        <5>1. PICK e \in ToSet(pending) : e.span = x /\ e.depth = depth[Key(k)] + 1
          BY <3>2, <4>2
        <5>2. e # c  BY <3>4, <5>1 DEF i
        <5> QED  BY <1>5, <1>15, <3>1, <5>1, <5>2
      <4>3. CASE x \notin W
        <5>1. Key(x) \in DOMAIN depth /\ depth[Key(x)] = depth[Key(k)] + 1
          BY <1>8, <3>2, <4>3
        <5>2. x \notin V  BY <1>1, <3>1, <4>3
        <5> QED  BY <1>2, <3>1, <4>1, <5>1, <5>2
      <4> QED  BY <4>2, <4>3
    <3> QED  BY <3>3, <3>4
  <2> QED  BY <2>1, <2>2
<1>19. ASSUME NEW x \in Current, ~(\E k \in Current : ChildIn(x, k)), Key(x) \in DOMAIN depth'
       PROVE  depth'[Key(x)] = 0
  <2>1. CASE x = i
    <3>1. c.depth = 0  BY <1>9, <1>19, <2>1
    <3> QED  BY <1>2, <2>1, <3>1
  <2>2. CASE x # i
    <3>1. Key(x) # Key(i) /\ Key(x) \in DOMAIN depth  BY <1>1, <1>2, <1>6, <1>19, <2>2
    <3>2. depth[Key(x)] = 0  BY <1>19, <3>1 DEF Walked
    <3> QED  BY <1>2, <3>1, <3>2
  <2> QED  BY <2>1, <2>2
<1>20. \A k, x \in Current : Key(k) \in DOMAIN depth' /\ ChildIn(x, k) =>
         \/ \E j \in DOMAIN pending' :
              pending'[j].span = x /\ pending'[j].depth = depth'[Key(k)] + 1
         \/ x \notin V /\ Key(x) \in DOMAIN depth' /\ depth'[Key(x)] = depth'[Key(k)] + 1
  BY <1>18 DEF ToSet
<1> QED  BY <1>15, <1>17, <1>19, <1>20 DEF Walked, V

\* When every span has its depth no circle is left.
LEMMA AllKnown ==
  ASSUME TraceInv, CycleInv, KeysApart, phase = "width", pending = << >>, loop = << >>
  PROVE  Tree /\ \A i \in Current : Key(i) \in DOMAIN depth
<1>1. ToSet(loop) = {} /\ Waiting = {}  BY DEF ToSet, Waiting, SpansOf
<1>2. \A i \in Current : Key(i) \in DOMAIN depth  BY <1>1 DEF TraceInv, WalkInv
<1> QED  BY <1>1, <1>2 DEF CycleInv, Tree, Descends, KeysApart, NoneSkipped

LEMMA LineNextWalk ==
  ASSUME TraceInv, NextWalk, Walked(pending, depth)
  PROVE  Walked(pending', depth')
<1>1. /\ phase = "width" /\ pending = << >> /\ depth' = depth
      /\ pending' = IF Key(Head(loop)) \in DOMAIN depth THEN << >>
                    ELSE Calls(<<Head(loop)>>, 0)
      /\ loop # << >>
  BY DEF NextWalk
<1>2. Head(loop) \in Current
  <2>1. loop \in Seq(Positions) /\ ToSet(loop) \subseteq Current
    BY <1>1 DEF TraceInv, TypeOK, WalkInv
  <2> QED  BY <1>1, <2>1, ToSetTail
<1> DEFINE s == Head(loop)
<1>3. Current \subseteq Positions
  BY <1>1, CurrentProperties DEF TraceInv, PhaseInv
<1>4. CASE Key(s) \in DOMAIN depth  BY <1>1, <1>4
<1>5. CASE Key(s) \notin DOMAIN depth
  <2>1. /\ DOMAIN pending' = {1} /\ pending'[1] = [span |-> s, depth |-> 0]
        /\ SpansOf(pending') = {s}
    <3>1. PICK one : one = <<s>>  OBVIOUS
    <3>2. one \in Seq(Positions) /\ Len(one) = 1 /\ one[1] = s /\ ToSet(one) = {s}
      BY <1>2, <1>3, <3>1 DEF ToSet
    <3>3. /\ pending' = Calls(one, 0) /\ pending' \in Seq(Call)
          /\ Len(pending') = Len(one) /\ SpansOf(pending') = ToSet(one)
          /\ \A k \in 1..Len(one) : pending'[k] = [span |-> one[k], depth |-> 0]
      <4>1. pending' = Calls(one, 0)  BY <1>1, <1>5, <3>1
      <4> HIDE DEF s
      <4> QED  BY <3>2, <4>1, CallsProperties
    <3>4. DOMAIN pending' = 1..1  BY <3>2, <3>3, LenProperties
    <3> QED  BY <3>2, <3>3, <3>4
  <2>2. DOMAIN pending = {} /\ SpansOf(pending) = {}  BY <1>1 DEF SpansOf
  <2> HIDE DEF s
  <2>3. Below(pending'[1], s, {s})
    <3>1. PICK call : call = [span |-> s, depth |-> 0]  OBVIOUS
    <3>2. Below(call, s, {s})
      <4> USE DEF Below
      <4> WITNESS {} \in SUBSET (Current \ {s})
      <4> QED  BY <3>1
    <3> QED  BY <2>1, <3>1, <3>2
  <2>4. \A i, x \in Current : Key(i) \in DOMAIN depth /\ ChildIn(x, i) =>
          x # s /\ Key(x) \in DOMAIN depth /\ depth[Key(x)] = depth[Key(i)] + 1
    BY <1>5, <2>2 DEF Walked
  <2>5. Distinct(pending')  BY <2>1 DEF Distinct
  <2>6. \E r \in Current : \A j \in DOMAIN pending' : Below(pending'[j], r, SpansOf(pending'))
    BY <1>2, <2>1, <2>3 DEF s
  <2> QED  BY <1>1, <2>1, <2>4, <2>5, <2>6 DEF Walked
<1> QED  BY <1>4, <1>5

LEMMA LineWidthKnown ==
  ASSUME TraceInv, CycleInv, PrintInv, LineInv, KeysApart, WidthKnown
  PROVE  /\ Measured(depth, width')
         /\ Deep(pending', depth) /\ Deep(rows, depth) /\ Wide(rows, width')
<1>1. /\ phase = "width" /\ pending = << >> /\ loop = << >>
      /\ pending' = Calls(Roots(Head(traces)), 0)
  BY DEF WidthKnown
<1>2. traces # << >>  BY <1>1 DEF TraceInv, PhaseInv
<1>3. Tree /\ \A i \in Current : Key(i) \in DOMAIN depth  BY <1>1, AllKnown
<1>4. Walked(pending, depth)  BY <1>1, <1>3 DEF LineInv
<1>5. DOMAIN pending = {} /\ SpansOf(pending) = {}  BY <1>1 DEF SpansOf
<1>6. \A i, x \in Current : ChildIn(x, i) => depth[Key(x)] = depth[Key(i)] + 1
  BY <1>3, <1>4, <1>5 DEF Walked
<1>7. \A x \in Current : ~(\E i \in Current : ChildIn(x, i)) => depth[Key(x)] = 0
  BY <1>3, <1>4 DEF Walked
<1>8. \A i \in Current : Len(Spans[i].name) + 3 * depth[Key(i)] <= width' \/ width' = MaxColumn
  <2> DEFINE f == [i \in Current |-> Len(Spans[i].name) + 3 * depth[Key(i)]]
             ws == {0} \cup {f[i] : i \in Current}
  <2>1. width' = IF Max(ws) > MaxColumn THEN MaxColumn ELSE Max(ws)
    <3>1. {f[i] : i \in Current} = {Len(Spans[i].name) + 3 * depth[Key(i)] : i \in Current}  OBVIOUS
    <3> QED  BY <3>1 DEF WidthKnown, Current
  <2>2. \A i \in Current : f[i] \in Nat
    <3>1. \A i \in Current : depth[Key(i)] \in Nat /\ Len(Spans[i].name) \in Nat
      BY <1>2, <1>3, CurrentProperties, SpansType, LenProperties DEF TraceInv, TypeOK, SpanType
    <3> QED  BY <3>1
  <2>3. IsFiniteSet(ws)
    <3>1. IsFiniteSet(Current)  BY <1>2, CurrentProperties DEF TraceInv
    <3> HIDE DEF f
    <3>2. IsFiniteSet({f[i] : i \in Current})  BY <3>1, ImageFinite
    <3> QED  BY <3>2, FS_Singleton, FS_Union
  <2>4. ws \subseteq Int /\ ws # {}
    <3> HIDE DEF f
    <3> QED  BY <2>2
  <2>5. Max(ws) \in ws /\ \A v \in ws : v <= Max(ws)
    <3> HIDE DEF ws
    <3> QED  BY <2>3, <2>4, MaxIsGreatest
  <2>6. \A i \in Current : f[i] <= Max(ws)
    <3> HIDE DEF f
    <3> QED  BY <2>5
  <2>7. \A i \in Current : f[i] = Len(Spans[i].name) + 3 * depth[Key(i)]  OBVIOUS
  <2> HIDE DEF f, ws
  <2> QED  BY <2>1, <2>6, <2>7
<1>9. Measured(depth, width')  BY <1>6, <1>8 DEF Measured
<1>10. Deep(pending', depth)
  <2> DEFINE S == {x \in ToSet(Head(traces)) : ~IsChild(Head(traces), x)}
  <2>1. S \subseteq Positions /\ S \subseteq Current /\ case \in CaseType
    BY <1>2, CurrentProperties DEF Current, TraceInv, TypeOK
  <2>2. \A x \in S : ~(\E i \in Current : ChildIn(x, i))  BY DEF IsChild, ChildIn, Current
  <2>3. pending' = Calls(sortSpans(S), 0)  BY <1>1 DEF Roots
  <2> HIDE DEF S
  <2>4. Pushed(pending', S, 0)  BY <2>1, <2>3, SortedCalls
  <2> QED  BY <1>7, <2>1, <2>2, <2>4 DEF Pushed, Deep
<1>11. \A k \in DOMAIN rows : rows[k].span \notin Current
  <2>1. Current = ToSet(traces[1]) /\ 1 \in 1..Len(traces)
    BY <1>2, CurrentProperties DEF Current, TraceInv
  <2>2. ToSet(traces[1]) \cap Drawn = {}  BY <1>1, <2>1 DEF PrintInv
  <2> QED  BY <2>1, <2>2 DEF Drawn, SpansOf
<1> QED  BY <1>9, <1>10, <1>11 DEF Deep, Wide

LEMMA LineSpanNode ==
  ASSUME TraceInv, PrintInv, LineInv, KeysApart, SpanNode
  PROVE  /\ Deep(pending', depth) /\ Deep(rows', depth) /\ Wide(rows', width)
         /\ Aligned(rows')
<1> DEFINE c == Head(pending)
           i == c.span
           kids == Calls(Children(Head(traces), Spans[i].id), c.depth + 1)
           tail == Tail(pending)
           n == Len(rows)
<1>1. /\ phase = "print" /\ traces # << >> /\ c \in Call /\ i \in Current
      /\ pending \in Seq(Call) /\ rows \in Seq(Row) /\ case \in CaseType
  BY SpanMoves DEF TraceInv, TypeOK, Call
<1>2. pending # << >> /\ pending' = kids \o tail  BY DEF SpanNode
<1>3. \E row : /\ rows' = Append(rows, row) /\ row.span = i /\ row.depth = c.depth
               /\ Spans[i].name # << >> =>
                    LET used == 3 * c.depth + Len(Spans[i].name)
                    IN  row.column = IF used > width THEN used ELSE width
  <2>1. PICK flag, used, details :
          /\ used = 3 * c.depth + IF Spans[i].name = << >> THEN Placeholder
                                ELSE Len(Spans[i].name)
          /\ rows' = Append(rows, [span |-> i, depth |-> c.depth, flagged |-> flag,
                                   column |-> IF used > width THEN used ELSE width,
                                   details |-> details])
    BY DEF SpanNode
  <2>2. Spans[i].name # << >> => used = 3 * c.depth + Len(Spans[i].name)  BY <2>1
  <2> HIDE DEF c, i
  <2> QED  BY <2>1, <2>2
<1>4. PICK row : /\ rows' = Append(rows, row) /\ row.span = i /\ row.depth = c.depth
                 /\ Spans[i].name # << >> =>
                      LET used == 3 * c.depth + Len(Spans[i].name)
                      IN  row.column = IF used > width THEN used ELSE width
  BY <1>3
<1>5. c.depth \in Nat /\ c.depth + 1 \in Nat  BY <1>1 DEF Call
<1>6. Pushed(kids, {x \in Current : ChildIn(x, i)}, c.depth + 1)
  <2> HIDE DEF c
  <2> QED  BY <1>1, <1>5, PushedKids DEF TraceInv
<1>7. /\ tail \in Seq(Call) /\ \A e \in ToSet(tail) : e \in ToSet(pending)
      /\ c \in ToSet(pending)
  BY <1>1, <1>2, HeadTailProperties, ToSetTail
<1> HIDE DEF c, i, kids, tail, n
<1>8. /\ Measured(depth, width) /\ Deep(rows, depth) /\ Wide(rows, width) /\ Aligned(rows)
      /\ \A e \in ToSet(pending) : e.span \in Current => e.depth = depth[Key(e.span)]
  BY <1>1 DEF LineInv, Deep, ToSet
<1>9. c.depth = depth[Key(i)]  BY <1>1, <1>7, <1>8 DEF i
<1>10. Deep(pending', depth)
  <2>1. ToSet(pending') = ToSet(kids) \cup ToSet(tail)
    BY <1>2, <1>6, <1>7, ToSetConcat DEF Pushed
  <2>2. \A e \in ToSet(kids) : e.depth = depth[Key(e.span)]
    BY <1>1, <1>6, <1>8, <1>9 DEF Pushed, Measured, ToSet
  <2>3. \A e \in ToSet(pending') : e.span \in Current => e.depth = depth[Key(e.span)]
    BY <1>7, <1>8, <2>1, <2>2
  <2> QED  BY <2>3 DEF Deep, ToSet
<1>11. /\ n \in Nat /\ DOMAIN rows = 1..n /\ DOMAIN rows' = 1..(n + 1)
       /\ \A k \in 1..n : rows'[k] = rows[k]
       /\ rows'[n + 1] = row
  BY <1>1, <1>4, Appended, LenProperties DEF n
<1>12. Spans[i].name # << >> => row.column = width \/ row.column > MaxColumn
  <2>1. /\ Len(Spans[i].name) \in Nat /\ MaxColumn \in Nat /\ width \in 0..MaxColumn
        /\ depth[Key(i)] \in Nat
    BY <1>1, <1>5, <1>9, CurrentProperties, SpansType, LenProperties,
       LimitsAssumption
    DEF TraceInv, TypeOK, SpanType
  <2>2. Len(Spans[i].name) + 3 * depth[Key(i)] <= width \/ width = MaxColumn
    BY <1>1, <1>8 DEF Measured
  <2> QED  BY <1>4, <1>9, <2>1, <2>2
<1>13. Deep(rows', depth)
  <2> SUFFICES ASSUME NEW k \in 1..(n + 1), rows'[k].span \in Current
               PROVE  rows'[k].depth = depth[Key(rows'[k].span)]
    BY <1>11 DEF Deep
  <2>1. CASE k \in 1..n  BY <1>8, <1>11, <2>1 DEF Deep
  <2>2. CASE k = n + 1  BY <1>4, <1>9, <1>11, <2>2
  <2> QED  BY <1>11, <2>1, <2>2
<1>14. Wide(rows', width)
  <2> SUFFICES ASSUME NEW k \in 1..(n + 1), rows'[k].span \in Current,
                      Spans[rows'[k].span].name # << >>
               PROVE  rows'[k].column = width \/ rows'[k].column > MaxColumn
    BY <1>11 DEF Wide
  <2>1. CASE k \in 1..n  BY <1>8, <1>11, <2>1 DEF Wide
  <2>2. CASE k = n + 1  BY <1>4, <1>11, <1>12, <2>2
  <2> QED  BY <1>11, <2>1, <2>2
<1>15. Aligned(rows')
  <2> SUFFICES ASSUME NEW k \in 1..(n + 1), NEW m \in 1..(n + 1),
                      Spans[rows'[k].span].trace = Spans[rows'[m].span].trace,
                      rows'[k].column <= MaxColumn,
                      Spans[rows'[k].span].name # << >>, Spans[rows'[m].span].name # << >>
               PROVE  rows'[m].column = rows'[k].column \/ rows'[m].column > MaxColumn
    BY <1>11 DEF Aligned
  <2>1. CASE k \in 1..n /\ m \in 1..n  BY <1>8, <1>11, <2>1 DEF Aligned
  <2>2. ASSUME NEW l \in 1..(n + 1), Spans[rows'[l].span].trace = Spans[i].trace
        PROVE  rows'[l].span \in Current
    <3>1. Current = {x \in filterSpans : Spans[x].trace = Spans[traces[1][1]].trace}
      BY <1>1, CurrentProperties DEF TraceInv
    <3>2. CASE l \in 1..n
      <4>1. rows[l].span \in filterSpans  BY <1>11, <3>2 DEF PrintInv, Drawn, SpansOf
      <4> QED  BY <1>1, <1>11, <2>2, <3>1, <3>2, <4>1
    <3>3. CASE l = n + 1  BY <1>1, <1>4, <1>11, <3>3
    <3> QED  BY <1>11, <3>2, <3>3
  <2>3. CASE k = n + 1 \/ m = n + 1
    <3>1. rows'[k].span \in Current /\ rows'[m].span \in Current
      BY <1>4, <1>11, <2>2, <2>3
    <3>2. /\ rows'[k].column = width \/ rows'[k].column > MaxColumn
          /\ rows'[m].column = width \/ rows'[m].column > MaxColumn
      BY <1>11, <1>14, <3>1 DEF Wide
    <3>3. rows'[k].column \in Int /\ MaxColumn \in Int
      <4>1. width \in Int /\ MaxColumn \in Int  BY LimitsAssumption DEF TraceInv, TypeOK
      <4>2. CASE k \in 1..n
        <5>1. rows[k] \in Row  BY <1>1, <4>2, ElementOfSeq DEF n
        <5> QED  BY <1>11, <4>1, <4>2, <5>1 DEF Row
      <4>3. CASE k = n + 1
        <5>1. Spans[i].name # << >> /\ Len(Spans[i].name) \in Int
          <6>1. i \in Positions  BY <1>1, CurrentProperties DEF TraceInv
          <6>2. Len(Spans[i].name) \in Nat  BY <1>1, <6>1, SpansType, LenProperties DEF SpanType
          <6>3. rows'[k].span = i  BY <1>4, <1>11, <4>3
          <6> QED  BY <6>2, <6>3
        <5>2. rows'[k] = row /\ c.depth \in Nat  BY <1>1, <1>11, <4>3 DEF Call
        <5>3. row.column \in Int  BY <1>4, <4>1, <5>1, <5>2
        <5> QED  BY <4>1, <5>2, <5>3
      <4> QED  BY <1>11, <4>2, <4>3
    <3> QED  BY <3>2, <3>3
  <2> QED  BY <1>11, <2>1, <2>3
<1> QED  BY <1>10, <1>13, <1>14, <1>15

LEMMA LineKept ==
  ASSUME LineInv, case' = case, rows' = rows, phase' \notin {"width", "print"}
  PROVE  LineInv'
<1>1. \A list : Aligned(list)' <=> Aligned(list)  BY BatchKept DEF Aligned
<1> QED  BY <1>1, FitsKept, SkippedKept DEF LineInv, KeysApart

LEMMA LineStep ==
  ASSUME TraceInv, CycleInv, PrintInv, LineInv, [Next]_vars
  PROVE  LineInv'
<1>1. case' = case  BY DEF Next, vars, Flat, Group, Header, NextWalk, Walk, StackOverflow,
                           WidthKnown, SpanNode, TraceDone, Over
<1>2. (KeysApart' <=> KeysApart) /\ \A list : Aligned(list)' <=> Aligned(list)
  <2>1. \A list : Aligned(list)' <=> Aligned(list)  BY <1>1, BatchKept DEF Aligned
  <2> QED  BY <1>1, <2>1, FitsKept, SkippedKept DEF KeysApart
<1>3. ASSUME traces' = traces
      PROVE  /\ Tree' <=> Tree
             /\ \A p, dm : Walked(p, dm)' <=> Walked(p, dm)
             /\ \A list, dm : Deep(list, dm)' <=> Deep(list, dm)
             /\ \A list, w : Wide(list, w)' <=> Wide(list, w)
             /\ \A dm, w : Measured(dm, w)' <=> Measured(dm, w)
  BY <1>1, <1>3, WalkedKept DEF Current
<1>4. CASE Flat
  <2>1. phase' = "finished" /\ \A k \in DOMAIN rows' : rows'[k].column = 0
    BY <1>4 DEF Flat, FlatRow
  <2>2. Aligned(rows')  BY <2>1 DEF Aligned
  <2> QED  BY <1>2, <2>1, <2>2 DEF LineInv
<1>5. CASE Header
  <2>1. /\ phase = "head" /\ phase' = "width" /\ depth' = << >> /\ pending' = pending
        /\ traces' = traces /\ rows' = rows
    BY <1>5 DEF Header
  <2>2. pending' = << >> /\ traces # << >>  BY <2>1 DEF TraceInv, PhaseInv
  <2>3. PICK s : s \in Current
    BY <2>2, CurrentProperties, ToSetType DEF Current, TraceInv, TypeOK
  <2>4. DOMAIN pending' = {} /\ DOMAIN depth' = {}  BY <2>1, <2>2
  <2>5. Walked(pending', depth')  BY <2>3, <2>4 DEF Walked, Distinct
  <2> QED  BY <1>2, <1>3, <2>1, <2>5 DEF LineInv
<1>6. CASE NextWalk
  <2>1. phase = "width" /\ phase' = phase /\ traces' = traces /\ rows' = rows
    BY <1>6 DEF NextWalk
  <2>2. KeysApart /\ Tree => Walked(pending', depth')
    BY <1>6, <2>1, LineNextWalk DEF LineInv
  <2> QED  BY <1>2, <1>3, <2>1, <2>2 DEF LineInv
<1>7. CASE Walk
  <2>1. phase = "width" /\ phase' = phase /\ traces' = traces /\ rows' = rows
    BY <1>7 DEF Walk
  <2>2. KeysApart /\ Tree => Walked(pending', depth')
    BY <1>7, <2>1, WalkedStep DEF LineInv
  <2> QED  BY <1>2, <1>3, <2>1, <2>2 DEF LineInv
<1>8. CASE WidthKnown
  <2>1. phase' = "print" /\ traces' = traces /\ rows' = rows /\ depth' = depth
    BY <1>8 DEF WidthKnown
  <2>2. KeysApart =>
          /\ Measured(depth', width')
          /\ Deep(pending', depth') /\ Deep(rows', depth') /\ Wide(rows', width')
    BY <1>8, <2>1, LineWidthKnown
  <2> QED  BY <1>2, <1>3, <2>1, <2>2 DEF LineInv
<1>9. CASE SpanNode
  <2>1. /\ phase = "print" /\ phase' = phase /\ traces' = traces
        /\ depth' = depth /\ width' = width
    BY <1>9 DEF SpanNode
  <2>2. KeysApart =>
          /\ Measured(depth', width')
          /\ Deep(pending', depth') /\ Deep(rows', depth') /\ Wide(rows', width')
          /\ Aligned(rows')
    BY <1>9, <2>1, LineSpanNode DEF LineInv
  <2> QED  BY <1>2, <1>3, <2>1, <2>2 DEF LineInv
<1>10. CASE UNCHANGED vars
  <2>1. UNCHANGED <<case, phase, traces, depth, pending, width, rows>>  BY <1>10 DEF vars
  <2> QED  BY <1>2, <1>3, <2>1 DEF LineInv
<1>11. CASE Group  BY <1>11, LineKept DEF Group
<1>12. CASE StackOverflow  BY <1>12, LineKept DEF StackOverflow
<1>13. CASE TraceDone  BY <1>13, LineKept DEF TraceDone
<1> QED
  BY <1>4, <1>5, <1>6, <1>7, <1>8, <1>9, <1>10, <1>11, <1>12, <1>13 DEF Next, Over

\* nameColumnWidth (render.go:221) measures with depths that its own walk gives the spans
\* in arrival order, keyed by id and name run together (render.go:225), spanNode draws at
\* depths it counts: for every batch with distinct ids in which no two spans share a key,
\* as where ids have one length (EqualIdsTell), they agree in the end, so the durations of
\* the named spans of a trace stand in one column, save behind names that reach beyond the
\* widest column.
THEOREM DurationsAreAligned == Spec => []DurationsLineUp
<1>1. LineInv => DurationsLineUp
  BY DEF LineInv, Aligned, DurationsLineUp, SameTrace, KeysApart
<1>2. TraceInv /\ CycleInv /\ PrintInv /\ LineInv /\ [Next]_vars => LineInv'  BY LineStep
<1> QED  BY <1>1, <1>2, LineInit, PrintAlways, PTL DEF Spec
=============================================================================
