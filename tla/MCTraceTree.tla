----------------------------- MODULE MCTraceTree -----------------------------
(* Small instances of TraceTree for TLC.                                   *)
EXTENDS TraceTree

All(spans) == [spans |-> spans, mode |-> "pretty", service |-> 0, minDuration |-> 0,
               hideAttrs |-> FALSE, hideEvents |-> FALSE, showResource |-> FALSE]

\* n times the same letter
Word(n) == SubSeq(<<1, 1, 1, 1>>, 1, n)

\* an id of one character of its own, 0 the empty one
Id(n) == IF n = 0 THEN << >> ELSE <<10 + n>>

Span == [trace |-> 1, id |-> Id(1), parent |-> << >>, name |-> Word(1), service |-> 1,
         start |-> 1, end |-> 2, resource |-> 0, attrs |-> 1, events |-> << >>, links |-> 1]

NameOf == <<Word(2), Word(4), Word(1), Word(3)>>

\* One trace of up to four spans with ids of their own, and every choice of
\* parents (none, one of them, itself, one that is absent) and of start times.
Trees(n, starts) ==
  {All([i \in 1..n |-> [Span EXCEPT !.id = Id(i), !.name = NameOf[i],
                                    !.parent = Id(p[i]), !.start = t[i], !.end = 4]]) :
     p \in [1..n -> 0..n \cup {9}], t \in [1..n -> starts]}

\* Repeated and empty ids, an unnamed span also where ids differ.
Degenerate ==
  {All([i \in 1..3 |-> [Span EXCEPT !.id = Id(x[i]), !.parent = Id(p[i]), !.name = Word(i - 1)]]) :
     x \in [1..3 -> 0..3], p \in [1..3 -> 0..2]}

\* Ids of one, two and three letters and names of the same letter: spans whose id and
\* name are as long together share a key.
Joined ==
  {All([i \in 1..3 |-> [Span EXCEPT !.id = Word(i), !.name = Word(n[i]), !.parent = Word(p[i])]]) :
     n \in [1..3 -> 1..3], p \in [1..3 -> 0..3]}

\* The last two spans are each other's parent, and each has the key of one of the
\* first two, whose ids and names are its own cut elsewhere: nobody walks the cycle.
SkippedCycle ==
  [All(<<[Span EXCEPT !.id = <<1>>, !.name = <<1, 2>>],
         [Span EXCEPT !.id = <<2>>, !.name = <<2, 1>>],
         [Span EXCEPT !.id = <<1, 1>>, !.name = <<2>>, !.parent = <<2, 2>>, !.resource = 1],
         [Span EXCEPT !.id = <<2, 2>>, !.name = <<1>>, !.parent = <<1, 1>>]>>)
     EXCEPT !.showResource = TRUE]

\* Two traces and two services: set and missing times, filters; events before, in and
\* after their span, resources with and without a service, two with the same one.
Times == {<<1, 2>>, <<2, 5>>, <<0, 4>>}

ResourceOf(sv, i) ==
  CASE sv[i] = 0 -> IF i = 1 THEN 7 ELSE 0
    [] sv = <<1, 1, 2>> -> i
    [] OTHER -> sv[i]

Filtered ==
  {[spans |-> [i \in 1..3 |-> [Span EXCEPT !.id = Id(i), !.trace = tr[i], !.service = sv[i],
                                 !.parent = IF i = 3 THEN Id(1) ELSE << >>,
                                 !.start = tm[i][1], !.end = tm[i][2],
                                 !.events = <<0, 1, 4, 7>>, !.resource = ResourceOf(sv, i)]],
    mode |-> m, service |-> s, minDuration |-> d,
    hideAttrs |-> d = 3, hideEvents |-> s = 1, showResource |-> s = 0] :
     tr \in {<<1, 1, 1>>, <<1, 1, 2>>, <<1, 2, 1>>, <<1, 2, 2>>},
     sv \in {<<1, 1, 1>>, <<1, 1, 2>>, <<1, 2, 1>>, <<2, 1, 1>>, <<0, 0, 1>>},
     tm \in [1..3 -> Times], m \in {"pretty", "flat"}, s \in 0..1, d \in {0, 3}}

Batches == Filtered \cup (Degenerate \cup (Joined \cup (Trees(4, {1}) \cup
             (Trees(3, {1, 2}) \cup {SkippedCycle, All(<< >>)}))))

\* two spans that name each other as parent
MutualParents == {All(<<[Span EXCEPT !.parent = Id(2)], [Span EXCEPT !.id = Id(2), !.parent = Id(1)]>>)}

\* the parent is in the batch, and --service hides it
HiddenParent ==
  {[All(<<Span, [Span EXCEPT !.id = Id(2), !.parent = Id(1), !.service = 2]>>)
      EXCEPT !.service = 2]}
=============================================================================
