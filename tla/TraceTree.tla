------------------------------- MODULE TraceTree -------------------------------
(***************************************************************************)
(* Renderer.Traces (internal/render/render.go): one export batch is        *)
(* filtered, grouped by trace id, and every trace is drawn as a header and *)
(* a tree of rows.  The two recursive walks, nameColumnWidth and spanNode, *)
(* are machines with an explicit list of pending calls, so that the order  *)
(* of their side effects, their depth and their end are states to check.   *)
(*                                                                         *)
(* Spans are named by their position in the batch (the *otlp.Span).  Span   *)
(* ids, parent ids and names are sequences of characters, numbered, of any  *)
(* length: the depth map's keys run an id and a name together.  A trace id  *)
(* or a service is a number, 0 the empty string; a resource is a number     *)
(* that tells its attributes apart, 0 without any; attributes and links are *)
(* counted, an event is its time.  Colours, punctuation and padding are     *)
(* left out.                                                                *)
(***************************************************************************)
EXTENDS Integers, SequencesExt

CONSTANTS
  Cases,        \* the batches and options to render: a set of CaseType
  MaxColumn,    \* the widest name column (60)
  Placeholder,  \* the runes of "(unnamed span)"
  StackLimit    \* calls the Go stack holds before the runtime aborts

SpanType == [trace : Nat, id : Seq(Nat), parent : Seq(Nat), name : Seq(Nat), service : Nat,
             start : Nat, end : Nat, resource : Nat, attrs : Nat, events : Seq(Nat),
             links : Nat]

CaseType == [spans : Seq(SpanType), mode : {"pretty", "flat"},
             service : Nat, minDuration : Nat, hideAttrs : BOOLEAN, hideEvents : BOOLEAN,
             showResource : BOOLEAN]

ASSUME CasesAssumption == Cases \subseteq CaseType
ASSUME LimitsAssumption == /\ MaxColumn \in Nat
                           /\ Placeholder \in Nat
                           /\ StackLimit \in Nat

VARIABLES
  case,     \* the batch and the options, never changed
  phase,    \* where Traces is
  traces,   \* the traces still to draw, the current one first
  loop,     \* spans nameColumnWidth's outer loop has not come to
  depth,    \* nameColumnWidth's depth map: span id followed by name to depth
  pending,  \* calls of walk or spanNode still to make, the next one first
  width,    \* the width of the name column
  heads,    \* headers printed: trace id, number of spans, extent, start, services
            \* and the resources listed below
  rows      \* span rows printed, in order

vars == <<case, phase, traces, loop, depth, pending, width, heads, rows>>

Spans == case.spans
Positions == DOMAIN case.spans
Key(i) == Spans[i].id \o Spans[i].name

Detail == [attrs : Nat, events : Seq(Seq(Nat)), links : Nat]
Row == [span : Nat, depth : Nat, flagged : BOOLEAN, column : Nat, details : Detail]

TypeOK ==
  /\ case \in CaseType
  /\ phase \in {"filter", "head", "width", "print", "finished", "overflow"}
  /\ traces \in Seq(Seq(Positions))
  /\ loop \in Seq(Positions)
  /\ DOMAIN depth \subseteq Seq(Nat) /\ \A k \in DOMAIN depth : depth[k] \in Nat
  /\ pending \in Seq([span : Positions, depth : Nat])
  /\ width \in 0..MaxColumn
  /\ heads \in Seq([trace : Nat, spans : Nat, extent : Nat, start : Nat,
                    services : SUBSET Nat, resources : Seq(Nat \ {0})])
  /\ rows \in Seq(Row)

Init ==
  /\ case \in Cases
  /\ phase = "filter"
  /\ traces = << >> /\ loop = << >> /\ pending = << >>
  /\ depth = << >> /\ width = 0
  /\ heads = << >> /\ rows = << >>

-----------------------------------------------------------------------------
(* The pure parts.                                                         *)

DurationNano(s) == IF s.end <= s.start THEN 0 ELSE s.end - s.start

\* The domain of before, which gives for each member those ahead of it, as a sequence.
Listed(before) ==
  [k \in 1..Cardinality(DOMAIN before) |->
     CHOOSE i \in DOMAIN before : Cardinality(before[i]) = k - 1]

\* a set of positions stands for the slice of those spans in arrival order
InOrder(S) == Listed([i \in S |-> {j \in S : j < i}])

\* the service filter comes first; the duration gate keeps or drops whole traces
OfService == {i \in Positions : case.service \in {0, Spans[i].service}}

\* mutant: the duration gate is applied span by span
filterSpans_BySpan ==
  {i \in OfService : DurationNano(Spans[i]) >= case.minDuration}

filterSpans ==
  {i \in OfService :
     \/ case.minDuration = 0
     \/ \E j \in OfService : /\ Spans[j].trace = Spans[i].trace
                             /\ DurationNano(Spans[j]) >= case.minDuration}

\* one sequence per trace id, in the order the ids first appear
groupTraces(spans) ==
  LET first == InOrder({i \in spans :
                 \A j \in spans : j < i => Spans[j].trace # Spans[i].trace})
  IN  [k \in DOMAIN first |->
         InOrder({i \in spans : Spans[i].trace = Spans[first[k]].trace})]

\* stable: equal start times keep arrival order
sortSpans(spans) ==
  Listed([i \in spans |-> {j \in spans : \/ Spans[j].start < Spans[i].start
                                         \/ Spans[j].start = Spans[i].start /\ j < i}])

\* mutants: a missing parent is looked for nowhere; a span may be its own child
IsChild_Orphan(tr, i) == Spans[i].parent \notin {<< >>, Spans[i].id}
IsChild_Self(tr, i) ==
  Spans[i].parent # << >> /\ \E j \in ToSet(tr) : Spans[j].id = Spans[i].parent

IsChild(tr, i) ==
  /\ Spans[i].parent # << >>
  /\ Spans[i].parent # Spans[i].id
  /\ \E j \in ToSet(tr) : Spans[j].id = Spans[i].parent

Roots(tr) == sortSpans({i \in ToSet(tr) : ~IsChild(tr, i)})

Children(tr, id) ==
  sortSpans({i \in ToSet(tr) : IsChild(tr, i) /\ Spans[i].parent = id})

Calls(spans, d) == [k \in DOMAIN spans |-> [span |-> spans[k], depth |-> d]]

\* mutant: the trace is taken to start with its first span
Extent_First(tr) ==
  LET end == Max({Spans[i].end : i \in ToSet(tr)})
  IN  IF end > Spans[tr[1]].start THEN end - Spans[tr[1]].start ELSE 0

\* the earliest start that is set
Started(tr) ==
  LET starts == {Spans[i].start : i \in ToSet(tr)} \ {0}
  IN  IF starts = {} THEN 0 ELSE Min(starts)

\* the extent the header shows: earliest set start to latest end
Extent(tr) ==
  LET end == Max({Spans[i].end : i \in ToSet(tr)})
  IN  IF end > Started(tr) THEN end - Started(tr) ELSE 0

\* mutant: a resource without attributes replaces one that has some
Resources_Erased(tr) ==
  LET services == InOrder({Spans[i].service : i \in ToSet(tr)})
      last(svc) == Max({i \in ToSet(tr) : Spans[i].service = svc})
  IN  SelectSeq([k \in DOMAIN services |-> Spans[last(services[k])].resource],
                LAMBDA r : case.showResource /\ r # 0)

\* --resource: of every service the resource of its last span that has any
Resources(tr) ==
  LET carrying  == {i \in ToSet(tr) : case.showResource /\ Spans[i].resource # 0}
      services  == InOrder({Spans[i].service : i \in carrying})
      last(svc) == Max({i \in carrying : Spans[i].service = svc})
  IN  [k \in DOMAIN services |-> Spans[last(services[k])].resource]

\* mutant: a span without a start time is taken to start at 0
offset_Epoch(time, spanStart) == IF time >= spanStart THEN <<time - spanStart>> ELSE << >>

offset(time, spanStart) ==
  IF time >= spanStart /\ spanStart # 0 THEN <<time - spanStart>> ELSE << >>

NoDetails == [attrs |-> 0, events |-> << >>, links |-> 0]

Details(sp) ==
  [attrs  |-> IF case.hideAttrs THEN 0 ELSE sp.attrs,
   events |-> IF case.hideEvents THEN << >>
              ELSE [k \in DOMAIN sp.events |-> offset(sp.events[k], sp.start)],
   links  |-> sp.links]

-----------------------------------------------------------------------------
(* Traces: filter and group, then one trace after the other.               *)

FlatRow(i) ==
  [span |-> i, depth |-> 0, flagged |-> FALSE, column |-> 0, details |-> NoDetails]

\* compact and JSON modes print the kept spans in arrival order
Flat ==
  /\ phase = "filter" /\ case.mode = "flat"
  /\ phase' = "finished"
  /\ LET spans == InOrder(filterSpans)
     IN  rows' = [k \in DOMAIN spans |-> FlatRow(spans[k])]
  /\ UNCHANGED <<case, traces, loop, depth, pending, width, heads>>

Group ==
  /\ phase = "filter" /\ case.mode = "pretty"
  /\ traces' = groupTraces(filterSpans)
  /\ phase' = IF filterSpans = {} THEN "finished" ELSE "head"
  /\ UNCHANGED <<case, loop, depth, pending, width, heads, rows>>

\* traceTree: header and resources are on the screen before the tree is built
Header ==
  /\ phase = "head"
  /\ LET tr == Head(traces)
     IN  /\ heads' = Append(heads, [trace |-> Spans[tr[1]].trace, spans |-> Len(tr),
                                    extent |-> Extent(tr), start |-> Started(tr),
                                    services |-> {Spans[i].service : i \in ToSet(tr)} \ {0},
                                    resources |-> Resources(tr)])
         /\ loop' = tr
  /\ depth' = << >>
  /\ phase' = "width"
  /\ UNCHANGED <<case, traces, pending, width, rows>>


\* nameColumnWidth's outer loop: walk from every span not met before
NextWalk ==
  /\ phase = "width" /\ pending = << >> /\ loop # << >>
  /\ loop' = Tail(loop)
  /\ pending' = IF Key(Head(loop)) \in DOMAIN depth THEN << >>
                ELSE Calls(<<Head(loop)>>, 0)
  /\ UNCHANGED <<case, phase, traces, depth, width, heads, rows>>

\* mutant: the first depth met is kept
Walk_FirstDepth ==
  /\ phase = "width" /\ pending # << >>
  /\ LET c == Head(pending)
     IN  /\ c.depth < StackLimit
         /\ depth' = depth @@ (Key(c.span) :> c.depth)
         /\ pending' = Calls(Children(Head(traces), Spans[c.span].id), c.depth + 1)
                       \o Tail(pending)
  /\ UNCHANGED <<case, phase, traces, loop, width, heads, rows>>

\* one call of walk: the depth is overwritten, then the children are walked
Walk ==
  /\ phase = "width" /\ pending # << >>
  /\ LET c == Head(pending)
     IN  /\ c.depth < StackLimit
         /\ depth' = [key \in DOMAIN depth \cup {Key(c.span)} |->
                        IF key = Key(c.span) THEN c.depth ELSE depth[key]]
         /\ pending' = Calls(Children(Head(traces), Spans[c.span].id), c.depth + 1)
                       \o Tail(pending)
  /\ UNCHANGED <<case, phase, traces, loop, width, heads, rows>>

\* walk has no guard against a cycle of parents: the stack runs out
StackOverflow ==
  /\ phase = "width" /\ pending # << >>
  /\ Head(pending).depth >= StackLimit
  /\ phase' = "overflow"
  /\ UNCHANGED <<case, traces, loop, depth, pending, width, heads, rows>>

\* mutant: the column is not capped
WidthKnown_Uncapped ==
  /\ phase = "width" /\ pending = << >> /\ loop = << >>
  /\ LET tr == Head(traces)
     IN  /\ width' = Max({0} \cup {Len(Spans[i].name) + 3 * depth[Key(i)] : i \in ToSet(tr)})
         /\ pending' = Calls(Roots(tr), 0)
  /\ phase' = "print"
  /\ UNCHANGED <<case, traces, loop, depth, heads, rows>>

WidthKnown ==
  /\ phase = "width" /\ pending = << >> /\ loop = << >>
  /\ LET tr == Head(traces)
         w  == Max({0} \cup {Len(Spans[i].name) + 3 * depth[Key(i)] : i \in ToSet(tr)})
     IN  /\ width' = IF w > MaxColumn THEN MaxColumn ELSE w
         /\ pending' = Calls(Roots(tr), 0)
  /\ phase' = "print"
  /\ UNCHANGED <<case, traces, loop, depth, heads, rows>>

\* mutant: the children wait until their parent's siblings are drawn
SpanNode_BreadthFirst ==
  /\ phase = "print" /\ pending # << >>
  /\ LET c    == Head(pending)
         sp   == Spans[c.span]
         used == 3 * c.depth + IF sp.name = << >> THEN Placeholder ELSE Len(sp.name)
     IN  /\ rows' = Append(rows,
                      [span    |-> c.span, depth |-> c.depth,
                       flagged |-> sp.parent # << >> /\ c.depth = 0,
                       column  |-> IF used > width THEN used ELSE width,
                       details |-> Details(sp)])
         /\ pending' = Tail(pending) \o Calls(Children(Head(traces), sp.id), c.depth + 1)
  /\ UNCHANGED <<case, phase, traces, loop, depth, width, heads>>

\* one call of spanNode: its row and what belongs to it, then its children; branch is empty at depth 0
SpanNode ==
  /\ phase = "print" /\ pending # << >>
  /\ LET c    == Head(pending)
         sp   == Spans[c.span]
         used == 3 * c.depth + IF sp.name = << >> THEN Placeholder ELSE Len(sp.name)
     IN  /\ rows' = Append(rows,
                      [span    |-> c.span, depth |-> c.depth,
                       flagged |-> sp.parent # << >> /\ c.depth = 0,
                       column  |-> IF used > width THEN used ELSE width,
                       details |-> Details(sp)])
         /\ pending' = Calls(Children(Head(traces), sp.id), c.depth + 1) \o Tail(pending)
  /\ UNCHANGED <<case, phase, traces, loop, depth, width, heads>>

TraceDone ==
  /\ phase = "print" /\ pending = << >>
  /\ traces' = Tail(traces)
  /\ phase' = IF Len(traces) = 1 THEN "finished" ELSE "head"
  /\ UNCHANGED <<case, loop, depth, pending, width, heads, rows>>

Over == phase \in {"finished", "overflow"} /\ UNCHANGED vars

Next ==
  \/ Flat \/ Group \/ Header \/ NextWalk \/ Walk \/ StackOverflow
  \/ WidthKnown \/ SpanNode \/ TraceDone \/ Over

Spec == Init /\ [][Next]_vars /\ WF_vars(Next)

-----------------------------------------------------------------------------
(* Properties.                                                             *)

\* every span of the batch that is drawn has an id of its own in its trace
DistinctIds ==
  \A i, j \in filterSpans : i # j /\ Spans[i].trace = Spans[j].trace =>
    Spans[i].id # Spans[j].id /\ Spans[i].id # << >>

\* An id followed by a name tells the id, as it does where ids have one length (the 8
\* bytes of OTLP, which proto.go:137 does not check): no two spans of a trace such as
\* id "aa" with name "bbc" and id "aabb" with name "c" share a key of the depth map.
KeysTellIds ==
  \A i, j \in filterSpans :
    Spans[i].trace = Spans[j].trace /\ Key(i) = Key(j) => Spans[i].id = Spans[j].id

\* no group of spans of one trace names each other as parents in a circle
Acyclic ==
  \A C \in (SUBSET filterSpans) \ {{}} : \E i \in C : \A j \in C :
    Spans[i].trace = Spans[j].trace =>
      Spans[i].parent \in {<< >>, Spans[i].id} \/ Spans[i].parent # Spans[j].id

\* A cycle of parents has no root, and its spans are drawn nowhere.  nameColumnWidth
\* enters it first and never comes out, unless every span of it is passed over for a
\* span outside with the same key: then the batch is printed without them.
NoneSkipped == case.mode = "flat" \/ Acyclic \/ KeysTellIds

\* "partial batches still render instead of vanishing" (buildTree): whatever
\* parents are missing, every span the filters keep is drawn, and only once.
EverySpanDrawnOnce ==
  phase = "finished" /\ (DistinctIds \/ case.mode = "flat") /\ NoneSkipped =>
    /\ Len(rows) = Cardinality(filterSpans)
    /\ {rows[k].span : k \in DOMAIN rows} = filterSpans

SameTrace(k, m) == Spans[rows[k].span].trace = Spans[rows[m].span].trace

\* The rows are a preorder of the tree: a row one level down belongs to the last
\* row above it that is one level up, which is its parent span; and siblings come
\* by start time, equal ones in arrival order.
RowsFormTree ==
  case.mode = "pretty" /\ DistinctIds =>
    \A k \in DOMAIN rows : LET row == rows[k] IN
      /\ row.depth > 0 =>
           \E p \in 1..(k - 1) :
             /\ SameTrace(p, k) /\ rows[p].depth = row.depth - 1
             /\ Spans[rows[p].span].id = Spans[row.span].parent
             /\ \A m \in (p + 1)..(k - 1) : rows[m].depth >= row.depth
      /\ \A m \in 1..(k - 1) :
           /\ SameTrace(m, k) /\ rows[m].depth = row.depth
           /\ row.depth > 0 => Spans[rows[m].span].parent = Spans[row.span].parent
           => \/ Spans[rows[m].span].start < Spans[row.span].start
              \/ /\ Spans[rows[m].span].start = Spans[row.span].start
                 /\ rows[m].span < row.span

\* "durations line up per trace" (nameColumnWidth): its walk, which meets a child
\* before its parent when the batch does, ends with the depth each row is drawn at,
\* if no two spans share a key.  An unnamed span is measured without its placeholder
\* and may stick out.
DurationsLineUp ==
  DistinctIds /\ KeysTellIds =>
    \A k, m \in DOMAIN rows :
      /\ SameTrace(k, m) /\ rows[k].column <= MaxColumn
      /\ << >> \notin {Spans[rows[k].span].name, Spans[rows[m].span].name}
      => rows[m].column = rows[k].column \/ rows[m].column > MaxColumn

\* The rows of a trace: those with the span's trace id, since ids do not repeat.
RowsOf(h) == {k \in DOMAIN rows : Spans[rows[k].span].trace = heads[h].trace}

\* A header announces what follows: every row has one, the rows of its trace are
\* together and as many as it says, below those of earlier headers (so no trace is
\* announced twice), its services are theirs, it starts with the row that starts first
\* and lasts to the end of the row that ends last.  Rows without a start time do not
\* count for the start, and no extent is shown if no row ends after it.
HeaderDescribesRows ==
  phase = "finished" /\ case.mode = "pretty" /\ DistinctIds /\ NoneSkipped =>
    /\ \A k \in DOMAIN rows : \E h \in DOMAIN heads : k \in RowsOf(h)
    /\ \A g, h \in DOMAIN heads : g < h => \A k \in RowsOf(g), m \in RowsOf(h) : k < m
    /\ \A h \in DOMAIN heads : LET shown == {Spans[rows[k].span] : k \in RowsOf(h)} IN
         /\ heads[h].spans > 0
         /\ \E above \in 0..Len(rows) : RowsOf(h) = (above + 1)..(above + heads[h].spans)
         /\ heads[h].services = {sp.service : sp \in shown} \ {0}
         /\ heads[h].start \in {sp.start : sp \in shown}
         /\ \A sp \in shown : sp.start > 0 => 0 < heads[h].start /\ heads[h].start <= sp.start
         /\ \A sp \in shown : sp.end > heads[h].start => sp.end - heads[h].start <= heads[h].extent
         /\ heads[h].extent > 0 => \E sp \in shown : sp.end = heads[h].start + heads[h].extent

\* With --resource a trace lists the attributes of every resource its spans have, and
\* no other ("rendered with --resource", docs/otlp-support.md:35), unless two resources
\* of the trace share a service name, when the code keeps the last.
ResourcesListed ==
  phase = "finished" /\ case.mode = "pretty" /\ case.showResource /\ DistinctIds /\ NoneSkipped =>
    \A h \in DOMAIN heads :
      LET having  == {i \in {rows[k].span : k \in RowsOf(h)} : Spans[i].resource # 0}
          shadowed(i) == \E j \in having : /\ Spans[j].service = Spans[i].service
                                          /\ Spans[j].resource # Spans[i].resource
      IN  /\ ToSet(heads[h].resources) \subseteq {Spans[i].resource : i \in having}
          /\ \A i \in having : shadowed(i) \/ Spans[i].resource \in ToSet(heads[h].resources)

\* No event is placed further into its span than the whole trace lasts by its header,
\* if it happened before its span ended: also not for a span without a start time, or
\* an event recorded before its span.
OffsetsFitExtent ==
  DistinctIds => \A h \in DOMAIN heads : \A k \in RowsOf(h) :
    LET sp == Spans[rows[k].span]
    IN  \A e \in DOMAIN rows[k].details.events :
          sp.events[e] <= sp.end => \A d \in ToSet(rows[k].details.events[e]) :
            d <= heads[h].extent /\ sp.start + d = sp.events[e]

\* "we never punch holes in a tree" (filterSpans): the duration gate shows all of a
\* trace or nothing of it, by its longest span among those of the chosen service.
GateKeepsWholeTraces ==
  phase = "finished" /\ NoneSkipped =>
    \A i \in Positions :
      (\E k \in DOMAIN rows : rows[k].span = i) <=>
        /\ case.service \in {0, Spans[i].service}
        /\ case.minDuration > 0 =>
             \E j \in Positions : /\ Spans[j].trace = Spans[i].trace
                                  /\ case.service \in {0, Spans[j].service}
                                  /\ DurationNano(Spans[j]) >= case.minDuration

\* Only a cycle of parents can exhaust the stack, repeated ids included: the
\* depth of the recursion never exceeds the number of spans.
OnlyCyclesOverflow == Acyclic => phase # "overflow"


\* "the sink never dies on bad input" (README.md:40)
NeverDies == phase # "overflow"

\* A row says "(parent ... not in this batch)" only when the batch has no span
\* with that id (docs/otlp-support.md, Known limits).
FlagIsTrue ==
  \A k \in DOMAIN rows : rows[k].flagged =>
    \A i \in Positions : Spans[i].id # Spans[rows[k].span].parent
=============================================================================
