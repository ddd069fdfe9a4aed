------------------------------ MODULE MCExporter ------------------------------
(* A small instance of Exporter for TLC.                                   *)
EXTENDS Exporter

CONSTANTS p1, p2, p3    \* the three posts

Loop == <<p1, p2, p3>>

Plain ==
  [path |-> "traces", method |-> "POST", ctype |-> "proto", encoding |-> "identity",
   gzipOK |-> TRUE, size |-> 1, cut |-> FALSE, decodes |-> TRUE, items |-> 4, lines |-> 2,
   cyclic |-> FALSE]

\* the demo's posts, below and above the limit, whole or cut short by a client that
\* gave up; --service may hide the logs
PostShapes ==
  {[Plain EXCEPT !.size = n, !.cut = c, !.ctype = t] :
     n \in {1, 3}, c \in BOOLEAN, t \in {"json", "other"}}
  \cup {[Plain EXCEPT !.path = "logs", !.items = 2, !.lines = k, !.cut = c, !.ctype = t] :
     k \in {0, 1}, c \in BOOLEAN, t \in {"json", "other"}}
  \cup {[Plain EXCEPT !.path = "metrics", !.items = 2, !.lines = 1, !.ctype = t] :
     t \in {"json", "other"}}

\* a client beside the exporter: whole, refused, stalled, or fatal to the sink
OtherShapes ==
  {[Plain EXCEPT !.items = 1], [Plain EXCEPT !.decodes = FALSE, !.items = 1],
   [Plain EXCEPT !.cyclic = TRUE, !.items = 2, !.lines = 1]}

AllShapes == PostShapes \cup OtherShapes
=============================================================================
