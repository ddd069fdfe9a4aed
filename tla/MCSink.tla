-------------------------------- MODULE MCSink --------------------------------
(* A small instance of Sink for TLC.                                       *)
EXTENDS Sink

\* A traces export of one byte and two lines, as one that arrives whole and as
\* one whose upload breaks off; a logs export; a refusal; a fatal batch.
Export ==
  [path |-> "traces", method |-> "POST", ctype |-> "proto",
   encoding |-> "identity", gzipOK |-> TRUE, size |-> 1, cut |-> FALSE,
   decodes |-> TRUE, items |-> 2, lines |-> 2, cyclic |-> FALSE]

SinkShapes ==
  {Export,
   [Export EXCEPT !.path = "logs", !.items = 1, !.lines = 1, !.cut = TRUE],
   [Export EXCEPT !.path = "logs", !.items = 1, !.lines = 1],
   [Export EXCEPT !.method = "GET"],
   [Export EXCEPT !.cyclic = TRUE, !.lines = 1]}
OneExport == {Export}
=============================================================================
