------------------------------ MODULE MCHandler ------------------------------
(* Small instances of Handler for TLC.                                     *)
EXTENDS Handler

\* a well-formed traces export of two bytes that renders two lines
Good ==
  [path |-> "traces", method |-> "POST", ctype |-> "proto",
   encoding |-> "identity", gzipOK |-> TRUE, size |-> 2, cut |-> FALSE,
   decodes |-> TRUE, items |-> 2, lines |-> 2, cyclic |-> FALSE]

\* Every combination the routing, the body reader and the decoders tell apart,
\* with bodies just below, at and above MaxBody + 1 = 3.
RoutingShapes ==
  {[Good EXCEPT !.path = p, !.method = m, !.ctype = c, !.encoding = e,
                !.gzipOK = g, !.size = n, !.cut = x, !.decodes = d] :
     p \in Signals \cup {"root", "other"}, m \in {"POST", "GET"},
     c \in {"proto", "json", "other"}, e \in {"identity", "gzip", "other"},
     g \in BOOLEAN, n \in 0..4, x \in BOOLEAN, d \in BOOLEAN}

\* What makes concurrent batches interact: three signals, a batch the filters
\* empty, a refusal before the lock and one under it, a stalling client, and a
\* batch the process does not survive.
BusyShapes ==
  {Good,
   [Good EXCEPT !.items = 3, !.lines = 0, !.size = 1],
   [Good EXCEPT !.path = "logs", !.ctype = "json", !.size = 1, !.items = 1, !.lines = 1],
   [Good EXCEPT !.path = "metrics", !.size = 1, !.items = 2, !.lines = 1],
   [Good EXCEPT !.size = 1, !.decodes = FALSE],
   [Good EXCEPT !.encoding = "gzip", !.size = 3],
   [Good EXCEPT !.size = 1, !.cyclic = TRUE, !.lines = 1]}
=============================================================================
