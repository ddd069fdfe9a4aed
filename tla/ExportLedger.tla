----------------------------- MODULE ExportLedger -----------------------------
(***************************************************************************)
(* What the sink promises its users, with nothing about how.  Exports are  *)
(* taken one at a time and whole: in one step the lines of the batch go to *)
(* the output and its volume to the totals, and only then may the exporter *)
(* be told it was accepted.  The shutdown summary is the totals of some    *)
(* moment; when the sink drained first, nothing is taken after it.         *)
(***************************************************************************)
EXTENDS Integers, Sequences

CONSTANTS
  Requests,    \* the exports that may be offered
  NoSummary    \* the summary before it is made

VARIABLES
  batch,       \* the lines each export renders to
  volume,      \* what each export adds to the totals
  taken,       \* exports accepted
  answered,    \* exports whose sender was told so
  shown,       \* the output
  total,       \* the running totals
  summary,     \* the totals reported at shutdown
  closed       \* no export is taken any more

vars == <<batch, volume, taken, answered, shown, total, summary, closed>>

Totals == [requests : Nat, traces : Nat, logs : Nat, metrics : Nat]

Init ==
  /\ batch \in [Requests -> Seq([req : Requests, n : Nat])]
  /\ volume \in [Requests -> Totals]
  /\ taken = {}
  /\ answered = {}
  /\ shown = << >>
  /\ total = [c \in {"requests", "traces", "logs", "metrics"} |-> 0]
  /\ summary = NoSummary
  /\ closed = FALSE

Take(r) ==
  /\ ~closed
  /\ r \notin taken
  /\ taken' = taken \cup {r}
  /\ shown' = shown \o batch[r]
  /\ total' = [c \in DOMAIN total |-> total[c] + volume[r][c]]
  /\ UNCHANGED <<batch, volume, answered, summary, closed>>

Answer(r) ==
  /\ r \in taken \ answered
  /\ answered' = answered \cup {r}
  /\ UNCHANGED <<batch, volume, taken, shown, total, summary, closed>>

Summarise ==
  /\ summary = NoSummary
  /\ summary' = total
  /\ closed' \in BOOLEAN
  /\ UNCHANGED <<batch, volume, taken, answered, shown, total>>

Next == Summarise \/ \E r \in Requests : Take(r) \/ Answer(r)

Spec == Init /\ [][Next]_vars
=============================================================================
