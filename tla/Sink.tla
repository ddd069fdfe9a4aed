--------------------------------- MODULE Sink ---------------------------------
(***************************************************************************)
(* The whole process (internal/cli/cli.go, Run): main starts the HTTP      *)
(* server of module Handler in a goroutine, waits for a signal or for the  *)
(* server to fail, drains it for at most three seconds, and reports.       *)
(***************************************************************************)
EXTENDS Handler

CONSTANTS
  MaxSignals,   \* bound: how often the user interrupts the process
  NoReport      \* the value of report before Stats() is read

ASSUME SignalAssumption == MaxSignals \in Nat

VARIABLES
  main,         \* where Run is
  notify,       \* signal.NotifyContext has been called
  signals,      \* interrupts delivered so far
  ctxDone,      \* the context of NotifyContext is cancelled
  accept,       \* the goroutine of srv.Serve
  done,         \* the channel done: "empty", or the error Serve returned
  closing,      \* srv.Shutdown has begun: the listener is closed
  timedOut,     \* Shutdown gave up after three seconds
  report,       \* the Stats read for the summary
  exit          \* exit status, or how the process ended

runVars == <<main, notify, signals, ctxDone, accept, done, closing, timedOut,
             report, exit>>
sinkVars == <<vars, runVars>>

Up == exit = "none" /\ ~crashed

SinkTypeOK ==
  /\ main \in {"parse", "listen", "banner", "notify", "go", "select", "drain",
               "join", "stats", "summary", "returned"}
  /\ notify \in BOOLEAN /\ ctxDone \in BOOLEAN
  /\ signals \in 0..MaxSignals
  /\ accept \in {"none", "spawned", "serving", "returned"}
  /\ done \in {"empty", "ErrServerClosed", "error"}
  /\ closing \in BOOLEAN /\ timedOut \in BOOLEAN
  /\ report = NoReport \/ report \in
       [requests : Nat, traces : Nat, logs : Nat, metrics : Nat]
  /\ exit \in {"none", "ok", "runtime", "usage", "killed"}

SinkInit ==
  /\ Init
  /\ main = "parse"
  /\ notify = FALSE /\ signals = 0 /\ ctxDone = FALSE
  /\ accept = "none" /\ done = "empty"
  /\ closing = FALSE /\ timedOut = FALSE
  /\ report = NoReport
  /\ exit = "none"

-----------------------------------------------------------------------------
(* main                                                                    *)

Goes(from, to) == main = from /\ main' = to

Return(from, status) == Goes(from, "returned") /\ exit' = status

\* --help and --version are answered and end the run; so does a usage error
ParseConfig ==
  /\ \/ Return("parse", "ok")
     \/ Return("parse", "usage")
     \/ Goes("parse", "listen") /\ exit' = exit
  /\ UNCHANGED <<vars, notify, signals, ctxDone, accept, done, closing, timedOut, report>>

Listen ==
  /\ \/ Return("listen", "runtime")              \* the address is taken
     \/ Goes("listen", "banner") /\ exit' = exit
  /\ UNCHANGED <<vars, notify, signals, ctxDone, accept, done, closing, timedOut, report>>

Banner ==
  /\ Goes("banner", "notify")
  /\ UNCHANGED <<vars, notify, signals, ctxDone, accept, done, closing, timedOut, report, exit>>

NotifyContext ==
  /\ Goes("notify", "go")
  /\ notify' = TRUE
  /\ UNCHANGED <<vars, signals, ctxDone, accept, done, closing, timedOut, report, exit>>

GoServe ==
  /\ Goes("go", "select")
  /\ accept' = "spawned"
  /\ UNCHANGED <<vars, notify, signals, ctxDone, done, closing, timedOut, report, exit>>

\* the select takes ctx.Done(): Shutdown closes the listener
Shutdown ==
  /\ ctxDone
  /\ Goes("select", "drain")
  /\ closing' = TRUE
  /\ UNCHANGED <<vars, notify, signals, ctxDone, accept, done, timedOut, report, exit>>

\* the select takes done: the server failed, and nothing is reported
ServerError ==
  /\ done = "error"
  /\ Return("select", "runtime")
  /\ done' = "empty"
  /\ UNCHANGED <<vars, notify, signals, ctxDone, accept, closing, timedOut, report>>

\* mutant: a connection whose header is not complete is not waited for
Active_NotNew(r) == pc[r] \notin {"idle", "connected", "done", "closed"}

\* a connection Shutdown waits for: its request header may be incomplete
Active(r) == pc[r] \notin {"idle", "done", "closed"}

Drained ==
  /\ Goes("drain", "join")
  /\ accept # "serving"
  /\ \A r \in Requests : ~Active(r)
  /\ UNCHANGED <<vars, notify, signals, ctxDone, accept, done, closing, timedOut, report, exit>>

DrainTimeout ==
  /\ Goes("drain", "join")
  /\ accept # "serving"
  /\ \E r \in Requests : Active(r)
  /\ timedOut' = TRUE
  /\ UNCHANGED <<vars, notify, signals, ctxDone, accept, done, closing, report, exit>>

Join ==
  /\ Goes("join", "stats")
  /\ done # "empty"
  /\ done' = "empty"
  /\ UNCHANGED <<vars, notify, signals, ctxDone, accept, closing, timedOut, report, exit>>

\* mutant: the counters are copied without the lock
Stats_Unlocked ==
  /\ Goes("stats", "summary")
  /\ report' = stats
  /\ UNCHANGED <<vars, notify, signals, ctxDone, accept, done, closing, timedOut, exit>>

\* Handler.Stats copies the counters under the render lock
Stats ==
  /\ Goes("stats", "summary")
  /\ mu = NoOne
  /\ report' = stats
  /\ UNCHANGED <<vars, notify, signals, ctxDone, accept, done, closing, timedOut, exit>>

\* the summary is printed and Run returns, which ends every goroutine
Summary ==
  /\ Return("summary", "ok")
  /\ UNCHANGED <<vars, notify, signals, ctxDone, accept, done, closing, timedOut, report>>

Run ==
  \/ ParseConfig \/ Listen \/ Banner \/ NotifyContext \/ GoServe \/ Shutdown
  \/ ServerError \/ Drained \/ DrainTimeout \/ Join \/ Stats \/ Summary

-----------------------------------------------------------------------------
(* The goroutine of srv.Serve, and the world.                              *)

Serve ==
  /\ accept = "spawned" /\ ~closing
  /\ accept' = "serving"
  /\ UNCHANGED <<vars, main, notify, signals, ctxDone, done, closing, timedOut, report, exit>>

\* mutants: the expected error is not sent; the channel is closed instead
ServeReturns_Filtered ==
  /\ accept \in {"spawned", "serving"} /\ closing
  /\ accept' = "returned"
  /\ UNCHANGED <<vars, main, notify, signals, ctxDone, done, closing, timedOut, report, exit>>

ServeReturns_Closes ==
  /\ accept \in {"spawned", "serving"} /\ closing
  /\ accept' = "returned" /\ done' = "nil"
  /\ UNCHANGED <<vars, main, notify, signals, ctxDone, closing, timedOut, report, exit>>

ServeReturns ==
  /\ accept \in {"spawned", "serving"} /\ closing
  /\ accept' = "returned" /\ done' = "ErrServerClosed"
  /\ UNCHANGED <<vars, main, notify, signals, ctxDone, closing, timedOut, report, exit>>

\* the listener fails for good
AcceptError ==
  /\ accept = "serving" /\ ~closing
  /\ accept' = "returned" /\ done' = "error"
  /\ UNCHANGED <<vars, main, notify, signals, ctxDone, closing, timedOut, report, exit>>

\* SIGINT or SIGTERM: it cancels the context once that is registered (stop is
\* deferred, so a second one changes nothing) and kills the process before
Signal ==
  /\ signals < MaxSignals
  /\ signals' = signals + 1
  /\ \/ notify /\ ctxDone' = TRUE /\ exit' = exit
     \/ ~notify /\ ctxDone' = ctxDone /\ exit' = "killed"
  /\ UNCHANGED <<vars, main, notify, accept, done, closing, timedOut, report>>

Request(r) ==
  /\ Step(r)
  /\ pc[r] = "idle" => accept = "serving" /\ ~closing
  /\ UNCHANGED runVars

\* nobody is left to move: the process is gone, or it idles without a client
Rest ==
  /\ ~Up \/ (main = "select" /\ ~ctxDone)
  /\ UNCHANGED sinkVars

SinkNext ==
  \/ Rest
  \/ Up /\ (Run \/ Serve \/ ServeReturns \/ AcceptError \/ Signal \/ \E r \in Requests : Request(r))

SinkSpec == SinkInit /\ [][SinkNext]_sinkVars

OwnRequest(r) == Up /\ Own(r) /\ UNCHANGED runVars

(***************************************************************************)
(* main, the Serve goroutine and the handlers are always scheduled again,  *)
(* the drain timer fires, and stdout drains.  Nothing is assumed of        *)
(* clients, of the user or of the listener.                                *)
(***************************************************************************)
FairSink ==
  /\ SinkSpec
  /\ WF_sinkVars(Up /\ Run)
  /\ WF_sinkVars(Up /\ (Serve \/ ServeReturns))
  /\ \A r \in Requests : WF_sinkVars(OwnRequest(r))

\* the same with a stdout that may stop draining (a paused terminal or pager)
OwnRequestButOutput(r) ==
  /\ Up
  /\ \/ ServeHTTP(r) \/ RejectEncoding(r) \/ RejectTooBig(r) \/ BodyRead(r)
     \/ Lock(r) \/ RejectPayload(r) \/ CountItems(r) \/ Overflow(r) \/ FinishDispatch(r)
  /\ UNCHANGED runVars

StalledSink ==
  /\ SinkSpec
  /\ WF_sinkVars(Up /\ Run)
  /\ WF_sinkVars(Up /\ (Serve \/ ServeReturns))
  /\ \A r \in Requests : WF_sinkVars(OwnRequestButOutput(r))

-----------------------------------------------------------------------------
(* Properties.                                                             *)

\* A clean shutdown cuts nobody off: when the process reports and did not give
\* up on the drain, every request whose connection was accepted has its answer.
DrainAnswersEveryone ==
  report # NoReport /\ ~timedOut =>
    \A r \in Requests : pc[r] \in {"idle", "done", "closed"}

\* "On Ctrl-C the sink reports what it saw" (README.md:88): an interrupt always
\* ends the run with the summary, however slow the clients are, unless the
\* server failed or died before main took notice.
InterruptReports ==
  ctxDone ~> \/ exit = "ok" /\ report # NoReport
             \/ exit = "runtime"
             \/ crashed

(***************************************************************************)
(* Refinement of ExportLedger.  A batch counts as taken when its handler   *)
(* leaves dispatch; until then its lines and items are not there yet.      *)
(***************************************************************************)
Rendering == mu \in Requests /\ pc[mu] = "render"

WholeBatches == SubSeq(out, 1, IF Rendering THEN Len(out) - line[mu] ELSE Len(out))

Volume(r) ==
  [c \in DOMAIN stats |-> IF c = "requests" THEN 1
                          ELSE IF c = shape[r].path THEN shape[r].items ELSE 0]

WholeTotals ==
  IF Rendering THEN [stats EXCEPT ![shape[mu].path] = @ - Payload(mu).items] ELSE stats

Ledger ==
  INSTANCE ExportLedger WITH
    NoSummary <- NoReport,
    batch     <- [r \in Requests |-> [i \in 1..shape[r].lines |-> [req |-> r, n |-> i]]],
    volume    <- [r \in Requests |-> Volume(r)],
    taken     <- {r \in Requests : Accepted(r)},
    answered  <- {r \in Requests : Accepted(r) /\ pc[r] = "done"},
    shown     <- WholeBatches,
    total     <- WholeTotals,
    summary   <- report,
    closed    <- report # NoReport /\ ~timedOut

\* The process as a whole keeps the ledger: exports are shown and counted whole
\* and in one order, acknowledged only after that, and after a drained shutdown
\* nothing is added to what was reported.
KeepsLedger == Ledger!Spec
=============================================================================
