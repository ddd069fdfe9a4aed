------------------------------ MODULE SinkProofs ------------------------------
(***************************************************************************)
(* Theorems about the whole process: it runs the handler of module Handler *)
(* and nothing else touches the handler's state, so what is proved there   *)
(* holds here; a drained shutdown leaves nobody without an answer; and the *)
(* process implements the ledger of exports.                               *)
(***************************************************************************)
EXTENDS Sink, HandlerProofs

\* every action of main leaves the handler alone
LEMMA RunFrame == Run => UNCHANGED vars
BY DEF Run, ParseConfig, Listen, Banner, NotifyContext, GoServe, Shutdown, ServerError,
       Drained, DrainTimeout, Join, Stats, Summary

LEMMA SinkStepIsHandlerStep == [SinkNext]_sinkVars => [Next]_vars
<1> SUFFICES ASSUME [SinkNext]_sinkVars PROVE [Next]_vars  OBVIOUS
<1>1. CASE UNCHANGED sinkVars \/ Rest  BY <1>1 DEF sinkVars, Rest
<1>2. CASE Run  BY <1>2, RunFrame
<1>3. CASE Serve \/ ServeReturns \/ AcceptError \/ Signal
  BY <1>3 DEF Serve, ServeReturns, AcceptError, Signal
<1>4. ASSUME Up, NEW r \in Requests, Request(r)  PROVE [Next]_vars
  BY <1>4 DEF Request, Next, Up
<1> QED  BY <1>1, <1>2, <1>3, <1>4 DEF SinkNext

\* The process implements the handler's specification, whatever main, the Serve
\* goroutine and the user do meanwhile.
THEOREM SinkRunsHandler == SinkSpec => Spec
<1>1. SinkInit => Init  BY DEF SinkInit
<1> QED  BY <1>1, SinkStepIsHandlerStep, PTL DEF SinkSpec, Spec

\* Up to and past the shutdown, batches stay together on stdout.
THEOREM SinkBatchesStayTogether == SinkSpec => []NoInterleaving
BY SinkRunsHandler, BatchesStayTogether, PTL

-----------------------------------------------------------------------------
Answered(r) == pc[r] \in {"idle", "done", "closed"}

(***************************************************************************)
(* Once Shutdown has begun and Serve is not accepting, no connection is    *)
(* added; when main leaves the drain without the timer, none is active.    *)
(***************************************************************************)
DrainInv ==
  /\ TypeOK
  /\ main \in {"join", "stats", "summary"} => closing /\ accept # "serving"
  /\ main \in {"join", "stats", "summary"} /\ ~timedOut => \A r \in Requests : Answered(r)
  /\ report # NoReport => main \in {"summary", "returned"}
  /\ main = "returned" => exit # "none"
  /\ main = "drain" => closing
  /\ report # NoReport /\ ~timedOut => \A r \in Requests : Answered(r)

\* a request that is done or closed takes no step, and an idle one only connects;
\* the others are not touched
LEMMA MovesFromAnswered ==
  ASSUME TypeOK, NEW r \in Requests, Step(r), NEW q \in Requests, Answered(q),
         q = r => pc[r] # "idle"
  PROVE  Answered(q)'
<1> USE DEF TypeOK, Goto, Reject, Answered
<1>1. CASE Client(r)  BY <1>1 DEF Client, Connect, Arrive, Drop
<1>2. CASE ServeHTTP(r)
  <2>1. CASE Landing(r) \/ NotFound(r) \/ Reply(r)  BY <2>1 DEF Landing, NotFound, Reply
  <2>2. CASE RejectMethod(r) \/ RejectMediaType(r) \/ Route(r)
    BY <2>2 DEF RejectMethod, RejectMediaType, Route
  <2>3. CASE fail(r)  BY <2>3 DEF fail
  <2> QED  BY <1>2, <2>1, <2>2, <2>3 DEF ServeHTTP
<1>3. CASE readBody(r)
  <2>1. CASE RejectEncoding(r) \/ ReadFails(r) \/ RejectTooBig(r)
    BY <2>1 DEF RejectEncoding, ReadFails, RejectTooBig
  <2>2. CASE OpenBody(r) \/ ReadChunk(r) \/ BodyRead(r)
    BY <2>2 DEF OpenBody, ReadChunk, BodyRead
  <2> QED  BY <1>3, <2>1, <2>2 DEF readBody
<1>4. CASE dispatch(r)
  <2>1. CASE Lock(r) \/ RejectPayload(r) \/ CountItems(r)
    BY <2>1 DEF Lock, RejectPayload, CountItems
  <2>2. CASE WriteLine(r) \/ Overflow(r) \/ FinishDispatch(r)
    BY <2>2 DEF WriteLine, Overflow, FinishDispatch
  <2> QED  BY <1>4, <2>1, <2>2 DEF dispatch
<1> QED  BY <1>1, <1>2, <1>3, <1>4 DEF Step

LEMMA DrainInit == SinkInit => DrainInv
<1> SUFFICES ASSUME SinkInit PROVE DrainInv  OBVIOUS
<1>1. TypeOK  BY TypeInit DEF SinkInit
<1> QED  BY <1>1 DEF SinkInit, DrainInv

LEMMA DrainStep ==
  ASSUME DrainInv, [SinkNext]_sinkVars
  PROVE  DrainInv'
<1>0. TypeOK'  BY SinkStepIsHandlerStep, TypeStep DEF DrainInv
<1> USE DEF DrainInv, Answered
<1>1. CASE UNCHANGED sinkVars \/ Rest
  BY <1>0, <1>1 DEF sinkVars, vars, runVars, Rest
<1>2. CASE Up /\ Run
  <2> USE DEF Goes, Return, Up, vars
  <2>1. CASE ParseConfig  BY <1>0, <1>2, <2>1 DEF ParseConfig
  <2>2. CASE Listen  BY <1>0, <1>2, <2>2 DEF Listen
  <2>3. CASE Banner \/ NotifyContext \/ GoServe
    BY <1>0, <1>2, <2>3 DEF Banner, NotifyContext, GoServe
  <2>4. CASE Shutdown  BY <1>0, <1>2, <2>4 DEF Shutdown
  <2>5. CASE ServerError  BY <1>0, <1>2, <2>5 DEF ServerError
  <2>6. CASE Drained  BY <1>0, <1>2, <2>6 DEF Drained, Active
  <2>7. CASE DrainTimeout  BY <1>0, <1>2, <2>7 DEF DrainTimeout
  <2>8. CASE Join  BY <1>0, <1>2, <2>8 DEF Join
  <2>9. CASE Stats  BY <1>0, <1>2, <2>9 DEF Stats
  <2>10. CASE Summary  BY <1>0, <1>2, <2>10 DEF Summary
  <2> QED  BY <1>2, <2>1, <2>2, <2>3, <2>4, <2>5, <2>6, <2>7, <2>8, <2>9, <2>10 DEF Run
<1>3. CASE Up /\ (Serve \/ ServeReturns \/ AcceptError \/ Signal)
  BY <1>0, <1>3 DEF Serve, ServeReturns, AcceptError, Signal, vars, Up
<1>4. ASSUME Up, NEW r \in Requests, Request(r)  PROVE DrainInv'
  <2>1. UNCHANGED <<main, closing, accept, report, timedOut, exit>>
    BY <1>4 DEF Request, runVars
  <2>2. \A q \in Requests : Answered(q) /\ (q = r => pc[r] # "idle") => Answered(q)'
    BY <1>4, MovesFromAnswered DEF Request
  <2>3. pc[r] = "idle" => accept = "serving" /\ ~closing  BY <1>4 DEF Request
  <2> QED  BY <1>0, <2>1, <2>2, <2>3, <1>4 DEF Up
<1> QED  BY <1>1, <1>2, <1>3, <1>4 DEF SinkNext

\* A drained shutdown reports only when every request let in has its answer.
THEOREM DrainIsClean == SinkSpec => []DrainAnswersEveryone
<1>1. SinkInit => DrainInv  BY DrainInit
<1>2. DrainInv /\ [SinkNext]_sinkVars => DrainInv'  BY DrainStep
<1>3. DrainInv => DrainAnswersEveryone  BY DEF DrainInv, DrainAnswersEveryone, Answered
<1> QED  BY <1>1, <1>2, <1>3, PTL DEF SinkSpec

-----------------------------------------------------------------------------
(* Types.                                                                  *)

LEMMA SinkTypeInit == SinkInit => TypeOK /\ SinkTypeOK
<1> SUFFICES ASSUME SinkInit PROVE TypeOK /\ SinkTypeOK  OBVIOUS
<1>1. TypeOK  BY TypeInit DEF SinkInit
<1>2. 0 \in 0..MaxSignals  BY SignalAssumption
<1> QED  BY <1>1, <1>2 DEF SinkInit, SinkTypeOK

LEMMA SinkTypeStep ==
  ASSUME TypeOK, SinkTypeOK, [SinkNext]_sinkVars
  PROVE  TypeOK' /\ SinkTypeOK'
<1>0. TypeOK'  BY SinkStepIsHandlerStep, TypeStep
<1> SUFFICES SinkTypeOK'  BY <1>0
<1>a. stats \in [requests : Nat, traces : Nat, logs : Nat, metrics : Nat]  BY DEF TypeOK
<1> USE DEF SinkTypeOK
<1>1. CASE UNCHANGED sinkVars \/ Rest  BY <1>1 DEF sinkVars, runVars, Rest
<1>2. CASE Run
  <2> USE DEF Goes, Return
  <2>1. CASE ParseConfig \/ Listen
    <3>1. CASE ParseConfig  BY <3>1 DEF ParseConfig
    <3>2. CASE Listen  BY <3>2 DEF Listen
    <3> QED  BY <2>1, <3>1, <3>2
  <2>2. CASE Banner  BY <2>2 DEF Banner
  <2>3. CASE NotifyContext  BY <2>3 DEF NotifyContext
  <2>4. CASE GoServe  BY <2>4 DEF GoServe
  <2>5. CASE Shutdown \/ ServerError
    <3>1. CASE Shutdown  BY <3>1 DEF Shutdown
    <3>2. CASE ServerError  BY <3>2 DEF ServerError
    <3> QED  BY <2>5, <3>1, <3>2
  <2>6. CASE Drained \/ DrainTimeout
    <3>1. /\ main' = "join" /\ (timedOut' = timedOut \/ timedOut' = TRUE)
          /\ UNCHANGED <<notify, signals, ctxDone, accept, done, closing, report, exit>>
      BY <2>6 DEF Drained, DrainTimeout
    <3>2. timedOut' \in BOOLEAN  BY <3>1
    <3>3. notify' \in BOOLEAN /\ ctxDone' \in BOOLEAN /\ closing' \in BOOLEAN  BY <3>1
    <3>4. /\ main' = "join" /\ signals' \in 0..MaxSignals
          /\ accept' \in {"none", "spawned", "serving", "returned"}
          /\ done' \in {"empty", "ErrServerClosed", "error"}
          /\ exit' \in {"none", "ok", "runtime", "usage", "killed"}
      BY <3>1
    <3> QED  BY <3>1, <3>2, <3>3, <3>4
  <2>7. CASE Join \/ Summary  BY <2>7 DEF Join, Summary
  <2>8. CASE Stats  BY <1>a, <2>8 DEF Stats
  <2> QED  BY <1>2, <2>1, <2>2, <2>3, <2>4, <2>5, <2>6, <2>7, <2>8 DEF Run
<1>3. CASE Serve \/ ServeReturns \/ AcceptError
  BY <1>3 DEF Serve, ServeReturns, AcceptError
<1>4. CASE Signal
  <2>1. signals' \in 0..MaxSignals  BY <1>4, SignalAssumption DEF Signal
  <2>2. /\ ctxDone' = ctxDone \/ ctxDone' = TRUE
        /\ exit' = exit \/ exit' = "killed"
        /\ UNCHANGED <<main, notify, accept, done, closing, timedOut, report>>
    BY <1>4 DEF Signal
  <2>3. ctxDone' \in BOOLEAN  BY <2>2
  <2>4. exit' \in {"none", "ok", "runtime", "usage", "killed"}  BY <2>2
  <2> QED  BY <2>1, <2>2, <2>3, <2>4
<1>5. ASSUME NEW r \in Requests, Request(r)  PROVE SinkTypeOK'
  BY <1>5 DEF Request, runVars
<1> QED  BY <1>1, <1>2, <1>3, <1>4, <1>5 DEF SinkNext

\* Run, the Serve goroutine and the channel between them keep their types: among others,
\* only the two errors Serve returns are ever on the channel, and one at a time.
THEOREM SinkTypeCorrect == SinkSpec => []SinkTypeOK
BY SinkTypeInit, SinkTypeStep, PTL DEF SinkSpec

-----------------------------------------------------------------------------
(* The process implements ExportLedger: the step simulation behind         *)
(* KeepsLedger, for every set of requests and shapes and every body limit  *)
(* below the largest int64.  ExportLedger asks for no fairness, so nothing *)
(* of the refinement is left to the model checker.                         *)

(* The images of the ledger's variables, by name.                          *)
Batches == [r \in Requests |-> [i \in 1..shape[r].lines |-> [req |-> r, n |-> i]]]
Volumes == [r \in Requests |-> Volume(r)]
Told == {r \in Requests : Accepted(r) /\ pc[r] = "done"}
Closed == report # NoReport /\ ~timedOut

LedgerInv == DrainInv /\ OutputInv /\ StageInv

Counters == {"requests", "traces", "logs", "metrics"}

LEMMA StatsDomain ==
  ASSUME TypeOK
  PROVE  DOMAIN stats = Counters /\ \A c \in Counters : stats[c] \in Nat
BY DEF TypeOK, Counters

\* nothing the ledger sees has changed
LEMMA LedgerStutter ==
  ASSUME UNCHANGED <<Batches, Volumes, Taken, Told, WholeBatches, WholeTotals, report, Closed>>
  PROVE  UNCHANGED Ledger!vars
BY DEF Ledger!vars, Batches, Volumes, Taken, Told, Closed

-----------------------------------------------------------------------------
LEMMA LedgerInit == SinkInit => Ledger!Init
<1> SUFFICES ASSUME SinkInit PROVE Ledger!Init  OBVIOUS
<1>1. TypeOK  BY TypeInit DEF SinkInit
<1>2. /\ mu = NoOne /\ out = << >> /\ report = NoReport
      /\ \A r \in Requests : pc[r] = "idle"
      /\ stats = [requests |-> 0, traces |-> 0, logs |-> 0, metrics |-> 0]
  BY DEF SinkInit, Init
<1>3. ~Rendering  BY <1>2, LockAssumption DEF Rendering
<1>4. Batches \in [Requests -> Seq([req : Requests, n : Nat])]
  <2>1. ASSUME NEW r \in Requests
        PROVE  [i \in 1..shape[r].lines |-> [req |-> r, n |-> i]] \in Seq([req : Requests, n : Nat])
    <3>1. shape[r].lines \in Nat  BY <1>1, ShapesAssumption DEF TypeOK, ShapeType
    <3>2. [i \in 1..shape[r].lines |-> [req |-> r, n |-> i]]
            \in [1..shape[r].lines -> [req : Requests, n : Nat]]
      BY <3>1
    <3> QED  BY <3>1, <3>2, FunctionIsSeq
  <2> QED  BY <2>1 DEF Batches
<1>5. Volumes \in [Requests -> Ledger!Totals]
  <2>1. ASSUME NEW r \in Requests  PROVE Volume(r) \in Ledger!Totals
    <3>1. shape[r].items \in Nat  BY <1>1, ShapesAssumption DEF TypeOK, ShapeType
    <3> QED  BY <1>1, <3>1, StatsDomain DEF Volume, Ledger!Totals, Counters
  <2> QED  BY <2>1 DEF Volumes
<1>6. Taken = {} /\ Told = {}  BY <1>2 DEF Taken, Told, Accepted
<1>7. WholeBatches = << >>  BY <1>2, <1>3 DEF WholeBatches
<1>8. WholeTotals = [c \in Counters |-> 0]  BY <1>2, <1>3 DEF WholeTotals, Counters
<1> QED  BY <1>2, <1>4, <1>5, <1>6, <1>7, <1>8
         DEF Ledger!Init, Batches, Volumes, Taken, Told, Counters

-----------------------------------------------------------------------------
(* What main and the Serve goroutine do.                                   *)

\* when nothing of the handler changes, the ledger's view of it does not
LEMMA HandlerAtRest ==
  ASSUME UNCHANGED vars
  PROVE  UNCHANGED <<Batches, Volumes, Taken, Told, WholeBatches, WholeTotals, Rendering>>
<1>1. UNCHANGED <<shape, pc, got, mu, line, out, stats, code>>  BY DEF vars
<1> QED  BY <1>1 DEF Batches, Volumes, Volume, Taken, Told, Accepted, WholeBatches, WholeTotals,
     Rendering, Payload

LEMMA RunIsLedgerStep ==
  ASSUME LedgerInv, Run
  PROVE  Ledger!Next \/ UNCHANGED Ledger!vars
<1>1. UNCHANGED <<Batches, Volumes, Taken, Told, WholeBatches, WholeTotals>>
  BY RunFrame, HandlerAtRest
<1>2. CASE Stats
  <2>1. main = "stats" /\ mu = NoOne /\ report' = stats /\ UNCHANGED timedOut
    BY <1>2 DEF Stats, Goes
  <2>2. report = NoReport  BY <2>1 DEF LedgerInv, DrainInv
  <2>3. WholeTotals = stats  BY <2>1, LockAssumption DEF WholeTotals, Rendering
  <2>4. Closed' \in BOOLEAN  BY DEF Closed
  <2>5. Ledger!Summarise
    BY <1>1, <2>1, <2>2, <2>3, <2>4
       DEF Ledger!Summarise, Batches, Volumes, Taken, Told, Closed
  <2> QED  BY <2>5 DEF Ledger!Next
<1>3. CASE DrainTimeout
  <2>1. main = "drain" /\ UNCHANGED report  BY <1>3 DEF DrainTimeout, Goes
  <2>2. report = NoReport  BY <2>1 DEF LedgerInv, DrainInv
  <2> QED  BY <1>1, <2>1, <2>2, LedgerStutter DEF Closed
<1>4. CASE ~Stats /\ ~DrainTimeout
  <2>1. UNCHANGED <<report, timedOut>>
    BY <1>4 DEF Run, ParseConfig, Listen, Banner, NotifyContext, GoServe, Shutdown, ServerError,
       Drained, Join, Summary
  <2> QED  BY <1>1, <2>1, LedgerStutter DEF Closed
<1> QED  BY <1>2, <1>3, <1>4

LEMMA WorldIsLedgerStutter ==
  ASSUME UNCHANGED sinkVars \/ Rest \/ Serve \/ ServeReturns \/ AcceptError \/ Signal
  PROVE  UNCHANGED Ledger!vars
<1>1. UNCHANGED vars /\ UNCHANGED <<report, timedOut>>
  BY DEF sinkVars, runVars, Rest, Serve, ServeReturns, AcceptError, Signal
<1> QED  BY <1>1, HandlerAtRest, LedgerStutter DEF Closed

-----------------------------------------------------------------------------
(* What the handlers do.                                                   *)

LEMMA StaticKept ==
  ASSUME TypeOK, TypeOK', NEW r \in Requests, Step(r)
  PROVE  UNCHANGED <<Batches, Volumes>>
<1>1. UNCHANGED shape /\ DOMAIN stats' = DOMAIN stats
  BY ShapeKept, StatsDomain DEF TypeOK
<1> QED  BY <1>1 DEF Batches, Volumes, Volume

\* an accepted request, or one that is rendered, was decoded from its whole body
LEMMA PayloadIsShape ==
  ASSUME StageInv, NEW r \in Requests, pc[r] \in {"decode", "render", "reply"}
  PROVE  /\ Payload(r).items = shape[r].items
         /\ Payload(r).lines = shape[r].lines
BY DEF StageInv, Stage, Payload

\* the last line of the batch is out, the handler leaves dispatch: the export is taken
LEMMA FinishIsTake ==
  ASSUME LedgerInv, TypeOK', NEW r \in Requests, Request(r), FinishDispatch(r)
  PROVE  Ledger!Take(r)
<1>0. /\ TypeOK /\ LockInv /\ StageInv /\ AnswerInv /\ OutputInv /\ Step(r)
      /\ UNCHANGED <<report, timedOut>>
  BY DEF LedgerInv, OutputInv, AnswerInv, RenderInv, Request, runVars
<1>1. /\ pc[r] = "render" /\ pc'[r] = "reply" /\ UNCHANGED <<shape, line, out, code>>
      /\ stats' = [stats EXCEPT !.requests = @ + 1]
      /\ line[r] = Payload(r).lines /\ mu' = NoOne
      /\ \A q \in Requests \ {r} : pc'[q] = pc[q]
  BY <1>0, GotoType DEF FinishDispatch, Phases
<1>2. mu = r /\ Rendering /\ ~Rendering'
  BY <1>0, <1>1, LockAssumption DEF LockInv, Rendering
<1>3. shape[r].path \in Signals  BY <1>0, <1>1 DEF AnswerInv, Answers
<1>4. ~Closed /\ ~Closed'
  BY <1>0, <1>1 DEF LedgerInv, DrainInv, Answered, Closed
<1>5. r \notin Taken /\ Taken' = Taken \cup {r} /\ Told' = Told
  BY <1>1, <1>3 DEF Taken, Told, Accepted
<1>6. WholeBatches' = WholeBatches \o Batches[r]
  <2> DEFINE n == line[r]
             p == Len(out) - n
  <2>1. out \in Seq(Line) /\ n \in Nat  BY <1>0 DEF TypeOK
  <2>2. /\ p \in 0..Len(out)
        /\ \A i \in 1..Len(out) : i > p => out[i] = [req |-> r, n |-> i - p]
    BY <1>0, <1>2, BlockAtEnd
  <2>3. Batches[r] = [i \in 1..n |-> [req |-> r, n |-> i]]
    BY <1>0, <1>1, PayloadIsShape DEF Batches
  <2>4. WholeBatches = SubSeq(out, 1, p)  BY <1>2 DEF WholeBatches
  <2>5. WholeBatches' = SubSeq(out, 1, Len(out))  BY <1>1, <1>2 DEF WholeBatches
  <2>6. out = SubSeq(out, 1, p) \o [i \in 1..n |-> [req |-> r, n |-> i]]
    <3> HIDE DEF n
    <3> QED  BY <2>1, <2>2
  <2>7. SubSeq(out, 1, Len(out)) = out  BY <2>1
  <2> QED  BY <2>3, <2>4, <2>5, <2>6, <2>7
<1>7. WholeTotals' = [c \in DOMAIN WholeTotals |-> WholeTotals[c] + Volumes[r][c]]
  <2>1. WholeTotals' = [stats EXCEPT !.requests = @ + 1]  BY <1>1, <1>2 DEF WholeTotals
  <2>2. Payload(r).items = shape[r].items /\ shape[r].items \in Nat
    BY <1>0, <1>1, PayloadIsShape, PayloadType
  <2>3. WholeTotals = [stats EXCEPT ![shape[r].path] = @ - shape[r].items]
    BY <1>2, <2>2 DEF WholeTotals
  <2>4. Volumes[r] = [c \in Counters |-> IF c = "requests" THEN 1
                                         ELSE IF c = shape[r].path THEN shape[r].items ELSE 0]
    BY <1>0, StatsDomain DEF Volumes, Volume
  <2>5. DOMAIN stats = Counters /\ \A c \in Counters : stats[c] \in Nat  BY <1>0, StatsDomain
  <2>6. shape[r].path \in Counters /\ shape[r].path # "requests"
    BY <1>3 DEF Counters, Signals
  <2>7. stats = [c \in Counters |-> stats[c]]  BY <1>0, <2>5 DEF TypeOK, Counters
  <2>8. DOMAIN WholeTotals = Counters /\ DOMAIN WholeTotals' = Counters
    BY <2>1, <2>3, <2>5
  <2>9. \A c \in Counters : WholeTotals'[c] = WholeTotals[c] + Volumes[r][c]
    BY <2>1, <2>2, <2>3, <2>4, <2>5, <2>6
  <2>10. WholeTotals' = [c \in Counters |-> WholeTotals'[c]]
    BY <2>1, <2>5
  <2> QED  BY <2>8, <2>9, <2>10
<1>8. UNCHANGED <<Batches, Volumes>>  BY <1>0, StaticKept
<1> QED  BY <1>0, <1>4, <1>5, <1>6, <1>7, <1>8
         DEF Ledger!Take, Batches, Volumes, Taken, Told, Closed

\* the 200 is sent: the sender of an export that was taken is told so
LEMMA ReplyIsAnswer ==
  ASSUME LedgerInv, TypeOK', NEW r \in Requests, Request(r), Reply(r)
  PROVE  Ledger!Answer(r)
<1>0. /\ TypeOK /\ LockInv /\ AnswerInv /\ Step(r) /\ UNCHANGED <<report, timedOut>>
  BY DEF LedgerInv, OutputInv, AnswerInv, RenderInv, Request, runVars
<1>1. /\ pc[r] = "reply" /\ pc'[r] = "done" /\ UNCHANGED <<shape, got, mu, line, out, stats>>
      /\ code'[r] = 200 /\ \A q \in Requests \ {r} : pc'[q] = pc[q] /\ code'[q] = code[q]
  <2>1. pc[r] = "reply" /\ pc'[r] = "done" /\ \A q \in Requests \ {r} : pc'[q] = pc[q]
    BY <1>0, GotoType DEF Reply, Phases
  <2>2. code'[r] = 200 /\ \A q \in Requests \ {r} : code'[q] = code[q]
    BY <1>0 DEF Reply, TypeOK
  <2> QED  BY <2>1, <2>2 DEF Reply
<1>2. shape[r].path \in Signals  BY <1>0, <1>1 DEF AnswerInv, Answers
<1>3. r \in Taken /\ r \notin Told /\ Taken' = Taken /\ Told' = Told \cup {r}
  BY <1>1, <1>2 DEF Taken, Told, Accepted
<1>4. UNCHANGED <<WholeBatches, WholeTotals>>
  <2>1. Rendering' = Rendering  BY <1>0, <1>1 DEF LockInv, Rendering
  <2> QED  BY <1>1, <2>1 DEF WholeBatches, WholeTotals, Payload
<1>5. UNCHANGED <<Batches, Volumes, Closed>>  BY <1>0, StaticKept DEF Closed
<1> QED  BY <1>0, <1>3, <1>4, <1>5 DEF Ledger!Answer, Batches, Volumes, Taken, Told, Closed

\* whatever else a handler does changes nothing the ledger sees
LEMMA OtherIsLedgerStutter ==
  ASSUME LedgerInv, TypeOK', NEW r \in Requests, Request(r), ~FinishDispatch(r), ~Reply(r)
  PROVE  UNCHANGED Ledger!vars
<1>0. /\ TypeOK /\ LockInv /\ SuffixInv /\ StageInv /\ AnswerInv /\ OutputInv /\ Step(r)
      /\ Answers(r) /\ UNCHANGED <<report, timedOut>>
      /\ UNCHANGED <<Batches, Volumes, Closed>>
      /\ \A q \in Requests \ {r} : UNCHANGED <<pc[q], got[q], line[q], code[q]>>
      /\ UNCHANGED shape
  BY StaticKept, OthersKeep, ShapeKept
     DEF LedgerInv, OutputInv, AnswerInv, RenderInv, Request, runVars, Closed
<1>1. UNCHANGED Taken /\ UNCHANGED Told
  <2>1. Accepted(r)' <=> Accepted(r)
    <3>1. CASE CountItems(r)
      BY <1>0, <3>1, GotoType DEF CountItems, Accepted, Phases
    <3> QED  BY <1>0, <3>1, CountMoves
  <2>2. Accepted(r) => (pc'[r] = "done" <=> pc[r] = "done")
    <3>1. CASE Client(r)
      BY <1>0, <3>1, GotoType DEF Client, Connect, Arrive, Drop, Accepted, Phases
    <3>2. CASE ServeHTTP(r)
      BY <1>0, <3>2, GotoType DEF ServeHTTP, Landing, NotFound, RejectMethod, RejectMediaType,
         Route, Reject, fail, Accepted, Phases
    <3>3. CASE readBody(r)
      <4>1. CASE ReadChunk(r)  BY <4>1 DEF ReadChunk
      <4>2. CASE ~ReadChunk(r)
        BY <1>0, <3>3, <4>2, GotoType DEF readBody, RejectEncoding, OpenBody, ReadFails, RejectTooBig,
           BodyRead, Reject, Accepted, Phases
      <4> QED  BY <4>1, <4>2
    <3>4. CASE dispatch(r)
      <4>1. CASE WriteLine(r) \/ Overflow(r)  BY <4>1 DEF WriteLine, Overflow
      <4>2. CASE Lock(r) \/ RejectPayload(r) \/ CountItems(r)
        BY <1>0, <4>2, GotoType DEF Lock, RejectPayload, CountItems, Reject, Accepted, Phases
      <4> QED  BY <3>4, <4>1, <4>2 DEF dispatch
    <3> QED  BY <1>0, <3>1, <3>2, <3>3, <3>4 DEF Step
  <2>3. \A q \in Requests \ {r} : (Accepted(q)' <=> Accepted(q)) /\ pc'[q] = pc[q]
    BY <1>0 DEF Accepted
  <2> QED  BY <2>1, <2>2, <2>3 DEF Taken, Told
<1>2. UNCHANGED <<WholeBatches, WholeTotals>>
  <2>1. CASE Client(r) \/ ServeHTTP(r) \/ readBody(r)
    <3>1. /\ UNCHANGED <<out, line, mu>>
          /\ pc[r] \notin {"decode", "render"} /\ pc'[r] \notin {"decode", "render"}
      BY <1>0, <2>1, OutsideStep
    <3>2. UNCHANGED stats
      <4>1. ~CountItems(r)  BY <3>1 DEF CountItems, Goto
      <4> QED  BY <1>0, <4>1, CountMoves
    <3>3. mu # r  BY <1>0, <3>1 DEF LockInv
    <3>4. Rendering' <=> Rendering  BY <1>0, <3>1, <3>3 DEF Rendering
    <3>5. CASE Rendering
      <4>1. Payload(mu)' = Payload(mu)  BY <1>0, <3>1, <3>3, <3>5 DEF Payload, Rendering
      <4> QED  BY <1>0, <3>1, <3>2, <3>4, <3>5, <4>1 DEF WholeBatches, WholeTotals
    <3>6. CASE ~Rendering  BY <3>1, <3>2, <3>4, <3>6 DEF WholeBatches, WholeTotals
    <3> QED  BY <3>5, <3>6
  <2>2. CASE Lock(r) \/ RejectPayload(r)
    <3>1. /\ UNCHANGED <<out, line, stats>> /\ mu' \in {r, NoOne} /\ pc'[r] # "render"
          /\ mu \in {r, NoOne} /\ pc[r] # "render"
      BY <1>0, <2>2, GotoType DEF Lock, RejectPayload, Reject, Phases, LockInv
    <3>2. ~Rendering /\ ~Rendering'  BY <3>1, LockAssumption DEF Rendering
    <3> QED  BY <3>1, <3>2 DEF WholeBatches, WholeTotals
  <2>3. CASE CountItems(r)
    <3>1. /\ pc[r] = "decode" /\ pc'[r] = "render" /\ UNCHANGED <<got, mu, line, out>>
          /\ stats' = [stats EXCEPT ![shape[r].path] = @ + Payload(r).items]
      BY <1>0, <2>3, GotoType DEF CountItems, Phases
    <3>2. mu = r /\ ~Rendering /\ Rendering' /\ line[r] = 0
      BY <1>0, <3>1 DEF LockInv, Rendering, SuffixInv, Unrendered
    <3>3. WholeBatches' = WholeBatches
      <4>1. Len(out) - 0 = Len(out)  BY <1>0 DEF TypeOK
      <4> QED  BY <3>1, <3>2, <4>1 DEF WholeBatches
    <3>4. Payload(r)' = Payload(r) /\ Payload(r).items \in Nat
      BY <1>0, <3>1, PayloadType DEF Payload
    <3>5. shape[r].path \in Signals  BY <1>0, <3>1 DEF Answers
    <3>6. [stats' EXCEPT ![shape[r].path] = @ - Payload(r).items] = stats
      <4>1. DOMAIN stats = Counters /\ shape[r].path \in Counters /\ \A c \in Counters : stats[c] \in Nat
        BY <1>0, <3>5, StatsDomain DEF Counters, Signals
      <4>2. stats = [c \in Counters |-> stats[c]]  BY <1>0, <4>1 DEF TypeOK, Counters
      <4> QED  BY <3>1, <3>4, <4>1, <4>2
    <3>7. WholeTotals' = WholeTotals
      BY <1>0, <3>1, <3>2, <3>4, <3>6 DEF WholeTotals
    <3> QED  BY <3>3, <3>7
  <2>4. CASE Overflow(r)
    <3>1. UNCHANGED <<pc, got, mu, line, out, stats>>  BY <2>4 DEF Overflow
    <3> QED  BY <1>0, <3>1 DEF WholeBatches, WholeTotals, Rendering, Payload
  <2>5. CASE WriteLine(r)
    <3>1. /\ pc[r] = "render" /\ UNCHANGED <<pc, got, mu, stats>>
          /\ line' = [line EXCEPT ![r] = @ + 1]
          /\ out' = Append(out, [req |-> r, n |-> line[r] + 1])
      BY <2>5 DEF WriteLine
    <3>2. mu = r /\ Rendering /\ Rendering'  BY <1>0, <3>1 DEF LockInv, Rendering
    <3>3. out \in Seq(Line) /\ line[r] \in Nat /\ line'[r] = line[r] + 1
      BY <1>0, <3>1 DEF TypeOK
    <3>4. Len(out) - line[r] \in 0..Len(out)  BY <1>0, <3>2, BlockAtEnd
    <3>5. SubSeq(out', 1, Len(out') - line'[r]) = SubSeq(out, 1, Len(out) - line[r])
      <4> DEFINE x == [req |-> r, n |-> line[r] + 1]
                 p == Len(out) - line[r]
      <4>1. x \in Line  BY <3>3 DEF Line
      <4>2. Len(out') - line'[r] = p  BY <3>1, <3>3, <4>1
      <4>3. SubSeq(Append(out, x), 1, p) = SubSeq(out, 1, p)
        <5> HIDE DEF x, p
        <5>1. p \in 0..Len(out)  BY <3>4 DEF p
        <5> QED  BY <3>3, <4>1, <5>1
      <4> QED  BY <3>1, <4>2, <4>3
    <3>6. WholeTotals' = WholeTotals
      BY <1>0, <3>1, <3>2 DEF WholeTotals, Payload
    <3> QED  BY <3>1, <3>2, <3>5, <3>6 DEF WholeBatches
  <2> QED  BY <1>0, <2>1, <2>2, <2>3, <2>4, <2>5 DEF Step, dispatch
<1> QED  BY <1>0, <1>1, <1>2, LedgerStutter

-----------------------------------------------------------------------------
LEMMA LedgerStep ==
  ASSUME LedgerInv, TypeOK', [SinkNext]_sinkVars
  PROVE  [Ledger!Next]_Ledger!vars
<1>1. CASE UNCHANGED sinkVars \/ Rest \/ Serve \/ ServeReturns \/ AcceptError \/ Signal
  BY <1>1, WorldIsLedgerStutter
<1>2. CASE Run  BY <1>2, RunIsLedgerStep
<1>3. ASSUME NEW r \in Requests, Request(r)  PROVE [Ledger!Next]_Ledger!vars
  <2>1. CASE FinishDispatch(r)  BY <1>3, <2>1, FinishIsTake DEF Ledger!Next
  <2>2. CASE Reply(r)  BY <1>3, <2>2, ReplyIsAnswer DEF Ledger!Next
  <2>3. CASE ~FinishDispatch(r) /\ ~Reply(r)  BY <1>3, <2>3, OtherIsLedgerStutter
  <2> QED  BY <2>1, <2>2, <2>3
<1> QED  BY <1>1, <1>2, <1>3 DEF SinkNext

LEMMA LedgerInvAlways == ASSUME MaxBody < MaxInt PROVE SinkSpec => []LedgerInv
<1>1. SinkSpec => []DrainInv  BY DrainInit, DrainStep, PTL DEF SinkSpec
<1>2. SinkSpec => []OutputInv  BY SinkRunsHandler, OutputAlways, PTL
<1>3. SinkSpec => []StageInv  BY SinkRunsHandler, StageAlways, PTL
<1> QED  BY <1>1, <1>2, <1>3, PTL DEF LedgerInv

\* The running process, with its signals, its drain timer, a failing listener and a batch
\* that kills it, keeps the promise of ExportLedger: exports are shown and counted whole and
\* one at a time, acknowledged only after that, and after a drained shutdown nothing is
\* added to what was reported.
THEOREM SinkKeepsLedger == ASSUME MaxBody < MaxInt PROVE SinkSpec => KeepsLedger
<1>1. LedgerInv => TypeOK  BY DEF LedgerInv, DrainInv
<1>2. LedgerInv /\ TypeOK' /\ [SinkNext]_sinkVars => [Ledger!Next]_Ledger!vars  BY LedgerStep
<1> QED  BY <1>1, <1>2, LedgerInit, LedgerInvAlways, PTL DEF SinkSpec, KeepsLedger, Ledger!Spec
=============================================================================
