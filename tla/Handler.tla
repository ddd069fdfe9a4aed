------------------------------- MODULE Handler -------------------------------
(***************************************************************************)
(* The OTLP/HTTP endpoint (internal/server/server.go): concurrent requests *)
(* are routed, read under a size cap, decoded and rendered one batch at a  *)
(* time under the render lock, counted, and answered.                      *)
(*                                                                         *)
(* net/http runs one goroutine per connection, so every request is a       *)
(* process of its own with a program counter pc[r].  What a request        *)
(* contains is abstracted to a "shape": the facts the handler's branches   *)
(* and the properties tell apart.                                          *)
(***************************************************************************)
EXTENDS Integers, Sequences, FiniteSetsExt

CONSTANTS
  Requests,   \* the requests clients may send, each on a connection of its own
  Shapes,     \* the request shapes a client may choose from
  MaxBody,    \* Handler.maxBody, the --max-body limit in bytes
  MaxInt,     \* the largest int64
  NoOne       \* the value of the render lock when nobody holds it

Signals == {"traces", "logs", "metrics"}

(***************************************************************************)
(* path      what req.URL.Path selects                                     *)
(* ctype     mediaType(Content-Type), parameters already stripped          *)
(* encoding  the normalised Content-Encoding; gzipOK: its header is valid  *)
(* size      decompressed body length; cut: the stream fails before it     *)
(*           ends (client gone, truncated or corrupt gzip)                 *)
(* decodes   the whole body is a well-formed message                       *)
(* items     spans, log records or metrics in it                           *)
(* lines     lines the renderer writes for it after its filters            *)
(* cyclic    two spans name each other as parent (pretty mode)             *)
(***************************************************************************)
ShapeType ==
  [path     : Signals \cup {"root", "other"},
   method   : {"POST", "GET"},
   ctype    : {"proto", "json", "other"},
   encoding : {"identity", "gzip", "other"},
   gzipOK   : BOOLEAN,
   size     : Nat,
   cut      : BOOLEAN,
   decodes  : BOOLEAN,
   items    : Nat,
   lines    : Nat,
   cyclic   : BOOLEAN]

ASSUME ShapesAssumption ==
  /\ Shapes \subseteq ShapeType
  /\ \A s \in Shapes : s.cyclic => s.path = "traces" /\ s.lines > 0

ASSUME BodyAssumption == MaxInt \in Nat /\ MaxBody \in 1..MaxInt

ASSUME LockAssumption == NoOne \notin Requests

VARIABLES
  shape,    \* what each client sends
  pc,       \* where each request is
  got,      \* bytes of the body read so far
  mu,       \* holder of Handler.mu
  line,     \* lines of the batch written so far
  out,      \* stdout: the lines written, in order
  stats,    \* Handler.stats
  code,     \* HTTP status decided for the request, 0 before
  rpc,      \* google.rpc code in the error body, 0 if there is none
  warned,   \* stderr diagnostics written for the request
  crashed   \* the Go runtime aborted the process

vars == <<shape, pc, got, mu, line, out, stats, code, rpc, warned, crashed>>

Phases == {"idle", "connected", "serve", "open", "read", "dispatch",
           "decode", "render", "reply", "fail", "done", "closed"}

Codes == {0, 200, 400, 404, 405, 415}

Line == [req : Requests, n : Nat]

TypeOK ==
  /\ shape \in [Requests -> Shapes]
  /\ pc \in [Requests -> Phases]
  /\ got \in [Requests -> Nat]
  /\ mu \in Requests \cup {NoOne}
  /\ line \in [Requests -> Nat]
  /\ out \in Seq(Line)
  /\ stats \in [requests : Nat, traces : Nat, logs : Nat, metrics : Nat]
  /\ code \in [Requests -> Codes]
  /\ rpc \in [Requests -> {0, 2, 3, 12}]
  /\ warned \in [Requests -> Nat]
  /\ crashed \in BOOLEAN

Init ==
  /\ shape \in [Requests -> Shapes]
  /\ pc = [r \in Requests |-> "idle"]
  /\ got = [r \in Requests |-> 0]
  /\ mu = NoOne
  /\ line = [r \in Requests |-> 0]
  /\ out = << >>
  /\ stats = [requests |-> 0, traces |-> 0, logs |-> 0, metrics |-> 0]
  /\ code = [r \in Requests |-> 0]
  /\ rpc = [r \in Requests |-> 0]
  /\ warned = [r \in Requests |-> 0]
  /\ crashed = FALSE

-----------------------------------------------------------------------------
(* Moves shared by the actions.                                            *)

Goto(r, from, to) == pc[r] = from /\ pc' = [pc EXCEPT ![r] = to]

\* h.fail is called with this status
Reject(r, from, status) ==
  /\ Goto(r, from, "fail")
  /\ code' = [code EXCEPT ![r] = status]

\* mutants: 415 falls through to UNKNOWN; the HTTP status is sent as it is
rpcCode_No415(status) == IF status = 400 THEN 3 ELSE IF status = 405 THEN 12 ELSE 2
rpcCode_Raw(status) == status

rpcCode(status) ==
  CASE status = 400 -> 3
    [] status \in {405, 415} -> 12
    [] OTHER -> 2

\* mutant: the limit has no byte to spare, so a longer body looks complete
Limit_NoProbe == MaxBody

\* h.maxBody+1 in int64 arithmetic, the N of the io.LimitReader
Limit == IF MaxBody = MaxInt THEN -MaxInt - 1 ELSE MaxBody + 1

\* What the decoder makes of the bytes it is given.  They are the whole body,
\* or none of it when Limit wrapped: an empty protobuf message is valid and
\* holds nothing, an empty JSON document is an error.
Payload(r) ==
  IF got[r] = shape[r].size
  THEN [decodes |-> shape[r].decodes, items |-> shape[r].items,
        lines |-> shape[r].lines, cyclic |-> shape[r].cyclic]
  ELSE [decodes |-> shape[r].ctype = "proto", items |-> 0,
        lines |-> IF shape[r].path = "metrics" THEN 1 ELSE 0, cyclic |-> FALSE]

-----------------------------------------------------------------------------
(* The client and net/http.                                                *)

Connect(r) ==
  /\ Goto(r, "idle", "connected")
  /\ UNCHANGED <<shape, got, mu, line, out, stats, code, rpc, warned, crashed>>

\* the request header is complete: the server calls ServeHTTP
Arrive(r) ==
  /\ Goto(r, "connected", "serve")
  /\ UNCHANGED <<shape, got, mu, line, out, stats, code, rpc, warned, crashed>>

\* ReadHeaderTimeout expires or the client leaves before its header is complete
Drop(r) ==
  /\ Goto(r, "connected", "closed")
  /\ UNCHANGED <<shape, got, mu, line, out, stats, code, rpc, warned, crashed>>

-----------------------------------------------------------------------------
(* ServeHTTP: routing, in the order of its early returns.                  *)

Landing(r) ==
  /\ shape[r].path = "root"
  /\ Goto(r, "serve", "done")
  /\ code' = [code EXCEPT ![r] = 200]
  /\ UNCHANGED <<shape, got, mu, line, out, stats, rpc, warned, crashed>>

NotFound(r) ==
  /\ shape[r].path = "other"
  /\ Goto(r, "serve", "done")
  /\ code' = [code EXCEPT ![r] = 404]
  /\ UNCHANGED <<shape, got, mu, line, out, stats, rpc, warned, crashed>>

RejectMethod(r) ==
  /\ shape[r].path \in Signals
  /\ shape[r].method # "POST"
  /\ Reject(r, "serve", 405)
  /\ UNCHANGED <<shape, got, mu, line, out, stats, rpc, warned, crashed>>

RejectMediaType(r) ==
  /\ shape[r].path \in Signals
  /\ shape[r].method = "POST"
  /\ shape[r].ctype = "other"
  /\ Reject(r, "serve", 415)
  /\ UNCHANGED <<shape, got, mu, line, out, stats, rpc, warned, crashed>>

Route(r) ==
  /\ shape[r].path \in Signals
  /\ shape[r].method = "POST"
  /\ shape[r].ctype # "other"
  /\ Goto(r, "serve", "open")
  /\ UNCHANGED <<shape, got, mu, line, out, stats, code, rpc, warned, crashed>>

-----------------------------------------------------------------------------
(* readBody, outside the lock.                                             *)

RejectEncoding(r) ==
  /\ \/ shape[r].encoding = "other"
     \/ (shape[r].encoding = "gzip" /\ ~shape[r].gzipOK)
  /\ Reject(r, "open", 400)
  /\ UNCHANGED <<shape, got, mu, line, out, stats, rpc, warned, crashed>>

OpenBody(r) ==
  /\ \/ shape[r].encoding = "identity"
     \/ shape[r].encoding = "gzip" /\ shape[r].gzipOK
  /\ Goto(r, "open", "read")
  /\ UNCHANGED <<shape, got, mu, line, out, stats, code, rpc, warned, crashed>>

ReadChunk(r) ==
  /\ pc[r] = "read"
  /\ got[r] < Limit
  /\ got[r] < shape[r].size
  /\ got' = [got EXCEPT ![r] = @ + 1]
  /\ UNCHANGED <<shape, pc, mu, line, out, stats, code, rpc, warned, crashed>>

ReadFails(r) ==
  /\ shape[r].cut
  /\ got[r] < Limit
  /\ Reject(r, "read", 400)
  /\ UNCHANGED <<shape, got, mu, line, out, stats, rpc, warned, crashed>>

\* io.ReadAll saw EOF: the limit is used up or the stream ended
AtEOF(r) == got[r] >= Limit \/ (got[r] = shape[r].size /\ ~shape[r].cut)

\* mutant: a body over the limit is answered on the spot, without h.fail
RejectTooBig_Bare(r) ==
  /\ AtEOF(r)
  /\ got[r] > MaxBody
  /\ Goto(r, "read", "done")
  /\ code' = [code EXCEPT ![r] = 400]
  /\ UNCHANGED <<shape, got, mu, line, out, stats, rpc, warned, crashed>>

RejectTooBig(r) ==
  /\ AtEOF(r)
  /\ got[r] > MaxBody
  /\ Reject(r, "read", 400)
  /\ UNCHANGED <<shape, got, mu, line, out, stats, rpc, warned, crashed>>

BodyRead(r) ==
  /\ AtEOF(r)
  /\ got[r] <= MaxBody
  /\ Goto(r, "read", "dispatch")
  /\ UNCHANGED <<shape, got, mu, line, out, stats, code, rpc, warned, crashed>>

-----------------------------------------------------------------------------
(* dispatch, under the lock, and the renderer it calls.                    *)

\* mutant: dispatch does not take the lock
Lock_Missing(r) ==
  /\ Goto(r, "dispatch", "decode")
  /\ mu' = r
  /\ UNCHANGED <<shape, got, line, out, stats, code, rpc, warned, crashed>>

Lock(r) ==
  /\ mu = NoOne
  /\ Goto(r, "dispatch", "decode")
  /\ mu' = r
  /\ UNCHANGED <<shape, got, line, out, stats, code, rpc, warned, crashed>>

\* mutants: the early return keeps the lock; it counts the request
RejectPayload_NoUnlock(r) ==
  /\ ~Payload(r).decodes
  /\ Reject(r, "decode", 400)
  /\ UNCHANGED <<shape, got, mu, line, out, stats, rpc, warned, crashed>>

RejectPayload_Counted(r) ==
  /\ ~Payload(r).decodes
  /\ Reject(r, "decode", 400)
  /\ mu' = NoOne
  /\ stats' = [stats EXCEPT !.requests = @ + 1]
  /\ UNCHANGED <<shape, got, line, out, rpc, warned, crashed>>

RejectPayload(r) ==
  /\ ~Payload(r).decodes
  /\ Reject(r, "decode", 400)
  /\ mu' = NoOne
  /\ UNCHANGED <<shape, got, line, out, stats, rpc, warned, crashed>>

CountItems(r) ==
  /\ Payload(r).decodes
  /\ Goto(r, "decode", "render")
  /\ stats' = [stats EXCEPT ![shape[r].path] = @ + Payload(r).items]
  /\ UNCHANGED <<shape, got, mu, line, out, code, rpc, warned, crashed>>

\* one Fprintln of the renderer
WriteLine(r) ==
  /\ pc[r] = "render"
  /\ line[r] < Payload(r).lines
  /\ line' = [line EXCEPT ![r] = @ + 1]
  /\ out' = Append(out, [req |-> r, n |-> line[r] + 1])
  /\ UNCHANGED <<shape, pc, got, mu, stats, code, rpc, warned, crashed>>

\* nameColumnWidth never returns from a parent cycle; the stack limit is fatal.
\* The lines of such a batch are those written before the widths are computed.
Overflow(r) ==
  /\ pc[r] = "render"
  /\ Payload(r).cyclic
  /\ line[r] = Payload(r).lines
  /\ crashed' = TRUE
  /\ UNCHANGED <<shape, pc, got, mu, line, out, stats, code, rpc, warned>>

\* mutant: the rest of the batch is left to be written after the answer
FinishDispatch_Early(r) ==
  /\ ~Payload(r).cyclic
  /\ Goto(r, "render", "reply")
  /\ stats' = [stats EXCEPT !.requests = @ + 1]
  /\ mu' = NoOne
  /\ UNCHANGED <<shape, got, line, out, code, rpc, warned, crashed>>

FinishDispatch(r) ==
  /\ ~Payload(r).cyclic
  /\ line[r] = Payload(r).lines
  /\ Goto(r, "render", "reply")
  /\ stats' = [stats EXCEPT !.requests = @ + 1]
  /\ mu' = NoOne
  /\ UNCHANGED <<shape, got, line, out, code, rpc, warned, crashed>>

-----------------------------------------------------------------------------
(* The answer.                                                             *)

Reply(r) ==
  /\ Goto(r, "reply", "done")
  /\ code' = [code EXCEPT ![r] = 200]
  /\ UNCHANGED <<shape, got, mu, line, out, stats, rpc, warned, crashed>>

fail(r) ==
  /\ Goto(r, "fail", "done")
  /\ warned' = [warned EXCEPT ![r] = @ + 1]
  /\ rpc' = [rpc EXCEPT ![r] = rpcCode(code[r])]
  /\ UNCHANGED <<shape, got, mu, line, out, stats, code, crashed>>

-----------------------------------------------------------------------------
ServeHTTP(r) ==
  \/ Landing(r) \/ NotFound(r) \/ RejectMethod(r) \/ RejectMediaType(r)
  \/ Route(r) \/ Reply(r) \/ fail(r)

readBody(r) ==
  \/ RejectEncoding(r) \/ OpenBody(r) \/ ReadChunk(r) \/ ReadFails(r)
  \/ RejectTooBig(r) \/ BodyRead(r)

dispatch(r) ==
  \/ Lock(r) \/ RejectPayload(r) \/ CountItems(r) \/ WriteLine(r)
  \/ Overflow(r) \/ FinishDispatch(r)

Client(r) == Connect(r) \/ Arrive(r) \/ Drop(r)

Step(r) == Client(r) \/ ServeHTTP(r) \/ readBody(r) \/ dispatch(r)

\* Nothing is left to do: every request was answered or its connection closed,
\* or the process is gone.
Quiet == crashed \/ \A r \in Requests : pc[r] \in {"done", "closed"}

Stutter == Quiet /\ UNCHANGED vars

Next == Stutter \/ (~crashed /\ \E r \in Requests : Step(r))

Spec == Init /\ [][Next]_vars

(***************************************************************************)
(* The server's own work, which the Go scheduler, a fair mutex and a       *)
(* draining stdout always carry on with.  A client may stall for ever, so  *)
(* connecting, sending the header and sending the body are not in it.      *)
(***************************************************************************)
Own(r) ==
  \/ ServeHTTP(r) \/ RejectTooBig(r) \/ BodyRead(r)
  \/ (shape[r].encoding = "other" /\ RejectEncoding(r))
  \/ dispatch(r)

FairSpec == Spec /\ \A r \in Requests : WF_vars(~crashed /\ Own(r))

-----------------------------------------------------------------------------
(* Properties.                                                             *)

\* dispatch succeeded for r
Accepted(r) ==
  /\ shape[r].path \in Signals
  /\ pc[r] = "reply" \/ (pc[r] = "done" /\ code[r] = 200)

\* "concurrent exporters cannot interleave their trace trees" (Handler's doc
\* comment): between two lines of one batch there are only lines of that batch.
NoInterleaving ==
  \A i, k \in DOMAIN out :
    out[i].req = out[k].req => \A j \in i..k : out[j].req = out[i].req

\* The lines of r on stdout are one block of n, numbered in order, and no others.
Shows(r, n) ==
  \E p \in 0..Len(out) - n : \A i \in DOMAIN out :
    IF i \in p+1..p+n THEN out[i] = [req |-> r, n |-> i - p] ELSE out[i].req # r

\* A 200 on a signal path is sent only when the whole batch is on stdout, line
\* by line; a refused request has left nothing there.
AnswerMatchesOutput ==
  \A r \in Requests : pc[r] \in {"reply", "fail", "done"} =>
    Shows(r, IF Accepted(r) THEN Payload(r).lines ELSE 0)

\* What the shutdown summary reads under the lock is the volume of the batches
\* accepted so far: a rejection never inflates it and no batch is half counted.
StatsMatchAccepted ==
  mu = NoOne =>
    /\ stats.requests = Cardinality({r \in Requests : Accepted(r)})
    /\ \A sig \in Signals :
         stats[sig] = MapThenSumSet(LAMBDA r : Payload(r).items,
                        {r \in Requests : Accepted(r) /\ shape[r].path = sig})

\* readBody never hands on a prefix of a body as if it were the body, and never
\* buffers more than one byte beyond the limit, whatever gzip expands to.
WholeBodyOrNothing ==
  \A r \in Requests :
    /\ got[r] <= MaxBody + 1
    /\ pc[r] \in {"dispatch", "decode", "render", "reply"} =>
         got[r] = shape[r].size /\ got[r] <= MaxBody

Readable(s) == s.encoding = "identity" \/ (s.encoding = "gzip" /\ s.gzipOK)

Exportable(s) ==
  /\ s.method = "POST"
  /\ s.ctype \in {"proto", "json"}
  /\ Readable(s)
  /\ ~s.cut /\ s.size <= MaxBody /\ s.decodes

Refusal(s) ==
  IF s.method # "POST" THEN <<405, 12>>
  ELSE IF s.ctype = "other" THEN <<415, 12>> ELSE <<400, 3>>

\* What an OTLP exporter is promised: an export is accepted exactly when it is
\* one, and a refusal carries the status and rpc code of its first defect.
AcceptedIffExportable ==
  \A r \in Requests : pc[r] = "done" /\ shape[r].path \in Signals =>
    IF Exportable(shape[r]) THEN code[r] = 200
    ELSE <<code[r], rpc[r]>> = Refusal(shape[r])

\* Whatever is wrong with an export and wherever the handler finds out, before it is
\* answered one line on stderr says so; an export in order leaves none, and nor does a
\* request for another path.
RefusalsAreDiagnosed ==
  \A r \in Requests :
    warned[r] = IF pc[r] = "done" /\ shape[r].path \in Signals /\ ~Exportable(shape[r])
                THEN 1 ELSE 0

\* A client that stalls in the middle of its upload does not hold up the others:
\* bodies are read before the lock is taken.
SlowClientsBlockNobody ==
  \A r \in Requests :
    pc[r] \in {"dispatch", "fail"} ~> crashed \/ pc[r] = "done"
=============================================================================
