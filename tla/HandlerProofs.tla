---------------------------- MODULE HandlerProofs ----------------------------
(***************************************************************************)
(* Theorems about Handler, for every set of requests, every set of shapes  *)
(* and every body limit: what each request does and is told, then what     *)
(* the answers promise of the output and of the counters.                  *)
(***************************************************************************)
EXTENDS Handler, DataLemmas

\* What a decoder is handed has the types the counters and the renderer need.
LEMMA PayloadType ==
  ASSUME TypeOK, NEW r \in Requests
  PROVE  /\ Payload(r).decodes \in BOOLEAN
         /\ Payload(r).items \in Nat
         /\ Payload(r).lines \in Nat
         /\ Payload(r).cyclic \in BOOLEAN
         /\ shape[r] \in ShapeType
<1>1. shape[r] \in ShapeType  BY ShapesAssumption DEF TypeOK
<1> QED  BY <1>1 DEF Payload, ShapeType

\* Adding to one counter of the totals leaves totals (an unknown counter changes
\* nothing).
LEMMA StatsAdd ==
  ASSUME NEW t \in [requests : Nat, traces : Nat, logs : Nat, metrics : Nat],
         NEW c, NEW n \in Nat
  PROVE  [t EXCEPT ![c] = @ + n] \in [requests : Nat, traces : Nat, logs : Nat, metrics : Nat]
<1> DEFINE D == {"requests", "traces", "logs", "metrics"}
<1>1. DOMAIN t = D /\ \A d \in D : t[d] \in Nat
  OBVIOUS
<1>2. [t EXCEPT ![c] = @ + n] = [d \in D |-> IF d = c THEN t[d] + n ELSE t[d]]
  BY <1>1
<1> QED  BY <1>1, <1>2

LEMMA TypeInit == Init => TypeOK
<1> SUFFICES ASSUME Init PROVE TypeOK  OBVIOUS
<1>1. /\ stats \in [requests : Nat, traces : Nat, logs : Nat, metrics : Nat]
      /\ out \in Seq(Line)
  BY DEF Init
<1>2. /\ shape \in [Requests -> Shapes] /\ pc \in [Requests -> Phases]
      /\ got \in [Requests -> Nat] /\ line \in [Requests -> Nat]
      /\ code \in [Requests -> Codes] /\ rpc \in [Requests -> {0, 2, 3, 12}]
      /\ warned \in [Requests -> Nat]
  BY DEF Init, Phases, Codes
<1>3. mu \in Requests \cup {NoOne} /\ crashed \in BOOLEAN  BY DEF Init
<1> QED  BY <1>1, <1>2, <1>3 DEF TypeOK

\* where a request is, and what it has been told, after a move
LEMMA GotoType ==
  ASSUME TypeOK, NEW r \in Requests, NEW from, NEW to \in Phases, Goto(r, from, to)
  PROVE  /\ pc' \in [Requests -> Phases] /\ pc[r] = from /\ pc'[r] = to
         /\ \A q \in Requests \ {r} : pc'[q] = pc[q]
BY DEF TypeOK, Goto

LEMMA CodeType ==
  ASSUME TypeOK, NEW r \in Requests, NEW c \in Codes, code' = [code EXCEPT ![r] = c]
  PROVE  code' \in [Requests -> Codes] /\ code'[r] = c
BY DEF TypeOK

LEMMA RejectType ==
  ASSUME TypeOK, NEW r \in Requests, NEW from, NEW status \in Codes, Reject(r, from, status)
  PROVE  /\ pc' \in [Requests -> Phases] /\ code' \in [Requests -> Codes]
         /\ pc[r] = from /\ pc'[r] = "fail" /\ code'[r] = status
<1>1. "fail" \in Phases  BY DEF Phases
<1> QED  BY <1>1, GotoType, CodeType DEF Reject

\* a step that moves a request and writes nothing keeps the types
LEMMA MoveType ==
  ASSUME TypeOK, UNCHANGED <<shape, got, line, out, stats, rpc, warned, crashed>>,
         pc' \in [Requests -> Phases], code' \in [Requests -> Codes],
         mu' \in Requests \cup {NoOne}
  PROVE  TypeOK'
BY DEF TypeOK

LEMMA TypeStep ==
  ASSUME TypeOK, [Next]_vars
  PROVE  TypeOK'
<1>0. /\ {200, 400, 404, 405, 415} \subseteq Codes
      /\ code \in [Requests -> Codes] /\ mu \in Requests \cup {NoOne}
      /\ {"connected", "serve", "closed", "open", "read", "dispatch", "decode",
          "render", "reply", "done"} \subseteq Phases
  BY DEF Codes, Phases, TypeOK
<1>1. CASE UNCHANGED vars  BY <1>1 DEF vars, TypeOK
<1>2. CASE Stutter  BY <1>2 DEF Stutter, vars, TypeOK
<1>3. ASSUME NEW r \in Requests, Client(r)  PROVE TypeOK'
  <2>1. CASE Connect(r)  BY <1>0, <2>1, GotoType, MoveType DEF Connect
  <2>2. CASE Arrive(r)  BY <1>0, <2>2, GotoType, MoveType DEF Arrive
  <2>3. CASE Drop(r)  BY <1>0, <2>3, GotoType, MoveType DEF Drop
  <2> QED  BY <1>3, <2>1, <2>2, <2>3 DEF Client
<1>4. ASSUME NEW r \in Requests, ServeHTTP(r)  PROVE TypeOK'
  <2>1. CASE Landing(r)  BY <1>0, <2>1, GotoType, CodeType, MoveType DEF Landing
  <2>2. CASE NotFound(r)  BY <1>0, <2>2, GotoType, CodeType, MoveType DEF NotFound
  <2>3. CASE Route(r)  BY <1>0, <2>3, GotoType, MoveType DEF Route
  <2>4. CASE fail(r)
    <3>1. rpcCode(code[r]) \in {0, 2, 3, 12}  BY <1>0 DEF rpcCode, Codes
    <3>2. rpc' \in [Requests -> {0, 2, 3, 12}]  BY <2>4, <3>1 DEF fail, TypeOK
    <3>3. warned' \in [Requests -> Nat]  BY <2>4 DEF fail, TypeOK
    <3>4. pc' \in [Requests -> Phases]  BY <1>0, <2>4, GotoType DEF fail
    <3> QED  BY <2>4, <3>2, <3>3, <3>4 DEF fail, TypeOK
  <2>5. CASE Reply(r)  BY <1>0, <2>5, GotoType, CodeType, MoveType DEF Reply
  <2>6. CASE RejectMethod(r)  BY <1>0, <2>6, RejectType, MoveType DEF RejectMethod
  <2>7. CASE RejectMediaType(r)  BY <1>0, <2>7, RejectType, MoveType DEF RejectMediaType
  <2> QED  BY <1>4, <2>1, <2>2, <2>3, <2>4, <2>5, <2>6, <2>7 DEF ServeHTTP
<1>5. ASSUME NEW r \in Requests, readBody(r)  PROVE TypeOK'
  <2>1. CASE RejectEncoding(r)  BY <1>0, <2>1, RejectType, MoveType DEF RejectEncoding
  <2>2. CASE OpenBody(r)  BY <1>0, <2>2, GotoType, MoveType DEF OpenBody
  <2>3. CASE ReadChunk(r)
    <3>1. got' \in [Requests -> Nat]  BY <2>3 DEF ReadChunk, TypeOK
    <3> QED  BY <2>3, <3>1 DEF ReadChunk, TypeOK
  <2>4. CASE ReadFails(r)  BY <1>0, <2>4, RejectType, MoveType DEF ReadFails
  <2>5. CASE RejectTooBig(r)  BY <1>0, <2>5, RejectType, MoveType DEF RejectTooBig
  <2>6. CASE BodyRead(r)  BY <1>0, <2>6, GotoType, MoveType DEF BodyRead
  <2> QED  BY <1>5, <2>1, <2>2, <2>3, <2>4, <2>5, <2>6 DEF readBody
<1>6. ASSUME NEW r \in Requests, dispatch(r)  PROVE TypeOK'
  <2>1. CASE Lock(r)  BY <1>0, <2>1, GotoType, MoveType DEF Lock
  <2>2. CASE RejectPayload(r)  BY <1>0, <2>2, RejectType, MoveType DEF RejectPayload
  <2>3. CASE CountItems(r)
    <3>1. Payload(r).items \in Nat /\ shape[r].path \in Signals \cup {"root", "other"}
      BY PayloadType DEF ShapeType
    <3>2. stats' \in [requests : Nat, traces : Nat, logs : Nat, metrics : Nat]
      BY <3>1, <2>3, StatsAdd DEF CountItems, TypeOK
    <3>3. pc' \in [Requests -> Phases]  BY <1>0, <2>3, GotoType DEF CountItems
    <3> QED  BY <2>3, <3>2, <3>3 DEF CountItems, TypeOK
  <2>4. CASE WriteLine(r)
    <3>1. line[r] + 1 \in Nat /\ line' \in [Requests -> Nat]
      BY <2>4 DEF WriteLine, TypeOK
    <3>2. [req |-> r, n |-> line[r] + 1] \in Line  BY <3>1 DEF Line
    <3>3. out \in Seq(Line) /\ out' = Append(out, [req |-> r, n |-> line[r] + 1])
      BY <2>4 DEF WriteLine, TypeOK
    <3>4. out' \in Seq(Line)  BY <3>2, <3>3
    <3> QED  BY <2>4, <3>1, <3>4 DEF WriteLine, TypeOK
  <2>5. CASE Overflow(r)  BY <2>5 DEF Overflow, TypeOK
  <2>6. CASE FinishDispatch(r)
    <3>1. stats' \in [requests : Nat, traces : Nat, logs : Nat, metrics : Nat]
      BY <2>6, StatsAdd DEF FinishDispatch, TypeOK
    <3>2. pc' \in [Requests -> Phases]  BY <1>0, <2>6, GotoType DEF FinishDispatch
    <3> QED  BY <2>6, <3>1, <3>2 DEF FinishDispatch, TypeOK
  <2> QED  BY <1>6, <2>1, <2>2, <2>3, <2>4, <2>5, <2>6 DEF dispatch
<1> QED  BY <1>1, <1>2, <1>3, <1>4, <1>5, <1>6 DEF Next, Step

\* Every variable of the handler keeps its type.
THEOREM TypeCorrect == Spec => []TypeOK
<1>1. Init => TypeOK  BY TypeInit
<1>2. TypeOK /\ [Next]_vars => TypeOK'  BY TypeStep
<1> QED  BY <1>1, <1>2, PTL DEF Spec

-----------------------------------------------------------------------------
(* The render lock.                                                        *)

\* the lock is held by exactly the request that is inside dispatch
LockInv == \A r \in Requests : pc[r] \in {"decode", "render"} <=> mu = r

Unrendered == {"idle", "connected", "serve", "open", "read", "dispatch", "decode"}

\* The lines of the lock holder are the end of the output; a request that has
\* not come to the renderer has none.
SuffixInv ==
  \A r \in Requests :
    /\ pc[r] \in Unrendered => line[r] = 0 /\ \A i \in DOMAIN out : out[i].req # r
    /\ mu = r => \A i \in DOMAIN out : out[i].req = r <=> i > Len(out) - line[r]

RenderInv == TypeOK /\ LockInv /\ SuffixInv /\ NoInterleaving

LEMMA RenderInit == Init => RenderInv
<1> SUFFICES ASSUME Init PROVE RenderInv  OBVIOUS
<1>1. TypeOK  BY TypeInit
<1>2. LockInv /\ SuffixInv /\ NoInterleaving
  BY LockAssumption DEF Init, LockInv, SuffixInv, NoInterleaving
<1> QED  BY <1>1, <1>2 DEF RenderInv

\* a step that writes no line keeps the order of the output
LEMMA SilentStep ==
  ASSUME RenderInv, TypeOK', LockInv', UNCHANGED <<out, line>>,
         NEW r \in Requests,
         pc'[r] \in Unrendered => pc[r] \in Unrendered,
         \A q \in Requests \ {r} : pc'[q] = pc[q],
         mu' \in {mu, NoOne} \/ (mu' = r /\ pc[r] = "dispatch")
  PROVE  RenderInv'
<1>1. SuffixInv'
  <2> SUFFICES ASSUME NEW q \in Requests
               PROVE  /\ pc'[q] \in Unrendered =>
                           line[q] = 0 /\ \A i \in DOMAIN out : out[i].req # q
                      /\ mu' = q => \A i \in DOMAIN out : out[i].req = q <=> i > Len(out) - line[q]
    BY DEF SuffixInv
  <2>1. pc'[q] \in Unrendered => pc[q] \in Unrendered  OBVIOUS
  <2>2. CASE mu = q  BY <2>1, <2>2 DEF RenderInv, SuffixInv
  <2>3. CASE mu' = r /\ pc[r] = "dispatch" /\ q = r
    <3>1. line[q] = 0 /\ \A i \in DOMAIN out : out[i].req # q
      BY <2>3 DEF RenderInv, SuffixInv, Unrendered
    <3>a. out \in Seq(Line)  BY DEF RenderInv, TypeOK
    <3>2. Len(out) \in Nat /\ DOMAIN out = 1..Len(out)  BY <3>a
    <3>3. \A i \in DOMAIN out : ~(i > Len(out) - line[q])
      BY <3>1, <3>2
    <3> QED  BY <3>1, <3>3
  <2>4. CASE mu' # q  BY <2>1, <2>4 DEF RenderInv, SuffixInv
  <2> QED  BY <2>2, <2>3, <2>4, LockAssumption
<1>2. NoInterleaving'  BY DEF RenderInv, NoInterleaving
<1> QED  BY <1>1, <1>2 DEF RenderInv

\* outside dispatch a request neither writes nor touches the lock
LEMMA OutsideStep ==
  ASSUME TypeOK, NEW r \in Requests, Client(r) \/ ServeHTTP(r) \/ readBody(r)
  PROVE  /\ UNCHANGED <<out, line, mu>>
         /\ pc[r] \notin {"decode", "render"} /\ pc'[r] \notin {"decode", "render"}
         /\ pc'[r] \in Unrendered => pc[r] \in Unrendered
         /\ \A q \in Requests \ {r} : pc'[q] = pc[q]
<1> USE DEF TypeOK, Goto, Unrendered
<1>1. CASE Client(r)  BY <1>1 DEF Client, Connect, Arrive, Drop
<1>2. CASE ServeHTTP(r)
  <2>1. CASE Landing(r) \/ NotFound(r) \/ Reply(r) \/ fail(r)
    BY <2>1 DEF Landing, NotFound, Reply, fail
  <2>2. CASE RejectMethod(r) \/ RejectMediaType(r) \/ Route(r)
    BY <2>2 DEF RejectMethod, RejectMediaType, Route, Reject
  <2> QED  BY <1>2, <2>1, <2>2 DEF ServeHTTP
<1>3. CASE readBody(r)
  <2>1. CASE RejectEncoding(r) \/ ReadFails(r) \/ RejectTooBig(r)
    BY <2>1 DEF RejectEncoding, ReadFails, RejectTooBig, Reject
  <2>2. CASE OpenBody(r) \/ ReadChunk(r) \/ BodyRead(r)
    BY <2>2 DEF OpenBody, ReadChunk, BodyRead
  <2> QED  BY <1>3, <2>1, <2>2 DEF readBody
<1> QED  BY <1>1, <1>2, <1>3

LEMMA RenderStep ==
  ASSUME RenderInv, [Next]_vars
  PROVE  RenderInv'
<1>0. TypeOK /\ TypeOK'  BY TypeStep DEF RenderInv
<1>1. CASE UNCHANGED vars
  BY <1>0, <1>1 DEF vars, RenderInv, LockInv, SuffixInv, NoInterleaving
<1>2. CASE Stutter
  BY <1>0, <1>2 DEF Stutter, vars, RenderInv, LockInv, SuffixInv, NoInterleaving
<1>3. ASSUME NEW r \in Requests, Client(r) \/ ServeHTTP(r) \/ readBody(r)  PROVE RenderInv'
  <2>1. /\ UNCHANGED <<out, line, mu>>
        /\ pc[r] \notin {"decode", "render"} /\ pc'[r] \notin {"decode", "render"}
        /\ pc'[r] \in Unrendered => pc[r] \in Unrendered
        /\ \A q \in Requests \ {r} : pc'[q] = pc[q]
    BY <1>0, <1>3, OutsideStep
  <2>2. LockInv'  BY <2>1 DEF RenderInv, LockInv
  <2> QED  BY <1>0, <2>1, <2>2, SilentStep
<1>4. ASSUME NEW r \in Requests, dispatch(r)  PROVE RenderInv'
  <2>1. CASE Lock(r)
    <3>1. /\ UNCHANGED <<out, line>> /\ mu = NoOne /\ mu' = r
          /\ pc[r] = "dispatch" /\ pc'[r] = "decode"
          /\ \A q \in Requests \ {r} : pc'[q] = pc[q]
      BY <1>0, <2>1 DEF TypeOK, Lock, Goto
    <3>2. LockInv'  BY <3>1, LockAssumption DEF RenderInv, LockInv
    <3> QED  BY <1>0, <3>1, <3>2, SilentStep DEF Unrendered
  <2>2. CASE RejectPayload(r) \/ FinishDispatch(r)
    <3>1. /\ UNCHANGED <<out, line>> /\ mu' = NoOne
          /\ pc[r] \in {"decode", "render"} /\ pc'[r] \in {"fail", "reply"}
          /\ \A q \in Requests \ {r} : pc'[q] = pc[q]
      BY <1>0, <2>2 DEF TypeOK, RejectPayload, FinishDispatch, Reject, Goto
    <3>2. LockInv'  BY <3>1, LockAssumption DEF RenderInv, LockInv
    <3> QED  BY <1>0, <3>1, <3>2, SilentStep DEF Unrendered
  <2>3. CASE CountItems(r)
    <3>1. /\ UNCHANGED <<out, line, mu>> /\ pc[r] = "decode" /\ pc'[r] = "render"
          /\ \A q \in Requests \ {r} : pc'[q] = pc[q]
      BY <1>0, <2>3 DEF TypeOK, CountItems, Goto
    <3>2. LockInv'  BY <3>1 DEF RenderInv, LockInv
    <3> QED  BY <1>0, <3>1, <3>2, SilentStep DEF Unrendered
  <2>4. CASE Overflow(r)
    BY <1>0, <2>4 DEF Overflow, RenderInv, LockInv, SuffixInv, NoInterleaving
  <2>5. CASE WriteLine(r)
    <3>1. /\ pc[r] = "render" /\ UNCHANGED <<pc, mu>> /\ mu = r
          /\ line' = [line EXCEPT ![r] = @ + 1]
          /\ out' = Append(out, [req |-> r, n |-> line[r] + 1])
      BY <2>5 DEF WriteLine, RenderInv, LockInv
    <3>a. out \in Seq(Line) /\ line \in [Requests -> Nat]  BY <1>0 DEF TypeOK
    <3>b. line[r] \in Nat /\ [req |-> r, n |-> line[r] + 1] \in Line
      BY <3>a DEF Line
    <3>2. /\ Len(out) \in Nat /\ Len(out') = Len(out) + 1
          /\ DOMAIN out = 1..Len(out) /\ DOMAIN out' = 1..(Len(out) + 1)
          /\ \A i \in 1..Len(out) : out'[i] = out[i]
          /\ out'[Len(out) + 1].req = r
          /\ line'[r] = line[r] + 1 /\ line[r] \in Nat
      BY <3>1, <3>a, <3>b
    <3>3. \A i \in DOMAIN out' : out'[i].req = r <=> i > Len(out') - line'[r]
      BY <3>1, <3>2 DEF RenderInv, SuffixInv
    <3>4. SuffixInv'
      <4> SUFFICES ASSUME NEW q \in Requests, q # r, pc[q] \in Unrendered
                   PROVE  line'[q] = 0 /\ \A i \in DOMAIN out' : out'[i].req # q
        BY <3>1, <3>3 DEF SuffixInv, Unrendered
      <4>1. line[q] = 0 /\ \A i \in DOMAIN out : out[i].req # q
        BY DEF RenderInv, SuffixInv
      <4>2. line'[q] = 0  BY <1>0, <3>1, <4>1 DEF TypeOK
      <4>3. ASSUME NEW i \in 1..(Len(out) + 1)  PROVE out'[i].req # q
        <5>1. CASE i \in 1..Len(out)  BY <3>2, <4>1, <5>1
        <5>2. CASE i = Len(out) + 1  BY <3>2, <5>2
        <5> QED  BY <3>2, <5>1, <5>2
      <4> QED  BY <3>2, <4>2, <4>3
    <3>5. NoInterleaving'
      <4> SUFFICES ASSUME NEW i \in DOMAIN out', NEW k \in DOMAIN out',
                          out'[i].req = out'[k].req, NEW j \in i..k
                   PROVE  out'[j].req = out'[i].req
        BY DEF NoInterleaving
      <4>1. CASE out'[i].req = r
        <5>1. i > Len(out') - line'[r]  BY <3>3, <4>1
        <5>2. j \in DOMAIN out' /\ j > Len(out') - line'[r]  BY <3>2, <5>1
        <5> QED  BY <3>3, <4>1, <5>2
      <4>2. CASE out'[i].req # r
        <5>1. i \in 1..Len(out) /\ k \in 1..Len(out)
          BY <3>2, <4>2
        <5>2. j \in 1..Len(out)  BY <3>2, <5>1
        <5>3. out[i].req = out[k].req  BY <3>2, <5>1
        <5>4. out[j].req = out[i].req
          BY <3>2, <5>1, <5>2, <5>3 DEF RenderInv, NoInterleaving
        <5> QED  BY <3>2, <5>1, <5>2, <5>4
      <4> QED  BY <4>1, <4>2
    <3>6. LockInv'  BY <3>1 DEF RenderInv, LockInv
    <3> QED  BY <1>0, <3>4, <3>5, <3>6 DEF RenderInv
  <2> QED  BY <1>4, <2>1, <2>2, <2>3, <2>4, <2>5 DEF dispatch
<1> QED  BY <1>1, <1>2, <1>3, <1>4 DEF Next, Step

\* However many exporters send at once, no line of another batch stands between
\* two lines of one batch.
THEOREM BatchesStayTogether == Spec => []NoInterleaving
<1>1. Init => RenderInv  BY RenderInit
<1>2. RenderInv /\ [Next]_vars => RenderInv'  BY RenderStep
<1>3. RenderInv => NoInterleaving  BY DEF RenderInv
<1> QED  BY <1>1, <1>2, <1>3, PTL DEF Spec

-----------------------------------------------------------------------------
(* The answer to one request.                                              *)

\* what has been established about r by the time it is where it is
Stage(r) ==
  /\ got[r] <= shape[r].size /\ got[r] <= MaxBody + 1
  /\ pc[r] \notin {"idle", "connected", "serve", "done", "closed"} =>
       shape[r].path \in Signals
  /\ pc[r] \in {"open", "read", "dispatch", "decode", "render", "reply"} =>
       shape[r].method = "POST" /\ shape[r].ctype # "other"
  /\ pc[r] \in {"read", "dispatch", "decode", "render", "reply"} => Readable(shape[r])
  /\ pc[r] \in {"dispatch", "decode", "render", "reply"} =>
       got[r] = shape[r].size /\ got[r] <= MaxBody /\ ~shape[r].cut
  /\ pc[r] \in {"render", "reply"} => shape[r].decodes
  /\ pc[r] = "fail" => ~Exportable(shape[r]) /\ code[r] = Refusal(shape[r])[1]
  /\ warned[r] = IF pc[r] = "done" /\ shape[r].path \in Signals /\ ~Exportable(shape[r])
                 THEN 1 ELSE 0
  /\ pc[r] = "done" /\ shape[r].path \in Signals =>
       IF Exportable(shape[r]) THEN code[r] = 200
       ELSE <<code[r], rpc[r]>> = Refusal(shape[r])

StageInv == TypeOK /\ \A r \in Requests : Stage(r)

LEMMA StageInit == Init => StageInv
<1> SUFFICES ASSUME Init PROVE StageInv  OBVIOUS
<1>1. TypeOK  BY TypeInit
<1>2. \A r \in Requests : Stage(r)
  BY <1>1, ShapesAssumption, BodyAssumption DEF Init, Stage, TypeOK, ShapeType
<1> QED  BY <1>1, <1>2 DEF StageInv

\* a step of r changes nothing of another request
LEMMA OthersKeep ==
  ASSUME TypeOK, NEW r \in Requests, Step(r), NEW q \in Requests, q # r
  PROVE  UNCHANGED <<shape, pc[q], got[q], line[q], code[q], rpc[q], warned[q]>>
<1> USE DEF TypeOK, Goto, Reject
<1>1. CASE Client(r)  BY <1>1 DEF Client, Connect, Arrive, Drop
<1>2. CASE ServeHTTP(r)
  <2>1. CASE Landing(r) \/ NotFound(r) \/ Reply(r)  BY <2>1 DEF Landing, NotFound, Reply
  <2>2. CASE RejectMethod(r) \/ RejectMediaType(r) \/ Route(r)
    BY <2>2 DEF RejectMethod, RejectMediaType, Route
  <2>3. CASE fail(r)  BY <2>3 DEF fail
  <2> QED  BY <1>2, <2>1, <2>2, <2>3 DEF ServeHTTP
<1>3. CASE readBody(r)
  <2>1. CASE RejectEncoding(r) \/ ReadFails(r) \/ RejectTooBig(r)
    BY <2>1 DEF RejectEncoding, ReadFails, RejectTooBig
  <2>2. CASE OpenBody(r) \/ ReadChunk(r) \/ BodyRead(r)
    BY <2>2 DEF OpenBody, ReadChunk, BodyRead
  <2> QED  BY <1>3, <2>1, <2>2 DEF readBody
<1>4. CASE dispatch(r)
  <2>1. CASE Lock(r) \/ RejectPayload(r) \/ CountItems(r)
    BY <2>1 DEF Lock, RejectPayload, CountItems
  <2>2. CASE WriteLine(r) \/ Overflow(r) \/ FinishDispatch(r)
    BY <2>2 DEF WriteLine, Overflow, FinishDispatch
  <2> QED  BY <1>4, <2>1, <2>2 DEF dispatch
<1> QED  BY <1>1, <1>2, <1>3, <1>4 DEF Step

LEMMA FrameStep ==
  ASSUME TypeOK, NEW r \in Requests, Step(r), NEW q \in Requests, q # r, Stage(q)
  PROVE  Stage(q)'
BY OthersKeep DEF Stage

LEMMA StageStep ==
  ASSUME MaxBody < MaxInt, TypeOK, NEW r \in Requests, Stage(r), Step(r)
  PROVE  Stage(r)'
<1>0. /\ shape[r] \in ShapeType
      /\ Limit = MaxBody + 1 /\ MaxBody \in Nat /\ got[r] \in Nat
  BY ShapesAssumption, BodyAssumption DEF TypeOK, Limit
<1>a. shape[r].size \in Nat /\ (shape[r].ctype # "other" => shape[r].ctype \in {"proto", "json"})
  BY <1>0 DEF ShapeType
<1>b. {200, 400, 404, 405, 415} \subseteq Codes /\ "fail" \in Phases
      /\ {"connected", "serve", "closed", "open", "read", "dispatch", "decode",
          "render", "reply", "done"} \subseteq Phases
  BY DEF Codes, Phases
<1>1. CASE Client(r)
  <2>1. /\ UNCHANGED <<shape, got, code, rpc, warned>>
        /\ pc[r] \in {"idle", "connected"} /\ pc'[r] \in {"connected", "serve", "closed"}
    BY <1>b, <1>1, GotoType DEF Client, Connect, Arrive, Drop
  <2> QED  BY <2>1 DEF Stage
<1>2. CASE ServeHTTP(r)
  <2>1. CASE Landing(r) \/ NotFound(r)
    <3>1. /\ shape[r].path \notin Signals /\ UNCHANGED <<shape, got, rpc, warned>>
          /\ pc[r] = "serve" /\ pc'[r] = "done"
      BY <1>b, <2>1, GotoType DEF Landing, NotFound, Signals
    <3> QED  BY <3>1 DEF Stage
  <2>3. CASE RejectMethod(r)
    <3>1. /\ UNCHANGED <<shape, got, rpc, warned>> /\ pc[r] = "serve" /\ pc'[r] = "fail"
          /\ code'[r] = 405 /\ shape[r].method # "POST" /\ shape[r].path \in Signals
      BY <1>b, <2>3, RejectType DEF RejectMethod
    <3> QED  BY <3>1 DEF Stage, Exportable, Refusal
  <2>4. CASE RejectMediaType(r)
    <3>1. /\ UNCHANGED <<shape, got, rpc, warned>> /\ pc[r] = "serve" /\ pc'[r] = "fail"
          /\ code'[r] = 415 /\ shape[r].method = "POST" /\ shape[r].ctype = "other"
          /\ shape[r].path \in Signals
      BY <1>b, <2>4, RejectType DEF RejectMediaType
    <3> QED  BY <3>1 DEF Stage, Exportable, Refusal
  <2>5. CASE Route(r)
    <3>1. /\ UNCHANGED <<shape, got, code, rpc, warned>> /\ pc[r] = "serve" /\ pc'[r] = "open"
          /\ shape[r].method = "POST" /\ shape[r].ctype # "other"
          /\ shape[r].path \in Signals
      BY <1>b, <2>5, GotoType DEF Route
    <3> QED  BY <3>1 DEF Stage
  <2>6. CASE Reply(r)
    <3>1. UNCHANGED <<shape, got, rpc, warned>> /\ pc[r] = "reply" /\ pc'[r] = "done"
      BY <1>b, <2>6, GotoType DEF Reply
    <3>2. code'[r] = 200
      <4>1. code \in [Requests -> Codes] /\ code' = [code EXCEPT ![r] = 200]
        BY <2>6 DEF Reply, TypeOK
      <4> QED  BY <4>1
    <3>3. Exportable(shape[r])  BY <1>a, <3>1 DEF Stage, Exportable
    <3> QED  BY <3>1, <3>2, <3>3 DEF Stage
  <2>7. CASE fail(r)
    <3>a. UNCHANGED <<shape, got, code>> /\ pc[r] = "fail" /\ pc'[r] = "done"
      BY <1>b, <2>7, GotoType DEF fail
    <3>b. rpc'[r] = rpcCode(code[r]) /\ warned'[r] = warned[r] + 1
      BY <2>7 DEF fail, TypeOK
    <3>1. UNCHANGED code /\ pc[r] = "fail"  BY <3>a
    <3>2. ~Exportable(shape[r]) /\ code[r] = Refusal(shape[r])[1] /\ warned[r] = 0
      BY <3>1 DEF Stage
    <3>3. <<code[r], rpc'[r]>> = Refusal(shape[r]) /\ rpc'[r] # 0
      BY <3>b, <3>2 DEF Refusal, rpcCode
    <3> QED  BY <3>a, <3>b, <3>2, <3>3 DEF Stage
  <2> QED  BY <1>2, <2>1, <2>3, <2>4, <2>5, <2>6, <2>7 DEF ServeHTTP
<1>3. CASE readBody(r)
  <2>1. CASE RejectEncoding(r)
    <3>1. /\ UNCHANGED <<shape, got, rpc, warned>> /\ pc[r] = "open" /\ pc'[r] = "fail"
          /\ code'[r] = 400 /\ ~Readable(shape[r])
      BY <1>b, <2>1, RejectType DEF RejectEncoding, Readable
    <3> QED  BY <3>1 DEF Stage, Exportable, Refusal
  <2>2. CASE OpenBody(r)
    <3>1. /\ UNCHANGED <<shape, got, code, rpc, warned>> /\ pc[r] = "open" /\ pc'[r] = "read"
          /\ Readable(shape[r])
      BY <1>b, <2>2, GotoType DEF OpenBody, Readable
    <3> QED  BY <3>1 DEF Stage
  <2>3. CASE ReadChunk(r)
    <3>1. /\ UNCHANGED <<shape, pc, code, rpc, warned>> /\ pc[r] = "read"
          /\ got[r] < MaxBody + 1 /\ got[r] < shape[r].size /\ got'[r] = got[r] + 1
      BY <1>0, <2>3 DEF ReadChunk, TypeOK
    <3>2. got'[r] <= shape[r].size /\ got'[r] <= MaxBody + 1  BY <1>0, <1>a, <3>1
    <3> QED  BY <3>1, <3>2 DEF Stage
  <2>4. CASE ReadFails(r)
    <3>1. /\ UNCHANGED <<shape, got, rpc, warned>> /\ pc[r] = "read" /\ pc'[r] = "fail"
          /\ code'[r] = 400 /\ shape[r].cut
      BY <1>b, <2>4, RejectType DEF ReadFails
    <3> QED  BY <3>1 DEF Stage, Exportable, Refusal
  <2>5. CASE RejectTooBig(r)
    <3>1. /\ UNCHANGED <<shape, got, rpc, warned>> /\ pc[r] = "read" /\ pc'[r] = "fail"
          /\ code'[r] = 400 /\ got[r] > MaxBody
      BY <1>b, <2>5, RejectType DEF RejectTooBig
    <3>2. ~(shape[r].size <= MaxBody)  BY <1>0, <1>a, <3>1 DEF Stage
    <3> QED  BY <3>1, <3>2 DEF Stage, Exportable, Refusal
  <2>6. CASE BodyRead(r)
    <3>1. /\ UNCHANGED <<shape, got, code, rpc, warned>> /\ pc[r] = "read"
          /\ pc'[r] = "dispatch" /\ got[r] <= MaxBody /\ AtEOF(r)
      BY <1>b, <2>6, GotoType DEF BodyRead
    <3>2. got[r] = shape[r].size /\ ~shape[r].cut  BY <1>0, <3>1 DEF AtEOF
    <3> QED  BY <3>1, <3>2 DEF Stage
  <2> QED  BY <1>3, <2>1, <2>2, <2>3, <2>4, <2>5, <2>6 DEF readBody
<1>4. CASE dispatch(r)
  <2>1. CASE Lock(r)
    <3>1. /\ UNCHANGED <<shape, got, code, rpc, warned>>
          /\ pc[r] = "dispatch" /\ pc'[r] = "decode"
      BY <1>b, <2>1, GotoType DEF Lock
    <3> QED  BY <3>1 DEF Stage
  <2>2. CASE RejectPayload(r)
    <3>1. /\ UNCHANGED <<shape, got, rpc, warned>> /\ pc[r] = "decode" /\ pc'[r] = "fail"
          /\ code'[r] = 400 /\ ~Payload(r).decodes
      BY <1>b, <2>2, RejectType DEF RejectPayload
    <3>2. ~shape[r].decodes  BY <3>1 DEF Stage, Payload
    <3> QED  BY <3>1, <3>2 DEF Stage, Exportable, Refusal
  <2>3. CASE CountItems(r)
    <3>1. /\ UNCHANGED <<shape, got, code, rpc, warned>> /\ pc[r] = "decode"
          /\ pc'[r] = "render" /\ Payload(r).decodes
      BY <1>b, <2>3, GotoType DEF CountItems
    <3>2. shape[r].decodes  BY <3>1 DEF Stage, Payload
    <3> QED  BY <3>1, <3>2 DEF Stage
  <2>4. CASE WriteLine(r)  BY <2>4 DEF WriteLine, Stage
  <2>5. CASE Overflow(r)  BY <2>5 DEF Overflow, Stage
  <2>6. CASE FinishDispatch(r)
    <3>1. /\ UNCHANGED <<shape, got, code, rpc, warned>>
          /\ pc[r] = "render" /\ pc'[r] = "reply"
      BY <1>b, <2>6, GotoType DEF FinishDispatch
    <3> QED  BY <3>1 DEF Stage
  <2> QED  BY <1>4, <2>1, <2>2, <2>3, <2>4, <2>5, <2>6 DEF dispatch
<1> QED  BY <1>1, <1>2, <1>3, <1>4 DEF Step

LEMMA StageInvStep ==
  ASSUME MaxBody < MaxInt, StageInv, [Next]_vars
  PROVE  StageInv'
<1>0. TypeOK /\ TypeOK'  BY TypeStep DEF StageInv
<1>1. CASE UNCHANGED vars  BY <1>0, <1>1 DEF StageInv, Stage, vars
<1>2. CASE Stutter  BY <1>0, <1>2 DEF StageInv, Stage, Stutter, vars
<1>3. ASSUME NEW r \in Requests, Step(r)  PROVE StageInv'
  <2>1. Stage(r)'  BY <1>0, <1>3, StageStep DEF StageInv
  <2>2. ASSUME NEW q \in Requests, q # r  PROVE Stage(q)'
    BY <1>0, <1>3, <2>2, FrameStep DEF StageInv
  <2> QED  BY <1>0, <2>1, <2>2 DEF StageInv
<1> QED  BY <1>1, <1>2, <1>3 DEF Next

LEMMA StageAlways == ASSUME MaxBody < MaxInt PROVE Spec => []StageInv
<1>1. Init => StageInv  BY StageInit
<1>2. StageInv /\ [Next]_vars => StageInv'  BY StageInvStep
<1> QED  BY <1>1, <1>2, PTL DEF Spec

\* Below the largest int64, no body limit lets a part of a body through as the
\* body, and at most one byte beyond the limit is ever read.
THEOREM BodiesAreWhole == ASSUME MaxBody < MaxInt PROVE Spec => []WholeBodyOrNothing
<1>1. StageInv => WholeBodyOrNothing  BY DEF StageInv, Stage, WholeBodyOrNothing
<1> QED  BY <1>1, StageAlways, PTL

\* Under the same limit, a request is answered 200 exactly when it is a complete
\* and well-formed export, and otherwise with the codes of its first defect.
THEOREM AnswersAreRight == ASSUME MaxBody < MaxInt PROVE Spec => []AcceptedIffExportable
<1>1. StageInv => AcceptedIffExportable
  BY DEF StageInv, Stage, AcceptedIffExportable
<1> QED  BY <1>1, StageAlways, PTL

\* Under the same limit, every answered request for a signal that is not a complete and
\* well-formed export left one line on stderr, whichever check refused it, and no other
\* request left any.
THEOREM RefusalsOnStderr == ASSUME MaxBody < MaxInt PROVE Spec => []RefusalsAreDiagnosed
<1>1. StageInv => RefusalsAreDiagnosed  BY DEF StageInv, Stage, RefusalsAreDiagnosed
<1> QED  BY <1>1, StageAlways, PTL

-----------------------------------------------------------------------------
(* The lines of each request.                                              *)

\* how many of r's lines are written by the time it is where it is
Answers(r) ==
  /\ pc[r] \notin {"idle", "connected", "serve", "done", "closed"} => shape[r].path \in Signals
  /\ pc[r] \in {"fail", "closed"} => line[r] = 0
  /\ pc[r] = "fail" => code[r] # 200
  /\ pc[r] = "reply" => line[r] = Payload(r).lines
  /\ pc[r] = "done" => line[r] = IF shape[r].path \in Signals /\ code[r] = 200
                                 THEN Payload(r).lines ELSE 0

AnswerInv == RenderInv /\ \A r \in Requests : Answers(r)

LEMMA AnswerInit == Init => AnswerInv
<1> SUFFICES ASSUME Init PROVE AnswerInv  OBVIOUS
<1>1. RenderInv  BY RenderInit
<1>2. \A r \in Requests : pc[r] = "idle" /\ line[r] = 0  BY DEF Init
<1> QED  BY <1>1, <1>2 DEF AnswerInv, Answers

LEMMA AnswersStep ==
  ASSUME AnswerInv, NEW r \in Requests, Step(r)
  PROVE  Answers(r)'
<1>0. /\ TypeOK /\ Answers(r) /\ (pc[r] \in Unrendered => line[r] = 0)
      /\ {200, 400, 404, 405, 415} \subseteq Codes /\ "fail" \in Phases
      /\ {"connected", "serve", "closed", "open", "read", "dispatch", "decode",
          "render", "reply", "done"} \subseteq Phases
  BY DEF AnswerInv, RenderInv, SuffixInv, Codes, Phases
<1>1. CASE Client(r)
  <2>1. UNCHANGED line /\ pc[r] \in {"idle", "connected"} /\ pc'[r] \in {"connected", "serve", "closed"}
    BY <1>0, <1>1, GotoType DEF Client, Connect, Arrive, Drop
  <2> QED  BY <1>0, <2>1 DEF Answers, Unrendered
<1>2. CASE ServeHTTP(r)
  <2>1. CASE Landing(r) \/ NotFound(r)
    <3>1. shape[r].path \notin Signals /\ UNCHANGED <<shape, line>> /\ pc[r] = "serve" /\ pc'[r] = "done"
      BY <1>0, <2>1, GotoType DEF Landing, NotFound, Signals
    <3> QED  BY <1>0, <3>1 DEF Answers, Unrendered
  <2>2. CASE RejectMethod(r) \/ RejectMediaType(r)
    <3>1. /\ UNCHANGED <<shape, line>> /\ pc[r] = "serve" /\ pc'[r] = "fail"
          /\ code'[r] \in {405, 415} /\ shape[r].path \in Signals
      BY <1>0, <2>2, RejectType DEF RejectMethod, RejectMediaType
    <3> QED  BY <1>0, <3>1 DEF Answers, Unrendered
  <2>3. CASE Route(r)
    <3>1. UNCHANGED shape /\ pc'[r] = "open" /\ shape[r].path \in Signals
      BY <1>0, <2>3, GotoType DEF Route
    <3> QED  BY <3>1 DEF Answers
  <2>4. CASE Reply(r)
    <3>1. UNCHANGED <<shape, got, line>> /\ pc[r] = "reply" /\ pc'[r] = "done"
      BY <1>0, <2>4, GotoType DEF Reply
    <3>2. code'[r] = 200  BY <1>0, <2>4 DEF Reply, TypeOK
    <3> QED  BY <1>0, <3>1, <3>2 DEF Answers, Payload
  <2>5. CASE fail(r)
    <3>1. UNCHANGED <<shape, got, line, code>> /\ pc[r] = "fail" /\ pc'[r] = "done"
      BY <1>0, <2>5, GotoType DEF fail
    <3> QED  BY <1>0, <3>1 DEF Answers
  <2> QED  BY <1>2, <2>1, <2>2, <2>3, <2>4, <2>5 DEF ServeHTTP
<1>3. CASE readBody(r)
  <2>1. CASE RejectEncoding(r) \/ ReadFails(r) \/ RejectTooBig(r)
    <3>1. /\ UNCHANGED <<shape, line>> /\ pc[r] \in {"open", "read"} /\ pc'[r] = "fail"
          /\ code'[r] = 400
      BY <1>0, <2>1, RejectType DEF RejectEncoding, ReadFails, RejectTooBig
    <3> QED  BY <1>0, <3>1 DEF Answers, Unrendered
  <2>2. CASE OpenBody(r) \/ BodyRead(r)
    <3>1. UNCHANGED shape /\ pc[r] \in {"open", "read"} /\ pc'[r] \in {"read", "dispatch"}
      BY <1>0, <2>2, GotoType DEF OpenBody, BodyRead
    <3> QED  BY <1>0, <3>1 DEF Answers
  <2>3. CASE ReadChunk(r)  BY <1>0, <2>3 DEF ReadChunk, Answers
  <2> QED  BY <1>3, <2>1, <2>2, <2>3 DEF readBody
<1>4. CASE dispatch(r)
  <2>1. CASE Lock(r) \/ CountItems(r)
    <3>1. UNCHANGED shape /\ pc[r] \in {"dispatch", "decode"} /\ pc'[r] \in {"decode", "render"}
      BY <1>0, <2>1, GotoType DEF Lock, CountItems
    <3> QED  BY <1>0, <3>1 DEF Answers
  <2>2. CASE RejectPayload(r)
    <3>1. UNCHANGED <<shape, line>> /\ pc[r] = "decode" /\ pc'[r] = "fail" /\ code'[r] = 400
      BY <1>0, <2>2, RejectType DEF RejectPayload
    <3> QED  BY <1>0, <3>1 DEF Answers, Unrendered
  <2>3. CASE WriteLine(r)  BY <1>0, <2>3 DEF WriteLine, Answers
  <2>4. CASE Overflow(r)  BY <1>0, <2>4 DEF Overflow, Answers
  <2>5. CASE FinishDispatch(r)
    <3>1. /\ UNCHANGED <<shape, got, line>> /\ pc[r] = "render" /\ pc'[r] = "reply"
          /\ line[r] = Payload(r).lines
      BY <1>0, <2>5, GotoType DEF FinishDispatch
    <3> QED  BY <1>0, <3>1 DEF Answers, Payload
  <2> QED  BY <1>4, <2>1, <2>2, <2>3, <2>4, <2>5 DEF dispatch
<1> QED  BY <1>1, <1>2, <1>3, <1>4 DEF Step

LEMMA AnswerStep ==
  ASSUME AnswerInv, [Next]_vars
  PROVE  AnswerInv'
<1>0. RenderInv'  BY RenderStep DEF AnswerInv
<1>1. CASE UNCHANGED vars \/ Stutter
  BY <1>0, <1>1 DEF AnswerInv, Answers, Payload, Stutter, vars
<1>2. ASSUME NEW r \in Requests, Step(r)  PROVE AnswerInv'
  <2>1. ASSUME NEW q \in Requests, q # r  PROVE Answers(q)'
    BY <1>2, <2>1, OthersKeep DEF AnswerInv, RenderInv, Answers, Payload
  <2> QED  BY <1>0, <1>2, <2>1, AnswersStep DEF AnswerInv
<1> QED  BY <1>1, <1>2 DEF Next

-----------------------------------------------------------------------------
(* Where they are.                                                         *)

OutputInv == AnswerInv /\ \A r \in Requests : Shows(r, line[r])

LEMMA OutputInit == Init => OutputInv
<1> SUFFICES ASSUME Init PROVE OutputInv  OBVIOUS
<1>1. AnswerInv  BY AnswerInit
<1>2. ASSUME NEW r \in Requests  PROVE Shows(r, line[r])
  <2>1. line[r] = 0 /\ out = << >>  BY DEF Init
  <2>2. Len(out) = 0 /\ DOMAIN out = {} /\ 0 \in 0..0 - 0  BY <2>1
  <2> QED  BY <2>1, <2>2 DEF Shows
<1> QED  BY <1>1, <1>2 DEF OutputInv

\* Only the renderer writes, and only for the request that renders.
LEMMA WritesLine ==
  ASSUME TypeOK, NEW r \in Requests, Step(r)
  PROVE  WriteLine(r) \/ UNCHANGED <<out, line>>
<1>1. CASE Client(r) \/ ServeHTTP(r) \/ readBody(r)  BY <1>1, OutsideStep
<1>2. CASE dispatch(r)
  BY <1>2 DEF dispatch, Lock, RejectPayload, CountItems, Overflow, FinishDispatch
<1> QED  BY <1>1, <1>2 DEF Step

\* the lines of the request that renders are a block at the end of the output
LEMMA BlockAtEnd ==
  ASSUME OutputInv, NEW r \in Requests, mu = r
  PROVE  /\ Len(out) - line[r] \in 0..Len(out)
         /\ \A i \in 1..Len(out) : i > Len(out) - line[r] =>
              out[i] = [req |-> r, n |-> i - (Len(out) - line[r])]
<1> DEFINE L == Len(out)
           p == L - line[r]
<1>1. TypeOK /\ SuffixInv  BY DEF OutputInv, AnswerInv, RenderInv
<1>2. out \in Seq(Line) /\ line[r] \in Nat  BY <1>1 DEF TypeOK
<1>3. L \in Nat /\ DOMAIN out = 1..L  BY <1>2
<1>4. \A i \in DOMAIN out : out[i].req = r <=> i > p  BY <1>1 DEF SuffixInv
<1>5. PICK b \in 0..L - line[r] : \A i \in DOMAIN out :
        IF i \in b+1..b+line[r] THEN out[i] = [req |-> r, n |-> i - b] ELSE out[i].req # r
  BY DEF OutputInv, Shows
<1>6. p \in 0..L  BY <1>2, <1>3, <1>5
<1>7. CASE line[r] = 0  BY <1>2, <1>3, <1>6, <1>7
<1>8. CASE line[r] # 0
  <2>1. L \in DOMAIN out /\ out[L].req = r  BY <1>2, <1>3, <1>4, <1>5, <1>8
  <2>2. L \in b+1..b+line[r]  BY <1>5, <2>1
  <2>3. b = p  BY <1>2, <1>3, <1>5, <2>2
  <2> QED  BY <1>2, <1>3, <1>4, <1>5, <1>6, <2>3
<1> QED  BY <1>7, <1>8

\* one more line of r extends its block, which is the end of the output
LEMMA WriteShows ==
  ASSUME OutputInv, NEW r \in Requests, WriteLine(r)
  PROVE  \A q \in Requests : Shows(q, line[q])'
<1> DEFINE L == Len(out)
           p == L - line[r]
<1>0. TypeOK /\ LockInv /\ SuffixInv  BY DEF OutputInv, AnswerInv, RenderInv
<1>1. /\ mu = r /\ pc[r] = "render"
      /\ line' = [line EXCEPT ![r] = @ + 1]
      /\ out' = Append(out, [req |-> r, n |-> line[r] + 1])
  BY <1>0 DEF WriteLine, LockInv
<1>2. out \in Seq(Line) /\ line \in [Requests -> Nat] /\ line[r] \in Nat  BY <1>0 DEF TypeOK
<1>3. /\ L \in Nat /\ DOMAIN out = 1..L
      /\ Len(out') = L + 1 /\ DOMAIN out' = 1..L+1
      /\ \A i \in 1..L : out'[i] = out[i]
      /\ out'[L + 1] = [req |-> r, n |-> line[r] + 1]
  BY <1>1, <1>2
<1>4. \A i \in DOMAIN out : out[i].req = r <=> i > p
  BY <1>0, <1>1 DEF SuffixInv
<1>5. p \in 0..L /\ \A i \in 1..L : i > p => out[i] = [req |-> r, n |-> i - p]
  BY <1>1, BlockAtEnd
<1>6. Shows(r, line[r])'
  <2>1. line'[r] = line[r] + 1 /\ p \in 0..Len(out') - line'[r]  BY <1>1, <1>2, <1>3, <1>5
  <2>2. ASSUME NEW i \in DOMAIN out'
        PROVE  IF i \in p+1..p+line'[r] THEN out'[i] = [req |-> r, n |-> i - p] ELSE out'[i].req # r
    <3>1. i \in 1..L+1  BY <1>3
    <3>2. CASE i = L + 1
      <4>1. i \in p+1..p+line'[r] /\ i - p = line[r] + 1  BY <1>2, <1>3, <1>5, <2>1, <3>2
      <4> QED  BY <1>3, <3>2, <4>1
    <3>3. CASE i \in 1..L
      <4>1. i \in p+1..p+line'[r] <=> i > p  BY <1>2, <1>3, <1>5, <2>1, <3>3
      <4> QED  BY <1>3, <1>4, <1>5, <3>3, <4>1
    <3> QED  BY <1>3, <3>1, <3>2, <3>3
  <2> HIDE DEF p
  <2> QED  BY <2>1, <2>2 DEF Shows
<1>7. ASSUME NEW q \in Requests, q # r  PROVE Shows(q, line[q])'
  <2>1. line'[q] = line[q] /\ line[q] \in Nat  BY <1>1, <1>2, <1>7
  <2>2. PICK b \in 0..L - line[q] : \A i \in DOMAIN out :
          IF i \in b+1..b+line[q] THEN out[i] = [req |-> q, n |-> i - b] ELSE out[i].req # q
    BY DEF OutputInv, Shows
  <2>3. b \in 0..Len(out') - line'[q]  BY <1>3, <2>1, <2>2
  <2>4. ASSUME NEW i \in DOMAIN out'
        PROVE  IF i \in b+1..b+line'[q] THEN out'[i] = [req |-> q, n |-> i - b] ELSE out'[i].req # q
    <3>1. i \in 1..L+1  BY <1>3
    <3>2. CASE i = L + 1
      <4>1. i \notin b+1..b+line'[q]  BY <1>3, <2>1, <2>2, <3>2
      <4> QED  BY <1>3, <1>7, <3>2, <4>1
    <3>3. CASE i \in 1..L  BY <1>3, <2>1, <2>2, <3>3
    <3> QED  BY <1>3, <3>1, <3>2, <3>3
  <2> QED  BY <2>3, <2>4 DEF Shows
<1> QED  BY <1>6, <1>7

LEMMA OutputStep ==
  ASSUME OutputInv, [Next]_vars
  PROVE  OutputInv'
<1>0. AnswerInv'  BY AnswerStep DEF OutputInv
<1>1. ASSUME UNCHANGED <<out, line>>  PROVE \A r \in Requests : Shows(r, line[r])'
  BY <1>1 DEF OutputInv, Shows
<1>2. CASE UNCHANGED vars \/ Stutter
  <2>1. UNCHANGED <<out, line>>  BY <1>2 DEF Stutter, vars
  <2> QED  BY <1>0, <1>1, <2>1 DEF OutputInv
<1>3. ASSUME NEW r \in Requests, Step(r)  PROVE OutputInv'
  <2>1. WriteLine(r) \/ UNCHANGED <<out, line>>
    BY <1>3, WritesLine DEF OutputInv, AnswerInv, RenderInv
  <2> QED  BY <1>0, <1>1, <2>1, WriteShows DEF OutputInv
<1> QED  BY <1>2, <1>3 DEF Next

LEMMA OutputAlways == Spec => []OutputInv
BY OutputInit, OutputStep, PTL DEF Spec

\* Whatever is in flight beside it, an accepted export is on stdout whole, once, as one
\* block in its own order, before its 200 is sent; a refused one has no line there.
THEOREM AnswersMatchOutput == Spec => []AnswerMatchesOutput
<1>1. OutputInv => AnswerMatchesOutput
  BY DEF OutputInv, AnswerInv, Answers, AnswerMatchesOutput, Accepted
<1> QED  BY <1>1, OutputAlways, PTL

-----------------------------------------------------------------------------
(* The counters.                                                           *)

Started == {r \in Requests : pc[r] # "idle"}

Taken == {r \in Requests : Accepted(r)}

\* the requests whose items are in the counter of sig
Counted(sig) ==
  {r \in Requests : shape[r].path = sig /\ (Accepted(r) \/ pc[r] = "render")}

Items == [r \in Requests |-> Payload(r).items]

(***************************************************************************)
(* stats.requests is one short of the batch being rendered, the counter of *)
(* its signal is not: the two agree only when the lock is free.            *)
(***************************************************************************)
CountInv ==
  /\ AnswerInv
  /\ IsFiniteSet(Started)
  /\ stats.requests = Cardinality(Taken)
  /\ \A sig \in Signals : stats[sig] = Sum(Items, Counted(sig))

LEMMA CountInit == Init => CountInv
<1> SUFFICES ASSUME Init PROVE CountInv  OBVIOUS
<1>1. AnswerInv  BY AnswerInit
<1>2. Started = {} /\ Taken = {} /\ \A sig \in Signals : Counted(sig) = {}
  BY DEF Init, Started, Taken, Counted, Accepted
<1>3. stats.requests = 0 /\ \A sig \in Signals : stats[sig] = 0  BY DEF Init, Signals
<1> QED  BY <1>1, <1>2, <1>3, SumEmpty, FS_EmptySet DEF CountInv

LEMMA StartedStep ==
  ASSUME TypeOK, IsFiniteSet(Started), NEW r \in Requests, Step(r)
  PROVE  IsFiniteSet(Started')
<1>1. Started' \subseteq Started \cup {r}  BY OthersKeep DEF Started
<1>2. IsFiniteSet(Started \cup {r})  BY FS_AddElement
<1> QED  BY <1>1, <1>2, FS_Subset

\* the sets that are counted are finite: only a request that has started is in them
LEMMA CountedFinite ==
  ASSUME CountInv
  PROVE  /\ IsFiniteSet(Taken)
         /\ \A sig : IsFiniteSet(Counted(sig)) /\ Counted(sig) \in SUBSET Requests
<1>1. Taken \in SUBSET Started /\ \A sig : Counted(sig) \in SUBSET Started
  BY DEF Taken, Counted, Started, Accepted
<1>2. \A sig : Counted(sig) \in SUBSET Requests  BY DEF Counted
<1> QED  BY <1>1, <1>2, FS_Subset DEF CountInv

\* the two steps that count; no other step accepts a request, starts to render one,
\* or changes what is known of one that is counted
LEMMA CountMoves ==
  ASSUME AnswerInv, NEW r \in Requests, Step(r)
  PROVE  \/ CountItems(r)
         \/ FinishDispatch(r)
         \/ /\ UNCHANGED <<stats, shape>>
            /\ Accepted(r)' <=> Accepted(r)
            /\ pc'[r] = "render" <=> pc[r] = "render"
            /\ Accepted(r) \/ pc[r] = "render" => got'[r] = got[r]
<1>0. /\ TypeOK /\ Answers(r)
      /\ {200, 400, 404, 405, 415} \subseteq Codes /\ "fail" \in Phases
      /\ {"connected", "serve", "closed", "open", "read", "dispatch", "decode",
          "render", "reply", "done"} \subseteq Phases
  BY DEF AnswerInv, RenderInv, Codes, Phases
<1> USE DEF Accepted
<1>1. CASE Client(r)
  BY <1>0, <1>1, GotoType DEF Client, Connect, Arrive, Drop
<1>2. CASE ServeHTTP(r)
  <2>1. CASE Landing(r) \/ NotFound(r)
    <3>1. /\ UNCHANGED <<stats, shape>> /\ pc[r] = "serve" /\ pc'[r] = "done"
          /\ shape[r].path \notin Signals
      BY <1>0, <2>1, GotoType DEF Landing, NotFound, Signals
    <3> QED  BY <3>1
  <2>2. CASE RejectMethod(r) \/ RejectMediaType(r) \/ Route(r)
    <3>1. UNCHANGED <<stats, shape>> /\ pc[r] = "serve" /\ pc'[r] \in {"fail", "open"}
      BY <1>0, <2>2, GotoType DEF RejectMethod, RejectMediaType, Route, Reject
    <3> QED  BY <3>1
  <2>3. CASE Reply(r)
    <3>1. UNCHANGED <<stats, shape, got>> /\ pc[r] = "reply" /\ pc'[r] = "done"
      BY <1>0, <2>3, GotoType DEF Reply
    <3>2. code'[r] = 200  BY <1>0, <2>3 DEF Reply, TypeOK
    <3> QED  BY <3>1, <3>2
  <2>4. CASE fail(r)
    <3>1. UNCHANGED <<stats, shape, got, code>> /\ pc[r] = "fail" /\ pc'[r] = "done"
      BY <1>0, <2>4, GotoType DEF fail
    <3> QED  BY <1>0, <3>1 DEF Answers
  <2> QED  BY <1>2, <2>1, <2>2, <2>3, <2>4 DEF ServeHTTP
<1>3. CASE readBody(r)
  <2>1. CASE RejectEncoding(r) \/ ReadFails(r) \/ RejectTooBig(r)
    <3>1. UNCHANGED <<stats, shape>> /\ pc[r] \in {"open", "read"} /\ pc'[r] = "fail"
      BY <1>0, <2>1, RejectType DEF RejectEncoding, ReadFails, RejectTooBig
    <3> QED  BY <3>1
  <2>2. CASE OpenBody(r) \/ BodyRead(r)
    <3>1. UNCHANGED <<stats, shape>> /\ pc[r] \in {"open", "read"} /\ pc'[r] \in {"read", "dispatch"}
      BY <1>0, <2>2, GotoType DEF OpenBody, BodyRead
    <3> QED  BY <3>1
  <2>3. CASE ReadChunk(r)  BY <2>3 DEF ReadChunk
  <2> QED  BY <1>3, <2>1, <2>2, <2>3 DEF readBody
<1>4. CASE dispatch(r)
  <2>1. CASE Lock(r) \/ RejectPayload(r)
    <3>1. /\ UNCHANGED <<stats, shape>> /\ pc[r] \in {"dispatch", "decode"}
          /\ pc'[r] \in {"decode", "fail"}
      BY <1>0, <2>1, GotoType DEF Lock, RejectPayload, Reject
    <3> QED  BY <3>1
  <2>2. CASE WriteLine(r) \/ Overflow(r)  BY <2>2 DEF WriteLine, Overflow
  <2> QED  BY <1>4, <2>1, <2>2 DEF dispatch
<1> QED  BY <1>1, <1>2, <1>3, <1>4 DEF Step

\* what a request contains does not change
LEMMA ShapeKept == ASSUME NEW r \in Requests, Step(r) PROVE UNCHANGED shape
BY DEF Step, Client, ServeHTTP, readBody, dispatch, Connect, Arrive, Drop, Landing, NotFound,
       RejectMethod, RejectMediaType, Route, Reply, fail, RejectEncoding, OpenBody, ReadChunk,
       ReadFails, RejectTooBig, BodyRead, Lock, RejectPayload, CountItems, WriteLine, Overflow,
       FinishDispatch

\* a counted request keeps its number of items
LEMMA ItemsKept ==
  ASSUME TypeOK, NEW r \in Requests, Step(r),
         Accepted(r) \/ pc[r] = "render" => got'[r] = got[r], NEW sig
  PROVE  \A q \in Counted(sig) : Items'[q] = Items[q]
<1> SUFFICES ASSUME NEW q \in Counted(sig)  PROVE Items'[q] = Items[q]  OBVIOUS
<1>1. q \in Requests /\ (Accepted(q) \/ pc[q] = "render")  BY DEF Counted
<1>2. shape' = shape  BY ShapeKept
<1>3. got'[q] = got[q]
  <2>1. CASE q = r  BY <1>1, <2>1
  <2>2. CASE q # r  BY <1>1, <2>2, OthersKeep
  <2> QED  BY <2>1, <2>2
<1> QED  BY <1>1, <1>2, <1>3 DEF Items, Payload

LEMMA CountStep ==
  ASSUME CountInv, [Next]_vars
  PROVE  CountInv'
<1>0. TypeOK /\ AnswerInv /\ AnswerInv'
  BY AnswerStep DEF CountInv, AnswerInv, RenderInv
<1>1. CASE UNCHANGED vars \/ Stutter
  <2>1. UNCHANGED <<pc, code, shape, got, stats>>  BY <1>1 DEF Stutter, vars
  <2>2. UNCHANGED <<Started, Taken, Items>> /\ \A sig : Counted(sig)' = Counted(sig)
    BY <2>1 DEF Started, Taken, Items, Counted, Accepted, Payload
  <2> QED  BY <1>0, <2>1, <2>2 DEF CountInv
<1>2. ASSUME NEW r \in Requests, Step(r)  PROVE CountInv'
  <2>1. IsFiniteSet(Started')  BY <1>0, <1>2, StartedStep DEF CountInv
  <2>2. \A q \in Requests \ {r} : /\ Accepted(q)' <=> Accepted(q)
                                  /\ pc'[q] = pc[q] /\ shape'[q] = shape[q]
    BY <1>0, <1>2, OthersKeep DEF Accepted
  <2>3. CASE CountItems(r)
    <3>1. /\ pc[r] = "decode" /\ pc'[r] = "render" /\ UNCHANGED <<shape, got>>
          /\ stats' = [stats EXCEPT ![shape[r].path] = @ + Payload(r).items]
      BY <1>0, <2>3, GotoType DEF CountItems, Phases
    <3>2. PICK sig \in Signals : sig = shape[r].path
      BY <1>0, <3>1 DEF AnswerInv, Answers
    <3>3. Payload(r).items \in Nat  BY <1>0, PayloadType
    <3>4. /\ stats'.requests = stats.requests /\ stats'[sig] = stats[sig] + Payload(r).items
          /\ \A s \in Signals : s # sig => stats'[s] = stats[s]
      BY <1>0, <3>1, <3>2, <3>3 DEF TypeOK, Signals
    <3>5. Taken' = Taken  BY <2>2, <3>1 DEF Taken, Accepted
    <3>6. Items' = Items /\ Items \in [Requests -> Nat] /\ Items[r] = Payload(r).items
      <4>1. UNCHANGED <<shape, got>>  BY <3>1
      <4>2. \A q \in Requests : Payload(q).items \in Nat  BY <1>0, PayloadType
      <4> QED  BY <4>1, <4>2 DEF Items, Payload
    <3>7. r \notin Counted(sig) /\ Counted(sig)' = Counted(sig) \cup {r}
      BY <2>2, <3>1, <3>2 DEF Counted, Accepted
    <3>8. Sum(Items, Counted(sig) \cup {r}) = Sum(Items, Counted(sig)) + Items[r]
      BY <3>6, <3>7, CountedFinite, SumAdd
    <3>9. ASSUME NEW s \in Signals  PROVE stats'[s] = Sum(Items', Counted(s)')
      <4>1. stats[s] = Sum(Items, Counted(s))  BY DEF CountInv
      <4>2. CASE s = sig  BY <3>4, <3>6, <3>7, <3>8, <4>1, <4>2
      <4>3. CASE s # sig
        <5>1. Counted(s)' = Counted(s)  BY <2>2, <3>1, <3>2, <4>3 DEF Counted, Accepted
        <5> QED  BY <3>4, <3>6, <4>1, <4>3, <5>1
      <4> QED  BY <4>2, <4>3
    <3>10. stats'.requests = Cardinality(Taken')  BY <3>4, <3>5 DEF CountInv
    <3> QED  BY <1>0, <2>1, <3>9, <3>10 DEF CountInv
  <2>4. CASE FinishDispatch(r)
    <3>1. /\ pc[r] = "render" /\ pc'[r] = "reply" /\ UNCHANGED <<shape, got>>
          /\ stats' = [stats EXCEPT !.requests = @ + 1]
      BY <1>0, <2>4, GotoType DEF FinishDispatch, Phases
    <3>2. stats'.requests = stats.requests + 1 /\ \A s \in Signals : stats'[s] = stats[s]
      BY <1>0, <3>1 DEF TypeOK, Signals
    <3>3. shape[r].path \in Signals  BY <1>0, <3>1 DEF AnswerInv, Answers
    <3>4. r \notin Taken /\ Taken' = Taken \cup {r}
      BY <2>2, <3>1, <3>3 DEF Taken, Accepted
    <3>5. \A s \in Signals : Counted(s)' = Counted(s)
      BY <2>2, <3>1, <3>3 DEF Counted, Accepted
    <3>6. Items' = Items  BY <3>1 DEF Items, Payload
    <3>7. Cardinality(Taken') = Cardinality(Taken) + 1
      BY <3>4, CountedFinite, FS_AddElement
    <3> QED  BY <1>0, <2>1, <3>2, <3>5, <3>6, <3>7 DEF CountInv
  <2>5. CASE /\ UNCHANGED <<stats, shape>>
             /\ Accepted(r)' <=> Accepted(r)
             /\ pc'[r] = "render" <=> pc[r] = "render"
             /\ Accepted(r) \/ pc[r] = "render" => got'[r] = got[r]
    <3>1. Taken' = Taken  BY <2>2, <2>5 DEF Taken
    <3>2. \A s : Counted(s)' = Counted(s)  BY <2>2, <2>5 DEF Counted
    <3>3. ASSUME NEW s \in Signals  PROVE Sum(Items', Counted(s)) = Sum(Items, Counted(s))
      <4>1. \A q \in Counted(s) : Items'[q] = Items[q]  BY <1>0, <1>2, <2>5, ItemsKept
      <4> QED  BY <4>1, CountedFinite, SumCong
    <3> QED  BY <1>0, <2>1, <2>5, <3>1, <3>2, <3>3 DEF CountInv
  <2> QED  BY <1>0, <1>2, <2>3, <2>4, <2>5, CountMoves
<1> QED  BY <1>1, <1>2 DEF Next

LEMMA CountAlways == Spec => []CountInv
BY CountInit, CountStep, PTL DEF Spec

\* MapThenSumSet of the property is the sum of the lemmas
LEMMA ItemsSum ==
  ASSUME NEW S \in SUBSET Requests
  PROVE  MapThenSumSet(LAMBDA r : Payload(r).items, S) = Sum(Items, S)
<1> DEFINE P(g) ==
      g = [s \in SUBSET S |->
             IF s = {} THEN 0
             ELSE Payload(CHOOSE x \in s : TRUE).items + g[s \ {CHOOSE x \in s : TRUE}]]
<1>1. MapThenSumSet(LAMBDA r : Payload(r).items, S) = (CHOOSE g : P(g))[S]
  BY DEF MapThenSumSet, MapThenFoldSet
<1>2. ASSUME NEW g  PROVE P(g) <=> Solves(g, Items, S)
  <2>1. \A s \in SUBSET S : s # {} => Payload(Pick(s)).items = Items[Pick(s)]
    BY PickIn DEF Items
  <2>2. [s \in SUBSET S |->
           IF s = {} THEN 0 ELSE Payload(Pick(s)).items + g[s \ {Pick(s)}]]
        = [s \in SUBSET S |-> IF s = {} THEN 0 ELSE Items[Pick(s)] + g[s \ {Pick(s)}]]
    BY <2>1
  <2> QED  BY <2>2 DEF Solves, Pick
<1>3. (CHOOSE g : P(g)) = (CHOOSE g : Solves(g, Items, S))
  <2> HIDE DEF P
  <2> QED  BY <1>2
<1> QED  BY <1>1, <1>3, SumIsSolution

\* What Stats() reads under the lock is the number of the exports accepted so far and,
\* signal by signal, the sum of their items, however many there are.
THEOREM StatsAreExact == Spec => []StatsMatchAccepted
<1>1. CountInv => StatsMatchAccepted
  <2> SUFFICES ASSUME CountInv, mu = NoOne
               PROVE  /\ stats.requests = Cardinality({r \in Requests : Accepted(r)})
                      /\ \A sig \in Signals :
                           stats[sig] = MapThenSumSet(LAMBDA r : Payload(r).items,
                                          {r \in Requests : Accepted(r) /\ shape[r].path = sig})
    BY DEF StatsMatchAccepted
  <2>1. \A r \in Requests : pc[r] # "render"
    BY LockAssumption DEF CountInv, AnswerInv, RenderInv, LockInv
  <2>2. ASSUME NEW sig \in Signals
        PROVE  Counted(sig) = {r \in Requests : Accepted(r) /\ shape[r].path = sig}
    BY <2>1 DEF Counted
  <2>3. ASSUME NEW sig \in Signals
        PROVE  stats[sig] = MapThenSumSet(LAMBDA r : Payload(r).items,
                              {r \in Requests : Accepted(r) /\ shape[r].path = sig})
    BY <2>2, ItemsSum DEF CountInv
  <2> QED  BY <2>3 DEF CountInv, Taken
<1> QED  BY <1>1, CountAlways, PTL

-----------------------------------------------------------------------------
(* What an accepted request was.                                           *)

WholeInv == StageInv /\ AnswerInv /\ \A r \in Requests : Accepted(r) => got[r] = shape[r].size

LEMMA WholeStep ==
  ASSUME MaxBody < MaxInt, WholeInv, [Next]_vars
  PROVE  WholeInv'
<1>0. StageInv' /\ AnswerInv' /\ TypeOK
  BY StageInvStep, AnswerStep DEF WholeInv, StageInv
<1>1. CASE UNCHANGED vars \/ Stutter
  <2>1. UNCHANGED <<pc, code, shape, got>>  BY <1>1 DEF Stutter, vars
  <2> QED  BY <1>0, <2>1 DEF WholeInv, Accepted
<1>2. ASSUME NEW r \in Requests, Step(r)  PROVE WholeInv'
  <2>1. ASSUME NEW q \in Requests, q # r, Accepted(q)'  PROVE got'[q] = shape'[q].size
    BY <1>0, <1>2, <2>1, OthersKeep DEF WholeInv, Accepted
  <2>2. ASSUME Accepted(r)'  PROVE got'[r] = shape'[r].size
    <3>1. CASE CountItems(r)
      BY <1>0, <2>2, <3>1, GotoType DEF CountItems, Accepted, Phases
    <3>2. CASE FinishDispatch(r)
      BY <1>0, <3>2 DEF FinishDispatch, Goto, WholeInv, StageInv, Stage
    <3>3. CASE ~CountItems(r) /\ ~FinishDispatch(r)
      BY <1>2, <2>2, <3>3, CountMoves DEF WholeInv
    <3> QED  BY <3>1, <3>2, <3>3
  <2> QED  BY <1>0, <2>1, <2>2 DEF WholeInv
<1> QED  BY <1>1, <1>2 DEF Next

LEMMA WholeAlways == ASSUME MaxBody < MaxInt PROVE Spec => []WholeInv
<1>1. Init => WholeInv
  <2>1. Init => \A r \in Requests : ~Accepted(r)  BY DEF Init, Accepted
  <2> QED  BY <2>1, StageInit, AnswerInit DEF WholeInv
<1> QED  BY <1>1, WholeStep, PTL DEF Spec

\* one export is at most what its signal's counter holds
LEMMA CounterHolds ==
  ASSUME CountInv, NEW r \in Requests, Accepted(r)
  PROVE  stats[shape[r].path] >= Payload(r).items
<1>1. PICK sig \in Signals : sig = shape[r].path  BY DEF Accepted
<1>2. r \in Counted(sig) /\ stats[sig] = Sum(Items, Counted(sig))
  BY <1>1 DEF Counted, CountInv
<1>3. IsFiniteSet(Counted(sig)) /\ Counted(sig) \in SUBSET Requests  BY CountedFinite
<1>4. Items \in [Requests -> Nat] /\ Items[r] = Payload(r).items
  <2>1. \A q \in Requests : Payload(q).items \in Nat
    BY PayloadType DEF CountInv, AnswerInv, RenderInv
  <2> QED  BY <2>1 DEF Items
<1>5. Sum(Items, Counted(sig)) = Items[r] + Sum(Items, Counted(sig) \ {r})
  BY <1>2, <1>3, <1>4, SumRemove
<1>6. Sum(Items, Counted(sig) \ {r}) \in Nat
  <2>1. IsFiniteSet(Counted(sig) \ {r}) /\ Counted(sig) \ {r} \in SUBSET Requests
    BY <1>3, FS_Subset
  <2> QED  BY <1>4, <2>1, SumType
<1>7. Items[r] \in Nat  BY <1>4
<1> QED  BY <1>1, <1>2, <1>4, <1>5, <1>6, <1>7
=============================================================================
