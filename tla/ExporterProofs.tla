---------------------------- MODULE ExporterProofs ----------------------------
(***************************************************************************)
(* Theorems about the demo exporter and the sink together: the exporter    *)
(* cannot make the sink do anything but handle requests, and it sends one  *)
(* post at a time, in order, however the sink answers.                     *)
(***************************************************************************)
EXTENDS Exporter, HandlerProofs

LEMMA PostIsRequest == ASSUME at \in DOMAIN Posts PROVE Post \in Requests
BY PostsAssumption DEF Post

\* what main does itself, other than to connect, leaves the handler alone
LEMMA MainFrame == Main => UNCHANGED vars \/ Send
BY DEF Main, RejectFlag, Answered, Lost, Timeout, Exit

-----------------------------------------------------------------------------
(***************************************************************************)
(* The exporter's own bookkeeping.  A post not yet sent is idle, since its *)
(* connection is the only step an idle request takes, and only the post    *)
(* the loop is at connects.                                                *)
(***************************************************************************)
ExporterInv == TypeOK /\ ExporterTypeOK

LEMMA ExporterInvInit == ExporterInit => ExporterInv
<1> SUFFICES ASSUME ExporterInit PROVE ExporterInv  OBVIOUS
<1>1. TypeOK  BY TypeInit DEF ExporterInit
<1>2. at = 1 /\ waiting = FALSE /\ answer = 0 /\ outcome = "running"  BY DEF ExporterInit
<1>3. pc = [r \in Requests |-> "idle"]  BY DEF ExporterInit, Init
<1>4. \A i \in DOMAIN Posts : pc[Posts[i]] = "idle"  BY <1>3, PostsAssumption
<1>5. at \in DOMAIN Posts /\ answer \in Codes  BY <1>2, PostsAssumption DEF Codes
<1>6. ExporterTypeOK  BY <1>2, <1>4, <1>5 DEF ExporterTypeOK
<1> QED  BY <1>1, <1>6 DEF ExporterInv

\* every step of the whole is one of the handler's, or leaves it alone
LEMMA ExporterStepIsHandlerStep ==
  ASSUME at \in DOMAIN Posts, [ExporterNext]_allVars
  PROVE  [Next]_vars
<1>1. CASE UNCHANGED allVars  BY <1>1 DEF allVars
<1>2. CASE Main /\ ~Send  BY <1>2, MainFrame
<1>3. CASE Send
  BY <1>3, PostIsRequest DEF Send, Next, Step, Client
<1>4. CASE Over  BY <1>4 DEF Over, allVars
<1>5. ASSUME ~crashed, NEW r \in Requests \ Others, ServePost(r)  PROVE [Next]_vars
  BY <1>5 DEF ServePost, Next, Step, Client
<1>6. ASSUME ~crashed, NEW r \in Others, ServeOther(r)  PROVE [Next]_vars
  BY <1>6 DEF ServeOther, Next, Others
<1> QED  BY <1>1, <1>2, <1>3, <1>4, <1>5, <1>6 DEF ExporterNext

\* a request becomes busy by connecting, and never idle again
LEMMA IdleStep ==
  ASSUME TypeOK, NEW r \in Requests, Step(r), NEW q \in Requests, q = r => ~Connect(r)
  PROVE  pc'[q] = "idle" <=> pc[q] = "idle"
<1> USE DEF TypeOK, Goto, Reject
<1>1. CASE Client(r)  BY <1>1 DEF Client, Connect, Arrive, Drop
<1>2. CASE ServeHTTP(r)
  <2>1. CASE Landing(r) \/ NotFound(r) \/ Reply(r)  BY <2>1 DEF Landing, NotFound, Reply
  <2>2. CASE RejectMethod(r) \/ RejectMediaType(r) \/ Route(r)
    BY <2>2 DEF RejectMethod, RejectMediaType, Route
  <2>3. CASE fail(r)  BY <2>3 DEF fail
  <2> QED  BY <1>2, <2>1, <2>2, <2>3 DEF ServeHTTP
<1>3. CASE readBody(r)
  <2>1. CASE RejectEncoding(r) \/ ReadFails(r) \/ RejectTooBig(r)
    BY <2>1 DEF RejectEncoding, ReadFails, RejectTooBig
  <2>2. CASE OpenBody(r) \/ ReadChunk(r) \/ BodyRead(r)
    BY <2>2 DEF OpenBody, ReadChunk, BodyRead
  <2> QED  BY <1>3, <2>1, <2>2 DEF readBody
<1>4. CASE dispatch(r)
  <2>1. CASE Lock(r) \/ RejectPayload(r) \/ CountItems(r)
    BY <2>1 DEF Lock, RejectPayload, CountItems
  <2>2. CASE WriteLine(r) \/ Overflow(r) \/ FinishDispatch(r)
    BY <2>2 DEF WriteLine, Overflow, FinishDispatch
  <2> QED  BY <1>4, <2>1, <2>2 DEF dispatch
<1> QED  BY <1>1, <1>2, <1>3, <1>4 DEF Step

\* a step of the sink, other than to let a post in, keeps the exporter's facts
LEMMA ServeKeeps ==
  ASSUME ExporterInv, NEW r \in Requests, Step(r), UNCHANGED exporter,
         \A i \in DOMAIN Posts : Posts[i] = r => ~Connect(r)
  PROVE  ExporterTypeOK'
<1> USE DEF ExporterInv, ExporterTypeOK, exporter
<1>1. \A i \in DOMAIN Posts : pc'[Posts[i]] = "idle" <=> pc[Posts[i]] = "idle"
  BY IdleStep, PostsAssumption
<1>2. pc'[Post] = "idle" <=> pc[Post] = "idle"  BY <1>1 DEF Post
<1>3. Post' = Post  BY DEF Post
<1> QED  BY <1>1, <1>2, <1>3

\* what the loop does itself leaves the requests where they are, but for a connection
LEMMA MainKeeps ==
  ASSUME ExporterInv, UNCHANGED pc, waiting' \in {FALSE, waiting}, answer' \in Codes,
         outcome' \in {"running", "delivered", "failed", "usage"}, waiting' => outcome' = outcome,
         at' \in DOMAIN Posts, at' >= at, waiting' => at' = at
  PROVE  ExporterTypeOK'
<1>1. at \in Nat /\ at' \in Nat /\ DOMAIN Posts \subseteq Nat
  BY PostsAssumption DEF ExporterInv, ExporterTypeOK
<1>2. waiting' \in BOOLEAN  BY DEF ExporterInv, ExporterTypeOK
<1>3. waiting' => outcome' = "running" /\ pc'[Post'] # "idle"
  <2> SUFFICES ASSUME waiting' PROVE outcome' = "running" /\ pc'[Post'] # "idle"  OBVIOUS
  <2>1. waiting /\ at' = at  BY DEF ExporterInv, ExporterTypeOK
  <2>2. Post' = Post  BY <2>1 DEF Post
  <2> QED  BY <2>1, <2>2 DEF ExporterInv, ExporterTypeOK
<1>4. \A i \in DOMAIN Posts : i > at' => pc'[Posts[i]] = "idle"
  <2> SUFFICES ASSUME NEW i \in DOMAIN Posts, i > at' PROVE pc'[Posts[i]] = "idle"  OBVIOUS
  <2>1. i > at  BY <1>1
  <2> QED  BY <2>1 DEF ExporterInv, ExporterTypeOK
<1> QED  BY <1>2, <1>3, <1>4 DEF ExporterTypeOK

LEMMA ExporterInvStep ==
  ASSUME ExporterInv, [ExporterNext]_allVars
  PROVE  ExporterInv'
<1>0. TypeOK'  BY ExporterStepIsHandlerStep, TypeStep DEF ExporterInv, ExporterTypeOK
<1> SUFFICES ExporterTypeOK'  BY <1>0 DEF ExporterInv
<1>a. at \in DOMAIN Posts /\ answer \in Codes  BY DEF ExporterInv, ExporterTypeOK
<1>b. Post \in Requests  BY <1>a, PostIsRequest
<1>c. pc \in [Requests -> Phases] /\ code \in [Requests -> Codes]
  BY DEF ExporterInv, TypeOK
<1>d. DOMAIN Posts = 1..Len(Posts) /\ Len(Posts) \in Nat  BY PostsAssumption
<1>e. 0 \in Codes  BY DEF Codes
<1>f. at >= at  BY <1>a, <1>d
<1>1. CASE UNCHANGED allVars
  <2>1. UNCHANGED pc /\ UNCHANGED exporter  BY <1>1 DEF allVars, vars
  <2> QED  BY <2>1, <1>a, <1>f, MainKeeps DEF exporter, ExporterInv, ExporterTypeOK
<1>2. CASE RejectFlag \/ Lost \/ Timeout
  <2>1. UNCHANGED <<pc, at>> /\ waiting' = FALSE /\ answer' \in {0, answer}
        /\ outcome' \in {"usage", "failed"}
    BY <1>2 DEF RejectFlag, Lost, Timeout, Exit, vars
  <2> QED  BY <2>1, <1>a, <1>e, <1>f, MainKeeps
<1>3. CASE Send
  <2>1. \A i \in DOMAIN Posts : i > at => Posts[i] # Post
    BY <1>a, <1>d, PostsAssumption DEF Post
  <2>2. pc' = [pc EXCEPT ![Post] = "connected"]  BY <1>3 DEF Send, Connect, Goto
  <2>3. UNCHANGED <<at, outcome>> /\ outcome = "running" /\ waiting' = TRUE /\ answer' = 0
    BY <1>3 DEF Send
  <2>4. pc'[Post] # "idle"  BY <1>b, <1>c, <2>2
  <2>5. Post' = Post  BY <2>3 DEF Post
  <2>6. \A i \in DOMAIN Posts : i > at => pc[Posts[i]] = "idle"
    BY DEF ExporterInv, ExporterTypeOK
  <2>7. \A i \in DOMAIN Posts : i > at => pc'[Posts[i]] = pc[Posts[i]]
    BY <2>1, <2>2
  <2> QED  BY <2>3, <2>4, <2>5, <2>6, <2>7, <1>a, <1>e DEF ExporterTypeOK
<1>4. CASE Answered
  <2>1. UNCHANGED pc /\ waiting' = FALSE /\ answer' = code[Post]
    BY <1>4 DEF Answered, vars
  <2>2. outcome' \in {"running", "failed", "delivered"}
    BY <1>4 DEF Answered
  <2>3. at' = at \/ (at' = at + 1 /\ at # Len(Posts))  BY <1>4 DEF Answered
  <2>4. at' \in DOMAIN Posts /\ at' >= at  BY <2>3, <1>a, <1>d
  <2> QED  BY <2>1, <2>2, <2>4, <1>b, <1>c, MainKeeps
<1>5. ASSUME NEW r \in Requests \ Others, ServePost(r)  PROVE ExporterTypeOK'
  <2>1. pc[r] # "idle"
    BY <1>5 DEF ServePost, Arrive, Drop, ServeHTTP, readBody, dispatch, Landing, NotFound,
       RejectMethod, RejectMediaType, Route, Reply, fail, RejectEncoding, OpenBody, ReadChunk,
       ReadFails, RejectTooBig, BodyRead, Lock, RejectPayload, CountItems, WriteLine,
       Overflow, FinishDispatch, Goto, Reject
  <2>2. ~Connect(r)  BY <2>1 DEF Connect, Goto
  <2> QED  BY <1>5, <2>2, ServeKeeps DEF ServePost, Step, Client
<1>6. ASSUME NEW r \in Others, ServeOther(r)  PROVE ExporterTypeOK'
  BY <1>6, ServeKeeps DEF ServeOther, Others
<1>7. CASE Over  BY <1>1, <1>7 DEF Over
<1> QED  BY <1>1, <1>2, <1>3, <1>4, <1>5, <1>6, <1>7 DEF ExporterNext, Main

-----------------------------------------------------------------------------
\* sendspan's loop, for any posts and any other clients: it is at one of its posts, it
\* waits only for one that has been sent, and none after it has been.
THEOREM OnePostAtATime == ExporterSpec => []ExporterTypeOK
<1>1. ExporterInv => ExporterTypeOK  BY DEF ExporterInv
<1> QED  BY <1>1, ExporterInvInit, ExporterInvStep, PTL DEF ExporterSpec

\* The sink with the exporter among its clients is still the sink: the composition
\* implements the handler's specification.
THEOREM ExporterRunsHandler == ExporterSpec => Spec
<1>1. ExporterInit => Init  BY DEF ExporterInit
<1>2. ExporterInv /\ [ExporterNext]_allVars => [Next]_vars
  BY ExporterStepIsHandlerStep DEF ExporterInv, ExporterTypeOK
<1> QED  BY <1>1, <1>2, ExporterInvInit, ExporterInvStep, PTL DEF ExporterSpec, Spec

\* The exporter's batches and those of other clients stay apart on the sink's stdout,
\* whenever the exporter gives up.
THEOREM ExporterBatchesStayTogether == ExporterSpec => []NoInterleaving
BY ExporterRunsHandler, BatchesStayTogether, PTL

-----------------------------------------------------------------------------
(* What the exporter may conclude.                                         *)

(***************************************************************************)
(* The loop moves past a post only when it was answered 200, a status of   *)
(* an earlier post is forgotten before the next is sent, and the program   *)
(* fails with a status only when that status was a refusal.                *)
(***************************************************************************)
LoopInv ==
  /\ \A i \in DOMAIN Posts : shape[Posts[i]].path \in Signals
  /\ \A i \in DOMAIN Posts : i < at \/ outcome = "delivered" =>
       pc[Posts[i]] = "done" /\ code[Posts[i]] = 200
  /\ waiting => answer = 0
  /\ outcome = "failed" /\ answer # 0 => pc[Post] = "done" /\ code[Post] # 200

\* the lines of a post come after those of the posts before it
OrderInv ==
  \A a, b \in DOMAIN Posts : \A j, k \in DOMAIN out :
    out[j].req = Posts[a] /\ out[k].req = Posts[b] /\ j < k => a <= b

LEMMA LoopInit == ExporterInit => LoopInv /\ OrderInv
<1> SUFFICES ASSUME ExporterInit PROVE LoopInv /\ OrderInv  OBVIOUS
<1>1. \A i \in DOMAIN Posts : shape[Posts[i]].path \in Signals
  <2> SUFFICES ASSUME NEW i \in DOMAIN Posts  PROVE shape[Posts[i]].path \in Signals
    OBVIOUS
  <2>1. i \in {1, 2, 3}  BY PostsAssumption
  <2>2. shape[Posts[i]] \in Bodies[i]  BY DEF ExporterInit
  <2> QED  BY <2>1, <2>2 DEF Bodies, Demo, Signals
<1>2. at = 1 /\ waiting = FALSE /\ outcome = "running"  BY DEF ExporterInit
<1>3. \A i \in DOMAIN Posts : ~(i < at)  BY <1>2, PostsAssumption
<1>4. DOMAIN out = {}  BY DEF ExporterInit, Init
<1> QED  BY <1>1, <1>2, <1>3, <1>4 DEF LoopInv, OrderInv

\* a request that was answered takes no further step
LEMMA DoneIsFinal == ASSUME NEW r \in Requests, Step(r) PROVE pc[r] # "done"
BY DEF Step, Client, ServeHTTP, readBody, dispatch, Connect, Arrive, Drop, Landing, NotFound,
       RejectMethod, RejectMediaType, Route, Reply, fail, RejectEncoding, OpenBody, ReadChunk,
       ReadFails, RejectTooBig, BodyRead, Lock, RejectPayload, CountItems, WriteLine, Overflow,
       FinishDispatch, Goto, Reject

\* whoever moves, an answered request keeps its answer
LEMMA DoneStays ==
  ASSUME TypeOK, [Next]_vars, NEW q \in Requests, pc[q] = "done"
  PROVE  pc'[q] = "done" /\ code'[q] = code[q] /\ shape' = shape
<1>1. CASE UNCHANGED vars \/ Stutter  BY <1>1 DEF Stutter, vars
<1>2. ASSUME NEW r \in Requests, Step(r)
      PROVE  pc'[q] = "done" /\ code'[q] = code[q] /\ shape' = shape
  BY <1>2, DoneIsFinal, OthersKeep, ShapeKept
<1> QED  BY <1>1, <1>2 DEF Next

LEMMA ShapesStay == [Next]_vars => UNCHANGED shape
BY ShapeKept DEF Next, Stutter, vars

\* a step that leaves the loop where it is, with what it knows
LEMMA LoopKept ==
  ASSUME ExporterInv, LoopInv, [Next]_vars, UNCHANGED at,
         outcome' = "delivered" => outcome = "delivered",
         waiting' => answer' = 0,
         outcome' = "failed" /\ answer' # 0 => outcome = "failed" /\ UNCHANGED answer
  PROVE  LoopInv'
<1>1. TypeOK /\ at \in DOMAIN Posts /\ UNCHANGED shape
  BY ShapesStay DEF ExporterInv, ExporterTypeOK
<1>2. \A i \in DOMAIN Posts : pc[Posts[i]] = "done" => pc'[Posts[i]] = "done" /\ code'[Posts[i]] = code[Posts[i]]
  BY <1>1, DoneStays, PostsAssumption
<1>3. Post' = Post /\ Post = Posts[at]  BY DEF Post
<1> QED  BY <1>1, <1>2, <1>3 DEF LoopInv

LEMMA LoopStep ==
  ASSUME ExporterInv, LoopInv, [ExporterNext]_allVars
  PROVE  LoopInv'
<1>0. [Next]_vars /\ at \in DOMAIN Posts /\ DOMAIN Posts = 1..Len(Posts) /\ Len(Posts) \in Nat
  BY ExporterStepIsHandlerStep, PostsAssumption DEF ExporterInv, ExporterTypeOK
<1>1. CASE UNCHANGED exporter
  <2>1. UNCHANGED <<at, waiting, answer, outcome>>  BY <1>1 DEF exporter
  <2>2. waiting' => answer' = 0  BY <2>1 DEF LoopInv
  <2> QED  BY <1>0, <2>1, <2>2, LoopKept
<1>2. CASE RejectFlag  BY <1>0, <1>2, LoopKept DEF RejectFlag, Exit
<1>3. CASE Send  BY <1>0, <1>3, LoopKept DEF Send
<1>4. CASE Lost  BY <1>0, <1>4, LoopKept DEF Lost, Exit
<1>5. CASE Timeout
  <2>1. waiting /\ UNCHANGED <<at, answer>> /\ outcome' = "failed" /\ waiting' = FALSE
    BY <1>5 DEF Timeout, Exit
  <2>2. answer' = 0  BY <2>1 DEF LoopInv
  <2> QED  BY <1>0, <2>1, <2>2, LoopKept
<1>6. CASE Answered
  <2>1. /\ pc[Post] = "done" /\ answer' = code[Post] /\ waiting' = FALSE /\ outcome = "running"
        /\ UNCHANGED <<shape, pc, code>> /\ Post = Posts[at]
    BY <1>6 DEF Answered, vars, Post
  <2>2. \A i \in DOMAIN Posts : i < at => pc[Posts[i]] = "done" /\ code[Posts[i]] = 200
    BY DEF LoopInv
  <2>3. CASE code[Post] # 200
    <3>1. outcome' = "failed" /\ UNCHANGED at  BY <1>6, <2>3 DEF Answered
    <3>2. Post' = Post  BY <3>1 DEF Post
    <3> QED  BY <2>1, <2>2, <2>3, <3>1, <3>2 DEF LoopInv
  <2>4. CASE code[Post] = 200 /\ at = Len(Posts)
    <3>1. outcome' = "delivered" /\ UNCHANGED at  BY <1>6, <2>4 DEF Answered
    <3>2. \A i \in DOMAIN Posts : i < at \/ i = at  BY <1>0, <2>4
    <3> QED  BY <2>1, <2>2, <2>4, <3>1, <3>2 DEF LoopInv
  <2>5. CASE code[Post] = 200 /\ at # Len(Posts)
    <3>1. outcome' = "running" /\ at' = at + 1  BY <1>6, <2>1, <2>5 DEF Answered
    <3>2. \A i \in DOMAIN Posts : i < at' => i < at \/ i = at  BY <1>0, <3>1
    <3> QED  BY <2>1, <2>2, <2>5, <3>1, <3>2 DEF LoopInv
  <2> QED  BY <2>3, <2>4, <2>5
<1>7. CASE Over  BY <1>1, <1>7 DEF Over, allVars
<1>8. ASSUME NEW r \in Requests, ServePost(r) \/ ServeOther(r)  PROVE UNCHANGED exporter
  BY <1>8 DEF ServePost, ServeOther
<1>9. CASE UNCHANGED allVars  BY <1>1, <1>9 DEF allVars
<1> QED  BY <1>1, <1>2, <1>3, <1>4, <1>5, <1>6, <1>7, <1>8, <1>9 DEF ExporterNext, Main, Others

\* only the post the loop is at can be rendered
LEMMA OrderStep ==
  ASSUME ExporterInv, LoopInv, OrderInv, SuffixInv, [Next]_vars
  PROVE  OrderInv'
<1>0. TypeOK /\ at \in DOMAIN Posts /\ DOMAIN Posts \subseteq Nat
  BY PostsAssumption DEF ExporterInv, ExporterTypeOK
<1>1. CASE UNCHANGED out  BY <1>1 DEF OrderInv
<1>2. ASSUME NEW r \in Requests, WriteLine(r)  PROVE OrderInv'
  <2> SUFFICES ASSUME NEW a \in DOMAIN Posts, NEW b \in DOMAIN Posts,
                      NEW j \in DOMAIN out', NEW k \in DOMAIN out',
                      out'[j].req = Posts[a], out'[k].req = Posts[b], j < k
               PROVE  a <= b
    BY DEF OrderInv
  <2>1. pc[r] = "render" /\ out' = Append(out, [req |-> r, n |-> line[r] + 1])
    BY <1>2 DEF WriteLine
  <2>2. out \in Seq(Line) /\ [req |-> r, n |-> line[r] + 1] \in Line
    BY <1>0 DEF TypeOK, Line
  <2>3. /\ Len(out) \in Nat /\ DOMAIN out = 1..Len(out) /\ DOMAIN out' = 1..Len(out)+1
        /\ \A i \in 1..Len(out) : out'[i] = out[i]
        /\ out'[Len(out) + 1].req = r
    BY <2>1, <2>2
  <2>4. j \in 1..Len(out) /\ out[j].req = Posts[a]  BY <2>3
  <2>5. CASE k \in 1..Len(out)  BY <2>3, <2>4, <2>5 DEF OrderInv
  <2>6. CASE k = Len(out) + 1
    <3>1. Posts[b] = r  BY <2>3, <2>6
    <3>2. b = at  BY <1>0, <2>1, <3>1 DEF LoopInv, ExporterInv, ExporterTypeOK
    <3>3. pc[Posts[a]] # "idle"
      BY <2>3, <2>4, PostsAssumption DEF SuffixInv, Unrendered
    <3>4. ~(a > at)  BY <3>3 DEF ExporterInv, ExporterTypeOK
    <3> QED  BY <1>0, <3>2, <3>4
  <2> QED  BY <2>3, <2>5, <2>6
<1>3. ASSUME NEW r \in Requests, Step(r)  PROVE WriteLine(r) \/ UNCHANGED out
  BY <1>0, <1>3, WritesLine
<1>4. CASE UNCHANGED vars \/ Stutter  BY <1>1, <1>4 DEF Stutter, vars
<1> QED  BY <1>1, <1>2, <1>3, <1>4 DEF Next

OutcomeInv == ExporterInv /\ OutputInv /\ LoopInv /\ OrderInv

LEMMA OutcomeAlways == ExporterSpec => []OutcomeInv
<1>1. ExporterInit => ExporterInv /\ LoopInv /\ OrderInv  BY ExporterInvInit, LoopInit
<1>2. ExporterInv /\ LoopInv /\ OrderInv /\ OutputInv /\ [ExporterNext]_allVars
        => ExporterInv' /\ LoopInv' /\ OrderInv'
  <2> SUFFICES ASSUME ExporterInv, LoopInv, OrderInv, OutputInv, [ExporterNext]_allVars
               PROVE  ExporterInv' /\ LoopInv' /\ OrderInv'
    OBVIOUS
  <2>1. [Next]_vars  BY ExporterStepIsHandlerStep DEF ExporterInv, ExporterTypeOK
  <2>2. SuffixInv  BY DEF OutputInv, AnswerInv, RenderInv
  <2> QED  BY <2>1, <2>2, ExporterInvStep, LoopStep, OrderStep
<1>3. ExporterSpec => []OutputInv  BY ExporterRunsHandler, OutputAlways, PTL
<1> QED  BY <1>1, <1>2, <1>3, PTL DEF ExporterSpec, OutcomeInv

\* an accepted request has its whole batch on stdout
LEMMA AcceptedIsShown ==
  ASSUME OutputInv, NEW r \in Requests, Accepted(r)
  PROVE  Shown(r)
<1>1. Answers(r) /\ Shows(r, line[r])  BY DEF OutputInv, AnswerInv
<1>2. line[r] = Payload(r).lines  BY <1>1 DEF Accepted, Answers
<1> QED  BY <1>1, <1>2 DEF Shown

\* "delivered" is printed only when all posts are whole on the sink's stdout, in their
\* order, and in its counters, whatever other clients send and however the sink stalls.
THEOREM DeliveredIsShown == ASSUME MaxBody < MaxInt PROVE ExporterSpec => []DeliveredMeansShown
<1>1. OutcomeInv /\ WholeInv /\ CountInv => DeliveredMeansShown
  <2> SUFFICES ASSUME OutcomeInv, WholeInv, CountInv, outcome = "delivered"
               PROVE  /\ \A i \in DOMAIN Posts :
                           /\ Shown(Posts[i])
                           /\ stats[shape[Posts[i]].path] >= shape[Posts[i]].items
                      /\ \A j, k \in DOMAIN out :
                           out[j].req \notin Others /\ out[k].req \notin Others /\ j < k
                             => PostOf(out[j].req) <= PostOf(out[k].req)
    BY DEF DeliveredMeansShown
  <2>1. ASSUME NEW i \in DOMAIN Posts
        PROVE  Shown(Posts[i]) /\ stats[shape[Posts[i]].path] >= shape[Posts[i]].items
    <3>1. Posts[i] \in Requests  BY PostsAssumption
    <3>2. Accepted(Posts[i])  BY DEF OutcomeInv, LoopInv, Accepted
    <3>3. got[Posts[i]] = shape[Posts[i]].size  BY <3>1, <3>2 DEF WholeInv
    <3>4. Payload(Posts[i]).items = shape[Posts[i]].items  BY <3>3 DEF Payload
    <3>5. stats[shape[Posts[i]].path] >= Payload(Posts[i]).items  BY <3>1, <3>2, CounterHolds
    <3> QED  BY <3>1, <3>2, <3>4, <3>5, AcceptedIsShown DEF OutcomeInv
  <2>2. ASSUME NEW j \in DOMAIN out, NEW k \in DOMAIN out,
               out[j].req \notin Others, out[k].req \notin Others, j < k
        PROVE  PostOf(out[j].req) <= PostOf(out[k].req)
    <3>1. out[j].req \in Requests /\ out[k].req \in Requests
      <4>1. out \in Seq(Line)  BY DEF OutcomeInv, ExporterInv, TypeOK
      <4>2. out[j] \in Line /\ out[k] \in Line  BY <4>1
      <4> QED  BY <4>2 DEF Line
    <3>2. PICK a \in DOMAIN Posts : Posts[a] = out[j].req  BY <2>2, <3>1 DEF Others
    <3>3. PICK b \in DOMAIN Posts : Posts[b] = out[k].req  BY <2>2, <3>1 DEF Others
    <3>4. PostOf(out[j].req) = a /\ PostOf(out[k].req) = b
      BY <3>2, <3>3, PostsAssumption DEF PostOf
    <3>5. a <= b  BY <2>2, <3>2, <3>3 DEF OutcomeInv, OrderInv
    <3> QED  BY <3>4, <3>5
  <2> QED  BY <2>1, <2>2
<1>2. ExporterSpec => [](WholeInv /\ CountInv)
  BY ExporterRunsHandler, WholeAlways, CountAlways, PTL
<1> QED  BY <1>1, <1>2, OutcomeAlways, PTL

\* Where sendspan fails, everything before is shown, nothing after it ever is, and what
\* it was refused at is not.
THEOREM FailureLeavesAPrefix == ExporterSpec => []FailureIsAPrefix
<1>1. OutcomeInv => FailureIsAPrefix
  <2> SUFFICES ASSUME OutcomeInv, outcome = "failed", NEW i \in DOMAIN Posts
               PROVE  /\ i < at => Shown(Posts[i])
                      /\ i > at => NothingShown(Posts[i])
                      /\ i = at /\ answer # 0 => NothingShown(Posts[i])
    BY DEF FailureIsAPrefix
  <2>0. Posts[i] \in Requests /\ Answers(Posts[i]) /\ Shows(Posts[i], line[Posts[i]])
    BY PostsAssumption DEF OutcomeInv, OutputInv, AnswerInv
  <2>1. ASSUME i < at  PROVE Shown(Posts[i])
    <3>1. Accepted(Posts[i])  BY <2>1 DEF OutcomeInv, LoopInv, Accepted
    <3> QED  BY <2>0, <3>1, AcceptedIsShown DEF OutcomeInv
  <2>2. ASSUME i > at  PROVE NothingShown(Posts[i])
    <3>1. pc[Posts[i]] = "idle"  BY <2>2 DEF OutcomeInv, ExporterInv, ExporterTypeOK
    <3>2. line[Posts[i]] = 0
      BY <2>0, <3>1 DEF OutcomeInv, OutputInv, AnswerInv, RenderInv, SuffixInv, Unrendered
    <3> QED  BY <2>0, <3>2 DEF NothingShown
  <2>3. ASSUME i = at, answer # 0  PROVE NothingShown(Posts[i])
    <3>1. pc[Posts[i]] = "done" /\ code[Posts[i]] # 200
      BY <2>3 DEF OutcomeInv, LoopInv, Post
    <3>2. line[Posts[i]] = 0  BY <2>0, <3>1 DEF Answers
    <3> QED  BY <2>0, <3>2 DEF NothingShown
  <2> QED  BY <2>1, <2>2, <2>3
<1> QED  BY <1>1, OutcomeAlways, PTL
=============================================================================
