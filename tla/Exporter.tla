------------------------------- MODULE Exporter -------------------------------
(***************************************************************************)
(* The demo exporter (examples/sendspan) and the sink together: traces,    *)
(* logs and metrics are posted one after the other, each with a client     *)
(* that gives up after five seconds, and the first failure ends the        *)
(* program.  The server side is Handler, which also serves other clients;  *)
(* it does not notice that a client gave up unless it still reads its body.*)
(***************************************************************************)
EXTENDS Handler

CONSTANT Posts    \* the exporter's requests, in the order of main's loop

ASSUME PostsAssumption ==
  /\ Posts \in Seq(Requests) /\ Len(Posts) \in 1..3
  /\ \A i, k \in DOMAIN Posts : i # k => Posts[i] # Posts[k]

VARIABLES
  at,        \* the post main's loop is at
  waiting,   \* it is in client.Post
  answer,    \* the last HTTP status received, 0 for none
  outcome    \* "running", or how the program ended

exporter == <<at, waiting, answer, outcome>>
allVars == <<vars, exporter>>

Post == Posts[at]
PostOf(r) == CHOOSE i \in DOMAIN Posts : Posts[i] = r
Others == Requests \ {Posts[i] : i \in DOMAIN Posts}

\* --encoding chooses the body and the media type of all three; "other" stands
\* for a value of the flag that is neither json nor protobuf
Demo(path, size, items) ==
  {s \in Shapes : s.path = path /\ s.method = "POST" /\ s.encoding = "identity"
                  /\ s.size \in size /\ s.decodes /\ s.items = items /\ ~s.cyclic}

\* the sizes depend on the encoding; 4 spans, 2 records, 2 metrics
Bodies == <<Demo("traces", 1..3, 4), Demo("logs", 1..2, 2), Demo("metrics", 1..2, 2)>>

ExporterInit ==
  /\ Init
  /\ \A i \in DOMAIN Posts : /\ shape[Posts[i]] \in Bodies[i]
                             /\ shape[Posts[i]].ctype = shape[Posts[1]].ctype
  /\ at = 1 /\ waiting = FALSE /\ answer = 0 /\ outcome = "running"

-----------------------------------------------------------------------------
(* main.                                                                   *)

Exit(how) == outcome' = how /\ waiting' = FALSE /\ UNCHANGED <<vars, at>>

\* exit 2, nothing is sent
RejectFlag ==
  /\ outcome = "running" /\ shape[Posts[1]].ctype = "other"
  /\ Exit("usage") /\ UNCHANGED answer

Send ==
  /\ outcome = "running" /\ ~waiting /\ shape[Posts[1]].ctype # "other"
  /\ ~crashed /\ Connect(Post)
  /\ waiting' = TRUE /\ answer' = 0
  /\ UNCHANGED <<at, outcome>>

\* mutants: any answer will do; the loop runs past its end
Answered_AnyStatus ==
  /\ outcome = "running" /\ waiting /\ pc[Post] = "done"
  /\ answer' = code[Post] /\ waiting' = FALSE
  /\ IF at = Len(Posts) THEN outcome' = "delivered" /\ UNCHANGED at
     ELSE at' = at + 1 /\ UNCHANGED outcome
  /\ UNCHANGED vars

Answered_PastEnd ==
  /\ outcome = "running" /\ waiting /\ pc[Post] = "done"
  /\ answer' = code[Post] /\ waiting' = FALSE
  /\ at' = at + 1 /\ outcome' = IF at = Len(Posts) THEN "delivered" ELSE outcome
  /\ UNCHANGED vars

\* client.Post returns the response
Answered ==
  /\ outcome = "running" /\ waiting /\ pc[Post] = "done"
  /\ answer' = code[Post] /\ waiting' = FALSE
  /\ CASE code[Post] # 200 -> outcome' = "failed" /\ UNCHANGED at
       [] code[Post] = 200 /\ at = Len(Posts) -> outcome' = "delivered" /\ UNCHANGED at
       [] OTHER -> at' = at + 1 /\ UNCHANGED outcome
  /\ UNCHANGED vars

\* the connection is closed without a response, or cannot be made
Lost ==
  /\ outcome = "running" /\ shape[Posts[1]].ctype # "other"
  /\ crashed \/ (waiting /\ pc[Post] = "closed")
  /\ Exit("failed") /\ answer' = 0

\* mutants: the next post is sent although this one got no answer; the client
\* has no timeout
Timeout_GoesOn ==
  /\ outcome = "running" /\ waiting /\ at < Len(Posts)
  /\ at' = at + 1 /\ waiting' = FALSE
  /\ UNCHANGED <<vars, answer, outcome>>

Timeout_None == outcome = "running" /\ waiting /\ FALSE /\ UNCHANGED allVars

\* five seconds have passed, wherever the request is, its answer on its way or not
Timeout ==
  /\ outcome = "running" /\ waiting
  /\ Exit("failed") /\ UNCHANGED answer

-----------------------------------------------------------------------------
(* The sink.                                                               *)

\* a post's body breaks off only when its client has given up
ServePost(r) ==
  /\ Arrive(r) \/ Drop(r) \/ ServeHTTP(r) \/ readBody(r) \/ dispatch(r)
  /\ ReadFails(r) => outcome = "failed" /\ r = Post
  /\ UNCHANGED exporter

ServeOther(r) == Step(r) /\ UNCHANGED exporter

Main == RejectFlag \/ Send \/ Answered \/ Lost \/ Timeout

\* the exporter has ended; its later posts are never sent
Over ==
  /\ outcome # "running"
  /\ crashed \/ \A r \in Requests : \/ pc[r] \in {"done", "closed"}
                                    \/ r \notin Others /\ pc[r] = "idle"
  /\ UNCHANGED allVars

ExporterNext ==
  \/ Main \/ Over
  \/ ~crashed /\ \E r \in Requests \ Others : ServePost(r)
  \/ ~crashed /\ \E r \in Others : ServeOther(r)

\* the exporter's timer fires whatever the sink does; nothing is asked of the sink
ExporterSpec == ExporterInit /\ [][ExporterNext]_allVars /\ WF_allVars(Main)

-----------------------------------------------------------------------------
(* Properties.                                                             *)

\* The exporter sends one post at a time, in order, and ends in one of four ways.
ExporterTypeOK ==
  /\ at \in DOMAIN Posts /\ waiting \in BOOLEAN /\ answer \in Codes
  /\ outcome \in {"running", "delivered", "failed", "usage"}
  /\ waiting => outcome = "running" /\ pc[Post] # "idle"
  /\ \A i \in DOMAIN Posts : i > at => pc[Posts[i]] = "idle"

Shown(r) == Shows(r, Payload(r).lines)
NothingShown(r) == Shows(r, 0)

\* "demo trace, logs and metrics delivered" (sendspan): all of them are on the
\* sink's stdout, traces before logs before metrics, and in its counters.
DeliveredMeansShown ==
  outcome = "delivered" =>
    /\ \A i \in DOMAIN Posts : /\ Shown(Posts[i])
                               /\ stats[shape[Posts[i]].path] >= shape[Posts[i]].items
    /\ \A j, k \in DOMAIN out :
         out[j].req \notin Others /\ out[k].req \notin Others /\ j < k
           => PostOf(out[j].req) <= PostOf(out[k].req)

\* When sendspan fails at a post, what came before it is shown whole, nothing after
\* it ever is, and it is in doubt only if no answer came: a refusal shows nothing.
FailureIsAPrefix ==
  outcome = "failed" =>
    \A i \in DOMAIN Posts :
      /\ i < at => Shown(Posts[i])
      /\ i > at => NothingShown(Posts[i])
      /\ i = at /\ answer # 0 => NothingShown(Posts[i])

\* sendspan always ends, with a sink that stalls, crashes or loses its connection.
ExporterEnds == <>(outcome # "running")
=============================================================================
