------------------------------- MODULE Pipeline -------------------------------
(***************************************************************************)
(* One export from its bytes to its lines: the decoders, then the          *)
(* renderer, as dispatch (server.go) calls them.                           *)
(***************************************************************************)
EXTENDS Decode, Lines

Joined(texts) ==
  IF texts = << >> THEN "" ELSE FoldLeft(LAMBDA s, t : s \o ", " \o t, Head(texts), Tail(texts))

\* AsText of Lines; a double and the digits of bytes stand for their texts
RECURSIVE AnyValueString(_)
AnyValueString(v) ==
  CASE v.kind = "bool" -> IF v.val = 1 THEN "true" ELSE "false"
    [] v.kind = "int" -> ToString(v.val)
    [] v.kind = "bytes" -> "0x" \o v.val
    [] v.kind = "array" -> "[" \o Joined([i \in DOMAIN v.val |-> AnyValueString(v.val[i])]) \o "]"
    [] v.kind = "kvlist" ->
         "{" \o Joined([i \in DOMAIN v.val |->
                  v.val[i].key \o "=" \o AnyValueString(v.val[i].value)]) \o "}"
    [] v.kind \in {"string", "double"} -> v.val
    [] v.kind = "empty" -> ""

Decoding == Next /\ UNCHANGED <<options, lines>>

PipelineNext == Decoding \/ Render

PipelineSpec == LinesInit /\ [][PipelineNext]_allVars
=============================================================================
