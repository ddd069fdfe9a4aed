------------------------------- MODULE Telemetry -------------------------------
(***************************************************************************)
(* An export request between the decoders (internal/otlp, module Decode)   *)
(* and the renderer (internal/render, module Lines): the telemetry model   *)
(* they share (model.go), and the three variables of one request.          *)
(*                                                                         *)
(* Ids are "", "00" (all zero), "aa", "bb", "AA" (upper case), and "zz"    *)
(* for one that is no hex of its length.                                   *)
(***************************************************************************)
EXTENDS Integers, SequencesExt

CONSTANTS
  Requests,    \* the export requests, by what tells them apart
  BodyOf(_),   \* the body of each
  MaxTime      \* the largest uint64

VARIABLES
  body,      \* the request
  via,       \* the encoding it was decoded from, "" before
  decoded    \* what the decoder returned

vars == <<body, via, decoded>>

Ok(v) == [ok |-> TRUE, v |-> v]
Failed == [ok |-> FALSE]

\* a varint is a uint64, an int value the int64 of the same bits
MaxInt64 == MaxTime \div 2
Int64(v) == IF v > MaxInt64 THEN v - MaxTime - 1 ELSE v

-----------------------------------------------------------------------------

Empty == [kind |-> "empty", val |-> 0]

ZeroSpan ==
  [trace |-> "", id |-> "", parent |-> "", name |-> "", kind |-> 0, start |-> 0, end |-> 0,
   attrs |-> << >>, events |-> << >>, links |-> << >>, code |-> 0, message |-> ""]

ZeroRecord ==
  [time |-> 0, severity |-> 0, text |-> "", body |-> Empty, attrs |-> << >>,
   trace |-> "", id |-> ""]

spanKindNames == <<"UNSPECIFIED", "INTERNAL", "SERVER", "CLIENT", "PRODUCER", "CONSUMER">>
statusCodeNames == <<"UNSET", "OK", "ERROR">>

\* Attrs.Get: the first attribute of that key decides, whatever its kind
serviceName(attrs) ==
  LET i == SelectInSeq(attrs, LAMBDA kv : kv.key = "service.name")
  IN  IF i # 0 /\ attrs[i].value.kind = "string" THEN attrs[i].value.val ELSE ""

-----------------------------------------------------------------------------
(***************************************************************************)
(* A body is one request in both encodings:                                *)
(* signal          "traces", "logs" or "metrics"                           *)
(* proto, protoOK  the protobuf message; nothing in it is broken           *)
(* json, jsonOK    the JSON document; nothing in it is broken              *)
(* jsonExact       its times are written as numbers the decoder keeps      *)
(* meaning         what the request says, for the properties: its items,   *)
(*                 each with the resource it belongs to and the service    *)
(*                 that resource names                                     *)
(***************************************************************************)
IsList(x) == Len(x) \in Nat /\ x = [i \in 1..Len(x) |-> x[i]]

IsItem(item, signal) ==
  /\ IsList(item.attrs) /\ IsList(item.resource)
  /\ item.service = serviceName(item.resource)
  /\ signal = "traces" => item.start \in 0..MaxTime /\ item.end \in 0..MaxTime

ASSUME BodiesAssumption ==
  /\ MaxTime \in Nat
  /\ \A r \in Requests :
       LET b == BodyOf(r)
       IN  /\ b.signal \in {"traces", "logs", "metrics"}
           /\ b.protoOK \in BOOLEAN /\ b.jsonOK \in BOOLEAN /\ b.jsonExact \in BOOLEAN
           /\ b.signal # "metrics" =>
                IsList(b.meaning) /\ \A i \in DOMAIN b.meaning : IsItem(b.meaning[i], b.signal)

None == Ok(<< >>)

Init == (\E r \in Requests : body = BodyOf(r)) /\ via = "" /\ decoded = None
=============================================================================
