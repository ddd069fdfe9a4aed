--------------------------------- MODULE Wire ---------------------------------
(***************************************************************************)
(* The protobuf wire format: protowire.Decoder byte by byte, driven by the *)
(* loop all decoders of internal/otlp share (Tag, then the value its wire  *)
(* type announces, kept or skipped), and the writer of the demo exporter   *)
(* (examples/sendspan).  The widths of bytes and words are constants; see  *)
(* WireGrammar, which this reader implements.                              *)
(***************************************************************************)
EXTENDS Integers, SequencesExt, FiniteSetsExt

CONSTANTS
  GroupBits, LongBytes, ShortBytes,   \* see WireGrammar
  Buffers,     \* buffers some client sends
  Messages     \* messages the demo exporter writes, whole or cut short

VARIABLES
  sent,     \* the message the demo exporter wrote, << >> for a foreign buffer
  cut,      \* bytes of it that are missing at the end, -1 for a foreign buffer
  buf,      \* Decoder.buf
  pos,      \* Decoder.pos
  stage,    \* what the loop is reading, or "end" or "failed"
  v,        \* Varint: the bits so far
  shift,    \* Varint: where the next ones go
  tag,      \* the tag of the field being read
  from,     \* where that field starts
  fields,   \* the fields read
  err       \* the error, "" for none

vars == <<sent, cut, buf, pos, stage, v, shift, tag, from, fields, err>>

Grammar == INSTANCE WireGrammar WITH
  taken <- from,
  status <- IF stage \in {"end", "failed"} THEN stage ELSE "reading"

More == 2 ^ GroupBits
Byte == 0..(2 * More - 1)
WordBits == (GroupBits + 1) * LongBytes
Word == 0..(2 ^ WordBits - 1)

\* a word is some groups and one bit more, as 64 = 9 * 7 + 1
ASSUME WidthsAssumption ==
  /\ GroupBits \in Nat \ {0, 1}
  /\ LongBytes \in Nat \ {0}
  /\ ShortBytes \in 0..LongBytes
  /\ WordBits % GroupBits = 1

\* what can be written: fields numbered from 1, below the top, with words and
\* payloads a word can count
ASSUME MessagesAssumption ==
  /\ Buffers \subseteq Seq(Byte)
  /\ \A message \in Messages :
       /\ Len(message) \in Nat
       /\ message = [i \in 1..Len(message) |-> message[i]]
       /\ \A i \in DOMAIN message :
            LET f == message[i]
            IN  /\ f = [num |-> f.num, wt |-> f.wt, val |-> f.val]
                /\ f.num \in Word \ {0} /\ f.num * 8 + 2 \in Word
                /\ \/ f.wt \in {0, 1} /\ f.val \in Word
                   \/ f.wt = 2 /\ f.val \in Seq(Byte) /\ Len(f.val) \in Word

-----------------------------------------------------------------------------
(* The writer: enc.varint, tag, uvarint, fixed64, blob.                    *)

Bytes(n, count, bits) == [i \in 1..count |-> (n \div 2 ^ (bits * (i - 1))) % 2 ^ bits]

\* mutant: the loop ends one value too late
varint_OffByOne(n) ==
  LET count == Min({k \in 1..WordBits : n <= 2 ^ (GroupBits * k)})
      low   == Bytes(n, count, GroupBits)
  IN  [i \in 1..count |-> IF i < count THEN low[i] + More ELSE low[i]]

varint(n) ==
  LET count == Min({k \in 1..WordBits : n < 2 ^ (GroupBits * k)})
      low   == Bytes(n, count, GroupBits)
  IN  [i \in 1..count |-> IF i < count THEN low[i] + More ELSE low[i]]

\* uvarint leaves a zero out; a sub-message is a blob
Write(f) ==
  CASE f.wt = 0 /\ f.val = 0 -> << >>
    [] f.wt = 0 /\ f.val # 0 -> varint(f.num * 8) \o varint(f.val)
    [] f.wt = 1 -> varint(f.num * 8 + 1) \o Bytes(f.val, LongBytes, GroupBits + 1)
    [] f.wt = 2 -> varint(f.num * 8 + 2) \o varint(Len(f.val)) \o f.val

Encode(message) == FlattenSeq([i \in DOMAIN message |-> Write(message[i])])

-----------------------------------------------------------------------------
Init ==
  /\ \/ buf \in Buffers /\ sent = << >> /\ cut = -1
     \/ /\ sent \in Messages
        /\ cut \in 0..Len(Encode(sent))
        /\ buf = SubSeq(Encode(sent), 1, Len(Encode(sent)) - cut)
  /\ pos = 0 /\ stage = "next" /\ v = 0 /\ shift = 0
  /\ tag = [num |-> 0, wt |-> 0] /\ from = 0 /\ fields = << >> /\ err = ""

Fail(reason) ==
  /\ stage' = "failed"
  /\ err' = reason
  /\ UNCHANGED <<sent, cut, buf, pos, v, shift, tag, from, fields>>

\* the value of the current field is complete at `to`
Keep(val, to) ==
  /\ fields' = Append(fields, [num |-> tag.num, wt |-> tag.wt, val |-> val])
  /\ pos' = to /\ from' = to
  /\ stage' = "next"
  /\ UNCHANGED <<sent, cut, buf, v, shift, tag, err>>

\* the decoders' loop: until Done
Done ==
  /\ stage = "next" /\ pos >= Len(buf)
  /\ stage' = "end"
  /\ UNCHANGED <<sent, cut, buf, pos, v, shift, tag, from, fields, err>>

StartTag ==
  /\ stage = "next" /\ pos < Len(buf)
  /\ stage' = "tag" /\ v' = 0 /\ shift' = 0
  /\ UNCHANGED <<sent, cut, buf, pos, tag, from, fields, err>>

-----------------------------------------------------------------------------
(* Varint, for a tag, a value or a length.                                 *)

InVarint == stage \in {"tag", "varint", "length"}
B == buf[pos + 1]

VarintTruncated == InVarint /\ pos >= Len(buf) /\ Fail("truncated")

VarintByte ==
  /\ InVarint /\ pos < Len(buf)
  /\ B >= More /\ shift + GroupBits < WordBits
  /\ pos' = pos + 1
  /\ v' = (v + (B % More) * 2 ^ shift) % 2 ^ WordBits
  /\ shift' = shift + GroupBits
  /\ UNCHANGED <<sent, cut, buf, stage, tag, from, fields, err>>

\* the last byte a word has room for must end the varint and carry one bit
VarintOverflow ==
  /\ InVarint /\ pos < Len(buf)
  /\ \/ B >= More /\ shift + GroupBits >= WordBits
     \/ B \in 2..(More - 1) /\ shift = WordBits - 1
  /\ Fail("overflow")

\* mutant: the last byte is not checked
Ends_Unchecked == InVarint /\ pos < Len(buf) /\ B < More

\* the varint ends with this byte, and has this value
Ends == InVarint /\ pos < Len(buf) /\ B < More /\ ~(shift = WordBits - 1 /\ B > 1)
Result == (v + B * 2 ^ shift) % 2 ^ WordBits

-----------------------------------------------------------------------------
(* Tag, and the value: read or skipped, the same bytes are passed over.    *)

StageOf == [wt \in {0, 1, 2, 5} |->
              CASE wt = 0 -> "varint" [] wt = 1 -> "long" [] wt = 2 -> "length"
                [] wt = 5 -> "short"]

Tag ==
  /\ stage = "tag" /\ Ends
  /\ Result \div 8 # 0 /\ Result % 8 \in DOMAIN StageOf
  /\ tag' = [num |-> Result \div 8, wt |-> Result % 8]
  /\ stage' = StageOf[Result % 8]
  /\ pos' = pos + 1 /\ v' = 0 /\ shift' = 0
  /\ UNCHANGED <<sent, cut, buf, from, fields, err>>

TagRefused ==
  /\ stage = "tag" /\ Ends
  /\ \/ Result \div 8 = 0 /\ Fail("field 0")
     \/ Result \div 8 # 0 /\ Result % 8 \in {3, 4} /\ Fail("group")
     \/ Result \div 8 # 0 /\ Result % 8 > 5 /\ Fail("wire type")

Varint == stage = "varint" /\ Ends /\ Keep(Result, pos + 1)

\* mutants: the slice may reach into the capacity behind the message; the last
\* payload of a message may be short
Blob_Unchecked ==
  /\ stage = "length" /\ Ends
  /\ LET to == pos + 1 + Result
     IN  Keep(SubSeq(buf, pos + 2, Min({to, Len(buf)})), to)

Blob_Short ==
  /\ stage = "length" /\ Ends
  /\ LET to == Min({pos + 1 + Result, Len(buf)})
     IN  Keep(SubSeq(buf, pos + 2, to), to)

\* Bytes: the length is compared with what is left
Blob ==
  /\ stage = "length" /\ Ends
  /\ \/ Result > Len(buf) - (pos + 1) /\ Fail("truncated")
     \/ /\ Result <= Len(buf) - (pos + 1)
        /\ Keep(SubSeq(buf, pos + 2, pos + 1 + Result), pos + 1 + Result)

LittleEndian(count) ==
  SumFunction([i \in 1..count |-> buf[pos + i] * 2 ^ ((GroupBits + 1) * (i - 1))])

\* Fixed64, Double and Fixed32
Fixed ==
  /\ stage \in {"long", "short"}
  /\ LET count == IF stage = "long" THEN LongBytes ELSE ShortBytes
     IN  \/ pos + count > Len(buf) /\ Fail("truncated")
         \/ pos + count <= Len(buf) /\ Keep(LittleEndian(count), pos + count)

Ended == stage \in {"end", "failed"} /\ UNCHANGED vars

Next ==
  \/ Done \/ StartTag \/ VarintTruncated \/ VarintByte \/ VarintOverflow
  \/ Tag \/ TagRefused \/ Varint \/ Blob \/ Fixed \/ Ended

\* one goroutine runs the loop to its end
Spec == Init /\ [][Next]_vars /\ WF_vars(Next)

-----------------------------------------------------------------------------
(* Properties.                                                             *)

\* Decoder: the position never leaves the buffer and no value outgrows a word,
\* however long the lengths in the message claim to be.
TypeOK ==
  /\ buf \in Seq(Byte)
  /\ pos \in 0..Len(buf) /\ from \in 0..pos
  /\ stage \in {"next", "tag", "varint", "length", "long", "short", "end", "failed"}
  /\ v \in Word /\ shift \in 0..(WordBits - 1)
  /\ tag \in [num : Word, wt : {0, 1, 2, 5}]
  /\ \A i \in DOMAIN fields :
       fields[i].num > 0 /\ (fields[i].wt # 2 => fields[i].val \in Word)
  /\ err \in {"", "truncated", "overflow", "field 0", "group", "wire type"}
  /\ stage = "failed" <=> err # ""

\* protowire's Decoder: a message is read to its end exactly when it is a row of
\* fields, every field and value is then the one its bytes spell, no bit of a
\* varint is dropped, and each turn of the loop passes over a whole field, so that
\* the loop ends.
FollowsGrammar == Grammar!Spec

Kept(message) ==
  FlattenSeq([i \in DOMAIN message |->
    IF message[i].wt = 0 /\ message[i].val = 0 THEN << >> ELSE <<message[i]>>])

\* sendspan's encoder and protowire agree: a message written whole is read as it
\* was meant, but for zeros, which proto3 does not send.
RoundTrip ==
  cut = 0 /\ stage \in {"end", "failed"} => stage = "end" /\ fields = Kept(sent)

\* ErrTruncated: a message cut anywhere either ends between two fields or is
\* refused as truncated; the fields before the cut are the first of the message.
CutIsTruncated ==
  cut > 0 =>
    /\ IsPrefix(fields, Kept(sent))
    /\ stage = "failed" => err = "truncated"
    /\ stage = "end" => Encode(fields) = buf
=============================================================================
