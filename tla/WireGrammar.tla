----------------------------- MODULE WireGrammar -----------------------------
(***************************************************************************)
(* What internal/protowire promises the decoders: a message is a row of    *)
(* fields, each a tag and a value of the tag's wire type, taken off the    *)
(* front of the buffer one at a time until nothing is left, or until what  *)
(* is left does not begin with a field.                                    *)
(*                                                                         *)
(* A byte has GroupBits + 1 bits and a word is LongBytes bytes: 7 and 8 in *)
(* the program.  Then a word is some groups and one bit more, which is     *)
(* what makes the last byte of a varint special.                           *)
(***************************************************************************)
EXTENDS Integers, Sequences, Functions

CONSTANTS
  GroupBits,    \* the bits of its value that a byte of a varint carries
  LongBytes,    \* the bytes of a fixed64
  ShortBytes    \* the bytes of a fixed32

VARIABLES
  buf,      \* the message
  taken,    \* how much of it the fields so far make up
  fields,   \* the fields so far
  status    \* "reading", "end" or "failed"

vars == <<buf, taken, fields, status>>

More == 2 ^ GroupBits
WordBits == (GroupBits + 1) * LongBytes
MaxVarint == WordBits \div GroupBits + 1

\* little-endian, digits of the given width; the top bit of a varint's byte is
\* not part of its value
Number(s, bits) ==
  SumFunction([i \in DOMAIN s |-> (s[i] % 2 ^ bits) * 2 ^ (bits * (i - 1))])

IsVarint(s) ==
  /\ Len(s) \in 1..MaxVarint
  /\ \A i \in DOMAIN s : s[i] >= More <=> i < Len(s)
  /\ Number(s, GroupBits) < 2 ^ WordBits

\* s without its first k elements
Rest(s, k) == SubSeq(s, k + 1, Len(s))

IsBlob(s, k) ==
  LET head == SubSeq(s, 1, k) IN IsVarint(head) /\ Number(head, GroupBits) = Len(s) - k

IsValue(wt, s) ==
  \/ wt = 0 /\ IsVarint(s)
  \/ wt = 1 /\ Len(s) = LongBytes
  \/ wt = 2 /\ \E k \in 1..Len(s) : IsBlob(s, k)
  \/ wt = 5 /\ Len(s) = ShortBytes

ValueOf(wt, s) ==
  CASE wt = 0 -> Number(s, GroupBits)
    [] wt \in {1, 5} -> Number(s, GroupBits + 1)
    [] wt = 2 -> Rest(s, CHOOSE k \in 1..Len(s) : IsBlob(s, k))

\* s is one field, its tag the first k bytes; field numbers start at 1
IsField(s, k) ==
  LET tag == Number(SubSeq(s, 1, k), GroupBits)
  IN  IsVarint(SubSeq(s, 1, k)) /\ tag >= 8 /\ IsValue(tag % 8, Rest(s, k))

FieldOf(s, k) ==
  LET tag == Number(SubSeq(s, 1, k), GroupBits)
  IN  [num |-> tag \div 8, wt |-> tag % 8, val |-> ValueOf(tag % 8, Rest(s, k))]

Init == taken = 0 /\ fields = << >> /\ status = "reading"

TakeField ==
  /\ status = "reading"
  /\ \E to \in (taken + 1)..Len(buf) : \E k \in 1..(to - taken) :
       LET s == SubSeq(buf, taken + 1, to)
       IN  /\ IsField(s, k)
           /\ fields' = Append(fields, FieldOf(s, k))
           /\ taken' = to
  /\ UNCHANGED <<buf, status>>

End ==
  /\ status = "reading" /\ taken = Len(buf)
  /\ status' = "end"
  /\ UNCHANGED <<buf, taken, fields>>

Fail ==
  /\ status = "reading" /\ taken < Len(buf)
  /\ ~\E to \in (taken + 1)..Len(buf) : \E k \in 1..(to - taken) :
        IsField(SubSeq(buf, taken + 1, to), k)
  /\ status' = "failed"
  /\ UNCHANGED <<buf, taken, fields>>

Next == TakeField \/ End \/ Fail

Spec == Init /\ [][Next]_vars /\ WF_vars(Next)
=============================================================================
