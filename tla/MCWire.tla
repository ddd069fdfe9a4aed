-------------------------------- MODULE MCWire --------------------------------
(* Small instances of Wire for TLC: bytes of three bits, words of nine, so *)
(* a varint has at most five bytes and a tag at least two.                 *)
EXTENDS Wire

AnyBytes(n) == [1..n -> Byte]

\* every buffer of up to three bytes; after a tag, every varint and length of
\* three bytes and those of four and five that reach the end of a word; a tag of
\* five bytes; a second field
ShortOrLong ==
  UNION {AnyBytes(n) : n \in 0..3}
  \cup {varint(8 + wt) \o s : wt \in {0, 1, 2, 5}, s \in AnyBytes(3)}
  \cup {varint(8 + wt) \o <<a, 4, 7, c, d>> :
          wt \in {0, 2}, a \in {4, 7}, c \in {3, 4, 5, 7}, d \in Byte}
  \cup {<<a, b, 4, 4, c, 0, d>> : a \in {4, 5}, b \in {4, 6}, c \in Byte, d \in {0, 4}}
  \cup {varint(8) \o <<1>> \o varint(16 + wt) \o s : wt \in {0, 1, 2, 5}, s \in AnyBytes(2)}

Field(num, wt, val) == [num |-> num, wt |-> wt, val |-> val]

\* values on both sides of one, two and four groups, the largest word; blobs whose
\* length takes a second byte; a blob that is a message
Fields ==
  {Field(n, 0, x) : n \in {1, 15, 63}, x \in {0, 1, 3, 4, 15, 16, 255, 256, 511}}
  \cup {Field(n, 1, x) : n \in {1, 8}, x \in {0, 64, 511}}
  \cup {Field(n, 2, s) : n \in {1, 2}, s \in {<< >>, <<0>>, <<7, 4, 7>>, <<1, 2, 3, 4>>,
                                              varint(8) \o <<1>>}}

OneOrTwo ==
  {<<f>> : f \in Fields}
  \cup {<<f, g>> : f \in Fields, g \in {Field(1, 0, 0), Field(63, 0, 511), Field(2, 2, <<1, 2, 3, 4>>)}}
=============================================================================
