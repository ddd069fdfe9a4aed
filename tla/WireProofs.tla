------------------------------ MODULE WireProofs ------------------------------
(***************************************************************************)
(* Theorems about the wire reader, for bytes and words of every width the  *)
(* assumptions allow, and for every buffer: it stays within the buffer and *)
(* takes off it exactly the fields that WireGrammar allows.                *)
(***************************************************************************)
EXTENDS Wire, DataLemmas

-----------------------------------------------------------------------------
(* The number that the bytes after the first a and up to the b-th spell.   *)

Powers(a, n, bits) == [i \in 1..n |-> (buf[a + i] % 2 ^ bits) * 2 ^ (bits * (i - 1))]
Digits(a, b, bits) == Sum(Powers(a, b - a, bits), 1..(b - a))

LEMMA WidthsType ==
  /\ GroupBits \in Nat /\ GroupBits > 1
  /\ WordBits \in Nat /\ WordBits > 0
  /\ More \in Nat /\ More > 1 /\ 2 * More = 2 ^ (GroupBits + 1)
  /\ 2 ^ WordBits \in Nat \ {0}
  /\ Byte \subseteq Nat
<1>1. GroupBits \in Nat /\ GroupBits > 1 /\ LongBytes \in Nat \ {0}  BY WidthsAssumption
<1>2. WordBits \in Nat /\ WordBits > 0
  <2>1. \A x, y \in Nat \ {0} : x * y \in Nat \ {0}  OBVIOUS
  <2> QED  BY <1>1, <2>1 DEF WordBits
<1>3. More \in Nat /\ 2 * More = 2 ^ (GroupBits + 1)  BY <1>1, PowerType, PowerStep DEF More
<1>4. More > 1
  <2>1. GroupBits - 1 \in Nat /\ (GroupBits - 1) + 1 = GroupBits  BY <1>1
  <2>2. 2 ^ GroupBits = 2 * 2 ^ (GroupBits - 1) /\ 2 ^ (GroupBits - 1) \in Nat \ {0}
    BY <2>1, PowerStep, PowerType
  <2> QED  BY <2>2 DEF More
<1>5. 2 ^ WordBits \in Nat \ {0}  BY <1>2, PowerType
<1>6. Byte \subseteq Nat  BY <1>3 DEF Byte
<1> QED  BY <1>1, <1>2, <1>3, <1>4, <1>5, <1>6

\* a position of the buffer holds a byte
LEMMA ByteAt ==
  ASSUME buf \in Seq(Byte), NEW i \in 1..Len(buf)
  PROVE  buf[i] \in Byte /\ buf[i] \in Nat
BY ElementOfSeq, WidthsType

LEMMA PowersType ==
  ASSUME buf \in Seq(Byte), NEW a \in Nat, NEW n \in Nat, a + n <= Len(buf), NEW bits \in Nat
  PROVE  Powers(a, n, bits) \in [1..n -> Nat]
<1> SUFFICES ASSUME NEW i \in 1..n
             PROVE  (buf[a + i] % 2 ^ bits) * 2 ^ (bits * (i - 1)) \in Nat
  BY DEF Powers
<1>1. a + i \in 1..Len(buf)  BY LenProperties
<1>2. buf[a + i] \in Nat  BY <1>1, ByteAt
<1>3. 2 ^ bits \in Nat \ {0}  BY PowerType
<1>4. buf[a + i] % 2 ^ bits \in Nat  BY <1>2, <1>3
<1>5. bits * (i - 1) \in Nat
  <2>1. \A x, y \in Nat : x * y \in Nat  OBVIOUS
  <2>2. i - 1 \in Nat  OBVIOUS
  <2> QED  BY <2>1, <2>2
<1>6. 2 ^ (bits * (i - 1)) \in Nat  BY <1>5, PowerType
<1> QED  BY <1>4, <1>6

LEMMA DigitsType ==
  ASSUME buf \in Seq(Byte), NEW a \in Nat, NEW b \in Nat, a <= b, b <= Len(buf), NEW bits \in Nat
  PROVE  Digits(a, b, bits) \in Nat
<1>1. b - a \in Nat /\ a + (b - a) <= Len(buf)  BY LenProperties
<1>2. Powers(a, b - a, bits) \in [1..(b - a) -> Nat]  BY <1>1, PowersType
<1>3. IsFiniteSet(1..(b - a))  BY <1>1, IntervalFinite
<1> QED  BY <1>2, <1>3, SumType DEF Digits

LEMMA DigitsEmpty == ASSUME NEW a \in Nat, NEW bits PROVE Digits(a, a, bits) = 0
<1>1. 1..(a - a) = {}  OBVIOUS
<1> QED  BY <1>1, SumEmpty DEF Digits

LEMMA DigitsStep ==
  ASSUME buf \in Seq(Byte), NEW a \in Nat, NEW b \in Nat, a <= b, b < Len(buf), NEW bits \in Nat
  PROVE  Digits(a, b + 1, bits)
           = Digits(a, b, bits) + (buf[b + 1] % 2 ^ bits) * 2 ^ (bits * (b - a))
<1> DEFINE n == b - a
           f == Powers(a, n, bits)
           g == Powers(a, n + 1, bits)
<1>1. n \in Nat /\ n + 1 \in Nat /\ a + (n + 1) <= Len(buf) /\ a + n <= Len(buf) /\ a + (n + 1) = b + 1
      /\ (b + 1) - a = n + 1 /\ (n + 1) - 1 = n
  BY LenProperties
<1>2. f \in [1..n -> Nat] /\ g \in [1..(n + 1) -> Nat]  BY <1>1, PowersType
<1>3. g[n + 1] = (buf[b + 1] % 2 ^ bits) * 2 ^ (bits * n)  BY <1>1 DEF Powers
<1>4. \A i \in 1..n : f[i] = g[i]
  <2>1. 1..n \subseteq 1..(n + 1)  BY <1>1
  <2> QED  BY <2>1 DEF Powers
<1>5. Digits(a, b + 1, bits) = Sum(g, 1..(n + 1)) /\ Digits(a, b, bits) = Sum(f, 1..n)
  BY <1>1 DEF Digits
<1> HIDE DEF f, g, n
<1>6. 1..(n + 1) = (1..n) \cup {n + 1} /\ n + 1 \in 1..(n + 1) /\ n + 1 \notin 1..n
      /\ 1..n \in SUBSET (1..(n + 1))
  BY <1>1
<1>7. IsFiniteSet(1..n)  BY <1>1, IntervalFinite
<1>8. Sum(g, 1..(n + 1)) = Sum(g, 1..n) + g[n + 1]
  <2> DEFINE D == 1..(n + 1)
             S == 1..n
             x == n + 1
  <2>1. g \in [D -> Nat] /\ S \in SUBSET D /\ IsFiniteSet(S) /\ x \in D \ S
    BY <1>2, <1>6, <1>7
  <2>2. D = S \cup {x}  BY <1>6
  <2> HIDE DEF D, S, x
  <2>3. Sum(g, S \cup {x}) = Sum(g, S) + g[x]  BY <2>1, SumAdd
  <2>4. Sum(g, D) = Sum(g, S) + g[x]  BY <2>2, <2>3
  <2> QED  BY <2>4 DEF D, S, x
<1>9. Sum(f, 1..n) = Sum(g, 1..n)  BY <1>4, <1>7, SumCong
<1> QED  BY <1>3, <1>5, <1>8, <1>9 DEF n

\* n digits are below the n-th power
LEMMA DigitsBound ==
  ASSUME buf \in Seq(Byte), NEW a \in Nat, NEW b \in Nat, a <= b, b <= Len(buf), NEW bits \in Nat
  PROVE  Digits(a, b, bits) < 2 ^ (bits * (b - a))
<1> DEFINE Bad == {c \in a..Len(buf) : ~(Digits(a, c, bits) < 2 ^ (bits * (c - a)))}
<1> SUFFICES ASSUME Bad # {} PROVE FALSE
  <2>1. b \in a..Len(buf)  BY LenProperties
  <2> QED  BY <2>1
<1>1. PICK c \in Bad : \A d \in Nat : d < c => d \notin Bad
  <2>1. Bad \subseteq Nat  BY LenProperties
  <2> HIDE DEF Bad
  <2> QED  BY <2>1, FirstBad
<1>2. c # a
  <2> SUFFICES ASSUME c = a PROVE FALSE  OBVIOUS
  <2>1. bits * (a - a) = 0  OBVIOUS
  <2>2. 2 ^ 0 = 1  OBVIOUS
  <2>3. Digits(a, a, bits) = 0  BY DigitsEmpty
  <2>4. ~(Digits(a, a, bits) < 2 ^ (bits * (a - a)))  OBVIOUS
  <2> DEFINE e == bits * (a - a)
  <2>5. e = 0 /\ ~(Digits(a, a, bits) < 2 ^ e)  BY <2>1, <2>4
  <2> HIDE DEF Bad, e
  <2>6. 2 ^ e = 1  BY <2>2, <2>5
  <2> QED  BY <2>3, <2>5, <2>6
<1> DEFINE d == c - 1
           x == buf[c] % 2 ^ bits
           p == 2 ^ (bits * (d - a))
<1>3. d \in Nat /\ a <= d /\ d < Len(buf) /\ d + 1 = c /\ d \in a..Len(buf) /\ d < c
      /\ c - a = (d - a) + 1 /\ c \in 1..Len(buf) /\ d - a \in Nat
  BY <1>2, LenProperties
<1>4. Digits(a, d, bits) < p  BY <1>1, <1>3
<1>5. Digits(a, c, bits) = Digits(a, d, bits) + x * p  BY <1>3, DigitsStep
<1>6. Digits(a, d, bits) \in Nat
  <2>1. d <= Len(buf)  BY <1>3, LenProperties
  <2> QED  BY <1>3, <2>1, DigitsType
<1>7. bits * (d - a) \in Nat /\ bits * (c - a) = bits + bits * (d - a)
  <2>1. \A y, z \in Nat : y * z \in Nat /\ y * (z + 1) = y + y * z  OBVIOUS
  <2> QED  BY <1>3, <2>1
<1>8. p \in Nat /\ 2 ^ bits \in Nat \ {0}  BY <1>7, PowerType
<1>9. x \in Nat /\ x + 1 <= 2 ^ bits
  <2>1. buf[c] \in Nat  BY <1>3, ByteAt
  <2>2. \A y \in Nat, z \in Nat \ {0} : y % z \in Nat /\ (y % z) + 1 <= z  OBVIOUS
  <2> QED  BY <1>8, <2>1, <2>2
<1>10. 2 ^ (bits * (c - a)) = 2 ^ bits * p  BY <1>7, PowerSum
<1> HIDE DEF Bad, d, x, p
<1>11. x * p + p <= 2 ^ bits * p
  <2>1. \A y, z, w \in Nat : y + 1 <= w => y * z + z <= w * z  OBVIOUS
  <2> QED  BY <1>8, <1>9, <2>1
<1>12. Digits(a, c, bits) < 2 ^ (bits * (c - a))
  <2>1. x * p \in Nat /\ 2 ^ bits * p \in Nat  BY <1>8, <1>9
  <2> QED  BY <1>4, <1>5, <1>6, <1>8, <1>10, <1>11, <2>1
<1> QED  BY <1>12, <1>1 DEF Bad

-----------------------------------------------------------------------------
(* Varints.                                                                *)

\* the bytes after the first a, up to the b-th, are a varint
VarintAt(a, b) ==
  /\ a < b /\ b <= Len(buf) /\ b - a <= Grammar!MaxVarint
  /\ \A i \in (a + 1)..b : buf[i] >= More <=> i < b
  /\ Digits(a, b, GroupBits) < 2 ^ WordBits

\* the reader is in a varint that started after the first a bytes
Reading(a) ==
  /\ a <= pos
  /\ \A i \in (a + 1)..pos : buf[i] >= More
  /\ v = Digits(a, pos, GroupBits)
  /\ shift = GroupBits * (pos - a)

LEMMA VarintUnique ==
  ASSUME buf \in Seq(Byte), NEW a \in Nat, NEW b \in Nat, NEW c \in Nat, VarintAt(a, b), VarintAt(a, c)
  PROVE  b = c
<1>1. ASSUME NEW x \in Nat, NEW y \in Nat, VarintAt(a, x), VarintAt(a, y) PROVE ~(x < y)
  <2> SUFFICES ASSUME x < y PROVE FALSE  OBVIOUS
  <2>1. x \in (a + 1)..x /\ x \in (a + 1)..y  BY <1>1 DEF VarintAt
  <2>2. ~(buf[x] >= More)
    <3>1. buf[x] >= More <=> x < x  BY <1>1, <2>1 DEF VarintAt
    <3> QED  BY <3>1
  <2>3. buf[x] >= More  BY <1>1, <2>1 DEF VarintAt
  <2> QED  BY <2>2, <2>3
<1> QED  BY <1>1

LEMMA MaxVarintIs ==
  /\ Grammar!MaxVarint \in Nat
  /\ GroupBits * (Grammar!MaxVarint - 1) + 1 = WordBits
<1> DEFINE q == WordBits \div GroupBits
<1>1. GroupBits \in Nat \ {0} /\ WordBits \in Nat /\ WordBits % GroupBits = 1
  BY WidthsType, WidthsAssumption
<1>2. \A x \in Nat, y \in Nat \ {0} : x \div y \in Nat  OBVIOUS
<1>2a. \A x \in Nat, y \in Nat \ {0} : x = (x \div y) * y + (x % y)  OBVIOUS
<1>2b. \A x, y \in Nat : x * y = y * x  OBVIOUS
<1>3. q \in Nat /\ WordBits = GroupBits * q + 1  BY <1>1, <1>2, <1>2a, <1>2b
<1>4. Grammar!MaxVarint = q + 1  BY DEF Grammar!MaxVarint, Grammar!WordBits, WordBits
<1> HIDE DEF q
<1>5. (q + 1) - 1 = q  BY <1>3
<1> QED  BY <1>3, <1>4, <1>5

\* how many bytes have been read in a varint
LEMMA ReadingCount ==
  ASSUME NEW a \in Nat, pos \in Nat, Reading(a), shift < WordBits
  PROVE  /\ pos - a \in Nat /\ shift \in Nat
         /\ pos - a <= Grammar!MaxVarint - 1
         /\ shift + GroupBits = GroupBits * ((pos + 1) - a)
         /\ shift + GroupBits > WordBits => shift = WordBits - 1
         /\ pos - a < Grammar!MaxVarint - 1 => shift + GroupBits < WordBits
<1> DEFINE n == pos - a
           q == Grammar!MaxVarint - 1
<1>1. n \in Nat /\ (pos + 1) - a = n + 1  BY DEF Reading
<1>2. shift = GroupBits * n  BY DEF Reading
<1>3. GroupBits \in Nat /\ GroupBits > 1 /\ WordBits \in Nat  BY WidthsType
<1>4. q \in Int /\ GroupBits * q + 1 = WordBits  BY MaxVarintIs
<1> HIDE DEF n, q
<1>5. \A x \in Nat, y \in Nat : x * y \in Nat /\ x * (y + 1) = x * y + x  OBVIOUS
<1>6. shift \in Nat /\ shift + GroupBits = GroupBits * (n + 1)  BY <1>1, <1>2, <1>3, <1>5
<1>7. n <= q
  <2> SUFFICES ASSUME q + 1 <= n PROVE FALSE  BY <1>1, <1>4
  <2>1. \A x \in Nat, y, z \in Int : y <= z => x * y <= x * z  OBVIOUS
  <2>2. GroupBits * (q + 1) <= GroupBits * n  BY <1>1, <1>3, <1>4, <2>1
  <2>3. GroupBits * (q + 1) = GroupBits * q + GroupBits
    <3>1. \A x \in Nat, y \in Int : x * (y + 1) = x * y + x  OBVIOUS
    <3> QED  BY <1>3, <1>4, <3>1
  <2>4. GroupBits * q \in Int
    <3>1. \A x \in Nat, y \in Int : x * y \in Int  OBVIOUS
    <3> QED  BY <1>3, <1>4, <3>1
  <2> QED  BY <1>2, <1>3, <1>4, <1>6, <2>2, <2>3, <2>4
<1>8. shift + GroupBits > WordBits => shift = WordBits - 1
  <2> SUFFICES ASSUME n # q PROVE shift + GroupBits <= WordBits
    BY <1>2, <1>3, <1>4, <1>6
  <2>1. n + 1 <= q  BY <1>1, <1>4, <1>7
  <2>2. \A x \in Nat, y, z \in Int : y <= z => x * y <= x * z /\ x * z \in Int  OBVIOUS
  <2>3. GroupBits * (n + 1) <= GroupBits * q /\ GroupBits * q \in Int
    BY <1>1, <1>3, <1>4, <2>1, <2>2
  <2> QED  BY <1>3, <1>4, <1>6, <2>3
<1>9. n < q => shift + GroupBits < WordBits
  <2> SUFFICES ASSUME n < q PROVE shift + GroupBits < WordBits  OBVIOUS
  <2>1. n + 1 <= q  BY <1>1, <1>4
  <2>2. \A x \in Nat, y, z \in Int : y <= z => x * y <= x * z /\ x * z \in Int  OBVIOUS
  <2>3. GroupBits * (n + 1) <= GroupBits * q /\ GroupBits * q \in Int
    BY <1>1, <1>3, <1>4, <2>1, <2>2
  <2> QED  BY <1>3, <1>4, <1>6, <2>3
<1> QED  BY <1>1, <1>6, <1>7, <1>8, <1>9 DEF n, q

\* the value after one more byte of the varint
LEMMA ReadingStep ==
  ASSUME buf \in Seq(Byte), NEW a \in Nat, pos \in Nat, pos < Len(buf),
         Reading(a), shift < WordBits
  PROVE  /\ B \in Byte /\ B \in Nat /\ B % More \in Nat
         /\ v \in Nat /\ v < 2 ^ shift /\ 2 ^ shift \in Nat
         /\ Digits(a, pos + 1, GroupBits) = v + (B % More) * 2 ^ shift
         /\ Digits(a, pos + 1, GroupBits) < 2 ^ (shift + GroupBits)
         /\ Digits(a, pos + 1, GroupBits) \in Nat
<1>1. pos + 1 \in 1..Len(buf) /\ a <= pos /\ a <= pos + 1 /\ pos + 1 <= Len(buf) /\ pos <= Len(buf)
      /\ pos + 1 \in Nat
  BY LenProperties DEF Reading
<1>2. B \in Byte /\ B \in Nat  BY <1>1, ByteAt DEF B
<1>3. GroupBits \in Nat /\ More \in Nat \ {0} /\ WordBits \in Nat  BY WidthsType
<1>4. v = Digits(a, pos, GroupBits) /\ shift = GroupBits * (pos - a)  BY DEF Reading
<1>5. v \in Nat /\ v < 2 ^ shift  BY <1>1, <1>3, <1>4, DigitsType, DigitsBound
<1>6. shift \in Nat /\ shift + GroupBits = GroupBits * ((pos + 1) - a)  BY ReadingCount
<1>7. Digits(a, pos + 1, GroupBits)
        = Digits(a, pos, GroupBits) + (buf[pos + 1] % 2 ^ GroupBits) * 2 ^ (GroupBits * (pos - a))
  BY <1>1, <1>3, DigitsStep
<1>8. Digits(a, pos + 1, GroupBits) = v + (B % More) * 2 ^ shift  BY <1>4, <1>7 DEF B, More
<1>9. Digits(a, pos + 1, GroupBits) < 2 ^ (GroupBits * ((pos + 1) - a))
      /\ Digits(a, pos + 1, GroupBits) \in Nat
  BY <1>1, <1>3, DigitsBound, DigitsType
<1>10. 2 ^ shift \in Nat  BY <1>6, PowerType
<1>11. B % More \in Nat  BY <1>2, <1>3
<1> QED  BY <1>2, <1>5, <1>6, <1>8, <1>9, <1>10, <1>11

LEMMA ModOfSmaller == ASSUME NEW x \in Nat, NEW y \in Nat, x < y PROVE x % y = x
OBVIOUS

LEMMA VarintGoesOn ==
  ASSUME buf \in Seq(Byte), NEW a \in Nat, pos \in Nat, pos < Len(buf),
         Reading(a), B >= More, shift + GroupBits < WordBits, shift < WordBits
  PROVE  /\ \A i \in (a + 1)..(pos + 1) : buf[i] >= More
         /\ (v + (B % More) * 2 ^ shift) % 2 ^ WordBits = Digits(a, pos + 1, GroupBits)
         /\ shift + GroupBits = GroupBits * ((pos + 1) - a)
<1>1. \A i \in (a + 1)..(pos + 1) : i \in (a + 1)..pos \/ i = pos + 1  OBVIOUS
<1>2. \A i \in (a + 1)..(pos + 1) : buf[i] >= More  BY <1>1 DEF Reading, B
<1>3. shift \in Nat /\ shift + GroupBits = GroupBits * ((pos + 1) - a)  BY ReadingCount
<1>4. GroupBits \in Nat /\ WordBits \in Nat  BY WidthsType
<1>5. 2 ^ (shift + GroupBits) <= 2 ^ WordBits
  <2>1. shift + GroupBits \in Nat /\ shift + GroupBits <= WordBits  BY <1>3, <1>4
  <2> QED  BY <1>4, <2>1, PowerMonotonic
<1>6. 2 ^ (shift + GroupBits) \in Nat /\ 2 ^ WordBits \in Nat
  <2>1. shift + GroupBits \in Nat  BY <1>3, <1>4
  <2> QED  BY <1>4, <2>1, PowerType
<1> DEFINE d == Digits(a, pos + 1, GroupBits)
<1>7. d = v + (B % More) * 2 ^ shift /\ d < 2 ^ (shift + GroupBits) /\ d \in Nat
  BY ReadingStep
<1> HIDE DEF d
<1>8. d < 2 ^ WordBits  BY <1>5, <1>6, <1>7
<1>9. d % 2 ^ WordBits = d  BY <1>6, <1>7, <1>8, ModOfSmaller
<1> QED  BY <1>2, <1>3, <1>7, <1>9 DEF d

LEMMA VarintEnds ==
  ASSUME buf \in Seq(Byte), NEW a \in Nat, pos \in Nat, Reading(a), Ends, shift < WordBits
  PROVE  VarintAt(a, pos + 1) /\ Result = Digits(a, pos + 1, GroupBits)
<1>1. pos < Len(buf) /\ B < More /\ ~(shift = WordBits - 1 /\ B > 1)  BY DEF Ends
<1> DEFINE d == Digits(a, pos + 1, GroupBits)
<1>2. /\ B \in Nat /\ v \in Nat /\ v < 2 ^ shift /\ 2 ^ shift \in Nat
      /\ d = v + (B % More) * 2 ^ shift /\ d < 2 ^ (shift + GroupBits) /\ d \in Nat
  BY <1>1, ReadingStep
<1>3. /\ pos - a \in Nat /\ shift \in Nat /\ pos - a <= Grammar!MaxVarint - 1
      /\ shift + GroupBits > WordBits => shift = WordBits - 1
  BY ReadingCount
<1>4. GroupBits \in Nat /\ WordBits \in Nat /\ More \in Nat /\ 2 ^ WordBits \in Nat  BY WidthsType
<1>5. B % More = B  BY <1>1, <1>2, <1>4, ModOfSmaller
<1> HIDE DEF d
<1>6. d < 2 ^ WordBits
  <2>1. CASE shift + GroupBits <= WordBits
    <3>1. shift + GroupBits \in Nat  BY <1>3, <1>4
    <3>2. 2 ^ (shift + GroupBits) <= 2 ^ WordBits /\ 2 ^ (shift + GroupBits) \in Nat
      BY <1>4, <2>1, <3>1, PowerMonotonic, PowerType
    <3> QED  BY <1>2, <1>4, <3>2
  <2>2. CASE shift + GroupBits > WordBits
    <3>1. shift = WordBits - 1  BY <1>3, <2>2
    <3>2. B \in {0, 1}  BY <1>1, <1>2, <3>1
    <3>3. B * 2 ^ shift <= 2 ^ shift
      <4>1. \A x \in {0, 1}, y \in Nat : x * y <= y  OBVIOUS
      <4> QED  BY <1>2, <3>2, <4>1
    <3>4. 2 ^ WordBits = 2 * 2 ^ shift
      <4>1. shift + 1 = WordBits  BY <1>3, <1>4, <3>1
      <4>2. 2 ^ (shift + 1) = 2 * 2 ^ shift  BY <1>3, PowerStep
      <4> QED  BY <4>1, <4>2
    <3>5. B * 2 ^ shift \in Nat
      <4>1. \A x, y \in Nat : x * y \in Nat  OBVIOUS
      <4> QED  BY <1>2, <4>1
    <3> QED  BY <1>2, <1>5, <3>3, <3>4, <3>5
  <2> QED  BY <1>3, <1>4, <2>1, <2>2
<1>7. Result = d
  <2>1. Result = d % 2 ^ WordBits  BY <1>2, <1>5 DEF Result
  <2> QED  BY <1>2, <1>4, <1>6, <2>1, ModOfSmaller
<1>8. VarintAt(a, pos + 1)
  <2>1. a < pos + 1 /\ pos + 1 <= Len(buf)  BY <1>1, LenProperties DEF Reading
  <2>2. (pos + 1) - a <= Grammar!MaxVarint  BY <1>3, MaxVarintIs
  <2>3. \A i \in (a + 1)..(pos + 1) : buf[i] >= More <=> i < pos + 1
    <3> SUFFICES ASSUME NEW i \in (a + 1)..(pos + 1) PROVE buf[i] >= More <=> i < pos + 1
      OBVIOUS
    <3>1. CASE i = pos + 1  BY <1>1, <1>2, <1>4, <3>1 DEF B
    <3>2. CASE i # pos + 1
      <4>1. i \in (a + 1)..pos  BY <3>2
      <4> QED  BY <4>1 DEF Reading
    <3> QED  BY <3>1, <3>2
  <2> QED  BY <1>6, <2>1, <2>2, <2>3 DEF VarintAt, d
<1> QED  BY <1>7, <1>8 DEF d

\* where the reader gives up on a varint there is none
LEMMA NoVarint ==
  ASSUME buf \in Seq(Byte), NEW a \in Nat, pos \in 0..Len(buf), Reading(a), shift < WordBits,
         \/ pos >= Len(buf)
         \/ pos < Len(buf) /\ B >= More /\ shift + GroupBits >= WordBits
         \/ pos < Len(buf) /\ B \in 2..(More - 1) /\ shift = WordBits - 1
  PROVE  \A b \in Nat : ~VarintAt(a, b)
<1> SUFFICES ASSUME NEW b \in Nat, VarintAt(a, b) PROVE FALSE  OBVIOUS
<1>1. pos \in Nat /\ Len(buf) \in Nat  BY LenProperties
<1>2. a < b /\ b <= Len(buf) /\ b - a <= Grammar!MaxVarint /\ Digits(a, b, GroupBits) < 2 ^ WordBits
      /\ ~(buf[b] >= More)
  <2>1. a < b /\ b <= Len(buf) /\ b - a <= Grammar!MaxVarint /\ Digits(a, b, GroupBits) < 2 ^ WordBits
        /\ (b \in (a + 1)..b => (buf[b] >= More <=> b < b))
    BY DEF VarintAt
  <2>2. b \in (a + 1)..b  BY <2>1
  <2> QED  BY <2>1, <2>2
<1>3. b > pos
  <2> SUFFICES ASSUME b <= pos PROVE FALSE  BY <1>1
  <2>1. b \in (a + 1)..pos  BY <1>1, <1>2
  <2> QED  BY <1>2, <2>1 DEF Reading
<1>4. pos < Len(buf) /\ b >= pos + 1  BY <1>1, <1>2, <1>3
<1>5. /\ pos - a \in Nat /\ shift \in Nat
      /\ pos - a < Grammar!MaxVarint - 1 => shift + GroupBits < WordBits
  BY <1>1, ReadingCount
<1>6. GroupBits \in Nat /\ WordBits \in Nat /\ More \in Nat /\ 2 ^ WordBits \in Nat  BY WidthsType
<1>7. CASE B >= More /\ shift + GroupBits >= WordBits
  <2>1. b # pos + 1  BY <1>2, <1>7 DEF B
  <2>2. pos - a < Grammar!MaxVarint - 1  BY <1>1, <1>2, <1>4, <1>5, <2>1, MaxVarintIs
  <2> QED  BY <1>5, <1>6, <1>7, <2>2
<1>8. CASE B \in 2..(More - 1) /\ shift = WordBits - 1
  <2>1. b = pos + 1
    <3> SUFFICES ASSUME b # pos + 1 PROVE FALSE  OBVIOUS
    <3>1. pos + 1 \in (a + 1)..b /\ pos + 1 < b  BY <1>1, <1>4, <1>5
    <3>2. buf[pos + 1] >= More  BY <3>1 DEF VarintAt
    <3> QED  BY <1>6, <1>8, <3>2 DEF B
  <2> DEFINE d == Digits(a, pos + 1, GroupBits)
             p == 2 ^ shift
  <2>2. B % More = B
    <3>1. B \in Nat /\ B < More  BY <1>6, <1>8
    <3> QED  BY <1>6, <3>1, ModOfSmaller
  <2>3. d = v + (B % More) * p /\ v \in Nat /\ p \in Nat  BY <1>1, <1>4, ReadingStep
  <2>4. 2 ^ WordBits = 2 * p
    <3>1. shift + 1 = WordBits  BY <1>5, <1>6, <1>8
    <3>2. 2 ^ (shift + 1) = 2 * 2 ^ shift  BY <1>5, PowerStep
    <3> QED  BY <3>1, <3>2
  <2>5. d < 2 ^ WordBits  BY <1>2, <2>1
  <2> HIDE DEF d, p
  <2>6. B * p >= 2 * p /\ B * p \in Nat
    <3>1. \A x, y \in Nat : x * y \in Nat /\ (x >= 2 => x * y >= 2 * y)  OBVIOUS
    <3>2. B \in Nat /\ B >= 2  BY <1>6, <1>8
    <3> QED  BY <2>3, <3>1, <3>2
  <2> QED  BY <2>2, <2>3, <2>4, <2>5, <2>6
<1> QED  BY <1>1, <1>4, <1>7, <1>8

-----------------------------------------------------------------------------
(* The grammar in terms of positions in the buffer.                        *)

LEMMA Part ==
  ASSUME buf \in Seq(Byte), NEW a \in Nat, NEW b \in Nat, a <= b, b <= Len(buf)
  PROVE  /\ SubSeq(buf, a + 1, b) \in Seq(Byte)
         /\ Len(SubSeq(buf, a + 1, b)) = b - a
         /\ DOMAIN SubSeq(buf, a + 1, b) = 1..(b - a)
         /\ \A i \in 1..(b - a) : SubSeq(buf, a + 1, b)[i] = buf[a + i]
BY SubPart

LEMMA PartOfPart ==
  ASSUME buf \in Seq(Byte), NEW a \in Nat, NEW b \in Nat, a <= b, b <= Len(buf),
         NEW k \in Nat, NEW l \in Nat, k <= l, l <= b - a
  PROVE  SubSeq(SubSeq(buf, a + 1, b), k + 1, l) = SubSeq(buf, (a + k) + 1, a + l)
BY SubOfSub

\* the grammar's sums are the module's own
LEMMA SameSum == ASSUME NEW f PROVE Grammar!SumFunction(f) = SumFunctionOnSet(f, DOMAIN f)
BY DEF Grammar!SumFunction, Grammar!SumFunctionOnSet, Grammar!FoldFunctionOnSet,
       Grammar!MapThenFoldSet, SumFunctionOnSet, FoldFunctionOnSet, MapThenFoldSet

\* what is written digit by digit is read back, as far as there are digits
LEMMA NumberSpelt ==
  ASSUME NEW n \in Nat, NEW bits \in Nat, NEW s \in Seq(Nat),
         \A i \in 1..Len(s) : s[i] % 2 ^ bits = (n \div 2 ^ (bits * (i - 1))) % 2 ^ bits
  PROVE  Grammar!Number(s, bits) = n % 2 ^ (bits * Len(s))
<1> DEFINE count == Len(s)
           f == [i \in 1..count |-> (s[i] % 2 ^ bits) * 2 ^ (bits * (i - 1))]
           Bad == {m \in 0..count : Sum(f, 1..m) # n % 2 ^ (bits * m)}
<1>1. count \in Nat /\ DOMAIN s = 1..count /\ \A i \in 1..count : s[i] \in Nat
  BY LenProperties, ElementOfSeq
<1>2. Grammar!Number(s, bits) = Sum(f, 1..count)
  <2> DEFINE g == [i \in DOMAIN s |-> (s[i] % 2 ^ bits) * 2 ^ (bits * (i - 1))]
  <2>1. f = g /\ DOMAIN g = 1..count  BY <1>1
  <2>2. Grammar!Number(s, bits) = SumFunctionOnSet(g, DOMAIN g)
    BY SameSum DEF Grammar!Number
  <2> HIDE DEF f, g
  <2> QED  BY <2>1, <2>2 DEF Sum
<1>3. 2 ^ bits \in Nat \ {0}  BY PowerType
<1>4. \A x, y \in Nat : x * y \in Nat  OBVIOUS
<1>5. \A m \in Nat : bits * m \in Nat /\ 2 ^ (bits * m) \in Nat \ {0}
  <2> SUFFICES ASSUME NEW m \in Nat PROVE bits * m \in Nat /\ 2 ^ (bits * m) \in Nat \ {0}  OBVIOUS
  <2>1. bits * m \in Nat  BY <1>4
  <2> QED  BY <2>1, PowerType
<1>6. \A x \in Nat, y \in Nat \ {0} : x % y \in Nat  OBVIOUS
<1>7. f \in [1..count -> Nat]
  <2> SUFFICES ASSUME NEW i \in 1..count PROVE (s[i] % 2 ^ bits) * 2 ^ (bits * (i - 1)) \in Nat
    OBVIOUS
  <2>1. i - 1 \in Nat  OBVIOUS
  <2>2. 2 ^ (bits * (i - 1)) \in Nat  BY <1>5, <2>1
  <2>3. s[i] % 2 ^ bits \in Nat  BY <1>1, <1>3, <1>6
  <2> QED  BY <1>4, <2>2, <2>3
<1>8. Bad = {}
  <2> SUFFICES ASSUME Bad # {} PROVE FALSE  OBVIOUS
  <2>1. PICK c \in Bad : \A d \in Nat : d < c => d \notin Bad
    <3>1. Bad \subseteq Nat  BY <1>1
    <3> HIDE DEF Bad
    <3> QED  BY <3>1, FirstBad
  <2>2. c # 0
    <3> SUFFICES ASSUME c = 0 PROVE FALSE  OBVIOUS
    <3> HIDE DEF f
    <3>1. 1..0 = {} /\ bits * 0 = 0  OBVIOUS
    <3>2. Sum(f, 1..0) = 0  BY <3>1, SumEmpty
    <3>3. 2 ^ (bits * 0) = 1
      <4> DEFINE e == bits * 0
      <4>1. e = 0  BY <3>1
      <4> HIDE DEF e
      <4>2. 2 ^ e = 1  BY <4>1
      <4> QED  BY <4>2 DEF e
    <3>4. n % 1 = 0  OBVIOUS
    <3>5. Sum(f, 1..0) = n % 2 ^ (bits * 0)  BY <3>2, <3>3, <3>4
    <3> QED  BY <2>1, <3>5
  <2> DEFINE m == c - 1
             p == 2 ^ (bits * m)
             q == 2 ^ bits
  <2>3. m \in Nat /\ m + 1 = c /\ m \in 0..count /\ m < c /\ c \in 1..count /\ c - 1 = m  BY <1>1, <2>2
  <2>4. Sum(f, 1..m) = n % p  BY <2>1, <2>3
  <2>5. Sum(f, 1..c) = Sum(f, 1..m) + f[c]
    <3> HIDE DEF f, Bad
    <3>1. m + 1 <= count /\ f \in [1..count -> Nat]  BY <1>7, <2>3
    <3>2. Sum(f, 1..(m + 1)) = Sum(f, 1..m) + f[m + 1]  BY <1>1, <2>3, <3>1, SumNext
    <3> QED  BY <2>3, <3>2
  <2>6. f[c] = ((n \div p) % q) * p
    <3>1. f[c] = (s[c] % 2 ^ bits) * 2 ^ (bits * (c - 1))  BY <2>3
    <3>2. s[c] % 2 ^ bits = (n \div 2 ^ (bits * (c - 1))) % 2 ^ bits  BY <2>3
    <3> QED  BY <2>3, <3>1, <3>2
  <2>7. p \in Nat \ {0} /\ q \in Nat \ {0}  BY <1>3, <1>5, <2>3
  <2>8. p * q = 2 ^ (bits * c)
    <3>1. bits * c = bits * m + bits
      <4>1. \A y, z \in Nat : y * (z + 1) = y * z + y  OBVIOUS
      <4> QED  BY <2>3, <4>1
    <3>2. bits * m \in Nat  BY <1>5, <2>3
    <3> QED  BY <3>1, <3>2, PowerSum
  <2> HIDE DEF f, p, q, m, Bad
  <2>9. n % (p * q) = (n % p) + ((n \div p) % q) * p  BY <2>7, ModSplit
  <2>10. Sum(f, 1..c) = n % 2 ^ (bits * c)  BY <2>4, <2>5, <2>6, <2>8, <2>9
  <2> QED  BY <2>1, <2>10 DEF Bad
<1>9. count \in 0..count  BY <1>1
<1> QED  BY <1>2, <1>8, <1>9

LEMMA NumberIs ==
  ASSUME buf \in Seq(Byte), NEW a \in Nat, NEW b \in Nat, a <= b, b <= Len(buf), NEW bits
  PROVE  Grammar!Number(SubSeq(buf, a + 1, b), bits) = Digits(a, b, bits)
<1> DEFINE s == SubSeq(buf, a + 1, b)
           f == [i \in DOMAIN s |-> (s[i] % 2 ^ bits) * 2 ^ (bits * (i - 1))]
           g == Powers(a, b - a, bits)
<1>1. DOMAIN s = 1..(b - a) /\ \A i \in 1..(b - a) : s[i] = buf[a + i]  BY Part
<1> HIDE DEF s
<1>2. f = g  BY <1>1 DEF Powers
<1>3. DOMAIN g = 1..(b - a)  BY DEF Powers
<1>4. Grammar!Number(s, bits) = SumFunctionOnSet(f, DOMAIN f)
  BY SameSum DEF Grammar!Number
<1> HIDE DEF f, g
<1>5. Grammar!Number(s, bits) = Sum(g, 1..(b - a))  BY <1>2, <1>3, <1>4 DEF Sum
<1> QED  BY <1>5 DEF Digits, s, g

LEMMA SameWidths ==
  Grammar!More = More /\ Grammar!WordBits = WordBits
BY DEF Grammar!More, More, Grammar!WordBits, WordBits

LEMMA VarintIs ==
  ASSUME buf \in Seq(Byte), NEW a \in Nat, NEW b \in Nat, a <= b, b <= Len(buf)
  PROVE  Grammar!IsVarint(SubSeq(buf, a + 1, b)) <=> VarintAt(a, b)
<1> DEFINE s == SubSeq(buf, a + 1, b)
<1>1. /\ Len(s) = b - a /\ DOMAIN s = 1..(b - a)
      /\ \A i \in 1..(b - a) : s[i] = buf[a + i]
  BY Part
<1>2. Grammar!Number(s, GroupBits) = Digits(a, b, GroupBits)  BY NumberIs
<1> HIDE DEF s
<1>3. Len(s) \in 1..Grammar!MaxVarint <=> a < b /\ b - a <= Grammar!MaxVarint
  BY <1>1, MaxVarintIs
<1>4. (\A i \in DOMAIN s : s[i] >= More <=> i < Len(s))
        <=> \A i \in (a + 1)..b : buf[i] >= More <=> i < b
  <2>1. ASSUME \A i \in (a + 1)..b : buf[i] >= More <=> i < b, NEW i \in DOMAIN s
        PROVE  s[i] >= More <=> i < Len(s)
    <3>1. i \in 1..(b - a) /\ a + i \in (a + 1)..b /\ s[i] = buf[a + i]  BY <1>1, <2>1
    <3>2. a + i < b <=> i < b - a  BY <3>1
    <3> QED  BY <1>1, <2>1, <3>1, <3>2
  <2>2. ASSUME \A i \in DOMAIN s : s[i] >= More <=> i < Len(s), NEW i \in (a + 1)..b
        PROVE  buf[i] >= More <=> i < b
    <3>1. i - a \in DOMAIN s /\ s[i - a] = buf[a + (i - a)] /\ a + (i - a) = i  BY <1>1, <2>2
    <3>2. i - a < b - a <=> i < b  OBVIOUS
    <3> QED  BY <1>1, <2>2, <3>1, <3>2
  <2> QED  BY <2>1, <2>2
<1> QED  BY <1>2, <1>3, <1>4, SameWidths DEF Grammar!IsVarint, VarintAt, s

\* the bytes after the first a and up to the b-th are a length of k bytes and as many
\* bytes as it says; a value; a field
BlobAt(a, k, b) == VarintAt(a, a + k) /\ Digits(a, a + k, GroupBits) = (b - a) - k

ValueAt(wt, a, b) ==
  \/ wt = 0 /\ VarintAt(a, b)
  \/ wt = 1 /\ b - a = LongBytes
  \/ wt = 2 /\ \E k \in 1..(b - a) : BlobAt(a, k, b)
  \/ wt = 5 /\ b - a = ShortBytes

TagAt(a, k) == Digits(a, a + k, GroupBits)

FieldAt(a, k, b) ==
  VarintAt(a, a + k) /\ TagAt(a, k) >= 8 /\ ValueAt(TagAt(a, k) % 8, a + k, b)

LEMMA HeadIs ==
  ASSUME buf \in Seq(Byte), NEW a \in Nat, NEW b \in Nat, a <= b, b <= Len(buf),
         NEW k \in 1..(b - a)
  PROVE  /\ a + k \in Nat /\ a + k <= Len(buf) /\ a + k <= b
         /\ SubSeq(SubSeq(buf, a + 1, b), 1, k) = SubSeq(buf, a + 1, a + k)
         /\ Grammar!Rest(SubSeq(buf, a + 1, b), k) = SubSeq(buf, (a + k) + 1, b)
<1> DEFINE s == SubSeq(buf, a + 1, b)
<1>1. a + k \in Nat /\ a + k <= Len(buf) /\ a + k <= b /\ 0 + 1 = 1 /\ a + 0 = a /\ k \in Nat
      /\ b - a \in Nat /\ a + (b - a) = b /\ 0 \in Nat /\ k <= b - a /\ 0 <= k
  BY LenProperties
<1>2. SubSeq(s, 0 + 1, k) = SubSeq(buf, (a + 0) + 1, a + k)  BY <1>1, PartOfPart
<1>3. SubSeq(s, k + 1, b - a) = SubSeq(buf, (a + k) + 1, a + (b - a))  BY <1>1, PartOfPart
<1>4. Len(s) = b - a  BY Part
<1> HIDE DEF s
<1>5. Grammar!Rest(s, k) = SubSeq(buf, (a + k) + 1, b)  BY <1>1, <1>3, <1>4 DEF Grammar!Rest
<1>6. SubSeq(s, 1, k) = SubSeq(buf, a + 1, a + k)  BY <1>1, <1>2
<1> QED  BY <1>1, <1>5, <1>6 DEF s

LEMMA BlobIs ==
  ASSUME buf \in Seq(Byte), NEW a \in Nat, NEW b \in Nat, a <= b, b <= Len(buf),
         NEW k \in 1..(b - a)
  PROVE  Grammar!IsBlob(SubSeq(buf, a + 1, b), k) <=> BlobAt(a, k, b)
<1> DEFINE s == SubSeq(buf, a + 1, b)
<1>1. a + k \in Nat /\ a + k <= Len(buf) /\ a <= a + k
      /\ SubSeq(s, 1, k) = SubSeq(buf, a + 1, a + k)
  BY HeadIs
<1>2. Len(s) = b - a  BY Part
<1> HIDE DEF s
<1>3. Grammar!IsVarint(SubSeq(s, 1, k)) <=> VarintAt(a, a + k)  BY <1>1, VarintIs
<1>4. Grammar!Number(SubSeq(s, 1, k), GroupBits) = Digits(a, a + k, GroupBits)
  BY <1>1, NumberIs
<1>5. Grammar!IsBlob(s, k) <=> BlobAt(a, k, b)
  BY <1>2, <1>3, <1>4 DEF Grammar!IsBlob, BlobAt
<1> QED  BY <1>5 DEF s

LEMMA ValueIs ==
  ASSUME buf \in Seq(Byte), NEW a \in Nat, NEW b \in Nat, a <= b, b <= Len(buf), NEW wt
  PROVE  Grammar!IsValue(wt, SubSeq(buf, a + 1, b)) <=> ValueAt(wt, a, b)
<1> DEFINE s == SubSeq(buf, a + 1, b)
<1>1. Grammar!IsVarint(s) <=> VarintAt(a, b)  BY VarintIs
<1>2. Len(s) = b - a  BY Part
<1>3. \A k \in 1..(b - a) : Grammar!IsBlob(s, k) <=> BlobAt(a, k, b)  BY BlobIs
<1> HIDE DEF s
<1>4. Grammar!IsValue(wt, s) <=> ValueAt(wt, a, b)
  BY <1>1, <1>2, <1>3 DEF Grammar!IsValue, ValueAt
<1> QED  BY <1>4 DEF s

LEMMA FieldIs ==
  ASSUME buf \in Seq(Byte), NEW a \in Nat, NEW b \in Nat, a <= b, b <= Len(buf),
         NEW k \in 1..(b - a)
  PROVE  /\ Grammar!IsField(SubSeq(buf, a + 1, b), k) <=> FieldAt(a, k, b)
         /\ Grammar!FieldOf(SubSeq(buf, a + 1, b), k)
              = [num |-> TagAt(a, k) \div 8, wt |-> TagAt(a, k) % 8,
                 val |-> Grammar!ValueOf(TagAt(a, k) % 8, SubSeq(buf, (a + k) + 1, b))]
<1> DEFINE s == SubSeq(buf, a + 1, b)
           r == SubSeq(buf, (a + k) + 1, b)
<1>1. a + k \in Nat /\ a + k <= Len(buf) /\ a <= a + k /\ a + k <= b
      /\ SubSeq(s, 1, k) = SubSeq(buf, a + 1, a + k) /\ Grammar!Rest(s, k) = r
  BY HeadIs
<1>2. Grammar!IsValue(TagAt(a, k) % 8, r) <=> ValueAt(TagAt(a, k) % 8, a + k, b)
  BY <1>1, ValueIs
<1> HIDE DEF s, r
<1>3. Grammar!IsVarint(SubSeq(s, 1, k)) <=> VarintAt(a, a + k)  BY <1>1, VarintIs
<1>4. Grammar!Number(SubSeq(s, 1, k), GroupBits) = TagAt(a, k)
  BY <1>1, NumberIs DEF TagAt
<1>5. Grammar!IsField(s, k) <=> FieldAt(a, k, b)
  BY <1>1, <1>2, <1>3, <1>4 DEF Grammar!IsField, FieldAt
<1>6. Grammar!FieldOf(s, k)
        = [num |-> TagAt(a, k) \div 8, wt |-> TagAt(a, k) % 8,
           val |-> Grammar!ValueOf(TagAt(a, k) % 8, r)]
  BY <1>1, <1>4 DEF Grammar!FieldOf
<1> QED  BY <1>5, <1>6 DEF s, r

LEMMA ValueOfIs ==
  ASSUME buf \in Seq(Byte), NEW a \in Nat, NEW b \in Nat, a <= b, b <= Len(buf)
  PROVE  /\ Grammar!ValueOf(0, SubSeq(buf, a + 1, b)) = Digits(a, b, GroupBits)
         /\ Grammar!ValueOf(1, SubSeq(buf, a + 1, b)) = Digits(a, b, GroupBits + 1)
         /\ Grammar!ValueOf(5, SubSeq(buf, a + 1, b)) = Digits(a, b, GroupBits + 1)
         /\ \A k \in 1..(b - a) : BlobAt(a, k, b) =>
              Grammar!ValueOf(2, SubSeq(buf, a + 1, b)) = SubSeq(buf, (a + k) + 1, b)
<1> DEFINE s == SubSeq(buf, a + 1, b)
<1>1. /\ Grammar!Number(s, GroupBits) = Digits(a, b, GroupBits)
      /\ Grammar!Number(s, GroupBits + 1) = Digits(a, b, GroupBits + 1)
  BY NumberIs
<1>2. ASSUME NEW k \in 1..(b - a), BlobAt(a, k, b)
      PROVE  Grammar!ValueOf(2, s) = SubSeq(buf, (a + k) + 1, b)
  <2>1. Len(s) = b - a  BY Part
  <2>2. \A l \in 1..(b - a) : Grammar!IsBlob(s, l) <=> BlobAt(a, l, b)  BY BlobIs
  <2>3. \A l \in 1..(b - a) : BlobAt(a, l, b) => l = k
    <3> SUFFICES ASSUME NEW l \in 1..(b - a), BlobAt(a, l, b) PROVE l = k  OBVIOUS
    <3>1. VarintAt(a, a + l) /\ VarintAt(a, a + k)  BY <1>2 DEF BlobAt
    <3>2. a + l \in Nat /\ a + k \in Nat  OBVIOUS
    <3>3. a + l = a + k  BY <3>1, <3>2, VarintUnique
    <3> QED  BY <3>3
  <2>4. Grammar!Rest(s, k) = SubSeq(buf, (a + k) + 1, b)  BY HeadIs
  <2> HIDE DEF s
  <2>5. (CHOOSE l \in 1..Len(s) : Grammar!IsBlob(s, l)) = k  BY <1>2, <2>1, <2>2, <2>3
  <2>6. Grammar!ValueOf(2, s) = Grammar!Rest(s, CHOOSE l \in 1..Len(s) : Grammar!IsBlob(s, l))
    BY DEF Grammar!ValueOf
  <2> QED  BY <2>4, <2>5, <2>6
<1> HIDE DEF s
<1>3. Grammar!ValueOf(0, s) = Grammar!Number(s, GroupBits)  BY DEF Grammar!ValueOf
<1>4. Grammar!ValueOf(1, s) = Grammar!Number(s, GroupBits + 1)  BY DEF Grammar!ValueOf
<1>5. Grammar!ValueOf(5, s) = Grammar!Number(s, GroupBits + 1)  BY DEF Grammar!ValueOf
<1> QED  BY <1>1, <1>2, <1>3, <1>4, <1>5 DEF s

-----------------------------------------------------------------------------
(* What the demo exporter writes are bytes.                                *)

LEMMA BytesType ==
  ASSUME NEW n \in Nat, NEW count \in Nat, NEW bits \in Nat
  PROVE  Bytes(n, count, bits) \in [1..count -> 0..(2 ^ bits - 1)]
<1> SUFFICES ASSUME NEW i \in 1..count
             PROVE  (n \div 2 ^ (bits * (i - 1))) % 2 ^ bits \in 0..(2 ^ bits - 1)
  BY DEF Bytes
<1>1. bits * (i - 1) \in Nat
  <2>1. \A x, y \in Nat : x * y \in Nat  OBVIOUS
  <2>2. i - 1 \in Nat  OBVIOUS
  <2> QED  BY <2>1, <2>2
<1>2. 2 ^ (bits * (i - 1)) \in Nat \ {0} /\ 2 ^ bits \in Nat \ {0}  BY <1>1, PowerType
<1> DEFINE p == 2 ^ (bits * (i - 1))
           q == 2 ^ bits
<1> HIDE DEF p, q
<1>3. p \in Nat \ {0} /\ q \in Nat \ {0}  BY <1>2 DEF p, q
<1>4. n \div p \in Nat
  <2>1. \A x \in Nat, y \in Nat \ {0} : x \div y \in Nat  OBVIOUS
  <2> QED  BY <1>3, <2>1
<1>5. (n \div p) % q \in 0..(q - 1)
  <2>1. \A x \in Nat, y \in Nat \ {0} : x % y \in 0..(y - 1)  OBVIOUS
  <2> QED  BY <1>3, <1>4, <2>1
<1> QED  BY <1>5 DEF p, q

\* the shortest number of groups that holds n, and what they are
LEMMA varintForm ==
  ASSUME NEW n \in Word
  PROVE  \E count \in 1..WordBits :
           /\ n < 2 ^ (GroupBits * count)
           /\ \A k \in 1..WordBits : n < 2 ^ (GroupBits * k) => count <= k
           /\ varint(n) = [i \in 1..count |-> IF i < count
                                              THEN Bytes(n, count, GroupBits)[i] + More
                                              ELSE Bytes(n, count, GroupBits)[i]]
<1> DEFINE enough == {k \in 1..WordBits : n < 2 ^ (GroupBits * k)}
           count  == Min(enough)
           low    == Bytes(n, count, GroupBits)
<1>1. GroupBits \in Nat /\ GroupBits > 1 /\ WordBits \in Nat /\ WordBits > 0
      /\ More \in Nat /\ 2 ^ WordBits \in Nat
  BY WidthsType
<1>2. n \in Nat /\ n < 2 ^ WordBits  BY <1>1 DEF Word
<1>3. WordBits \in enough
  <2>1. GroupBits * WordBits \in Nat /\ WordBits <= GroupBits * WordBits
    <3>1. \A x, y \in Nat : x > 1 => x * y \in Nat /\ y <= x * y  OBVIOUS
    <3> QED  BY <1>1, <3>1
  <2>2. 2 ^ WordBits <= 2 ^ (GroupBits * WordBits) /\ 2 ^ (GroupBits * WordBits) \in Nat
    BY <1>1, <2>1, PowerMonotonic, PowerType
  <2> QED  BY <1>1, <1>2, <2>2
<1>4. IsFiniteSet(enough) /\ enough \subseteq Int
  <2>1. enough \subseteq 1..WordBits /\ 1..WordBits \subseteq Int  OBVIOUS
  <2> HIDE DEF enough
  <2>2. IsFiniteSet(1..WordBits)  BY <1>1, IntervalFinite
  <2> QED  BY <2>1, <2>2, FS_Subset
<1>5. count \in enough /\ \A k \in enough : count <= k
  <2> HIDE DEF enough
  <2> QED  BY <1>3, <1>4, MinIsLeast
<1>6. varint(n) = [i \in 1..count |-> IF i < count THEN low[i] + More ELSE low[i]]
  BY DEF varint
<1>7. count \in 1..WordBits /\ n < 2 ^ (GroupBits * count)  BY <1>5
<1>8. \A k \in 1..WordBits : n < 2 ^ (GroupBits * k) => count <= k  BY <1>5
<1> HIDE DEF count
<1> QED  BY <1>6, <1>7, <1>8

LEMMA varintType == ASSUME NEW n \in Word PROVE varint(n) \in Seq(Byte)
<1>1. GroupBits \in Nat /\ More \in Nat /\ n \in Nat  BY WidthsType DEF Word
<1>2. PICK count \in 1..WordBits :
        varint(n) = [i \in 1..count |-> IF i < count THEN Bytes(n, count, GroupBits)[i] + More
                                        ELSE Bytes(n, count, GroupBits)[i]]
  BY varintForm
<1> DEFINE low == Bytes(n, count, GroupBits)
<1>3. count \in Nat  BY <1>2
<1>4. low \in [1..count -> 0..(More - 1)]  BY <1>1, <1>3, BytesType DEF More
<1> HIDE DEF low
<1>5. \A i \in 1..count : (IF i < count THEN low[i] + More ELSE low[i]) \in Byte
  BY <1>1, <1>4 DEF Byte
<1>6. varint(n) \in [1..count -> Byte]  BY <1>2, <1>5 DEF low
<1> QED  BY <1>3, <1>6, FunctionIsSeq

LEMMA WriteType ==
  ASSUME NEW message \in Messages, NEW i \in DOMAIN message
  PROVE  Write(message[i]) \in Seq(Byte)
<1> DEFINE f == message[i]
<1>1. /\ f.num \in Word /\ f.num * 8 + 2 \in Word
      /\ \/ f.wt \in {0, 1} /\ f.val \in Word
         \/ f.wt = 2 /\ f.val \in Seq(Byte) /\ Len(f.val) \in Word
  BY MessagesAssumption
<1> HIDE DEF f
<1>2. f.num * 8 \in Word /\ f.num * 8 + 1 \in Word
  <2>1. f.num \in Nat /\ 2 ^ WordBits \in Nat  BY <1>1, WidthsType DEF Word
  <2> QED  BY <1>1, <2>1 DEF Word
<1>3. CASE f.wt = 0 /\ f.val = 0
  <2>1. Write(f) = << >>  BY <1>3 DEF Write
  <2> QED  BY <2>1, EmptySeq DEF f
<1>4. CASE f.wt = 0 /\ f.val # 0
  <2>1. Write(f) = varint(f.num * 8) \o varint(f.val)  BY <1>4 DEF Write
  <2>2. varint(f.num * 8) \in Seq(Byte) /\ varint(f.val) \in Seq(Byte)
    BY <1>1, <1>2, <1>4, varintType
  <2> QED  BY <2>1, <2>2, ConcatProperties DEF f
<1>5. CASE f.wt = 1
  <2>0. ~(f.wt = 0) /\ ~(f.wt = 2)  BY <1>5
  <2>1. Write(f) = varint(f.num * 8 + 1) \o Bytes(f.val, LongBytes, GroupBits + 1)
    BY <1>5, <2>0 DEF Write
  <2>2. varint(f.num * 8 + 1) \in Seq(Byte)  BY <1>2, varintType
  <2>3. Bytes(f.val, LongBytes, GroupBits + 1) \in Seq(Byte)
    <3>1. f.val \in Nat /\ LongBytes \in Nat /\ GroupBits + 1 \in Nat
      BY <1>1, <1>5, WidthsType, WidthsAssumption DEF Word
    <3>2. Bytes(f.val, LongBytes, GroupBits + 1) \in [1..LongBytes -> 0..(2 ^ (GroupBits + 1) - 1)]
      BY <3>1, BytesType
    <3>3. 0..(2 ^ (GroupBits + 1) - 1) = Byte  BY WidthsType DEF Byte
    <3> QED  BY <3>1, <3>2, <3>3, FunctionIsSeq
  <2> QED  BY <2>1, <2>2, <2>3, ConcatProperties DEF f
<1>6. CASE f.wt = 2
  <2>0. ~(f.wt = 0) /\ ~(f.wt = 1)  BY <1>6
  <2>1. Write(f) = varint(f.num * 8 + 2) \o varint(Len(f.val)) \o f.val
    BY <1>6, <2>0 DEF Write
  <2>2. varint(f.num * 8 + 2) \in Seq(Byte) /\ varint(Len(f.val)) \in Seq(Byte)
        /\ f.val \in Seq(Byte)
    BY <1>1, <1>6, varintType
  <2>3. varint(f.num * 8 + 2) \o varint(Len(f.val)) \in Seq(Byte)  BY <2>2, ConcatProperties
  <2> QED  BY <2>1, <2>2, <2>3, ConcatProperties DEF f
<1> QED  BY <1>1, <1>3, <1>4, <1>5, <1>6

LEMMA EncodeType == ASSUME NEW message \in Messages PROVE Encode(message) \in Seq(Byte)
<1> DEFINE n == Len(message)
           seqs == [i \in DOMAIN message |-> Write(message[i])]
<1>1. n \in Nat /\ DOMAIN message = 1..n  BY MessagesAssumption
<1>2. seqs \in [1..n -> Seq(Byte)]  BY <1>1, WriteType
<1> HIDE DEF seqs, n
<1>3. seqs \in Seq(Seq(Byte))  BY <1>1, <1>2, FunctionIsSeq
<1>4. FlattenSeq(seqs) \in Seq(Byte)  BY <1>3, FlattenType
<1> QED  BY <1>4 DEF Encode, seqs

-----------------------------------------------------------------------------
(* What the demo exporter writes, the grammar reads.                       *)

LEMMA BytesAre ==
  ASSUME NEW n \in Nat, NEW count \in Nat, NEW bits \in Nat
  PROVE  /\ Bytes(n, count, bits) \in Seq(Nat) /\ Len(Bytes(n, count, bits)) = count
         /\ \A i \in 1..count :
              /\ Bytes(n, count, bits)[i] = (n \div 2 ^ (bits * (i - 1))) % 2 ^ bits
              /\ Bytes(n, count, bits)[i] \in 0..(2 ^ bits - 1)
<1> DEFINE w == Bytes(n, count, bits)
<1>1. w \in [1..count -> 0..(2 ^ bits - 1)]  BY BytesType
<1>2. \A i \in 1..count : w[i] = (n \div 2 ^ (bits * (i - 1))) % 2 ^ bits  BY DEF Bytes
<1> HIDE DEF w
<1>3. 2 ^ bits \in Nat  BY PowerType
<1>4. w \in [1..count -> Nat]  BY <1>1, <1>3
<1>5. w \in Seq(Nat) /\ DOMAIN w = 1..count  BY <1>4, FunctionIsSeq
<1>6. Len(w) = count  BY <1>5, LenProperties
<1> QED  BY <1>1, <1>2, <1>5, <1>6 DEF w

LEMMA varintRead ==
  ASSUME NEW n \in Word
  PROVE  /\ varint(n) \in Seq(Byte)
         /\ Grammar!IsVarint(varint(n)) /\ Grammar!Number(varint(n), GroupBits) = n
<1> DEFINE w == varint(n)
<1>1. PICK count \in 1..WordBits :
        /\ n < 2 ^ (GroupBits * count)
        /\ \A k \in 1..WordBits : n < 2 ^ (GroupBits * k) => count <= k
        /\ w = [i \in 1..count |-> IF i < count THEN Bytes(n, count, GroupBits)[i] + More
                                   ELSE Bytes(n, count, GroupBits)[i]]
  BY varintForm
<1> DEFINE low == Bytes(n, count, GroupBits)
<1>2. /\ GroupBits \in Nat /\ GroupBits > 1 /\ WordBits \in Nat /\ WordBits > 0
      /\ More \in Nat /\ More > 1 /\ 2 ^ WordBits \in Nat
  BY WidthsType
<1>3. n \in Nat /\ n < 2 ^ WordBits /\ count \in Nat  BY <1>1, <1>2 DEF Word
<1>4. \A i \in 1..count : /\ low[i] = (n \div 2 ^ (GroupBits * (i - 1))) % More
                          /\ low[i] \in 0..(More - 1)
  BY <1>2, <1>3, BytesAre DEF More
<1>5. w \in Seq(Byte)  BY varintType
<1>6. DOMAIN w = 1..count /\ \A i \in 1..count : w[i] = IF i < count THEN low[i] + More ELSE low[i]
  BY <1>1
<1> HIDE DEF w, low
<1>7. Len(w) = count  BY <1>3, <1>5, <1>6, LenProperties
<1>8. \A i \in 1..count : w[i] >= More <=> i < count  BY <1>2, <1>4, <1>6
<1>9. \A i \in 1..count : w[i] % More = low[i]
  <2> SUFFICES ASSUME NEW i \in 1..count PROVE w[i] % More = low[i]  OBVIOUS
  <2>1. low[i] \in Nat /\ low[i] < More  BY <1>2, <1>4
  <2>2. CASE i < count
    <3>1. 1 * More + low[i] = w[i]
      <4>1. w[i] = low[i] + More  BY <1>6, <2>2
      <4>2. \A x, y \in Nat : 1 * x + y = y + x  OBVIOUS
      <4> QED  BY <1>2, <2>1, <4>1, <4>2
    <3>2. (1 * More + low[i]) % More = low[i]
      <4>1. \A d \in Nat \ {0} : \A x \in Nat : x < d => (1 * d + x) % d = x  BY ModUnique
      <4>2. More \in Nat \ {0}  BY <1>2
      <4> QED  BY <2>1, <4>1, <4>2
    <3> QED  BY <3>1, <3>2
  <2>3. CASE ~(i < count)
    <3>1. w[i] = low[i]  BY <1>6, <2>3
    <3> QED  BY <1>2, <2>1, <3>1, ModOfSmaller
  <2> QED  BY <2>2, <2>3
<1>10. Grammar!Number(w, GroupBits) = n
  <2>1. w \in Seq(Nat)  BY <1>5, WidthsType, SeqMonotonic
  <2>2. \A i \in 1..Len(w) :
          w[i] % 2 ^ GroupBits = (n \div 2 ^ (GroupBits * (i - 1))) % 2 ^ GroupBits
    BY <1>4, <1>7, <1>9 DEF More
  <2>3. Grammar!Number(w, GroupBits) = n % 2 ^ (GroupBits * Len(w))
    BY <1>2, <1>3, <2>1, <2>2, NumberSpelt
  <2>4. 2 ^ (GroupBits * count) \in Nat
    <3>1. \A x, y \in Nat : x * y \in Nat  OBVIOUS
    <3> QED  BY <1>2, <1>3, <3>1, PowerType
  <2>5. n % 2 ^ (GroupBits * count) = n  BY <1>1, <1>3, <2>4, ModOfSmaller
  <2> QED  BY <1>7, <2>3, <2>5
<1>11. count <= Grammar!MaxVarint
  <2> DEFINE top == Grammar!MaxVarint
  <2>1. top \in Nat /\ GroupBits * (top - 1) + 1 = WordBits  BY MaxVarintIs
  <2> HIDE DEF top
  <2>2. \A x, y \in Nat : x > 1 => x * y \in Nat /\ y <= x * y /\ x * (y + 1) = x * y + x
    OBVIOUS
  <2>3. top > 0
    <3> SUFFICES ASSUME top = 0 PROVE FALSE  BY <2>1
    <3>1. GroupBits * (0 - 1) = -GroupBits  BY <1>2
    <3> QED  BY <1>2, <2>1, <3>1
  <2>4. top - 1 \in Nat /\ (top - 1) + 1 = top  BY <2>1, <2>3
  <2>5. top - 1 <= GroupBits * (top - 1) /\ GroupBits * top = GroupBits * (top - 1) + GroupBits
        /\ GroupBits * (top - 1) \in Nat
    BY <1>2, <2>2, <2>4
  <2>6. top \in 1..WordBits /\ WordBits <= GroupBits * top /\ GroupBits * top \in Nat
    BY <1>2, <2>1, <2>3, <2>4, <2>5
  <2>7. 2 ^ WordBits <= 2 ^ (GroupBits * top) /\ 2 ^ (GroupBits * top) \in Nat
    BY <1>2, <2>6, PowerMonotonic, PowerType
  <2>8. n < 2 ^ (GroupBits * top)  BY <1>2, <1>3, <2>7
  <2> QED  BY <1>1, <2>6, <2>8 DEF top
<1>12. Grammar!IsVarint(w)
  <2>1. Len(w) \in 1..Grammar!MaxVarint  BY <1>1, <1>7, <1>11, MaxVarintIs
  <2> QED  BY <1>3, <1>6, <1>7, <1>8, <1>10, <2>1, SameWidths DEF Grammar!IsVarint
<1> QED  BY <1>5, <1>10, <1>12 DEF w

\* a value of fixed width is read back
LEMMA fixedRead ==
  ASSUME NEW n \in Word
  PROVE  /\ Bytes(n, LongBytes, GroupBits + 1) \in Seq(Byte)
         /\ Len(Bytes(n, LongBytes, GroupBits + 1)) = LongBytes
         /\ Grammar!Number(Bytes(n, LongBytes, GroupBits + 1), GroupBits + 1) = n
<1> DEFINE bits == GroupBits + 1
           w == Bytes(n, LongBytes, bits)
<1>1. GroupBits \in Nat /\ bits \in Nat /\ LongBytes \in Nat /\ 2 ^ WordBits \in Nat
  BY WidthsType, WidthsAssumption
<1>2. n \in Nat /\ n < 2 ^ WordBits  BY <1>1 DEF Word
<1>3. /\ w \in Seq(Nat) /\ Len(w) = LongBytes
      /\ \A i \in 1..LongBytes : /\ w[i] = (n \div 2 ^ (bits * (i - 1))) % 2 ^ bits
                                 /\ w[i] \in 0..(2 ^ bits - 1)
  BY <1>1, <1>2, BytesAre
<1>4. w \in [1..LongBytes -> 0..(2 ^ bits - 1)]  BY <1>1, <1>2, BytesType
<1>5. Byte = 0..(2 ^ bits - 1)  BY WidthsType DEF Byte
<1>6. WordBits = bits * LongBytes  BY DEF WordBits
<1> HIDE DEF w, bits
<1>7. w \in Seq(Byte)  BY <1>1, <1>4, <1>5, FunctionIsSeq
<1>8. 2 ^ bits \in Nat \ {0}  BY <1>1, PowerType
<1>9. \A i \in 1..Len(w) : w[i] % 2 ^ bits = (n \div 2 ^ (bits * (i - 1))) % 2 ^ bits
  <2> SUFFICES ASSUME NEW i \in 1..Len(w)
               PROVE  w[i] % 2 ^ bits = (n \div 2 ^ (bits * (i - 1))) % 2 ^ bits
    OBVIOUS
  <2>1. w[i] \in Nat /\ w[i] < 2 ^ bits  BY <1>3, <1>8
  <2>2. w[i] % 2 ^ bits = w[i]  BY <1>8, <2>1, ModOfSmaller
  <2> QED  BY <1>3, <2>2
<1>10. Grammar!Number(w, bits) = n % 2 ^ (bits * Len(w))  BY <1>1, <1>2, <1>3, <1>9, NumberSpelt
<1>11. n % 2 ^ WordBits = n  BY <1>1, <1>2, ModOfSmaller
<1> QED  BY <1>3, <1>6, <1>7, <1>10, <1>11 DEF w, bits

\* no varint is the beginning of another, and no field is
LEMMA IsVarintUnique ==
  ASSUME NEW w \in Seq(Byte), NEW j \in 0..Len(w), NEW k \in 0..Len(w),
         Grammar!IsVarint(SubSeq(w, 1, j)), Grammar!IsVarint(SubSeq(w, 1, k))
  PROVE  j = k
<1>1. ASSUME NEW x \in 0..Len(w), NEW y \in 0..Len(w),
             Grammar!IsVarint(SubSeq(w, 1, x)), Grammar!IsVarint(SubSeq(w, 1, y))
      PROVE  ~(x < y)
  <2> SUFFICES ASSUME x < y PROVE FALSE  OBVIOUS
  <2> DEFINE s == SubSeq(w, 1, x)
             t == SubSeq(w, 1, y)
  <2>1. Len(s) = x /\ DOMAIN s = 1..x /\ \A i \in 1..x : s[i] = w[i]  BY SubHead
  <2>2. Len(t) = y /\ DOMAIN t = 1..y /\ \A i \in 1..y : t[i] = w[i]  BY SubHead
  <2>3. Grammar!IsVarint(s) /\ Grammar!IsVarint(t)  BY <1>1
  <2> HIDE DEF s, t
  <2>4. x \in 1..x /\ x \in 1..y
    <3>1. Len(s) \in 1..Grammar!MaxVarint  BY <2>3 DEF Grammar!IsVarint
    <3> QED  BY <2>1, <3>1, LenProperties
  <2>5. s[x] >= More <=> x < x  BY <2>1, <2>3, <2>4, SameWidths DEF Grammar!IsVarint
  <2>6. t[x] >= More <=> x < y  BY <2>2, <2>3, <2>4, SameWidths DEF Grammar!IsVarint
  <2>7. s[x] = t[x]  BY <2>1, <2>2, <2>4
  <2> QED  BY <2>4, <2>5, <2>6, <2>7
<1>2. Len(w) \in Nat  BY LenProperties
<1>3. ~(j < k) /\ ~(k < j)  BY <1>1
<1> QED  BY <1>2, <1>3

LEMMA HeadOfHead ==
  ASSUME NEW w \in Seq(Byte), NEW m \in 0..Len(w), NEW k \in 0..m
  PROVE  /\ SubSeq(SubSeq(w, 1, m), 1, k) = SubSeq(w, 1, k)
         /\ SubSeq(SubSeq(w, 1, m), k + 1, m) = SubSeq(w, k + 1, m)
         /\ Grammar!Rest(SubSeq(w, 1, m), k) = SubSeq(Grammar!Rest(w, k), 1, m - k)
         /\ Grammar!Rest(w, k) \in Seq(Byte) /\ Len(Grammar!Rest(w, k)) = Len(w) - k
<1> DEFINE n == Len(w)
           r == SubSeq(w, k + 1, n)
<1>1. n \in Nat /\ m \in Nat /\ k \in Nat /\ 0 \in Nat /\ m <= n /\ k <= m /\ k <= n /\ 0 <= m /\ 0 <= k
      /\ 0 <= m - k /\ m - k \in Nat /\ m - k <= n - k /\ k <= m - 0 /\ m <= m - 0 /\ n <= Len(w)
  BY LenProperties
<1>2. SubSeq(SubSeq(w, 0 + 1, m), 0 + 1, k) = SubSeq(w, (0 + 0) + 1, 0 + k)  BY <1>1, SubOfSub
<1>3. SubSeq(SubSeq(w, 0 + 1, m), k + 1, m) = SubSeq(w, (0 + k) + 1, 0 + m)  BY <1>1, SubOfSub
<1>4. SubSeq(r, 0 + 1, m - k) = SubSeq(w, (k + 0) + 1, k + (m - k))  BY <1>1, SubOfSub
<1>5. r \in Seq(Byte) /\ Len(r) = n - k  BY <1>1, SubPart
<1>6. Len(SubSeq(w, 1, m)) = m  BY SubHead
<1>7. 0 + 1 = 1 /\ (0 + 0) + 1 = 1 /\ 0 + k = k /\ (0 + k) + 1 = k + 1 /\ 0 + m = m
      /\ (k + 0) + 1 = k + 1 /\ k + (m - k) = m
  BY <1>1
<1>8. Grammar!Rest(w, k) = r  BY DEF Grammar!Rest
<1>9. Grammar!Rest(SubSeq(w, 1, m), k) = SubSeq(SubSeq(w, 1, m), k + 1, m)
  BY <1>6 DEF Grammar!Rest
<1> HIDE DEF r
<1> QED  BY <1>2, <1>3, <1>4, <1>5, <1>7, <1>8, <1>9

LEMMA IsFieldUnique ==
  ASSUME NEW w \in Seq(Byte), NEW m \in 0..Len(w), NEW k \in 1..Len(w), NEW j \in 1..m,
         Grammar!IsField(w, k), Grammar!IsField(SubSeq(w, 1, m), j)
  PROVE  m = Len(w) /\ j = k
<1> DEFINE n == Len(w)
           s == SubSeq(w, 1, m)
<1>1. n \in Nat /\ m \in Nat /\ j \in 0..m /\ j \in 0..n /\ k \in 0..n  BY LenProperties
<1>2. SubSeq(s, 1, j) = SubSeq(w, 1, j)  BY <1>1, HeadOfHead
<1>3. Grammar!IsVarint(SubSeq(w, 1, k)) /\ Grammar!IsVarint(SubSeq(w, 1, j))
  BY <1>2 DEF Grammar!IsField
<1>4. j = k  BY <1>1, <1>3, IsVarintUnique
<1> DEFINE wt == Grammar!Number(SubSeq(w, 1, k), GroupBits) % 8
           r == Grammar!Rest(w, k)
           q == Grammar!Rest(s, k)
<1>5. Grammar!IsValue(wt, r) /\ Grammar!IsValue(wt, q)  BY <1>2, <1>4 DEF Grammar!IsField
<1>6. r \in Seq(Byte) /\ Len(r) = n - k /\ q = SubSeq(r, 1, m - k)  BY <1>1, <1>4, HeadOfHead
<1>7. m - k \in 0..Len(r) /\ Len(r) \in 0..Len(r)  BY <1>1, <1>4, <1>6
<1> HIDE DEF n, s, wt, r, q
<1>8. Len(q) = m - k  BY <1>6, <1>7, SubHead
<1>9. SubSeq(r, 1, Len(r)) = r  BY <1>6, SubSeqFull
<1>10. Len(q) = Len(r)
  <2>1. CASE wt = 0
    <3>1. Grammar!IsVarint(r) /\ Grammar!IsVarint(q)  BY <1>5, <2>1 DEF Grammar!IsValue
    <3>2. m - k = Len(r)  BY <1>6, <1>7, <1>9, <3>1, IsVarintUnique
    <3> QED  BY <1>8, <3>2
  <2>2. CASE wt = 1 \/ wt = 5  BY <1>5, <2>2 DEF Grammar!IsValue
  <2>3. CASE wt = 2
    <3>1. PICK x \in 1..Len(r) : Grammar!IsBlob(r, x)  BY <1>5, <2>3 DEF Grammar!IsValue
    <3>2. PICK y \in 1..Len(q) : Grammar!IsBlob(q, y)  BY <1>5, <2>3 DEF Grammar!IsValue
    <3>3. y \in 0..(m - k) /\ y \in 0..Len(r) /\ x \in 0..Len(r)  BY <1>1, <1>6, <1>7, <1>8, <3>1, <3>2
    <3>4. SubSeq(q, 1, y) = SubSeq(r, 1, y)  BY <1>6, <1>7, <3>3, HeadOfHead
    <3>5. Grammar!IsVarint(SubSeq(r, 1, x)) /\ Grammar!IsVarint(SubSeq(r, 1, y))
          /\ Grammar!Number(SubSeq(r, 1, x), GroupBits) = Len(r) - x
          /\ Grammar!Number(SubSeq(r, 1, y), GroupBits) = Len(q) - y
      BY <3>1, <3>2, <3>4 DEF Grammar!IsBlob
    <3>6. x = y  BY <1>6, <3>3, <3>5, IsVarintUnique
    <3>7. Len(r) \in Nat /\ Len(q) \in Nat  BY <1>1, <1>6, <1>7, <1>8
    <3> QED  BY <3>1, <3>2, <3>5, <3>6, <3>7
  <2> QED  BY <1>5, <2>1, <2>2, <2>3 DEF Grammar!IsValue
<1> QED  BY <1>1, <1>4, <1>6, <1>8, <1>10 DEF n

LEMMA WrittenField ==
  ASSUME NEW t \in Word, t >= 8, NEW r \in Seq(Byte), Grammar!IsValue(t % 8, r)
  PROVE  /\ varint(t) \o r \in Seq(Byte)
         /\ Len(varint(t)) \in 1..Len(varint(t) \o r)
         /\ Grammar!IsField(varint(t) \o r, Len(varint(t)))
         /\ Grammar!FieldOf(varint(t) \o r, Len(varint(t)))
              = [num |-> t \div 8, wt |-> t % 8, val |-> Grammar!ValueOf(t % 8, r)]
<1> DEFINE u == varint(t)
           w == u \o r
           k == Len(u)
<1>1. u \in Seq(Byte) /\ Grammar!IsVarint(u) /\ Grammar!Number(u, GroupBits) = t  BY varintRead
<1> HIDE DEF u
<1>2. /\ w \in Seq(Byte) /\ Len(w) = k + Len(r)
      /\ SubSeq(w, 1, k) = u /\ SubSeq(w, k + 1, k + Len(r)) = r
  BY <1>1, ConcatParts
<1>3. k \in Nat /\ Len(r) \in Nat /\ k \in 1..Grammar!MaxVarint
  BY <1>1, LenProperties DEF Grammar!IsVarint
<1> HIDE DEF w, k
<1>4. Grammar!Rest(w, k) = r  BY <1>2 DEF Grammar!Rest
<1>5. Grammar!IsField(w, k)  BY <1>1, <1>2, <1>4 DEF Grammar!IsField
<1>6. Grammar!FieldOf(w, k) = [num |-> t \div 8, wt |-> t % 8, val |-> Grammar!ValueOf(t % 8, r)]
  BY <1>1, <1>2, <1>4 DEF Grammar!FieldOf
<1>7. k \in 1..Len(w)  BY <1>2, <1>3
<1> QED  BY <1>2, <1>5, <1>6, <1>7 DEF u, w, k

LEMMA WrittenBlob ==
  ASSUME NEW val \in Seq(Byte), Len(val) \in Word
  PROVE  /\ varint(Len(val)) \o val \in Seq(Byte)
         /\ Grammar!IsValue(2, varint(Len(val)) \o val)
         /\ Grammar!ValueOf(2, varint(Len(val)) \o val) = val
<1> DEFINE u == varint(Len(val))
           r == u \o val
           k == Len(u)
<1>1. u \in Seq(Byte) /\ Grammar!IsVarint(u) /\ Grammar!Number(u, GroupBits) = Len(val)
  BY varintRead
<1> HIDE DEF u
<1>2. /\ r \in Seq(Byte) /\ Len(r) = k + Len(val)
      /\ SubSeq(r, 1, k) = u /\ SubSeq(r, k + 1, k + Len(val)) = val
  BY <1>1, ConcatParts
<1>3. k \in Nat /\ Len(val) \in Nat /\ k \in 1..Grammar!MaxVarint
  BY <1>1, LenProperties DEF Grammar!IsVarint
<1> HIDE DEF r, k
<1>4. k \in 1..Len(r) /\ k \in 0..Len(r) /\ Len(r) - k = Len(val)  BY <1>2, <1>3
<1>5. Grammar!IsBlob(r, k)  BY <1>1, <1>2, <1>4 DEF Grammar!IsBlob
<1>6. \A j \in 1..Len(r) : Grammar!IsBlob(r, j) => j = k
  <2> SUFFICES ASSUME NEW j \in 1..Len(r), Grammar!IsBlob(r, j) PROVE j = k  OBVIOUS
  <2>1. Grammar!IsVarint(SubSeq(r, 1, j)) /\ Grammar!IsVarint(SubSeq(r, 1, k))
    BY <1>1, <1>2 DEF Grammar!IsBlob
  <2>2. j \in 0..Len(r)  BY <1>2, LenProperties
  <2> QED  BY <1>2, <1>4, <2>1, <2>2, IsVarintUnique
<1>7. Grammar!IsValue(2, r)  BY <1>4, <1>5 DEF Grammar!IsValue
<1>8. (CHOOSE j \in 1..Len(r) : Grammar!IsBlob(r, j)) = k  BY <1>4, <1>5, <1>6
<1>9. Grammar!ValueOf(2, r) = Grammar!Rest(r, CHOOSE j \in 1..Len(r) : Grammar!IsBlob(r, j))
  BY DEF Grammar!ValueOf
<1>10. Grammar!Rest(r, k) = val  BY <1>2 DEF Grammar!Rest
<1> QED  BY <1>2, <1>7, <1>8, <1>9, <1>10 DEF r, u

\* zeros apart, what is written for a field is that field
IsZero(f) == f.wt = 0 /\ f.val = 0

LEMMA WriteRead ==
  ASSUME NEW message \in Messages, NEW i \in DOMAIN message, ~IsZero(message[i])
  PROVE  \E k \in 1..Len(Write(message[i])) :
           /\ Grammar!IsField(Write(message[i]), k)
           /\ Grammar!FieldOf(Write(message[i]), k) = message[i]
<1> DEFINE f == message[i]
<1>1. /\ f = [num |-> f.num, wt |-> f.wt, val |-> f.val]
      /\ f.num \in Word \ {0} /\ f.num * 8 + 2 \in Word
      /\ \/ f.wt \in {0, 1} /\ f.val \in Word
         \/ f.wt = 2 /\ f.val \in Seq(Byte) /\ Len(f.val) \in Word
      /\ ~(f.wt = 0 /\ f.val = 0)
  BY MessagesAssumption DEF IsZero
<1> HIDE DEF f
<1>2. f.num \in Nat \ {0} /\ f.num * 8 \in Word /\ f.num * 8 + 1 \in Word
  <2>1. f.num \in Nat /\ f.num # 0 /\ 2 ^ WordBits \in Nat  BY <1>1, WidthsType DEF Word
  <2> QED  BY <1>1, <2>1 DEF Word
<1>3. /\ f.num * 8 >= 8 /\ (f.num * 8) \div 8 = f.num /\ (f.num * 8) % 8 = 0
      /\ f.num * 8 + 1 >= 8 /\ (f.num * 8 + 1) \div 8 = f.num /\ (f.num * 8 + 1) % 8 = 1
      /\ f.num * 8 + 2 >= 8 /\ (f.num * 8 + 2) \div 8 = f.num /\ (f.num * 8 + 2) % 8 = 2
  <2>1. \A n \in Nat \ {0} :
          /\ n * 8 >= 8 /\ (n * 8) \div 8 = n /\ (n * 8) % 8 = 0
          /\ n * 8 + 1 >= 8 /\ (n * 8 + 1) \div 8 = n /\ (n * 8 + 1) % 8 = 1
          /\ n * 8 + 2 >= 8 /\ (n * 8 + 2) \div 8 = n /\ (n * 8 + 2) % 8 = 2
    OBVIOUS
  <2> QED  BY <1>2, <2>1
<1>4. CASE f.wt = 0 /\ f.val # 0
  <2> DEFINE t == f.num * 8
             r == varint(f.val)
  <2>1. Write(f) = varint(t) \o r  BY <1>4 DEF Write
  <2>2. r \in Seq(Byte) /\ Grammar!IsVarint(r) /\ Grammar!Number(r, GroupBits) = f.val
    BY <1>1, <1>4, varintRead
  <2>3. t \in Word /\ t >= 8 /\ t \div 8 = f.num /\ t % 8 = 0  BY <1>2, <1>3
  <2> HIDE DEF t, r
  <2>4. Grammar!IsValue(t % 8, r)  BY <2>2, <2>3 DEF Grammar!IsValue
  <2>5. Grammar!ValueOf(0, r) = Grammar!Number(r, GroupBits)  BY DEF Grammar!ValueOf
  <2>6. /\ Len(varint(t)) \in 1..Len(varint(t) \o r)
        /\ Grammar!IsField(varint(t) \o r, Len(varint(t)))
        /\ Grammar!FieldOf(varint(t) \o r, Len(varint(t)))
             = [num |-> t \div 8, wt |-> t % 8, val |-> Grammar!ValueOf(t % 8, r)]
    BY <2>2, <2>3, <2>4, WrittenField
  <2>7. [num |-> t \div 8, wt |-> t % 8, val |-> Grammar!ValueOf(t % 8, r)] = f
    BY <1>1, <1>4, <2>2, <2>3, <2>5
  <2> QED  BY <2>1, <2>6, <2>7 DEF f
<1>5. CASE f.wt = 1
  <2> DEFINE t == f.num * 8 + 1
             r == Bytes(f.val, LongBytes, GroupBits + 1)
  <2>1. ~(f.wt = 0) /\ ~(f.wt = 2)  BY <1>5
  <2>2. Write(f) = varint(t) \o r  BY <1>5, <2>1 DEF Write
  <2>3. r \in Seq(Byte) /\ Len(r) = LongBytes /\ Grammar!Number(r, GroupBits + 1) = f.val
    BY <1>1, <1>5, fixedRead
  <2>4. t \in Word /\ t >= 8 /\ t \div 8 = f.num /\ t % 8 = 1  BY <1>2, <1>3
  <2> HIDE DEF t, r
  <2>5. Grammar!IsValue(t % 8, r)  BY <2>3, <2>4 DEF Grammar!IsValue
  <2>6. Grammar!ValueOf(1, r) = Grammar!Number(r, GroupBits + 1)  BY DEF Grammar!ValueOf
  <2>7. /\ Len(varint(t)) \in 1..Len(varint(t) \o r)
        /\ Grammar!IsField(varint(t) \o r, Len(varint(t)))
        /\ Grammar!FieldOf(varint(t) \o r, Len(varint(t)))
             = [num |-> t \div 8, wt |-> t % 8, val |-> Grammar!ValueOf(t % 8, r)]
    BY <2>3, <2>4, <2>5, WrittenField
  <2>8. [num |-> t \div 8, wt |-> t % 8, val |-> Grammar!ValueOf(t % 8, r)] = f
    BY <1>1, <1>5, <2>3, <2>4, <2>6
  <2> QED  BY <2>2, <2>7, <2>8 DEF f
<1>6. CASE f.wt = 2
  <2> DEFINE t == f.num * 8 + 2
             r == varint(Len(f.val)) \o f.val
  <2>1. ~(f.wt = 0) /\ ~(f.wt = 1)  BY <1>6
  <2>2. Write(f) = varint(t) \o varint(Len(f.val)) \o f.val  BY <1>6, <2>1 DEF Write
  <2>3. t \in Word /\ t >= 8 /\ t \div 8 = f.num /\ t % 8 = 2  BY <1>1, <1>3
  <2>4. f.val \in Seq(Byte) /\ Len(f.val) \in Word  BY <1>1, <1>6
  <2>5. r \in Seq(Byte) /\ Grammar!IsValue(2, r) /\ Grammar!ValueOf(2, r) = f.val
    BY <2>4, WrittenBlob
  <2> HIDE DEF t
  <2>6. Write(f) = varint(t) \o r
    <3> DEFINE x == varint(t)
               y == varint(Len(f.val))
               z == f.val
    <3>1. x \in Seq(Byte) /\ y \in Seq(Byte) /\ z \in Seq(Byte)  BY <2>3, <2>4, varintType
    <3>2. Write(f) = (x \o y) \o z /\ r = y \o z  BY <2>2
    <3> HIDE DEF x, y, z, r
    <3>3. (x \o y) \o z = x \o (y \o z)  BY <3>1, ConcatAssociative
    <3> QED  BY <3>2, <3>3 DEF x
  <2> HIDE DEF r
  <2>7. /\ Len(varint(t)) \in 1..Len(varint(t) \o r)
        /\ Grammar!IsField(varint(t) \o r, Len(varint(t)))
        /\ Grammar!FieldOf(varint(t) \o r, Len(varint(t)))
             = [num |-> t \div 8, wt |-> t % 8, val |-> Grammar!ValueOf(t % 8, r)]
    BY <2>3, <2>5, WrittenField
  <2>8. [num |-> t \div 8, wt |-> t % 8, val |-> Grammar!ValueOf(t % 8, r)] = f
    BY <1>1, <1>6, <2>3, <2>5
  <2> QED  BY <2>6, <2>7, <2>8 DEF f
<1> QED  BY <1>1, <1>4, <1>5, <1>6

-----------------------------------------------------------------------------
(* The invariant: where in a field the reader is, and what it has read.    *)

ReadField ==
  {f \in [num : Word \ {0}, wt : {0, 1, 2, 5}, val : Word \cup Seq(Byte)] :
     f.wt # 2 => f.val \in Word}

\* the k bytes after `from` are a tag, and the one the reader holds
Tagged(k) ==
  /\ VarintAt(from, from + k)
  /\ TagAt(from, k) >= 8
  /\ tag = [num |-> TagAt(from, k) \div 8, wt |-> TagAt(from, k) % 8]

\* after a tag the reader is at the start of a fixed value, or in a varint
AtValue ==
  /\ stage = StageOf[tag.wt]
  /\ \E k \in 1..(pos - from) :
       /\ Tagged(k)
       /\ IF InVarint THEN Reading(from + k) ELSE pos = from + k

WireInv ==
  /\ TypeOK
  /\ fields \in Seq(ReadField)
  /\ stage \in {"next", "end"} => pos = from
  /\ stage = "end" => from = Len(buf)
  /\ stage \in {"tag", "varint", "length", "long", "short"} => from < Len(buf)
  /\ stage = "tag" => Reading(from)
  /\ stage \in {"varint", "length", "long", "short"} => AtValue

LEMMA DigitsNext ==
  ASSUME buf' = buf, NEW a, NEW b, NEW bits
  PROVE  Digits(a, b, bits)' = Digits(a, b, bits)
BY DEF Digits, Powers

LEMMA ReadingNext ==
  ASSUME buf' = buf, NEW a, a <= pos', \A i \in (a + 1)..pos' : buf[i] >= More,
         v' = Digits(a, pos', GroupBits), shift' = GroupBits * (pos' - a)
  PROVE  Reading(a)'
<1>1. Digits(a, pos, GroupBits)' = Digits(a, pos', GroupBits)  BY DEF Digits, Powers
<1> QED  BY <1>1 DEF Reading, More

LEMMA TaggedNext ==
  ASSUME buf' = buf, from' = from, NEW k, VarintAt(from, from + k), TagAt(from, k) >= 8,
         tag' = [num |-> TagAt(from, k) \div 8, wt |-> TagAt(from, k) % 8]
  PROVE  Tagged(k)'
<1>1. Digits(from, from + k, GroupBits)' = Digits(from, from + k, GroupBits)
  BY DEF Digits, Powers
<1>2. TagAt(from, k)' = TagAt(from, k)  BY <1>1 DEF TagAt
<1>3. VarintAt(from, from + k)'
  BY <1>1 DEF VarintAt, More, WordBits, Grammar!MaxVarint, Grammar!WordBits
<1> QED  BY <1>2, <1>3 DEF Tagged

LEMMA Positions ==
  ASSUME WireInv
  PROVE  /\ from \in Nat /\ pos \in Nat /\ Len(buf) \in Nat
         /\ from <= pos /\ pos <= Len(buf)
<1>1. Len(buf) \in Nat
  <2>1. buf \in Seq(Byte)  BY DEF WireInv, TypeOK
  <2> QED  BY <2>1, LenProperties
<1>2. pos \in 0..Len(buf) /\ from \in 0..pos  BY DEF WireInv, TypeOK
<1>3. \A n \in Nat : \A x \in 0..n : x \in Nat /\ x <= n  OBVIOUS
<1>4. pos \in Nat /\ pos <= Len(buf)  BY <1>1, <1>2, <1>3
<1> QED  BY <1>1, <1>2, <1>3, <1>4

LEMMA FailStep ==
  ASSUME WireInv, NEW reason \in {"truncated", "overflow", "field 0", "group", "wire type"},
         Fail(reason)
  PROVE  WireInv'
<1>1. /\ stage' = "failed" /\ err' = reason
      /\ buf' = buf /\ pos' = pos /\ v' = v /\ shift' = shift /\ tag' = tag
      /\ from' = from /\ fields' = fields
  BY DEF Fail
<1>2. TypeOK'
  BY <1>1 DEF WireInv, TypeOK, Byte, More, Word, WordBits
<1> QED  BY <1>1, <1>2 DEF WireInv, ReadField, Byte, More, Word, WordBits
\* what the reader holds is a field like those it has read
LEMMA KeepStep ==
  ASSUME WireInv, stage \in {"varint", "length", "long", "short"},
         NEW val \in Word \cup Seq(Byte), NEW to \in from..Len(buf), Keep(val, to),
         tag.num # 0, tag.wt # 2 => val \in Word
  PROVE  WireInv'
<1>1. /\ fields' = Append(fields, [num |-> tag.num, wt |-> tag.wt, val |-> val])
      /\ pos' = to /\ from' = to /\ stage' = "next"
      /\ buf' = buf /\ v' = v /\ shift' = shift /\ tag' = tag /\ err' = err
  BY DEF Keep
<1>2. /\ buf \in Seq(Byte) /\ fields \in Seq(ReadField)
      /\ v \in Word /\ shift \in 0..(WordBits - 1)
      /\ tag \in [num : Word, wt : {0, 1, 2, 5}]
      /\ pos \in 0..Len(buf) /\ from \in 0..pos
      /\ err = ""
  BY DEF WireInv, TypeOK
<1> DEFINE f == [num |-> tag.num, wt |-> tag.wt, val |-> val]
<1>3. f \in ReadField  BY <1>2 DEF ReadField
<1> HIDE DEF f
<1>4. fields' \in Seq(ReadField)  BY <1>1, <1>2, <1>3, AppendProperties DEF f
<1>5. \A i \in DOMAIN fields' :
        fields'[i].num > 0 /\ (fields'[i].wt # 2 => fields'[i].val \in Word)
  <2> SUFFICES ASSUME NEW i \in DOMAIN fields'
               PROVE  fields'[i].num > 0 /\ (fields'[i].wt # 2 => fields'[i].val \in Word)
    OBVIOUS
  <2>1. fields'[i] \in ReadField  BY <1>4, ElementOfSeq, LenProperties
  <2>2. Word \subseteq Nat  BY WidthsType DEF Word
  <2> QED  BY <2>1, <2>2 DEF ReadField
<1>6. to \in 0..Len(buf) /\ to \in 0..to /\ Len(buf) \in Nat
  <2> QED  BY Positions
<1>7. TypeOK'
  BY <1>1, <1>2, <1>5, <1>6 DEF TypeOK, Byte, More, Word, WordBits
<1> QED  BY <1>1, <1>4, <1>7 DEF WireInv, ReadField, Byte, More, Word, WordBits

\* after a tag: the tag, and the varint being read or the start of a fixed value
LEMMA ValueStage ==
  ASSUME WireInv, stage \in {"varint", "length", "long", "short"}
  PROVE  \E a \in Nat : \E k \in Nat \ {0} :
           /\ a = from + k /\ a <= pos /\ k <= pos - from
           /\ Tagged(k)
           /\ tag.num # 0 /\ tag.wt \in {0, 1, 2, 5} /\ stage = StageOf[tag.wt]
           /\ stage \in {"varint", "length"} => Reading(a)
           /\ stage \in {"long", "short"} => pos = a
<1>1. PICK k \in 1..(pos - from) :
        Tagged(k) /\ IF InVarint THEN Reading(from + k) ELSE pos = from + k
  BY DEF WireInv, AtValue
<1>2. pos \in 0..Len(buf) /\ from \in 0..pos /\ tag \in [num : Word, wt : {0, 1, 2, 5}]
      /\ stage = StageOf[tag.wt] /\ buf \in Seq(Byte)
  BY DEF WireInv, TypeOK, AtValue
<1>3. from \in Nat /\ from + k \in Nat /\ k \in Nat \ {0} /\ k <= pos - from /\ from + k <= pos
      /\ pos \in Nat /\ from + k <= Len(buf)
  BY <1>1, <1>2, LenProperties
<1>4. TagAt(from, k) \in Nat
  <2>1. GroupBits \in Nat /\ from <= from + k  BY <1>3, WidthsType
  <2>2. Digits(from, from + k, GroupBits) \in Nat  BY <1>2, <1>3, <2>1, DigitsType
  <2> QED  BY <2>2 DEF TagAt
<1>5. tag.num # 0
  <2>1. TagAt(from, k) >= 8 /\ tag.num = TagAt(from, k) \div 8  BY <1>1 DEF Tagged
  <2>2. \A x \in Nat : x >= 8 => x \div 8 # 0  OBVIOUS
  <2> QED  BY <1>4, <2>1, <2>2
<1> QED  BY <1>1, <1>2, <1>3, <1>5 DEF InVarint

LEMMA InvFacts ==
  ASSUME WireInv
  PROVE  /\ buf \in Seq(Byte) /\ pos \in Nat /\ shift < WordBits
         /\ tag \in [num : Word, wt : {0, 1, 2, 5}]
<1>1. WordBits \in Nat  BY WidthsType
<1>2. shift \in 0..(WordBits - 1)  BY DEF WireInv, TypeOK
<1>3. shift < WordBits  BY <1>1, <1>2
<1> QED  BY <1>3, Positions DEF WireInv, TypeOK

LEMMA VarintRead ==
  ASSUME WireInv, NEW a \in Nat, Reading(a), Ends
  PROVE  /\ VarintAt(a, pos + 1) /\ Result = Digits(a, pos + 1, GroupBits)
         /\ Result \in Word /\ pos < Len(buf) /\ a <= pos
<1>1. VarintAt(a, pos + 1) /\ Result = Digits(a, pos + 1, GroupBits)  BY InvFacts, VarintEnds
<1>2. pos < Len(buf) /\ a <= pos  BY DEF Ends, Reading
<1>3. Digits(a, pos + 1, GroupBits) \in Nat
  <2>1. GroupBits \in Nat /\ a <= pos + 1 /\ pos + 1 <= Len(buf) /\ pos + 1 \in Nat
    BY <1>2, WidthsType, Positions
  <2> QED  BY <2>1, InvFacts, DigitsType
<1>4. Result < 2 ^ WordBits  BY <1>1 DEF VarintAt
<1>5. Result \in Word  BY <1>1, <1>3, <1>4, WidthsType DEF Word
<1> QED  BY <1>1, <1>2, <1>5

\* the varint the reader is in starts at the field or after its tag
LEMMA VarintFrom == ASSUME WireInv, InVarint PROVE \E a \in Nat : Reading(a)
<1>1. CASE stage = "tag"
  <2>1. Reading(from)  BY <1>1 DEF WireInv
  <2> QED  BY <2>1, Positions
<1>2. CASE stage \in {"varint", "length"}  BY <1>2, ValueStage
<1> QED  BY <1>1, <1>2 DEF InVarint

LEMMA StartTagStep == ASSUME WireInv, StartTag PROVE WireInv'
<1>1. /\ stage = "next" /\ pos < Len(buf)
      /\ stage' = "tag" /\ v' = 0 /\ shift' = 0
      /\ buf' = buf /\ pos' = pos /\ tag' = tag /\ from' = from /\ fields' = fields /\ err' = err
  BY DEF StartTag
<1>2. pos = from /\ pos \in Nat /\ from \in Nat  BY <1>1, Positions DEF WireInv
<1>3. 0 \in Word /\ 0 \in 0..(WordBits - 1)  BY WidthsType DEF Word
<1>4. TypeOK'
  BY <1>1, <1>3 DEF WireInv, TypeOK, Byte, More, Word, WordBits
<1>5. Reading(from)'
  <2>1. PICK a \in Nat : a = from  BY <1>2
  <2>2. a <= pos' /\ (a + 1)..pos' = {} /\ pos' = a  BY <1>1, <1>2, <2>1
  <2>3. Digits(a, a, GroupBits) = 0  BY DigitsEmpty
  <2>4. GroupBits * (a - a) = 0
    <3>1. \A x \in Nat : x * 0 = 0  OBVIOUS
    <3>2. a - a = 0  OBVIOUS
    <3> QED  BY <3>1, <3>2, WidthsType
  <2>5. Reading(a)'  BY <1>1, <2>2, <2>3, <2>4, ReadingNext
  <2>6. a = from'  BY <1>1, <2>1
  <2> QED  BY <2>5, <2>6 DEF Reading, Digits, Powers
<1> QED  BY <1>1, <1>2, <1>4, <1>5 DEF WireInv, ReadField, Byte, More, Word, WordBits

LEMMA VarintByteStep == ASSUME WireInv, VarintByte PROVE WireInv'
<1>1. /\ InVarint /\ pos < Len(buf) /\ B >= More /\ shift + GroupBits < WordBits
      /\ pos' = pos + 1 /\ v' = (v + (B % More) * 2 ^ shift) % 2 ^ WordBits
      /\ shift' = shift + GroupBits
      /\ buf' = buf /\ stage' = stage /\ tag' = tag /\ from' = from /\ fields' = fields
      /\ err' = err
  BY DEF VarintByte
<1>2. ASSUME NEW a \in Nat, Reading(a) PROVE Reading(a)' /\ v' \in Word /\ shift' \in Nat
  <2>1. a <= pos /\ pos \in Nat /\ a <= pos'  BY <1>1, <1>2, Positions DEF Reading
  <2>2. /\ \A i \in (a + 1)..(pos + 1) : buf[i] >= More
        /\ (v + (B % More) * 2 ^ shift) % 2 ^ WordBits = Digits(a, pos + 1, GroupBits)
        /\ shift + GroupBits = GroupBits * ((pos + 1) - a)
    BY <1>1, <1>2, InvFacts, VarintGoesOn
  <2>3. Reading(a)'  BY <1>1, <2>1, <2>2, ReadingNext
  <2>4. v' \in Word
    <3>1. Digits(a, pos + 1, GroupBits) \in Nat
      BY <1>1, <1>2, InvFacts, ReadingStep
    <3>2. \A x \in Nat, y \in Nat \ {0} : x % y \in 0..(y - 1)  OBVIOUS
    <3>3. v \in Nat /\ (B % More) * 2 ^ shift \in Nat
      <4>1. v \in Nat /\ B % More \in Nat /\ 2 ^ shift \in Nat
        BY <1>1, <1>2, InvFacts, ReadingStep
      <4>2. \A x, y \in Nat : x * y \in Nat  OBVIOUS
      <4> QED  BY <4>1, <4>2
    <3>4. v + (B % More) * 2 ^ shift \in Nat  BY <3>3
    <3> QED  BY <1>1, <3>2, <3>4, WidthsType DEF Word
  <2>5. shift' \in Nat
    <3>1. shift \in Nat  BY <1>2, InvFacts, ReadingCount
    <3> QED  BY <1>1, <3>1, WidthsType
  <2> QED  BY <2>3, <2>4, <2>5
<1>3. v' \in Word /\ shift' \in 0..(WordBits - 1)
  <2>1. PICK a \in Nat : Reading(a)  BY <1>1, VarintFrom
  <2>2. v' \in Word /\ shift' \in Nat  BY <1>2, <2>1
  <2> QED  BY <1>1, <2>2, WidthsType
<1>4. pos' \in 0..Len(buf) /\ from \in 0..pos'  BY <1>1, Positions
<1>5. TypeOK'
  BY <1>1, <1>3, <1>4 DEF WireInv, TypeOK, Byte, More, Word, WordBits
<1>6. stage = "tag" => Reading(from)'
  <2> SUFFICES ASSUME stage = "tag" PROVE Reading(from)'  OBVIOUS
  <2>1. PICK a \in Nat : a = from  BY Positions
  <2>2. Reading(a)  BY <2>1 DEF WireInv
  <2>3. Reading(a)'  BY <1>2, <2>2
  <2>4. a = from'  BY <1>1, <2>1
  <2> QED  BY <2>3, <2>4 DEF Reading, Digits, Powers
<1>7. stage \in {"varint", "length"} => AtValue'
  <2> SUFFICES ASSUME stage \in {"varint", "length"} PROVE AtValue'  OBVIOUS
  <2>1. PICK a \in Nat, k \in Nat \ {0} :
          a = from + k /\ a <= pos /\ k <= pos - from /\ Tagged(k) /\ stage = StageOf[tag.wt]
          /\ Reading(a)
    BY ValueStage
  <2>2. Reading(a)'  BY <1>2, <2>1
  <2>3. Tagged(k)'  BY <1>1, <2>1, TaggedNext DEF Tagged
  <2>4. k \in 1..(pos' - from')  BY <1>1, <2>1, Positions
  <2>5. a = from' + k  BY <1>1, <2>1
  <2>6. Reading(from + k)'  BY <2>2, <2>5 DEF Reading, Digits, Powers
  <2>7. InVarint'  BY <1>1 DEF InVarint
  <2>8. stage' = StageOf[tag'.wt]  BY <1>1, <2>1
  <2> QED  BY <2>3, <2>4, <2>6, <2>7, <2>8 DEF AtValue, StageOf
<1>8. stage \in {"tag", "varint", "length"}  BY <1>1 DEF InVarint
<1> QED  BY <1>1, <1>5, <1>6, <1>7, <1>8 DEF WireInv, ReadField, Byte, More, Word, WordBits

LEMMA TagStep == ASSUME WireInv, Tag PROVE WireInv'
<1>1. /\ stage = "tag" /\ Ends /\ Result \div 8 # 0 /\ Result % 8 \in {0, 1, 2, 5}
      /\ tag' = [num |-> Result \div 8, wt |-> Result % 8] /\ stage' = StageOf[Result % 8]
      /\ pos' = pos + 1 /\ v' = 0 /\ shift' = 0
      /\ buf' = buf /\ from' = from /\ fields' = fields /\ err' = err
  BY DEF Tag, StageOf
<1>2. PICK a \in Nat : a = from  BY Positions
<1>3. Reading(a)  BY <1>1, <1>2 DEF WireInv
<1>4. /\ VarintAt(a, pos + 1) /\ Result = Digits(a, pos + 1, GroupBits)
      /\ Result \in Word /\ pos < Len(buf) /\ a <= pos
  BY <1>1, <1>3, VarintRead
<1>5. Result \in Nat /\ Word \subseteq Nat  BY <1>4, WidthsType DEF Word
<1>6. Result \div 8 \in Word
  <2>1. \A x \in Nat : x \div 8 \in Nat /\ x \div 8 <= x  OBVIOUS
  <2>2. \A n, x, y \in Nat : x \in 0..(n - 1) /\ y <= x => y \in 0..(n - 1)  OBVIOUS
  <2> QED  BY <1>4, <1>5, <2>1, <2>2, WidthsType DEF Word
<1>7. Result >= 8
  <2>1. \A x \in Nat : x \div 8 # 0 => x >= 8  OBVIOUS
  <2> QED  BY <1>1, <1>5, <2>1
<1>8. pos' \in 0..Len(buf) /\ from \in 0..pos' /\ pos' \in Nat /\ from < Len(buf)
  BY <1>1, <1>2, <1>4, Positions
<1>9. stage' \in {"varint", "length", "long", "short"} /\ stage' = StageOf[tag'.wt]
      /\ tag' \in [num : Word, wt : {0, 1, 2, 5}]
  BY <1>1, <1>6 DEF StageOf
<1>10. TypeOK'
  <2>1. 0 \in Word /\ 0 \in 0..(WordBits - 1)  BY WidthsType DEF Word
  <2> QED  BY <1>1, <1>8, <1>9, <2>1 DEF WireInv, TypeOK, Byte, More, Word, WordBits
<1>11. AtValue'
  <2>1. PICK k \in Nat \ {0} : k = (pos + 1) - a
    <3>1. (pos + 1) - a \in Nat \ {0}  BY <1>4, Positions
    <3> QED  BY <3>1
  <2>2. from + k = pos + 1 /\ k \in 1..(pos' - from')  BY <1>1, <1>2, <2>1, Positions
  <2>3. TagAt(from, k) = Result  BY <1>2, <1>4, <2>2 DEF TagAt
  <2>4. VarintAt(from, from + k)  BY <1>2, <1>4, <2>2
  <2>5. Tagged(k)'  BY <1>1, <1>7, <2>3, <2>4, TaggedNext
  <2>6. pos' = from' + k  BY <1>1, <2>2
  <2>7. Reading(from + k)'
    <3>1. PICK b \in Nat : b = pos'  BY <1>8
    <3>2. b <= pos' /\ (b + 1)..pos' = {}
      <4>1. b <= b /\ (b + 1)..b = {}  OBVIOUS
      <4> QED  BY <3>1, <4>1
    <3>3. Digits(b, b, GroupBits) = 0  BY DigitsEmpty
    <3>4. GroupBits * (b - b) = 0
      <4>1. \A x \in Nat : x * 0 = 0  OBVIOUS
      <4>2. b - b = 0  OBVIOUS
      <4> QED  BY <4>1, <4>2, WidthsType
    <3>5. Reading(b)'  BY <1>1, <3>1, <3>2, <3>3, <3>4, ReadingNext
    <3>6. b = from' + k  BY <2>6, <3>1
    <3> QED  BY <3>5, <3>6 DEF Reading, Digits, Powers
  <2> QED  BY <1>9, <2>2, <2>5, <2>6, <2>7 DEF AtValue, StageOf
<1> QED  BY <1>1, <1>8, <1>9, <1>10, <1>11 DEF WireInv, ReadField, Byte, More, Word, WordBits

LEMMA VarintStep == ASSUME WireInv, Varint PROVE WireInv'
<1>1. stage = "varint" /\ Ends /\ Keep(Result, pos + 1)  BY DEF Varint
<1>2. PICK a \in Nat, k \in Nat \ {0} :
        /\ tag.num # 0 /\ tag.wt \in {0, 1, 2, 5} /\ stage = StageOf[tag.wt] /\ Reading(a)
  BY <1>1, ValueStage
<1>3. Result \in Word /\ pos < Len(buf)  BY <1>1, <1>2, VarintRead
<1>4. pos + 1 \in from..Len(buf)  BY <1>3, Positions
<1> QED  BY <1>1, <1>2, <1>3, <1>4, KeepStep

LEMMA BlobStep == ASSUME WireInv, Blob PROVE WireInv'
<1>1. stage = "length" /\ Ends  BY DEF Blob
<1>2. PICK a \in Nat, k \in Nat \ {0} :
        /\ tag.num # 0 /\ tag.wt \in {0, 1, 2, 5} /\ stage = StageOf[tag.wt] /\ Reading(a)
  BY <1>1, ValueStage
<1>3. Result \in Nat /\ pos < Len(buf)
  <2>1. Result \in Word /\ pos < Len(buf)  BY <1>1, <1>2, VarintRead
  <2> QED  BY <2>1, WidthsType DEF Word
<1>4. tag.wt = 2
  <2>1. \A wt \in {0, 1, 2, 5} : StageOf[wt] = "length" => wt = 2  BY DEF StageOf
  <2> QED  BY <1>1, <1>2, <2>1
<1>5. ASSUME Fail("truncated") PROVE WireInv'  BY <1>5, FailStep
<1>6. ASSUME Result <= Len(buf) - (pos + 1),
             Keep(SubSeq(buf, pos + 2, pos + 1 + Result), pos + 1 + Result)
      PROVE  WireInv'
  <2>1. /\ pos + 1 \in Nat /\ pos + 1 + Result \in Nat /\ pos + 1 <= pos + 1 + Result
        /\ pos + 1 + Result <= Len(buf) /\ pos + 2 = (pos + 1) + 1
        /\ pos + 1 + Result \in from..Len(buf)
    BY <1>3, <1>6, Positions
  <2>2. SubSeq(buf, (pos + 1) + 1, pos + 1 + Result) \in Seq(Byte)  BY <2>1, InvFacts, Part
  <2> QED  BY <1>1, <1>2, <1>4, <1>6, <2>1, <2>2, KeepStep
<1> QED  BY <1>5, <1>6 DEF Blob

\* the value of a fixed field
LEMMA LittleEndianIs ==
  ASSUME buf \in Seq(Byte), pos \in Nat, NEW count \in Nat, pos + count <= Len(buf)
  PROVE  LittleEndian(count) = Digits(pos, pos + count, GroupBits + 1)
<1> DEFINE f == [i \in 1..count |-> buf[pos + i] * 2 ^ ((GroupBits + 1) * (i - 1))]
           g == Powers(pos, count, GroupBits + 1)
<1>1. (pos + count) - pos = count  OBVIOUS
<1>2. ASSUME NEW i \in 1..count PROVE buf[pos + i] % 2 ^ (GroupBits + 1) = buf[pos + i]
  <2>1. pos + i \in 1..Len(buf)  BY LenProperties
  <2>2. buf[pos + i] \in Byte /\ buf[pos + i] \in Nat  BY <2>1, ByteAt
  <2>3. 2 * More = 2 ^ (GroupBits + 1) /\ 2 * More \in Nat  BY WidthsType
  <2>4. buf[pos + i] < 2 ^ (GroupBits + 1)  BY <2>2, <2>3 DEF Byte
  <2> QED  BY <2>2, <2>3, <2>4, ModOfSmaller
<1>3. f = g  BY <1>2 DEF Powers
<1>4. DOMAIN g = 1..count  BY DEF Powers
<1>5. LittleEndian(count) = SumFunction(f)  BY DEF LittleEndian
<1> HIDE DEF f, g
<1>6. SumFunction(g) = Sum(g, 1..count)  BY <1>4 DEF SumFunction, Sum
<1> QED  BY <1>1, <1>3, <1>5, <1>6 DEF Digits, g

LEMMA FixedType ==
  ASSUME buf \in Seq(Byte), pos \in Nat, NEW count \in 0..LongBytes, pos + count <= Len(buf)
  PROVE  LittleEndian(count) \in Word
<1>1. count \in Nat /\ pos + count \in Nat /\ pos <= pos + count /\ GroupBits + 1 \in Nat
      /\ (pos + count) - pos = count /\ LongBytes \in Nat
  BY WidthsType, WidthsAssumption
<1> DEFINE d == Digits(pos, pos + count, GroupBits + 1)
           e == (GroupBits + 1) * count
<1>2. d \in Nat /\ d < 2 ^ e
  <2>1. Digits(pos, pos + count, GroupBits + 1) < 2 ^ ((GroupBits + 1) * ((pos + count) - pos))
    BY <1>1, DigitsBound
  <2>2. d \in Nat  BY <1>1, DigitsType
  <2> QED  BY <1>1, <2>1, <2>2
<1>3. e \in Nat /\ e <= WordBits
  <2>1. \A x, y, z \in Nat : y <= z => x * y \in Nat /\ x * y <= x * z  OBVIOUS
  <2> QED  BY <1>1, <2>1 DEF WordBits
<1>4. LittleEndian(count) = d  BY <1>1, LittleEndianIs
<1> HIDE DEF d, e
<1>5. 2 ^ e <= 2 ^ WordBits /\ 2 ^ e \in Nat  BY <1>3, WidthsType, PowerMonotonic, PowerType
<1> QED  BY <1>2, <1>4, <1>5, WidthsType DEF Word

LEMMA FixedStep == ASSUME WireInv, Fixed PROVE WireInv'
<1> DEFINE count == IF stage = "long" THEN LongBytes ELSE ShortBytes
<1>1. stage \in {"long", "short"}
      /\ \/ pos + count > Len(buf) /\ Fail("truncated")
         \/ pos + count <= Len(buf) /\ Keep(LittleEndian(count), pos + count)
  BY DEF Fixed
<1>2. count \in 0..LongBytes /\ count \in Nat  BY WidthsAssumption
<1>3. PICK a \in Nat, k \in Nat \ {0} : tag.num # 0  BY <1>1, ValueStage
<1> HIDE DEF count
<1>4. ASSUME Fail("truncated") PROVE WireInv'  BY <1>4, FailStep
<1>5. ASSUME pos + count <= Len(buf), Keep(LittleEndian(count), pos + count) PROVE WireInv'
  <2>1. LittleEndian(count) \in Word  BY <1>2, <1>5, InvFacts, FixedType
  <2>2. pos + count \in from..Len(buf)  BY <1>2, <1>5, Positions
  <2> QED  BY <1>1, <1>3, <1>5, <2>1, <2>2, KeepStep
<1> QED  BY <1>1, <1>4, <1>5

LEMMA DoneStep == ASSUME WireInv, Done PROVE WireInv'
<1>1. /\ stage = "next" /\ pos >= Len(buf) /\ stage' = "end"
      /\ buf' = buf /\ pos' = pos /\ v' = v /\ shift' = shift /\ tag' = tag
      /\ from' = from /\ fields' = fields /\ err' = err
  BY DEF Done
<1>2. from = Len(buf) /\ pos = from
  <2>1. pos = from  BY <1>1 DEF WireInv
  <2> QED  BY <1>1, <2>1, Positions
<1>3. TypeOK'  BY <1>1 DEF WireInv, TypeOK, Byte, More, Word, WordBits
<1> QED  BY <1>1, <1>2, <1>3 DEF WireInv, ReadField, Byte, More, Word, WordBits

LEMMA InitType == Init => WireInv
<1> SUFFICES ASSUME Init PROVE WireInv  OBVIOUS
<1>1. /\ pos = 0 /\ stage = "next" /\ v = 0 /\ shift = 0
      /\ tag = [num |-> 0, wt |-> 0] /\ from = 0 /\ fields = << >> /\ err = ""
  BY DEF Init
<1>2. buf \in Seq(Byte)
  <2>1. CASE buf \in Buffers  BY <2>1, MessagesAssumption
  <2>2. ASSUME sent \in Messages, cut \in 0..Len(Encode(sent)),
               buf = SubSeq(Encode(sent), 1, Len(Encode(sent)) - cut)
        PROVE  buf \in Seq(Byte)
    <3>1. PICK s : s = Encode(sent)  OBVIOUS
    <3>2. s \in Seq(Byte)  BY <2>2, <3>1, EncodeType
    <3>3. Len(s) \in Nat  BY <3>2, LenProperties
    <3>4. 1 \in Int /\ Len(s) - cut \in Int /\ Len(s) - cut <= Len(s)  BY <2>2, <3>1, <3>3
    <3>5. \A i \in 1..(Len(s) - cut) : s[i] \in Byte
      <4>1. 1..(Len(s) - cut) \subseteq 1..Len(s)  BY <3>3, <3>4
      <4> QED  BY <3>2, <4>1, ElementOfSeq
    <3>6. SubSeq(s, 1, Len(s) - cut) \in Seq(Byte)  BY <3>4, <3>5, SubSeqProperties
    <3> QED  BY <2>2, <3>1, <3>6
  <2> QED  BY <2>1, <2>2 DEF Init
<1>3. 0 \in Word /\ 0 \in 0..(WordBits - 1)  BY WidthsType DEF Word
<1>4. 0 \in 0..Len(buf)
  <2>1. Len(buf) \in Nat  BY <1>2, LenProperties
  <2> QED  BY <2>1
<1>5. fields \in Seq(ReadField) /\ DOMAIN fields = {}
  <2>1. << >> \in Seq(ReadField)  BY EmptySeq
  <2>2. DOMAIN << >> = {}  OBVIOUS
  <2> QED  BY <1>1, <2>1, <2>2
<1>6. tag \in [num : Word, wt : {0, 1, 2, 5}]  BY <1>1, <1>3
<1>7. from \in 0..pos
  <2>1. 0 \in 0..0  OBVIOUS
  <2> QED  BY <1>1, <2>1
<1>8. TypeOK  BY <1>1, <1>2, <1>3, <1>4, <1>5, <1>6, <1>7 DEF TypeOK
<1> QED  BY <1>1, <1>5, <1>8 DEF WireInv

LEMMA WireStep == WireInv /\ [Next]_vars => WireInv'
<1> SUFFICES ASSUME WireInv, [Next]_vars PROVE WireInv'  OBVIOUS
<1>1. CASE Done  BY <1>1, DoneStep
<1>2. CASE StartTag  BY <1>2, StartTagStep
<1>3. CASE VarintTruncated  BY <1>3, FailStep DEF VarintTruncated
<1>4. CASE VarintByte  BY <1>4, VarintByteStep
<1>5. CASE VarintOverflow  BY <1>5, FailStep DEF VarintOverflow
<1>6. CASE Tag  BY <1>6, TagStep
<1>7. CASE TagRefused  BY <1>7, FailStep DEF TagRefused
<1>8. CASE Varint  BY <1>8, VarintStep
<1>9. CASE Blob  BY <1>9, BlobStep
<1>10. CASE Fixed  BY <1>10, FixedStep
<1>11. CASE UNCHANGED vars
  <2>1. UNCHANGED <<buf, pos, stage, v, shift, tag, from, fields, err>>  BY <1>11 DEF vars
  <2>2. TypeOK'  BY <2>1 DEF WireInv, TypeOK, Byte, More, Word, WordBits
  <2>3. Reading(from)' = Reading(from)  BY <2>1 DEF Reading, Digits, Powers, More
  <2>4. \A k : Reading(from + k)' = Reading(from + k)
    BY <2>1 DEF Reading, Digits, Powers, More
  <2>5. \A k : Tagged(k)' = Tagged(k)
    BY <2>1 DEF Tagged, TagAt, VarintAt, Digits, Powers, More, WordBits,
                Grammar!MaxVarint, Grammar!WordBits
  <2>6. AtValue' = AtValue  BY <2>1, <2>4, <2>5 DEF AtValue, StageOf, InVarint
  <2> QED  BY <2>1, <2>2, <2>3, <2>6 DEF WireInv, ReadField, Byte, More, Word, WordBits
<1> QED
  BY <1>1, <1>2, <1>3, <1>4, <1>5, <1>6, <1>7, <1>8, <1>9, <1>10, <1>11 DEF Next, Ended

\* Wire.TypeOK: whatever the bytes say, the reader stays within the buffer and no
\* number it reads is larger than a word.
THEOREM WireTypeCorrect == Spec => []TypeOK
<1>1. WireInv => TypeOK  BY DEF WireInv
<1> QED  BY <1>1, InitType, WireStep, PTL DEF Spec

-----------------------------------------------------------------------------
(* The reader takes fields as the grammar does.                            *)

LEMMA TakesField ==
  ASSUME WireInv, stage \in {"varint", "length", "long", "short"},
         NEW val, NEW to \in Nat, Keep(val, to), to <= Len(buf),
         NEW a \in Nat, NEW k \in Nat \ {0}, a = from + k, a <= to, Tagged(k),
         ValueAt(tag.wt, a, to),
         Grammar!ValueOf(tag.wt, SubSeq(buf, a + 1, to)) = val
  PROVE  Grammar!TakeField
<1>1. /\ fields' = Append(fields, [num |-> tag.num, wt |-> tag.wt, val |-> val])
      /\ from' = to /\ stage' = "next" /\ buf' = buf
  BY DEF Keep
<1>2. /\ VarintAt(from, from + k) /\ TagAt(from, k) >= 8
      /\ tag.num = TagAt(from, k) \div 8 /\ tag.wt = TagAt(from, k) % 8
  BY DEF Tagged
<1>3. to \in (from + 1)..Len(buf) /\ k \in 1..(to - from) /\ from \in Nat /\ from <= to
      /\ buf \in Seq(Byte)
  BY Positions, InvFacts
<1>4. FieldAt(from, k, to)  BY <1>2 DEF FieldAt
<1> DEFINE s == SubSeq(buf, from + 1, to)
<1>5. /\ Grammar!IsField(s, k)
      /\ Grammar!FieldOf(s, k) = [num |-> tag.num, wt |-> tag.wt, val |-> val]
  <2>1. /\ Grammar!IsField(s, k) <=> FieldAt(from, k, to)
        /\ Grammar!FieldOf(s, k)
             = [num |-> TagAt(from, k) \div 8, wt |-> TagAt(from, k) % 8,
                val |-> Grammar!ValueOf(TagAt(from, k) % 8, SubSeq(buf, (from + k) + 1, to))]
    BY <1>3, FieldIs
  <2> HIDE DEF s
  <2> QED  BY <1>2, <1>4, <2>1
<1>6. /\ (IF stage \in {"end", "failed"} THEN stage ELSE "reading") = "reading"
      /\ (IF stage \in {"end", "failed"} THEN stage ELSE "reading")' = "reading"
  BY <1>1
<1>7. fields' = Append(fields, Grammar!FieldOf(s, k))  BY <1>1, <1>5
<1> QED  BY <1>1, <1>3, <1>5, <1>6, <1>7 DEF Grammar!TakeField

LEMMA FailsGrammar ==
  ASSUME WireInv, stage \in {"tag", "varint", "length", "long", "short"}, NEW reason, Fail(reason),
         \A k \in Nat \ {0} : \A to \in Nat : to <= Len(buf) => ~FieldAt(from, k, to)
  PROVE  Grammar!Fail
<1>1. stage' = "failed" /\ buf' = buf /\ from' = from /\ fields' = fields  BY DEF Fail
<1>2. from < Len(buf) /\ buf \in Seq(Byte) /\ from \in Nat /\ Len(buf) \in Nat
  BY Positions, InvFacts DEF WireInv
<1>3. ASSUME NEW to \in (from + 1)..Len(buf), NEW k \in 1..(to - from)
      PROVE  ~Grammar!IsField(SubSeq(buf, from + 1, to), k)
  <2>1. to \in Nat /\ from <= to /\ to <= Len(buf) /\ k \in Nat \ {0}  BY <1>2
  <2>2. Grammar!IsField(SubSeq(buf, from + 1, to), k) <=> FieldAt(from, k, to)
    BY <1>2, <2>1, FieldIs
  <2> QED  BY <2>1, <2>2
<1>4. /\ (IF stage \in {"end", "failed"} THEN stage ELSE "reading") = "reading"
      /\ (IF stage \in {"end", "failed"} THEN stage ELSE "reading")' = "failed"
  BY <1>1
<1> QED  BY <1>1, <1>2, <1>3, <1>4 DEF Grammar!Fail

\* no varint where one must be, no field
LEMMA VarintFails ==
  ASSUME WireInv, InVarint, NEW reason, Fail(reason),
         \/ pos >= Len(buf)
         \/ pos < Len(buf) /\ B >= More /\ shift + GroupBits >= WordBits
         \/ pos < Len(buf) /\ B \in 2..(More - 1) /\ shift = WordBits - 1
  PROVE  Grammar!Fail
<1>1. buf \in Seq(Byte) /\ pos \in 0..Len(buf) /\ shift < WordBits /\ from \in Nat
      /\ Len(buf) \in Nat
  BY InvFacts, Positions
<1>2. ASSUME NEW a \in Nat, Reading(a) PROVE \A b \in Nat : ~VarintAt(a, b)
  BY <1>1, <1>2, NoVarint
<1>3. CASE stage = "tag"
  <2>1. Reading(from)  BY <1>3 DEF WireInv
  <2>2. \A b \in Nat : ~VarintAt(from, b)  BY <1>1, <1>2, <2>1
  <2>3. \A k \in Nat \ {0} : ~VarintAt(from, from + k)  BY <1>1, <2>2
  <2>4. \A k \in Nat \ {0} : \A to \in Nat : ~FieldAt(from, k, to)  BY <2>3 DEF FieldAt
  <2> QED  BY <1>3, <2>4, FailsGrammar
<1>4. CASE stage \in {"varint", "length"}
  <2>1. PICK a \in Nat, k \in Nat \ {0} :
          /\ a = from + k /\ Tagged(k) /\ tag.wt \in {0, 1, 2, 5} /\ stage = StageOf[tag.wt]
          /\ Reading(a)
    BY <1>4, ValueStage
  <2>2. tag.wt \in {0, 2}
    <3>1. \A wt \in {0, 1, 2, 5} : StageOf[wt] \in {"varint", "length"} => wt \in {0, 2}
      BY DEF StageOf
    <3> QED  BY <1>4, <2>1, <3>1
  <2>3. \A b \in Nat : ~VarintAt(a, b)  BY <1>2, <2>1
  <2>4. ASSUME NEW l \in Nat \ {0}, NEW to \in Nat, FieldAt(from, l, to) PROVE FALSE
    <3>1. l = k
      <4>1. VarintAt(from, from + l) /\ VarintAt(from, from + k)  BY <2>1, <2>4 DEF FieldAt, Tagged
      <4>2. from + l \in Nat /\ from + k \in Nat  BY <1>1
      <4>3. from + l = from + k  BY <1>1, <4>1, <4>2, VarintUnique
      <4> QED  BY <1>1, <4>3
    <3>2. ValueAt(tag.wt, a, to)  BY <2>1, <2>4, <3>1 DEF FieldAt, Tagged
    <3>3. VarintAt(a, to) \/ \E j \in 1..(to - a) : VarintAt(a, a + j)
      BY <2>2, <3>2 DEF ValueAt, BlobAt
    <3>4. \A j \in 1..(to - a) : a + j \in Nat  OBVIOUS
    <3> QED  BY <2>3, <3>3, <3>4
  <2> QED  BY <1>4, <2>4, FailsGrammar
<1> QED  BY <1>3, <1>4 DEF InVarint

LEMMA TagFails == ASSUME WireInv, TagRefused PROVE Grammar!Fail
<1>1. /\ stage = "tag" /\ Ends
      /\ \/ Result \div 8 = 0
         \/ Result \div 8 # 0 /\ Result % 8 \in {3, 4}
         \/ Result \div 8 # 0 /\ Result % 8 > 5
      /\ \E reason : Fail(reason)
  BY DEF TagRefused
<1>2. PICK a \in Nat : a = from  BY Positions
<1>3. Reading(a)  BY <1>1, <1>2 DEF WireInv
<1>4. /\ VarintAt(a, pos + 1) /\ Result = Digits(a, pos + 1, GroupBits) /\ Result \in Nat
      /\ pos + 1 \in Nat /\ buf \in Seq(Byte)
  <2>1. VarintAt(a, pos + 1) /\ Result = Digits(a, pos + 1, GroupBits) /\ Result \in Word
    BY <1>1, <1>3, VarintRead
  <2> QED  BY <2>1, WidthsType, Positions, InvFacts DEF Word
<1>5. ASSUME NEW k \in Nat \ {0}, NEW to \in Nat, FieldAt(from, k, to) PROVE FALSE
  <2>1. a + k = pos + 1
    <3>1. VarintAt(a, a + k) /\ a + k \in Nat  BY <1>2, <1>5 DEF FieldAt
    <3> QED  BY <1>4, <3>1, VarintUnique
  <2>2. Result >= 8 /\ ValueAt(Result % 8, a + k, to)
    BY <1>2, <1>4, <1>5, <2>1 DEF FieldAt, TagAt
  <2>3. Result % 8 \in {0, 1, 2, 5}  BY <2>2 DEF ValueAt
  <2>4. Result \div 8 # 0
    <3>1. \A x \in Nat : x >= 8 => x \div 8 # 0  OBVIOUS
    <3> QED  BY <1>4, <2>2, <3>1
  <2> QED  BY <1>1, <2>3, <2>4
<1> QED  BY <1>1, <1>5, FailsGrammar

LEMMA VarintTakes == ASSUME WireInv, Varint PROVE Grammar!TakeField
<1>1. stage = "varint" /\ Ends /\ Keep(Result, pos + 1)  BY DEF Varint
<1>2. PICK a \in Nat, k \in Nat \ {0} :
        /\ a = from + k /\ Tagged(k) /\ tag.wt \in {0, 1, 2, 5} /\ stage = StageOf[tag.wt]
        /\ Reading(a)
  BY <1>1, ValueStage
<1>3. tag.wt = 0
  <2>1. \A wt \in {0, 1, 2, 5} : StageOf[wt] = "varint" => wt = 0  BY DEF StageOf
  <2> QED  BY <1>1, <1>2, <2>1
<1>4. /\ VarintAt(a, pos + 1) /\ Result = Digits(a, pos + 1, GroupBits)
      /\ pos < Len(buf) /\ a <= pos
  BY <1>1, <1>2, VarintRead
<1>5. pos + 1 \in Nat /\ pos + 1 <= Len(buf) /\ a <= pos + 1 /\ buf \in Seq(Byte)
  BY <1>4, Positions, InvFacts
<1>6. ValueAt(tag.wt, a, pos + 1)  BY <1>3, <1>4 DEF ValueAt
<1>7. Grammar!ValueOf(tag.wt, SubSeq(buf, a + 1, pos + 1)) = Result
  BY <1>3, <1>4, <1>5, ValueOfIs
<1> QED  BY <1>1, <1>2, <1>5, <1>6, <1>7, TakesField

LEMMA BlobFollows == ASSUME WireInv, Blob PROVE Grammar!TakeField \/ Grammar!Fail
<1>1. stage = "length" /\ Ends  BY DEF Blob
<1>2. PICK a \in Nat, k \in Nat \ {0} :
        /\ a = from + k /\ Tagged(k) /\ tag.wt \in {0, 1, 2, 5} /\ stage = StageOf[tag.wt]
        /\ Reading(a)
  BY <1>1, ValueStage
<1>3. tag.wt = 2
  <2>1. \A wt \in {0, 1, 2, 5} : StageOf[wt] = "length" => wt = 2  BY DEF StageOf
  <2> QED  BY <1>1, <1>2, <2>1
<1>4. /\ VarintAt(a, pos + 1) /\ Result = Digits(a, pos + 1, GroupBits) /\ Result \in Nat
      /\ pos < Len(buf) /\ a <= pos
  <2>1. Result \in Word => Result \in Nat  BY WidthsType DEF Word
  <2> QED  BY <1>1, <1>2, <2>1, VarintRead
<1>5. pos + 1 \in Nat /\ pos \in Nat /\ from \in Nat /\ Len(buf) \in Nat /\ buf \in Seq(Byte)
  BY Positions, InvFacts
<1>6. ASSUME Result > Len(buf) - (pos + 1), Fail("truncated") PROVE Grammar!Fail
  <2>1. ASSUME NEW l \in Nat \ {0}, NEW to \in Nat, to <= Len(buf), FieldAt(from, l, to)
        PROVE  FALSE
    <3>1. l = k
      <4>1. VarintAt(from, from + l) /\ VarintAt(from, from + k)  BY <1>2, <2>1 DEF FieldAt, Tagged
      <4>2. from + l \in Nat /\ from + k \in Nat  BY <1>5
      <4>3. from + l = from + k  BY <1>5, <4>1, <4>2, VarintUnique
      <4> QED  BY <1>5, <4>3
    <3>2. ValueAt(2, a, to)  BY <1>2, <1>3, <2>1, <3>1 DEF FieldAt, Tagged
    <3>3. PICK j \in 1..(to - a) : BlobAt(a, j, to)  BY <3>2 DEF ValueAt
    <3>4. VarintAt(a, a + j) /\ Digits(a, a + j, GroupBits) = (to - a) - j  BY <3>3 DEF BlobAt
    <3>5. a + j = pos + 1
      <4>1. a + j \in Nat  OBVIOUS
      <4> QED  BY <1>4, <1>5, <3>4, <4>1, VarintUnique
    <3>6. Result = (to - a) - j  BY <1>4, <3>4, <3>5
    <3>7. (to - a) - j = to - (pos + 1)  BY <1>5, <3>5
    <3> QED  BY <1>4, <1>5, <1>6, <2>1, <3>6, <3>7
  <2> QED  BY <1>1, <1>6, <2>1, FailsGrammar
<1>7. ASSUME Result <= Len(buf) - (pos + 1),
             Keep(SubSeq(buf, pos + 2, pos + 1 + Result), pos + 1 + Result)
      PROVE  Grammar!TakeField
  <2> DEFINE to == pos + 1 + Result
  <2>1. to \in Nat /\ to <= Len(buf) /\ a <= to /\ pos + 1 <= to  BY <1>4, <1>5, <1>7
  <2>2. PICK j \in Nat : j = (pos + 1) - a
    <3>1. (pos + 1) - a \in Nat  BY <1>4, <1>5
    <3> QED  BY <3>1
  <2>3. j \in 1..(to - a) /\ a + j = pos + 1 /\ (to - a) - j = Result
    BY <1>4, <1>5, <2>1, <2>2
  <2>4. BlobAt(a, j, to)  BY <1>4, <2>3 DEF BlobAt
  <2>5. ValueAt(tag.wt, a, to)  BY <1>3, <2>3, <2>4 DEF ValueAt
  <2>6. Keep(SubSeq(buf, (a + j) + 1, to), to)
    <3>1. pos + 2 = (a + j) + 1  BY <1>5, <2>3
    <3> QED  BY <1>7, <3>1
  <2> HIDE DEF to
  <2>7. Grammar!ValueOf(tag.wt, SubSeq(buf, a + 1, to)) = SubSeq(buf, (a + j) + 1, to)
    BY <1>3, <1>5, <2>1, <2>3, <2>4, ValueOfIs
  <2> QED  BY <1>1, <1>2, <2>1, <2>5, <2>6, <2>7, TakesField
<1> QED  BY <1>6, <1>7 DEF Blob

LEMMA FixedFollows == ASSUME WireInv, Fixed PROVE Grammar!TakeField \/ Grammar!Fail
<1> DEFINE count == IF stage = "long" THEN LongBytes ELSE ShortBytes
<1>1. stage \in {"long", "short"}
      /\ \/ pos + count > Len(buf) /\ Fail("truncated")
         \/ pos + count <= Len(buf) /\ Keep(LittleEndian(count), pos + count)
  BY DEF Fixed
<1>2. count \in Nat  BY WidthsAssumption
<1>3. PICK a \in Nat, k \in Nat \ {0} :
        /\ a = from + k /\ Tagged(k) /\ tag.wt \in {0, 1, 2, 5} /\ stage = StageOf[tag.wt]
        /\ pos = a
  BY <1>1, ValueStage
<1>4. /\ stage = "long" => count = LongBytes
      /\ stage = "short" => count = ShortBytes
  OBVIOUS
<1> HIDE DEF count
<1>5. \/ tag.wt = 1 /\ count = LongBytes
      \/ tag.wt = 5 /\ count = ShortBytes
  <2>1. \A wt \in {0, 1, 2, 5} : /\ StageOf[wt] = "long" => wt = 1
                                 /\ StageOf[wt] = "short" => wt = 5
    BY DEF StageOf
  <2>2. CASE stage = "long"  BY <1>3, <1>4, <2>1, <2>2
  <2>3. CASE stage = "short"  BY <1>3, <1>4, <2>1, <2>3
  <2> QED  BY <1>1, <2>2, <2>3
<1>6. from \in Nat /\ pos \in Nat /\ Len(buf) \in Nat /\ buf \in Seq(Byte)
  BY Positions, InvFacts
<1>7. ASSUME pos + count > Len(buf), Fail("truncated") PROVE Grammar!Fail
  <2>1. ASSUME NEW l \in Nat \ {0}, NEW to \in Nat, to <= Len(buf), FieldAt(from, l, to)
        PROVE  FALSE
    <3>1. l = k
      <4>1. VarintAt(from, from + l) /\ VarintAt(from, from + k)  BY <1>3, <2>1 DEF FieldAt, Tagged
      <4>2. from + l \in Nat /\ from + k \in Nat  BY <1>6
      <4>3. from + l = from + k  BY <1>6, <4>1, <4>2, VarintUnique
      <4> QED  BY <1>6, <4>3
    <3>2. ValueAt(tag.wt, a, to)  BY <1>3, <2>1, <3>1 DEF FieldAt, Tagged
    <3>3. to - a = count  BY <1>5, <3>2 DEF ValueAt
    <3> QED  BY <1>2, <1>3, <1>6, <1>7, <2>1, <3>3
  <2> QED  BY <1>1, <1>7, <2>1, FailsGrammar
<1>8. ASSUME pos + count <= Len(buf), Keep(LittleEndian(count), pos + count)
      PROVE  Grammar!TakeField
  <2>1. PICK to \in Nat : to = pos + count  BY <1>2, <1>6
  <2>2. to <= Len(buf) /\ a <= to /\ to - a = count  BY <1>2, <1>3, <1>6, <1>8, <2>1
  <2>3. ValueAt(tag.wt, a, to)  BY <1>5, <2>2 DEF ValueAt
  <2>4. Keep(Digits(a, to, GroupBits + 1), to)
    <3>1. LittleEndian(count) = Digits(pos, pos + count, GroupBits + 1)
      BY <1>2, <1>6, <1>8, LittleEndianIs
    <3> QED  BY <1>3, <1>8, <2>1, <3>1
  <2>5. Grammar!ValueOf(tag.wt, SubSeq(buf, a + 1, to)) = Digits(a, to, GroupBits + 1)
    BY <1>5, <1>6, <2>2, ValueOfIs
  <2> QED  BY <1>1, <1>3, <2>2, <2>3, <2>4, <2>5, TakesField
<1> QED  BY <1>1, <1>7, <1>8

LEMMA StepFollows == WireInv /\ [Next]_vars => [Grammar!Next]_(Grammar!vars)
<1> SUFFICES ASSUME WireInv, [Next]_vars PROVE Grammar!Next \/ UNCHANGED Grammar!vars  OBVIOUS
<1>1. CASE Done
  <2>1. /\ stage = "next" /\ pos >= Len(buf) /\ stage' = "end"
        /\ buf' = buf /\ from' = from /\ fields' = fields
    BY <1>1 DEF Done
  <2>2. from = Len(buf)
    <3>1. pos = from  BY <2>1 DEF WireInv
    <3> QED  BY <2>1, <3>1, Positions
  <2> QED  BY <2>1, <2>2 DEF Grammar!Next, Grammar!End
<1>2. CASE VarintTruncated
  <2>1. InVarint /\ pos >= Len(buf) /\ Fail("truncated")  BY <1>2 DEF VarintTruncated
  <2> QED  BY <2>1, VarintFails DEF Grammar!Next
<1>3. CASE VarintOverflow
  <2>1. /\ InVarint /\ Fail("overflow")
        /\ \/ pos < Len(buf) /\ B >= More /\ shift + GroupBits >= WordBits
           \/ pos < Len(buf) /\ B \in 2..(More - 1) /\ shift = WordBits - 1
    BY <1>3 DEF VarintOverflow
  <2> QED  BY <2>1, VarintFails DEF Grammar!Next
<1>4. CASE TagRefused  BY <1>4, TagFails DEF Grammar!Next
<1>5. CASE Varint  BY <1>5, VarintTakes DEF Grammar!Next
<1>6. CASE Blob  BY <1>6, BlobFollows DEF Grammar!Next
<1>7. CASE Fixed  BY <1>7, FixedFollows DEF Grammar!Next
<1>8. CASE StartTag
  <2>1. stage = "next" /\ stage' = "tag" /\ UNCHANGED <<buf, from, fields>>  BY <1>8 DEF StartTag
  <2> QED  BY <2>1 DEF Grammar!vars
<1>9. CASE VarintByte
  <2>1. UNCHANGED <<buf, from, fields, stage>>  BY <1>9 DEF VarintByte
  <2> QED  BY <2>1 DEF Grammar!vars
<1>10. CASE Tag
  <2>1. stage = "tag" /\ stage' \in {"varint", "long", "length", "short"}
        /\ UNCHANGED <<buf, from, fields>>
    BY <1>10 DEF Tag, StageOf
  <2> QED  BY <2>1 DEF Grammar!vars
<1>11. CASE UNCHANGED vars
  <2>1. UNCHANGED <<buf, from, fields, stage>>  BY <1>11 DEF vars
  <2> QED  BY <2>1 DEF Grammar!vars
<1> QED
  BY <1>1, <1>2, <1>3, <1>4, <1>5, <1>6, <1>7, <1>8, <1>9, <1>10, <1>11 DEF Next, Ended

LEMMA InitFollows == Init => Grammar!Init
BY DEF Init, Grammar!Init

\* The safety half of Wire.FollowsGrammar: protowire's Decoder takes off the front of
\* a message, field by field, what the grammar says is there, keeps the numbers and
\* payloads those bytes spell, ends only when nothing is left, and gives up only
\* where no field begins.  That it does come to an end is for TLC.
THEOREM ReaderFollowsGrammar == Spec => Grammar!Init /\ [][Grammar!Next]_(Grammar!vars)
BY InitType, InitFollows, WireStep, StepFollows, PTL DEF Spec

-----------------------------------------------------------------------------
(* What the demo exporter wrote, read back.                                *)

\* the bytes of each field of a message, and the field itself unless it is a zero
Pieces(message) == [i \in DOMAIN message |-> Write(message[i])]
Items(message) ==
  [i \in DOMAIN message |-> IF message[i].wt = 0 /\ message[i].val = 0 THEN << >> ELSE <<message[i]>>]

\* what is written of the first k fields, and what is to be read
WrittenTo(message, k) == FlattenSeq(SubSeq(Pieces(message), 1, k))
KeptTo(message, k) == FlattenSeq(SubSeq(Items(message), 1, k))

FieldsOf(message) == {message[i] : i \in DOMAIN message}

LEMMA MessageParts ==
  ASSUME NEW message \in Messages
  PROVE  /\ Len(message) \in Nat /\ DOMAIN message = 1..Len(message)
         /\ Pieces(message) \in Seq(Seq(Byte)) /\ Len(Pieces(message)) = Len(message)
         /\ Items(message) \in Seq(Seq(FieldsOf(message))) /\ Len(Items(message)) = Len(message)
         /\ FlattenSeq(Pieces(message)) = Encode(message)
         /\ FlattenSeq(Items(message)) = Kept(message)
<1> DEFINE n == Len(message)
           S == FieldsOf(message)
           p == Pieces(message)
           q == Items(message)
<1>1. n \in Nat /\ message = [i \in 1..n |-> message[i]]  BY MessagesAssumption
<1>2. DOMAIN message = 1..n  BY <1>1
<1>3. FlattenSeq(p) = Encode(message) /\ FlattenSeq(q) = Kept(message)
  BY DEF Pieces, Items, Encode, Kept
<1>4. p \in [1..n -> Seq(Byte)]  BY <1>2, WriteType DEF Pieces
<1>5. q \in [1..n -> Seq(S)]
  <2> SUFFICES ASSUME NEW i \in 1..n
               PROVE  (IF message[i].wt = 0 /\ message[i].val = 0 THEN << >> ELSE <<message[i]>>)
                        \in Seq(S)
    BY <1>2 DEF Items
  <2>1. message[i] \in S  BY <1>2 DEF FieldsOf
  <2> HIDE DEF S
  <2>2. << >> \in Seq(S)  BY EmptySeq
  <2>3. <<message[i]>> \in Seq(S)
    <3>1. \A x \in S : <<x>> \in Seq(S)  OBVIOUS
    <3> QED  BY <2>1, <3>1
  <2> QED  BY <2>2, <2>3
<1> HIDE DEF n, S, p, q
<1>6. p \in Seq(Seq(Byte)) /\ q \in Seq(Seq(S))  BY <1>1, <1>4, <1>5, FunctionIsSeq
<1>7. Len(p) = n
  <2>1. DOMAIN p = 1..n /\ DOMAIN p = 1..Len(p) /\ Len(p) \in Nat  BY <1>4, <1>6, LenProperties
  <2> QED  BY <1>1, <2>1
<1>8. Len(q) = n
  <2>1. DOMAIN q = 1..n /\ DOMAIN q = 1..Len(q) /\ Len(q) \in Nat  BY <1>5, <1>6, LenProperties
  <2> QED  BY <1>1, <2>1
<1> QED  BY <1>1, <1>2, <1>3, <1>6, <1>7, <1>8 DEF n, S, p, q

\* field by field: a zero adds nothing, anything else its bytes and itself
LEMMA NextPiece ==
  ASSUME NEW message \in Messages, NEW k \in 0..(Len(message) - 1)
  PROVE  /\ k + 1 \in DOMAIN message /\ k + 1 \in 0..Len(message)
         /\ WrittenTo(message, k) \in Seq(Byte)
         /\ KeptTo(message, k) \in Seq(FieldsOf(message))
         /\ Write(message[k + 1]) \in Seq(Byte)
         /\ WrittenTo(message, k + 1) = WrittenTo(message, k) \o Write(message[k + 1])
         /\ IsZero(message[k + 1]) =>
              /\ WrittenTo(message, k + 1) = WrittenTo(message, k)
              /\ KeptTo(message, k + 1) = KeptTo(message, k)
         /\ ~IsZero(message[k + 1]) =>
              KeptTo(message, k + 1) = Append(KeptTo(message, k), message[k + 1])
<1> DEFINE n == Len(message)
           S == FieldsOf(message)
           p == Pieces(message)
           q == Items(message)
           f == message[k + 1]
           u == WrittenTo(message, k)
           t == KeptTo(message, k)
<1>1. /\ n \in Nat /\ DOMAIN message = 1..n
      /\ p \in Seq(Seq(Byte)) /\ Len(p) = n /\ q \in Seq(Seq(S)) /\ Len(q) = n
  BY MessageParts
<1>2. k + 1 \in 1..n /\ k + 1 \in 0..n /\ k \in 0..n  BY <1>1
<1>3. p[k + 1] = Write(f)  BY <1>1, <1>2 DEF Pieces
<1>4. q[k + 1] = IF IsZero(f) THEN << >> ELSE <<f>>  BY <1>1, <1>2 DEF Items, IsZero
<1>5. f \in S  BY <1>1, <1>2 DEF FieldsOf
<1>6. Write(f) \in Seq(Byte)  BY <1>1, <1>2, WriteType
<1>7. WrittenTo(message, k + 1) = u \o Write(f) /\ KeptTo(message, k + 1) = t \o q[k + 1]
  <2> HIDE DEF p, q
  <2>1. FlattenSeq(SubSeq(p, 1, k + 1)) = FlattenSeq(SubSeq(p, 1, k)) \o p[k + 1]
    BY <1>1, FlattenStep
  <2>2. FlattenSeq(SubSeq(q, 1, k + 1)) = FlattenSeq(SubSeq(q, 1, k)) \o q[k + 1]
    BY <1>1, FlattenStep
  <2> QED  BY <1>3, <2>1, <2>2 DEF WrittenTo, KeptTo, p, q
<1>8. u \in Seq(Byte) /\ t \in Seq(S)
  <2> HIDE DEF p, q, S
  <2>1. SubSeq(p, 1, k) \in Seq(Seq(Byte)) /\ SubSeq(q, 1, k) \in Seq(Seq(S))
    BY <1>1, <1>2, SubHead
  <2>2. FlattenSeq(SubSeq(p, 1, k)) \in Seq(Byte) /\ FlattenSeq(SubSeq(q, 1, k)) \in Seq(S)
    BY <2>1, FlattenType
  <2> QED  BY <2>2 DEF WrittenTo, KeptTo, p, q
<1>9. IsZero(f) => Write(f) = << >>  BY DEF IsZero, Write
<1> HIDE DEF S, u, t, f, q
<1>10. u \o << >> = u /\ t \o << >> = t  BY <1>8, ConcatEmptySeq
<1>11. t \o <<f>> = Append(t, f)  BY <1>5, <1>8, AppendIsConcat
<1>12. IsZero(f) => WrittenTo(message, k + 1) = u /\ KeptTo(message, k + 1) = t
  BY <1>4, <1>7, <1>9, <1>10
<1>13. ~IsZero(f) => KeptTo(message, k + 1) = Append(t, f)  BY <1>4, <1>7, <1>11
<1> QED  BY <1>1, <1>2, <1>6, <1>7, <1>8, <1>12, <1>13 DEF S, u, t, f

\* what is written of the first fields comes first, and so does what is read
LEMMA FirstPieces ==
  ASSUME NEW message \in Messages, NEW k \in 0..Len(message)
  PROVE  /\ Len(WrittenTo(message, k)) <= Len(Encode(message))
         /\ SubSeq(Encode(message), 1, Len(WrittenTo(message, k))) = WrittenTo(message, k)
         /\ IsPrefix(KeptTo(message, k), Kept(message))
         /\ k = Len(message) => /\ WrittenTo(message, k) = Encode(message)
                                /\ KeptTo(message, k) = Kept(message)
<1> DEFINE n == Len(message)
           S == FieldsOf(message)
           p == Pieces(message)
           q == Items(message)
           u == WrittenTo(message, k)
           t == KeptTo(message, k)
<1>1. /\ n \in Nat /\ p \in Seq(Seq(Byte)) /\ Len(p) = n /\ q \in Seq(Seq(S)) /\ Len(q) = n
      /\ FlattenSeq(p) = Encode(message) /\ FlattenSeq(q) = Kept(message)
  BY MessageParts
<1>2. k \in 0..Len(p) /\ k \in 0..Len(q)  BY <1>1
<1> HIDE DEF p, q, S
<1>3. SubSeq(p, 1, k) \in Seq(Seq(Byte)) /\ SubSeq(q, 1, k) \in Seq(Seq(S))  BY <1>1, <1>2, SubHead
<1>4. u \in Seq(Byte) /\ t \in Seq(S)
  <2>1. FlattenSeq(SubSeq(p, 1, k)) \in Seq(Byte) /\ FlattenSeq(SubSeq(q, 1, k)) \in Seq(S)
    BY <1>3, FlattenType
  <2> QED  BY <2>1 DEF WrittenTo, KeptTo, p, q
<1>5. PICK rest \in Seq(Byte) : Encode(message) = u \o rest
  <2>1. \E rest \in Seq(Byte) : FlattenSeq(p) = FlattenSeq(SubSeq(p, 1, k)) \o rest
    BY <1>1, <1>2, FlattenSplit
  <2> QED  BY <1>1, <2>1 DEF WrittenTo, p
<1>6. PICK more \in Seq(S) : Kept(message) = t \o more
  <2>1. \E more \in Seq(S) : FlattenSeq(q) = FlattenSeq(SubSeq(q, 1, k)) \o more
    BY <1>1, <1>2, FlattenSplit
  <2> QED  BY <1>1, <2>1 DEF KeptTo, q
<1>7. SubSeq(p, 1, n) = p /\ SubSeq(q, 1, n) = q  BY <1>1, SubSeqFull
<1>8. k = n => u = Encode(message) /\ t = Kept(message)
  BY <1>1, <1>7 DEF WrittenTo, KeptTo, p, q
<1> HIDE DEF u, t
<1>9. Len(u \o rest) = Len(u) + Len(rest) /\ SubSeq(u \o rest, 1, Len(u)) = u
  BY <1>4, ConcatParts
<1>10. Len(t \o more) = Len(t) + Len(more) /\ SubSeq(t \o more, 1, Len(t)) = t
  BY <1>4, ConcatParts
<1>11. Len(u) \in Nat /\ Len(rest) \in Nat /\ Len(t) \in Nat /\ Len(more) \in Nat  BY <1>4, LenProperties
<1>12. SubSeq(t, 1, Len(t)) = t  BY <1>4, SubSeqFull
<1>13. IsPrefix(t, Kept(message))  BY <1>6, <1>10, <1>11, <1>12 DEF IsPrefix
<1>14. Len(u) <= Len(Encode(message)) /\ SubSeq(Encode(message), 1, Len(u)) = u
  BY <1>5, <1>9, <1>11
<1> QED  BY <1>8, <1>13, <1>14 DEF u, t

LEMMA EndOfHead ==
  ASSUME NEW T, NEW w \in Seq(T), NEW a \in Nat, NEW b \in Nat, a <= b, b <= Len(w)
  PROVE  SubSeq(SubSeq(w, 1, b), a + 1, b) = SubSeq(w, a + 1, b)
<1>1. 0 \in Nat /\ 0 <= b /\ b <= b - 0 /\ 0 + a = a /\ 0 + b = b /\ 0 + 1 = 1  OBVIOUS
<1>2. SubSeq(SubSeq(w, 0 + 1, b), a + 1, b) = SubSeq(w, (0 + a) + 1, 0 + b)
  BY <1>1, SubOfSub
<1> QED  BY <1>1, <1>2

LEMMA HeadOfEnd ==
  ASSUME NEW T, NEW w \in Seq(T), NEW a \in Nat, NEW x \in Nat, NEW y \in Nat,
         a <= x, x <= y, y <= Len(w)
  PROVE  SubSeq(SubSeq(w, a + 1, y), 1, x - a) = SubSeq(w, a + 1, x)
<1>1. 0 \in Nat /\ x - a \in Nat /\ a <= y /\ 0 <= x - a /\ x - a <= y - a
  OBVIOUS
<1>2. a + 0 = a /\ 0 + 1 = 1 /\ a + (x - a) = x  OBVIOUS
<1>3. SubSeq(SubSeq(w, a + 1, y), 0 + 1, x - a) = SubSeq(w, (a + 0) + 1, a + (x - a))
  BY <1>1, SubOfSub
<1> QED  BY <1>2, <1>3

\* the bytes behind a, up to b, are those of a field
IsPiece(message, f, a, b) ==
  /\ a \in Nat /\ b \in Nat /\ a < b /\ b <= Len(Encode(message))
  /\ \E j \in 1..(b - a) :
       /\ Grammar!IsField(SubSeq(Encode(message), a + 1, b), j)
       /\ Grammar!FieldOf(SubSeq(Encode(message), a + 1, b), j) = f

\* the bytes of one field lie behind those of the fields before it
LEMMA PieceAt ==
  ASSUME NEW message \in Messages, NEW k \in 0..(Len(message) - 1),
         ~IsZero(message[k + 1]),
         NEW a, a = Len(WrittenTo(message, k)), NEW b, b = Len(WrittenTo(message, k + 1))
  PROVE  IsPiece(message, message[k + 1], a, b)
<1> DEFINE f == message[k + 1]
           u == WrittenTo(message, k)
           w == Write(f)
           e == Encode(message)
<1>1. /\ k + 1 \in DOMAIN message /\ k + 1 \in 0..Len(message)
      /\ u \in Seq(Byte) /\ w \in Seq(Byte) /\ WrittenTo(message, k + 1) = u \o w
  BY NextPiece
<1>2. PICK j \in 1..Len(w) : Grammar!IsField(w, j) /\ Grammar!FieldOf(w, j) = f
  BY <1>1, WriteRead
<1>3. b <= Len(e) /\ SubSeq(e, 1, b) = u \o w  BY <1>1, FirstPieces
<1>4. e \in Seq(Byte)  BY EncodeType
<1> HIDE DEF u, w, e, f
<1>5. Len(u \o w) = Len(u) + Len(w) /\ SubSeq(u \o w, Len(u) + 1, Len(u) + Len(w)) = w
  BY <1>1, ConcatParts
<1>6. a \in Nat /\ Len(w) \in Nat /\ a = Len(u) /\ b = a + Len(w)
  BY <1>1, <1>5, LenProperties DEF u
<1>7. a \in Nat /\ b \in Nat /\ a < b /\ b - a = Len(w)  BY <1>2, <1>6
<1>8. SubSeq(e, a + 1, b) = w
  <2>1. a <= b  BY <1>7
  <2>2. SubSeq(SubSeq(e, 1, b), a + 1, b) = SubSeq(e, a + 1, b)
    BY <1>3, <1>4, <1>7, <2>1, EndOfHead
  <2>3. SubSeq(u \o w, a + 1, b) = w  BY <1>5, <1>6
  <2> QED  BY <1>3, <2>2, <2>3
<1>9. j \in 1..(b - a)  BY <1>2, <1>7
<1> QED  BY <1>2, <1>3, <1>7, <1>8, <1>9 DEF IsPiece, f, e

\* fields that are read one more after the other spell one piece more
LEMMA EncodeAppend ==
  ASSUME NEW S, NEW s \in Seq(S), NEW f \in S, \A x \in S : Write(x) \in Seq(Byte)
  PROVE  Encode(Append(s, f)) = Encode(s) \o Write(f)
<1> DEFINE n == Len(s)
           p == [i \in DOMAIN s |-> Write(s[i])]
           q == [i \in DOMAIN Append(s, f) |-> Write(Append(s, f)[i])]
<1>1. /\ n \in Nat /\ DOMAIN s = 1..n /\ \A i \in 1..n : s[i] \in S
  BY LenProperties, ElementOfSeq
<1>2. /\ Append(s, f) \in Seq(S) /\ Len(Append(s, f)) = n + 1
      /\ \A i \in 1..n : Append(s, f)[i] = s[i]
      /\ Append(s, f)[n + 1] = f
  BY AppendProperties
<1>3. DOMAIN Append(s, f) = 1..(n + 1)  BY <1>2, LenProperties
<1>4. p \in [1..n -> Seq(Byte)]  BY <1>1
<1>5. \A i \in 1..(n + 1) : i \in 1..n \/ i = n + 1  BY <1>1
<1>6. q \in [1..(n + 1) -> Seq(Byte)] /\ q[n + 1] = Write(f) /\ \A i \in 1..n : q[i] = p[i]
  <2>1. \A i \in 1..(n + 1) : Append(s, f)[i] \in S  BY <1>1, <1>2, <1>5
  <2>2. q \in [1..(n + 1) -> Seq(Byte)]  BY <1>3, <2>1
  <2>3. n + 1 \in 1..(n + 1) /\ 1..n \subseteq 1..(n + 1)  BY <1>1
  <2>4. q[n + 1] = Write(f)  BY <1>2, <1>3, <2>3
  <2>5. \A i \in 1..n : q[i] = p[i]  BY <1>1, <1>2, <1>3, <2>3
  <2> QED  BY <2>2, <2>4, <2>5
<1>7. Encode(s) = FlattenSeq(p) /\ Encode(Append(s, f)) = FlattenSeq(q)  BY DEF Encode
<1> HIDE DEF p, q, n
<1>8. p \in Seq(Seq(Byte)) /\ q \in Seq(Seq(Byte))  BY <1>1, <1>4, <1>6, FunctionIsSeq
<1>9. Len(p) = n /\ Len(q) = n + 1
  <2>1. DOMAIN p = 1..Len(p) /\ Len(p) \in Nat /\ DOMAIN q = 1..Len(q) /\ Len(q) \in Nat
    BY <1>8, LenProperties
  <2> QED  BY <1>1, <1>4, <1>6, <2>1
<1>10. n \in 0..(Len(q) - 1) /\ n \in 0..Len(q)  BY <1>1, <1>9
<1>11. FlattenSeq(SubSeq(q, 1, n + 1)) = FlattenSeq(SubSeq(q, 1, n)) \o q[n + 1]
  BY <1>8, <1>10, FlattenStep
<1>12. SubSeq(q, 1, n + 1) = q  BY <1>8, <1>9, SubSeqFull
<1>13. SubSeq(q, 1, n) = p
  <2>1. /\ SubSeq(q, 1, n) \in Seq(Seq(Byte)) /\ Len(SubSeq(q, 1, n)) = n
        /\ \A i \in 1..n : SubSeq(q, 1, n)[i] = q[i]
    BY <1>8, <1>10, SubHead
  <2> QED  BY <1>6, <1>8, <1>9, <2>1, SeqEqual
<1> QED  BY <1>6, <1>7, <1>11, <1>12, <1>13

\* the fields read are the first k of the message, and end where the reader is
ReadTo(k) ==
  /\ from = Len(WrittenTo(sent, k))
  /\ fields = KeptTo(sent, k)
  /\ Encode(fields) = WrittenTo(sent, k)

SentInv ==
  /\ cut \in Int
  /\ cut >= 0 =>
       /\ sent \in Messages /\ cut \in 0..Len(Encode(sent))
       /\ buf = SubSeq(Encode(sent), 1, Len(Encode(sent)) - cut)
       /\ \E k \in 0..Len(sent) : ReadTo(k)
       /\ stage = "failed" => cut > 0 /\ err = "truncated"

LEMMA SentFacts ==
  ASSUME SentInv, cut >= 0
  PROVE  /\ sent \in Messages /\ Encode(sent) \in Seq(Byte)
         /\ Len(Encode(sent)) \in Nat /\ cut \in Nat
         /\ Len(buf) \in Nat /\ Len(buf) = Len(Encode(sent)) - cut
         /\ buf = SubSeq(Encode(sent), 1, Len(buf)) /\ Len(buf) \in 0..Len(Encode(sent))
         /\ \A a \in Nat : \A b \in Nat : a <= b /\ b <= Len(buf) =>
              SubSeq(buf, a + 1, b) = SubSeq(Encode(sent), a + 1, b)
<1> DEFINE e == Encode(sent)
           n == Len(e) - cut
<1>1. sent \in Messages /\ cut \in 0..Len(e) /\ buf = SubSeq(e, 1, n)  BY DEF SentInv
<1>2. e \in Seq(Byte)  BY <1>1, EncodeType
<1> HIDE DEF e
<1>3. Len(e) \in Nat /\ cut \in Nat /\ n \in 0..Len(e) /\ n \in Nat  BY <1>1, <1>2, LenProperties
<1>4. Len(buf) = n
  <2> HIDE DEF n
  <2> QED  BY <1>1, <1>2, <1>3, SubHead
<1>5. \A a \in Nat : \A b \in Nat : a <= b /\ b <= n =>
        SubSeq(buf, a + 1, b) = SubSeq(e, a + 1, b)
  <2> SUFFICES ASSUME NEW a \in Nat, NEW b \in Nat, a <= b, b <= n
               PROVE  SubSeq(buf, a + 1, b) = SubSeq(e, a + 1, b)
    OBVIOUS
  <2> HIDE DEF n
  <2>1. 0 \in Nat /\ 0 <= n /\ n <= Len(e) /\ b <= n - 0 /\ 0 + a = a /\ 0 + b = b /\ 0 + 1 = 1
        /\ (0 + a) + 1 = a + 1
    BY <1>3
  <2>2. SubSeq(SubSeq(e, 0 + 1, n), a + 1, b) = SubSeq(e, (0 + a) + 1, 0 + b)
    BY <1>2, <1>3, <2>1, SubOfSub
  <2> QED  BY <1>1, <2>1, <2>2
<1> QED  BY <1>1, <1>2, <1>3, <1>4, <1>5 DEF e

\* the fields read that are not followed by a zero
LEMMA LastRead ==
  ASSUME SentInv, cut >= 0
  PROVE  \E k \in 0..Len(sent) :
           ReadTo(k) /\ (k # Len(sent) => k \in 0..(Len(sent) - 1) /\ ~IsZero(sent[k + 1]))
<1> DEFINE K == {k \in 0..Len(sent) : ReadTo(k)}
<1>1. sent \in Messages /\ \E k \in 0..Len(sent) : ReadTo(k)  BY DEF SentInv
<1>2. Len(sent) \in Nat  BY <1>1, MessageParts
<1>3. K # {} /\ K \subseteq Int /\ IsFiniteSet(K)
  <2>1. IsFiniteSet(0..Len(sent))  BY <1>2, FS_Interval
  <2>2. K \subseteq 0..Len(sent)  OBVIOUS
  <2>3. K \subseteq Int /\ K # {}  BY <1>1
  <2> HIDE DEF K
  <2> QED  BY <2>1, <2>2, <2>3, FS_Subset
<1>4. PICK k \in K : \A j \in K : k >= j
  <2> HIDE DEF K
  <2> QED  BY <1>3, GreatestExists
<1>5. ASSUME k # Len(sent) PROVE k \in 0..(Len(sent) - 1) /\ ~IsZero(sent[k + 1])
  <2>1. k \in 0..(Len(sent) - 1)  BY <1>2, <1>5
  <2> SUFFICES ASSUME IsZero(sent[k + 1]) PROVE FALSE  BY <2>1
  <2>2. /\ k + 1 \in 0..Len(sent)
        /\ WrittenTo(sent, k + 1) = WrittenTo(sent, k)
        /\ KeptTo(sent, k + 1) = KeptTo(sent, k)
    BY <1>1, <2>1, NextPiece
  <2>3. ReadTo(k)  OBVIOUS
  <2>4. ReadTo(k + 1)  BY <2>2, <2>3 DEF ReadTo
  <2>5. k + 1 \in K  BY <2>2, <2>4
  <2> HIDE DEF K
  <2> QED  BY <1>4, <2>1, <2>5
<1> QED  BY <1>4, <1>5

\* while bytes are left, a field of the message starts where the reader is
FieldFrom(k, b) ==
  /\ ReadTo(k)
  /\ b = Len(WrittenTo(sent, k + 1)) /\ from < b /\ b <= Len(Encode(sent))
  /\ \E j \in 1..(b - from) :
       /\ Grammar!IsField(SubSeq(Encode(sent), from + 1, b), j)
       /\ Grammar!FieldOf(SubSeq(Encode(sent), from + 1, b), j) = sent[k + 1]

LEMMA NextField ==
  ASSUME SentInv, cut >= 0, from \in Nat, from < Len(buf)
  PROVE  \E k \in 0..(Len(sent) - 1) : \E b \in Nat : ~IsZero(sent[k + 1]) /\ FieldFrom(k, b)
<1>1. /\ sent \in Messages /\ Len(Encode(sent)) \in Nat /\ Len(buf) \in Nat /\ cut \in Nat
      /\ Len(buf) = Len(Encode(sent)) - cut
  BY SentFacts
<1>2. PICK k \in 0..Len(sent) :
        ReadTo(k) /\ (k # Len(sent) => k \in 0..(Len(sent) - 1) /\ ~IsZero(sent[k + 1]))
  BY LastRead
<1>3. k # Len(sent)
  <2> SUFFICES ASSUME k = Len(sent) PROVE FALSE  OBVIOUS
  <2>1. WrittenTo(sent, k) = Encode(sent)  BY <1>1, FirstPieces
  <2>2. from = Len(Encode(sent))  BY <1>2, <2>1 DEF ReadTo
  <2> QED  BY <1>1, <2>2
<1>4. k \in 0..(Len(sent) - 1) /\ ~IsZero(sent[k + 1])  BY <1>2, <1>3
<1>5. PICK b : b = Len(WrittenTo(sent, k + 1))  OBVIOUS
<1>6. from = Len(WrittenTo(sent, k))  BY <1>2 DEF ReadTo
<1>7. IsPiece(sent, sent[k + 1], from, b)  BY <1>1, <1>4, <1>5, <1>6, PieceAt
<1>8. /\ b \in Nat /\ from < b /\ b <= Len(Encode(sent))
      /\ \E j \in 1..(b - from) :
           /\ Grammar!IsField(SubSeq(Encode(sent), from + 1, b), j)
           /\ Grammar!FieldOf(SubSeq(Encode(sent), from + 1, b), j) = sent[k + 1]
  BY <1>7 DEF IsPiece
<1>9. FieldFrom(k, b)  BY <1>2, <1>5, <1>8 DEF FieldFrom
<1> QED  BY <1>4, <1>8, <1>9

\* two fields that start at the same byte are the same
LEMMA OneField ==
  ASSUME NEW e \in Seq(Byte), NEW a \in Nat, NEW b \in Nat, NEW c \in Nat,
         a < b, b <= Len(e), a < c, c <= Len(e),
         NEW i \in 1..(b - a), Grammar!IsField(SubSeq(e, a + 1, b), i),
         NEW j \in 1..(c - a), Grammar!IsField(SubSeq(e, a + 1, c), j)
  PROVE  b = c /\ i = j
<1>1. ASSUME NEW x \in Nat, NEW y \in Nat, a < x, x <= y, y <= Len(e),
             NEW k \in 1..(x - a), Grammar!IsField(SubSeq(e, a + 1, x), k),
             NEW l \in 1..(y - a), Grammar!IsField(SubSeq(e, a + 1, y), l)
      PROVE  x = y /\ k = l
  <2> DEFINE w == SubSeq(e, a + 1, y)
             m == x - a
  <2>1. w \in Seq(Byte) /\ Len(w) = y - a
    <3>1. a <= y /\ y <= Len(e)  BY <1>1
    <3> QED  BY <3>1, SubPart
  <2>2. SubSeq(w, 1, m) = SubSeq(e, a + 1, x)
    <3>1. a <= x /\ x <= y /\ y <= Len(e)  BY <1>1
    <3> QED  BY <3>1, HeadOfEnd
  <2>3. m \in 0..Len(w) /\ l \in 1..Len(w) /\ k \in 1..m  BY <1>1, <2>1
  <2>4. Grammar!IsField(w, l) /\ Grammar!IsField(SubSeq(w, 1, m), k)  BY <1>1, <2>2
  <2> HIDE DEF w, m
  <2>5. m = Len(w) /\ k = l  BY <2>1, <2>3, <2>4, IsFieldUnique
  <2> QED  BY <1>1, <2>1, <2>5 DEF m
<1>2. CASE b <= c  BY <1>1, <1>2
<1>3. CASE c <= b
  <2>1. c = b /\ j = i  BY <1>1, <1>3
  <2> QED  BY <2>1
<1> QED  BY <1>2, <1>3

LEMMA OneVarint ==
  ASSUME NEW e \in Seq(Byte), NEW a \in Nat, NEW b \in Nat, NEW c \in Nat,
         a <= b, b <= Len(e), a <= c, c <= Len(e),
         Grammar!IsVarint(SubSeq(e, a + 1, b)), Grammar!IsVarint(SubSeq(e, a + 1, c))
  PROVE  b = c
<1>1. ASSUME NEW x \in Nat, NEW y \in Nat, a <= x, x <= y, y <= Len(e),
             Grammar!IsVarint(SubSeq(e, a + 1, x)), Grammar!IsVarint(SubSeq(e, a + 1, y))
      PROVE  x = y
  <2> DEFINE w == SubSeq(e, a + 1, y)
             m == x - a
  <2>1. w \in Seq(Byte) /\ Len(w) = y - a
    <3>1. a <= y /\ y <= Len(e)  BY <1>1
    <3> QED  BY <3>1, SubPart
  <2>2. SubSeq(w, 1, m) = SubSeq(e, a + 1, x)
    <3>1. a <= x /\ x <= y /\ y <= Len(e)  BY <1>1
    <3> QED  BY <3>1, HeadOfEnd
  <2>3. m \in 0..Len(w) /\ Len(w) \in 0..Len(w)  BY <1>1, <2>1
  <2>4. SubSeq(w, 1, Len(w)) = w  BY <2>1, SubSeqFull
  <2>5. Grammar!IsVarint(SubSeq(w, 1, Len(w))) /\ Grammar!IsVarint(SubSeq(w, 1, m))
    BY <1>1, <2>2, <2>4
  <2> HIDE DEF w, m
  <2>6. m = Len(w)  BY <2>1, <2>3, <2>5, IsVarintUnique
  <2> QED  BY <1>1, <2>1, <2>6 DEF m
<1>2. CASE b <= c  BY <1>1, <1>2
<1>3. CASE c <= b
  <2>1. c = b  BY <1>1, <1>3
  <2> QED  BY <2>1
<1> QED  BY <1>2, <1>3

\* a field begins with a tag; a varint or a length may follow
FieldTag(e, a, j) == Grammar!Number(SubSeq(e, a + 1, a + j), GroupBits)

LEMMA FieldParts ==
  ASSUME NEW e \in Seq(Byte), NEW a \in Nat, NEW b \in Nat, a < b, b <= Len(e),
         NEW j \in 1..(b - a), Grammar!IsField(SubSeq(e, a + 1, b), j)
  PROVE  /\ a + j \in Nat /\ a < a + j /\ a + j <= b
         /\ Grammar!IsVarint(SubSeq(e, a + 1, a + j))
         /\ FieldTag(e, a, j) >= 8 /\ FieldTag(e, a, j) % 8 \in {0, 1, 2, 5}
         /\ FieldTag(e, a, j) % 8 = 0 => Grammar!IsVarint(SubSeq(e, (a + j) + 1, b))
         /\ FieldTag(e, a, j) % 8 = 2 =>
              \E x \in 1..(b - (a + j)) : Grammar!IsVarint(SubSeq(e, (a + j) + 1, (a + j) + x))
<1> DEFINE s == SubSeq(e, a + 1, b)
           r == Grammar!Rest(s, j)
           wt == FieldTag(e, a, j) % 8
<1>1. /\ a + j \in Nat /\ a < a + j /\ a + j <= b /\ a <= b /\ 0 \in Nat /\ j \in Nat /\ j <= b - a /\ 0 <= j
      /\ b - a \in Nat /\ 0 + 1 = 1 /\ a + 0 = a /\ a + (b - a) = b
  OBVIOUS
<1>2. s \in Seq(Byte) /\ Len(s) = b - a  BY <1>1, SubPart
<1>3. SubSeq(s, 1, j) = SubSeq(e, a + 1, a + j)
  <2>1. SubSeq(s, 0 + 1, j) = SubSeq(e, (a + 0) + 1, a + j)  BY <1>1, SubOfSub
  <2> QED  BY <1>1, <2>1
<1>4. r = SubSeq(e, (a + j) + 1, b)
  <2>1. SubSeq(s, j + 1, b - a) = SubSeq(e, (a + j) + 1, a + (b - a))  BY <1>1, SubOfSub
  <2> QED  BY <1>1, <1>2, <2>1 DEF Grammar!Rest
<1> HIDE DEF s, r
<1>5. r \in Seq(Byte) /\ Len(r) = b - (a + j)
  <2> DEFINE d == a + j
  <2>1. d \in Nat /\ d <= b  BY <1>1
  <2>2. r = SubSeq(e, d + 1, b)  BY <1>4
  <2> HIDE DEF d
  <2>3. SubSeq(e, d + 1, b) \in Seq(Byte) /\ Len(SubSeq(e, d + 1, b)) = b - d
    BY <2>1, SubPart
  <2> QED  BY <2>2, <2>3 DEF d
<1>6. /\ Grammar!IsVarint(SubSeq(e, a + 1, a + j)) /\ FieldTag(e, a, j) >= 8
      /\ Grammar!IsValue(wt, r)
  BY <1>3 DEF Grammar!IsField, FieldTag, s, r
<1> HIDE DEF wt
<1>7. wt \in {0, 1, 2, 5} /\ (wt = 0 => Grammar!IsVarint(r))  BY <1>6 DEF Grammar!IsValue
<1>8. ASSUME wt = 2
      PROVE  \E x \in 1..(b - (a + j)) : Grammar!IsVarint(SubSeq(e, (a + j) + 1, (a + j) + x))
  <2>1. PICK x \in 1..Len(r) : Grammar!IsBlob(r, x)  BY <1>6, <1>8 DEF Grammar!IsValue
  <2>2. Grammar!IsVarint(SubSeq(r, 1, x))  BY <2>1 DEF Grammar!IsBlob
  <2>3. SubSeq(r, 1, x) = SubSeq(e, (a + j) + 1, (a + j) + x)
    <3> DEFINE d == a + j
    <3>1. d \in Nat /\ d <= b /\ x \in Nat /\ 0 <= x /\ x <= b - d /\ d + 0 = d  BY <1>1, <1>5, <2>1
    <3>2. r = SubSeq(e, d + 1, b)  BY <1>4
    <3> HIDE DEF d
    <3>3. SubSeq(SubSeq(e, d + 1, b), 0 + 1, x) = SubSeq(e, (d + 0) + 1, d + x)
      BY <1>1, <3>1, SubOfSub
    <3> QED  BY <1>1, <3>1, <3>2, <3>3 DEF d
  <2>4. x \in 1..(b - (a + j))  BY <1>5, <2>1
  <2> QED  BY <2>2, <2>3, <2>4
<1> QED  BY <1>1, <1>4, <1>6, <1>7, <1>8 DEF wt

\* the varint being read is one of the message's, cut short or not
VarintSent(a, c) ==
  /\ Reading(a) /\ a < c /\ c <= Len(Encode(sent))
  /\ Grammar!IsVarint(SubSeq(Encode(sent), a + 1, c))

LEMMA VarintFromSent ==
  ASSUME WireInv, SentInv, cut >= 0, InVarint
  PROVE  \E a \in Nat : \E c \in Nat :
           /\ VarintSent(a, c)
           /\ stage = "tag" =>
                /\ a = from
                /\ Grammar!Number(SubSeq(Encode(sent), a + 1, c), GroupBits) >= 8
                /\ Grammar!Number(SubSeq(Encode(sent), a + 1, c), GroupBits) % 8 \in {0, 1, 2, 5}
<1> DEFINE e == Encode(sent)
<1>1. /\ e \in Seq(Byte) /\ Len(e) \in Nat /\ Len(buf) \in Nat /\ Len(buf) <= Len(e)
      /\ \A a \in Nat : \A b \in Nat : a <= b /\ b <= Len(buf) =>
           SubSeq(buf, a + 1, b) = SubSeq(e, a + 1, b)
  BY SentFacts
<1>2. from \in Nat /\ pos \in Nat /\ pos <= Len(buf) /\ from <= pos /\ buf \in Seq(Byte)
  BY Positions, InvFacts
<1>3. from < Len(buf)  BY DEF WireInv, InVarint
<1>4. PICK b \in Nat : \E k \in 0..(Len(sent) - 1) : FieldFrom(k, b)  BY <1>2, <1>3, NextField
<1>5. from < b /\ b <= Len(e) /\ \E j \in 1..(b - from) : Grammar!IsField(SubSeq(e, from + 1, b), j)
  BY <1>4 DEF FieldFrom
<1>6. PICK j \in 1..(b - from) : Grammar!IsField(SubSeq(e, from + 1, b), j)  BY <1>5
<1> HIDE DEF e
<1>7. /\ from + j \in Nat /\ from < from + j /\ from + j <= b
      /\ Grammar!IsVarint(SubSeq(e, from + 1, from + j))
      /\ FieldTag(e, from, j) >= 8 /\ FieldTag(e, from, j) % 8 \in {0, 1, 2, 5}
      /\ FieldTag(e, from, j) % 8 = 0 => Grammar!IsVarint(SubSeq(e, (from + j) + 1, b))
      /\ FieldTag(e, from, j) % 8 = 2 =>
           \E x \in 1..(b - (from + j)) :
             Grammar!IsVarint(SubSeq(e, (from + j) + 1, (from + j) + x))
  BY <1>1, <1>2, <1>5, <1>6, FieldParts
<1>8. CASE stage = "tag"
  <2>1. Reading(from)  BY <1>8 DEF WireInv
  <2>2. VarintSent(from, from + j)  BY <1>1, <1>2, <1>5, <1>7, <2>1 DEF VarintSent, e
  <2> QED  BY <1>2, <1>7, <2>2 DEF FieldTag, e
<1>9. CASE stage \in {"varint", "length"}
  <2>1. PICK a \in Nat, k \in Nat \ {0} :
          /\ a = from + k /\ a <= pos /\ Tagged(k) /\ tag.wt \in {0, 1, 2, 5}
          /\ stage = StageOf[tag.wt] /\ Reading(a)
    BY <1>9, ValueStage
  <2>2. VarintAt(from, from + k) /\ tag.wt = TagAt(from, k) % 8  BY <2>1 DEF Tagged
  <2>3. from + k \in Nat /\ from <= from + k /\ from + k <= Len(buf)  BY <1>1, <1>2, <2>1
  <2>4. SubSeq(buf, from + 1, from + k) = SubSeq(e, from + 1, from + k)  BY <1>1, <1>2, <2>3
  <2>5. Grammar!IsVarint(SubSeq(e, from + 1, from + k))
    BY <1>2, <2>2, <2>3, <2>4, VarintIs
  <2>6. from + k = from + j
    <3>1. from + k <= Len(e)  BY <1>1, <2>3
    <3>2. from + j <= Len(e) /\ from <= from + j  BY <1>1, <1>2, <1>5, <1>7
    <3> DEFINE x == from + k
               y == from + j
    <3>3. /\ x \in Nat /\ y \in Nat /\ from <= x /\ x <= Len(e) /\ from <= y /\ y <= Len(e)
          /\ Grammar!IsVarint(SubSeq(e, from + 1, x)) /\ Grammar!IsVarint(SubSeq(e, from + 1, y))
      BY <1>7, <2>3, <2>5, <3>1, <3>2
    <3> HIDE DEF x, y
    <3>4. x = y  BY <1>1, <1>2, <3>3, OneVarint
    <3> QED  BY <3>4 DEF x, y
  <2>7. TagAt(from, k) = FieldTag(e, from, j)
    <3>1. Grammar!Number(SubSeq(buf, from + 1, from + k), GroupBits) = Digits(from, from + k, GroupBits)
      BY <1>2, <2>3, NumberIs
    <3> QED  BY <2>4, <2>6, <3>1 DEF TagAt, FieldTag
  <2>8. a = from + j /\ ~(stage = "tag")  BY <1>9, <2>1, <2>6
  <2>9. (stage = "varint" /\ tag.wt = 0) \/ (stage = "length" /\ tag.wt = 2)
    <3>1. \A wt \in {0, 1, 2, 5} :
            (StageOf[wt] = "varint" => wt = 0) /\ (StageOf[wt] = "length" => wt = 2)
      BY DEF StageOf
    <3> QED  BY <1>9, <2>1, <3>1
  <2>10. CASE tag.wt = 0
    <3>1. Grammar!IsVarint(SubSeq(e, a + 1, b))
      <4>1. FieldTag(e, from, j) % 8 = 0  BY <2>2, <2>7, <2>10
      <4>2. Grammar!IsVarint(SubSeq(e, (from + j) + 1, b))  BY <1>7, <4>1
      <4> QED  BY <2>8, <4>2
    <3>2. SubSeq(e, a + 1, b) # << >>
      <4> DEFINE s == SubSeq(e, a + 1, b)
      <4>1. Len(s) >= 1  BY <3>1 DEF Grammar!IsVarint
      <4> HIDE DEF s
      <4>2. s # << >>
        <5> SUFFICES ASSUME s = << >> PROVE FALSE  OBVIOUS
        <5> QED  BY <4>1, EmptySeq
      <4> QED  BY <4>2 DEF s
    <3>3. a # b
      <4> SUFFICES ASSUME a = b PROVE FALSE  OBVIOUS
      <4>1. SubSeq(e, a + 1, b) = << >>  BY SubSeqEmpty
      <4> QED  BY <3>2, <4>1
    <3>4. a < b  BY <1>7, <2>8, <3>3
    <3>5. VarintSent(a, b)  BY <1>5, <2>1, <3>1, <3>4 DEF VarintSent, e
    <3> QED  BY <2>8, <3>5
  <2>11. CASE tag.wt = 2
    <3>1. PICK x \in 1..(b - a) : Grammar!IsVarint(SubSeq(e, a + 1, a + x))
      BY <1>7, <2>2, <2>7, <2>8, <2>11
    <3>2. a + x \in Nat /\ a < a + x /\ a + x <= Len(e)  BY <1>1, <1>5
    <3>3. VarintSent(a, a + x)  BY <2>1, <3>1, <3>2 DEF VarintSent, e
    <3> QED  BY <2>8, <3>2, <3>3
  <2> QED  BY <2>9, <2>10, <2>11
<1> QED  BY <1>8, <1>9 DEF InVarint

\* no varint of a message is too long or too big
LEMMA NoOverflow ==
  ASSUME WireInv, SentInv, cut >= 0, VarintOverflow
  PROVE  FALSE
<1> DEFINE e == Encode(sent)
<1>1. /\ e \in Seq(Byte) /\ Len(e) \in Nat /\ Len(buf) \in Nat /\ Len(buf) <= Len(e)
      /\ buf = SubSeq(e, 1, Len(buf)) /\ Len(buf) \in 0..Len(e)
      /\ \A a \in Nat : \A b \in Nat : a <= b /\ b <= Len(buf) =>
           SubSeq(buf, a + 1, b) = SubSeq(e, a + 1, b)
  BY SentFacts
<1>2. /\ InVarint /\ pos < Len(buf)
      /\ \/ B >= More /\ shift + GroupBits >= WordBits
         \/ B \in 2..(More - 1) /\ shift = WordBits - 1
  BY DEF VarintOverflow
<1>3. pos \in Nat /\ buf \in Seq(Byte) /\ shift < WordBits  BY Positions, InvFacts
<1>4. PICK a \in Nat : \E c \in Nat : VarintSent(a, c)  BY <1>2, VarintFromSent
<1>5. PICK c \in Nat : VarintSent(a, c)  BY <1>4
<1>6. Reading(a) /\ a < c /\ c <= Len(e) /\ Grammar!IsVarint(SubSeq(e, a + 1, c))
  BY <1>5 DEF VarintSent
<1> HIDE DEF e
<1>7. ~\E b \in Nat : VarintAt(a, b)  BY <1>2, <1>3, <1>6, NoVarint
<1>8. CASE c <= Len(buf)
  <2>1. SubSeq(buf, a + 1, c) = SubSeq(e, a + 1, c)  BY <1>1, <1>6, <1>8
  <2>2. Grammar!IsVarint(SubSeq(buf, a + 1, c))
    <3>1. Grammar!IsVarint(SubSeq(e, a + 1, c))  BY <1>6
    <3> QED  BY <2>1, <3>1
  <2>3. VarintAt(a, c)
    <3>1. a <= c  BY <1>6
    <3> QED  BY <1>3, <1>8, <2>2, <3>1, VarintIs
  <2> QED  BY <1>7, <2>3
<1>9. CASE c > Len(buf)
  <2> DEFINE s == SubSeq(e, a + 1, c)
             i == (pos + 1) - a
  <2>1. Len(s) = c - a /\ DOMAIN s = 1..(c - a) /\ \A l \in 1..(c - a) : s[l] = e[a + l]
    <3>1. a <= c  BY <1>6
    <3> QED  BY <1>1, <1>6, <3>1, SubPart
  <2>2. a <= pos  BY <1>6 DEF Reading
  <2>3. i \in 1..(c - a) /\ i < c - a /\ a + i = pos + 1  BY <1>1, <1>2, <1>3, <1>9, <2>2
  <2>4. s[i] = B
    <3>1. buf[pos + 1] = e[pos + 1]
      <4>1. pos + 1 \in 1..Len(buf)  BY <1>1, <1>2, <1>3
      <4> QED  BY <1>1, <4>1, SubHead
    <3> QED  BY <2>1, <2>3, <3>1 DEF B
  <2> HIDE DEF s, i
  <2>5. Len(s) <= Grammar!MaxVarint /\ s[i] >= Grammar!More
    <3>1. /\ Len(s) \in 1..Grammar!MaxVarint
          /\ \A l \in DOMAIN s : s[l] >= Grammar!More <=> l < Len(s)
      BY <1>6 DEF Grammar!IsVarint, s
    <3>2. Grammar!MaxVarint \in Int  BY MaxVarintIs
    <3> QED  BY <2>1, <2>3, <3>1, <3>2
  <2>6. B >= More  BY <2>4, <2>5, SameWidths
  <2>7. pos - a < Grammar!MaxVarint - 1
    <3>1. c - a <= Grammar!MaxVarint /\ Grammar!MaxVarint \in Int  BY <2>1, <2>5, MaxVarintIs
    <3>2. (pos + 1) - a < c - a  BY <2>3 DEF i
    <3> QED  BY <1>3, <3>1, <3>2
  <2>8. shift + GroupBits < WordBits  BY <1>3, <1>6, <2>7, ReadingCount
  <2>9. shift \in Nat /\ GroupBits \in Nat /\ GroupBits > 1 /\ WordBits \in Nat /\ More \in Nat
    BY <1>3, <1>6, ReadingCount, WidthsType
  <2>10. ~(shift + GroupBits >= WordBits) /\ ~(shift = WordBits - 1)  BY <2>8, <2>9
  <2> QED  BY <1>2, <2>10
<1> QED  BY <1>1, <1>6, <1>8, <1>9

\* every tag of a message has a field number and a wire type the loop knows
LEMMA NoRefusal ==
  ASSUME WireInv, SentInv, cut >= 0, TagRefused
  PROVE  FALSE
<1> DEFINE e == Encode(sent)
<1>1. /\ e \in Seq(Byte) /\ Len(e) \in Nat /\ Len(buf) \in Nat /\ Len(buf) <= Len(e)
      /\ \A a \in Nat : \A b \in Nat : a <= b /\ b <= Len(buf) =>
           SubSeq(buf, a + 1, b) = SubSeq(e, a + 1, b)
  BY SentFacts
<1>2. stage = "tag" /\ Ends /\ InVarint  BY DEF TagRefused, InVarint
<1>3. \/ Result \div 8 = 0
      \/ Result \div 8 # 0 /\ Result % 8 \in {3, 4}
      \/ Result \div 8 # 0 /\ Result % 8 > 5
  BY DEF TagRefused
<1>4. from \in Nat /\ pos \in Nat /\ buf \in Seq(Byte)  BY Positions, InvFacts
<1>5. PICK a \in Nat : \E c \in Nat :
        /\ VarintSent(a, c)
        /\ stage = "tag" =>
             /\ a = from
             /\ Grammar!Number(SubSeq(Encode(sent), a + 1, c), GroupBits) >= 8
             /\ Grammar!Number(SubSeq(Encode(sent), a + 1, c), GroupBits) % 8 \in {0, 1, 2, 5}
  BY <1>2, VarintFromSent
<1>6. PICK c \in Nat :
        /\ VarintSent(a, c)
        /\ Grammar!Number(SubSeq(e, a + 1, c), GroupBits) >= 8
        /\ Grammar!Number(SubSeq(e, a + 1, c), GroupBits) % 8 \in {0, 1, 2, 5}
  BY <1>2, <1>5
<1>7. Reading(a) /\ a < c /\ c <= Len(e) /\ Grammar!IsVarint(SubSeq(e, a + 1, c))
  BY <1>6 DEF VarintSent
<1> HIDE DEF e
<1>8. /\ VarintAt(a, pos + 1) /\ Result = Digits(a, pos + 1, GroupBits)
      /\ Result \in Word /\ pos < Len(buf) /\ a <= pos
  BY <1>2, <1>7, VarintRead
<1>9. pos + 1 \in Nat /\ a <= pos + 1 /\ pos + 1 <= Len(buf) /\ pos + 1 <= Len(e)
  BY <1>1, <1>4, <1>8
<1> DEFINE d == pos + 1
<1>10. d \in Nat /\ a <= d /\ d <= Len(buf) /\ d <= Len(e) /\ VarintAt(a, d) /\ Result = Digits(a, d, GroupBits)
  BY <1>8, <1>9
<1> HIDE DEF d
<1>11. SubSeq(buf, a + 1, d) = SubSeq(e, a + 1, d)  BY <1>1, <1>10
<1>12. Grammar!IsVarint(SubSeq(e, a + 1, d))  BY <1>4, <1>10, <1>11, VarintIs
<1>13. a <= c  BY <1>7
<1>14. d = c  BY <1>1, <1>7, <1>10, <1>12, <1>13, OneVarint
<1>15. Grammar!Number(SubSeq(buf, a + 1, d), GroupBits) = Digits(a, d, GroupBits)
  BY <1>4, <1>10, NumberIs
<1>16. Result >= 8 /\ Result % 8 \in {0, 1, 2, 5}  BY <1>6, <1>10, <1>11, <1>14, <1>15
<1>17. Result \in Nat  BY <1>8, WidthsType DEF Word
<1>18. Result \div 8 # 0
  <2>1. \A x \in Nat : x >= 8 => x \div 8 # 0  OBVIOUS
  <2> QED  BY <1>16, <1>17, <2>1
<1>19. ~(Result % 8 \in {3, 4}) /\ ~(Result % 8 > 5)  BY <1>16
<1> QED  BY <1>3, <1>18, <1>19

LEMMA ReadToNext ==
  ASSUME sent' = sent, NEW k
  PROVE  ReadTo(k)' <=> /\ from' = Len(WrittenTo(sent, k))
                        /\ fields' = KeptTo(sent, k)
                        /\ Encode(fields)' = WrittenTo(sent, k)
<1>1. WrittenTo(sent, k)' = WrittenTo(sent, k)  BY DEF WrittenTo, Pieces
<1>2. KeptTo(sent, k)' = KeptTo(sent, k)  BY DEF KeptTo, Items
<1> QED  BY <1>1, <1>2 DEF ReadTo

\* the field the reader takes is the next one of the message
LEMMA SentTakes ==
  ASSUME WireInv, SentInv, cut >= 0, sent' = sent, Grammar!TakeField
  PROVE  \E k \in 0..Len(sent) : ReadTo(k)'
<1> DEFINE e == Encode(sent)
<1>1. /\ e \in Seq(Byte) /\ Len(e) \in Nat /\ Len(buf) \in Nat /\ Len(buf) <= Len(e)
      /\ sent \in Messages
      /\ \A a \in Nat : \A b \in Nat : a <= b /\ b <= Len(buf) =>
           SubSeq(buf, a + 1, b) = SubSeq(e, a + 1, b)
  BY SentFacts
<1>2. from \in Nat  BY Positions
<1>3. PICK to \in (from + 1)..Len(buf) : \E m \in 1..(to - from) :
        /\ Grammar!IsField(SubSeq(buf, from + 1, to), m)
        /\ fields' = Append(fields, Grammar!FieldOf(SubSeq(buf, from + 1, to), m))
        /\ from' = to
  BY DEF Grammar!TakeField
<1>4. to \in Nat /\ from < to /\ from <= to /\ to <= Len(buf) /\ to <= Len(e) /\ from < Len(buf)
  BY <1>1, <1>2, <1>3
<1>5. SubSeq(buf, from + 1, to) = SubSeq(e, from + 1, to)  BY <1>1, <1>2, <1>4
<1>6. PICK m \in 1..(to - from) :
        /\ Grammar!IsField(SubSeq(e, from + 1, to), m)
        /\ fields' = Append(fields, Grammar!FieldOf(SubSeq(e, from + 1, to), m))
        /\ from' = to
  BY <1>3, <1>5
<1>7. PICK k \in 0..(Len(sent) - 1) : \E b \in Nat : ~IsZero(sent[k + 1]) /\ FieldFrom(k, b)
  BY <1>2, <1>4, NextField
<1>8. PICK b \in Nat : ~IsZero(sent[k + 1]) /\ FieldFrom(k, b)  BY <1>7
<1>9. /\ ReadTo(k) /\ b = Len(WrittenTo(sent, k + 1)) /\ from < b /\ b <= Len(e)
      /\ \E j \in 1..(b - from) :
           /\ Grammar!IsField(SubSeq(e, from + 1, b), j)
           /\ Grammar!FieldOf(SubSeq(e, from + 1, b), j) = sent[k + 1]
  BY <1>8 DEF FieldFrom
<1>10. PICK j \in 1..(b - from) :
           /\ Grammar!IsField(SubSeq(e, from + 1, b), j)
           /\ Grammar!FieldOf(SubSeq(e, from + 1, b), j) = sent[k + 1]
  BY <1>9
<1> HIDE DEF e
<1>11. to = b /\ m = j
  <2>1. b \in Nat /\ from < b /\ b <= Len(e)  BY <1>9
  <2> QED  BY <1>1, <1>2, <1>4, <1>6, <1>10, <2>1, OneField, SMTT(20)
<1>12. from' = b /\ fields' = Append(fields, sent[k + 1])  BY <1>6, <1>10, <1>11
<1>13. /\ k + 1 \in DOMAIN sent /\ k + 1 \in 0..Len(sent)
       /\ KeptTo(sent, k) \in Seq(FieldsOf(sent))
       /\ WrittenTo(sent, k + 1) = WrittenTo(sent, k) \o Write(sent[k + 1])
       /\ KeptTo(sent, k + 1) = Append(KeptTo(sent, k), sent[k + 1])
  BY <1>1, <1>8, NextPiece
<1>14. fields = KeptTo(sent, k) /\ Encode(fields) = WrittenTo(sent, k)  BY <1>9 DEF ReadTo
<1>15. Encode(Append(fields, sent[k + 1])) = WrittenTo(sent, k + 1)
  <2> DEFINE S == FieldsOf(sent)
             f == sent[k + 1]
  <2>1. \A x \in S : Write(x) \in Seq(Byte)  BY <1>1, WriteType DEF FieldsOf
  <2>2. fields \in Seq(S) /\ f \in S  BY <1>13, <1>14 DEF FieldsOf
  <2> HIDE DEF S, f
  <2>3. Encode(Append(fields, f)) = Encode(fields) \o Write(f)  BY <2>1, <2>2, EncodeAppend
  <2> QED  BY <1>13, <1>14, <2>3 DEF f
<1>16. Encode(fields)' = Encode(Append(fields, sent[k + 1]))  BY <1>12 DEF Encode
<1>17. ReadTo(k + 1)'
  <2> DEFINE d == k + 1
  <2>1. /\ from' = Len(WrittenTo(sent, d)) /\ fields' = KeptTo(sent, d)
        /\ Encode(fields)' = WrittenTo(sent, d)
    BY <1>9, <1>12, <1>13, <1>14, <1>15, <1>16
  <2> QED  BY <2>1, ReadToNext
<1> QED  BY <1>13, <1>17

LEMMA InputStays == [Next]_vars => sent' = sent /\ cut' = cut /\ buf' = buf
<1> SUFFICES ASSUME [Next]_vars PROVE sent' = sent /\ cut' = cut /\ buf' = buf  OBVIOUS
<1>1. ASSUME NEW reason, Fail(reason) PROVE sent' = sent /\ cut' = cut /\ buf' = buf
  BY <1>1 DEF Fail
<1>2. ASSUME NEW val, NEW to, Keep(val, to) PROVE sent' = sent /\ cut' = cut /\ buf' = buf
  BY <1>2 DEF Keep
<1>3. CASE Done \/ StartTag \/ VarintByte  BY <1>3 DEF Done, StartTag, VarintByte
<1>4. CASE VarintTruncated \/ VarintOverflow  BY <1>1, <1>4 DEF VarintTruncated, VarintOverflow
<1>5. CASE Tag  BY <1>5 DEF Tag
<1>6. CASE TagRefused  BY <1>1, <1>6 DEF TagRefused
<1>7. CASE Varint  BY <1>2, <1>7 DEF Varint
<1>8. CASE Blob  BY <1>1, <1>2, <1>8 DEF Blob
<1>9. CASE Fixed  BY <1>1, <1>2, <1>9 DEF Fixed
<1>10. CASE UNCHANGED vars  BY <1>10 DEF vars
<1>11. CASE Ended  BY <1>10, <1>11 DEF Ended
<1> QED  BY <1>3, <1>4, <1>5, <1>6, <1>7, <1>8, <1>9, <1>10, <1>11 DEF Next

\* a step that fails does so for want of bytes, or refuses a varint or a tag
LEMMA Reasons ==
  ASSUME [Next]_vars, stage # "failed", stage' = "failed"
  PROVE  err' = "truncated" \/ VarintOverflow \/ TagRefused
<1>1. ASSUME Fail("truncated") PROVE err' = "truncated"  BY <1>1 DEF Fail
<1>2. ASSUME NEW val, NEW to, Keep(val, to) PROVE FALSE  BY <1>2 DEF Keep
<1>3. CASE Done \/ StartTag \/ VarintByte  BY <1>3 DEF Done, StartTag, VarintByte
<1>4. CASE VarintTruncated  BY <1>1, <1>4 DEF VarintTruncated
<1>5. CASE Tag
  <2>1. \A wt \in {0, 1, 2, 5} : StageOf[wt] # "failed"  BY DEF StageOf
  <2>2. DOMAIN StageOf = {0, 1, 2, 5}  BY DEF StageOf
  <2>3. Result % 8 \in {0, 1, 2, 5} /\ stage' = StageOf[Result % 8]  BY <1>5, <2>2 DEF Tag
  <2> QED  BY <2>1, <2>3
<1>6. CASE Varint  BY <1>2, <1>6 DEF Varint
<1>7. CASE Blob  BY <1>1, <1>2, <1>7 DEF Blob
<1>8. CASE Fixed  BY <1>1, <1>2, <1>8 DEF Fixed
<1>9. CASE UNCHANGED vars  BY <1>9 DEF vars
<1>10. CASE Ended  BY <1>9, <1>10 DEF Ended
<1> QED  BY <1>3, <1>4, <1>5, <1>6, <1>7, <1>8, <1>9, <1>10 DEF Next

LEMMA FailedStays == [Next]_vars /\ stage = "failed" => err' = err
<1> SUFFICES ASSUME [Next]_vars, stage = "failed" PROVE err' = err  OBVIOUS
<1>1. /\ ~Done /\ ~StartTag /\ ~VarintTruncated /\ ~VarintByte /\ ~VarintOverflow
      /\ ~Tag /\ ~TagRefused /\ ~Varint /\ ~Blob /\ ~Fixed
  BY DEF Done, StartTag, VarintTruncated, VarintByte, VarintOverflow, InVarint, Tag, TagRefused,
         Varint, Blob, Fixed
<1>2. UNCHANGED vars  BY <1>1 DEF Next, Ended
<1> QED  BY <1>2 DEF vars

\* a message written whole never fails
LEMMA NoFailure ==
  ASSUME WireInv, SentInv, cut >= 0, sent' = sent, [Next]_vars, stage # "failed", stage' = "failed"
  PROVE  cut > 0 /\ err' = "truncated" /\ from' = from /\ fields' = fields
<1> DEFINE e == Encode(sent)
<1>1. /\ e \in Seq(Byte) /\ Len(e) \in Nat /\ Len(buf) \in Nat /\ cut \in Nat
      /\ Len(buf) = Len(e) - cut
      /\ \A a \in Nat : \A b \in Nat : a <= b /\ b <= Len(buf) =>
           SubSeq(buf, a + 1, b) = SubSeq(e, a + 1, b)
  BY SentFacts
<1>2. from \in Nat  BY Positions
<1>3. err' = "truncated"  BY Reasons, NoOverflow, NoRefusal
<1>4. Grammar!Next \/ UNCHANGED Grammar!vars  BY StepFollows
<1>5. /\ (IF stage \in {"end", "failed"} THEN stage ELSE "reading") # "failed"
      /\ (IF stage \in {"end", "failed"} THEN stage ELSE "reading")' = "failed"
  OBVIOUS
<1>6. ~UNCHANGED Grammar!vars  BY <1>5 DEF Grammar!vars
<1>7. ~Grammar!TakeField  BY <1>5 DEF Grammar!TakeField
<1>8. ~Grammar!End  BY <1>5 DEF Grammar!End
<1>9. Grammar!Fail  BY <1>4, <1>6, <1>7, <1>8 DEF Grammar!Next
<1>10. /\ from < Len(buf) /\ from' = from /\ fields' = fields
       /\ ~\E to \in (from + 1)..Len(buf) : \E k \in 1..(to - from) :
             Grammar!IsField(SubSeq(buf, from + 1, to), k)
  BY <1>9 DEF Grammar!Fail
<1>11. cut # 0
  <2> SUFFICES ASSUME cut = 0 PROVE FALSE  OBVIOUS
  <2>1. PICK k \in 0..(Len(sent) - 1) : \E b \in Nat : ~IsZero(sent[k + 1]) /\ FieldFrom(k, b)
    BY <1>2, <1>10, NextField
  <2>2. PICK b \in Nat : FieldFrom(k, b)  BY <2>1
  <2>3. /\ from < b /\ b <= Len(e)
        /\ \E j \in 1..(b - from) : Grammar!IsField(SubSeq(e, from + 1, b), j)
    BY <2>2 DEF FieldFrom
  <2> HIDE DEF e
  <2>4. from <= b /\ b <= Len(buf) /\ b \in (from + 1)..Len(buf)  BY <1>1, <1>2, <2>3
  <2>5. SubSeq(buf, from + 1, b) = SubSeq(e, from + 1, b)  BY <1>1, <1>2, <2>4
  <2> QED  BY <1>10, <2>3, <2>4, <2>5
<1> QED  BY <1>1, <1>3, <1>10, <1>11

LEMMA SentInit == Init => SentInv
<1>a. Init => cut \in Int
  <2> SUFFICES ASSUME Init PROVE cut \in Int  OBVIOUS
  <2>1. ASSUME sent \in Messages, cut \in 0..Len(Encode(sent)) PROVE cut \in Int
    <3>1. Encode(sent) \in Seq(Byte)  BY <2>1, EncodeType
    <3>2. Len(Encode(sent)) \in Nat  BY <3>1, LenProperties
    <3> QED  BY <2>1, <3>2
  <2>2. cut = -1 \/ (sent \in Messages /\ cut \in 0..Len(Encode(sent)))  BY DEF Init
  <2> QED  BY <2>1, <2>2
<1> SUFFICES ASSUME Init, cut >= 0
             PROVE  /\ sent \in Messages /\ cut \in 0..Len(Encode(sent))
                    /\ buf = SubSeq(Encode(sent), 1, Len(Encode(sent)) - cut)
                    /\ \E k \in 0..Len(sent) : ReadTo(k)
                    /\ stage = "failed" => cut > 0 /\ err = "truncated"
  BY <1>a DEF SentInv
<1>1. /\ sent \in Messages /\ cut \in 0..Len(Encode(sent))
      /\ buf = SubSeq(Encode(sent), 1, Len(Encode(sent)) - cut)
  <2>1. ~(cut = -1)  OBVIOUS
  <2> QED  BY <2>1 DEF Init
<1>2. stage = "next" /\ from = 0 /\ fields = << >>  BY DEF Init
<1>3. Len(sent) \in Nat  BY <1>1, MessageParts
<1>4. 0 \in Int /\ 1 \in Int /\ 0 < 1  OBVIOUS
<1>5. WrittenTo(sent, 0) = << >>
  <2>1. SubSeq(Pieces(sent), 1, 0) = << >>  BY <1>4, SubSeqEmpty
  <2> QED  BY <2>1, FlattenEmpty DEF WrittenTo
<1>6. KeptTo(sent, 0) = << >>
  <2>1. SubSeq(Items(sent), 1, 0) = << >>  BY <1>4, SubSeqEmpty
  <2> QED  BY <2>1, FlattenEmpty DEF KeptTo
<1>7. Encode(fields) = << >>
  <2> DEFINE p == [i \in DOMAIN fields |-> Write(fields[i])]
  <2>1. p = << >>  BY <1>2
  <2>2. Encode(fields) = FlattenSeq(p)  BY DEF Encode
  <2> QED  BY <2>1, <2>2, FlattenEmpty
<1>8. Len(<< >>) = 0  BY EmptySeq
<1>9. ReadTo(0)  BY <1>2, <1>5, <1>6, <1>7, <1>8 DEF ReadTo
<1>10. 0 \in 0..Len(sent)  BY <1>3
<1> QED  BY <1>1, <1>2, <1>9, <1>10

LEMMA SentStep == WireInv /\ SentInv /\ [Next]_vars => SentInv'
<1>a. WireInv /\ SentInv /\ [Next]_vars => cut' \in Int  BY InputStays DEF SentInv
<1> SUFFICES ASSUME WireInv, SentInv, [Next]_vars, cut' >= 0
             PROVE  /\ sent' \in Messages /\ cut' \in 0..Len(Encode(sent)')
                    /\ buf' = SubSeq(Encode(sent)', 1, Len(Encode(sent)') - cut')
                    /\ \E k \in 0..Len(sent') : ReadTo(k)'
                    /\ stage' = "failed" => cut' > 0 /\ err' = "truncated"
  BY <1>a DEF SentInv
<1>1. sent' = sent /\ cut' = cut /\ buf' = buf  BY InputStays
<1>2. /\ cut >= 0 /\ sent \in Messages /\ cut \in 0..Len(Encode(sent))
      /\ buf = SubSeq(Encode(sent), 1, Len(Encode(sent)) - cut)
      /\ \E k \in 0..Len(sent) : ReadTo(k)
      /\ stage = "failed" => cut > 0 /\ err = "truncated"
  BY <1>1 DEF SentInv
<1>3. Encode(sent)' = Encode(sent)  BY <1>1 DEF Encode
<1>4. ASSUME from' = from, fields' = fields PROVE \E k \in 0..Len(sent) : ReadTo(k)'
  <2>1. PICK k \in 0..Len(sent) : ReadTo(k)  BY <1>2
  <2>2. Encode(fields)' = Encode(fields)  BY <1>4 DEF Encode
  <2>3. ReadTo(k)'  BY <1>1, <1>4, <2>1, <2>2, ReadToNext DEF ReadTo
  <2> QED  BY <2>3
<1>5. \E k \in 0..Len(sent) : ReadTo(k)'
  <2>1. CASE Grammar!TakeField  BY <1>1, <1>2, <2>1, SentTakes
  <2>2. CASE Grammar!End  BY <1>4, <2>2 DEF Grammar!End
  <2>3. CASE Grammar!Fail  BY <1>4, <2>3 DEF Grammar!Fail
  <2>4. CASE UNCHANGED Grammar!vars  BY <1>4, <2>4 DEF Grammar!vars
  <2>5. Grammar!Next \/ UNCHANGED Grammar!vars  BY StepFollows
  <2> QED  BY <2>1, <2>2, <2>3, <2>4, <2>5 DEF Grammar!Next
<1>6. stage' = "failed" => cut > 0 /\ err' = "truncated"
  <2>1. CASE stage = "failed"
    <3>1. err' = err  BY <2>1, FailedStays
    <3> QED  BY <1>2, <2>1, <3>1
  <2>2. CASE stage # "failed"  BY <1>1, <1>2, <2>2, NoFailure
  <2> QED  BY <2>1, <2>2
<1> QED  BY <1>1, <1>2, <1>3, <1>5, <1>6

LEMMA ReadWhole ==
  ASSUME WireInv, SentInv
  PROVE  RoundTrip
<1> SUFFICES ASSUME cut = 0, stage \in {"end", "failed"}
             PROVE  stage = "end" /\ fields = Kept(sent)
  BY DEF RoundTrip
<1>1. sent \in Messages /\ Len(buf) = Len(Encode(sent))
  <2>1. cut >= 0  OBVIOUS
  <2> QED  BY <2>1, SentFacts
<1>2. stage = "end"  BY DEF SentInv
<1>3. from = Len(Encode(sent))  BY <1>1, <1>2 DEF WireInv
<1>4. cut >= 0  OBVIOUS
<1>5. PICK k \in 0..Len(sent) :
        ReadTo(k) /\ (k # Len(sent) => k \in 0..(Len(sent) - 1) /\ ~IsZero(sent[k + 1]))
  BY <1>4, LastRead
<1>6. k = Len(sent)
  <2> SUFFICES ASSUME k # Len(sent) PROVE FALSE  OBVIOUS
  <2>1. k \in 0..(Len(sent) - 1) /\ ~IsZero(sent[k + 1])  BY <1>5
  <2>2. PICK a : a = Len(WrittenTo(sent, k))  OBVIOUS
  <2>3. PICK b : b = Len(WrittenTo(sent, k + 1))  OBVIOUS
  <2>4. IsPiece(sent, sent[k + 1], a, b)  BY <1>1, <2>1, <2>2, <2>3, PieceAt
  <2>5. a \in Nat /\ b \in Nat /\ a < b /\ b <= Len(Encode(sent))  BY <2>4 DEF IsPiece
  <2>6. a = Len(Encode(sent))  BY <1>3, <1>5, <2>2 DEF ReadTo
  <2> QED  BY <2>5, <2>6
<1>7. fields = KeptTo(sent, k)  BY <1>5 DEF ReadTo
<1>8. KeptTo(sent, k) = Kept(sent)  BY <1>1, <1>6, FirstPieces
<1> QED  BY <1>2, <1>7, <1>8

LEMMA ReadCut ==
  ASSUME WireInv, SentInv
  PROVE  CutIsTruncated
<1> SUFFICES ASSUME cut > 0
             PROVE  /\ IsPrefix(fields, Kept(sent))
                    /\ stage = "failed" => err = "truncated"
                    /\ stage = "end" => Encode(fields) = buf
  BY DEF CutIsTruncated
<1>1. cut >= 0
  <2>1. cut \in Int  BY DEF SentInv
  <2> QED  BY <2>1
<1>2. /\ sent \in Messages /\ buf = SubSeq(Encode(sent), 1, Len(buf))
  BY <1>1, SentFacts
<1>3. PICK k \in 0..Len(sent) : ReadTo(k)  BY <1>1 DEF SentInv
<1>4. /\ from = Len(WrittenTo(sent, k)) /\ fields = KeptTo(sent, k)
      /\ Encode(fields) = WrittenTo(sent, k)
  BY <1>3 DEF ReadTo
<1>5. /\ SubSeq(Encode(sent), 1, Len(WrittenTo(sent, k))) = WrittenTo(sent, k)
      /\ IsPrefix(KeptTo(sent, k), Kept(sent))
  BY <1>2, FirstPieces
<1>6. IsPrefix(fields, Kept(sent))  BY <1>4, <1>5
<1>7. stage = "failed" => err = "truncated"  BY <1>1 DEF SentInv
<1>8. stage = "end" => Encode(fields) = buf  BY <1>2, <1>4, <1>5 DEF WireInv
<1> QED  BY <1>6, <1>7, <1>8

LEMMA SentHolds == Spec => [](WireInv /\ SentInv)
<1>1. Init => WireInv /\ SentInv  BY InitType, SentInit
<1>2. WireInv /\ SentInv /\ [Next]_vars => (WireInv /\ SentInv)'  BY WireStep, SentStep
<1> QED  BY <1>1, <1>2, PTL DEF Spec

\* The demo exporter's writer and protowire's reader agree, for every list of
\* messages, every width of bytes and words: a message written whole is read to
\* its end and gives back the fields that were written, but for the zeros.
THEOREM RoundTrips == Spec => []RoundTrip
<1>1. WireInv /\ SentInv => RoundTrip  BY ReadWhole
<1> QED  BY <1>1, SentHolds, PTL

\* ErrTruncated: however many bytes a message lost at its end, the fields read are
\* the first of those written, a failure is "truncated" and nothing else, and
\* what ends without one had been cut between two fields.
THEOREM CutsAreTruncated == Spec => []CutIsTruncated
<1>1. WireInv /\ SentInv => CutIsTruncated  BY ReadCut
<1> QED  BY <1>1, SentHolds, PTL

====
