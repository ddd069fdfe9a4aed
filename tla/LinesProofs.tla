---------------------------- MODULE LinesProofs ----------------------------
(***************************************************************************)
(* Theorems about Lines, for every set of requests and command lines, and  *)
(* about Duration, for every duration, every base of the digits and every  *)
(* length of a minute that two digits can count.                           *)
(***************************************************************************)
EXTENDS Lines, DataLemmas

-----------------------------------------------------------------------------
(* Durations.                                                              *)

Units == {"ns", "us", "ms", "s", "m", "h"}

LEMMA TenToIs ==
  TenTo(0) = 1 /\ TenTo(1) = Ten /\ TenTo(2) = Ten * Ten
<1>1. ~(1 = 0) /\ ~(2 = 0) /\ ~(2 = 1)  OBVIOUS
<1> QED  BY <1>1 DEF TenTo

\* each unit is some of the one below it
LEMMA NanosAre ==
  /\ DOMAIN Nanos = Units
  /\ Kilo \in Nat /\ Kilo > 1 /\ Kilo = Ten * (Ten * Ten)
  /\ Nanos["ns"] = 1 /\ Nanos["us"] = Kilo * 1
  /\ Nanos["ms"] = Kilo * Nanos["us"] /\ Nanos["s"] = Kilo * Nanos["ms"]
  /\ Nanos["m"] = Sixty * Nanos["s"] /\ Nanos["h"] = Sixty * Nanos["m"]
  /\ \A u \in Units : Nanos[u] \in Nat \ {0}
<1>1. Ten \in Nat /\ Ten > 1 /\ Sixty \in Nat /\ Sixty > 1
  <2>1. Ten \in Nat /\ Ten > 1  BY DigitsAssumption
  <2>2. \A x \in Nat : x * x \in Nat  OBVIOUS
  <2> QED  BY <2>1, <2>2, DigitsAssumption
<1>2. \A x, y \in Nat : x * y \in Nat /\ (x > 1 /\ y > 0 => x * y > y)  OBVIOUS
<1>3. Kilo = Ten * (Ten * Ten)
  BY TenToIs DEF Kilo
<1>4. Ten * Ten \in Nat /\ Ten * Ten > Ten  BY <1>1, <1>2
<1>5. Kilo \in Nat /\ Kilo > Ten * Ten  BY <1>1, <1>2, <1>3, <1>4
<1>6. Kilo > 1  BY <1>1, <1>4, <1>5
<1> DEFINE K == Kilo
           M == Kilo * Kilo
           G == Kilo * Kilo * Kilo
<1>7. M \in Nat /\ M > 0 /\ M = K * K  BY <1>2, <1>5, <1>6
<1>8. G = K * M
  <2>1. \A x \in Nat : x * x * x = x * (x * x)  OBVIOUS
  <2> QED  BY <1>5, <2>1
<1>9. DOMAIN Nanos = Units  BY DEF Nanos, Units
<1>10. /\ Nanos["ns"] = 1 /\ Nanos["us"] = K /\ Nanos["ms"] = M /\ Nanos["s"] = G
       /\ Nanos["m"] = Sixty * G /\ Nanos["h"] = Sixty * (Sixty * G)
  BY DEF Nanos
<1> HIDE DEF K, M, G
<1>11. K \in Nat /\ K > 1  BY <1>5, <1>6 DEF K
<1>12. G \in Nat /\ G > 0  BY <1>2, <1>7, <1>8, <1>11
<1>13. Sixty * G \in Nat /\ Sixty * G > 0  BY <1>1, <1>2, <1>12
<1>14. Sixty * (Sixty * G) \in Nat /\ Sixty * (Sixty * G) > 0  BY <1>1, <1>2, <1>13
<1>15. \A u \in Units : Nanos[u] \in Nat \ {0}
  BY <1>7, <1>10, <1>11, <1>12, <1>13, <1>14 DEF Units
<1>16. K = K * 1  BY <1>11
<1> QED  BY <1>3, <1>7, <1>8, <1>9, <1>10, <1>11, <1>15, <1>16 DEF K

LEMMA NanosGrow ==
  /\ Nanos["ns"] < Nanos["us"] /\ Nanos["us"] < Nanos["ms"] /\ Nanos["ms"] < Nanos["s"]
  /\ Nanos["s"] < Nanos["m"] /\ Nanos["m"] < Nanos["h"]
<1>1. \A x, y \in Nat : x > 1 /\ y > 0 => y < x * y  OBVIOUS
<1>2. Sixty \in Nat /\ Sixty > 1
  <2>1. \A x \in Nat : x * x \in Nat  OBVIOUS
  <2> QED  BY <2>1, DigitsAssumption
<1>3. /\ Nanos["ns"] = 1 /\ Nanos["us"] \in Nat /\ Nanos["us"] > 0 /\ Nanos["ms"] \in Nat
      /\ Nanos["ms"] > 0 /\ Nanos["s"] \in Nat /\ Nanos["s"] > 0 /\ Nanos["m"] \in Nat
      /\ Nanos["m"] > 0
  BY NanosAre DEF Units
<1>4. Kilo \in Nat /\ Kilo > 1  BY NanosAre
<1>5. Nanos["ns"] < Nanos["us"]  BY <1>4, NanosAre
<1>6. Nanos["us"] < Nanos["ms"]  BY <1>1, <1>3, <1>4, NanosAre
<1>7. Nanos["ms"] < Nanos["s"]  BY <1>1, <1>3, <1>4, NanosAre
<1>8. Nanos["s"] < Nanos["m"]  BY <1>1, <1>2, <1>3, NanosAre
<1>9. Nanos["m"] < Nanos["h"]  BY <1>1, <1>2, <1>3, NanosAre
<1> QED  BY <1>5, <1>6, <1>7, <1>8, <1>9

\* the unit and what it says of the size
InUnit(u, ns) ==
  CASE u = "ns" -> ns < Nanos["us"]
    [] u = "us" -> Nanos["us"] <= ns /\ ns < Nanos["ms"]
    [] u = "ms" -> Nanos["ms"] <= ns /\ ns < Nanos["s"]
    [] u = "s" -> Nanos["s"] <= ns /\ ns < Nanos["m"]
    [] u = "m" -> Nanos["m"] <= ns /\ ns < Nanos["h"]
    [] u = "h" -> Nanos["h"] <= ns

LEMMA UnitIs == ASSUME NEW ns \in Nat PROVE Unit(ns) \in Units /\ InUnit(Unit(ns), ns)
<1> DEFINE P(u) == /\ ns >= Nanos[u] \/ u = "ns"
                   /\ \A w \in Units : ns >= Nanos[w] => Nanos[w] <= Nanos[u]
<1>1. /\ Nanos["ns"] \in Nat /\ Nanos["us"] \in Nat /\ Nanos["ms"] \in Nat
      /\ Nanos["s"] \in Nat /\ Nanos["m"] \in Nat /\ Nanos["h"] \in Nat
  BY NanosAre DEF Units
<1>2. /\ Nanos["ns"] < Nanos["us"] /\ Nanos["us"] < Nanos["ms"] /\ Nanos["ms"] < Nanos["s"]
      /\ Nanos["s"] < Nanos["m"] /\ Nanos["m"] < Nanos["h"]
  BY NanosGrow
<1>3. \E u \in Units : InUnit(u, ns)
  <2>1. CASE ns < Nanos["us"]
    <3>1. InUnit("ns", ns)  BY <2>1 DEF InUnit
    <3> QED  BY <3>1 DEF Units
  <2>2. CASE Nanos["us"] <= ns /\ ns < Nanos["ms"]
    <3>1. InUnit("us", ns)  BY <2>2 DEF InUnit
    <3> QED  BY <3>1 DEF Units
  <2>3. CASE Nanos["ms"] <= ns /\ ns < Nanos["s"]
    <3>1. InUnit("ms", ns)  BY <2>3 DEF InUnit
    <3> QED  BY <3>1 DEF Units
  <2>4. CASE Nanos["s"] <= ns /\ ns < Nanos["m"]
    <3>1. InUnit("s", ns)  BY <2>4 DEF InUnit
    <3> QED  BY <3>1 DEF Units
  <2>5. CASE Nanos["m"] <= ns /\ ns < Nanos["h"]
    <3>1. InUnit("m", ns)  BY <2>5 DEF InUnit
    <3> QED  BY <3>1 DEF Units
  <2>6. CASE Nanos["h"] <= ns
    <3>1. InUnit("h", ns)  BY <2>6 DEF InUnit
    <3> QED  BY <3>1 DEF Units
  <2> QED  BY <1>1, <2>1, <2>2, <2>3, <2>4, <2>5, <2>6
<1>4. ASSUME NEW u \in Units, InUnit(u, ns) PROVE P(u)
  <2>1. \/ u = "ns" /\ ns < Nanos["us"]
        \/ u = "us" /\ Nanos["us"] <= ns /\ ns < Nanos["ms"]
        \/ u = "ms" /\ Nanos["ms"] <= ns /\ ns < Nanos["s"]
        \/ u = "s" /\ Nanos["s"] <= ns /\ ns < Nanos["m"]
        \/ u = "m" /\ Nanos["m"] <= ns /\ ns < Nanos["h"]
        \/ u = "h" /\ Nanos["h"] <= ns
    BY <1>4 DEF InUnit, Units
  <2>2. ns >= Nanos[u] \/ u = "ns"  BY <1>1, <2>1
  <2>3. \A w \in Units : ns >= Nanos[w] => Nanos[w] <= Nanos[u]  BY <1>1, <1>2, <2>1 DEF Units
  <2> QED  BY <2>2, <2>3
<1>5. ASSUME NEW u \in Units, P(u) PROVE InUnit(u, ns)
  <2>1. CASE u = "ns"  BY <1>1, <1>2, <1>5, <2>1 DEF InUnit, Units
  <2>2. CASE u = "us"  BY <1>1, <1>2, <1>5, <2>2 DEF InUnit, Units
  <2>3. CASE u = "ms"  BY <1>1, <1>2, <1>5, <2>3 DEF InUnit, Units
  <2>4. CASE u = "s"  BY <1>1, <1>2, <1>5, <2>4 DEF InUnit, Units
  <2>5. CASE u = "m"  BY <1>1, <1>2, <1>5, <2>5 DEF InUnit, Units
  <2>6. CASE u = "h"  BY <1>1, <1>2, <1>5, <2>6 DEF InUnit, Units
  <2> QED  BY <2>1, <2>2, <2>3, <2>4, <2>5, <2>6 DEF Units
<1>6. Unit(ns) = CHOOSE u \in Units : P(u)  BY NanosAre DEF Unit
<1>7. \E u \in Units : P(u)  BY <1>3, <1>4
<1> HIDE DEF P
<1>8. Unit(ns) \in Units /\ P(Unit(ns))  BY <1>6, <1>7
<1> QED  BY <1>5, <1>8

-----------------------------------------------------------------------------
(* Digits of a unit.                                                       *)

\* t parts of a unit, g nanoseconds each: those that fit into the rest f
LEMMA Digits ==
  ASSUME NEW f \in Nat, NEW g \in Nat \ {0}, NEW t \in Nat \ {0}, f < t * g
  PROVE  \E d \in Nat : d = (f * t) \div (t * g) /\ d < t /\ d * g <= f /\ f < d * g + g
<1> DEFINE q == f \div g
           r == f % g
<1>1. q \in Nat /\ r \in 0..(g - 1) /\ f = q * g + r  BY DivMod
<1> HIDE DEF q, r
<1>2. r \in Nat /\ r < g  BY <1>1
<1>3. t * g \in Nat \ {0} /\ r * t \in Nat /\ q * g \in Nat
  <2>1. \A x, y \in Nat \ {0} : x * y \in Nat \ {0}  OBVIOUS
  <2>2. \A x, y \in Nat : x * y \in Nat  OBVIOUS
  <2> QED  BY <1>1, <1>2, <2>1, <2>2
<1>4. r * t < t * g
  <2>1. \A x, y, z \in Nat : x < y /\ z > 0 => x * z < z * y  OBVIOUS
  <2> QED  BY <1>2, <2>1
<1>5. f * t = q * (t * g) + r * t
  <2>1. \A x, y, z, w \in Nat : (x * y + w) * z = x * (z * y) + w * z  OBVIOUS
  <2> QED  BY <1>1, <1>2, <2>1
<1>6. (f * t) \div (t * g) = q  BY <1>1, <1>3, <1>4, <1>5, ModUnique
<1>7. q * g <= f /\ f < q * g + g  BY <1>1, <1>2, <1>3
<1>8. q < t
  <2>1. \A x, y, z \in Nat : x >= y => x * z >= y * z  OBVIOUS
  <2>2. q >= t => q * g >= t * g  BY <1>1, <2>1
  <2> QED  BY <1>1, <1>3, <1>7, <2>2
<1> QED  BY <1>1, <1>6, <1>7, <1>8

LEMMA ExactDiv == ASSUME NEW x \in Nat, NEW y \in Nat \ {0} PROVE (y * x) \div y = x
<1>1. y * x = x * y + 0 /\ x * y + 0 \in Nat
  <2>1. \A a, b \in Nat : a * b = b * a /\ a * b \in Nat  OBVIOUS
  <2> QED  BY <2>1
<1>2. (x * y + 0) \div y = x  BY ModUnique
<1> QED  BY <1>1, <1>2

\* what FormatDuration leaves of a unit with three digits
Rounded(text, ns, u) ==
  /\ text.unit = u /\ text.whole = ns \div Nanos[u]
  /\ Reads(text) <= ns /\ ns < Reads(text) + Precision(text)
  /\ Reads(text) > 0
  /\ text.digits \in {1, 2} => text.frac % Ten # 0 /\ text.frac < TenTo(text.digits)

\* the parts of a unit that is a thousand of another
LEMMA Parts ==
  ASSUME NEW u \in {"us", "ms", "s"}, NEW p \in 0..2
  PROVE  /\ TenTo(p) \in Nat \ {0}
         /\ Nanos[u] \div TenTo(p) \in Nat \ {0}
         /\ Nanos[u] = TenTo(p) * (Nanos[u] \div TenTo(p))
         /\ p = 2 => Nanos[u] \div Ten = Ten * (Nanos[u] \div TenTo(p))
<1>1. Ten \in Nat \ {0}  BY DigitsAssumption
<1>2. \A x, y \in Nat \ {0} : x * y \in Nat \ {0}  OBVIOUS
<1>3. PICK e \in Nat \ {0} : Nanos[u] = Kilo * e
  <2>1. CASE u = "us"  BY <2>1, NanosAre
  <2>2. CASE u = "ms"  BY <2>2, NanosAre DEF Units
  <2>3. CASE u = "s"  BY <2>3, NanosAre DEF Units
  <2> QED  BY <2>1, <2>2, <2>3
<1>4. PICK a : a = Ten * e  OBVIOUS
<1>5. PICK b : b = Ten * a  OBVIOUS
<1>6. a \in Nat \ {0} /\ b \in Nat \ {0}  BY <1>1, <1>2, <1>4, <1>5
<1>7. Nanos[u] = Ten * b
  <2>1. \A x, y \in Nat : (x * (x * x)) * y = x * (x * (x * y))  OBVIOUS
  <2>2. Kilo = Ten * (Ten * Ten)  BY NanosAre
  <2> QED  BY <1>1, <1>3, <1>4, <1>5, <2>1, <2>2
<1>8. Ten * b = (Ten * Ten) * a
  <2>1. \A x, y \in Nat : x * (x * y) = (x * x) * y  OBVIOUS
  <2> QED  BY <1>1, <1>5, <1>6, <2>1
<1>9. Ten * Ten \in Nat \ {0}  BY <1>1, <1>2
<1>10. (Ten * b) \div Ten = b  BY <1>1, <1>6, ExactDiv
<1>11. (Ten * b) \div (Ten * Ten) = a  BY <1>6, <1>8, <1>9, ExactDiv
<1>12. CASE p = 0
  <2>1. TenTo(p) = 1  BY <1>12, TenToIs
  <2>2. Nanos[u] \in Nat \ {0}  BY <1>1, <1>2, <1>6, <1>7
  <2>3. 1 * Nanos[u] = Nanos[u] /\ 1 \in Nat \ {0}  BY <2>2
  <2>4. (1 * Nanos[u]) \div 1 = Nanos[u]  BY <2>2, <2>3, ExactDiv
  <2> QED  BY <1>12, <2>1, <2>2, <2>3, <2>4
<1>13. CASE p = 1
  <2>1. TenTo(p) = Ten  BY <1>13, TenToIs
  <2>2. Nanos[u] \div TenTo(p) = b  BY <1>7, <1>10, <2>1
  <2>3. ~(p = 2)  BY <1>13
  <2> QED  BY <1>1, <1>6, <1>7, <2>1, <2>2, <2>3
<1>14. CASE p = 2
  <2>1. TenTo(p) = Ten * Ten  BY <1>14, TenToIs
  <2> QED  BY <1>5, <1>6, <1>7, <1>8, <1>9, <1>10, <1>11, <2>1
<1> QED  BY <1>12, <1>13, <1>14

LEMMA scaledIs ==
  ASSUME NEW ns \in Nat, NEW u \in {"us", "ms", "s"}, Nanos[u] <= ns
  PROVE  Rounded(scaled(ns, u), ns, u)
<1> DEFINE n == Nanos[u]
           w == ns \div n
           f == ns % n
           p == Places(w)
           t == TenTo(p)
           g == n \div t
           d == (f * t) \div n
           text == scaled(ns, u)
<1>1. Ten \in Nat \ {0} /\ Ten > 1  BY DigitsAssumption
<1>2. n \in Nat \ {0}  BY NanosAre DEF Units
<1>3. w \in Nat /\ f \in 0..(n - 1) /\ ns = w * n + f  BY <1>2, DivMod
<1>4. p \in 0..2  BY DEF Places
<1>5. t \in Nat \ {0} /\ g \in Nat \ {0} /\ n = t * g /\ (p = 2 => n \div Ten = Ten * g)
  BY <1>4, Parts
<1>6. /\ (p = 0 => t = 1) /\ (p = 1 => t = Ten) /\ (p = 2 => t = Ten * Ten)
  BY TenToIs
<1>7. text = CASE d = 0 -> DurationText(w, 0, 0, u)
               [] d # 0 /\ p = 2 /\ d % Ten = 0 -> DurationText(w, d \div Ten, 1, u)
               [] OTHER -> DurationText(w, d, p, u)
  BY DEF scaled
<1>8. w > 0
  <2> SUFFICES ASSUME w = 0 PROVE FALSE  BY <1>3
  <2>1. w * n = 0  BY <1>2
  <2> QED  BY <1>2, <1>3, <2>1
<1>9. u \in {"us", "ms", "s"} /\ ~(u = "ns") /\ ~(u = "m") /\ ~(u = "h")  OBVIOUS
<1>10. ASSUME NEW x, NEW y, NEW k, text = DurationText(w, x, k, u)
       PROVE  /\ text.unit = u /\ text.whole = w /\ text.frac = x /\ text.digits = k
              /\ Reads(text) = w * n + x * (n \div TenTo(k)) /\ Precision(text) = g
  <2>1. text.unit = u /\ text.whole = w /\ text.frac = x /\ text.digits = k
    BY <1>10 DEF DurationText
  <2> HIDE DEF w, n, text
  <2>2. Grain(text) = Nanos[u] \div TenTo(k)  BY <1>9, <2>1 DEF Grain
  <2>3. Precision(text) = Nanos[u] \div TenTo(Places(w))  BY <1>9, <2>1 DEF Precision
  <2> QED  BY <2>1, <2>2, <2>3 DEF Reads, n
<1> SUFFICES Rounded(text, ns, u)  OBVIOUS
<1> HIDE DEF n, w, f, p, t, g, text
<1>11. d \in Nat /\ d < t /\ d * g <= f /\ f < d * g + g
  <2>1. f \in Nat /\ f < t * g  BY <1>2, <1>3, <1>5
  <2>2. \E c \in Nat : c = (f * t) \div (t * g) /\ c < t /\ c * g <= f /\ f < c * g + g
    BY <1>5, <2>1, Digits
  <2> QED  BY <1>5, <2>2
<1> HIDE DEF d
<1>12. w * n \in Nat /\ w * n > 0 /\ d * g \in Nat
  <2>1. \A x, y \in Nat : x * y \in Nat /\ (x > 0 /\ y > 0 => x * y > 0)  OBVIOUS
  <2> QED  BY <1>2, <1>3, <1>5, <1>8, <1>11, <2>1
<1>13. ASSUME Reads(text) = w * n + d * g, Precision(text) = g
       PROVE  Reads(text) <= ns /\ ns < Reads(text) + Precision(text) /\ Reads(text) > 0
  BY <1>2, <1>3, <1>5, <1>11, <1>12, <1>13
<1>13a. w = ns \div Nanos[u]  BY DEF w, n
<1>14. CASE d = 0
  <2>1. text = DurationText(w, 0, 0, u)  BY <1>7, <1>14
  <2>2. text.digits = 0 /\ text.unit = u /\ text.whole = w
        /\ Reads(text) = w * n + 0 * (n \div TenTo(0)) /\ Precision(text) = g
    BY <1>10, <2>1
  <2>3. 0 * (n \div TenTo(0)) = 0 /\ d * g = 0
    <3>1. n \div TenTo(0) \in Nat
      <4>1. 0 \in 0..2  OBVIOUS
      <4> QED  BY <4>1, Parts DEF n
    <3> QED  BY <1>5, <1>14, <3>1
  <2>4. Reads(text) = w * n + d * g  BY <1>12, <2>2, <2>3
  <2>5. ~(text.digits \in {1, 2})  BY <2>2
  <2>6. Reads(text) <= ns /\ ns < Reads(text) + Precision(text) /\ Reads(text) > 0
    BY <1>13, <2>2, <2>4
  <2> QED  BY <1>13a, <2>2, <2>5, <2>6 DEF Rounded
<1>15. CASE d # 0 /\ p = 2 /\ d % Ten = 0
  <2> DEFINE x == d \div Ten
  <2>1. text = DurationText(w, x, 1, u)  BY <1>7, <1>15
  <2>2. text.digits = 1 /\ text.unit = u /\ text.whole = w /\ text.frac = x
        /\ Reads(text) = w * n + x * (n \div TenTo(1)) /\ Precision(text) = g
    BY <1>10, <2>1
  <2>3. x \in Nat /\ d = x * Ten + 0  BY <1>1, <1>11, <1>15, DivMod
  <2> HIDE DEF x
  <2>4. n \div TenTo(1) = Ten * g  BY <1>5, <1>15, TenToIs
  <2>5. x * (Ten * g) = d * g
    <3>1. \A a, b, c \in Nat : a * (b * c) = (a * b + 0) * c  OBVIOUS
    <3> QED  BY <1>1, <1>5, <2>3, <3>1
  <2>6. Reads(text) = w * n + d * g  BY <2>2, <2>4, <2>5
  <2>7. x # 0 /\ x < Ten
    <3>1. x = 0 => x * Ten + 0 = 0  BY <1>1
    <3>2. \A a, b \in Nat : a >= b => a * b >= b * b  OBVIOUS
    <3>3. x * Ten + 0 < Ten * Ten  BY <1>6, <1>11, <1>15, <2>3
    <3>4. x * Ten \in Nat /\ Ten * Ten \in Nat
      <4>1. \A a, b \in Nat : a * b \in Nat  OBVIOUS
      <4> QED  BY <1>1, <2>3, <4>1
    <3>5. x >= Ten => x * Ten >= Ten * Ten  BY <1>1, <2>3, <3>2
    <3>6. ~(x >= Ten)  BY <3>3, <3>4, <3>5
    <3> QED  BY <1>1, <1>15, <2>3, <3>1, <3>6
  <2>8. x % Ten = x  BY <1>1, <2>3, <2>7
  <2>9. text.frac % Ten # 0 /\ text.frac < TenTo(text.digits)  BY <2>2, <2>7, <2>8, TenToIs
  <2>10. Reads(text) <= ns /\ ns < Reads(text) + Precision(text) /\ Reads(text) > 0
    BY <1>13, <2>2, <2>6
  <2> QED  BY <1>13a, <2>2, <2>9, <2>10 DEF Rounded
<1>16. CASE d # 0 /\ ~(p = 2 /\ d % Ten = 0)
  <2>1. text = DurationText(w, d, p, u)  BY <1>7, <1>16
  <2>2. text.digits = p /\ text.unit = u /\ text.whole = w /\ text.frac = d
        /\ Reads(text) = w * n + d * (n \div TenTo(p)) /\ Precision(text) = g
    BY <1>10, <2>1
  <2>3. Reads(text) = w * n + d * g  BY <2>2 DEF g, t
  <2>4. p = 1 => d % Ten = d  BY <1>1, <1>6, <1>11
  <2>5. text.digits \in {1, 2} => text.frac % Ten # 0 /\ text.frac < TenTo(text.digits)
    <3>1. d < TenTo(p)  BY <1>11 DEF t
    <3>2. p \in {1, 2} => d % Ten # 0  BY <1>4, <1>16, <2>4
    <3> QED  BY <2>2, <3>1, <3>2
  <2>6. Reads(text) <= ns /\ ns < Reads(text) + Precision(text) /\ Reads(text) > 0
    BY <1>13, <2>2, <2>3
  <2> QED  BY <1>13a, <2>2, <2>5, <2>6 DEF Rounded
<1> QED  BY <1>14, <1>15, <1>16

\* minutes and seconds, hours and minutes
LEMMA MinutesAre ==
  ASSUME NEW ns \in Nat, NEW u \in Units, NEW b \in Units,
         \/ u = "m" /\ b = "s"
         \/ u = "h" /\ b = "m",
         Nanos[u] <= ns, NEW text,
         text = DurationText(ns \div Nanos[u], (ns % Nanos[u]) \div Nanos[b], 2, u)
  PROVE  /\ text.unit = u /\ text.whole = ns \div Nanos[u] /\ text.frac < Sixty
         /\ Reads(text) <= ns /\ ns < Reads(text) + Precision(text) /\ Reads(text) > 0
<1> DEFINE n == Nanos[u]
           g == Nanos[b]
           w == ns \div n
           f == ns % n
           q == f \div g
<1>1. Sixty \in Nat /\ Sixty > 1
  <2>1. \A x \in Nat : x * x \in Nat  OBVIOUS
  <2> QED  BY <2>1, DigitsAssumption
<1>2. n \in Nat \ {0} /\ g \in Nat \ {0} /\ n = Sixty * g
  <2>1. n \in Nat \ {0} /\ g \in Nat \ {0}  BY NanosAre
  <2>2. n = Sixty * g  BY NanosAre
  <2> QED  BY <2>1, <2>2
<1>3. w \in Nat /\ f \in 0..(n - 1) /\ ns = w * n + f  BY <1>2, DivMod
<1>4. f \in Nat /\ f < n  BY <1>2, <1>3
<1>5. text.unit = u /\ text.whole = w /\ text.frac = q  BY DEF DurationText
<1>6. Grain(text) = g
  <2>1. CASE u = "m" /\ b = "s"
    <3>1. text.unit = "m" /\ ~(text.unit = "ns") /\ ~(text.unit = "h")  BY <1>5, <2>1
    <3> QED  BY <2>1, <3>1 DEF Grain
  <2>2. CASE u = "h" /\ b = "m"
    <3>1. text.unit = "h" /\ ~(text.unit = "ns") /\ ~(text.unit = "m")  BY <1>5, <2>2
    <3> QED  BY <2>2, <3>1 DEF Grain
  <2> QED  BY <2>1, <2>2
<1>7. Precision(text) = g
  <2>1. text.unit \in {"ns", "m", "h"}  BY <1>5
  <2> QED  BY <1>6, <2>1 DEF Precision
<1>8. Reads(text) = w * n + q * g  BY <1>5, <1>6 DEF Reads
<1>9. q \in Nat /\ f % g \in 0..(g - 1) /\ f = q * g + (f % g)  BY <1>2, <1>4, DivMod
<1>10. w > 0
  <2> SUFFICES ASSUME w = 0 PROVE FALSE  BY <1>3
  <2>1. w * n = 0  BY <1>2
  <2> HIDE DEF w, f, n
  <2>2. n <= ns  BY DEF n
  <2> QED  BY <1>2, <1>3, <1>4, <2>1, <2>2
<1> HIDE DEF n, g, w, f, q
<1>11. w * n \in Nat /\ w * n > 0 /\ q * g \in Nat
  <2>1. \A x, y \in Nat : x * y \in Nat /\ (x > 0 /\ y > 0 => x * y > 0)  OBVIOUS
  <2> QED  BY <1>2, <1>3, <1>9, <1>10, <2>1
<1>12. q < Sixty
  <2>1. \A x, y, z \in Nat : x >= y => x * z >= y * z  OBVIOUS
  <2>2. q >= Sixty => q * g >= Sixty * g  BY <1>1, <1>2, <1>9, <2>1
  <2> QED  BY <1>1, <1>2, <1>4, <1>9, <1>11, <2>2
<1>13. Reads(text) <= ns /\ ns < Reads(text) + Precision(text) /\ Reads(text) > 0
  BY <1>2, <1>3, <1>4, <1>7, <1>8, <1>9, <1>11
<1> QED  BY <1>5, <1>12, <1>13 DEF w, n

\* fewer than k times the unit are fewer than k of it
LEMMA FewWholes ==
  ASSUME NEW ns \in Nat, NEW n \in Nat \ {0}, NEW k \in Nat, ns < k * n
  PROVE  ns \div n < k
<1> DEFINE w == ns \div n
           f == ns % n
<1>1. w \in Nat /\ f \in 0..(n - 1) /\ ns = w * n + f  BY DivMod
<1> HIDE DEF w, f
<1>2. \A x, y, z \in Nat : x >= y => x * z >= y * z /\ x * z \in Nat /\ y * z \in Nat  OBVIOUS
<1>3. w >= k => w * n >= k * n /\ w * n \in Nat /\ k * n \in Nat  BY <1>1, <1>2
<1>4. f \in Nat  BY <1>1
<1>5. w < k  BY <1>1, <1>3, <1>4
<1> QED  BY <1>5 DEF w

-----------------------------------------------------------------------------
\* render.FormatDuration: whatever the duration, what it prints can be read back: it is
\* the duration rounded down to three digits (to the second from a minute on, to the
\* minute from an hour on), never reads as 0 unless it is, never shows a thousand of a
\* unit or sixty minutes, and has no superfluous zero behind the point.
THEOREM DurationsFaithful == \A ns \in Nat : Faithful(FormatDuration(ns), ns)
<1> SUFFICES ASSUME NEW ns \in Nat PROVE Faithful(FormatDuration(ns), ns)  OBVIOUS
<1> DEFINE text == FormatDuration(ns)
           u == Unit(ns)
<1>1. u \in Units /\ InUnit(u, ns)  BY UnitIs
<1>2. \A x \in Units : Nanos[x] \in Nat \ {0}  BY NanosAre
<1>3. Kilo \in Nat /\ Kilo > 1 /\ Sixty \in Nat /\ Sixty > 1
  <2>1. \A x \in Nat : x * x \in Nat  OBVIOUS
  <2> QED  BY <2>1, NanosAre, DigitsAssumption
<1>4. text = CASE u = "ns" -> DurationText(ns, 0, 0, u)
               [] u \in {"us", "ms", "s"} -> scaled(ns, u)
               [] OTHER -> DurationText(ns \div Nanos[u],
                             (ns % Nanos[u]) \div Nanos[IF u = "h" THEN "m" ELSE "s"], 2, u)
  BY DEF FormatDuration
<1> SUFFICES Faithful(text, ns)  OBVIOUS
<1> HIDE DEF text, u
<1>5. CASE u = "ns"
  <2>1. text = DurationText(ns, 0, 0, u)  BY <1>4, <1>5
  <2>2. text.unit = "ns" /\ text.whole = ns /\ text.frac = 0 /\ text.digits = 0
    BY <1>5, <2>1 DEF DurationText
  <2>3. Grain(text) = 1  BY <2>2 DEF Grain
  <2>4. Precision(text) = 1  BY <2>2, <2>3 DEF Precision
  <2>5. Reads(text) = ns
    <3>1. Reads(text) = ns * 1 + 0 * 1  BY <2>2, <2>3, NanosAre DEF Reads
    <3> QED  BY <3>1
  <2>6. ns < Kilo
    <3>1. ns < Nanos["us"]  BY <1>1, <1>5 DEF InUnit
    <3> QED  BY <1>3, <3>1, NanosAre
  <2> QED  BY <2>2, <2>4, <2>5, <2>6 DEF Faithful
<1>6. CASE u \in {"us", "ms", "s"}
  <2>1. text = scaled(ns, u) /\ ~(u = "ns")
    <3>1. ~(u = "ns")  BY <1>6
    <3> QED  BY <1>4, <1>6, <3>1
  <2>2. \/ u = "us" /\ Nanos["us"] <= ns /\ ns < Nanos["ms"]
        \/ u = "ms" /\ Nanos["ms"] <= ns /\ ns < Nanos["s"]
        \/ u = "s" /\ Nanos["s"] <= ns /\ ns < Nanos["m"]
    BY <1>1, <1>6 DEF InUnit
  <2>3. Nanos[u] <= ns  BY <2>2
  <2>4. Rounded(text, ns, u)  BY <1>6, <2>1, <2>3, scaledIs
  <2>5. u \in {"us", "ms"} => ns \div Nanos[u] < Kilo
    <3> SUFFICES ASSUME u \in {"us", "ms"} PROVE ns \div Nanos[u] < Kilo  OBVIOUS
    <3>1. ns < Kilo * Nanos[u]  BY <2>2, NanosAre
    <3> QED  BY <1>1, <1>2, <1>3, <3>1, FewWholes
  <2>6. u = "s" => ns \div Nanos[u] < Sixty
    <3> SUFFICES ASSUME u = "s" PROVE ns \div Nanos[u] < Sixty  OBVIOUS
    <3>1. ns < Sixty * Nanos[u]  BY <2>2, NanosAre
    <3> QED  BY <1>1, <1>2, <1>3, <3>1, FewWholes
  <2>7. ~(u = "m") /\ ~(u = "h")  BY <1>6
  <2> QED  BY <2>1, <2>4, <2>5, <2>6, <2>7 DEF Faithful, Rounded
<1>7. CASE u \in {"m", "h"}
  <2> DEFINE b == IF u = "h" THEN "m" ELSE "s"
  <2>1. ~(u = "ns") /\ ~(u \in {"us", "ms", "s"})  BY <1>7
  <2>2. text = DurationText(ns \div Nanos[u], (ns % Nanos[u]) \div Nanos[b], 2, u)
    BY <1>4, <2>1
  <2>3. (u = "m" /\ b = "s") \/ (u = "h" /\ b = "m")  BY <1>7
  <2>4. b \in Units  BY DEF Units
  <2>5. Nanos[u] <= ns /\ (u = "m" => ns < Nanos["h"])  BY <1>1, <1>7 DEF InUnit
  <2> HIDE DEF b
  <2>6. /\ text.unit = u /\ text.whole = ns \div Nanos[u] /\ text.frac < Sixty
        /\ Reads(text) <= ns /\ ns < Reads(text) + Precision(text) /\ Reads(text) > 0
    BY <1>1, <2>2, <2>3, <2>4, <2>5, MinutesAre
  <2>7. u = "m" => ns \div Nanos[u] < Sixty
    <3> SUFFICES ASSUME u = "m" PROVE ns \div Nanos[u] < Sixty  OBVIOUS
    <3>1. ns < Sixty * Nanos[u]  BY <2>5, NanosAre
    <3> QED  BY <1>1, <1>2, <1>3, <3>1, FewWholes
  <2> QED  BY <2>1, <2>6, <2>7, <1>7 DEF Faithful
<1> QED  BY <1>1, <1>5, <1>6, <1>7 DEF Units
-----------------------------------------------------------------------------
(* Items chosen from a list.                                               *)

Elements(s) == {s[i] : i \in DOMAIN s}

LEMMA ListIsSeq == ASSUME NEW s, IsList(s) PROVE s \in Seq(Elements(s))
<1> DEFINE n == Len(s)
<1>1. n \in Nat /\ s = [i \in 1..n |-> s[i]]  BY DEF IsList
<1> HIDE DEF n
<1>2. DOMAIN s = 1..n  BY <1>1
<1>3. \A i \in 1..n : s[i] \in Elements(s)  BY <1>2 DEF Elements
<1>4. [i \in 1..n |-> s[i]] \in [1..n -> Elements(s)]  BY <1>3
<1>5. s \in [1..n -> Elements(s)]  BY <1>1, <1>4
<1> QED  BY <1>1, <1>5, FunctionIsSeq

LEMMA SeqIsList ==
  ASSUME NEW T, NEW s \in Seq(T)
  PROVE  /\ IsList(s) /\ DOMAIN s = 1..Len(s) /\ Len(s) \in Nat
         /\ Elements(s) \subseteq T
<1>1. Len(s) \in Nat /\ DOMAIN s = 1..Len(s)  BY LenProperties
<1>2. s = [i \in 1..Len(s) |-> s[i]]
  <2>1. s \in [1..Len(s) -> T]  BY LenProperties
  <2> QED  BY <2>1
<1>3. \A i \in 1..Len(s) : s[i] \in T  BY ElementOfSeq
<1> QED  BY <1>1, <1>2, <1>3 DEF IsList, Elements

LEMMA LenIs ==
  ASSUME NEW n \in Nat, NEW f, f = [i \in 1..n |-> f[i]]
  PROVE  Len(f) = n /\ DOMAIN f = 1..n
<1>1. f \in Seq({f[i] : i \in 1..n})
  <2> DEFINE S == {f[i] : i \in 1..n}
  <2>1. \A i \in 1..n : f[i] \in S  OBVIOUS
  <2> HIDE DEF S
  <2>2. f \in [1..n -> S]  BY <2>1
  <2>3. f \in Seq(S)  BY <2>2, FunctionIsSeq
  <2> QED  BY <2>3 DEF S
<1> DEFINE m == Len(f)
<1>2. m \in Nat /\ DOMAIN f = 1..m  BY <1>1, LenProperties
<1>3. DOMAIN f = 1..n  OBVIOUS
<1> HIDE DEF m
<1>4. m \in 1..m \/ m = 0  BY <1>2
<1>5. n \in 1..n \/ n = 0  OBVIOUS
<1>6. m = n  BY <1>2, <1>3, <1>4, <1>5
<1> QED  BY <1>3, <1>6 DEF m

\* each item on its own, if it is chosen
Pieces(s, I) == [i \in DOMAIN s |-> IF i \in I THEN <<s[i]>> ELSE << >>]

LEMMA PiecesType ==
  ASSUME NEW T, NEW s \in Seq(T), NEW I
  PROVE  /\ Pieces(s, I) \in Seq(Seq(T)) /\ Len(Pieces(s, I)) = Len(s)
         /\ \A i \in 1..Len(s) : Pieces(s, I)[i] = IF i \in I THEN <<s[i]>> ELSE << >>
<1> DEFINE n == Len(s)
           p == Pieces(s, I)
<1>1. n \in Nat /\ DOMAIN s = 1..n /\ \A i \in 1..n : s[i] \in T
  BY LenProperties, ElementOfSeq
<1>2. p = [i \in 1..n |-> IF i \in I THEN <<s[i]>> ELSE << >>]  BY <1>1 DEF Pieces
<1> HIDE DEF n, p
<1>3. \A i \in 1..n : <<s[i]>> \in Seq(T) /\ << >> \in Seq(T)
  BY <1>1
<1>4. p \in [1..n -> Seq(T)]  BY <1>2, <1>3
<1>5. p \in Seq(Seq(T))  BY <1>1, <1>4, FunctionIsSeq
<1>6. Len(p) = n
  <2>1. p = [i \in 1..n |-> p[i]]  BY <1>2
  <2> HIDE DEF Pieces
  <2> QED  BY <1>1, <2>1, LenIs
<1> QED  BY <1>2, <1>5, <1>6 DEF n, p

\* those chosen of the first k
To(s, I, k) == FlattenSeq(SubSeq(Pieces(s, I), 1, k))

LEMMA ToType ==
  ASSUME NEW T, NEW s \in Seq(T), NEW I, NEW k \in 0..Len(s)
  PROVE  To(s, I, k) \in Seq(T)
<1> DEFINE p == Pieces(s, I)
<1>1. p \in Seq(Seq(T)) /\ k \in 0..Len(p)  BY PiecesType
<1> HIDE DEF p
<1>2. SubSeq(p, 1, k) \in Seq(Seq(T))  BY <1>1, SubHead
<1>3. FlattenSeq(SubSeq(p, 1, k)) \in Seq(T)  BY <1>2, FlattenType
<1> QED  BY <1>3 DEF To, p

LEMMA ToNone == ASSUME NEW s, NEW I PROVE To(s, I, 0) = << >>
<1>1. SubSeq(Pieces(s, I), 1, 0) = << >>  BY SubSeqEmpty
<1> QED  BY <1>1, FlattenEmpty DEF To

LEMMA ToStep ==
  ASSUME NEW T, NEW s \in Seq(T), NEW I, NEW k \in 0..(Len(s) - 1)
  PROVE  To(s, I, k + 1) = IF k + 1 \in I THEN Append(To(s, I, k), s[k + 1]) ELSE To(s, I, k)
<1> DEFINE p == Pieces(s, I)
           t == To(s, I, k)
           x == s[k + 1]
<1>1. Len(s) \in Nat /\ k + 1 \in 1..Len(s) /\ k \in 0..Len(s)  BY LenProperties
<1>2. p \in Seq(Seq(T)) /\ k \in 0..(Len(p) - 1)
      /\ p[k + 1] = IF k + 1 \in I THEN <<x>> ELSE << >>
  BY <1>1, PiecesType
<1>3. t \in Seq(T) /\ x \in T  BY <1>1, ToType, ElementOfSeq
<1>4. t = FlattenSeq(SubSeq(p, 1, k)) /\ To(s, I, k + 1) = FlattenSeq(SubSeq(p, 1, k + 1))
  BY DEF To
<1> HIDE DEF p, t, x
<1>5. To(s, I, k + 1) = t \o p[k + 1]  BY <1>2, <1>4, FlattenStep
<1>6. t \o <<x>> = Append(t, x)  BY <1>3, AppendIsConcat
<1>7. t \o << >> = t  BY <1>3, ConcatEmptySeq
<1> QED  BY <1>2, <1>5, <1>6, <1>7 DEF t, x

LEMMA ToAll ==
  ASSUME NEW T, NEW s \in Seq(T), NEW I
  PROVE  To(s, I, Len(s)) = Chosen(s, I)
<1> DEFINE p == Pieces(s, I)
<1>1. p \in Seq(Seq(T)) /\ Len(p) = Len(s)  BY PiecesType
<1>2. Chosen(s, I) = FlattenSeq(p)  BY DEF Chosen, Pieces
<1> HIDE DEF p
<1>3. SubSeq(p, 1, Len(p)) = p  BY <1>1, SubSeqFull
<1> QED  BY <1>1, <1>2, <1>3 DEF To, p

LEMMA ChosenType ==
  ASSUME NEW T, NEW s \in Seq(T), NEW I
  PROVE  Chosen(s, I) \in Seq(T)
<1>1. Len(s) \in 0..Len(s)  BY LenProperties
<1> QED  BY <1>1, ToType, ToAll

\* only what is chosen matters
LEMMA ToSame ==
  ASSUME NEW T, NEW s \in Seq(T), NEW t \in Seq(T), NEW I, NEW J, NEW k \in Nat,
         k <= Len(s), k <= Len(t),
         \A i \in 1..k : s[i] = t[i] /\ (i \in I <=> i \in J)
  PROVE  To(s, I, k) = To(t, J, k)
<1> DEFINE Bad == {j \in 0..k : To(s, I, j) # To(t, J, j)}
<1>0. Len(s) \in Nat /\ Len(t) \in Nat  BY LenProperties
<1>1. Bad = {}
  <2> SUFFICES ASSUME Bad # {} PROVE FALSE  OBVIOUS
  <2>1. PICK j \in Bad : \A i \in Nat : i < j => i \notin Bad
    <3>1. Bad \subseteq Nat  OBVIOUS
    <3> HIDE DEF Bad
    <3> QED  BY <3>1, FirstBad
  <2>2. j # 0  BY ToNone
  <2>3. PICK i \in Nat : i + 1 = j
    <3>1. j - 1 \in Nat /\ (j - 1) + 1 = j  BY <2>2
    <3> QED  BY <3>1
  <2>4. i \in 0..k /\ i < j /\ i \in 0..(Len(s) - 1) /\ i \in 0..(Len(t) - 1) /\ j \in 1..k
    BY <1>0, <2>3
  <2>5. To(s, I, i) = To(t, J, i)  BY <2>1, <2>4
  <2>6. To(s, I, i + 1) = IF i + 1 \in I THEN Append(To(s, I, i), s[i + 1]) ELSE To(s, I, i)
    BY <2>4, ToStep
  <2>7. To(t, J, i + 1) = IF i + 1 \in J THEN Append(To(t, J, i), t[i + 1]) ELSE To(t, J, i)
    BY <2>4, ToStep
  <2>8. To(s, I, j) # To(t, J, j)  BY <2>1
  <2>9. s[j] = t[j] /\ (j \in I <=> j \in J)  BY <2>4
  <2> HIDE DEF Bad
  <2> QED  BY <2>3, <2>5, <2>6, <2>7, <2>8, <2>9
<1>2. k \in 0..k  OBVIOUS
<1> QED  BY <1>1, <1>2

LEMMA ChosenSame ==
  ASSUME NEW T, NEW s \in Seq(T), NEW I, NEW J,
         \A i \in DOMAIN s : i \in I <=> i \in J
  PROVE  Chosen(s, I) = Chosen(s, J)
<1>1. Len(s) \in Nat /\ DOMAIN s = 1..Len(s)  BY LenProperties
<1>2. To(s, I, Len(s)) = To(s, J, Len(s))  BY <1>1, ToSame
<1> QED  BY <1>2, ToAll

LEMMA AppendElements ==
  ASSUME NEW T, NEW s \in Seq(T), NEW x \in T
  PROVE  Elements(Append(s, x)) = Elements(s) \cup {x}
<1> DEFINE n == Len(s)
           t == Append(s, x)
<1>1. n \in Nat /\ DOMAIN s = 1..n  BY LenProperties
<1>2. t \in Seq(T) /\ Len(t) = n + 1 /\ (\A i \in 1..n : t[i] = s[i]) /\ t[n + 1] = x
  BY AppendProperties
<1> HIDE DEF t, n
<1>3. DOMAIN t = 1..(n + 1)  BY <1>2, LenProperties
<1>4. 1..(n + 1) = (1..n) \cup {n + 1}  BY <1>1
<1>5. {t[i] : i \in 1..n} = {s[i] : i \in 1..n}  BY <1>2
<1>6. Elements(t) = {t[i] : i \in 1..n} \cup {t[n + 1]}  BY <1>3, <1>4 DEF Elements
<1> QED  BY <1>1, <1>2, <1>5, <1>6 DEF Elements, t

\* an item is chosen if it is at a position that is kept
LEMMA ToElements ==
  ASSUME NEW T, NEW s \in Seq(T), NEW I, NEW k \in 0..Len(s)
  PROVE  Elements(To(s, I, k)) = {s[i] : i \in {j \in 1..k : j \in I}}
<1> DEFINE E(j) == {s[i] : i \in {h \in 1..j : h \in I}}
           Bad == {j \in 0..Len(s) : Elements(To(s, I, j)) # E(j)}
<1>0. Len(s) \in Nat  BY LenProperties
<1>1. Bad = {}
  <2> SUFFICES ASSUME Bad # {} PROVE FALSE  OBVIOUS
  <2>1. PICK j \in Bad : \A i \in Nat : i < j => i \notin Bad
    <3>1. Bad \subseteq Nat  BY <1>0
    <3> HIDE DEF Bad
    <3> QED  BY <3>1, FirstBad
  <2>2. j # 0
    <3> SUFFICES ASSUME j = 0 PROVE FALSE  OBVIOUS
    <3>1. Elements(<< >>) = {}  BY DEF Elements
    <3>2. E(0) = {}  OBVIOUS
    <3>3. Elements(To(s, I, 0)) = E(0)  BY <3>1, <3>2, ToNone
    <3> HIDE DEF E
    <3> QED  BY <2>1, <3>3
  <2>3. PICK i \in Nat : i + 1 = j
    <3>1. j - 1 \in Nat /\ (j - 1) + 1 = j  BY <2>2
    <3> QED  BY <3>1
  <2>4. i \in 0..Len(s) /\ i < j /\ i \in 0..(Len(s) - 1) /\ j \in 1..Len(s)
    BY <1>0, <2>3
  <2>5. Elements(To(s, I, i)) = E(i)  BY <2>1, <2>4
  <2>6. To(s, I, i + 1) = IF i + 1 \in I THEN Append(To(s, I, i), s[i + 1]) ELSE To(s, I, i)
    BY <2>4, ToStep
  <2>7. To(s, I, i) \in Seq(T) /\ s[j] \in T  BY <2>4, ToType, ElementOfSeq
  <2>8. Elements(Append(To(s, I, i), s[j])) = Elements(To(s, I, i)) \cup {s[j]}
    BY <2>7, AppendElements
  <2>9. 1..j = (1..i) \cup {j} /\ j \notin 1..i  BY <2>3
  <2>10. E(j) = IF j \in I THEN E(i) \cup {s[j]} ELSE E(i)
    BY <2>9
  <2>11. Elements(To(s, I, j)) # E(j)  BY <2>1
  <2> HIDE DEF Bad, E
  <2> QED  BY <2>3, <2>5, <2>6, <2>8, <2>10, <2>11
<1>2. k \in 0..Len(s)  OBVIOUS
<1> QED  BY <1>1, <1>2

LEMMA ChosenElements ==
  ASSUME NEW T, NEW s \in Seq(T), NEW I
  PROVE  Elements(Chosen(s, I)) = {s[i] : i \in {j \in DOMAIN s : j \in I}}
<1>1. Len(s) \in 0..Len(s) /\ DOMAIN s = 1..Len(s)  BY LenProperties
<1>2. Elements(To(s, I, Len(s))) = {s[i] : i \in {j \in 1..Len(s) : j \in I}}
  BY <1>1, ToElements
<1> QED  BY <1>1, <1>2, ToAll

-----------------------------------------------------------------------------
(* Choosing again, by what the items are.                                  *)

ByValue(s, V) == Chosen(s, {i \in DOMAIN s : s[i] \in V})

LEMMA ByValueNone == ASSUME NEW V PROVE ByValue(<< >>, V) = << >>
<1>1. << >> \in Seq({}) /\ Len(<< >>) = 0  BY EmptySeq
<1> DEFINE I == {i \in DOMAIN << >> : << >>[i] \in V}
<1> HIDE DEF I
<1>2. To(<< >>, I, 0) = Chosen(<< >>, I)  BY <1>1, ToAll
<1>3. Chosen(<< >>, I) = << >>  BY <1>2, ToNone
<1> QED  BY <1>3 DEF ByValue, I

LEMMA ByValueAppend ==
  ASSUME NEW T, NEW s \in Seq(T), NEW x \in T, NEW V
  PROVE  ByValue(Append(s, x), V) = IF x \in V THEN Append(ByValue(s, V), x) ELSE ByValue(s, V)
<1> DEFINE n == Len(s)
           t == Append(s, x)
           I == {i \in DOMAIN s : s[i] \in V}
           J == {i \in DOMAIN t : t[i] \in V}
<1>1. n \in Nat /\ DOMAIN s = 1..n  BY LenProperties
<1>2. /\ t \in Seq(T) /\ Len(t) = n + 1 /\ DOMAIN t = 1..(n + 1)
      /\ \A i \in 1..n : t[i] = s[i]
      /\ t[n + 1] = x
  <2>1. t \in Seq(T) /\ Len(t) = n + 1 /\ (\A i \in 1..n : t[i] = s[i]) /\ t[n + 1] = x
    BY AppendProperties
  <2> HIDE DEF t, n
  <2> QED  BY <2>1, LenProperties
<1>3. \A i \in 1..n : i \in I <=> i \in J  BY <1>1, <1>2
<1>4. n + 1 \in J <=> x \in V  BY <1>1, <1>2
<1>5. ByValue(s, V) = Chosen(s, I) /\ ByValue(t, V) = Chosen(t, J)  BY DEF ByValue
<1> HIDE DEF n, t, I, J
<1>6. To(s, I, n) = Chosen(s, I)  BY ToAll DEF n
<1>7. To(t, J, n + 1) = Chosen(t, J)  BY <1>2, ToAll
<1>8. To(s, I, n) = To(t, J, n)
  <2>1. n <= Len(s) /\ n <= Len(t)  BY <1>1, <1>2 DEF n
  <2>2. \A i \in 1..n : s[i] = t[i] /\ (i \in I <=> i \in J)  BY <1>2, <1>3
  <2> QED  BY <1>1, <1>2, <2>1, <2>2, ToSame
<1>9. n \in 0..(Len(t) - 1)  BY <1>1, <1>2
<1>10. To(t, J, n + 1) = IF n + 1 \in J THEN Append(To(t, J, n), t[n + 1]) ELSE To(t, J, n)
  BY <1>2, <1>9, ToStep
<1> QED  BY <1>2, <1>4, <1>5, <1>6, <1>7, <1>8, <1>10 DEF t

\* choosing by position and then by value is choosing once
LEMMA ChosenTwice ==
  ASSUME NEW T, NEW s \in Seq(T), NEW I, NEW V
  PROVE  ByValue(Chosen(s, I), V) = Chosen(s, {i \in DOMAIN s : i \in I /\ s[i] \in V})
<1> DEFINE n == Len(s)
           J == {i \in DOMAIN s : i \in I /\ s[i] \in V}
           Bad == {j \in 0..n : ByValue(To(s, I, j), V) # To(s, J, j)}
<1>0. n \in Nat /\ DOMAIN s = 1..n  BY LenProperties
<1>1. Bad = {}
  <2> SUFFICES ASSUME Bad # {} PROVE FALSE  OBVIOUS
  <2>1. PICK j \in Bad : \A i \in Nat : i < j => i \notin Bad
    <3>1. Bad \subseteq Nat  BY <1>0
    <3> HIDE DEF Bad
    <3> QED  BY <3>1, FirstBad
  <2>2. j # 0
    <3>1. ByValue(To(s, I, 0), V) = To(s, J, 0)  BY ToNone, ByValueNone
    <3> HIDE DEF J
    <3> QED  BY <2>1, <3>1
  <2>3. PICK i \in Nat : i + 1 = j
    <3>1. j - 1 \in Nat /\ (j - 1) + 1 = j  BY <2>2
    <3> QED  BY <3>1
  <2>4. i \in 0..n /\ i < j /\ i \in 0..(Len(s) - 1) /\ i \in 0..Len(s) /\ j \in 1..n
        /\ j \in 1..Len(s)
    BY <1>0, <2>3
  <2>5. ByValue(To(s, I, i), V) = To(s, J, i)  BY <2>1, <2>4
  <2>6. To(s, I, i + 1) = IF i + 1 \in I THEN Append(To(s, I, i), s[i + 1]) ELSE To(s, I, i)
    BY <2>4, ToStep
  <2>7. j \in J <=> (j \in I /\ s[j] \in V)  BY <1>0, <2>4
  <2>8. ByValue(To(s, I, j), V) # To(s, J, j)  BY <2>1
  <2> HIDE DEF J, Bad, n
  <2>9. To(s, J, i + 1) = IF i + 1 \in J THEN Append(To(s, J, i), s[i + 1]) ELSE To(s, J, i)
    BY <2>4, ToStep
  <2>10. To(s, I, i) \in Seq(T) /\ s[j] \in T  BY <2>4, ToType, ElementOfSeq
  <2>11. ByValue(Append(To(s, I, i), s[j]), V) =
           IF s[j] \in V THEN Append(ByValue(To(s, I, i), V), s[j]) ELSE ByValue(To(s, I, i), V)
    <3>1. PICK t : t = To(s, I, i)  OBVIOUS
    <3>2. PICK x : x = s[j]  OBVIOUS
    <3>3. t \in Seq(T) /\ x \in T  BY <2>10, <3>1, <3>2
    <3>4. ByValue(Append(t, x), V) = IF x \in V THEN Append(ByValue(t, V), x) ELSE ByValue(t, V)
      BY ONLY <3>3, ByValueAppend
    <3> QED  BY <3>1, <3>2, <3>4
  <2>12. To(s, I, j) = IF j \in I THEN Append(To(s, I, i), s[j]) ELSE To(s, I, i)
    BY <2>3, <2>6
  <2>13. To(s, J, j) = IF j \in J THEN Append(To(s, J, i), s[j]) ELSE To(s, J, i)
    BY <2>3, <2>9
  <2>14. CASE j \in I /\ s[j] \in V
    <3>1. ByValue(To(s, I, j), V) = Append(ByValue(To(s, I, i), V), s[j])
      BY <2>11, <2>12, <2>14
    <3>2. To(s, J, j) = Append(To(s, J, i), s[j])  BY <2>7, <2>13, <2>14
    <3> QED  BY <2>5, <2>8, <3>1, <3>2
  <2>15. CASE ~(j \in I /\ s[j] \in V)
    <3>1. ByValue(To(s, I, j), V) = ByValue(To(s, I, i), V)
      <4>1. CASE j \in I
        <5>1. s[j] \notin V  BY <2>15, <4>1
        <5> QED  BY <2>11, <2>12, <4>1, <5>1
      <4>2. CASE j \notin I  BY <2>12, <4>2
      <4> QED  BY <4>1, <4>2
    <3>2. To(s, J, j) = To(s, J, i)  BY <2>7, <2>13, <2>15
    <3> QED  BY <2>5, <2>8, <3>1, <3>2
  <2> QED  BY <2>14, <2>15
<1>2. n \in 0..n  BY <1>0
<1>3. ByValue(To(s, I, n), V) = To(s, J, n)  BY <1>1, <1>2
<1> HIDE DEF J
<1>4. To(s, I, n) = Chosen(s, I) /\ To(s, J, n) = Chosen(s, J)  BY ToAll
<1>5. ByValue(Chosen(s, I), V) = Chosen(s, J)  BY <1>3, <1>4
<1> QED  BY <1>5 DEF J

\* as many nanoseconds, or more
Lasts(x, least) == x.end >= x.start + least

LEMMA filterSpansIs ==
  ASSUME NEW T, NEW s \in Seq(T), NEW o, o.minDurationNs \in Nat,
         \A x \in T : x.start \in Nat /\ x.end \in Nat
  PROVE  filterSpans(s, o) =
           Chosen(s, {i \in DOMAIN s :
             /\ i \in OfService(s, o)
             /\ o.minDurationNs > 0 =>
                  \E j \in OfService(s, o) :
                    s[j].trace = s[i].trace /\ Lasts(s[j], o.minDurationNs)})
<1> DEFINE I == OfService(s, o)
           out == Chosen(s, I)
           V == {x \in T : o.minDurationNs > 0 =>
                   \E y \in Elements(out) : y.trace = x.trace /\ DurationNano(y) >= o.minDurationNs}
           K == {i \in DOMAIN s : i \in I /\ s[i] \in V}
           W == {i \in DOMAIN s :
                   /\ i \in I
                   /\ o.minDurationNs > 0 =>
                        \E j \in I : s[j].trace = s[i].trace /\ Lasts(s[j], o.minDurationNs)}
<1>1. out \in Seq(T) /\ Elements(out) = {s[i] : i \in {j \in DOMAIN s : j \in I}}
  BY ChosenType, ChosenElements
<1>2. \A i \in DOMAIN s : s[i] \in T  BY LenProperties, ElementOfSeq
<1>3. I \subseteq DOMAIN s  BY DEF OfService
<1>4. filterSpans(s, o) = Chosen(out, SlowEnough(out, o))  BY DEF filterSpans
<1>5. ASSUME NEW x \in T, o.minDurationNs > 0
      PROVE  DurationNano(x) >= o.minDurationNs <=> Lasts(x, o.minDurationNs)
  BY <1>5 DEF DurationNano, Lasts
<1>6. \A i \in DOMAIN s : i \in W <=> i \in K
  <2> SUFFICES ASSUME NEW i \in DOMAIN s PROVE i \in W <=> i \in K  OBVIOUS
  <2>1. s[i] \in V <=> (o.minDurationNs > 0 =>
          \E j \in I : s[j].trace = s[i].trace /\ DurationNano(s[j]) >= o.minDurationNs)
    <3> HIDE DEF out, I
    <3>1. (\E y \in Elements(out) : y.trace = s[i].trace /\ DurationNano(y) >= o.minDurationNs)
          <=> \E j \in I : s[j].trace = s[i].trace /\ DurationNano(s[j]) >= o.minDurationNs
      BY <1>1, <1>3, Zenon
    <3> QED  BY <1>2, <3>1
  <2> HIDE DEF V, I
  <2>2. o.minDurationNs > 0 =>
          \A j \in I : DurationNano(s[j]) >= o.minDurationNs <=> Lasts(s[j], o.minDurationNs)
    BY <1>2, <1>3, <1>5
  <2> QED  BY <2>1, <2>2
<1>7. SlowEnough(out, o) = {i \in DOMAIN out : out[i] \in V}
  <2>1. \A i \in DOMAIN out : out[i] \in T  BY <1>1, LenProperties, ElementOfSeq
  <2>2. ASSUME NEW i \in DOMAIN out
        PROVE  (\E y \in Elements(out) : y.trace = out[i].trace /\ DurationNano(y) >= o.minDurationNs)
               <=> \E j \in DOMAIN out :
                     out[j].trace = out[i].trace /\ DurationNano(out[j]) >= o.minDurationNs
    <3> HIDE DEF out
    <3> QED  BY DEF Elements
  <2> HIDE DEF out
  <2> QED  BY <2>1, <2>2 DEF SlowEnough
<1> HIDE DEF out, V, I
<1>8. filterSpans(s, o) = ByValue(out, V)  BY <1>4, <1>7 DEF ByValue
<1>9. ByValue(Chosen(s, I), V) = Chosen(s, K)  BY ChosenTwice
<1> HIDE DEF W, K
<1>10. Chosen(s, W) = Chosen(s, K)  BY <1>6, ChosenSame
<1>11. filterSpans(s, o) = Chosen(s, W)  BY <1>8, <1>9, <1>10 DEF out
<1> QED  BY <1>11 DEF W, I

-----------------------------------------------------------------------------
(***************************************************************************)
(* Rendering.  The options are those of a command line that passed, and    *)
(* what was printed is what the request means, printed with them.          *)
(***************************************************************************)
LinesInv ==
  /\ \E r \in Requests : body = BodyOf(r)
  /\ via \in {"", "proto", "json"}
  /\ via # "" => decoded = IF SoundIn(via) THEN Ok(body.meaning) ELSE Failed
  /\ options # << >> =>
       /\ via # "" /\ SoundIn(via)
       /\ \E cfg \in Configs :
            /\ ParseConfig(cfg) /\ options = RenderOptions(cfg)
            /\ body.signal = "traces" => cfg.output # "pretty"
       /\ lines = CASE body.signal = "traces" -> Traces(body.meaning, options)
                    [] body.signal = "logs" -> Logs(body.meaning, options)
                    [] body.signal = "metrics" -> <<Metrics(body.meaning, options)>>

\* The inductive invariant: the body stays the request's, decoding has kept its promise
\* and the lines are the rendering of its meaning.
THEOREM LinesInvariant == LinesSpec => []LinesInv
<1>1. LinesInit => LinesInv
  <2> SUFFICES ASSUME LinesInit PROVE LinesInv  OBVIOUS
  <2> QED  BY DEF LinesInit, LinesInv, Init
<1>2. LinesInv /\ [LinesNext]_allVars => LinesInv'
  <2> SUFFICES ASSUME LinesInv, [LinesNext]_allVars PROVE LinesInv'  OBVIOUS
  <2>1. CASE Promised
    <3>1. via = "" /\ via' \in {"proto", "json"} /\ body' = body /\ options' = options
          /\ options = << >>
      BY <2>1 DEF Promised, LinesInv
    <3>2. decoded' = IF SoundIn(via)' THEN Ok(body.meaning)' ELSE Failed
      BY <2>1, <3>1 DEF Promised, SoundIn, Ok
    <3>3. (\E r \in Requests : body = BodyOf(r))'  BY <3>1 DEF LinesInv
    <3> QED  BY <3>1, <3>2, <3>3 DEF LinesInv
  <2>2. CASE Render
    <3>1. via # "" /\ decoded.ok /\ body' = body /\ via' = via /\ decoded' = decoded
      BY <2>2 DEF Render, vars
    <3>2. SoundIn(via) /\ decoded = Ok(body.meaning)
      <4>1. decoded = IF SoundIn(via) THEN Ok(body.meaning) ELSE Failed  BY <3>1 DEF LinesInv
      <4>2. ~Failed.ok  BY DEF Failed
      <4> QED  BY <3>1, <4>1, <4>2
    <3>3. decoded.v = body.meaning  BY <3>2 DEF Ok
    <3>4. SoundIn(via)'  BY <3>1, <3>2 DEF SoundIn
    <3>5. \E cfg \in Configs :
            /\ ParseConfig(cfg) /\ options' = RenderOptions(cfg)
            /\ body'.signal = "traces" => cfg.output # "pretty"
      BY <2>2, <3>1 DEF Render
    <3>6. lines' = CASE body'.signal = "traces" -> Traces(body'.meaning, options')
                     [] body'.signal = "logs" -> Logs(body'.meaning, options')
                     [] body'.signal = "metrics" -> <<Metrics(body'.meaning, options')>>
      BY <2>2, <3>1, <3>3 DEF Render
    <3>7. (via # "" => decoded = IF SoundIn(via) THEN Ok(body.meaning) ELSE Failed)'
      BY <3>1, <3>2, <3>4
    <3> QED  BY <3>1, <3>4, <3>5, <3>6, <3>7 DEF LinesInv
  <2>3. CASE UNCHANGED allVars
    <3>1. body' = body /\ via' = via /\ decoded' = decoded /\ options' = options /\ lines' = lines
      BY <2>3 DEF allVars, vars
    <3> QED  BY <3>1 DEF LinesInv, SoundIn
  <2> QED  BY <2>1, <2>2, <2>3 DEF LinesNext
<1> QED  BY <1>1, <1>2, PTL DEF LinesSpec

\* an int64 that is no less than 0 stays what it is as a uint64
LEMMA OptionsFacts ==
  ASSUME NEW cfg \in Configs, ParseConfig(cfg)
  PROVE  LET o == RenderOptions(cfg)
         IN  /\ o.mode = cfg.output /\ o.mode \in {"pretty", "compact", "json"}
             /\ o.hideAttrs \in BOOLEAN /\ o.showResource \in BOOLEAN
             /\ o.minDurationNs \in Nat /\ o.minDurationNs <= MaxInt64
<1>1. MaxTime \in Nat  BY BodiesAssumption
<1>2. MaxInt64 \in Nat /\ MaxInt64 <= MaxTime  BY <1>1 DEF MaxInt64
<1>3. cfg.minDuration \in (-MaxInt64 - 1)..MaxInt64 /\ cfg.noAttrs \in BOOLEAN
      /\ cfg.resource \in BOOLEAN
  BY LinesAssumption
<1>4. cfg.minDuration \in Nat /\ cfg.minDuration <= MaxInt64  BY <1>2, <1>3 DEF ParseConfig
<1>5. cfg.minDuration % (MaxTime + 1) = cfg.minDuration
  <2> DEFINE d == cfg.minDuration
             m == MaxTime + 1
  <2>1. d \in Nat /\ m \in Nat \ {0} /\ d < m  BY <1>1, <1>2, <1>4
  <2> HIDE DEF d, m
  <2>2. 0 * m + d = d  BY <2>1
  <2>3. (0 * m + d) % m = d  BY <2>1, ModUnique
  <2> QED  BY <2>2, <2>3 DEF d, m
<1>6. cfg.output \in {"pretty", "compact", "json"}  BY DEF ParseConfig
<1> QED  BY <1>3, <1>4, <1>5, <1>6 DEF RenderOptions

\* the line of an item
Line(x) ==
  IF body.signal = "traces"
  THEN IF options.mode = "json" THEN spanJSON(x, options) ELSE spanCompact(x)
  ELSE IF options.mode = "json" THEN logJSON(x, options) ELSE logLine(x, options)

LEMMA LinesAre ==
  ASSUME LinesInv, Printed, body.signal # "metrics"
  PROVE  /\ body.signal \in {"traces", "logs"}
         /\ options.minDurationNs <= MaxInt64
         /\ options.hideAttrs \in BOOLEAN /\ options.showResource \in BOOLEAN
         /\ Len(lines) = Len(Wanted) /\ DOMAIN lines = DOMAIN Wanted
         /\ \A i \in DOMAIN lines : lines[i] = Line(Wanted[i]) /\ IsItem(Wanted[i], body.signal)
<1> DEFINE s == body.meaning
           T == Elements(s)
           o == options
           kept == IF body.signal = "traces" THEN filterSpans(s, o) ELSE Chosen(s, OfService(s, o))
<1>1. /\ body.signal \in {"traces", "logs"} /\ IsList(s)
      /\ \A i \in DOMAIN s : IsItem(s[i], body.signal)
  <2>1. PICK r \in Requests : body = BodyOf(r)  BY DEF LinesInv
  <2> QED  BY <2>1, BodiesAssumption
<1>2. s \in Seq(T)  BY <1>1, ListIsSeq
<1>3. \A x \in T : IsItem(x, body.signal)  BY <1>1 DEF Elements
<1>4. /\ o.minDurationNs \in Nat /\ o.minDurationNs <= MaxInt64
      /\ o.hideAttrs \in BOOLEAN /\ o.showResource \in BOOLEAN
  <2>1. PICK cfg \in Configs : ParseConfig(cfg) /\ options = RenderOptions(cfg)
    BY DEF LinesInv, Printed
  <2> QED  BY <2>1, OptionsFacts
<1>5. lines = CASE body.signal = "traces" -> Traces(s, o)
                [] body.signal = "logs" -> Logs(s, o)
                [] body.signal = "metrics" -> <<Metrics(s, o)>>
  BY DEF LinesInv, Printed
<1> DEFINE W == {i \in DOMAIN s :
             /\ o.service \in {"", s[i].service}
             /\ body.signal = "traces" /\ o.minDurationNs > 0 =>
                  \E j \in DOMAIN s :
                    LET other == s[j]
                    IN  /\ other.trace = s[i].trace
                        /\ o.service \in {"", other.service}
                        /\ other.end >= other.start + o.minDurationNs}
<1>6. Wanted = Chosen(s, W)  BY DEF Wanted
<1>7. kept = Chosen(s, W)
  <2>1. CASE body.signal = "traces"
    <3> DEFINE J == {i \in DOMAIN s :
             /\ i \in OfService(s, o)
             /\ o.minDurationNs > 0 =>
                  \E j \in OfService(s, o) :
                    s[j].trace = s[i].trace /\ Lasts(s[j], o.minDurationNs)}
    <3>1. \A x \in T : x.start \in Nat /\ x.end \in Nat
      <4>1. MaxTime \in Nat  BY BodiesAssumption
      <4>2. \A x \in T : x.start \in 0..MaxTime /\ x.end \in 0..MaxTime  BY <1>3, <2>1 DEF IsItem
      <4> QED  BY <4>1, <4>2
    <3>2. filterSpans(s, o) = Chosen(s, J)
      <4> HIDE DEF s, T, o
      <4> QED  BY <1>2, <1>4, <3>1, filterSpansIs
    <3>3. \A i \in DOMAIN s : i \in J <=> i \in W
      <4> HIDE DEF s, T, o
      <4> QED  BY <2>1 DEF OfService, Lasts
    <3> HIDE DEF s, T, o, J, W
    <3>4. Chosen(s, J) = Chosen(s, W)  BY <1>2, <3>3, ChosenSame
    <3> QED  BY <2>1, <3>2, <3>4
  <2>2. CASE body.signal # "traces"
    <3>1. \A i \in DOMAIN s : i \in OfService(s, o) <=> i \in W  BY <2>2 DEF OfService
    <3> HIDE DEF s, T, o, W
    <3>2. Chosen(s, OfService(s, o)) = Chosen(s, W)  BY <1>2, <3>1, ChosenSame
    <3> QED  BY <2>2, <3>2
  <2> QED  BY <2>1, <2>2
<1> HIDE DEF W
<1>8. Wanted = kept  BY <1>6, <1>7
<1>9. Wanted \in Seq(T)
  <2> HIDE DEF s, T
  <2> QED  BY <1>2, <1>6, ChosenType
<1>10. lines = [i \in DOMAIN Wanted |-> Line(Wanted[i])]
  <2>1. CASE body.signal = "traces"
    <3>1. lines = Traces(s, o)  BY <1>5, <2>1
    <3>2. Wanted = filterSpans(s, o)  BY <1>8, <2>1
    <3> HIDE DEF s, kept
    <3> QED  BY <2>1, <3>1, <3>2 DEF Traces, Line
  <2>2. CASE body.signal = "logs"
    <3>1. lines = Logs(s, o)  BY <1>5, <2>2
    <3>2. Wanted = Chosen(s, OfService(s, o))  BY <1>8, <2>2
    <3> HIDE DEF s, kept
    <3> QED  BY <2>2, <3>1, <3>2 DEF Logs, Line
  <2> QED  BY <1>1, <2>1, <2>2
<1> HIDE DEF s, T, kept
<1>11. Len(Wanted) \in Nat /\ DOMAIN Wanted = 1..Len(Wanted)
       /\ \A i \in DOMAIN Wanted : Wanted[i] \in T
  BY <1>9, LenProperties, ElementOfSeq
<1>12. Len(lines) = Len(Wanted)
  <2> DEFINE n == Len(Wanted)
  <2>1. n \in Nat /\ lines = [i \in 1..n |-> lines[i]]  BY <1>10, <1>11
  <2> HIDE DEF n
  <2> QED  BY <2>1, LenIs DEF n
<1>13. DOMAIN lines = DOMAIN Wanted /\ \A i \in DOMAIN lines : lines[i] = Line(Wanted[i])
  BY <1>10
<1>14. \A i \in DOMAIN lines : IsItem(Wanted[i], body.signal)  BY <1>3, <1>11, <1>13
<1> QED  BY <1>1, <1>4, <1>12, <1>13, <1>14 DEF o

\* the forms of lines
LEMMA FormOf ==
  ASSUME NEW x, body.signal \in {"traces", "logs"}
  PROVE  /\ body.signal = "traces" /\ options.mode # "json" =>
              Line(x) = spanCompact(x) /\ Line(x).form = "compact"
         /\ body.signal = "logs" /\ options.mode # "json" =>
              Line(x) = logLine(x, options) /\ Line(x).form = "log"
         /\ body.signal = "traces" /\ options.mode = "json" =>
              \/ Line(x) = jsonSpan(x, options) /\ Line(x).form = "object"
              \/ Line(x).form = "error"
         /\ body.signal = "logs" /\ options.mode = "json" =>
              \/ /\ Line(x).form = "object"
                 /\ Line(x).attributes = IF options.hideAttrs THEN << >> ELSE attrsToMap(x.attrs)
              \/ Line(x).form = "blank"
<1>1. ASSUME body.signal = "traces", options.mode # "json"
      PROVE  Line(x) = spanCompact(x) /\ Line(x).form = "compact"
  BY <1>1 DEF Line, spanCompact
<1>2. ASSUME body.signal = "logs", options.mode # "json"
      PROVE  Line(x) = logLine(x, options) /\ Line(x).form = "log"
  BY <1>2 DEF Line, logLine
<1>3. ASSUME body.signal = "traces", options.mode = "json"
      PROVE  \/ Line(x) = jsonSpan(x, options) /\ Line(x).form = "object"
             \/ Line(x).form = "error"
  <2>1. Line(x) = spanJSON(x, options)  BY <1>3 DEF Line
  <2>2. jsonSpan(x, options).form = "object"  BY DEF jsonSpan
  <2>3. [form |-> "error"].form = "error"  OBVIOUS
  <2> QED  BY <2>1, <2>2, <2>3 DEF spanJSON
<1>4. ASSUME body.signal = "logs", options.mode = "json"
      PROVE  \/ /\ Line(x).form = "object"
                /\ Line(x).attributes = IF options.hideAttrs THEN << >> ELSE attrsToMap(x.attrs)
             \/ Line(x).form = "blank"
  <2>1. Line(x) = logJSON(x, options)  BY <1>4 DEF Line
  <2> QED  BY <2>1 DEF logJSON
<1> QED  BY <1>1, <1>2, <1>3, <1>4

-----------------------------------------------------------------------------
LEMMA OneLineHolds == LinesInv => OneLinePerItem
<1> SUFFICES ASSUME LinesInv, Printed, body.signal # "metrics"
             PROVE  /\ options.minDurationNs <= MaxInt64
                    /\ Len(lines) = Len(Wanted)
                    /\ \A i \in DOMAIN lines :
                         /\ lines[i].form = "compact" /\ Wanted[i].name # "" =>
                              lines[i].name = Wanted[i].name
                         /\ lines[i].form = "object" /\ body.signal = "traces" =>
                              lines[i].name = Wanted[i].name /\ lines[i].spanId = Wanted[i].id
                         /\ lines[i].form = "log" => lines[i].body = AsText(Wanted[i].body)
  BY DEF OneLinePerItem
<1>1. /\ body.signal \in {"traces", "logs"}
      /\ options.minDurationNs <= MaxInt64
      /\ Len(lines) = Len(Wanted)
      /\ \A i \in DOMAIN lines : lines[i] = Line(Wanted[i])
  BY LinesAre
<1>2. ASSUME NEW x
      PROVE  /\ Line(x).form = "compact" /\ x.name # "" => Line(x).name = x.name
             /\ Line(x).form = "object" /\ body.signal = "traces" =>
                  Line(x).name = x.name /\ Line(x).spanId = x.id
             /\ Line(x).form = "log" => Line(x).body = AsText(x.body)
  <2>1. x.name # "" => spanCompact(x).name = x.name  BY DEF spanCompact
  <2>2. jsonSpan(x, options).name = x.name /\ jsonSpan(x, options).spanId = x.id  BY DEF jsonSpan
  <2>3. logLine(x, options).body = AsText(x.body)  BY DEF logLine
  <2>4. /\ body.signal = "traces" /\ options.mode # "json" =>
             Line(x) = spanCompact(x) /\ Line(x).form = "compact"
        /\ body.signal = "logs" /\ options.mode # "json" =>
             Line(x) = logLine(x, options) /\ Line(x).form = "log"
        /\ body.signal = "traces" /\ options.mode = "json" =>
             (Line(x) = jsonSpan(x, options) /\ Line(x).form = "object") \/ Line(x).form = "error"
        /\ body.signal = "logs" /\ options.mode = "json" =>
             Line(x).form = "object" \/ Line(x).form = "blank"
    BY <1>1, FormOf
  <2>5. CASE body.signal = "traces" /\ options.mode # "json"  BY <2>1, <2>4, <2>5
  <2>6. CASE body.signal = "logs" /\ options.mode # "json"  BY <2>3, <2>4, <2>6
  <2>7. CASE body.signal = "traces" /\ options.mode = "json"  BY <2>2, <2>4, <2>7
  <2>8. CASE body.signal = "logs" /\ options.mode = "json"  BY <2>4, <2>8
  <2> QED  BY <1>1, <2>5, <2>6, <2>7, <2>8
<1>3. \A i \in DOMAIN lines :
        /\ lines[i].form = "compact" /\ Wanted[i].name # "" => lines[i].name = Wanted[i].name
        /\ lines[i].form = "object" /\ body.signal = "traces" =>
             lines[i].name = Wanted[i].name /\ lines[i].spanId = Wanted[i].id
        /\ lines[i].form = "log" => lines[i].body = AsText(Wanted[i].body)
  BY <1>1, <1>2
<1> QED  BY <1>1, <1>3

-----------------------------------------------------------------------------
LEMMA LastPosition ==
  ASSUME NEW attrs, IsList(attrs), NEW k \in DOMAIN attrs
  PROVE  LET at == PositionsOf(attrs, attrs[k].key)
         IN  /\ DOMAIN attrs = 1..Len(attrs) /\ Len(attrs) \in Nat
             /\ at \subseteq 1..Len(attrs)
             /\ Max(at) \in at /\ \A i \in at : Max(at) >= i
             /\ Min(at) \in at
<1> DEFINE at == PositionsOf(attrs, attrs[k].key)
<1>1. DOMAIN attrs = 1..Len(attrs) /\ Len(attrs) \in Nat  BY DEF IsList
<1>2. at \subseteq 1..Len(attrs) /\ k \in at  BY <1>1 DEF PositionsOf
<1> HIDE DEF at
<1>3. IsFiniteSet(at)  BY <1>1, <1>2, IntervalFinite, FS_Subset
<1>4. at \subseteq Int /\ at # {}  BY <1>1, <1>2
<1>5. Max(at) \in at /\ \A i \in at : Max(at) >= i  BY <1>3, <1>4, MaxIsGreatest
<1>6. Min(at) \in at  BY <1>3, <1>4, MinIsLeast
<1> QED  BY <1>1, <1>2, <1>5, <1>6 DEF at

LEMMA attrsToMapIs ==
  ASSUME NEW attrs, IsList(attrs)
  PROVE  /\ DOMAIN attrsToMap(attrs) = {attrs[k].key : k \in DOMAIN attrs}
         /\ \A k \in DOMAIN attrs :
              LET m == Max(PositionsOf(attrs, attrs[k].key))
              IN  /\ attrsToMap(attrs)[attrs[k].key] = Native(attrs[m].value)
                  /\ m \in DOMAIN attrs /\ attrs[m].key = attrs[k].key
                  /\ m = k \/ m \in (k + 1)..Len(attrs)
<1>1. DOMAIN attrsToMap(attrs) = {attrs[k].key : k \in DOMAIN attrs}  BY DEF attrsToMap, Keys
<1>2. ASSUME NEW k \in DOMAIN attrs
      PROVE  LET m == Max(PositionsOf(attrs, attrs[k].key))
             IN  /\ attrsToMap(attrs)[attrs[k].key] = Native(attrs[m].value)
                 /\ m \in DOMAIN attrs /\ attrs[m].key = attrs[k].key
                 /\ m = k \/ m \in (k + 1)..Len(attrs)
  <2> DEFINE at == PositionsOf(attrs, attrs[k].key)
             m == Max(at)
  <2>1. /\ DOMAIN attrs = 1..Len(attrs) /\ Len(attrs) \in Nat /\ at \subseteq 1..Len(attrs)
        /\ m \in at /\ \A i \in at : m >= i
    BY LastPosition
  <2>2. attrs[k].key \in Keys(attrs)  BY DEF Keys
  <2>3. attrsToMap(attrs)[attrs[k].key] = Native(attrs[m].value)  BY <2>2 DEF attrsToMap
  <2>4. k \in at  BY DEF PositionsOf
  <2>5. \A i \in at : i \in DOMAIN attrs /\ attrs[i].key = attrs[k].key  BY DEF PositionsOf
  <2> HIDE DEF at, m
  <2>6. m \in 1..Len(attrs) /\ k \in 1..Len(attrs) /\ m >= k  BY <2>1, <2>4
  <2>7. m = k \/ m \in (k + 1)..Len(attrs)  BY <2>1, <2>6
  <2> QED  BY <2>1, <2>3, <2>5, <2>7 DEF at, m
<1> QED  BY <1>1, <1>2

\* what lasts of the attributes is what the map holds
LEMMA MarshalsIf ==
  ASSUME NEW attrs, IsList(attrs)
  PROVE  Marshals(attrsToMap(attrs)) <=> ~\E kv \in Lasting(attrs) : NotInJSON(kv)
<1> DEFINE map == attrsToMap(attrs)
<1>1. DOMAIN map = {attrs[k].key : k \in DOMAIN attrs}  BY attrsToMapIs
<1>2. ASSUME NEW v PROVE /\ Native(v).kind = "double" <=> v.kind = "double"
                         /\ v.kind = "double" => Native(v) = v
  BY DEF Native
<1>3. \A k \in DOMAIN attrs :
        LET m == Max(PositionsOf(attrs, attrs[k].key))
        IN  /\ map[attrs[k].key] = Native(attrs[m].value)
            /\ m \in DOMAIN attrs /\ attrs[m].key = attrs[k].key
            /\ m = k \/ m \in (k + 1)..Len(attrs)
  BY attrsToMapIs
<1> HIDE DEF map
<1>4. ASSUME NEW kv \in Lasting(attrs), NotInJSON(kv) PROVE ~Marshals(map)
  <2>1. PICK k \in DOMAIN attrs : kv = attrs[k] /\ \A j \in (k + 1)..Len(attrs) : attrs[j].key # attrs[k].key
    BY DEF Lasting
  <2>2. map[kv.key] = Native(kv.value) /\ kv.key \in DOMAIN map  BY <1>1, <1>3, <2>1
  <2>3. map[kv.key].kind = "double" /\ map[kv.key].val \in {"NaN", "Inf"}
    BY <1>2, <1>4, <2>2 DEF NotInJSON
  <2> QED  BY <2>2, <2>3 DEF Marshals
<1>5. ASSUME ~Marshals(map) PROVE \E kv \in Lasting(attrs) : NotInJSON(kv)
  <2>1. PICK key \in DOMAIN map : map[key].kind = "double" /\ map[key].val \in {"NaN", "Inf"}
    BY <1>5 DEF Marshals
  <2>2. PICK k \in DOMAIN attrs : attrs[k].key = key  BY <1>1
  <2> DEFINE m == Max(PositionsOf(attrs, attrs[k].key))
  <2>3. m \in DOMAIN attrs /\ attrs[m].key = key /\ map[key] = Native(attrs[m].value)
    BY <1>3, <2>2
  <2>4. \A j \in (m + 1)..Len(attrs) : attrs[j].key # attrs[m].key
    <3>1. /\ DOMAIN attrs = 1..Len(attrs) /\ Len(attrs) \in Nat
          /\ \A i \in PositionsOf(attrs, attrs[k].key) : m >= i
      BY LastPosition
    <3> HIDE DEF m
    <3>2. \A j \in (m + 1)..Len(attrs) : j \in DOMAIN attrs /\ ~(m >= j)  BY <2>3, <3>1
    <3> QED  BY <2>2, <2>3, <3>1, <3>2 DEF PositionsOf
  <2> HIDE DEF m
  <2>5. attrs[m] \in Lasting(attrs)  BY <2>3, <2>4 DEF Lasting
  <2>6. NotInJSON(attrs[m])  BY <1>2, <2>1, <2>3 DEF NotInJSON
  <2> QED  BY <2>5, <2>6
<1> QED  BY <1>4, <1>5 DEF map

LEMMA StreamHolds == LinesInv => StreamStaysJSON
<1> SUFFICES ASSUME LinesInv, Printed, body.signal # "metrics", options.mode = "json",
                    NEW i \in DOMAIN lines
             PROVE  lines[i].form =
                      CASE ~\E kv \in Shown(Wanted[i]) : NotInJSON(kv) -> "object"
                        [] OTHER -> IF body.signal = "traces" THEN "error" ELSE "blank"
  BY DEF StreamStaysJSON
<1> DEFINE x == Wanted[i]
           o == options
<1>1. /\ body.signal \in {"traces", "logs"} /\ lines[i] = Line(x) /\ IsItem(x, body.signal)
      /\ o.hideAttrs \in BOOLEAN /\ o.showResource \in BOOLEAN
  BY LinesAre
<1> HIDE DEF x
<1>2. IsList(x.attrs) /\ IsList(x.resource)  BY <1>1 DEF IsItem
<1>3. Marshals(<< >>)  BY DEF Marshals
<1>4. /\ Marshals(attrsToMap(x.attrs)) <=> ~\E kv \in Lasting(x.attrs) : NotInJSON(kv)
      /\ Marshals(attrsToMap(x.resource)) <=> ~\E kv \in Lasting(x.resource) : NotInJSON(kv)
  BY <1>2, MarshalsIf
<1>5. CASE body.signal = "traces"
  <2> DEFINE js == jsonSpan(x, o)
             a == js.attributes
             b == js.resource
  <2>1. /\ a = IF o.hideAttrs THEN << >> ELSE attrsToMap(x.attrs)
        /\ b = IF o.hideAttrs \/ ~o.showResource THEN << >> ELSE attrsToMap(x.resource)
        /\ js.form = "object"
    BY DEF jsonSpan
  <2>2. Line(x) = IF Marshals(a) /\ Marshals(b) THEN js ELSE [form |-> "error"]
    BY <1>5 DEF Line, spanJSON
  <2> HIDE DEF js, a, b
  <2>3. (Marshals(a) /\ Marshals(b)) <=> ~\E kv \in Shown(x) : NotInJSON(kv)
    <3>1. CASE o.hideAttrs  BY <1>3, <2>1, <3>1 DEF Shown
    <3>2. CASE ~o.hideAttrs /\ o.showResource
      BY <1>4, <1>5, <2>1, <3>2 DEF Shown
    <3>3. CASE ~o.hideAttrs /\ ~o.showResource
      BY <1>3, <1>4, <2>1, <3>3 DEF Shown
    <3> QED  BY <1>1, <3>1, <3>2, <3>3
  <2>4. [form |-> "error"].form = "error"  OBVIOUS
  <2> QED  BY <1>1, <1>5, <2>1, <2>2, <2>3, <2>4 DEF x
<1>6. CASE body.signal = "logs"
  <2> DEFINE js == [form |-> "object", time |-> x.time, level |-> Level(x), service |-> x.service,
                    body |-> AsText(x.body), traceId |-> x.trace, spanId |-> x.id,
                    attributes |-> IF o.hideAttrs THEN << >> ELSE attrsToMap(x.attrs)]
             a == js.attributes
  <2>1. a = (IF o.hideAttrs THEN << >> ELSE attrsToMap(x.attrs)) /\ js.form = "object"
    OBVIOUS
  <2>2. Line(x) = IF Marshals(a) THEN js ELSE [form |-> "blank"]
    BY <1>6 DEF Line, logJSON
  <2> HIDE DEF js, a
  <2>3. Marshals(a) <=> ~\E kv \in Shown(x) : NotInJSON(kv)
    <3>1. CASE o.hideAttrs  BY <1>3, <2>1, <3>1 DEF Shown
    <3>2. CASE ~o.hideAttrs  BY <1>4, <1>6, <2>1, <3>2 DEF Shown
    <3> QED  BY <1>1, <3>1, <3>2
  <2>4. [form |-> "blank"].form = "blank"  OBVIOUS
  <2> QED  BY <1>1, <1>6, <2>1, <2>2, <2>3, <2>4 DEF x
<1> QED  BY <1>1, <1>5, <1>6

LEMMA DurationsHold == LinesInv => DurationsReadBack
<1> SUFFICES ASSUME LinesInv, Printed, body.signal = "traces", NEW i \in DOMAIN lines
             PROVE  LET lasted == Max({0, Wanted[i].end - Wanted[i].start})
                    IN  /\ lines[i].form = "compact" => Faithful(lines[i].duration, lasted)
                        /\ lines[i].form = "object" => lines[i].duration = lasted
  BY DEF DurationsReadBack
<1> DEFINE x == Wanted[i]
           lasted == Max({0, x.end - x.start})
<1>1. lines[i] = Line(x) /\ IsItem(x, body.signal)  BY LinesAre
<1> HIDE DEF x
<1>2. x.start \in Nat /\ x.end \in Nat
  <2>1. MaxTime \in Nat  BY BodiesAssumption
  <2>2. x.start \in 0..MaxTime /\ x.end \in 0..MaxTime  BY <1>1 DEF IsItem
  <2> QED  BY <2>1, <2>2
<1>3. lasted = DurationNano(x) /\ lasted \in Nat
  <2> DEFINE d == x.end - x.start
  <2>1. d \in Int  BY <1>2
  <2> HIDE DEF d
  <2>2. {0, d} \subseteq Int /\ IsFiniteSet({0, d}) /\ {0, d} # {}
    <3>1. IsFiniteSet({0})  BY FS_Singleton
    <3>2. IsFiniteSet({0} \cup {d})  BY <3>1, FS_AddElement
    <3>3. {0} \cup {d} = {0, d}  OBVIOUS
    <3> QED  BY <2>1, <3>2, <3>3
  <2>3. Max({0, d}) \in {0, d} /\ \A y \in {0, d} : Max({0, d}) >= y  BY <2>2, MaxIsGreatest
  <2>4. Max({0, d}) = IF d <= 0 THEN 0 ELSE d  BY <2>1, <2>3
  <2>5. d <= 0 <=> x.end <= x.start  BY <1>2 DEF d
  <2>6. lasted = Max({0, d})  BY DEF d
  <2>7. DurationNano(x) = IF d <= 0 THEN 0 ELSE d  BY <2>5 DEF DurationNano, d
  <2> QED  BY <2>1, <2>4, <2>6, <2>7
<1> HIDE DEF lasted
<1>4. Faithful(FormatDuration(lasted), lasted)  BY <1>3, DurationsFaithful
<1>5. spanCompact(x).duration = FormatDuration(lasted)  BY <1>3 DEF spanCompact
<1>6. jsonSpan(x, options).duration = lasted  BY <1>3 DEF jsonSpan
<1>7. /\ options.mode # "json" => Line(x) = spanCompact(x) /\ Line(x).form = "compact"
      /\ options.mode = "json" =>
           \/ Line(x) = jsonSpan(x, options) /\ Line(x).form = "object"
           \/ Line(x).form = "error"
  BY FormOf
<1>8. /\ lines[i].form = "compact" => Faithful(lines[i].duration, lasted)
      /\ lines[i].form = "object" => lines[i].duration = lasted
  <2>1. CASE options.mode # "json"
    <3>1. lines[i].form = "compact" /\ lines[i].duration = FormatDuration(lasted)
      BY <1>1, <1>5, <1>7, <2>1
    <3> QED  BY <1>4, <3>1
  <2>2. CASE options.mode = "json"
    <3>1. lines[i].form # "compact"  BY <1>1, <1>7, <2>2
    <3>2. lines[i].form = "object" => lines[i].duration = lasted  BY <1>1, <1>6, <1>7, <2>2
    <3> QED  BY <3>1, <3>2
  <2> QED  BY <2>1, <2>2
<1> QED  BY <1>8 DEF lasted, x

\* a key that is there once
LEMMA OnceIs ==
  ASSUME NEW attrs, IsList(attrs), NEW k \in DOMAIN attrs, Once(attrs, attrs[k])
  PROVE  /\ PositionsOf(attrs, attrs[k].key) = {k}
         /\ Max(PositionsOf(attrs, attrs[k].key)) = k
         /\ Min(PositionsOf(attrs, attrs[k].key)) = k
<1> DEFINE at == PositionsOf(attrs, attrs[k].key)
<1>1. Cardinality(at) = 1  BY DEF Once, PositionsOf
<1>2. at \subseteq 1..Len(attrs) /\ Len(attrs) \in Nat /\ Max(at) \in at /\ Min(at) \in at
  BY LastPosition
<1>3. k \in at  BY DEF PositionsOf
<1> HIDE DEF at
<1>4. IsFiniteSet(at)  BY <1>2, IntervalFinite, FS_Subset
<1>5. PICK e : at = {e}  BY <1>1, <1>4, FS_Singleton
<1> QED  BY <1>2, <1>3, <1>5 DEF at

LEMMA serviceNameOf ==
  ASSUME NEW attrs, IsList(attrs), NEW k \in DOMAIN attrs, Once(attrs, attrs[k]),
         attrs[k].key = "service.name", attrs[k].value.kind = "string"
  PROVE  serviceName(attrs) = attrs[k].value.val
<1> DEFINE at == PositionsOf(attrs, attrs[k].key)
           I == {i \in 1..Len(attrs) : attrs[i].key = "service.name"}
<1>1. at = {k} /\ Min(at) = k  BY OnceIs
<1>2. DOMAIN attrs = 1..Len(attrs) /\ Len(attrs) \in Nat  BY DEF IsList
<1>3. I = at  BY <1>2 DEF PositionsOf
<1>4. SelectInSeq(attrs, LAMBDA kv : kv.key = "service.name") = IF I # {} THEN Min(I) ELSE 0
  BY DEF SelectInSeq
<1> HIDE DEF at, I
<1>5. SelectInSeq(attrs, LAMBDA kv : kv.key = "service.name") = k  BY <1>1, <1>3, <1>4
<1>6. k # 0  BY <1>2
<1> QED  BY <1>5, <1>6 DEF serviceName

LEMMA AttributesHold == LinesInv => AttributesSurvive
<1> SUFFICES ASSUME LinesInv, Printed, body.signal # "metrics", NEW i \in DOMAIN lines,
                    lines[i].form = "object"
             PROVE  LET kept == IF options.hideAttrs THEN << >> ELSE Wanted[i].attrs
                    IN  /\ DOMAIN lines[i].attributes = {kept[k].key : k \in DOMAIN kept}
                        /\ \A k \in DOMAIN kept :
                             \/ \E j \in (k + 1)..Len(kept) : kept[j].key = kept[k].key
                             \/ lines[i].attributes[kept[k].key] = Native(kept[k].value)
                        /\ body.signal = "traces" /\ ~options.hideAttrs /\ options.showResource =>
                             LET res == lines[i].resource
                             IN  \A kv \in ToSet(Wanted[i].resource) : Once(Wanted[i].resource, kv) =>
                                   /\ res[kv.key] = Native(kv.value)
                                   /\ kv.key = "service.name" /\ kv.value.kind = "string" =>
                                        lines[i].service = res[kv.key].val
  BY DEF AttributesSurvive
<1> DEFINE x == Wanted[i]
           l == lines[i]
           kept == IF options.hideAttrs THEN << >> ELSE x.attrs
<1>1. /\ body.signal \in {"traces", "logs"} /\ l = Line(x) /\ IsItem(x, body.signal)
      /\ options.hideAttrs \in BOOLEAN
  BY LinesAre
<1>2. l.form = "object"  OBVIOUS
<1> HIDE DEF x, l
<1>3. IsList(x.attrs) /\ IsList(x.resource) /\ x.service = serviceName(x.resource)
  BY <1>1 DEF IsItem
<1>4. \/ body.signal = "traces" /\ l = jsonSpan(x, options)
      \/ /\ body.signal = "logs"
         /\ l.attributes = IF options.hideAttrs THEN << >> ELSE attrsToMap(x.attrs)
  BY <1>1, <1>2, FormOf
<1>5. l.attributes = IF options.hideAttrs THEN << >> ELSE attrsToMap(x.attrs)
  BY <1>4 DEF jsonSpan
<1> DEFINE Mapped(attrs, map) ==
             /\ DOMAIN map = {attrs[k].key : k \in DOMAIN attrs}
             /\ \A k \in DOMAIN attrs :
                  LET m == Max(PositionsOf(attrs, attrs[k].key))
                  IN  /\ map[attrs[k].key] = Native(attrs[m].value)
                      /\ m \in DOMAIN attrs /\ attrs[m].key = attrs[k].key
                      /\ m = k \/ m \in (k + 1)..Len(attrs)
<1>5a. ASSUME NEW attrs, IsList(attrs) PROVE Mapped(attrs, attrsToMap(attrs))
  BY <1>5a, attrsToMapIs
<1>5b. PICK a : a = x.attrs  OBVIOUS
<1>5c. PICK r : r = x.resource  OBVIOUS
<1>5d. IsList(a) /\ IsList(r) /\ Mapped(a, attrsToMap(a)) /\ Mapped(r, attrsToMap(r))
  <2> HIDE DEF Mapped
  <2> QED  BY <1>3, <1>5a, <1>5b, <1>5c
<1>6. DOMAIN l.attributes = {kept[k].key : k \in DOMAIN kept}
  <2>1. CASE options.hideAttrs  BY <1>5, <2>1
  <2>2. CASE ~options.hideAttrs  BY <1>5, <1>5b, <1>5d, <2>2
  <2> QED  BY <2>1, <2>2
<1>7. ASSUME NEW k \in DOMAIN kept
      PROVE  \/ \E j \in (k + 1)..Len(kept) : kept[j].key = kept[k].key
             \/ l.attributes[kept[k].key] = Native(kept[k].value)
  <2>1. ~options.hideAttrs /\ kept = a  BY <1>5b, <1>7
  <2> DEFINE m == Max(PositionsOf(a, a[k].key))
  <2>2. k \in DOMAIN a /\ l.attributes = attrsToMap(a)  BY <1>5, <1>5b, <1>7, <2>1
  <2>3. /\ l.attributes[a[k].key] = Native(a[m].value)
        /\ a[m].key = a[k].key
        /\ m = k \/ m \in (k + 1)..Len(a)
    BY <1>5d, <2>2
  <2> HIDE DEF m, kept
  <2> QED  BY <2>1, <2>3
<1>8. ASSUME body.signal = "traces", ~options.hideAttrs, options.showResource,
             NEW kv \in ToSet(x.resource), Once(x.resource, kv)
      PROVE  /\ l.resource[kv.key] = Native(kv.value)
             /\ kv.key = "service.name" /\ kv.value.kind = "string" =>
                  l.service = l.resource[kv.key].val
  <2>1. l = jsonSpan(x, options)  BY <1>4, <1>8
  <2>2. l.resource = attrsToMap(r) /\ l.service = serviceName(r)
    BY <1>3, <1>5c, <1>8, <2>1 DEF jsonSpan
  <2>3. PICK k \in DOMAIN r : kv = r[k]  BY <1>5c, <1>8 DEF ToSet
  <2>4. Once(r, r[k])  BY <1>5c, <1>8, <2>3
  <2>5. Max(PositionsOf(r, r[k].key)) = k
    <3> HIDE DEF Mapped
    <3> QED  BY <1>5d, <2>4, OnceIs
  <2>6. l.resource[kv.key] = Native(kv.value)  BY <1>5d, <2>2, <2>3, <2>5
  <2>7. ASSUME kv.key = "service.name", kv.value.kind = "string"
        PROVE  l.service = l.resource[kv.key].val
    <3> HIDE DEF Mapped
    <3>1. r[k].key = "service.name" /\ r[k].value.kind = "string"  BY <2>3, <2>7
    <3>2. serviceName(r) = r[k].value.val  BY <1>5d, <2>4, <3>1, serviceNameOf
    <3>3. Native(kv.value) = kv.value  BY <2>7 DEF Native
    <3> QED  BY <2>2, <2>3, <2>6, <3>2, <3>3
  <2> QED  BY <2>6, <2>7
<1> HIDE DEF kept
<1>9. \A kv \in ToSet(x.resource) :
        body.signal = "traces" /\ ~options.hideAttrs /\ options.showResource
        /\ Once(x.resource, kv) =>
             /\ l.resource[kv.key] = Native(kv.value)
             /\ kv.key = "service.name" /\ kv.value.kind = "string" =>
                  l.service = l.resource[kv.key].val
  BY <1>8
<1> QED  BY <1>6, <1>7, <1>9 DEF kept, x, l

-----------------------------------------------------------------------------
\* One line for each item that is wanted, in the order of the request, whatever the
\* values in it and however often filterSpans and the service filter go over it.
THEOREM LinesKeepItems == LinesSpec => []OneLinePerItem
BY LinesInvariant, OneLineHolds, PTL

\* In JSON mode a value without a JSON form costs a span its attributes and a log
\* record its line, and nothing else does: spanJSON and logJSON after Marshal.
THEOREM LinesStayJSON == LinesSpec => []StreamStaysJSON
BY LinesInvariant, StreamHolds, PTL

\* The duration a compact line shows reads back as the span's, rounded down to three
\* digits; a JSON line has it exactly, and a span that ends before it starts has none.
\* Spans with an end and no start are left out, as the property leaves them.
THEOREM LinesShowDurations == LinesSpec => []DurationsReadBack
BY LinesInvariant, DurationsHold, PTL

\* attrsToMap loses no key and keeps the last value of each, and the service of a line
\* is that of the resource it shows.
THEOREM LinesKeepAttributes == LinesSpec => []AttributesSurvive
BY LinesInvariant, AttributesHold, PTL
=============================================================================
