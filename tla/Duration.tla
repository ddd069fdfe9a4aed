------------------------------- MODULE Duration -------------------------------
(***************************************************************************)
(* render.FormatDuration: a duration of some nanoseconds as three digits   *)
(* and a unit.  Ten is the base of the digits and Sixty the seconds of a   *)
(* minute and the minutes of an hour; a thousand is three digits.          *)
(*                                                                         *)
(* A text is the number before the point (or before the first letter), the *)
(* digits after it as a number, how many they are, and the unit.  "1.05us" *)
(* is [whole |-> 1, frac |-> 5, digits |-> 2, unit |-> "us"] and "2m03s"   *)
(* is [whole |-> 2, frac |-> 3, digits |-> 2, unit |-> "m"].               *)
(***************************************************************************)
EXTENDS Integers

CONSTANTS Ten, Sixty

ASSUME DigitsAssumption == Ten \in Nat \ {0, 1} /\ Sixty \in 2..(Ten * Ten)

\* how many numbers have that many digits
TenTo(places) ==
  CASE places = 0 -> 1 [] places = 1 -> Ten [] places = 2 -> Ten * Ten

Kilo == Ten * TenTo(2)
Nanos == [ns |-> 1, us |-> Kilo, ms |-> Kilo * Kilo, s |-> Kilo * Kilo * Kilo,
          m |-> Sixty * (Kilo * Kilo * Kilo), h |-> Sixty * (Sixty * (Kilo * Kilo * Kilo))]

\* the largest unit there is at least one of
Unit(ns) == CHOOSE u \in DOMAIN Nanos :
              /\ ns >= Nanos[u] \/ u = "ns"
              /\ \A w \in DOMAIN Nanos : ns >= Nanos[w] => Nanos[w] <= Nanos[u]

DurationText(whole, frac, digits, unit) ==
  [whole |-> whole, frac |-> frac, digits |-> digits, unit |-> unit]

\* three digits in all
Places(whole) == IF whole >= TenTo(2) THEN 0 ELSE IF whole >= Ten THEN 1 ELSE 2

\* mutant: the zero after the point is lost
scaled_Unpadded(ns, unit) ==
  LET whole  == ns \div Nanos[unit]
      places == Places(whole)
      d      == ((ns % Nanos[unit]) * TenTo(places)) \div Nanos[unit]
  IN  CASE d = 0 -> DurationText(whole, 0, 0, unit)
        [] d # 0 /\ d < Ten -> DurationText(whole, d, 1, unit)
        [] OTHER -> DurationText(whole, d, places, unit)

\* three digits, without a last zero after the point
scaled(ns, unit) ==
  LET whole  == ns \div Nanos[unit]
      places == Places(whole)
      d      == ((ns % Nanos[unit]) * TenTo(places)) \div Nanos[unit]
  IN  CASE d = 0 -> DurationText(whole, 0, 0, unit)
        [] d # 0 /\ places = 2 /\ d % Ten = 0 -> DurationText(whole, d \div Ten, 1, unit)
        [] OTHER -> DurationText(whole, d, places, unit)

FormatDuration(ns) ==
  LET unit  == Unit(ns)
      below == IF unit = "h" THEN "m" ELSE "s"
  IN  CASE unit = "ns" -> DurationText(ns, 0, 0, unit)
        [] unit \in {"us", "ms", "s"} -> scaled(ns, unit)
        [] OTHER -> DurationText(ns \div Nanos[unit], (ns % Nanos[unit]) \div Nanos[below], 2, unit)

-----------------------------------------------------------------------------
(* What a reader takes a text for.                                         *)

\* the unit of its last digit, in nanoseconds
Grain(text) ==
  CASE text.unit = "ns" -> 1
    [] text.unit = "m" -> Nanos.s
    [] text.unit = "h" -> Nanos.m
    [] OTHER -> Nanos[text.unit] \div TenTo(text.digits)

Reads(text) == text.whole * Nanos[text.unit] + text.frac * Grain(text)

\* the digits a text may have so that it shows three
Precision(text) ==
  CASE text.unit \in {"ns", "m", "h"} -> Grain(text)
    [] OTHER -> Nanos[text.unit] \div TenTo(Places(text.whole))

\* read back, the text is the duration rounded down to three digits (or to the
\* second, or the minute), is never a thousand of a unit and never drops to zero
Faithful(text, ns) ==
  /\ Reads(text) <= ns /\ ns < Reads(text) + Precision(text)
  /\ ns > 0 => Reads(text) > 0
  /\ text.unit \in {"ns", "us", "ms"} => text.whole < Kilo
  /\ text.unit \in {"s", "m"} => text.whole < Sixty
  /\ text.unit \in {"m", "h"} => text.frac < Sixty
  /\ text.digits \in {1, 2} /\ text.unit \notin {"m", "h"} =>
       text.frac % Ten # 0 /\ text.frac < TenTo(text.digits)
=============================================================================
