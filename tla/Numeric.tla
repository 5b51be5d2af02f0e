-------------------------------- MODULE Numeric --------------------------------
(***************************************************************************)
(* Quantities are whole numbers of minor units. A decimal text is read     *)
(* digit by digit, never through a float: either it has no more places     *)
(* than the unit, or the places that are too many are rounded away in a    *)
(* mode the caller names.                                                  *)
(*                                                                         *)
(* A decimal is given as it is cut for a unit: its sign, the number that   *)
(* the digits up to the last place of the unit form, and the tail that is  *)
(* dropped. A tail of n + 1 digits is its first digit and the number the   *)
(* others form, which is below `step', the n-th power of ten.              *)
(***************************************************************************)
EXTENDS Integers

MaxSafe == 9007199254740991
Modes == {"half-even", "half-away-from-zero", "floor", "ceil"}

(* A unit that passes defineNumericUnit.                                   *)
Units == {u \in [min : Int, max : Int] :
            -MaxSafe <= u.min /\ u.min <= u.max /\ u.max <= MaxSafe}

NoTail == [first |-> 0, rest |-> 0, step |-> 0]
Tails == {NoTail} \cup
         {x \in [first : 0 .. 9, rest : Nat, step : Nat] : x.rest < x.step}

Decimals == [negative : BOOLEAN, magnitude : Nat, tail : Tails]

(* checkMinorUnits, of a whole number; there is one zero.                  *)
Representable(value, unit) ==
  -MaxSafe <= value /\ value <= MaxSafe /\ unit.min <= value /\ value <= unit.max

Signed(negative, magnitude) == IF negative THEN -magnitude ELSE magnitude

(* parseDecimalMinorUnits refuses a tail, even one of zeros.               *)
Parses(decimal, unit) ==
  /\ decimal.tail = NoTail /\ decimal.magnitude <= MaxSafe
  /\ Representable(Signed(decimal.negative, decimal.magnitude), unit)

-----------------------------------------------------------------------------
Nothing(tail) == tail.first = 0 /\ tail.rest = 0

(* compareToHalf: by the first digit, then by whether another one follows. *)
AgainstHalf(tail) ==
  IF tail.first # 5 THEN tail.first - 5 ELSE IF tail.rest = 0 THEN 0 ELSE 1

(* Whether the magnitude grows.                                            *)
Away(magnitude, tail, mode, negative) ==
  \/ mode = "floor" /\ negative
  \/ mode = "ceil" /\ ~negative
  \/ mode = "half-away-from-zero" /\ AgainstHalf(tail) >= 0
  \/ /\ mode = "half-even"
     /\ AgainstHalf(tail) > 0 \/ (AgainstHalf(tail) = 0 /\ magnitude % 2 # 0)

Rounded(decimal, mode) ==
  Signed(decimal.negative,
         IF ~Nothing(decimal.tail)
              /\ Away(decimal.magnitude, decimal.tail, mode, decimal.negative)
         THEN decimal.magnitude + 1 ELSE decimal.magnitude)

(* roundToMinorUnits has an answer.                                        *)
Rounds(decimal, unit, mode) ==
  decimal.magnitude <= MaxSafe /\ Representable(Rounded(decimal, mode), unit)
=============================================================================
