-------------------------------- MODULE Amounts --------------------------------
(***************************************************************************)
(* amounts.js: decimal text and whole numbers of the smallest unit of an   *)
(* asset. A text is its sign, the number before the point, and the number  *)
(* after it with the count of its digits.                                  *)
(***************************************************************************)
EXTENDS Integers

Power(n) == 10^n
Absolute(a) == IF a < 0 THEN -a ELSE a
Signed(negative, n) == IF negative THEN -n ELSE n
Refused == [refused |-> TRUE]
Units(n) == [refused |-> FALSE, units |-> n]

NeverTooFine(text, scale) == FALSE

(* A fraction that is too long is refused unless what is too much is zeros. *)
TooFine(text, scale) == text.digits > scale /\ text.fraction % Power(text.digits - scale) # 0
FractionUnits(text, scale) ==
  CASE text.digits = scale -> text.fraction
    [] text.digits < scale -> text.fraction * Power(scale - text.digits)
    [] text.digits > scale -> text.fraction \div Power(text.digits - scale)
DecimalToAtomic(text, scale) ==
  IF TooFine(text, scale) THEN Refused
  ELSE Units(Signed(text.negative, text.whole * Power(scale) + FractionUnits(text, scale)))

SignOfTheWhole(atomic, scale) ==
  [negative |-> atomic <= -Power(scale),
   whole |-> Absolute(atomic) \div Power(scale),
   fraction |-> Absolute(atomic) % Power(scale),
   digits |-> scale]

AtomicToDecimalString(atomic, scale) ==
  [negative |-> atomic < 0,
   whole |-> Absolute(atomic) \div Power(scale),
   fraction |-> Absolute(atomic) % Power(scale),
   digits |-> scale]
=============================================================================
