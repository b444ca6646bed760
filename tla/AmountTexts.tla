------------------------------ MODULE AmountTexts ------------------------------
(***************************************************************************)
(* Texts that are stored and shown again, the way an amount goes from a    *)
(* request to the ledger and to the next answer.                           *)
(***************************************************************************)
EXTENDS Amounts

CONSTANTS
  MaxWhole, MaxDigits, \* bounds: the texts of requests
  MaxScale             \* bound: scales of assets

VARIABLES text, scale

Init ==
  /\ scale \in 0 .. MaxScale
  /\ text \in UNION {[negative : BOOLEAN, whole : 0 .. MaxWhole, digits : {n}, fraction : 0 .. Power(n) - 1] : n \in 0 .. MaxDigits}

Stored == DecimalToAtomic(text, scale)
StoreAndShow == ~Stored.refused /\ text' = AtomicToDecimalString(Stored.units, scale) /\ UNCHANGED scale
Spec == Init /\ [][StoreAndShow]_<<text, scale>>

(* The value of a text times 10^digits *)
Value(t) == Signed(t.negative, t.whole * Power(t.digits) + t.fraction)

(* A text is stored as the units it says, and refused exactly when it says no whole number of
   them: nothing is rounded on the way to the ledger. *)
ExactOrRefused ==
  LET wanted == Value(text) * Power(scale) IN
  IF Stored.refused THEN wanted % Power(text.digits) # 0 ELSE Stored.units * Power(text.digits) = wanted

(* Showing what was stored does not change its value. *)
ShowsWhatIsStored ==
  ~Stored.refused =>
    LET out == AtomicToDecimalString(Stored.units, scale) IN
    Value(out) * Power(text.digits) = Value(text) * Power(out.digits)
=============================================================================
