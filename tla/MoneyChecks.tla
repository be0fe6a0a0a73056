---------------------------- MODULE MoneyChecks ------------------------------
(***************************************************************************)
(* What the checks of a payment make of its amounts on their way from a    *)
(* request to a cashbox: they are derived, authorised, stored, printed,    *)
(* derived again at submission and compared with a position at execution.  *)
(* One payment at a time, of two lines: one in the currency of the cashbox *)
(* and one in the base currency.                                           *)
(***************************************************************************)
EXTENDS Integers, SequencesExt

CONSTANTS
  Radix,        \* 10
  Places,       \* fraction digits of a stored amount
  CeilingPlaces \* fraction digits at which a ceiling is compared

-----------------------------------------------------------------------------
(* Amounts travel as decimal text and are computed with as scaled integers. *)
(* Every component has conversions of its own; these are the ones that      *)
(* decide about money.                                                      *)

DecimalAssumption ==
  /\ Radix \in Nat \ {0, 1}
  /\ Places \in Nat \ {0} /\ CeilingPlaces \in Nat /\ Places <= CeilingPlaces

\* A text is a sign, a whole part and the digits of the fraction, as they stand.
Text(negative, whole, fraction) ==
  [negative |-> negative, whole |-> whole, fraction |-> fraction]

Sign(t) == IF t.negative THEN -1 ELSE 1

Magnitude(u) == IF u < 0 THEN -u ELSE u

Digits(n, k) == [i \in 1..k |-> (n \div Radix^(k - i)) % Radix]

Number(digits) == FoldLeft(LAMBDA n, d : Radix * n + d, 0, digits)

\* A longer fraction stays as long as it is.
padEnd(fraction, k) == fraction \o [i \in 1..(k - Len(fraction)) |-> 0]

\* The text of u units of k places: what formatScaled writes, and how the data
\* base prints a stored amount.
formatScaled(u, k) ==
  Text(u < 0, Magnitude(u) \div Radix^k, Digits(Magnitude(u) % Radix^k, k))

\* The digits of a text as one number, and how many of them are behind the point.
\* Zeros at the end do not count.
decimalParts(t) ==
  LET places == Max({0} \cup {i \in DOMAIN t.fraction : t.fraction[i] # 0})
  IN  [value |-> Sign(t) * (t.whole * Radix^places + Number(SubSeq(t.fraction, 1, places))),
       scale |-> places]

\* Equality of two texts as numbers.
sameDecimal(t, u) ==
  decimalParts(t).value * Radix^decimalParts(u).scale
    = decimalParts(u).value * Radix^decimalParts(t).scale

Fits(t, k) == decimalParts(t).scale <= k

\* Units of k places.  Texts with more places are refused before.
scaled(t, k) == decimalParts(t).value * Radix^(k - decimalParts(t).scale)

\* What a numeric column makes of a text of no more places than it has.
Stored(t) == scaled(t, Places)

\* Transfers: the sign holds for the whole and for the fraction.
decimalValue(t) ==
  Sign(t) * (t.whole * Radix^Places + Number(padEnd(t.fraction, Places)))

\* Payments from cashboxes: the sign holds for the whole part only.
cashboxDecimal(t) ==
  Sign(t) * t.whole * Radix^Places + Number(padEnd(t.fraction, Places))

\* Grants: amounts are never negative.
grantDecimal(t) ==
  t.whole * Radix^CeilingPlaces + Number(padEnd(t.fraction, CeilingPlaces))

\* Faulty variant: the remainder is dropped.
roundDown(n, d) == n \div d

roundDivision(n, d) == (n + d \div 2) \div d

roundSignedDivision(n, d) == IF n < 0 THEN -roundDivision(-n, d) ELSE roundDivision(n, d)

\* The value of an amount at a rate, in minor units of `places` places, and what
\* rounding it left over, in units of a stored amount.
deriveTarget(amount, rate, places) ==
  LET n == decimalParts(amount).value * decimalParts(rate).value
      d == Radix^(decimalParts(amount).scale + decimalParts(rate).scale)
      target == roundDivision(n * Radix^places, d)
  IN  [targetAmount |-> formatScaled(target, places),
       roundingDifference |->
         formatScaled(roundSignedDivision(n * Radix^Places - target * d * Radix^(Places - places), d),
                      Places)]

-----------------------------------------------------------------------------
(* The checks                                                               *)

CONSTANTS
  Amounts,        \* texts a request may carry
  Rates,          \* texts of rates
  SourcePlaces, BasePlaces,  \* fraction digits of the currencies
  Ceiling,        \* units: the ceiling of the creator's grant
  Floors,         \* units: floors a cashbox may have
  Positions,      \* units: positions the model explores
  Withheld        \* units reserved for other payments

MoneyAssumption ==
  /\ SourcePlaces \in 0..Places /\ BasePlaces \in 0..Places
  /\ Ceiling \in Nat /\ Withheld \in Nat /\ Floors \subseteq Int /\ Positions \subseteq Int

VARIABLES
  floor,      \* minimum_position of the cashbox
  position,   \* sum of its movement facts
  payment     \* the stored payment; its amounts in units of Places places

vars == <<floor, position, payment>>

NoPayment == [state |-> "NONE", amounts |-> <<0, 0>>, rate |-> Text(FALSE, 1, <<>>),
              bases |-> <<0, 0>>, difference |-> 0, total |-> 0]

Init ==
  /\ floor \in Floors
  /\ position \in {p \in Positions : p >= floor}
  /\ payment = NoPayment

\* The data base prints every stored amount with all its places.
Printed(u) == formatScaled(u, Places)

-----------------------------------------------------------------------------

withinCeiling(total) == grantDecimal(total) <= grantDecimal(Printed(Ceiling))

\* The line in base currency takes its amount as it is.
derive(amounts, rate) ==
  LET target == deriveTarget(amounts[1], rate, BasePlaces)
  IN  [bases |-> <<target.targetAmount, amounts[2]>>,
       difference |-> target.roundingDifference,
       total |-> formatScaled(scaled(target.targetAmount, BasePlaces)
                                + scaled(amounts[2], BasePlaces), BasePlaces)]

create ==
  /\ payment.state = "NONE"
  /\ \E amounts \in Amounts \X Amounts, rate \in Rates :
       LET derived == derive(amounts, rate) IN
       /\ Fits(amounts[1], SourcePlaces) /\ Fits(amounts[2], BasePlaces)
       /\ withinCeiling(derived.total)
       /\ Stored(derived.bases[1]) > 0  \* a constraint of payment_lines
       /\ payment' = [state |-> "DRAFT",
                      amounts |-> <<Stored(amounts[1]), Stored(amounts[2])>>,
                      rate |-> rate,
                      bases |-> <<Stored(derived.bases[1]), Stored(derived.bases[2])>>,
                      difference |-> Stored(derived.difference),
                      total |-> Stored(derived.total)]
  /\ UNCHANGED <<floor, position>>

\* What was derived is derived again from what was stored, and compared.
revalidates ==
  LET amounts == <<Printed(payment.amounts[1]), Printed(payment.amounts[2])>>
      derived == derive(amounts, payment.rate)
      total == scaled(Printed(payment.bases[1]), BasePlaces)
                 + scaled(Printed(payment.bases[2]), BasePlaces)
  IN  /\ Fits(amounts[1], SourcePlaces) /\ Fits(amounts[2], BasePlaces)
      /\ \A i \in 1..2 : Fits(Printed(payment.bases[i]), BasePlaces)
      /\ sameDecimal(formatScaled(total, BasePlaces), Printed(payment.total))
      /\ sameDecimal(derived.bases[1], Printed(payment.bases[1]))
      /\ sameDecimal(derived.difference, Printed(payment.difference))
      /\ sameDecimal(amounts[2], Printed(payment.bases[2]))

\* TRS-MST-003 and TOTAL_MISMATCH refuse the submission.
revalidateSubmission ==
  /\ payment.state = "DRAFT"
  /\ payment' = [payment EXCEPT !.state = IF revalidates THEN "REQUESTED" ELSE "REFUSED"]
  /\ UNCHANGED <<floor, position>>

\* The model turns to another payment; this one stays as it is.
another ==
  /\ payment.state \in {"DRAFT", "REQUESTED"} /\ payment' = NoPayment
  /\ UNCHANGED <<floor, position>>

-----------------------------------------------------------------------------

exactTotal ==
  cashboxDecimal(Printed(payment.bases[1])) + cashboxDecimal(Printed(payment.bases[2]))
    = cashboxDecimal(Printed(payment.total))

payable(amount) ==
  cashboxDecimal(Printed(position)) - cashboxDecimal(Printed(Withheld))
    - cashboxDecimal(Printed(amount)) >= cashboxDecimal(Printed(floor))

\* The amount leaves the cashbox; Positions bounds the model.
execute ==
  /\ payment.state = "REQUESTED"
  /\ exactTotal /\ payable(payment.amounts[1])
  /\ position - payment.amounts[1] \in Positions
  /\ position' = position - payment.amounts[1]
  /\ payment' = NoPayment
  /\ UNCHANGED floor

fundsOk(amount) ==
  decimalValue(Printed(position)) - decimalValue(Printed(Withheld))
    - decimalValue(Printed(amount)) >= decimalValue(Printed(floor))

release ==
  /\ \E a \in Amounts :
       /\ Fits(a, SourcePlaces) /\ fundsOk(Stored(a))
       /\ position - Stored(a) \in Positions
       /\ position' = position - Stored(a)
  /\ UNCHANGED <<floor, payment>>

receive ==
  /\ \E a \in Amounts :
       /\ Fits(a, SourcePlaces) /\ position + Stored(a) \in Positions
       /\ position' = position + Stored(a)
  /\ UNCHANGED <<floor, payment>>

Next == create \/ revalidateSubmission \/ another \/ execute \/ release \/ receive

Spec == Init /\ [][Next]_vars

-----------------------------------------------------------------------------
(* Properties                                                              *)

\* The types.  What a payment is worth is in whole minor units of the base currency.
MoneyTypeOK ==
  /\ floor \in Floors /\ position \in Positions
  /\ payment.state \in {"NONE", "DRAFT", "REQUESTED", "REFUSED"}
  /\ \A i \in 1..2 : payment.amounts[i] \in Nat /\ payment.bases[i] \in Nat
  /\ payment.total % Radix^(Places - BasePlaces) = 0

\* A payment derived at a rate in force is derived the same when it is submitted,
\* although every amount, the signed rounding difference among them, went through
\* the text of a request, a column and the text of a result (payment.service.ts:218).
StorageChangesNothing == payment.state # "REFUSED"

\* A base amount is the nearest in minor units of the base currency, and together
\* with its rounding difference it is the value of the line to the nearest unit of
\* a stored amount (payment.service.ts:695).
BaseAmountIsNearest ==
  payment.state # "NONE" =>
    LET one == Radix^decimalParts(payment.rate).scale
        value == payment.amounts[1] * decimalParts(payment.rate).value
    IN  /\ 2 * Magnitude(value - one * payment.bases[1]) <= one * Radix^(Places - BasePlaces)
        /\ 2 * Magnitude(value - one * (payment.bases[1] + payment.difference)) <= one

\* No payment is worth more than its creator's grant allows, and its total is what
\* its lines add up to, rounded line by line.
NothingAboveCeiling ==
  /\ payment.total <= Ceiling
  /\ payment.total = payment.bases[1] + payment.bases[2]

Lowers == position' < position

\* A transfer leaves its cashbox what is withheld above the floor, whatever the signs
\* and fractions of position and floor (transfer.service.ts:442).
ReleaseKeepsFloor == Lowers /\ UNCHANGED payment => position' - Withheld >= floor

\* A payment does too, but for one case: a position below zero that is not whole reads
\* as much higher as twice its fraction, for the sign is lost on the fraction.  Even
\* then less than two whole units are missing (payment-cashbox-effects.service.ts:101).
PaymentKeepsFloor ==
  Lowers /\ ~UNCHANGED payment =>
    \/ position' - Withheld >= floor
    \/ /\ position < 0 /\ Magnitude(position) % Radix^Places # 0
       /\ position' - Withheld > floor - 2 * Radix^Places

=============================================================================
