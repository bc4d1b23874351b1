-------------------------------- MODULE Money --------------------------------
(* domain/money.go: signed integers of a fixed width, in cents. Every        *)
(* operation of the code is written with the arithmetic of that width, its   *)
(* guards included, so that a guard that overflows itself would show.        *)
EXTENDS Integers, SequencesExt

CONSTANT MaxInt   \* math.MaxInt64

ASSUME MoneyAssumption == MaxInt \in Nat /\ MaxInt >= 100

MinInt == -MaxInt - 1
Int64  == MinInt..MaxInt
Wrap(x) == ((x - MinInt) % (MaxInt - MinInt + 1)) + MinInt

\* A result: cents, or an error.
Cents(c) == [ok |-> TRUE, cents |-> c]
ErrMoneyOverflow == [ok |-> FALSE, cents |-> 0]

\* Amounts of one currency.
Add(a, b) ==
    IF \/ b > 0 /\ a > Wrap(MaxInt - b)
       \/ b < 0 /\ a < Wrap(MinInt - b)
    THEN ErrMoneyOverflow ELSE Cents(Wrap(a + b))

Sub(a, b) ==
    IF \/ b < 0 /\ a > Wrap(MaxInt + b)
       \/ b > 0 /\ a < Wrap(MinInt + b)
    THEN ErrMoneyOverflow ELSE Cents(Wrap(a - b))

Negate(a) == IF a = MinInt THEN ErrMoneyOverflow ELSE Cents(Wrap(-a))

-----------------------------------------------------------------------------
(* Decimal texts, as sign, digits of the integer part, two of the fraction   *)

\* A text that has the right form.
TextType == [neg : BOOLEAN, units : Seq(0..9), frac : (0..9) \X (0..9)]

Text(neg, units, frac) == [neg |-> neg, units |-> units, frac |-> frac]

Digits[n \in 0..MaxInt] == IF n < 10 THEN <<n>> ELSE Append(Digits[n \div 10], n % 10)
Pair(n) == <<n \div 10, n % 10>>

\* The integer part: each digit is taken if the result still fits.
Shift(part, digit) ==
    IF ~part.ok \/ part.cents > Wrap(MaxInt - digit) \div 10
    THEN ErrMoneyOverflow ELSE Cents(Wrap(part.cents * 10 + digit))
IntPart(units) == FoldLeft(Shift, Cents(0), units)

\* NewMoneyFromDecimal, of a text in TextType; others are turned down.
Parse(text) ==
    LET units == IntPart(text.units)
        cents == Wrap(units.cents * 100)
        frac == text.frac[1] * 10 + text.frac[2] IN
    IF ~units.ok \/ units.cents > MaxInt \div 100 \/ cents > MaxInt - frac
    THEN ErrMoneyOverflow
    ELSE Cents(IF text.neg THEN Wrap(-(cents + frac)) ELSE cents + frac)

\* Mutant: %d for the cents, without their leading zero.
AmountStringUnpadded(c) ==
    LET abs == IF c < 0 THEN Wrap(-c) ELSE c IN
    Text(c < 0, Digits[abs \div 100], Digits[abs % 100])

\* AmountString: the most negative amount has no absolute value to divide.
AmountString(c) ==
    LET abs == IF c < 0 THEN Wrap(-c) ELSE c IN
    IF c = MinInt
    THEN Text(TRUE, Digits[(MaxInt + 1) \div 100], Pair((MaxInt + 1) % 100))
    ELSE Text(c < 0, Digits[abs \div 100], Pair(abs % 100))

\* The value of a text, digit by digit: what Parse and AmountString stand for.
Value(digits) == FoldLeft(LAMBDA v, d : 10 * v + d, 0, digits)
ValueOf(text) == (IF text.neg THEN -1 ELSE 1) * Value(text.units \o text.frac)
=============================================================================
