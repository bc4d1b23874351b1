----------------------------- MODULE AuditProofs -----------------------------
(***************************************************************************)
(* For every ledger and every limit: whoever follows the cursor sees no    *)
(* entry twice and misses none of those there were. For every width of the *)
(* integers: amounts do not overflow unseen.                               *)
(***************************************************************************)
EXTENDS Audit, FoldTheorems

-----------------------------------------------------------------------------
(* Amounts                                                                   *)

\* What an operation promises: the exact result, or the error if that does not fit.
Exact(x) == IF x \in Int64 THEN Cents(x) ELSE ErrMoneyOverflow

\* A remainder of a smaller number is that number.
LEMMA SmallMod ==
  ASSUME NEW x \in Nat, NEW m \in Nat \ {0}, x < m
  PROVE  x % m = x
OBVIOUS

\* A value in range is left as it is.
LEMMA WrapInRange ==
  ASSUME NEW x \in Int64
  PROVE  Wrap(x) = x
<1>1. /\ x - MinInt \in Nat /\ MaxInt - MinInt + 1 \in Nat \ {0}
      /\ x - MinInt < MaxInt - MinInt + 1
  BY MoneyAssumption DEF Int64, MinInt
<1>2. (x - MinInt) % (MaxInt - MinInt + 1) = x - MinInt
  BY <1>1, SmallMod
<1>3. QED
  BY <1>2, MoneyAssumption DEF Wrap, Int64, MinInt

\* The guard of Add, which is Wrap(MaxInt - b) or Wrap(MinInt - b), does not
\* overflow itself, and is exact.
THEOREM AddIsExact ==
  ASSUME NEW a \in Int64, NEW b \in Int64
  PROVE  Add(a, b) = Exact(a + b)
<1>1. b > 0 => Wrap(MaxInt - b) = MaxInt - b
  BY WrapInRange, MoneyAssumption DEF Int64, MinInt
<1>2. b < 0 => Wrap(MinInt - b) = MinInt - b
  BY WrapInRange, MoneyAssumption DEF Int64, MinInt
<1>3. a + b \in Int64 => Wrap(a + b) = a + b
  BY WrapInRange
<1>4. QED
  BY <1>1, <1>2, <1>3, MoneyAssumption DEF Add, Exact, Int64, MinInt

\* Sub likewise, with its guards the other way round.
THEOREM SubIsExact ==
  ASSUME NEW a \in Int64, NEW b \in Int64
  PROVE  Sub(a, b) = Exact(a - b)
<1>1. b < 0 => Wrap(MaxInt + b) = MaxInt + b
  BY WrapInRange, MoneyAssumption DEF Int64, MinInt
<1>2. b > 0 => Wrap(MinInt + b) = MinInt + b
  BY WrapInRange, MoneyAssumption DEF Int64, MinInt
<1>3. a - b \in Int64 => Wrap(a - b) = a - b
  BY WrapInRange
<1>4. QED
  BY <1>1, <1>2, <1>3, MoneyAssumption DEF Sub, Exact, Int64, MinInt

\* Negate turns down the one amount that has no opposite.
THEOREM NegateIsExact ==
  ASSUME NEW a \in Int64
  PROVE  Negate(a) = Exact(-a)
<1>1. a # MinInt => Wrap(-a) = -a
  BY WrapInRange, MoneyAssumption DEF Int64, MinInt
<1>2. QED
  BY <1>1, MoneyAssumption DEF Negate, Exact, Int64, MinInt
\* A digit of a decimal text is taken as long as the amount fits, and no longer.
THEOREM ShiftIsExact ==
  ASSUME NEW c \in 0..MaxInt, NEW digit \in 0..9
  PROVE  Shift(Cents(c), digit) = Exact(c * 10 + digit)
<1>1. Wrap(MaxInt - digit) = MaxInt - digit
  BY WrapInRange, MoneyAssumption DEF Int64, MinInt
<1>2. c > (MaxInt - digit) \div 10 <=> c * 10 + digit > MaxInt
  BY MoneyAssumption
<1>3. c * 10 + digit <= MaxInt => Wrap(c * 10 + digit) = c * 10 + digit
  BY WrapInRange, MoneyAssumption DEF Int64, MinInt
<1>4. c * 10 + digit \in Int64 <=> c * 10 + digit <= MaxInt
  BY MoneyAssumption DEF Int64, MinInt
<1>5. Cents(c).ok /\ Cents(c).cents = c
  BY DEF Cents
<1>6. Shift(Cents(c), digit) =
        IF c * 10 + digit > MaxInt THEN ErrMoneyOverflow ELSE Cents(c * 10 + digit)
  BY <1>1, <1>2, <1>3, <1>5, MoneyAssumption DEF Shift
<1>7. QED
  BY <1>4, <1>6, MoneyAssumption DEF Exact

-----------------------------------------------------------------------------
(* Decimal texts                                                             *)

\* p[k] is what the first k digits stand for.
ValueRun(s, p) ==
    /\ p \in [0..Len(s) -> Nat] /\ p[0] = 0 /\ Value(s) = p[Len(s)]
    /\ \A k \in 0..(Len(s) - 1) : p[k + 1] = 10 * p[k] + s[k + 1]

LEMMA ValueRuns ==
  ASSUME NEW s \in Seq(Nat)
  PROVE  \E p : ValueRun(s, p)
<1> DEFINE n == Len(s)
           H(g) == [t \in SUBSET (DOMAIN s) |->
                      IF t = {} THEN 0 ELSE 10 * g[t \ {Max(t)}] + s[Max(t)]]
           h == CHOOSE g : g = H(g)
           F == [i \in 1..n |-> [v \in Nat |-> 10 * v + s[i]]]
<1>1. n \in Nat /\ DOMAIN s = 1..n /\ \A i \in 1..n : s[i] \in Nat
  OBVIOUS
<1>2. F \in [1..n -> [Nat -> Nat]]
  BY <1>1
<1>3. PICK g \in [SUBSET (1..n) -> Nat] : FoldsLeft(g, n, 0, F)
  <2> HIDE DEF F, n
  <2>1. QED
    BY <1>1, <1>2, LeftFoldExists
<1>4. \A t \in SUBSET (1..n) : t # {} => g[t] = 10 * g[t \ {Max(t)}] + s[Max(t)]
  <2> SUFFICES ASSUME NEW t \in SUBSET (1..n), t # {}
               PROVE  g[t] = 10 * g[t \ {Max(t)}] + s[Max(t)]
    OBVIOUS
  <2>1. Max(t) \in 1..n
    BY <1>1, MaxOfSome
  <2>2. QED
    BY <1>3, <2>1 DEF FoldsLeft
<1>5. g = H(g)
  BY <1>1, <1>3, <1>4 DEF FoldsLeft
<1>6. h = H(h)
  <2> HIDE DEF H
  <2>1. QED
    BY <1>5, Zenon
<1>7. Value(s) = h[1..n]
  <2>1. Value(s) = h[DOMAIN s]
    BY Zenon DEF Value, FoldLeft, MapThenFoldSet
  <2>2. QED
    BY <1>1, <2>1, Zenon
<1> HIDE DEF h
<1> DEFINE p == [k \in 0..n |-> h[1..k]]
<1>8. p[0] = 0
  <2>1. 1..0 = {} /\ {} \in SUBSET (DOMAIN s)
    OBVIOUS
  <2>2. QED
    BY <1>1, <1>6, <2>1
<1>9. \A k \in 0..(n - 1) : p[k + 1] = 10 * p[k] + s[k + 1]
  <2> SUFFICES ASSUME NEW k \in 0..(n - 1)
               PROVE  h[1..(k + 1)] = 10 * h[1..k] + s[k + 1]
    BY <1>1
  <2>1. 1..(k + 1) \in SUBSET (DOMAIN s) /\ 1..(k + 1) # {}
    <3>1. k \in Nat /\ k + 1 <= n /\ k + 1 \in 1..(k + 1)
      BY <1>1
    <3>2. 1..(k + 1) \subseteq 1..n
      BY <1>1, <3>1
    <3>3. QED
      BY <1>1, <3>1, <3>2, Zenon
  <2>2. Max(1..(k + 1)) = k + 1 /\ (1..(k + 1)) \ {k + 1} = 1..k
    BY <1>1, MaxOfFirst, FirstWithoutLast
  <2>3. h[1..(k + 1)] = 10 * h[(1..(k + 1)) \ {Max(1..(k + 1))}] + s[Max(1..(k + 1))]
    BY <1>6, <2>1
  <2>4. QED
    BY <2>2, <2>3
<1>10. p = [k \in 0..n |-> p[k]]
  OBVIOUS
<1> HIDE DEF p, n
<1>11. p \in [0..n -> Nat]
  <2> DEFINE T == {k \in Nat : k <= n => p[k] \in Nat}
  <2>1. 0 \in T
    BY <1>8
  <2>2. ASSUME NEW k \in Nat, k \in T PROVE k + 1 \in T
    <3> SUFFICES ASSUME k + 1 <= n PROVE p[k + 1] \in Nat
      OBVIOUS
    <3>1. p[k] \in Nat /\ k \in 0..(n - 1) /\ s[k + 1] \in Nat
      BY <1>1, <2>2
    <3>2. QED
      BY <1>9, <3>1
  <2>3. Nat \subseteq T
    <3> HIDE DEF T
    <3>1. QED
      BY <2>1, <2>2, AllNumbers
  <2>4. \A k \in 0..n : p[k] \in Nat
    BY <1>1, <2>3
  <2>5. QED
    BY <1>10, <2>4
<1>12. Value(s) = p[n]
  BY <1>1, <1>7 DEF p
<1>13. QED
  BY <1>8, <1>9, <1>11, <1>12 DEF ValueRun, n

LEMMA ValueEmpty == Value(<<>>) = 0
<1>1. <<>> \in Seq(Nat) /\ Len(<<>>) = 0
  OBVIOUS
<1>2. PICK p : ValueRun(<<>>, p)
  BY <1>1, ValueRuns
<1>3. QED
  BY <1>1, <1>2 DEF ValueRun

\* One more digit counts once, those before it tenfold.
LEMMA ValueAppend ==
  ASSUME NEW s \in Seq(Nat), NEW d \in Nat
  PROVE  /\ Value(s) \in Nat
         /\ Value(Append(s, d)) = 10 * Value(s) + d
<1> DEFINE n == Len(s)
           t == Append(s, d)
<1>1. /\ t \in Seq(Nat) /\ Len(t) = n + 1 /\ t[n + 1] = d /\ n \in Nat
      /\ \A k \in 1..n : t[k] = s[k]
  OBVIOUS
<1> HIDE DEF t
<1>2. PICK p : ValueRun(s, p)
  BY ValueRuns
<1>3. PICK q : ValueRun(t, q)
  BY <1>1, ValueRuns
<1>4. \A k \in 0..(n - 1) : p[k + 1] = 10 * p[k] + s[k + 1]
  BY <1>2 DEF ValueRun
<1>5. \A k \in 0..n : q[k + 1] = 10 * q[k] + t[k + 1]
  BY <1>1, <1>3 DEF ValueRun
<1>6. p[n] = q[n]
  <2>1. p[0] = q[0]
    BY <1>2, <1>3 DEF ValueRun
  <2>2. ASSUME NEW k \in 0..(n - 1), p[k] = q[k] PROVE p[k + 1] = q[k + 1]
    <3>1. k \in 0..n /\ t[k + 1] = s[k + 1]
      BY <1>1
    <3>2. QED
      BY <1>4, <1>5, <2>2, <3>1
  <2> HIDE DEF n
  <2>3. QED
    BY <1>1, <2>1, <2>2, GoOnAlike
<1>7. Value(s) = p[n] /\ p[n] \in Nat
  BY <1>1, <1>2 DEF ValueRun
<1>8. Value(t) = q[n + 1]
  <2>1. Value(t) = q[Len(t)]
    BY <1>3 DEF ValueRun
  <2>2. QED
    BY <1>1, <2>1, Zenon
<1> HIDE DEF n
<1>9. q[n + 1] = 10 * q[n] + d
  BY <1>1, <1>5
<1>10. QED
  BY <1>6, <1>7, <1>8, <1>9 DEF t

\* Digits is what its definition says.
LEMMA DigitsUnfold ==
  /\ Digits \in [0..MaxInt -> Seq(0..9)]
  /\ \A n \in 0..MaxInt :
        Digits[n] = IF n < 10 THEN <<n>> ELSE Append(Digits[n \div 10], n % 10)
<1> DEFINE Step(g) == [n \in 0..MaxInt |->
                         IF n < 10 THEN <<n>> ELSE Append(g[n \div 10], n % 10)]
           Right(g, k) == \A n \in 0..MaxInt : n <= k => g[n] = Step(g)[n]
           T == {k \in Nat : \E g \in [0..MaxInt -> Seq(0..9)] : Right(g, k)}
<1>1. \A n \in 0..MaxInt : /\ n \div 10 \in 0..MaxInt /\ n % 10 \in 0..9
                           /\ n >= 10 => n \div 10 < n
  BY MoneyAssumption
<1>2. ASSUME NEW g \in [0..MaxInt -> Seq(0..9)]
      PROVE  Step(g) \in [0..MaxInt -> Seq(0..9)]
  <2> SUFFICES ASSUME NEW n \in 0..MaxInt PROVE Step(g)[n] \in Seq(0..9)
    OBVIOUS
  <2>1. CASE n < 10
    <3>1. n \in 0..9
      BY <2>1
    <3>2. QED
      BY <2>1, <3>1
  <2>2. CASE n >= 10
    <3> DEFINE h == g[n \div 10]
               d == n % 10
    <3>1. h \in Seq(0..9) /\ d \in 0..9
      BY <1>1
    <3>2. Step(g)[n] = Append(h, d)
      BY <2>2
    <3> HIDE DEF h, d, Step
    <3>3. QED
      BY <3>1, <3>2
  <2>3. QED
    BY <2>1, <2>2
<1>3. 0 \in T
  <2> DEFINE g == [n \in 0..MaxInt |-> <<0>>]
  <2>1. g \in [0..MaxInt -> Seq(0..9)]
    OBVIOUS
  <2>2. Right(g, 0)
    BY MoneyAssumption
  <2>3. QED
    BY <2>1, <2>2
<1>4. ASSUME NEW k \in Nat, k \in T PROVE k + 1 \in T
  <2>1. PICK g \in [0..MaxInt -> Seq(0..9)] : Right(g, k)
    BY <1>4
  <2>2. ASSUME NEW n \in 0..MaxInt, n >= 10, n <= k + 1
        PROVE  g[n \div 10] = Step(g)[n \div 10]
    <3> DEFINE m == n \div 10
    <3>1. m \in 0..MaxInt /\ m <= k
      BY <1>1, <2>2
    <3>2. g[m] = Step(g)[m]
      <4> HIDE DEF m, Step
      <4>1. QED
        BY <2>1, <3>1
    <3>3. QED
      BY <3>2
  <2>3. Right(Step(g), k + 1)
    <3> SUFFICES ASSUME NEW n \in 0..MaxInt, n <= k + 1
                 PROVE  Step(g)[n] = Step(Step(g))[n]
      OBVIOUS
    <3>1. CASE n < 10
      BY <3>1
    <3>2. CASE n >= 10
      BY <1>1, <2>2, <3>2
    <3>3. QED
      BY <3>1, <3>2, MoneyAssumption
  <2>4. \E h \in [0..MaxInt -> Seq(0..9)] : Right(h, k + 1)
    <3> HIDE DEF Step, Right
    <3>1. QED
      BY <1>2, <2>1, <2>3
  <2> HIDE DEF Right
  <2>5. QED
    BY <2>4
<1>5. PICK g \in [0..MaxInt -> Seq(0..9)] : Right(g, MaxInt)
  <2>1. MaxInt \in T
    BY <1>3, <1>4, AllNumbers, MoneyAssumption
  <2>2. QED
    BY <2>1
<1>6. g = Step(g)
  BY <1>2, <1>5, MoneyAssumption
<1>7. Digits = Step(Digits)
  <2>1. Digits = CHOOSE f : f = Step(f)
    BY Zenon DEF Digits
  <2> HIDE DEF Step
  <2>2. QED
    BY <1>6, <2>1, Zenon
<1>8. \A n \in 0..MaxInt :
        Digits[n] = IF n < 10 THEN <<n>> ELSE Append(Digits[n \div 10], n % 10)
  BY <1>7
<1> HIDE DEF Step, Right, T
<1>9. ASSUME NEW n \in 0..MaxInt, \A m \in 0..MaxInt : m < n => Digits[m] \in Seq(0..9)
      PROVE  Digits[n] \in Seq(0..9)
  <2>1. CASE n < 10
    <3>1. Digits[n] = <<n>>
      BY <1>8, <2>1, Zenon
    <3>2. n \in 0..9
      BY <2>1
    <3>3. <<n>> \in Seq(0..9)
      BY <3>2
    <3>4. QED
      BY <3>1, <3>3
  <2>2. CASE n >= 10
    <3> DEFINE h == Digits[n \div 10]
               d == n % 10
    <3>1. h \in Seq(0..9)
      BY <1>1, <1>9, <2>2
    <3>2. d \in 0..9 /\ ~ (n < 10)
      BY <1>1, <2>2
    <3>3. Digits[n] = Append(h, d)
      BY <1>8, <3>2, Zenon
    <3> HIDE DEF h, d
    <3>4. QED
      BY <3>1, <3>2, <3>3
  <2>3. QED
    BY <2>1, <2>2
<1>10. \A n \in 0..MaxInt : Digits[n] \in Seq(0..9)
  <2> DEFINE U == {n \in 0..MaxInt : Digits[n] \notin Seq(0..9)}
  <2> SUFFICES U = {}
    OBVIOUS
  <2> SUFFICES ASSUME U # {} PROVE FALSE
    OBVIOUS
  <2>1. PICK n \in U : \A m \in U : n <= m
    BY LeastNumber, U \subseteq Nat
  <2>2. n \in 0..MaxInt /\ \A m \in 0..MaxInt : m < n => Digits[m] \in Seq(0..9)
    BY <2>1, MoneyAssumption
  <2>3. QED
    BY <1>9, <2>2
<1>11. Digits \in [0..MaxInt -> Seq(0..9)]
  BY <1>7, <1>10 DEF Step
<1>12. QED
  BY <1>8, <1>11

\* The digits of a number stand for it.
LEMMA DigitsValue ==
  ASSUME NEW n \in 0..MaxInt
  PROVE  Digits[n] \in Seq(0..9) /\ Value(Digits[n]) = n
<1> DEFINE U == {k \in 0..MaxInt : Value(Digits[k]) # k}
<1> SUFFICES ASSUME U # {} PROVE FALSE
  BY DigitsUnfold
<1>1. PICK k \in U : \A m \in U : k <= m
  BY LeastNumber, U \subseteq Nat, MoneyAssumption
<1>2. CASE k < 10
  <2>1. Digits[k] = Append(<<>>, k) /\ <<>> \in Seq(Nat) /\ k \in Nat
    BY <1>2, DigitsUnfold
  <2>2. Value(Append(<<>>, k)) = 10 * Value(<<>>) + k
    BY <2>1, ValueAppend
  <2>3. QED
    BY <1>1, <2>1, <2>2, ValueEmpty
<1>3. CASE k >= 10
  <2> DEFINE m == k \div 10
             d == k % 10
  <2>1. m \in Nat /\ m < k /\ d \in 0..9 /\ k = 10 * m + d
    BY <1>3
  <2>2. Digits[k] = Append(Digits[m], d)
    BY <1>3, DigitsUnfold
  <2> HIDE DEF m, d
  <2>3. m \in 0..MaxInt /\ Value(Digits[m]) = m
    BY <1>1, <2>1, MoneyAssumption
  <2>4. Digits[m] \in Seq(Nat)
    <3>1. Digits[m] \in Seq(0..9)
      BY <2>3, DigitsUnfold
    <3>2. QED
      BY <3>1
  <2>5. Value(Append(Digits[m], d)) = 10 * Value(Digits[m]) + d
    BY <2>1, <2>4, d \in Nat, ValueAppend, Zenon
  <2>6. QED
    BY <1>1, <2>1, <2>2, <2>3, <2>5
<1>4. QED
  BY <1>2, <1>3, MoneyAssumption

\* Two digits of cents after those of the units.
LEMMA ValueOfParts ==
  ASSUME NEW units \in Seq(0..9), NEW a \in 0..9, NEW b \in 0..9
  PROVE  /\ Value(units) \in Nat
         /\ Value(units \o <<a, b>>) = 100 * Value(units) + 10 * a + b
<1>1. units \in Seq(Nat) /\ a \in Nat /\ b \in Nat
  OBVIOUS
<1>2. Append(units, a) \in Seq(Nat) /\ units \o <<a, b>> = Append(Append(units, a), b)
  OBVIOUS
<1>3. Value(units) \in Nat /\ Value(Append(units, a)) = 10 * Value(units) + a
  BY <1>1, ValueAppend, Zenon
<1>4. Value(Append(Append(units, a), b)) = 10 * Value(Append(units, a)) + b
  BY <1>1, <1>2, ValueAppend, Zenon
<1>5. Value(units \o <<a, b>>) = 10 * Value(Append(units, a)) + b
  BY <1>2, <1>4, Zenon
<1>6. QED
  BY <1>1, <1>3, <1>5

\* What AmountString writes of cents without their sign.
Written(neg, c) == Text(neg, Digits[c \div 100], Pair(c % 100))

LEMMA WrittenIsRead ==
  ASSUME NEW c \in 0..(MaxInt + 1), NEW neg \in BOOLEAN
  PROVE  /\ Written(neg, c) \in TextType
         /\ ValueOf(Written(neg, c)) = IF neg THEN -c ELSE c
<1> DEFINE u == c \div 100
           a == (c % 100) \div 10
           b == (c % 100) % 10
           d == Digits[u]
           t == Text(neg, d, <<a, b>>)
<1>1. /\ u \in Nat /\ u <= MaxInt /\ a \in 0..9 /\ b \in 0..9
      /\ c = 100 * u + 10 * a + b
  BY MoneyAssumption
<1>2. Written(neg, c) = t
  BY DEF Written, Pair
<1> HIDE DEF u, a, b
<1>3. u \in 0..MaxInt
  BY <1>1, MoneyAssumption
<1>4. d \in Seq(0..9) /\ Value(d) = u
  BY <1>3, DigitsValue
<1> HIDE DEF d
<1>5. t.units = d /\ t.frac = <<a, b>> /\ t.neg = neg /\ t \in TextType
  BY <1>1, <1>4 DEF Text, TextType
<1>6. Value(d \o <<a, b>>) = 100 * Value(d) + 10 * a + b
  BY <1>1, <1>4, ValueOfParts
<1>7. Value(t.units \o t.frac) = c
  BY <1>1, <1>4, <1>5, <1>6
<1> HIDE DEF t
<1>8. ValueOf(t) = IF neg THEN -c ELSE c
  <2>1. CASE neg
    BY <1>5, <1>7, <2>1 DEF ValueOf
  <2>2. CASE ~neg
    BY <1>5, <1>7, <2>2 DEF ValueOf
  <2>3. QED
    BY <2>1, <2>2
<1>9. QED
  BY <1>2, <1>5, <1>8

\* Every amount is written as the decimal text that stands for it, the most
\* negative one, which has no absolute value, included.
THEOREM AmountStringIsExact ==
  ASSUME NEW c \in Int64
  PROVE  /\ AmountString(c) \in TextType
         /\ ValueOf(AmountString(c)) = c
<1> DEFINE abs == IF c < 0 THEN -c ELSE c
           neg == c < 0
<1>1. abs \in 0..(MaxInt + 1) /\ neg \in BOOLEAN
  BY MoneyAssumption DEF Int64, MinInt
<1>2. AmountString(c) = Written(neg, abs)
  <2>1. CASE c = MinInt
    <3>1. c < 0 /\ abs = MaxInt + 1
      BY <2>1, MoneyAssumption DEF MinInt
    <3>2. QED
      BY <2>1, <3>1 DEF AmountString, Written
  <2>2. CASE c # MinInt
    <3>1. c < 0 => Wrap(-c) = -c
      BY <2>2, WrapInRange, MoneyAssumption DEF Int64, MinInt
    <3>2. QED
      BY <2>2, <3>1 DEF AmountString, Written
  <2>3. QED
    BY <2>1, <2>2
<1>3. c = IF neg THEN -abs ELSE abs
  BY DEF Int64
<1> HIDE DEF abs, neg
<1>4. QED
  BY <1>1, <1>2, <1>3, WrittenIsRead

\* p[k] is what IntPart makes of the first k digits.
IntPartRun(s, p) ==
    /\ p[0] = Cents(0) /\ IntPart(s) = p[Len(s)]
    /\ \A k \in 0..(Len(s) - 1) : p[k + 1] = Shift(p[k], s[k + 1])

LEMMA IntPartRuns ==
  ASSUME NEW s \in Seq(0..9)
  PROVE  \E p : IntPartRun(s, p)
<1> DEFINE n == Len(s)
           Result == [ok : BOOLEAN, cents : Int]
           H(g) == [t \in SUBSET (DOMAIN s) |->
                      IF t = {} THEN Cents(0) ELSE Shift(g[t \ {Max(t)}], s[Max(t)])]
           h == CHOOSE g : g = H(g)
           F == [i \in 1..n |-> [v \in Result |-> Shift(v, s[i])]]
<1>1. n \in Nat /\ DOMAIN s = 1..n /\ \A i \in 1..n : s[i] \in 0..9
  OBVIOUS
<1>2. F \in [1..n -> [Result -> Result]] /\ Cents(0) \in Result
  <2>1. \A x \in Int : Wrap(x) \in Int
    BY MoneyAssumption DEF Wrap, MinInt
  <2>2. ASSUME NEW v \in Result, NEW d \in 0..9 PROVE Shift(v, d) \in Result
    BY <2>1 DEF Shift, Cents, ErrMoneyOverflow
  <2>3. Cents(0) \in Result
    BY DEF Cents
  <2> HIDE DEF Result
  <2>4. QED
    BY <1>1, <2>2, <2>3
<1>3. PICK g \in [SUBSET (1..n) -> Result] : FoldsLeft(g, n, Cents(0), F)
  <2> HIDE DEF F, n, Result
  <2>1. QED
    BY <1>1, <1>2, LeftFoldExists
<1>4. \A t \in SUBSET (1..n) : t # {} => g[t] = Shift(g[t \ {Max(t)}], s[Max(t)])
  <2> SUFFICES ASSUME NEW t \in SUBSET (1..n), t # {}
               PROVE  g[t] = Shift(g[t \ {Max(t)}], s[Max(t)])
    OBVIOUS
  <2>1. Max(t) \in 1..n /\ g[t \ {Max(t)}] \in Result
    BY <1>1, MaxOfSome
  <2> HIDE DEF Result
  <2>2. QED
    BY <1>3, <2>1 DEF FoldsLeft
<1>5. g = H(g)
  BY <1>1, <1>3, <1>4 DEF FoldsLeft
<1>6. h = H(h)
  <2> HIDE DEF H
  <2>1. QED
    BY <1>5, Zenon
<1>7. IntPart(s) = h[1..n]
  <2>1. IntPart(s) = h[DOMAIN s]
    BY Zenon DEF IntPart, FoldLeft, MapThenFoldSet
  <2>2. QED
    BY <1>1, <2>1, Zenon
<1> HIDE DEF h
<1> DEFINE p == [k \in 0..n |-> h[1..k]]
<1>8. p[0] = Cents(0)
  <2>1. 1..0 = {} /\ {} \in SUBSET (DOMAIN s)
    OBVIOUS
  <2>2. QED
    BY <1>1, <1>6, <2>1
<1>9. \A k \in 0..(n - 1) : p[k + 1] = Shift(p[k], s[k + 1])
  <2> SUFFICES ASSUME NEW k \in 0..(n - 1)
               PROVE  h[1..(k + 1)] = Shift(h[1..k], s[k + 1])
    BY <1>1
  <2>1. 1..(k + 1) \in SUBSET (DOMAIN s) /\ 1..(k + 1) # {}
    <3>1. k \in Nat /\ k + 1 <= n /\ k + 1 \in 1..(k + 1)
      BY <1>1
    <3>2. 1..(k + 1) \subseteq 1..n
      BY <1>1, <3>1
    <3>3. QED
      BY <1>1, <3>1, <3>2, Zenon
  <2>2. Max(1..(k + 1)) = k + 1 /\ (1..(k + 1)) \ {k + 1} = 1..k
    BY <1>1, MaxOfFirst, FirstWithoutLast
  <2>3. h[1..(k + 1)] = Shift(h[(1..(k + 1)) \ {Max(1..(k + 1))}], s[Max(1..(k + 1))])
    BY <1>6, <2>1
  <2>4. QED
    BY <2>2, <2>3
<1>10. IntPart(s) = p[n]
  BY <1>1, <1>7
<1>11. QED
  BY <1>8, <1>9, <1>10 DEF IntPartRun

\* The digits of an integer part are read to the number they stand for, or to
\* the error when that does not fit: no digits after it make it fit again.
THEOREM IntPartIsExact ==
  ASSUME NEW s \in Seq(0..9)
  PROVE  /\ Value(s) \in Nat
         /\ IntPart(s) = Exact(Value(s))
<1> DEFINE n == Len(s)
<1>1. s \in Seq(Nat) /\ n \in Nat /\ \A k \in 1..n : s[k] \in 0..9
  OBVIOUS
<1>2. PICK p : ValueRun(s, p)
  BY <1>1, ValueRuns
<1>3. PICK q : IntPartRun(s, q)
  BY IntPartRuns
<1>4. ASSUME NEW k \in 0..(n - 1), q[k] = Exact(p[k])
      PROVE  q[k + 1] = Exact(p[k + 1])
  <2>1. k \in 0..n /\ k + 1 \in 1..n
    BY <1>1, <1>4
  <2>2. s[k + 1] \in 0..9
    BY <1>1, <2>1
  <2>3. p[k] \in Nat /\ p[k + 1] = 10 * p[k] + s[k + 1]
    BY <1>2, <1>4, <2>1, Zenon DEF ValueRun
  <2>4. q[k + 1] = Shift(q[k], s[k + 1])
    BY <1>3, <1>4, Zenon DEF IntPartRun
  <2> DEFINE x == p[k]
             d == s[k + 1]
             y == p[k + 1]
  <2>5. x \in Nat /\ d \in 0..9 /\ y = 10 * x + d /\ q[k + 1] = Shift(q[k], d)
    BY <2>2, <2>3, <2>4
  <2>6. q[k] = Exact(x)
    BY <1>4
  <2> HIDE DEF x, d, y, n
  <2>7. CASE x <= MaxInt
    <3>1. q[k] = Cents(x) /\ x \in 0..MaxInt
      BY <2>5, <2>6, <2>7, MoneyAssumption DEF Exact, Int64, MinInt
    <3>2. Shift(Cents(x), d) = Exact(x * 10 + d)
      BY <2>5, <3>1, ShiftIsExact
    <3>3. x * 10 + d = y
      BY <2>5
    <3>4. q[k + 1] = Exact(y)
      BY <2>5, <3>1, <3>2, <3>3
    <3>5. QED
      BY <3>4 DEF y
  <2>8. CASE ~ (x <= MaxInt)
    <3>1. x \notin Int64
      BY <2>5, <2>8, MoneyAssumption DEF Int64
    <3>2. q[k] = ErrMoneyOverflow
      BY <2>6, <3>1 DEF Exact
    <3>3. q[k + 1] = ErrMoneyOverflow
      BY <2>5, <3>2 DEF Shift, ErrMoneyOverflow
    <3>4. y > MaxInt
      BY <2>5, <2>8, MoneyAssumption
    <3>5. y \notin Int64
      BY <3>4, MoneyAssumption DEF Int64
    <3>6. q[k + 1] = Exact(y)
      BY <3>3, <3>5 DEF Exact
    <3>7. QED
      BY <3>6 DEF y
  <2>9. QED
    BY <2>7, <2>8
<1>5. q[n] = Exact(p[n])
  <2> DEFINE T == {k \in Nat : k <= n => q[k] = Exact(p[k])}
  <2>1. 0 \in T
    <3>1. p[0] = 0 /\ q[0] = Cents(0)
      BY <1>2, <1>3 DEF ValueRun, IntPartRun
    <3>2. Exact(0) = Cents(0)
      BY MoneyAssumption DEF Exact, Int64, MinInt
    <3>3. QED
      BY <3>1, <3>2
  <2>2. ASSUME NEW k \in Nat, k \in T PROVE k + 1 \in T
    BY <1>1, <1>4, <2>2
  <2>3. n \in T
    <3> HIDE DEF T
    <3>1. QED
      BY <1>1, <2>1, <2>2, AllNumbers
  <2>4. QED
    BY <1>1, <2>3
<1>6. QED
  BY <1>1, <1>2, <1>3, <1>5 DEF ValueRun, IntPartRun

\* What a text stands for, in terms of its parts.
LEMMA TextValue ==
  ASSUME NEW t \in TextType
  PROVE  /\ t.units \in Seq(0..9) /\ t.frac[1] \in 0..9 /\ t.frac[2] \in 0..9
         /\ Value(t.units) \in Nat /\ Value(t.units \o t.frac) \in Nat
         /\ Value(t.units \o t.frac) = 100 * Value(t.units) + (t.frac[1] * 10 + t.frac[2])
         /\ ValueOf(t) = IF t.neg THEN -Value(t.units \o t.frac) ELSE Value(t.units \o t.frac)
<1> DEFINE units == t.units
           a == t.frac[1]
           b == t.frac[2]
           u == Value(units)
           v == Value(t.units \o t.frac)
<1>1. units \in Seq(0..9) /\ a \in 0..9 /\ b \in 0..9 /\ t.frac = <<a, b>> /\ t.neg \in BOOLEAN
  BY DEF TextType
<1>2. v = Value(units \o <<a, b>>)
  BY <1>1, Zenon
<1>3. ValueOf(t) = (IF t.neg THEN -1 ELSE 1) * v
  BY DEF ValueOf
<1> HIDE DEF units, a, b, v
<1>4. u \in Nat /\ v = 100 * u + 10 * a + b
  BY <1>1, <1>2, ValueOfParts
<1> HIDE DEF u
<1>5. v \in Nat /\ v = 100 * u + (a * 10 + b)
  BY <1>1, <1>4
<1>6. ValueOf(t) = IF t.neg THEN -v ELSE v
  <2>1. CASE t.neg
    BY <1>3, <1>5, <2>1
  <2>2. CASE ~t.neg
    BY <1>3, <1>5, <2>2
  <2>3. QED
    BY <2>1, <2>2
<1>7. QED
  BY <1>1, <1>4, <1>5, <1>6 DEF units, a, b, u, v

\* A text is parsed to the amount it stands for if the digits without the sign
\* fit, and refused otherwise; the guards of Parse do not overflow themselves.
THEOREM ParseIsExact ==
  ASSUME NEW t \in TextType
  PROVE  Parse(t) = IF Value(t.units \o t.frac) <= MaxInt THEN Cents(ValueOf(t))
                                                        ELSE ErrMoneyOverflow
<1> DEFINE u == Value(t.units)
           v == Value(t.units \o t.frac)
           f == t.frac[1] * 10 + t.frac[2]
           r == IntPart(t.units)
<1>1. /\ u \in Nat /\ v \in Nat /\ f \in 0..99 /\ v = 100 * u + f
      /\ ValueOf(t) = IF t.neg THEN -v ELSE v
  <2>1. t.frac[1] \in 0..9 /\ t.frac[2] \in 0..9
    BY TextValue
  <2>2. f \in 0..99
    BY <2>1
  <2>3. /\ u \in Nat /\ v \in Nat /\ v = 100 * u + f
        /\ ValueOf(t) = IF t.neg THEN -v ELSE v
    BY TextValue, Zenon
  <2>4. QED
    BY <2>2, <2>3
<1>2. r = Exact(u)
  BY TextValue, IntPartIsExact
<1>3. Parse(t) = IF ~r.ok \/ r.cents > MaxInt \div 100 \/ Wrap(r.cents * 100) > MaxInt - f
                 THEN ErrMoneyOverflow
                 ELSE Cents(IF t.neg THEN Wrap(-(Wrap(r.cents * 100) + f))
                                     ELSE Wrap(r.cents * 100) + f)
  BY Zenon DEF Parse
<1>4. t.neg \in BOOLEAN
  BY DEF TextType
<1> DEFINE neg == t.neg
<1> HIDE DEF u, f, v, r, neg
<1>5. CASE u > MaxInt
  <2>1. u \notin Int64 /\ v > MaxInt
    BY <1>1, <1>5, MoneyAssumption DEF Int64
  <2>2. ~r.ok
    BY <1>2, <2>1 DEF Exact, ErrMoneyOverflow
  <2>3. Parse(t) = ErrMoneyOverflow
    BY <1>3, <2>2
  <2>4. ~ (v <= MaxInt)
    BY <1>1, <2>1, MoneyAssumption
  <2>5. QED
    BY <2>3, <2>4 DEF v
<1>6. CASE u <= MaxInt
  <2>1. r.ok /\ r.cents = u
    BY <1>1, <1>2, <1>6, MoneyAssumption DEF Exact, Cents, Int64, MinInt
  <2>2. CASE u > MaxInt \div 100
    <3>1. ~ (v <= MaxInt)
      BY <1>1, <2>2, MoneyAssumption
    <3>2. Parse(t) = ErrMoneyOverflow
      BY <1>3, <2>1, <2>2
    <3>3. QED
      BY <3>1, <3>2 DEF v
  <2>3. CASE ~ (u > MaxInt \div 100)
    <3>1. u * 100 \in 0..MaxInt
      BY <1>1, <2>3, MoneyAssumption
    <3>2. Wrap(u * 100) = u * 100
      BY <3>1, WrapInRange, MoneyAssumption DEF Int64, MinInt
    <3>3. Parse(t) = IF u * 100 > MaxInt - f THEN ErrMoneyOverflow
                     ELSE Cents(IF t.neg THEN Wrap(-(u * 100 + f)) ELSE u * 100 + f)
      BY <1>3, <2>1, <2>3, <3>2
    <3>4. u * 100 + f = v
      BY <1>1
    <3>5. u * 100 > MaxInt - f <=> ~ (v <= MaxInt)
      BY <1>1, MoneyAssumption
    <3>6. v <= MaxInt => Wrap(-v) = -v
      BY <1>1, WrapInRange, MoneyAssumption DEF Int64, MinInt
    <3>7. CASE v <= MaxInt
      <4>1. Parse(t) = Cents(ValueOf(t))
        BY <1>1, <3>3, <3>4, <3>5, <3>6, <3>7
      <4>2. QED
        BY <3>7, <4>1 DEF v
    <3>8. CASE ~ (v <= MaxInt)
      BY <3>3, <3>5, <3>8 DEF v
    <3>9. QED
      BY <3>7, <3>8
  <2>4. QED
    BY <2>2, <2>3
<1>7. QED
  BY <1>1, <1>5, <1>6, MoneyAssumption

\* What is written is read back as it was, but for the one amount without an
\* absolute value, which is refused.
THEOREM WrittenAmountsAreReadBack ==
  ASSUME NEW c \in Int64
  PROVE  Parse(AmountString(c)) = IF c = MinInt THEN ErrMoneyOverflow ELSE Cents(c)
<1> DEFINE t == AmountString(c)
           v == Value(t.units \o t.frac)
<1>1. t \in TextType /\ ValueOf(t) = c
  BY AmountStringIsExact
<1> HIDE DEF t
<1>2. Parse(t) = IF v <= MaxInt THEN Cents(c) ELSE ErrMoneyOverflow
  BY <1>1, ParseIsExact
<1>3. v \in Nat /\ c = IF t.neg THEN -v ELSE v
  BY <1>1, TextValue
<1> HIDE DEF v
<1>4. v = c \/ v = -c
  BY <1>3
<1>5. (v <= MaxInt) <=> (c # MinInt)
  BY <1>3, <1>4, MoneyAssumption DEF Int64, MinInt
<1>6. Parse(t) = IF c = MinInt THEN ErrMoneyOverflow ELSE Cents(c)
  BY <1>2, <1>5
<1>7. QED
  BY <1>6 DEF t

-----------------------------------------------------------------------------
(* Reports of the reconciliation                                             *)

CreditsOf(entries) == {e \in entries : e.cents > 0}
DebitsOf(entries)  == {e \in entries : e.cents < 0}

\* What comes in is a sum: the fold of the definition is one.
LEMMA CreditsSummed ==
  ASSUME NEW entries, IsFiniteSet(entries), \A e \in entries : e.cents \in Int
  PROVE  Summed(Credits(entries), [e \in CreditsOf(entries) |-> e.cents], CreditsOf(entries))
<1> DEFINE P == CreditsOf(entries)
           f == [e \in P |-> e.cents]
           H(g) == [s \in SUBSET P |-> IF s = {} THEN 0 ELSE
                      (CHOOSE x \in s : TRUE).cents + g[s \ {CHOOSE x \in s : TRUE}]]
           h == CHOOSE g : g = H(g)
<1>1. IsFiniteSet(P) /\ f \in [P -> Int]
  BY FS_Subset DEF CreditsOf
<1>2. PICK g : Adds(g, f, P)
  <2> HIDE DEF P, f
  <2>1. QED
    BY <1>1, SumExists
<1>3. \A s \in SUBSET P : s # {} =>
         f[CHOOSE x \in s : TRUE] = (CHOOSE x \in s : TRUE).cents
  OBVIOUS
<1>4. \A g_1 : Adds(g_1, f, P) <=> g_1 = H(g_1)
  <2> HIDE DEF f, P
  <2>1. QED
    BY <1>3 DEF Adds
<1>5. h = H(h)
  <2> HIDE DEF H
  <2>1. QED
    BY <1>2, <1>4, Zenon
<1>6. Credits(entries) = h[P]
  BY Zenon DEF Credits, CreditsOf, MapThenSumSet, MapThenFoldSet
<1>7. Summed(Credits(entries), f, P)
  <2> HIDE DEF h, H, f, P
  <2>1. QED
    BY <1>4, <1>5, <1>6, Zenon DEF Summed
<1>8. QED
  BY <1>7

\* So is what goes out.
LEMMA DebitsSummed ==
  ASSUME NEW entries, IsFiniteSet(entries), \A e \in entries : e.cents \in Int
  PROVE  Summed(Debits(entries), [e \in DebitsOf(entries) |-> -e.cents], DebitsOf(entries))
<1> DEFINE P == DebitsOf(entries)
           f == [e \in P |-> -e.cents]
           H(g) == [s \in SUBSET P |-> IF s = {} THEN 0 ELSE
                      -((CHOOSE x \in s : TRUE).cents) + g[s \ {CHOOSE x \in s : TRUE}]]
           h == CHOOSE g : g = H(g)
<1>1. IsFiniteSet(P) /\ f \in [P -> Int]
  BY FS_Subset DEF DebitsOf
<1>2. PICK g : Adds(g, f, P)
  <2> HIDE DEF P, f
  <2>1. QED
    BY <1>1, SumExists
<1>3. \A s \in SUBSET P : s # {} =>
         f[CHOOSE x \in s : TRUE] = -((CHOOSE x \in s : TRUE).cents)
  OBVIOUS
<1>4. \A g_1 : Adds(g_1, f, P) <=> g_1 = H(g_1)
  <2> HIDE DEF f, P
  <2>1. QED
    BY <1>3 DEF Adds
<1>5. h = H(h)
  <2> HIDE DEF H
  <2>1. QED
    BY <1>2, <1>4, Zenon
<1>6. Debits(entries) = h[P]
  BY Zenon DEF Debits, DebitsOf, MapThenSumSet, MapThenFoldSet
<1>7. Summed(Debits(entries), f, P)
  <2> HIDE DEF h, H, f, P
  <2>1. QED
    BY <1>4, <1>5, <1>6, Zenon DEF Summed
<1>8. QED
  BY <1>7

\* One more entry adds what comes in with it.
LEMMA CreditsGrow ==
  ASSUME NEW entries, IsFiniteSet(entries), \A e \in entries : e.cents \in Int,
         NEW x, x \notin entries, x.cents \in Int
  PROVE  /\ Credits(entries) \in Int
         /\ Credits(entries \cup {x}) = Credits(entries) + IF x.cents > 0 THEN x.cents ELSE 0
<1>1. PICK all : all = entries \cup {x}
  OBVIOUS
<1>2. PICK S : S = CreditsOf(entries)
  OBVIOUS
<1>3. PICK f : f = [e \in S |-> e.cents]
  OBVIOUS
<1>4. IsFiniteSet(S) /\ x \notin S /\ \A e \in S : e.cents \in Int
  BY <1>2, FS_Subset DEF CreditsOf
<1>5. f \in [S -> Int]
  BY <1>3, <1>4
<1>6. Summed(Credits(entries), f, S)
  BY <1>2, <1>3, CreditsSummed
<1>7. Credits(entries) \in Int
  BY <1>4, <1>5, <1>6, SumType
<1>8. CASE x.cents > 0
  <2>1. PICK T, k : T = S \cup {x} /\ k = [e \in T |-> e.cents]
    OBVIOUS
  <2>2. CreditsOf(all) = T
    BY <1>1, <1>2, <1>8, <2>1 DEF CreditsOf
  <2>3. IsFiniteSet(all) /\ \A e \in all : e.cents \in Int
    BY <1>1, FS_AddElement
  <2>4. Summed(Credits(all), k, T)
    BY <2>1, <2>2, <2>3, CreditsSummed
  <2>5. T = S \cup {x} /\ k \in [T -> Int] /\ k[x] = x.cents /\ \A y \in S : f[y] = k[y]
    BY <1>3, <1>4, <2>1
  <2>6. Credits(all) = k[x] + Credits(entries)
    BY ONLY <1>4, <1>6, <2>4, <2>5, SumGrows
  <2>7. QED
    BY <1>1, <1>7, <1>8, <2>5, <2>6
<1>9. CASE ~ (x.cents > 0)
  <2>1. CreditsOf(all) = CreditsOf(entries)
    BY <1>1, <1>9 DEF CreditsOf
  <2>2. Credits(all) = Credits(entries)
    BY <2>1, Zenon DEF Credits, CreditsOf
  <2>3. QED
    BY <1>1, <1>7, <1>9, <2>2
<1>10. QED
  BY <1>8, <1>9

\* ... and what goes out.
LEMMA DebitsGrow ==
  ASSUME NEW entries, IsFiniteSet(entries), \A e \in entries : e.cents \in Int,
         NEW x, x \notin entries, x.cents \in Int
  PROVE  /\ Debits(entries) \in Int
         /\ Debits(entries \cup {x}) = Debits(entries) + IF x.cents < 0 THEN -x.cents ELSE 0
<1>1. PICK all : all = entries \cup {x}
  OBVIOUS
<1>2. PICK S : S = DebitsOf(entries)
  OBVIOUS
<1>3. PICK f : f = [e \in S |-> -e.cents]
  OBVIOUS
<1>4. IsFiniteSet(S) /\ x \notin S /\ \A e \in S : e.cents \in Int
  BY <1>2, FS_Subset DEF DebitsOf
<1>5. f \in [S -> Int]
  BY <1>3, <1>4
<1>6. Summed(Debits(entries), f, S)
  BY <1>2, <1>3, DebitsSummed
<1>7. Debits(entries) \in Int
  BY <1>4, <1>5, <1>6, SumType
<1>8. CASE x.cents < 0
  <2>1. PICK T, k : T = S \cup {x} /\ k = [e \in T |-> -e.cents]
    OBVIOUS
  <2>2. DebitsOf(all) = T
    BY <1>1, <1>2, <1>8, <2>1 DEF DebitsOf
  <2>3. IsFiniteSet(all) /\ \A e \in all : e.cents \in Int
    BY <1>1, FS_AddElement
  <2>4. Summed(Debits(all), k, T)
    BY <2>1, <2>2, <2>3, DebitsSummed
  <2>5. T = S \cup {x} /\ k \in [T -> Int] /\ k[x] = -x.cents /\ \A y \in S : f[y] = k[y]
    BY <1>3, <1>4, <2>1
  <2>6. Debits(all) = k[x] + Debits(entries)
    BY ONLY <1>4, <1>6, <2>4, <2>5, SumGrows
  <2>7. QED
    BY <1>1, <1>7, <1>8, <2>5, <2>6
<1>9. CASE ~ (x.cents < 0)
  <2>1. DebitsOf(all) = DebitsOf(entries)
    BY <1>1, <1>9 DEF DebitsOf
  <2>2. Debits(all) = Debits(entries)
    BY <2>1, Zenon DEF Debits, DebitsOf
  <2>3. QED
    BY <1>1, <1>7, <1>9, <2>2
<1>10. QED
  BY <1>8, <1>9

SumOf(entries) == Credits(entries) - Debits(entries)

\* One more entry adds its cents.
LEMMA SumOfEntriesGrows ==
  ASSUME NEW entries, IsFiniteSet(entries), \A e \in entries : e.cents \in Int,
         NEW x, x \notin entries, x.cents \in Int
  PROVE  /\ SumOf(entries) \in Int
         /\ SumOf(entries \cup {x}) = SumOf(entries) + x.cents
<1> DEFINE c == Credits(entries)
           d == Debits(entries)
           a == Credits(entries \cup {x})
           b == Debits(entries \cup {x})
           n == x.cents
<1>1. c \in Int /\ a = c + IF n > 0 THEN n ELSE 0
  BY CreditsGrow
<1>2. d \in Int /\ b = d + IF n < 0 THEN -n ELSE 0
  BY DebitsGrow
<1>3. n \in Int /\ SumOf(entries) = c - d /\ SumOf(entries \cup {x}) = a - b
  BY DEF SumOf
<1> HIDE DEF a, b, c, d, n
<1>4. SumOf(entries) \in Int /\ SumOf(entries \cup {x}) = SumOf(entries) + n
  <2>1. CASE n > 0
    BY <1>1, <1>2, <1>3, <2>1
  <2>2. CASE n < 0
    BY <1>1, <1>2, <1>3, <2>2
  <2>3. CASE n = 0
    BY <1>1, <1>2, <1>3, <2>3
  <2>4. QED
    BY <1>3, <2>1, <2>2, <2>3
<1>5. QED
  BY <1>4 DEF n

\* A sum of integers is one.
LEMMA SumOfEntriesType ==
  ASSUME NEW entries, IsFiniteSet(entries), \A e \in entries : e.cents \in Int
  PROVE  SumOf(entries) \in Int
<1>1. Credits(entries) \in Int
  <2>1. PICK S, f : S = CreditsOf(entries) /\ f = [e \in S |-> e.cents]
    OBVIOUS
  <2>2. IsFiniteSet(S) /\ f \in [S -> Int]
    BY <2>1, FS_Subset DEF CreditsOf
  <2>3. Summed(Credits(entries), f, S)
    BY <2>1, CreditsSummed
  <2>4. QED
    BY <2>2, <2>3, SumType
<1>2. Debits(entries) \in Int
  <2>1. PICK S, f : S = DebitsOf(entries) /\ f = [e \in S |-> -e.cents]
    OBVIOUS
  <2>2. IsFiniteSet(S) /\ f \in [S -> Int]
    BY <2>1, FS_Subset DEF DebitsOf
  <2>3. Summed(Debits(entries), f, S)
    BY <2>1, DebitsSummed
  <2>4. QED
    BY <2>2, <2>3, SumType
<1>3. QED
  BY <1>1, <1>2 DEF SumOf

\* Of no entries the sum is zero.
LEMMA SumOfNoEntries == SumOf({}) = 0
<1>1. CreditsOf({}) = {} /\ DebitsOf({}) = {}
  BY DEF CreditsOf, DebitsOf
<1>2. IsFiniteSet({}) /\ \A e \in {} : e.cents \in Int
  BY FS_EmptySet
<1>3. Credits({}) = 0
  <2>1. PICK f : Summed(Credits({}), f, CreditsOf({}))
    BY <1>2, CreditsSummed, Zenon
  <2>2. QED
    BY <1>1, <2>1, SumOfNone, Zenon
<1>4. Debits({}) = 0
  <2>1. PICK f : Summed(Debits({}), f, DebitsOf({}))
    BY <1>2, DebitsSummed, Zenon
  <2>2. QED
    BY <1>1, <2>1, SumOfNone, Zenon
<1>5. QED
  BY <1>3, <1>4 DEF SumOf

AuditType == [at : {"idle", "read", "done"}, stored : 0..MaxInt, difference : TextType,
              consistent : BOOLEAN, checked : Nat, missed : Int, drift : Int]

\* The books agree but for what was done behind the service's back, and what was
\* read of the balance but for what was missed since.
BooksInv ==
    /\ IsFiniteSet(ledger) /\ \A e \in ledger : e.cents \in Int
    /\ balance \in 0..MaxInt /\ drift \in Int /\ SumOf(ledger) + drift = balance
    /\ audit \in AuditType
    /\ audit.at = "read" => audit.stored + audit.missed = balance
    /\ ReportIsExact

LEMMA IdleType == Idle \in AuditType /\ Idle.at = "idle"
<1>1. AmountString(0) \in TextType
  BY AmountStringIsExact, MoneyAssumption DEF Int64, MinInt
<1>2. QED
  BY <1>1, MoneyAssumption DEF Idle, AuditType

\* The opening entry is the opening balance.
LEMMA BooksInit == Init => BooksInv
<1> SUFFICES ASSUME Init PROVE BooksInv
  OBVIOUS
<1> DEFINE e == Entry(1, 0, Opening)
<1>1. e.cents = Opening /\ Opening \in 0..MaxInt /\ Opening \in Int
  BY AuditAssumption, MoneyAssumption DEF Entry
<1> HIDE DEF e
<1>2. SumOf({} \cup {e}) = SumOf({}) + e.cents
  BY <1>1, FS_EmptySet, SumOfEntriesGrows
<1>3. /\ IsFiniteSet(ledger) /\ SumOf(ledger) = Opening
      /\ \A f \in ledger : f.cents \in Int
  <2>1. CASE Opening = 0
    BY <2>1, SumOfNoEntries, FS_EmptySet DEF Init
  <2>2. CASE Opening # 0
    <3>1. ledger = {e} /\ {} \cup {e} = {e}
      BY <2>2 DEF Init, e
    <3>2. IsFiniteSet({e})
      BY FS_Singleton
    <3>3. QED
      BY <1>1, <1>2, <3>1, <3>2, SumOfNoEntries
  <2>3. QED
    BY <2>1, <2>2
<1>4. QED
  BY <1>1, <1>3, IdleType DEF Init, BooksInv, ReportIsExact

\* A change of the balance by cents: an audit under way has missed them, and
\* what a report says stays true of when it was made.
LEMMA BooksMissed ==
  ASSUME BooksInv, NEW cents \in Int, balance' = balance + cents, balance' \in 0..MaxInt,
         IsFiniteSet(ledger'), \A e \in ledger' : e.cents \in Int, drift' \in Int,
         SumOf(ledger') + drift' = balance', Missed(cents)
  PROVE  BooksInv'
<1>1. audit \in AuditType
  BY DEF BooksInv
<1>2. CASE audit.at = "read"
  <2>1. audit' = [audit EXCEPT !.missed = audit.missed + cents]
    BY <1>2 DEF Missed
  <2>2. audit.missed + cents \in Int
    BY <1>1 DEF AuditType
  <2>3. /\ audit' \in AuditType /\ audit'.at = "read" /\ audit'.stored = audit.stored
        /\ audit'.missed = audit.missed + cents
    BY <1>1, <1>2, <2>1, <2>2 DEF AuditType
  <2>4. audit'.stored + audit'.missed = balance'
    <3>1. audit.stored \in Int /\ audit.missed \in Int /\ balance \in Int
      BY <1>1, MoneyAssumption DEF AuditType, BooksInv
    <3>2. audit.stored + audit.missed = balance
      BY <1>2 DEF BooksInv
    <3>3. QED
      BY <2>3, <3>1, <3>2
  <2>5. QED
    BY <2>3, <2>4 DEF BooksInv, ReportIsExact
<1>3. CASE audit.at # "read"
  <2>1. audit' = audit
    BY <1>1, <1>3 DEF Missed, AuditType
  <2>2. QED
    BY <1>3, <2>1 DEF BooksInv, ReportIsExact
<1>4. QED
  BY <1>2, <1>3

\* A movement's entry is of what the balance changes by.
LEMMA BooksCommit ==
  ASSUME BooksInv, NEW m \in Movement, Commit(m)
  PROVE  BooksInv'
<1> DEFINE asked == Parse(text[m])
           c == asked.cents
           after == IF m \in Debit THEN Sub(balance, c) ELSE Add(balance, c)
           cents == IF m \in Debit THEN -c ELSE c
<1>1. /\ m \notin Ids(ledger) /\ asked.ok /\ c > 0 /\ after.ok /\ after.cents >= 0
      /\ balance' = after.cents /\ Missed(after.cents - balance) /\ drift' = drift
      /\ \E t \in Time : ledger' = ledger \cup {Entry(m, t, cents)}
  BY DEF Commit
<1>2. text[m] \in TextType
  BY AuditAssumption
<1>3. c \in 1..MaxInt
  <2>1. asked \in {Cents(ValueOf(text[m])), ErrMoneyOverflow}
    BY <1>2, ParseIsExact
  <2>2. c = ValueOf(text[m]) /\ Value(text[m].units \o text[m].frac) <= MaxInt
    BY <1>1, <1>2, ParseIsExact DEF Cents, ErrMoneyOverflow
  <2> DEFINE v == Value(text[m].units \o text[m].frac)
  <2>3. v \in Nat /\ c \in {v, -v}
    BY <1>2, <2>2, TextValue
  <2> HIDE DEF v, c
  <2>4. v <= MaxInt
    BY <2>2 DEF v
  <2>5. QED
    BY <1>1, <2>3, <2>4, MoneyAssumption
<1>4. balance \in 0..MaxInt /\ balance \in Int64 /\ c \in Int64
  BY <1>3, MoneyAssumption DEF BooksInv, Int64, MinInt
<1>5. after = Exact(balance + cents)
  <2> HIDE DEF c, asked
  <2>1. CASE m \in Debit
    <3>1. Sub(balance, c) = Exact(balance - c)
      BY <1>4, SubIsExact
    <3>2. balance - c = balance + cents
      BY <1>3, <1>4, <2>1, MoneyAssumption
    <3>3. QED
      BY <2>1, <3>1, <3>2
  <2>2. CASE m \notin Debit
    <3>1. Add(balance, c) = Exact(balance + c)
      BY <1>4, AddIsExact
    <3>2. QED
      BY <2>2, <3>1
  <2>3. QED
    BY <2>1, <2>2
<1>6. cents \in Int
  BY <1>3, MoneyAssumption
<1> HIDE DEF c, asked, after, cents
<1>7. after.cents = balance + cents /\ balance + cents \in Int64
  BY <1>1, <1>5 DEF Exact, Cents, ErrMoneyOverflow
<1>8. balance' = balance + cents /\ balance' \in 0..MaxInt /\ after.cents - balance = cents
  BY <1>1, <1>4, <1>6, <1>7, MoneyAssumption DEF Int64, MinInt
<1>9. PICK t \in Time : ledger' = ledger \cup {Entry(m, t, cents)}
  BY <1>1
<1> DEFINE e == Entry(m, t, cents)
<1>10. e.cents = cents /\ e \notin ledger
  BY <1>1 DEF Entry, Ids
<1> HIDE DEF e
<1>11. ledger' = ledger \cup {e}
  BY <1>9 DEF e
<1>12. /\ SumOf(ledger) \in Int /\ SumOf(ledger \cup {e}) = SumOf(ledger) + cents
  BY <1>6, <1>10, SumOfEntriesGrows DEF BooksInv
<1>13. SumOf(ledger') + drift' = balance'
  <2>1. drift \in Int /\ SumOf(ledger) + drift = balance
    BY DEF BooksInv
  <2>2. PICK a, b : a = SumOf(ledger) /\ b = SumOf(ledger')
    OBVIOUS
  <2>3. a \in Int /\ b = a + cents
    BY <1>11, <1>12, <2>2
  <2>4. a + drift = balance /\ balance' = balance + cents /\ drift' = drift
    BY <1>1, <1>8, <2>1, <2>2
  <2>5. b + drift' = balance'
    BY <1>6, <2>1, <2>3, <2>4
  <2>6. QED
    BY <2>2, <2>5
<1>14. IsFiniteSet(ledger') /\ \A f \in ledger' : f.cents \in Int
  BY <1>6, <1>10, <1>11, FS_AddElement DEF BooksInv
<1>15. drift' \in Int /\ Missed(cents)
  BY <1>1, <1>8 DEF BooksInv
<1>16. QED
  BY <1>6, <1>8, <1>13, <1>14, <1>15, BooksMissed

\* What somebody else does is drift.
LEMMA BooksTamper ==
  ASSUME BooksInv, NEW c \in Tampering, Tamper(c)
  PROVE  BooksInv'
<1>1. c \in Int
  BY AuditAssumption
<1>2. /\ balance' = balance + c /\ balance' \in 0..MaxInt /\ Missed(c)
      /\ drift = 0 /\ drift' = c /\ ledger' = ledger
  BY DEF Tamper
<1>3. /\ IsFiniteSet(ledger') /\ \A e \in ledger' : e.cents \in Int
      /\ SumOf(ledger) + drift = balance /\ balance \in Int
  BY <1>2, MoneyAssumption DEF BooksInv
<1>4. SumOf(ledger) \in Int
  BY <1>2, <1>3, SumOfEntriesType
<1>5. SumOf(ledger') + drift' = balance'
  BY <1>1, <1>2, <1>3, <1>4
<1>6. QED
  BY <1>1, <1>2, <1>3, <1>5, BooksMissed

\* The first read: nothing was missed yet.
LEMMA BooksRead == BooksInv /\ GetWallet => BooksInv'
<1> SUFFICES ASSUME BooksInv, GetWallet PROVE BooksInv'
  OBVIOUS
<1>1. audit' = [Idle EXCEPT !.at = "read", !.stored = balance] /\ balance \in 0..MaxInt
  BY DEF GetWallet, BooksInv
<1>2. /\ audit' \in AuditType /\ audit'.at = "read"
      /\ audit'.stored = balance /\ audit'.missed = 0
  BY <1>1, IdleType DEF Idle, AuditType
<1>3. balance + 0 = balance
  BY <1>1, MoneyAssumption
<1>4. QED
  BY <1>2, <1>3 DEF BooksInv, GetWallet, ReportIsExact

\* The second: the difference is exact, and so is the text of it.
LEMMA BooksReport == BooksInv /\ CalculateLedgerBalance => BooksInv'
<1> SUFFICES ASSUME BooksInv, CalculateLedgerBalance PROVE BooksInv'
  OBVIOUS
<1>1. UNCHANGED <<balance, ledger, drift>> /\ audit.at = "read"
  BY DEF CalculateLedgerBalance
<1>2. CASE audit' = Idle
  BY <1>1, <1>2, IdleType DEF BooksInv, ReportIsExact
<1> DEFINE sum == LedgerSum
           diff == Sub(audit.stored, sum)
           d == diff.cents
<1>3. CASE sum \in Int64 /\ diff.ok /\ Report(d)
  <2>1. /\ audit \in AuditType /\ audit.stored \in 0..MaxInt /\ audit.missed \in Int
        /\ drift \in Int /\ balance \in Int /\ audit.stored + audit.missed = balance
        /\ sum + drift = balance
    BY <1>1, MoneyAssumption DEF BooksInv, AuditType, SumOf, LedgerSum
  <2>2. diff = Exact(audit.stored - sum)
    BY <1>3, <2>1, SubIsExact, MoneyAssumption DEF Int64, MinInt
  <2> HIDE DEF sum
  <2>3. d = audit.stored - sum /\ d \in Int64
    BY <1>3, <2>2 DEF Exact, Cents, ErrMoneyOverflow
  <2>4. d = drift - audit.missed
    BY <1>3, <2>1, <2>3, MoneyAssumption DEF Int64, MinInt
  <2>5. AmountString(d) \in TextType /\ ValueOf(AmountString(d)) = d
    BY <2>3, AmountStringIsExact
  <2>6. Cardinality(ledger) \in Nat
    BY FS_CardinalityType DEF BooksInv
  <2>7. audit' = [audit EXCEPT !.at = "done", !.difference = AmountString(d),
                               !.consistent = (d = 0),
                               !.checked = Cardinality(ledger), !.drift = drift]
    BY <1>3 DEF Report
  <2> HIDE DEF d, diff
  <2>8. /\ audit' \in AuditType /\ audit'.at = "done" /\ audit'.drift = drift
        /\ audit'.missed = audit.missed /\ audit'.difference = AmountString(d)
        /\ audit'.consistent = (d = 0)
    BY <2>1, <2>5, <2>6, <2>7 DEF AuditType
  <2>9. ReportIsExact'
    <3>1. d = 0 <=> drift = audit.missed
      BY <2>1, <2>4
    <3>2. QED
      BY <2>4, <2>5, <2>8, <3>1 DEF ReportIsExact
  <2>10. QED
    BY <1>1, <2>8, <2>9 DEF BooksInv
<1>4. QED
  BY <1>2, <1>3 DEF CalculateLedgerBalance

\* Every operation keeps the books.
THEOREM BooksHold == Spec => []BooksInv
<1>1. BooksInv /\ [Next]_vars => BooksInv'
  <2> SUFFICES ASSUME BooksInv, [Next]_vars PROVE BooksInv'
    OBVIOUS
  <2>1. CASE \E m \in Movement : Commit(m)
    BY <2>1, BooksCommit
  <2>2. CASE \E c \in Tampering : Tamper(c)
    BY <2>2, BooksTamper
  <2>3. CASE GetWallet \/ CalculateLedgerBalance
    BY <2>3, BooksRead, BooksReport
  <2>4. CASE UNCHANGED <<balance, ledger, drift, audit>>
    BY <2>4 DEF BooksInv, ReportIsExact
  <2>5. CASE StartPages \/ \E limit \in Limit : GetLedgerEntries(limit)
    BY <2>4, <2>5 DEF StartPages, GetLedgerEntries
  <2>6. CASE UNCHANGED vars
    BY <2>4, <2>6 DEF vars
  <2>7. QED
    BY <2>1, <2>2, <2>3, <2>5, <2>6 DEF Next
<1>2. QED
  BY BooksInit, <1>1, PTL DEF Spec

\* A report of the reconciliation is off by what was committed between its two
\* reads and by nothing else, and its text says so to the cent.
THEOREM ReportIsExactHolds == Spec => []ReportIsExact
<1>1. BooksInv => ReportIsExact
  BY DEF BooksInv
<1>2. QED
  BY <1>1, BooksHold, PTL

-----------------------------------------------------------------------------
(* Pages of the ledger                                                       *)

\* An entry is known by its id, and has a place in the order.
Dated(entries) == \A e \in entries : e.id \in Nat \ {0} /\ e.time \in Nat
Keyed(entries) == \A e, f \in entries : e.id = f.id => e = f

\* Of a page that is not empty one entry is the oldest: the entries older than
\* it are a smallest set of that kind, so there are none.
LEMMA OldestExists ==
  ASSUME NEW page, IsFiniteSet(page), page # {}, Dated(page), Keyed(page)
  PROVE  \E e \in page : \A f \in page \ {e} : Newer(f, e)
<1> DEFINE Older(e) == {f \in page : Newer(e, f)}
           All == {Older(e) : e \in page}
<1>1. All \subseteq FiniteSubsetsOf(page) /\ All # {}
  <2>1. All \subseteq SUBSET page /\ All # {}
    OBVIOUS
  <2>2. QED
    BY <2>1, FS_FiniteSubsetsOfFinite
<1>2. \E D \in All : \A E \in All : ~ (<<E, D>> \in StrictSubsetOrdering(page))
  BY <1>1, FS_StrictSubsetOrderingWellFounded, WFMin
<1>3. PICK e \in page : \A E \in All : ~ (<<E, Older(e)>> \in StrictSubsetOrdering(page))
  BY <1>2
<1>4. ASSUME NEW f \in page, Newer(e, f)
      PROVE  FALSE
  <2>1. Older(f) \subseteq Older(e)
    BY <1>4 DEF Newer, Dated
  <2>2. f \in Older(e) /\ f \notin Older(f)
    BY <1>4 DEF Newer, Dated
  <2>3. <<Older(f), Older(e)>> \in StrictSubsetOrdering(page)
    BY <2>1, <2>2 DEF StrictSubsetOrdering
  <2>4. QED
    BY <1>3, <2>3
<1>5. \A f \in page \ {e} : Newer(f, e)
  BY <1>4 DEF Newer, Dated, Keyed
<1>6. QED
  BY <1>5

LedgerInv == IsFiniteSet(ledger) /\ Dated(ledger) /\ Keyed(ledger)

\* The cursor is an entry's, what was returned is not selected again, and what
\* is owed was returned or still is selected.
PagesInv ==
    /\ pages \in [at : {"open", "end"}, cursor : Nat, size : Nat, rows : Nat,
                  got : SUBSET ledger, owed : SUBSET ledger, cut : BOOLEAN]
    /\ pages.cursor = 0 \/ \E c \in ledger : c.id = pages.cursor
    /\ NoEntryTwice /\ NoEntryLost
    /\ pages.at = "open" =>
          /\ pages.got \cap Selected = {}
          /\ pages.owed \subseteq pages.got \cup Selected

AuditInv == LedgerInv /\ PagesInv

\* The opening entry alone, and no listing yet.
LEMMA AuditInit == Init => AuditInv
<1> SUFFICES ASSUME Init PROVE AuditInv
  OBVIOUS
<1>1. ledger \subseteq {Entry(1, 0, Opening)}
  BY DEF Init
<1>2. IsFiniteSet(ledger)
  BY <1>1, FS_Singleton, FS_Subset
<1>3. Dated(ledger) /\ Keyed(ledger)
  BY <1>1 DEF Dated, Keyed, Entry
<1>4. PagesInv
  BY FS_EmptySet DEF Init, Closed, PagesInv, NoEntryTwice, NoEntryLost
<1>5. QED
  BY <1>2, <1>3, <1>4 DEF AuditInv, LedgerInv

\* What does not touch entries and pages keeps the invariant.
LEMMA AuditStutter == AuditInv /\ UNCHANGED <<ledger, pages>> => AuditInv'
BY DEF AuditInv, LedgerInv, PagesInv, NoEntryTwice, NoEntryLost, Selected

\* A new entry may be selected, or not; none is selected or known any less.
LEMMA AuditCommit ==
  ASSUME AuditInv, NEW m \in Movement, Commit(m)
  PROVE  AuditInv'
<1> DEFINE asked == Parse(text[m])
           cents == IF m \in Debit THEN -asked.cents ELSE asked.cents
<1>1. PICK t \in Time : ledger' = ledger \cup {Entry(m, t, cents)}
  BY DEF Commit
<1> DEFINE e == Entry(m, t, cents)
<1>2. e.id = m /\ e.time = t /\ m \in Nat \ {0} /\ t \in Nat
  BY AuditAssumption DEF Entry
<1>3. \A f \in ledger : f.id # m
  BY DEF Commit, Ids
<1>4. LedgerInv'
  <2>1. IsFiniteSet(ledger')
    BY <1>1, FS_AddElement DEF AuditInv, LedgerInv
  <2>2. QED
    BY <1>1, <1>2, <1>3, <2>1 DEF AuditInv, LedgerInv, Dated, Keyed
<1>5. pages' = pages
  BY DEF Commit
<1>6. Selected \subseteq Selected' /\ Selected' \subseteq Selected \cup {e}
  <2>1. CASE pages.cursor = 0
    BY <1>1, <1>5, <2>1 DEF Selected
  <2>2. CASE pages.cursor # 0
    <3>1. \A c \in ledger' : c.id = pages.cursor => c \in ledger
      BY <1>1, <1>2, <1>3, <2>2 DEF AuditInv, PagesInv
    <3>2. QED
      BY <1>1, <1>5, <2>2, <3>1 DEF Selected
  <2>3. QED
    BY <2>1, <2>2
<1>7. e \notin pages.got
  BY <1>2, <1>3 DEF AuditInv, PagesInv
<1>8. PagesInv'
  BY <1>1, <1>5, <1>6, <1>7 DEF AuditInv, PagesInv, NoEntryTwice, NoEntryLost
<1>9. QED
  BY <1>4, <1>8 DEF AuditInv

\* A new listing owes what is there.
LEMMA AuditStart ==
  ASSUME AuditInv, StartPages
  PROVE  AuditInv'
<1>1. pages' = [Closed EXCEPT !.at = "open", !.owed = ledger] /\ ledger' = ledger
  BY DEF StartPages
<1>2. Selected' = ledger
  BY <1>1 DEF Selected, Closed
<1>3. PagesInv'
  BY <1>1, <1>2, FS_EmptySet DEF PagesInv, Closed, NoEntryTwice, NoEntryLost
<1>4. QED
  BY <1>1, <1>3 DEF AuditInv, LedgerInv

\* A page holds the newest of what is selected, so its oldest entry divides it
\* from the rest, which is what the next cursor selects.
LEMMA AuditPage ==
  ASSUME AuditInv, NEW limit \in Limit, GetLedgerEntries(limit)
  PROVE  AuditInv'
<1>1. PICK page \in SUBSET Selected, n \in 0..PageSize(limit) :
         /\ Newest(page, Selected, n)
         /\ pages' = [pages EXCEPT
                !.at = IF page = {} THEN "end" ELSE "open",
                !.cursor = LastId(page), !.size = Cardinality(page),
                !.rows = @ + Cardinality(page), !.got = @ \cup page,
                !.cut = (page = {} /\ Selected # {})]
  BY DEF GetLedgerEntries
<1>2. ledger' = ledger /\ pages.at = "open"
  BY DEF GetLedgerEntries
<1>3. page \subseteq ledger /\ Selected \subseteq ledger
  BY DEF Selected
<1>4. /\ IsFiniteSet(page) /\ IsFiniteSet(pages.got)
      /\ Cardinality(page) \in Nat /\ Cardinality(pages.got) \in Nat
  BY <1>3, FS_Subset, FS_CardinalityType DEF AuditInv, LedgerInv, PagesInv
<1>5. LastId(page) \in Nat =>
        pages' \in [at : {"open", "end"}, cursor : Nat, size : Nat, rows : Nat,
                    got : SUBSET ledger', owed : SUBSET ledger', cut : BOOLEAN]
  <2>1. /\ pages.rows + Cardinality(page) \in Nat
        /\ pages.got \cup page \in SUBSET ledger'
        /\ pages.owed \in SUBSET ledger'
        /\ (page = {} /\ Selected # {}) \in BOOLEAN
        /\ (IF page = {} THEN "end" ELSE "open") \in {"open", "end"}
    BY <1>2, <1>3, <1>4 DEF AuditInv, PagesInv
  <2>2. QED
    BY <1>1, <1>4, <2>1 DEF AuditInv, PagesInv
<1>6. NoEntryTwice'
  <2>1. pages.got \cap page = {}
    BY <1>2 DEF AuditInv, PagesInv
  <2>2. Cardinality(pages.got \cup page) = Cardinality(pages.got) + Cardinality(page)
    BY <1>4, <2>1, FS_Union, FS_EmptySet
  <2>3. QED
    BY <1>1, <2>2 DEF AuditInv, PagesInv, NoEntryTwice
<1>7. CASE page = {}
  <2>1. NoEntryLost'
    BY <1>1, <1>2, <1>7 DEF AuditInv, PagesInv, NoEntryLost
  <2>2. Cardinality(page) = 0 /\ LastId(page) = 0
    BY <1>7, FS_EmptySet DEF LastId
  <2>3. PagesInv'
    <3>1. pages'.at = "end" /\ pages'.cursor = 0
      BY <1>1, <1>7, <2>2 DEF AuditInv, PagesInv
    <3>2. QED
      BY <1>5, <1>6, <2>1, <2>2, <3>1 DEF PagesInv
  <2>4. QED
    BY <1>2, <2>3 DEF AuditInv, LedgerInv
<1>8. CASE page # {}
  <2>1. Dated(page) /\ Keyed(page)
    BY <1>3 DEF AuditInv, LedgerInv, Dated, Keyed
  <2>2. PICK c \in page : LastId(page) = c.id /\ \A f \in page \ {c} : Newer(f, c)
    BY <1>4, <1>8, <2>1, OldestExists DEF LastId
  <2>3. c.id \in Nat \ {0} /\ pages'.cursor = c.id
    BY <1>1, <2>1, <2>2 DEF Dated, AuditInv, PagesInv
  <2>4. Selected' = {f \in ledger : Newer(c, f)}
    BY <1>2, <1>3, <2>2, <2>3 DEF Selected, AuditInv, LedgerInv, Keyed
  <2>5. Selected \subseteq page \cup Selected'
    BY <1>1, <1>3, <2>4 DEF Newest
  <2>6. page \cap Selected' = {}
    BY <1>3, <2>2, <2>4 DEF Newer, AuditInv, LedgerInv, Dated
  <2>7. Selected' \subseteq Selected
    <3>1. CASE pages.cursor = 0
      BY <2>4, <3>1 DEF Selected
    <3>2. CASE pages.cursor # 0
      BY <1>3, <2>4, <3>2 DEF Selected, Newer, AuditInv, LedgerInv, Dated
    <3>3. QED
      BY <3>1, <3>2
  <2>8. PagesInv'
    <3>1. pages'.at = "open"
      BY <1>1, <1>8 DEF AuditInv, PagesInv
    <3>2. /\ pages'.got \cap Selected' = {}
          /\ pages'.owed \subseteq pages'.got \cup Selected'
      BY <1>1, <1>2, <2>5, <2>6, <2>7 DEF AuditInv, PagesInv
    <3>3. pages' \in [at : {"open", "end"}, cursor : Nat, size : Nat, rows : Nat,
                      got : SUBSET ledger', owed : SUBSET ledger', cut : BOOLEAN]
      BY <1>5, <2>2, <2>3
    <3>4. QED
      BY <1>2, <1>3, <1>6, <2>3, <3>1, <3>2, <3>3 DEF PagesInv, NoEntryLost
  <2>9. QED
    BY <1>2, <2>8 DEF AuditInv, LedgerInv
<1>9. QED
  BY <1>7, <1>8

\* Every operation keeps the invariant.
THEOREM AuditInvHolds == Spec => []AuditInv
<1>1. AuditInv /\ [Next]_vars => AuditInv'
  <2> SUFFICES ASSUME AuditInv, [Next]_vars PROVE AuditInv'
    OBVIOUS
  <2>1. CASE \E m \in Movement : Commit(m)
    BY <2>1, AuditCommit
  <2>2. CASE \E c \in Tampering : Tamper(c)
    BY <2>2, AuditStutter DEF Tamper
  <2>3. CASE GetWallet \/ CalculateLedgerBalance
    BY <2>3, AuditStutter DEF GetWallet, CalculateLedgerBalance
  <2>4. CASE StartPages
    BY <2>4, AuditStart
  <2>5. CASE \E limit \in Limit : GetLedgerEntries(limit)
    BY <2>5, AuditPage
  <2>6. CASE UNCHANGED vars
    BY <2>6, AuditStutter DEF vars
  <2>7. QED
    BY <2>1, <2>2, <2>3, <2>4, <2>5, <2>6 DEF Next
<1>2. QED
  BY AuditInit, <1>1, PTL DEF Spec

\* Following nextCursor returns no entry twice, however many movements of
\* whatever times are committed meanwhile.
THEOREM NoEntryTwiceHolds == Spec => []NoEntryTwice
<1>1. AuditInv => NoEntryTwice
  BY DEF AuditInv, PagesInv
<1>2. QED
  BY AuditInvHolds, <1>1, PTL

\* ... and none of those there were at the start is left out.
THEOREM NoEntryLostHolds == Spec => []NoEntryLost
<1>1. AuditInv => NoEntryLost
  BY DEF AuditInv, PagesInv
<1>2. QED
  BY AuditInvHolds, <1>1, PTL
=============================================================================
