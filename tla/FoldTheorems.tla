---------------------------- MODULE FoldTheorems ----------------------------
(***************************************************************************)
(* What the folds of the community modules compute: a sum over a set does   *)
(* not depend on the order its elements are chosen in, and a fold from the  *)
(* left goes on where it was when its sequence is extended. An induction is *)
(* the choice of a least counterexample: a set of numbers that is not empty *)
(* has a least element.                                                     *)
(***************************************************************************)
EXTENDS Integers, Sequences, FiniteSetsExt, FiniteSetTheorems, WellFoundedInduction, TLAPS

-----------------------------------------------------------------------------
(* Induction                                                                 *)

\* The least-number principle, of a set.
LEMMA LeastNumber ==
  ASSUME NEW T, T \subseteq Nat, T # {}
  PROVE  \E n \in T : \A m \in T : n <= m
<1> DEFINE R == {p \in Nat \X Nat : p[1] < p[2]}
<1>1. R = OpToRel(<, Nat)
  BY Zenon DEF OpToRel
<1>2. IsWellFoundedOn(R, Nat)
  BY <1>1, NatLessThanWellFounded, Zenon
<1>3. \A m, n \in Nat : m < n => <<m, n>> \in R
  OBVIOUS
<1> HIDE DEF R
<1>4. PICK n \in T : \A m \in T : <<m, n>> \notin R
  BY <1>2, WFMin, Zenon
<1>5. \A m \in T : ~ (m < n)
  BY <1>3, <1>4, Zenon
<1>6. QED
  BY <1>5

\* What holds of 0 and of the next number holds of all.
LEMMA AllNumbers ==
  ASSUME NEW T, 0 \in T, \A n \in Nat : n \in T => n + 1 \in T
  PROVE  Nat \subseteq T
<1> SUFFICES ASSUME Nat \ T # {} PROVE FALSE
  OBVIOUS
<1>1. PICK n \in Nat \ T : \A m \in Nat \ T : n <= m
  BY LeastNumber
<1>2. n # 0 /\ n - 1 \in Nat /\ n - 1 \in T
  BY <1>1
<1>3. QED
  BY <1>1, <1>2

-----------------------------------------------------------------------------
(* Folds over the subsets of a set                                           *)

\* g folds every subset of S: the empty one to base, another to what F makes of
\* the element chosen from it and of the rest.
FoldsUp(g, S, choice, base, F) ==
    g = [s \in SUBSET S |-> IF s = {} THEN base ELSE F[choice[s]][g[s \ {choice[s]}]]]

Chooses(choice, S) == \A s \in SUBSET S : s # {} => choice[s] \in s

\* There is such a fold. By induction on the size of the subsets it is right for.
LEMMA FoldExists ==
  ASSUME NEW S, IsFiniteSet(S), NEW choice, Chooses(choice, S),
         NEW V, NEW base \in V, NEW F \in [S -> [V -> V]]
  PROVE  \E g \in [SUBSET S -> V] : FoldsUp(g, S, choice, base, F)
<1> DEFINE Step(g) == [s \in SUBSET S |->
                         IF s = {} THEN base ELSE F[choice[s]][g[s \ {choice[s]}]]]
           Right(g, n) == \A s \in SUBSET S : Cardinality(s) <= n => g[s] = Step(g)[s]
           T == {n \in Nat : \E g \in [SUBSET S -> V] : Right(g, n)}
<1>1. \A s \in SUBSET S : Cardinality(s) \in Nat /\ (Cardinality(s) = 0 <=> s = {})
  BY FS_Subset, FS_CardinalityType, FS_EmptySet
<1>2. \A s \in SUBSET S : s # {} =>
         s \ {choice[s]} \in SUBSET S /\ Cardinality(s \ {choice[s]}) = Cardinality(s) - 1
  BY FS_Subset, FS_RemoveElement DEF Chooses
<1>3. \A g \in [SUBSET S -> V] : Step(g) \in [SUBSET S -> V]
  BY DEF Chooses
<1>4. 0 \in T
  <2>1. [s \in SUBSET S |-> base] \in [SUBSET S -> V]
    OBVIOUS
  <2>2. Right([s \in SUBSET S |-> base], 0)
    BY <1>1
  <2>3. QED
    BY <2>1, <2>2
<1>5. ASSUME NEW n \in Nat, n \in T PROVE n + 1 \in T
  <2>1. PICK g \in [SUBSET S -> V] : Right(g, n)
    BY <1>5
  <2>2. \A s \in SUBSET S : s # {} /\ Cardinality(s) <= n + 1 =>
           g[s \ {choice[s]}] = Step(g)[s \ {choice[s]}]
    <3> SUFFICES ASSUME NEW s \in SUBSET S, s # {}, Cardinality(s) <= n + 1
                 PROVE  g[s \ {choice[s]}] = Step(g)[s \ {choice[s]}]
      OBVIOUS
    <3> DEFINE t == s \ {choice[s]}
    <3>1. t \in SUBSET S /\ Cardinality(t) <= n
      BY <1>1, <1>2
    <3>2. g[t] = Step(g)[t]
      <4> HIDE DEF t, Step
      <4>1. QED
        BY <2>1, <3>1
    <3>3. QED
      BY <3>2
  <2>3. Right(Step(g), n + 1)
    BY <2>2, <1>2
  <2>4. \E h \in [SUBSET S -> V] : Right(h, n + 1)
    <3> HIDE DEF Step, Right
    <3>1. QED
      BY <1>3, <2>3
  <2> HIDE DEF Right
  <2>5. QED
    BY <2>4
<1>6. PICK g \in [SUBSET S -> V] : Right(g, Cardinality(S))
  <2>1. Cardinality(S) \in T
    BY <1>1, <1>4, <1>5, AllNumbers
  <2>2. QED
    BY <2>1
<1>7. g = Step(g)
  BY <1>3, <1>6, FS_Subset
<1>8. QED
  BY <1>7 DEF FoldsUp

-----------------------------------------------------------------------------
(* Sums                                                                      *)

\* g adds up f over every subset of S, in the order CHOOSE takes.
Adds(g, f, S) ==
    g = [s \in SUBSET S |-> IF s = {} THEN 0
                            ELSE f[CHOOSE x \in s : TRUE] + g[s \ {CHOOSE x \in s : TRUE}]]

LEMMA SumExists ==
  ASSUME NEW S, IsFiniteSet(S), NEW f \in [S -> Int]
  PROVE  \E g \in [SUBSET S -> Int] : Adds(g, f, S)
<1> DEFINE choice == [s \in SUBSET S |-> CHOOSE x \in s : TRUE]
           F == [x \in S |-> [v \in Int |-> f[x] + v]]
<1>1. Chooses(choice, S)
  BY DEF Chooses
<1>2. F \in [S -> [Int -> Int]]
  OBVIOUS
<1>3. PICK g \in [SUBSET S -> Int] : FoldsUp(g, S, choice, 0, F)
  <2> HIDE DEF choice, F
  <2>1. QED
    BY <1>1, <1>2, 0 \in Int, FoldExists, Zenon
<1>4. \A s \in SUBSET S : g[s] = IF s = {} THEN 0 ELSE
         f[CHOOSE x \in s : TRUE] + g[s \ {CHOOSE x \in s : TRUE}]
  <2> SUFFICES ASSUME NEW s \in SUBSET S, s # {}
               PROVE  g[s] = f[CHOOSE x \in s : TRUE] + g[s \ {CHOOSE x \in s : TRUE}]
    BY <1>3 DEF FoldsUp
  <2> DEFINE c == CHOOSE x \in s : TRUE
  <2>1. c \in S /\ g[s] = F[c][g[s \ {c}]] /\ g[s \ {c}] \in Int
    BY <1>3 DEF FoldsUp
  <2> HIDE DEF c
  <2>2. g[s] = f[c] + g[s \ {c}]
    BY <2>1
  <2>3. QED
    BY <2>2 DEF c
<1>5. QED
  BY <1>4 DEF Adds

\* Two of them agree on what both add up.
LEMMA SumAgrees ==
  ASSUME NEW S, IsFiniteSet(S), NEW f, NEW g, Adds(g, f, S),
         NEW T, IsFiniteSet(T), NEW k, NEW h, Adds(h, k, T),
         \A x \in S \cap T : f[x] = k[x]
  PROVE  \A s \in SUBSET (S \cap T) : g[s] = h[s]
<1> DEFINE N == {n \in Nat : \A s \in SUBSET (S \cap T) : Cardinality(s) = n => g[s] = h[s]}
<1>1. \A s \in SUBSET (S \cap T) :
         /\ s \in SUBSET S /\ s \in SUBSET T
         /\ IsFiniteSet(s) /\ Cardinality(s) \in Nat /\ (Cardinality(s) = 0 <=> s = {})
  BY FS_Subset, FS_CardinalityType, FS_EmptySet
<1>2. 0 \in N
  BY <1>1 DEF Adds
<1>3. ASSUME NEW n \in Nat, n \in N PROVE n + 1 \in N
  <2> SUFFICES ASSUME NEW s \in SUBSET (S \cap T), Cardinality(s) = n + 1
               PROVE  g[s] = h[s]
    OBVIOUS
  <2> DEFINE c == CHOOSE x \in s : TRUE
  <2>1. s # {} /\ c \in s
    BY <1>1
  <2>2. g[s] = f[c] + g[s \ {c}] /\ h[s] = k[c] + h[s \ {c}]
    BY <1>1, <2>1 DEF Adds
  <2> HIDE DEF c
  <2>3. s \ {c} \in SUBSET (S \cap T) /\ Cardinality(s \ {c}) = n
    BY <1>1, <2>1, FS_RemoveElement
  <2>4. QED
    BY <1>3, <2>1, <2>2, <2>3
<1>4. \A s \in SUBSET (S \cap T) : Cardinality(s) \in N
  BY <1>1, <1>2, <1>3, AllNumbers
<1>5. QED
  BY <1>4

\* One more element adds its value.
Additive(g, f, S) ==
    /\ g \in [SUBSET S -> Int]
    /\ \A s \in SUBSET S : \A x \in S \ s : g[s \cup {x}] = f[x] + g[s]

\* Whatever element is chosen first, a sum does not depend on it.
THEOREM SumOfOneMore ==
  ASSUME NEW S, IsFiniteSet(S), NEW f \in [S -> Int], NEW g, Adds(g, f, S)
  PROVE  Additive(g, f, S)
<1>1. g \in [SUBSET S -> Int]
  <2>1. PICK h \in [SUBSET S -> Int] : Adds(h, f, S)
    BY SumExists
  <2>2. \A s \in SUBSET S : g[s] = h[s]
    BY <2>1, SumAgrees
  <2>3. QED
    BY <2>1, <2>2 DEF Adds
<1> DEFINE N == {n \in Nat : \A s \in SUBSET S : \A x \in S \ s :
                                Cardinality(s) = n => g[s \cup {x}] = f[x] + g[s]}
<1>2. \A s \in SUBSET S : IsFiniteSet(s) /\ Cardinality(s) \in Nat
                            /\ (Cardinality(s) = 0 <=> s = {})
  BY FS_Subset, FS_CardinalityType, FS_EmptySet
<1>3. \A s \in SUBSET S : s # {} =>
         \E c \in s : g[s] = f[c] + g[s \ {c}] /\ c = CHOOSE x \in s : TRUE
  BY DEF Adds
<1>4. 0 \in N
  <2> SUFFICES ASSUME NEW x \in S PROVE g[{} \cup {x}] = f[x] + g[{}]
    BY <1>2
  <2>1. PICK c \in {x} : g[{x}] = f[c] + g[{x} \ {c}]
    BY <1>3
  <2>2. c = x /\ {x} \ {c} = {} /\ {} \cup {x} = {x}
    BY <2>1
  <2>3. QED
    BY <2>1, <2>2
<1>5. ASSUME NEW n \in Nat, n \in N PROVE n + 1 \in N
  <2> SUFFICES ASSUME NEW s \in SUBSET S, NEW x \in S \ s, Cardinality(s) = n + 1
               PROVE  g[s \cup {x}] = f[x] + g[s]
    OBVIOUS
  <2>1. PICK c \in s \cup {x} : g[s \cup {x}] = f[c] + g[(s \cup {x}) \ {c}]
    <3>1. s \cup {x} \in SUBSET S /\ s \cup {x} # {}
      OBVIOUS
    <3>2. QED
      BY <1>3, <3>1
  <2>2. CASE c = x
    <3>1. (s \cup {x}) \ {c} = s
      BY <2>2
    <3>2. QED
      BY <2>1, <2>2, <3>1
  <2>3. CASE c # x
    <3> DEFINE r == s \ {c}
    <3>1. /\ c \in s /\ r \in SUBSET S /\ x \in S \ r /\ c \in S \ r
          /\ (s \cup {x}) \ {c} = r \cup {x} /\ s = r \cup {c}
      BY <2>1, <2>3
    <3>2. Cardinality(r) = n
      BY <1>2, <3>1, FS_RemoveElement
    <3> HIDE DEF r
    <3>3. g[r \cup {x}] = f[x] + g[r] /\ g[s] = f[c] + g[r]
      BY <1>5, <3>1, <3>2
    <3>4. g[r] \in Int /\ f[x] \in Int /\ f[c] \in Int
      BY <1>1, <3>1
    <3>5. g[s \cup {x}] = f[c] + g[r \cup {x}]
      BY <2>1, <3>1, Zenon
    <3>6. QED
      BY <3>3, <3>4, <3>5
  <2>4. QED
    BY <2>2, <2>3
<1>6. \A s \in SUBSET S : Cardinality(s) \in N
  BY <1>2, <1>4, <1>5, AllNumbers
<1>7. QED
  BY <1>1, <1>6 DEF Additive

\* v is the sum of f over S.
Summed(v, f, S) == \E g : Adds(g, f, S) /\ v = g[S]

\* Nothing adds up to zero.
LEMMA SumOfNone ==
  ASSUME NEW v, NEW f, Summed(v, f, {})
  PROVE  v = 0
BY DEF Summed, Adds

LEMMA SumType ==
  ASSUME NEW S, IsFiniteSet(S), NEW f \in [S -> Int], NEW v, Summed(v, f, S)
  PROVE  v \in Int
<1>1. PICK g : Adds(g, f, S) /\ v = g[S]
  BY DEF Summed
<1>2. g \in [SUBSET S -> Int]
  BY <1>1, SumOfOneMore, Zenon DEF Additive
<1>3. QED
  BY <1>1, <1>2

\* A sum over one more element, whatever order either was taken in.
THEOREM SumGrows ==
  ASSUME NEW S, IsFiniteSet(S), NEW x, x \notin S, NEW T, T = S \cup {x},
         NEW f, NEW v, Summed(v, f, S),
         NEW k, k \in [T -> Int], NEW w, Summed(w, k, T),
         \A y \in S : f[y] = k[y]
  PROVE  w = k[x] + v
<1>1. IsFiniteSet(T) /\ S \in SUBSET T /\ x \in T \ S /\ S \cap T = S /\ k \in [T -> Int]
  BY FS_AddElement
<1>2. PICK g : Adds(g, f, S) /\ v = g[S]
  BY DEF Summed
<1>3. PICK h : Adds(h, k, T) /\ w = h[T]
  BY DEF Summed
<1>4. \A y \in S \cap T : f[y] = k[y]
  BY <1>1
<1>5. \A s \in SUBSET (S \cap T) : g[s] = h[s]
  BY <1>1, <1>2, <1>3, <1>4, SumAgrees
<1>6. \A s \in SUBSET T : \A y \in T \ s : h[s \cup {y}] = k[y] + h[s]
  <2>1. IsFiniteSet(T) /\ k \in [T -> Int] /\ Adds(h, k, T)
    BY <1>1, <1>3
  <2>2. Additive(h, k, T)
    BY ONLY <2>1, SumOfOneMore, Zenon
  <2>3. QED
    BY <2>2 DEF Additive
<1>7. QED
  BY <1>1, <1>2, <1>3, <1>5, <1>6

\* The sum of f over S, as a fold of the community modules.
SumOver(f, S) == MapThenSumSet(LAMBDA x : f[x], S)

\* It is a sum: what the fold chooses as its own fixed point exists.
LEMMA SumOverIsSum ==
  ASSUME NEW S, IsFiniteSet(S), NEW f, f \in [S -> Int]
  PROVE  Summed(SumOver(f, S), f, S)
<1> DEFINE H(g) == [s \in SUBSET S |-> IF s = {} THEN 0 ELSE
                      f[CHOOSE x \in s : TRUE] + g[s \ {CHOOSE x \in s : TRUE}]]
           h == CHOOSE g : g = H(g)
<1>1. PICK g : Adds(g, f, S)
  BY SumExists
<1>2. \A g_1 : Adds(g_1, f, S) <=> g_1 = H(g_1)
  BY DEF Adds
<1>3. h = H(h)
  <2> HIDE DEF H
  <2>1. QED
    BY <1>1, <1>2, Zenon
<1>4. SumOver(f, S) = h[S]
  BY Zenon DEF SumOver, MapThenSumSet, MapThenFoldSet
<1>5. QED
  <2> HIDE DEF h, H
  <2>1. QED
    BY <1>2, <1>3, <1>4, Zenon DEF Summed

-----------------------------------------------------------------------------
(* Folds from the left                                                       *)

\* Max is what it is called, of numbers up to n.
LEMMA MaxOfSome ==
  ASSUME NEW n \in Nat, NEW s \in SUBSET (1..n), s # {}
  PROVE  Max(s) \in s /\ \A x \in s : x <= Max(s)
<1> DEFINE T == {d \in Nat : n - d \in s}
<1>1. \A x \in s : n - x \in T
  OBVIOUS
<1>2. PICK m \in T : \A t \in T : m <= t
  BY <1>1, LeastNumber
<1>3. n - m \in s /\ \A x \in s : n - m >= x
  BY <1>1, <1>2
<1>4. \E y \in s : \A x \in s : y >= x
  BY <1>3
<1>5. QED
  BY <1>4 DEF Max

LEMMA MaxOfFirst ==
  ASSUME NEW k \in Nat \ {0}
  PROVE  Max(1..k) = k
<1>1. Max(1..k) \in 1..k /\ \A x \in 1..k : x <= Max(1..k)
  BY 1..k \in SUBSET (1..k), k \in 1..k, MaxOfSome
<1>2. QED
  BY <1>1

\* g folds the places 1..n from the left: the last one of s comes last.
FoldsLeft(g, n, base, F) ==
    \A s \in SUBSET (1..n) : g[s] = IF s = {} THEN base ELSE F[Max(s)][g[s \ {Max(s)}]]

LEMMA LeftFoldExists ==
  ASSUME NEW n \in Nat, NEW V, NEW base \in V, NEW F \in [1..n -> [V -> V]]
  PROVE  \E g \in [SUBSET (1..n) -> V] : FoldsLeft(g, n, base, F)
<1> DEFINE choice == [s \in SUBSET (1..n) |-> Max(s)]
<1>1. Chooses(choice, 1..n)
  BY MaxOfSome DEF Chooses
<1>2. IsFiniteSet(1..n)
  BY FS_Interval
<1>3. PICK g \in [SUBSET (1..n) -> V] : FoldsUp(g, 1..n, choice, base, F)
  <2> HIDE DEF choice
  <2>1. QED
    BY <1>1, <1>2, FoldExists, Zenon
<1>4. QED
  BY <1>3 DEF FoldsUp, FoldsLeft

\* The first k numbers are those before, and k.
LEMMA FirstWithoutLast ==
  ASSUME NEW k \in Nat
  PROVE  (1..(k + 1)) \ {k + 1} = 1..k
OBVIOUS

\* Two functions that go on alike from the same start are the same so far.
LEMMA GoOnAlike ==
  ASSUME NEW n \in Nat, NEW p, NEW q, p[0] = q[0],
         \A k \in 0..(n - 1) : p[k] = q[k] => p[k + 1] = q[k + 1]
  PROVE  p[n] = q[n]
<1> DEFINE T == {k \in Nat : k <= n => p[k] = q[k]}
<1>1. 0 \in T /\ \A k \in Nat : k \in T => k + 1 \in T
  OBVIOUS
<1>2. n \in T
  <2> HIDE DEF T
  <2>1. QED
    BY <1>1, AllNumbers
<1>3. QED
  BY <1>2
=============================================================================
