----------------------------- MODULE PoolProofs -----------------------------
(***************************************************************************)
(* For every number of requests, wallets and connections: the pool never   *)
(* lends more than it has, and it stands still only when reversals fill it *)
(* that ask for one connection more.  So it is through stops, kills and    *)
(* starts as well, since the life of a replica implements the pool.        *)
(***************************************************************************)
EXTENDS Shutdown, FiniteSetTheorems, TLAPS

\* Only a reversal ever wants a second connection, for a query it still has.
OnlyReversalsAsk ==
    \A r \in Request :
        /\ pc[r] \in {"asking", "querying"} => r \in Reversal
        /\ pc[r] = "asking" => left[r] > 0

PoolInv == TypeOK /\ OnlyReversalsAsk

\* The two sets a request may add itself to are finite.
LEMMA HoldersFinite == /\ IsFiniteSet(InTx) /\ IsFiniteSet(Querying)
                       /\ Cardinality(InTx) \in Nat /\ Cardinality(Querying) \in Nat
<1>1. InTx \subseteq Request /\ Querying \subseteq Request
  BY DEF InTx, Querying
<1>2. QED
  BY <1>1, PoolAssumption, FS_Subset, FS_CardinalityType

\* A set that gains one element grows by one at most.
LEMMA GrowsByOne ==
  ASSUME NEW S, IsFiniteSet(S), NEW x, NEW T, T \subseteq S \cup {x}
  PROVE  /\ IsFiniteSet(T) /\ Cardinality(T) \in Nat /\ Cardinality(S) \in Nat
         /\ Cardinality(T) <= Cardinality(S) + 1
<1>1. /\ IsFiniteSet(S \cup {x})
      /\ Cardinality(S \cup {x}) = Cardinality(S) \/ Cardinality(S \cup {x}) = Cardinality(S) + 1
  BY FS_AddElement
<1>2. IsFiniteSet(T) /\ Cardinality(T) <= Cardinality(S \cup {x})
  BY <1>1, FS_Subset
<1>3. Cardinality(T) \in Nat /\ Cardinality(S) \in Nat /\ Cardinality(S \cup {x}) \in Nat
  BY <1>1, <1>2, FS_CardinalityType
<1>4. QED
  BY <1>1, <1>2, <1>3

\* What a step does to the connections: it takes one, when one is free, or
\* none.
LEMMA FreeBound ==
  ASSUME PoolInv, InTx' \in SUBSET Request, Querying' \in SUBSET Request,
         \/ InTx' \subseteq InTx /\ Querying' \subseteq Querying
         \/ Free > 0 /\ Querying' \subseteq Querying
                     /\ \E r \in Request : InTx' \subseteq InTx \cup {r}
         \/ Free > 0 /\ InTx' \subseteq InTx
                     /\ \E r \in Request : Querying' \subseteq Querying \cup {r}
  PROVE  Free' \in 0..PoolSize
<1> DEFINE a == Cardinality(InTx)   b == Cardinality(Querying)
           c == Cardinality(InTx')  d == Cardinality(Querying')
<1>1. a \in Nat /\ b \in Nat /\ IsFiniteSet(InTx) /\ IsFiniteSet(Querying)
  BY HoldersFinite
<1>2. /\ InTx' \subseteq InTx => c <= a
      /\ Querying' \subseteq Querying => d <= b
      /\ (\E r \in Request : InTx' \subseteq InTx \cup {r}) => c <= a + 1
      /\ (\E r \in Request : Querying' \subseteq Querying \cup {r}) => d <= b + 1
  BY <1>1, FS_Subset, GrowsByOne
<1>3. c \in Nat /\ d \in Nat
  BY PoolAssumption, FS_Subset, FS_CardinalityType
<1>4. Free = PoolSize - a - b /\ Free' = PoolSize - c - d
  BY DEF Free
<1>5. Free \in 0..PoolSize /\ PoolSize \in Nat
  BY PoolAssumption DEF PoolInv, TypeOK
<1> HIDE DEF a, b, c, d
<1>6. CASE c <= a /\ d <= b
  BY <1>1, <1>3, <1>4, <1>5, <1>6
<1>7. CASE Free > 0 /\ c <= a + 1 /\ d <= b
  BY <1>1, <1>3, <1>4, <1>5, <1>7
<1>8. CASE Free > 0 /\ c <= a /\ d <= b + 1
  BY <1>1, <1>3, <1>4, <1>5, <1>8
<1>9. QED
  BY <1>2, <1>6, <1>7, <1>8

\* No request holds anything at first.
LEMMA PoolInit == Init => PoolInv
<1> SUFFICES ASSUME Init PROVE PoolInv
  OBVIOUS
<1>1. InTx = {} /\ Querying = {}
  BY DEF Init, InTx, Querying
<1>2. Free = PoolSize
  BY <1>1, FS_EmptySet, PoolAssumption DEF Free
<1>3. QED
  BY <1>2, PoolAssumption DEF Init, PoolInv, TypeOK, OnlyReversalsAsk, Locked

\* The part of the invariant that does not count.
LockPart ==
    /\ pc \in [Request -> {"idle", "acquiring", "begun", "asking", "querying", "ready"}]
    /\ left \in [Request -> 0..2]
    /\ holder \in [Wallet -> Request \cup {Null}]
    /\ \A w \in Wallet : \A r \in Request : holder[w] = r <=> Locked(r) /\ target[r] = w
    /\ OnlyReversalsAsk

\* Leaving returns the lock and the connections.
LEMMA LeaveKeeps ==
  ASSUME PoolInv, NEW r \in Request, Leave(r)
  PROVE  LockPart' /\ InTx' \subseteq InTx /\ Querying' \subseteq Querying
<1>1. LockPart'
  BY PoolAssumption DEF PoolInv, TypeOK, LockPart, OnlyReversalsAsk, Leave, Locked
<1>2. InTx' \subseteq InTx /\ Querying' \subseteq Querying
  BY DEF Leave, InTx, Querying, PoolInv, TypeOK
<1>3. QED
  BY <1>1, <1>2

\* The invariant is inductive.
LEMMA PoolStep == PoolInv /\ [Next]_vars => PoolInv'
<1> SUFFICES ASSUME PoolInv, [Next]_vars PROVE PoolInv'
  OBVIOUS
<1> USE DEF PoolInv, TypeOK, OnlyReversalsAsk
<1>a. InTx' \in SUBSET Request /\ Querying' \in SUBSET Request
  BY DEF InTx, Querying
<1>b. ASSUME LockPart', Free' \in 0..PoolSize PROVE PoolInv'
  BY <1>b DEF LockPart
<1>1. CASE UNCHANGED vars
  <2>1. LockPart' /\ InTx' = InTx /\ Querying' = Querying
    BY <1>1 DEF vars, LockPart, InTx, Querying, Locked
  <2>2. QED
    BY <2>1, <1>a, <1>b, FreeBound
<1>2. ASSUME NEW r \in Request, Arrive(r) PROVE PoolInv'
  <2>1. LockPart'
    BY <1>2 DEF Arrive, LockPart, Locked
  <2>2. InTx' \subseteq InTx /\ Querying' \subseteq Querying
    BY <1>2 DEF Arrive, InTx, Querying
  <2>3. QED
    BY <2>1, <2>2, <1>a, <1>b, FreeBound
<1>3. ASSUME NEW r \in Request, Begin(r) PROVE PoolInv'
  <2>1. LockPart'
    BY <1>3 DEF Begin, LockPart, Locked
  <2>2. Free > 0 /\ InTx' \subseteq InTx \cup {r} /\ Querying' \subseteq Querying
    BY <1>3 DEF Begin, InTx, Querying
  <2>3. QED
    BY <2>1, <2>2, <1>a, <1>b, FreeBound
<1>4. ASSUME NEW r \in Request, LockWallet(r) PROVE PoolInv'
  <2>1. LockPart'
    <3>1. /\ pc' \in [Request -> {"idle", "acquiring", "begun", "asking", "querying", "ready"}]
          /\ left' \in [Request -> 0..2]
          /\ holder' \in [Wallet -> Request \cup {Null}]
      <4>1. pc' \in [Request -> {"idle", "acquiring", "begun", "asking", "querying", "ready"}]
        BY <1>4 DEF LockWallet
      <4>2. left' \in [Request -> 0..2]
        BY <1>4 DEF LockWallet
      <4>3. holder' \in [Wallet -> Request \cup {Null}]
        BY <1>4 DEF LockWallet
      <4>4. QED
        BY <4>1, <4>2, <4>3
    <3>2. Locked(r)' /\ \A x \in Request \ {r} : Locked(x)' <=> Locked(x)
      <4>1. pc'[r] \in {"asking", "ready"} /\ \A x \in Request \ {r} : pc'[x] = pc[x]
        BY <1>4 DEF LockWallet
      <4>2. QED
        BY <4>1 DEF Locked
    <3>3. \A w \in Wallet : \A x \in Request : holder'[w] = x <=> Locked(x)' /\ target[x] = w
      <4>1. /\ ~ Locked(r) /\ holder[target[r]] = Null /\ target[r] \in Wallet
            /\ holder' = [holder EXCEPT ![target[r]] = r]
        BY <1>4, PoolAssumption DEF LockWallet, Locked
      <4>2. \A w \in Wallet : \A x \in Request \ {r} : holder'[w] = x <=> holder[w] = x
        BY <4>1, PoolAssumption
      <4>3. \A w \in Wallet : holder'[w] = r <=> target[r] = w
        BY <4>1
      <4>4. QED
        BY <3>2, <4>2, <4>3
    <3>4. OnlyReversalsAsk'
      BY <1>4 DEF LockWallet
    <3>5. QED
      BY <3>1, <3>3, <3>4 DEF LockPart
  <2>2. InTx' \subseteq InTx /\ Querying' \subseteq Querying
    BY <1>4 DEF LockWallet, InTx, Querying
  <2>3. QED
    BY <2>1, <2>2, <1>a, <1>b, FreeBound
<1>5. ASSUME NEW r \in Request, Query(r) PROVE PoolInv'
  <2>1. LockPart'
    BY <1>5 DEF Query, LockPart, Locked
  <2>2. Free > 0 /\ InTx' \subseteq InTx /\ Querying' \subseteq Querying \cup {r}
    BY <1>5 DEF Query, InTx, Querying
  <2>3. QED
    BY <2>1, <2>2, <1>a, <1>b, FreeBound
<1>6. ASSUME NEW r \in Request, Answer(r) PROVE PoolInv'
  <2>1. LockPart'
    BY <1>6 DEF Answer, LockPart, Locked
  <2>2. InTx' \subseteq InTx /\ Querying' \subseteq Querying
    BY <1>6 DEF Answer, InTx, Querying
  <2>3. QED
    BY <2>1, <2>2, <1>a, <1>b, FreeBound
<1>7. ASSUME NEW r \in Request, Leave(r) PROVE PoolInv'
  BY <1>7, <1>a, <1>b, LeaveKeeps, FreeBound
<1>8. QED
  BY <1>1, <1>2, <1>3, <1>4, <1>5, <1>6, <1>7 DEF Next, Serve, End, EndEarly, GiveUp

\* No two requests hold one wallet, and the pool is never overdrawn.
THEOREM PoolTypeCorrect == Spec => []TypeOK
<1>1. PoolInv => TypeOK
  BY DEF PoolInv
<1>2. QED
  BY <1>1, PoolInit, PoolStep, PTL DEF Spec

\* In a standstill nobody queries or is about to commit, so every connection
\* lent is a transaction's; were one free, a waiter would take it, or a wallet's
\* lock would have no owner.
LEMMA FullPool == PoolInv => OnlyFullPoolStands
<1> SUFFICES ASSUME PoolInv, Standstill
             PROVE  /\ Cardinality(InTx) = PoolSize
                    /\ \A r \in InTx : \E h \in Reversal : pc[h] = "asking" /\ target[h] = target[r]
  BY DEF OnlyFullPoolStands
<1> USE DEF PoolInv, TypeOK, OnlyReversalsAsk
<1>1. \A r \in Request : /\ pc[r] \in {"idle", "acquiring", "begun", "asking"}
                         /\ pc[r] \in {"acquiring", "asking"} => ~ (Free > 0)
                         /\ pc[r] = "begun" => holder[target[r]] # Null
  BY DEF Standstill, CanMove
<1>2. \A r \in InTx : \E h \in Reversal : pc[h] = "asking" /\ target[h] = target[r]
  <2>1. ASSUME NEW r \in InTx, pc[r] = "begun"
        PROVE  \E h \in Reversal : pc[h] = "asking" /\ target[h] = target[r]
    <3>1. r \in Request /\ target[r] \in Wallet
      BY PoolAssumption DEF InTx
    <3>2. PICK h \in Request : holder[target[r]] = h
      BY <1>1, <2>1, <3>1
    <3>3. Locked(h) /\ target[h] = target[r]
      BY <3>1, <3>2
    <3>4. pc[h] = "asking" /\ h \in Reversal
      BY <1>1, <3>3 DEF Locked
    <3>5. QED
      BY <3>3, <3>4
  <2>2. QED
    BY <1>1, <2>1 DEF InTx
<1>3. ~ (Free > 0)
  <2>1. CASE \E r \in Request : pc[r] \in {"acquiring", "asking"}
    BY <1>1, <2>1
  <2>2. CASE \A r \in Request : pc[r] \notin {"acquiring", "asking"}
    <3>1. InTx = {}
      BY <1>2, <2>2, PoolAssumption
    <3>2. \A r \in Request : pc[r] = "idle"
      BY <1>1, <2>2, <3>1 DEF InTx
    <3>3. QED
      BY <3>2 DEF Standstill
  <2>3. QED
    BY <2>1, <2>2
<1>4. Querying = {}
  BY <1>1 DEF Querying
<1>5. Cardinality(InTx) = PoolSize
  BY <1>3, <1>4, HoldersFinite, FS_EmptySet, PoolAssumption DEF Free
<1>6. QED
  BY <1>2, <1>5

\* Whatever the size of the pool, it stands still only when it is full of
\* reversals that ask for one connection more and of requests that wait for
\* their wallets.
THEOREM StandstillIsFull == Spec => []OnlyFullPoolStands
  BY FullPool, PoolInit, PoolStep, PTL DEF Spec

\* So a pool with more connections than requests in progress never stands
\* still, nor does one that serves no reversal, however small it is.
THEOREM AmplePoolMoves == Spec => [](Ample => ~ Standstill)
<1>1. PoolInv => (Ample => ~ Standstill)
  <2> SUFFICES ASSUME PoolInv, Ample, Standstill PROVE FALSE
    OBVIOUS
  <2>1. /\ Cardinality(InTx) = PoolSize
        /\ \A r \in InTx : \E h \in Reversal : pc[h] = "asking" /\ target[h] = target[r]
    BY FullPool DEF OnlyFullPoolStands
  <2>2. InTx # {}
    BY <2>1, FS_EmptySet, PoolAssumption
  <2>3. Reversal # {}
    BY <2>1, <2>2
  <2>4. Cardinality(InTx) <= Cardinality(Request)
    <3>1. InTx \subseteq Request
      BY DEF InTx
    <3>2. QED
      BY <3>1, PoolAssumption, FS_Subset
  <2>5. Cardinality(Request) \in Nat
    BY PoolAssumption, FS_CardinalityType
  <2>6. QED
    BY <2>1, <2>3, <2>4, <2>5, PoolAssumption DEF Ample
<1>2. QED
  BY <1>1, PoolInit, PoolStep, PTL DEF Spec

-----------------------------------------------------------------------------
(* The life of a replica                                                   *)

\* Every step of a replica's life is a step of the pool, or none to it: a stop
\* only narrows what requests may do and adds ways to give up.
LEMMA LifeIsPool == [Life]_phases => [Next]_vars
<1> SUFFICES ASSUME [Life]_phases PROVE [Next]_vars
  OBVIOUS
<1>1. CASE UNCHANGED phases \/ Stop \/ ShutdownServer \/ Close \/ Kill \/ Start
  BY <1>1 DEF phases, Stop, ShutdownServer, Close, Kill, Start
<1>2. ASSUME NEW r \in Request,
             \/ ArriveServed(r) \/ ServeOpen(r) \/ Cancelled(r)
             \/ TurnedAway(r) \/ Broken(r) \/ (Runs /\ GiveUp(r))
      PROVE  Arrive(r) \/ Serve(r) \/ GiveUp(r)
  BY <1>2 DEF ArriveServed, ServeOpen, Cancelled, TurnedAway, Broken, GiveUp, Serve
<1>3. QED
  BY <1>1, <1>2 DEF Life, Next

\* Through stops, kills and starts a replica is a pool that serves requests.
THEOREM LifeImplementsPool == LifeSpec => Spec
<1>1. Started => Init
  BY DEF Started
<1>2. QED
  BY <1>1, LifeIsPool, PTL DEF LifeSpec, Spec

\* The pool is not overdrawn and no lock is left behind, in whichever phase a
\* request is cancelled, turned away or broken off.
THEOREM LifeTypeCorrect == LifeSpec => []TypeOK
  BY LifeImplementsPool, PoolTypeCorrect, PTL

\* A stop adds no way to stand still: what a closed pool may wait for, until it
\* is killed, is a full pool of such reversals and nothing else.
THEOREM LifeMoves == LifeSpec => [](OnlyFullPoolStands /\ (Ample => ~ Standstill))
  BY LifeImplementsPool, StandstillIsFull, AmplePoolMoves, PTL

\* The phases, and that a pool closed by itself has every connection back.
PhaseInv ==
    /\ phase \in {"serving", "draining", "closing", "stopped", "killed"}
    /\ phase = "stopped" => InTx = {}

\* Nothing begins a transaction once the pool is closed.
LEMMA PhaseStep == TypeOK /\ PhaseInv /\ [Life]_phases => PhaseInv'
<1> SUFFICES ASSUME TypeOK, PhaseInv, [Life]_phases PROVE PhaseInv'
  OBVIOUS
<1> USE DEF PhaseInv
<1>1. CASE UNCHANGED phases
  BY <1>1 DEF phases, vars, InTx
<1>2. CASE Stop \/ ShutdownServer \/ Kill \/ Start
  BY <1>2 DEF Stop, ShutdownServer, Kill, Start
<1>3. CASE Close
  BY <1>3 DEF Close, vars, InTx
<1>4. ASSUME NEW r \in Request, UNCHANGED phase,
             \/ ArriveServed(r) \/ ServeOpen(r) \/ Cancelled(r)
             \/ TurnedAway(r) \/ Broken(r) \/ (Runs /\ GiveUp(r))
      PROVE  PhaseInv'
  <2>1. CASE phase # "stopped"
    BY <1>4, <2>1
  <2>2. CASE phase = "stopped"
    <3>1. Leave(r)
      BY <1>4, <2>2 DEF ArriveServed, ServeOpen, Cancelled, TurnedAway, Broken, Runs, GiveUp
    <3>2. InTx' \subseteq InTx
      BY <3>1 DEF Leave, InTx, TypeOK
    <3>3. QED
      BY <1>4, <2>2, <3>2
  <2>3. QED
    BY <2>1, <2>2
<1>5. QED
  BY <1>1, <1>2, <1>3, <1>4 DEF Life

\* A stop that came to its end in time left no wallet locked: the replica that
\* starts next, or another one, finds each of them free.
THEOREM StoppedLeavesNoLock ==
  LifeSpec => [](phase = "stopped" => \A w \in Wallet : holder[w] = Null)
<1>1. Started => PhaseInv
  BY DEF Started, Init, PhaseInv
<1>2. ASSUME TypeOK, PhaseInv, phase = "stopped", NEW w \in Wallet PROVE holder[w] = Null
  <2>1. \A r \in Request : ~ Locked(r)
    BY <1>2 DEF PhaseInv, InTx, Locked
  <2>2. QED
    BY <1>2, <2>1 DEF TypeOK
<1>3. TypeOK /\ PhaseInv => (phase = "stopped" => \A w \in Wallet : holder[w] = Null)
  BY <1>2
<1>4. QED
  BY <1>1, <1>3, PhaseStep, LifeTypeCorrect, PTL DEF LifeSpec
=============================================================================
