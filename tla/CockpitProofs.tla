---------------------------- MODULE CockpitProofs ----------------------------
(***************************************************************************)
(* For every number of clicks, stakes and providers: the page plays one     *)
(* spin at a time, never sends a key with another body, and the demo gives  *)
(* a bet back once, what it cost, with a ledger that leads to its balance.  *)
(***************************************************************************)
EXTENDS Cockpit, FoldTheorems

-----------------------------------------------------------------------------
(* One spin at a time                                                        *)

\* The same without counting.
Single == /\ \A s, t \in spins : s = t
          /\ spinning <=> spins # {}

\* A session that is opened leaves the spins alone.
LEMMA SingleOpen == Single /\ OpenSession => Single'
BY DEF Single, OpenSession

\* A spin is replaced by the same spin further on, or taken out.
LEMMA SingleSpin ==
  ASSUME Single, NEW s \in spins, BetAnswered(s) \/ Land(s) \/ EndSpin(s)
  PROVE  Single'
<1>1. spins = {s} /\ spinning
  BY DEF Single
<1>2. CASE BetAnswered(s) \/ Land(s)
  <2>1. \E t : spins' = (spins \ {s}) \cup {t}
    BY <1>2 DEF BetAnswered, Land, WinInDemo, SendWin
  <2>2. spinning' = spinning
    BY <1>2 DEF BetAnswered, Land, WinInDemo, SendWin
  <2>3. QED
    BY <1>1, <2>1, <2>2 DEF Single
<1>3. CASE EndSpin(s)
  BY <1>1, <1>3 DEF EndSpin, Single
<1>4. QED
  BY <1>2, <1>3

\* Every action keeps it: a run that waited for stateMu looks at isSpinning again.
LEMMA SingleStep == Single /\ [Next]_vars => Single'
<1> SUFFICES ASSUME Single, [Next]_vars PROVE Single'
  OBVIOUS
<1>1. CASE TrySpin
  <2>1. CASE session # 0 /\ StartSpin
    BY <2>1 DEF Single, StartSpin, CanSpin
  <2>2. CASE OpenSession
    BY <2>2, SingleOpen
  <2>3. CASE UNCHANGED <<spins, spinning>>
    BY <2>3 DEF Single
  <2>4. QED
    BY <1>1, <2>1, <2>2, <2>3 DEF TrySpin
<1>2. CASE InitSession
  BY <1>2, SingleOpen DEF InitSession
<1>3. CASE \E s \in spins : BetAnswered(s) \/ Land(s) \/ EndSpin(s)
  BY <1>3, SingleSpin
<1>4. CASE UNCHANGED <<spins, spinning>>
  BY <1>4 DEF Single
<1>5. CASE FetchTokens \/ CheckHealth \/ BootSession \/ ClickSpin \/ Choose \/ Reset
  BY <1>4, <1>5 DEF FetchTokens, CheckHealth, BootSession, ClickSpin, Choose, Reset, running
<1>6. CASE Replay \/ AskRefund \/ CancelRefund \/ ConfirmRefund \/ Deposit
  BY <1>4, <1>6 DEF Replay, AskRefund, CancelRefund, ConfirmRefund, Deposit, running
<1>7. CASE Opened \/ RefundAnswered \/ UNCHANGED vars
  BY <1>4, <1>7 DEF Opened, RefundAnswered, vars, running
<1>8. QED
  BY <1>1, <1>2, <1>3, <1>5, <1>6, <1>7 DEF Next

\* The uncounted form is an invariant.
THEOREM SingleHolds == Spec => []Single
<1>1. Init => Single
  BY DEF Init, Single
<1>2. QED
  BY <1>1, SingleStep, PTL DEF Spec

\* However often the spin button's handler runs and whatever it waited for, one
\* spin is played, and isSpinning says whether one is.
THEOREM OneSpinAtATimeHolds == Spec => []OneSpinAtATime
<1>1. Single => OneSpinAtATime
  <2> SUFFICES ASSUME Single PROVE Cardinality(spins) <= 1
    BY DEF OneSpinAtATime, Single
  <2>1. CASE spins = {}
    BY <2>1, FS_EmptySet
  <2>2. CASE \E s : spins = {s}
    BY <2>2, FS_Singleton
  <2>3. QED
    BY <2>1, <2>2 DEF Single
<1>2. QED
  BY <1>1, SingleHolds, PTL
-----------------------------------------------------------------------------
(* Amounts in print                                                          *)

\* A number of cents within half a cent of an amount.
Near(n, x) == 2 * (n * Cent - x) \in -Cent..Cent

\* There are such cents, and of whole cents it is they.
LEMMA NearestCents ==
  ASSUME NEW x \in Nat
  PROVE  /\ Nearest(x) \in Nat /\ Near(Nearest(x), x)
         /\ x % Cent = 0 => Nearest(x) * Cent = x
<1> DEFINE q == x \div Cent   r == x % Cent
<1>1. Cent \in Nat \ {0}
  BY CockpitAssumption
<1>2. q \in Nat /\ r \in 0..(Cent - 1) /\ x = Cent * q + r
  BY <1>1
<1> HIDE DEF q, r
<1>3. PICK a \in Int : a = q * Cent
  BY <1>1, <1>2
<1>4. PICK p \in Nat : p = q + 1 /\ p * Cent = a + Cent /\ x = a + r /\ r \in Nat
  <2>1. (q + 1) * Cent = a + Cent /\ x = a + r /\ r \in Nat
    BY <1>1, <1>2, <1>3
  <2>2. QED
    BY <1>2, <2>1
<1>5. Near(q, x) \/ Near(p, x)
  <2>1. CASE 2 * r <= Cent
    <3>1. 2 * (a - x) \in -Cent..Cent
      BY <1>1, <1>4, <2>1
    <3>2. QED
      BY <1>3, <3>1 DEF Near
  <2>2. CASE 2 * r > Cent
    <3>1. 2 * ((a + Cent) - x) \in -Cent..Cent
      BY <1>1, <1>2, <1>4, <2>2
    <3>2. p * Cent = a + Cent
      BY <1>4
    <3>3. QED
      BY ONLY <3>1, <3>2, Zenon DEF Near
  <2>3. 2 * r <= Cent \/ 2 * r > Cent
    BY <1>1, <1>4
  <2>4. QED
    BY <2>1, <2>2, <2>3
<1>6. Nearest(x) \in {q, p} /\ Near(Nearest(x), x)
  BY <1>4, <1>5 DEF Nearest, Near, q
<1>7. ASSUME r = 0 PROVE Nearest(x) * Cent = x
  <2>1. ~ Near(p, x)
    <3>1. 2 * ((a + Cent) - x) = 2 * Cent
      BY <1>1, <1>4, <1>7
    <3>2. 2 * (p * Cent - x) = 2 * Cent
      <4>1. p * Cent = a + Cent
        BY <1>4
      <4>2. QED
        BY ONLY <3>1, <4>1, Zenon
    <3>3. 2 * Cent \notin -Cent..Cent
      BY <1>1
    <3>4. QED
      BY <3>2, <3>3 DEF Near
  <2>2. Nearest(x) = q
    BY <1>6, <2>1
  <2>3. QED
    BY <1>3, <1>4, <1>7, <2>2
<1>8. QED
  BY <1>2, <1>6, <1>7 DEF r

\* What is printed of an amount, of a debt too.
LEMMA PrintedCents ==
  ASSUME NEW x \in Int
  PROVE  /\ Printed(x) \in Int /\ Near(Printed(x), x)
         /\ x >= 0 => Printed(x) \in Nat /\ Printed(-x) = -Printed(x)
<1>1. Cent \in Nat \ {0}
  BY CockpitAssumption
<1>2. CASE x >= 0
  <2>1. Printed(x) = Nearest(x) /\ Nearest(x) \in Nat /\ Near(Nearest(x), x)
    BY <1>2, NearestCents DEF Printed
  <2>2. CASE x = 0
    <3>1. Nearest(0) * Cent = 0 /\ Nearest(0) \in Nat
      <4>1. 0 % Cent = 0
        BY <1>1
      <4>2. QED
        BY <4>1, NearestCents
    <3>2. Nearest(0) = 0
      BY <1>1, <3>1
    <3>3. QED
      BY <2>1, <2>2, <3>2 DEF Printed
  <2>3. CASE x # 0
    <3>1. -x < 0 /\ -(-x) = x
      BY <1>2, <2>3
    <3>2. QED
      BY <1>2, <2>1, <3>1 DEF Printed
  <2>4. QED
    BY <2>1, <2>2, <2>3
<1>3. CASE x < 0
  <2>1. PICK y \in Nat : y = -x
    BY <1>3
  <2>2. PICK p \in Nat : p = Nearest(y) /\ Near(p, y)
    BY NearestCents
  <2>3. Printed(x) = -p
    BY <1>3, <2>1, <2>2 DEF Printed
  <2>4. PICK a \in Int : a = p * Cent
    BY <1>1
  <2>5. (-p) * Cent = -a
    BY <1>1, <2>4
  <2>6. 2 * (a - y) \in -Cent..Cent
    BY <2>2, <2>4 DEF Near
  <2>7. 2 * ((-a) - x) \in -Cent..Cent
    BY <1>1, <2>1, <2>6
  <2>8. QED
    BY <1>3, <2>3, <2>5, <2>7 DEF Near
<1>4. QED
  BY <1>2, <1>3

\* A whole amount is printed as it is.
LEMMA PrintedWhole ==
  ASSUME NEW x \in Nat, x % Cent = 0
  PROVE  Printed(x) * Cent = x /\ (x = 0 => Printed(x) = 0)
<1>1. Printed(x) = Nearest(x) /\ Nearest(x) \in Nat /\ Nearest(x) * Cent = x
  BY NearestCents DEF Printed
<1>2. QED
  BY <1>1, CockpitAssumption
-----------------------------------------------------------------------------
(* A key keeps its body                                                      *)

RequestType == [op : {"none", "bet", "win", "replay"}, n : Nat, session : Int,
                provider : Provider, amount : Nat]
LastType    == [n : Nat, sent : RequestType, amount : Nat, success : BOOLEAN,
                refunded : BOOLEAN]

\* What a request is made of.
Chosen == stake \in Stake /\ provider \in Provider /\ session \in Int /\ sessions \in Int

\* The bets sent, numbered as they were; the last bet is one of them.
Sent ==
    /\ first \in Seq(RequestType) /\ \A i \in 1..Len(first) : first[i].n = i
    /\ last \in LastType /\ last.n \in 0..Len(first)
    /\ last.n # 0 => last.sent = first[last.n]

Replayed ==
    wire.op = "replay" => /\ wire.n \in 1..Len(first)
                          /\ wire = [first[wire.n] EXCEPT !.op = "replay"]

KeysInv == Chosen /\ Sent /\ Replayed

\* A request has the shape of one.
LEMMA RequestShape ==
  ASSUME NEW op \in {"none", "bet", "win", "replay"}, NEW n \in Nat, NEW s \in Int,
         NEW p \in Provider, NEW c \in Nat
  PROVE  /\ Request(op, n, s, p, c) \in RequestType
         /\ Request(op, n, s, p, c).n = n /\ Request(op, n, s, p, c).op = op
BY DEF Request, RequestType

\* No bet is none of those sent.
LEMMA NoBetShape == /\ NoBet \in LastType /\ NoBet.n = 0
                    /\ NoRequest.op = "none"
<1>1. NoRequest \in RequestType /\ NoRequest.op = "none"
  BY RequestShape, CockpitAssumption DEF NoRequest
<1>2. QED
  BY <1>1 DEF NoBet, LastType

\* Nothing was sent yet.
LEMMA KeysInit == Init => KeysInv
BY NoBetShape, CockpitAssumption DEF Init, KeysInv, Chosen, Sent, Replayed

\* What leaves the bets sent and the last request alone.
LEMMA KeysKept ==
  ASSUME KeysInv, Chosen', UNCHANGED <<first, wire>>,
         last' \in {last, NoBet}
  PROVE  KeysInv'
BY NoBetShape DEF KeysInv, Sent, Replayed

\* A new session forgets the last bet or keeps it.
LEMMA KeysOpen == KeysInv /\ OpenSession => KeysInv'
<1> SUFFICES ASSUME KeysInv, OpenSession PROVE KeysInv'
  OBVIOUS
<1>1. Chosen'
  BY DEF KeysInv, Chosen, OpenSession
<1>2. last' \in {last, NoBet}
  BY DEF OpenSession, Forget, Keep
<1>3. QED
  BY <1>1, <1>2, KeysKept DEF OpenSession

\* A bet takes the next number, and becomes the last one.
LEMMA KeysStart == KeysInv /\ StartSpin => KeysInv'
<1> SUFFICES ASSUME KeysInv, StartSpin PROVE KeysInv'
  OBVIOUS
<1> DEFINE n == Len(first) + 1
           b == Request("bet", n, session, provider, Printed(stake))
<1>1. stake \in Nat /\ n \in Nat \ {0} /\ Printed(stake) \in Nat
  <2>1. stake \in Nat /\ n \in Nat \ {0}
    BY CockpitAssumption DEF KeysInv, Chosen, Sent
  <2>2. QED
    BY <2>1, PrintedCents
<1>2. b \in RequestType /\ b.n = n
  <2>1. session \in Int /\ provider \in Provider /\ n \in Nat
    BY <1>1 DEF KeysInv, Chosen
  <2> HIDE DEF n
  <2>2. QED
    BY <1>1, <2>1 DEF Request, RequestType
<1>3. first' = Append(first, b)
  BY DEF StartSpin
<1>4. /\ first' \in Seq(RequestType) /\ Len(first') = n /\ first'[n] = b
      /\ \A i \in 1..Len(first) : first'[i] = first[i]
  BY <1>2, <1>3 DEF KeysInv, Sent
<1>5. /\ last' = [n |-> n, sent |-> b, amount |-> stake,
                  success |-> last.success \/ demo, refunded |-> FALSE]
      /\ (last.success \/ demo) \in BOOLEAN
  BY DEF StartSpin
<1>6. Sent'
  <2>1. last' \in LastType
    BY <1>1, <1>2, <1>5 DEF LastType
  <2>2. \A i \in 1..Len(first') : first'[i].n = i
    BY <1>1, <1>2, <1>4 DEF KeysInv, Sent
  <2>3. QED
    BY <1>1, <1>4, <1>5, <2>1, <2>2 DEF Sent
<1>7. Replayed'
  BY <1>1, <1>4 DEF KeysInv, Sent, Replayed, StartSpin
<1>8. Chosen'
  BY DEF StartSpin, KeysInv, Chosen
<1>9. QED
  BY <1>6, <1>7, <1>8 DEF KeysInv

\* The amount and the marks of the last bet are not part of what was sent.
LEMMA KeysMarked ==
  ASSUME KeysInv, NEW c \in Nat, NEW s \in BOOLEAN, NEW r \in BOOLEAN,
         last' = [last EXCEPT !.amount = c, !.success = s, !.refunded = r],
         UNCHANGED <<stake, provider, session, sessions, first, wire>>
  PROVE  KeysInv'
<1>1. last' \in LastType /\ last'.n = last.n /\ last'.sent = last.sent
  BY DEF KeysInv, Sent, LastType
<1>2. QED
  BY <1>1 DEF KeysInv, Chosen, Sent, Replayed

\* Every action keeps it: only a bet writes lastBet*, and only under a new key.
LEMMA KeysStep == KeysInv /\ [Next]_vars => KeysInv'
<1> SUFFICES ASSUME KeysInv, [Next]_vars PROVE KeysInv'
  OBVIOUS
<1>1. ASSUME UNCHANGED <<stake, provider, session, sessions, last, first, wire>>
      PROVE  KeysInv'
  BY <1>1, KeysKept DEF KeysInv, Chosen
<1>2. last \in LastType
  BY DEF KeysInv, Sent
<1>3. CASE TrySpin
  <2>1. CASE StartSpin
    BY <2>1, KeysStart
  <2>2. CASE OpenSession
    BY <2>2, KeysOpen
  <2>3. CASE UNCHANGED <<game, history>>
    BY <1>1, <2>3 DEF game, history
  <2>4. QED
    BY <1>3, <2>1, <2>2, <2>3 DEF TrySpin
<1>4. CASE InitSession
  BY <1>4, KeysOpen DEF InitSession
<1>5. CASE FetchTokens \/ CheckHealth \/ BootSession \/ ClickSpin \/ Reset
  BY <1>1, <1>5 DEF FetchTokens, CheckHealth, BootSession, ClickSpin, Reset, game, history
<1>6. CASE AskRefund \/ CancelRefund \/ Deposit
  BY <1>1, <1>6 DEF AskRefund, CancelRefund, Deposit, game, history
<1>7. CASE Choose
  BY <1>7, KeysKept DEF Choose, KeysInv, Chosen
<1>8. CASE Replay
  <2>1. /\ last.n \in 1..Len(first) /\ last.sent = first[last.n]
        /\ first[last.n] \in RequestType /\ first[last.n].n = last.n
    BY <1>8 DEF Replay, KeysInv, Sent
  <2>2. wire' = [first[last.n] EXCEPT !.op = "replay"] /\ wire'.n = last.n
    BY <1>8, <2>1 DEF Replay, RequestType
  <2>3. UNCHANGED <<game, first, sessions>>
    BY <1>8 DEF Replay
  <2>4. QED
    BY <2>1, <2>2, <2>3 DEF game, KeysInv, Chosen, Sent, Replayed
<1>9. CASE ConfirmRefund \/ RefundAnswered
  <2>1. last' \in {last, [last EXCEPT !.refunded = TRUE]}
    BY <1>9 DEF ConfirmRefund, RefundAnswered
  <2>2. \E r \in BOOLEAN :
           last' = [last EXCEPT !.amount = last.amount, !.success = last.success, !.refunded = r]
    BY <1>2, <2>1 DEF LastType
  <2>3. UNCHANGED <<stake, provider, session, sessions, first, wire>>
    BY <1>9 DEF ConfirmRefund, RefundAnswered, history
  <2>4. QED
    BY <1>2, <2>2, <2>3, KeysMarked DEF LastType
<1>10. CASE Opened
  <2>1. session' \in Int /\ last' = NoBet
    BY <1>10 DEF Opened, Forget, KeysInv, Chosen
  <2>2. QED
    BY <1>10, <2>1, KeysKept DEF Opened, history, KeysInv, Chosen
<1>11. ASSUME NEW s \in spins, BetAnswered(s)
       PROVE  KeysInv'
  <2>1. CASE last' = [last EXCEPT !.amount = stake, !.success = TRUE]
    <3>1. last' = [last EXCEPT !.amount = stake, !.success = TRUE, !.refunded = last.refunded]
      BY <1>2, <2>1 DEF LastType
    <3>2. stake \in Nat /\ last.refunded \in BOOLEAN
      BY <1>2, CockpitAssumption DEF KeysInv, Chosen, LastType
    <3>3. QED
      BY <1>11, <3>1, <3>2, KeysMarked DEF BetAnswered, history
  <2>2. CASE last' = last
    BY <1>1, <1>11, <2>2 DEF BetAnswered, history
  <2>3. QED
    BY <1>11, <2>1, <2>2 DEF BetAnswered
<1>12. ASSUME NEW s \in spins, Land(s)
       PROVE  KeysInv'
  <2>1. UNCHANGED <<stake, provider, session, sessions, last, first>>
    BY <1>12 DEF Land, WinInDemo, SendWin
  <2>2. wire' = wire \/ wire'.op = "win"
    BY <1>12 DEF Land, WinInDemo, SendWin, Request
  <2>3. QED
    BY <2>1, <2>2 DEF KeysInv, Chosen, Sent, Replayed
<1>13. ASSUME NEW s \in spins, EndSpin(s)
       PROVE  KeysInv'
  BY <1>1, <1>13 DEF EndSpin, game, history
<1>14. CASE UNCHANGED vars
  BY <1>1, <1>14 DEF vars, game, history
<1>15. QED
  BY <1>3, <1>4, <1>5, <1>6, <1>7, <1>8, <1>9, <1>10, <1>11, <1>12, <1>13, <1>14 DEF Next

\* A number stands for one body, in the last bet and on the wire.
THEOREM KeysHold == Spec => []KeysInv
BY KeysInit, KeysStep, PTL DEF Spec

\* A replay sends what its key was first sent with, whatever the player chose
\* and whichever session was opened since.
THEOREM OneBodyPerKeyHolds == Spec => []OneBodyPerKey
<1>1. KeysInv => OneBodyPerKey
  BY DEF KeysInv, Replayed, OneBodyPerKey
<1>2. QED
  BY <1>1, KeysHold, PTL
-----------------------------------------------------------------------------
(* The purse                                                                 *)

Purse == sessions \in Nat /\ session \in -sessions..sessions /\ balance \in Int

LEMMA PurseInit == Init => Purse
BY CockpitAssumption DEF Init, Purse

\* So many tenths of a stake.
LEMMA WinType ==
  ASSUME NEW x \in Prize, NEW s \in Stake
  PROVE  (x * s) \div 10 \in Nat
<1>1. PICK c \in Nat : c = x * s
  BY CockpitAssumption
<1>2. c \div 10 \in Nat
  OBVIOUS
<1>3. QED
  BY <1>1, <1>2

\* What is won or paid is a number.
LEMMA PurseStep == KeysInv /\ Purse /\ [Next]_vars => Purse'
<1> SUFFICES ASSUME KeysInv, Purse, [Next]_vars PROVE Purse'
  OBVIOUS
<1>1. stake \in Nat /\ last.amount \in Int
  BY CockpitAssumption DEF KeysInv, Chosen, Sent, LastType
<1>2. ASSUME UNCHANGED <<sessions, session, balance>> PROVE Purse'
  BY <1>2 DEF Purse
<1>3. CASE OpenSession
  BY <1>3, CockpitAssumption DEF OpenSession, Purse
<1>4. CASE TrySpin
  <2>1. CASE StartSpin
    BY <1>1, <2>1 DEF StartSpin, Purse
  <2>2. CASE UNCHANGED <<game, history>>
    BY <1>2, <2>2 DEF game, history
  <2>3. QED
    BY <1>3, <1>4, <2>1, <2>2 DEF TrySpin
<1>5. CASE InitSession
  BY <1>3, <1>5 DEF InitSession
<1>6. CASE FetchTokens \/ CheckHealth \/ BootSession \/ ClickSpin \/ Reset
  BY <1>2, <1>6 DEF FetchTokens, CheckHealth, BootSession, ClickSpin, Reset, game, history
<1>7. CASE Choose \/ Replay \/ AskRefund \/ CancelRefund \/ RefundAnswered
  BY <1>2, <1>7 DEF Choose, Replay, AskRefund, CancelRefund, RefundAnswered, game, history
<1>8. CASE Deposit \/ ConfirmRefund
  BY <1>1, <1>8, CockpitAssumption DEF Deposit, ConfirmRefund, Purse
<1>9. CASE Opened
  BY <1>9, CockpitAssumption DEF Opened, Purse, history
<1>10. ASSUME NEW s \in spins, BetAnswered(s) \/ EndSpin(s) PROVE Purse'
  BY <1>2, <1>10 DEF BetAnswered, EndSpin, game, history
<1>11. ASSUME NEW s \in spins, Land(s) PROVE Purse'
  <2>1. \A x \in Prize : (x * stake) \div 10 \in Int
    BY <1>1, WinType, CockpitAssumption DEF KeysInv, Chosen
  <2>2. balance' \in Int
    BY <1>11, <2>1 DEF Land, WinInDemo, SendWin, Purse
  <2>3. QED
    BY <1>11, <2>2 DEF Land, Purse
<1>12. CASE UNCHANGED vars
  BY <1>2, <1>12 DEF vars, game, history
<1>13. QED
  BY <1>4, <1>5, <1>6, <1>7, <1>8, <1>9, <1>10, <1>11, <1>12 DEF Next

-----------------------------------------------------------------------------
(* The demo's refunds                                                        *)

EntryType == [kind : {"OPENING", "BET", "WIN", "REFUND"}, n : Nat, cents : Int,
              before : Int, after : Int]

SpinType  == [n : Nat, demo : BOOLEAN, at : {"bet", "rolling", "over"}]

\* The page that is hosted without an engine asks it nothing.
Alone == /\ demo \in BOOLEAN
         /\ hosted => /\ demo /\ ~opening /\ refunding = 0
                      /\ \A s \in spins : s.at # "bet"

\* Entries are of bets there were.
Entries ==
    /\ ledger \in Seq(EntryType)
    /\ \A i \in 1..Len(ledger) : ledger[i].n <= Len(first)
    /\ spins \subseteq SpinType /\ \A s \in spins : s.n \in 1..Len(first)

\* The bet that a refund of so many cents returns.
BetOf(e, n, cents) == e.kind = "BET" /\ e.n = n /\ e.cents = -cents

\* The last bet is in the ledger for what a refund would return, and as long as
\* it is not marked no refund of it is.
LastBooked ==
    hosted /\ last.n # 0 =>
        /\ \E j \in 1..Len(ledger) : BetOf(ledger[j], last.n, Printed(last.amount))
        /\ ~last.refunded => \A i \in 1..Len(ledger) :
               ledger[i].kind = "REFUND" => ledger[i].n # last.n

DemoInv == Alone /\ Entries /\ LastBooked /\ DemoRefundsOnce

\* An entry has the shape of one.
Shaped(e, kind, n, a, prev) ==
    /\ e \in EntryType /\ e.kind = kind /\ e.n = n /\ e.cents = Printed(a)
    /\ e.before = Printed(prev) /\ e.after = Printed(prev + a)

LEMMA EntryShape ==
  ASSUME NEW kind \in {"OPENING", "BET", "WIN", "REFUND"}, NEW n \in Nat,
         NEW a \in Int, NEW prev \in Int
  PROVE  Shaped(Entry(kind, n, a, prev), kind, n, a, prev)
<1>1. Printed(a) \in Int /\ Printed(prev) \in Int /\ Printed(prev + a) \in Int
  BY PrintedCents
<1>2. QED
  BY <1>1 DEF Entry, EntryType, Shaped

\* What an entry at the end of a ledger leaves as it is.
LEMMA Appended ==
  ASSUME NEW l \in Seq(EntryType), NEW e \in EntryType
  PROVE  /\ Append(l, e) \in Seq(EntryType) /\ Len(Append(l, e)) = Len(l) + 1
         /\ Append(l, e)[Len(l) + 1] = e
         /\ \A i \in 1..Len(l) : Append(l, e)[i] = l[i]
         /\ Len(l) \in Nat
OBVIOUS

\* The ledger is empty.
LEMMA DemoInit == Init => DemoInv
BY DEF Init, DemoInv, Alone, Entries, LastBooked, DemoRefundsOnce, NoBet

\* Spins go on, or end.
SpinsKept == spins' \subseteq SpinType /\ \A s \in spins' : \E t \in spins : s.n = t.n

\* What leaves ledger and bets alone.
LEMMA DemoKept ==
  ASSUME KeysInv, DemoInv, Alone', UNCHANGED <<hosted, first, ledger>>,
         last' \in {last, NoBet}, SpinsKept
  PROVE  DemoInv'
<1>1. Entries'
  BY DEF DemoInv, Entries, SpinsKept
<1>2. LastBooked'
  BY NoBetShape DEF DemoInv, LastBooked
<1>3. DemoRefundsOnce'
  BY DEF DemoInv, DemoRefundsOnce, BetOf
<1>4. QED
  BY <1>1, <1>2, <1>3 DEF DemoInv

\* Entries are added, refunds not.
Booking == /\ ledger' \in Seq(EntryType) /\ Len(ledger) <= Len(ledger')
           /\ \A i \in 1..Len(ledger) : ledger'[i] = ledger[i]
           /\ \A i \in 1..Len(ledger') : i > Len(ledger) => ledger'[i].kind # "REFUND"

\* Refunds of before are all there are.
LEMMA RefundsAfterBooking ==
  ASSUME DemoInv, Booking, hosted' = hosted
  PROVE  DemoRefundsOnce'
<1>1. /\ Len(ledger) \in Nat /\ Len(ledger') \in Nat
      /\ DOMAIN ledger = 1..Len(ledger) /\ DOMAIN ledger' = 1..Len(ledger')
  BY DEF DemoInv, Entries, Booking
<1> SUFFICES ASSUME hosted, NEW i \in 1..Len(ledger'), ledger'[i].kind = "REFUND"
             PROVE  /\ \E j \in 1..(i - 1) :
                          BetOf(ledger'[j], ledger'[i].n, ledger'[i].cents)
                    /\ \A j \in 1..Len(ledger') \ {i} :
                          ledger'[j].kind = "REFUND" => ledger'[j].n # ledger'[i].n
  BY <1>1 DEF DemoRefundsOnce, BetOf
<1>2. i \in 1..Len(ledger) /\ ledger'[i] = ledger[i]
  BY <1>1 DEF Booking
<1>3. /\ \E j \in 1..(i - 1) : BetOf(ledger[j], ledger[i].n, ledger[i].cents)
      /\ \A j \in 1..Len(ledger) \ {i} :
            ledger[j].kind = "REFUND" => ledger[j].n # ledger[i].n
  BY <1>1, <1>2 DEF DemoInv, DemoRefundsOnce, BetOf
<1>4. QED
  BY <1>1, <1>2, <1>3 DEF Booking

\* The last bet stays booked.
LEMMA LastAfterBooking ==
  ASSUME DemoInv, Booking, UNCHANGED <<hosted, last>>
  PROVE  LastBooked'
<1>1. Len(ledger) \in Nat /\ Len(ledger') \in Nat
  BY DEF DemoInv, Entries, Booking
<1> SUFFICES ASSUME hosted, last.n # 0
             PROVE  /\ \E j \in 1..Len(ledger') :
                          BetOf(ledger'[j], last.n, Printed(last.amount))
                    /\ ~last.refunded => \A i \in 1..Len(ledger') :
                           ledger'[i].kind = "REFUND" => ledger'[i].n # last.n
  BY DEF LastBooked
<1>2. PICK j \in 1..Len(ledger) : BetOf(ledger[j], last.n, Printed(last.amount))
  BY DEF DemoInv, LastBooked
<1>3. j \in 1..Len(ledger') /\ BetOf(ledger'[j], last.n, Printed(last.amount))
  BY <1>1, <1>2 DEF Booking
<1>4. ~last.refunded => \A i \in 1..Len(ledger) :
         ledger[i].kind = "REFUND" => ledger[i].n # last.n
  BY DEF DemoInv, LastBooked
<1>5. QED
  BY <1>1, <1>3, <1>4 DEF Booking

\* A new session has a new ledger, and in the demo no last bet.
LEMMA DemoOpen == KeysInv /\ DemoInv /\ OpenSession => DemoInv'
<1> SUFFICES ASSUME KeysInv, DemoInv, OpenSession PROVE DemoInv'
  OBVIOUS
<1>1. Alone'
  BY DEF OpenSession, DemoInv, Alone
<1>2. UNCHANGED <<hosted, first, spins>> /\ last' \in {last, NoBet}
  BY DEF OpenSession, Forget, Keep
<1>3. CASE ledger' = ledger
  BY <1>1, <1>2, <1>3, DemoKept DEF SpinsKept, DemoInv, Entries
<1>4. CASE ledger' = NewLedger
  <2>1. Shaped(Entry("OPENING", 0, Opening, 0), "OPENING", 0, Opening, 0)
    <3>1. 0 \in Nat /\ 0 \in Int /\ Opening \in Int
      BY CockpitAssumption
    <3>2. QED
      BY <3>1, EntryShape, Zenon
  <2>2. /\ ledger' \in Seq(EntryType) /\ Len(ledger') = 1 /\ DOMAIN ledger' = 1..1
        /\ \A i \in 1..1 : ledger'[i].kind = "OPENING" /\ ledger'[i].n = 0
    BY <1>4, <2>1 DEF NewLedger, Shaped
  <2>3. Entries'
    BY <1>2, <2>2 DEF Entries, DemoInv, KeysInv, Sent
  <2>4. DemoRefundsOnce'
    BY <2>2 DEF DemoRefundsOnce, BetOf
  <2>5. LastBooked'
    BY <1>2, NoBetShape DEF LastBooked, OpenSession, Forget, DemoInv, Alone
  <2>6. QED
    BY <1>1, <2>3, <2>4, <2>5 DEF DemoInv
<1>5. QED
  BY <1>3, <1>4 DEF OpenSession

\* A bet is booked under its number, which no entry has yet.
LEMMA DemoStart == KeysInv /\ Purse /\ DemoInv /\ StartSpin => DemoInv'
<1> SUFFICES ASSUME KeysInv, Purse, DemoInv, StartSpin PROVE DemoInv'
  OBVIOUS
<1> DEFINE n == Len(first) + 1
           e == Entry("BET", n, -stake, balance)
<1>1. n \in Nat /\ Len(first) \in Nat /\ stake \in Nat /\ -stake \in Int /\ balance \in Int
  BY CockpitAssumption DEF KeysInv, Chosen, Sent, Purse
<1>2. e \in EntryType /\ BetOf(e, n, Printed(stake)) /\ Printed(stake) \in Nat
  <2>1. Shaped(e, "BET", n, -stake, balance)
    <3> HIDE DEF n
    <3>1. QED
      BY <1>1, EntryShape, Zenon
  <2>2. Printed(-stake) = -Printed(stake) /\ Printed(stake) \in Nat
    <3>1. stake \in Int /\ stake >= 0
      BY <1>1
    <3>2. QED
      BY <3>1, PrintedCents, Zenon
  <2>3. QED
    BY <2>1, <2>2 DEF BetOf, Shaped
<1>3. Len(first') = n
  <2>1. Request("bet", n, session, provider, Printed(stake)) \in RequestType
    BY <1>1, <1>2, RequestShape, CockpitAssumption DEF KeysInv, Chosen
  <2>2. QED
    BY <2>1 DEF StartSpin, KeysInv, Sent
<1>4. hosted' = hosted /\ Alone'
  BY DEF StartSpin, page, DemoInv, Alone
<1>5. last'.n = n /\ last'.amount = stake
  BY DEF StartSpin
<1>6. spins' \subseteq SpinType /\ \A s \in spins' : s.n \in 1..n
  <2>1. demo \in BOOLEAN
    BY DEF DemoInv, Alone
  <2> DEFINE t == [n |-> n, demo |-> demo, at |-> IF demo THEN "rolling" ELSE "bet"]
  <2>2. t \in SpinType /\ t.n = n
    BY <1>1, <2>1 DEF SpinType
  <2>3. spins' = spins \cup {t}
    BY DEF StartSpin
  <2>4. QED
    BY <1>1, <2>2, <2>3 DEF DemoInv, Entries
<1>7. \A i \in 1..Len(ledger) : ledger[i].n \in Nat /\ ledger[i].n <= Len(first)
  <2>1. \A i \in 1..Len(ledger) : ledger[i] \in EntryType /\ ledger[i].n <= Len(first)
    BY DEF DemoInv, Entries
  <2>2. QED
    BY <2>1 DEF EntryType
<1>8. CASE ledger' = ledger /\ ~demo
  <2>1. Entries'
    BY <1>1, <1>3, <1>6, <1>7, <1>8 DEF DemoInv, Entries
  <2>2. QED
    BY <1>4, <1>8, <2>1 DEF DemoInv, Alone, LastBooked, DemoRefundsOnce
<1>9. CASE ledger' = Append(ledger, e)
  <2>1. /\ ledger' \in Seq(EntryType) /\ Len(ledger') = Len(ledger) + 1
        /\ ledger'[Len(ledger) + 1] = e /\ Len(ledger) \in Nat
        /\ \A i \in 1..Len(ledger) : ledger'[i] = ledger[i]
    BY <1>2, <1>9, Appended DEF DemoInv, Entries
  <2>2. Booking
    BY <1>2, <2>1 DEF Booking, BetOf
  <2>3. Entries'
    BY <1>1, <1>2, <1>3, <1>6, <1>7, <2>1 DEF Entries, BetOf
  <2>4. LastBooked'
    <3>1. BetOf(ledger'[Len(ledger) + 1], last'.n, Printed(last'.amount))
      BY <1>2, <1>5, <2>1
    <3>2. \A i \in 1..Len(ledger') : ledger'[i].kind = "REFUND" => ledger'[i].n # last'.n
      BY <1>1, <1>2, <1>5, <1>7, <2>1 DEF BetOf
    <3>3. QED
      BY <2>1, <3>1, <3>2 DEF LastBooked
  <2>5. QED
    BY <1>4, <2>2, <2>3, <2>4, RefundsAfterBooking DEF DemoInv
<1>10. QED
  BY <1>8, <1>9 DEF StartSpin

\* Entries of earlier bets that are no refunds.
LEMMA DemoBooked ==
  ASSUME DemoInv, Alone', Booking, UNCHANGED <<hosted, first, last>>,
         \A i \in 1..Len(ledger') : i > Len(ledger) => ledger'[i].n <= Len(first),
         SpinsKept
  PROVE  DemoInv'
<1>1. Len(ledger) \in Nat /\ Len(ledger') \in Nat
  BY DEF DemoInv, Entries, Booking
<1>2. \A i \in 1..Len(ledger') : ledger'[i].n <= Len(first)
  BY <1>1 DEF DemoInv, Entries, Booking
<1>3. Entries'
  BY <1>2 DEF DemoInv, Entries, Booking, SpinsKept
<1>4. QED
  BY <1>3, RefundsAfterBooking, LastAfterBooking DEF DemoInv

\* The reels' prize in the demo is an entry of its bet.
LEMMA DemoLand ==
  ASSUME KeysInv, Purse, DemoInv, NEW s \in spins, Land(s)
  PROVE  DemoInv'
<1>1. UNCHANGED <<hosted, demo, opening, refunding, first, last>>
  BY DEF Land, WinInDemo, SendWin, page
<1>2. s \in SpinType /\ s.n \in 1..Len(first) /\ Len(first) \in Nat
  BY DEF DemoInv, Entries, KeysInv, Sent
<1>3. SpinsKept
  BY <1>2 DEF Land, WinInDemo, SendWin, SpinsKept, SpinType, DemoInv, Entries
<1>4. Alone'
  BY <1>1, <1>2 DEF Land, WinInDemo, SendWin, Alone, SpinType, DemoInv
<1>5. CASE ledger' = ledger
  BY <1>1, <1>3, <1>4, <1>5, DemoKept
<1>6. ASSUME NEW x \in Prize,
             ledger' = Append(ledger, Entry("WIN", s.n, (x * stake) \div 10, balance))
      PROVE  DemoInv'
  <2> DEFINE e == Entry("WIN", s.n, (x * stake) \div 10, balance)
  <2>1. (x * stake) \div 10 \in Int /\ balance \in Int
    BY WinType DEF KeysInv, Chosen, Purse
  <2>2. e \in EntryType /\ e.kind = "WIN" /\ e.n = s.n
    <3>1. PICK m \in Nat, w \in Int : m = s.n /\ w = (x * stake) \div 10
      BY <1>2, <2>1
    <3>2. Shaped(Entry("WIN", m, w, balance), "WIN", m, w, balance)
      BY <2>1, EntryShape
    <3>3. QED
      BY ONLY <3>1, <3>2, Zenon DEF Shaped
  <2>3. /\ ledger' \in Seq(EntryType) /\ Len(ledger') = Len(ledger) + 1
        /\ ledger'[Len(ledger) + 1] = e /\ Len(ledger) \in Nat
        /\ \A i \in 1..Len(ledger) : ledger'[i] = ledger[i]
    BY <1>6, <2>2, Appended DEF DemoInv, Entries
  <2>4. Booking /\ \A i \in 1..Len(ledger') : i > Len(ledger) => ledger'[i].n <= Len(first)
    BY <1>2, <2>2, <2>3 DEF Booking
  <2>5. QED
    BY <1>1, <1>3, <1>4, <2>4, DemoBooked
<1>7. QED
  BY <1>5, <1>6 DEF Land, WinInDemo, SendWin

\* A deposit in the demo is an entry of no bet, twice.
LEMMA DemoDeposit == KeysInv /\ Purse /\ DemoInv /\ Deposit => DemoInv'
<1> SUFFICES ASSUME KeysInv, Purse, DemoInv, Deposit PROVE DemoInv'
  OBVIOUS
<1> DEFINE e == Entry("WIN", 0, Credit, balance)
           d == Entry("WIN", 0, Credit, balance + Credit)
<1>1. /\ e \in EntryType /\ e.kind = "WIN" /\ e.n = 0
      /\ d \in EntryType /\ d.kind = "WIN" /\ d.n = 0
  <2>1. PICK z \in Nat, c, b \in Int : z = 0 /\ c = Credit /\ b = balance + Credit
    BY CockpitAssumption DEF Purse
  <2>2. Shaped(Entry("WIN", z, c, balance), "WIN", z, c, balance)
    BY EntryShape DEF Purse
  <2>3. Shaped(Entry("WIN", z, c, b), "WIN", z, c, b)
    BY EntryShape
  <2>4. QED
    BY ONLY <2>1, <2>2, <2>3, Zenon DEF Shaped
<1>2. ledger' = ledger \o <<e, d>>
  BY DEF Deposit
<1> HIDE DEF e, d
<1>3. /\ ledger' \in Seq(EntryType) /\ Len(ledger') = Len(ledger) + 2
      /\ Len(ledger) \in Nat
      /\ \A i \in 1..Len(ledger) : ledger'[i] = ledger[i]
      /\ ledger'[Len(ledger) + 1] = e /\ ledger'[Len(ledger) + 2] = d
  BY <1>1, <1>2 DEF DemoInv, Entries
<1>4. Booking /\ \A i \in 1..Len(ledger') : i > Len(ledger) => ledger'[i].n <= Len(first)
  BY <1>1, <1>3 DEF Booking, KeysInv, Sent
<1>5. UNCHANGED <<hosted, demo, opening, refunding, first, last, spins>>
  BY DEF Deposit, page, running
<1>6. Alone' /\ SpinsKept
  BY <1>5 DEF DemoInv, Alone, Entries, SpinsKept
<1>7. QED
  BY <1>4, <1>5, <1>6, DemoBooked

\* A refund in the demo is of a bet that is booked, and of which none is.
LEMMA DemoRefund == KeysInv /\ Purse /\ DemoInv /\ ConfirmRefund => DemoInv'
<1> SUFFICES ASSUME KeysInv, Purse, DemoInv, ConfirmRefund PROVE DemoInv'
  OBVIOUS
<1>1. UNCHANGED <<hosted, demo, opening, first, spins>>
  BY DEF ConfirmRefund, page
<1>2. SpinsKept
  BY <1>1 DEF DemoInv, Entries, SpinsKept
<1>3. Alone'
  BY <1>1 DEF DemoInv, Alone, ConfirmRefund
<1>4. CASE UNCHANGED <<last, ledger>>
  BY <1>1, <1>2, <1>3, <1>4, DemoKept
<1>5. CASE /\ last.n # 0 /\ ~last.refunded
           /\ last' = [last EXCEPT !.refunded = TRUE]
           /\ ledger' = Append(ledger, Entry("REFUND", last.n, last.amount, balance))
  <2> DEFINE e == Entry("REFUND", last.n, last.amount, balance)
             l == Len(ledger)
  <2>1. /\ last \in LastType /\ last.n \in Nat /\ last.amount \in Nat /\ last.n <= Len(first)
        /\ balance \in Int
    BY DEF KeysInv, Sent, LastType, Purse
  <2>2. e \in EntryType /\ e.kind = "REFUND" /\ e.n = last.n /\ e.cents = Printed(last.amount)
    <3>1. PICK m \in Nat, c \in Int : m = last.n /\ c = last.amount
      BY <2>1
    <3>2. Shaped(Entry("REFUND", m, c, balance), "REFUND", m, c, balance)
      BY <2>1, EntryShape
    <3>3. QED
      BY ONLY <3>1, <3>2, Zenon DEF Shaped
  <2>3. /\ ledger' \in Seq(EntryType) /\ Len(ledger') = l + 1
        /\ ledger'[l + 1] = e /\ l \in Nat
        /\ \A i \in 1..l : ledger'[i] = ledger[i]
        /\ DOMAIN ledger = 1..l /\ DOMAIN ledger' = 1..(l + 1)
    BY <1>5, <2>2, Appended DEF DemoInv, Entries
  <2>4. last'.n = last.n /\ last'.amount = last.amount /\ last'.refunded
    BY <1>5, <2>1 DEF LastType
  <2>5. Entries'
    BY <1>1, <1>2, <2>1, <2>2, <2>3 DEF DemoInv, Entries, SpinsKept
  <2>6. ASSUME hosted
        PROVE  /\ \E j \in 1..l : BetOf(ledger[j], last.n, Printed(last.amount))
               /\ \A i \in 1..l : ledger[i].kind = "REFUND" => ledger[i].n # last.n
    BY <1>5, <2>6 DEF DemoInv, LastBooked
  <2>7. LastBooked'
    BY <1>1, <2>3, <2>4, <2>6 DEF LastBooked
  <2>8. DemoRefundsOnce'
    <3> SUFFICES ASSUME hosted, NEW i \in 1..(l + 1), ledger'[i].kind = "REFUND"
                 PROVE  /\ \E j \in 1..(i - 1) :
                              BetOf(ledger'[j], ledger'[i].n, ledger'[i].cents)
                        /\ \A j \in 1..(l + 1) \ {i} :
                              ledger'[j].kind = "REFUND" => ledger'[j].n # ledger'[i].n
      BY <1>1, <2>3 DEF DemoRefundsOnce, BetOf
    <3>1. CASE i = l + 1
      BY <2>2, <2>3, <2>6, <3>1
    <3>2. CASE i \in 1..l
      <4>1. /\ \E j \in 1..(i - 1) :
                  BetOf(ledger[j], ledger[i].n, ledger[i].cents)
            /\ \A j \in 1..l \ {i} :
                  ledger[j].kind = "REFUND" => ledger[j].n # ledger[i].n
        BY <2>3, <3>2 DEF DemoInv, DemoRefundsOnce, BetOf
      <4>2. ledger[i].n # last.n
        BY <2>3, <2>6, <3>2
      <4>3. QED
        BY <2>2, <2>3, <3>2, <4>1, <4>2
    <3>3. QED
      BY <2>3, <3>1, <3>2
  <2>9. QED
    BY <1>3, <2>5, <2>7, <2>8 DEF DemoInv
<1>6. QED
  BY <1>4, <1>5 DEF ConfirmRefund

\* Every action keeps it: the demo books bet and refund at once, and asks nobody.
LEMMA DemoStep == KeysInv /\ Purse /\ DemoInv /\ [Next]_vars => DemoInv'
<1> SUFFICES ASSUME KeysInv, Purse, DemoInv, [Next]_vars PROVE DemoInv'
  OBVIOUS
<1>1. ASSUME UNCHANGED <<hosted, last, first, ledger, demo, opening, refunding, spins>>
      PROVE  DemoInv'
  BY <1>1, DemoKept DEF SpinsKept, DemoInv, Alone, Entries
<1>2. CASE TrySpin
  <2>1. CASE StartSpin
    BY <2>1, DemoStart
  <2>2. CASE OpenSession
    BY <2>2, DemoOpen
  <2>3. CASE UNCHANGED <<page, game, spins, opening, refunding, history>>
    BY <1>1, <2>3 DEF page, game, history
  <2>4. QED
    BY <1>2, <2>1, <2>2, <2>3 DEF TrySpin
<1>3. CASE InitSession
  BY <1>3, DemoOpen DEF InitSession
<1>4. CASE FetchTokens \/ CheckHealth
  <2>1. /\ UNCHANGED <<hosted, last, first, ledger, opening, refunding, spins>>
        /\ demo' \in {demo, TRUE}
    BY <1>4 DEF FetchTokens, CheckHealth, game, running, history
  <2>2. Alone' /\ SpinsKept
    BY <2>1 DEF DemoInv, Alone, Entries, SpinsKept
  <2>3. QED
    BY <2>1, <2>2, DemoKept
<1>5. CASE BootSession \/ ClickSpin \/ Reset
  <2>1. UNCHANGED <<hosted, last, first, ledger, demo, opening, refunding, spins>>
    BY <1>5 DEF BootSession, ClickSpin, Reset, page, game, history
  <2>2. QED
    BY <1>1, <2>1
<1>6. CASE AskRefund \/ CancelRefund \/ Replay
  BY <1>1, <1>6 DEF AskRefund, CancelRefund, Replay, page, game, running, history
<1>7. CASE Choose
  <2>1. UNCHANGED <<hosted, last, first, ledger, demo, opening, refunding, spins>>
    BY <1>7 DEF Choose, page, running
  <2>2. QED
    BY <1>1, <2>1
<1>8. CASE ConfirmRefund \/ Deposit
  BY <1>8, DemoRefund, DemoDeposit
<1>9. CASE Opened
  <2>1. ~hosted /\ demo \in BOOLEAN
    BY <1>9 DEF Opened, DemoInv, Alone
  <2>2. /\ UNCHANGED <<hosted, demo, first, ledger, spins>> /\ last' = NoBet
    BY <1>9 DEF Opened, Forget, page, history
  <2>3. Alone' /\ SpinsKept
    BY <2>1, <2>2 DEF Alone, DemoInv, Entries, SpinsKept
  <2>4. QED
    BY <2>2, <2>3, DemoKept
<1>10. CASE RefundAnswered
  <2>1. ~hosted /\ demo \in BOOLEAN
    BY <1>10 DEF RefundAnswered, DemoInv, Alone
  <2>2. UNCHANGED <<hosted, demo, first, ledger, spins>>
    BY <1>10 DEF RefundAnswered, page, history
  <2>3. Entries'
    BY <2>2 DEF Entries, DemoInv
  <2>4. QED
    BY <2>1, <2>2, <2>3 DEF DemoInv, Alone, LastBooked, DemoRefundsOnce
<1>11. ASSUME NEW s \in spins, BetAnswered(s)
       PROVE  DemoInv'
  <2>1. ~hosted /\ demo \in BOOLEAN
    BY <1>11 DEF BetAnswered, DemoInv, Alone
  <2>2. UNCHANGED <<hosted, demo, first, ledger>>
    BY <1>11 DEF BetAnswered, page, history
  <2>3. s \in SpinType
    BY DEF DemoInv, Entries
  <2>4. SpinsKept
    BY <1>11, <2>3 DEF BetAnswered, SpinsKept, SpinType, DemoInv, Entries
  <2>5. Entries'
    BY <2>2, <2>4 DEF Entries, DemoInv, SpinsKept
  <2>6. QED
    BY <2>1, <2>2, <2>5 DEF DemoInv, Alone, LastBooked, DemoRefundsOnce
<1>12. ASSUME NEW s \in spins, Land(s)
       PROVE  DemoInv'
  BY <1>12, DemoLand
<1>13. ASSUME NEW s \in spins, EndSpin(s)
       PROVE  DemoInv'
  <2>1. /\ UNCHANGED <<hosted, demo, opening, refunding, first, last, ledger>>
        /\ spins' \subseteq spins
    BY <1>13 DEF EndSpin, page, game, history
  <2>2. Alone' /\ SpinsKept
    BY <2>1 DEF DemoInv, Alone, Entries, SpinsKept
  <2>3. QED
    BY <2>1, <2>2, DemoKept
<1>14. CASE UNCHANGED vars
  BY <1>1, <1>14 DEF vars, page, game, running, history
<1>15. QED
  BY <1>2, <1>3, <1>4, <1>5, <1>6, <1>7, <1>8, <1>9, <1>10, <1>11, <1>12, <1>13, <1>14
     DEF Next

\* On the hosted page a bet is given back once, and as much as it cost.
THEOREM DemoRefundsOnceHolds == Spec => []DemoRefundsOnce
<1>1. DemoInv => DemoRefundsOnce
  BY DEF DemoInv
<1>2. QED
  BY <1>1, DemoInit, DemoStep, PurseInit, PurseStep, KeysHold, PTL DEF Spec
-----------------------------------------------------------------------------
(* The demo's books                                                          *)

LEMMA CentsType == \A e \in EntryType : e.cents \in Int
BY DEF EntryType

\* What a ledger adds up to.
BookedOf(l) == FoldSeq(LAMBDA e, sum : e.cents + sum, 0, l)

\* It is a sum over the places of the ledger: the fold of the definition is one.
LEMMA BookedSummed ==
  ASSUME NEW l \in Seq(EntryType)
  PROVE  Summed(BookedOf(l), [i \in DOMAIN l |-> l[i].cents], DOMAIN l)
<1> DEFINE P == DOMAIN l
           f == [i \in P |-> l[i].cents]
           H(g) == [s \in SUBSET P |-> IF s = {} THEN 0 ELSE
                      l[CHOOSE x \in s : TRUE].cents + g[s \ {CHOOSE x \in s : TRUE}]]
           h == CHOOSE g : g = H(g)
<1>1. P = 1..Len(l) /\ Len(l) \in Nat /\ \A i \in P : l[i].cents \in Int
  <2>1. P = 1..Len(l) /\ Len(l) \in Nat /\ \A i \in P : l[i] \in EntryType
    OBVIOUS
  <2>2. QED
    BY <2>1, CentsType
<1>2. IsFiniteSet(P) /\ f \in [P -> Int]
  <2>1. IsFiniteSet(P)
    BY <1>1, FS_Interval
  <2>2. QED
    BY <1>1, <2>1
<1>3. PICK g : Adds(g, f, P)
  <2> HIDE DEF P, f
  <2>1. QED
    BY <1>2, SumExists
<1>4. \A s \in SUBSET P : s # {} =>
         f[CHOOSE x \in s : TRUE] = l[CHOOSE x \in s : TRUE].cents
  OBVIOUS
<1>5. \A g_1 : Adds(g_1, f, P) <=> g_1 = H(g_1)
  <2> HIDE DEF f, P
  <2>1. QED
    BY <1>4 DEF Adds
<1>6. h = H(h)
  <2> HIDE DEF H
  <2>1. QED
    BY <1>3, <1>5, Zenon
<1>7. BookedOf(l) = h[P]
  BY Zenon DEF BookedOf, FoldSeq, FoldFunction, FoldFunctionOnSet, MapThenFoldSet
<1>8. Summed(BookedOf(l), f, P)
  <2> HIDE DEF h, H, f, P
  <2>1. QED
    BY <1>5, <1>6, <1>7, Zenon DEF Summed
<1>9. QED
  BY <1>8

\* One more entry adds its cents.
LEMMA BookedGrows ==
  ASSUME NEW l \in Seq(EntryType), NEW e \in EntryType
  PROVE  /\ BookedOf(l) \in Int
         /\ BookedOf(Append(l, e)) = BookedOf(l) + e.cents
<1>1. PICK m : m = Append(l, e)
  OBVIOUS
<1>2. PICK S, T, x : S = DOMAIN l /\ T = DOMAIN m /\ x = Len(l) + 1
  OBVIOUS
<1>3. PICK f, k : f = [i \in S |-> l[i].cents] /\ k = [i \in T |-> m[i].cents]
  OBVIOUS
<1>4. /\ Len(l) \in Nat /\ S = 1..Len(l) /\ T = S \cup {x} /\ x \notin S
      /\ m \in Seq(EntryType) /\ m[x] = e /\ \A i \in S : m[i] = l[i]
  BY <1>1, <1>2
<1>5. IsFiniteSet(S)
  BY <1>4, FS_Interval
<1>6. (\A i \in S : l[i].cents \in Int) /\ (\A i \in T : m[i].cents \in Int) /\ e.cents \in Int
  <2>1. (\A i \in S : l[i] \in EntryType) /\ (\A i \in T : m[i] \in EntryType)
    BY <1>2, <1>4
  <2>2. QED
    BY <2>1, CentsType
<1>7. f \in [S -> Int] /\ k \in [T -> Int] /\ (\A i \in S : f[i] = k[i]) /\ k[x] = e.cents
  BY <1>3, <1>4, <1>6
<1>8. Summed(BookedOf(l), f, S) /\ Summed(BookedOf(m), k, T)
  BY <1>2, <1>3, <1>4, BookedSummed
<1>9. BookedOf(l) \in Int
  BY <1>5, <1>7, <1>8, SumType
<1>10. BookedOf(m) = k[x] + BookedOf(l)
  <2>1. IsFiniteSet(S) /\ x \notin S /\ T = S \cup {x}
    BY <1>4, <1>5
  <2>2. Summed(BookedOf(l), f, S) /\ k \in [T -> Int] /\ Summed(BookedOf(m), k, T)
    BY <1>7, <1>8
  <2>3. \A i \in S : f[i] = k[i]
    BY <1>7
  <2>4. QED
    BY ONLY <2>1, <2>2, <2>3, SumGrows
<1>11. QED
  BY <1>1, <1>6, <1>7, <1>9, <1>10

\* An opening entry alone.
LEMMA BookedOne ==
  ASSUME NEW e \in EntryType
  PROVE  BookedOf(<<e>>) = e.cents
<1>1. <<>> \in Seq(EntryType) /\ Append(<<>>, e) = <<e>> /\ DOMAIN <<>> = {}
  OBVIOUS
<1>2. BookedOf(<<>>) = 0
  <2>1. PICK l : l = <<>>
    OBVIOUS
  <2>2. PICK f : Summed(BookedOf(l), f, DOMAIN l)
    BY <1>1, <2>1, BookedSummed, Zenon
  <2>3. QED
    BY <1>1, <2>1, <2>2, SumOfNone, Zenon
<1>3. BookedOf(<<e>>) = BookedOf(<<>>) + e.cents
  BY <1>1, BookedGrows, Zenon
<1>4. e.cents \in Int
  BY DEF EntryType
<1>5. QED
  BY <1>2, <1>3, <1>4

\* A ledger that leads from nothing to a balance, and adds up to it but for half
\* a cent an entry.
Slack(l) == Cent * (Len(l) - 1)
Off(l, b) == 2 * (b - Cent * BookedOf(l))
Leads(l, b) ==
    /\ l \in Seq(EntryType) /\ Len(l) > 0
    /\ l[1].before = 0 /\ l[Len(l)].after = Printed(b)
    /\ \A i \in 2..Len(l) : l[i].before = l[i - 1].after
Tied(l, b) == Leads(l, b) /\ Off(l, b) \in -Slack(l)..Slack(l)

\* So does an opening entry alone.
LEMMA TiedNew == Tied(NewLedger, Opening)
<1> DEFINE e == Entry("OPENING", 0, Opening, 0)
<1>1. Opening \in Nat /\ Cent \in Nat
  BY CockpitAssumption
<1>2. Shaped(e, "OPENING", 0, Opening, 0)
  BY <1>1, EntryShape
<1>3. NewLedger = <<e>>
  BY DEF NewLedger
<1> HIDE DEF e
<1>4. Printed(Opening) * Cent = Opening /\ Printed(Opening) \in Nat /\ Printed(0) = 0
  <2>1. 0 % Cent = 0 /\ Opening % Cent = 0
    BY CockpitAssumption
  <2>2. QED
    BY <1>1, <2>1, PrintedWhole, PrintedCents
<1>5. e \in EntryType /\ e.cents = Printed(Opening) /\ e.before = 0 /\ e.after = Printed(Opening)
  <2>1. 0 + Opening = Opening
    BY <1>1
  <2>2. QED
    BY <1>2, <1>4, <2>1 DEF Shaped
<1>6. Leads(<<e>>, Opening)
  BY <1>5 DEF Leads
<1>7. Off(<<e>>, Opening) = 0 /\ Slack(<<e>>) = 0
  <2>1. BookedOf(<<e>>) = Printed(Opening)
    BY <1>5, BookedOne
  <2>2. Cent * Printed(Opening) = Opening
    BY <1>1, <1>4
  <2>3. Opening - Cent * BookedOf(<<e>>) = 0
    BY <1>1, <2>1, <2>2
  <2>4. Cent * (Len(<<e>>) - 1) = 0
    BY <1>1
  <2>5. QED
    BY <2>3, <2>4 DEF Off, Slack
<1>8. QED
  BY <1>3, <1>6, <1>7 DEF Tied

\* An entry leads on to the balance it was made for, from the one it was made at.
LEMMA TiedGrows ==
  ASSUME NEW l, NEW b \in Int, Tied(l, b),
         NEW kind \in {"OPENING", "BET", "WIN", "REFUND"}, NEW n \in Nat, NEW a \in Int
  PROVE  Tied(Append(l, Entry(kind, n, a, b)), b + a)
<1> DEFINE e == Entry(kind, n, a, b)
<1>1. PICK m : m = Append(l, e)
  OBVIOUS
<1>2. Shaped(e, kind, n, a, b)
  BY EntryShape
<1> HIDE DEF e
<1>3. /\ l \in Seq(EntryType) /\ m \in Seq(EntryType) /\ Len(l) \in Nat \ {0}
      /\ Len(m) = Len(l) + 1 /\ m[Len(m)] = e /\ \A i \in 1..Len(l) : m[i] = l[i]
  BY <1>1, <1>2 DEF Tied, Leads, Shaped
<1>4. Leads(m, b + a)
  <2>1. m[1].before = 0 /\ m[Len(m)].after = Printed(b + a)
    BY <1>2, <1>3 DEF Tied, Leads, Shaped
  <2>2. ASSUME NEW i \in 2..Len(m) PROVE m[i].before = m[i - 1].after
    <3>1. CASE i = Len(m)
      <4>1. m[i] = e /\ m[i - 1] = l[Len(l)]
        BY <1>3, <3>1
      <4>2. QED
        BY <1>2, <4>1 DEF Tied, Leads, Shaped
    <3>2. CASE i \in 2..Len(l)
      <4>1. m[i] = l[i] /\ m[i - 1] = l[i - 1]
        BY <1>3, <3>2
      <4>2. QED
        BY <3>2, <4>1 DEF Tied, Leads
    <3>3. QED
      BY <1>3, <3>1, <3>2
  <2>3. QED
    BY <1>3, <2>1, <2>2 DEF Leads
<1>5. Off(m, b + a) \in -Slack(m)..Slack(m)
  <2>1. PICK p \in Int : p = Printed(a) /\ Near(p, a)
    BY PrintedCents
  <2>2. BookedOf(l) \in Int /\ BookedOf(m) = BookedOf(l) + p
    BY <1>1, <1>2, <1>3, <2>1, BookedGrows DEF Shaped
  <2>3. Cent \in Nat
    BY CockpitAssumption
  <2>4. PICK u, v \in Int : u = Cent * BookedOf(l) /\ v = p * Cent
    BY <2>2, <2>3
  <2>5. Cent * BookedOf(m) = u + v
    BY <2>1, <2>2, <2>3, <2>4
  <2>6. PICK w \in Int : w = Slack(l) /\ Slack(m) = w + Cent
    <3>1. Slack(m) = Slack(l) + Cent /\ Slack(l) \in Int
      BY <1>3, <2>3 DEF Slack
    <3>2. QED
      BY <3>1
  <2>7. 2 * (b - u) \in -w..w
    BY <2>4, <2>6 DEF Tied, Off
  <2>8. 2 * (v - a) \in -Cent..Cent
    BY <2>1, <2>4 DEF Near
  <2>9. 2 * ((b + a) - (u + v)) \in -(w + Cent)..(w + Cent)
    BY <2>3, <2>4, <2>6, <2>7, <2>8
  <2>10. QED
    BY <2>5, <2>6, <2>9, Zenon DEF Off
<1>6. QED
  BY <1>1, <1>4, <1>5 DEF Tied, e

\* Before the first session nothing was played.
Paid ==
    hosted => IF session = 0 THEN last.n = 0 /\ spins = {}
                             ELSE Tied(ledger, balance) /\ balance >= 0

Flags ==
    /\ hosted \in BOOLEAN /\ demo \in BOOLEAN /\ token \in BOOLEAN
    /\ boot \in {"tokens", "health", "session", "done"}
    /\ eager \in Nat /\ inits \in Nat /\ refunding \in Nat /\ opening \in BOOLEAN
    /\ refund \in {"off", "on", "done"} /\ replay \in BOOLEAN /\ modal \in BOOLEAN

PageInv == Flags /\ Purse /\ wire.n \in 0..Len(first) /\ Paid

LEMMA PageTypes == KeysInv /\ PageInv => TypeOK
BY DEF KeysInv, Chosen, Sent, PageInv, Flags, Purse, TypeOK

LEMMA PageInit == Init => PageInv
<1> SUFFICES ASSUME Init PROVE PageInv
  OBVIOUS
<1>1. last.n = 0 /\ wire.n = 0 /\ Len(first) = 0
  BY DEF Init, NoBet, NoRequest, Request
<1>2. Purse
  BY PurseInit
<1>3. Flags
  BY DEF Init, Flags
<1>4. QED
  BY <1>1, <1>2, <1>3 DEF PageInv, Paid, Init

\* What does not touch the books.
LEMMA PaidKept ==
  ASSUME Paid, UNCHANGED <<hosted, session, balance, ledger>>,
         last.n = 0 => last'.n = 0, spins = {} => spins' = {}
  PROVE  Paid'
BY DEF Paid

\* An entry and the change of the balance that goes with it.
LEMMA PaidBooked ==
  ASSUME PageInv, NEW kind \in {"OPENING", "BET", "WIN", "REFUND"}, NEW n \in Nat, NEW a \in Int,
         ledger' = Append(ledger, Entry(kind, n, a, balance)),
         balance' = balance + a, hosted => balance' >= 0,
         UNCHANGED <<hosted, session>>, session # 0
  PROVE  Paid'
<1>1. hosted => Tied(ledger, balance)
  BY DEF PageInv, Paid
<1>2. hosted => Tied(ledger', balance')
  BY <1>1, TiedGrows DEF PageInv, Purse
<1>3. QED
  BY <1>2 DEF Paid

\* Every action keeps the flags, ...
LEMMA FlagsStep == KeysInv /\ PageInv /\ [Next]_vars => Flags'
<1> SUFFICES ASSUME KeysInv, Flags, [Next]_vars PROVE Flags'
  BY DEF PageInv
<1>1. last.success \in BOOLEAN /\ last.refunded \in BOOLEAN
  BY DEF KeysInv, Sent, LastType
<1>2. ASSUME OpenSession, eager' \in Nat, inits' \in Nat PROVE Flags'
  BY <1>2 DEF OpenSession, Forget, Keep, Flags
<1>3. ASSUME UNCHANGED <<page, eager, inits, refunding, opening, buttons>> PROVE Flags'
  BY <1>3 DEF page, buttons, Flags
<1>4. CASE TrySpin
  <2>1. eager' \in Nat
    BY <1>4 DEF TrySpin, Flags
  <2>2. CASE StartSpin
    BY <2>1, <2>2 DEF StartSpin, Flags, page
  <2>3. CASE OpenSession /\ UNCHANGED inits
    BY <1>2, <2>1, <2>3 DEF Flags
  <2>4. CASE UNCHANGED <<page, game, spinning, spins, inits, opening, refunding, buttons, history>>
    BY <2>1, <2>4 DEF page, buttons, Flags
  <2>5. QED
    BY <1>4, <2>2, <2>3, <2>4 DEF TrySpin
<1>5. CASE InitSession
  <2>1. eager' \in Nat /\ inits' \in Nat
    BY <1>5 DEF InitSession, Flags
  <2>2. QED
    BY <1>2, <1>5, <2>1 DEF InitSession
<1>6. CASE FetchTokens \/ CheckHealth \/ BootSession
  <2>1. demo' \in BOOLEAN /\ token' \in BOOLEAN /\ hosted' \in BOOLEAN
    BY <1>6 DEF FetchTokens, CheckHealth, BootSession, Flags
  <2>2. boot' \in {"tokens", "health", "session", "done"}
    BY <1>6 DEF FetchTokens, CheckHealth, BootSession, Flags
  <2>3. inits' \in Nat
    <3>1. inits' \in {inits, inits + 1}
      BY <1>6 DEF FetchTokens, CheckHealth, BootSession, running
    <3>2. QED
      BY <3>1 DEF Flags
  <2>4. UNCHANGED <<eager, refunding, opening, refund, replay, modal>>
    BY <1>6 DEF FetchTokens, CheckHealth, BootSession, running, buttons
  <2>5. QED
    BY <2>1, <2>2, <2>3, <2>4 DEF Flags
<1>7. CASE ClickSpin \/ Reset
  BY <1>7 DEF ClickSpin, Reset, page, buttons, Flags
<1>8. CASE Choose \/ Replay \/ Deposit
  BY <1>3, <1>8 DEF Choose, Replay, Deposit, running
<1>9. CASE AskRefund \/ CancelRefund
  BY <1>9 DEF AskRefund, CancelRefund, page, running, Flags
<1>10. CASE ConfirmRefund \/ RefundAnswered
  <2>1. UNCHANGED <<page, eager, inits, opening, replay>> /\ modal' \in BOOLEAN
    BY <1>10 DEF ConfirmRefund, RefundAnswered, Flags
  <2>2. refund' \in {"off", "on", "done"} /\ refunding' \in Nat
    BY <1>10 DEF ConfirmRefund, RefundAnswered, Flags
  <2>3. QED
    BY <2>1, <2>2 DEF page, Flags
<1>11. CASE Opened
  BY <1>11 DEF Opened, Forget, page, Flags
<1>12. ASSUME NEW s \in spins, BetAnswered(s) \/ Land(s) PROVE Flags'
  BY <1>3, <1>12 DEF BetAnswered, Land
<1>13. ASSUME NEW s \in spins, EndSpin(s) PROVE Flags'
  BY <1>1, <1>13 DEF EndSpin, page, Flags
<1>14. CASE UNCHANGED vars
  BY <1>3, <1>14 DEF vars, running
<1>15. QED
  BY <1>4, <1>5, <1>6, <1>7, <1>8, <1>9, <1>10, <1>11, <1>12, <1>13, <1>14 DEF Next

\* ... the number on the wire, ...
LEMMA WireStep ==
  ASSUME KeysInv, DemoInv, PageInv, KeysInv', [Next]_vars
  PROVE  wire'.n \in 0..Len(first')
<1>1. wire.n \in 0..Len(first) /\ Len(first) \in Nat /\ last.n \in 0..Len(first)
  BY DEF PageInv, KeysInv, Sent
<1>2. ASSUME UNCHANGED <<first, wire>> PROVE wire'.n \in 0..Len(first')
  BY <1>1, <1>2
<1>3. CASE TrySpin
  <2>1. CASE StartSpin
    <3>1. first' = Append(first, Request("bet", Len(first) + 1, session, provider, Printed(stake)))
          /\ wire' = wire
      BY <2>1 DEF StartSpin
    <3>2. Len(first') = Len(first) + 1
      BY <3>1 DEF KeysInv, Sent
    <3>3. QED
      BY <1>1, <3>1, <3>2
  <2>2. CASE OpenSession \/ UNCHANGED history
    BY <1>2, <2>2 DEF OpenSession, history
  <2>3. QED
    BY <1>3, <2>1, <2>2 DEF TrySpin
<1>4. CASE InitSession \/ FetchTokens \/ CheckHealth \/ BootSession \/ ClickSpin \/ Reset
  BY <1>2, <1>4 DEF InitSession, OpenSession, FetchTokens, CheckHealth, BootSession, ClickSpin,
                    Reset, history
<1>5. CASE Choose \/ AskRefund \/ CancelRefund \/ ConfirmRefund \/ Deposit
  BY <1>2, <1>5 DEF Choose, AskRefund, CancelRefund, ConfirmRefund, Deposit, history
<1>6. CASE Opened \/ RefundAnswered
  BY <1>2, <1>6 DEF Opened, RefundAnswered, history
<1>7. CASE Replay
  <2>1. wire'.op = "replay"
    BY <1>7 DEF Replay, KeysInv, Sent, LastType, RequestType
  <2>2. QED
    BY <2>1 DEF KeysInv, Sent, Replayed
<1>8. ASSUME NEW s \in spins, BetAnswered(s) \/ EndSpin(s) PROVE wire'.n \in 0..Len(first')
  BY <1>2, <1>8 DEF BetAnswered, EndSpin, history
<1>9. ASSUME NEW s \in spins, Land(s) PROVE wire'.n \in 0..Len(first')
  <2>1. s.n \in 1..Len(first) /\ first' = first
    BY <1>9 DEF Land, DemoInv, Entries
  <2>2. wire' = wire \/ wire'.n = s.n
    BY <1>9 DEF Land, WinInDemo, SendWin, Request
  <2>3. QED
    BY <1>1, <2>1, <2>2
<1>10. CASE UNCHANGED vars
  BY <1>2, <1>10 DEF vars, history
<1>11. QED
  BY <1>3, <1>4, <1>5, <1>6, <1>7, <1>8, <1>9, <1>10 DEF Next

\* ... and the books: what is paid and won is booked at once.
LEMMA PaidStep == KeysInv /\ DemoInv /\ PageInv /\ [Next]_vars => Paid'
<1> SUFFICES ASSUME KeysInv, DemoInv, PageInv, [Next]_vars PROVE Paid'
  OBVIOUS
<1>1. /\ Paid /\ Alone /\ balance \in Int /\ stake \in Nat /\ last.n \in Nat
      /\ last.amount \in Nat /\ sessions \in Nat
  BY CockpitAssumption DEF PageInv, DemoInv, Purse, KeysInv, Chosen, Sent, LastType
<1>2. CASE OpenSession
  <2>1. session' # 0
    BY <1>1, <1>2 DEF OpenSession
  <2>2. hosted => Tied(ledger', balance') /\ balance' >= 0
    <3>1. hosted => ledger' = NewLedger /\ balance' = Opening
      BY <1>1, <1>2 DEF OpenSession, Alone
    <3>2. QED
      BY <3>1, TiedNew, CockpitAssumption
  <2>3. QED
    BY <1>2, <2>1, <2>2 DEF Paid, OpenSession
<1>3. CASE TrySpin
  <2>1. CASE session # 0 /\ StartSpin
    <3> DEFINE n == Len(first) + 1
    <3>1. n \in Nat /\ -stake \in Int
      BY <1>1 DEF KeysInv, Sent
    <3> HIDE DEF n
    <3>3. UNCHANGED <<hosted, session>> /\ CanSpin
      BY <2>1 DEF StartSpin, page
    <3>4. CASE demo
      <4>1. /\ ledger' = Append(ledger, Entry("BET", n, -stake, balance))
            /\ balance' = balance - stake
        BY <2>1, <3>4 DEF StartSpin, n
      <4>2. balance' = balance + (-stake) /\ (hosted => balance' >= 0)
        BY <1>1, <3>3, <4>1 DEF CanSpin
      <4>3. QED
        BY <2>1, <3>1, <3>3, <4>1, <4>2, PaidBooked
    <3>5. CASE ~demo
      BY <1>1, <3>3, <3>5 DEF Alone, Paid
    <3>6. QED
      BY <3>4, <3>5
  <2>2. CASE UNCHANGED <<page, game, spinning, spins, history>>
    BY <1>1, <2>2, PaidKept DEF page, game
  <2>3. QED
    BY <1>2, <1>3, <2>1, <2>2 DEF TrySpin
<1>4. CASE InitSession
  BY <1>2, <1>4 DEF InitSession
<1>5. CASE FetchTokens \/ CheckHealth \/ BootSession \/ ClickSpin \/ Reset
  BY <1>1, <1>5, PaidKept DEF FetchTokens, CheckHealth, BootSession, ClickSpin, Reset, page,
                              game, running
<1>6. CASE Choose \/ Replay \/ AskRefund \/ CancelRefund
  BY <1>1, <1>6, PaidKept DEF Choose, Replay, AskRefund, CancelRefund, page, game, running
<1>7. CASE ConfirmRefund
  <2>1. CASE UNCHANGED <<balance, last, ledger>>
    BY <1>1, <1>7, <2>1, PaidKept DEF ConfirmRefund, page
  <2>2. CASE /\ last.n # 0 /\ balance' = balance + last.amount
             /\ ledger' = Append(ledger, Entry("REFUND", last.n, last.amount, balance))
    <3>2. UNCHANGED <<hosted, session>>
      BY <1>7 DEF ConfirmRefund, page
    <3>3. hosted => session # 0 /\ balance >= 0
      BY <1>1, <2>2 DEF Paid
    <3>5. hosted => balance' >= 0
      BY <1>1, <2>2, <3>3
    <3>6. CASE session # 0
      BY <1>1, <2>2, <3>2, <3>5, <3>6, PaidBooked
    <3>7. CASE session = 0
      BY <3>2, <3>3, <3>7 DEF Paid
    <3>8. QED
      BY <3>6, <3>7
  <2>3. QED
    BY <1>7, <2>1, <2>2 DEF ConfirmRefund
<1>8. CASE Deposit
  <2> DEFINE e == Entry("WIN", 0, Credit, balance)
             d == Entry("WIN", 0, Credit, balance + Credit)
             l == Append(ledger, e)
  <2>1. Credit \in Nat /\ balance + Credit \in Int
    BY <1>1, CockpitAssumption
  <2>2. /\ ledger' = ledger \o <<e, d>> /\ balance' = balance + 2 * Credit
        /\ session # 0 /\ UNCHANGED <<hosted, session>>
    BY <1>8 DEF Deposit, page
  <2>3. e \in EntryType /\ d \in EntryType
    <3>1. 0 \in Nat /\ Credit \in Int
      BY <2>1
    <3>2. QED
      BY <1>1, <2>1, <3>1, EntryShape, Zenon DEF Shaped
  <2>4. ASSUME hosted PROVE Tied(ledger', balance') /\ balance' >= 0
    <3>1. Tied(ledger, balance) /\ balance >= 0
      BY <1>1, <2>2, <2>4 DEF Paid
    <3>2. Tied(l, balance + Credit)
      BY <1>1, <2>1, <3>1, TiedGrows
    <3>3. Tied(Append(l, d), (balance + Credit) + Credit)
      BY <2>1, <3>2, TiedGrows
    <3> HIDE DEF e, d
    <3>4. ledger' = Append(l, d)
      BY <2>2, <2>3 DEF DemoInv, Entries
    <3>5. balance' = (balance + Credit) + Credit /\ balance' >= 0
      BY <1>1, <2>1, <2>2, <3>1
    <3>6. QED
      BY <3>3, <3>4, <3>5
  <2>5. QED
    BY <2>2, <2>4 DEF Paid
<1>9. CASE Opened \/ RefundAnswered
  <2>1. ~hosted /\ hosted' = hosted
    BY <1>1, <1>9 DEF Opened, RefundAnswered, Alone, page
  <2>2. QED
    BY <2>1 DEF Paid
<1>10. ASSUME NEW s \in spins, BetAnswered(s)
       PROVE  Paid'
  <2>1. ~hosted /\ hosted' = hosted
    BY <1>1, <1>10 DEF BetAnswered, Alone, page
  <2>2. QED
    BY <2>1 DEF Paid
<1>11. ASSUME NEW s \in spins, Land(s)
       PROVE  Paid'
  <2>1. UNCHANGED <<hosted, session, last>> /\ (hosted => session # 0)
    BY <1>1, <1>11 DEF Land, page, Paid
  <2>2. CASE UNCHANGED <<balance, ledger>>
    BY <1>1, <2>1, <2>2 DEF Paid
  <2>3. ASSUME NEW x \in Prize, balance' = balance + (x * stake) \div 10,
               ledger' = Append(ledger, Entry("WIN", s.n, (x * stake) \div 10, balance))
        PROVE  Paid'
    <3>1. PICK c \in Nat : c = (x * stake) \div 10
      BY WinType DEF KeysInv, Chosen
    <3>2. balance' = balance + c /\ ledger' = Append(ledger, Entry("WIN", s.n, c, balance))
      BY <2>3, <3>1
    <3>3. s.n \in Nat
      BY DEF DemoInv, Entries
    <3>5. hosted => balance' >= 0
      BY <1>1, <2>1, <3>1, <3>2 DEF Paid
    <3>6. CASE session # 0
      BY <2>1, <3>1, <3>2, <3>3, <3>5, <3>6, PaidBooked
    <3>7. CASE session = 0
      BY <2>1, <3>7 DEF Paid
    <3>8. QED
      BY <3>6, <3>7
  <2>4. QED
    BY <1>11, <2>2, <2>3 DEF Land, WinInDemo, SendWin
<1>12. ASSUME NEW s \in spins, EndSpin(s)
       PROVE  Paid'
  BY <1>1, <1>12 DEF EndSpin, page, game, Paid
<1>13. CASE UNCHANGED vars
  BY <1>1, <1>13, PaidKept DEF vars, page, game, running
<1>14. QED
  BY <1>3, <1>4, <1>5, <1>6, <1>7, <1>8, <1>9, <1>10, <1>11, <1>12, <1>13 DEF Next

\* The three invariants together are inductive.
THEOREM PageHolds == Spec => [](KeysInv /\ DemoInv /\ PageInv)
<1> DEFINE All == KeysInv /\ DemoInv /\ PageInv
<1>1. Init => All
  BY KeysInit, DemoInit, PageInit
<1>2. All /\ [Next]_vars => All'
  <2> SUFFICES ASSUME All, [Next]_vars PROVE All'
    OBVIOUS
  <2>1. KeysInv' /\ DemoInv'
    BY KeysStep, DemoStep DEF PageInv
  <2>2. PageInv'
    BY <2>1, FlagsStep, PurseStep, WireStep, PaidStep DEF PageInv
  <2>3. QED
    BY <2>1, <2>2
<1>3. QED
  BY <1>1, <1>2, PTL DEF Spec

\* Types of the state.
THEOREM CockpitTypeCorrect == Spec => []TypeOK
BY PageHolds, PageTypes, PTL

\* On the hosted page the ledger leads to the balance without a gap, whatever
\* runs twice or in the middle of a spin, its rounded amounts add up to it but
\* for half a cent each, and the balance is never debt.
THEOREM DemoBooksHolds == Spec => []DemoBooks
<1>1. Booked = BookedOf(ledger)
  BY DEF Booked, BookedOf
<1>2. PageInv => DemoBooks
  BY <1>1 DEF PageInv, Paid, Tied, Leads, Off, Slack, DemoBooks
<1>3. QED
  BY <1>2, PageHolds, PTL
=============================================================================
