------------------------------- MODULE Cockpit -------------------------------
(* The WebAssembly cockpit (cmd/wasm/main.go) with the player at it. Go's     *)
(* WebAssembly runtime has one thread: a goroutine runs until it waits, for   *)
(* an answer, for the reels or for stateMu, so an action is what happens      *)
(* between two waits. setClickListener registers a handler as a listener and  *)
(* as onclick: every click runs it twice. Only initPlayerSession waits for an *)
(* answer with stateMu held. What the engine answers is left open (module     *)
(* Wagering says how it decides), and with it the balance it makes the page   *)
(* show: balance and ledger are those of the demo, which keeps its own: the   *)
(* balance as a float, the ledger as text with two decimals. Amounts are in   *)
(* parts of a cent, as fine as the payouts need; what float64 loses beyond    *)
(* those is left out.                                                         *)
EXTENDS Integers, FiniteSets, SequencesExt

CONSTANTS Provider, Selected, \* the providers of the selector, and the first one
          Cent,         \* parts in a cent
          Stake, Chip,  \* the chips and what the field takes, and the first chip
          Opening,      \* the balance of a new wallet
          Prize,        \* payouts of the reels, in tenths of the stake; 0 is none
          Credit,       \* the amount of a deposit
          MaxClicks     \* bound: what the player sets in motion

ASSUME CockpitAssumption ==
    /\ Selected \in Provider /\ Chip \in Stake
    /\ Stake \subseteq Nat \ {0} /\ Prize \subseteq Nat
    /\ \A x \in Prize, s \in Stake : (x * s) % 10 = 0
    /\ Cent \in Nat \ {0} /\ Opening \in Nat /\ Opening % Cent = 0
    /\ Credit \in Nat \ {0}
    /\ MaxClicks \in Nat

VARIABLES
    \* the page
    hosted,     \* served from vercel.app
    demo,       \* isDemoMode
    boot,       \* the next call of main's goroutine
    token,      \* tokens["internal"] is there
    \* the session
    session,    \* walletID: 0 is none, -k an id drawn here, k one the engine gave
    balance, stake, provider,   \* balance, currentBet, activeProvider
    last,       \* lastBet*: number, request, amount, success, refunded
    ledger,     \* demoLedger, oldest first
    \* goroutines
    spinning,   \* isSpinning
    spins,      \* runs of handleSpin behind its checks
    eager,      \* runs of handleSpin that wait for stateMu
    inits,      \* runs of initPlayerSession that wait for stateMu
    opening,    \* one waits for the engine, with stateMu
    refunding,  \* refunds that wait for the engine
    \* buttons
    refund,     \* the refund button: "off", "on" or "done"
    replay,     \* the replay button is enabled
    modal,      \* the refund dialog is open
    \* history
    clicks, sessions,   \* how many there were
    first,      \* what each bet's key was first sent with
    wire        \* the last replay or win sent

page    == <<hosted, demo, boot, token>>
game    == <<session, balance, stake, provider, last, ledger>>
running == <<spinning, spins, eager, inits, opening, refunding>>
buttons == <<refund, replay, modal>>
history == <<clicks, sessions, first, wire>>
vars    == <<page, game, running, buttons, history>>

Request(op, n, s, p, cents) ==
    [op |-> op, n |-> n, session |-> s, provider |-> p, amount |-> cents]
NoRequest == Request("none", 0, 0, Selected, 0)
NoBet == [n |-> 0, sent |-> NoRequest, amount |-> 0, success |-> FALSE, refunded |-> FALSE]

Init ==
    /\ hosted \in BOOLEAN /\ demo = hosted /\ boot = "tokens" /\ token = FALSE
    /\ session = 0 /\ balance = Opening /\ stake = Chip /\ provider = Selected
    /\ last = NoBet /\ ledger = <<>>
    /\ spinning = FALSE /\ spins = {} /\ eager = 0 /\ inits = 0
    /\ opening = FALSE /\ refunding = 0
    /\ refund = "off" /\ replay = FALSE /\ modal = FALSE
    /\ clicks = 0 /\ sessions = 0 /\ first = <<>> /\ wire = NoRequest

\* The cents nearest to an amount, with "%.2f". Of two that are as near it is
\* the same one for the same amount.
Nearest(x) == CHOOSE n \in {x \div Cent, x \div Cent + 1} : 2 * (n * Cent - x) \in -Cent..Cent
Printed(x) == IF x < 0 THEN -Nearest(-x) ELSE Nearest(x)

\* addDemoLedgerEntry: an amount, signed by its direction, and the balance
\* before and after it, each printed by itself.
Entry(kind, n, amount, prev) ==
    [kind |-> kind, n |-> n, cents |-> Printed(amount),
     before |-> Printed(prev), after |-> Printed(prev + amount)]

\* Mutant: a new session's opening is put on top of the old ledger.
LedgerKept == Append(ledger, Entry("OPENING", 0, Opening, 0))
NewLedger == <<Entry("OPENING", 0, Opening, 0)>>

Booked == FoldSeq(LAMBDA e, sum : e.cents + sum, 0, ledger)

Click == clicks < MaxClicks /\ clicks' = clicks + 1

-----------------------------------------------------------------------------
(* Boot: main's goroutine                                                    *)

\* fetchTokens: an error, another status or an empty token turns to the demo.
FetchTokens ==
    /\ boot = "tokens" /\ boot' = "health" /\ token' = TRUE
    /\ demo' \in {demo, TRUE}
    /\ UNCHANGED <<hosted, game, running, buttons, history>>

\* checkHealth: likewise.
CheckHealth ==
    /\ boot = "health" /\ boot' = "session"
    /\ demo' \in {demo, TRUE}
    /\ UNCHANGED <<hosted, token, game, running, buttons, history>>

BootSession ==
    /\ boot = "session" /\ boot' = "done"
    /\ inits' = inits + 1
    /\ UNCHANGED <<hosted, demo, token, game, spinning, spins, eager, opening, refunding,
                   buttons, history>>

-----------------------------------------------------------------------------
(* initPlayerSession                                                         *)

\* Mutant: the buttons are reset, the bet stays.
ForgetButtons == UNCHANGED last /\ replay' = FALSE /\ refund' = "off"

\* The last bet, the replay and the refund of it are forgotten.
Forget == last' = NoBet /\ replay' = FALSE /\ refund' = "off"
Keep   == UNCHANGED <<last, replay, refund>>

\* With stateMu: a demo session, the demo for want of a token, or a call that
\* keeps stateMu until it ends.
OpenSession ==
    /\ ~opening
    /\ sessions' = sessions + 1 /\ session' = -sessions' /\ balance' = Opening
    /\ \/ demo /\ Forget
       \/ ~demo /\ Keep
    /\ demo' = (demo \/ ~token)
    /\ opening' = ~demo'
    /\ ledger' = IF demo' THEN NewLedger ELSE ledger
    /\ UNCHANGED <<hosted, boot, token, stake, provider, spinning, spins, refunding, modal,
                   clicks, first, wire>>

InitSession == inits > 0 /\ inits' = inits - 1 /\ OpenSession /\ UNCHANGED eager

\* The wallet of the answer, or after five seconds or an error the id drawn here.
Opened ==
    /\ opening /\ opening' = FALSE
    /\ session' \in {session, sessions}
    /\ balance' = Opening /\ Forget
    /\ UNCHANGED <<page, stake, provider, ledger, spinning, spins, eager, inits, refunding,
                   modal, history>>

\* resetAllGame, run twice.
Reset ==
    /\ Click
    /\ inits' = inits + 2
    /\ UNCHANGED <<page, game, spinning, spins, eager, opening, refunding, buttons,
                   sessions, first, wire>>

-----------------------------------------------------------------------------
(* handleSpin                                                                *)

ClickSpin ==
    /\ ~spinning /\ Click
    /\ eager' = eager + 2
    /\ UNCHANGED <<page, game, spinning, spins, inits, opening, refunding, buttons,
                   sessions, first, wire>>

\* Mutant: a run that had to wait does not look at isSpinning again.
CanSpinAgain == hosted => balance >= stake

\* The engine's balance, left open, may be enough or not.
CanSpin == ~spinning /\ (hosted => balance >= stake)
MayNot  == spinning \/ (hosted => balance < stake)

\* lastBet* is overwritten before the bet is sent; lastBetSuccess is not.
StartSpin ==
    LET n == Len(first) + 1
        b == Request("bet", n, session, provider, Printed(stake)) IN
    /\ CanSpin /\ spinning' = TRUE
    /\ refund' = "off" /\ replay' = FALSE
    /\ first' = Append(first, b)
    /\ last' = [n |-> n, sent |-> b, amount |-> stake, success |-> last.success \/ demo,
                refunded |-> FALSE]
    /\ spins' = spins \cup
           {[n |-> n, demo |-> demo, at |-> IF demo THEN "rolling" ELSE "bet"]}
    /\ \/ /\ demo
          /\ balance' = balance - stake
          /\ ledger' = Append(ledger, Entry("BET", n, -stake, balance))
       \/ ~demo /\ UNCHANGED <<balance, ledger>>
    /\ UNCHANGED <<page, session, stake, provider, inits, opening, refunding, modal,
                   clicks, sessions, wire>>

\* A run that gets stateMu: it spins, opens the first session, or returns.
TrySpin ==
    /\ eager > 0 /\ ~opening /\ eager' = eager - 1
    /\ \/ session # 0 /\ StartSpin
       \/ session = 0 /\ ~spinning /\ OpenSession /\ UNCHANGED inits
       \/ /\ session # 0 /\ MayNot
          /\ UNCHANGED <<page, game, spinning, spins, inits, opening, refunding, buttons, history>>

\* Any 200, of a wallet the engine gave, is taken for success, and the amount is
\* what the chips say by now; an error, another status or six seconds end the spin.
BetAnswered(s) ==
    /\ s.at = "bet"
    /\ \/ /\ ~opening /\ first[s.n].session > 0
          /\ last' = [last EXCEPT !.amount = stake, !.success = TRUE]
          /\ spins' = (spins \ {s}) \cup {[s EXCEPT !.at = "rolling"]}
       \/ /\ spins' = (spins \ {s}) \cup {[s EXCEPT !.at = "over"]}
          /\ UNCHANGED last
    /\ UNCHANGED <<page, session, balance, stake, provider, ledger, spinning, eager, inits,
                   opening, refunding, buttons, history>>

\* The demo books the win itself: the float to the balance, its print to the
\* ledger.
WinInDemo(s, win) ==
    /\ s.demo /\ ~opening
    /\ balance' = balance + win
    /\ ledger' = Append(ledger, Entry("WIN", s.n, win, balance))
    /\ UNCHANGED wire

\* A goroutine of its own sends the win, with the wallet and provider of now.
SendWin(s, win) ==
    /\ ~s.demo
    /\ wire' = Request("win", s.n, session, provider, Printed(win))
    /\ UNCHANGED <<balance, ledger>>

\* The reels stop; the win is so many tenths of the stake of this moment.
Land(s) ==
    /\ s.at = "rolling"
    /\ \E x \in Prize : LET win == (x * stake) \div 10 IN
          \/ win = 0 /\ UNCHANGED <<balance, ledger, wire>>
          \/ win > 0 /\ (WinInDemo(s, win) \/ SendWin(s, win))
    /\ spins' = (spins \ {s}) \cup {[s EXCEPT !.at = "over"]}
    /\ UNCHANGED <<page, session, stake, provider, last, spinning, eager, inits, opening,
                   refunding, buttons, clicks, sessions, first>>

\* Mutant: isSpinning is taken back with the buttons, after a success only.
EndSpinOnSuccess(s) ==
    /\ s.at = "over" /\ ~opening /\ last.success
    /\ spins' = spins \ {s} /\ spinning' = FALSE
    /\ replay' = TRUE
    /\ refund' = IF last.refunded THEN "done" ELSE "on"
    /\ UNCHANGED <<page, game, eager, inits, opening, refunding, modal, history>>

\* The deferred function: the buttons follow the last success, of whichever bet.
EndSpin(s) ==
    /\ s.at = "over" /\ ~opening
    /\ spins' = spins \ {s} /\ spinning' = FALSE
    /\ replay' = (replay \/ last.success)
    /\ refund' = IF ~last.success THEN refund ELSE IF last.refunded THEN "done" ELSE "on"
    /\ UNCHANGED <<page, game, eager, inits, opening, refunding, modal, history>>

\* Mutant: the field for another stake takes a zero.
ChooseAny ==
    /\ Click
    /\ \/ stake' \in (Stake \cup {0}) \ {stake} /\ UNCHANGED provider
       \/ provider' \in Provider \ {provider} /\ UNCHANGED stake
    /\ UNCHANGED <<page, session, balance, last, ledger, running, buttons, sessions, first, wire>>

\* Chips and selector, at any time.
Choose ==
    /\ Click
    /\ \/ stake' \in Stake \ {stake} /\ UNCHANGED provider
       \/ provider' \in Provider \ {provider} /\ UNCHANGED stake
    /\ UNCHANGED <<page, session, balance, last, ledger, running, buttons, sessions, first, wire>>

-----------------------------------------------------------------------------
(* Replay, refund, deposit                                                   *)

\* Mutant: the replay is put together from what the page holds now.
ReplayRebuilt ==
    /\ replay /\ ~spinning /\ ~demo /\ last.n # 0 /\ Click
    /\ wire' = Request("replay", last.n, session, provider, Printed(last.amount))
    /\ UNCHANGED <<page, game, running, buttons, sessions, first>>

\* The last bet again, under its key; the demo sends nothing.
Replay ==
    /\ replay /\ ~spinning /\ ~demo /\ last.n # 0 /\ Click
    /\ wire' = [last.sent EXCEPT !.op = "replay"]
    /\ UNCHANGED <<page, game, running, buttons, sessions, first>>

AskRefund ==
    /\ refund = "on" /\ ~spinning /\ ~modal
    /\ last.n # 0 /\ last.success /\ ~last.refunded
    /\ modal' = TRUE
    /\ UNCHANGED <<page, game, running, refund, replay, history>>

CancelRefund ==
    /\ modal /\ modal' = FALSE
    /\ UNCHANGED <<page, game, running, refund, replay, history>>

\* executeConfirmedRefund, twice: the engine gets two refunds, in the demo the
\* second run finds the bet refunded.
ConfirmRefund ==
    /\ modal /\ modal' = FALSE /\ Click /\ ~opening
    /\ \/ /\ last.n = 0 \/ last.refunded
          /\ UNCHANGED <<balance, last, ledger, refund, refunding>>
       \/ /\ last.n # 0 /\ ~last.refunded /\ demo
          /\ balance' = balance + last.amount
          /\ last' = [last EXCEPT !.refunded = TRUE]
          /\ ledger' = Append(ledger, Entry("REFUND", last.n, last.amount, balance))
          /\ refund' = "done" /\ UNCHANGED refunding
       \/ /\ last.n # 0 /\ ~last.refunded /\ ~demo
          /\ refund' = "off" /\ refunding' = refunding + 2
          /\ UNCHANGED <<balance, last, ledger>>
    /\ UNCHANGED <<page, session, stake, provider, spinning, spins, eager, inits, opening,
                   replay, sessions, first, wire>>

\* A 200 marks whichever bet is the last one by now as refunded.
RefundAnswered ==
    /\ refunding > 0 /\ refunding' = refunding - 1 /\ ~opening
    /\ \/ last' = [last EXCEPT !.refunded = TRUE] /\ refund' = "done"
       \/ UNCHANGED last /\ refund' = "on"
    /\ UNCHANGED <<page, session, balance, stake, provider, ledger, spinning, spins, eager,
                   inits, opening, replay, modal, history>>

\* executeDeposit in the demo, twice.
Deposit ==
    /\ demo /\ session # 0 /\ Click /\ ~opening
    /\ balance' = balance + 2 * Credit
    /\ ledger' = ledger \o <<Entry("WIN", 0, Credit, balance),
                             Entry("WIN", 0, Credit, balance + Credit)>>
    /\ UNCHANGED <<page, session, stake, provider, last, running, buttons, sessions, first, wire>>

-----------------------------------------------------------------------------
\* Whoever waits for stateMu runs before the page handles anything else.
Waiting == ~opening /\ (eager > 0 \/ inits > 0)

Next ==
    \/ TrySpin \/ InitSession
    \/ /\ ~Waiting
       /\ \/ FetchTokens \/ CheckHealth \/ BootSession
          \/ ClickSpin \/ Choose \/ Reset \/ Replay \/ AskRefund \/ CancelRefund
          \/ ConfirmRefund \/ Deposit
          \/ Opened \/ RefundAnswered
          \/ \E s \in spins : BetAnswered(s) \/ Land(s) \/ EndSpin(s)

Spec == Init /\ [][Next]_vars

\* A timer ends the calls of a session and of a bet; the reels stop; and
\* sync.Mutex serves the longest waiter first.
Fairness ==
    /\ WF_vars(TrySpin) /\ WF_vars(InitSession) /\ WF_vars(Opened)
    /\ WF_vars(\E s \in spins : BetAnswered(s) \/ Land(s) \/ EndSpin(s))

FairSpec == Spec /\ Fairness
-----------------------------------------------------------------------------
(* Properties                                                                *)

\* Types of the state.
TypeOK ==
    /\ hosted \in BOOLEAN /\ demo \in BOOLEAN /\ token \in BOOLEAN
    /\ boot \in {"tokens", "health", "session", "done"}
    /\ session \in -sessions..sessions /\ balance \in Int
    /\ stake \in Stake /\ provider \in Provider
    /\ eager \in Nat /\ inits \in Nat /\ refunding \in Nat /\ opening \in BOOLEAN
    /\ refund \in {"off", "on", "done"} /\ replay \in BOOLEAN /\ modal \in BOOLEAN
    /\ last.n \in 0..Len(first) /\ wire.n \in 0..Len(first)

\* However often the spin button's handler runs, and whatever it waited for,
\* one spin is played at a time and isSpinning says whether one is.
OneSpinAtATime == Cardinality(spins) <= 1 /\ (spinning <=> spins # {})

\* A replay sends what its key was first sent with, even after the wallet, the
\* stake or the provider changed: the engine never sees one key with two bodies.
OneBodyPerKey ==
    wire.op = "replay" => wire = [first[wire.n] EXCEPT !.op = "replay"]

\* On the demo page the ledger leads from the opening to the balance without a
\* gap, through resets in the middle of a spin and handlers that run twice. Its
\* amounts, rounded one by one, add up to the balance but for half a cent each,
\* and the balance is never debt.
DemoBooks ==
    hosted /\ session # 0 =>
        /\ balance >= 0
        /\ ledger[1].before = 0 /\ ledger[Len(ledger)].after = Printed(balance)
        /\ \A i \in 2..Len(ledger) : ledger[i].before = ledger[i - 1].after
        /\ LET slack == Cent * (Len(ledger) - 1)
           IN  2 * (balance - Cent * Booked) \in -slack..slack

\* There a bet is given back once, and as much as it cost.
DemoRefundsOnce ==
    hosted => \A i \in DOMAIN ledger : ledger[i].kind = "REFUND" =>
        /\ \E j \in 1..(i - 1) :
              /\ ledger[j].kind = "BET" /\ ledger[j].n = ledger[i].n
              /\ ledger[j].cents = -ledger[i].cents
        /\ \A j \in DOMAIN ledger \ {i} :
              ledger[j].kind = "REFUND" => ledger[j].n # ledger[i].n

\* Every spin ends and gives the buttons back, whatever its calls come to.
SpinEnds == spinning ~> ~spinning
=============================================================================
