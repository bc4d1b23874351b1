-------------------------------- MODULE Audit --------------------------------
(* What is read of a wallet while it moves: the reconciliation               *)
(* (reconciliation_service.go), two statements that are two snapshots, and   *)
(* the pages of the ledger (GetLedgerEntries), one statement each. A movement *)
(* is one step here; module Wagering says how it is made. Its created_at is  *)
(* the clock of a replica before the wallet's lock, so entries come to be in *)
(* any order of their times.                                                 *)
EXTENDS Money, FiniteSets

CONSTANTS Movement,        \* the movements to come: their entries' ids
          Debit,           \* those that take
          text,            \* what each adds or takes, as the request says it
          Time,            \* values of created_at
          Opening,         \* the balance the wallet opens with
          Limit,           \* the limits clients ask for
          MaxPage, DefaultPage,   \* 100 and 50
          Tampering        \* changes of a balance behind the service's back

ASSUME AuditAssumption ==
    /\ Movement \subseteq Nat \ {0, 1} /\ Debit \subseteq Movement
    /\ text \in [Movement -> TextType] /\ Opening \in 0..MaxInt
    /\ Time \subseteq Nat /\ 0 \in Time
    /\ Limit \subseteq Int /\ Tampering \subseteq Int
    /\ MaxPage \in Nat \ {0} /\ DefaultPage \in 1..MaxPage

VARIABLES balance,  \* wallets.balance
          ledger,   \* the wallet's entries
          drift,    \* what was done to the balance behind the service's back
          audit,    \* a run of ReconcileWallet and its report
          pages     \* a client that follows nextCursor

vars == <<balance, ledger, drift, audit, pages>>

Entry(id, time, cents) == [id |-> id, time |-> time, cents |-> cents]
Ids(entries) == {e.id : e \in entries}

\* missed and drift are history: how the balance changed between the reads, and
\* how far it was off at the second.
Idle   == [at |-> "idle", stored |-> 0, difference |-> AmountString(0),
           consistent |-> FALSE, checked |-> 0, missed |-> 0, drift |-> 0]
Closed == [at |-> "end", cursor |-> 0, size |-> 0, rows |-> 0, got |-> {}, owed |-> {},
           cut |-> FALSE]

\* CreateWallet: an opening entry, unless the wallet opens empty.
Init ==
    /\ balance = Opening
    /\ ledger = IF Opening = 0 THEN {} ELSE {Entry(1, 0, Opening)}
    /\ drift = 0 /\ audit = Idle /\ pages = Closed

\* An audit under way has read the balance of before.
Missed(cents) ==
    audit' = [audit EXCEPT !.missed = IF audit.at = "read" THEN @ + cents ELSE @]

\* The balance and the entry of a movement, committed together.
Commit(m) ==
    LET asked == Parse(text[m])
        after == IF m \in Debit THEN Sub(balance, asked.cents) ELSE Add(balance, asked.cents)
        cents == IF m \in Debit THEN -asked.cents ELSE asked.cents IN
    /\ m \notin Ids(ledger)
    /\ asked.ok /\ asked.cents > 0 /\ after.ok /\ after.cents >= 0
    /\ balance' = after.cents
    /\ \E t \in Time : ledger' = ledger \cup {Entry(m, t, cents)}
    /\ Missed(after.cents - balance) /\ UNCHANGED <<drift, pages>>

-----------------------------------------------------------------------------
(* ReconcileWallet                                                           *)

Credits(entries) == MapThenSumSet(LAMBDA e : e.cents, {e \in entries : e.cents > 0})
Debits(entries)  == MapThenSumSet(LAMBDA e : -e.cents, {e \in entries : e.cents < 0})

\* Mutant: the sum leaves out the entry that no transaction belongs to.
SumOfTransactions == Credits(ledger \ {e \in ledger : e.id = 1}) - Debits(ledger)

\* CalculateLedgerBalance
LedgerSum == Credits(ledger) - Debits(ledger)

\* Somebody else changes a balance: what the reconciliation is there to show.
Tamper(cents) ==
    /\ drift = 0 /\ balance + cents \in 0..MaxInt
    /\ balance' = balance + cents /\ drift' = cents
    /\ Missed(cents) /\ UNCHANGED <<ledger, pages>>

GetWallet ==
    /\ audit.at # "read"
    /\ audit' = [Idle EXCEPT !.at = "read", !.stored = balance]
    /\ UNCHANGED <<balance, ledger, drift, pages>>

Report(difference) ==
    audit' = [audit EXCEPT !.at = "done", !.difference = AmountString(difference),
                           !.consistent = (difference = 0),
                           !.checked = Cardinality(ledger), !.drift = drift]

\* A sum that does not fit, which the query adds up in wider numbers, or such a
\* difference is an error, as any failed query is.
CalculateLedgerBalance ==
    LET diff == Sub(audit.stored, LedgerSum) IN
    /\ audit.at = "read"
    /\ \/ LedgerSum \in Int64 /\ diff.ok /\ Report(diff.cents)
       \/ audit' = Idle
    /\ UNCHANGED <<balance, ledger, drift, pages>>

-----------------------------------------------------------------------------
(* GetLedgerEntries                                                          *)

\* Mutant: the cursor's own entry is selected again.
NewerOrSame(e, f) == e.time > f.time \/ (e.time = f.time /\ e.id >= f.id)

\* ORDER BY created_at DESC, id DESC
Newer(e, f) == e.time > f.time \/ (e.time = f.time /\ e.id > f.id)

\* Mutant: the cursor is a time, and entries of one time hide each other.
SelectedByTime == IF pages.cursor = 0 THEN ledger
                  ELSE {e \in ledger : \E c \in ledger : c.id = pages.cursor /\ c.time > e.time}

\* Older than the cursor's entry; an unknown cursor selects nothing.
Selected == IF pages.cursor = 0 THEN ledger
            ELSE {e \in ledger : \E c \in ledger : c.id = pages.cursor /\ Newer(c, e)}

PageSize(limit) == IF limit <= 0 \/ limit > MaxPage THEN DefaultPage ELSE limit

\* The newest entries, n of them or all there are.
Newest(page, entries, n) ==
    /\ \A e \in page, f \in entries \ page : Newer(e, f)
    /\ Cardinality(page) = IF n < Cardinality(entries) THEN n ELSE Cardinality(entries)

\* nextCursor is the id of the last row, if there is one.
LastId(page) ==
    IF page = {} THEN 0
    ELSE (CHOOSE e \in page : \A f \in page \ {e} : Newer(f, e)).id

StartPages ==
    /\ pages.at = "end"
    /\ pages' = [Closed EXCEPT !.at = "open", !.owed = ledger]
    /\ UNCHANGED <<balance, ledger, drift, audit>>

\* rows.Err is not read: a connection that breaks shortens the page, and one
\* that breaks before the first row ends the listing.
GetLedgerEntries(limit) ==
    /\ pages.at = "open"
    /\ \E page \in SUBSET Selected : \E n \in 0..PageSize(limit) :
          /\ Newest(page, Selected, n)
          /\ pages' = [pages EXCEPT
                 !.at = IF page = {} THEN "end" ELSE "open",
                 !.cursor = LastId(page), !.size = Cardinality(page),
                 !.rows = @ + Cardinality(page), !.got = @ \cup page,
                 !.cut = (page = {} /\ Selected # {})]
    /\ UNCHANGED <<balance, ledger, drift, audit>>

-----------------------------------------------------------------------------
Next ==
    \/ \E m \in Movement : Commit(m)
    \/ \E c \in Tampering : Tamper(c)
    \/ GetWallet \/ CalculateLedgerBalance
    \/ StartPages \/ \E limit \in Limit : GetLedgerEntries(limit)

Spec == Init /\ [][Next]_vars
-----------------------------------------------------------------------------
(* Properties                                                                *)

\* A report is off by what was committed between its two reads and by nothing
\* else: of a wallet at rest it says "consistent" exactly when the books agree,
\* and a divergence is neither hidden nor made up by a movement of another amount.
ReportIsExact ==
    audit.at = "done" =>
        /\ ValueOf(audit.difference) = audit.drift - audit.missed
        /\ audit.consistent <=> (audit.drift = audit.missed)

\* Whatever is committed meanwhile, with whatever time, following the cursor
\* returns no entry twice.
NoEntryTwice == pages.rows = Cardinality(pages.got)

\* ... and in the end every entry that was there at the start, unless a
\* connection broke before the first row of a page.
NoEntryLost == pages.at = "end" /\ ~pages.cut => pages.owed \subseteq pages.got
=============================================================================
