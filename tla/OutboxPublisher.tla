-------------------------- MODULE OutboxPublisher --------------------------
(***************************************************************************)
(* The transactional outbox: rows of outbox_events and the publishers, one *)
(* per replica, that claim them for 30 seconds, send them to the FIFO      *)
(* queue wager-events and mark them.                                       *)
(*                                                                         *)
(* A claim is a token and a moment; it may run out while its owner, whose  *)
(* calls have no deadline, still works through its batch.  The queue drops *)
(* a message whose deduplication id (the event's) it accepted less than    *)
(* five minutes ago.                                                       *)
(***************************************************************************)
EXTENDS Integers, FiniteSets

CONSTANTS
    Event,        \* the events the application may store
    Publisher,    \* outbox publishers, one per replica
    BatchLimit,   \* events per claim (20 in the code)
    MaxAccepted,  \* where the count of acceptances stops
    Null,         \* no claim, no event at hand
    Gone          \* the token of a process that stopped

ASSUME OutboxAssumption ==
    /\ BatchLimit \in Nat \ {0}
    /\ MaxAccepted \in Nat \ {0}
    /\ Null \notin Event \cup Publisher
    /\ Gone \notin Publisher \cup {Null}

VARIABLES
    row,       \* row[e]: status of the outbox row of e
    token,     \* token[e]: claim_token, named by the process that drew it
    claimed,   \* rows whose claim_until lies ahead
    deferred,  \* rows whose next_retry_at lies ahead
    batch,     \* batch[p]: records p has read and not handled
    at,        \* at[p]: the record p has sent and not recorded, or Null
    reply,     \* reply[p]: what SendMessage answered for it
    recent,    \* events whose deduplication id the queue remembers
    accepted   \* accepted[e]: how often the queue took e for a new message

outbox == <<row, token, claimed, deferred>>
queue == <<recent, accepted>>
vars == <<outbox, batch, at, reply, queue>>

Init ==
    /\ row = [e \in Event |-> "ABSENT"]
    /\ token = [e \in Event |-> Null]
    /\ claimed = {}
    /\ deferred = {}
    /\ batch = [p \in Publisher |-> {}]
    /\ at = [p \in Publisher |-> Null]
    /\ reply = [p \in Publisher |-> "none"]
    /\ recent = {}
    /\ accepted = [e \in Event |-> 0]

\* CreateOutboxEvent, once the transaction around it commits.
StoreEvent(e) ==
    /\ row[e] = "ABSENT"
    /\ row' = [row EXCEPT ![e] = "PENDING"]
    /\ UNCHANGED <<token, claimed, deferred, batch, at, reply, queue>>

-----------------------------------------------------------------------------
(* publishBatch                                                            *)

\* Mutants: a claim lasts until its owner drops it; a claim is no obstacle.
ClaimableOnce == {e \in Event : row[e] = "PENDING" /\ token[e] = Null /\ e \notin deferred}
ClaimableAlways == {e \in Event : row[e] = "PENDING" /\ e \notin deferred}

Claimable == {e \in Event : row[e] = "PENDING" /\ e \notin deferred /\ e \notin claimed}

\* The rows one claim may take.  SKIP LOCKED leaves out any that another claim
\* is taking at the same moment.
Candidates == {S \in SUBSET Claimable : Cardinality(S) <= BatchLimit}

Idle(p) == batch[p] = {} /\ at[p] = Null

\* ClaimPendingOutboxEvents.  rows.Err is not looked at: when the connection
\* breaks the records read so far are the batch, claimed or not.
Claim(p, S) ==
    /\ Idle(p)
    /\ S \in Candidates
    /\ \/ /\ token' = [e \in Event |-> IF e \in S THEN p ELSE token[e]]
          /\ claimed' = claimed \cup S
          /\ batch' = [batch EXCEPT ![p] = S]
       \/ \E B \in SUBSET S :
             /\ token' = [e \in Event |-> IF e \in S THEN p ELSE token[e]]
             /\ claimed' = claimed \cup S
             /\ batch' = [batch EXCEPT ![p] = B]
       \/ \E B \in SUBSET S :
             /\ UNCHANGED <<token, claimed>>
             /\ batch' = [batch EXCEPT ![p] = B]
    /\ UNCHANGED <<row, deferred, at, reply, queue>>

\* SQS accepts a message, unless it remembers the deduplication id.
Accept(e) ==
    /\ recent' = recent \cup {e}
    /\ accepted' = [accepted EXCEPT ![e] =
                      IF e \in recent \/ @ = MaxAccepted THEN @ ELSE @ + 1]

\* Mutant: a reply that was lost counts as an acceptance.
SendOptimistic(p, e) ==
    /\ at[p] = Null /\ e \in batch[p]
    /\ batch' = [batch EXCEPT ![p] = @ \ {e}]
    /\ at' = [at EXCEPT ![p] = e]
    /\ reply' = [reply EXCEPT ![p] = "accepted"]
    /\ Accept(e) \/ UNCHANGED queue
    /\ UNCHANGED outbox

\* SendMessage.  An error does not say whether the queue took the message.
Send(p, e) ==
    /\ at[p] = Null /\ e \in batch[p]
    /\ batch' = [batch EXCEPT ![p] = @ \ {e}]
    /\ at' = [at EXCEPT ![p] = e]
    /\ \/ Accept(e) /\ reply' = [reply EXCEPT ![p] = "accepted"]
       \/ Accept(e) /\ reply' = [reply EXCEPT ![p] = "failed"]
       \/ UNCHANGED queue /\ reply' = [reply EXCEPT ![p] = "failed"]
    /\ UNCHANGED outbox

\* Mutant: the rows are updated by id alone.
OwnsAny(p, e) == TRUE

\* The updates name the token, so they find no row after another claim.
Owns(p, e) == token[e] = p

\* Mutant: the row keeps its claim.
KeepClaim(e) == UNCHANGED <<token, claimed>>

Release(e) ==
    /\ token' = [token EXCEPT ![e] = Null]
    /\ claimed' = claimed \ {e}

NextRecord(p) ==
    /\ at' = [at EXCEPT ![p] = Null]
    /\ reply' = [reply EXCEPT ![p] = "none"]

\* MarkOutboxPublished; its error is logged.
Mark(p) ==
    LET e == at[p] IN
    /\ reply[p] = "accepted"
    /\ NextRecord(p)
    /\ \/ Owns(p, e) /\ Release(e) /\ row' = [row EXCEPT ![e] = "PUBLISHED"]
       \/ UNCHANGED <<row, token, claimed>>
    /\ UNCHANGED <<deferred, batch, queue>>

\* IncrementOutboxRetry, 1 to 64 seconds from now; its error is ignored.
Retry(p) ==
    LET e == at[p] IN
    /\ reply[p] = "failed"
    /\ NextRecord(p)
    /\ \/ Owns(p, e) /\ Release(e) /\ deferred' = deferred \cup {e}
       \/ UNCHANGED <<token, claimed, deferred>>
    /\ UNCHANGED <<row, batch, queue>>

\* The replica stops and starts again, under a new token.
Crash(p) ==
    /\ ~ Idle(p)
    /\ batch' = [batch EXCEPT ![p] = {}]
    /\ NextRecord(p)
    /\ token' = [e \in Event |-> IF token[e] = p THEN Gone ELSE token[e]]
    /\ UNCHANGED <<row, claimed, deferred, queue>>

-----------------------------------------------------------------------------
(* Time                                                                    *)

ClaimExpires(e) ==
    /\ e \in claimed
    /\ claimed' = claimed \ {e}
    /\ UNCHANGED <<row, token, deferred, batch, at, reply, queue>>

RetryDue(e) ==
    /\ e \in deferred
    /\ deferred' = deferred \ {e}
    /\ UNCHANGED <<row, token, claimed, batch, at, reply, queue>>

\* Five minutes after the queue took the message.
QueueForgets(e) ==
    /\ e \in recent
    /\ recent' = recent \ {e}
    /\ UNCHANGED <<outbox, batch, at, reply, accepted>>

-----------------------------------------------------------------------------
PublisherStep(p) ==
    \/ \E S \in SUBSET Event : Claim(p, S)
    \/ \E e \in Event : Send(p, e)
    \/ Mark(p) \/ Retry(p)

Next ==
    \/ \E p \in Publisher : PublisherStep(p) \/ Crash(p)
    \/ \E e \in Event : StoreEvent(e) \/ ClaimExpires(e) \/ RetryDue(e) \/ QueueForgets(e)

Spec == Init /\ [][Next]_vars

\* A claim that reaches the database and brings e back to p.
ClaimsEvent(p, e) ==
    \E S \in SUBSET Event : e \in S /\ Claim(p, S) /\ e \in batch'[p] /\ token'[e] = p

\* A send the queue answers, and its record, while the claim is p's.
SendsInTime(p, e) == Owns(p, e) /\ Send(p, e) /\ reply'[p] = "accepted"
Confirms(p) == Owns(p, at[p]) /\ Mark(p) /\ row' # row

\* Time passes and a publisher goes on with its batch.  The oldest due row is
\* claimed first, and neither the queue nor the database fails, nor a claim
\* runs out under its owner's hands, at every attempt.
Fairness ==
    /\ \A p \in Publisher : WF_vars(Mark(p) \/ Retry(p) \/ \E e \in Event : Send(p, e))
    /\ \A e \in Event : WF_vars(ClaimExpires(e)) /\ WF_vars(RetryDue(e))
    /\ \A e \in Event : SF_vars(\E p \in Publisher : ClaimsEvent(p, e))
    /\ \A e \in Event : SF_vars(\E p \in Publisher : SendsInTime(p, e))
    /\ \A e \in Event : SF_vars(\E p \in Publisher : at[p] = e /\ Confirms(p))

FairSpec == Spec /\ Fairness
-----------------------------------------------------------------------------
(* Properties                                                              *)

\* Every variable keeps to its type, and a published row bears no claim.
TypeOK ==
    /\ row \in [Event -> {"ABSENT", "PENDING", "PUBLISHED"}]
    /\ token \in [Event -> Publisher \cup {Null, Gone}]
    /\ claimed \subseteq Event /\ deferred \subseteq Event /\ recent \subseteq Event
    /\ batch \in [Publisher -> SUBSET Event]
    /\ at \in [Publisher -> Event \cup {Null}]
    /\ reply \in [Publisher -> {"none", "accepted", "failed"}]
    /\ accepted \in [Event -> 0..MaxAccepted]
    /\ \A e \in Event : row[e] = "PUBLISHED" => token[e] = Null /\ e \notin claimed

\* The part of the relay's path an event has behind it.
Reached(e) ==
    CASE row[e] = "ABSENT" -> "none"
      [] row[e] = "PENDING" /\ accepted[e] = 0 -> "stored"
      [] row[e] = "PENDING" /\ accepted[e] > 0 -> "delivered"
      [] row[e] = "PUBLISHED" -> "published"

Relay == INSTANCE EventRelay WITH stage <- [e \in Event |-> Reached(e)]

\* No event reaches the queue before its row is committed, none is recorded
\* as published before the queue took it, and no late publisher undoes either:
\* after any crash each event is delivered at least once.
ImplementsRelay == Relay!Spec

\* While a claim runs nobody else touches it: only the publisher that holds
\* it, done with that very record, gives it up.
ClaimIsKept ==
    [][\A e \in claimed : \A p \in Publisher :
          token[e] = p /\ token'[e] # p =>
              \/ at[p] = e /\ at'[p] = Null
              \/ token'[e] = Gone /\ Idle(p)']_vars

\* "Eventos pendentes devem ser assumidos por outra instância": every stored
\* event is published in the end, claims of stopped processes included.
EventuallyPublished == \A e \in Event : row[e] = "PENDING" ~> row[e] = "PUBLISHED"
=============================================================================
