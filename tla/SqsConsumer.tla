---------------------------- MODULE SqsConsumer ----------------------------
(***************************************************************************)
(* The FIFO queue wager-transactions, the consumers that poll it, one per  *)
(* replica, and the inbox that recognises a message delivered again.       *)
(*                                                                         *)
(* A poll takes some of the first messages of some groups and hides them   *)
(* for 30 seconds; while any of a group is hidden the queue delivers no    *)
(* other of it.  A consumer goes through its batch one message at a time,  *)
(* whatever became of the one before, and has no deadline of its own.      *)
(* ProcessTransactionInTx is one step here: it commits with the inbox row, *)
(* is refused by a business rule, or fails.                                *)
(***************************************************************************)
EXTENDS Integers, Sequences, FiniteSets

CONSTANTS
    Message,     \* messages the producers may send
    Consumer,    \* consumers, one per replica
    Malformed,   \* messages whose body is no valid request
    MaxReceive,  \* maxReceiveCount of the queue (3)
    BatchSize,   \* MaxNumberOfMessages of a poll (10)
    Null,        \* no inbox row, no message at hand
    envelope     \* envelope[m]: group, messageId and body of m

ASSUME ConsumerAssumption ==
    /\ Malformed \subseteq Message
    /\ MaxReceive \in Nat \ {0} /\ BatchSize \in Nat \ {0}
    /\ Null \notin Message
    /\ \A m \in Message : envelope[m].body # Null

Id == {envelope[m].id : m \in Message}

VARIABLES
    line,      \* the messages sent, in order
    place,     \* place[m]: where message m is
    receives,  \* receives[m]: how often it was delivered, which numbers receipts
    inbox,     \* inbox[i]: the body whose handling committed under messageId i
    batch,     \* batch[c]: messages consumer c received and has not finished
    receipt,   \* receipt[c][m]: the receipt of m in that batch, else 0
    cur,       \* cur[c]: the message c is handling, or Null
    pc,        \* pc[c]: where c stands in it
    done,      \* messages in the order their handling committed
    refused,   \* messages a business rule refused
    failed     \* messages whose handling failed at least once

queue == <<line, place, receives>>
history == <<done, refused, failed>>
consumers == <<batch, receipt, cur, pc>>
vars == <<queue, inbox, consumers, history>>

Elements(s) == {s[i] : i \in DOMAIN s}
Sent(m) == m \in Elements(line)
Position(m) == CHOOSE i \in DOMAIN line : line[i] = m
Before(m, n) == /\ Sent(m) /\ Sent(n)
                /\ envelope[m].group = envelope[n].group /\ Position(m) < Position(n)

Init ==
    /\ line = <<>>
    /\ place = [m \in Message |-> "producer"]
    /\ receives = [m \in Message |-> 0]
    /\ inbox = [i \in Id |-> Null]
    /\ batch = [c \in Consumer |-> {}]
    /\ receipt = [c \in Consumer |-> [m \in Message |-> 0]]
    /\ cur = [c \in Consumer |-> Null]
    /\ pc = [c \in Consumer |-> "idle"]
    /\ done = <<>> /\ refused = {} /\ failed = {}

-----------------------------------------------------------------------------
(* The queue                                                               *)

Send(m) ==
    /\ place[m] = "producer"
    /\ line' = Append(line, m)
    /\ place' = [place EXCEPT ![m] = "visible"]
    /\ UNCHANGED <<receives, inbox, consumers, history>>

\* No message of m's group is hidden and none before m is still there.
FirstOfGroup(m) ==
    /\ place[m] = "visible"
    /\ \A n \in Message : Before(n, m) => place[n] \in {"deleted", "dead"}
    /\ \A n \in Message : envelope[n].group = envelope[m].group => place[n] # "hidden"

\* The next poll finds a message delivered too often.
DeadLetter(m) ==
    /\ FirstOfGroup(m) /\ receives[m] = MaxReceive
    /\ place' = [place EXCEPT ![m] = "dead"]
    /\ UNCHANGED <<line, receives, inbox, consumers, history>>

\* What a poll may return: from each group some of its first messages.
Deliverable ==
    {S \in SUBSET {m \in Message : place[m] = "visible" /\ receives[m] < MaxReceive} :
        /\ S # {} /\ Cardinality(S) <= BatchSize
        /\ \A m \in S : FirstOfGroup(m) \/ \E n \in S : Before(n, m)
        /\ \A m \in S : \A n \in Message :
              Before(n, m) => n \in S \/ place[n] \in {"deleted", "dead"}}

Hide(S) ==
    /\ place' = [m \in Message |-> IF m \in S THEN "hidden" ELSE place[m]]
    /\ receives' = [m \in Message |-> IF m \in S THEN receives[m] + 1 ELSE receives[m]]
    /\ UNCHANGED line

\* The reply to a poll is lost: the messages are hidden from everybody.
ReceiveLost ==
    /\ \E S \in Deliverable : Hide(S)
    /\ UNCHANGED <<inbox, consumers, history>>

\* The 30 seconds of one delivery: hidden messages of a group came together.
VisibilityEnds(g) ==
    LET S == {m \in Message : place[m] = "hidden" /\ envelope[m].group = g} IN
    /\ S # {}
    /\ place' = [m \in Message |-> IF m \in S THEN "visible" ELSE place[m]]
    /\ UNCHANGED <<line, receives, inbox, consumers, history>>

-----------------------------------------------------------------------------
(* pollAndProcess                                                          *)

Receive(c) ==
    /\ pc[c] = "idle" /\ batch[c] = {}
    /\ \E S \in Deliverable :
          /\ Hide(S)
          /\ batch' = [batch EXCEPT ![c] = S]
          /\ receipt' = [receipt EXCEPT ![c] =
                           [m \in Message |-> IF m \in S THEN receives[m] + 1 ELSE 0]]
    /\ UNCHANGED <<inbox, cur, pc, history>>

\* Mutant: the messages of a batch in any order.
NextAny(c, m) == pc[c] = "idle" /\ m \in batch[c]

\* The loop takes the batch in the order of the reply.
NextInBatch(c, m) ==
    /\ pc[c] = "idle" /\ m \in batch[c]
    /\ \A n \in batch[c] : ~ Before(n, m)

\* An inbox row somebody is inserting makes the next insertion of it wait.
Inserting(i) == \E c \in Consumer : pc[c] = "inserted" /\ envelope[cur[c]].id = i

\* Mutant: the conflict is not looked at, and the message handled again.
InsertAnyway(c, m) ==
    /\ NextInBatch(c, m) /\ m \notin Malformed
    /\ pc' = [pc EXCEPT ![c] = "inserted"]
    /\ cur' = [cur EXCEPT ![c] = m]
    /\ UNCHANGED <<queue, inbox, batch, receipt, history>>

\* TrySaveInboxMessage inserts the row: the message is new.
Insert(c, m) ==
    /\ NextInBatch(c, m) /\ m \notin Malformed
    /\ ~ Inserting(envelope[m].id) /\ inbox[envelope[m].id] = Null
    /\ pc' = [pc EXCEPT ![c] = "inserted"]
    /\ cur' = [cur EXCEPT ![c] = m]
    /\ UNCHANGED <<queue, inbox, batch, receipt, history>>

\* The row is there: with the same body the message was handled before, with
\* another it is refused.  Either way it is to be deleted.
Recognise(c, m) ==
    LET i == envelope[m].id IN
    /\ NextInBatch(c, m) /\ m \notin Malformed
    /\ inbox[i] # Null
    /\ pc' = [pc EXCEPT ![c] = "deleting"]
    /\ cur' = [cur EXCEPT ![c] = m]
    /\ refused' = IF inbox[i] = envelope[m].body THEN refused ELSE refused \cup {m}
    /\ UNCHANGED <<queue, inbox, batch, receipt, done, failed>>

\* The transaction commits: the inbox row and what the wager service wrote.
CommitInbox(c) ==
    /\ inbox' = [inbox EXCEPT ![envelope[cur[c]].id] = envelope[cur[c]].body]
    /\ done' = Append(done, cur[c])

Commit(c) ==
    /\ pc[c] = "inserted"
    /\ CommitInbox(c)
    /\ pc' = [pc EXCEPT ![c] = "deleting"]
    /\ UNCHANGED <<queue, batch, receipt, cur, refused, failed>>

\* isTerminalMessageError: the transaction, inbox row included, is rolled
\* back and the message deleted all the same.
Refuse(c) ==
    /\ pc[c] = "inserted"
    /\ pc' = [pc EXCEPT ![c] = "deleting"]
    /\ refused' = refused \cup {cur[c]}
    /\ UNCHANGED <<queue, inbox, batch, receipt, cur, done, failed>>

\* Mutant: the receipt outlives the message.
FinishWithReceipt(c, m) ==
    /\ batch' = [batch EXCEPT ![c] = @ \ {m}]
    /\ cur' = [cur EXCEPT ![c] = Null]
    /\ pc' = [pc EXCEPT ![c] = "idle"]
    /\ UNCHANGED receipt

Finish(c, m) ==
    /\ batch' = [batch EXCEPT ![c] = @ \ {m}]
    /\ receipt' = [receipt EXCEPT ![c][m] = 0]
    /\ cur' = [cur EXCEPT ![c] = Null]
    /\ pc' = [pc EXCEPT ![c] = "idle"]

\* Mutant: every error is terminal.
SkipDeleting(c, m) ==
    /\ NextInBatch(c, m)
    /\ failed' = failed \cup {m}
    /\ pc' = [pc EXCEPT ![c] = "deleting"] /\ cur' = [cur EXCEPT ![c] = m]
    /\ UNCHANGED <<queue, inbox, batch, receipt, done, refused>>

\* Any other error before the inbox row is there, a malformed body included:
\* the message stays hidden for the rest of its 30 seconds.
Skip(c, m) ==
    /\ NextInBatch(c, m)
    /\ failed' = failed \cup {m}
    /\ Finish(c, m)
    /\ UNCHANGED <<queue, inbox, done, refused>>

\* Mutant: the message is tried again at once, for as long as it fails.
FailAgain(c) ==
    /\ pc[c] = "inserted"
    /\ failed' = failed \cup {cur[c]}
    /\ pc' = [pc EXCEPT ![c] = "idle"] /\ cur' = [cur EXCEPT ![c] = Null]
    /\ UNCHANGED <<queue, inbox, batch, receipt, done, refused>>

\* Any other error behind it, with a rollback, or with a commit whose answer
\* was lost.
Fail(c) ==
    /\ pc[c] = "inserted"
    /\ CommitInbox(c) \/ UNCHANGED <<inbox, done>>
    /\ failed' = failed \cup {cur[c]}
    /\ Finish(c, cur[c])
    /\ UNCHANGED <<queue, refused>>

\* DeleteMessage with the receipt of this delivery: it may fail, is void after
\* another delivery and doubtful after the 30 seconds.
Delete(c) ==
    LET m == cur[c] IN
    /\ pc[c] = "deleting"
    /\ \/ /\ receipt[c][m] = receives[m] /\ place[m] \in {"hidden", "visible"}
          /\ place' = [place EXCEPT ![m] = "deleted"]
       \/ UNCHANGED place
    /\ Finish(c, m)
    /\ UNCHANGED <<line, receives, inbox, history>>

\* The replica stops and starts again; the database rolls back.
Crash(c) ==
    /\ batch[c] # {}
    /\ batch' = [batch EXCEPT ![c] = {}]
    /\ receipt' = [receipt EXCEPT ![c] = [m \in Message |-> 0]]
    /\ cur' = [cur EXCEPT ![c] = Null]
    /\ pc' = [pc EXCEPT ![c] = "idle"]
    /\ UNCHANGED <<queue, inbox, history>>

-----------------------------------------------------------------------------
Handle(c) ==
    \/ Commit(c) \/ Refuse(c) \/ Fail(c) \/ Delete(c)
    \/ \E m \in Message : Insert(c, m) \/ Recognise(c, m) \/ Skip(c, m)

Next ==
    \/ \E m \in Message : Send(m) \/ DeadLetter(m)
    \/ \E m \in Message : VisibilityEnds(envelope[m].group)
    \/ ReceiveLost
    \/ \E c \in Consumer : Receive(c) \/ Handle(c) \/ Crash(c)

Spec == Init /\ [][Next]_vars

\* The loop runs on, its statements return or fail, polls reach every group,
\* and 30 seconds pass.  A crash may come at any time.
Fairness ==
    /\ \A c \in Consumer : WF_vars(Handle(c))
    /\ \A m \in Message : SF_vars(\E c \in Consumer : Receive(c) /\ m \in batch'[c])
    /\ \A m \in Message : SF_vars(DeadLetter(m)) /\ WF_vars(VisibilityEnds(envelope[m].group))

FairSpec == Spec /\ Fairness
-----------------------------------------------------------------------------
(* Properties                                                              *)

\* Every variable keeps to its type; a consumer holds a receipt for what it
\* has at hand, and no receipt is newer than the last delivery.
TypeOK ==
    /\ line \in Seq(Message) /\ done \in Seq(Message)
    /\ place \in [Message -> {"producer", "visible", "hidden", "deleted", "dead"}]
    /\ receives \in [Message -> 0..MaxReceive]
    /\ inbox \in [Id -> {envelope[m].body : m \in Message} \cup {Null}]
    /\ batch \in [Consumer -> SUBSET Message]
    /\ cur \in [Consumer -> Message \cup {Null}]
    /\ pc \in [Consumer -> {"idle", "inserted", "deleting"}]
    /\ refused \subseteq Message /\ failed \subseteq Message
    /\ \A c \in Consumer : \A m \in Message :
          /\ m \in batch[c] <=> receipt[c][m] # 0
          /\ receipt[c][m] <= receives[m]

\* One messageId, one committed handling: no redelivery, to whichever replica,
\* after whichever crash or lost answer, is processed again.
HandledOnce ==
    \A i, j \in DOMAIN done : envelope[done[i]].id = envelope[done[j]].id => i = j

\* A message leaves the queue for a reason that stands: its own body was
\* handled, or a business rule refused it, or its deliveries are used up.
LeavesForAReason ==
    \A m \in Message :
        /\ place[m] = "deleted" => inbox[envelope[m].id] = envelope[m].body \/ m \in refused
        /\ place[m] = "dead" => receives[m] = MaxReceive

\* Within a group only a failure, or the dead-letter queue, lets a message
\* overtake an earlier one: not a second consumer, a late one or a crash.
OvertakesOnlyFailed ==
    [][\A m \in Message :
          done' # done /\ Before(m, done'[Len(done')]) =>
              \/ m \in refused \cup failed
              \/ place[m] = "dead"
              \/ inbox[envelope[m].id] = envelope[m].body]_vars

\* Every message sent is deleted or reaches the dead-letter queue.
EveryMessageLeaves ==
    \A m \in Message : place[m] = "visible" ~> place[m] \in {"deleted", "dead"}

\* "Remova a mensagem da fila somente após o commit do seu tratamento durável":
\* what was deleted has its row in the inbox.
DeletedIsDurable ==
    \A m \in Message : place[m] = "deleted" => inbox[envelope[m].id] # Null
=============================================================================
