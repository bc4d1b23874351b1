--------------------------- MODULE ConsumerProofs ---------------------------
(***************************************************************************)
(* For every number of messages and consumers the inbox lets the handling  *)
(* of a messageId commit once.                                             *)
(***************************************************************************)
EXTENDS SqsConsumer, TLAPS

\* The history of commits holds messages, the inbox their bodies.
HistoryOK ==
    /\ done \in Seq(Message)
    /\ inbox \in [Id -> {envelope[m].body : m \in Message} \cup {Null}]
    /\ cur \in [Consumer -> Message \cup {Null}]
    /\ pc \in [Consumer -> {"idle", "inserted", "deleting"}]

\* Whoever inserts a row is alone with it, and nobody committed it before.
InsertingOK ==
    \A c \in Consumer : pc[c] = "inserted" =>
        /\ cur[c] \in Message
        /\ inbox[envelope[cur[c]].id] = Null
        /\ \A d \in Consumer : pc[d] = "inserted" /\ envelope[cur[d]].id = envelope[cur[c]].id
              => d = c

\* What committed is in the inbox.
InboxOK == \A i \in DOMAIN done : inbox[envelope[done[i]].id] # Null

OnceInv == HistoryOK /\ InsertingOK /\ InboxOK /\ HandledOnce

\* Nothing has been handled at first.
LEMMA OnceInit == Init => OnceInv
  BY DEF Init, OnceInv, HistoryOK, InsertingOK, InboxOK, HandledOnce

\* A message's messageId is one of those the inbox is about.
LEMMA IdOfMessage ==
  ASSUME NEW m \in Message
  PROVE  envelope[m].id \in Id /\ envelope[m].body # Null
  BY ConsumerAssumption DEF Id

\* Steps that leave inbox and commits alone, and start no insertion.
LEMMA NoInsertion ==
  ASSUME OnceInv, UNCHANGED <<inbox, done>>,
         cur' \in [Consumer -> Message \cup {Null}],
         pc' \in [Consumer -> {"idle", "inserted", "deleting"}],
         \A c \in Consumer : pc'[c] = "inserted" => pc[c] = "inserted" /\ cur'[c] = cur[c]
  PROVE  OnceInv'
  BY DEF OnceInv, HistoryOK, InsertingOK, InboxOK, HandledOnce

\* A new row: not in the inbox, and nobody else is at it.
LEMMA InsertKeeps ==
  ASSUME OnceInv, NEW c \in Consumer, NEW m \in Message, Insert(c, m)
  PROVE  OnceInv'
<1> USE DEF OnceInv, Insert
<1>1. /\ pc' = [pc EXCEPT ![c] = "inserted"] /\ cur' = [cur EXCEPT ![c] = m]
      /\ inbox' = inbox /\ done' = done
      /\ inbox[envelope[m].id] = Null
      /\ \A d \in Consumer : pc[d] = "inserted" => envelope[cur[d]].id # envelope[m].id
  BY DEF history, Inserting
<1>2. HistoryOK'
  BY <1>1 DEF HistoryOK
<1>3. InsertingOK'
  <2> SUFFICES ASSUME NEW a \in Consumer, pc'[a] = "inserted"
               PROVE  /\ cur'[a] \in Message
                      /\ inbox'[envelope[cur'[a]].id] = Null
                      /\ \A d \in Consumer :
                            /\ pc'[d] = "inserted"
                            /\ envelope[cur'[d]].id = envelope[cur'[a]].id
                            => d = a
    BY DEF InsertingOK
  <2>1. CASE a = c
    BY <1>1, <2>1 DEF HistoryOK, InsertingOK
  <2>2. CASE a # c
    BY <1>1, <2>2 DEF HistoryOK, InsertingOK
  <2>3. QED
    BY <2>1, <2>2
<1>4. InboxOK' /\ HandledOnce'
  BY <1>1 DEF InboxOK, HandledOnce
<1>5. QED
  BY <1>2, <1>3, <1>4

\* The commit of a row that was free adds the first handling of its messageId.
LEMMA CommitKeeps ==
  ASSUME OnceInv, NEW c \in Consumer, pc[c] = "inserted", CommitInbox(c),
         cur' \in [Consumer -> Message \cup {Null}],
         pc' \in [Consumer -> {"idle", "inserted", "deleting"}],
         pc'[c] # "inserted",
         \A d \in Consumer \ {c} : pc'[d] = pc[d] /\ cur'[d] = cur[d]
  PROVE  OnceInv'
<1> USE DEF OnceInv
<1> DEFINE m == cur[c]
<1>1. m \in Message /\ inbox[envelope[m].id] = Null
      /\ envelope[m].id \in Id /\ envelope[m].body # Null
  BY IdOfMessage DEF InsertingOK
<1>2. /\ inbox' = [inbox EXCEPT ![envelope[m].id] = envelope[m].body]
      /\ done' = Append(done, m) /\ done \in Seq(Message)
  BY DEF CommitInbox, HistoryOK
<1>3. /\ done' \in Seq(Message) /\ Len(done') = Len(done) + 1
      /\ \A i \in DOMAIN done : done'[i] = done[i] /\ done[i] \in Message
      /\ done'[Len(done) + 1] = m /\ Len(done) \in Nat
      /\ DOMAIN done' = 1..(Len(done) + 1) /\ DOMAIN done = 1..Len(done)
  BY <1>1, <1>2
<1>4. HistoryOK'
  BY <1>1, <1>2, <1>3 DEF HistoryOK
<1>5. InsertingOK'
  <2> SUFFICES ASSUME NEW a \in Consumer, pc'[a] = "inserted"
               PROVE  /\ cur'[a] \in Message
                      /\ inbox'[envelope[cur'[a]].id] = Null
                      /\ \A d \in Consumer :
                            /\ pc'[d] = "inserted"
                            /\ envelope[cur'[d]].id = envelope[cur'[a]].id
                            => d = a
    BY DEF InsertingOK
  <2>1. a # c /\ cur'[a] = cur[a] /\ pc[a] = "inserted" /\ cur[a] \in Message
    BY DEF InsertingOK
  <2>2. envelope[cur[a]].id # envelope[m].id
    BY <2>1 DEF InsertingOK
  <2>3. inbox'[envelope[cur[a]].id] = Null
    BY <1>2, <2>1, <2>2, IdOfMessage DEF InsertingOK, HistoryOK
  <2>4. \A d \in Consumer : pc'[d] = "inserted" => d # c /\ pc[d] = "inserted" /\ cur'[d] = cur[d]
    OBVIOUS
  <2>5. QED
    BY <2>1, <2>3, <2>4 DEF InsertingOK
<1>6. InboxOK'
  <2> SUFFICES ASSUME NEW i \in DOMAIN done' PROVE inbox'[envelope[done'[i]].id] # Null
    BY DEF InboxOK
  <2>1. CASE i = Len(done) + 1
    BY <1>1, <1>2, <1>3, <2>1 DEF HistoryOK
  <2>2. CASE i \in DOMAIN done
    <3>1. envelope[done[i]].id \in Id /\ inbox[envelope[done[i]].id] # Null
      BY <1>3, <2>2, IdOfMessage DEF InboxOK
    <3>2. QED
      BY <1>1, <1>2, <1>3, <2>2, <3>1 DEF HistoryOK
  <2>3. QED
    BY <1>3, <2>1, <2>2
<1>7. HandledOnce'
  <2>1. \A i \in DOMAIN done : envelope[done[i]].id # envelope[m].id
    BY <1>1 DEF InboxOK
  <2>2. QED
    BY <1>3, <2>1 DEF HandledOnce
<1>8. QED
  BY <1>4, <1>5, <1>6, <1>7

\* Every step keeps the invariant.
LEMMA OnceStep == OnceInv /\ [Next]_vars => OnceInv'
<1> SUFFICES ASSUME OnceInv, [Next]_vars PROVE OnceInv'
  OBVIOUS
<1> USE DEF OnceInv, HistoryOK
<1>1. CASE UNCHANGED vars
  BY <1>1, NoInsertion DEF vars, consumers, history
<1>2. ASSUME NEW m \in Message, Send(m) \/ DeadLetter(m) PROVE OnceInv'
  BY <1>2, NoInsertion DEF Send, DeadLetter, consumers, history
<1>3. ASSUME NEW g, VisibilityEnds(g) PROVE OnceInv'
  BY <1>3, NoInsertion DEF VisibilityEnds, consumers, history
<1>4. CASE ReceiveLost
  BY <1>4, NoInsertion DEF ReceiveLost, consumers, history
<1>5. ASSUME NEW c \in Consumer, Receive(c) PROVE OnceInv'
  BY <1>5, NoInsertion DEF Receive, history
<1>6. ASSUME NEW c \in Consumer, NEW m \in Message, Recognise(c, m) \/ Skip(c, m)
      PROVE  OnceInv'
  BY <1>6, NoInsertion DEF Recognise, Skip, Finish, NextInBatch, queue
<1>7. ASSUME NEW c \in Consumer, Refuse(c) \/ Delete(c) \/ Crash(c)
      PROVE  OnceInv'
  BY <1>7, NoInsertion DEF Refuse, Delete, Finish, Crash, history
<1>8. ASSUME NEW c \in Consumer, Commit(c) PROVE OnceInv'
  BY <1>8, CommitKeeps DEF Commit
<1>9. ASSUME NEW c \in Consumer, Fail(c) PROVE OnceInv'
  <2>1. /\ pc' = [pc EXCEPT ![c] = "idle"] /\ cur' = [cur EXCEPT ![c] = Null]
        /\ pc[c] = "inserted"
    BY <1>9 DEF Fail, Finish
  <2>2. CASE CommitInbox(c)
    BY <2>1, <2>2, CommitKeeps
  <2>3. CASE UNCHANGED <<inbox, done>>
    BY <2>1, <2>3, NoInsertion
  <2>4. QED
    BY <1>9, <2>2, <2>3 DEF Fail
<1>10. QED
  BY <1>1, <1>2, <1>3, <1>4, <1>5, <1>6, <1>7, <1>8, <1>9, InsertKeeps DEF Next, Handle

\* The handling of a messageId commits at most once: the row a transaction is
\* inserting makes others of it wait, a committed one turns them away.
THEOREM InboxHandlesOnce == Spec => []HandledOnce
<1>1. OnceInv => HandledOnce
  BY DEF OnceInv
<1>2. QED
  BY <1>1, OnceInit, OnceStep, PTL DEF Spec

-----------------------------------------------------------------------------
(* Types, and why a message leaves the queue                               *)

\* Receipts are numbers, 0 where there is none.
ReceiptsOK == receipt \in [Consumer -> [Message -> 0..MaxReceive]]

\* Who is past the start of a message has it at hand.
AtHand == \A c \in Consumer : pc[c] # "idle" => cur[c] \in Message

\* What is to be deleted was handled under its own body, or refused.
DeletingOK ==
    \A c \in Consumer : pc[c] = "deleting" =>
        inbox[envelope[cur[c]].id] = envelope[cur[c]].body \/ cur[c] \in refused

LeaveInv == TypeOK /\ ReceiptsOK /\ AtHand /\ OnceInv /\ DeletingOK /\ LeavesForAReason

\* Nothing was sent at first.
LEMMA LeaveInit == Init => LeaveInv
  BY OnceInit, ConsumerAssumption DEF Init, LeaveInv, TypeOK, ReceiptsOK, AtHand,
     DeletingOK, LeavesForAReason

\* Hiding numbers one more delivery, of messages that were not dead.
LEMMA HideKeeps ==
  ASSUME LeaveInv, NEW S \in Deliverable, Hide(S)
  PROVE  /\ S \subseteq Message
         /\ \A m \in S : receives'[m] = receives[m] + 1 /\ place[m] = "visible"
                         /\ place'[m] = "hidden"
         /\ \A m \in Message \ S : receives'[m] = receives[m] /\ place'[m] = place[m]
         /\ receives' \in [Message -> 0..MaxReceive]
         /\ place' \in [Message -> {"producer", "visible", "hidden", "deleted", "dead"}]
         /\ line' \in Seq(Message)
<1>1. S \subseteq {m \in Message : place[m] = "visible" /\ receives[m] < MaxReceive}
  BY DEF Deliverable
<1>2. /\ receives \in [Message -> 0..MaxReceive] /\ line \in Seq(Message)
      /\ place \in [Message -> {"producer", "visible", "hidden", "deleted", "dead"}]
  BY DEF LeaveInv, TypeOK
<1>3. /\ place' = [m \in Message |-> IF m \in S THEN "hidden" ELSE place[m]]
      /\ receives' = [m \in Message |-> IF m \in S THEN receives[m] + 1 ELSE receives[m]]
      /\ line' = line
  BY DEF Hide
<1>4. QED
  BY <1>1, <1>2, <1>3, ConsumerAssumption

\* The end of a message, its receipt given back.
LEMMA FinishKeeps ==
  ASSUME LeaveInv, NEW c \in Consumer, NEW m \in Message, Finish(c, m), receives' = receives
  PROVE  /\ batch' \in [Consumer -> SUBSET Message]
         /\ receipt' \in [Consumer -> [Message -> 0..MaxReceive]]
         /\ cur' \in [Consumer -> Message \cup {Null}]
         /\ pc' \in [Consumer -> {"idle", "inserted", "deleting"}]
         /\ pc'[c] = "idle" /\ \A d \in Consumer \ {c} : pc'[d] = pc[d] /\ cur'[d] = cur[d]
         /\ \A d \in Consumer : \A n \in Message :
               (n \in batch'[d] <=> receipt'[d][n] # 0) /\ receipt'[d][n] <= receives'[n]
<1>1. /\ batch' = [batch EXCEPT ![c] = @ \ {m}]
      /\ receipt' = [receipt EXCEPT ![c][m] = 0]
      /\ cur' = [cur EXCEPT ![c] = Null] /\ pc' = [pc EXCEPT ![c] = "idle"]
  BY DEF Finish
<1>2. /\ batch \in [Consumer -> SUBSET Message]
      /\ receipt \in [Consumer -> [Message -> 0..MaxReceive]]
      /\ receives \in [Message -> 0..MaxReceive]
      /\ cur \in [Consumer -> Message \cup {Null}]
      /\ pc \in [Consumer -> {"idle", "inserted", "deleting"}]
      /\ \A d \in Consumer : \A n \in Message :
            (n \in batch[d] <=> receipt[d][n] # 0) /\ receipt[d][n] <= receives[n]
  BY DEF LeaveInv, TypeOK, ReceiptsOK
<1>3. MaxReceive \in Nat
  BY ConsumerAssumption
<1>4. \A d \in Consumer : \A n \in Message :
         /\ n \in batch'[d] <=> n \in batch[d] /\ ~ (d = c /\ n = m)
         /\ receipt'[d][n] = IF d = c /\ n = m THEN 0 ELSE receipt[d][n]
  BY <1>1, <1>2
<1>5. receipt' \in [Consumer -> [Message -> 0..MaxReceive]]
  BY <1>1, <1>2, <1>3
<1>6. \A d \in Consumer : \A n \in Message :
         (n \in batch'[d] <=> receipt'[d][n] # 0) /\ receipt'[d][n] <= receives'[n]
  BY <1>2, <1>3, <1>4
<1>7. QED
  BY <1>1, <1>2, <1>5, <1>6

\* Sending, hiding and showing again, and the dead-letter queue: none of it
\* touches what consumers hold or what is durable.
LEMMA QueueKeeps ==
  ASSUME LeaveInv, OnceInv', UNCHANGED <<inbox, consumers, history>>,
         line' \in Seq(Message), receives' = receives,
         place' \in [Message -> {"producer", "visible", "hidden", "deleted", "dead"}],
         \A m \in Message : place'[m] = "deleted" => place[m] = "deleted",
         \A m \in Message : place'[m] = "dead" => place[m] = "dead" \/ receives[m] = MaxReceive
  PROVE  LeaveInv'
<1>1. TypeOK' /\ ReceiptsOK'
  BY DEF LeaveInv, TypeOK, ReceiptsOK, consumers, history
<1>2. AtHand' /\ DeletingOK' /\ LeavesForAReason'
  BY DEF LeaveInv, AtHand, DeletingOK, LeavesForAReason, consumers, history
<1>3. QED
  BY <1>1, <1>2 DEF LeaveInv

\* A poll: the receipts it hands out are those of these deliveries.
LEMMA PollKeeps ==
  ASSUME LeaveInv, OnceInv', NEW S \in Deliverable, Hide(S),
         UNCHANGED <<inbox, cur, pc, history>>,
         \/ UNCHANGED <<batch, receipt>>
         \/ \E c \in Consumer :
               /\ batch' = [batch EXCEPT ![c] = S]
               /\ receipt' = [receipt EXCEPT ![c] =
                                [m \in Message |-> IF m \in S THEN receives[m] + 1 ELSE 0]]
  PROVE  LeaveInv'
<1>1. /\ batch \in [Consumer -> SUBSET Message]
      /\ receipt \in [Consumer -> [Message -> 0..MaxReceive]]
      /\ receives \in [Message -> 0..MaxReceive] /\ MaxReceive \in Nat
      /\ \A c \in Consumer : \A m \in Message :
            (m \in batch[c] <=> receipt[c][m] # 0) /\ receipt[c][m] <= receives[m]
  BY ConsumerAssumption DEF LeaveInv, TypeOK, ReceiptsOK
<1>2. /\ S \subseteq Message
      /\ \A m \in S : receives'[m] = receives[m] + 1 /\ place[m] = "visible"
                      /\ place'[m] = "hidden"
      /\ \A m \in Message \ S : receives'[m] = receives[m] /\ place'[m] = place[m]
      /\ receives' \in [Message -> 0..MaxReceive]
      /\ place' \in [Message -> {"producer", "visible", "hidden", "deleted", "dead"}]
      /\ line' \in Seq(Message)
  BY HideKeeps
<1>3. \A m \in Message : receives[m] <= receives'[m]
  <2> SUFFICES ASSUME NEW m \in Message PROVE receives[m] <= receives'[m]
    OBVIOUS
  <2>1. receives[m] \in 0..MaxReceive
    BY <1>1
  <2>2. receives'[m] = receives[m] \/ receives'[m] = receives[m] + 1
    BY <1>2
  <2>3. QED
    BY <1>1, <2>1, <2>2
<1>4. /\ batch' \in [Consumer -> SUBSET Message]
      /\ receipt' \in [Consumer -> [Message -> 0..MaxReceive]]
      /\ \A c \in Consumer : \A m \in Message :
            (m \in batch'[c] <=> receipt'[c][m] # 0) /\ receipt'[c][m] <= receives'[m]
  <2>1. CASE UNCHANGED <<batch, receipt>>
    BY <1>1, <1>2, <1>3, <2>1
  <2>2. ASSUME NEW c \in Consumer,
               batch' = [batch EXCEPT ![c] = S],
               receipt' = [receipt EXCEPT ![c] =
                             [m \in Message |-> IF m \in S THEN receives[m] + 1 ELSE 0]]
        PROVE  /\ batch' \in [Consumer -> SUBSET Message]
               /\ receipt' \in [Consumer -> [Message -> 0..MaxReceive]]
               /\ \A d \in Consumer : \A m \in Message :
                     (m \in batch'[d] <=> receipt'[d][m] # 0) /\ receipt'[d][m] <= receives'[m]
    <3>1. [m \in Message |-> IF m \in S THEN receives[m] + 1 ELSE 0]
             \in [Message -> 0..MaxReceive]
      BY <1>1, <1>2
    <3>2. batch' \in [Consumer -> SUBSET Message]
          /\ receipt' \in [Consumer -> [Message -> 0..MaxReceive]]
      BY <1>1, <1>2, <2>2, <3>1
    <3>3. \A m \in Message :
             (m \in batch'[c] <=> receipt'[c][m] # 0) /\ receipt'[c][m] <= receives'[m]
      BY <1>1, <1>2, <2>2
    <3>4. \A d \in Consumer \ {c} : batch'[d] = batch[d] /\ receipt'[d] = receipt[d]
      BY <1>1, <2>2
    <3>5. \A d \in Consumer \ {c} : \A m \in Message :
             (m \in batch'[d] <=> receipt'[d][m] # 0) /\ receipt'[d][m] <= receives'[m]
      BY <1>1, <1>2, <1>3, <3>4
    <3>6. QED
      BY <3>2, <3>3, <3>5
  <2>3. QED
    BY <2>1, <2>2
<1>5. TypeOK' /\ ReceiptsOK'
  BY <1>2, <1>4 DEF LeaveInv, TypeOK, ReceiptsOK, history
<1>6. AtHand' /\ DeletingOK'
  BY DEF LeaveInv, AtHand, DeletingOK, history
<1>7. LeavesForAReason'
  BY <1>2 DEF LeaveInv, LeavesForAReason, history
<1>8. QED
  BY <1>5, <1>6, <1>7 DEF LeaveInv

\* A row once committed stays, and its messageId is not committed again.
LEMMA InboxStays ==
  ASSUME LeaveInv, NEW c \in Consumer, pc[c] = "inserted", CommitInbox(c)
  PROVE  /\ cur[c] \in Message
         /\ inbox' \in [Id -> {envelope[m].body : m \in Message} \cup {Null}]
         /\ done' \in Seq(Message)
         /\ inbox'[envelope[cur[c]].id] = envelope[cur[c]].body
         /\ \A m \in Message : inbox[envelope[m].id] = envelope[m].body
               => inbox'[envelope[m].id] = envelope[m].body
<1>1. /\ cur[c] \in Message /\ inbox[envelope[cur[c]].id] = Null
      /\ inbox \in [Id -> {envelope[m].body : m \in Message} \cup {Null}]
      /\ done \in Seq(Message)
  BY DEF LeaveInv, OnceInv, InsertingOK, TypeOK
<1>2. /\ inbox' = [inbox EXCEPT ![envelope[cur[c]].id] = envelope[cur[c]].body]
      /\ done' = Append(done, cur[c])
  BY DEF CommitInbox
<1>3. \A m \in Message : envelope[m].id \in Id /\ envelope[m].body # Null
  BY IdOfMessage
<1>4. QED
  BY <1>1, <1>2, <1>3

\* The transaction of a message, from its row to its end: queue and batch stay.
LEMMA TransactionKeeps ==
  ASSUME LeaveInv, OnceInv', NEW c \in Consumer, NEW m \in Message,
         Insert(c, m) \/ Recognise(c, m) \/ Commit(c) \/ Refuse(c)
  PROVE  LeaveInv'
<1>1. UNCHANGED <<queue, batch, receipt>>
  BY DEF Insert, Recognise, Commit, Refuse
<1>2. /\ cur' \in [Consumer -> Message \cup {Null}]
      /\ pc' \in [Consumer -> {"idle", "inserted", "deleting"}]
      /\ inbox' \in [Id -> {envelope[n].body : n \in Message} \cup {Null}]
      /\ done' \in Seq(Message)
      /\ refused \subseteq refused' /\ refused' \subseteq Message /\ failed' = failed
      /\ cur'[c] \in Message
      /\ pc'[c] = "deleting" =>
            inbox'[envelope[cur'[c]].id] = envelope[cur'[c]].body \/ cur'[c] \in refused'
      /\ \A d \in Consumer \ {c} : pc'[d] = pc[d] /\ cur'[d] = cur[d]
      /\ \A n \in Message : inbox[envelope[n].id] = envelope[n].body
            => inbox'[envelope[n].id] = envelope[n].body
  <2> USE DEF LeaveInv, TypeOK
  <2>1. CASE Insert(c, m)
    BY <2>1 DEF Insert, history
  <2>2. CASE Recognise(c, m)
    BY <2>2 DEF Recognise
  <2>3. CASE Commit(c)
    BY <2>3, InboxStays DEF Commit
  <2>4. CASE Refuse(c)
    BY <2>4 DEF Refuse, AtHand
  <2>5. QED
    BY <2>1, <2>2, <2>3, <2>4
<1>3. TypeOK' /\ ReceiptsOK'
  BY <1>1, <1>2 DEF LeaveInv, TypeOK, ReceiptsOK, queue
<1>4. AtHand' /\ DeletingOK'
  BY <1>2 DEF LeaveInv, AtHand, DeletingOK
<1>5. LeavesForAReason'
  BY <1>1, <1>2 DEF LeaveInv, LeavesForAReason, queue
<1>6. QED
  BY <1>3, <1>4, <1>5 DEF LeaveInv

\* The end of a message: only one with a reason to go is deleted.
LEMMA EndKeeps ==
  ASSUME LeaveInv, OnceInv', NEW c \in Consumer, NEW m \in Message,
         Skip(c, m) \/ Fail(c) \/ Delete(c)
  PROVE  LeaveInv'
<1>1. PICK n \in Message : Finish(c, n) /\ (n = m \/ n = cur[c])
  BY DEF Skip, Fail, Delete, LeaveInv, AtHand
<1>2. /\ UNCHANGED <<line, receives, refused>>
      /\ failed' \subseteq Message /\ done' \in Seq(Message)
      /\ inbox' \in [Id -> {envelope[k].body : k \in Message} \cup {Null}]
      /\ \A k \in Message : inbox[envelope[k].id] = envelope[k].body
            => inbox'[envelope[k].id] = envelope[k].body
  <2> USE DEF LeaveInv, TypeOK
  <2>1. CASE Skip(c, m)
    BY <2>1 DEF Skip, queue
  <2>2. CASE Fail(c)
    BY <2>2, InboxStays DEF Fail, queue, AtHand
  <2>3. CASE Delete(c)
    BY <2>3 DEF Delete, history
  <2>4. QED
    BY <2>1, <2>2, <2>3
<1>3. /\ place' \in [Message -> {"producer", "visible", "hidden", "deleted", "dead"}]
      /\ \A k \in Message : place'[k] # place[k] =>
            place'[k] = "deleted" /\ pc[c] = "deleting" /\ k = cur[c]
  BY DEF LeaveInv, TypeOK, Skip, Fail, Delete, queue
<1>4. TypeOK' /\ ReceiptsOK'
  BY <1>1, <1>2, <1>3, FinishKeeps DEF LeaveInv, TypeOK, ReceiptsOK
<1>5. AtHand' /\ DeletingOK'
  BY <1>1, <1>2, FinishKeeps DEF LeaveInv, AtHand, DeletingOK
<1>6. LeavesForAReason'
  BY <1>2, <1>3 DEF LeaveInv, LeavesForAReason, DeletingOK
<1>7. QED
  BY <1>4, <1>5, <1>6 DEF LeaveInv

\* A restart forgets the batch and its receipts.
LEMMA CrashKeeps ==
  ASSUME LeaveInv, OnceInv', NEW c \in Consumer, Crash(c)
  PROVE  LeaveInv'
<1>1. /\ batch' = [batch EXCEPT ![c] = {}]
      /\ receipt' = [receipt EXCEPT ![c] = [m \in Message |-> 0]]
      /\ cur' = [cur EXCEPT ![c] = Null] /\ pc' = [pc EXCEPT ![c] = "idle"]
      /\ UNCHANGED <<line, place, receives, inbox, done, refused, failed>>
  BY DEF Crash, queue, history
<1>2. TypeOK' /\ ReceiptsOK'
  BY <1>1, ConsumerAssumption DEF LeaveInv, TypeOK, ReceiptsOK
<1>3. AtHand' /\ DeletingOK' /\ LeavesForAReason'
  BY <1>1 DEF LeaveInv, TypeOK, AtHand, DeletingOK, LeavesForAReason
<1>4. QED
  BY <1>2, <1>3 DEF LeaveInv

\* Every step keeps the invariant.
LEMMA LeaveStep == LeaveInv /\ [Next]_vars => LeaveInv'
<1> SUFFICES ASSUME LeaveInv, [Next]_vars PROVE LeaveInv'
  OBVIOUS
<1>1. OnceInv'
  BY OnceStep DEF LeaveInv
<1>2. CASE UNCHANGED vars
  BY <1>1, <1>2, QueueKeeps DEF vars, queue, LeaveInv, TypeOK
<1>3. ASSUME NEW m \in Message, Send(m) \/ DeadLetter(m) PROVE LeaveInv'
  <2>1. /\ place \in [Message -> {"producer", "visible", "hidden", "deleted", "dead"}]
        /\ line \in Seq(Message)
    BY DEF LeaveInv, TypeOK
  <2>2. CASE Send(m)
    <3>1. line' \in Seq(Message) /\ place' = [place EXCEPT ![m] = "visible"]
      BY <2>1, <2>2 DEF Send
    <3>2. UNCHANGED <<receives, inbox, consumers, history>>
      BY <2>2 DEF Send
    <3>3. QED
      BY <1>1, <2>1, <3>1, <3>2, QueueKeeps
  <2>3. CASE DeadLetter(m)
    <3>1. /\ place' = [place EXCEPT ![m] = "dead"] /\ receives[m] = MaxReceive
          /\ UNCHANGED <<line, receives, inbox, consumers, history>>
      BY <2>3 DEF DeadLetter
    <3>2. QED
      BY <1>1, <2>1, <3>1, QueueKeeps
  <2>4. QED
    BY <1>3, <2>2, <2>3
<1>4. ASSUME NEW m \in Message, VisibilityEnds(envelope[m].group) PROVE LeaveInv'
  BY <1>1, <1>4, QueueKeeps DEF VisibilityEnds, LeaveInv, TypeOK
<1>5. CASE ReceiveLost
  BY <1>1, <1>5, PollKeeps DEF ReceiveLost, consumers
<1>6. ASSUME NEW c \in Consumer, Receive(c) PROVE LeaveInv'
  BY <1>1, <1>6, PollKeeps DEF Receive
<1>7. ASSUME NEW c \in Consumer, Handle(c) PROVE LeaveInv'
  <2>1. ASSUME NEW m \in Message, Insert(c, m) \/ Recognise(c, m) PROVE LeaveInv'
    BY <1>1, <2>1, TransactionKeeps
  <2>2. CASE Commit(c) \/ Refuse(c)
    BY <1>1, <2>2, TransactionKeeps DEF Commit, Refuse, LeaveInv, AtHand
  <2>3. ASSUME NEW m \in Message, Skip(c, m) PROVE LeaveInv'
    BY <1>1, <2>3, EndKeeps
  <2>4. CASE Fail(c) \/ Delete(c)
    BY <1>1, <2>4, EndKeeps DEF Fail, Delete, LeaveInv, AtHand
  <2>5. QED
    BY <1>7, <2>1, <2>2, <2>3, <2>4 DEF Handle
<1>8. ASSUME NEW c \in Consumer, Crash(c) PROVE LeaveInv'
  BY <1>1, <1>8, CrashKeeps
<1>9. QED
  BY <1>2, <1>3, <1>4, <1>5, <1>6, <1>7, <1>8 DEF Next

\* Every variable keeps to its type, and receipts are no newer than deliveries.
THEOREM ConsumerTypeCorrect == Spec => []TypeOK
<1>1. LeaveInv => TypeOK
  BY DEF LeaveInv
<1>2. QED
  BY <1>1, LeaveInit, LeaveStep, PTL DEF Spec

\* Whatever is redelivered, refused, lost or crashed meanwhile, a message that
\* left the queue was handled under its own body, refused, or delivered in vain
\* as often as the queue allows.
THEOREM LeavesForAReasonHolds == Spec => []LeavesForAReason
<1>1. LeaveInv => LeavesForAReason
  BY DEF LeaveInv
<1>2. QED
  BY <1>1, LeaveInit, LeaveStep, PTL DEF Spec

-----------------------------------------------------------------------------
(* The order of a group                                                    *)

\* A message others of its group may overtake, or that went before them.
Settled(m) ==
    \/ m \in refused \cup failed
    \/ place[m] = "dead"
    \/ inbox[envelope[m].id] = envelope[m].body

\* A message is sent once, and is with its producer until then.
LineOK ==
    /\ \A i, j \in DOMAIN line : line[i] = line[j] => i = j
    /\ \A m \in Message : place[m] = "producer" <=> ~ Sent(m)

\* Whatever goes before a message of a batch is in the batch, or is settled.
BatchInOrder ==
    \A c \in Consumer : \A n \in batch[c] :
        /\ Sent(n)
        /\ \A m \in Message : Before(m, n) => m \in batch[c] \/ Settled(m)

\* What a consumer is at is the first of its group in the batch.
FirstAtHand ==
    \A c \in Consumer : pc[c] # "idle" =>
        cur[c] \in batch[c] /\ \A m \in batch[c] : ~ Before(m, cur[c])

OrderInv == LeaveInv /\ LineOK /\ BatchInOrder /\ FirstAtHand

\* Nothing was sent at first.
LEMMA OrderInit == Init => OrderInv
  BY LeaveInit DEF Init, OrderInv, LineOK, BatchInOrder, FirstAtHand, Sent, Elements

\* A message settled stays so.
LEMMA SettledStays ==
  ASSUME LeaveInv, [Next]_vars, NEW m \in Message, Settled(m)
  PROVE  Settled(m)'
<1> USE DEF Settled
<1>1. /\ place \in [Message -> {"producer", "visible", "hidden", "deleted", "dead"}]
      /\ cur \in [Consumer -> Message \cup {Null}]
  BY DEF LeaveInv, TypeOK
<1>2. CASE UNCHANGED vars
  BY <1>2 DEF vars, queue, history
<1>3. ASSUME NEW k \in Message, Send(k) \/ DeadLetter(k) PROVE Settled(m)'
  BY <1>1, <1>3 DEF Send, DeadLetter, FirstOfGroup, history
<1>4. ASSUME NEW k \in Message, VisibilityEnds(envelope[k].group) PROVE Settled(m)'
  BY <1>1, <1>4 DEF VisibilityEnds, history
<1>5. ASSUME NEW S \in Deliverable, Hide(S), UNCHANGED <<inbox, history>> PROVE Settled(m)'
  <2>1. \A n \in Message \ S : place'[n] = place[n]
    BY <1>5, HideKeeps
  <2>2. \A n \in S : place[n] = "visible"
    BY <1>5, HideKeeps
  <2>3. place[m] = "dead" => place'[m] = "dead"
    BY <2>1, <2>2
  <2>4. QED
    BY <1>5, <2>3 DEF history
<1>6. ASSUME NEW c \in Consumer, NEW k \in Message, Insert(c, k) \/ Recognise(c, k) \/ Skip(c, k)
      PROVE  Settled(m)'
  BY <1>6 DEF Insert, Recognise, Skip, queue, history
<1>7. ASSUME NEW c \in Consumer, Commit(c) \/ Fail(c) PROVE Settled(m)'
  BY <1>7, InboxStays DEF Commit, Fail, queue
<1>8. ASSUME NEW c \in Consumer, Refuse(c) \/ Crash(c) PROVE Settled(m)'
  BY <1>8 DEF Refuse, Crash, queue, history
<1>9. ASSUME NEW c \in Consumer, Delete(c) PROVE Settled(m)'
  BY <1>1, <1>9 DEF Delete, history
<1>10. QED
  BY <1>2, <1>3, <1>4, <1>5, <1>6, <1>7, <1>8, <1>9 DEF Next, Handle, ReceiveLost, Receive

\* While nothing is sent the order of messages stands.
LEMMA OrderStands ==
  ASSUME line' = line
  PROVE  /\ \A m \in Message : Sent(m)' <=> Sent(m)
         /\ \A m, n \in Message : Before(m, n)' <=> Before(m, n)
  BY DEF Sent, Elements, Before, Position

\* A message sent comes behind all others.
LEMMA SendsBehind ==
  ASSUME LeaveInv, LineOK, NEW k \in Message, Send(k)
  PROVE  /\ LineOK'
         /\ \A m \in Message : Sent(m) => Sent(m)'
         /\ \A m, n \in Message : Sent(n) => (Before(m, n)' <=> Before(m, n))
<1>1. /\ line \in Seq(Message) /\ line' = Append(line, k)
      /\ place \in [Message -> {"producer", "visible", "hidden", "deleted", "dead"}]
      /\ place[k] = "producer" /\ place' = [place EXCEPT ![k] = "visible"]
  BY DEF Send, LeaveInv, TypeOK
<1>2. /\ Len(line) \in Nat /\ DOMAIN line = 1..Len(line)
      /\ DOMAIN line' = 1..(Len(line) + 1)
      /\ \A i \in DOMAIN line : line'[i] = line[i]
      /\ line'[Len(line) + 1] = k
  BY <1>1
<1>3. \A i \in DOMAIN line : line[i] # k
  BY <1>1 DEF LineOK, Sent, Elements
<1>4. \A m \in Message : Sent(m)' <=> Sent(m) \/ m = k
  BY <1>2 DEF Sent, Elements
<1>5. LineOK'
  <2>1. \A i, j \in DOMAIN line' : line'[i] = line'[j] => i = j
    BY <1>2, <1>3 DEF LineOK
  <2>2. \A m \in Message : place'[m] = "producer" <=> place[m] = "producer" /\ m # k
    BY <1>1
  <2>3. QED
    BY <1>4, <2>1, <2>2 DEF LineOK
<1>6. ASSUME NEW m \in Message, Sent(m)
      PROVE  /\ m # k /\ Position(m)' = Position(m) /\ Position(m) \in 1..Len(line)
  <2>1. PICK i \in DOMAIN line : line[i] = m
    BY <1>6 DEF Sent, Elements
  <2>2. \A j \in DOMAIN line : line[j] = m => j = i
    BY <2>1 DEF LineOK
  <2>3. Position(m) = i
    BY <2>1, <2>2 DEF Position
  <2>4. \A j \in DOMAIN line' : line'[j] = m <=> j = i
    BY <1>2, <1>3, <2>1, <2>2
  <2>5. i \in DOMAIN line' /\ Position(m)' = CHOOSE j \in DOMAIN line' : line'[j] = m
    BY <1>2, <2>1 DEF Position
  <2>6. Position(m)' = i
    BY <2>4, <2>5
  <2>7. QED
    BY <1>2, <1>3, <2>1, <2>3, <2>6
<1>7. Position(k)' = Len(line) + 1
  <2>1. \A j \in DOMAIN line' : line'[j] = k <=> j = Len(line) + 1
    BY <1>2, <1>3
  <2>2. Len(line) + 1 \in DOMAIN line'
    BY <1>2
  <2>3. QED
    BY <2>1, <2>2 DEF Position
<1>8. ASSUME NEW m \in Message, NEW n \in Message, Sent(n)
      PROVE  Before(m, n)' <=> Before(m, n)
  <2>1. CASE Sent(m)
    BY <1>4, <1>6, <1>8, <2>1 DEF Before
  <2>2. CASE ~ Sent(m) /\ m # k
    BY <1>4, <2>2 DEF Before
  <2>3. CASE ~ Sent(m) /\ m = k
    <3>1. ~ (Position(m)' < Position(n)')
      BY <1>2, <1>6, <1>7, <1>8, <2>3
    <3>2. QED
      BY <2>3, <3>1 DEF Before
  <2>4. QED
    BY <2>1, <2>2, <2>3
<1>9. QED
  BY <1>4, <1>5, <1>8

\* Steps that send nothing keep the line, if nobody gets a message back.
LEMMA LineKeeps ==
  ASSUME LineOK, line' = line,
         \A m \in Message : place'[m] = "producer" <=> place[m] = "producer"
  PROVE  LineOK'
  BY OrderStands DEF LineOK

\* Batches that only lose messages settled by then stay in order.
LEMMA BatchKeeps ==
  ASSUME BatchInOrder, line' = line, batch \in [Consumer -> SUBSET Message],
         NEW c \in Consumer,
         \A d \in Consumer \ {c} : batch'[d] = batch[d],
         batch'[c] \subseteq batch[c],
         \A m \in Message : Settled(m) => Settled(m)',
         batch'[c] = {} \/ \A m \in batch[c] \ batch'[c] : Settled(m)'
  PROVE  BatchInOrder'
<1> SUFFICES ASSUME NEW d \in Consumer, NEW n \in batch'[d]
             PROVE  /\ Sent(n)'
                    /\ \A m \in Message : Before(m, n)' => m \in batch'[d] \/ Settled(m)'
  BY DEF BatchInOrder
<1>1. n \in batch[d] /\ n \in Message
  BY DEF BatchInOrder
<1>2. Sent(n)'
  BY <1>1, OrderStands DEF BatchInOrder
<1>3. ASSUME NEW m \in Message, Before(m, n)' PROVE m \in batch'[d] \/ Settled(m)'
  <2>1. Before(m, n)
    BY <1>1, <1>3, OrderStands
  <2>2. m \in batch[d] \/ Settled(m)
    BY <1>1, <2>1 DEF BatchInOrder
  <2>3. QED
    BY <2>2
<1>4. QED
  BY <1>2, <1>3

\* A consumer that starts on a message starts on the first of its group; the
\* batches are as they were.
LEMMA FirstKeeps ==
  ASSUME FirstAtHand, line' = line, batch \in [Consumer -> SUBSET Message],
         cur \in [Consumer -> Message \cup {Null}],
         NEW c \in Consumer,
         \A d \in Consumer \ {c} : batch'[d] = batch[d] /\ pc'[d] = pc[d] /\ cur'[d] = cur[d],
         \/ pc'[c] = "idle"
         \/ batch'[c] = batch[c] /\ pc[c] # "idle" /\ cur'[c] = cur[c]
         \/ batch'[c] = batch[c] /\ cur'[c] \in batch[c]
                                 /\ \A m \in batch[c] : ~ Before(m, cur'[c])
  PROVE  FirstAtHand'
<1> SUFFICES ASSUME NEW d \in Consumer, pc'[d] # "idle"
             PROVE  cur'[d] \in batch'[d] /\ \A m \in batch'[d] : ~ Before(m, cur[d])'
  BY DEF FirstAtHand
<1>1. /\ batch'[d] = batch[d] /\ cur'[d] \in batch[d]
      /\ \A m \in batch[d] : ~ Before(m, cur'[d])
  BY DEF FirstAtHand
<1>2. \A m \in batch[d] : ~ Before(m, cur[d])'
  BY <1>1 DEF Before, Sent, Elements, Position
<1>3. QED
  BY <1>1, <1>2

\* A poll takes the first of what is left of a group: what went before them
\* was deleted, for a reason, or is dead.
LEMMA ReceiveInOrder ==
  ASSUME OrderInv, LeaveInv', [Next]_vars, NEW c \in Consumer, Receive(c)
  PROVE  BatchInOrder'
<1>1. PICK S \in Deliverable : Hide(S) /\ batch' = [batch EXCEPT ![c] = S]
  BY DEF Receive
<1>2. /\ S \subseteq Message /\ line' = line
      /\ \A n \in S : place[n] = "visible"
      /\ \A n \in S : \A m \in Message :
            Before(m, n) => m \in S \/ place[m] \in {"deleted", "dead"}
  BY <1>1, HideKeeps DEF OrderInv, Hide, Deliverable
<1>3. \A m \in Message : Settled(m) => Settled(m)'
  BY SettledStays DEF OrderInv
<1>4. batch \in [Consumer -> SUBSET Message]
  BY DEF OrderInv, LeaveInv, TypeOK
<1>5. \A m \in Message : place[m] \in {"deleted", "dead"} => Settled(m)
  BY DEF OrderInv, LeaveInv, LeavesForAReason, Settled
<1> SUFFICES ASSUME NEW d \in Consumer, NEW n \in batch'[d]
             PROVE  /\ Sent(n)'
                    /\ \A m \in Message : Before(m, n)' => m \in batch'[d] \/ Settled(m)'
  BY DEF BatchInOrder
<1>6. CASE d = c
  <2>1. n \in S /\ n \in Message /\ batch'[d] = S
    BY <1>1, <1>2, <1>4, <1>6
  <2>2. Sent(n)
    BY <1>2, <2>1 DEF OrderInv, LineOK
  <2>3. \A m \in Message : Before(m, n) => m \in S \/ Settled(m)'
    BY <1>2, <1>3, <1>5, <2>1
  <2>4. Sent(n)' /\ \A m \in Message : Before(m, n)' <=> Before(m, n)
    BY <1>2, <2>1, <2>2, OrderStands
  <2>5. QED
    BY <2>1, <2>3, <2>4
<1>7. CASE d # c
  <2>1. n \in batch[d] /\ n \in Message /\ batch'[d] = batch[d]
    BY <1>1, <1>4, <1>7
  <2>2. Sent(n) /\ \A m \in Message : Before(m, n) => m \in batch[d] \/ Settled(m)'
    BY <1>3, <2>1 DEF OrderInv, BatchInOrder
  <2>3. Sent(n)' /\ \A m \in Message : Before(m, n)' <=> Before(m, n)
    BY <1>2, <2>1, <2>2, OrderStands
  <2>4. QED
    BY <2>1, <2>2, <2>3
<1>8. QED
  BY <1>6, <1>7

\* Every step keeps the invariant.
LEMMA OrderStep == OrderInv /\ [Next]_vars => OrderInv'
<1> SUFFICES ASSUME OrderInv, [Next]_vars PROVE OrderInv'
  OBVIOUS
<1>1. LeaveInv /\ LineOK /\ BatchInOrder /\ FirstAtHand
  BY DEF OrderInv
<1>2. LeaveInv'
  BY <1>1, LeaveStep
<1>3. /\ place \in [Message -> {"producer", "visible", "hidden", "deleted", "dead"}]
      /\ batch \in [Consumer -> SUBSET Message]
      /\ cur \in [Consumer -> Message \cup {Null}]
      /\ pc \in [Consumer -> {"idle", "inserted", "deleting"}]
      /\ \A c \in Consumer : pc[c] # "idle" => cur[c] \in Message
  BY <1>1 DEF LeaveInv, TypeOK, AtHand
<1>4. \A m \in Message : Settled(m) => Settled(m)'
  BY <1>1, SettledStays
<1>5. ASSUME LineOK', BatchInOrder', FirstAtHand' PROVE OrderInv'
  BY <1>2, <1>5 DEF OrderInv
\* steps that concern the queue alone
<1>6. ASSUME line' = line, UNCHANGED consumers,
             \A m \in Message : place'[m] = "producer" <=> place[m] = "producer"
      PROVE  OrderInv'
  <2>1. LineOK'
    BY <1>1, <1>6, LineKeeps
  <2>2. BatchInOrder'
    BY <1>1, <1>4, <1>6, OrderStands, <1>3 DEF consumers, BatchInOrder
  <2>3. FirstAtHand'
    BY <1>1, <1>6 DEF consumers, FirstAtHand, Before, Sent, Elements, Position
  <2>4. QED
    BY <1>5, <2>1, <2>2, <2>3
<1>7. CASE UNCHANGED vars
  BY <1>6, <1>7 DEF vars, queue
<1>8. ASSUME NEW k \in Message, Send(k) PROVE OrderInv'
  <2>1. /\ LineOK' /\ UNCHANGED consumers
        /\ \A m \in Message : Sent(m) => Sent(m)'
        /\ \A m, n \in Message : Sent(n) => (Before(m, n)' <=> Before(m, n))
    BY <1>1, <1>8, SendsBehind DEF Send
  <2>2. BatchInOrder'
    BY <1>1, <1>3, <1>4, <2>1 DEF consumers, BatchInOrder
  <2>3. FirstAtHand'
    <3> SUFFICES ASSUME NEW c \in Consumer, pc'[c] # "idle"
                 PROVE  cur'[c] \in batch'[c] /\ \A m \in batch'[c] : ~ Before(m, cur[c])'
      BY DEF FirstAtHand
    <3>1. PICK n \in Message : n = cur[c] /\ n = cur'[c]
      BY <1>3, <2>1 DEF consumers
    <3>2. n \in batch[c] /\ batch'[c] = batch[c] /\ \A m \in batch[c] : ~ Before(m, n)
      BY <1>1, <2>1, <3>1 DEF FirstAtHand, consumers
    <3>3. Sent(n)
      BY <1>1, <3>2 DEF BatchInOrder
    <3>4. \A m \in batch[c] : ~ Before(m, n)'
      BY <1>3, <2>1, <3>2, <3>3
    <3>5. \A m \in batch[c] : Before(m, n)' <=> Before(m, cur[c])'
      BY <3>1 DEF Before, Sent, Elements, Position
    <3>6. QED
      BY <3>1, <3>2, <3>4, <3>5
  <2>4. QED
    BY <1>5, <2>1, <2>2, <2>3
<1>9. ASSUME NEW k \in Message, DeadLetter(k) PROVE OrderInv'
  BY <1>3, <1>6, <1>9 DEF DeadLetter, FirstOfGroup
<1>10. ASSUME NEW g, VisibilityEnds(g) PROVE OrderInv'
  BY <1>3, <1>6, <1>10 DEF VisibilityEnds
<1>11. ASSUME NEW S \in Deliverable, Hide(S)
       PROVE  /\ line' = line
              /\ \A m \in Message : place'[m] = "producer" <=> place[m] = "producer"
  BY <1>1, <1>11, HideKeeps DEF Hide
<1>12. CASE ReceiveLost
  BY <1>6, <1>11, <1>12 DEF ReceiveLost
<1>13. ASSUME NEW c \in Consumer, Receive(c) PROVE OrderInv'
  <2>1. /\ line' = line /\ \A m \in Message : place'[m] = "producer" <=> place[m] = "producer"
        /\ UNCHANGED <<cur, pc>> /\ pc[c] = "idle"
        /\ \A d \in Consumer \ {c} : batch'[d] = batch[d]
    BY <1>3, <1>11, <1>13 DEF Receive
  <2>2. LineOK'
    BY <1>1, <2>1, LineKeeps
  <2>3. BatchInOrder'
    BY <1>2, <1>13, ReceiveInOrder
  <2>4. FirstAtHand'
    BY <1>1, <1>3, <2>1, FirstKeeps
  <2>5. QED
    BY <1>5, <2>2, <2>3, <2>4
\* steps of one consumer that leave queue and batches alone
<1>14. ASSUME NEW c \in Consumer, UNCHANGED <<queue, batch>>,
              \A d \in Consumer \ {c} : pc'[d] = pc[d] /\ cur'[d] = cur[d],
              \/ pc[c] # "idle" /\ cur'[c] = cur[c]
              \/ cur'[c] \in batch[c] /\ \A m \in batch[c] : ~ Before(m, cur'[c])
       PROVE  OrderInv'
  <2>1. LineOK'
    BY <1>1, <1>14, LineKeeps DEF queue
  <2>2. BatchInOrder'
    BY <1>1, <1>3, <1>4, <1>14, BatchKeeps DEF queue
  <2>3. FirstAtHand'
    BY <1>1, <1>3, <1>14, FirstKeeps DEF queue
  <2>4. QED
    BY <1>5, <2>1, <2>2, <2>3
<1>15. ASSUME NEW c \in Consumer, NEW m \in Message, Insert(c, m) \/ Recognise(c, m)
       PROVE  OrderInv'
  <2>1. /\ NextInBatch(c, m) /\ UNCHANGED <<queue, batch>> /\ cur' = [cur EXCEPT ![c] = m]
        /\ \A d \in Consumer \ {c} : pc'[d] = pc[d]
    BY <1>3, <1>15 DEF Insert, Recognise
  <2>2. cur'[c] = m /\ \A d \in Consumer \ {c} : cur'[d] = cur[d]
    BY <1>3, <2>1
  <2>3. QED
    BY <1>14, <2>1, <2>2 DEF NextInBatch
<1>16. ASSUME NEW c \in Consumer, Commit(c) \/ Refuse(c) PROVE OrderInv'
  <2>1. /\ pc[c] = "inserted" /\ UNCHANGED <<queue, batch, cur>>
        /\ \A d \in Consumer \ {c} : pc'[d] = pc[d]
    BY <1>3, <1>16 DEF Commit, Refuse
  <2>2. QED
    BY <1>14, <2>1
\* steps that end a message, or all of a batch
<1>17. ASSUME NEW c \in Consumer, line' = line,
              \A m \in Message : place'[m] = "producer" <=> place[m] = "producer",
              \A d \in Consumer \ {c} : batch'[d] = batch[d] /\ pc'[d] = pc[d] /\ cur'[d] = cur[d],
              batch'[c] \subseteq batch[c], pc'[c] = "idle",
              batch'[c] = {} \/ \A m \in batch[c] \ batch'[c] : Settled(m)'
       PROVE  OrderInv'
  <2>1. LineOK'
    BY <1>1, <1>17, LineKeeps
  <2>2. BatchInOrder'
    BY <1>1, <1>3, <1>4, <1>17, BatchKeeps
  <2>3. FirstAtHand'
    BY <1>1, <1>3, <1>17, FirstKeeps
  <2>4. QED
    BY <1>5, <2>1, <2>2, <2>3
<1>18. ASSUME NEW c \in Consumer, NEW m \in Message, Finish(c, m), Settled(m)', line' = line,
              \A n \in Message : place'[n] = "producer" <=> place[n] = "producer"
       PROVE  OrderInv'
  <2>1. /\ \A d \in Consumer \ {c} : batch'[d] = batch[d] /\ pc'[d] = pc[d] /\ cur'[d] = cur[d]
        /\ batch'[c] = batch[c] \ {m} /\ pc'[c] = "idle"
    BY <1>3, <1>18 DEF Finish
  <2>2. \A n \in batch[c] \ batch'[c] : Settled(n)'
    BY <1>18, <2>1
  <2>3. QED
    BY <1>17, <1>18, <2>1, <2>2
<1>19. ASSUME NEW c \in Consumer, NEW m \in Message, Skip(c, m) PROVE OrderInv'
  <2>1. Finish(c, m) /\ UNCHANGED queue /\ Settled(m)'
    BY <1>19 DEF Skip, Settled
  <2>2. QED
    BY <1>18, <2>1 DEF queue
<1>20. ASSUME NEW c \in Consumer, Fail(c) PROVE OrderInv'
  <2>1. PICK m \in Message : m = cur[c]
    BY <1>3, <1>20 DEF Fail
  <2>2. Finish(c, m) /\ UNCHANGED queue /\ Settled(m)'
    BY <1>20, <2>1 DEF Fail, Settled
  <2>3. QED
    BY <1>18, <2>2 DEF queue
<1>21. ASSUME NEW c \in Consumer, Delete(c) PROVE OrderInv'
  <2>1. PICK m \in Message : m = cur[c]
    BY <1>3, <1>21 DEF Delete
  <2>2. Finish(c, m) /\ line' = line
    BY <1>21, <2>1 DEF Delete
  <2>3. Settled(m)
    BY <1>1, <1>21, <2>1 DEF Delete, LeaveInv, DeletingOK, Settled
  <2>4. \A n \in Message : place'[n] = "producer" <=> place[n] = "producer"
    BY <1>3, <1>21 DEF Delete
  <2>5. QED
    BY <1>4, <1>18, <2>2, <2>3, <2>4
<1>22. ASSUME NEW c \in Consumer, Crash(c) PROVE OrderInv'
  <2>1. /\ batch' = [batch EXCEPT ![c] = {}] /\ cur' = [cur EXCEPT ![c] = Null]
        /\ pc' = [pc EXCEPT ![c] = "idle"] /\ UNCHANGED queue
    BY <1>22 DEF Crash
  <2>2. /\ \A d \in Consumer \ {c} : batch'[d] = batch[d] /\ pc'[d] = pc[d] /\ cur'[d] = cur[d]
        /\ batch'[c] = {} /\ pc'[c] = "idle"
    BY <1>3, <2>1
  <2>3. QED
    BY <1>17, <2>1, <2>2 DEF queue
<1>23. ASSUME NEW c \in Consumer, Handle(c) PROVE OrderInv'
  BY <1>15, <1>16, <1>19, <1>20, <1>21, <1>23 DEF Handle
<1>24. QED
  BY <1>7, <1>8, <1>9, <1>10, <1>12, <1>13, <1>22, <1>23 DEF Next

\* A handling that commits is of the message at hand.
LEMMA CommitsAtHand ==
  ASSUME LeaveInv, [Next]_vars, done' # done
  PROVE  \E c \in Consumer : pc[c] = "inserted" /\ done' = Append(done, cur[c])
<1>1. ~ UNCHANGED vars /\ ~ UNCHANGED history
  BY DEF vars, history
<1>2. PICK c \in Consumer : Commit(c) \/ Fail(c)
  BY <1>1 DEF Next, Handle, Send, DeadLetter, VisibilityEnds, ReceiveLost, Receive,
              Insert, Recognise, Skip, Refuse, Delete, Crash, history
<1>3. QED
  BY <1>2 DEF Commit, Fail, CommitInbox

\* Of two messages of a group the later one is handled first only when the
\* earlier one failed, was refused, is dead or is in the inbox already: batches
\* of other consumers, late ones and crashes change nothing about it.
THEOREM OvertakesOnlyFailedHolds == Spec => OvertakesOnlyFailed
<1>1. ASSUME OrderInv, [Next]_vars, done' # done, NEW m \in Message,
             Before(m, done'[Len(done')])
      PROVE  Settled(m)
  <2>1. PICK c \in Consumer : pc[c] = "inserted" /\ done' = Append(done, cur[c])
    BY <1>1, CommitsAtHand DEF OrderInv
  <2>2. done \in Seq(Message) /\ cur[c] \in batch[c]
        /\ batch[c] \subseteq Message /\ \A n \in batch[c] : ~ Before(n, cur[c])
    BY <1>1, <2>1 DEF OrderInv, LeaveInv, TypeOK, FirstAtHand
  <2>3. done'[Len(done')] = cur[c]
    BY <2>1, <2>2
  <2>4. Before(m, cur[c]) /\ m \notin batch[c]
    BY <1>1, <2>2, <2>3
  <2>5. QED
    BY <1>1, <2>2, <2>4 DEF OrderInv, BatchInOrder
<1>2. OrderInv /\ [Next]_vars =>
        [\A m \in Message :
            done' # done /\ Before(m, done'[Len(done')]) =>
                \/ m \in refused \cup failed
                \/ place[m] = "dead"
                \/ inbox[envelope[m].id] = envelope[m].body]_vars
  BY <1>1 DEF Settled
<1>3. QED
  BY <1>2, OrderInit, OrderStep, PTL DEF Spec, OvertakesOnlyFailed
=============================================================================
