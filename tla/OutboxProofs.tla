---------------------------- MODULE OutboxProofs ----------------------------
(***************************************************************************)
(* For every set of events and publishers the outbox implements the relay: *)
(* nothing is recorded as published that the queue did not take, nothing   *)
(* is sent that was not stored.                                            *)
(***************************************************************************)
EXTENDS OutboxPublisher, TLAPS

\* What a publisher holds is a stored event, and the reply it is about to
\* record is true.
HandOK ==
    \A p \in Publisher :
        /\ \A e \in batch[p] : row[e] # "ABSENT"
        /\ at[p] # Null => row[at[p]] # "ABSENT"
        /\ reply[p] # "none" => at[p] # Null
        /\ reply[p] = "accepted" => accepted[at[p]] > 0

\* The row and the queue agree: nothing there before it is stored, nothing
\* marked that is not there; what the queue remembers it has taken.
RowOK ==
    \A e \in Event :
        /\ e \in recent => accepted[e] > 0
        /\ row[e] = "ABSENT" => accepted[e] = 0
        /\ row[e] = "PUBLISHED" => accepted[e] > 0

RelayInv == TypeOK /\ HandOK /\ RowOK

\* The outbox starts within its invariant.
LEMMA RelayInit == Init => RelayInv
  BY OutboxAssumption DEF Init, RelayInv, TypeOK, HandOK, RowOK

\* A row, once stored, stays stored: a publisher's records stay good.
LEMMA StoreKeeps ==
  ASSUME RelayInv, NEW e \in Event, StoreEvent(e)
  PROVE  RelayInv'
  BY DEF RelayInv, TypeOK, HandOK, RowOK, StoreEvent, outbox, queue

\* Only rows that wait are claimed.
LEMMA ClaimKeeps ==
  ASSUME RelayInv, NEW p \in Publisher, NEW S \in SUBSET Event, Claim(p, S)
  PROVE  RelayInv'
<1> USE DEF RelayInv, queue
<1>1. /\ S \subseteq Claimable
      /\ batch' \in [Publisher -> SUBSET Event]
      /\ \A q \in Publisher : batch'[q] \subseteq batch[q] \cup S
      /\ UNCHANGED <<row, deferred, at, reply, recent, accepted>>
  BY DEF Claim, Candidates, TypeOK
<1>2. /\ token' \in [Event -> Publisher \cup {Null, Gone}]
      /\ claimed' \subseteq claimed \cup S
      /\ \A e \in Event \ S : token'[e] = token[e]
  BY DEF Claim, TypeOK
<1>3. \A e \in S : e \in Event /\ row[e] = "PENDING"
  BY <1>1 DEF Claimable
<1>4. TypeOK'
  BY <1>1, <1>2, <1>3 DEF TypeOK
<1>5. HandOK'
  BY <1>1, <1>3 DEF HandOK, TypeOK
<1>6. RowOK'
  BY <1>1 DEF RowOK
<1>7. QED
  BY <1>4, <1>5, <1>6

\* The queue only adds acceptances, and stops counting at its bound.
LEMMA AcceptCounts ==
  ASSUME TypeOK, NEW e \in Event, Accept(e)
  PROVE  /\ recent' \subseteq Event
         /\ accepted' \in [Event -> 0..MaxAccepted]
         /\ accepted'[e] > 0 \/ (e \in recent /\ accepted'[e] = accepted[e])
         /\ \A x \in Event : accepted'[x] >= accepted[x]
         /\ \A x \in Event \ {e} : accepted'[x] = accepted[x]
  BY OutboxAssumption DEF Accept, TypeOK

\* A send is the acceptance of a stored event, or nothing.
LEMMA SendKeeps ==
  ASSUME RelayInv, NEW p \in Publisher, NEW e \in Event, Send(p, e)
  PROVE  RelayInv'
<1> USE DEF RelayInv
<1>1. /\ e \in batch[p] /\ row[e] # "ABSENT" /\ e # Null
      /\ batch' = [batch EXCEPT ![p] = @ \ {e}]
      /\ at' = [at EXCEPT ![p] = e]
      /\ reply' \in [Publisher -> {"none", "accepted", "failed"}]
      /\ \A q \in Publisher \ {p} : reply'[q] = reply[q]
      /\ UNCHANGED <<row, token, claimed, deferred>>
  BY OutboxAssumption DEF Send, HandOK, TypeOK, outbox
<1>2. /\ recent' \subseteq Event
      /\ accepted' \in [Event -> 0..MaxAccepted]
      /\ \A x \in Event : accepted'[x] >= accepted[x]
      /\ \A x \in Event \ {e} : accepted'[x] = accepted[x]
      /\ \A x \in Event : x \in recent' => accepted'[x] > 0
      /\ reply'[p] = "accepted" => accepted'[e] > 0
  <2>1. CASE Accept(e)
    <3>1. recent' = recent \cup {e}
      BY <2>1 DEF Accept
    <3>2. accepted'[e] > 0
      BY <2>1, AcceptCounts DEF RowOK
    <3>3. QED
      BY <2>1, <3>1, <3>2, AcceptCounts DEF RowOK, TypeOK
  <2>2. CASE UNCHANGED queue /\ reply' = [reply EXCEPT ![p] = "failed"]
    BY <2>2 DEF queue, TypeOK, RowOK
  <2>3. QED
    BY <2>1, <2>2 DEF Send
<1>3. TypeOK'
  BY <1>1, <1>2 DEF TypeOK
<1>4. HandOK'
  <2> SUFFICES ASSUME NEW q \in Publisher
               PROVE  /\ \A x \in batch'[q] : row'[x] # "ABSENT"
                      /\ at'[q] # Null => row'[at'[q]] # "ABSENT"
                      /\ reply'[q] # "none" => at'[q] # Null
                      /\ reply'[q] = "accepted" => accepted'[at'[q]] > 0
    BY DEF HandOK
  <2>1. CASE q = p
    BY <2>1, <1>1, <1>2 DEF HandOK, TypeOK
  <2>2. CASE q # p
    <3>1. batch'[q] = batch[q] /\ at'[q] = at[q] /\ reply'[q] = reply[q]
      BY <2>2, <1>1 DEF TypeOK
    <3>2. reply[q] = "accepted" => at[q] \in Event
      BY DEF HandOK, TypeOK
    <3>3. QED
      BY <3>1, <3>2, <1>1, <1>2 DEF HandOK, TypeOK
  <2>3. QED
    BY <2>1, <2>2
<1>5. RowOK'
  BY <1>1, <1>2 DEF RowOK, TypeOK
<1>6. QED
  BY <1>3, <1>4, <1>5

\* Only an event the queue took is marked.
LEMMA MarkKeeps ==
  ASSUME RelayInv, NEW p \in Publisher, Mark(p)
  PROVE  RelayInv'
<1> USE DEF RelayInv
<1> DEFINE e == at[p]
<1>1. e \in Event /\ accepted[e] > 0
  BY DEF Mark, HandOK, TypeOK
<1>2. /\ at' = [at EXCEPT ![p] = Null]
      /\ reply' = [reply EXCEPT ![p] = "none"]
      /\ UNCHANGED <<batch, deferred, recent, accepted>>
  BY DEF Mark, NextRecord, queue
<1>3. \/ /\ row' = [row EXCEPT ![e] = "PUBLISHED"]
         /\ token' = [token EXCEPT ![e] = Null]
         /\ claimed' = claimed \ {e}
      \/ UNCHANGED <<row, token, claimed>>
  BY DEF Mark, Release
<1>4. TypeOK'
  BY <1>1, <1>2, <1>3 DEF TypeOK
<1>5. HandOK'
  BY <1>1, <1>2, <1>3 DEF HandOK, TypeOK
<1>6. RowOK'
  BY <1>1, <1>2, <1>3 DEF RowOK, TypeOK
<1>7. QED
  BY <1>4, <1>5, <1>6

\* A failed send only postpones the event.
LEMMA RetryKeeps ==
  ASSUME RelayInv, NEW p \in Publisher, Retry(p)
  PROVE  RelayInv'
<1> USE DEF RelayInv
<1> DEFINE e == at[p]
<1>1. e \in Event
  BY DEF Retry, HandOK, TypeOK
<1>2. /\ at' = [at EXCEPT ![p] = Null]
      /\ reply' = [reply EXCEPT ![p] = "none"]
      /\ UNCHANGED <<row, batch, recent, accepted>>
  BY DEF Retry, NextRecord, queue
<1>3. /\ token' = [token EXCEPT ![e] = Null] \/ UNCHANGED token
      /\ claimed' \subseteq claimed
      /\ deferred' \subseteq deferred \cup {e}
  BY DEF Retry, Release
<1>4. TypeOK'
  BY <1>1, <1>2, <1>3 DEF TypeOK
<1>5. HandOK'
  BY <1>2 DEF HandOK, TypeOK
<1>6. RowOK'
  BY <1>2 DEF RowOK
<1>7. QED
  BY <1>4, <1>5, <1>6

\* A process that stops takes nothing with it but its claims' owner.
LEMMA CrashKeeps ==
  ASSUME RelayInv, NEW p \in Publisher, Crash(p)
  PROVE  RelayInv'
<1> USE DEF RelayInv, Crash, NextRecord, queue
<1>1. TypeOK'
  BY OutboxAssumption DEF TypeOK
<1>2. HandOK'
  BY DEF HandOK, TypeOK
<1>3. RowOK'
  BY DEF RowOK
<1>4. QED
  BY <1>1, <1>2, <1>3

\* Time takes claims, delays and memories away, nothing else.
LEMMA TimeKeeps ==
  ASSUME RelayInv, NEW e \in Event,
         ClaimExpires(e) \/ RetryDue(e) \/ QueueForgets(e)
  PROVE  RelayInv'
  BY DEF RelayInv, TypeOK, HandOK, RowOK, ClaimExpires, RetryDue, QueueForgets, outbox, queue

\* The invariant is inductive.
LEMMA RelayStep == RelayInv /\ [Next]_vars => RelayInv'
<1> SUFFICES ASSUME RelayInv, [Next]_vars PROVE RelayInv'
  OBVIOUS
<1>1. CASE UNCHANGED vars
  BY <1>1 DEF vars, outbox, queue, RelayInv, TypeOK, HandOK, RowOK
<1>2. ASSUME NEW p \in Publisher, PublisherStep(p)
      PROVE  RelayInv'
  BY <1>2, ClaimKeeps, SendKeeps, MarkKeeps, RetryKeeps DEF PublisherStep
<1>3. ASSUME NEW p \in Publisher, Crash(p)
      PROVE  RelayInv'
  BY <1>3, CrashKeeps
<1>4. ASSUME NEW e \in Event, StoreEvent(e)
      PROVE  RelayInv'
  BY <1>4, StoreKeeps
<1>5. ASSUME NEW e \in Event, ClaimExpires(e) \/ RetryDue(e) \/ QueueForgets(e)
      PROVE  RelayInv'
  BY <1>5, TimeKeeps
<1>6. QED
  BY <1>1, <1>2, <1>3, <1>4, <1>5 DEF Next

\* The types hold, whatever the number of events and publishers.
THEOREM OutboxTypeCorrect == Spec => []TypeOK
<1>1. RelayInv => TypeOK
  BY DEF RelayInv
<1>2. QED
  BY <1>1, RelayInit, RelayStep, PTL DEF Spec

-----------------------------------------------------------------------------
(* The step simulation                                                     *)

Stages == [e \in Event |-> Reached(e)]

\* One event moved along and no other did: a step of the relay.
LEMMA OneAdvance ==
  ASSUME NEW e \in Event, Reached(e) # "published",
         Reached(e)' = Relay!Following(Reached(e)),
         \A x \in Event \ {e} : Reached(x)' = Reached(x)
  PROVE  [Relay!Next]_Stages
<1>1. Stages' = [Stages EXCEPT ![e] = Relay!Following(@)]
  BY DEF Stages
<1>2. Relay!Advance(e)
  BY <1>1 DEF Relay!Advance, Stages
<1>3. QED
  BY <1>2 DEF Relay!Next, Stages

\* Steps that change neither rows nor acceptances are stutters.
LEMMA Stutter ==
  ASSUME UNCHANGED <<row, accepted>>
  PROVE  [Relay!Next]_Stages
<1>1. \A e \in Event : Reached(e)' = Reached(e)
  BY DEF Reached
<1>2. Stages' = Stages
  BY <1>1 DEF Stages
<1>3. QED
  BY <1>2

\* Storing an event is the relay's first step.
LEMMA StoreSimulates ==
  ASSUME RelayInv, NEW e \in Event, StoreEvent(e)
  PROVE  [Relay!Next]_Stages
<1>1. row[e] = "ABSENT" /\ row' = [row EXCEPT ![e] = "PENDING"] /\ accepted' = accepted
  BY DEF StoreEvent, queue
<1>2. Reached(e) = "none" /\ Reached(e)' = "stored"
  BY <1>1 DEF Reached, RelayInv, RowOK, TypeOK
<1>3. \A x \in Event \ {e} : Reached(x)' = Reached(x)
  BY <1>1 DEF Reached, RelayInv, TypeOK
<1>4. QED
  BY <1>2, <1>3, OneAdvance DEF Relay!Following

\* The first acceptance is the second; any later one is a stutter.
LEMMA SendSimulates ==
  ASSUME RelayInv, NEW p \in Publisher, NEW e \in Event, Send(p, e)
  PROVE  [Relay!Next]_Stages
<1>1. row' = row /\ row[e] # "ABSENT"
  BY DEF Send, outbox, RelayInv, HandOK
<1>2. CASE accepted' = accepted
  BY <1>1, <1>2, Stutter
<1>3. CASE Accept(e)
  <2>1. /\ accepted' \in [Event -> 0..MaxAccepted]
        /\ accepted'[e] > 0
        /\ \A x \in Event \ {e} : accepted'[x] = accepted[x]
    BY <1>3, AcceptCounts DEF RelayInv, RowOK
  <2>2. \A x \in Event \ {e} : Reached(x)' = Reached(x)
    BY <1>1, <2>1 DEF Reached
  <2>3. CASE row[e] = "PENDING" /\ accepted[e] = 0
    <3>1. Reached(e) = "stored" /\ Reached(e)' = "delivered"
      BY <1>1, <2>1, <2>3 DEF Reached
    <3>2. QED
      BY <2>2, <3>1, OneAdvance DEF Relay!Following
  <2>4. CASE ~ (row[e] = "PENDING" /\ accepted[e] = 0)
    <3>1. Reached(e)' = Reached(e)
      BY <1>1, <2>1, <2>4 DEF Reached, RelayInv, TypeOK
    <3>2. Stages' = Stages
      BY <2>2, <3>1 DEF Stages
    <3>3. QED
      BY <3>2
  <2>5. QED
    BY <2>3, <2>4
<1>4. QED
  BY <1>2, <1>3 DEF Send, queue

\* A mark that finds the claim is the last step; the row still waited, for a
\* published row bears no claim.
LEMMA MarkSimulates ==
  ASSUME RelayInv, NEW p \in Publisher, Mark(p)
  PROVE  [Relay!Next]_Stages
<1>1. PICK e \in Event : e = at[p] /\ accepted[e] > 0 /\ accepted' = accepted
  BY DEF Mark, queue, RelayInv, HandOK, TypeOK
<1>2. CASE row' = row
  BY <1>1, <1>2, Stutter
<1>3. CASE Owns(p, e) /\ row' = [row EXCEPT ![e] = "PUBLISHED"]
  <2>1. row[e] = "PENDING"
    BY <1>1, <1>3, OutboxAssumption DEF Owns, RelayInv, TypeOK, RowOK
  <2>2. Reached(e) = "delivered" /\ Reached(e)' = "published"
    BY <1>1, <1>3, <2>1 DEF Reached, RelayInv, TypeOK
  <2>3. \A x \in Event \ {e} : Reached(x)' = Reached(x)
    BY <1>1, <1>3 DEF Reached, RelayInv, TypeOK
  <2>4. QED
    BY <1>1, <2>2, <2>3, OneAdvance DEF Relay!Following
<1>4. QED
  BY <1>1, <1>2, <1>3 DEF Mark

\* The publishers implement the relay: no event is recorded as published that
\* the queue did not take, none is taken that was not stored, none goes back.
THEOREM OutboxImplementsRelay == Spec => ImplementsRelay
<1>1. Init => Relay!Init
  <2>1. Init => \A e \in Event : Reached(e) = "none"
    BY DEF Init, Reached
  <2>2. QED
    BY <2>1 DEF Relay!Init
<1>2. RelayInv /\ [Next]_vars => [Relay!Next]_Stages
  <2> SUFFICES ASSUME RelayInv, [Next]_vars PROVE [Relay!Next]_Stages
    OBVIOUS
  <2>1. CASE UNCHANGED vars
    BY <2>1, Stutter DEF vars, outbox, queue
  <2>2. ASSUME NEW p \in Publisher, NEW S \in SUBSET Event, Claim(p, S)
        PROVE  [Relay!Next]_Stages
    BY <2>2, Stutter DEF Claim, queue
  <2>3. ASSUME NEW p \in Publisher, Retry(p) \/ Crash(p)
        PROVE  [Relay!Next]_Stages
    BY <2>3, Stutter DEF Retry, Crash, queue
  <2>4. ASSUME NEW e \in Event, ClaimExpires(e) \/ RetryDue(e) \/ QueueForgets(e)
        PROVE  [Relay!Next]_Stages
    BY <2>4, Stutter DEF ClaimExpires, RetryDue, QueueForgets, outbox, queue
  <2>5. QED
    BY <2>1, <2>2, <2>3, <2>4, StoreSimulates, SendSimulates, MarkSimulates
       DEF Next, PublisherStep
<1>3. QED
  BY <1>1, <1>2, RelayInit, RelayStep, PTL DEF Spec, ImplementsRelay, Relay!Spec, Stages

\* A live claim ends only by the publisher it belongs to.
THEOREM ClaimsAreKept == Spec => ClaimIsKept
<1> DEFINE Kept == \A e \in claimed : \A p \in Publisher :
          token[e] = p /\ token'[e] # p =>
              \/ at[p] = e /\ at'[p] = Null
              \/ token'[e] = Gone /\ Idle(p)'
<1>1. RelayInv /\ [Next]_vars => [Kept]_vars
  <2> SUFFICES ASSUME RelayInv, Next,
                      NEW e \in claimed, NEW p \in Publisher,
                      token[e] = p, token'[e] # p
               PROVE  \/ at[p] = e /\ at'[p] = Null
                      \/ token'[e] = Gone /\ Idle(p)'
    OBVIOUS
  <2> e \in Event /\ e \in DOMAIN token /\ token \in [Event -> Publisher \cup {Null, Gone}]
    BY DEF RelayInv, TypeOK
  <2>1. ASSUME NEW q \in Publisher, NEW S \in SUBSET Event, Claim(q, S)
        PROVE  FALSE
    <3>1. e \notin S
      BY <2>1 DEF Claim, Candidates, Claimable
    <3>2. QED
      BY <2>1, <3>1 DEF Claim
  <2>2. ASSUME NEW q \in Publisher, Mark(q) \/ Retry(q)
        PROVE  at[p] = e /\ at'[p] = Null
    <3>1. Owns(q, at[q]) /\ token' = [token EXCEPT ![at[q]] = Null]
      BY <2>2 DEF Mark, Retry, Release
    <3>2. at[q] = e /\ q = p
      BY <3>1 DEF Owns
    <3>3. at' = [at EXCEPT ![q] = Null]
      BY <2>2 DEF Mark, Retry, NextRecord
    <3>4. QED
      BY <3>2, <3>3 DEF RelayInv, TypeOK
  <2>3. ASSUME NEW q \in Publisher, Crash(q)
        PROVE  token'[e] = Gone /\ Idle(p)'
    <3>1. q = p /\ token'[e] = Gone
      BY <2>3 DEF Crash
    <3>2. QED
      BY <2>3, <3>1 DEF Crash, NextRecord, Idle, RelayInv, TypeOK
  <2>4. ASSUME NEW q \in Publisher, NEW x \in Event, Send(q, x)
        PROVE  FALSE
    BY <2>4 DEF Send, outbox
  <2>5. ASSUME NEW x \in Event, \/ StoreEvent(x) \/ ClaimExpires(x)
                                \/ RetryDue(x) \/ QueueForgets(x)
        PROVE  FALSE
    BY <2>5 DEF StoreEvent, ClaimExpires, RetryDue, QueueForgets, outbox
  <2>6. QED
    BY <2>1, <2>2, <2>3, <2>4, <2>5 DEF Next, PublisherStep
<1>2. QED
  BY <1>1, RelayInit, RelayStep, PTL DEF Spec, ClaimIsKept
=============================================================================
