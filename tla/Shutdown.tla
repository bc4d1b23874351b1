------------------------------ MODULE Shutdown ------------------------------
(***************************************************************************)
(* The life of one replica (internal/module.go) around the requests of     *)
(* module ConnectionPool. A stop cancels the workers without waiting for    *)
(* them, gives the HTTP server five seconds, and closes the pool, which     *)
(* waits for the connections lent and turns away whoever gets his turn.     *)
(***************************************************************************)
EXTENDS ConnectionPool

CONSTANT Message   \* the requests that come from the queue, not by HTTP

ASSUME ShutdownAssumption == Message \subseteq Request

VARIABLE phase   \* "serving", "draining", "closing", "stopped" or "killed"

phases == <<vars, phase>>

Started == Init /\ phase = "serving"

\* The pool lends until it is closed.
Open == phase \in {"serving", "draining"}
Runs == phase \in {"serving", "draining", "closing"}

\* While the replica serves: the listener is open and the consumer polls.
ArriveServed(r) == phase = "serving" /\ Arrive(r)

ServeOpen(r) ==
    /\ Runs
    /\ \/ Open /\ (Begin(r) \/ Query(r))
       \/ LockWallet(r) \/ Answer(r) \/ End(r) \/ EndEarly(r)

\* OnStop: cancelWorkers, then server.Shutdown closes the listener.
Stop ==
    /\ phase = "serving" /\ phase' = "draining"
    /\ UNCHANGED vars

\* server.Shutdown returns when the handlers have, or after five seconds.
ShutdownServer ==
    /\ phase = "draining" /\ phase' = "closing"
    /\ UNCHANGED vars

\* pool.Close returns when every connection is back.
Close ==
    /\ phase = "closing" /\ InTx = {} /\ phase' = "stopped"
    /\ UNCHANGED vars

\* fx waits fifteen seconds for OnStop.
Kill ==
    /\ phase \in {"draining", "closing"} /\ phase' = "killed"
    /\ UNCHANGED vars

\* OnStart.
Start ==
    /\ phase \in {"stopped", "killed"} /\ (\A r \in Request : pc[r] = "idle")
    /\ phase' = "serving" /\ UNCHANGED vars

\* A worker's context is cancelled at once, wherever it waits.
Cancelled(r) == phase # "serving" /\ r \in Message /\ GiveUp(r)

\* Mutant: only who has no connection yet learns that the pool is closed.
TurnedAwayAtStart(r) ==
    phase = "closing" /\ pc[r] = "acquiring" /\ Free > 0 /\ Leave(r)

\* Closing wakes nobody: who waits for a connection, a second one too, learns of
\* it when his turn comes, which takes a connection given back.
TurnedAway(r) ==
    phase = "closing" /\ pc[r] \in {"acquiring", "asking"} /\ Free > 0 /\ Leave(r)

\* With the process its connections go, and the database rolls back.
Broken(r) == ~Runs /\ GiveUp(r)

Life ==
    \/ Stop \/ ShutdownServer \/ Close \/ Kill \/ Start
    \/ /\ \E r \in Request : \/ ArriveServed(r) \/ ServeOpen(r) \/ Cancelled(r)
                             \/ TurnedAway(r) \/ Broken(r) \/ (Runs /\ GiveUp(r))
       /\ UNCHANGED phase

LifeSpec == Started /\ [][Life]_phases

\* As in ConnectionPool; a stop goes on, and an error reaches whoever's turn it is.
\* Nobody has to be killed.
LifeFairness ==
    /\ WF_phases(ShutdownServer) /\ WF_phases(Close)
    /\ \A r \in Request :
          /\ SF_phases(Open /\ Begin(r) /\ UNCHANGED phase)
          /\ SF_phases(Runs /\ LockWallet(r) /\ UNCHANGED phase)
          /\ SF_phases(Open /\ Query(r) /\ UNCHANGED phase)
          /\ WF_phases(Runs /\ (Answer(r) \/ End(r)) /\ UNCHANGED phase)
          /\ WF_phases(TurnedAway(r) /\ UNCHANGED phase)
          /\ WF_phases((Cancelled(r) \/ Broken(r)) /\ UNCHANGED phase)

FairLife == LifeSpec /\ LifeFairness
-----------------------------------------------------------------------------
(* Properties                                                              *)

\* A pool that waits, closed, for requests of HTTP that wait for it: fx's
\* deadline ends that, or their clients.
CloseStands ==
    phase = "closing" /\ Standstill /\ \A r \in Message : pc[r] = "idle"

\* A stop comes to its end by itself, with requests in every state, unless the
\* pool it closes stands still.
StopEnds == phase = "draining" ~> (phase \in {"stopped", "killed"} \/ []CloseStands)
=============================================================================
