---- MODULE MCResilience ----
(* The components whose properties are about progress.  They share nothing
   but the process they run in: each behaviour is that of one, and Focus
   names those the run is about. *)
EXTENDS ErrorRecovery, BillingBreaker, Connections, Terminal, BillingCollector

CONSTANT Focus  \* of {"recovery", "breaker", "websocket", "terminal", "collector"}

VARIABLE focus

vars == <<focus, erVars, bbVars, wsVars, termVars, collectorVars>>

Init == focus \in Focus /\ ERInit /\ BBInit /\ WsInit /\ TermInit /\ CollectorInit

Recovery  == focus = "recovery" /\ UNCHANGED <<focus, bbVars, wsVars, termVars, collectorVars>>
Breaker   == focus = "breaker" /\ UNCHANGED <<focus, erVars, wsVars, termVars, collectorVars>>
Websocket == focus = "websocket" /\ UNCHANGED <<focus, erVars, bbVars, termVars, collectorVars>>
Shells    == focus = "terminal" /\ UNCHANGED <<focus, erVars, bbVars, wsVars, collectorVars>>
Collector == focus = "collector" /\ UNCHANGED <<focus, erVars, bbVars, wsVars, termVars>>

Next ==
  \/ Recovery /\ ERNext
  \/ Breaker /\ BBNext
  \/ Websocket /\ WsNext
  \/ Shells /\ TermNext
  \/ Collector /\ CollectorNext

(* Tasks run, time passes, and a tokio semaphore serves its waiters in turn. *)
RecoveryFair ==
  /\ WF_erVars(Recovery /\ ERTick)
  /\ \A c \in Calls : SF_erVars(Recovery /\ Step(c))

(* The heartbeat is a timer. *)
WebsocketFair == \A c \in Conns : WF_wsVars(Websocket /\ Heartbeat(c))

(* The executor runs every task that can go on, and a write fails once
   nobody has the pipe; fair locks and channels let everybody who waits for
   them have them.  Shells and clients do as they like: nothing is assumed of
   Deliver, Read or Type. *)
Connection(t) == InsertSession(t) \/ RemoveSession(t)
Typist(t) == Resize(t) \/ TakeInput(t) \/ SendInput(t) \/ Answer(t) \/ HangUp(t)
Reader(t, p) == TakeLock(t, p) \/ SendOutput(t, p) \/ StopReading(t, p)

ShellsFair ==
  \A t \in Terms :
      /\ WF_termVars(Shells /\ Connection(t))
      /\ WF_termVars(Shells /\ ~PipesOpen(t) /\ TypeFails(t))
      /\ SF_termVars(Shells /\ Typist(t)) /\ SF_termVars(Shells /\ KillTaken(t))
      /\ \A p \in Pipes : SF_termVars(Shells /\ Reader(t, p))

(* Spawned tasks are polled until they end; ticks come and stores return. *)
CollectorFair ==
  /\ WF_collectorVars(Collector /\ Processor)
  /\ \A t \in Timers : WF_collectorVars(Collector /\ Timer(t))
  /\ WF_collectorVars(Collector /\ Stopper)

Spec == Init /\ [][Next]_vars /\ RecoveryFair /\ WebsocketFair /\ ShellsFair /\ CollectorFair

(* Every component's type invariant. *)
TypeOK == ERTypeOK /\ BBTypeOK /\ WsTypeOK /\ TermTypeOK

(* The types, that connections get what they are subscribed to, and the
   collector's promises about its metrics. *)
Inv == TypeOK /\ SubscriptionsAreFed /\ CollectorInv

(* Both breakers change their state for a reason only, in whatever order
   results arrive and locks are had: they close on proof, and are tested
   after quiet. *)
BreakersAreEarned == ClosesOnProof /\ TestedWhenQuiet

(* No caller of error recovery waits for ever, and no breaker stays open
   while they keep asking. *)
CallsAreServed == CallsReturn /\ OpenIsTested
====
