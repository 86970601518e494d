---- MODULE ErrorRecovery ----
(* ErrorRecoverySystem (src/container/error_recovery.rs): calls of one
   operation on one container, retried behind a circuit breaker, with a
   bounded number of recoveries at a time.  The breaker is asked, the
   operation runs and its outcome is recorded in three steps, between
   which other calls move the breaker.  Times are ages: how long ago the
   breaker changed and how long ago it saw each failure. *)
EXTENDS Naturals, Sequences, FiniteSets, SequencesExt

CONSTANTS Calls,  \* concurrent callers of execute_with_recovery
          MaxAttempts,      \* max_retry_attempts: 3
          FailureThreshold, \* 5
          SuccessThreshold, \* 3
          Window,           \* failure_window: 60 s
          OpenTimeout,      \* 30 s
          Permits           \* of the recovery semaphore: 5

ASSUME ErrorRecoveryAssumption ==
  /\ {MaxAttempts, FailureThreshold, SuccessThreshold, OpenTimeout, Permits} \subseteq Nat \ {0}
  /\ Window \in Nat

VARIABLES
  breaker, \* the CircuitBreaker; age: since last_state_change, as far as it matters
  call,    \* where a call is, and the attempts it has made
  permits, \* left in the semaphore
  proof    \* history: successes recorded since the breaker last opened

erVars == <<breaker, call, permits, proof>>

Closed == [state |-> "closed", failures |-> <<>>, successes |-> 0, age |-> 0]
NoCall == [pc |-> "idle", attempt |-> 0]

ERInit ==
  /\ breaker = Closed
  /\ call = [c \in Calls |-> NoCall]
  /\ permits = Permits
  /\ proof = 0

Goto(c, pc) == call' = [call EXCEPT ![c].pc = pc]

----
SuccessHasty(b) ==  \* the defect: one success closes the breaker
  IF b.state = "open" THEN b ELSE [b EXCEPT !.state = "closed", !.failures = <<>>]

(* CircuitBreaker::record_success *)
Success(b) ==
  CASE b.state = "half" /\ b.successes + 1 >= SuccessThreshold -> Closed
    [] b.state = "half" /\ b.successes + 1 < SuccessThreshold -> [b EXCEPT !.successes = @ + 1]
    [] b.state = "closed" -> [b EXCEPT !.failures = <<>>]
    [] b.state = "open" -> b

Opened(b) == [b EXCEPT !.state = "open", !.age = 0]

FailureProlongs(b) ==  \* the defect: a failure while open starts the timeout again
  IF b.state # "closed" THEN [Opened(b) EXCEPT !.successes = 0]
  ELSE LET f == Append(b.failures, 0)
       IN  IF Len(f) >= FailureThreshold THEN [Opened(b) EXCEPT !.failures = f]
           ELSE [b EXCEPT !.failures = f]

(* CircuitBreaker::record_failure; failures older than the window are gone. *)
Failure(b) ==
  LET f == Append(b.failures, 0)
  IN  CASE b.state = "closed" /\ Len(f) >= FailureThreshold -> [Opened(b) EXCEPT !.failures = f]
        [] b.state = "closed" /\ Len(f) < FailureThreshold -> [b EXCEPT !.failures = f]
        [] b.state = "half" -> [Opened(b) EXCEPT !.successes = 0]
        [] b.state = "open" -> b

May(b) == b.state # "open" \/ b.age >= OpenTimeout

(* CircuitBreaker::can_execute *)
Asked(b) ==
  IF b.state = "open" /\ May(b)
  THEN [b EXCEPT !.state = "half", !.age = 0, !.successes = 0] ELSE b
----
Begin(c) ==
  /\ call[c].pc = "idle"
  /\ call' = [call EXCEPT ![c] = [pc |-> "ask", attempt |-> 0]]
  /\ UNCHANGED <<breaker, permits, proof>>

Ask(c) ==
  /\ call[c].pc = "ask"
  /\ breaker' = Asked(breaker)
  /\ Goto(c, IF May(breaker) THEN "run" ELSE "blocked")
  /\ UNCHANGED <<permits, proof>>

\* The operation: it may succeed or fail.
Run(c) ==
  /\ call[c].pc = "run"
  /\ \E outcome \in {"ok", "failed"} : Goto(c, outcome)
  /\ UNCHANGED <<breaker, permits, proof>>

RecordSuccess(c) ==
  /\ call[c].pc = "ok"
  /\ breaker' = Success(breaker)
  /\ proof' = IF breaker.state = "half" /\ proof < SuccessThreshold THEN proof + 1 ELSE proof
  /\ call' = [call EXCEPT ![c] = NoCall]
  /\ UNCHANGED permits

(* A call the breaker rejects also records a failure, and gives up. *)
RecordRejection(c) ==
  /\ call[c].pc = "blocked"
  /\ breaker' = Failure(breaker)
  /\ proof' = IF breaker'.state = "open" THEN 0 ELSE proof
  /\ call' = [call EXCEPT ![c] = NoCall]
  /\ UNCHANGED permits

RecordFailure(c) ==
  /\ call[c].pc = "failed"
  /\ breaker' = Failure(breaker)
  /\ proof' = IF breaker'.state = "open" THEN 0 ELSE proof
  /\ call' = [call EXCEPT ![c] = IF @.attempt + 1 < MaxAttempts
                                 THEN [pc |-> "sleep", attempt |-> @.attempt + 1] ELSE NoCall]
  /\ UNCHANGED permits

(* The delay, then a permit for attempt_recovery. *)
AcquirePermit(c) ==
  /\ call[c].pc = "sleep"
  /\ permits > 0
  /\ permits' = permits - 1
  /\ Goto(c, "restart")
  /\ UNCHANGED <<breaker, proof>>

(* attempt_recovery: the strategies in turn until one succeeds. *)
Restart(c) ==
  /\ call[c].pc = "restart"
  /\ \E next \in {"recovered", "recreate"} : Goto(c, next)
  /\ UNCHANGED <<breaker, permits, proof>>

Recreate(c) ==
  /\ call[c].pc = "recreate"
  /\ \E next \in {"recovered", "lost"} : Goto(c, next)
  /\ UNCHANGED <<breaker, permits, proof>>

(* The permit is dropped with the scope, whatever came of the strategies,
   and the operation is tried again. *)
Release(c) ==
  /\ call[c].pc \in {"recovered", "lost"}
  /\ permits' = permits + 1
  /\ Goto(c, "ask")
  /\ UNCHANGED <<breaker, proof>>

Older(age, limit) == IF age < limit THEN age + 1 ELSE age

ERTick ==
  /\ breaker' = [breaker EXCEPT !.age = Older(@, OpenTimeout),
                     !.failures = IF breaker.state # "closed" THEN @
                                  ELSE LET kept == SelectSeq(@, LAMBDA a : a < Window)
                                       IN  [i \in DOMAIN kept |-> kept[i] + 1]]
  /\ UNCHANGED <<call, permits, proof>>

Step(c) ==
  \/ Ask(c) \/ Run(c) \/ RecordSuccess(c) \/ RecordRejection(c) \/ RecordFailure(c)
  \/ AcquirePermit(c) \/ Restart(c) \/ Recreate(c) \/ Release(c)

ERNext == ERTick \/ \E c \in Calls : Begin(c) \/ Step(c)

----
ERTypeOK ==
  /\ breaker.state \in {"closed", "open", "half"}
  /\ Len(breaker.failures) <= FailureThreshold
  /\ breaker.successes \in 0..(SuccessThreshold - 1)
  /\ breaker.age \in 0..OpenTimeout
  /\ \A c \in Calls : call[c].attempt \in 0..(MaxAttempts - 1)
  /\ permits \in 0..Permits

(* An open breaker closes only after enough operations have succeeded since
   it opened, however the results of calls admitted before and after arrive
   (record_success at 273, record_failure at 296). *)
ClosesOnProof ==
  [][breaker.state # "closed" /\ breaker'.state = "closed" => proof' >= SuccessThreshold]_erVars

(* Every call returns, although there are fewer permits than callers: no
   path of attempt_recovery keeps one (463-489). *)
CallsReturn == \A c \in Calls : call[c].pc = "ask" ~> call[c].pc = "idle"

(* As long as calls keep asking, an open breaker does not stay open: those
   it rejects do not put the test off (can_execute at 326). *)
OpenIsTested ==
  []<>(\E c \in Calls : call[c].pc = "ask") =>
      (breaker.state = "open" ~> breaker.state # "open")
====
