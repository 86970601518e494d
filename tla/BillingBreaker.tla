---- MODULE BillingBreaker ----
(* CircuitBreaker and execute_with_recovery of the billing system
   (src/billing/error_handling.rs).  The breaker keeps its state and the
   time of the last failure behind two mutexes of their own.  is_open
   takes the first and then the second, and the second guard lives to the
   end of its "if let", in which it takes the first again; on_failure
   takes the second and then the first.  A step is what runs between two
   awaits. *)
EXTENDS Naturals

CONSTANTS Payers,  \* concurrent callers
          Free,           \* no caller: the owner of a free mutex
          TripThreshold,  \* failure_threshold: 5
          RecoveryTimeout,\* 60 s
          Tries           \* max_attempts: 3

ASSUME BillingBreakerAssumption ==
  /\ {TripThreshold, RecoveryTimeout, Tries} \subseteq Nat \ {0}
  /\ Free \notin Payers

VARIABLES
  circuit,   \* state
  count,     \* failure_count, as far as it matters
  quiet,     \* time since last_failure_time
  stateLock, lastLock, \* owners of the two mutexes
  payer      \* where a caller is, the failures it counted, its attempts left

bbVars == <<circuit, count, quiet, stateLock, lastLock, payer>>

Resting == [pc |-> "idle", failures |-> 0, left |-> 0]

BBInit ==
  /\ circuit = "closed"
  /\ count = 0
  /\ quiet = RecoveryTimeout
  /\ stateLock = Free
  /\ lastLock = Free
  /\ payer = [p \in Payers |-> Resting]

At(p, pc) == payer[p].pc = pc
To(p, pc) == payer' = [payer EXCEPT ![p].pc = pc]

\* The call failed: execute_with_recovery sleeps and tries again, or gives up.
Retry(p) ==
  payer' = [payer EXCEPT ![p] = IF @.left > 1 THEN [@ EXCEPT !.pc = "ask", !.left = @ - 1] ELSE Resting]

----
Execute(p) ==
  /\ At(p, "idle")
  /\ payer' = [payer EXCEPT ![p] = [pc |-> "ask", failures |-> 0, left |-> Tries]]
  /\ UNCHANGED <<circuit, count, quiet, stateLock, lastLock>>

(* is_open, up to the second await: an open breaker keeps the state locked. *)
IsOpen(p) ==
  /\ At(p, "ask")
  /\ stateLock = Free
  /\ IF circuit = "open" THEN stateLock' = p /\ To(p, "last")
                         ELSE To(p, "run") /\ UNCHANGED stateLock
  /\ UNCHANGED <<circuit, count, quiet, lastLock>>

ReadLast(p) ==
  /\ At(p, "last")
  /\ lastLock = Free
  /\ stateLock' = Free
  /\ IF quiet >= RecoveryTimeout THEN lastLock' = p /\ To(p, "half")
                                 ELSE Retry(p) /\ UNCHANGED lastLock
  /\ UNCHANGED <<circuit, count, quiet>>

HalfOpen(p) ==
  /\ At(p, "half")
  /\ stateLock = Free
  /\ circuit' = "half"
  /\ lastLock' = IF lastLock = p THEN Free ELSE lastLock
  /\ To(p, "run")
  /\ UNCHANGED <<count, quiet, stateLock>>

(* The operation runs, and the atomic counter changes with its outcome. *)
Operate(p) ==
  /\ At(p, "run")
  /\ \/ count' = 0 /\ To(p, "succeeded")
     \/ LET n == IF count < TripThreshold THEN count + 1 ELSE count
        IN  count' = n /\ payer' = [payer EXCEPT ![p].pc = "failed", ![p].failures = n]
  /\ UNCHANGED <<circuit, quiet, stateLock, lastLock>>

OnSuccess(p) ==
  /\ At(p, "succeeded")
  /\ stateLock = Free
  /\ circuit' = "closed"
  /\ payer' = [payer EXCEPT ![p] = Resting]
  /\ UNCHANGED <<count, quiet, stateLock, lastLock>>

(* on_failure: the time of the failure, then, past the threshold and with
   that still locked, the state. *)
OnFailure(p) ==
  /\ At(p, "failed")
  /\ lastLock = Free
  /\ quiet' = 0
  /\ IF payer[p].failures >= TripThreshold THEN lastLock' = p /\ To(p, "trip")
                                           ELSE Retry(p) /\ UNCHANGED lastLock
  /\ UNCHANGED <<circuit, count, stateLock>>

Trip(p) ==
  /\ At(p, "trip")
  /\ stateLock = Free
  /\ circuit' = "open"
  /\ lastLock' = Free
  /\ Retry(p)
  /\ UNCHANGED <<count, quiet, stateLock>>

Quiet ==
  /\ quiet < RecoveryTimeout
  /\ quiet' = quiet + 1
  /\ UNCHANGED <<circuit, count, stateLock, lastLock, payer>>

BBNext ==
  \/ \E p \in Payers : \/ Execute(p) \/ IsOpen(p) \/ ReadLast(p) \/ HalfOpen(p) \/ Operate(p)
                       \/ OnSuccess(p) \/ OnFailure(p) \/ Trip(p)
  \/ Quiet

----
BBTypeOK ==
  /\ circuit \in {"closed", "open", "half"}
  /\ count \in 0..TripThreshold
  /\ quiet \in 0..RecoveryTimeout
  /\ {stateLock, lastLock} \subseteq Payers \cup {Free}
  /\ \A p \in Payers : payer[p].failures \in 0..TripThreshold /\ payer[p].left \in 0..Tries

(* An open breaker admits a test only when no failure was noted for the
   whole timeout, also none while the caller that admits it waited for the
   state (175-193). *)
TestedWhenQuiet ==
  [][circuit = "open" /\ circuit' = "half" => quiet >= RecoveryTimeout]_bbVars
====
