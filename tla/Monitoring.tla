---- MODULE Monitoring ----
(* HealthMonitor (src/monitoring/mod.rs).  A task checks the components in
   turn, each check with a timeout, and after each one moves two counters
   and the component's status under their locks; anybody reads the status
   of the whole at any time.  start spawns another such task each time it
   is called. *)
EXTENDS Naturals, Sequences

CONSTANTS Parts,  \* the components: the database and the container runtime
          Monitors,     \* tasks spawned by start
          FailuresToFail, SuccessesToHeal \* failure_threshold: 3, success_threshold: 2

ASSUME HealthMonitorAssumption == {FailuresToFail, SuccessesToHeal} \subseteq Nat \ {0}

VARIABLES
  failed, succeeded, \* failure_counts and success_counts, as far as they matter
  condition,           \* component_health, "none" before the first check
  checked,             \* where each task is: what it checks, what it found, what is left
  outcomes             \* the last outcomes noted for each component, for the properties

healthVars == <<failed, succeeded, condition, checked, outcomes>>

BetweenChecks == [at |-> "rest", todo |-> {}, part |-> {}, fine |-> FALSE]

HealthInit ==
  /\ failed = [c \in Parts |-> 0]
  /\ succeeded = [c \in Parts |-> 0]
  /\ condition = [c \in Parts |-> "none"]
  /\ checked = [m \in Monitors |-> BetweenChecks]
  /\ outcomes = [c \in Parts |-> <<>>]

Most(i, j) == IF i < j THEN j ELSE i
Fewest(i, j) == IF i < j THEN i ELSE j
Memory == Most(FailuresToFail, SuccessesToHeal)

----
(* The interval ticks: all components, one after the other. *)
PerformHealthChecks(m) ==
  /\ checked[m].at = "rest"
  /\ checked' = [checked EXCEPT ![m] = [@ EXCEPT !.at = "next", !.todo = Parts]]
  /\ UNCHANGED <<failed, succeeded, condition, outcomes>>

(* A check: a query, or a list of the containers, that succeeds, fails or
   takes too long.  Whatever happens, what it returns is Ok. *)
CheckPart(m) ==
  /\ checked[m].at = "next" /\ checked[m].todo # {}
  /\ \E c \in checked[m].todo, ok \in BOOLEAN :
        checked' = [checked EXCEPT ![m] = [at |-> "found", todo |-> @.todo \ {c}, part |-> {c}, fine |-> ok]]
  /\ UNCHANGED <<failed, succeeded, condition, outcomes>>

(* update_component_health: its three guards live to its end. *)
StatusNow(fine, good, bad) ==
  IF fine THEN IF good >= SuccessesToHeal THEN "healthy" ELSE "degraded"
          ELSE IF bad >= FailuresToFail THEN "unhealthy" ELSE "degraded"

\* The defect: a success does not clear the failures.
KeepFailures(c, fine) == IF fine THEN failed[c] ELSE Fewest(failed[c] + 1, FailuresToFail)
InARow(c, fine) == IF fine THEN 0 ELSE Fewest(failed[c] + 1, FailuresToFail)
UpdateComponentHealth(m) ==
  /\ checked[m].at = "found"
  /\ \E c \in checked[m].part :
        LET fine == checked[m].fine
            good == IF fine THEN Fewest(succeeded[c] + 1, SuccessesToHeal) ELSE 0
            bad  == InARow(c, fine)
        IN  /\ succeeded' = [succeeded EXCEPT ![c] = good]
            /\ failed' = [failed EXCEPT ![c] = bad]
            /\ condition' = [condition EXCEPT ![c] = StatusNow(fine, good, bad)]
            /\ outcomes' = [outcomes EXCEPT ![c] = SubSeq(<<fine>> \o @, 1, Fewest(Len(@) + 1, Memory))]
  /\ checked' = [checked EXCEPT ![m] = [@ EXCEPT !.at = "next", !.part = {}, !.fine = FALSE]]

EndChecks(m) ==
  /\ checked[m].at = "next" /\ checked[m].todo = {}
  /\ checked' = [checked EXCEPT ![m] = BetweenChecks]
  /\ UNCHANGED <<failed, succeeded, condition, outcomes>>

HealthNext ==
  \E m \in Monitors :
      PerformHealthChecks(m) \/ CheckPart(m) \/ UpdateComponentHealth(m) \/ EndChecks(m)

(* get_system_health: components not checked yet do not count. *)
SystemHealth ==
  LET known == {condition[c] : c \in Parts} \ {"none"}
  IN  CASE known = {}             -> "unknown"
        [] "unhealthy" \in known  -> "unhealthy"
        [] known = {"healthy"}    -> "healthy"
        [] OTHER                  -> "degraded"

----
HealthTypeOK ==
  /\ \A c \in Parts : /\ failed[c] \in 0..FailuresToFail /\ succeeded[c] \in 0..SuccessesToHeal
                      /\ condition[c] \in {"none", "healthy", "degraded", "unhealthy"}
  /\ \A m \in Monitors : checked[m].at \in {"rest", "next", "found"}

(* What a component is said to be is what its last checks say, whichever
   task made them: unhealthy when the last FailuresToFail all failed,
   healthy when the last SuccessesToHeal all succeeded, degraded otherwise
   (405-436). *)
LastAll(c, n, fine) == Len(outcomes[c]) >= n /\ \A i \in 1..n : outcomes[c][i] = fine

SaysWhatItSaw ==
  \A c \in Parts :
      /\ condition[c] = "unhealthy" <=> LastAll(c, FailuresToFail, FALSE)
      /\ condition[c] = "healthy" <=> LastAll(c, SuccessesToHeal, TRUE)
      /\ condition[c] = "none" <=> outcomes[c] = <<>>

(* The whole is called healthy only while no component it has checked
   failed its last check. *)
HealthyMeansAll ==
  SystemHealth = "healthy" => \A c \in Parts : outcomes[c] # <<>> => Head(outcomes[c])

(* Status, counters and the checks agree. *)
HealthInv == HealthTypeOK /\ SaysWhatItSaw /\ HealthyMeansAll
====
