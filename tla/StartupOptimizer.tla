---- MODULE StartupOptimizer ----
(* StartupOptimizer (src/container/startup_optimizer.rs): containers made
   ahead of demand.  Whoever warms the pool keeps its write lock until the
   tasks that create the containers have all ended; those tasks, and
   requests that find the pool empty, need a permit of one semaphore. *)
EXTENDS Naturals, FiniteSets

CONSTANTS Callers,  \* of get_optimized_container, one request at a time
          Warmers,      \* tasks that run ensure_prewarmed_containers
          Target,       \* min_prewarmed_per_runtime
          MaxStartups,  \* max_parallel_startups
          MaxMade       \* bound on the containers created

ASSUME OptimizerAssumption == Target \in Nat /\ MaxStartups \in Nat \ {0} /\ MaxMade \in Nat

VARIABLES
  prewarmed,  \* the containers of one runtime, numbered as they were pushed
  aging,      \* those that were made too long ago
  made,       \* containers created so far
  warmer,     \* what each warming task is at: "none", "wait", "make"
  batch,      \* of the one that has the lock: tasks it waits for, and how many run
  request,    \* what each caller is at: one of Stages
  warmUsed, coldMade \* prewarmed_containers_used, total_containers_created

\* "warm" and "count" write the statistics; "panicked" is a request that
\* ended its task with them: it has no answer, and its container no owner.
Stages == {"idle", "ask", "warm", "wait", "create", "count", "panicked"}

soVars == <<prewarmed, aging, made, warmer, batch, request, warmUsed, coldMade>>

NoBatch == [need |-> 0, making |-> 0]

(* start warms the pool first: one warmer waits for the lock. *)
SOInit ==
  /\ prewarmed = {} /\ aging = {} /\ made = 0 /\ batch = NoBatch
  /\ \E w \in Warmers : warmer = [v \in Warmers |-> IF v = w THEN "wait" ELSE "none"]
  /\ request = [c \in Callers |-> "idle"]
  /\ warmUsed = 0 /\ coldMade = 0

PoolLocked == \E w \in Warmers : warmer[w] = "make"

Creating == {c \in Callers : request[c] = "create"}
PermitsTaken == batch.making + Cardinality(Creating)

Newest(c) == c \in prewarmed /\ \A d \in prewarmed : d <= c

----
MissingAll(kept) == Target  \* the defect: the current count is not subtracted
Missing(kept) == Target - Cardinality(kept)

(* ensure_prewarmed_containers: old containers are dropped from the list,
   and stay where they are. *)
Ensure(w) ==
  LET kept == prewarmed \ aging
  IN  /\ warmer[w] = "wait" /\ ~PoolLocked
      /\ prewarmed' = kept
      /\ IF Cardinality(kept) >= Target
         THEN warmer' = [warmer EXCEPT ![w] = "none"] /\ UNCHANGED batch
         ELSE /\ warmer' = [warmer EXCEPT ![w] = "make"]
              /\ batch' = [need |-> Missing(kept), making |-> 0]
      /\ UNCHANGED <<aging, made, request, warmUsed, coldMade>>

StartMaking(w) ==
  /\ warmer[w] = "make" /\ batch.making < batch.need
  /\ PermitsTaken < MaxStartups
  /\ batch' = [batch EXCEPT !.making = @ + 1]
  /\ UNCHANGED <<prewarmed, aging, made, warmer, request, warmUsed, coldMade>>

TaskEndsNever(w) ==  \* the defect: a task that has ended is spawned again
  batch' = [batch EXCEPT !.making = @ - 1] /\ UNCHANGED warmer
\* One task less to wait for; the lock goes with the last.
TaskEnds(w) ==
  /\ batch' = [need |-> batch.need - 1, making |-> batch.making - 1]
  /\ warmer' = [warmer EXCEPT ![w] = IF batch.need = 1 THEN "none" ELSE @]

Make(w) ==
  /\ warmer[w] = "make" /\ batch.making > 0 /\ made < MaxMade
  /\ made' = made + 1
  /\ prewarmed' = prewarmed \cup {made'}
  /\ TaskEnds(w)
  /\ UNCHANGED <<aging, request, warmUsed, coldMade>>

(* Creation, start or warm-up fails; what was created is left behind. *)
MakeFails(w) ==
  /\ warmer[w] = "make" /\ batch.making > 0
  /\ TaskEnds(w)
  /\ UNCHANGED <<prewarmed, aging, made, request, warmUsed, coldMade>>

----
AskContainer(c) ==
  /\ request[c] \in {"idle", "panicked"}
  /\ request' = [request EXCEPT ![c] = "ask"]
  /\ UNCHANGED <<prewarmed, aging, made, warmer, batch, warmUsed, coldMade>>

(* get_prewarmed_container takes the last one, as old as it may be, and
   sends a task to replace it.  An empty pool sends none. *)
TakeWarm(c) ==
  /\ request[c] = "ask" /\ ~PoolLocked
  /\ IF prewarmed = {}
     THEN /\ request' = [request EXCEPT ![c] = "wait"]
          /\ UNCHANGED <<prewarmed, warmer>>
     ELSE /\ \E d \in prewarmed : Newest(d) /\ prewarmed' = prewarmed \ {d}
          /\ request' = [request EXCEPT ![c] = "warm"]
          /\ \/ \E w \in Warmers : warmer[w] = "none" /\ warmer' = [warmer EXCEPT ![w] = "wait"]
             \/ (\A w \in Warmers : warmer[w] # "none") /\ UNCHANGED warmer   \* bound on the tasks
  /\ UNCHANGED <<aging, made, batch, warmUsed, coldMade>>

(* Under the lock of the metrics, which no one keeps. *)
CountWarm(c) ==
  /\ request[c] = "warm"
  /\ warmUsed' = warmUsed + 1
  /\ request' = [request EXCEPT ![c] = "idle"]
  /\ UNCHANGED <<prewarmed, aging, made, warmer, batch, coldMade>>

StartCold(c) ==
  /\ request[c] = "wait" /\ PermitsTaken < MaxStartups
  /\ request' = [request EXCEPT ![c] = "create"]
  /\ UNCHANGED <<prewarmed, aging, made, warmer, batch, warmUsed, coldMade>>

CreateCold(c) ==
  /\ request[c] = "create"
  /\ \/ /\ made < MaxMade
        /\ made' = made + 1
        /\ request' = [request EXCEPT ![c] = "count"]
     \/ /\ request' = [request EXCEPT ![c] = "idle"]   \* an error
        /\ UNCHANGED made
  /\ UNCHANGED <<prewarmed, aging, warmer, batch, warmUsed, coldMade>>

(* The average is taken over total_containers_created less
   prewarmed_containers_used, although only cold ones are counted as created.
   If the two are equal, update_average divides by zero; if fewer were
   created, the subtraction overflows: a panic where overflows are checked,
   a large number where they are not. *)
CountCold(c) ==
  /\ request[c] = "count"
  /\ coldMade' = coldMade + 1
  /\ \E at \in {"idle", "panicked"} :
       /\ coldMade' > warmUsed => at = "idle"
       /\ coldMade' = warmUsed => at = "panicked"
       /\ request' = [request EXCEPT ![c] = at]
  /\ UNCHANGED <<prewarmed, aging, made, warmer, batch, warmUsed>>

----
(* The health check drops what is too old. *)
HealthCheck ==
  /\ ~PoolLocked
  /\ prewarmed \cap aging # {}
  /\ prewarmed' = prewarmed \ aging
  /\ UNCHANGED <<aging, made, warmer, batch, request, warmUsed, coldMade>>

Age(c) ==
  /\ aging' = aging \cup {c} /\ c \notin aging
  /\ UNCHANGED <<prewarmed, made, warmer, batch, request, warmUsed, coldMade>>

SONext ==
  \/ \E w \in Warmers : Ensure(w) \/ StartMaking(w) \/ Make(w) \/ MakeFails(w)
  \/ \E c \in Callers : \/ AskContainer(c) \/ TakeWarm(c) \/ CountWarm(c)
                      \/ StartCold(c) \/ CreateCold(c) \/ CountCold(c)
  \/ HealthCheck
  \/ \E c \in prewarmed : Age(c)

SOSpec == SOInit /\ [][SONext]_soVars

----
SOTypeOK ==
  /\ prewarmed \cup aging \subseteq 1..made /\ made <= MaxMade
  /\ batch.making <= batch.need
  /\ PermitsTaken <= MaxStartups
  /\ request \in [Callers -> Stages]

(* However many requests send a task to replace what they took, the pool
   does not grow past its target (ensure_prewarmed_containers 260-326). *)
PoolWithinTarget == Cardinality(prewarmed) <= Target

(* The statistics end no request of an optimizer that never gave out a
   pre-warmed container (get_optimized_container 540-549). *)
PanicsNeedWarmth == (\E c \in Callers : request[c] = "panicked") => warmUsed > 0

(* The pool, its warming tasks and the permits keep to their limits. *)
WarmPoolInv == SOTypeOK /\ PoolWithinTarget /\ PanicsNeedWarmth

(* A request comes to its end, whatever fails while others warm the pool
   under its lock (get_optimized_container 518-556): it has its answer, or
   its task has panicked over the statistics. *)
RequestsEnd ==
  \A c \in Callers : request[c] = "ask" ~> request[c] \in {"idle", "panicked"}
====
