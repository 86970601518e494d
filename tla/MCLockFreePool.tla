---- MODULE MCLockFreePool ----
(* What tasks share without a lock around it: the pool of sandboxes, the
   cache, the counters of executions, the connections to the database, and the stored
   summaries of usage.  They have nothing in common: each behaviour is
   that of one, and Focus names those the run is about.  Four callers of a
   pool of two sandboxes; a third id is there for a creation beyond the
   maximum. *)
EXTENDS LockFreePool, SurrealPool, UsageSummaries, TLC

CONSTANT Focus  \* of {"pool", "cache", "metrics", "surreal", "summaries"}

VARIABLE focus

FocusInit == focus \in Focus /\ Init /\ CacheInit /\ MetricsInit /\ SurrealInit /\ UsageInit

Only(f) ==
  /\ focus = f /\ UNCHANGED focus
  /\ f # "pool" => UNCHANGED vars
  /\ f # "cache" => UNCHANGED cacheVars
  /\ f # "metrics" => UNCHANGED metricVars
  /\ f # "surreal" => UNCHANGED surrealVars
  /\ f # "summaries" => UNCHANGED usageVars

FocusNext ==
  \/ Only("pool") /\ Next
  \/ Only("cache") /\ CacheNext
  \/ Only("metrics") /\ MetricsNext
  \/ Only("surreal") /\ SurrealNext
  \/ Only("summaries") /\ UsageNext

FocusSpec == FocusInit /\ [][FocusNext]_<<focus, vars, cacheVars, metricVars, surrealVars, usageVars>>

(* Cache and connections stay within their bounds, and summaries are sums,
   but for the races named. *)
BoundsInv == CacheInv /\ SurrealInv /\ UsageSummariesInv

----
CONSTANTS t1, t2, t3, t4, s1, s2, s3

FourTasks == {t1, t2, t3, t4}
ThreeIds == {s1, s2, s3}

Symmetry == Permutations(Tasks)
====
