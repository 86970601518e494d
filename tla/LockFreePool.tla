---- MODULE LockFreePool ----
(* LockFreeSandboxPool (src/lockfree.rs): a queue of available sandboxes,
   a concurrent map of active ones and an atomic counter, shared without
   locks.  One action is one operation on one of the three.  The futures
   of acquire_sandbox never suspend, so a call is not cancelled midway; a
   caller releases what it holds, once. *)
EXTENDS Naturals, Sequences, SequencesExt, FiniteSets

CONSTANTS Tasks,  \* callers of the pool
          SandboxIds,    \* the uuids create_new_sandbox draws, each once
          MaxSandboxes,  \* max_sandboxes
          None

ASSUME PoolAssumption ==
  /\ MaxSandboxes \in Nat
  /\ None \notin SandboxIds

VARIABLES
  active,     \* active_sandboxes: keys of the map
  available,  \* available_sandboxes: the queue
  count,      \* active_count
  in_use,     \* sandboxes whose shared in_use flag is set
  born,       \* sandboxes create_new_sandbox has made
  op          \* op[t]: where caller t is, and what it has in hand

vars == <<active, available, count, in_use, born, op>>

\* pc: "idle", "empty" (the queue was empty), "cas" (seen is the counter it
\* loaded), "create", "activate", "hold" (the caller has the sandbox), "push".
Idle == [pc |-> "idle", sb |-> None, seen |-> 0]

Init ==
  /\ active = {}
  /\ available = <<>>
  /\ count = 0
  /\ in_use = {}
  /\ born = {}
  /\ op = [t \in Tasks |-> Idle]

----
(* acquire_sandbox: take a released sandbox if the queue has one. *)
Pop(t) ==
  /\ op[t].pc = "idle"
  /\ IF available = <<>>
     THEN /\ op' = [op EXCEPT ![t] = [Idle EXCEPT !.pc = "empty"]]
          /\ UNCHANGED available
     ELSE /\ op' = [op EXCEPT ![t] = [Idle EXCEPT !.pc = "activate", !.sb = Head(available)]]
          /\ available' = Tail(available)
  /\ UNCHANGED <<active, count, in_use, born>>

(* Load the counter; at the maximum the caller is refused. *)
Load(t) ==
  /\ op[t].pc = "empty"
  /\ op' = [op EXCEPT ![t] = IF count < MaxSandboxes
                             THEN [Idle EXCEPT !.pc = "cas", !.seen = count]
                             ELSE Idle]
  /\ UNCHANGED <<active, available, count, in_use, born>>

IncrementBlindly(t) ==  \* the defect: fetch_add for compare_exchange
  /\ op[t].pc = "cas"
  /\ count' = count + 1
  /\ op' = [op EXCEPT ![t] = [Idle EXCEPT !.pc = "create"]]
  /\ UNCHANGED <<active, available, in_use, born>>

(* compare_exchange, tried once: losing it refuses the caller as well. *)
Increment(t) ==
  /\ op[t].pc = "cas"
  /\ IF count = op[t].seen
     THEN /\ count' = count + 1
          /\ op' = [op EXCEPT ![t] = [Idle EXCEPT !.pc = "create"]]
     ELSE /\ op' = [op EXCEPT ![t] = Idle]
          /\ UNCHANGED count
  /\ UNCHANGED <<active, available, in_use, born>>

(* create_new_sandbox: a new id, with in_use set. *)
Create(t, s) ==
  /\ op[t].pc = "create"
  /\ s \notin born
  /\ born' = born \cup {s}
  /\ in_use' = in_use \cup {s}
  /\ op' = [op EXCEPT ![t] = [Idle EXCEPT !.pc = "activate", !.sb = s]]
  /\ UNCHANGED <<active, available, count>>

(* activate_sandbox: insert into the map and hand the sandbox out.  The
   in_use flag of a sandbox taken from the queue is left as it is. *)
Activate(t) ==
  /\ op[t].pc = "activate"
  /\ active' = active \cup {op[t].sb}
  /\ op' = [op EXCEPT ![t].pc = "hold"]
  /\ UNCHANGED <<available, count, in_use, born>>

----
(* release_sandbox: out of the map ... *)
Deactivate(t) ==
  /\ op[t].pc = "hold"
  /\ active' = active \ {op[t].sb}
  /\ op' = [op EXCEPT ![t].pc = "push"]
  /\ UNCHANGED <<available, count, in_use, born>>

(* ... then reset and pushed back.  The counter is left as it is. *)
Push(t) ==
  /\ op[t].pc = "push"
  /\ in_use' = in_use \ {op[t].sb}
  /\ available' = Append(available, op[t].sb)
  /\ op' = [op EXCEPT ![t] = Idle]
  /\ UNCHANGED <<active, count, born>>

----
Acquire(t) ==
  \/ Pop(t) \/ Load(t) \/ Increment(t) \/ Activate(t)
  \/ \E s \in SandboxIds : Create(t, s)

ReleaseSwapped(t) ==  \* the defect: queued before it is off the map
  \/ /\ op[t].pc = "hold"
     /\ available' = Append(available, op[t].sb)
     /\ op' = [op EXCEPT ![t].pc = "push"]
     /\ UNCHANGED <<active, count, in_use, born>>
  \/ /\ op[t].pc = "push"
     /\ active' = active \ {op[t].sb}
     /\ op' = [op EXCEPT ![t] = Idle]
     /\ UNCHANGED <<available, count, in_use, born>>

Release(t) == Deactivate(t) \/ Push(t)

Next == \E t \in Tasks : Acquire(t) \/ Release(t)

Spec == Init /\ [][Next]_vars

----
InHand(t) == op[t].pc \in {"activate", "hold", "push"}
Queued == {available[i] : i \in 1..Len(available)}
Creating == {t \in Tasks : op[t].pc = "create"}

Locals == [pc : {"idle", "empty", "cas", "create", "activate", "hold", "push"},
           sb : SandboxIds \cup {None},
           seen : Nat]

(* The shape of the pool's three structures and of a caller's locals. *)
TypeOK ==
  /\ active \in SUBSET SandboxIds
  /\ available \in Seq(SandboxIds)
  /\ count \in Nat
  /\ in_use \in SUBSET SandboxIds
  /\ born \in SUBSET SandboxIds
  /\ op \in [Tasks -> Locals]

(* No sandbox is handed to two callers, and none is handed out while the
   queue still has it or has it twice (48-53, 75-82). *)
Exclusive ==
  /\ \A t, u \in Tasks : InHand(t) /\ InHand(u) /\ op[t].sb = op[u].sb => t = u
  /\ \A t \in Tasks : InHand(t) => op[t].sb \notin Queued
  /\ \A i, j \in 1..Len(available) : available[i] = available[j] => i = j

(* The counter covers every sandbox made and every creation in progress,
   and never passes the maximum: racing callers cannot over-create (56-68). *)
CreationBounded ==
  /\ Cardinality(born) + Cardinality(Creating) = count
  /\ count <= MaxSandboxes

(* A sandbox in a caller's hands is in the active map, a queued one is not:
   release takes it off the map before the queue offers it again (77-81). *)
ActiveIsHeld ==
  active = {op[t].sb : t \in {u \in Tasks : op[u].pc = "hold"}}

(* No sandbox is lost: each one made is queued or in somebody's hands. *)
NoneLost == born = Queued \cup {op[t].sb : t \in {u \in Tasks : InHand(u)}}

(* Every sandbox made is in exactly one place, the queue or a caller's
   hands, and the active map says so. *)
Custody == Exclusive /\ ActiveIsHeld /\ NoneLost

----

----
(* LockFreeCache, in the same file.  insert first asks the map for its
   length, then looks for the oldest entry, then removes it, then inserts.
   Each of these is atomic by itself and nothing holds them together.
   Values are abstracted, and last_access is: `cached` lists the keys of the
   map in that order, which is the order of insertion, as get leaves it. *)
CONSTANTS Inserters,  \* threads that insert, and that record executions
          CacheKeys,
          MaxSize,    \* max_size
          MaxRuns,    \* bound on the executions recorded
          NoKey

ASSUME CacheAssumption == MaxSize \in Nat \ {0} /\ MaxRuns \in Nat

VARIABLES
  cached,     \* the keys of the map, oldest last_access first
  inserting   \* what each thread is at: [at, key, victim], and, for the properties,
              \* was it alone, and how long was the map when it began?

cacheVars == <<cached, inserting>>

AtRest == [at |-> "idle", key |-> NoKey, victim |-> NoKey, alone |-> TRUE, found |-> 0]

CacheInit ==
  /\ cached = <<>>
  /\ inserting = [t \in Inserters |-> AtRest]

----
FullLate == Len(cached) > MaxSize  \* the defect: > for >=
Full == Len(cached) >= MaxSize

(* insert: is the cache full?  Asked of a key it has as well. *)
CheckFull(t, k) ==
  /\ inserting[t] = AtRest
  /\ inserting' = [u \in Inserters |->
        IF u = t THEN [AtRest EXCEPT !.key = k, !.at = IF Full THEN "find" ELSE "put",
                                     !.alone = \A v \in Inserters : inserting[v] = AtRest,
                                     !.found = Len(cached)]
        ELSE IF inserting[u] # AtRest THEN [inserting[u] EXCEPT !.alone = FALSE]
        ELSE AtRest]
  /\ UNCHANGED cached

(* find_oldest_key; a map emptied meanwhile has none to evict. *)
FindOldest(t) ==
  /\ inserting[t].at = "find"
  /\ inserting' = IF cached = <<>> THEN [inserting EXCEPT ![t].at = "put"]
                  ELSE [inserting EXCEPT ![t].at = "evict", ![t].victim = Head(cached)]
  /\ UNCHANGED cached

(* Remove the victim, if another thread has not. *)
Evict(t) ==
  /\ inserting[t].at = "evict"
  /\ cached' = Remove(cached, inserting[t].victim)
  /\ inserting' = [inserting EXCEPT ![t].at = "put"]

(* Insert, or overwrite: the entry's last_access is now, the latest of all. *)
PutEntry(t) ==
  /\ inserting[t].at = "put"
  /\ cached' = Append(Remove(cached, inserting[t].key), inserting[t].key)
  /\ inserting' = [inserting EXCEPT ![t] = AtRest]

CacheNext ==
  \E t \in Inserters :
     \/ \E k \in CacheKeys : CheckFull(t, k)
     \/ FindOldest(t) \/ Evict(t) \/ PutEntry(t)

----
(* LockFreeMetrics, in the same file: counters that threads add to and that
   a reader loads one after another.  All of it is Relaxed, so that what one
   thread adds to two counters, and what another loads of them, may happen
   in either order. *)
VARIABLES
  executions, failures,  \* the counters
  recording,             \* what each thread's record_execution has still to add
  reader                 \* snapshot: what it has still to load, what it saw, and, for the
                         \* property, the recordings of failures it has overlapped

metricVars == <<executions, failures, recording, reader>>

Counters == {"executions", "failures"}
Unread == [todo |-> Counters, execs |-> 0, fails |-> 0, raced |-> 0]

MetricsInit ==
  /\ executions = 0 /\ failures = 0
  /\ recording = [t \in Inserters |-> {}]
  /\ reader = [Unread EXCEPT !.todo = {}]

FailsOnly(failed) == IF failed THEN {"failures"} ELSE {"executions"}  \* the defect: an else
ToAdd(failed) == IF failed THEN Counters ELSE {"executions"}

(* record_execution. *)
BeginRecord(t, failed) ==
  /\ recording[t] = {} /\ executions + failures < MaxRuns
  /\ recording' = [recording EXCEPT ![t] = ToAdd(failed)]
  /\ reader' = IF failed /\ reader.todo # {} THEN [reader EXCEPT !.raced = @ + 1] ELSE reader
  /\ UNCHANGED <<executions, failures>>

AddTo(t, counter) ==
  /\ counter \in recording[t]
  /\ recording' = [recording EXCEPT ![t] = @ \ {counter}]
  /\ IF counter = "executions" THEN executions' = executions + 1 /\ UNCHANGED failures
     ELSE failures' = failures + 1 /\ UNCHANGED executions
  /\ UNCHANGED reader

(* snapshot. *)
BeginSnapshot ==
  /\ reader.todo = {}
  /\ reader' = [Unread EXCEPT !.raced = Cardinality({t \in Inserters : recording[t] # {}})]
  /\ UNCHANGED <<executions, failures, recording>>

Read(counter) ==
  /\ counter \in reader.todo
  /\ reader' = [reader EXCEPT !.todo = @ \ {counter},
                              !.execs = IF counter = "executions" THEN executions ELSE @,
                              !.fails = IF counter = "failures" THEN failures ELSE @]
  /\ UNCHANGED <<executions, failures, recording>>

MetricsNext ==
  \/ \E t \in Inserters : \/ \E failed \in BOOLEAN : BeginRecord(t, failed)
                         \/ \E counter \in Counters : AddTo(t, counter)
  \/ BeginSnapshot
  \/ \E counter \in Counters : Read(counter)

----
CacheTypeOK ==
  /\ cached \in Seq(CacheKeys) /\ IsInjective(cached)
  /\ inserting \in [Inserters -> [at : {"idle", "find", "evict", "put"},
                                  key : CacheKeys \cup {NoKey}, victim : CacheKeys \cup {NoKey},
                                  alone : BOOLEAN, found : 0..Cardinality(CacheKeys)]]
  /\ recording \in [Inserters -> SUBSET Counters]
  /\ reader \in [todo : SUBSET Counters, execs : Nat, fails : Nat, raced : Nat]

(* "Simple eviction if cache is full" (line 267): an insert that no other
   overlapped leaves a full map no longer than it was.  Two that overlap
   evict the same entry, and the map is one longer for ever. *)
LoneInsertKeepsTheBound ==
  \A t \in Inserters : inserting[t].at = "put" /\ inserting[t].alone =>
      Cardinality(ToSet(cached) \cup {inserting[t].key}) <=
          IF inserting[t].found < MaxSize THEN MaxSize ELSE inserting[t].found

(* success_rate subtracts the failures a snapshot saw from the executions it
   saw (line 215): they are no more than those and the failing executions
   that were being recorded meanwhile, so that without such a race the
   subtraction does not overflow. *)
FailuresAreExecutions == reader.todo = {} => reader.fails <= reader.execs + reader.raced

(* The map keeps its bound and a snapshot its sense, but for overlaps. *)
CacheInv == CacheTypeOK /\ LoneInsertKeepsTheBound /\ FailuresAreExecutions
====
