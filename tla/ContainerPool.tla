---- MODULE ContainerPool ----
(* ContainerPool (src/container/pool.rs): the pool of one runtime.  Of its
   three levels only the hot one is ever filled, so that is the pool here;
   an entry is always warmed up, healthy and not in use while it is in the
   queue, so an entry is its container.  Entries are pushed at the back
   with the current time: the queue is ordered by last_used.  One action
   is what runs between two awaits of Docker or of a lock.

   Docker, and the ContainerManager's thin calls to it, are external. *)
EXTENDS Integers, Sequences, SequencesExt, FiniteSets

CONSTANTS Clients,  \* tasks that get and return containers
          Conts,          \* Docker container ids, each handed out once
          MinContainers,  \* min_containers
          MaxContainers,  \* max_containers
          MaxFaults,      \* bound on failures of Docker and cancelled calls
          None

ASSUME PoolAssumption ==
  /\ IsFiniteSet(Conts)
  /\ MinContainers \in Nat /\ MaxContainers \in Nat
  /\ MinContainers <= MaxContainers
  /\ MaxFaults \in Nat
  /\ None \notin Conts

VARIABLES
  hot,        \* hot_pools[runtime]
  docker,     \* state of each container in Docker
  destroyed,  \* history: containers whose destruction was asked for
  op,         \* op[k]: the call client k is executing
  maint,      \* the maintenance task
  shut,       \* "up", "stopping", "down"
  faults      \* failures and cancellations so far

vars == <<hot, docker, destroyed, op, maint, shut, faults>>

DockerState == {"none", "created", "running", "stopped", "removed"}

Idle == [pc |-> "idle", cont |-> None]
Asleep == [pc |-> "wait", kill |-> <<>>, good |-> <<>>, need |-> 0, cont |-> None]

Fault == faults < MaxFaults /\ faults' = faults + 1

Goto(k, pc) == op' = [op EXCEPT ![k].pc = pc]
Return(k) == op' = [op EXCEPT ![k] = Idle]

\* The write lock of hot_pools is held from action to action only by the
\* health checks, which await Docker under it.
LockFree == maint.pc # "inspect"

Set(c, state) == docker' = [docker EXCEPT ![c] = state]

\* initialize: prewarming leaves at most min_containers containers.
Init ==
  /\ \E n \in 0..MinContainers : \E s \in [1..n -> Conts] :
       /\ IsInjective(s)
       /\ hot = s
       /\ docker = [c \in Conts |-> IF c \in ToSet(s) THEN "running" ELSE "none"]
  /\ destroyed = {}
  /\ op = [k \in Clients |-> Idle]
  /\ maint = Asleep
  /\ shut = "up"
  /\ faults = 0

----
(* remove_container(container_id) looks its argument up in the manager's
   registry, whose keys are sandbox ids.  create_container registers
   nothing, so the pool's containers are not there and the call is Ok(false) *)
Registered == {}
AfterRemove(c, state) == IF c \in Registered THEN "removed" ELSE state

(* destroy_container: stop, then remove; errors are only logged.  The
   containers of `kept` failed to stop. *)
DestroyAll(S) ==
  /\ \E kept \in SUBSET {c \in S : docker[c] = "running"} :
       /\ IF kept = {} THEN UNCHANGED faults ELSE Fault
       /\ docker' = [c \in Conts |->
              IF c \notin S THEN docker[c]
              ELSE AfterRemove(c, IF docker[c] = "running" /\ c \notin kept
                                  THEN "stopped" ELSE docker[c])]
  /\ destroyed' = destroyed \cup S

----
GetHitKeeps(k) ==  \* the defect: get for remove
  /\ op[k].pc = "idle"
  /\ LockFree
  /\ hot # <<>>
  /\ op' = [op EXCEPT ![k] = [pc |-> "hit", cont |-> Head(hot)]]
  /\ UNCHANGED <<hot, docker, destroyed, maint, shut, faults>>

(* get_container: the first entry of the hot pool ... *)
GetHit(k) ==
  /\ op[k].pc = "idle"
  /\ LockFree
  /\ hot # <<>>
  /\ hot' = Tail(hot)
  /\ op' = [op EXCEPT ![k] = [pc |-> "hit", cont |-> Head(hot)]]
  /\ UNCHANGED <<docker, destroyed, maint, shut, faults>>

\* ... after whose statistics are counted under another lock ...
CountHit(k) ==
  /\ op[k].pc = "hit"
  /\ Goto(k, "hold")
  /\ UNCHANGED <<hot, docker, destroyed, maint, shut, faults>>

(* ... or, when it is empty, create_new_container, with a permit of the
   runtime's semaphore or not at all. *)
GetMiss(k) ==
  /\ op[k].pc = "idle"
  /\ LockFree
  /\ hot = <<>>
  /\ Goto(k, "permit")
  /\ UNCHANGED <<hot, docker, destroyed, maint, shut, faults>>

PermitFree ==
  Cardinality({k \in Clients : op[k].pc \in {"create", "start", "created"}}) < MaxContainers

Permit(k) ==
  /\ op[k].pc = "permit"
  /\ IF PermitFree THEN Goto(k, "create") ELSE Return(k)
  /\ UNCHANGED <<hot, docker, destroyed, maint, shut, faults>>

Exhausted == \A c \in Conts : docker[c] # "none"
DockerRefuses == IF Exhausted THEN UNCHANGED faults ELSE Fault

Create(k) ==
  /\ op[k].pc = "create"
  /\ \/ \E c \in Conts :
          /\ docker[c] = "none"
          /\ Set(c, "created")
          /\ op' = [op EXCEPT ![k] = [pc |-> "start", cont |-> c]]
          /\ UNCHANGED faults
     \/ /\ DockerRefuses
        /\ Return(k)
        /\ UNCHANGED docker
  /\ UNCHANGED <<hot, destroyed, maint, shut>>

Start(k) ==
  /\ op[k].pc = "start"
  /\ Set(op[k].cont, "running")
  /\ Goto(k, "created")
  /\ UNCHANGED <<hot, destroyed, maint, shut, faults>>

(* A failed or timed out start: a spawned remove_container "cleans up". *)
StartFails(k) ==
  /\ op[k].pc = "start"
  /\ Fault
  /\ \E state \in {"created", "running"} :
       Set(op[k].cont, AfterRemove(op[k].cont, state))
  /\ destroyed' = destroyed \cup {op[k].cont}
  /\ Return(k)
  /\ UNCHANGED <<hot, maint, shut>>

(* The statistics are counted, by both methods, and the permit given back. *)
CountMiss(k) ==
  /\ op[k].pc = "created"
  /\ Goto(k, "hold")
  /\ UNCHANGED <<hot, docker, destroyed, maint, shut, faults>>

----
\* A container that is not running, or whose inspection fails.
SeemsDown(c) == IF docker[c] # "running" THEN UNCHANGED faults ELSE Fault

(* return_container: is it running? *)
CheckHealth(k) ==
  /\ op[k].pc = "hold"
  /\ \/ docker[op[k].cont] = "running" /\ Goto(k, "push") /\ UNCHANGED faults
     \/ SeemsDown(op[k].cont) /\ Goto(k, "destroy")
  /\ UNCHANGED <<hot, docker, destroyed, maint, shut>>

DestroyUnhealthy(k) ==
  /\ op[k].pc = "destroy"
  /\ DestroyAll({op[k].cont})
  /\ Return(k)
  /\ UNCHANGED <<hot, maint, shut>>

PushUntrimmed(k) ==  \* the defect: the pool is not trimmed
  /\ op[k].pc = "push"
  /\ LockFree
  /\ hot' = Append(hot, op[k].cont)
  /\ Return(k)
  /\ UNCHANGED <<docker, destroyed, maint, shut, faults>>

(* Back to the pool, whose oldest entries are destroyed while it is longer
   than max_containers; all of it under the write lock. *)
Push(k) ==
  LET s == Append(hot, op[k].cont)
      excess == IF Len(s) > MaxContainers THEN Len(s) - MaxContainers ELSE 0
  IN  /\ op[k].pc = "push"
      /\ LockFree
      /\ hot' = SubSeq(s, excess + 1, Len(s))
      /\ DestroyAll(ToSet(SubSeq(s, 1, excess)))
      /\ Return(k)
      /\ UNCHANGED <<maint, shut>>

(* A caller's future is dropped at an await. *)
Cancel(k) ==
  /\ Fault
  /\ op[k].pc \in {"hit", "permit", "create", "start", "created", "push"}
  /\ \/ UNCHANGED docker
     \/ op[k].pc = "create" /\ \E c \in Conts : docker[c] = "none" /\ Set(c, "created")
     \/ op[k].pc = "start" /\ Set(op[k].cont, "running")
  /\ Return(k)
  /\ UNCHANGED <<hot, destroyed, maint, shut>>

----
PruneSpares ==  \* the defect: the last missing container is not made
  /\ maint.pc = "wait"
  /\ shut = "up"
  /\ \E n \in 0..Len(hot) :
       /\ hot' = SubSeq(hot, n + 1, Len(hot))
       /\ maint' = [Asleep EXCEPT !.pc = "kill", !.kill = SubSeq(hot, 1, n),
                        !.need = IF Len(hot) - n + 1 < MinContainers
                                 THEN MinContainers - (Len(hot) - n) ELSE 0]
  /\ UNCHANGED <<docker, destroyed, op, shut, faults>>

(* maintenance_cycle: take the idle entries, the oldest, out of the pool;
   count how many are missing from min_containers. *)
Prune ==
  /\ maint.pc = "wait"
  /\ shut = "up"
  /\ \E n \in 0..Len(hot) :
       /\ hot' = SubSeq(hot, n + 1, Len(hot))
       /\ maint' = [Asleep EXCEPT !.pc = "kill", !.kill = SubSeq(hot, 1, n),
                        !.need = IF Len(hot) - n < MinContainers
                                 THEN MinContainers - (Len(hot) - n) ELSE 0]
  /\ UNCHANGED <<docker, destroyed, op, shut, faults>>

(* Destroy them one by one. *)
KillIdle ==
  /\ maint.pc = "kill"
  /\ maint.kill # <<>>
  /\ DestroyAll({Head(maint.kill)})
  /\ maint' = [maint EXCEPT !.kill = Tail(@)]
  /\ UNCHANGED <<hot, op, shut>>

BeginHealthChecks ==
  /\ maint.pc = "kill"
  /\ maint.kill = <<>>
  /\ maint' = [maint EXCEPT !.pc = "inspect"]
  /\ UNCHANGED <<hot, docker, destroyed, op, shut, faults>>

(* perform_health_checks: pop an entry, ask Docker, keep what runs.  An
   unhealthy container goes to remove_container, a failed inspection counts
   as unhealthy. *)
Inspect ==
  LET c == Head(hot)
  IN  /\ maint.pc = "inspect"
      /\ hot # <<>>
      /\ hot' = Tail(hot)
      /\ \/ /\ docker[c] = "running"
            /\ maint' = [maint EXCEPT !.good = Append(@, c)]
            /\ UNCHANGED <<docker, destroyed, faults>>
         \/ /\ SeemsDown(c)
            /\ Set(c, AfterRemove(c, docker[c]))
            /\ destroyed' = destroyed \cup {c}
            /\ UNCHANGED maint
      /\ UNCHANGED <<op, shut>>

EndChecksLosing ==  \* the defect: the pool is not written back
  /\ maint.pc = "inspect"
  /\ hot = <<>>
  /\ maint' = [maint EXCEPT !.pc = "fill", !.good = <<>>]
  /\ UNCHANGED <<hot, docker, destroyed, op, shut, faults>>

EndHealthChecks ==
  /\ maint.pc = "inspect"
  /\ hot = <<>>
  /\ hot' = maint.good
  /\ maint' = [maint EXCEPT !.pc = "fill", !.good = <<>>]
  /\ UNCHANGED <<docker, destroyed, op, shut, faults>>

(* Create the missing containers, as many as were counted by Prune. *)
Refill ==
  /\ maint.pc = "fill"
  /\ maint.need > 0
  /\ \/ \E c \in Conts :
          /\ docker[c] = "none"
          /\ Set(c, "created")
          /\ maint' = [maint EXCEPT !.pc = "fillstart", !.cont = c]
          /\ UNCHANGED faults
     \/ /\ DockerRefuses
        /\ maint' = [maint EXCEPT !.need = @ - 1]
        /\ UNCHANGED docker
  /\ UNCHANGED <<hot, destroyed, op, shut>>

(* A failed start leaves the container behind. *)
RefillStart ==
  /\ maint.pc = "fillstart"
  /\ \/ /\ Set(maint.cont, "running")
        /\ maint' = [maint EXCEPT !.pc = "fillpush"]
        /\ UNCHANGED faults
     \/ /\ Fault
        /\ maint' = [maint EXCEPT !.pc = "fill", !.need = @ - 1, !.cont = None]
        /\ UNCHANGED docker
  /\ UNCHANGED <<hot, destroyed, op, shut>>

(* Into the pool, however long it is by now. *)
RefillPush ==
  /\ maint.pc = "fillpush"
  /\ hot' = Append(hot, maint.cont)
  /\ maint' = [maint EXCEPT !.pc = "fill", !.need = @ - 1, !.cont = None]
  /\ UNCHANGED <<docker, destroyed, op, shut, faults>>

EndCycle ==
  /\ maint.pc = "fill"
  /\ maint.need = 0
  /\ maint' = Asleep
  /\ UNCHANGED <<hot, docker, destroyed, op, shut, faults>>

----
(* shutdown: abort the maintenance task, whatever it is awaiting ... *)
AbortMaintenance ==
  /\ shut = "up"
  /\ shut' = "stopping"
  /\ maint' = Asleep
  /\ \/ UNCHANGED docker
     \/ maint.pc = "fillstart" /\ Set(maint.cont, "running")
  /\ UNCHANGED <<hot, destroyed, op, faults>>

(* ... and destroy what the pool lists, under read locks: the lists stay. *)
DestroyPool ==
  /\ shut = "stopping"
  /\ DestroyAll(ToSet(hot))
  /\ shut' = "down"
  /\ UNCHANGED <<hot, op, maint>>

(* A container dies by itself. *)
Die(c) ==
  /\ docker[c] = "running"
  /\ Set(c, "stopped")
  /\ UNCHANGED <<hot, destroyed, op, maint, shut, faults>>

----
Get(k) ==
  \/ GetHit(k) \/ CountHit(k) \/ GetMiss(k) \/ Permit(k) \/ Create(k)
  \/ Start(k) \/ StartFails(k) \/ CountMiss(k)

GiveBack(k) == CheckHealth(k) \/ DestroyUnhealthy(k) \/ Push(k)

Maintain ==
  \/ Prune \/ KillIdle \/ BeginHealthChecks \/ Inspect \/ EndHealthChecks
  \/ Refill \/ RefillStart \/ RefillPush \/ EndCycle

Next ==
  \/ \E k \in Clients : Get(k) \/ GiveBack(k) \/ Cancel(k)
  \/ Maintain
  \/ AbortMaintenance \/ DestroyPool
  \/ \E c \in Conts : Die(c)

Spec == Init /\ [][Next]_vars

----
Pooled == hot \o maint.good \o maint.kill
Holders(c) == {k \in Clients : op[k].cont = c}

(* The shape of the pool, of Docker and of the tasks' locals. *)
TypeOK ==
  /\ hot \in Seq(Conts)
  /\ docker \in [Conts -> DockerState]
  /\ destroyed \in SUBSET Conts
  /\ op \in [Clients -> [pc : {"idle", "hit", "permit", "create", "start", "created",
                               "hold", "push", "destroy"},
                         cont : Conts \cup {None}]]
  /\ maint \in [pc : {"wait", "kill", "inspect", "fill", "fillstart", "fillpush"},
                kill : Seq(Conts), good : Seq(Conts),
                need : 0..MinContainers, cont : Conts \cup {None}]
  /\ shut \in {"up", "stopping", "down"}
  /\ faults \in 0..MaxFaults

(* A container is in one place: once in the pool or on one of the lists of
   the maintenance task, or with a single client (454-544, 995-1012). *)
Exclusive ==
  /\ IsInjective(Pooled)
  /\ \A c \in Conts : Cardinality(Holders(c)) <= 1
  /\ \A k \in Clients : op[k].cont # None => op[k].cont \notin ToSet(Pooled) \cup {maint.cont}
  /\ maint.cont \notin ToSet(Pooled)

(* The refill of line 1048 uses a count taken before other clients returned
   theirs, and does not trim: it overshoots the limit by at most
   min_containers. *)
PoolOvershoot == Len(hot) + Len(maint.good) <= MaxContainers + MinContainers

(* Until shutdown, a container whose destruction was asked for is neither
   in the pool nor with a client who could still get or return it. *)
DestroyedIsUnreachable ==
  shut = "up" => /\ destroyed \cap ToSet(hot \o maint.good) = {}
                 /\ \A k \in Clients : op[k].cont \notin destroyed

(* While Docker answers and nobody is cancelled or shuts down, no running
   container is forgotten: it is in the pool or in the hands of a task. *)
NoRunningLeak ==
  faults = 0 /\ shut = "up" =>
      \A c \in Conts : docker[c] = "running" =>
          c \in ToSet(Pooled) \/ c = maint.cont \/ Holders(c) # {}

(* Every container is where the pool's tasks think it is: in one place
   while it runs, in none once its destruction was asked for. *)
PoolInv == TypeOK /\ Exclusive /\ DestroyedIsUnreachable /\ NoRunningLeak

(* A pool below min_containers is filled up again by the maintenance task,
   as long as Docker can make containers. *)
Replenishes ==
  (shut = "up" /\ Len(hot) < MinContainers) ~>
      (Len(hot) >= MinContainers \/ Exhausted \/ shut # "up")

----
====
