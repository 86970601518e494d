---- MODULE ContainerManager ----
(* ContainerManager and SandboxContainer (src/container/manager.rs and
   sandbox.rs): the registry of sandboxes behind an async RwLock, the
   permits that bound concurrent operations, the resource tracker, the
   once-only cleanup of a container with Drop as its backstop, and the
   graceful shutdown.  An operation is cut where the code awaits Docker or
   a lock.  Docker itself is external: a container there has a name, the
   name is unique among existing containers, and any call to it may fail. *)
EXTENDS Naturals, FiniteSets

CONSTANTS Workers,  \* tasks of the callers (request handlers)
          Sandboxes,  \* sandbox ids; each also names the removal task that
                      \* shutdown spawns for it
          Conts,      \* Docker container ids, each handed out once
          Permits,    \* operation_semaphore: 10 in the code
          FreshIds,   \* do callers name every new sandbox with a new id (uuid)?
          None

ASSUME ManagerAssumption ==
  /\ IsFiniteSet(Workers) /\ IsFiniteSet(Sandboxes)
  /\ Workers \cap Sandboxes = {}
  /\ Permits \in Nat \ {0}
  /\ FreshIds \in BOOLEAN
  /\ None \notin Sandboxes \cup Conts

VARIABLES
  registry,    \* containers: sandbox -> registered container, or None
  tracked,     \* resource_tracker.tracked_containers: sandbox -> container
  created,     \* metrics.total_containers_created
  cleaned,     \* metrics.total_containers_cleaned
  cleaned_up,  \* the containers whose cleaned_up flag is set
  docker,      \* state of each container in Docker
  name,        \* the sandbox whose name a Docker container carries
  clients,     \* containers of which a caller holds the Arc
  op,          \* op[k]: the operation task k is executing
  shut         \* progress of shutdown()

regVars == <<registry, tracked, created, cleaned>>
dockerVars == <<docker, name>>
vars == <<regVars, cleaned_up, dockerVars, clients, op, shut>>

Tasks == Workers \cup Sandboxes

\* "stuck": Docker still has the container, but the only removal that will
\* ever be asked for it has failed or timed out.
DockerState == {"none", "present", "stuck", "gone"}

Idle == [pc |-> "idle", sb |-> None, cont |-> None]

\* The steps at which a task holds a permit of the operation semaphore.
Working == {"create", "register", "cleanup", "docker_rm", "unregister"}
PermitFree == Cardinality({k \in Tasks : op[k].pc \in Working}) < Permits

Goto(k, pc) == op' = [op EXCEPT ![k].pc = pc]
Return(k) == op' = [op EXCEPT ![k] = Idle]

Init ==
  /\ registry = [s \in Sandboxes |-> None]
  /\ tracked = [s \in Sandboxes |-> None]
  /\ created = 0 /\ cleaned = 0
  /\ cleaned_up = {}
  /\ docker = [c \in Conts |-> "none"]
  /\ name = [c \in Conts |-> None]
  /\ clients = {}
  /\ op = [k \in Tasks |-> Idle]
  /\ shut = [phase |-> "up", late |-> FALSE]

----
\* No container and no operation has been named by it.
Fresh(s) == (\A c \in Conts : name[c] # s) /\ (\A k \in Tasks : op[k].sb # s)

BeginCreateAnyTime(w, s) ==  \* the defect: shutdown_signal is not read
  /\ op[w].pc = "idle"
  /\ PermitFree
  /\ FreshIds => Fresh(s)
  /\ op' = [op EXCEPT ![w] = [pc |-> "create", sb |-> s, cont |-> None]]
  /\ UNCHANGED <<regVars, cleaned_up, dockerVars, clients, shut>>

(* create_sandbox_container: a permit, then the shutdown flag.  A call that
   gets no permit within 30 s or sees the flag returns an error unchanged. *)
BeginCreate(w, s) ==
  /\ op[w].pc = "idle"
  /\ PermitFree
  /\ shut.phase = "up"
  /\ FreshIds => Fresh(s)
  /\ op' = [op EXCEPT ![w] = [pc |-> "create", sb |-> s, cont |-> None]]
  /\ UNCHANGED <<regVars, cleaned_up, dockerVars, clients, shut>>

Exists(c) == docker[c] \in {"present", "stuck"}

(* docker.create_container under the name soulbox-<sandbox id>. *)
CreateInDocker(w, c) ==
  /\ op[w].pc = "create"
  /\ docker[c] = "none"
  /\ \A d \in Conts : Exists(d) => name[d] # op[w].sb
  /\ docker' = [docker EXCEPT ![c] = "present"]
  /\ name' = [name EXCEPT ![c] = op[w].sb]
  /\ op' = [op EXCEPT ![w].pc = "register", ![w].cont = c]
  /\ UNCHANGED <<regVars, cleaned_up, clients, shut>>

CreateFails(w) ==
  /\ op[w].pc = "create"
  /\ Return(w)
  /\ UNCHANGED <<regVars, cleaned_up, dockerVars, clients, shut>>

RegisterUntracked(w) ==  \* the defect: track_container is not called
  LET s == op[w].sb
      c == op[w].cont
  IN  /\ op[w].pc = "register"
      /\ registry[s] = None
      /\ registry' = [registry EXCEPT ![s] = c]
      /\ clients' = clients \cup {c}
      /\ Return(w)
      /\ UNCHANGED <<tracked, created, cleaned, cleaned_up, dockerVars, shut>>

(* Check-and-insert under the registry's write lock; the caller gets an Arc. *)
Register(w) ==
  LET s == op[w].sb
      c == op[w].cont
  IN  /\ op[w].pc = "register"
      /\ registry[s] = None
      /\ registry' = [registry EXCEPT ![s] = c]
      /\ tracked' = [tracked EXCEPT ![s] = c]
      /\ created' = created + 1
      /\ clients' = clients \cup {c}
      /\ Return(w)
      /\ UNCHANGED <<cleaned, cleaned_up, dockerVars, shut>>

(* The id is taken: clean the new container up, still under the lock. *)
RegisterDuplicate(w) ==
  LET c == op[w].cont
  IN  /\ op[w].pc = "register"
      /\ registry[op[w].sb] # None
      /\ cleaned_up' = cleaned_up \cup {c}
      /\ \E r \in {"gone", "stuck"} : docker' = [docker EXCEPT ![c] = r]
      /\ Return(w)
      /\ UNCHANGED <<regVars, name, clients, shut>>

----
(* remove_container: a permit, then the container read under the read lock.
   Without an entry the call answers Ok(false). *)
BeginRemove(k, s) ==
  /\ op[k].pc = IF k \in Workers THEN "idle" ELSE "queued"
  /\ PermitFree
  /\ registry[s] # None
  /\ op' = [op EXCEPT ![k] = [pc |-> "cleanup", sb |-> s, cont |-> registry[s]]]
  /\ UNCHANGED <<regVars, cleaned_up, dockerVars, clients, shut>>

CleanupByAll(k) ==  \* the defect: a plain store for the compare_exchange
  /\ op[k].pc = "cleanup"
  /\ Goto(k, "docker_rm")
  /\ cleaned_up' = cleaned_up \cup {op[k].cont}
  /\ UNCHANGED <<regVars, dockerVars, clients, shut>>

CleanupInverted(k) ==  \* the defect: the result of the exchange is inverted
  /\ op[k].pc = "cleanup"
  /\ Goto(k, IF op[k].cont \in cleaned_up THEN "docker_rm" ELSE "unregister")
  /\ cleaned_up' = cleaned_up \cup {op[k].cont}
  /\ UNCHANGED <<regVars, dockerVars, clients, shut>>

CleanupUnflagged(k) ==  \* the defect: the flag is not set
  /\ op[k].pc = "cleanup"
  /\ Goto(k, IF op[k].cont \in cleaned_up THEN "unregister" ELSE "docker_rm")
  /\ UNCHANGED <<regVars, cleaned_up, dockerVars, clients, shut>>

(* SandboxContainer::cleanup: the first caller sets the flag and goes on to
   Docker, any other returns at once. *)
Cleanup(k) ==
  /\ op[k].pc = "cleanup"
  /\ Goto(k, IF op[k].cont \in cleaned_up THEN "unregister" ELSE "docker_rm")
  /\ cleaned_up' = cleaned_up \cup {op[k].cont}
  /\ UNCHANGED <<regVars, dockerVars, clients, shut>>

(* Stop, then forced removal within 30 s; an error or a timeout is logged
   and swallowed. *)
RemoveFromDocker(k) ==
  /\ op[k].pc = "docker_rm"
  /\ \E r \in {"gone", "stuck"} : docker' = [docker EXCEPT ![op[k].cont] = r]
  /\ Goto(k, "unregister")
  /\ UNCHANGED <<regVars, cleaned_up, name, clients, shut>>

UnregisterCountsAll(k) ==  \* the defect: the metric does not ask what was untracked
  LET s == op[k].sb
  IN  /\ op[k].pc = "unregister"
      /\ registry' = [registry EXCEPT ![s] = None]
      /\ tracked' = [tracked EXCEPT ![s] = None]
      /\ cleaned' = cleaned + 1
      /\ Return(k)
      /\ UNCHANGED <<created, cleaned_up, dockerVars, clients, shut>>

(* Under the write lock: drop whatever entry the sandbox id has by now, and
   untrack it if there was one. *)
Unregister(k) ==
  LET s == op[k].sb
      untracks == registry[s] # None /\ tracked[s] # None
  IN  /\ op[k].pc = "unregister"
      /\ registry' = [registry EXCEPT ![s] = None]
      /\ tracked' = IF untracks THEN [tracked EXCEPT ![s] = None] ELSE tracked
      /\ cleaned' = IF untracks THEN cleaned + 1 ELSE cleaned
      /\ Return(k)
      /\ UNCHANGED <<created, cleaned_up, dockerVars, clients, shut>>

----
(* A request handler's future is dropped at an await when its client
   disconnects: the permit and the Arc are released, and a Docker call in
   flight may or may not take effect.  A container created that way has no
   SandboxContainer, and one whose cleanup was cut short keeps its
   cleaned_up flag: nobody will ask for their removal again. *)
CancelInDocker(w) ==
  \/ /\ op[w].pc = "create"
     /\ \E c \in Conts :
          /\ docker[c] = "none"
          /\ \A d \in Conts : Exists(d) => name[d] # op[w].sb
          /\ docker' = [docker EXCEPT ![c] = "stuck"]
          /\ name' = [name EXCEPT ![c] = op[w].sb]
  \/ /\ op[w].pc = "docker_rm"
     /\ \E r \in {"gone", "stuck"} : docker' = [docker EXCEPT ![op[w].cont] = r]
     /\ UNCHANGED name

\* untrack_container awaits the tracker's lock after the entry is gone.
CancelUntracking(w) ==
  /\ op[w].pc = "unregister"
  /\ registry' = [registry EXCEPT ![op[w].sb] = None]
  /\ UNCHANGED <<tracked, created, cleaned, dockerVars>>

Cancel(w) ==
  /\ \/ CancelInDocker(w) /\ UNCHANGED regVars
     \/ CancelUntracking(w)
     \/ op[w].pc \in {"create", "register", "unregister"} /\ UNCHANGED <<regVars, dockerVars>>
  /\ Return(w)
  /\ UNCHANGED <<cleaned_up, clients, shut>>

----
(* get_container clones the registered Arc; callers drop theirs when done. *)
GetContainer(s) ==
  /\ registry[s] # None
  /\ clients' = clients \cup {registry[s]}
  /\ UNCHANGED <<regVars, cleaned_up, dockerVars, op, shut>>

ClientDrops(c) ==
  /\ clients' = clients \ {c}
  /\ c \in clients
  /\ UNCHANGED <<regVars, cleaned_up, dockerVars, op, shut>>

Referenced(c) ==
  \/ c \in clients
  \/ \E s \in Sandboxes : registry[s] = c
  \/ \E k \in Tasks : op[k].cont = c

DropQuietly(c) ==  \* the defect: the flag is set, Docker is not asked
  /\ docker[c] = "present"
  /\ ~Referenced(c)
  /\ c \notin cleaned_up
  /\ cleaned_up' = cleaned_up \cup {c}
  /\ UNCHANGED <<regVars, dockerVars, clients, op, shut>>

(* Drop of the last Arc: unless cleanup has run, force the removal. *)
DropLast(c) ==
  /\ docker[c] = "present"
  /\ ~Referenced(c)
  /\ c \notin cleaned_up
  /\ cleaned_up' = cleaned_up \cup {c}
  /\ \E r \in {"gone", "stuck"} : docker' = [docker EXCEPT ![c] = r]
  /\ UNCHANGED <<regVars, name, clients, op, shut>>

----
(* shutdown: set the flag; wait up to 3 s for every permit; take the keys
   of the registry and spawn one remove_container per key; join them; clear
   the tracker. *)
SignalShutdown ==
  /\ shut.phase = "up"
  /\ shut' = [shut EXCEPT !.phase = "draining"]
  /\ UNCHANGED <<regVars, cleaned_up, dockerVars, clients, op>>

Drained == \A k \in Tasks : op[k].pc \notin Working

SpawnRemovals ==
  /\ shut.phase = "draining"
  /\ shut' = [phase |-> "removing", late |-> ~Drained]
  /\ op' = [k \in Tasks |-> IF k \in Sandboxes /\ registry[k] # None
                            THEN [Idle EXCEPT !.pc = "queued"] ELSE op[k]]
  /\ UNCHANGED <<regVars, cleaned_up, dockerVars, clients>>

(* A spawned removal finds no entry, or waits 30 s in vain for a permit. *)
RemovalVoid(s) ==
  /\ op[s].pc = "queued"
  /\ \/ registry[s] = None /\ Return(s)
     \/ ~PermitFree /\ Goto(s, "timedout")
  /\ UNCHANGED <<regVars, cleaned_up, dockerVars, clients, shut>>

FinishShutdown ==
  /\ shut.phase = "removing"
  /\ \A s \in Sandboxes : op[s].pc \in {"idle", "timedout"}
  /\ tracked' = [s \in Sandboxes |-> None]
  /\ shut' = [shut EXCEPT !.phase = "down"]
  /\ UNCHANGED <<registry, created, cleaned, cleaned_up, dockerVars, clients, op>>

----
Call(w) == \E s \in Sandboxes : BeginCreate(w, s) \/ BeginRemove(w, s)

Create(w) ==
  \/ \E c \in Conts : CreateInDocker(w, c)
  \/ CreateFails(w)
  \/ Register(w)
  \/ RegisterDuplicate(w)

Remove(k) == Cleanup(k) \/ RemoveFromDocker(k) \/ Unregister(k)

SpawnedRemoval(s) == BeginRemove(s, s) \/ RemovalVoid(s)

Next ==
  \/ \E w \in Workers : Call(w) \/ Create(w) \/ Cancel(w)
  \/ \E k \in Tasks : Remove(k)
  \/ \E s \in Sandboxes : GetContainer(s) \/ SpawnedRemoval(s)
  \/ \E c \in Conts : ClientDrops(c) \/ DropLast(c)
  \/ SignalShutdown \/ SpawnRemovals \/ FinishShutdown

Spec == Init /\ [][Next]_vars

----
(* The typed shape of the manager's state and of a task's locals. *)
TypeOK ==
  /\ registry \in [Sandboxes -> Conts \cup {None}]
  /\ tracked \in [Sandboxes -> Conts \cup {None}]
  /\ created \in Nat /\ cleaned \in Nat
  /\ cleaned_up \in SUBSET Conts
  /\ docker \in [Conts -> DockerState]
  /\ name \in [Conts -> Sandboxes \cup {None}]
  /\ clients \in SUBSET Conts
  /\ op \in [Tasks -> [pc : Working \cup {"idle", "queued", "timedout"},
                       sb : Sandboxes \cup {None},
                       cont : Conts \cup {None}]]
  /\ shut \in [phase : {"up", "draining", "removing", "down"}, late : BOOLEAN]

(* What is registered is tracked, until shutdown clears the tracker: both
   change under the registry's write lock (411-429, 498-505), but the await
   between them is a place to be cancelled. *)
RegisteredIsTracked ==
  shut.phase # "down" =>
      \A s \in Sandboxes : registry[s] # None => tracked[s] = registry[s]

(* The metrics never claim more cleanups than there were, and with unique
   ids they balance: what was created and not cleaned is tracked. *)
MetricsBalance ==
  LET counted == cleaned + Cardinality({s \in Sandboxes : tracked[s] # None})
  IN  shut.phase # "down" => IF FreshIds THEN created = counted ELSE created >= counted

(* A container's Docker removal is asked for by one task at a time and by
   the one that set cleaned_up (the compare_exchange of line 373), even
   when several removals of a sandbox and the drop of its last Arc race. *)
Removing(c) == {k \in Tasks : op[k].pc = "docker_rm" /\ op[k].cont = c}

CleanupOnce ==
  \A c \in Conts : /\ Cardinality(Removing(c)) <= 1
                   /\ Removing(c) # {} => c \in cleaned_up /\ docker[c] = "present"

(* No container is forgotten: if its cleaned_up flag is set while Docker
   has it, a task is about to ask Docker for its removal. *)
NoOrphan ==
  \A c \in Conts : docker[c] = "present" /\ c \in cleaned_up => Removing(c) # {}

(* After a shutdown that saw all permits return, only a sandbox whose
   removal task waited in vain for a permit is still registered. *)
CleanShutdown ==
  shut.phase = "down" /\ ~shut.late =>
      \A s \in Sandboxes : registry[s] # None => op[s].pc = "timedout"

(* The metrics balance, and what a shutdown leaves behind is accounted for. *)
ManagerInv == TypeOK /\ MetricsBalance /\ CleanShutdown

(* An unregistered container is one whose cleanup has begun: with unique
   sandbox ids, remove_container takes out the entry it cleaned. *)
RemovesWhatItCleaned ==
  [][\A s \in Sandboxes : registry[s] # None /\ registry'[s] = None =>
        registry[s] \in cleaned_up]_vars

(* A container nobody can reach any more is removed from Docker, or its
   one removal has failed. *)
UnreachableIsRemoved ==
  \A c \in Conts : (docker[c] = "present" /\ ~Referenced(c)) ~> docker[c] \in {"gone", "stuck"}

(* Shutdown, once signalled, ends. *)
ShutdownEnds == (shut.phase = "draining") ~> (shut.phase = "down")

----
====
