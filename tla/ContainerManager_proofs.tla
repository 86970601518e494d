---- MODULE ContainerManager_proofs ----
(* Theorems about the container manager, for any number of tasks, sandbox
   ids, Docker containers and permits, whether or not ids are reused. *)
EXTENDS ContainerManager, FiniteSetTheorems, TLAPS

PC == Working \cup {"idle", "queued", "timedout"}
Locals == [pc : PC, sb : Sandboxes \cup {None}, cont : Conts \cup {None}]

\* A task that is about to register a container or to clean one up has one.
HasCont(k) == op[k].pc \in {"register", "cleanup", "docker_rm"}
CarriesCont == \A k \in Tasks : HasCont(k) => op[k].cont \in Conts

Typed == TypeOK /\ CarriesCont

\* What a step does to op: one task gets new locals.
LEMMA TypedLocals ==
  ASSUME op \in [Tasks -> Locals], CarriesCont, NEW k \in Tasks, NEW r \in Locals,
         r.pc \in {"register", "cleanup", "docker_rm"} => r.cont \in Conts,
         op' = [op EXCEPT ![k] = r]
  PROVE  op' \in [Tasks -> Locals] /\ CarriesCont'
  BY DEF HasCont, CarriesCont

\* The new locals of a task that moves on, and of one that returns.
LEMMA GotoLocals ==
  ASSUME op \in [Tasks -> Locals], NEW k \in Tasks, NEW pc \in PC, Goto(k, pc)
  PROVE  \E r \in Locals : /\ r.pc = pc /\ r.sb = op[k].sb /\ r.cont = op[k].cont
                           /\ op' = [op EXCEPT ![k] = r]
<1> DEFINE r == [op[k] EXCEPT !.pc = pc]
<1>1. r \in Locals /\ r.pc = pc /\ r.sb = op[k].sb /\ r.cont = op[k].cont BY DEF Locals
<1>2. QED BY <1>1 DEF Goto

LEMMA IdleLocals == Idle \in Locals /\ Idle.pc = "idle" /\ Idle.cont = None
  BY DEF Idle, Locals, PC

----
LEMMA TypedCreate ==
  ASSUME Typed, NEW w \in Workers, (\E s \in Sandboxes : BeginCreate(w, s)) \/ Create(w)
  PROVE  Typed'
<1> USE DEF Typed, TypeOK
<1>0. op \in [Tasks -> Locals] /\ w \in Tasks BY DEF Locals, PC, Tasks
<1>1. ASSUME NEW s \in Sandboxes, BeginCreate(w, s) PROVE Typed'
  BY <1>0, <1>1, TypedLocals DEF Locals, PC, Working, BeginCreate, regVars, dockerVars
<1>2. ASSUME NEW c \in Conts, CreateInDocker(w, c) PROVE Typed'
  <2>1. PICK r \in Locals : r = [op[w] EXCEPT !.pc = "register", !.cont = c]
    BY <1>0 DEF Locals, PC, Working
  <2>2. r.pc = "register" /\ r.cont = c /\ op' = [op EXCEPT ![w] = r]
    BY <1>0, <1>2, <2>1 DEF CreateInDocker
  <2>3. op' \in [Tasks -> Locals] /\ CarriesCont' BY <1>0, <2>2, TypedLocals
  <2>4. QED BY <1>2, <2>3 DEF CreateInDocker, regVars, Locals, PC, DockerState
<1>3. ASSUME CreateFails(w) PROVE Typed'
  BY <1>0, <1>3, IdleLocals, TypedLocals DEF CreateFails, Return, regVars, dockerVars, Locals, PC
<1>4. ASSUME Register(w) PROVE Typed'
  <2>1. created' \in Nat /\ clients' \in SUBSET Conts
    BY <1>4, <1>0 DEF Register, CarriesCont, HasCont
  <2>2. QED BY <1>4, <1>0, IdleLocals, TypedLocals, <2>1 DEF Register, dockerVars, Locals, PC, Return
<1>5. ASSUME RegisterDuplicate(w) PROVE Typed'
  BY <1>0, <1>5, IdleLocals, TypedLocals DEF RegisterDuplicate, Return, CarriesCont, HasCont, DockerState, regVars, Locals, PC
<1>6. QED BY <1>1, <1>2, <1>3, <1>4, <1>5 DEF Create

LEMMA TypedRemove ==
  ASSUME Typed, NEW k \in Tasks, (\E s \in Sandboxes : BeginRemove(k, s)) \/ Remove(k)
  PROVE  Typed'
<1> USE DEF Typed, TypeOK
<1>1. ASSUME NEW s \in Sandboxes, BeginRemove(k, s) PROVE Typed'
  BY <1>1, TypedLocals DEF BeginRemove, Locals, PC, Working, regVars, dockerVars
<1>2. ASSUME Cleanup(k) PROVE Typed'
  BY <1>2, GotoLocals, TypedLocals DEF Cleanup, CarriesCont, HasCont, PC, Working, regVars, dockerVars, Locals
<1>3. ASSUME RemoveFromDocker(k) PROVE Typed'
  BY <1>3, GotoLocals, TypedLocals DEF RemoveFromDocker, CarriesCont, HasCont, PC, Working, DockerState, regVars, Locals
<1>4. ASSUME Unregister(k) PROVE Typed'
  <2>1. op' \in [Tasks -> Locals] /\ CarriesCont'
    BY <1>4, IdleLocals, TypedLocals DEF Unregister, Return, Locals, PC
  <2>2. registry' \in [Sandboxes -> Conts \cup {None}] BY <1>4 DEF Unregister
  <2>3. QED BY <1>4, <2>1, <2>2 DEF Unregister, dockerVars, Locals, PC
<1>5. QED BY <1>1, <1>2, <1>3, <1>4 DEF Remove

LEMMA TypedCancel ==
  ASSUME Typed, NEW w \in Workers, Cancel(w)
  PROVE  Typed'
<1> USE DEF Typed, TypeOK
<1>1. docker' \in [Conts -> DockerState] /\ name' \in [Conts -> Sandboxes \cup {None}]
  BY DEF CancelInDocker, DockerState, dockerVars, Cancel, CancelUntracking, Locals, PC, Tasks
<1>2. QED BY IdleLocals, TypedLocals, <1>1 DEF Cancel, Locals, PC, Return, Tasks, CancelUntracking, regVars

LEMMA TypedReferences ==
  ASSUME Typed, \/ \E s \in Sandboxes : GetContainer(s)
                \/ \E c \in Conts : ClientDrops(c) \/ DropLast(c)
  PROVE  Typed'
  BY DEF Typed, TypeOK, GetContainer, regVars, dockerVars, CarriesCont, HasCont, ClientDrops, DropLast, DockerState

LEMMA TypedShutdown ==
  ASSUME Typed, \/ \E s \in Sandboxes : RemovalVoid(s)
                \/ SignalShutdown \/ SpawnRemovals \/ FinishShutdown
  PROVE  Typed'
<1> USE DEF Typed, TypeOK
<1>0. op \in [Tasks -> Locals] /\ Sandboxes \subseteq Tasks BY DEF Locals, PC, Tasks
<1>1. ASSUME NEW s \in Sandboxes, RemovalVoid(s) PROVE Typed'
  BY <1>1, <1>0, IdleLocals, TypedLocals, GotoLocals DEF RemovalVoid, regVars, dockerVars, Locals, PC, Return
<1>2. ASSUME SignalShutdown PROVE Typed'
  BY <1>2 DEF SignalShutdown, regVars, dockerVars, CarriesCont, HasCont
<1>3. ASSUME SpawnRemovals PROVE Typed'
  BY <1>3, <1>0 DEF Idle, Locals, PC, SpawnRemovals, CarriesCont, HasCont, regVars, dockerVars
<1>4. ASSUME FinishShutdown PROVE Typed'
  BY <1>4 DEF FinishShutdown, dockerVars, CarriesCont, HasCont
<1>5. QED BY <1>1, <1>2, <1>3, <1>4

LEMMA TypedStep == Typed /\ [Next]_vars => Typed'
<1> SUFFICES ASSUME Typed, [Next]_vars PROVE Typed' OBVIOUS
<1>1. CASE UNCHANGED vars
  BY <1>1 DEF Typed, TypeOK, CarriesCont, HasCont, vars, regVars, dockerVars
<1>2. CASE Next
  BY <1>2, TypedCreate, TypedRemove, TypedCancel, TypedReferences, TypedShutdown DEF Next, Call, SpawnedRemoval, Tasks
<1>3. QED BY <1>1, <1>2

LEMMA TypedInit == Init => Typed
  BY DEF Init, Typed, TypeOK, CarriesCont, HasCont, Idle, DockerState

(* Type correctness of the registry, the tracker, Docker's containers and
   every task's locals, through creation, removal, cancellation, drop and
   shutdown (manager.rs 404-513 and 698-745). *)
THEOREM TypeCorrect == Spec => []TypeOK
<1>1. Typed => TypeOK BY DEF Typed
<1>2. QED BY <1>1, TypedInit, TypedStep, PTL DEF Spec

LEMMA TypedAlways == Spec => []Typed
  BY TypedInit, TypedStep, PTL DEF Spec

----
\* The invariant of cleanup.  Known: what can be reached and has not been
\* cleaned up is in Docker.  Made: a container that Docker has not made has
\* not been cleaned up.  Private: nobody else has a container before it is
\* registered.  Removers and OneRemover are CleanupOnce without its
\* cardinality.
Known == \A c \in Conts : Referenced(c) => docker[c] = "present" \/ c \in cleaned_up
Made == \A c \in Conts : Referenced(c) \/ c \in cleaned_up => docker[c] # "none"
Private ==
  \A k \in Tasks : op[k].pc = "register" =>
      /\ op[k].cont \notin cleaned_up
      /\ \A s \in Sandboxes : registry[s] # op[k].cont
      /\ \A l \in Tasks : op[l].cont = op[k].cont => l = k
Removers ==
  \A k \in Tasks : op[k].pc = "docker_rm" =>
      op[k].cont \in cleaned_up /\ docker[op[k].cont] = "present"
OneRemover ==
  \A k, l \in Tasks : op[k].pc = "docker_rm" /\ op[l].pc = "docker_rm"
                      /\ op[k].cont = op[l].cont => k = l
Remembered ==
  \A c \in Conts : docker[c] = "present" /\ c \in cleaned_up =>
      \E k \in Tasks : op[k].pc = "docker_rm" /\ op[k].cont = c

CleanupInv == Known /\ Made /\ Private /\ Removers /\ OneRemover /\ Remembered

\* Removal tasks are spawned by shutdown and not before.
Unspawned == shut.phase \in {"up", "draining"} => \A s \in Sandboxes : op[s].pc = "idle"

LEMMA UnspawnedStep == Typed /\ Unspawned /\ [Next]_vars => Unspawned'
<1> SUFFICES ASSUME Typed, Unspawned, [Next]_vars, shut'.phase \in {"up", "draining"},
                    NEW s \in Sandboxes
             PROVE  op'[s].pc = "idle"
  BY DEF Unspawned
<1> USE ManagerAssumption DEF Typed, TypeOK, Unspawned, Tasks
<1>1. ASSUME NEW w \in Workers,
             Call(w) \/ Create(w) \/ Cancel(w)
      PROVE  op'[s].pc = "idle"
  BY <1>1 DEF Call, Create, Cancel, BeginCreate, BeginRemove, CreateInDocker, CreateFails, Register, RegisterDuplicate, Return
<1>2. ASSUME NEW k \in Tasks, Remove(k) PROVE op'[s].pc = "idle"
  BY <1>2 DEF Remove, Cleanup, RemoveFromDocker, Unregister, Goto, Return
<1>3. ASSUME NEW t \in Sandboxes, SpawnedRemoval(t) PROVE op'[s].pc = "idle"
  BY <1>3 DEF SpawnedRemoval, BeginRemove, RemovalVoid
<1>4. ASSUME SignalShutdown PROVE op'[s].pc = "idle" BY <1>4 DEF SignalShutdown
<1>5. QED BY <1>1, <1>2, <1>3, <1>4 DEF Next, GetContainer, ClientDrops, DropLast, vars, SpawnRemovals, FinishShutdown

\* A step that removes no container, makes none and cleans none up.
LEMMA CleanupSame ==
  ASSUME CleanupInv, UNCHANGED <<docker, cleaned_up>>,
         \A c \in Conts : Referenced(c)' => Referenced(c),
         \A k \in Tasks : op'[k].pc = "docker_rm" \/ op[k].pc = "docker_rm" => op'[k] = op[k],
         \A k \in Tasks : op'[k].pc = "register" =>
             /\ op'[k] = op[k]
             /\ \A s \in Sandboxes : registry'[s] # op[k].cont
             /\ \A l \in Tasks : op'[l].cont = op[k].cont => l = k
  PROVE  CleanupInv'
  BY DEF CleanupInv, Known, Made, Private, Removers, OneRemover, Remembered

\* Such a step of one task: what it holds, registers or hands to a client is
\* what it held or what was registered.
LEMMA MovesOn ==
  ASSUME Typed, CleanupInv, UNCHANGED <<docker, cleaned_up>>,
         NEW k \in Tasks, NEW r \in Locals, op' = [op EXCEPT ![k] = r],
         op[k].pc # "docker_rm", r.pc \notin {"register", "docker_rm"},
         \/ r.cont \in {None, op[k].cont}
         \/ \E s \in Sandboxes : registry[s] = r.cont,
         \A s \in Sandboxes : registry'[s] \in {registry[s], None, op[k].cont},
         clients' \subseteq clients \cup {op[k].cont}
  PROVE  CleanupInv'
  BY ManagerAssumption, CleanupSame DEF Typed, TypeOK, Referenced, CarriesCont, HasCont, CleanupInv, Private

\* A step of no task that drops references or registers nothing new.
LEMMA StaysPut ==
  ASSUME CleanupInv, UNCHANGED <<docker, cleaned_up, op, registry>>,
         \A c \in clients' : c \in clients \/ \E s \in Sandboxes : registry[s] = c
  PROVE  CleanupInv'
  BY CleanupSame DEF Referenced, CleanupInv, Private

----
LEMMA CleanupCreate ==
  ASSUME Typed, CleanupInv, NEW w \in Workers, NEW c \in Conts, CreateInDocker(w, c)
  PROVE  CleanupInv'
<1> USE DEF CleanupInv
<1>1. PICK r \in Locals : /\ r.pc = "register" /\ r.cont = c
                          /\ op' = [op EXCEPT ![w] = r]
  <2>1. PICK r \in Locals : r = [op[w] EXCEPT !.pc = "register", !.cont = c]
    BY DEF Typed, TypeOK, Locals, PC, Working, Tasks
  <2>2. QED BY <2>1 DEF CreateInDocker, Tasks, Locals
<1>2. Removers' /\ OneRemover'
  BY <1>1 DEF Removers, OneRemover, Typed, CarriesCont, HasCont, CreateInDocker, regVars, TypeOK
<1>3. QED BY <1>1, <1>2 DEF Known, Made, Referenced, Private, CreateInDocker, regVars, Typed, TypeOK, Remembered, Tasks

\* The task that alone has a container, or alone removes it, is done with it.
LEMMA CleanupDone ==
  ASSUME Typed, CleanupInv, NEW k \in Tasks, NEW r \in Locals, op' = [op EXCEPT ![k] = r],
         op[k].pc \in {"register", "docker_rm"}, r.pc \notin {"register", "docker_rm"},
         r.cont \in {None, op[k].cont},
         \E d \in {"gone", "stuck"} : docker' = [docker EXCEPT ![op[k].cont] = d],
         cleaned_up' = cleaned_up \cup {op[k].cont},
         UNCHANGED <<registry, clients>>
  PROVE  CleanupInv'
<1> USE DEF CleanupInv
<1> DEFINE c == op[k].cont
<1>1. ASSUME NEW d \in Conts, Referenced(d)' PROVE Referenced(d)
  BY <1>1, ManagerAssumption DEF Referenced
<1>2. Known' /\ Made'
  BY ManagerAssumption, <1>1 DEF Known, Made, Typed, TypeOK, c, CarriesCont, HasCont
<1>3. QED BY <1>2, ManagerAssumption DEF Private, Typed, CarriesCont, HasCont, Removers, OneRemover, TypeOK, Remembered

LEMMA CleanupCleanup ==
  ASSUME Typed, CleanupInv, NEW k \in Tasks, Cleanup(k)
  PROVE  CleanupInv'
<1> USE DEF CleanupInv
<1>1. op[k].cont \in Conts /\ op[k].pc = "cleanup"
  BY DEF Cleanup, Typed, CarriesCont, HasCont
<1>2. PICK c \in Conts : c = op[k].cont BY <1>1
<1>3. PICK r \in Locals : /\ r.pc = IF c \in cleaned_up THEN "unregister" ELSE "docker_rm"
                          /\ r.cont = c /\ op' = [op EXCEPT ![k] = r]
  BY <1>2, GotoLocals DEF Typed, TypeOK, Locals, PC, Cleanup, Working
<1>4. op'[k] = r /\ \A l \in Tasks \ {k} : op'[l] = op[l] BY <1>3 DEF Typed, TypeOK
<1>5. cleaned_up' = cleaned_up \cup {c} /\ UNCHANGED <<registry, clients, docker>>
  BY <1>2 DEF Cleanup, regVars, dockerVars
<1>6. CASE c \in cleaned_up BY <1>1, <1>2, <1>3, <1>5, <1>6, MovesOn
<1>7. CASE c \notin cleaned_up
  BY <1>2, <1>7, <1>3, <1>5, <1>4, <1>1 DEF Known, Referenced, Made, Private, Removers, OneRemover, Remembered
<1>8. QED BY <1>6, <1>7

\* Docker made a container for a call that is gone.
LEMMA CleanupLost ==
  ASSUME Typed, CleanupInv, NEW w \in Workers, NEW c \in Conts,
         op[w].pc = "create", docker[c] = "none",
         docker' = [docker EXCEPT ![c] = "stuck"], Return(w),
         UNCHANGED <<cleaned_up, clients, registry>>
  PROVE  CleanupInv'
<1> USE DEF CleanupInv
<1>1. /\ w \in Tasks /\ op'[w] = Idle /\ \A l \in Tasks \ {w} : op'[l] = op[l]
      /\ Idle.pc = "idle" /\ Idle.cont = None
  BY IdleLocals DEF Return, Typed, TypeOK, Tasks
<1>2. QED BY <1>1, ManagerAssumption DEF Known, Made, Referenced, Removers, OneRemover, Remembered, Private, Typed,
    CarriesCont, HasCont

LEMMA CleanupDrop ==
  ASSUME Typed, CleanupInv, NEW c \in Conts, DropLast(c)
  PROVE  CleanupInv'
<1> USE DEF CleanupInv
<1>1. Private' /\ Removers' /\ OneRemover'
  BY DEF Private, Removers, OneRemover, Referenced, Typed, CarriesCont, HasCont, DropLast, regVars, TypeOK
<1>2. QED BY <1>1 DEF Known, Made, DropLast, Referenced, Remembered, regVars, Typed, TypeOK

LEMMA CleanupCancel ==
  ASSUME Typed, CleanupInv, NEW w \in Workers, Cancel(w)
  PROVE  CleanupInv'
<1>0. w \in Tasks /\ op' = [op EXCEPT ![w] = Idle] /\ UNCHANGED <<cleaned_up, clients>>
  BY DEF Cancel, Return, Tasks
<1>1. CASE CancelInDocker(w) /\ UNCHANGED regVars
  <2>1. CASE op[w].pc = "create"
    BY <1>1, <2>1, <1>0, CleanupLost DEF CancelInDocker, Return, regVars
  <2>2. CASE op[w].pc = "docker_rm"
    BY <1>0, <2>2, <1>1, IdleLocals, CleanupDone DEF CleanupInv, Removers, regVars, CancelInDocker
  <2>3. QED BY <1>1, <2>1, <2>2 DEF CancelInDocker
<1>2. CASE UNCHANGED dockerVars /\ op[w].pc \in {"create", "register", "unregister"}
           /\ (CancelUntracking(w) \/ UNCHANGED regVars)
  BY <1>2, <1>0, IdleLocals, MovesOn DEF CancelUntracking, regVars, Typed, TypeOK, dockerVars
<1>3. QED BY <1>1, <1>2 DEF Cancel, CancelUntracking

LEMMA CleanupStep == Typed /\ Unspawned /\ CleanupInv /\ [Next]_vars => CleanupInv'
<1> SUFFICES ASSUME Typed, Unspawned, CleanupInv, [Next]_vars PROVE CleanupInv' OBVIOUS
<1>0. op \in [Tasks -> Locals] /\ Workers \subseteq Tasks /\ Sandboxes \subseteq Tasks
  BY DEF Typed, TypeOK, Locals, PC, Tasks
<1>1. ASSUME NEW w \in Workers, NEW s \in Sandboxes, BeginCreate(w, s) PROVE CleanupInv'
  BY <1>0, <1>1, MovesOn DEF Locals, PC, Working, BeginCreate, regVars, dockerVars
<1>2. ASSUME NEW k \in Tasks, NEW s \in Sandboxes, BeginRemove(k, s) PROVE CleanupInv'
  BY <1>2, MovesOn DEF Locals, PC, Working, Typed, TypeOK, BeginRemove, regVars, dockerVars
<1>3. ASSUME NEW w \in Workers, Create(w) PROVE CleanupInv'
  <2>1. ASSUME CreateFails(w) PROVE CleanupInv'
    BY <1>0, <2>1, IdleLocals, MovesOn DEF CreateFails, Return, regVars, dockerVars
  <2>2. ASSUME Register(w) PROVE CleanupInv'
    BY <2>2, <1>0, IdleLocals, MovesOn DEF Register, Typed, TypeOK, Return, dockerVars
  <2>3. ASSUME RegisterDuplicate(w) PROVE CleanupInv'
    BY <2>3, <1>0, IdleLocals, CleanupDone DEF RegisterDuplicate, regVars, Return
  <2>4. QED BY <1>3, <2>1, <2>2, <2>3, CleanupCreate DEF Create
<1>4. ASSUME NEW k \in Tasks, Remove(k) PROVE CleanupInv'
  <2>1. ASSUME RemoveFromDocker(k) PROVE CleanupInv'
    <3>1. PICK r \in Locals : /\ r.pc = "unregister" /\ r.cont = op[k].cont
                              /\ op' = [op EXCEPT ![k] = r]
      BY <1>0, <2>1, GotoLocals DEF RemoveFromDocker, PC, Working
    <3>2. QED BY <2>1, <3>1, CleanupDone DEF RemoveFromDocker, regVars, CleanupInv, Removers
  <2>2. ASSUME Unregister(k) PROVE CleanupInv'
    BY <2>2, IdleLocals, MovesOn DEF Unregister, Typed, TypeOK, Return, dockerVars
  <2>3. QED BY <1>4, <2>1, <2>2, CleanupCleanup DEF Remove
<1>5. ASSUME NEW s \in Sandboxes, GetContainer(s) PROVE CleanupInv'
  BY <1>5, StaysPut DEF GetContainer, regVars, dockerVars
<1>6. ASSUME NEW c \in Conts, ClientDrops(c) PROVE CleanupInv'
  BY <1>6, StaysPut DEF ClientDrops, regVars, dockerVars
<1>7. ASSUME NEW s \in Sandboxes, RemovalVoid(s) PROVE CleanupInv'
  BY IdleLocals, <1>0, GotoLocals, <1>7, MovesOn DEF Return, PC, RemovalVoid, regVars, dockerVars
<1>8. ASSUME SignalShutdown PROVE CleanupInv'
  BY <1>8, StaysPut DEF SignalShutdown, regVars, dockerVars
<1>9. ASSUME SpawnRemovals PROVE CleanupInv'
  <2>1. PICK r \in Locals : r = [Idle EXCEPT !.pc = "queued"] BY DEF Idle, Locals, PC
  <2>2. UNCHANGED <<docker, cleaned_up, registry, clients>>
    BY <1>9 DEF SpawnRemovals, regVars, dockerVars
  <2>3. ASSUME NEW k \in Tasks, op'[k].pc = "register"
        PROVE  /\ op'[k] = op[k]
               /\ \A s \in Sandboxes : registry'[s] # op[k].cont
               /\ \A l \in Tasks : op'[l].cont = op[k].cont => l = k
    BY <1>9, <2>1, <2>2, <2>3, ManagerAssumption DEF CleanupInv, Private, Typed, CarriesCont, HasCont, SpawnRemovals, Idle
  <2>4. QED BY <2>2, <1>9, <2>1, ManagerAssumption, <2>3, CleanupSame DEF Referenced, SpawnRemovals, Idle, Unspawned
<1>10. ASSUME FinishShutdown PROVE CleanupInv'
  BY <1>10, StaysPut DEF FinishShutdown, dockerVars
<1>11. ASSUME UNCHANGED vars PROVE CleanupInv'
  BY <1>11, StaysPut DEF vars, regVars, dockerVars
<1>12. QED BY <1>0, <1>1, <1>2, <1>3, <1>4, <1>5, <1>6, <1>7, <1>8, <1>9, <1>10, <1>11, CleanupCancel, CleanupDrop DEF
    Next, Call, SpawnedRemoval

LEMMA CleanupInit == Init => Unspawned /\ CleanupInv
  BY IdleLocals, ManagerAssumption DEF Init, Referenced, Unspawned, CleanupInv, Known, Made, Private, Removers,
    OneRemover, Remembered, Tasks

LEMMA CleanupAlways == Spec => [](Typed /\ Unspawned /\ CleanupInv)
  BY TypedInit, TypedStep, UnspawnedStep, CleanupInit, CleanupStep, PTL DEF Spec

(* However many removals, disconnects and drops race for a container, one
   task asks Docker for its removal and the container is there for it to
   remove (sandbox.rs 372-413 and 843-906). *)
THEOREM CleanupOnceAlways == Spec => []CleanupOnce
<1>1. ASSUME Typed, CleanupInv PROVE CleanupOnce
  <2> SUFFICES ASSUME NEW c \in Conts
               PROVE  /\ Cardinality(Removing(c)) <= 1
                      /\ Removing(c) # {} => c \in cleaned_up /\ docker[c] = "present"
    BY DEF CleanupOnce
  <2>1. Removing(c) # {} => c \in cleaned_up /\ docker[c] = "present"
    BY <1>1 DEF Removing, CleanupInv, Removers
  <2>2. CASE Removing(c) = {} BY <2>2, FS_EmptySet
  <2>3. CASE Removing(c) # {}
    <3>1. PICK k : Removing(c) = {k} BY <1>1, <2>3 DEF Removing, CleanupInv, OneRemover
    <3>2. QED BY <2>1, <3>1, FS_Singleton
  <2>4. QED BY <2>2, <2>3
<1>2. QED BY <1>1, CleanupAlways, PTL

(* No container is marked as cleaned up, so that no later removal or drop
   asks for it, and left in Docker without a task about to remove it. *)
THEOREM NoOrphanAlways == Spec => []NoOrphan
<1>1. ASSUME CleanupInv PROVE NoOrphan
  BY <1>1 DEF NoOrphan, Removing, CleanupInv, Remembered
<1>2. QED BY <1>1, CleanupAlways, PTL

----
LEMMA TrackedStep == Typed /\ RegisteredIsTracked /\ [Next]_vars => RegisteredIsTracked'
<1> SUFFICES ASSUME Typed, RegisteredIsTracked, [Next]_vars PROVE RegisteredIsTracked'
  OBVIOUS
<1> USE DEF Typed, TypeOK, RegisteredIsTracked
<1>1. ASSUME UNCHANGED <<registry, tracked>>, shut'.phase # "down" => shut.phase # "down"
      PROVE  RegisteredIsTracked'
  BY <1>1
<1>2. ASSUME NEW w \in Workers, Register(w) PROVE RegisteredIsTracked'
  BY <1>2 DEF Register
<1>3. ASSUME NEW k \in Tasks, Unregister(k) PROVE RegisteredIsTracked'
  BY <1>3 DEF Unregister
<1>4. ASSUME NEW w \in Workers, Cancel(w) PROVE RegisteredIsTracked'
  BY <1>4 DEF Cancel, CancelUntracking, regVars
<1>5. ASSUME SignalShutdown \/ SpawnRemovals \/ FinishShutdown PROVE RegisteredIsTracked'
  BY <1>5 DEF SignalShutdown, SpawnRemovals, FinishShutdown, regVars
<1>6. QED BY <1>1, <1>2, <1>3, <1>4, <1>5 DEF Next, Call, Create, Remove, SpawnedRemoval, BeginCreate, BeginRemove,
    CreateInDocker, CreateFails, RegisterDuplicate, Cleanup, RemoveFromDocker, RemovalVoid, GetContainer, ClientDrops,
    DropLast, vars, regVars

(* Until shutdown clears the tracker, every registered sandbox is tracked
   with the container it is registered with (manager.rs 411-429, 498-505). *)
THEOREM TrackedAlways == Spec => []RegisteredIsTracked
<1>1. Init => RegisteredIsTracked BY DEF Init, RegisteredIsTracked
<1>2. QED BY <1>1, TypedInit, TypedStep, TrackedStep, PTL DEF Spec

----
Making(k) == op[k].pc \in {"create", "register"}
Cleaning(k) == op[k].pc \in {"cleanup", "docker_rm", "unregister"}

\* What a step may do to one task.
LEMMA TaskStep ==
  ASSUME Typed, [Next]_vars, NEW k \in Tasks, op'[k] # op[k]
  PROVE  \/ /\ k \in Workers /\ shut.phase = "up"
            /\ op'[k].pc = "create" /\ op'[k].sb \in Sandboxes
         \/ /\ k \in Workers /\ op[k].pc = "create"
            /\ op'[k].pc = "register" /\ op'[k].sb = op[k].sb
         \/ /\ op[k].pc = IF k \in Workers THEN "idle" ELSE "queued"
            /\ op'[k].pc = "cleanup" /\ op'[k].sb \in Sandboxes
            /\ k \in Sandboxes => op'[k].sb = k
         \/ /\ Cleaning(k)
            /\ op'[k].pc \in {"docker_rm", "unregister"} /\ op'[k].sb = op[k].sb
         \/ k \in Workers /\ op'[k].pc = "idle"
         \/ /\ op[k].pc = "unregister" /\ op'[k].pc = "idle"
            /\ registry' = [registry EXCEPT ![op[k].sb] = None]
         \/ /\ op[k].pc = "queued"
            /\ op'[k].pc = "timedout" \/ (op'[k].pc = "idle" /\ registry[k] = None)
         \/ shut.phase = "draining" /\ k \in Sandboxes /\ op'[k].pc = "queued"
<1>0. /\ op \in [Tasks -> Locals] /\ Tasks = Workers \cup Sandboxes
      /\ Workers \cap Sandboxes = {}
  BY ManagerAssumption DEF Typed, TypeOK, Locals, PC, Tasks
<1>1. ASSUME NEW w \in Workers, Call(w) PROVE w = k /\ (op'[k].pc = "create" => shut.phase = "up")
  BY <1>0, <1>1 DEF Call, BeginCreate, BeginRemove
<1>2. ASSUME NEW w \in Workers, Call(w)
      PROVE  \/ op'[k].pc = "create" /\ op'[k].sb \in Sandboxes
             \/ op[k].pc = "idle" /\ op'[k].pc = "cleanup" /\ op'[k].sb \in Sandboxes
  BY <1>0, <1>2 DEF Call, BeginCreate, BeginRemove
<1>3. ASSUME NEW w \in Workers, Create(w)
      PROVE  /\ w = k
             /\ \/ op[k].pc = "create" /\ op'[k].pc = "register" /\ op'[k].sb = op[k].sb
                \/ op'[k].pc = "idle"
  BY <1>0, <1>3 DEF Create, CreateInDocker, CreateFails, Register, RegisterDuplicate, Return, Idle, Locals
<1>4. ASSUME NEW w \in Workers, Cancel(w) PROVE w = k /\ op'[k].pc = "idle"
  BY <1>4 DEF Cancel, Return, Idle
<1>5. ASSUME NEW l \in Tasks, Cleanup(l) \/ RemoveFromDocker(l)
      PROVE  /\ l = k /\ Cleaning(k)
             /\ op'[k].pc \in {"docker_rm", "unregister"} /\ op'[k].sb = op[k].sb
  BY <1>0, <1>5 DEF Cleanup, RemoveFromDocker, Goto, Cleaning, Locals
<1>6. ASSUME NEW l \in Tasks, Unregister(l)
      PROVE  /\ l = k /\ op[k].pc = "unregister" /\ op'[k].pc = "idle"
             /\ registry' = [registry EXCEPT ![op[k].sb] = None]
  BY <1>0, <1>6 DEF Unregister, Return, Idle
<1>7. ASSUME NEW s \in Sandboxes, BeginRemove(s, s)
      PROVE  s = k /\ op[k].pc = "queued" /\ op'[k].pc = "cleanup" /\ op'[k].sb = k
  BY <1>0, <1>7 DEF BeginRemove
<1>8. ASSUME NEW s \in Sandboxes, RemovalVoid(s)
      PROVE  /\ s = k /\ op[k].pc = "queued"
             /\ op'[k].pc = "timedout" \/ (op'[k].pc = "idle" /\ registry[k] = None)
  BY <1>0, <1>8 DEF RemovalVoid, Return, Goto, Idle, Locals
<1>9. ASSUME SpawnRemovals
      PROVE  shut.phase = "draining" /\ k \in Sandboxes /\ op'[k].pc = "queued"
  BY <1>9 DEF SpawnRemovals
<1>10. QED BY <1>0, <1>1, <1>2, <1>3, <1>4, <1>5, <1>6, <1>7, <1>8, <1>9 DEF Next, Remove, SpawnedRemoval, GetContainer,
    ClientDrops, DropLast, SignalShutdown, FinishShutdown, vars

\* To the registry: a task that registers adds an entry, and one that
\* unregisters takes the entry of its sandbox id away.
LEMMA EntryStep ==
  ASSUME Typed, [Next]_vars, NEW s \in Sandboxes, registry'[s] # registry[s]
  PROVE  \/ registry[s] = None /\ \E w \in Workers : op[w].sb = s /\ Register(w)
         \/ registry'[s] = None /\ \E k \in Tasks : op[k].sb = s /\ op[k].pc = "unregister"
  BY DEF Typed, TypeOK, Next, Call, Create, Remove, SpawnedRemoval, BeginCreate, BeginRemove, CreateInDocker,
    CreateFails, Register, RegisterDuplicate, Cleanup, RemoveFromDocker, Unregister, RemovalVoid, GetContainer,
    ClientDrops, DropLast, Cancel, CancelUntracking, SignalShutdown, SpawnRemovals, FinishShutdown, Tasks, vars, regVars

\* To the shutdown, which only goes forward.
LEMMA PhaseStep ==
  ASSUME Typed, [Next]_vars
  PROVE  \/ shut' = shut
         \/ shut.phase = "up" /\ shut'.phase = "draining"
         \/ SpawnRemovals /\ shut'.phase = "removing" /\ (~shut'.late => Drained)
         \/ FinishShutdown /\ shut.phase = "removing" /\ shut'.phase = "down"
            /\ shut'.late = shut.late /\ op' = op
<1>1. CASE SpawnRemovals BY <1>1 DEF SpawnRemovals
<1>2. CASE FinishShutdown \/ SignalShutdown
  BY <1>2 DEF FinishShutdown, SignalShutdown, Typed, TypeOK
<1>3. QED BY <1>1, <1>2 DEF Next, Call, Create, Remove, SpawnedRemoval, BeginCreate, BeginRemove, CreateInDocker,
    CreateFails, Register, RegisterDuplicate, Cleanup, RemoveFromDocker, Unregister, RemovalVoid, GetContainer,
    ClientDrops, DropLast, Cancel, vars

\* To the flags: one that is set stays set.
LEMMA CleanedStays ==
  ASSUME [Next]_vars
  PROVE  cleaned_up \subseteq cleaned_up'
  BY DEF Next, Call, Create, Remove, SpawnedRemoval, BeginCreate, BeginRemove, CreateInDocker, CreateFails, Register,
    RegisterDuplicate, Cleanup, RemoveFromDocker, Unregister, RemovalVoid, GetContainer, ClientDrops, DropLast, Cancel,
    SignalShutdown, SpawnRemovals, FinishShutdown, vars

----
\* With unique ids, a sandbox id names one container for ever.  Named: Docker
\* names what it makes.  EntryNames: what is registered or tracked under an id
\* carries its name.  Makers: an id that is being made has no entry and no
\* other task, and carries over to the container.  Carried: so does the id of
\* a removal, which gets past the flag only when it is set.
Named == \A c \in Conts : name[c] # None => docker[c] # "none"
EntryNames ==
  \A s \in Sandboxes : /\ registry[s] # None => name[registry[s]] = s
                       /\ tracked[s] # None => name[tracked[s]] = s
OneName == \A c, d \in Conts : name[c] # None /\ name[c] = name[d] => c = d
Makers ==
  \A k \in Tasks : Making(k) =>
      /\ op[k].sb \in Sandboxes
      /\ registry[op[k].sb] = None /\ tracked[op[k].sb] = None
      /\ \A l \in Tasks : op[l].sb = op[k].sb => l = k
      /\ op[k].pc = "create" => \A c \in Conts : name[c] # op[k].sb
      /\ op[k].pc = "register" => name[op[k].cont] = op[k].sb
Carried ==
  \A k \in Tasks : Cleaning(k) =>
      /\ op[k].sb \in Sandboxes /\ op[k].cont \in Conts
      /\ name[op[k].cont] = op[k].sb
      /\ op[k].pc # "cleanup" => op[k].cont \in cleaned_up

UniqueIds == Named /\ EntryNames /\ OneName /\ Makers /\ Carried

\* Steps that make nothing: entries go, and a task that takes a new sandbox id
\* takes one that is registered.
LEMMA IdsKept ==
  ASSUME Typed, UniqueIds, UNCHANGED name, cleaned_up \subseteq cleaned_up',
         \A c \in Conts : docker[c] # "none" => docker'[c] # "none",
         \A s \in Sandboxes : /\ registry'[s] \in {registry[s], None}
                              /\ tracked'[s] \in {tracked[s], None},
         \A k \in Tasks : op'[k] # op[k] =>
             /\ ~Making(k)'
             /\ \/ op'[k].sb \in {op[k].sb, None}
                \/ op'[k].sb \in Sandboxes /\ registry[op'[k].sb] # None
             /\ Cleaning(k)' =>
                  /\ op'[k].sb \in Sandboxes /\ op'[k].cont \in Conts
                  /\ name[op'[k].cont] = op'[k].sb
                  /\ op'[k].pc # "cleanup" => op'[k].cont \in cleaned_up'
  PROVE  UniqueIds'
  BY ManagerAssumption DEF UniqueIds, Named, OneName, EntryNames, Makers, Making, Carried, Cleaning

\* Docker makes a container, whether or not the call is still there.
LEMMA IdsMade ==
  ASSUME Typed, UniqueIds, NEW w \in Tasks, NEW r \in Locals, NEW c \in Conts,
         op[w].pc = "create", docker[c] = "none",
         docker'[c] # "none", \A d \in Conts \ {c} : docker'[d] = docker[d],
         name' = [name EXCEPT ![c] = op[w].sb], op' = [op EXCEPT ![w] = r],
         r = Idle \/ (r.pc = "register" /\ r.sb = op[w].sb /\ r.cont = c),
         UNCHANGED <<registry, tracked, cleaned_up>>
  PROVE  UniqueIds'
<1> USE DEF UniqueIds
<1>1. QED BY ManagerAssumption, IdleLocals DEF Named, OneName, EntryNames, Carried, Cleaning, Makers, Making, Idle, Typed, TypeOK

Ids == FreshIds => UniqueIds

LEMMA IdsStep == Typed /\ Ids /\ [Next]_vars => Ids'
<1> SUFFICES ASSUME FreshIds, Typed, UniqueIds, [Next]_vars PROVE UniqueIds' BY DEF Ids
<1>0. /\ op \in [Tasks -> Locals] /\ Workers \subseteq Tasks /\ Sandboxes \subseteq Tasks
      /\ registry \in [Sandboxes -> Conts \cup {None}]
      /\ tracked \in [Sandboxes -> Conts \cup {None}]
      /\ docker \in [Conts -> DockerState]
  BY DEF Typed, TypeOK, Locals, PC, Tasks
<1>1. ASSUME NEW w \in Workers, NEW s \in Sandboxes, BeginCreate(w, s) PROVE UniqueIds'
  BY <1>0, <1>1 DEF BeginCreate, Fresh, regVars, dockerVars, UniqueIds, EntryNames, Named, OneName, Makers, Making,
    Carried, Cleaning
<1>2. ASSUME NEW k \in Tasks, NEW s \in Sandboxes, BeginRemove(k, s) PROVE UniqueIds'
  BY <1>2, <1>0, IdsKept DEF BeginRemove, UniqueIds, EntryNames, Making, regVars, dockerVars
<1>3. ASSUME NEW w \in Workers, NEW c \in Conts, CreateInDocker(w, c) PROVE UniqueIds'
  BY <1>0, <1>3, IdsMade DEF Locals, PC, Working, CreateInDocker, regVars
<1>4. ASSUME NEW w \in Workers, CreateFails(w) \/ RegisterDuplicate(w) PROVE UniqueIds'
  BY <1>0, <1>4, IdsKept DEF CreateFails, RegisterDuplicate, Return, regVars, dockerVars, Idle, Making, Cleaning
<1>5. ASSUME NEW w \in Workers, Register(w) PROVE UniqueIds'
  <2> DEFINE s == op[w].sb
             c == op[w].cont
  <2>1. /\ op'[w] = Idle /\ \A l \in Tasks \ {w} : op'[l] = op[l]
        /\ registry' = [registry EXCEPT ![s] = c]
        /\ tracked' = [tracked EXCEPT ![s] = c]
        /\ UNCHANGED <<cleaned_up, docker, name>>
    BY <1>0, <1>5 DEF Register, Return, dockerVars
  <2> HIDE DEF s, c
  <2>2. EntryNames'
    BY <1>0, <1>5, ManagerAssumption, <2>1 DEF UniqueIds, EntryNames, Register, Makers, Making
  <2>3. Makers'
    BY <2>1, <1>0, <1>5, ManagerAssumption DEF Makers, Making, UniqueIds, Idle, Register
  <2>4. QED BY <2>1, IdleLocals, <2>2, <2>3 DEF UniqueIds, Named, OneName, Carried, Cleaning
<1>6. ASSUME NEW k \in Tasks, Cleanup(k) \/ RemoveFromDocker(k) \/ Unregister(k) PROVE UniqueIds'
  <2>1. Cleaning(k) /\ \A l \in Tasks \ {k} : op'[l] = op[l]
    BY <1>0, <1>6 DEF Cleanup, RemoveFromDocker, Unregister, Goto, Return, Cleaning
  <2>2. /\ cleaned_up \subseteq cleaned_up' /\ UNCHANGED name
        /\ \/ op'[k] = Idle
           \/ /\ op'[k].sb = op[k].sb /\ op'[k].cont = op[k].cont
              /\ op'[k].pc \in {"docker_rm", "unregister"} /\ op[k].cont \in cleaned_up'
    <3>1. CASE Cleanup(k) BY <1>0, <3>1 DEF Cleanup, Goto, dockerVars
    <3>2. CASE RemoveFromDocker(k)
      BY <3>2 DEF RemoveFromDocker, Goto, UniqueIds, Carried, Cleaning
    <3>3. CASE Unregister(k) BY <1>0, <3>3 DEF Unregister, Return, dockerVars
    <3>4. QED BY <1>6, <3>1, <3>2, <3>3
  <2>3. \A c \in Conts : docker[c] # "none" => docker'[c] # "none"
    BY <1>0, <1>6 DEF Cleanup, RemoveFromDocker, Unregister, dockerVars
  <2>4. \A s \in Sandboxes : /\ registry'[s] \in {registry[s], None}
                             /\ tracked'[s] \in {tracked[s], None}
    BY <1>0, <1>6 DEF Cleanup, RemoveFromDocker, Unregister, regVars
  <2>5. QED BY <2>1, <2>2, <2>3, <2>4, IdsKept DEF Idle, Making, Cleaning, UniqueIds, Carried
<1>7. ASSUME NEW w \in Workers, Cancel(w) PROVE UniqueIds'
  BY <1>0, <1>7, IdleLocals, IdsMade, IdsKept DEF Cancel, Return, CancelInDocker, regVars, CancelUntracking, dockerVars,
    Idle, Making, Cleaning
<1>8. ASSUME NEW s \in Sandboxes, RemovalVoid(s) PROVE UniqueIds'
  BY <1>0, <1>8, IdsKept DEF RemovalVoid, Return, Goto, Idle, Locals, Making, Cleaning, regVars, dockerVars
<1>9. ASSUME SpawnRemovals PROVE UniqueIds'
  BY <1>9, IdsKept DEF SpawnRemovals, Idle, Making, Cleaning, regVars, dockerVars
<1>10. ASSUME NEW c \in Conts, DropLast(c) PROVE UniqueIds'
  BY <1>10, IdsKept DEF DropLast, regVars
<1>11. ASSUME UNCHANGED <<registry, name, docker, cleaned_up, op>>,
              \A s \in Sandboxes : tracked'[s] \in {tracked[s], None}
       PROVE  UniqueIds'
  BY <1>11, IdsKept
<1>12. QED BY <1>1, <1>2, <1>3, <1>4, <1>5, <1>6, <1>7, <1>8, <1>9, <1>10, <1>11, <1>0 DEF Next, Call, Create, Remove,
    SpawnedRemoval, GetContainer, ClientDrops, SignalShutdown, FinishShutdown, vars, regVars, dockerVars

LEMMA IdsInit == Init => Ids
  BY IdleLocals DEF Init, Ids, UniqueIds, Named, EntryNames, OneName, Makers, Carried, Making, Cleaning

LEMMA IdsAlways == Spec => [](Typed /\ Ids)
  BY TypedInit, TypedStep, IdsInit, IdsStep, PTL DEF Spec

\* What unique ids are for: the entry a removal takes away is the one it cleaned.
LEMMA RemovedIsCleaned ==
  ASSUME FreshIds, Typed, Ids, [Next]_vars, NEW s \in Sandboxes,
         registry[s] # None, registry'[s] # registry[s]
  PROVE  registry[s] \in cleaned_up /\ registry'[s] = None
  BY EntryStep, ManagerAssumption DEF Ids, UniqueIds, Carried, Cleaning, EntryNames, Typed, TypeOK, OneName

(* With unique sandbox ids, remove_container only ever takes out of the
   registry an entry whose container's cleanup has begun, although it looks
   the id up again after the await (manager.rs 498-505). *)
THEOREM RemovesWhatItCleanedAlways == FreshIds => (Spec => RemovesWhatItCleaned)
<1> SUFFICES ASSUME FreshIds PROVE Spec => RemovesWhatItCleaned OBVIOUS
<1>1. Typed /\ Ids /\ [Next]_vars =>
          [\A s \in Sandboxes : registry[s] # None /\ registry'[s] = None =>
               registry[s] \in cleaned_up]_vars
  BY RemovedIsCleaned
<1>2. QED BY <1>1, IdsAlways, PTL DEF Spec, RemovesWhatItCleaned

----
\* The invariant of shutdown.  Owner: a spawned removal is of its own sandbox
\* and makes nothing.  Closed: once all permits have returned to shutdown,
\* nothing is being made, and every registered sandbox has a removal on its
\* way or one that gave up.  Joined: shutdown ends after all of them.
Owner ==
  \A k \in Tasks : /\ Cleaning(k) => op[k].sb \in Sandboxes /\ (k \in Sandboxes => op[k].sb = k)
                   /\ Making(k) => k \in Workers /\ op[k].sb \in Sandboxes
Closed ==
  shut.phase \in {"removing", "down"} /\ ~shut.late =>
      /\ \A k \in Tasks : ~Making(k)
      /\ \A s \in Sandboxes : registry[s] # None =>
             Cleaning(s) \/ op[s].pc \in {"queued", "timedout"}
Joined == shut.phase = "down" => \A s \in Sandboxes : op[s].pc \in {"idle", "timedout"}

ShutdownInv == Owner /\ Closed /\ Joined

LEMMA ShutdownStep == Typed /\ ShutdownInv /\ [Next]_vars => ShutdownInv'
<1> SUFFICES ASSUME Typed, ShutdownInv, [Next]_vars PROVE ShutdownInv' OBVIOUS
<1> USE DEF ShutdownInv
<1>0. /\ Tasks = Workers \cup Sandboxes /\ Workers \cap Sandboxes = {}
      /\ registry \in [Sandboxes -> Conts \cup {None}]
  BY ManagerAssumption DEF Tasks, Typed, TypeOK
<1>1. Closed'
  BY <1>0, TaskStep, EntryStep, PhaseStep DEF Closed, SpawnRemovals, Drained, Idle, regVars, Making, Working, Register,
    Cleaning, Owner
<1>2. QED BY TaskStep, <1>1, <1>0, PhaseStep DEF Owner, Cleaning, Making, Joined, FinishShutdown

LEMMA ShutdownInit == Init => ShutdownInv
  BY IdleLocals DEF Init, ShutdownInv, Owner, Closed, Joined, Cleaning, Making

----
\* What is tracked, as a set to count.
Tracked == {s \in Sandboxes : tracked[s] # None}

LEMMA TrackedFinite ==
  IsFiniteSet(Tracked) /\ Cardinality(Tracked) \in Nat
  BY ManagerAssumption, FS_Subset, FS_CardinalityType DEF Tracked

LEMMA BalanceStep == Typed /\ Ids /\ Owner /\ MetricsBalance /\ [Next]_vars => MetricsBalance'
<1> SUFFICES ASSUME Typed, Ids, Owner, MetricsBalance, [Next]_vars, shut'.phase # "down"
             PROVE  IF FreshIds THEN created' = cleaned' + Cardinality(Tracked')
                                ELSE created' >= cleaned' + Cardinality(Tracked')
  BY DEF MetricsBalance, Tracked
<1>0. /\ tracked \in [Sandboxes -> Conts \cup {None}] /\ created \in Nat /\ cleaned \in Nat
      /\ Workers \subseteq Tasks /\ None \notin Conts
  BY ManagerAssumption DEF Typed, TypeOK, Tasks
<1>1. shut.phase # "down" /\ ~FinishShutdown
  BY PhaseStep DEF FinishShutdown, SpawnRemovals, Typed, TypeOK
<1>2. CASE \E w \in Workers : Register(w)
  <2>1. PICK w \in Workers : Register(w) BY <1>2
  <2>2. PICK s \in Sandboxes, c \in Conts : s = op[w].sb /\ c = op[w].cont
    BY <1>0, <2>1 DEF Register, Owner, Making, CarriesCont, HasCont, Typed
  <2>3. Tracked' = Tracked \cup {s} BY <1>0, <2>1, <2>2 DEF Tracked, Register
  <2>4. FreshIds => s \notin Tracked
    BY <1>0, <2>1, <2>2 DEF Register, Ids, UniqueIds, Makers, Making, Tracked
  <2>5. Cardinality(Tracked') = IF s \in Tracked THEN Cardinality(Tracked)
                                                 ELSE Cardinality(Tracked) + 1
    BY <2>3, TrackedFinite, FS_AddElement
  <2>6. QED BY <1>0, <1>1, <2>1, <2>2, <2>4, <2>5, TrackedFinite DEF Register, MetricsBalance, Tracked
<1>3. CASE \E k \in Tasks : Unregister(k)
  <2>1. PICK k \in Tasks : Unregister(k) BY <1>3
  <2>2. CASE registry[op[k].sb] # None /\ tracked[op[k].sb] # None
    <3>1. PICK s \in Sandboxes : s = op[k].sb BY <2>1 DEF Unregister, Owner, Cleaning
    <3>2. Tracked' = Tracked \ {s} /\ s \in Tracked
      BY <1>0, <2>2, <3>1, <2>1 DEF Tracked, Unregister
    <3>3. Cardinality(Tracked') = Cardinality(Tracked) - 1
      BY <3>2, TrackedFinite, FS_RemoveElement
    <3>4. QED BY <1>0, <1>1, <2>1, <2>2, <3>1, <3>3, TrackedFinite DEF Unregister, MetricsBalance, Tracked
  <2>3. CASE ~(registry[op[k].sb] # None /\ tracked[op[k].sb] # None)
    BY <2>1, <2>3, <1>1 DEF Unregister, Tracked, MetricsBalance
  <2>4. QED BY <2>2, <2>3
<1>4. CASE UNCHANGED <<created, cleaned, tracked>>
  BY <1>1, <1>4 DEF Tracked, MetricsBalance
<1>5. QED BY <1>1, <1>2, <1>3, <1>4 DEF Next, Call, Create, Remove, SpawnedRemoval, BeginCreate, BeginRemove,
    CreateInDocker, CreateFails, RegisterDuplicate, Cleanup, RemoveFromDocker, RemovalVoid, GetContainer, ClientDrops,
    DropLast, Cancel, CancelUntracking, SignalShutdown, SpawnRemovals, FinishShutdown, vars, regVars

LEMMA BalanceInit == Init => MetricsBalance
  BY FS_EmptySet DEF Init, MetricsBalance

(* The metrics never claim more cleanups than there were and, with unique
   ids, what was created and not cleaned is what is tracked; and after a
   shutdown that saw all permits return, what is still registered had a
   removal task that gave up (manager.rs 411-429, 498-513 and 698-745). *)
THEOREM ManagerInvAlways == Spec => []ManagerInv
<1>1. Spec => [](Typed /\ Ids /\ ShutdownInv /\ MetricsBalance)
  BY TypedInit, TypedStep, IdsInit, IdsStep, ShutdownInit, ShutdownStep, BalanceInit, BalanceStep, PTL DEF Spec, ShutdownInv
<1>2. Typed /\ ShutdownInv /\ MetricsBalance => ManagerInv
  BY DEF ManagerInv, Typed, ShutdownInv, Closed, Joined, CleanShutdown, Cleaning
<1>3. QED BY <1>1, <1>2, PTL
====
