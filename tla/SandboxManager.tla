---- MODULE SandboxManager ----
(* SandboxManager (src/sandbox_manager.rs) on top of the ContainerManager
   it shares with the REST handlers (server.rs:157): the map of active
   sandboxes, behind a lock of its own, the methods that call the container
   manager in between, and the REST handlers that create and delete
   sandboxes in the container manager without that map.  Every sandbox id is
   new: a uuid here, eight digits of one over REST.  Each method runs in the
   task of a request handler: op[w] is what the task does inside the
   container manager, call[w] the method around it. *)
EXTENDS ContainerManager

ASSUME UuidAssumption == FreshIds

VARIABLES
  active,  \* active_sandboxes: sandbox -> its executor's container, or None
  call,    \* call[w]: the sandbox manager's or REST method task w is in
  lost,    \* history: sandboxes of which a creation or a destruction was
           \* refused, failed, or was cancelled
  told     \* history: sandboxes whose id a REST creation answered to its
           \* client, the only one who can ask for their removal by name

smVars == <<active, call, lost, told>>
allVars == <<vars, smVars>>
NoCall == [pc |-> "none", sb |-> None, cont |-> None, kind |-> "kept"]

\* What the map and the methods keep alive: an Arc each, which ContainerManager
\* counts among the clients'.
Kept == {active[s] : s \in Sandboxes} \cup {call[w].cont : w \in Workers}

SMInit ==
  /\ Init
  /\ active = [s \in Sandboxes |-> None]
  /\ call = [w \in Workers |-> NoCall]
  /\ lost = {}
  /\ told = {}

Step(w, pc) == call' = [call EXCEPT ![w].pc = pc]
End(w) == call' = [call EXCEPT ![w] = NoCall]

----
Kinds == {"kept", "temp", "rest"}

(* create_sandbox and create_sandbox_from_template ("kept"), the creation of
   execute_in_new_sandbox ("temp"), and create_sandbox of the REST server. *)
CreateSandbox(w, s, kind) ==
  /\ call[w].pc = "none"
  /\ BeginCreate(w, s)
  /\ call' = [call EXCEPT ![w] = [NoCall EXCEPT !.pc = "creating", !.sb = s, !.kind = kind]]
  /\ UNCHANGED <<active, lost, told>>

(* create_sandbox_container, awaited. *)
Creating(w) ==
  /\ call[w].pc = "creating"
  /\ \/ \E c \in Conts : CreateInDocker(w, c) /\ UNCHANGED call
     \/ CreateFails(w) /\ End(w)
     \/ /\ Register(w)
        /\ call' = [call EXCEPT ![w].pc = "starting", ![w].cont = op[w].cont]
  /\ UNCHANGED <<active, lost, told>>

(* container.start() and the template's setup commands: an error returns
   through `?` and leaves the container registered. *)
StartContainer(w) ==
  /\ call[w].pc = "starting"
  /\ \/ Exists(call[w].cont) /\ Step(w, "inserting") /\ UNCHANGED lost
     \/ End(w) /\ lost' = lost \cup {call[w].sb}
  /\ UNCHANGED <<vars, active, told>>

(* Into the map of active sandboxes. *)
Activate(w) ==
  /\ call[w].pc = "inserting" /\ call[w].kind # "rest"
  /\ active' = [active EXCEPT ![call[w].sb] = call[w].cont]
  /\ IF call[w].kind = "temp" THEN Step(w, "executing") ELSE End(w)
  /\ UNCHANGED <<vars, lost, told>>

(* The REST handler writes a row to the database, whose failure it logs, and
   answers with the id.  The row names the user's id and not the sandbox. *)
AnswerRest(w) ==
  /\ call[w].pc = "inserting" /\ call[w].kind = "rest"
  /\ told' = told \cup {call[w].sb}
  /\ End(w)
  /\ UNCHANGED <<vars, active, lost>>

----
TakeOutOnly(w, s) ==  \* the defect: remove_container is not called
  /\ active' = [active EXCEPT ![s] = None]
  /\ End(w)
  /\ UNCHANGED <<vars, lost, told>>

(* destroy_sandbox: first out of the map.  A sandbox that is not there is
   logged and Ok. *)
TakeOut(w, s) ==
  /\ IF active[s] # None
     THEN /\ active' = [active EXCEPT ![s] = None]
          /\ call' = [call EXCEPT ![w] = [NoCall EXCEPT !.pc = "destroying", !.sb = s,
                                                        !.cont = active[s]]]
     ELSE End(w) /\ UNCHANGED active
  /\ UNCHANGED <<vars, lost, told>>

(* destroy_sandbox called by a handler, or by cleanup_old_sandboxes, which
   calls it for each old entry of a copy of the map; ids are never reused,
   so that the copy may be stale changes nothing. *)
DestroySandbox(w, s) ==
  /\ call[w].pc = "none" /\ op[w].pc = "idle"
  /\ active[s] # None
  /\ TakeOut(w, s)

(* execute_in_new_sandbox: the code runs, ends or fails within its timeout,
   and the sandbox is destroyed; an error of that is only logged. *)
FinishTemporary(w) ==
  /\ call[w].pc = "executing"
  /\ TakeOut(w, call[w].sb)

(* remove_container(container_id), whose id is the sandbox id. *)
RemoveStarts(w) ==
  /\ call[w].pc = "destroying"
  /\ BeginRemove(w, call[w].sb)
  /\ UNCHANGED smVars

(* It finds no entry, which is Ok(false), or gets no permit within 30 s. *)
RemoveRefused(w) ==
  /\ call[w].pc = "destroying" /\ op[w].pc = "idle"
  /\ \/ registry[call[w].sb] = None /\ UNCHANGED lost
     \/ ~PermitFree /\ lost' = lost \cup {call[w].sb}
  /\ End(w)
  /\ UNCHANGED <<vars, active, told>>

(* The removals of handlers and of shutdown go on; a destroy_sandbox ends
   with the removal it awaits. *)
Removal(k) ==
  /\ Remove(k)
  /\ IF k \in Workers /\ op'[k].pc = "idle" THEN End(k) ELSE UNCHANGED call
  /\ UNCHANGED <<active, lost, told>>

----
(* delete_sandbox of the REST server goes to the container manager and past
   the sandbox manager. *)
DeleteSandbox(w, s) ==
  /\ call[w].pc = "none"
  /\ BeginRemove(w, s)
  /\ UNCHANGED smVars

(* A handler's future is dropped, inside the container manager or not. *)
CancelCall(w) ==
  /\ \/ Cancel(w)
     \/ call[w].pc \in {"starting", "inserting", "executing", "destroying"}
        /\ op[w].pc = "idle" /\ UNCHANGED vars
  /\ End(w)
  /\ lost' = IF call[w].pc = "none" THEN lost ELSE lost \cup {call[w].sb}
  /\ UNCHANGED <<active, told>>

(* execute_code, get_container and the handlers that end: Arcs come and go. *)
Arcs ==
  /\ \/ \E s \in Sandboxes : GetContainer(s)
     \/ \E c \in Conts \ Kept : ClientDrops(c) \/ DropLast(c)
  /\ UNCHANGED smVars

Shutdown ==
  /\ \/ SignalShutdown \/ SpawnRemovals \/ FinishShutdown
     \/ \E s \in Sandboxes : SpawnedRemoval(s)
  /\ UNCHANGED smVars

SMNext ==
  \/ \E w \in Workers, s \in Sandboxes :
       \/ \E kind \in Kinds : CreateSandbox(w, s, kind)
       \/ DestroySandbox(w, s) \/ DeleteSandbox(w, s)
  \/ \E w \in Workers :
       \/ Creating(w) \/ StartContainer(w) \/ Activate(w) \/ AnswerRest(w) \/ FinishTemporary(w)
       \/ RemoveStarts(w) \/ RemoveRefused(w) \/ CancelCall(w)
  \/ \E k \in Tasks : Removal(k)
  \/ Arcs \/ Shutdown

SMSpec == SMInit /\ [][SMNext]_allVars

\* The runtime polls every task until it ends or is cancelled; Docker and the
\* code that runs in a sandbox answer or time out; a dropped Arc runs Drop.
SMFairSpec ==
  /\ SMSpec
  /\ \A w \in Workers :
       /\ WF_allVars(Creating(w)) /\ WF_allVars(StartContainer(w))
       /\ WF_allVars(Activate(w)) /\ WF_allVars(AnswerRest(w)) /\ WF_allVars(FinishTemporary(w))
       /\ WF_allVars(RemoveStarts(w) \/ RemoveRefused(w))
  /\ \A k \in Tasks : WF_allVars(Removal(k))
  /\ \A c \in Conts : WF_allVars(DropLast(c) /\ c \notin Kept /\ UNCHANGED smVars)
  /\ WF_allVars(Shutdown /\ shut.phase # "up")

----
(* The shape of the map, of the methods' locals and of what lies below. *)
SMTypeOK ==
  /\ TypeOK
  /\ active \in [Sandboxes -> Conts \cup {None}]
  /\ call \in [Workers -> [pc : {"none", "creating", "starting", "inserting", "executing",
                                 "destroying"},
                           sb : Sandboxes \cup {None},
                           cont : Conts \cup {None},
                           kind : Kinds]]
  /\ lost \in SUBSET Sandboxes /\ told \in SUBSET Sandboxes

(* What the map of active sandboxes names is the container registered under
   the sandbox's id, or one whose cleanup has begun behind the manager's
   back (a REST deletion, the shutdown). *)
ActiveIsRegistered ==
  \A s \in Sandboxes : active[s] # None =>
      registry[s] = active[s] \/ active[s] \in cleaned_up

(* Nobody loses a container but by a failure: a registered sandbox that is
   not in the map is one a REST client was told of, one a method is working
   on, or one whose creation or destruction was refused, failed or was
   cancelled. *)
NoSilentOrphan ==
  \A s \in Sandboxes : registry[s] # None /\ active[s] = None =>
      s \in lost \cup told \/ \E w \in Workers : call[w].sb = s

(* A temporary sandbox whose code has begun to run ends: unregistered, or
   given up by a failure. *)
TemporaryEnds ==
  \A w \in Workers, s \in Sandboxes :
      (call[w].pc = "executing" /\ call[w].sb = s) ~> (registry[s] = None \/ s \in lost)

(* What the sandbox manager's map, the registry and the callers under way
   agree on: a container leaves the map's sight only by way of REST, whose
   client knows its id, or by a failure. *)
SandboxInv == SMTypeOK /\ ActiveIsRegistered /\ NoSilentOrphan

(* What was begun comes to its end, whatever else runs: temporary sandboxes,
   shutdowns, and the removal of containers nobody can reach. *)
OperationsEnd == TemporaryEnds /\ ShutdownEnds /\ UnreachableIsRemoved
====
