---- MODULE RestSandboxes ----
(* The REST handlers for sandboxes (src/server.rs) on SandboxContainer
   (src/container/sandbox.rs), the registry of the container manager and
   SandboxRepository (src/database/repositories/sandbox_repository.rs).
   A handler keeps the container it looked up while others delete it, and is
   dropped at whatever it awaits when its client goes away: what it asked of
   Docker may be carried out all the same, then or later.
   Docker is external: what its calls do to a container's state.  Commands
   that start with bash (those for bash, Rust and Go code) are refused
   before Docker is called and change nothing. *)
EXTENDS Naturals, FiniteSets

CONSTANTS RestTasks,  \* requests under way at a time
          RestUsers, RestBoxes,
          NoBox

VARIABLES
  task,     \* of each request: [at, user, box]
  registered, \* the boxes in the container manager's registry
  docker,   \* state of each box's container: "none", "created", "running", "paused", "exited", "gone"
  rowOf,    \* the table of sandboxes, by its key: the user
  told,     \* the ids that were answered to a client
  cleaned,  \* the boxes whose cleaned_up flag is set
  adrift,   \* calls nobody waits for that Docker may still carry out
  survived, \* history: boxes Docker refused to remove
  brokenOff \* history: boxes whose creation or clean-up was not seen through

restVars == <<task, registered, docker, rowOf, told, cleaned, adrift, survived, brokenOff>>

NoRequest == [at |-> "idle", user |-> NoBox, box |-> NoBox]

RestInit ==
  /\ task = [t \in RestTasks |-> NoRequest]
  /\ registered = {}
  /\ docker = [b \in RestBoxes |-> "none"]
  /\ rowOf = [u \in RestUsers |-> NoBox]
  /\ told = {} /\ cleaned = {} /\ adrift = {} /\ survived = {} /\ brokenOff = {}

To(t, at) == task' = [task EXCEPT ![t].at = at]
Answered(t) == task' = [task EXCEPT ![t] = NoRequest]
Becomes(b, s) == docker' = [docker EXCEPT ![b] = s]

(* What Docker does when asked to start, stop or remove a container. *)
Does(call, b) ==
  \/ call = "start" /\ docker[b] # "gone" /\ Becomes(b, "running")
  \/ call = "stop" /\ docker[b] = "running" /\ Becomes(b, "exited")
  \/ call = "remove" /\ Becomes(b, "gone")

(* The call of t is answered to nobody. *)
LetGo(t) ==
  /\ adrift' = adrift \cup {c \in [call : {"start", "stop", "remove"}, box : {task[t].box}] : c.call = task[t].at}
  /\ brokenOff' = brokenOff \cup {task[t].box}

----
(* create_sandbox: an id, the container and its registration. *)
CreateAndRegister(t, u, b) ==
  /\ task[t] = NoRequest /\ docker[b] = "none"
  /\ task' = [task EXCEPT ![t] = [at |-> "start", user |-> u, box |-> b]]
  /\ registered' = registered \cup {b}
  /\ Becomes(b, "created")
  /\ UNCHANGED <<rowOf, told, cleaned, adrift, survived, brokenOff>>

(* The client is gone before the container is in the registry. *)
CreateInVain(t, b) ==
  /\ task[t] = NoRequest /\ docker[b] = "none"
  /\ Becomes(b, "created")
  /\ UNCHANGED <<task, registered, rowOf, told, cleaned, adrift, survived, brokenOff>>

(* When the start fails nobody learns the id, and all stays as it is,
   unless only the answer was lost. *)
StartContainer(t) ==
  /\ task[t].at = "start"
  /\ \/ Does("start", task[t].box) /\ To(t, "save") /\ UNCHANGED <<adrift, brokenOff>>
     \/ Answered(t) /\ LetGo(t) /\ UNCHANGED docker
  /\ UNCHANGED <<registered, rowOf, told, cleaned, survived>>

(* The record's id is the user's, and the statement that would create a
   second one for the user changes nothing and is no error. *)
Recorded(t) ==
  IF rowOf[task[t].user] = NoBox THEN [rowOf EXCEPT ![task[t].user] = task[t].box] ELSE rowOf

SaveRow(t) ==
  /\ task[t].at = "save"
  /\ rowOf' \in {Recorded(t), rowOf}  \* a failure is only logged
  /\ told' = told \cup {task[t].box}
  /\ Answered(t)
  /\ UNCHANGED <<registered, docker, cleaned, adrift, survived, brokenOff>>

----
(* delete_sandbox: an id nobody knows is answered as deleted, too. *)
DeleteKnown(t, b) ==
  /\ task[t] = NoRequest /\ b \in registered \cap told
  /\ task' = [task EXCEPT ![t] = [at |-> "cleanup", user |-> NoBox, box |-> b]]
  /\ UNCHANGED <<registered, docker, rowOf, told, cleaned, adrift, survived, brokenOff>>

(* The defect: nobody looks whether another came. *)
CleanUpEachTime(t) ==
  /\ task[t].at = "cleanup" /\ To(t, "stop") /\ cleaned' = cleaned \cup {task[t].box}
  /\ UNCHANGED <<registered, docker, rowOf, told, adrift, survived, brokenOff>>

(* SandboxContainer::cleanup: whoever comes first stops and removes it, the
   others do not wait. *)
CleanUp(t) ==
  /\ task[t].at = "cleanup"
  /\ IF task[t].box \in cleaned THEN To(t, "forget") ELSE To(t, "stop")
  /\ cleaned' = cleaned \cup {task[t].box}
  /\ UNCHANGED <<registered, docker, rowOf, told, adrift, survived, brokenOff>>

(* A failure is only logged. *)
StopBox(t) ==
  /\ task[t].at = "stop"
  /\ Does("stop", task[t].box) \/ UNCHANGED docker
  /\ To(t, "remove")
  /\ UNCHANGED <<registered, rowOf, told, cleaned, adrift, survived, brokenOff>>

RemoveBoxNow(t) ==
  /\ task[t].at = "remove"
  /\ \/ Does("remove", task[t].box) /\ UNCHANGED survived
     \/ survived' = survived \cup {task[t].box} /\ UNCHANGED docker
  /\ To(t, "forget")
  /\ UNCHANGED <<registered, rowOf, told, cleaned, adrift, brokenOff>>

Forget(t) ==
  /\ task[t].at = "forget"
  /\ registered' = registered \ {task[t].box}
  /\ Answered(t)
  /\ UNCHANGED <<docker, rowOf, told, cleaned, adrift, survived, brokenOff>>

----
(* execute_in_sandbox: the container is looked up, then asked to execute. *)
ExecuteInSandbox(t, b) ==
  /\ task[t] = NoRequest /\ b \in registered \cap told
  /\ task' = [task EXCEPT ![t] = [at |-> "exec", user |-> NoBox, box |-> b]]
  /\ UNCHANGED <<registered, docker, rowOf, told, cleaned, adrift, survived, brokenOff>>

BeginExec(t) ==
  /\ task[t].at = "exec"
  /\ IF docker[task[t].box] = "running" THEN To(t, "running") ELSE Answered(t)
  /\ UNCHANGED <<registered, docker, rowOf, told, cleaned, adrift, survived, brokenOff>>

(* The program ends, or its output breaks off. *)
EndExec(t) ==
  /\ task[t].at = "running"
  /\ Answered(t)
  /\ UNCHANGED <<registered, docker, rowOf, told, cleaned, adrift, survived, brokenOff>>

----
(* The container manager's pause, resume, restart and kill hold the
   registry, so they find a container that is being cleaned up. *)
Pause(b) ==
  /\ b \in registered \cap told /\ docker[b] = "running"
  /\ Becomes(b, "paused")
  /\ UNCHANGED <<task, registered, rowOf, told, cleaned, adrift, survived, brokenOff>>

SetGoing(b, from) ==
  /\ b \in registered \cap told /\ docker[b] \in from
  /\ Becomes(b, "running")
  /\ UNCHANGED <<task, registered, rowOf, told, cleaned, adrift, survived, brokenOff>>

Resume(b) == SetGoing(b, {"paused"})
Restart(b) == SetGoing(b, {"created", "running", "paused", "exited"})

Kill(b) ==
  /\ b \in registered \cap told /\ docker[b] \in {"running", "paused"}
  /\ Becomes(b, "exited")
  /\ UNCHANGED <<task, registered, rowOf, told, cleaned, adrift, survived, brokenOff>>

----
(* The client goes away and the handler is dropped where it waits. *)
Disconnect(t) ==
  /\ task[t] # NoRequest
  /\ IF task[t].at \in {"start", "save", "stop", "remove"} THEN LetGo(t) ELSE UNCHANGED <<adrift, brokenOff>>
  /\ rowOf' \in {rowOf} \cup {Recorded(x) : x \in {y \in {t} : task[y].at = "save"}}
  /\ Answered(t)
  /\ UNCHANGED <<registered, docker, told, cleaned, survived>>

CarryOut(c) ==
  /\ Does(c.call, c.box)
  /\ adrift' = adrift \ {c}
  /\ UNCHANGED <<task, registered, rowOf, told, cleaned, survived, brokenOff>>

RestNext ==
  \/ \E t \in RestTasks :
        \/ \E u \in RestUsers, b \in RestBoxes : CreateAndRegister(t, u, b)
        \/ \E b \in RestBoxes : CreateInVain(t, b) \/ DeleteKnown(t, b) \/ ExecuteInSandbox(t, b)
        \/ StartContainer(t) \/ SaveRow(t)
        \/ CleanUp(t) \/ StopBox(t) \/ RemoveBoxNow(t) \/ Forget(t)
        \/ BeginExec(t) \/ EndExec(t) \/ Disconnect(t)
  \/ \E c \in adrift : CarryOut(c)
  \/ \E b \in RestBoxes : Pause(b) \/ Resume(b) \/ Restart(b) \/ Kill(b)

RestSpec == RestInit /\ [][RestNext]_restVars

----
RestTypeOK ==
  /\ \A t \in RestTasks : task[t].box \in RestBoxes \cup {NoBox}
  /\ registered \cup told \cup cleaned \subseteq RestBoxes
  /\ rowOf \in [RestUsers -> RestBoxes \cup {NoBox}]

(* A container that is there though its sandbox was deleted is being
   cleaned up, or Docker refused to remove it, or a client that asked for
   the clean-up went away during it: the next deletion takes it for done.
   One whose id no client was told runs only while it is created, or when
   the start was answered with an error or the client had gone; it is left
   in the registry, where no request can delete it. *)
DeletedIsStopped ==
  /\ \A b \in told \ registered :
        docker[b] # "gone" =>
            b \in survived \cup brokenOff \/ \E t \in RestTasks : task[t].box = b /\ task[t].at \in {"stop", "remove"}
  /\ \A b \in RestBoxes \ told :
        docker[b] = "running" =>
            b \in registered /\ (b \in brokenOff \/ \E t \in RestTasks : task[t].box = b)

(* Nobody's deletion or execution takes a container from a creation that
   is under way, and a sandbox has one clean-up at most. *)
CleanedOnce ==
  \A t, x \in RestTasks :
      t # x /\ task[t].box = task[x].box /\ task[t].box # NoBox =>
          /\ task[t].at \notin {"start", "save"}
          /\ ~(task[t].at \in {"stop", "remove"} /\ task[x].at \in {"stop", "remove"})

RestInv == RestTypeOK /\ DeletedIsStopped /\ CleanedOnce
====
