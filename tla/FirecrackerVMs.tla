---- MODULE FirecrackerVMs ----
(* FirecrackerManager and FirecrackerVM (src/firecracker/manager.rs,
   vm.rs), as FirecrackerRuntime uses them (src/sandbox/runtime.rs).  The
   manager keeps the VM of each sandbox in a map behind one lock, which
   remove_vm keeps while it stops the VM.  A VM is a process of the host,
   whose handle is kept once it is configured and which nothing kills when
   the handle is dropped, and a directory with a copy of the root file
   system.  A handler is dropped when its client goes away. *)
EXTENDS Naturals, FiniteSets

CONSTANTS VmBoxes,  \* sandboxes
          Vms,      \* calls of create_sandbox_vm, each with its own VM
          Enders,   \* calls of remove_vm, or of stop on a VM
          NoVm      \* no VM

ASSUME FirecrackerAssumption == NoVm \notin Vms

VARIABLES
  vmOf,    \* the map: sandbox -> VM
  vm,      \* each VM: its sandbox, the step of its creation, its state
  alive,   \* VMs whose process runs
  held,    \* VMs with a process handle
  dirs,    \* VMs with a directory
  ender    \* each call that ends a VM: its step, its VM, and whether it removes it

vmVars == <<vmOf, vm, alive, held, dirs, ender>>

NoEnding == [at |-> "idle", vm |-> NoVm, removes |-> FALSE]

VmInit ==
  /\ vmOf = [b \in VmBoxes |-> NoVm]
  /\ vm = [v \in Vms |-> [at |-> "none", box |-> CHOOSE b \in VmBoxes : TRUE, state |-> "created"]]
  /\ alive = {} /\ held = {} /\ dirs = {}
  /\ ender = [r \in Enders |-> NoEnding]

\* Nobody holds the map's lock: a removal does until it has ended.
MapFree == \A r \in Enders : ender[r].removes => ender[r].at = "idle"

Reach(v, at, state) == vm' = [vm EXCEPT ![v].at = at, ![v].state = state]

----
(* prepare_rootfs: the directory is made before the copy can fail. *)
PrepareRootfs(v, b) ==
  /\ vm[v].at = "none"
  /\ \/ /\ dirs' = dirs \cup {v}
        /\ \E at \in {"start", "failed"} : vm' = [vm EXCEPT ![v].at = at, ![v].box = b]
     \/ vm' = [vm EXCEPT ![v].at = "failed", ![v].box = b] /\ UNCHANGED dirs
  /\ UNCHANGED <<vmOf, alive, held, ender>>

(* start: the process, after 100 ms its configuration, then its handle. *)
Spawn(v) ==
  /\ vm[v].at = "start"
  /\ \/ alive' = alive \cup {v} /\ Reach(v, "configure", "starting")
     \/ Reach(v, "failed", "starting") /\ UNCHANGED alive
  /\ UNCHANGED <<vmOf, held, dirs, ender>>

ConfigureVm(v) ==
  /\ vm[v].at = "configure" /\ v \in alive
  /\ held' = held \cup {v}
  /\ Reach(v, "insert", "running")
  /\ UNCHANGED <<vmOf, alive, dirs, ender>>

ConfigureFails(v) ==
  /\ vm[v].at = "configure"
  /\ Reach(v, "failed", vm[v].state)
  /\ UNCHANGED <<vmOf, alive, held, dirs, ender>>

(* The VM takes the place of any other its sandbox had. *)
InsertVm(v) ==
  /\ vm[v].at = "insert" /\ MapFree
  /\ vmOf' = [vmOf EXCEPT ![vm[v].box] = v]
  /\ Reach(v, "done", vm[v].state)
  /\ UNCHANGED <<alive, held, dirs, ender>>

(* The client of create_sandbox_vm goes away at one of its awaits. *)
DropCreation(v) ==
  /\ vm[v].at \in {"start", "configure", "insert"}
  /\ Reach(v, "dropped", vm[v].state)
  /\ held' = held \ {v}
  /\ UNCHANGED <<vmOf, alive, dirs, ender>>

----
(* remove_vm takes the VM off the map, stop marks it as stopping; then both
   give it 2 s to end by itself. *)
RemoveVm(r, b) ==
  /\ ender[r].at = "idle" /\ MapFree /\ vmOf[b] # NoVm
  /\ vmOf' = [vmOf EXCEPT ![b] = NoVm]
  /\ Reach(vmOf[b], "done", "stopping")
  /\ ender' = [ender EXCEPT ![r] = [at |-> "kill", vm |-> vmOf[b], removes |-> TRUE]]
  /\ UNCHANGED <<alive, held, dirs>>

StopVm(r, v) ==
  /\ ender[r].at = "idle" /\ vm[v].at = "done"
  /\ Reach(v, "done", "stopping")
  /\ ender' = [ender EXCEPT ![r] = [at |-> "kill", vm |-> v, removes |-> FALSE]]
  /\ UNCHANGED <<vmOf, alive, held, dirs>>

KillUnheld(r) ==  \* the defect: the handle is dropped without killing the process
  /\ ender[r].at = "kill"
  /\ held' = held \ {ender[r].vm}
  /\ Reach(ender[r].vm, "done", "stopped")
  /\ ender' = [ender EXCEPT ![r] = IF @.removes THEN [@ EXCEPT !.at = "clean"] ELSE NoEnding]
  /\ UNCHANGED <<vmOf, alive, dirs>>

KillVm(r) ==
  /\ ender[r].at = "kill"
  /\ alive' = IF ender[r].vm \in held THEN alive \ {ender[r].vm} ELSE alive
  /\ held' = held \ {ender[r].vm}
  /\ Reach(ender[r].vm, "done", "stopped")
  /\ ender' = [ender EXCEPT ![r] = IF @.removes THEN [@ EXCEPT !.at = "clean"] ELSE NoEnding]
  /\ UNCHANGED <<vmOf, dirs>>

(* remove_dir_all; its failure is ignored. *)
CleanUpVm(r) ==
  /\ ender[r].at = "clean"
  /\ \/ dirs' = dirs \ {ender[r].vm}
     \/ UNCHANGED dirs
  /\ ender' = [ender EXCEPT ![r] = NoEnding]
  /\ UNCHANGED <<vmOf, vm, alive, held>>

DropEnding(r) ==
  /\ ender[r].at \in {"kill", "clean"}
  /\ ender' = [ender EXCEPT ![r] = NoEnding]
  /\ UNCHANGED <<vmOf, vm, alive, held, dirs>>

(* The guest shuts down, or crashes: nobody is told. *)
ProcessExits(v) ==
  /\ v \in alive
  /\ alive' = alive \ {v}
  /\ UNCHANGED <<vmOf, vm, held, dirs, ender>>

VmNext ==
  \/ \E v \in Vms : \/ \E b \in VmBoxes : PrepareRootfs(v, b)
                    \/ Spawn(v) \/ ConfigureVm(v) \/ ConfigureFails(v) \/ InsertVm(v)
                    \/ DropCreation(v) \/ ProcessExits(v)
  \/ \E r \in Enders : \/ \E b \in VmBoxes : RemoveVm(r, b)
                       \/ \E v \in Vms : StopVm(r, v)
                       \/ KillVm(r) \/ CleanUpVm(r) \/ DropEnding(r)

----
VmTypeOK ==
  /\ \A b \in VmBoxes : vmOf[b] \in Vms \cup {NoVm}
  /\ \A v \in Vms : /\ vm[v].at \in {"none", "start", "configure", "insert", "done", "failed", "dropped"}
                    /\ vm[v].state \in {"created", "starting", "running", "stopping", "stopped"}
  /\ alive \cup held \cup dirs \subseteq Vms
  /\ Cardinality({r \in Enders : ender[r].removes}) <= 1

(* A VM of the map is that of its sandbox alone, was configured, and has
   its directory, whoever creates, stops and removes at the same time. *)
MappedIsWhole ==
  \A b \in VmBoxes :
      LET v == vmOf[b] IN
      v # NoVm => /\ vm[v].at = "done" /\ vm[v].box = b
                  /\ vm[v].state \in {"running", "stopping", "stopped"}
                  /\ v \in dirs
                  /\ vm[v].state = "running" => v \in held

(* A process is out of everybody's reach only when a configuration failed,
   a handler was dropped half way, or the sandbox got another VM: never
   after a stop or a removal that ran to its end (121-132, vm.rs:120-145). *)
InReach(v) == \/ \E b \in VmBoxes : vmOf[b] = v
              \/ \E r \in Enders : ender[r].vm = v
              \/ vm[v].at \in {"start", "configure", "insert"}

LostForAReason ==
  \A v \in alive : \/ InReach(v)
                   \/ vm[v].at \in {"failed", "dropped"} \/ vm[v].state = "stopping"
                   \/ \E w \in Vms \ {v} : vm[w].at = "done" /\ vm[w].box = vm[v].box

StoppedIsDead == \A v \in Vms : vm[v].state = "stopped" => v \notin alive

(* The map, the processes and the directories agree. *)
FirecrackerInv == VmTypeOK /\ MappedIsWhole /\ LostForAReason /\ StoppedIsDead

----
(* The agent inside a VM (src/firecracker/agent): the server takes each
   request on a connection of its own, the executor writes the code to a
   file, compiles it where the language asks for it, and runs it.  Java's
   file has the same name for everybody.  An answer at once comes from
   output(), a streamed one from readers of the two pipes, which end when
   every process that holds them has ended.  It shares no state with the
   manager of the VMs above. *)

CONSTANTS Requests,  \* executions asked for
          Java,      \* those in Java
          Streamed,  \* those with stream_output
          NoCode     \* no code, in a file

ASSUME VmAgentAssumption == Java \cup Streamed \subseteq Requests /\ NoCode \notin Requests

VARIABLES
  exec,     \* where each execution is
  source,   \* whose code is in Main.java
  class,    \* whose code is in Main.class
  codeFiles,\* code files with a name of their own
  ran,      \* whose code an execution runs
  process,  \* of an execution: "none", "running", or "ended"
  pipes,    \* executions some process holds the pipes of
  listening,\* clients that are still there
  answer    \* what a client got: "none", "completed" or "failed"

agentVars == <<exec, source, class, codeFiles, ran, process, pipes, listening, answer>>

AgentInit ==
  /\ exec = [r \in Requests |-> "asked"]
  /\ source = NoCode /\ class = NoCode /\ codeFiles = {}
  /\ ran = [r \in Requests |-> NoCode]
  /\ process = [r \in Requests |-> "none"]
  /\ pipes = {}
  /\ listening = Requests
  /\ answer = [r \in Requests |-> "none"]

Reached(r, at) == exec' = [exec EXCEPT ![r] = at]

\* What a client that has gone is sent is lost.
Reply(r, what) == answer' = IF r \in listening THEN [answer EXCEPT ![r] = what] ELSE answer

----
(* prepare_execution: the code is written, then, where the language asks
   for it, compiled; javac compiles what it finds. *)
WriteCode(r) ==
  /\ exec[r] = "asked"
  /\ IF r \in Java THEN source' = r /\ UNCHANGED codeFiles
                   ELSE codeFiles' = codeFiles \cup {r} /\ UNCHANGED source
  /\ Reached(r, "compile")
  /\ UNCHANGED <<class, ran, process, pipes, listening, answer>>

Compile(r) ==
  /\ exec[r] = "compile"
  /\ r \in Java => source # NoCode
  /\ class' = IF r \in Java THEN source ELSE class
  /\ Reached(r, "launch")
  /\ UNCHANGED <<source, codeFiles, ran, process, pipes, listening, answer>>

(* The file cannot be written, has an error, or has no interpreter: what
   there is of it stays. *)
PrepareFails(r) ==
  /\ exec[r] \in {"asked", "compile", "launch"}
  /\ Reached(r, "over") /\ Reply(r, "failed")
  /\ UNCHANGED <<source, class, codeFiles, ran, process, pipes, listening>>

LaunchNewest(r) ==  \* the defect: every execution runs what was compiled last
  /\ exec[r] = "launch" /\ class # NoCode
  /\ ran' = [ran EXCEPT ![r] = class]
  /\ process' = [process EXCEPT ![r] = "running"]
  /\ pipes' = pipes \cup {r}
  /\ Reached(r, "wait")
  /\ UNCHANGED <<source, class, codeFiles, listening, answer>>

Launch(r) ==
  /\ exec[r] = "launch"
  /\ ran' = [ran EXCEPT ![r] = IF r \in Java THEN class ELSE r]
  /\ process' = [process EXCEPT ![r] = "running"]
  /\ pipes' = pipes \cup {r}
  /\ Reached(r, "wait")
  /\ UNCHANGED <<source, class, codeFiles, listening, answer>>

(* The process ends; those it started may go on and hold its pipes. *)
ProcessEnds(r) ==
  /\ process[r] = "running"
  /\ process' = [process EXCEPT ![r] = "ended"]
  /\ pipes' \in {pipes, pipes \ {r}}
  /\ UNCHANGED <<exec, source, class, codeFiles, ran, listening, answer>>

PipesClose(r) ==
  /\ process[r] = "ended" /\ r \in pipes
  /\ pipes' = pipes \ {r}
  /\ UNCHANGED <<exec, source, class, codeFiles, ran, process, listening, answer>>

(* The time is over: output() is given up, and the process goes on, as does
   the file.  A streamed one is killed and its readers are waited for: its
   client is told that it has completed. *)
GiveUpOutput(r) ==
  /\ exec[r] = "wait" /\ r \notin Streamed
  /\ Reached(r, "over") /\ Reply(r, "failed")
  /\ UNCHANGED <<source, class, codeFiles, ran, process, pipes, listening>>

KillStreamed(r) ==
  /\ exec[r] = "wait" /\ r \in Streamed /\ process[r] = "running"
  /\ process' = [process EXCEPT ![r] = "ended"]
  /\ pipes' \in {pipes, pipes \ {r}}
  /\ UNCHANGED <<exec, source, class, codeFiles, ran, listening, answer>>

(* Process and pipes have ended: the code file goes, and the answer is sent. *)
CleanUpCode(r) ==
  /\ exec[r] = "wait" /\ process[r] = "ended" /\ r \notin pipes
  /\ IF r \in Java THEN source' = NoCode /\ UNCHANGED codeFiles
                   ELSE codeFiles' = codeFiles \ {r} /\ UNCHANGED source
  /\ Reached(r, "answer")
  /\ UNCHANGED <<class, ran, process, pipes, listening, answer>>

SendAnswer(r) ==
  /\ exec[r] = "answer"
  /\ Reached(r, "over") /\ Reply(r, "completed")
  /\ UNCHANGED <<source, class, codeFiles, ran, process, pipes, listening>>

(* The client goes away: what was started goes on to its end. *)
ClientLeaves(r) ==
  /\ r \in listening /\ answer[r] = "none"
  /\ listening' = listening \ {r}
  /\ UNCHANGED <<exec, source, class, codeFiles, ran, process, pipes, answer>>

AgentNext ==
  \E r \in Requests :
      \/ WriteCode(r) \/ Compile(r) \/ PrepareFails(r) \/ Launch(r)
      \/ ProcessEnds(r) \/ PipesClose(r)
      \/ GiveUpOutput(r) \/ KillStreamed(r) \/ CleanUpCode(r)
      \/ SendAnswer(r) \/ ClientLeaves(r)

----
AgentTypeOK ==
  /\ \A r \in Requests :
        /\ exec[r] \in {"asked", "compile", "launch", "wait", "answer", "over"}
        /\ ran[r] \in Requests \cup {NoCode}
        /\ answer[r] \in {"none", "completed", "failed"}
  /\ {source, class} \subseteq Java \cup {NoCode}
  /\ codeFiles \subseteq Requests \ Java

(* An execution runs the code it was asked to, unless it is Java and
   another Java execution wrote its code in between (executor.rs:226-243). *)
RunsItsCode == \A r \in Requests : ran[r] \in {NoCode, r} \/ {r, ran[r]} \subseteq Java

(* When a client is told that its code has completed, its process has ended,
   nothing holds its pipes and its file is gone; a file outlives the answer
   only when the execution never ran, or output() was given up. *)
CompletedIsOver ==
  \A r \in Requests :
      /\ answer[r] = "completed" => process[r] = "ended" /\ r \notin pipes \cup codeFiles
      /\ exec[r] = "over" /\ process[r] = "running" => r \notin Streamed
      /\ exec[r] = "over" /\ r \in codeFiles => r \notin Streamed \/ process[r] = "none"

(* Code, processes, files and answers belong together. *)
AgentInv == AgentTypeOK /\ RunsItsCode /\ CompletedIsOver
====
