---- MODULE Terminal ----
(* PtyWebSocketHandler (src/websocket/pty.rs).  A terminal is a shell with
   five tasks: the connection, which sends what the shell prints to the
   client; one reader for each of its outputs; one task for what the client
   sends; and one that writes it to the shell's stdin.  They share the session
   behind a read-write lock, and all terminals share the map of sessions
   behind another.  A reader keeps the session's lock for as long as it reads,
   and the client's task for as long as the channel to stdin is full. *)
EXTENDS Naturals, FiniteSets

CONSTANTS Terms,  \* connections, each with a terminal of its own
          Channel  \* capacity of the channels to the connection and to stdin: 100

ASSUME TerminalAssumption == Channel \in Nat \ {0}

VARIABLES
  conn,     \* the connection: "new", "insert", "pump", "remove", "gone"
  shell,    \* "none", "running", "exited"
  background,  \* has a child of the shell its pipes too?
  process,  \* does the session still have the process?
  reader,   \* of stdout and stderr: "new", "reading", "sending", "done"
  typist,   \* the client's messages: "receive", "input", "send", "error",
            \* "resize", "pong", "kill", "done"
  input,    \* what the client typed, in the channel to stdin
  stdin,    \* does the task that writes to stdin still take it?
  output,   \* messages in the channel to the connection
  listed,   \* sessions: the terminals in the map
  killer    \* kill_session: the terminals it has taken out of the map and waits for

inVars == <<typist, input, stdin>>
termVars == <<conn, shell, background, process, reader, inVars, output, listed, killer>>

Pipes == {"stdout", "stderr"}

TermInit ==
  /\ conn = [t \in Terms |-> "new"]
  /\ shell = [t \in Terms |-> "none"]
  /\ background = [t \in Terms |-> FALSE]
  /\ process = [t \in Terms |-> FALSE]
  /\ reader = [t \in Terms |-> [p \in Pipes |-> "new"]]
  /\ typist = [t \in Terms |-> "receive"]
  /\ input = [t \in Terms |-> 0]
  /\ stdin = [t \in Terms |-> TRUE]
  /\ output = [t \in Terms |-> 0]
  /\ listed = {}
  /\ killer = {}

(* The session's lock is held by a reader that reads or sends, and by the
   client's task while it sends what was typed, or the error; everybody else
   takes it for one step. *)
Locked(t) ==
  \/ \E p \in Pipes : reader[t][p] \in {"reading", "sending"}
  \/ typist[t] \in {"send", "error"}
(* kill_session holds the map while it waits for the session: the guard of
   `if let` lives as long as its body. *)
MapLocked == killer # {}

----
StartShell(t) ==
  /\ conn[t] = "new"
  /\ \/ /\ conn' = [conn EXCEPT ![t] = "insert"]
        /\ shell' = [shell EXCEPT ![t] = "running"]
        /\ process' = [process EXCEPT ![t] = TRUE]
     \/ /\ conn' = [conn EXCEPT ![t] = "gone"]         \* no shell
        /\ UNCHANGED <<shell, process>>
  /\ UNCHANGED <<background, reader, inVars, output, listed, killer>>

InsertSession(t) ==
  /\ conn[t] = "insert" /\ ~MapLocked
  /\ listed' = listed \cup {t}
  /\ conn' = [conn EXCEPT ![t] = "pump"]
  /\ UNCHANGED <<shell, background, process, reader, inVars, output, killer>>

\* The tasks are there once the session is in the map.
Spawned(t) == conn[t] \in {"pump", "remove", "gone"} /\ shell[t] # "none"

TakeLock(t, p) ==
  /\ Spawned(t) /\ reader[t][p] = "new" /\ ~Locked(t)
  /\ reader' = [reader EXCEPT ![t][p] = IF process[t] THEN "reading" ELSE "done"]
  /\ UNCHANGED <<conn, shell, background, process, inVars, output, listed, killer>>

(* Whoever has the pipes prints when it likes; a reader waits for it. *)
PipesOpen(t) == shell[t] = "running" \/ background[t]

Read(t, p) ==
  /\ PipesOpen(t) /\ reader[t][p] = "reading"
  /\ reader' = [reader EXCEPT ![t][p] = "sending"]
  /\ UNCHANGED <<conn, shell, background, process, inVars, output, listed, killer>>

\* A message for a connection that has gone is dropped.
Send(t) ==
  \/ conn[t] = "gone" /\ UNCHANGED output
  \/ conn[t] # "gone" /\ output[t] < Channel /\ output' = [output EXCEPT ![t] = @ + 1]

SendOutput(t, p) ==
  /\ reader[t][p] = "sending" /\ Send(t)
  /\ reader' = [reader EXCEPT ![t][p] = "reading"]
  /\ UNCHANGED <<conn, shell, background, process, inVars, listed, killer>>

EndOfFileIgnored(t, p) == FALSE  \* the defect: an empty read is read again
EndOfFile(t, p) == ~PipesOpen(t)

StopReading(t, p) ==
  /\ reader[t][p] = "reading" /\ EndOfFile(t, p)
  /\ reader' = [reader EXCEPT ![t][p] = "done"]
  /\ UNCHANGED <<conn, shell, background, process, inVars, output, listed, killer>>

----
(* The client's messages, one after the other. *)
Hear(t) ==
  /\ Spawned(t) /\ typist[t] = "receive"
  /\ \E what \in {"input", "resize", "pong", "kill"} : typist' = [typist EXCEPT ![t] = what]
  /\ UNCHANGED <<conn, shell, background, process, reader, input, stdin, output, listed, killer>>

Turn(t, to) ==
  /\ typist' = [typist EXCEPT ![t] = to]
  /\ UNCHANGED <<conn, shell, background, process, reader, stdin, listed, killer>>

Resize(t) ==
  /\ typist[t] = "resize" /\ ~Locked(t)
  /\ Turn(t, "receive") /\ UNCHANGED <<input, output>>

TakeInput(t) ==
  /\ typist[t] = "input" /\ ~Locked(t)
  /\ Turn(t, "send") /\ UNCHANGED <<input, output>>

(* send_input waits for room with the session's lock; it fails when stdin's
   task has ended, and the client is told before the lock is released. *)
SendInput(t) ==
  /\ typist[t] = "send" /\ UNCHANGED output
  /\ \/ stdin[t] /\ input[t] < Channel
        /\ input' = [input EXCEPT ![t] = @ + 1] /\ Turn(t, "receive")
     \/ ~stdin[t] /\ Turn(t, "error") /\ UNCHANGED input

Answer(t) ==
  /\ typist[t] \in {"error", "pong"} /\ Send(t)
  /\ Turn(t, "receive") /\ UNCHANGED input

(* The task that writes to stdin: the shell, or a child that has its stdin,
   takes it when it likes; with nobody left the write fails and the task ends. *)
Type(t) ==
  /\ PipesOpen(t) /\ input[t] > 0
  /\ input' = [input EXCEPT ![t] = @ - 1]
  /\ UNCHANGED <<conn, shell, background, process, reader, typist, stdin, output, listed, killer>>

TypeFails(t) ==
  /\ shell[t] = "exited" /\ input[t] > 0
  /\ input' = [input EXCEPT ![t] = 0] /\ stdin' = [stdin EXCEPT ![t] = FALSE]
  /\ UNCHANGED <<conn, shell, background, process, reader, typist, output, listed, killer>>

KillShell(t) ==
  /\ shell' = IF process[t] THEN [shell EXCEPT ![t] = "exited"] ELSE shell
  /\ process' = [process EXCEPT ![t] = FALSE]

HangUp(t) ==
  /\ typist[t] = "kill" /\ ~Locked(t)
  /\ KillShell(t)
  /\ typist' = [typist EXCEPT ![t] = "done"]
  /\ UNCHANGED <<conn, background, reader, input, stdin, output, listed, killer>>

(* The shell ends by itself: nothing keeps it from it.  What it started in
   the background stays, with the pipes. *)
Exit(t) ==
  /\ shell[t] = "running"
  /\ shell' = [shell EXCEPT ![t] = "exited"]
  /\ UNCHANGED <<conn, background, process, reader, inVars, output, listed, killer>>

Background(t) ==
  /\ shell[t] = "running" \/ background[t]
  /\ background' = [background EXCEPT ![t] = ~@]
  /\ UNCHANGED <<conn, shell, process, reader, inVars, output, listed, killer>>

(* The connection sends output, as fast as the client takes it, and ends
   when the client has gone.  It never sees the channel closed: it keeps a sender of its own. *)
Deliver(t) ==
  /\ conn[t] = "pump" /\ output[t] > 0
  /\ output' = [output EXCEPT ![t] = @ - 1]
  /\ IF typist[t] \in {"kill", "done"} THEN conn' \in {conn, [conn EXCEPT ![t] = "remove"]} ELSE conn' = conn
  /\ UNCHANGED <<shell, background, process, reader, inVars, listed, killer>>

RemoveSession(t) ==
  /\ conn[t] = "remove" /\ ~MapLocked
  /\ listed' = listed \ {t}
  /\ conn' = [conn EXCEPT ![t] = "gone"]
  /\ UNCHANGED <<shell, background, process, reader, inVars, output, killer>>

----
(* kill_session, called by anybody. *)
KillSession(t) ==
  /\ ~MapLocked /\ t \in listed
  /\ listed' = listed \ {t}
  /\ killer' = {t}
  /\ UNCHANGED <<conn, shell, background, process, reader, inVars, output>>

KillTaken(t) ==
  /\ t \in killer /\ ~Locked(t)
  /\ KillShell(t)
  /\ killer' = {}
  /\ UNCHANGED <<conn, background, reader, inVars, output, listed>>

TermTasks(t) ==
  \/ InsertSession(t) \/ HangUp(t) \/ RemoveSession(t) \/ KillTaken(t)
  \/ Resize(t) \/ TakeInput(t) \/ SendInput(t) \/ Answer(t) \/ TypeFails(t)
  \/ \E p \in Pipes : TakeLock(t, p) \/ SendOutput(t, p) \/ StopReading(t, p)

TermNext ==
  \E t \in Terms :
      \/ TermTasks(t)
      \/ StartShell(t) \/ Hear(t) \/ Deliver(t) \/ KillSession(t)
      \/ Exit(t) \/ Background(t) \/ Type(t)
      \/ \E p \in Pipes : Read(t, p)

----
TermTypeOK ==
  /\ conn \in [Terms -> {"new", "insert", "pump", "remove", "gone"}]
  /\ shell \in [Terms -> {"none", "running", "exited"}]
  /\ reader \in [Terms -> [Pipes -> {"new", "reading", "sending", "done"}]]
  /\ typist \in [Terms -> {"receive", "input", "send", "error", "resize", "pong", "kill", "done"}]
  /\ output \in [Terms -> 0..Channel] /\ input \in [Terms -> 0..Channel]
  /\ background \in [Terms -> BOOLEAN] /\ stdin \in [Terms -> BOOLEAN]
  /\ listed \subseteq Terms /\ Cardinality(killer) <= 1
  /\ \A t \in Terms : Cardinality({p \in Pipes : reader[t][p] \in {"reading", "sending"}}) <= 1

(* Once the shell has exited and nobody is left who has its pipes, whoever
   waits for the session gets it, as long as the client keeps taking what is
   printed: the client's next message is handled, to the end, and a
   kill_session ends.  Not so when the connection is on its way out: it waits
   for the map, kill_session for the session, and the reader for room in the
   connection's channel (handle_connection 182-289, kill_session 298-304). *)
TypistWaits(t) == typist[t] \in {"input", "send", "error", "resize"}
ClientReads(t) == []<>(output[t] < Channel)

ExitUnblocks ==
  \A t \in Terms :
      ClientReads(t) =>
        /\ ~PipesOpen(t) /\ TypistWaits(t) ~> ~TypistWaits(t) \/ conn[t] = "remove"
        /\ shell[t] = "exited" /\ ~background[t] /\ t \in killer ~> t \notin killer \/ conn[t] = "remove"

(* What the client types reaches the shell while it runs ("Send input to
   PTY"): the session's lock is had at least. *)
TypingIsHandled == \A t \in Terms : typist[t] = "input" ~> typist[t] # "input"
====
