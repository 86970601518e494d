---- MODULE SessionRecovery ----
(* SessionRecoveryService::recover_all_sessions (src/session/recovery.rs)
   after a restart of the system, on top of the session store.  The
   service owns its ContainerManager, in which nobody registers a
   container: list_containers is always empty and restart_container never
   finds what it is asked for.  What remains of the recovery starts from
   the indexes of the users whose names it can guess. *)
EXTENDS SessionStore, FiniteSets

CONSTANTS Service,  \* the recovery service's connection to Redis
          Guessable, \* the users discover_additional_sessions looks for
          MaxFaults  \* bound on the sessions whose recovery meets a failure of Docker or Redis

ASSUME RecoveryAssumption == Service \in Clients /\ Guessable \subseteq Users /\ MaxFaults \in Nat

VARIABLES
  box,      \* the containers in Docker
  recovery, \* where the service is, the sessions it has still to look at,
            \* the one at hand and the container made for it
  reported, \* recovery results: session -> what was reported
  harmed    \* history: the sessions whose recovery met a failure

recoveryVars == <<storeVars, box, recovery, reported, harmed>>

Servers == Clients \ {Service}
Nothing == [phase |-> "up", todo |-> {}, cur |-> NoCopy, made |-> None]

RecoveryInit ==
  /\ StoreInit
  /\ box = [c \in Conts |-> "none"]
  /\ recovery = Nothing
  /\ reported = [s \in Sessions |-> "nothing"]
  /\ harmed = {}

Enter(phase) == recovery' = [recovery EXCEPT !.phase = phase]
FaultIn(s) == Cardinality(harmed \cup {s}) <= MaxFaults /\ harmed' = harmed \cup {s}
Fault == FaultIn(recovery.cur.id)

----
\* Before the restart: servers use the store; a session may get a container.
Serve(w) ==
  /\ recovery.phase = "up"
  /\ \/ (\/ \E s \in Sessions : CreateSession(w, s) \/ GetSession(w, s)
         \/ DeleteSession(w)
         \/ RunCommand(w))
        /\ UNCHANGED box
     \/ \E ext \in Extensions, c \in Conts \cup {None} :
           /\ UpdateSession(w, ext, c)
           /\ c # None => box[c] = "none" \/ c = held[w].cont
           /\ box' = IF c # None /\ box[c] = "none" THEN [box EXCEPT ![c] = "running"] ELSE box
  /\ UNCHANGED <<recovery, reported, harmed>>

InPipeline(s) == \E w \in Clients : \E i \in DOMAIN pipeline[w] : pipeline[w][i].on.id = s

Restart ==
  /\ recovery.phase = "up"
  /\ Enter("discover")
  /\ held' = [w \in Clients |-> NoCopy]
  /\ pipeline' = [w \in Clients |-> <<>>]
  /\ cut' = cut \cup {s \in Sessions : InPipeline(s)}
  /\ \E stopped \in SUBSET {c \in Conts : box[c] = "running"}, lost \in SUBSET Conts :
        /\ lost \subseteq stopped
        /\ box' = [c \in Conts |-> IF c \in lost THEN "gone"
                                   ELSE IF c \in stopped THEN "exited" ELSE box[c]]
  /\ UNCHANGED <<clock, sessions, userIndex, contKey, reported, harmed>>

Listed == {s \in UNION {userIndex[u].ids : u \in {v \in Guessable : Live(userIndex[v])}} :
              Live(sessions[s])}

(* get_all_active_sessions: what the guessed users' indexes list and is
   still stored, of which recover_all_sessions takes those with a container. *)
Discover ==
  /\ recovery.phase = "discover"
  /\ recovery' = [recovery EXCEPT !.phase = "next",
                     !.todo = {Stored(s) : s \in {t \in Listed : sessions[t].cont # None}}]
  /\ UNCHANGED <<storeVars, box, reported, harmed>>

Finish ==
  /\ recovery.phase = "next"
  /\ recovery.todo = {}
  /\ Enter("done")
  /\ UNCHANGED <<storeVars, box, reported, harmed>>

Answer(s, what) ==
  /\ reported' = [reported EXCEPT ![s] = what]
  /\ recovery' = [recovery EXCEPT !.phase = "next", !.cur = NoCopy, !.made = None]

\* get_container_info: what Docker can inspect, running or not.
ExistsTrusted(v) == TRUE  \* the defect: a container in the session is taken to exist
Exists(v) == box[v.cont] \in {"running", "exited"}

\* What becomes of a session whose container cannot be used.
RemedyHasty(v) == "fail"  \* the defect: any error ends the session
Remedy(v) == IF clock > v.exp THEN "fail" ELSE "create"

(* assess_session_health with get_container_info, and recover_session for
   the actions that need no more: a running container is healthy, one that
   exists is "restarted" (restart_container finds no such sandbox and that
   counts as success), any error means that it has to be made again.  An
   expired session is failed whatever its container. *)
Assess ==
  \E v \in recovery.todo, found \in BOOLEAN :
      LET left == recovery.todo \ {v}
      IN  /\ recovery.phase = "next"
          /\ IF found = Exists(v) THEN UNCHANGED harmed ELSE ~found /\ FaultIn(v.id)
          /\ IF found /\ clock <= v.exp
             THEN /\ recovery' = [recovery EXCEPT !.todo = left]
                  /\ reported' = [reported EXCEPT ![v.id] =
                         IF box[v.cont] = "running" THEN "healthy" ELSE "restarted"]
             ELSE /\ recovery' = [recovery EXCEPT !.todo = left, !.cur = v, !.phase = Remedy(v)]
                  /\ UNCHANGED reported
          /\ UNCHANGED <<storeVars, box>>

(* recreate_container_for_session: create, then start.  If the start fails,
   the container that was created is forgotten. *)
Recreate ==
  /\ recovery.phase = "create"
  /\ \/ \E c \in Conts : /\ box[c] = "none"
                         /\ box' = [box EXCEPT ![c] = "exited"]
                         /\ recovery' = [recovery EXCEPT !.phase = "start", !.made = c]
                         /\ UNCHANGED <<reported, harmed>>
     \/ Fault /\ Answer(recovery.cur.id, "failed") /\ UNCHANGED box
  /\ UNCHANGED storeVars

Start ==
  /\ recovery.phase = "start"
  /\ \/ /\ box' = [box EXCEPT ![recovery.made] = "running"]
        /\ Enter("update")
        /\ UNCHANGED <<reported, harmed>>
     \/ Fault /\ Answer(recovery.cur.id, "failed") /\ UNCHANGED box
  /\ UNCHANGED storeVars

(* update_session with the new container; its error is logged. *)
Update ==
  /\ recovery.phase = "update"
  /\ Send(Service, UpdateCommands([recovery.cur EXCEPT !.cont = recovery.made]))
  /\ Enter("wait")
  /\ UNCHANGED <<clock, sessions, userIndex, contKey, held, box, reported, harmed>>

(* MarkAsFailed: stop the container, errors ignored, and delete_session. *)
MarkAsFailed ==
  /\ recovery.phase = "fail"
  /\ box' = [box EXCEPT ![recovery.cur.cont] =
                IF @ = "running" THEN "exited" ELSE @]
  /\ Send(Service, <<Command("lookup", recovery.cur, 0)>>)
  /\ Enter("wait")
  /\ UNCHANGED <<clock, sessions, userIndex, contKey, held, reported, harmed>>

(* The result is a success once the container was made or stopped, also
   when the store failed. *)
Report ==
  /\ recovery.phase = "wait"
  /\ Ready(Service)
  /\ Answer(recovery.cur.id, IF recovery.made = None THEN "removed" ELSE "recreated")
  /\ UNCHANGED <<storeVars, box, harmed>>

RunService == RunCommand(Service) /\ UNCHANGED <<box, recovery, reported, harmed>>

StoreFails == Disconnect(Service) /\ Fault /\ UNCHANGED <<box, recovery, reported>>

RecoveryTick == StoreTick /\ UNCHANGED <<box, recovery, reported, harmed>>

RecoveryNext ==
  \/ \E w \in Servers : Serve(w) \/ (Disconnect(w) /\ UNCHANGED <<box, recovery, reported, harmed>>)
  \/ Restart \/ Discover \/ Finish \/ Assess \/ Recreate \/ Start \/ Update \/ MarkAsFailed
  \/ Report \/ RunService \/ StoreFails \/ RecoveryTick

RecoverySpec == RecoveryInit /\ [][RecoveryNext]_recoveryVars

----
RecoveryTypeOK ==
  /\ StoreTypeOK
  /\ box \in [Conts -> {"none", "running", "exited", "gone"}]
  /\ recovery.phase \in {"up", "discover", "next", "create", "start", "update", "fail", "wait", "done"}
  /\ \A v \in recovery.todo : v.id \in Sessions /\ v.cont \in Conts
  /\ recovery.made \in Conts \cup {None}
  /\ reported \in [Sessions -> {"nothing", "healthy", "restarted", "recreated", "failed", "removed"}]
  /\ harmed \subseteq Sessions

(* While a session can be read, its user's index is there, and outlives it:
   "Update user sessions set TTL to ensure it doesn't expire before
   sessions" (persistence.rs:174).  It is about the deadlines written by
   pipelines of several clients, run in any order, for all of a user's
   sessions; only a lost connection, or a set that expired between its
   SADD and its EXPIRE, may leave a session out. *)
IndexOutlivesSessions ==
  \A s \in Sessions :
      LET index == userIndex[Owner[s]]
      IN  Live(sessions[s]) /\ s \in index.ids /\ ~InPipeline(s) /\ s \notin cut =>
              index.until >= sessions[s].until

(* Recovery never leaves a running container of its own making that the
   session does not name, unless something failed for that session or its
   time is up (update_session at recovery.rs:217 is the only record of it). *)
RecreatedIsRecorded ==
  \A s \in Sessions \ harmed : reported[s] = "recreated" /\ Live(sessions[s]) =>
      box[sessions[s].cont] = "running"

(* A session that recovery has dealt with is never left naming a container
   that Docker no longer has, whatever failed for other sessions. *)
RecoveredHasContainer ==
  recovery.phase = "done" =>
      \A s \in Sessions \ harmed : reported[s] # "nothing" /\ Live(sessions[s]) =>
          box[sessions[s].cont] \in {"running", "exited"}

(* What recovery leaves behind: every session it dealt with without a
   failure names a container that is there, the one made for it if one was;
   a failure in one session's recovery costs no other its container. *)
RecoveryInv == RecoveryTypeOK /\ RecreatedIsRecorded /\ RecoveredHasContainer

(* A container that runs is only stopped by recovery when the session it
   belongs to has expired. *)
StopsOnlyExpired ==
  [][\A c \in Conts : box[c] = "running" /\ box'[c] # "running" /\ recovery.phase # "up" =>
        \A s \in Sessions : Live(sessions[s]) => sessions[s].cont # c]_recoveryVars
====
