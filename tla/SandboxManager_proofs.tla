---- MODULE SandboxManager_proofs ----
(* Theorems about the sandbox manager on top of the container manager, for
   any number of handlers, sandboxes, containers and permits. *)
EXTENDS SandboxManager, ContainerManager_proofs

Methods == [pc : {"none", "creating", "starting", "inserting", "executing", "destroying"},
            sb : Sandboxes \cup {None},
            cont : Conts \cup {None},
            kind : Kinds]

\* Where a handler is in a method of the sandbox manager fits where it is in
\* the container manager below.
Fits(w) ==
  /\ call[w].pc = "none" => op[w].pc = "idle" \/ Cleaning(w)
  /\ call[w].pc = "creating" => Making(w) /\ op[w].sb = call[w].sb
  /\ call[w].pc \in {"starting", "inserting", "executing"} =>
         op[w].pc = "idle" /\ call[w].cont \in Conts
  /\ call[w].pc = "destroying" =>
         op[w].pc = "idle" \/ (Cleaning(w) /\ op[w].sb = call[w].sb)
  /\ call[w].pc # "none" => call[w].sb \in Sandboxes

Calls == /\ active \in [Sandboxes -> Conts \cup {None}]
         /\ call \in [Workers -> Methods]
         /\ lost \in SUBSET Sandboxes /\ told \in SUBSET Sandboxes
         /\ \A w \in Workers : Fits(w)

\* Whatever the methods do to the registry, to Docker and to the tasks is an
\* operation of the container manager.
LEMMA StepBelow == Calls /\ [SMNext]_allVars => [Next]_vars
<1> SUFFICES ASSUME Calls, [SMNext]_allVars PROVE [Next]_vars OBVIOUS
<1>1. ASSUME NEW w \in Workers, NEW s \in Sandboxes,
             \/ \E kind \in Kinds : CreateSandbox(w, s, kind)
             \/ DestroySandbox(w, s) \/ DeleteSandbox(w, s)
      PROVE  Call(w) \/ UNCHANGED vars
  BY <1>1 DEF CreateSandbox, DestroySandbox, TakeOut, DeleteSandbox, Call
<1>2. ASSUME NEW w \in Workers,
             \/ Creating(w) \/ StartContainer(w) \/ Activate(w) \/ AnswerRest(w)
             \/ FinishTemporary(w) \/ RemoveRefused(w) \/ CancelCall(w)
      PROVE  Create(w) \/ Cancel(w) \/ UNCHANGED vars
  BY <1>2 DEF Creating, StartContainer, Activate, AnswerRest, FinishTemporary, TakeOut, RemoveRefused,
    CancelCall, Create
<1>3. ASSUME NEW w \in Workers, RemoveStarts(w) PROVE Call(w)
  BY <1>3 DEF RemoveStarts, Calls, Fits, Call
<1>4. ASSUME NEW k \in Tasks, Removal(k) PROVE Remove(k) BY <1>4 DEF Removal
<1>5. ASSUME Arcs \/ Shutdown PROVE Next BY <1>5 DEF Arcs, Shutdown, Next
<1>6. QED BY <1>1, <1>2, <1>3, <1>4, <1>5 DEF SMNext, allVars, Next

----
\* A step of handler w, to whose method the new locals fit.
LEMMA CallsStep ==
  ASSUME Calls, NEW w \in Workers, NEW r \in Methods, call' = [call EXCEPT ![w] = r],
         \A v \in Workers \ {w} : op'[v] = op[v], Fits(w)',
         active' \in [Sandboxes -> Conts \cup {None}], lost' \in SUBSET Sandboxes,
         told' \in SUBSET Sandboxes
  PROVE  Calls'
  BY DEF Calls, Fits, Making, Cleaning

LEMMA NoCallTyped == NoCall \in Methods /\ NoCall.pc = "none" /\ NoCall.sb = None
  BY DEF NoCall, Methods, Kinds

LEMMA CallsKept == Typed /\ Calls /\ [SMNext]_allVars => Calls'
<1> SUFFICES ASSUME Typed, Calls, [SMNext]_allVars PROVE Calls' OBVIOUS
<1>0. /\ op \in [Tasks -> Locals] /\ Tasks = Workers \cup Sandboxes
      /\ Workers \cap Sandboxes = {} /\ registry \in [Sandboxes -> Conts \cup {None}]
      /\ active \in [Sandboxes -> Conts \cup {None}] /\ call \in [Workers -> Methods]
      /\ lost \in SUBSET Sandboxes /\ told \in SUBSET Sandboxes
  BY ManagerAssumption DEF Typed, TypeOK, Locals, PC, Tasks, Calls
<1>1. ASSUME NEW w \in Workers, NEW s \in Sandboxes, NEW kind \in Kinds,
             CreateSandbox(w, s, kind)
      PROVE  Calls'
  <2> DEFINE r == [NoCall EXCEPT !.pc = "creating", !.sb = s, !.kind = kind]
  <2>1. r \in Methods /\ r.pc = "creating" /\ r.sb = s BY DEF NoCall, Methods, Kinds
  <2>2. call' = [call EXCEPT ![w] = r] BY <1>1 DEF CreateSandbox
  <2> HIDE DEF r
  <2>3. QED BY <1>0, <1>1, <2>1, <2>2, CallsStep DEF CreateSandbox, BeginCreate, Fits, Making
<1>2. ASSUME NEW w \in Workers, Creating(w) PROVE Calls'
  <2>1. CASE \E c \in Conts : CreateInDocker(w, c) /\ UNCHANGED call
    <3>1. /\ op'[w].pc = "register" /\ op'[w].sb = op[w].sb
          /\ \A v \in Workers \ {w} : op'[v] = op[v]
      BY <1>0, <2>1 DEF CreateInDocker, Locals
    <3>2. QED BY <1>0, <1>2, <3>1, <2>1, CallsStep DEF Creating, Fits, Making, Calls
  <2>2. CASE CreateFails(w) /\ End(w)
    BY <1>0, <2>2, IdleLocals, NoCallTyped, <1>2, CallsStep DEF CreateFails, Return, End, Fits, Creating
  <2>3. CASE /\ Register(w)
             /\ call' = [call EXCEPT ![w].pc = "starting", ![w].cont = op[w].cont]
    <3>1. /\ op'[w].pc = "idle" /\ \A v \in Workers \ {w} : op'[v] = op[v]
          /\ op[w].cont \in Conts
      BY <1>0, <2>3, IdleLocals DEF Register, Return, Typed, CarriesCont, HasCont
    <3> DEFINE r == [call[w] EXCEPT !.pc = "starting", !.cont = op[w].cont]
    <3>2. /\ r \in Methods /\ r.pc = "starting" /\ r.sb = call[w].sb /\ r.cont = op[w].cont
          /\ call' = [call EXCEPT ![w] = r]
      BY <1>0, <2>3, <3>1 DEF Methods
    <3> HIDE DEF r
    <3>3. Fits(w)' BY <1>0, <1>2, <3>1, <3>2 DEF Fits, Creating, Calls
    <3>4. QED BY <1>0, <1>2, <3>1, <3>2, <3>3, CallsStep DEF Creating
  <2>4. QED BY <1>2, <2>1, <2>2, <2>3 DEF Creating
\* A method that goes on, or ends, with nothing under way below.
<1>3. ASSUME NEW w \in Workers, NEW pc \in {"inserting", "executing"}, UNCHANGED op,
             call[w].pc \in {"starting", "inserting"}, Step(w, pc),
             active' \in [Sandboxes -> Conts \cup {None}], lost' \in SUBSET Sandboxes,
             told' \in SUBSET Sandboxes
      PROVE  Calls'
  <2> DEFINE r == [call[w] EXCEPT !.pc = pc]
  <2> HIDE DEF r
  <2>1. Fits(w)' BY <1>0, <1>3 DEF Fits, Methods, Step, Calls
  <2>2. QED BY <1>3, <1>0, <2>1, CallsStep DEF Methods, Step
<1>4. ASSUME NEW w \in Workers, End(w), op'[w].pc = "idle",
             \A v \in Workers \ {w} : op'[v] = op[v],
             active' \in [Sandboxes -> Conts \cup {None}], lost' \in SUBSET Sandboxes,
             told' \in SUBSET Sandboxes
      PROVE  Calls'
  BY <1>0, <1>4, NoCallTyped, CallsStep DEF End, Fits
<1>5. ASSUME NEW w \in Workers, StartContainer(w) PROVE Calls'
  BY <1>5, <1>0, <1>3, <1>4 DEF StartContainer, Calls, vars, Fits
<1>6. ASSUME NEW w \in Workers, Activate(w) PROVE Calls'
  BY <1>6, <1>0, <1>3, <1>4 DEF Activate, Calls, vars, Fits
<1>7. ASSUME NEW w \in Workers, NEW s \in Sandboxes, TakeOut(w, s), op[w].pc = "idle"
      PROVE  Calls'
  <2>1. CASE active[s] = None BY <1>0, <1>4, <1>7, <2>1 DEF TakeOut, vars
  <2>2. CASE active[s] # None
    <3> DEFINE r == [NoCall EXCEPT !.pc = "destroying", !.sb = s, !.cont = active[s]]
    <3>1. /\ r \in Methods /\ r.pc = "destroying" /\ r.sb = s
      BY <1>0 DEF NoCall, Methods, Kinds
    <3>2. call' = [call EXCEPT ![w] = r] /\ active' = [active EXCEPT ![s] = None]
      BY <1>7, <2>2 DEF TakeOut
    <3> HIDE DEF r
    <3>3. QED BY <1>0, <1>7, <3>1, <3>2, CallsStep DEF Fits, TakeOut, vars
  <2>3. QED BY <2>1, <2>2
<1>8. ASSUME NEW w \in Workers, NEW s \in Sandboxes, DestroySandbox(w, s) PROVE Calls'
  BY <1>7, <1>8 DEF DestroySandbox
<1>9. ASSUME NEW w \in Workers, FinishTemporary(w) \/ AnswerRest(w) PROVE Calls'
  <2>1. CASE FinishTemporary(w) BY <1>7, <2>1 DEF FinishTemporary, Calls, Fits
  <2>2. CASE AnswerRest(w) BY <2>2, <1>0, <1>4 DEF AnswerRest, Calls, vars, Fits
  <2>3. QED BY <1>9, <2>1, <2>2
\* A step below that leaves the method where it is.
<1>10. ASSUME NEW w \in Workers, \A v \in Workers \ {w} : op'[v] = op[v], Cleaning(w)',
              call[w].pc \in {"none", "destroying"}, call[w].pc = "none" \/ op'[w].sb = call[w].sb,
              UNCHANGED smVars
       PROVE  Calls'
  BY <1>0, <1>10, CallsStep DEF Calls, Fits, smVars
<1>11. ASSUME NEW w \in Workers, NEW s \in Sandboxes, BeginRemove(w, s),
              call[w].pc = "none" \/ (call[w].pc = "destroying" /\ call[w].sb = s),
              UNCHANGED smVars
       PROVE  Calls'
  BY <1>0, <1>11, <1>10 DEF BeginRemove, Cleaning
<1>12. ASSUME NEW w \in Workers, RemoveStarts(w) PROVE Calls'
  BY <1>12, <1>11 DEF RemoveStarts, Calls, Fits
<1>13. ASSUME NEW w \in Workers, RemoveRefused(w) PROVE Calls'
  BY <1>13, <1>0, <1>4 DEF RemoveRefused, Calls, Fits, vars
<1>14. ASSUME NEW w \in Workers, CancelCall(w) PROVE Calls'
  BY <1>0, <1>14, IdleLocals, <1>4 DEF CancelCall, Cancel, Return, vars, Calls, Fits
\* Steps of the tasks that shutdown spawns, and of none.
<1>15. ASSUME \A v \in Workers : op'[v] = op[v], UNCHANGED smVars PROVE Calls'
  BY <1>0, <1>15 DEF Calls, Fits, Making, Cleaning, smVars
<1>16. ASSUME NEW k \in Tasks, Removal(k) PROVE Calls'
  <2>1. /\ Cleaning(k) /\ \A l \in Tasks \ {k} : op'[l] = op[l]
        /\ op'[k].pc = "idle" \/ (Cleaning(k)' /\ op'[k].sb = op[k].sb)
    BY <1>0, <1>16, IdleLocals DEF Removal, Remove, Cleanup, RemoveFromDocker, Unregister, Goto, Return, Cleaning, Locals
  <2>2. CASE k \notin Workers BY <1>0, <1>15, <1>16, <2>1, <2>2 DEF Removal, smVars
  <2>3. CASE k \in Workers /\ op'[k].pc = "idle"
    BY <1>0, <1>4, <1>16, <2>1, <2>3 DEF Removal
  <2>4. CASE k \in Workers /\ op'[k].pc # "idle"
    BY <1>0, <2>1, <2>4, <1>10, <1>16 DEF Calls, Fits, Methods, Cleaning, Making, Removal, smVars
  <2>5. QED BY <2>2, <2>3, <2>4
<1>17. ASSUME Arcs PROVE Calls'
  BY <1>15, <1>17 DEF Arcs, GetContainer, ClientDrops, DropLast
<1>18. ASSUME Shutdown PROVE Calls'
  BY <1>0, <1>18, <1>15 DEF Shutdown, SignalShutdown, SpawnRemovals, FinishShutdown, SpawnedRemoval, BeginRemove,
    RemovalVoid, Goto, Return
<1>19. QED BY <1>1, <1>2, <1>5, <1>6, <1>8, <1>9, <1>11, <1>12, <1>13, <1>14, <1>15, <1>16, <1>17, <1>18 DEF SMNext,
    DeleteSandbox, allVars, vars

----
LEMMA BelowInit == SMInit => Init /\ Calls
  BY IdleLocals, NoCallTyped DEF SMInit, Init, Calls, Fits, Tasks

\* All that holds of the container manager holds of it under the methods.
LEMMA BelowAlways == SMSpec => [](Typed /\ Ids /\ Calls)
<1>1. Typed /\ Ids /\ Calls /\ [SMNext]_allVars => Typed' /\ Ids' /\ Calls'
  BY StepBelow, CallsKept, TypedStep, IdsStep
<1>2. QED BY <1>1, BelowInit, TypedInit, IdsInit, PTL DEF SMSpec

(* The methods of the sandbox manager and of the REST server run on the
   container manager's own operations, so its theorems hold under them. *)
LEMMA RunsOnTheManager == SMSpec => Spec
  BY BelowInit, BelowAlways, StepBelow, PTL DEF SMSpec, Spec

(* What remove_container takes out of the registry under the methods of the
   sandbox manager and of REST, whose ids are new, is what it cleaned. *)
THEOREM SandboxesRemoveWhatTheyCleaned == SMSpec => RemovesWhatItCleaned
  BY RunsOnTheManager, UuidAssumption, RemovesWhatItCleanedAlways

----
\* The invariant of the two maps.  Held: a method that is about to activate a
\* container has the one registered, or one whose cleanup has begun.
\* Accounted is NoSilentOrphan with the methods that can be working on it.
Held ==
  \A w \in Workers : call[w].pc \in {"starting", "inserting"} =>
      registry[call[w].sb] = call[w].cont \/ call[w].cont \in cleaned_up
WorkingOn(s) ==
  \E w \in Workers : call[w].sb = s /\ call[w].pc \in {"starting", "inserting", "destroying"}
Accounted ==
  \A s \in Sandboxes : registry[s] # None /\ active[s] = None => s \in lost \cup told \/ WorkingOn(s)

MapsInv == Held /\ ActiveIsRegistered /\ Accounted

\* A container that is registered, or whose cleanup has begun, stays so.
LEMMA StaysRegistered ==
  ASSUME Typed, Ids, Calls, [SMNext]_allVars, NEW s \in Sandboxes, NEW c,
         c # None, registry[s] = c \/ c \in cleaned_up
  PROVE  registry'[s] = c \/ c \in cleaned_up'
  BY StepBelow, UuidAssumption, RemovedIsCleaned, CleanedStays

\* What a step may do to one handler's method.
LEMMA CallStep ==
  ASSUME Typed, Calls, [SMNext]_allVars, NEW w \in Workers, call'[w] # call[w]
  PROVE  \/ call[w].pc = "none" /\ call'[w].pc = "creating"
         \/ /\ call'[w].pc = "starting" /\ call'[w].sb = op[w].sb /\ op[w].sb = call[w].sb
            /\ call'[w].cont = op[w].cont /\ Register(w)
         \/ /\ call[w].pc = "starting" /\ call'[w].pc = "inserting"
            /\ call'[w].sb = call[w].sb /\ call'[w].cont = call[w].cont
         \/ call[w].pc = "inserting" /\ Activate(w) /\ call'[w].pc \in {"executing", "none"}
         \/ call[w].sb \in told' /\ call'[w].pc = "none"
         \/ call[w].pc \in {"none", "executing"} /\ call'[w].pc \in {"none", "destroying"}
         \/ /\ call'[w].pc = "none"
            /\ \/ call[w].pc = "creating" /\ registry' = registry
               \/ call[w].sb \in lost'
               \/ registry'[call[w].sb] = None
<1>0. /\ call \in [Workers -> Methods] /\ Fits(w) /\ op \in [Tasks -> Locals]
      /\ registry \in [Sandboxes -> Conts \cup {None}]
      /\ Tasks = Workers \cup Sandboxes
  BY DEF Calls, Typed, TypeOK, Locals, PC, Tasks
<1>1. ASSUME NEW v \in Workers, NEW s \in Sandboxes,
             \/ \E kind \in Kinds : CreateSandbox(v, s, kind)
             \/ DestroySandbox(v, s)
      PROVE  call[w].pc = "none" /\ call'[w].pc \in {"creating", "none", "destroying"}
  BY <1>0, <1>1 DEF CreateSandbox, DestroySandbox, TakeOut, End, NoCall
<1>2. ASSUME NEW v \in Workers, Creating(v)
      PROVE  \/ /\ call'[w].pc = "starting" /\ call'[w].sb = op[w].sb /\ op[w].sb = call[w].sb
                /\ call'[w].cont = op[w].cont /\ Register(w)
             \/ call[w].pc = "creating" /\ call'[w].pc = "none" /\ registry' = registry
  BY <1>0, <1>2 DEF Creating, CreateFails, regVars, End, NoCall, Methods, Fits
<1>3. ASSUME NEW v \in Workers, StartContainer(v)
      PROVE  \/ /\ call[w].pc = "starting" /\ call'[w].pc = "inserting"
                /\ call'[w].sb = call[w].sb /\ call'[w].cont = call[w].cont
             \/ call'[w].pc = "none" /\ call[w].sb \in lost'
  BY <1>0, <1>3 DEF StartContainer, Step, End, NoCall, Methods
<1>4. ASSUME NEW v \in Workers, Activate(v)
      PROVE  v = w /\ call[w].pc = "inserting" /\ call'[w].pc \in {"executing", "none"}
  BY <1>0, <1>4 DEF Activate, Step, End, NoCall, Methods
<1>11. ASSUME NEW v \in Workers, AnswerRest(v)
      PROVE  call[w].sb \in told' /\ call'[w].pc = "none"
  BY <1>0, <1>11 DEF AnswerRest, End, NoCall, Methods
<1>5. ASSUME NEW v \in Workers, FinishTemporary(v)
      PROVE  call[w].pc = "executing" /\ call'[w].pc \in {"none", "destroying"}
  BY <1>0, <1>5, NoCallTyped DEF FinishTemporary, TakeOut, End, Fits, NoCall
<1>6. ASSUME NEW v \in Workers, RemoveRefused(v)
      PROVE  /\ call'[w].pc = "none"
             /\ call[w].sb \in lost' \/ registry'[call[w].sb] = None
  BY <1>0, <1>6 DEF RemoveRefused, End, NoCall, vars, regVars
<1>7. ASSUME NEW v \in Workers, CancelCall(v)
      PROVE  call'[w].pc = "none" /\ (call[w].pc = "none" \/ call[w].sb \in lost')
  BY <1>0, <1>7 DEF CancelCall, End, NoCall
<1>8. ASSUME NEW k \in Tasks, Removal(k)
      PROVE  /\ call'[w].pc = "none"
             /\ call[w].pc = "none" \/ registry'[call[w].sb] = None
  BY <1>0, <1>8 DEF Removal, End, NoCall, Remove, Cleanup, RemoveFromDocker, Goto, Locals, Unregister, Fits, Making, Methods
<1>9. ASSUME UNCHANGED call PROVE FALSE BY <1>9
<1>10. QED BY <1>1, <1>2, <1>3, <1>4, <1>5, <1>6, <1>7, <1>8, <1>9, <1>11 DEF SMNext, DeleteSandbox, RemoveStarts, Arcs,
    Shutdown, allVars, smVars

\* And to the map of active sandboxes.
LEMMA ActiveStep ==
  ASSUME Calls, [SMNext]_allVars, NEW s \in Sandboxes, active'[s] # active[s]
  PROVE  \/ \E w \in Workers : Activate(w) /\ call[w].sb = s /\ active'[s] = call[w].cont
         \/ active'[s] = None /\ WorkingOn(s)'
<1>0. active \in [Sandboxes -> Conts \cup {None}] /\ call \in [Workers -> Methods]
  BY DEF Calls
<1>1. ASSUME NEW w \in Workers, NEW t \in Sandboxes, TakeOut(w, t)
      PROVE  active'[s] = None /\ WorkingOn(s)'
  BY <1>0, <1>1 DEF TakeOut, WorkingOn, NoCall
<1>2. ASSUME NEW w \in Workers, FinishTemporary(w) PROVE active'[s] = None /\ WorkingOn(s)'
  BY <1>1, <1>2 DEF FinishTemporary, Calls, Fits
<1>3. ASSUME NEW w \in Workers, Activate(w)
      PROVE  call[w].sb = s /\ active'[s] = call[w].cont
  BY <1>0, <1>3 DEF Activate
<1>4. QED BY <1>1, <1>2, <1>3 DEF SMNext, CreateSandbox, DestroySandbox, DeleteSandbox, Creating, StartContainer,
    AnswerRest, RemoveStarts, RemoveRefused, CancelCall, Removal, Arcs, Shutdown, allVars, smVars

LEMMA MapsStep == Typed /\ Ids /\ Calls /\ MapsInv /\ [SMNext]_allVars => MapsInv'
<1> SUFFICES ASSUME Typed, Ids, Calls, MapsInv, [SMNext]_allVars PROVE MapsInv' OBVIOUS
<1> USE DEF MapsInv
<1>0. /\ registry \in [Sandboxes -> Conts \cup {None}] /\ None \notin Conts
      /\ active \in [Sandboxes -> Conts \cup {None}] /\ call \in [Workers -> Methods]
      /\ \A w \in Workers : Fits(w)
  BY ManagerAssumption DEF Typed, TypeOK, Calls
<1>1. Accounted'
  <2> SUFFICES ASSUME NEW s \in Sandboxes, registry'[s] # None, active'[s] = None,
                      s \notin lost', s \notin told', ~WorkingOn(s)'
               PROVE  FALSE
    BY DEF Accounted
  <2>1. s \notin lost /\ s \notin told
    <3>1. ASSUME NEW w \in Workers,
                 StartContainer(w) \/ RemoveRefused(w) \/ CancelCall(w) \/ AnswerRest(w)
          PROVE  lost \subseteq lost' /\ told \subseteq told'
      BY <3>1 DEF StartContainer, RemoveRefused, CancelCall, AnswerRest
    <3>2. ASSUME NEW w \in Workers, NEW t, TakeOut(w, t) PROVE UNCHANGED <<lost, told>>
      BY <3>2 DEF TakeOut
    <3>3. QED BY <3>1, <3>2 DEF SMNext, CreateSandbox, DestroySandbox, DeleteSandbox, Creating, Activate,
        FinishTemporary, RemoveStarts, Removal, Arcs, Shutdown, allVars, smVars
  <2>2. CASE registry[s] = None
    <3>1. PICK w \in Workers : op[w].sb = s /\ Register(w) BY <2>2, StepBelow, EntryStep
    <3>2. op[w].pc = "register" /\ op'[w].pc = "idle"
      BY <3>1, IdleLocals DEF Register, Return, Typed, TypeOK, Tasks
    <3>3. QED BY <1>0, <2>2, <3>1, <3>2, CallsKept, CallStep DEF WorkingOn, Fits, Cleaning, Methods, Calls, Making
  <2>3. CASE registry[s] # None
    BY <1>0, ActiveStep, <2>1, <2>3, CallStep DEF Accounted, WorkingOn, Activate, Fits
  <2>4. QED BY <2>2, <2>3
<1>2. QED BY <1>0, StaysRegistered, CallStep, ActiveStep, <1>1 DEF ActiveIsRegistered, Activate, Held, Fits, Register,
    Cleaning, Methods

LEMMA MapsAlways == SMSpec => [](Typed /\ Ids /\ Calls /\ MapsInv)
<1>1. SMInit => MapsInv
  BY NoCallTyped DEF SMInit, Init, MapsInv, Held, ActiveIsRegistered, Accounted
<1>2. QED BY <1>1, BelowAlways, MapsStep, PTL DEF SMSpec

(* The map of active sandboxes and the registry below it lose each other
   only by failures: what is active is registered or being cleaned up, and
   what is registered is active, being worked on, or was given up by a
   creation or a destruction that failed (sandbox_manager.rs). *)
THEOREM SandboxInvAlways == SMSpec => []SandboxInv
<1>1. Typed /\ Calls /\ MapsInv => SandboxInv
  BY DEF SandboxInv, Typed, Calls, Methods, SMTypeOK, MapsInv, Accounted, WorkingOn, NoSilentOrphan
<1>2. QED BY <1>1, MapsAlways, PTL
====
