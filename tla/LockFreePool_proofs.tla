---- MODULE LockFreePool_proofs ----
(* Theorems about the lock-free pool, for any number of callers, any
   supply of sandbox ids and every maximum; and, at the end, about the pool
   of database connections. *)
EXTENDS LockFreePool, SurrealPool, FiniteSetTheorems, TLAPS

(* The queue as a set: an append adds the element, a pop takes the head off
   the front and moves every other element forward by one. *)
LEMMA AppendElements ==
  ASSUME NEW S, NEW s \in Seq(S), NEW x \in S
  PROVE  /\ Append(s, x) \in Seq(S)
         /\ Len(Append(s, x)) = Len(s) + 1
         /\ \A i \in 1..Len(s) : Append(s, x)[i] = s[i]
         /\ Append(s, x)[Len(s) + 1] = x
  OBVIOUS

LEMMA TailElements ==
  ASSUME NEW S, NEW s \in Seq(S), s # <<>>
  PROVE  /\ Head(s) = s[1] /\ Head(s) \in S
         /\ Tail(s) \in Seq(S)
         /\ Len(s) \in Nat \ {0}
         /\ Len(Tail(s)) = Len(s) - 1
         /\ \A i \in 1..(Len(s) - 1) : Tail(s)[i] = s[i + 1]
  OBVIOUS

----
\* A caller that has a sandbox in hand has one that was made.
Typed ==
  /\ TypeOK
  /\ \A t \in Tasks : InHand(t) => op[t].sb \in SandboxIds

\* What a step does to op: one caller gets new locals.
LEMMA TypedLocals ==
  ASSUME op \in [Tasks -> Locals], \A u \in Tasks : InHand(u) => op[u].sb \in SandboxIds,
         NEW t \in Tasks, NEW r \in Locals,
         r.pc \in {"activate", "hold", "push"} => r.sb \in SandboxIds,
         op' = [op EXCEPT ![t] = r]
  PROVE  /\ op' \in [Tasks -> Locals]
         /\ \A u \in Tasks : InHand(u)' => op'[u].sb \in SandboxIds
  BY DEF InHand

LEMMA TypedStep == Typed /\ [Next]_vars => Typed'
<1> SUFFICES ASSUME Typed, [Next]_vars PROVE Typed'
  OBVIOUS
<1> USE DEF Typed, TypeOK
<1>1. ASSUME NEW t \in Tasks, Pop(t) PROVE Typed'
  <2>1. CASE available = <<>>
    BY <1>1, <2>1, TypedLocals DEF Idle, Locals, Pop
  <2>2. CASE available # <<>>
    <3>1. Head(available) \in SandboxIds /\ Tail(available) \in Seq(SandboxIds)
      BY <2>2, TailElements
    <3>2. PICK r \in Locals : r = [Idle EXCEPT !.pc = "activate", !.sb = Head(available)]
      BY <3>1 DEF Idle, Locals
    <3>3. QED BY <1>1, <2>2, <3>1, <3>2, TypedLocals DEF Pop, Idle
  <2>3. QED BY <2>1, <2>2
<1>2. ASSUME NEW t \in Tasks, Load(t) PROVE Typed'
  BY <1>2, TypedLocals DEF Idle, Locals, Load
<1>3. ASSUME NEW t \in Tasks, Increment(t) PROVE Typed'
  <2>1. PICK r \in Locals : /\ op' = [op EXCEPT ![t] = r]
                            /\ r.pc \in {"create", "idle"}
    BY <1>3 DEF Increment, Idle, Locals
  <2>2. count' \in Nat
    BY <1>3 DEF Increment
  <2>3. QED BY <1>3, <2>1, <2>2, TypedLocals DEF Increment
<1>4. ASSUME NEW t \in Tasks, NEW s \in SandboxIds, Create(t, s) PROVE Typed'
  BY <1>4, TypedLocals DEF Idle, Locals, Create
<1>5. ASSUME NEW t \in Tasks, Activate(t) PROVE Typed'
  BY <1>5, TypedLocals DEF Activate, InHand, Locals
<1>6. ASSUME NEW t \in Tasks, Deactivate(t) PROVE Typed'
  BY <1>6, TypedLocals DEF Deactivate, InHand, Locals
<1>7. ASSUME NEW t \in Tasks, Push(t) PROVE Typed'
  BY <1>7, TypedLocals DEF Push, InHand, Idle, Locals
<1>8. CASE UNCHANGED vars
  BY <1>8 DEF vars, InHand
<1>9. QED BY <1>1, <1>2, <1>3, <1>4, <1>5, <1>6, <1>7, <1>8 DEF Next, Acquire, Release

LEMMA TypedInit == Init => Typed
  BY DEF Init, Typed, TypeOK, InHand, Idle, Locals

(* Type correctness of the pool's structures and of every caller's locals,
   through acquire_sandbox and release_sandbox (48-82). *)
THEOREM TypeCorrect == Spec => []TypeOK
<1>1. Typed => TypeOK
  BY DEF Typed
<1>2. QED BY <1>1, TypedInit, TypedStep, PTL DEF Spec

LEMMA TypedAlways == Spec => []Typed
  BY TypedInit, TypedStep, PTL DEF Spec

----
\* The invariant of the ownership of sandboxes, element by element: Exclusive,
\* that what is in hand or queued was made (so that a new id is nobody's),
\* ActiveIsHeld and NoneLost.
OneHand == \A t, u \in Tasks : InHand(t) /\ InHand(u) /\ op[t].sb = op[u].sb => t = u
NotQueued == \A t \in Tasks : InHand(t) => \A i \in 1..Len(available) : available[i] # op[t].sb
QueuedOnce == \A i, j \in 1..Len(available) : available[i] = available[j] => i = j
HandMade == \A t \in Tasks : InHand(t) => op[t].sb \in born
QueueMade == \A i \in 1..Len(available) : available[i] \in born
Found == \A s \in born : \/ \E i \in 1..Len(available) : available[i] = s
                        \/ \E t \in Tasks : InHand(t) /\ op[t].sb = s
ActiveHeld == \A s \in SandboxIds :
                 s \in active <=> (\E t \in Tasks : op[t].pc = "hold" /\ op[t].sb = s)

Owned == OneHand /\ NotQueued /\ QueuedOnce /\ HandMade /\ QueueMade /\ Found /\ ActiveHeld

\* A step of a caller that has nothing in hand before or after.
LEMMA EmptyHanded ==
  ASSUME Owned, NEW t \in Tasks, \A u \in Tasks \ {t} : op'[u] = op[u],
         ~InHand(t), ~InHand(t)', UNCHANGED <<active, available, born>>
  PROVE  Owned'
  BY DEF InHand, Owned, OneHand, NotQueued, QueuedOnce, HandMade, QueueMade, Found, ActiveHeld

\* A caller that takes the head of the queue.
LEMMA PopOwned ==
  ASSUME Typed, Owned, NEW t \in Tasks, Pop(t), available # <<>>
  PROVE  Owned'
<1> DEFINE n == Len(available)
<1>1. /\ op'[t].pc = "activate" /\ op'[t].sb = available[1]
      /\ \A u \in Tasks \ {t} : op'[u] = op[u]
      /\ op[t].pc = "idle"
      /\ available' = Tail(available)
      /\ active' = active /\ born' = born
  BY TailElements DEF Pop, Typed, TypeOK, Idle
<1>2. \A u \in Tasks : InHand(u)' <=> u = t \/ InHand(u)
  BY <1>1 DEF InHand
<1>3. OneHand'
  BY <1>1, <1>2, TailElements DEF Owned, OneHand, NotQueued, InHand, Typed, TypeOK
<1>4. NotQueued'
  BY TailElements, <1>1, <1>2 DEF Owned, NotQueued, QueuedOnce, Typed, TypeOK
<1>5. HandMade' /\ QueueMade'
  BY TailElements, <1>1, <1>2 DEF Owned, HandMade, QueueMade, Typed, TypeOK
<1>6. Found'
  <2> SUFFICES ASSUME NEW s \in born
               PROVE  \/ \E i \in 1..Len(available') : available'[i] = s
                      \/ \E u \in Tasks : InHand(u)' /\ op'[u].sb = s
    BY <1>1 DEF Found
  <2>1. CASE \E u \in Tasks : InHand(u) /\ op[u].sb = s
    BY <2>1, <1>1, <1>2 DEF InHand
  <2>2. CASE \E i \in 1..n : available[i] = s
    BY <2>2, <1>1, <1>2, TailElements DEF Typed, TypeOK
  <2>3. QED BY <2>1, <2>2 DEF Owned, Found
<1>7. QED BY <1>3, <1>4, TailElements, <1>1, <1>5, <1>6 DEF Owned, ActiveHeld, QueuedOnce, Typed, TypeOK

\* A caller that makes a sandbox.
LEMMA CreateOwned ==
  ASSUME Typed, Owned, NEW t \in Tasks, NEW s \in SandboxIds, Create(t, s)
  PROVE  Owned'
  BY DEF Create, Typed, TypeOK, Idle, InHand, Owned, OneHand, HandMade, NotQueued, QueuedOnce, QueueMade, Found, ActiveHeld

\* A caller that moves on with its sandbox in hand, on or off the map.
LEMMA CarryOwned ==
  ASSUME Typed, Owned, NEW t \in Tasks, Activate(t) \/ Deactivate(t)
  PROVE  Owned'
<1>1. /\ op'[t].sb = op[t].sb
      /\ \A u \in Tasks \ {t} : op'[u] = op[u]
      /\ InHand(t) /\ InHand(t)'
      /\ available' = available /\ born' = born
  BY DEF Activate, Deactivate, Typed, TypeOK, InHand, Locals
<1>2. ActiveHeld'
  <2>1. CASE Activate(t)
    BY <2>1, <1>1 DEF Activate, Typed, TypeOK, Locals, Owned, ActiveHeld, InHand
  <2>2. CASE Deactivate(t)
    BY <2>2, <1>1 DEF Deactivate, Typed, TypeOK, Locals, Owned, OneHand, InHand, ActiveHeld
  <2>3. QED BY <2>1, <2>2
<1>3. QED BY <1>1, <1>2 DEF Owned, Found, OneHand, NotQueued, QueuedOnce, HandMade, QueueMade, InHand

\* A caller that pushes its sandbox back.
LEMMA PushOwned ==
  ASSUME Typed, Owned, NEW t \in Tasks, Push(t)
  PROVE  Owned'
<1> DEFINE n == Len(available)
<1>1. NotQueued'
  BY AppendElements DEF Owned, NotQueued, OneHand, Push, InHand, Typed, TypeOK, Idle
<1>2. QueuedOnce'
  BY AppendElements DEF Owned, QueuedOnce, NotQueued, Push, InHand, Typed, TypeOK, Idle
<1>3. HandMade' /\ QueueMade'
  BY AppendElements DEF Owned, HandMade, QueueMade, Push, InHand, Typed, TypeOK, Idle
<1>4. Found'
  BY AppendElements DEF Found, Owned, Push, InHand, Typed, TypeOK, Idle
<1>5. QED BY <1>1, <1>2, <1>3, <1>4 DEF Owned, OneHand, ActiveHeld, InHand, Push, Typed, TypeOK, Idle

LEMMA OwnedStep == Typed /\ Owned /\ [Next]_vars => Owned'
<1> SUFFICES ASSUME Typed, Owned, [Next]_vars PROVE Owned'
  OBVIOUS
<1>1. ASSUME NEW t \in Tasks, Pop(t) PROVE Owned'
  BY <1>1, EmptyHanded, PopOwned DEF Pop, InHand, Idle, Typed, TypeOK
<1>2. ASSUME NEW t \in Tasks, Load(t) PROVE Owned'
  BY <1>2, EmptyHanded DEF Load, InHand, Idle, Typed, TypeOK
<1>3. ASSUME NEW t \in Tasks, Increment(t) PROVE Owned'
  BY <1>3, EmptyHanded DEF Increment, InHand, Idle, Typed, TypeOK
<1>4. ASSUME NEW t \in Tasks, NEW s \in SandboxIds, Create(t, s) PROVE Owned'
  BY <1>4, CreateOwned
<1>5. ASSUME NEW t \in Tasks, Activate(t) \/ Deactivate(t) PROVE Owned'
  BY <1>5, CarryOwned
<1>6. ASSUME NEW t \in Tasks, Push(t) PROVE Owned'
  BY <1>6, PushOwned
<1>7. CASE UNCHANGED vars
  BY <1>7 DEF vars, Owned, OneHand, NotQueued, QueuedOnce, HandMade, QueueMade, Found, ActiveHeld, InHand
<1>8. QED BY <1>1, <1>2, <1>3, <1>4, <1>5, <1>6, <1>7 DEF Next, Acquire, Release

LEMMA OwnedInit == Init => Owned
  BY DEF Init, InHand, Idle, Owned, OneHand, NotQueued, QueuedOnce, HandMade, QueueMade, Found, ActiveHeld

LEMMA OwnedAlways == Spec => []Owned
  BY OwnedInit, OwnedStep, TypedInit, TypedStep, PTL DEF Spec

(* No interleaving of callers hands one sandbox to two of them, or hands
   out one that the queue still has (48-53, 75-82). *)
THEOREM ExclusiveAlways == Spec => []Exclusive
<1>1. Owned => Exclusive
  BY DEF Owned, OneHand, NotQueued, QueuedOnce, Exclusive, Queued
<1>2. QED BY <1>1, OwnedAlways, PTL

(* The active map lists exactly what callers hold (75-94). *)
THEOREM ActiveIsHeldAlways == Spec => []ActiveIsHeld
<1>1. Typed /\ Owned => ActiveIsHeld
  BY DEF Typed, TypeOK, InHand, Owned, ActiveHeld, ActiveIsHeld
<1>2. QED BY <1>1, OwnedAlways, TypedAlways, PTL

(* Every sandbox made stays queued or in somebody's hands (79-82). *)
THEOREM NoneLostAlways == Spec => []NoneLost
<1>1. Owned => NoneLost
  BY DEF Owned, Found, HandMade, QueueMade, NoneLost, Queued
<1>2. QED BY <1>1, OwnedAlways, PTL

(* A sandbox is in one place, and every map knows which. *)
THEOREM CustodyAlways == Spec => []Custody
  BY ExclusiveAlways, ActiveIsHeldAlways, NoneLostAlways, PTL DEF Custody

----
\* The invariant of the counter: CreationBounded, the finiteness its
\* cardinalities need, and that no compare_exchange starts from the maximum.
Counted ==
  /\ IsFiniteSet(born) /\ IsFiniteSet(Creating)
  /\ CreationBounded
  /\ \A t \in Tasks : op[t].pc = "cas" => op[t].seen < MaxSandboxes

\* A step that neither creates nor counts.
LEMMA CountedSame ==
  ASSUME Counted, NEW t \in Tasks, \A u \in Tasks \ {t} : op'[u] = op[u],
         op[t].pc # "create", op'[t].pc # "create",
         op'[t].pc = "cas" => op'[t].seen < MaxSandboxes,
         UNCHANGED <<born, count>>
  PROVE  Counted'
  BY DEF Creating, Counted, CreationBounded

LEMMA CountedStep == Typed /\ Counted /\ [Next]_vars => Counted'
<1> SUFFICES ASSUME Typed, Counted, [Next]_vars PROVE Counted'
  OBVIOUS
<1>0. MaxSandboxes \in Nat /\ count \in Nat /\ op \in [Tasks -> Locals]
  BY PoolAssumption DEF Typed, TypeOK
<1>1. ASSUME NEW t \in Tasks, Pop(t) PROVE Counted'
  BY <1>0, <1>1, CountedSame DEF Pop, Idle
<1>2. ASSUME NEW t \in Tasks, Load(t) PROVE Counted'
  BY <1>0, <1>2, CountedSame DEF Load, Idle
<1>3. ASSUME NEW t \in Tasks, Increment(t) PROVE Counted'
  <2>1. CASE count = op[t].seen
    <3>1. Creating' = Creating \cup {t} /\ t \notin Creating
      BY <1>0, <1>3, <2>1 DEF Creating, Increment, Idle
    <3>2. IsFiniteSet(Creating') /\ Cardinality(Creating') = Cardinality(Creating) + 1
      BY <3>1, FS_AddElement DEF Counted
    <3>3. QED BY <1>0, <1>3, <2>1, <3>2, FS_CardinalityType DEF Counted, CreationBounded, Increment, Idle
  <2>2. CASE count # op[t].seen
    BY <1>0, <1>3, <2>2, CountedSame DEF Increment, Idle
  <2>3. QED BY <2>1, <2>2
<1>4. ASSUME NEW t \in Tasks, NEW s \in SandboxIds, Create(t, s) PROVE Counted'
  <2>1. Creating' = Creating \ {t} /\ t \in Creating
    BY <1>0, <1>4 DEF Creating, Create, Idle
  <2>2. IsFiniteSet(Creating') /\ Cardinality(Creating') = Cardinality(Creating) - 1
    BY <2>1, FS_RemoveElement DEF Counted
  <2>3. IsFiniteSet(born') /\ Cardinality(born') = Cardinality(born) + 1
    BY <1>0, <1>4, FS_AddElement DEF Counted, Create, Idle
  <2>4. QED BY <1>0, <1>4, <2>2, <2>3, FS_CardinalityType DEF Counted, CreationBounded, Create, Idle
<1>5. ASSUME NEW t \in Tasks, Activate(t) \/ Deactivate(t) \/ Push(t) PROVE Counted'
  BY <1>0, <1>5, CountedSame DEF Activate, Deactivate, Push, Idle, Locals
<1>6. CASE UNCHANGED vars
  BY <1>6 DEF vars, Counted, CreationBounded, Creating
<1>7. QED BY <1>1, <1>2, <1>3, <1>4, <1>5, <1>6 DEF Next, Acquire, Release

LEMMA CountedInit == Init => Counted
  BY FS_EmptySet, PoolAssumption DEF Init, Creating, Idle, Counted, CreationBounded

(* However many callers race past the load of the counter, the one
   compare_exchange keeps what is made within max_sandboxes (56-68). *)
THEOREM CreationBoundedAlways == Spec => []CreationBounded
<1>1. Counted => CreationBounded
  BY DEF Counted
<1>2. QED BY <1>1, CountedInit, CountedStep, TypedInit, TypedStep, PTL DEF Spec

----
\* The connections: what is lent is lent once, and what the health check is
\* about to take away is not lent, or past its time.
Users == [at : {"idle", "count", "connect", "using"}, conn : Conns \cup {NoConn}]

Lent ==
  /\ pool \subseteq Conns /\ closed \subseteq Conns
  /\ inUse \in [Conns -> BOOLEAN] /\ age \in [Conns -> {"fresh", "unused", "expired"}]
  /\ worker \in [Workers -> Users]
  /\ \A w \in Workers : worker[w].at = "using" <=> worker[w].conn \in Conns
  /\ \A v, w \in Workers : worker[v].conn = worker[w].conn /\ worker[w].conn \in Conns => v = w
  /\ \A c \in Conns : inUse[c] <=> \E w \in Workers : worker[w].conn = c
  /\ LentIsKept
  /\ health \in [on : BOOLEAN, left : SUBSET pool, drop : SUBSET pool]
  /\ ~health.on => health.left = {} /\ health.drop = {}
  /\ \A c \in health.drop : inUse[c] => age[c] = "expired"

LEMMA LentInit == SurrealInit => Lent
  BY SurrealAssumption DEF SurrealInit, Lent, Users, LentIsKept

LEMMA LentStep == Lent /\ [SurrealNext]_surrealVars => Lent'
<1> SUFFICES ASSUME Lent, [SurrealNext]_surrealVars PROVE Lent'
  OBVIOUS
<1> USE SurrealAssumption DEF Users, Move
<1>1. ASSUME NEW w \in Workers, GetIdle(w) PROVE Lent'
  <2>1. ASSUME NEW c \in Usable, Take(w, c) PROVE Lent'
    BY <1>1, <2>1 DEF GetIdle, Take, Usable, Lent, LentIsKept
  <2>2. CASE Move(w, "count", NoConn) /\ UNCHANGED <<pool, inUse, age, health, closed>>
    BY <1>1, <2>2 DEF GetIdle, Lent, LentIsKept
  <2>3. QED BY <1>1, <2>1, <2>2 DEF GetIdle
<1>2. ASSUME NEW w \in Workers, CountConnections(w) \/ ConnectFails(w) PROVE Lent'
  <2>1. /\ worker[w].at \in {"count", "connect"}
        /\ \E at \in {"idle", "connect"} : Move(w, at, NoConn)
        /\ UNCHANGED <<pool, inUse, age, health, closed>>
    BY <1>2 DEF CountConnections, ConnectFails
  <2>2. QED BY <2>1 DEF Lent, LentIsKept
<1>3. ASSUME NEW w \in Workers, AddConnection(w) PROVE Lent'
  BY <1>3 DEF AddConnection, UsersOf, Lent, LentIsKept
<1>4. ASSUME NEW w \in Workers, DropConnection(w) PROVE Lent'
  BY <1>4 DEF DropConnection, Lent, LentIsKept
<1>5. ASSUME NEW c \in Conns, CheckConnection(c) PROVE Lent'
  <2> DEFINE Checked(d) == [health EXCEPT !.left = health.left \ {c}, !.drop = d]
  <2>1. PICK d \in {health.drop, health.drop \cup {c}} :
            health' = Checked(d) /\ (d = health.drop \/ (inUse[c] => age[c] = "expired"))
    BY <1>5 DEF CheckConnection, ToRemove
  <2>2. c \in pool /\ health.on /\ UNCHANGED <<pool, inUse, age, worker, closed>>
    BY <1>5 DEF CheckConnection, Lent
  <2>3. /\ health' \in [on : BOOLEAN, left : SUBSET pool, drop : SUBSET pool]
        /\ health'.on /\ health'.drop = d
    BY <2>1, <2>2 DEF Lent
  <2> HIDE DEF Checked
  <2>4. QED BY <2>2, <2>1, <2>3 DEF Lent, LentIsKept
<1>6. ASSUME NEW c \in Conns, Age(c) PROVE Lent'
  BY <1>6 DEF Age, Lent, LentIsKept
<1>7. CASE BeginHealthCheck
  BY <1>7 DEF BeginHealthCheck, Lent, LentIsKept
<1>8. CASE EndHealthCheck
  BY <1>8 DEF EndHealthCheck, Lent, LentIsKept
<1>9. CASE ClosePool
  BY <1>9 DEF ClosePool, Lent, LentIsKept
<1>10. CASE UNCHANGED surrealVars
  BY <1>10 DEF surrealVars, Lent, LentIsKept
<1>11. QED BY <1>1, <1>2, <1>3, <1>4, <1>5, <1>6, <1>7, <1>8, <1>9, <1>10 DEF SurrealNext

Connecting == {w \in Workers : worker[w].at = "connect"}

LEMMA Sizes ==
  ASSUME Lent
  PROVE  /\ IsFiniteSet(pool) /\ IsFiniteSet(Connecting)
         /\ Cardinality(pool) \in Nat /\ Cardinality(Connecting) \in Nat
         /\ Cardinality(Connecting) <= Cardinality(Workers)
         /\ Cardinality(Workers) \in Nat \ {0}
  BY SurrealAssumption, FS_Subset, FS_CardinalityType, FS_EmptySet DEF Lent, Connecting

LEMMA OvershootStep ==
  Lent /\ PoolOvershoots /\ [SurrealNext]_surrealVars => PoolOvershoots'
<1> SUFFICES ASSUME Lent, PoolOvershoots, [SurrealNext]_surrealVars PROVE PoolOvershoots'
  OBVIOUS
<1> DEFINE Few == Cardinality(pool) + Cardinality(Connecting) <= MaxConns + Cardinality(Workers) - 1
<1>0. Few /\ (Few' => PoolOvershoots')
  BY DEF PoolOvershoots, Connecting
<1>1. /\ Cardinality(pool') \in Nat /\ Cardinality(Connecting') \in Nat
      /\ Cardinality(Connecting') <= Cardinality(Workers)
  BY LentStep, SurrealAssumption, FS_Subset, FS_CardinalityType DEF Lent, Connecting
<1>2. ASSUME pool' \subseteq pool, Connecting' \subseteq Connecting PROVE Few'
  BY <1>2, Sizes, FS_Subset, <1>0, <1>1, SurrealAssumption
<1>3. ASSUME NEW w \in Workers, CountConnections(w) PROVE Few'
  BY <1>1, <1>3, Sizes, SurrealAssumption, <1>2 DEF CountConnections, HasRoom, Move, Connecting, Lent
<1>4. ASSUME NEW w \in Workers, AddConnection(w) PROVE Few'
  <2>1. /\ Connecting' = Connecting \ {w} /\ w \in Connecting
        /\ \E c : c \notin pool /\ pool' = pool \cup {c}
    BY <1>4 DEF AddConnection, Move, Connecting, Lent
  <2>2. /\ Cardinality(Connecting') = Cardinality(Connecting) - 1
        /\ Cardinality(pool') = Cardinality(pool) + 1
    BY <2>1, Sizes, FS_AddElement, FS_RemoveElement
  <2>3. QED BY <2>2, <1>0, Sizes, SurrealAssumption
<1>5. ASSUME NEW w \in Workers, GetIdle(w) \/ ConnectFails(w) \/ DropConnection(w) PROVE Few'
  BY <1>5, <1>2 DEF GetIdle, Take, ConnectFails, DropConnection, Move, Connecting, Lent
<1>6. CASE \/ (\E c \in Conns : CheckConnection(c) \/ Age(c)) \/ BeginHealthCheck
           \/ EndHealthCheck \/ ClosePool \/ UNCHANGED surrealVars
  BY <1>6, <1>0, <1>2 DEF CheckConnection, Age, BeginHealthCheck, EndHealthCheck, ClosePool, surrealVars, Connecting
<1>7. QED BY <1>0, <1>3, <1>4, <1>5, <1>6 DEF SurrealNext

(* Whatever tasks lend and hand back while the health check, close and time
   go on: no connection is lent twice or stays marked as lent, the health
   check takes none away that has not expired, and the pool exceeds its
   maximum by fewer connections than there are tasks. *)
THEOREM SurrealInvAlways == SurrealSpec => []SurrealInv
<1>1. ASSUME Lent, PoolOvershoots PROVE SurrealInv
  <2>1. ASSUME NEW c \in Conns PROVE Cardinality(UsersOf(c)) = IF inUse[c] THEN 1 ELSE 0
    <3>1. CASE inUse[c]
      <4>1. PICK w \in Workers : worker[w].conn = c
        BY <1>1, <3>1 DEF Lent
      <4>2. UsersOf(c) = {w}
        BY <1>1, <4>1 DEF Lent, UsersOf
      <4>3. QED BY <3>1, <4>2, FS_Singleton
    <3>2. CASE ~inUse[c]
      <4>1. UsersOf(c) = {}
        BY <1>1, <3>2 DEF Lent, UsersOf
      <4>2. QED BY <3>2, <4>1, FS_EmptySet
    <3>3. QED BY <3>1, <3>2
  <2>2. QED BY <1>1, SurrealAssumption, <2>1 DEF SurrealInv, FlagIsUse, Lent, Users, SurrealTypeOK
<1>2. SurrealInit => PoolOvershoots
  <2>1. SurrealInit => Cardinality(pool) = MinConns /\ Connecting = {}
    BY SurrealAssumption DEF SurrealInit, Connecting
  <2>2. Cardinality(Workers) \in Nat \ {0}
    BY SurrealAssumption, FS_EmptySet, FS_CardinalityType
  <2>3. SurrealInit => Cardinality(pool) + Cardinality(Connecting)
                          <= MaxConns + Cardinality(Workers) - 1
    BY <2>1, <2>2, FS_EmptySet, SurrealAssumption
  <2>4. QED BY <2>3 DEF PoolOvershoots, Connecting
<1>3. QED BY <1>1, <1>2, LentInit, LentStep, OvershootStep, PTL DEF SurrealSpec
====
