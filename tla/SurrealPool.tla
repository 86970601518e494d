---- MODULE SurrealPool ----
(* SurrealPool (src/database/surrealdb/connection.rs): connections behind
   a lock, each with an in_use flag that its user clears without the lock.
   The health check holds the lock while it queries the database.  Which
   of the usable connections the scan meets first is left open. *)
EXTENDS Naturals, FiniteSets

CONSTANTS Workers,  \* tasks that need a connection
          Conns,    \* names of connections; a name is used again once it is nobody's
          MaxConns, MinConns,  \* max_connections, and those opened at the start
          NoConn

ASSUME SurrealAssumption ==
  /\ MaxConns \in Nat /\ MinConns \in 0..MaxConns
  /\ NoConn \notin Conns /\ IsFiniteSet(Conns)
  /\ \E s \in SUBSET Conns : Cardinality(s) = MinConns
  /\ IsFiniteSet(Workers) /\ Workers # {}

VARIABLES
  pool,    \* the connections of the vector
  inUse,   \* the flag of each connection
  age,     \* "fresh", "unused" for longer than idle_timeout, or "expired"
  worker,  \* where each task is: [at, conn]
  health,  \* the health check: [on, left, drop]
  closed   \* history: connections close took out of the pool

surrealVars == <<pool, inUse, age, worker, health, closed>>

SurrealInit ==
  /\ pool = CHOOSE s \in SUBSET Conns : Cardinality(s) = MinConns  \* names are arbitrary
  /\ inUse = [c \in Conns |-> FALSE]
  /\ age = [c \in Conns |-> "fresh"]
  /\ worker = [w \in Workers |-> [at |-> "idle", conn |-> NoConn]]
  /\ health = [on |-> FALSE, left |-> {}, drop |-> {}]
  /\ closed = {}

UsersOf(c) == {w \in Workers : worker[w].conn = c}
Usable == {c \in pool : ~inUse[c] /\ age[c] = "fresh"}
Move(w, at, c) == worker' = [worker EXCEPT ![w] = [at |-> at, conn |-> c]]

----
Take(w, c) ==
  /\ inUse' = [inUse EXCEPT ![c] = TRUE]
  /\ Move(w, "using", c)
  /\ UNCHANGED <<pool, age, health, closed>>

(* get_idle_connection, under the lock: a connection past its time is left
   where it is, and goes on counting. *)
GetIdle(w) ==
  /\ worker[w].at = "idle" /\ ~health.on
  /\ IF Usable # {} THEN \E c \in Usable : Take(w, c)
     ELSE Move(w, "count", NoConn) /\ UNCHANGED <<pool, inUse, age, health, closed>>

(* The lock is let go between the count and the push. *)
HasRoomForOne == Cardinality(pool) <= MaxConns  \* the defect: it lets one too many in
HasRoom == Cardinality(pool) < MaxConns

CountConnections(w) ==
  /\ worker[w].at = "count" /\ ~health.on
  /\ Move(w, IF HasRoom THEN "connect" ELSE "idle", NoConn)  \* PoolExhausted
  /\ UNCHANGED <<pool, inUse, age, health, closed>>

(* All retries fail, or the task is dropped meanwhile. *)
ConnectFails(w) ==
  /\ worker[w].at = "connect"
  /\ Move(w, "idle", NoConn)
  /\ UNCHANGED <<pool, inUse, age, health, closed>>

AddConnection(w) ==
  /\ worker[w].at = "connect" /\ ~health.on
  /\ \E c \in Conns \ pool :
        /\ UsersOf(c) = {}
        /\ pool' = pool \cup {c}
        /\ inUse' = [inUse EXCEPT ![c] = TRUE]
        /\ age' = [age EXCEPT ![c] = "fresh"]
        /\ closed' = closed \ {c}
        /\ Move(w, "using", c)
  /\ UNCHANGED health

(* Drop: the flag is cleared whether or not the pool still knows of it. *)
DropConnection(w) ==
  /\ worker[w].at = "using"
  /\ inUse' = [inUse EXCEPT ![worker[w].conn] = FALSE]
  /\ Move(w, "idle", NoConn)
  /\ UNCHANGED <<pool, age, health, closed>>

----
(* The health check goes through the pool, removes at the end, and never
   lets go of the lock. *)
BeginHealthCheck ==
  /\ ~health.on
  /\ health' = [on |-> TRUE, left |-> pool, drop |-> {}]
  /\ UNCHANGED <<pool, inUse, age, worker, closed>>

ToRemoveUnused(c) == age[c] # "fresh"  \* the defect: the flag is not looked at
ToRemove(c) == age[c] = "expired" \/ (age[c] = "unused" /\ ~inUse[c])

CheckConnection(c) ==
  /\ health.on /\ c \in health.left
  /\ \E ill \in IF ToRemove(c) THEN {TRUE} ELSE IF inUse[c] THEN {FALSE} ELSE BOOLEAN :
        health' = [health EXCEPT !.left = @ \ {c},
                                 !.drop = IF ill THEN @ \cup {c} ELSE @]
  /\ UNCHANGED <<pool, inUse, age, worker, closed>>

EndHealthCheck ==
  /\ health.on /\ health.left = {}
  /\ pool' = pool \ health.drop
  /\ health' = [on |-> FALSE, left |-> {}, drop |-> {}]
  /\ UNCHANGED <<inUse, age, worker, closed>>

(* close empties the pool; nothing keeps it from being used again. *)
ClosePool ==
  /\ ~health.on
  /\ closed' = closed \cup pool
  /\ pool' = {}
  /\ UNCHANGED <<inUse, age, worker, health>>

(* Time passes, whoever holds the connection. *)
Age(c) ==
  /\ c \in pool /\ age[c] # "expired"
  /\ \E a \in {"unused", "expired"} : age' = [age EXCEPT ![c] = a]
  /\ UNCHANGED <<pool, inUse, worker, health, closed>>

SurrealNext ==
  \/ \E w \in Workers : GetIdle(w) \/ CountConnections(w) \/ ConnectFails(w)
                        \/ AddConnection(w) \/ DropConnection(w)
  \/ \E c \in Conns : CheckConnection(c) \/ Age(c)
  \/ BeginHealthCheck \/ EndHealthCheck \/ ClosePool

SurrealSpec == SurrealInit /\ [][SurrealNext]_surrealVars

----
SurrealTypeOK ==
  /\ pool \subseteq Conns /\ inUse \in [Conns -> BOOLEAN]
  /\ age \in [Conns -> {"fresh", "unused", "expired"}] /\ closed \subseteq Conns
  /\ \A w \in Workers :
        /\ worker[w].at \in {"idle", "count", "connect", "using"}
        /\ worker[w].conn \in (IF worker[w].at = "using" THEN Conns ELSE {NoConn})
  /\ health.on \in BOOLEAN /\ health.left \cup health.drop \subseteq pool

(* A connection has one user at a time, and its flag is set as long as it
   has one: none is lent twice, and no slot stays taken (get_connection
   104-137, Drop 466-476). *)
FlagIsUse ==
  \A c \in Conns : Cardinality(UsersOf(c)) = IF inUse[c] THEN 1 ELSE 0

(* The health check takes a connection away from its user only when it has
   expired; other than that only close does (start_health_check 262-319). *)
LentIsKept ==
  \A w \in Workers : worker[w].at = "using" =>
      LET c == worker[w].conn IN c \in pool \/ age[c] = "expired" \/ c \in closed

(* The pool grows past max_connections only by those that counted before
   another had pushed its connection. *)
PoolOvershoots ==
  Cardinality(pool) + Cardinality({w \in Workers : worker[w].at = "connect"})
      <= MaxConns + Cardinality(Workers) - 1

(* Database connections: lent once, kept while lent, and few. *)
SurrealInv == SurrealTypeOK /\ FlagIsUse /\ LentIsKept /\ PoolOvershoots
====
