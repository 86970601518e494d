---- MODULE SessionStore ----
(* RedisSessionManager (src/session/persistence.rs): a session under a key
   with a time to live, an index of each user's sessions, and a key from a
   container to its session.  redis::pipe() is not a transaction: the
   commands of a pipeline run one by one between those of other clients,
   and a connection that breaks leaves a prefix of them executed.  A
   client is a server process with a connection of its own.  It updates a
   session by writing back the whole copy it once read. *)
EXTENDS Naturals, Sequences

CONSTANTS Clients, Sessions, Users, Conts, None,
          Owner,      \* the user of a session
          Life,       \* lifetime of a new session: 24 h
          Buffer,     \* added to the index' time to live: 24 h
          MaxLife,    \* cap on a time to live: 7 days
          Extensions, \* by how much a client may extend its copy
          Horizon     \* bound: the clock stops here

ASSUME StoreAssumption ==
  /\ {Life, Buffer, MaxLife, Horizon} \subseteq Nat \ {0}
  /\ Life <= MaxLife
  /\ Extensions \subseteq Nat
  /\ Owner \in [Sessions -> Users]
  /\ None \notin Conts \cup Sessions

VARIABLES
  clock,     \* the time, of Redis and of every server
  sessions,  \* the session keys: deadline of the key, and the stored session
  userIndex, \* the user sets: deadline of the key, and the session ids
  contKey,   \* the container keys: deadline of the key, and the session id
  held,      \* the copy of a session a client holds
  pipeline,  \* the commands a client has still to run
  cut        \* history: sessions a command for which was lost with a connection,
             \* or whose EXPIRE found that the set was gone

storeVars == <<clock, sessions, userIndex, contKey, held, pipeline, cut>>

NoSession == [until |-> 0, exp |-> 0, cont |-> None]
NoIndex == [until |-> 0, ids |-> {}]
NoKey == [until |-> 0, id |-> None]
NoCopy == [id |-> None, exp |-> 0, cont |-> None]

Live(entry) == entry.until > clock
Lesser(a, b) == IF a <= b THEN a ELSE b

StoreInit ==
  /\ clock = 0
  /\ sessions = [s \in Sessions |-> NoSession]
  /\ userIndex = [u \in Users |-> NoIndex]
  /\ contKey = [c \in Conts |-> NoKey]
  /\ held = [w \in Clients |-> NoCopy]
  /\ pipeline = [w \in Clients |-> <<>>]
  /\ cut = {}

Ready(w) == pipeline[w] = <<>>
Send(w, cmds) == pipeline' = [pipeline EXCEPT ![w] = cmds] /\ UNCHANGED cut

\* A command on the keys of session copy v, sent now.
Command(cmd, v, ttl) == [cmd |-> cmd, on |-> v, ttl |-> ttl, at |-> clock]
----
Unused(s) ==
  /\ sessions[s] = NoSession
  /\ \A w \in Clients : held[w].id # s /\ \A i \in DOMAIN pipeline[w] : pipeline[w][i].on.id # s

(* create_session: a new uuid, its key, its place in the user's set, and
   the set's deadline. *)
CreateSession(w, s) ==
  LET v == [id |-> s, exp |-> clock + Life, cont |-> None]
      ttl == Lesser(Life, MaxLife)
  IN  /\ Ready(w)
      /\ Unused(s)
      /\ held' = [held EXCEPT ![w] = v]
      /\ Send(w, <<Command("setex", v, ttl), Command("sadd", v, 0),
                   Command("expire", v, ttl + Buffer)>>)
      /\ UNCHANGED <<clock, sessions, userIndex, contKey>>

Stored(s) == [id |-> s, exp |-> sessions[s].exp, cont |-> sessions[s].cont]

(* get_session: a copy of what is stored. *)
GetSession(w, s) ==
  /\ Ready(w)
  /\ Live(sessions[s])
  /\ held' = [held EXCEPT ![w] = Stored(s)]
  /\ UNCHANGED <<clock, sessions, userIndex, contKey, pipeline, cut>>

UpdateUnbuffered(v) ==  \* the defect: the index expires with the session
  LET ttl == Lesser(v.exp - clock, MaxLife)
  IN  IF v.exp <= clock THEN <<Command("lookup", v, 0)>>
      ELSE <<Command("setex", v, ttl), Command("expire", v, ttl)>>
              \o (IF v.cont = None THEN <<>> ELSE <<Command("mapex", v, ttl)>>)

UpdateCommands(v) ==
  LET ttl == Lesser(v.exp - clock, MaxLife)
      set == Command("setex", v, ttl)
      keep == Command("expire", v, ttl + Buffer)
  IN  IF v.exp <= clock THEN <<Command("lookup", v, 0)>>
      ELSE IF v.cont = None THEN <<set, keep>> ELSE <<set, keep, Command("mapex", v, ttl)>>

(* update_session with the copy, whose expiry and container the caller may
   have changed (Session::extend, set_container, clear_container). *)
UpdateSession(w, ext, c) ==
  LET v == [held[w] EXCEPT !.exp = @ + ext, !.cont = c]
  IN  /\ Ready(w)
      /\ held[w].id # None
      /\ held' = [held EXCEPT ![w] = v]
      /\ Send(w, UpdateCommands(v))
      /\ UNCHANGED <<clock, sessions, userIndex, contKey>>

(* delete_session of the session the client holds a copy of. *)
DeleteSession(w) ==
  /\ Ready(w)
  /\ held[w].id # None
  /\ Send(w, <<Command("lookup", held[w], 0)>>)
  /\ UNCHANGED <<clock, sessions, userIndex, contKey, held>>

----
Runs(w, cmd) == pipeline[w] # <<>> /\ Head(pipeline[w]).cmd = cmd
On(w) == Head(pipeline[w]).on
Deadline(w) == clock + Head(pipeline[w]).ttl
Advance(w) == Send(w, Tail(pipeline[w]))

RunSetEx(w) ==
  /\ Runs(w, "setex")
  /\ sessions' = [sessions EXCEPT ![On(w).id] =
                     [until |-> Deadline(w), exp |-> On(w).exp, cont |-> On(w).cont]]
  /\ Advance(w)
  /\ UNCHANGED <<clock, userIndex, contKey, held>>

(* SADD creates the set, without a deadline, if there is none. *)
Never == Horizon + MaxLife + Buffer

RunSAdd(w) ==
  LET u == Owner[On(w).id]
  IN  /\ Runs(w, "sadd")
      /\ userIndex' = [userIndex EXCEPT ![u] =
                          IF Live(@) THEN [until |-> @.until, ids |-> @.ids \cup {On(w).id}]
                          ELSE [until |-> Never, ids |-> {On(w).id}]]
      /\ Advance(w)
      /\ UNCHANGED <<clock, sessions, contKey, held>>

(* EXPIRE does nothing to a key that does not exist. *)
RunExpire(w) ==
  LET u == Owner[On(w).id]
      there == Live(userIndex[u])
  IN  /\ Runs(w, "expire")
      /\ userIndex' = IF there THEN [userIndex EXCEPT ![u].until = Deadline(w)] ELSE userIndex
      /\ cut' = IF there THEN cut ELSE cut \cup {On(w).id}
      /\ pipeline' = [pipeline EXCEPT ![w] = Tail(@)]
      /\ UNCHANGED <<clock, sessions, contKey, held>>

RunMapEx(w) ==
  /\ Runs(w, "mapex")
  /\ contKey' = [contKey EXCEPT ![On(w).cont] = [until |-> Deadline(w), id |-> On(w).id]]
  /\ Advance(w)
  /\ UNCHANGED <<clock, sessions, userIndex, held>>

(* delete_session reads the session before it deletes: the container whose
   key it drops is the one stored then.  A set that becomes empty is gone. *)
DeleteCommands(v) ==
  IF ~Live(sessions[v.id]) THEN <<Command("del", v, 0)>>
  ELSE LET x == Stored(v.id)
           unlist == Command("srem", x, 0)
           drop == Command("del", x, 0)
       IN  IF x.cont = None THEN <<unlist, drop>> ELSE <<unlist, Command("mapdel", x, 0), drop>>

RunLookup(w) ==
  /\ Runs(w, "lookup")
  /\ Send(w, DeleteCommands(On(w)))
  /\ UNCHANGED <<clock, sessions, userIndex, contKey, held>>

RunSRem(w) ==
  LET u == Owner[On(w).id]
      ids == userIndex[u].ids \ {On(w).id}
  IN  /\ Runs(w, "srem")
      /\ userIndex' = IF ~Live(userIndex[u]) THEN userIndex
                      ELSE [userIndex EXCEPT ![u] = IF ids = {} THEN NoIndex
                                                    ELSE [@ EXCEPT !.ids = ids]]
      /\ Advance(w)
      /\ UNCHANGED <<clock, sessions, contKey, held>>

RunMapDel(w) ==
  /\ Runs(w, "mapdel")
  /\ contKey' = [contKey EXCEPT ![On(w).cont] = NoKey]
  /\ Advance(w)
  /\ UNCHANGED <<clock, sessions, userIndex, held>>

RunDel(w) ==
  /\ Runs(w, "del")
  /\ sessions' = [sessions EXCEPT ![On(w).id].until = 0]
  /\ Advance(w)
  /\ UNCHANGED <<clock, userIndex, contKey, held>>

\* The connection breaks: what is left of the pipeline is lost, and the copy.
Disconnect(w) ==
  /\ ~Ready(w)
  /\ pipeline' = [pipeline EXCEPT ![w] = <<>>]
  /\ cut' = cut \cup {Head(pipeline[w]).on.id}
  /\ held' = [held EXCEPT ![w] = NoCopy]
  /\ UNCHANGED <<clock, sessions, userIndex, contKey>>

\* A call takes less than the time between two ticks.
StoreTick ==
  /\ clock < Horizon
  /\ \A w \in Clients : ~Ready(w) => Head(pipeline[w]).at = clock
  /\ clock' = clock + 1
  /\ UNCHANGED <<sessions, userIndex, contKey, held, pipeline, cut>>

RunCommand(w) ==
  \/ RunSetEx(w) \/ RunSAdd(w) \/ RunExpire(w) \/ RunMapEx(w)
  \/ RunLookup(w) \/ RunSRem(w) \/ RunMapDel(w) \/ RunDel(w)

----
StoreTypeOK ==
  LET Copies == [id : Sessions \cup {None}, exp : Nat, cont : Conts \cup {None}]
  IN  /\ clock \in 0..Horizon
      /\ sessions \in [Sessions -> [until : Nat, exp : Nat, cont : Conts \cup {None}]]
      /\ userIndex \in [Users -> [until : Nat, ids : SUBSET Sessions]]
      /\ contKey \in [Conts -> [until : Nat, id : Sessions \cup {None}]]
      /\ cut \subseteq Sessions
      /\ held \in [Clients -> Copies]
      /\ \A w \in Clients : \A i \in DOMAIN pipeline[w] : pipeline[w][i].on \in Copies
====
