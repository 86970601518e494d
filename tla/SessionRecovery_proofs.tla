---- MODULE SessionRecovery_proofs ----
(* Theorems about SessionRecovery: a user's index outlives the sessions it
   lists, and recovery leaves every session it dealt with a container, or
   stops it only when its session has expired.  The first half follows the
   deadlines: every EXPIRE that finds the set there moves it past every
   session's, and a key is only written while the EXPIRE of its pipeline is
   still to come.  The second follows the containers. *)
EXTENDS SessionRecovery, SequenceTheorems, TLAPS

Copies == [id : Sessions \cup {None}, exp : Nat, cont : Conts \cup {None}]
Cmds == {"setex", "sadd", "expire", "mapex", "lookup", "srem", "mapdel", "del"}
Keys == [until : Nat, exp : Nat, cont : Conts \cup {None}]
Sets == [until : Nat, ids : SUBSET Sessions]
Maps == [until : Nat, id : Sessions \cup {None}]
Commands == [cmd : Cmds, on : Copies, ttl : Nat, at : Nat]

(* No session is ever extended (Session::extend has no caller), and a set's
   deadline is a day past a session's: as long as the sessions themselves
   are meant to last.  Then none expires later than one created now. *)
Short == Extensions \subseteq {0} /\ Life <= Buffer + 1
Last == clock + Life

CopyOK(v) == v \in Copies /\ (Short => v.exp <= Last)

(* What a command may still do, and what has to follow it. *)
CommandOK(c) ==
  /\ CopyOK(c.on) /\ c.on.id \in Sessions /\ clock \in {c.at, c.at + 1}
  /\ c.cmd = "setex" => (Short => c.ttl <= Life) /\ c.at + c.ttl <= c.on.exp
  /\ c.cmd = "expire" => c.ttl > Buffer

PipelineOK(p) ==
  /\ p \in Seq(Commands)
  /\ \A i \in 1..Len(p) :
        /\ CommandOK(p[i]) /\ p[i].on.id = p[1].on.id /\ p[i].at = p[1].at
        /\ p[i].cmd = "setex" => i = 1 /\ i < Len(p) /\ p[i + 1].cmd \in {"sadd", "expire"}
        /\ p[i].cmd = "sadd" => i < Len(p) /\ p[i + 1].cmd = "expire"
        /\ p[i].cmd = "lookup" => i = Len(p)

Pends(p, s) == \E i \in 1..Len(p) : p[i].cmd = "expire" /\ p[i].on.id = s

(* The index lists a session that is not lost, its set's deadline is after
   the session's, or some client is about to set a new one. *)
Indexed(s) == s \in userIndex[Owner[s]].ids /\ s \notin cut
Ahead(s) == userIndex[Owner[s]].until >= sessions[s].until
IndexCovers ==
  Short => \A s \in Sessions : Indexed(s) => Ahead(s) \/ \E w \in Clients : Pends(pipeline[w], s)

Phases == {"up", "discover", "next", "create", "start", "update", "fail", "wait", "done"}

StoreTyped ==
  /\ clock \in 0..Horizon
  /\ sessions \in [Sessions -> Keys]
  /\ \A s \in Sessions : /\ Short => sessions[s].until <= Last /\ sessions[s].exp <= Last
                        /\ sessions[s].until <= sessions[s].exp + 1
  /\ userIndex \in [Users -> Sets]
  /\ contKey \in [Conts -> Maps] /\ cut \subseteq Sessions

PipelinesOK ==
  /\ pipeline \in [Clients -> Seq(Commands)]
  /\ \A w \in Clients : PipelineOK(pipeline[w])

StoreFacts == StoreTyped /\ PipelinesOK

CopyFacts ==
  /\ held \in [Clients -> Copies]
  /\ \A w \in Clients : CopyOK(held[w])
  /\ recovery \in [phase : Phases, todo : SUBSET Copies, cur : Copies, made : Conts \cup {None}]
  /\ \A v \in recovery.todo : CopyOK(v) /\ v.id \in Sessions
  /\ CopyOK(recovery.cur)
  /\ recovery.phase \in {"create", "start", "update", "fail"} => recovery.cur.id \in Sessions

(* The service sends nothing while it waits for an answer. *)
ServiceIdle == recovery.phase # "wait" => pipeline[Service] = <<>>

SessionIInv == StoreFacts /\ CopyFacts /\ IndexCovers

LEMMA SessionImplies == SessionIInv /\ Short => IndexOutlivesSessions
  BY DEF SessionIInv, StoreFacts, PipelinesOK, IndexCovers, Indexed, Ahead, IndexOutlivesSessions, InPipeline, Pends

LEMMA TailOK ==
  ASSUME NEW p, PipelineOK(p), p # <<>>
  PROVE  /\ PipelineOK(Tail(p)) /\ Tail(p) \in Seq(Commands)
         /\ Head(p) = p[1] /\ CommandOK(p[1]) /\ p[1] \in Commands
         /\ \A s : Pends(p, s) => Pends(Tail(p), s) \/ (p[1].cmd = "expire" /\ p[1].on.id = s)
         /\ \A s : Pends(p, s) => p[1].on.id = s
         /\ p[1].cmd \in {"setex", "sadd"} => Pends(Tail(p), p[1].on.id)
         /\ p[1].cmd = "lookup" => \A s : ~Pends(p, s)
         /\ \A i \in 1..Len(Tail(p)) : i + 1 \in 1..Len(p) /\ Tail(p)[i] = p[i + 1] /\ Tail(p)[i].cmd # "setex"
         /\ 1 \in 1..Len(p) /\ (Len(p) = 1 \/ (Tail(p) # <<>> /\ Tail(p)[Len(Tail(p))] = p[Len(p)]))
<1> DEFINE q == Tail(p)
<1>1. p \in Seq(Commands) /\ Len(p) \in Nat \ {0} /\ Head(p) = p[1] /\ p[1] \in Commands
  BY DEF PipelineOK
<1>2. q \in Seq(Commands) /\ Len(q) = Len(p) - 1 /\ \A i \in 1..Len(q) : q[i] = p[i + 1] /\ i + 1 \in 1..Len(p)
  BY <1>1
<1> HIDE DEF q
<1>3. PipelineOK(q)
  <2> SUFFICES ASSUME NEW i \in 1..Len(q)
               PROVE  /\ CommandOK(q[i]) /\ q[i].on.id = q[1].on.id /\ q[i].at = q[1].at /\ q[i].cmd # "setex"
                      /\ q[i].cmd = "sadd" => i < Len(q) /\ q[i + 1].cmd = "expire"
                      /\ q[i].cmd = "lookup" => i = Len(q)
    BY <1>2 DEF PipelineOK
  <2>1. i + 1 \in 1..Len(p) /\ 2 \in 1..Len(p) /\ q[i] = p[i + 1] /\ q[1] = p[2] /\ (i < Len(q) => q[i + 1] = p[i + 2])
    BY <1>1, <1>2
  <2> QED BY <1>1, <1>2, <2>1 DEF PipelineOK
<1>4. \A s : Pends(p, s) => Pends(q, s) \/ (p[1].cmd = "expire" /\ p[1].on.id = s)
  <2> SUFFICES ASSUME NEW s, NEW i \in 1..Len(p), p[i].cmd = "expire", p[i].on.id = s, i # 1
               PROVE  Pends(q, s)
    BY DEF Pends
  <2> QED BY <1>1, <1>2, i - 1 \in 1..Len(q), q[i - 1] = p[i] DEF Pends
<1>5. CommandOK(p[1]) /\ (\A s : Pends(p, s) => p[1].on.id = s)
      /\ (p[1].cmd = "lookup" => \A s : ~Pends(p, s))
  BY <1>1 DEF PipelineOK, Pends
<1>6. ASSUME p[1].cmd \in {"setex", "sadd"} PROVE Pends(q, p[1].on.id)
  BY <1>1, <1>6, <1>2 DEF PipelineOK, Pends
<1>7. (\A i \in 1..Len(q) : q[i].cmd # "setex") /\ (q = <<>> => Len(q) = 0)
  BY <1>1, <1>2 DEF PipelineOK
<1> QED BY <1>1, <1>2, <1>3, <1>4, <1>5, <1>6, <1>7 DEF q

LEMMA Commanded ==
  ASSUME StoreFacts, NEW c \in Cmds, NEW v, CopyOK(v), v.id \in Sessions, NEW ttl \in Nat,
         c = "setex" => (Short => ttl <= Life) /\ clock + ttl <= v.exp, c = "expire" => ttl > Buffer
  PROVE  LET k == Command(c, v, ttl) IN
         k \in Commands /\ CommandOK(k) /\ k.cmd = c /\ k.on = v /\ k.at = clock
  BY DEF Command, Commands, CommandOK, CopyOK, StoreFacts, StoreTyped

LEMMA StoredOK ==
  ASSUME StoreFacts, NEW s \in Sessions
  PROVE  CopyOK(Stored(s)) /\ Stored(s).id = s /\ Stored(s).exp = sessions[s].exp /\ Stored(s).cont = sessions[s].cont
  BY DEF StoreFacts, StoreTyped, Stored, CopyOK, Copies, Keys

(* The pipelines the calls send. *)
LEMMA Pipes ==
  ASSUME NEW a \in Commands, NEW b \in Commands, NEW c \in Commands,
         CommandOK(a), CommandOK(b), CommandOK(c), b.on.id = a.on.id, c.on.id = a.on.id, b.at = a.at, c.at = a.at
  PROVE  /\ a.cmd \notin {"setex", "sadd"} => PipelineOK(<<a>>)
         /\ a.cmd \notin {"sadd", "lookup"} /\ b.cmd \in {"expire", "del"} /\ (a.cmd = "setex" => b.cmd = "expire") => PipelineOK(<<a, b>>)
         /\ a.cmd = "setex" /\ b.cmd = "expire" /\ c.cmd = "mapex" => PipelineOK(<<a, b, c>>)
         /\ a.cmd = "setex" /\ b.cmd = "sadd" /\ c.cmd = "expire" => PipelineOK(<<a, b, c>>)
         /\ a.cmd = "srem" /\ b.cmd = "mapdel" /\ c.cmd = "del" => PipelineOK(<<a, b, c>>)
  BY DEF PipelineOK

LEMMA CallsOK ==
  ASSUME StoreFacts, NEW v, CopyOK(v), v.id \in Sessions
  PROVE  /\ PipelineOK(UpdateCommands(v)) /\ PipelineOK(DeleteCommands(v))
         /\ PipelineOK(<<Command("lookup", v, 0)>>)
         /\ v.exp = clock + Life =>
            PipelineOK(<<Command("setex", v, Life), Command("sadd", v, 0), Command("expire", v, Life + Buffer)>>)
<1> DEFINE ttl == Lesser(v.exp - clock, MaxLife)
<1> USE StoreAssumption
<1>1. v.exp > clock => ttl \in Nat \ {0} /\ (Short => ttl <= Life) /\ clock + ttl <= v.exp
  BY DEF CopyOK, Last, Lesser, StoreFacts, StoreTyped, Copies
<1> HIDE DEF ttl
<1> DEFINE Is(k, c, x) == k \in Commands /\ CommandOK(k) /\ k.cmd = c /\ k.on = x /\ k.at = clock
<1>2. PipelineOK(<<Command("lookup", v, 0)>>)
  BY Commanded, Pipes DEF Cmds
<1>3. ASSUME v.exp = clock + Life
      PROVE  PipelineOK(<<Command("setex", v, Life), Command("sadd", v, 0), Command("expire", v, Life + Buffer)>>)
  <2> DEFINE a == Command("setex", v, Life)
             b == Command("sadd", v, 0)
             c == Command("expire", v, Life + Buffer)
  <2>2. Is(a, "setex", v) /\ Is(b, "sadd", v) /\ Is(c, "expire", v)
    BY <1>3, Commanded DEF Cmds, CopyOK, Copies
  <2> HIDE DEF a, b, c
  <2> QED BY <2>2, Pipes DEF a, b, c
<1>4. PipelineOK(UpdateCommands(v))
  <2> DEFINE a == Command("setex", v, ttl)
             b == Command("expire", v, ttl + Buffer)
             c == Command("mapex", v, ttl)
  <2>1. v.exp > clock => Is(a, "setex", v) /\ Is(b, "expire", v) /\ Is(c, "mapex", v)
    BY <1>1, Commanded DEF Cmds
  <2> HIDE DEF a, b, c
  <2>2. v.exp > clock => PipelineOK(<<a, b>>) /\ PipelineOK(<<a, b, c>>)
    BY <2>1, Pipes
  <2> QED BY <1>2, <2>2 DEF a, b, c, ttl, UpdateCommands, CopyOK, Copies, StoreFacts, StoreTyped
<1>5. PipelineOK(DeleteCommands(v))
  <2> DEFINE x == Stored(v.id)
             a == Command("srem", x, 0)
             b == Command("mapdel", x, 0)
             c == Command("del", x, 0)
  <2>1. Is(a, "srem", x) /\ Is(b, "mapdel", x) /\ Is(c, "del", x)
    BY Commanded, StoredOK DEF Cmds
  <2> HIDE DEF a, b, c
  <2>2. PipelineOK(<<a, c>>) /\ PipelineOK(<<a, b, c>>)
    BY <2>1, Pipes
  <2> QED BY <2>2, Commanded, Pipes DEF a, b, c, DeleteCommands, Cmds
<1> QED BY <1>2, <1>3, <1>4, <1>5
LEMMA OwnerTyped == ASSUME NEW s \in Sessions PROVE Owner[s] \in Users
  BY StoreAssumption

(* One pipeline changes: what keeps the index ahead. *)
LEMMA PipeStep ==
  ASSUME SessionIInv, NEW w \in Clients, NEW q, PipelineOK(q), StoreTyped',
         pipeline' = [pipeline EXCEPT ![w] = q], UNCHANGED clock,
         Short => \A s \in Sessions : Indexed(s)' => \/ Pends(q, s) \/ Ahead(s)'
                                           \/ (Indexed(s) /\ ~Ahead(s) /\ ~Pends(pipeline[w], s))
  PROVE  StoreFacts' /\ IndexCovers'
<1>1. /\ pipeline' \in [Clients -> Seq(Commands)]
      /\ pipeline'[w] = q /\ \A x \in Clients \ {w} : pipeline'[x] = pipeline[x]
  BY DEF SessionIInv, StoreFacts, PipelinesOK, PipelineOK
<1>2. IndexCovers'
  BY <1>1 DEF SessionIInv, IndexCovers, Pends
<1> QED BY <1>1, <1>2 DEF StoreFacts, SessionIInv, PipelinesOK, PipelineOK, CommandOK, CopyOK, Last

(* What a client sends with nothing else under way changes nothing yet. *)
LEMMA SendStep ==
  ASSUME SessionIInv, NEW w \in Clients, NEW q, PipelineOK(q), Send(w, q),
         \A s : ~Pends(pipeline[w], s), UNCHANGED <<clock, sessions, userIndex, contKey>>
  PROVE  StoreFacts' /\ IndexCovers'
  BY PipeStep DEF Send, SessionIInv, StoreFacts, StoreTyped, Indexed, Ahead, Last

LEMMA RunKeeps ==
  ASSUME NEW w, RunCommand(w)
  PROVE  UNCHANGED <<clock, held>> /\ pipeline[w] # <<>> /\ \E q : pipeline' = [pipeline EXCEPT ![w] = q]
  BY DEF RunCommand, RunSetEx, RunSAdd, RunExpire, RunMapEx, RunLookup, RunSRem, RunMapDel, RunDel, Runs, Advance, Send

LEMMA RunStep ==
  ASSUME SessionIInv, NEW w \in Clients, RunCommand(w)
  PROVE  StoreFacts' /\ IndexCovers'
<1> DEFINE p == pipeline[w]
           q == Tail(p)
           h == p[1]
           u == Owner[h.on.id]
<1>2. /\ PipelineOK(q) /\ Head(p) = h /\ CommandOK(h) /\ h \in Commands
      /\ \A s : Pends(p, s) => Pends(q, s) \/ (h.cmd = "expire" /\ h.on.id = s)
      /\ h.cmd \in {"setex", "sadd"} => Pends(q, h.on.id)
      /\ h.cmd = "lookup" => \A s : ~Pends(p, s)
  BY TailOK, RunKeeps DEF SessionIInv, StoreFacts, PipelinesOK
<1>3. On(w) = h.on /\ Deadline(w) = clock + h.ttl /\ \A c : Runs(w, c) => h.cmd = c
  BY <1>2 DEF On, Deadline, Runs
<1>4. StoreTyped /\ u \in Users
  BY <1>2, OwnerTyped DEF SessionIInv, StoreFacts, CommandOK
<1>5. /\ h.on.id \in Sessions /\ h.on.exp \in Nat /\ (Short => h.on.exp <= Last) /\ h.on.cont \in Conts \cup {None}
      /\ h.ttl \in Nat /\ CopyOK(h.on) /\ (h.cmd = "setex" => (Short => h.ttl <= Life) /\ clock + h.ttl <= h.on.exp + 1) /\ (h.cmd = "expire" => h.ttl > Buffer)
  BY <1>2 DEF CommandOK, CopyOK, Copies, Commands
<1> HIDE DEF p, q, h
<1> USE StoreAssumption, OwnerTyped DEF StoreTyped, Last
<1>6. ASSUME pipeline' = [pipeline EXCEPT ![w] = q], UNCHANGED clock, StoreTyped',
             Short => \A s \in Sessions : Indexed(s)' =>
                \/ Pends(q, s) \/ Ahead(s)'
                \/ (Indexed(s) /\ (Ahead(s) => Ahead(s)') /\ (h.cmd # "expire" \/ s # h.on.id))
      PROVE  StoreFacts' /\ IndexCovers'
  BY <1>2, <1>6, PipeStep DEF p
<1>7. CASE RunSetEx(w)
  <2> DEFINE e == [until |-> clock + h.ttl, exp |-> h.on.exp, cont |-> h.on.cont]
  <2>2. sessions' = [sessions EXCEPT ![h.on.id] = e] /\ Send(w, q) /\ UNCHANGED <<clock, userIndex, contKey>> /\ h.cmd = "setex"
    BY <1>2, <1>3, <1>7 DEF RunSetEx, Advance, q, p
  <2> HIDE DEF e
  <2> QED BY <1>2, <1>6, <2>2, <1>4, <1>5, <1>7, <1>3 DEF Send, Indexed, Ahead, Keys, RunSetEx
<1>8. CASE RunSAdd(w)
  <2> DEFINE more == [until |-> userIndex[u].until, ids |-> userIndex[u].ids \cup {h.on.id}]
             fresh == [until |-> Never, ids |-> {h.on.id}]
  <2>1. UNCHANGED <<clock, sessions, contKey>> /\ Send(w, q) /\ h.cmd = "sadd"
        /\ \E new \in {more, fresh} : userIndex' = [userIndex EXCEPT ![u] = new]
    BY <1>2, <1>3, <1>8 DEF RunSAdd, Advance, q, p
  <2>2. /\ more \in Sets /\ fresh \in Sets
        /\ more.until = userIndex[u].until /\ more.ids = userIndex[u].ids \cup {h.on.id} /\ fresh.ids = {h.on.id}
    BY <1>4, <1>5 DEF Never, Sets
  <2> HIDE DEF more, fresh, u
  <2> QED BY <1>2, <1>6, <2>1, <1>4, <2>2 DEF Send, Indexed, Ahead
<1>9. CASE RunExpire(w)
  <2> DEFINE new == [userIndex[u] EXCEPT !.until = clock + h.ttl]
  <2>1. UNCHANGED <<clock, sessions, contKey>> /\ h.cmd = "expire" /\ pipeline' = [pipeline EXCEPT ![w] = q]
        /\ \/ UNCHANGED userIndex /\ cut' = cut \cup {h.on.id}
           \/ userIndex' = [userIndex EXCEPT ![u] = new] /\ cut' = cut
    BY <1>2, <1>3, <1>9 DEF RunExpire, q, p
  <2>2. new \in Sets /\ new.until = clock + h.ttl /\ new.ids = userIndex[u].ids
    BY <1>4, <1>5 DEF Sets
  <2> HIDE DEF new, u
  <2> QED BY <1>5, <1>6, <2>1, <2>2, <1>4 DEF Indexed, Ahead, u, Short, Keys
<1>10. CASE RunLookup(w)
  BY <1>2, <1>3, <1>4, <1>5, <1>10, CallsOK, SendStep DEF RunLookup, p, SessionIInv
<1>11. CASE RunSRem(w)
  <2> DEFINE new == IF userIndex[u].ids \ {h.on.id} = {} THEN NoIndex
                    ELSE [userIndex[u] EXCEPT !.ids = userIndex[u].ids \ {h.on.id}]
  <2>1. UNCHANGED <<clock, sessions, contKey>> /\ Send(w, q) /\ h.cmd = "srem"
        /\ userIndex' \in {userIndex, [userIndex EXCEPT ![u] = new]}
    BY <1>2, <1>3, <1>11 DEF RunSRem, Advance, q, p
  <2>2. new \in Sets /\ \A s \in new.ids : s \in userIndex[u].ids /\ new.until = userIndex[u].until
    <3>1. userIndex[u] \in Sets
      BY <1>4, <1>5
    <3>2. CASE userIndex[u].ids \ {h.on.id} = {}
      BY <3>2 DEF NoIndex, Sets
    <3> QED BY <3>1, <3>2 DEF Sets
  <2> HIDE DEF u, new
  <2> QED BY <1>6, <2>1, <1>4, <2>2 DEF Send, Indexed, Ahead
<1>12. CASE RunDel(w)
  <2> DEFINE e == [sessions[h.on.id] EXCEPT !.until = 0]
  <2>1. sessions' = [sessions EXCEPT ![h.on.id] = e]
        /\ UNCHANGED <<clock, userIndex, contKey>> /\ Send(w, q) /\ h.cmd = "del"
    BY <1>2, <1>3, <1>12 DEF RunDel, Advance, q, p
  <2>2. e \in Keys /\ e.until = 0 /\ e.exp = sessions[h.on.id].exp
    BY <1>4, <1>5 DEF Keys
  <2> HIDE DEF e
  <2> QED BY <1>6, <2>1, <2>2, <1>4, <1>5 DEF Send, Indexed, Ahead, Sets, Keys
<1>13. CASE RunMapEx(w) \/ RunMapDel(w)
  <2>1. UNCHANGED <<clock, sessions, userIndex>> /\ Send(w, q) /\ h.cmd # "expire"
        /\ \E k \in Maps : contKey' = [contKey EXCEPT ![h.on.cont] = k]
    <3>1. CASE RunMapEx(w)
      <4>1. [until |-> Deadline(w), id |-> On(w).id] \in Maps
        BY <1>3, <1>4, <1>5 DEF Maps
      <4> QED BY <1>2, <1>3, <3>1, <4>1 DEF RunMapEx, Advance, q, p
    <3>2. CASE RunMapDel(w)
      BY <1>2, <1>3, <1>4, <1>5, <3>2 DEF RunMapDel, Advance, q, p, Maps, NoKey
    <3> QED BY <1>13, <3>1, <3>2
  <2> QED BY <1>4, <1>6, <2>1 DEF Send, Indexed, Ahead
<1> QED BY <1>7, <1>8, <1>9, <1>10, <1>11, <1>12, <1>13 DEF RunCommand

LEMMA StoreKept ==
  ASSUME SessionIInv, UNCHANGED <<clock, sessions, userIndex, contKey, pipeline, cut>>
  PROVE  StoreFacts' /\ IndexCovers'
<1>1. StoreTyped' /\ IndexCovers'
  BY DEF SessionIInv, StoreFacts, StoreTyped, IndexCovers, Indexed, Ahead, Last, Pends
<1>2. ASSUME NEW p, PipelineOK(p) PROVE PipelineOK(p)'
  BY <1>2 DEF PipelineOK, CommandOK, CopyOK, Last
<1> QED BY <1>1, <1>2 DEF SessionIInv, StoreFacts, PipelinesOK

LEMMA CopiesKept ==
  ASSUME SessionIInv, UNCHANGED <<clock, held, recovery>> PROVE CopyFacts'
  BY DEF SessionIInv, CopyFacts, CopyOK, Last

LEMMA NewCopy ==
  ASSUME SessionIInv, NEW w \in Clients, NEW v, CopyOK(v), held' = [held EXCEPT ![w] = v],
         UNCHANGED <<clock, recovery>>
  PROVE  CopyFacts'
  BY DEF SessionIInv, CopyFacts, CopyOK, Last

LEMMA ServeStep ==
  ASSUME SessionIInv, NEW w \in Clients, Serve(w)
  PROVE  SessionIInv'
<1> USE StoreAssumption
<1>1. UNCHANGED recovery /\ (Ready(w) => \A s : ~Pends(pipeline[w], s))
      /\ held[w] \in Copies /\ CopyOK(held[w]) /\ clock \in Nat
  BY DEF Serve, Ready, Pends, SessionIInv, CopyFacts, StoreFacts, StoreTyped, PipelinesOK
<1>2. ASSUME NEW s \in Sessions, CreateSession(w, s) PROVE SessionIInv'
  <2> DEFINE v == [id |-> s, exp |-> clock + Life, cont |-> None]
  <2>1. CopyOK(v) /\ v.id \in Sessions /\ Lesser(Life, MaxLife) = Life
    BY <1>1 DEF CopyOK, Copies, Last, Lesser
  <2>a. v.exp = clock + Life
    OBVIOUS
  <2>2. /\ Send(w, <<Command("setex", v, Life), Command("sadd", v, 0), Command("expire", v, Life + Buffer)>>)
        /\ held' = [held EXCEPT ![w] = v] /\ Ready(w) /\ UNCHANGED <<clock, sessions, userIndex, contKey>>
    BY <1>2, <2>1 DEF CreateSession
  <2> HIDE DEF v
  <2> QED BY <1>1, <2>1, <2>a, <2>2, CallsOK, SendStep, NewCopy DEF SessionIInv
<1>3. ASSUME NEW s \in Sessions, GetSession(w, s) PROVE SessionIInv'
  BY <1>1, <1>3, StoreKept, NewCopy, StoredOK DEF SessionIInv, GetSession
<1>4. CASE DeleteSession(w)
  BY <1>1, <1>4, CallsOK, SendStep, CopiesKept DEF DeleteSession, Copies, SessionIInv
<1>5. CASE RunCommand(w)
  BY <1>1, <1>5, RunStep, RunKeeps, CopiesKept DEF SessionIInv
<1>6. ASSUME NEW ext \in Extensions, NEW c \in Conts \cup {None}, UpdateSession(w, ext, c) PROVE SessionIInv'
  <2> DEFINE v == [held[w] EXCEPT !.exp = @ + ext, !.cont = c]
  <2>1. CopyOK(v) /\ v.id \in Sessions
    <3>2. held[w].exp \in Nat /\ v.exp = held[w].exp + ext /\ v.id = held[w].id /\ v \in Copies
      <4>1. held[w].exp \in Nat /\ held[w].exp + ext \in Nat /\ held[w] \in Copies
        BY <1>1, <1>6 DEF Copies, UpdateSession, Short
      <4> QED BY <1>1, <1>6, <4>1 DEF Copies, UpdateSession, Short
    <3> QED BY <1>1, <1>6, <3>2 DEF CopyOK, UpdateSession, Copies, Short
  <2>2. /\ Send(w, UpdateCommands(v)) /\ Ready(w)
        /\ held' = [held EXCEPT ![w] = v] /\ UNCHANGED <<clock, sessions, userIndex, contKey>>
    BY <1>6 DEF UpdateSession
  <2> HIDE DEF v
  <2> QED BY <1>1, <2>1, <2>2, CallsOK, SendStep, NewCopy DEF SessionIInv
<1> QED BY <1>2, <1>3, <1>4, <1>5, <1>6 DEF Serve

LEMMA NoCopyOK == ASSUME SessionIInv PROVE CopyOK(NoCopy) /\ NoCopy \in Copies
  BY StoreAssumption DEF CopyOK, Copies, NoCopy, Last, SessionIInv, StoreFacts, StoreTyped

LEMMA EmptyOK == PipelineOK(<<>>) /\ <<>> \in Seq(Commands) /\ \A s : ~Pends(<<>>, s)
  BY DEF PipelineOK, Pends

LEMMA DisconnectStep ==
  ASSUME SessionIInv, NEW w \in Clients, Disconnect(w), UNCHANGED recovery PROVE SessionIInv'
<1>2. StoreTyped'
  BY TailOK DEF Disconnect, SessionIInv, StoreFacts, StoreTyped, Last, Ready, PipelinesOK, CommandOK
<1>3. StoreFacts' /\ IndexCovers'
  <2>1. ASSUME NEW s \in Sessions, Indexed(s)'
        PROVE  Indexed(s) /\ ~Pends(pipeline[w], s) /\ (Ahead(s) => Ahead(s)')
    BY <2>1, TailOK DEF Disconnect, Ready, SessionIInv, StoreFacts, PipelinesOK, Indexed, Ahead
  <2> QED BY <1>2, <2>1, EmptyOK, PipeStep DEF Disconnect
<1> QED BY TailOK, <1>3, NoCopyOK, NewCopy DEF Disconnect, SessionIInv, Ready, StoreFacts, PipelinesOK

LEMMA RestartStep == ASSUME SessionIInv, Restart PROVE SessionIInv'
<1>1. IndexCovers'
  BY DEF IndexCovers, SessionIInv, Indexed, Ahead, Restart, Enter, InPipeline, Pends, StoreFacts
<1>2. CopyFacts'
  BY NoCopyOK DEF SessionIInv, CopyFacts, CopyOK, Last, Phases, Restart, Enter
<1> QED BY EmptyOK, <1>1, <1>2 DEF SessionIInv, StoreFacts, Last, PipelineOK, StoreTyped, PipelinesOK, Restart, Enter

LEMMA TickStep == ASSUME SessionIInv, StoreTick, UNCHANGED recovery PROVE SessionIInv'
<1>1. clock' = clock + 1 /\ clock' \in 0..Horizon /\ clock \in Nat /\ Life \in Nat
      /\ UNCHANGED <<sessions, userIndex, contKey, held, pipeline, cut>>
  BY StoreAssumption DEF StoreTick, SessionIInv, StoreFacts, StoreTyped, PipelinesOK
<1>2. ASSUME NEW w \in Clients PROVE PipelineOK(pipeline[w])'
  <2>1. PICK p : p = pipeline[w]
    OBVIOUS
  <2> QED BY <1>1, <2>1, TailOK DEF PipelineOK, CommandOK, CopyOK, Copies, Last, StoreTick, Ready, SessionIInv,
      StoreFacts, PipelinesOK
<1>4. IndexCovers'
  BY <1>1 DEF SessionIInv, IndexCovers, Indexed, Ahead, Pends
<1> QED BY <1>1, <1>2, <1>4 DEF SessionIInv, CopyFacts, CopyOK, Copies, Last, StoreFacts, StoreTyped, PipelinesOK, Keys

(* The service's own steps: the copies it works on are what was stored. *)
LEMMA ServiceStep ==
  ASSUME SessionIInv, ServiceIdle, Service \in Clients,
         Discover \/ Finish \/ Assess \/ Recreate \/ Start \/ Update \/ MarkAsFailed \/ Report
  PROVE  SessionIInv'
<1> DEFINE R == [phase : Phases, todo : SUBSET Copies, cur : Copies, made : Conts \cup {None}]
<1>1. /\ recovery \in R /\ CopyOK(recovery.cur) /\ CopyOK(NoCopy) /\ NoCopy \in Copies
      /\ \A v \in recovery.todo : CopyOK(v) /\ v.id \in Sessions
      /\ recovery.phase \in {"create", "start", "update", "fail"} => recovery.cur.id \in Sessions
  BY NoCopyOK DEF SessionIInv, CopyFacts
<1>2. UNCHANGED <<clock, sessions, userIndex, contKey, held>>
  BY DEF Discover, Finish, Assess, Recreate, Start, Update, MarkAsFailed, Report, Send, storeVars
<1>a. ASSUME recovery' \in R, CopyOK(recovery'.cur),
             \A v \in recovery'.todo : CopyOK(v) /\ v.id \in Sessions,
             recovery'.phase \in {"create", "start", "update", "fail"} => recovery'.cur.id \in Sessions
      PROVE  CopyFacts'
  BY <1>2, <1>a DEF SessionIInv, CopyFacts, CopyOK, Last
<1>b. ASSUME UNCHANGED <<pipeline, cut>> PROVE StoreFacts' /\ IndexCovers'
  BY <1>2, <1>b, StoreKept
<1> HIDE DEF R
<1>3. CASE Discover
  <2> DEFINE td == {Stored(s) : s \in {t \in Listed : sessions[t].cont # None}}
  <2>1. td \in SUBSET Copies /\ \A v \in td : CopyOK(v) /\ v.id \in Sessions
    BY StoredOK, RecoveryAssumption DEF CopyOK, SessionIInv, StoreFacts, StoreTyped, Listed, Sets
  <2>2. recovery' = [recovery EXCEPT !.phase = "next", !.todo = td]
    BY <1>3 DEF Discover
  <2> HIDE DEF td
  <2> QED BY <1>1, <1>3, <1>a, <1>b, <2>1, <2>2 DEF Discover, storeVars, SessionIInv, Phases, R
<1>4. ASSUME recovery' \in R, recovery'.todo \subseteq recovery.todo, UNCHANGED <<pipeline, cut>>,
             \/ recovery'.phase \in {"next", "done"} /\ recovery'.cur \in {recovery.cur, NoCopy}
             \/ recovery'.cur = recovery.cur /\ recovery.phase \in {"create", "start"}
             \/ recovery'.cur \in recovery.todo
      PROVE  SessionIInv'
  BY <1>1, <1>4, <1>a, <1>b DEF SessionIInv
<1>5. CASE Finish
  BY <1>1, <1>4, <1>5 DEF Finish, Enter, storeVars, Phases, R
<1>6. CASE Recreate
  BY <1>1, <1>4, <1>6 DEF Recreate, Answer, storeVars, Phases, R
<1>7. CASE Start
  BY <1>1, <1>4, <1>7 DEF Start, Enter, Answer, storeVars, Phases, R
<1>8. CASE Report
  BY <1>1, <1>4, <1>8 DEF Report, Answer, storeVars, Phases, R
<1>9. CASE Assess
  <2>1. PICK v \in recovery.todo : UNCHANGED <<pipeline, cut>> /\ \E ph \in {"create", "fail"} :
            recovery' \in {[recovery EXCEPT !.todo = recovery.todo \ {v}],
                           [recovery EXCEPT !.todo = recovery.todo \ {v}, !.cur = v, !.phase = ph]}
    BY <1>9 DEF Assess, Remedy, storeVars
  <2>2. v \in Copies /\ recovery.phase = "next"
    BY <1>1, <1>9 DEF R, Assess
  <2> QED BY <1>1, <1>4, <2>1, <2>2 DEF Phases, R
<1>10. CASE Update \/ MarkAsFailed
  <2> DEFINE v == [recovery.cur EXCEPT !.cont = recovery.made]
  <2>2. CopyOK(v) /\ v.id \in Sessions
    BY <1>1, <1>10 DEF CopyOK, Copies, R, Update, MarkAsFailed, Enter, Phases
  <2>3. \A s : ~Pends(pipeline[Service], s)
    BY <1>1, <1>10, EmptyOK DEF ServiceIdle, Update, MarkAsFailed, Enter, Phases, R
  <2> QED BY <1>1, <1>2, <1>a, <1>10, <2>2, CallsOK, <2>3, SendStep DEF SessionIInv, Update, MarkAsFailed, Enter, Phases, R
<1> QED BY <1>3, <1>5, <1>6, <1>7, <1>8, <1>9, <1>10

LEMMA IdleStep ==
  ASSUME SessionIInv, ServiceIdle, [RecoveryNext]_recoveryVars PROVE ServiceIdle'
<1> USE RecoveryAssumption
<1>1. pipeline \in [Clients -> Seq(Commands)] /\ recovery.phase \in Phases
  BY DEF SessionIInv, StoreFacts, CopyFacts, StoreTyped, PipelinesOK
<1>2. ASSUME NEW w \in Servers, Serve(w) \/ (Disconnect(w) /\ UNCHANGED recovery) PROVE ServiceIdle'
  <2>1. UNCHANGED recovery /\ pipeline'[Service] = pipeline[Service]
    BY <1>1, <1>2, RunKeeps DEF Serve, Servers, Disconnect, Send, CreateSession, GetSession, DeleteSession,
      UpdateSession
  <2> QED BY <2>1 DEF ServiceIdle
<1>3. CASE Restart
  BY <1>3 DEF Restart, ServiceIdle
<1>4. CASE Discover \/ Finish \/ Assess \/ Recreate \/ Start
  BY <1>1, <1>4 DEF Discover, Finish, Assess, Recreate, Start, Remedy, storeVars, ServiceIdle
<1>5. CASE Update \/ MarkAsFailed
  BY <1>5 DEF Update, MarkAsFailed, Enter, ServiceIdle, SessionIInv, CopyFacts
<1>6. CASE Report
  BY <1>6 DEF Report, Ready, storeVars, ServiceIdle
<1>7. CASE RunService \/ StoreFails
  BY <1>7, RunKeeps DEF RunService, StoreFails, Disconnect, Ready, ServiceIdle
<1>8. CASE RecoveryTick \/ UNCHANGED recoveryVars
  BY <1>8 DEF RecoveryTick, StoreTick, recoveryVars, storeVars, ServiceIdle
<1> QED BY <1>2, <1>3, <1>4, <1>5, <1>6, <1>7, <1>8 DEF RecoveryNext

Known == SessionIInv /\ ServiceIdle

LEMMA KnownStart == RecoveryInit => Known
<1> SUFFICES ASSUME RecoveryInit PROVE Known
  OBVIOUS
<1> USE StoreAssumption, RecoveryAssumption DEF RecoveryInit, StoreInit, Nothing, NoSession, NoIndex, NoCopy, NoKey, Keys, Sets, Maps
<1>1. CopyFacts
  BY DEF CopyFacts, CopyOK, Copies, Last, Phases
<1> QED BY EmptyOK, <1>1, OwnerTyped DEF Known, SessionIInv, IndexCovers, ServiceIdle, Indexed, Ahead, StoreFacts,
    Last, StoreTyped, PipelinesOK

LEMMA KnownNext == Known /\ [RecoveryNext]_recoveryVars => Known'
<1> SUFFICES ASSUME SessionIInv, ServiceIdle, [RecoveryNext]_recoveryVars PROVE SessionIInv'
  BY IdleStep DEF Known
<1>1. ASSUME NEW w \in Servers, Serve(w) PROVE SessionIInv'
  BY <1>1, ServeStep DEF Servers
<1>2. ASSUME NEW w \in Clients, Disconnect(w), UNCHANGED recovery PROVE SessionIInv'
  BY <1>2, DisconnectStep
<1>3. CASE RunService
  BY <1>3, RecoveryAssumption, RunStep, RunKeeps, CopiesKept DEF RunService, SessionIInv
<1>4. CASE UNCHANGED recoveryVars
  BY <1>4, StoreKept, CopiesKept DEF recoveryVars, storeVars, SessionIInv
<1> QED BY <1>1, <1>2, <1>3, <1>4, RecoveryAssumption, RestartStep, TickStep, ServiceStep DEF RecoveryNext, Servers,
    StoreFails, RecoveryTick

(* Whatever pipelines of whichever clients run between each other's
   commands, restarts and recovery included, an index outlives every
   session that it lists and that nobody lost. *)
THEOREM IndexOutlives ==
  ASSUME Extensions \subseteq {0}, Life <= Buffer + 1
  PROVE  RecoverySpec => []IndexOutlivesSessions
<1>1. Known => IndexOutlivesSessions
  BY SessionImplies DEF Known, Short
<1> QED BY <1>1, KnownStart, KnownNext, PTL DEF RecoverySpec

----
(* What recovery does to containers: how a container, the session it was
   written down for and the time that is left to it hang together.
   Somewhere container c is written down as session s's. *)
SentAs(p, s, c) == \E i \in 1..Len(p) : p[i].on.id = s /\ p[i].on.cont = c
Names(s, c) ==
  \/ sessions[s].cont = c
  \/ recovery.cur.id = s /\ recovery.made = c
  \/ \E w \in Clients : (held[w].id = s /\ held[w].cont = c) \/ SentAs(pipeline[w], s, c)

Belongs ==
  \A c \in Conts : /\ \A s, t \in Sessions : Names(s, c) /\ Names(t, c) => s = t
                   /\ box[c] = "none" => \A s \in Sessions : ~Names(s, c)

Outcomes ==
  /\ box \in [Conts -> {"none", "running", "exited", "gone"}]
  /\ reported \in [Sessions -> {"nothing", "healthy", "restarted", "recreated", "failed", "removed"}]
  /\ harmed \subseteq Sessions

Untouched(v) == v = Stored(v.id) /\ v.cont \in Conts /\ v.id \in Sessions /\ reported[v.id] = "nothing"

Recovering ==
  /\ recovery.phase \in {"up", "discover"} =>
        recovery.todo = {} /\ \A s \in Sessions : reported[s] = "nothing"
  /\ \A v \in recovery.todo : Untouched(v) /\ v.id # recovery.cur.id
  /\ recovery.phase \in {"create", "start", "update", "fail"} => Untouched(recovery.cur)
  /\ recovery.phase = "fail" => clock > recovery.cur.exp
  /\ recovery.phase \in {"start", "update"} => recovery.made # None
  /\ recovery.phase \in {"create", "fail"} => recovery.made = None
  /\ recovery.phase \in {"up", "discover", "next", "done"} => recovery.made = None /\ recovery.cur = NoCopy
  /\ recovery.phase \in {"update", "wait"} /\ recovery.made # None => box[recovery.made] = "running"
  /\ recovery.phase # "up" => \A w \in Clients : pipeline[w] # <<>> => w = Service

\* The deletion is still to come, or the new container to be written.
Deletes(p) == p # <<>> /\ p[Len(p)].cmd \in {"lookup", "del"}
Waiting ==
  recovery.phase = "wait" =>
      LET p == pipeline[Service]
          s == recovery.cur.id
      IN  /\ s \in Sessions /\ reported[s] = "nothing" /\ recovery.cur.exp = sessions[s].exp
          /\ \A i \in 1..Len(p) :
                /\ p[i].on.id = s /\ p[i].on.exp = sessions[s].exp
                /\ p[i].cmd = "setex" => recovery.made # None /\ p[i].on.cont = recovery.made
          /\ \/ s \in harmed \/ Deletes(p) \/ ~Live(sessions[s])
             \/ recovery.made # None /\ (sessions[s].cont = recovery.made \/ (p # <<>> /\ p[1].cmd = "setex"))

Recorded ==
  \A s \in Sessions :
      \/ reported[s] = "nothing" \/ s \in harmed \/ ~Live(sessions[s])
      \/ LET c == sessions[s].cont
         IN  c \in Conts /\ (box[c] = "running" \/ (reported[s] # "recreated" /\ box[c] = "exited"))

RecIInv == Outcomes /\ Belongs /\ Recovering /\ Waiting /\ Recorded

(* What the calls send: a list about one session. *)
Of(q, v) == q # <<>> /\ \A i \in 1..Len(q) : q[i].on = v
Removal(q, v) == Of(q, v) /\ Deletes(q) /\ \A i \in 1..Len(q) : q[i].cmd # "setex"

LEMMA Calls ==
  ASSUME NEW v
  PROVE  /\ Removal(<<Command("lookup", v, 0)>>, v)
         /\ LET q == UpdateCommands(v) IN Removal(q, v) \/ (Of(q, v) /\ q[1].cmd = "setex")
         /\ Removal(DeleteCommands(v), v) \/ Removal(DeleteCommands(v), Stored(v.id))
         /\ \A t, u : Of(<<Command("setex", v, t), Command("sadd", v, 0), Command("expire", v, u)>>, v)
<1>1. ASSUME NEW a, NEW b, NEW c, NEW x, a.on = x, b.on = x, c.on = x
      PROVE  /\ Of(<<a>>, x) /\ Of(<<a, b>>, x) /\ Of(<<a, b, c>>, x)
             /\ a.cmd \in {"lookup", "del"} => Removal(<<a>>, x)
             /\ a.cmd # "setex" /\ b.cmd = "del" => Removal(<<a, b>>, x)
             /\ a.cmd # "setex" /\ b.cmd # "setex" /\ c.cmd = "del" => Removal(<<a, b, c>>, x)
  BY <1>1 DEF Of, Removal, Deletes
<1>3. Removal(DeleteCommands(v), v) \/ Removal(DeleteCommands(v), Stored(v.id))
  <2>1. PICK x, a, b, c, d :
            /\ x = Stored(v.id) /\ a = Command("srem", x, 0) /\ b = Command("mapdel", x, 0) /\ c = Command("del", x, 0)
            /\ d = Command("del", v, 0)
    OBVIOUS
  <2>a. /\ a.on = x /\ b.on = x /\ c.on = x /\ d.on = v
        /\ a.cmd = "srem" /\ b.cmd = "mapdel" /\ c.cmd = "del" /\ d.cmd = "del"
    BY <2>1 DEF Command
  <2> QED BY <2>1, <1>1, <2>a DEF DeleteCommands
<1>4. ASSUME NEW t, NEW u
      PROVE  /\ Of(<<Command("setex", v, t), Command("sadd", v, 0), Command("expire", v, u)>>, v)
             /\ Removal(<<Command("lookup", v, 0)>>, v)
             /\ LET q == UpdateCommands(v) IN Removal(q, v) \/ (Of(q, v) /\ q[1].cmd = "setex")
  <2>1. PICK ttl, a, b, c, d, e, f, g :
            /\ ttl = Lesser(v.exp - clock, MaxLife) /\ a = Command("setex", v, ttl)
            /\ b = Command("expire", v, ttl + Buffer) /\ c = Command("mapex", v, ttl) /\ d = Command("lookup", v, 0)
            /\ e = Command("setex", v, t) /\ f = Command("sadd", v, 0) /\ g = Command("expire", v, u)
    OBVIOUS
  <2>2. \A k \in {a, b, c, d, e, f, g} : k.on = v
    BY <2>1 DEF Command
  <2>3. a.cmd = "setex" /\ d.cmd = "lookup" /\ UpdateCommands(v) \in {<<d>>, <<a, b>>, <<a, b, c>>}
    BY <2>1 DEF UpdateCommands, Command
  <2>4. Removal(<<d>>, v) /\ Of(<<a, b>>, v) /\ Of(<<a, b, c>>, v) /\ Of(<<e, f, g>>, v)
    BY <1>1, <2>2, <2>3
  <2> QED BY <2>1, <2>3, <2>4
<1> QED BY <1>3, <1>4

(* What one command leaves its client to run, and what it does to the keys. *)
Follows(r, p, s) ==
  \A i \in 1..Len(r) : r[i].cmd # "setex" /\ (r[i].on = Stored(s) \/ \E j \in 1..Len(p) : r[i].on = p[j].on)

Changes(x, v) ==
  IF v.cmd = "setex" THEN sessions'[x].exp = v.on.exp /\ sessions'[x].cont = v.on.cont
  ELSE /\ sessions'[x].until \in {0, sessions[x].until}
       /\ sessions'[x].exp = sessions[x].exp /\ sessions'[x].cont = sessions[x].cont

LEMMA Ran ==
  ASSUME SessionIInv, NEW w \in Clients, RunCommand(w), NEW p, p = pipeline[w], NEW s, s = p[1].on.id,
         NEW r, r = pipeline'[w]
  PROVE  /\ p # <<>> /\ 1 \in 1..Len(p) /\ s \in Sessions /\ UNCHANGED <<clock, held>>
         /\ pipeline' = [pipeline EXCEPT ![w] = r] /\ Follows(r, p, s)
         /\ Deletes(p) => Deletes(r) \/ sessions'[s].until = 0
         /\ \A t \in Sessions \ {s} : sessions'[t] = sessions[t]
         /\ Changes(s, p[1])
<1> DEFINE h == p[1]
           q == Tail(p)
<1>1. /\ p # <<>> /\ PipelineOK(p) /\ pipeline \in [Clients -> Seq(Commands)] /\ sessions \in [Sessions -> Keys]
      /\ UNCHANGED <<clock, held>>
  BY RunKeeps DEF SessionIInv, StoreFacts, StoreTyped, PipelinesOK
<1>2. /\ Head(p) = h /\ h.on.id = s /\ s \in Sessions /\ 1 \in 1..Len(p)
      /\ \A i \in 1..Len(q) : i + 1 \in 1..Len(p) /\ q[i] = p[i + 1] /\ q[i].cmd # "setex"
      /\ Len(p) = 1 \/ (q # <<>> /\ q[Len(q)] = p[Len(p)])
  BY <1>1, TailOK DEF CommandOK
<1>5. On(w) = h.on /\ \A c : Runs(w, c) => h.cmd = c
  BY <1>2 DEF On, Runs
<1> HIDE DEF q, h
<1> HIDE DEF Follows
<1>7. CASE RunLookup(w)
  <2>1. PICK d : d = DeleteCommands(h.on)
    OBVIOUS
  <2>2. (Removal(d, h.on) \/ Removal(d, Stored(s))) /\ Send(w, d) /\ UNCHANGED sessions /\ h.cmd = "lookup"
    BY <1>2, <1>5, <1>7, <2>1, Calls DEF RunLookup
  <2> QED BY <1>1, <1>2, <2>2 DEF h, Send, Removal, Of, Follows, Changes
<1>8. CASE ~RunLookup(w)
  <2>1. pipeline' = [pipeline EXCEPT ![w] = q] /\ h.cmd # "lookup"
    BY <1>1, <1>2, <1>5, <1>8 DEF RunCommand, RunSetEx, RunSAdd, RunExpire, RunMapEx, RunSRem, RunMapDel, RunDel,
      Advance, Send, q
  <2>2. CASE RunSetEx(w)
    BY <1>2, <1>5, <2>2, <1>1, <2>1 DEF RunSetEx, Changes, h, Deletes, Follows
  <2>3. CASE RunDel(w)
    <3>1. PICK e : e = [sessions[s] EXCEPT !.until = 0]
      OBVIOUS
    <3> QED BY <1>1, <1>2, <2>1, <1>5, <2>3, <3>1 DEF Changes, h, Keys, RunDel, Deletes, Follows
  <2>4. CASE UNCHANGED sessions /\ h.cmd \notin {"lookup", "setex", "del"}
    BY <1>1, <1>2, <2>1, <2>4 DEF Changes, h, Deletes, Follows
  <2> QED BY <1>5, <1>8, <2>2, <2>3, <2>4 DEF RunCommand, RunSAdd, RunExpire, RunMapEx, RunSRem, RunMapDel
<1> QED BY <1>7, <1>8

(* No command makes a container a session's that was not. *)
LEMMA RunNames ==
  ASSUME SessionIInv, NEW w \in Clients, RunCommand(w), UNCHANGED recovery
  PROVE  \A s \in Sessions, c \in Conts : Names(s, c)' => Names(s, c)
<1> PICK p, s, r : p = pipeline[w] /\ s = p[1].on.id /\ r = pipeline'[w]
  OBVIOUS
<1>1. /\ 1 \in 1..Len(p) /\ s \in Sessions /\ UNCHANGED held /\ pipeline' = [pipeline EXCEPT ![w] = r]
      /\ Follows(r, p, s) /\ \A t \in Sessions \ {s} : sessions'[t] = sessions[t]
      /\ sessions'[s].cont \in {sessions[s].cont, p[1].on.cont}
  BY Ran DEF Changes
<1>3. ASSUME NEW t, NEW c, SentAs(r, t, c) PROVE SentAs(p, t, c) \/ (t = s /\ sessions[t].cont = c)
  BY <1>1, <1>3 DEF SentAs, Follows, Stored
<1>4. SentAs(p, s, p[1].on.cont)
  BY <1>1 DEF SentAs
<1> QED BY <1>1, <1>3, <1>4 DEF Names, SessionIInv, StoreFacts, PipelinesOK

LEMMA Typed ==
  ASSUME SessionIInv
  PROVE  /\ clock \in Nat /\ sessions \in [Sessions -> Keys] /\ pipeline \in [Clients -> Seq(Commands)]
         /\ \A w \in Clients : PipelineOK(pipeline[w])
         /\ held \in [Clients -> Copies] /\ Service \in Clients /\ None \notin Sessions \cup Conts /\ NoCopy.id = None /\ NoCopy.cont = None
         /\ recovery \in [phase : Phases, todo : SUBSET Copies, cur : Copies, made : Conts \cup {None}] /\ MaxFaults \in Nat
  BY StoreAssumption, RecoveryAssumption DEF SessionIInv, StoreFacts, StoreTyped, PipelinesOK, CopyFacts, NoCopy

LEMMA Commanding == ASSUME Known, RecIInv, RunService PROVE RecIInv'
<1> PICK p, r, s : p = pipeline[Service] /\ r = pipeline'[Service] /\ s = p[1].on.id
  OBVIOUS
<1>1. SessionIInv /\ Service \in Clients /\ RunCommand(Service) /\ UNCHANGED <<box, recovery, reported, harmed>>
      /\ clock \in Nat
  BY Typed DEF Known, RunService
<1>2. /\ p # <<>> /\ 1 \in 1..Len(p) /\ s \in Sessions /\ UNCHANGED <<clock, held>>
      /\ pipeline' = [pipeline EXCEPT ![Service] = r] /\ Follows(r, p, s)
      /\ Deletes(p) => Deletes(r) \/ sessions'[s].until = 0
      /\ \A t \in Sessions \ {s} : sessions'[t] = sessions[t]
      /\ Changes(s, p[1])
  BY <1>1, Ran
<1>3. /\ recovery.phase = "wait" /\ s = recovery.cur.id /\ reported[s] = "nothing" /\ recovery.cur.exp = sessions[s].exp
      /\ \A i \in 1..Len(p) : p[i].on.id = s /\ p[i].on.exp = sessions[s].exp
      /\ p[1].cmd = "setex" => recovery.made # None /\ p[1].on.cont = recovery.made
      /\ \/ s \in harmed \/ Deletes(p) \/ ~Live(sessions[s])
         \/ recovery.made # None /\ (sessions[s].cont = recovery.made \/ p[1].cmd = "setex")
  BY <1>1, <1>2 DEF Known, ServiceIdle, RecIInv, Waiting
<1>8. Recorded'
  BY <1>1, <1>2, <1>3 DEF RecIInv, Recorded, Live
<1>9. Waiting'
  <2>2. \A i \in 1..Len(r) : r[i].on.id = s /\ r[i].on.exp = sessions'[s].exp /\ r[i].cmd # "setex"
    BY <1>2, <1>3 DEF Follows, Stored, Changes
  <2>3. \/ s \in harmed \/ Deletes(r) \/ ~Live(sessions[s])'
        \/ recovery.made # None /\ sessions'[s].cont = recovery.made
    <3>1. sessions'[s].until = 0 => ~Live(sessions[s])'
      BY <1>1, <1>2, SMT DEF Live
    <3> QED BY <1>1, <1>2, <1>3, <3>1 DEF Changes, Live
  <2> QED BY <1>1, <1>2, <1>3, Typed, <2>2, <2>3 DEF Waiting, Changes
<1> QED BY <1>1, RunNames, <1>2, <1>3, Typed, <1>8, <1>9 DEF RecIInv, Outcomes, Recovering, Untouched, Stored, Belongs

(* Before the restart: at most one container is started and written down. *)
LEMMA UpStep ==
  ASSUME RecIInv, recovery.phase = "up", UNCHANGED <<recovery, reported, harmed>>, NEW v,
         \A t \in Sessions, c \in Conts : Names(t, c)' => Names(t, c) \/ (t = v.id /\ c = v.cont),
         \/ UNCHANGED box /\ (v.cont \notin Conts \/ Names(v.id, v.cont))
         \/ v.cont \in Conts /\ box[v.cont] = "none" /\ box' = [box EXCEPT ![v.cont] = "running"]
  PROVE  RecIInv'
  BY DEF RecIInv, Belongs, Outcomes, Recovering, Waiting, Recorded

LEMMA Sending ==
  ASSUME Known, NEW w \in Clients, NEW v, NEW q, Of(q, v), Send(w, q),
         UNCHANGED <<sessions, recovery.cur, recovery.made>>, held' \in {held, [held EXCEPT ![w] = v]}
  PROVE  /\ \A x \in Clients : pipeline'[x] = IF x = w THEN q ELSE pipeline[x]
         /\ \A t \in Sessions, c \in Conts : Names(t, c)' => Names(t, c) \/ (t = v.id /\ c = v.cont)
  BY Typed DEF Known, Send, Of, SentAs, Names

LEMMA Serving == ASSUME Known, RecIInv, NEW w \in Servers, Serve(w) PROVE RecIInv'
<1>2. ASSUME NEW v, NEW q, Of(q, v), Send(w, q), UNCHANGED sessions, held' \in {held, [held EXCEPT ![w] = v]},
             \/ UNCHANGED box /\ (v.cont = None \/ Names(v.id, v.cont))
             \/ v.cont \in Conts /\ box[v.cont] = "none" /\ box' = [box EXCEPT ![v.cont] = "running"]
      PROVE  RecIInv'
  BY Typed, <1>2, Sending, UpStep DEF Known, Serve, Servers
<1>3. ASSUME \A t \in Sessions, c \in Conts : Names(t, c)' => Names(t, c), UNCHANGED box PROVE RecIInv'
  BY Typed, <1>3, UpStep DEF Known, Serve, Servers
<1>4. ASSUME NEW s \in Sessions, CreateSession(w, s), UNCHANGED box PROVE RecIInv'
  <2> PICK v, t, u : v.cont = None /\ held' = [held EXCEPT ![w] = v] /\ UNCHANGED sessions
                     /\ Send(w, <<Command("setex", v, t), Command("sadd", v, 0), Command("expire", v, u)>>)
    BY <1>4 DEF CreateSession
  <2> QED BY <1>2, <1>4, Calls
<1>5. ASSUME NEW s \in Sessions, GetSession(w, s), UNCHANGED box PROVE RecIInv'
  BY Typed, <1>5, <1>3 DEF GetSession, Names, SentAs, Stored, Known, Serve, Servers
<1>6. ASSUME DeleteSession(w), UNCHANGED box PROVE RecIInv'
  BY Typed, <1>2, <1>6, Calls DEF Names, DeleteSession, Removal, Known, Serve, Servers
<1>7. ASSUME RunCommand(w), UNCHANGED box PROVE RecIInv'
  BY Typed, <1>3, <1>7, RunNames DEF Known, Serve, Servers
<1>8. ASSUME NEW ext \in Extensions, NEW c \in Conts \cup {None}, UpdateSession(w, ext, c),
             c # None => box[c] = "none" \/ c = held[w].cont,
             box' = IF c # None /\ box[c] = "none" THEN [box EXCEPT ![c] = "running"] ELSE box
      PROVE  RecIInv'
  <2> PICK v : v = [held[w] EXCEPT !.exp = @ + ext, !.cont = c]
    OBVIOUS
  <2>1. v.id = held[w].id /\ v.cont = c /\ (c = held[w].cont => Names(v.id, c))
    BY Typed DEF Copies, Names, Known, Serve, Servers
  <2>3. Of(UpdateCommands(v), v)
    BY Calls DEF Removal
  <2> QED BY <1>2, <1>8, <2>1, <2>3 DEF UpdateSession
<1> QED BY <1>4, <1>5, <1>6, <1>7, <1>8 DEF Serve

LEMMA Cleared == ~Deletes(<<>>) /\ \A s, c : ~SentAs(<<>>, s, c)
  BY DEF Deletes, SentAs

LEMMA Worsened ==
  /\ Fault => harmed' = harmed \cup {recovery.cur.id}
  /\ \A s : FaultIn(s) => harmed' = harmed \cup {s}
  BY DEF Fault, FaultIn

LEMMA Breaking ==
  ASSUME Known, RecIInv, NEW w \in Clients, Disconnect(w), UNCHANGED <<box, recovery, reported>>,
         (w # Service /\ UNCHANGED harmed) \/ (w = Service /\ Fault)
  PROVE  RecIInv'
<1>1. /\ pipeline[w] # <<>> /\ UNCHANGED <<clock, sessions>> /\ Service \in Clients
      /\ \A x \in Clients : pipeline'[x] = IF x = w THEN <<>> ELSE pipeline[x]
      /\ \A x \in Clients : held'[x] \in {held[x], NoCopy}
  BY Typed DEF Known, Disconnect, Ready
<1>2. \A t \in Sessions, c \in Conts : Names(t, c)' => Names(t, c)
  BY <1>1, Typed, Cleared DEF Names, Known
<1>3. CASE w # Service
  BY <1>1, <1>2, <1>3, UpStep, Typed DEF RecIInv, Recovering, Known
<1>4. CASE w = Service
  <2>1. harmed' = harmed \cup {recovery.cur.id} /\ recovery.phase = "wait" /\ recovery.cur.id \in Sessions
    BY <1>1, <1>4, Typed, Worsened DEF Known, ServiceIdle, RecIInv, Waiting
  <2>2. Waiting' /\ Recorded'
    BY <1>1, <1>4, <2>1 DEF RecIInv, Waiting, Recorded, Live
  <2> QED BY <1>1, <1>2, <1>4, <2>1, <2>2 DEF RecIInv, Outcomes, Belongs, Recovering, Untouched, Stored
<1> QED BY <1>3, <1>4

LEMMA Restarting == ASSUME Known, RecIInv, Restart PROVE RecIInv'
  BY Typed, Cleared DEF RecIInv, Outcomes, Restart, Enter, Known, Names, Belongs, Recovering, Waiting, Recorded

LEMMA Ticking == ASSUME Known, RecIInv, RecoveryTick PROVE RecIInv'
<1>1. /\ UNCHANGED <<pipeline, recovery, box, reported, harmed>> /\ UNCHANGED sessions
      /\ \A s \in Sessions : Live(sessions[s])' => Live(sessions[s])
  BY Typed DEF Live, Known, Keys, RecoveryTick, StoreTick
<1>2. Waiting'
  BY <1>1 DEF RecIInv, Waiting, Deletes
<1>3. Recorded'
  BY <1>1 DEF RecIInv, Recorded
<1>5. Waiting' /\ Recorded'
  BY <1>2, <1>3
<1> QED BY Typed, <1>5 DEF RecIInv, Recovering, Untouched, Stored, Known, Copies, RecoveryTick, StoreTick, Belongs,
    Names, SentAs, Outcomes

(* The service's steps that leave the store alone. *)
LEMMA Serviced ==
  ASSUME Known, Known', RecIInv, Discover \/ Finish \/ Assess \/ Recreate \/ Start \/ Report PROVE RecIInv'
<1>1. /\ UNCHANGED <<clock, sessions, pipeline, held>> /\ Service \in Clients /\ NoCopy.id \notin Sessions
      /\ recovery \in [phase : Phases, todo : SUBSET Copies, cur : Copies, made : Conts \cup {None}]
      /\ recovery'.made \in Conts \cup {None} /\ None \notin Sessions \cup Conts
      /\ recovery.phase # "up" /\ recovery.phase \in Phases
      /\ recovery.phase = "wait" \/ \A w \in Clients : pipeline[w] = <<>>
  BY Typed DEF RecIInv, Outcomes, Recovering, Known, ServiceIdle, Discover, Finish, Assess, Recreate, Start, Report,
    storeVars, SessionIInv, CopyFacts
<1>2. /\ \A s : Stored(s)' = Stored(s) /\ (Live(sessions[s])' <=> Live(sessions[s]))
      /\ \A t, c : Names(t, c)' => Names(t, c) \/ (t = recovery'.cur.id /\ c = recovery'.made)
  BY <1>1 DEF Stored, Live, Names, SentAs
<1>3. CASE Discover
  <2> DEFINE td == {Stored(s) : s \in {t \in Listed : sessions[t].cont # None}}
  <2>1. \A v \in td : v = Stored(v.id) /\ v.id \in Sessions /\ v.cont \in Conts
    BY Typed, RecoveryAssumption DEF Stored, Listed, Keys, Sets, Known, SessionIInv, StoreFacts, StoreTyped
  <2>2. recovery' = [recovery EXCEPT !.phase = "next", !.todo = td] /\ UNCHANGED <<box, reported, harmed>>
        /\ recovery.phase = "discover"
    BY <1>3 DEF Discover
  <2> HIDE DEF td
  <2> QED BY <1>1, <1>2, <2>1, <2>2 DEF RecIInv, Outcomes, Belongs, Waiting, Recorded, Recovering, Untouched
<1>4. CASE Finish
  BY <1>1, <1>4, <1>2 DEF Finish, Enter, RecIInv, Outcomes, Belongs, Waiting, Recorded, Recovering
<1>5. ASSUME NEW what \in {"healthy", "restarted", "recreated", "failed", "removed"}, NEW s \in Sessions,
             recovery'.phase = "next", recovery'.cur = NoCopy, recovery'.made = None,
             \A v \in recovery'.todo : v \in recovery.todo /\ v.id # s,
             reported' = [reported EXCEPT ![s] = what], UNCHANGED box,
             harmed \subseteq harmed' /\ harmed' \subseteq Sessions,
             \/ s \in harmed' \/ ~Live(sessions[s])
             \/ LET c == sessions[s].cont
                IN  c \in Conts /\ (box[c] = "running" \/ (what # "recreated" /\ box[c] = "exited")),
             \A w \in Clients : pipeline[w] = <<>>
      PROVE  RecIInv'
  BY <1>1, <1>2, <1>5 DEF RecIInv, Outcomes, Waiting, Belongs, Recorded, Recovering, Untouched
<1>6. ASSUME Fault, Answer(recovery.cur.id, "failed"), UNCHANGED box, recovery.phase \in {"create", "start"} PROVE RecIInv'
  <2>1. recovery.cur.id \in harmed' /\ recovery.cur.id \in Sessions /\ harmed \subseteq harmed' /\ harmed' \subseteq Sessions
        /\ (\A v \in recovery.todo : v.id # recovery.cur.id) /\ (\A w \in Clients : pipeline[w] = <<>>)
    BY <1>1, <1>6, Worsened DEF RecIInv, Outcomes, Recovering, Untouched
  <2>2. recovery'.phase = "next" /\ recovery'.cur = NoCopy /\ recovery'.made = None
        /\ recovery'.todo = recovery.todo /\ reported' = [reported EXCEPT ![recovery.cur.id] = "failed"]
    BY <1>1, <1>6 DEF Answer
  <2> QED BY <1>5, <1>6, <2>1, <2>2
<1>7. CASE Recreate
  <2>1. ASSUME NEW c \in Conts, box[c] = "none", box' = [box EXCEPT ![c] = "exited"], UNCHANGED <<reported, harmed>>,
               recovery' = [recovery EXCEPT !.phase = "start", !.made = c], recovery.phase = "create"
        PROVE  RecIInv'
    BY <1>1, <2>1, <1>2 DEF RecIInv, Outcomes, Waiting, Belongs, Recorded, Recovering, Untouched
  <2> QED BY <1>6, <1>7, <2>1 DEF Recreate
<1>8. CASE Start
  BY <1>1, <1>2, <1>6, <1>8 DEF RecIInv, Recovering, Outcomes, Waiting, Belongs, Names, Recorded, Untouched, Start, Enter
<1>9. CASE Report
  <2> PICK s : s = recovery.cur.id
    OBVIOUS
  <2>2. /\ s \in Sessions /\ (\A v \in recovery.todo : v.id # s) /\ (\A w \in Clients : pipeline[w] = <<>>)
        /\ \/ s \in harmed \/ ~Live(sessions[s])
           \/ recovery.made \in Conts /\ sessions[s].cont = recovery.made /\ box[recovery.made] = "running"
    BY <1>1, <1>9, Cleared DEF RecIInv, Recovering, Waiting, Report, Ready
  <2>4. harmed \subseteq harmed' /\ harmed' \subseteq Sessions
    BY <1>9 DEF Report, RecIInv, Outcomes
  <2>5. LET c == sessions[s].cont IN s \in harmed \/ ~Live(sessions[s]) \/ (c \in Conts /\ box[c] = "running")
    BY <2>2
  <2>6. PICK what \in {"recreated", "removed"} :
            /\ recovery'.phase = "next" /\ recovery'.cur = NoCopy /\ recovery'.made = None
            /\ recovery'.todo = recovery.todo /\ reported' = [reported EXCEPT ![s] = what] /\ UNCHANGED box
    BY <1>1, <1>9 DEF Answer, Report
  <2> QED BY <1>5, <2>2, <2>4, <2>5, <2>6
<1>10. ASSUME NEW v \in recovery.todo, NEW found \in BOOLEAN, recovery.phase = "next", UNCHANGED box,
              IF found = Exists(v) THEN UNCHANGED harmed ELSE ~found /\ FaultIn(v.id),
              IF found /\ clock <= v.exp
               THEN /\ recovery' = [recovery EXCEPT !.todo = recovery.todo \ {v}]
                    /\ reported' = [reported EXCEPT ![v.id] =
                           IF box[v.cont] = "running" THEN "healthy" ELSE "restarted"]
               ELSE /\ recovery' = [recovery EXCEPT !.todo = recovery.todo \ {v}, !.cur = v, !.phase = Remedy(v)]
                    /\ UNCHANGED reported
       PROVE  RecIInv'
  <2>1. /\ Untouched(v) /\ v = Stored(v.id) /\ v.id \in Sessions /\ v.cont = sessions[v.id].cont /\ v.cont \in Conts
        /\ \A x \in recovery.todo \ {v} : x.id # v.id
        /\ recovery.cur = NoCopy /\ recovery.made = None /\ \A w \in Clients : pipeline[w] = <<>>
    BY <1>1, <1>10 DEF RecIInv, Recovering, Untouched, Stored
  <2>2. harmed \subseteq harmed' /\ harmed' \subseteq Sessions
    BY <1>10, <2>1, Worsened DEF RecIInv, Outcomes
  <2>3. CASE found /\ clock <= v.exp
    <3>2. box[v.cont] \in {"running", "exited"}
      BY <1>10, <2>3 DEF Exists
    <3> QED BY <1>5, <1>10, <2>1, <2>2, <2>3, <1>1, <3>2
  <2>4. CASE ~(found /\ clock <= v.exp)
    <3>1. recovery'.phase = Remedy(v) /\ recovery'.todo = recovery.todo \ {v} /\ recovery'.cur = v
          /\ recovery'.made = None /\ UNCHANGED reported
      BY <1>1, <1>10, <2>1, <2>4
    <3> QED BY <1>1, <1>2, <1>10, <2>1, <2>2, <3>1 DEF RecIInv, Outcomes, Waiting, Remedy, Belongs, Recorded,
        Recovering, Untouched
  <2> QED BY <2>3, <2>4
<1>11. CASE Assess
  BY <1>10, <1>11 DEF Assess
<1> QED BY <1>3, <1>4, <1>7, <1>8, <1>9, <1>11

LEMMA Asking == ASSUME Known, RecIInv, Update \/ MarkAsFailed PROVE RecIInv'
<1> PICK cur : cur = recovery.cur
  OBVIOUS
<1>1. /\ Service \in Clients /\ None \notin Sessions \cup Conts /\ clock \in Nat /\ cur = recovery.cur
      /\ cur.id \in Sessions /\ cur = Stored(cur.id) /\ cur.cont \in Conts
      /\ cur \in Copies /\ reported[cur.id] = "nothing" /\ recovery.made \in Conts \cup {None}
      /\ \A x \in Clients : pipeline[x] = <<>>
      /\ UNCHANGED <<clock, sessions, held, reported, harmed>>
      /\ recovery' = [recovery EXCEPT !.phase = "wait"] /\ recovery.phase \in {"update", "fail"}
      /\ recovery.phase = "update" => UNCHANGED box /\ recovery.made # None /\ box[recovery.made] = "running"
  BY Typed DEF RecIInv, Recovering, Untouched, Update, MarkAsFailed, Enter, Known, ServiceIdle
<1>2. PICK v, q : /\ Send(Service, q) /\ v.id = cur.id /\ v.exp = cur.exp
                  /\ Of(q, v) /\ (Removal(q, v) \/ (q[1].cmd = "setex" /\ recovery.phase = "update"))
                  /\ v.cont = IF recovery.phase = "update" THEN recovery.made ELSE cur.cont
  <2>1. CASE Update
    <3> PICK v : v = [cur EXCEPT !.cont = recovery.made]
      OBVIOUS
    <3>1. v.id = cur.id /\ v.exp = cur.exp /\ v.cont = recovery.made
      BY <1>1 DEF Copies
    <3> QED BY <3>1, <1>1, <2>1, Calls DEF Removal, Update
  <2>2. CASE MarkAsFailed
    BY <1>1, <2>2, Calls DEF MarkAsFailed, Removal
  <2> QED BY <2>1, <2>2
<1>4. /\ \A x \in Clients : pipeline'[x] = IF x = Service THEN q ELSE pipeline[x]
      /\ \A t \in Sessions, c \in Conts : Names(t, c)' => Names(t, c) \/ (t = v.id /\ c = v.cont)
  BY <1>1, <1>2, Typed, Sending DEF Known
<1>5. Names(v.id, v.cont) /\ Names(v.id, cur.cont)
  BY <1>1, <1>2 DEF Names, Stored
<1>7. Outcomes' /\ Belongs'
  BY <1>1, <1>2, Typed, <1>4, <1>5 DEF RecIInv, Outcomes, Belongs, Update, MarkAsFailed, Known
<1>8. Recovering'
  BY <1>1, Typed, <1>4 DEF RecIInv, Recovering, Untouched, Stored, Outcomes, Update, MarkAsFailed, Known
<1>10. Waiting'
  BY <1>1, <1>2, Typed, <1>4 DEF Stored, Waiting, Removal, Of, RecIInv, Recovering, Known
<1> QED BY <1>7, <1>8, <1>1, <1>2, <1>5, <1>10 DEF RecIInv, Belongs, Names, Recorded, Live, Outcomes, Update, MarkAsFailed

LEMMA RecStart == RecoveryInit => RecIInv
<1> SUFFICES ASSUME RecoveryInit PROVE RecIInv
  OBVIOUS
<1> USE DEF RecoveryInit, StoreInit, Nothing, NoCopy, NoSession
<1> QED BY StoreAssumption, Cleared, RecoveryAssumption DEF RecIInv, Outcomes, Recovering, Waiting, Recorded, Belongs, Names

LEMMA RecNext == Known /\ RecIInv /\ [RecoveryNext]_recoveryVars => RecIInv'
<1> SUFFICES ASSUME Known, RecIInv, [RecoveryNext]_recoveryVars PROVE RecIInv'
  OBVIOUS
<1>1. ASSUME UNCHANGED recoveryVars PROVE RecIInv'
  <2>2. Waiting' /\ Recorded'
    BY <1>1 DEF RecIInv, Waiting, Recorded, Live, Deletes, recoveryVars, storeVars
  <2> QED BY <1>1, <2>2 DEF RecIInv, Outcomes, Belongs, Names, SentAs, Recovering, Untouched, Stored, recoveryVars,
      storeVars
<1>2. ASSUME NEW w \in Servers, Disconnect(w), UNCHANGED <<box, recovery, reported, harmed>> PROVE RecIInv'
  BY <1>2, Breaking DEF Servers
<1>3. ASSUME StoreFails PROVE RecIInv'
  BY <1>3, Breaking, RecoveryAssumption DEF StoreFails
<1> QED BY <1>1, <1>2, <1>3, KnownNext, Serving, Commanding, Restarting, Ticking, Serviced, Asking DEF RecoveryNext

LEMMA RecImplies == Known /\ RecIInv => RecoveryInv
<1> SUFFICES ASSUME Known, RecIInv PROVE RecoveryInv
  OBVIOUS
<1>1. StoreTypeOK
  <2>1. \A w \in Clients, i \in Nat : i \in DOMAIN pipeline[w] => pipeline[w][i].on \in Copies
    BY Typed DEF Known, PipelineOK, CommandOK, CopyOK
  <2> QED BY <2>1 DEF Known, SessionIInv, StoreFacts, StoreTyped, PipelinesOK, CopyFacts, Keys, Sets, Maps,
      StoreTypeOK, Copies
<1> QED BY <1>1, Typed, RecoveryAssumption DEF RecoveryInv, RecIInv, Outcomes, Recorded, RecreatedIsRecorded,
    RecoveredHasContainer, Known, Recovering, Untouched, RecoveryTypeOK, Phases

(* RecoveryInv: every live session that recovery dealt with without a
   failure for it names a container that is there, and that runs if it was made anew. *)
THEOREM RecoveryInvAlways == RecoverySpec => []RecoveryInv
  BY KnownStart, KnownNext, RecStart, RecNext, RecImplies, PTL DEF RecoverySpec

LEMMA StopStep ==
  ASSUME Known, RecIInv, [RecoveryNext]_recoveryVars, NEW c \in Conts, box[c] = "running", box'[c] # "running",
         recovery.phase # "up", NEW s \in Sessions, sessions[s].cont = c
  PROVE  ~Live(sessions[s])
<1>1. MarkAsFailed /\ recovery.cur.cont = c
  BY Typed DEF RecoveryNext, recoveryVars, Serve, Restart, Discover, Finish, Assess, Recreate, Start, Update,
    MarkAsFailed, Report, RunService, StoreFails, RecoveryTick, RecIInv, Outcomes
<1>3. s = recovery.cur.id /\ clock > sessions[s].exp
  BY <1>1 DEF RecIInv, Belongs, Names, Untouched, Stored, MarkAsFailed, Recovering
<1> QED BY <1>3, Typed DEF Live, Known, SessionIInv, StoreFacts, StoreTyped, Keys

(* StopsOnlyExpired: recovery stops no container of a session that lives. *)
THEOREM StopsOnlyExpiredAlways == RecoverySpec => StopsOnlyExpired
<1>1. Known /\ RecIInv /\ [RecoveryNext]_recoveryVars
      => [\A c \in Conts : box[c] = "running" /\ box'[c] # "running" /\ recovery.phase # "up" =>
             \A s \in Sessions : Live(sessions[s]) => sessions[s].cont # c]_recoveryVars
  BY StopStep
<1> QED BY <1>1, KnownStart, KnownNext, RecStart, RecNext, PTL DEF RecoverySpec, StopsOnlyExpired
====
