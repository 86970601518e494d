---- MODULE BillingStorage ----
(* BillingStorage (src/billing/storage.rs): what is billed is written to
   SurrealDB and then, command by command, to Redis: a copy under a key
   that expires, and sorted sets that list keys and do not expire.
   Nothing undoes the commands that went through when one is refused.
   Callers may write an id again (the collector repeats its batches), and
   invoices change their status.  One user.  Times have two instants to
   the second. *)
EXTENDS Integers, FiniteSets, SequencesExt

CONSTANTS Readings,  \* ids of usage metrics
          Summaries,   \* a user and a period, which is the id of a summary
          Invoices,
          BillWriters, \* callers
          Statuses, Draft, \* of an invoice; the one it is created with
          SpanOf,      \* reading -> [session, time]
          Invalid,     \* readings that do not pass validation
          MaxWritten   \* bound: keys that are ever written

ASSUME BillingStorageAssumption ==
  Draft \in Statuses /\ Invalid \subseteq Readings /\ DOMAIN SpanOf = Readings /\ MaxWritten \in Nat

Keys == Readings \cup Summaries \cup Invoices

VARIABLES rows,  \* SurrealDB: the records, and the status of an invoice
          cached,   \* Redis: the copies, and the status of an invoice's copy
          lists,   \* Redis: <<list, key>>
          call,     \* of each caller: the keys it writes, the commands left
          written,  \* the keys a caller has set out to write
  acknowledged, \* history: the keys a caller was told are stored
          outdated  \* invoices with a copy that nobody is going to delete

storageVars == <<rows, cached, lists, call, written, acknowledged, outdated>>

NoCall == [keys |-> {}, cmds |-> <<>>]

StorageInit ==
  /\ rows = [k \in {} |-> Draft] /\ cached = [k \in {} |-> Draft] /\ lists = {}
  /\ call = [w \in BillWriters |-> NoCall]
  /\ written = {} /\ acknowledged = {}
  /\ outdated = {}

SendCommands(w, ks, cmds) ==
  /\ call[w] = NoCall /\ cmds # <<>>
  /\ Cardinality(written \cup ks) <= MaxWritten
  /\ call' = [call EXCEPT ![w] = [keys |-> ks, cmds |-> cmds]]
  /\ written' = written \cup ks
  /\ UNCHANGED <<rows, cached, lists, acknowledged, outdated>>

CreateRow(k) == [op |-> "create", key |-> k]
SetEx(k) == [op |-> "setex", key |-> k]
ZAdd(l, k) == [op |-> "zadd", key |-> k, list |-> l]

----
CopiedForUser(k) == <<SetEx(k), ZAdd("user", k)>>  \* the defect: one list is forgotten
Copied(k) == <<SetEx(k), ZAdd("session", k), ZAdd("user", k)>>

(* The defect: Redis first. *)
StoreMetricCopyFirst(w, k) == k \notin Invalid /\ SendCommands(w, {k}, Copied(k) \o <<CreateRow(k)>>)
StoreMetric(w, k) == k \notin Invalid /\ SendCommands(w, {k}, <<CreateRow(k)>> \o Copied(k))

(* The creations are awaited one by one, then a pipeline does the rest; a
   batch is not validated. *)
StoreMetricsBatch(w, ks) ==
  SendCommands(w, ToSet(ks), [n \in DOMAIN ks |-> CreateRow(ks[n])] \o FlattenSeq([n \in DOMAIN ks |-> Copied(ks[n])]))

StoreUsageSummary(w, k) == SendCommands(w, {k}, <<CreateRow(k), SetEx(k), ZAdd("summaries", k)>>)

(* generate_invoice makes a fresh id for each. *)
StoreInvoice(w, i) ==
  /\ i \notin written
  /\ SendCommands(w, {i}, <<CreateRow(i), SetEx(i), ZAdd("invoices", i), ZAdd("drafts", i)>>)

(* The defect: the copy stays. *)
LeaveCopy(w, i, s) == i \in DOMAIN rows /\ SendCommands(w, {}, <<[op |-> "update", key |-> i, status |-> s]>>)
UpdateInvoiceStatus(w, i, s) ==
  /\ i \in DOMAIN rows
  /\ SendCommands(w, {}, <<[op |-> "update", key |-> i, status |-> s], [op |-> "del", key |-> i]>>)

----
Assign(f, k, v) == [x \in DOMAIN f \cup {k} |-> IF x = k THEN v ELSE f[x]]

(* A copy of the draft is still to be made. *)
BeingWritten(i) == \E w \in BillWriters : SetEx(i) \in ToSet(call[w].cmds)

(* An id is created once.  A caller whose last command went through is
   done, though it may not get to know. *)
Step(w) ==
  /\ call[w].cmds # <<>>
  /\ LET c == Head(call[w].cmds)
         done == Len(call[w].cmds) = 1
     IN  /\ c.op = "create" => c.key \notin DOMAIN rows
         /\ rows' = CASE c.op = "create" -> Assign(rows, c.key, Draft)
                      [] c.op = "update" -> Assign(rows, c.key, c.status)
                      [] OTHER -> rows
         /\ cached' = CASE c.op = "setex" -> Assign(cached, c.key, Draft)
                        [] c.op = "del" -> [k \in DOMAIN cached \ {c.key} |-> cached[k]]
                        [] OTHER -> cached
         /\ lists' = IF c.op = "zadd" THEN lists \cup {<<c.list, c.key>>} ELSE lists
         /\ outdated' = IF c.op = "update" /\ BeingWritten(c.key) THEN outdated \cup {c.key} ELSE outdated
         /\ acknowledged' \in {acknowledged, IF done THEN acknowledged \cup call[w].keys ELSE acknowledged}
         /\ call' = [call EXCEPT ![w] = IF done THEN NoCall ELSE [@ EXCEPT !.cmds = Tail(@)]]
         /\ UNCHANGED written

(* A command is refused, or a connection is lost: what is left is not sent. *)
GiveUp(w) ==
  /\ call[w].cmds # <<>>
  /\ call' = [call EXCEPT ![w] = NoCall]
  /\ outdated' = outdated \cup {i \in Invoices : [op |-> "del", key |-> i] \in ToSet(call[w].cmds)}
  /\ UNCHANGED <<rows, cached, lists, written, acknowledged>>

(* Redis: the time to live of a copy ends. *)
Expire(k) ==
  /\ k \in DOMAIN cached
  /\ cached' = [x \in DOMAIN cached \ {k} |-> cached[x]]
  /\ UNCHANGED <<rows, lists, call, written, acknowledged, outdated>>

StorageNext ==
  \/ \E w \in BillWriters :
        \/ \E k \in Readings : StoreMetric(w, k)
        \/ \E ks \in {SetToSeq(s) : s \in SUBSET Readings} : StoreMetricsBatch(w, ks)
        \/ \E k \in Summaries : StoreUsageSummary(w, k)
        \/ \E i \in Invoices : StoreInvoice(w, i) \/ \E s \in Statuses : UpdateInvoiceStatus(w, i, s)
        \/ Step(w)
        \/ GiveUp(w)
  \/ \E k \in Keys : Expire(k)

StorageSpec == StorageInit /\ [][StorageNext]_storageVars

----
(* get_session_metrics: a listed key whose copy is gone is skipped.  Only a
   copy that cannot be parsed is looked up in the database.  The list is in
   whole seconds, and so are the bounds it is asked for. *)
Second(time) == time \div 2
GetSessionMetrics(s, from, to) ==
  {k \in Readings : /\ <<"session", k>> \in lists /\ SpanOf[k].session = s
                    /\ Second(SpanOf[k].time) \in Second(from)..Second(to)
                    /\ k \in DOMAIN cached}

(* get_user_metrics, which goes to the bill: the result to the first of its
   two queries, the one that has no filter on the kind.  Times are exact. *)
GetUserMetrics(from, to) == {k \in Readings \cap DOMAIN rows : SpanOf[k].time \in from..to}

----
StorageTypeOK ==
  /\ DOMAIN rows \cup DOMAIN cached \subseteq Keys
  /\ \A w \in BillWriters : call[w].keys \subseteq Keys
  /\ acknowledged \subseteq written /\ written \subseteq Keys
  /\ outdated \subseteq Invoices

(* Whatever fails on the way, what a session is shown is billed: no copy
   and no list is ahead of the database.  A session is shown the whole of
   the seconds it asks for, which a bill of these very instants does not
   have (get_session_metrics 206, get_user_metrics 245-250). *)
ShownIsBilled ==
  /\ \A k \in Keys : k \in DOMAIN cached \/ (\E l \in lists : l[2] = k) => k \in DOMAIN rows
  /\ \A s \in {SpanOf[k].session : k \in Readings} :
        \A from, to \in {SpanOf[k].time : k \in Readings} :
           GetSessionMetrics(s, from, to) \subseteq GetUserMetrics(2 * Second(from), 2 * Second(to) + 1)

(* What was once stored with success is billed and can be found for good:
   all its lists have it, whatever became of a second write of its id. *)
StoredIsListed ==
  \A k \in acknowledged :
      /\ k \in DOMAIN rows
      /\ k \in Readings => {<<"session", k>>, <<"user", k>>} \subseteq lists
      /\ k \in Summaries => <<"summaries", k>> \in lists
      /\ k \in Invoices => {<<"invoices", k>>, <<"drafts", k>>} \subseteq lists

(* A copy has the status of its invoice, unless the deletion of the copy is
   under way or was not sent, or the change overtook the first write. *)
CopiesAgree ==
  \A i \in Invoices \cap DOMAIN cached :
      cached[i] # rows[i] =>
          i \in outdated \/ \E w \in BillWriters : [op |-> "del", key |-> i] \in ToSet(call[w].cmds)

StorageInv == StorageTypeOK /\ ShownIsBilled /\ StoredIsListed /\ CopiesAgree
====
