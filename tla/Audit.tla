---- MODULE Audit ----
(* AuditService (src/audit/service.rs): entries get their time where they
   are built, then reach a bounded store either through a channel and the
   processing task (log_async) or directly (log_sync).  The store is
   therefore not in the order of the times; queries sort and page it. *)
EXTENDS Naturals, Sequences, FiniteSets, SequencesExt

CONSTANTS Loggers,  \* threads that write entries, each for its user
          MaxMemoryLogs,  \* max_memory_logs
          MaxEntries      \* bound on the entries written

ASSUME AuditAssumption == MaxMemoryLogs \in Nat \ {0} /\ MaxEntries \in Nat

VARIABLES
  stamp,   \* Utc::now() of the last entry
  draft,   \* entry a thread has built and not handed in yet; its stamp, or 0
  mailbox, \* the unbounded channel
  logs,    \* AuditStorage::logs, oldest insertion first
  posted   \* history: stamps in the order log_async took them

auditVars == <<stamp, draft, mailbox, logs, posted>>

AuditInit ==
  /\ stamp = 0
  /\ draft = [l \in Loggers |-> 0]
  /\ mailbox = <<>> /\ logs = <<>> /\ posted = <<>>

Entry(l, async) == [at |-> draft[l], user |-> l, async |-> async]

----
AddLogBack(s, e) == IF Len(s) >= MaxMemoryLogs THEN Append(Front(s), e) ELSE Append(s, e) \* the defect: pop_back
AddLog(s, e) == IF Len(s) >= MaxMemoryLogs THEN Append(Tail(s), e) ELSE Append(s, e)

WriteEntry(l) ==
  /\ draft[l] = 0 /\ stamp < MaxEntries
  /\ stamp' = stamp + 1
  /\ draft' = [draft EXCEPT ![l] = stamp + 1]
  /\ UNCHANGED <<mailbox, logs, posted>>

LogAsync(l) ==
  /\ draft[l] # 0
  /\ mailbox' = Append(mailbox, Entry(l, TRUE))
  /\ posted' = Append(posted, draft[l])
  /\ draft' = [draft EXCEPT ![l] = 0]
  /\ UNCHANGED <<stamp, logs>>

LogSync(l) ==
  /\ draft[l] # 0
  /\ logs' = AddLog(logs, Entry(l, FALSE))
  /\ draft' = [draft EXCEPT ![l] = 0]
  /\ UNCHANGED <<stamp, mailbox, posted>>

ProcessLog ==
  /\ mailbox # <<>>
  /\ logs' = AddLog(logs, Head(mailbox))
  /\ mailbox' = Tail(mailbox)
  /\ UNCHANGED <<stamp, draft, posted>>

CleanupOldLogs(keep) ==
  /\ Len(logs) > keep
  /\ logs' = SubSeq(logs, Len(logs) - keep + 1, Len(logs))
  /\ UNCHANGED <<stamp, draft, mailbox, posted>>

AuditNext ==
  \/ \E l \in Loggers : WriteEntry(l) \/ LogAsync(l) \/ LogSync(l)
  \/ ProcessLog
  \/ \E keep \in 0..MaxMemoryLogs : CleanupOldLogs(keep)

----
(* query_logs: filter, a stable sort by time, newest first unless asked
   otherwise, and one page of it. *)
Sorted(users, newestFirst) ==
  SortSeq(SelectSeq(logs, LAMBDA e : e.user \in users),
          LAMBDA a, b : IF newestFirst THEN a.at > b.at ELSE a.at < b.at)

Minimum(a, b) == IF a < b THEN a ELSE b

PageFromZero(s, page, limit) ==  \* the defect: pages taken to start at 0
  SubSeq(s, page * limit + 1, Minimum((page + 1) * limit, Len(s)))
Page(s, page, limit) ==
  LET start == (page - 1) * limit
      end == Minimum(start + limit, Len(s))
  IN  IF start < Len(s) THEN SubSeq(s, start + 1, end) ELSE <<>>

----
AuditTypeOK ==
  /\ stamp \in 0..MaxEntries
  /\ draft \in [Loggers -> 0..MaxEntries]
  /\ Len(logs) <= MaxMemoryLogs
  /\ \A k \in DOMAIN logs : logs[k].at \in 1..stamp /\ logs[k].user \in Loggers

(* What log_async took is stored in the order it was taken, and only the
   oldest of it is ever given up, although log_sync overtakes the channel
   and clean-up runs at any time (add_log 56-61, log_processing_task). *)
OnlyTheOldestGo ==
  LET stored == SelectSeq(logs, LAMBDA e : e.async) \o mailbox
  IN  IsSuffix([k \in DOMAIN stored |-> stored[k].at], posted)

(* Going through the pages gives every matching entry once and in the order
   of time, however the entries reached the store (query_logs 63-90). *)
PagesCoverTheLog ==
  \A users \in SUBSET Loggers, limit \in 1..MaxMemoryLogs :
      LET all == FlattenSeq([p \in 1..MaxMemoryLogs |-> Page(Sorted(users, TRUE), p, limit)])
      IN  /\ \A i, j \in DOMAIN all : i < j => all[i].at > all[j].at
          /\ ToSet(all) = {logs[k] : k \in {k \in DOMAIN logs : logs[k].user \in users}}

(* Nothing but the oldest is missing from the trail, and the pages show it. *)
AuditInv == AuditTypeOK /\ OnlyTheOldestGo /\ PagesCoverTheLog
====
