---- MODULE UsageSummaries ----
(* SimpleUsageAggregator (src/billing/simple_aggregator.rs), as invoices
   use it (src/billing/mod.rs): a summary of a user's usage in a period is
   stored when it is first computed, and what is stored is never computed
   again.  One user, one type of metric.  The periodic task skips every
   hour it is given, so it is not here. *)
EXTENDS Naturals, FiniteSets, FiniteSetsExt

CONSTANTS Askers,  \* callers of get_usage_summary and generate_invoice
          LastInstant,  \* bound: instants of time, which begin and end periods
          MaxUsage      \* bound: metrics recorded at an instant, each of value 1

ASSUME UsageSummariesAssumption == {LastInstant, MaxUsage} \subseteq Nat

VARIABLES
  usage,      \* the metrics: instant -> their sum
  summaries,  \* usage_summaries, one per period at most
  asker,      \* a summary that was computed and is about to be stored
  answer,     \* history: the last answer, what it was made of, and what was true then
  belated        \* history: instants with metrics that came after they were summed

usageVars == <<usage, summaries, asker, answer, belated>>

Instants == 0 .. LastInstant
Periods == {p \in Instants \X Instants : p[1] < p[2]}
NoSummary == [period |-> <<0, 0>>, total |-> 0]
NoAnswer == [period |-> <<0, 0>>, total |-> 0, real |-> 0, pieces |-> FALSE]

UsageInit ==
  /\ usage = [t \in Instants |-> 0] /\ summaries = {}
  /\ asker = [a \in Askers |-> NoSummary]
  /\ answer = NoAnswer /\ belated = {}

(* get_user_metrics: both ends belong to the period. *)
Within(p) == {t \in Instants : p[1] <= t /\ t <= p[2]}
Used(p) == MapThenSumSet(LAMBDA t : usage[t], Within(p))

(* get_user_summaries: those that lie in the period. *)
StoredIn(p) == {s \in summaries : p[1] <= s.period[1] /\ s.period[2] <= p[2]}

(* merge_summaries adds them up, whatever of the period they leave out or
   have in common. *)
Merged(p) == MapThenSumSet(LAMBDA s : s.total, StoredIn(p))

Answered(p, n, pieces) == answer' = [period |-> p, total |-> n, real |-> Used(p), pieces |-> pieces]

----
AnswerFromStored(p) ==
  /\ StoredIn(p) # {}
  /\ Answered(p, Merged(p), \E s \in StoredIn(p) : s.period # p)
  /\ UNCHANGED <<usage, summaries, asker, belated>>

(* aggregate_metrics_for_period: what it found is not stored if it is none. *)
Compute(a, p) ==
  /\ asker[a] = NoSummary /\ StoredIn(p) = {}
  /\ Answered(p, Used(p), FALSE)
  /\ asker' = IF Used(p) = 0 THEN asker ELSE [asker EXCEPT ![a] = [period |-> p, total |-> Used(p)]]
  /\ UNCHANGED <<usage, summaries, belated>>

(* The defect: another summary of the period does not stop it. *)
StoreBeside(a) ==
  /\ asker[a] # NoSummary
  /\ \/ summaries' = summaries \cup {asker[a]}
     \/ UNCHANGED summaries
  /\ asker' = [asker EXCEPT ![a] = NoSummary]
  /\ UNCHANGED <<usage, answer, belated>>

(* store_summary creates: it fails if the period has one, or if the
   database does; the answer is given all the same. *)
StoreSummary(a) ==
  /\ asker[a] # NoSummary
  /\ \/ /\ \A s \in summaries : s.period # asker[a].period
        /\ summaries' = summaries \cup {asker[a]}
     \/ UNCHANGED summaries
  /\ asker' = [asker EXCEPT ![a] = NoSummary]
  /\ UNCHANGED <<usage, answer, belated>>

(* A metric is stored, with a time of its own: not before those that were
   summed already. *)
RecordUsage(t) ==
  /\ usage[t] < MaxUsage
  /\ usage' = [usage EXCEPT ![t] = @ + 1]
  /\ belated' = IF \E s \in summaries \cup {asker[a] : a \in Askers} : s # NoSummary /\ t \in Within(s.period)
             THEN belated \cup {t} ELSE belated
  /\ UNCHANGED <<summaries, asker, answer>>

UsageNext ==
  \/ \E t \in Instants : RecordUsage(t)
  \/ \E p \in Periods : AnswerFromStored(p) \/ \E a \in Askers : Compute(a, p)
  \/ \E a \in Askers : StoreSummary(a)

----
UsageTypeOK ==
  /\ usage \in [Instants -> 0 .. MaxUsage] /\ belated \subseteq Instants
  /\ \A s \in summaries : s.period \in Periods /\ s.total \in Nat \ {0}

(* A period has one summary. *)
OneSummaryPerPeriod == Cardinality({s.period : s \in summaries}) = Cardinality(summaries)

(* What is invoiced for a period is what was used in it, unless something
   came late, or summaries of other periods were found: those may cover a
   part of it only, or share instants. *)
InvoicesAreExact ==
  answer.total = answer.real \/ belated \cap Within(answer.period) # {} \/ answer.pieces

(* Lateness alone never makes an invoice too high. *)
LateIsUnderstated == answer.pieces \/ answer.total <= answer.real

(* A stored sum is that of its period, but for what came late. *)
SummariesAreSums ==
  \A s \in summaries :
      /\ s.total <= Used(s.period)
      /\ s.total = Used(s.period) \/ belated \cap Within(s.period) # {}

UsageSummariesInv ==
  UsageTypeOK /\ OneSummaryPerPeriod /\ InvoicesAreExact /\ LateIsUnderstated /\ SummariesAreSums
====
