---- MODULE UsageAggregator ----
(* UsageAggregator (src/billing/usage_aggregator.rs): usage of one user in
   hourly buckets, flushed to Redis as summaries when their hour is over
   or aggregation stops.  Whoever adds to a bucket, or flushes it, keeps
   hold of it outside the lock of the map.  Time goes in half hours.  The
   stream the metrics are read from is external: add_metric is the input. *)
EXTENDS Naturals, FiniteSets, FiniteSetsExt

CONSTANTS Adders,  \* tasks in add_metric
          Timers,     \* flush tasks alive at a time
          Stopper,    \* the caller of stop_aggregation
          Periods,    \* what get_usage_summary is asked: <<from, to>>
          MaxHalf, MaxUses  \* bounds on the time and on the metrics

ASSUME AggregatorAssumption == MaxHalf \in Nat /\ MaxUses \in Nat /\ Stopper \notin Timers

VARIABLES
  now, aggregating,
  reading,    \* a task reads the stream: one at a time
  leaving,    \* such a task has yet to drop its clone of the aggregator
  uses,       \* metrics so far, each a number
  buckets,    \* every bucket made so far: [hour, has], one per metric at most
  current,    \* the buckets of the map
  adder,      \* what each task adds where: [bucket, has]; has: {} nothing, {n} the metric n
  flusher,    \* [at, todo, sum]; sum: the summary at hand
  summaries,  \* Redis: hour -> the metrics in its summary
  listed,     \* the hours in the sorted set
  missed,     \* history: metrics that reached no summary, or one that was replaced or not listed
  query       \* [at, period, hour, active, stored, fresh]; fresh: history, stored since it began

usageVars == <<now, aggregating, reading, leaving, uses, buckets, current, adder, flusher, summaries, listed, missed, query>>

Flushers == Timers \cup {Stopper}
Hours == {2 * n : n \in 0..MaxHalf}
Uses == 1..MaxUses
NoSum == [hour |-> 0, has |-> {}]
NoAdd == [bucket |-> 0, has |-> {}]
Off == [at |-> "off", todo |-> {}, sum |-> NoSum]
NoQuery == [at |-> "idle", period |-> <<0, 0>>, hour |-> 0, active |-> {}, stored |-> {}, fresh |-> {}]

UsageInit ==
  /\ now = 0 /\ aggregating = FALSE /\ reading = FALSE /\ leaving = FALSE /\ uses = 0
  /\ buckets = [b \in {} |-> NoSum] /\ current = {}
  /\ adder = [a \in Adders |-> NoAdd]
  /\ flusher = [f \in Flushers |-> Off]
  /\ summaries = [h \in Hours |-> {}] /\ listed = {} /\ missed = {}
  /\ query = NoQuery

----
(* duration_round takes the nearest hour, a half up: the bucket of a metric
   of the second half of an hour is that of the hour after. *)
RoundTimestamp(t) == 2 * ((t + 1) \div 2)

(* add_metric: the bucket is found or made under the lock, and written to
   after it has been let go. *)
AddUsage(a, t) ==
  LET hour == RoundTimestamp(t)
      found == {b \in current : buckets[b].hour = hour}
      b == IF found # {} THEN Min(found) ELSE Cardinality(DOMAIN buckets) + 1
  IN  /\ adder[a].has = {} /\ uses < MaxUses /\ t \in 0..now
      /\ uses' = uses + 1
      /\ adder' = [adder EXCEPT ![a] = [bucket |-> b, has |-> {uses + 1}]]
      /\ buckets' = [c \in DOMAIN buckets \cup {b} |->
                        IF c \in DOMAIN buckets THEN buckets[c] ELSE [hour |-> hour, has |-> {}]]
      /\ current' = current \cup {b}
      /\ UNCHANGED <<now, aggregating, reading, leaving, flusher, summaries, listed, missed, query>>

ToSummarize == current \cup UNION {flusher[f].todo : f \in Flushers}

PushUsage(a) ==
  LET b == adder[a].bucket
  IN  /\ adder[a].has # {}
      /\ buckets' = [buckets EXCEPT ![b].has = @ \cup adder[a].has]
      /\ missed' = IF b \in ToSummarize THEN missed ELSE missed \cup adder[a].has
      /\ adder' = [adder EXCEPT ![a] = NoAdd]
      /\ UNCHANGED <<now, aggregating, reading, leaving, uses, current, flusher, summaries, listed, query>>

----
Flush(f, at, todo, sum) == flusher' = [flusher EXCEPT ![f] = [at |-> at, todo |-> todo, sum |-> sum]]

(* The task that reads the stream reads on while aggregation runs; when it
   gets no connection to Redis it is over at once. *)
StartAggregation(f) ==
  /\ ~aggregating /\ f \in Timers /\ flusher[f].at = "off" /\ ~reading
  /\ aggregating' = TRUE
  /\ \/ reading' = TRUE /\ UNCHANGED leaving
     \/ leaving' = TRUE /\ UNCHANGED reading
  /\ Flush(f, "tick", {}, NoSum)
  /\ UNCHANGED <<now, uses, buckets, current, adder, summaries, listed, missed, query>>

EndReader ==
  /\ reading /\ ~aggregating
  /\ reading' = FALSE /\ leaving' = TRUE
  /\ UNCHANGED <<now, aggregating, uses, buckets, current, adder, flusher, summaries, listed, missed, query>>

(* Drop, for the reader's clone: the flag it clears is that of all, a new
   start's included. *)
DropClone ==
  /\ leaving /\ leaving' = FALSE
  /\ aggregating' = FALSE
  /\ UNCHANGED <<now, reading, uses, buckets, current, adder, flusher, summaries, listed, missed, query>>

(* The timer takes the buckets whose time is over out of the map. *)
Due == {b \in current : now > buckets[b].hour + 2}
TakenLater(bs) == current  \* the defect: they are left in the map
TakenAll(bs) == {}  \* the defect: the map is cleared
Taken(bs) == current \ bs

FlushDue(f) ==
  /\ flusher[f].at = "tick"
  /\ Flush(f, "next", Due, NoSum)
  /\ current' = Taken(Due)
  /\ UNCHANGED <<now, aggregating, reading, leaving, uses, buckets, adder, summaries, listed, missed, query>>

(* stop_aggregation takes all of them. *)
StopAggregation ==
  /\ flusher[Stopper].at = "off"
  /\ aggregating' = FALSE
  /\ Flush(Stopper, "next", current, NoSum)
  /\ current' = {}
  /\ UNCHANGED <<now, reading, leaving, uses, buckets, adder, summaries, listed, missed, query>>

Summarize(f, b) ==
  /\ flusher[f].at = "next" /\ b \in flusher[f].todo
  /\ Flush(f, "set", flusher[f].todo \ {b}, buckets[b])
  /\ UNCHANGED <<now, aggregating, reading, leaving, uses, buckets, current, adder, summaries, listed, missed, query>>

(* SET replaces what an earlier bucket of the hour has left there. *)
StoreSummary(f) ==
  LET s == flusher[f].sum
  IN  /\ flusher[f].at = "set"
      /\ summaries' = [summaries EXCEPT ![s.hour] = s.has]
      /\ missed' = missed \cup summaries[s.hour]
      /\ query' = IF query.at \in {"list", "get"} THEN [query EXCEPT !.fresh = @ \cup s.has] ELSE query
      /\ Flush(f, "list", flusher[f].todo, s)
      /\ UNCHANGED <<now, aggregating, reading, leaving, uses, buckets, current, adder, listed>>

ListSummary(f) ==
  /\ flusher[f].at = "list"
  /\ listed' = listed \cup {flusher[f].sum.hour}
  /\ Flush(f, "next", flusher[f].todo, NoSum)
  /\ UNCHANGED <<now, aggregating, reading, leaving, uses, buckets, current, adder, summaries, missed, query>>

(* Redis fails in either: the bucket has gone and nobody tries again. *)
StoreFails(f) ==
  LET s == flusher[f].sum
  IN  /\ flusher[f].at \in {"set", "list"}
      /\ missed' = IF flusher[f].at = "set" \/ s.hour \notin listed THEN missed \cup s.has ELSE missed
      /\ Flush(f, "next", flusher[f].todo, NoSum)
      /\ UNCHANGED <<now, aggregating, reading, leaving, uses, buckets, current, adder, summaries, listed, query>>

(* The loop of a timer looks at running here only. *)
EndFlush(f) ==
  /\ flusher[f].at = "next" /\ flusher[f].todo = {}
  /\ Flush(f, IF f \in Timers /\ aggregating THEN "tick" ELSE "off", {}, NoSum)
  /\ UNCHANGED <<now, aggregating, reading, leaving, uses, buckets, current, adder, summaries, listed, missed, query>>

----
(* get_usage_summary: the buckets first, then the first summary listed in
   the period, if there is one. *)
Overlapping(p) == {b \in current : buckets[b].hour < p[2] /\ buckets[b].hour + 2 > p[1]}
InPeriod(p) == {h \in listed : p[1] <= h /\ h <= p[2]}

AskSummary(p) ==
  /\ query.at \in {"idle", "answered"}
  /\ query' = [NoQuery EXCEPT !.at = "list", !.period = p,
                              !.active = UNION {buckets[b].has : b \in Overlapping(p)}]
  /\ UNCHANGED <<now, aggregating, reading, leaving, uses, buckets, current, adder, flusher, summaries, listed, missed>>

ReadListed ==
  /\ query.at = "list"
  /\ query' = IF InPeriod(query.period) = {} THEN [query EXCEPT !.at = "answered"]
              ELSE [query EXCEPT !.at = "get", !.hour = Min(InPeriod(query.period))]
  /\ UNCHANGED <<now, aggregating, reading, leaving, uses, buckets, current, adder, flusher, summaries, listed, missed>>

ReadStored ==
  /\ query.at = "get"
  /\ query' = [query EXCEPT !.at = "answered", !.stored = summaries[query.hour]]
  /\ UNCHANGED <<now, aggregating, reading, leaving, uses, buckets, current, adder, flusher, summaries, listed, missed>>

UsageTick ==
  /\ now < MaxHalf
  /\ now' = now + 1
  /\ UNCHANGED <<aggregating, reading, leaving, uses, buckets, current, adder, flusher, summaries, listed, missed, query>>

UsageNext ==
  \/ \E a \in Adders : PushUsage(a) \/ \E t \in 0..MaxHalf : AddUsage(a, t)
  \/ \E f \in Flushers : \/ StartAggregation(f) \/ FlushDue(f) \/ EndFlush(f)
                         \/ StoreSummary(f) \/ ListSummary(f) \/ StoreFails(f)
                         \/ \E b \in DOMAIN buckets : Summarize(f, b)
  \/ StopAggregation \/ EndReader \/ DropClone
  \/ ReadListed \/ ReadStored \/ \E p \in Periods : AskSummary(p)
  \/ UsageTick

----
UsageTypeOK ==
  /\ now \in 0..MaxHalf /\ {aggregating, reading, leaving} \subseteq BOOLEAN /\ uses \in 0..MaxUses
  /\ DOMAIN buckets \subseteq Uses /\ current \subseteq DOMAIN buckets
  /\ \A b \in DOMAIN buckets : buckets[b].hour \in Hours /\ buckets[b].has \subseteq Uses
  /\ \A f \in Flushers : flusher[f].at \in {"off", "tick", "next", "set", "list"}
  /\ listed \subseteq Hours /\ summaries \in [Hours -> SUBSET Uses]

InHand == UNION {flusher[f].sum.has : f \in {g \in Flushers : flusher[g].at = "set"}}
Stored == UNION {summaries[h] : h \in Hours}

(* Two buckets of an hour are never in the map together, and what is in the
   map is in no summary: nothing is billed from both (add_metric 242-276,
   start_bucket_flushing 344-391). *)
NothingTwice ==
  /\ \A b \in current : /\ buckets[b].has \cap (InHand \cup Stored) = {}
                        /\ \A c \in current : buckets[b].hour = buckets[c].hour => b = c
  /\ \A g, h \in Hours : g # h => summaries[g] \cap summaries[h] = {}

(* A metric that was added is waiting, being stored or stored, or it is one
   of those that came too late, were replaced by a later summary of their
   hour, or met a failure of Redis. *)
UsageAccounted ==
  \A n \in 1..uses :
      \/ n \in InHand \cup Stored \cup missed
      \/ \E a \in Adders : n \in adder[a].has
      \/ \E b \in ToSummarize : n \in buckets[b].has

(* A summary asked for counts a metric twice only if it was stored between
   the query's two reads (get_usage_summary 225-239). *)
CountedTwiceIsFresh == query.active \cap query.stored \subseteq query.fresh

UsageInv == UsageTypeOK /\ NothingTwice /\ UsageAccounted /\ CountedTwiceIsFresh
====
