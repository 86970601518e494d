---- MODULE BillingCollector ----
(* SimpleMetricsCollector (src/billing/simple_collector.rs): usage metrics
   go from an unbounded channel through a bounded buffer to the database.
   A processor task, a flush timer per start_collection and the caller of
   stop_collection take batches out of the buffer, whose tokio mutex makes
   each visit one action; a batch is then stored one metric at a time,
   outside the lock.  A metric is the number of its collection. *)
EXTENDS Naturals, Sequences

CONSTANTS Capacity,  \* buffer_size
          Timers,      \* bound: flush timers alive at once
          MaxMetrics,  \* bound: metrics collected
          MaxFaults    \* bound: failures of the database or of Redis

ASSUME CollectorAssumption ==
  /\ Capacity \in Nat \ {0}
  /\ MaxMetrics \in Nat /\ MaxFaults \in Nat
  /\ Timers \cap {"processor", "stop"} = {}

VARIABLES
  running,  \* the AtomicBool the tasks poll
  sent,     \* metrics handed to collect_metric so far
  channel,  \* metrics_tx / metrics_rx
  buffer,   \* SimpleMetricBuffer::metrics
  pc,       \* where each worker is
  batch,    \* the metrics each worker took out of the buffer
  left,     \* the part of the batch still to be created
  stored,   \* usage_metrics, the table
  faults    \* failures injected so far

collectorVars == <<running, sent, channel, buffer, pc, batch, left, stored, faults>>

Workers == {"processor", "stop"} \cup Timers
Metrics == 1..MaxMetrics

\* "processor": "check" (loads running), "wait" (in recv), "store", "readd", "off";
\* a timer: "off", "check", "wait" (in tick), "store";
\* "stop": "off" (no call), "wait" (for the buffer), "store".
CollectorInit ==
  /\ running = FALSE
  /\ sent = 0
  /\ channel = <<>>
  /\ buffer = <<>>
  /\ pc = [w \in Workers |-> IF w = "processor" THEN "check" ELSE "off"]
  /\ batch = [w \in Workers |-> <<>>]
  /\ left = [w \in Workers |-> <<>>]
  /\ stored = {}
  /\ faults = 0

GoesTo(w, l) == pc' = [pc EXCEPT ![w] = l]

Elements(s) == {s[i] : i \in 1..Len(s)}

----
(* add_metric, once or for each of several: a full buffer drops its front. *)
Keep(s) == IF Len(s) > Capacity THEN SubSeq(s, Len(s) - Capacity + 1, Len(s)) ELSE s

FlushOnTimeOnly(b, elapsed) == elapsed  \* the defect: the length is not looked at

(* should_flush: half full, or 30 seconds since the last flush. *)
ShouldFlush(b, elapsed) == Len(b) >= Capacity \div 2 \/ elapsed

(* flush: worker w leaves with everything in b. *)
Flush(w, b) ==
  /\ buffer' = <<>>
  /\ batch' = [batch EXCEPT ![w] = b]
  /\ left' = [left EXCEPT ![w] = b]
  /\ GoesTo(w, "store")

----
(* collect_metric: refused, and forgotten, once the receiver is gone. *)
Collect ==
  /\ sent < MaxMetrics
  /\ sent' = sent + 1
  /\ channel' = IF pc["processor"] = "off" THEN channel ELSE Append(channel, sent + 1)
  /\ UNCHANGED <<running, buffer, pc, batch, left, stored, faults>>

(* start_collection: each start after a stop spawns a flush timer. *)
Start(t) ==
  /\ ~running
  /\ pc[t] = "off"
  /\ running' = TRUE
  /\ GoesTo(t, "check")
  /\ UNCHANGED <<sent, channel, buffer, batch, left, stored, faults>>

(* stop_collection clears running, then waits for the buffer. *)
Stop ==
  /\ pc["stop"] = "off"
  /\ running' = FALSE
  /\ GoesTo("stop", "wait")
  /\ UNCHANGED <<sent, channel, buffer, batch, left, stored, faults>>

(* The processor's loop condition.  `new` spawns the processor before
   anybody can set running.  At its end the channel goes with the receiver. *)
ProcessorCheck ==
  /\ pc["processor"] = "check"
  /\ IF running
     THEN GoesTo("processor", "wait") /\ UNCHANGED channel
     ELSE GoesTo("processor", "off") /\ channel' = <<>>
  /\ UNCHANGED <<running, sent, buffer, batch, left, stored, faults>>

(* A metric arrives: add it, and perhaps leave with the whole buffer. *)
TakeMessage ==
  /\ pc["processor"] = "wait"
  /\ channel # <<>>
  /\ channel' = Tail(channel)
  /\ LET b == Keep(Append(buffer, Head(channel)))
     IN \E elapsed \in BOOLEAN :
          IF ShouldFlush(b, elapsed)
          THEN Flush("processor", b)
          ELSE buffer' = b /\ GoesTo("processor", "check") /\ UNCHANGED <<batch, left>>
  /\ UNCHANGED <<running, sent, stored, faults>>

TimerCheck(t) ==
  /\ pc[t] = "check"
  /\ GoesTo(t, IF running THEN "wait" ELSE "off")
  /\ UNCHANGED <<running, sent, channel, buffer, batch, left, stored, faults>>

TimerTickWhenFull(t) ==  \* the defect: the timer spares a buffer with room
  /\ pc[t] = "wait"
  /\ IF Len(buffer) = Capacity
     THEN Flush(t, buffer)
     ELSE GoesTo(t, "check") /\ UNCHANGED <<buffer, batch, left>>
  /\ UNCHANGED <<running, sent, channel, stored, faults>>

(* The timer's tick, and flush_buffer for "stop": take what there is. *)
TimerTick(w) ==
  /\ w # "processor" /\ pc[w] = "wait"
  /\ IF buffer # <<>>
     THEN Flush(w, buffer)
     ELSE /\ GoesTo(w, IF w = "stop" THEN "off" ELSE "check")
          /\ UNCHANGED <<buffer, batch, left>>
  /\ UNCHANGED <<running, sent, channel, stored, faults>>

----
(* store_metrics_batch creates the records in order; SurrealDB refuses to
   create one that exists.  Then it caches the whole batch in Redis. *)
CreateNext(w) ==
  /\ pc[w] = "store"
  /\ left[w] # <<>>
  /\ Head(left[w]) \notin stored
  /\ stored' = stored \cup {Head(left[w])}
  /\ left' = [left EXCEPT ![w] = Tail(@)]
  /\ UNCHANGED <<running, sent, channel, buffer, pc, batch, faults>>

BatchStored(w) ==
  /\ pc[w] = "store"
  /\ left[w] = <<>>
  /\ batch' = [batch EXCEPT ![w] = <<>>]
  /\ GoesTo(w, IF w = "stop" THEN "off" ELSE "check")
  /\ UNCHANGED <<running, sent, channel, buffer, left, stored, faults>>

ForgetFailed(w) ==  \* the defect: the processor forgets it too
  /\ pc[w] = "store"
  /\ faults < MaxFaults /\ faults' = faults + 1
  /\ batch' = [batch EXCEPT ![w] = <<>>]
  /\ left' = [left EXCEPT ![w] = <<>>]
  /\ GoesTo(w, IF w = "stop" THEN "off" ELSE "check")
  /\ UNCHANGED <<running, sent, channel, buffer, stored>>

(* The first error ends it: the record exists, the database fails or Redis
   does.  The processor keeps the batch to add it again; the others drop it. *)
BatchFails(w) ==
  /\ pc[w] = "store"
  /\ \/ left[w] # <<>> /\ Head(left[w]) \in stored /\ UNCHANGED faults
     \/ faults < MaxFaults /\ faults' = faults + 1
  /\ left' = [left EXCEPT ![w] = <<>>]
  /\ IF w = "processor"
     THEN GoesTo(w, "readd") /\ UNCHANGED batch
     ELSE /\ batch' = [batch EXCEPT ![w] = <<>>]
          /\ GoesTo(w, IF w = "stop" THEN "off" ELSE "check")
  /\ UNCHANGED <<running, sent, channel, buffer, stored>>

ReaddToChannel ==  \* the defect: retried through the channel
  /\ pc["processor"] = "readd"
  /\ channel' = channel \o batch["processor"]
  /\ batch' = [batch EXCEPT !["processor"] = <<>>]
  /\ GoesTo("processor", "check")
  /\ UNCHANGED <<running, sent, buffer, left, stored, faults>>

(* The whole failed batch, what was created of it included, is added again. *)
Readd ==
  /\ pc["processor"] = "readd"
  /\ buffer' = Keep(buffer \o batch["processor"])
  /\ batch' = [batch EXCEPT !["processor"] = <<>>]
  /\ GoesTo("processor", "check")
  /\ UNCHANGED <<running, sent, channel, left, stored, faults>>

----
Store(w) == CreateNext(w) \/ BatchStored(w) \/ BatchFails(w)

Processor == ProcessorCheck \/ TakeMessage \/ Store("processor") \/ Readd
Timer(t) == TimerCheck(t) \/ TimerTick(t) \/ Store(t)
Stopper == TimerTick("stop") \/ Store("stop")

CollectorNext ==
  \/ Collect \/ Stop
  \/ \E t \in Timers : Start(t)
  \/ Processor
  \/ \E t \in Timers : Timer(t)
  \/ Stopper

----
Pending == Elements(channel) \cup Elements(buffer) \cup UNION {Elements(batch[w]) : w \in Workers}

(* The shape of the collector; the buffer never outgrows its capacity
   (add_metric, 38-47, also when a failed batch is added again). *)
CollectorTypeOK ==
  /\ running \in BOOLEAN
  /\ sent \in 0..MaxMetrics
  /\ channel \in Seq(Metrics)
  /\ buffer \in Seq(Metrics) /\ Len(buffer) <= Capacity
  /\ pc \in [Workers -> {"off", "check", "wait", "store", "readd"}]
  /\ batch \in [Workers -> Seq(Metrics)]
  /\ left \in [Workers -> Seq(Metrics)]
  /\ stored \in SUBSET Metrics
  /\ faults \in 0..MaxFaults

(* Failures and retries never reorder or double a metric on its way: the
   processor's batch is older than the buffer and the buffer older than the
   channel, so what a full buffer drops (line 40) really is the oldest. *)
InOrder ==
  LET s == batch["processor"] \o buffer \o channel
  IN \A i, j \in 1..Len(s) : i < j => s[i] < s[j]

(* Until a store fails and while the processor lives every metric collected
   is stored or on its way: flushing at half the capacity (line 50) keeps
   the buffer from overflowing, whoever flushes it and whenever. *)
NoLossBeforeFailure ==
  faults = 0 /\ pc["processor"] # "off" => 1..sent \subseteq Pending \cup stored

(* What is on its way is in order, and nothing is lost while stores answer. *)
CollectorInv == CollectorTypeOK /\ InOrder /\ NoLossBeforeFailure

(* The only ways to lose a metric: in the channel when the processor ends,
   as the oldest of a full buffer, or in a batch whose store failed under
   the timer or stop_collection (294, 312).  The processor's own failed
   batches are never lost (258-263). *)
LossIsAccounted ==
  [][\A m \in Pending \ (Pending' \cup stored') :
        \/ m \in Elements(channel) /\ pc'["processor"] = "off"
        \/ Len(buffer) = Capacity /\ m = Head(buffer)
        \/ \E w \in Workers \ {"processor"} :
              pc[w] = "store" /\ m \in Elements(batch[w]) /\ pc'[w] # "store"]_collectorVars

(* While collection runs nothing stays in the collector for ever, not even
   a batch whose retries always fail on a record it already created: the
   timer takes it (277-304). *)
Drains == \A m \in Metrics : m \in Pending ~> (m \notin Pending \/ ~running)
====
