---- MODULE StreamCollector ----
(* MetricsCollector (src/billing/metrics_collector.rs).  A metric is added
   to a Redis stream and then sent to the processor, which buffers it and
   processes full or old buffers.  The channel's receiver exists once: the
   first start moves it into the processor, which drops it when it sees
   that collection was stopped.  The task that reads the stream asks for
   entries in a way Redis refuses (XREAD with ">"), so it never brings any. *)
EXTENDS Naturals, FiniteSets

CONSTANTS Samplers,  \* calls of collect_container_metrics
          SampleSize, \* metrics of a sample: at most 4
          BatchSize   \* batch_size

ASSUME StreamCollectorAssumption == {SampleSize, BatchSize} \subseteq Nat \ {0}

VARIABLES
  on,        \* running
  processor, \* "none", "select", "added", or "ended"
  stopping,  \* stop_collection has still to flush
  next,      \* the metric each sampler is at, and whether Redis has it
  stream,    \* metrics in the stream
  channel, buffer, processed, lost,  \* and where they are
  unanswered \* history: metrics Redis took without the caller getting to know

metricVars == <<on, processor, stopping, next, stream, channel, buffer, processed, lost, unanswered>>

MetricInit ==
  /\ on = FALSE /\ processor = "none" /\ stopping = FALSE
  /\ next = [s \in Samplers |-> [i |-> 1, added |-> FALSE]]
  /\ stream = {} /\ channel = {} /\ buffer = {} /\ processed = {} /\ lost = {} /\ unanswered = {}

Sample(s) == <<s, next[s].i>>

----
(* start_collection: a second processor cannot be had, and on stays TRUE. *)
StartCollection ==
  /\ ~on
  /\ on' = TRUE
  /\ processor' = IF processor = "none" THEN "select" ELSE processor
  /\ UNCHANGED <<stopping, next, stream, channel, buffer, processed, lost, unanswered>>

StopCollection ==
  /\ ~stopping
  /\ on' = FALSE
  /\ stopping' = TRUE
  /\ UNCHANGED <<processor, next, stream, channel, buffer, processed, lost, unanswered>>

FlushBuffer ==
  /\ processed' = processed \cup buffer
  /\ buffer' = {}

FlushAtStop ==
  /\ stopping
  /\ stopping' = FALSE
  /\ FlushBuffer
  /\ UNCHANGED <<on, processor, next, stream, channel, lost, unanswered>>

(* collect_metric: the stream, then the channel, or nothing when nobody has
   its other end. *)
SendToStream(s) ==
  /\ next[s].i <= SampleSize /\ ~next[s].added
  /\ stream' = stream \cup {Sample(s)}
  /\ next' = [next EXCEPT ![s].added = TRUE]
  /\ UNCHANGED <<on, processor, stopping, channel, buffer, processed, lost, unanswered>>

(* Redis refuses, or cannot be reached, or its answer is lost: the rest of
   the sample is dropped. *)
StreamRefuses(s) ==
  /\ next[s].i <= SampleSize /\ ~next[s].added
  /\ next' = [next EXCEPT ![s].i = SampleSize + 1]
  /\ \/ UNCHANGED <<stream, unanswered>>
     \/ stream' = stream \cup {Sample(s)} /\ unanswered' = unanswered \cup {Sample(s)}
  /\ UNCHANGED <<on, processor, stopping, channel, buffer, processed, lost>>

SendToProcessor(s) ==
  /\ next[s].added
  /\ next' = [next EXCEPT ![s] = [i |-> @.i + 1, added |-> FALSE]]
  /\ IF processor = "ended" THEN lost' = lost \cup {Sample(s)} /\ UNCHANGED channel
                            ELSE channel' = channel \cup {Sample(s)} /\ UNCHANGED lost
  /\ UNCHANGED <<on, processor, stopping, stream, buffer, processed, unanswered>>

(* The processor: a metric, then a flush when the buffer is full or old. *)
Receive ==
  /\ processor = "select"
  /\ \E m \in channel : channel' = channel \ {m} /\ buffer' = buffer \cup {m}
  /\ processor' = "added"
  /\ UNCHANGED <<on, stopping, next, stream, processed, lost, unanswered>>

AfterReceive ==
  /\ processor = "added"
  /\ processor' = "select"
  /\ \/ FlushBuffer
     \/ Cardinality(buffer) < BatchSize /\ UNCHANGED <<buffer, processed>>
  /\ UNCHANGED <<on, stopping, next, stream, channel, lost, unanswered>>

(* Its interval: it ends, with what is in the channel, or flushes. *)
TickKeepsChannel ==  \* the defect: what is queued is taken over with the buffer
  /\ processor = "select"
  /\ IF on THEN UNCHANGED <<processor, buffer>> /\ processed' = processed \cup buffer
           ELSE processor' = "ended" /\ UNCHANGED <<buffer, processed>>
  /\ UNCHANGED <<on, stopping, next, stream, channel, lost, unanswered>>

Tick ==
  /\ processor = "select"
  /\ IF on THEN FlushBuffer /\ UNCHANGED <<processor, channel, lost>>
           ELSE /\ processor' = "ended" /\ lost' = lost \cup channel /\ channel' = {}
                /\ UNCHANGED <<buffer, processed>>
  /\ UNCHANGED <<on, stopping, next, stream, unanswered>>

MetricNext ==
  \/ StartCollection \/ StopCollection \/ FlushAtStop
  \/ \E s \in Samplers : SendToStream(s) \/ StreamRefuses(s) \/ SendToProcessor(s)
  \/ Receive \/ AfterReceive \/ Tick

----
MetricTypeOK ==
  /\ {on, stopping} \subseteq BOOLEAN
  /\ processor \in {"none", "select", "added", "ended"}
  /\ \A s \in Samplers : next[s].i \in 1..(SampleSize + 1)

Between == {Sample(s) : s \in {x \in Samplers : next[x].added}}

(* Every metric Redis has is on its way to the processor, in the channel,
   in the buffer, processed, or lost, and in one of these places only,
   whoever flushes, stops and starts again; one whose XADD was carried out
   but not answered is in none. *)
EachOnce ==
  /\ stream \ unanswered = Between \cup channel \cup buffer \cup processed \cup lost
  /\ Cardinality(stream \ unanswered) = Cardinality(Between) + Cardinality(channel) + Cardinality(buffer)
                           + Cardinality(processed) + Cardinality(lost)

(* Nothing is lost while the processor lives, and nothing queued is left
   when it has ended. *)
LostAtTheEnd == /\ lost # {} => processor = "ended"
                /\ processor = "ended" => channel = {}

(* Where the metrics are. *)
StreamCollectorInv == MetricTypeOK /\ EachOnce /\ LostAtTheEnd
====
