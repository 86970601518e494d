---- MODULE Streams ----
(* StreamManager (src/websocket/realtime.rs): three maps behind a lock
   each.  publish and subscribe hold the map of streams for reading while
   they wait for the second lock; clean-up holds it for writing. *)
EXTENDS Naturals, Sequences, FiniteSets, SequencesExt

CONSTANTS Clients,  \* callers of the manager, one call at a time
          StreamIds,   \* ids create_stream may draw
          BufferSize,  \* config.buffer_size
          MaxMessages  \* bound on the messages published

ASSUME StreamsAssumption == BufferSize \in Nat \ {0} /\ MaxMessages \in Nat

VARIABLES
  client,      \* what each caller is at: [at, id, msg]
  streams,     \* id -> is it older than max_age?
  subscribers, \* id -> connections, kept for ever (or until clean-up)
  buffers,     \* message_buffer: id -> messages
  wire,        \* id -> messages sent on its broadcast channel
  published    \* messages so far

streamVars == <<client, streams, subscribers, buffers, wire, published>>

Free == [at |-> "free"]

StreamInit ==
  /\ client = [c \in Clients |-> Free]
  /\ streams = [s \in {} |-> FALSE]
  /\ subscribers = [s \in {} |-> {}]
  /\ buffers = [s \in {} |-> <<>>]
  /\ wire = [s \in StreamIds |-> <<>>]
  /\ published = 0

Put(f, k, v) == [x \in DOMAIN f \cup {k} |-> IF x = k THEN v ELSE f[x]]
Dropped(f, k) == [x \in DOMAIN f \ k |-> f[x]]

(* Who holds the streams for reading, and who the buffers for writing. *)
ReadersEarly == {c \in Clients : client[c].at = "publish"}  \* the defect: subscribe lets go of the streams
Readers == {c \in Clients : client[c].at \in {"publish", "subscribe"}}
BufferHolderNever == {}  \* the defect: the buffer is let go before the send
BufferHolder == {c \in Clients : client[c].at = "publish"}

----
(* create_stream takes two locks one after the other. *)
CreateStream(c, s) ==
  /\ client[c] = Free
  /\ s \notin DOMAIN streams /\ wire[s] = <<>>
  /\ \A d \in Clients : client[d].at = "create" => client[d].id # s   \* ids are drawn once
  /\ s \notin DOMAIN buffers
  /\ Readers = {}
  /\ streams' = Put(streams, s, FALSE)
  /\ client' = [client EXCEPT ![c] = [at |-> "create", id |-> s]]
  /\ UNCHANGED <<subscribers, buffers, wire, published>>

CreateBuffer(c) ==
  /\ client[c].at = "create"
  /\ BufferHolder = {}
  /\ buffers' = Put(buffers, client[c].id, <<>>)
  /\ client' = [client EXCEPT ![c] = Free]
  /\ UNCHANGED <<streams, subscribers, wire, published>>

\* A stream can be named by others once create_stream has returned its id.
Known == {s \in DOMAIN streams : \A c \in Clients : client[c].at = "create" => client[c].id # s}

Subscribe(c, s) ==
  /\ client[c] = Free /\ s \in Known
  /\ client' = [client EXCEPT ![c] = [at |-> "subscribe", id |-> s]]
  /\ UNCHANGED <<streams, subscribers, buffers, wire, published>>

AddSubscriber(c) ==
  /\ client[c].at = "subscribe"
  /\ LET s == client[c].id
         there == IF s \in DOMAIN subscribers THEN subscribers[s] ELSE {}
     IN  subscribers' = Put(subscribers, s, there \cup {c})
  /\ client' = [client EXCEPT ![c] = Free]
  /\ UNCHANGED <<streams, buffers, wire, published>>

Trim(s) == IF Len(s) > BufferSize THEN SubSeq(s, Len(s) - BufferSize + 1, Len(s)) ELSE s

(* publish writes to the buffer and keeps it while it sends. *)
Publish(c, s) ==
  /\ client[c] = Free /\ s \in Known /\ published < MaxMessages
  /\ BufferHolder = {}
  /\ published' = published + 1
  /\ buffers' = IF s \in DOMAIN buffers
                THEN [buffers EXCEPT ![s] = Trim(Append(@, published'))] ELSE buffers
  /\ client' = [client EXCEPT ![c] = [at |-> "publish", id |-> s, msg |-> published']]
  /\ UNCHANGED <<streams, subscribers, wire>>

Send(c) ==
  /\ client[c].at = "publish"
  /\ wire' = [wire EXCEPT ![client[c].id] = Append(@, client[c].msg)]
  /\ client' = [client EXCEPT ![c] = Free]
  /\ UNCHANGED <<streams, subscribers, buffers, published>>

(* cleanup_inactive_streams, under the lock of the streams throughout. *)
CleanupInactive(c) ==
  LET gone == {s \in DOMAIN streams : streams[s] /\ (s \in DOMAIN subscribers => subscribers[s] = {})}
  IN  /\ client[c] = Free /\ Readers = {}
      /\ gone # {}
      /\ streams' = Dropped(streams, gone)
      /\ buffers' = Dropped(buffers, gone)
      /\ subscribers' = Dropped(subscribers, gone)
      /\ UNCHANGED <<client, wire, published>>

GrowOld(s) ==
  /\ s \in DOMAIN streams /\ ~streams[s]
  /\ streams' = [streams EXCEPT ![s] = TRUE]
  /\ UNCHANGED <<client, subscribers, buffers, wire, published>>

StreamNext ==
  \/ \E c \in Clients :
        \/ CreateBuffer(c) \/ AddSubscriber(c) \/ Send(c) \/ CleanupInactive(c)
        \/ \E s \in StreamIds : CreateStream(c, s) \/ Subscribe(c, s) \/ Publish(c, s)
  \/ \E s \in StreamIds : GrowOld(s)

StreamSpec == StreamInit /\ [][StreamNext]_streamVars

----
StreamTypeOK ==
  /\ DOMAIN streams \subseteq StreamIds /\ DOMAIN buffers \subseteq StreamIds
  /\ \A s \in DOMAIN buffers : Len(buffers[s]) <= BufferSize
  /\ \A s \in DOMAIN subscribers : subscribers[s] \subseteq Clients

(* A stream with a subscriber is never cleaned up, not even while subscribe
   is under way (subscribe 248-263, cleanup_inactive_streams 389-409). *)
SubscribedStreamsStay == DOMAIN subscribers \subseteq DOMAIN streams

(* When nobody is publishing, what get_buffered_messages returns is the end
   of what was broadcast, in the same order, however publishers overlap. *)
BufferIsTheEndOfTheWire ==
  (\A c \in Clients : client[c].at # "publish") =>
      \A s \in Known \cap DOMAIN buffers : IsSuffix(buffers[s], wire[s])

(* The three maps of streams, buffers and subscribers agree. *)
StreamsInv == StreamTypeOK /\ SubscribedStreamsStay /\ BufferIsTheEndOfTheWire
====
