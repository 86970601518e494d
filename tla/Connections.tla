---- MODULE Connections ----
(* WebSocketHandler (src/websocket/handler.rs): per connection a task that
   handles one message after the other and a heartbeat; whichever ends
   first ends both, wherever the other is.  Next to them runs a sweep that
   collects the stale connections under the lock, lets go of it and takes
   it again to remove them.  Answers are not modelled: broadcast_to_
   connection only logs them. *)
EXTENDS Naturals, FiniteSets

CONSTANTS Conns,  \* connection ids, each drawn once
          Boxes,     \* sandboxes whose logs are asked for
          NotThere   \* not in active_connections

VARIABLES
  link,      \* handle_connection: "new", "open" or "closed"
  info,      \* active_connections: id -> [auth, logs, quiet] or NotThere
  handling,  \* where the message task is: [at, box]
  wsUsers,   \* connections with an entry in authenticated_sessions
  logFeeds,  \* log_streams, as pairs of sandbox and connection
  sweep      \* what cleanup_stale_connections is about to remove

wsVars == <<link, info, handling, wsUsers, logFeeds, sweep>>

Waiting == [at |-> "receive"]

WsInit ==
  /\ link = [c \in Conns |-> "new"]
  /\ info = [c \in Conns |-> NotThere]
  /\ handling = [c \in Conns |-> Waiting]
  /\ wsUsers = {}
  /\ logFeeds = {}
  /\ sweep = {}

\* Changes the entry of c if there is one.
Amend(c, field, v) == IF info[c] = NotThere THEN info ELSE [info EXCEPT ![c][field] = v]
Moves(c, from, to) == link[c] = "open" /\ handling[c].at = from /\ handling' = [handling EXCEPT ![c] = to]

----
Open(c) ==
  /\ link[c] = "new"
  /\ link' = [link EXCEPT ![c] = "open"]
  /\ info' = [info EXCEPT ![c] = [auth |-> FALSE, logs |-> {}, quiet |-> FALSE]]
  /\ UNCHANGED <<handling, wsUsers, logFeeds, sweep>>

(* A message counts as a heartbeat before it is looked at. *)
Receive(c) ==
  /\ Moves(c, "receive", [at |-> "message"])
  /\ info' = Amend(c, "quiet", FALSE)
  /\ UNCHANGED <<link, wsUsers, logFeeds, sweep>>

(* Pings, bad messages and wrong keys change nothing. *)
Reject(c) ==
  /\ Moves(c, "message", Waiting)
  /\ UNCHANGED <<link, info, wsUsers, logFeeds, sweep>>

StoreSession(c) ==
  /\ Moves(c, "message", [at |-> "authenticate"])
  /\ wsUsers' = wsUsers \cup {c}
  /\ UNCHANGED <<link, info, logFeeds, sweep>>

SetUser(c) ==
  /\ Moves(c, "authenticate", Waiting)
  /\ info' = Amend(c, "auth", TRUE)
  /\ UNCHANGED <<link, wsUsers, logFeeds, sweep>>

\* is_authenticated; the lock is let go of before the handler takes it again
Admit(c) ==
  /\ info[c] # NotThere /\ info[c].auth
  /\ Moves(c, "message", [at |-> "admitted"])
  /\ UNCHANGED <<link, info, wsUsers, logFeeds, sweep>>

LogsOf(c) == IF info[c] = NotThere THEN {} ELSE info[c].logs

SubscribeLogs(c, b) ==
  /\ Moves(c, "admitted", [at |-> "subscribe", box |-> b])
  /\ info' = Amend(c, "logs", LogsOf(c) \cup {b})
  /\ UNCHANGED <<link, wsUsers, logFeeds, sweep>>

AddFeed(c) ==
  /\ Moves(c, "subscribe", Waiting)
  /\ logFeeds' = logFeeds \cup {<<handling[c].box, c>>}
  /\ UNCHANGED <<link, info, wsUsers, sweep>>

UnsubscribeLogs(c, b) ==
  /\ Moves(c, "admitted", [at |-> "unsubscribe", box |-> b])
  /\ info' = Amend(c, "logs", LogsOf(c) \ {b})
  /\ UNCHANGED <<link, wsUsers, logFeeds, sweep>>

FeedsOfBox(c, b) == {f \in logFeeds : f[1] = b}  \* the defect: the feeds of everybody
FeedsOf(c, b) == {f \in logFeeds : f = <<b, c>>}

RemoveFeeds(c) ==
  /\ Moves(c, "unsubscribe", Waiting)
  /\ logFeeds' = logFeeds \ FeedsOf(c, handling[c].box)
  /\ UNCHANGED <<link, info, wsUsers, sweep>>

----
(* The end of handle_connection: only the entry itself is removed. *)
EndLink(c) ==
  /\ link' = [link EXCEPT ![c] = "closed"]
  /\ handling' = [handling EXCEPT ![c] = Waiting]
  /\ info' = [info EXCEPT ![c] = NotThere]
  /\ UNCHANGED <<wsUsers, logFeeds, sweep>>

PeerCloses(c) == link[c] = "open" /\ handling[c] = Waiting /\ EndLink(c)

StaleIfThere(c) == info[c] # NotThere /\ info[c].quiet  \* the defect: no entry, nothing to check
Stale(c) == info[c] # NotThere => info[c].quiet

(* start_heartbeat_task: three intervals without a message, or no entry. *)
Heartbeat(c) == link[c] = "open" /\ Stale(c) /\ EndLink(c)

FallQuiet(c) ==
  /\ info[c] # NotThere /\ ~info[c].quiet
  /\ info' = Amend(c, "quiet", TRUE)
  /\ UNCHANGED <<link, handling, wsUsers, logFeeds, sweep>>

CollectStale ==
  /\ sweep = {}
  /\ sweep' = {c \in Conns : info[c] # NotThere /\ info[c].quiet}
  /\ sweep' # {}
  /\ UNCHANGED <<link, info, handling, wsUsers, logFeeds>>

(* What was heard of them since is not looked at. *)
RemoveStale ==
  /\ sweep # {}
  /\ info' = [c \in Conns |-> IF c \in sweep THEN NotThere ELSE info[c]]
  /\ sweep' = {}
  /\ UNCHANGED <<link, handling, wsUsers, logFeeds>>

WsNext ==
  \/ \E c \in Conns :
        \/ Open(c) \/ Receive(c) \/ Reject(c) \/ StoreSession(c) \/ SetUser(c) \/ Admit(c)
        \/ \E b \in Boxes : SubscribeLogs(c, b) \/ UnsubscribeLogs(c, b)
        \/ AddFeed(c) \/ RemoveFeeds(c) \/ PeerCloses(c) \/ Heartbeat(c) \/ FallQuiet(c)
  \/ CollectStale \/ RemoveStale

----
WsTypeOK ==
  /\ link \in [Conns -> {"new", "open", "closed"}]
  /\ info \in [Conns -> [auth : BOOLEAN, logs : SUBSET Boxes, quiet : BOOLEAN] \cup {NotThere}]
  /\ wsUsers \subseteq Conns /\ sweep \subseteq Conns
  /\ logFeeds \subseteq Boxes \X Conns

(* Between two messages, a connection gets what its entry says it is
   subscribed to, whoever else unsubscribes from the same logs
   (handle_log_subscription, handle_log_unsubscription). *)
SubscriptionsAreFed ==
  \A c \in Conns : info[c] # NotThere /\ handling[c] = Waiting =>
      \A b \in info[c].logs : <<b, c>> \in logFeeds

(* A connection whose entry the sweep removed, be it by mistake, is noticed
   by its heartbeat and closed (start_heartbeat_task 659-707). *)
NoZombie == \A c \in Conns : link[c] = "open" /\ info[c] = NotThere ~> link[c] = "closed"
====
