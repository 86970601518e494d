---- MODULE GrpcSandboxes ----
(* SoulBoxServiceImpl (src/grpc/service.rs): a map of what it tells about
   sandboxes, and below it a container manager of its own with the
   registry of their containers.  Every handler changes the two in steps,
   and a client that goes away drops its handler at whatever await it is.
   The container manager's calls are single steps that may fail; what they
   are made of is ContainerManager's. *)
EXTENDS Naturals, FiniteSets

CONSTANTS Handlers,  \* requests under way at a time
          GrpcBoxes   \* sandbox ids create_sandbox may draw

VARIABLES
  handler,     \* what each request is at: [at, box]
  sandboxes,   \* the ids of the map of metadata
  containers,  \* the ids registered in the container manager
  strayed      \* history: sandboxes that a failed or dropped handler left behind

grpcVars == <<handler, sandboxes, containers, strayed>>

Idle == [at |-> "idle"]
AtWork(at, s) == {h \in Handlers : handler[h] = [at |-> at, box |-> s]}
Become(h, at, s) == handler' = [handler EXCEPT ![h] = [at |-> at, box |-> s]]
Answer(h) == handler' = [handler EXCEPT ![h] = Idle]

GrpcInit ==
  /\ handler = [h \in Handlers |-> Idle]
  /\ sandboxes = {} /\ containers = {} /\ strayed = {}

\* Ids are drawn at random, so none is drawn twice.
Drawn == containers \cup sandboxes \cup strayed \cup
         {s \in GrpcBoxes : \E h \in Handlers : handler[h] # Idle /\ handler[h].box = s}

----
(* create_sandbox: the container is registered, then started, then told. *)
CreateSandbox(h, s) ==
  /\ handler[h] = Idle /\ s \notin Drawn
  /\ containers' = containers \cup {s}
  /\ Become(h, "start", s)
  /\ UNCHANGED <<sandboxes, strayed>>

StartBox(h) ==
  /\ handler[h].at = "start"
  /\ Become(h, "insert", handler[h].box)
  /\ UNCHANGED <<sandboxes, containers, strayed>>

(* The answer is an error and the container stays registered. *)
StartBoxFails(h) ==
  /\ handler[h].at = "start"
  /\ strayed' = strayed \cup {handler[h].box}
  /\ Answer(h)
  /\ UNCHANGED <<sandboxes, containers>>

InsertBox(h) ==
  /\ handler[h].at = "insert"
  /\ sandboxes' = sandboxes \cup {handler[h].box}
  /\ Answer(h)
  /\ UNCHANGED <<containers, strayed>>

(* delete_sandbox takes the entry out under the lock it found it with, and
   lets go of it to remove the container. *)
DeleteUnlocked(h, s) ==  \* the defect: it is taken out at the end
  /\ handler[h] = Idle /\ s \in sandboxes
  /\ Become(h, "remove", s)
  /\ UNCHANGED <<sandboxes, containers, strayed>>

DeleteSandbox(h, s) ==
  /\ handler[h] = Idle /\ s \in sandboxes
  /\ sandboxes' = sandboxes \ {s}
  /\ Become(h, "remove", s)
  /\ UNCHANGED <<containers, strayed>>

RemoveContainer(h) ==
  /\ handler[h].at = "remove"
  /\ containers' = containers \ {handler[h].box}
  /\ Answer(h)
  /\ UNCHANGED <<sandboxes, strayed>>

(* No permit within 30 seconds: an error, and the entry is not put back. *)
RemovalFails(h) ==
  /\ handler[h].at = "remove"
  /\ strayed' = strayed \cup {handler[h].box}
  /\ Answer(h)
  /\ UNCHANGED <<sandboxes, containers>>

(* execute_code looks up the sandbox, and when it has noted the execution
   (in a map that is never read) the container, whatever has become of it. *)
Execute(h, s) ==
  /\ handler[h] = Idle /\ s \in sandboxes
  /\ Become(h, "find", s)
  /\ UNCHANGED <<sandboxes, containers, strayed>>

FindContainer(h) ==
  /\ handler[h].at = "find"
  /\ IF handler[h].box \in containers THEN Become(h, "run", handler[h].box) ELSE Answer(h)
  /\ UNCHANGED <<sandboxes, containers, strayed>>

(* The command ends, fails or is given up after 30 seconds: all are answers. *)
EndExecution(h) ==
  /\ handler[h].at = "run"
  /\ Answer(h)
  /\ UNCHANGED <<sandboxes, containers, strayed>>

----
(* The client has gone.  A removal may have got as far as the registry. *)
DropHandler(h) ==
  /\ handler[h] # Idle
  /\ strayed' = IF handler[h].at \in {"start", "insert", "remove"}
                THEN strayed \cup {handler[h].box} ELSE strayed
  /\ \/ UNCHANGED containers
     \/ handler[h].at = "remove" /\ containers' = containers \ {handler[h].box}
  /\ Answer(h)
  /\ UNCHANGED sandboxes

GrpcNext ==
  \E h \in Handlers :
      \/ \E s \in GrpcBoxes : CreateSandbox(h, s) \/ DeleteSandbox(h, s) \/ Execute(h, s)
      \/ StartBox(h) \/ StartBoxFails(h) \/ InsertBox(h)
      \/ RemoveContainer(h) \/ RemovalFails(h)
      \/ FindContainer(h) \/ EndExecution(h)
      \/ DropHandler(h)

----
GrpcTypeOK ==
  /\ sandboxes \cup containers \cup strayed \subseteq GrpcBoxes
  /\ \A h \in Handlers :
        handler[h] = Idle \/
        handler[h] \in [at : {"start", "insert", "remove", "find", "run"}, box : GrpcBoxes]

(* A sandbox the service tells about has a container, and nobody is
   deleting it: of two deletions the second finds nothing (create_sandbox
   79-213, delete_sandbox 284-326). *)
ToldIsThere ==
  \A s \in sandboxes : s \in containers /\ AtWork("remove", s) = {}

(* One deletion of a sandbox runs at a time. *)
DeletedOnce == \A s \in GrpcBoxes : Cardinality(AtWork("remove", s)) <= 1

(* A container the service no longer, or not yet, tells about is in the
   hands of a handler, or a handler failed or was dropped on the way: only
   these leave a container nobody can delete through the service. *)
UntoldIsInHand ==
  \A s \in containers \ sandboxes :
      \/ s \in strayed
      \/ \E at \in {"start", "insert", "remove"} : AtWork(at, s) # {}

(* The service's map and the registry below it agree but for failures. *)
GrpcSandboxesInv == GrpcTypeOK /\ ToldIsThere /\ DeletedOnce /\ UntoldIsInHand

----
(* StreamingServiceImpl (src/grpc/streaming_service.rs): a map of the open
   streams behind a lock.  sandbox_stream and terminal_stream treat it the
   same way: Init draws an id, enters it and gives the answer Ready while
   it still holds the lock, so the map is locked until the client takes
   the answer; the id goes when the client closes or its half of the
   stream ends, and stays when the whole stream is dropped.  It shares no
   state with the service above. *)

CONSTANTS GrpcClients, \* connections, each one stream
          MaxStreams   \* bound on the ids drawn

ASSUME GrpcStreamsAssumption == MaxStreams \in Nat

VARIABLES
  link,     \* where each stream is: [at, id]; 0: no id yet
  entered,  \* the ids of active_streams
  drawn     \* ids drawn so far

gsVars == <<link, entered, drawn>>

GsInit ==
  /\ link = [c \in GrpcClients |-> [at |-> "read", id |-> 0]]
  /\ entered = {}
  /\ drawn = 0

Holder == {c \in GrpcClients : link[c].at = "ready"}

Go(c, at) == link' = [link EXCEPT ![c].at = at]

----
(* Init, the first one or another: the new id takes the old one's place. *)
InitStream(c) ==
  /\ link[c].at = "read" /\ drawn < MaxStreams
  /\ drawn' = drawn + 1
  /\ link' = [link EXCEPT ![c] = [at |-> "init", id |-> drawn + 1]]
  /\ UNCHANGED entered

Enter(c) ==
  /\ link[c].at = "init" /\ Holder = {}
  /\ entered' = entered \cup {link[c].id}
  /\ Go(c, "ready")
  /\ UNCHANGED drawn

(* The transport asks for the next answer; the guard of the lock ends. *)
TakeReady(c) == link[c].at = "ready" /\ Go(c, "read") /\ UNCHANGED <<entered, drawn>>

(* Close, an error, or the end of what the client sends. *)
EndRequests(c) == link[c].at = "read" /\ Go(c, "cleanup") /\ UNCHANGED <<entered, drawn>>

LeaveLast(c) ==  \* the defect: it removes the id drawn last
  /\ link[c].at = "cleanup" /\ Holder = {}
  /\ entered' = entered \ {drawn}
  /\ Go(c, "ended")
  /\ UNCHANGED drawn

Leave(c) ==
  /\ link[c].at = "cleanup" /\ Holder = {}
  /\ entered' = entered \ {link[c].id}
  /\ Go(c, "ended")
  /\ UNCHANGED drawn

(* The client goes away: the stream is dropped wherever it is. *)
DropStream(c) ==
  /\ link[c].at \notin {"ended", "dropped"}
  /\ Go(c, "dropped")
  /\ UNCHANGED <<entered, drawn>>

GsNext ==
  \E c \in GrpcClients :
      \/ InitStream(c) \/ Enter(c) \/ TakeReady(c)
      \/ EndRequests(c) \/ Leave(c)
      \/ DropStream(c)

----
GsTypeOK ==
  /\ drawn <= MaxStreams /\ entered \subseteq 1..drawn
  /\ \A c \in GrpcClients :
        /\ link[c].at \in {"read", "init", "ready", "cleanup", "ended", "dropped"}
        /\ link[c].id <= drawn
  /\ Cardinality(Holder) <= 1

(* A stream that is open and has been told its id is in the map, whoever
   else ends or begins one; one that ended in order is off it. *)
OpenIsEntered ==
  \A c \in GrpcClients :
      /\ link[c].at \in {"ready", "read", "cleanup"} /\ link[c].id # 0 => link[c].id \in entered
      /\ link[c].at = "ended" => link[c].id \notin entered

(* Streams and their map agree. *)
GrpcStreamsInv == GsTypeOK /\ OpenIsEntered
====
