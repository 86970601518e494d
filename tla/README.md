# SoulBox in TLA+

SoulBox is a server that runs untrusted code in sandboxes. A REST and a gRPC
front end create, use and destroy sandboxes; each sandbox is a Docker container
(or a Firecracker VM) with its own ports, files and limits; around this core
there are sessions, templates, billing and monitoring. This directory models the
parts that keep state shared by several tasks, checks them with TLC, and proves
the most important results with TLAPS.

File names below are relative to `src/src/` of the repository.

## 1. The system

### Components and what they keep

| Component | State | Hard because |
|---|---|---|
| Port mapping (`network/port_mapping.rs`) | two maps and statistics behind three mutexes | each method is several lock sections |
| Container manager (`container/manager.rs`, `sandbox.rs`) | registry, resource tracker, permits, shutdown flag; a `cleaned_up` flag per container | Docker is awaited between reading and writing the registry; handlers are cancelled; shutdown gives up waiting |
| Sandbox manager (`sandbox_manager.rs`) | map of active sandboxes | a second map about the same containers, and REST creations and deletions go past it |
| Container pool (`container/pool.rs`) | queue of idle containers, maintenance task | maintenance decides from counts that clients change meanwhile |
| Startup optimizer (`container/startup_optimizer.rs`) | pre-warmed containers, a semaphore, statistics | the pool is locked while tasks fill it; the statistics are computed without checks |
| Lock-free pool, cache, metrics (`lockfree.rs`) | queue, maps, atomics | no locks at all; the counters are relaxed |
| Error recovery (`container/error_recovery.rs`) | a circuit breaker per operation, permits | late results, half-open state |
| Billing breaker (`billing/error_handling.rs`) | state and time of failure under a mutex each | nested locks in two orders |
| Billing collectors (`billing/simple_collector.rs`, `metrics_collector.rs`) | channel, buffer, `running` | several tasks drain one buffer; stores fail half-way; stop and start again |
| Billing storage (`billing/storage.rs`) | database rows, Redis keys and lists | commands sent one by one, each may be the last |
| Usage and cost (`billing/usage_aggregator.rs`, `simple_aggregator.rs`, `cost_calculator.rs`, `precision.rs`) | hourly buckets; stored summaries; arithmetic | buckets are held outside their map's lock; a dropped clone stops the others; summaries stay once stored; rounding |
| Session store and recovery (`session/`) | Redis keys with a time to live | pipelines are not transactions; restarts with half the containers gone |
| Snapshots (`snapshot/mod.rs`) | snapshots in memory and on disk | restores in steps that overlap; ids made of seconds; metadata truncated before they are written |
| Sandbox files (`filesystem/sandbox_fs.rs`) | a directory tree, a quota | check-then-write; contents written in pieces; path resolution |
| Templates (`template/repository.rs`, `storage.rs`) | disk, slug map, cache, version index | four structures, a lock each |
| Network manager and proxy (`network/mod.rs`, `proxy.rs`) | networks, ports, proxies | a configuration stops half-way |
| WebSocket, terminals, streams (`websocket/`) | connections, subscriptions, sessions, buffers | several tasks per connection, nested locks, a sweep |
| gRPC (`grpc/`) | sandboxes and registry, open streams | handlers dropped between steps; a lock held while a client is slow |
| REST (`server.rs`, `database/repositories/sandbox_repository.rs`) | registry, database row | handlers of one sandbox overlap, and are dropped |
| Tokens (`api/auth.rs`, `auth/jwt.rs`) | blacklist, in memory | claims outlive what they say; a user is read at an await and signed for later |
| Firecracker and its agent (`firecracker/`) | VM map, processes, files | a process survives its handle; files shared by executions |
| Audit, health (`audit/`, `monitoring/mod.rs`) | bounded stores, counters | two paths into one store |
| Database connections (`database/surrealdb/connection.rs`) | pool, in-use flags | flags cleared without the lock |
| Runtimes, hot reload, E2B, CLI (not modelled) | none shared | pure conversion, I/O |

### How they interact

The REST server shares one container manager (`Arc`) with the sandbox manager and
with the handlers of sandbox routes: `create_sandbox` and `delete_sandbox` call
it directly, so the sandbox manager's map is not told. The gRPC service and session
recovery each own a container manager. A handler is a task whose future is
dropped at an `await` when its client goes away; this everyday failure is an
action in the models. The pool uses the container manager only for its thin
Docker calls, so its containers are in no registry. The network manager calls the
port map through the `PortService` trait. The billing service owns its
collectors, which write through the billing storage. The lock-free structures,
error recovery, the startup optimizer, the container pool and the template
repository are not reached from the server at this commit.

`recovery/`, `optimization/`, `dependencies/`, `debug/`, `session/manager.rs`,
`snapshot/checkpoint.rs`, `snapshot/storage.rs`, `e2b/api.rs` and all of
`monitoring/` but `mod.rs` are not compiled, and not modelled.

### What makes each one correct

* Ports: the maps agree, no port is lost or held twice, the limit is overshot by
  the races only.
* Containers and sandboxes: what is registered is tracked, Docker is asked once
  and always for a removal, only failures separate the maps of managers and
  services, temporary sandboxes go, shutdown ends.
* Pools, caches, connections, quotas: one holder at a time, nothing lost; a bound
  that a check-then-act may exceed is exceeded by the races under way only.
* What is recorded (metrics, bills, audit, sessions, snapshots, templates):
  nothing reordered, doubled, or lost but in named ways; what is stale was raced
  for.
* Breakers, terminals, connections: the state changes for a reason, and whoever
  waits is served.

## 2. Modules

```
PortRegistry         abstract: each port has an owner or none
PortMapping          implements PortRegistry        MCPortMapping, PortMapping_proofs
ContainerManager     with Docker as environment     MCContainerManager, ContainerManager_proofs
SandboxManager       EXTENDS ContainerManager       MCSandboxManager, SandboxManager_proofs
ContainerPool, StartupOptimizer                     MCContainerPool, ContainerPool_proofs
LockFreePool (and the cache), SurrealPool,
UsageSummaries                                      MCLockFreePool, LockFreePool_proofs
SessionStore, SessionRecovery (EXTENDS the store),
SandboxFiles, TemplateStore                         MCStores, SessionRecovery_proofs
ErrorRecovery, BillingBreaker, Connections,
Terminal, BillingCollector                          MCResilience
Monitoring (health), Audit, Streams,
Snapshots, SandboxNetworks, AuthTokens,
GrpcSandboxes (and the streams), RestSandboxes,
FirecrackerVMs (and the agent), StreamCollector,
BillingStorage, UsageAggregator, CostCalculator     MCServices, Services_proofs
```

Conventions. A variable such as `op[t]`, `pc[w]` or `call[c]` is where a task is
between two actions, with the local variables it carries; an action is what runs
without another task seeing an intermediate state (a lock section, an atomic
operation, one Redis command, the code between two `await`s). A call that
returns without effect is a stutter and has no action. Definitions marked *the
defect* are never part of a specification; each is a wrong variant of the
definition next to it, kept to show that a property notices it. History
variables are said to be such where they are declared.

Composition by focus. Components that share no state need no product of their
behaviours: `MCServices`, `MCResilience`, `MCStores`, `MCLockFreePool` and
`MCContainerPool` let one component, named by `focus`, move in a behaviour while
the others keep their initial state; the invariants are conjunctions of theirs. Components that do
share state are composed by EXTENDS: `SandboxManager` runs on `ContainerManager`,
`SessionRecovery` on `SessionStore`. `SandboxNetworks` uses ports as the registry
of owners that `PortMapping` implements; the gRPC and REST modules see the
container manager's calls as single steps that may fail.

Runs say `CHECK_DEADLOCK FALSE` where the model does stop: one-time ids run out,
a bound is reached, or the system has been shut down (and, in `BillingBreaker`,
where the code itself can deadlock, see section 5).

### Ports: PortMapping

`allocated` and `sandbox_ports` are the two maps. `allocate_port` is
`CheckLimit` (its own lock section), then `Allocate` with both locks or
`AllocateFails`; `release_ports` is `TakePorts`, then `FreePorts`. Nested locks
are always taken in one order, which is why a section can be one action. Ports
outside the allowed ranges never enter the maps, so `Ports` are the allowed
ones; that a host may refuse a port is `AllocateFails`. `release_port` has no
caller and is not modelled; `cleanup_inactive_ports` looks for a flag nobody clears. Statistics: only
`active_allocations`, because `release_ports` subtracts from it.

`MCPortMapping_service`: two threads, two sandboxes, three ports, limit one, so
that full, overfull and emptied-while-allocating all occur. `Ownership` (the maps
agree, no port lost, none about to be released twice), `LimitOvershoot` (the
limit's real bound: threads minus one more), `ReleaseCompletes`, and the
refinement of `PortRegistry`. Fairness: a call, once made, runs to its end,
because the methods are synchronous and never wait for each other.

### Containers: ContainerManager, SandboxManager

`create_sandbox_container` is `BeginCreate` (permit and shutdown flag),
`CreateInDocker`/`CreateFails`, `Register`/`RegisterDuplicate`;
`remove_container` is `BeginRemove`, `Cleanup` (the compare-exchange on
`cleaned_up`), `RemoveFromDocker`, `Unregister`. `DropLast` is `Drop` of the
last `Arc`; `Referenced` says who holds one. `Cancel` drops a handler's future
at each of its awaits. `shutdown` is `SignalShutdown`, `SpawnRemovals`, one
`SpawnedRemoval` per key, `FinishShutdown`. Docker is external: names are unique
among existing containers and every call may fail; `"stuck"` is a container
whose one removal failed, since the code swallows that error. Waiting times are
nondeterminism: shutdown may stop waiting for permits at any time and records
in `late` whether it did.

In `SandboxManager` each method is wrapped around the manager's actions:
`call[w]` is the method, `op[w]` the step inside. `CreateSandbox` to `Activate`
is `create_sandbox` (and its template and temporary variants), `TakeOut` to
`Removal` is `destroy_sandbox`, first out of the map and then out of the
manager. A creation of kind `"rest"` is that of the REST server: it registers
and starts its container and ends in `AnswerRest`, never in the map; `told`
remembers whose id a client was given. `DeleteSandbox` is the other REST route;
`CancelCall` drops a handler.

`MCContainerManager_reuse`: callers choose sandbox ids freely (`FreshIds =
FALSE`), two handlers, two ids, three containers, two permits: a re-creation
while an old removal is under way and a duplicate besides, with a shutdown in
the middle. `ManagerInv` (types, `MetricsBalance`, `CleanShutdown`),
`RegisteredIsTracked`, `CleanupOnce`, `NoOrphan`.
`MCSandboxManager_destroy`: three handlers, one sandbox, two permits, so that a
permit can be refused while another handler deletes the sandbox and a shutdown
begins. Ids are uuids here (`UuidAssumption`). `SandboxInv` (types, active
sandboxes are registered, what is in the manager only is in a REST client's hands,
in a method's, or was lost by a failure), `RemovesWhatItCleaned`, `OperationsEnd`
(temporary sandboxes, shutdown, unreachable containers). Fairness: every task is
polled until it ends or is dropped; Docker calls end because the code times them out; a shutdown,
once begun, goes on. Nobody has to call anything.

### Pools and caches: MCContainerPool, MCLockFreePool

*ContainerPool*: only the hot level is ever filled; the warm and cold maps stay
empty and are left out. `get_container` is `GetHit`/`CountHit` or `GetMiss` to
`CountMiss`; `return_container` is `CheckHealth`, `DestroyUnhealthy` or `Push`;
the maintenance cycle is `Prune`, `KillIdle`, the health checks (which hold the
write lock across awaits: `LockFree`), `Refill`; `AbortMaintenance` and
`DestroyPool` are the shutdown. Clients return what they got, once. *Startup
optimizer*: `prewarmed`, a set of numbers in the order the containers were made,
behind one lock that warming (`Ensure`) keeps until the last task of its `batch`,
each with a permit of a semaphore, has ended; requests need the lock, and when
the pool is empty a permit. A request that was served cold averages its time
over the cold starts less the warm ones (`CountCold`): if they are as many it
divides by zero, if fewer it underflows, and its task panics (`"panicked"`), the
new container with it. `WarmPoolInv` says that this needs a container given out
warm before, `RequestsEnd` that every request is answered or panics.

`MCContainerPool_pool`: two clients, three containers, minimum and maximum one,
at most two faults (Docker errors, cancelled calls): a client can take the
pooled container while maintenance is about to refill and the other returns one.
`PoolInv` (one holder, destroyed is unreachable, nothing running forgotten),
`PoolOvershoot`, `Replenishes`; two warmers, target two and one permit for the
optimizer: `WarmPoolInv`, `RequestsEnd`. Fairness: maintenance, warming tasks
and requests under way are polled (weak fairness suffices).

*LockFreePool*: `acquire_sandbox` is `Pop`, else `Load`, `Increment` (one
compare-exchange), `Create`, `Activate`; `release_sandbox` is `Deactivate`,
`Push`. The cache: an insert is length check, search, eviction and insertion. The
metrics: a recording thread increments relaxed counters, which are therefore
unordered, and a snapshot loads them one by one. *SurrealPool*:
connections lent by a scan under the lock, counted and connected outside it,
handed back by clearing a flag, checked under the lock.
*UsageSummaries*, a cache too: a summary of a period is computed, then stored for
ever; a wider period adds up those inside it, shared instants and all.

`MCLockFreePool_race`: four callers of a pool of two and a third id that must
never be needed (`Custody`, `CreationBounded`); `BoundsInv`: a lone insert keeps
the cache's bound, a snapshot's failures exceed its executions only by recordings
it raced with (else `success_rate` underflows), a connection has one user
and keeps it, the connection pool overshoots by callers minus one, and an invoice
is exact unless metrics came late or other periods' summaries were merged.

### Stores: SessionStore, SessionRecovery, SandboxFiles, TemplateStore

*SessionStore*: Redis keys with deadlines; the commands of a pipeline run one by
one, and a lost connection leaves a prefix (`Disconnect`). A server updates a
session by writing back its copy. *SessionRecovery*: after `Restart`, with
containers stopped or gone, `Discover` reads the indexes of the users it can
guess, then for each session `Exists`, `Remedy`, `Recreate`, `Start`, `Update`.
*SandboxFiles*: a tree of places; `Resolve` is `resolve_path`, links included;
`write_file` is the check of the quota, the opening (which makes parents and
truncates) and the filling, chunk by chunk from the start of the file, between
which other callers run, so that two writers leave a mixture. *TemplateStore*:
disk, slug map, least-recently-used cache and version index, one step for each
in the order the code has.

`MCStores_race`: one server and the recovery service, two sessions of one user,
two containers, one fault, sessions of two ticks with a buffer of one, and a
clock of three: the user's set expires while a session is being entered in it,
and `EXPIRE` finds none (`cut` remembers whose). Elsewhere an index outlives its
sessions (`IndexOutlivesSessions`); `RecoveryInv` and `StopsOnlyExpired` are
about each session whose own recovery met no failure (`harmed`), whatever failed
for the other. Two writers of one and two units under a quota of two, paths in a
standard directory, outside it, and above the root: by `StoredInv` a path reads
back what was written to it until somebody overwrites or deletes it, if it was
written by one writer alone and no path that climbs above the root means its
place (`Hidden`); the quota is passed by at most one file for each racing writer
but the last. Two editors, two templates, two slugs, a cache of one, one
version: what is stale of a template was raced for, and the cache keeps its
bound.

### Progress: ErrorRecovery, BillingBreaker, Connections, Terminal, BillingCollector

*ErrorRecovery*: asking the breaker, running the operation and recording its
outcome are three steps; recoveries hold permits. Times are ages. *BillingBreaker*:
`is_open` and `on_failure` take the same two mutexes in opposite order; a step is
what runs between two awaits. *Connections*: a task and a heartbeat per
connection, a sweep that collects under one lock and removes under another.
*Terminal*: shell (and what it left in the background), connection, two readers,
the client's messages and the writer of stdin around a session's lock, a map and
two bounded channels, the lock being kept while a full channel is waited for.
*BillingCollector*: a metric is the number of its collection, which makes order
visible. `TakeMessage` is one turn of the processor's loop up to the flush;
`TimerTick` a tick, and the flush in `stop_collection`; `CreateNext`,
`BatchStored` and `BatchFails` are `store_metrics_batch`: creating a record that
exists fails, and Redis comes last, so a batch can fail with records stored and
then fails at every retry.

`MCResilience_progress`: two callers with a threshold of two for each breaker;
two connections; one terminal with a channel of one; a buffer of three, four
metrics, one injected failure and one timer (a batch that failed half-way fails
again until a metric is pushed out of the buffer).
`BreakersAreEarned` (a breaker closes on proof and is tested after quiet),
`CallsAreServed` (calls return, an open breaker is tested as long as somebody
asks), `NoZombie` (a connection the sweep dropped is closed), `ExitUnblocks` (once
nobody has the shell's pipes whoever waits for its session gets it, provided the
client takes its output; not when the connection is on its way out), `LossIsAccounted` and
`Drains` (metrics are lost in named ways only, and do not stay in the collector
while it runs), `Inv` (types, subscriptions are fed, no metric is reordered or
doubled). Fairness: time passes, timers fire, spawned tasks are polled, and
tokio's locks, channels and semaphores serve their waiters in turn (strong
fairness, one condition for each task). Shells, clients and callers do as they
like; in particular nobody has to take output.

### Services: MCServices_focus

Fifteen components, safety only; each instance is small (two to three actors,
two ids, the bounds named in the cfg) but has its hard case:

| Invariant | Says |
|---|---|
| `RecordsInv` | Audit: only the oldest entries go although log_sync overtakes the channel, and pages cover the log. Health: a component is what its last checks say, and the whole is healthy only if all are |
| `StreamsInv` | a stream with a subscriber is not cleaned up; the buffer is the end of what was broadcast |
| `SnapshotsInv` | a restore that met no other brings back what its snapshot saw, but for files written meanwhile; what is listed is on disk as listed, unless an id was given out twice and its metadata truncated |
| `NetworksInv` | a sandbox is behind the proxy its configuration names; ports and networks agree, whatever failed half-way, but where that failure is named |
| `TokensInv` | logging out ends the login's tokens until the server is restarted, those a refresh is about to sign included; a role that was taken fades within a token's life, but for a request that had read the user and not signed yet |
| `RequestsInv` | gRPC: what the service tells about has a container, one deletion at a time, only failures leave others; streams and their map agree. REST: a deleted or untold container runs on only if Docker refused, or the client had gone (`brokenOff`). Firecracker: a process is out of reach for a named reason, never after an orderly stop. Agent: an execution runs its own code (Java excepted, see section 5), and "completed" means over |
| `BillsInv` | Stream collector: each metric is in one place, lost only at the processor's end, or between Redis and an error. Storage: what is shown for a session is billed once its range is widened to whole seconds, what was acknowledged is listed, copies have their invoice's status. Usage: nothing is billed twice, every metric is accounted for. Costs: the bill against its exact value within the rounding of usage, rates and products; subtotals rise with usage (totals do not, where a volume discount sets in) |

## 3. Bounds

They are the smallest at which the cases named above occur; each property is
shown to be sensitive by at least one defect of a mapped definition that makes
TLC find it violated under the same bounds. Time is a small clock or an age that
stops at its threshold; faults are counted where they would repeat for ever.
Symmetry is used in runs without liveness, over sets whose elements no
definition tells apart (callers, sandbox ids, sessions, containers, templates,
their editors, restores). In `MCServices_focus` two user reads (`MaxSubjects`) and a clock of three are a
login, a refresh that overlaps a change of role, and the end of a token's life;
one adder, two metrics and three half hours give a late metric a second bucket of
its hour; one period (`OnePeriod`) meets two hours; money has ten grains to a
coin, usage four parts to a unit (`Unit`), so that each rounding has its ties.

## 4. What is proved

`PortMapping_proofs` (for all threads, sandboxes, ports and limits, from
`PortAssumption`):

* `TypeCorrect`, `OwnershipCorrect`. The inductive invariant is `TypeOK` with
  `ListedIsOwned`, `NoLostPort` and `NoSharedRelease`; none is inductive alone.
* `ReleaseCorrect`: `ReleasesOnlyOwn`, from that invariant.
* `LimitBounded`: `LimitOvershoot`, by counting a sandbox's list and the threads
  that passed the check for it and have not inserted yet.
* `RefinesRegistry`: every step is a step of `PortRegistry` or a stutter.

`ContainerManager_proofs` (for any tasks, sandbox ids, containers and permits,
from `ManagerAssumption`, whether or not callers reuse ids unless said):

* `TypeCorrect`. The strengthening, `CarriesCont`, says that a task about to
  register or clean up has a container.
* `CleanupOnceAlways`, `NoOrphanAlways`. The inductive invariant `CleanupInv`
  relates who can reach a container, its `cleaned_up` flag and Docker: what can
  be reached and is not cleaned up is in Docker (`Known`, `Made`); an unregistered
  container belongs to one task (`Private`), so refusing a duplicate disturbs no
  one; a remover owns the flag (`Removers`, `OneRemover`), and the container is
  not forgotten meanwhile (`Remembered`); shutdown's removal tasks do nothing
  before they are spawned (`Unspawned`).
* `TrackedAlways`: `RegisteredIsTracked`, which is inductive with the types.
* `RemovesWhatItCleanedAlways`, for ids that are not reused (`FreshIds`). The
  method looks the id up again after an `await`, so the proof must know that an id
  names one container for ever: `UniqueIds` says it of Docker's names, both maps
  (`EntryNames`), the tasks that make a container (`Makers`) and those that remove
  one (`Carried`). With reused ids it is false: the reuse run does not ask for it.
* `ManagerInvAlways`. `CleanShutdown` needs to know of the removal tasks
  (`ShutdownInv`): each is of its own sandbox (`Owner`); once all permits are back
  nothing is being made, and what is registered has a removal on its way or one
  that gave up (`Closed`); shutdown ends after them (`Joined`). `MetricsBalance`
  is by counting: an equation with fresh ids, else an inequality.

`SandboxManager_proofs` (from `ManagerAssumption` and `UuidAssumption`):

* `SandboxesRemoveWhatTheyCleaned`. A step of a method is one of the container
  manager's operations only if the method is where it should be in it, and that
  (`Fits`, for every handler) is an invariant of the proof (`RunsOnTheManager`).
* `SandboxInvAlways`. The container a method is about to start or insert is
  registered or its cleanup has begun (`Held`), and what is registered but not
  active is in a method's hands, not just in its name, in a REST client's, or was lost
  (`Accounted`).

`ContainerPool_proofs` (for any clients, containers, limits and number of faults,
from `PoolAssumption`): `PoolInvAlways`, `OvershootBounded`. The inductive
invariant has `Shape`, which locals a program counter implies and which of the
maintenance task's lists are empty when; `Bounded`, the overshoot counting what
is still to be made, because `Prune` counts and `RefillPush` adds much later;
`Apart`, the places a container can be, disjoint and without repetition;
`Unmade`, that what Docker has not made is in none of them; `Unreached` and
`Leakless`, the last two parts of `PoolInv` with the container maintenance is
making. Lemmas (`TailAsSet`, `AppendAsSet`, `CutAsSets`, `JoinAsSet`) say what the queue
operations do to those sets. `WarmPoolInvAlways` (from
`OptimizerAssumption`): the pool's lock has one holder, for exactly as long as
its batch has tasks, and what is warm together with what the batch still makes
stays within the target (`WarmIInv`).

`LockFreePool_proofs` (for all sets of callers, ids and maxima, from
`PoolAssumption`; that the compared cardinalities are of finite sets is proved):
`TypeCorrect`, `CustodyAlways`, `CreationBoundedAlways`. The inductive invariant
says what each program counter implies about the locals, that every sandbox in a
hand or in the queue is born, and `Exclusive`; the counter can only step from the
value the caller compared with the maximum. `SurrealInvAlways` (from
`SurrealAssumption`) is about the database connections, one conjunct of
`BoundsInv`; the others are only model-checked. Its `Lent` adds to `FlagIsUse`
and `LentIsKept` that a connection the health check has marked to be dropped is
not in use, or has expired; the overshoot is by counting the tasks past the check.

`SessionRecovery_proofs` (for any clients, users, sessions and containers, from
`StoreAssumption` and `RecoveryAssumption`) has two invariants on top of each other.

* `IndexOutlives`, under two conditions the code meets: no session is extended
  (`Session::extend` has no caller), and a session is meant to last no longer
  than the set's extra day. An `EXPIRE` may move a set's deadline back, by a
  session with little time left, so that it is never before another session's
  needs that no session lasts longer than one made now (`Last`). `SessionIInv`
  says: a pipeline is about one session and has an `EXPIRE` behind each `SETEX`
  and `SADD` (`PipelineOK`); every copy that a client or recovery may write back
  has a deadline by `Last` (`CopyFacts`); a listed session that is past its index
  has its `EXPIRE` under way (`IndexCovers`). Without the exception of a set that
  expires between `SADD` and `EXPIRE` it is false, which an attempt at this proof
  brought out: TLC's clock had been too short to see it.
* `RecoveryInvAlways` and `StopsOnlyExpiredAlways`, without those conditions, and
  session by session: a failure is remembered for the session it was met for.
  `RecIInv` adds where containers are written down. `Belongs`: wherever a
  container is named (a stored session, a copy in a client's hand, a command on
  its way, the recovery's current session) it is with one session only, and only
  once it was made, so a container recovery stops belongs to nobody else.
  `Recovering`: a copy the service still has to look at is what is stored, because
  nobody else writes after the restart. `Waiting`: while the service waits, the
  session's deletion is still to come, or its new container is written or about
  to be, or something failed for it. That a stored session is not alive past the expiry
  it contains, whatever its time to live, is `StoreTyped`.

`Services_proofs`, for four of the services:

* `TokensInvAlways` (from `TokensAssumption`). `TokenFacts`: what one login gave out,
  or is about to sign, is about one user and, with a repository, under one id, so
  that it shares the mark a logout puts on the blacklist; a reading whose role is
  no longer the stored one is marked `late`, and so is what is signed from it.
* `NetworksInvAlways` (from `NetworksAssumption`), inductive but for what a
  configuration and a log are: a proxy and its bounded log come and go together
  (`NetIInv`).
* `StreamsInvAlways`. `StreamIInv`: a task that subscribes keeps its stream in the
  map, one publisher at most holds the buffers' lock, and a buffer is the end of
  what was broadcast, its holder's message being broadcast in a moment.
* `SnapshotsInvAlways` (from `SnapshotsAssumption`). `SnapIInv`: a copy on disk holds
  what its snapshot saw (`Disk`); restores that are under way together know it
  (`Crowds`); the path of each ends in the snapshot it was asked for (`Where`),
  and one that met no other has brought, or has still to bring, every file nobody
  wrote meanwhile (`Brings`).

TLC checked each strengthening on a small instance first (`RecIInv` on 3 917 850
states). Only model-checked: all liveness
(`ReleaseCompletes`, `OperationsEnd`, `Replenishes` and the like), because it
rests on fairness and `ENABLED`, and the properties of every module not named in
this section.

## 5. Findings

Each of the first four is the subject of a run that ends in a counterexample.

1. `MCStores_files`: a path that does not exist yet is resolved to the root
   followed by all components of the full path, the root's own included, so a
   new file never appears in the listing of its directory
   (`filesystem/sandbox_fs.rs:375`).
2. `MCResilience_typing`: a terminal's reader keeps the session's lock while it
   waits for output, so what the client types is not handled while the shell
   waits for input (`websocket/pty.rs:183`).
3. `AuthTokens_revoked`: tokens are recognised by their first 64 characters, so
   one logout refuses every token of the user (`auth/jwt.rs:259`).
4. `MCServices_discounts`: what is left of an amount is taken for the discount
   (`billing/cost_calculator.rs:41`).

Behaviours of the code that the models contain and the properties therefore name
as exceptions or bounds (the hazards of `PROJECT.json` give more lines):

* Containers: a creation in flight registers its container after shutdown gave
  up waiting (`manager.rs:722`); a failed start leaves a registered container in
  no other map (`sandbox_manager.rs:72`, gRPC and REST alike).
* Pool: `destroy` passes a Docker id for a sandbox id, so containers are stopped
  and never removed (`pool.rs:938`); an aborted maintenance task loses what it
  holds (1194); a failed start leaves its container (1108).
* Startup optimizer: a cold request panics over the statistics when as many were
  served warm before (`startup_optimizer.rs:541`, 648).
* REST: a client that goes away during the start leaves a running container whose
  id nobody was told; one that goes away during a deletion leaves a container that
  the next deletion takes for cleaned up (`server.rs:476`, `sandbox.rs:373`).
* Lock-free: a snapshot can see more failures than executions (`lockfree.rs:192`);
  `in_use` stays false on a second acquisition (`lockfree.rs:51`);
  two overlapping inserts make the cache one longer for ever (268).
* Billing: the collector's processor may see `running` unset before the start
  and end for good (`simple_collector.rs:239`); `stop_collection` flushes the
  buffer, not the channel; late usage opens a second bucket whose summary replaces
  the first; buckets are hours by rounding to the nearest; the reader's clone, when
  dropped, stops an aggregation started since (`usage_aggregator.rs:643`);
  allowances above the maximal amount make a bill fail; a session's metrics are
  found by the second, a user's exactly (`storage.rs:206`, 245).
* Breakers: `is_open` and `on_failure` of the billing breaker can deadlock
  (`error_handling.rs:180`); rejections count as failures and can reopen a
  half-open breaker (`error_recovery.rs:295`).
* Sessions: recovery reports a container as restarted though its own registry
  is empty and nothing was started (`recovery.rs:181`).
* Snapshots: overlapping restores clear each other's files; a failed write leaves
  truncated metadata (`snapshot/mod.rs:336`); an incremental snapshot made in the second of its base bears its
  id and makes the restore recurse (`snapshot/mod.rs:176`).
* Networks: one without a proxy stays listed after its ports were released
  (`network/mod.rs:336`); a failed configuration keeps its ports.
* Files: content to be replaced counts against the quota; a dangling link can be
  neither deleted nor replaced.
* Templates: an update that races a deletion brings the template back.
* gRPC: the stream map stays locked while a slow client takes its answer; a page
  past the last panics.
* Database pool: expired connections are skipped but counted until the health
  check, so that requests are refused while all are idle.
* Firecracker: a failed configuration, a dropped handler or a second VM leave a
  process behind; concurrent Java executions share their source file
  (`executor.rs:226`); a streamed execution that timed out reads as completed.
* Tokens: `server.rs` nests the auth routes without the layer that supplies
  claims, and without a repository, so that each login draws a new user id; a
  restart empties the blacklist, and what was revoked is good again
  (`auth/jwt.rs:89`).

## 6. Not modelled, and why

The definitions cover about an eighth of the source lines. Some 18 000 lines are
in files that are not compiled; much else is serialisation, command lines,
configuration, database queries and mock answers. In particular:

* *Code executor and runtimes*: images and command lines per language. (REST
  executions of bash, Rust and Go are always refused, because
  `container/sandbox.rs:655` blocks `bash`; `RestSandboxes` says so.)
* *Hot reload*: no file watcher feeds its channel. *E2B*: calls methods that do
  not exist. *Session checkpoints, pool predictor, failover*: no caller.
* *Repositories, migrations, template manager*: one database query per call.
* *API keys, permissions, validation, errors, configuration, CLI*: pure functions.
* *Other WebSocket messages, gRPC file and streaming executions, several REST
  endpoints*: answers with fixed data. *Notifications, dashboards*: reporting.
* What modelled components leave out is in section 2 or in `PROJECT.json`.

Proofs that would say most beyond those of section 4: the gRPC
service's `GrpcSandboxesInv`; order and loss of metrics in BillingCollector
(`LossIsAccounted`); the quota and the contents of SandboxFiles (`StoredInv`).
