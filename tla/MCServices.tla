---- MODULE MCServices ----
(* The services of the process whose properties are about safety.  They
   share no state: each behaviour is that of one, and Focus names those
   the run is about. *)
EXTENDS Monitoring, Audit, Streams, Snapshots, SandboxNetworks, AuthTokens,
        GrpcSandboxes, UsageAggregator, CostCalculator,
        StreamCollector, FirecrackerVMs,
        BillingStorage, RestSandboxes

CONSTANT Focus  \* the services the run is about

VARIABLE focus

vars == <<focus, auditVars, streamVars, snapVars, netVars, authVars,
          grpcVars, gsVars, usageVars, costVars, metricVars, healthVars, vmVars,
          agentVars, storageVars, restVars>>

Init ==
  /\ focus \in Focus
  /\ AuditInit /\ StreamInit /\ SnapInit /\ NetInit /\ AuthInit
  /\ GrpcInit /\ GsInit /\ UsageInit /\ CostInit
  /\ MetricInit /\ HealthInit /\ VmInit /\ AgentInit
  /\ StorageInit /\ RestInit
  /\ focus # "tokens" => ~stored /\ \A x \in Users : roleOf[x] = CHOOSE y \in Roles : TRUE  \* one of AuthInit's states

\* One service moves, the others do not.
Only(f) ==
  /\ focus = f /\ UNCHANGED focus
  /\ f # "audit" => UNCHANGED auditVars
  /\ f # "streams" => UNCHANGED streamVars
  /\ f # "snapshots" => UNCHANGED snapVars
  /\ f # "networks" => UNCHANGED netVars
  /\ f # "tokens" => UNCHANGED authVars
  /\ f # "grpc" => UNCHANGED grpcVars
  /\ f # "grpcstreams" => UNCHANGED gsVars
  /\ f # "usage" => UNCHANGED usageVars
  /\ f # "costs" => UNCHANGED costVars
  /\ f # "collector" => UNCHANGED metricVars
  /\ f # "health" => UNCHANGED healthVars
  /\ f # "firecracker" => UNCHANGED vmVars
  /\ f # "agent" => UNCHANGED agentVars
  /\ f # "storage" => UNCHANGED storageVars
  /\ f # "rest" => UNCHANGED restVars

Next ==
  \/ Only("audit") /\ AuditNext
  \/ Only("streams") /\ StreamNext
  \/ Only("snapshots") /\ SnapNext
  \/ Only("networks") /\ NetNext
  \/ Only("tokens") /\ AuthNext
  \/ Only("grpc") /\ GrpcNext
  \/ Only("grpcstreams") /\ GsNext
  \/ Only("usage") /\ UsageNext
  \/ Only("costs") /\ CostNext
  \/ Only("collector") /\ MetricNext
  \/ Only("health") /\ HealthNext
  \/ Only("firecracker") /\ VmNext
  \/ Only("agent") /\ AgentNext
  \/ Only("storage") /\ StorageNext
  \/ Only("rest") /\ RestNext

Spec == Init /\ [][Next]_vars

(* What the process notes about itself: the audit log and its health. *)
RecordsInv == AuditInv /\ HealthInv

(* Requests that create, use and end sandboxes: the gRPC services, the REST
   handlers, and Firecracker's VMs with the agent inside them. *)
RequestsInv == GrpcSandboxesInv /\ GrpcStreamsInv /\ RestInv /\ FirecrackerInv /\ AgentInv

(* What is billed: metrics as they are collected and stored, usage, and its
   cost. *)
BillsInv == StreamCollectorInv /\ StorageInv /\ UsageInv /\ CostsInv

----
CONSTANTS p, q, cpu, mem, r1, r2

NoPortOneOrTwo == {<<>>, <<p>>, <<p, q>>}

(* Restores differ in nothing but their names. *)
RestorersAlike == Permutations(Restorers)

(* Two readings of one session and of one second. *)
OneSession == [k \in {r1, r2} |-> [session |-> p, time |-> IF k = r1 THEN 2 ELSE 3]]

OnePeriod == {<<0, 4>>}

(* Usage is rounded to halves and to whole units of four parts. *)
HalvesAndWholes == [k \in Kinds |-> IF k = cpu THEN 2 ELSE 4]

(* A rate below half a coin, one half way between two coins, and allowances
   below and above the most that may be charged. *)
FourTiers ==
  {[k \in Kinds |-> [rate |-> t[1], free |-> t[2]]] : t \in {<<4, 0>>, <<15, 50>>, <<25, 50>>, <<25, 200>>}}

Discount(percent, fixed, threshold, over) ==
  [percent |-> percent, fixed |-> fixed, threshold |-> threshold, over |-> over]

FiveOffers ==
  {<<>>, <<Discount(10, 0, 0, FALSE)>>, <<Discount(20, 0, 0, FALSE), Discount(0, 500, 0, FALSE)>>,
   <<Discount(15, 0, 1000, FALSE)>>, <<Discount(50, 0, 0, TRUE), Discount(0, 70, 0, FALSE)>>}
====
