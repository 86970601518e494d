---- MODULE PortMapping ----
(* PortMappingManager (src/network/port_mapping.rs): two maps guarded by
   two mutexes, `allocated_ports` by host port and `sandbox_ports` by
   sandbox, and a third mutex around the statistics.  Every method is
   cut into the sections it runs under a lock: a section is one action,
   and the sections of several threads interleave.  Nested locks are
   always taken in the order allocated_ports, then sandbox_ports or stats,
   so a section never waits for a thread that waits for it. *)
EXTENDS Naturals, Sequences, FiniteSets

CONSTANTS Threads,  \* the threads that share the manager
          Sandboxes,  \* sandbox ids
          Ports,      \* allowed ports: in available_ranges, not in reserved_ports
          MaxPorts,   \* max_ports_per_sandbox
          None        \* the absent map entry

ASSUME PortAssumption ==
  /\ IsFiniteSet(Threads) /\ Threads # {}
  /\ MaxPorts \in Nat
  /\ None \notin Sandboxes

VARIABLES
  allocated,      \* allocated_ports: [Ports -> Sandboxes or None]
  sandbox_ports,  \* sandbox_ports: the Vec of each sandbox, <<>> when absent
  active,         \* stats.active_allocations
  op              \* op[t]: what thread t keeps across its lock sections

vars == <<allocated, sandbox_ports, active, op>>

\* pc: "idle" between calls; "allocate" in allocate_port after the limit check;
\* "free" in release_ports after its first section.
Idle == [pc |-> "idle", sb |-> None, ports |-> <<>>]

Held(s) == {s[i] : i \in 1..Len(s)}

Init ==
  /\ allocated = [p \in Ports |-> None]
  /\ sandbox_ports = [s \in Sandboxes |-> <<>>]
  /\ active = 0
  /\ op = [t \in Threads |-> Idle]

----
CheckLimitOffByOne(t, s) ==  \* the defect: <= for <
  /\ op[t].pc = "idle"
  /\ Len(sandbox_ports[s]) <= MaxPorts
  /\ op' = [op EXCEPT ![t] = [pc |-> "allocate", sb |-> s, ports |-> <<>>]]
  /\ UNCHANGED <<allocated, sandbox_ports, active>>

(* allocate_port: the limit is read in a lock section of its own.  A call
   refused by the limit returns without touching anything: a stutter. *)
CheckLimit(t, s) ==
  /\ op[t].pc = "idle"
  /\ Len(sandbox_ports[s]) < MaxPorts
  /\ op' = [op EXCEPT ![t] = [pc |-> "allocate", sb |-> s, ports |-> <<>>]]
  /\ UNCHANGED <<allocated, sandbox_ports, active>>

AllocateUnchecked(t, p) ==  \* the defect: contains_key is not asked
  /\ op[t].pc = "allocate"
  /\ allocated' = [allocated EXCEPT ![p] = op[t].sb]
  /\ sandbox_ports' = [sandbox_ports EXCEPT ![op[t].sb] = Append(@, p)]
  /\ op' = [op EXCEPT ![t] = Idle]
  /\ UNCHANGED active

(* allocate_specific_port, or the round of allocate_any_available_port that
   succeeds: with both locks held, check that the port is free and record
   it in both maps.  Neither path counts the allocation in the statistics. *)
Allocate(t, p) ==
  /\ op[t].pc = "allocate"
  /\ allocated[p] = None
  /\ allocated' = [allocated EXCEPT ![p] = op[t].sb]
  /\ sandbox_ports' = [sandbox_ports EXCEPT ![op[t].sb] = Append(@, p)]
  /\ op' = [op EXCEPT ![t] = Idle]
  /\ UNCHANGED active

(* The preferred port is out of range, reserved, taken or busy on the host,
   or every candidate is taken or busy: the call returns an error. *)
AllocateFails(t) ==
  /\ op[t].pc = "allocate"
  /\ op' = [op EXCEPT ![t] = Idle]
  /\ UNCHANGED <<allocated, sandbox_ports, active>>

----
TakeCopy(t, s) ==  \* the defect: get().cloned() for remove()
  /\ op[t].pc = "idle"
  /\ op' = [op EXCEPT ![t] = [pc |-> "free", sb |-> s, ports |-> sandbox_ports[s]]]
  /\ UNCHANGED <<allocated, sandbox_ports, active>>

(* release_ports, first section: take the sandbox's Vec out of the map. *)
TakePorts(t, s) ==
  /\ op[t].pc = "idle"
  /\ op' = [op EXCEPT ![t] = [pc |-> "free", sb |-> s, ports |-> sandbox_ports[s]]]
  /\ sandbox_ports' = [sandbox_ports EXCEPT ![s] = <<>>]
  /\ UNCHANGED <<allocated, active>>

Monus(m, n) == IF m < n THEN 0 ELSE m - n  \* saturating_sub

Live == {p \in Ports : allocated[p] # None}

FreeFirstOnly(t) ==  \* the defect: only the first port is removed
  /\ op[t].pc = "free"
  /\ allocated' = [p \in Ports |-> IF op[t].ports # <<>> /\ p = op[t].ports[1]
                                   THEN None ELSE allocated[p]]
  /\ active' = Monus(active, 1)
  /\ op' = [op EXCEPT ![t] = Idle]
  /\ UNCHANGED sandbox_ports

(* release_ports, second section: remove each taken port from the port map,
   whoever owns it by now. *)
FreePorts(t) ==
  /\ op[t].pc = "free"
  /\ allocated' = [p \in Ports |-> IF p \in Held(op[t].ports) THEN None ELSE allocated[p]]
  /\ active' = Monus(active, Cardinality(Live \cap Held(op[t].ports)))
  /\ op' = [op EXCEPT ![t] = Idle]
  /\ UNCHANGED sandbox_ports

----
(* cleanup_inactive_ports releases the entries whose is_active is false:
   no code clears that flag, so it never finds one and is not an action. *)

\* PortService, the face the network manager uses, has these calls only:
\* release_port has no caller.
Call(t) == \E s \in Sandboxes : CheckLimit(t, s) \/ TakePorts(t, s)

Continue(t) ==
  \/ \E p \in Ports : Allocate(t, p)
  \/ AllocateFails(t)
  \/ FreePorts(t)

ServiceNext == \E t \in Threads : Call(t) \/ Continue(t)

Service == Init /\ [][ServiceNext]_vars

\* A call, once made, runs to its end: the methods are synchronous.
FairService == Service /\ \A t \in Threads : WF_vars(Continue(t))

----
(* The typed shape of the maps and of a thread between two sections. *)
TypeOK ==
  /\ allocated \in [Ports -> Sandboxes \cup {None}]
  /\ sandbox_ports \in [Sandboxes -> Seq(Ports)]
  /\ active \in Nat
  /\ op \in [Threads -> [pc : {"idle", "allocate", "free"},
                         sb : Sandboxes \cup {None},
                         ports : Seq(Ports)]]
  /\ \A t \in Threads : op[t].pc # "idle" => op[t].sb \in Sandboxes

Freeing(t) == IF op[t].pc = "free" THEN Held(op[t].ports) ELSE {}

(* The two maps never disagree about a port: what a sandbox's list holds is
   its own in the port map, also once a release_ports has taken the list
   and until it frees it.  Recording in both maps under both locks (lines
   191-204, 268-276) is what makes this true across threads. *)
ListedIsOwned ==
  /\ \A s \in Sandboxes : \A p \in Held(sandbox_ports[s]) : allocated[p] = s
  /\ \A t \in Threads : \A p \in Freeing(t) : allocated[p] = op[t].sb

(* No allocated port is lost: it is in its owner's list, or a release_ports
   in progress is about to free it. *)
NoLostPort ==
  \A p \in Live : \/ p \in Held(sandbox_ports[allocated[p]])
                  \/ \E t \in Threads : p \in Freeing(t)

(* Nobody frees, or has recorded, the same port twice: two releases of one
   sandbox that race take disjoint lists. *)
NoSharedRelease ==
  /\ \A t, u \in Threads : t # u => Freeing(t) \cap Freeing(u) = {}
  /\ \A t \in Threads, s \in Sandboxes : Freeing(t) \cap Held(sandbox_ports[s]) = {}

(* The two maps and the releases under way always agree about every port. *)
Ownership == ListedIsOwned /\ NoLostPort /\ NoSharedRelease

(* What the check-then-act of the limit (line 143, its lock released before
   line 147) really guarantees: a sandbox exceeds max_ports_per_sandbox by
   at most the other threads that passed the check with it. *)
LimitOvershoot ==
  \A s \in Sandboxes : Len(sandbox_ports[s]) < MaxPorts + Cardinality(Threads)

(* "Release all ports for a sandbox" (line 379): the section that frees
   frees nothing that belongs to another sandbox. *)
ReleasesOnlyOwn ==
  [][\A t \in Threads : op[t].pc = "free" /\ op'[t].pc = "idle" =>
        \A p \in Ports : allocated[p] # allocated'[p] => allocated[p] = op[t].sb]_vars

(* A port that release_ports has taken becomes free for others. *)
ReleaseCompletes ==
  \A p \in Ports : (\E t \in Threads : p \in Freeing(t)) ~> allocated[p] = None

(* The manager implements the registry of owners. *)
Abstract == INSTANCE PortRegistry WITH owner <- allocated
ImplementsRegistry == Abstract!Registry
====
