---- MODULE PortRegistry ----
(* What the port mapping manager promises its callers: a host port has at
   most one owner, it is granted only while it has none, and it loses its
   owner only because that owner gave it back. *)
CONSTANTS Sandboxes,  \* the sandboxes that own ports
          Ports,      \* the host ports that may be granted
          None        \* "no owner"

VARIABLE owner  \* owner[p]: the sandbox that owns p, or None

RegistryInit == owner = [p \in Ports |-> None]

Grant(s, p) ==
  /\ owner[p] = None
  /\ owner' = [owner EXCEPT ![p] = s]

\* s gives back a set of ports, all of them its own.
Revoke(s, P) ==
  /\ \A p \in P : owner[p] = s
  /\ owner' = [p \in Ports |-> IF p \in P THEN None ELSE owner[p]]

RegistryNext ==
  \E s \in Sandboxes :
      \/ \E p \in Ports : Grant(s, p)
      \/ \E P \in SUBSET Ports : Revoke(s, P)

Registry == RegistryInit /\ [][RegistryNext]_owner
====
