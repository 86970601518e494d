---- MODULE MCPortMapping ----
(* Small instances of PortMapping for TLC: two threads race over two
   sandboxes and three ports with a limit of one, so that a sandbox can be
   full, overfull, and emptied while another allocation is in flight, and
   there is a port left for an overshoot by more than one. *)
EXTENDS PortMapping, TLC

CONSTANTS t1, t2, s1, s2, p1, p2, p3

MCThreads == {t1, t2}
MCSandboxes == {s1, s2}
MCPorts == {p1, p2, p3}

Symmetry == Permutations(MCThreads) \cup Permutations(MCSandboxes) \cup Permutations(MCPorts)
====
