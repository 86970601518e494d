---- MODULE MCContainerManager ----
(* Two request handlers over one or two sandbox ids, three Docker
   containers and two permits: enough for a removal to race another
   removal, a creation under the same id, and the shutdown. *)
EXTENDS ContainerManager, TLC

CONSTANTS w1, w2, s1, s2, c1, c2, c3

TwoWorkers == {w1, w2}
OneSandbox == {s1}
TwoSandboxes == {s1, s2}
TwoConts == {c1, c2}
ThreeConts == {c1, c2, c3}

Symmetry == Permutations(TwoWorkers) \cup Permutations(TwoSandboxes) \cup Permutations(ThreeConts)
====
