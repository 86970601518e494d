SPECIFICATION Spec
CONSTANTS
 w1 = w1
 w2 = w2
 s1 = s1
 s2 = s2
 c1 = c1
 c2 = c2
 c3 = c3
 None = None
 Workers <- TwoWorkers
 Sandboxes <- TwoSandboxes
 Conts <- ThreeConts
 Permits = 2
 FreshIds = FALSE
INVARIANTS RegisteredIsTracked CleanupOnce NoOrphan ManagerInv
SYMMETRY Symmetry
CHECK_DEADLOCK FALSE
