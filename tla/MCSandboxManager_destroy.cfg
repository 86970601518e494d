SPECIFICATION SMFairSpec
CONSTANTS
 w1 = w1
 w2 = w2
 w3 = w3
 s1 = s1
 c1 = c1
 None = None
 Workers <- ThreeWorkers
 Sandboxes <- OneSandbox
 Conts <- OneCont
 Permits = 2
 FreshIds = TRUE
INVARIANTS SandboxInv
PROPERTIES RemovesWhatItCleaned OperationsEnd
CHECK_DEADLOCK FALSE
