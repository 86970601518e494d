SPECIFICATION Spec
CONSTANTS
 Focus = {"recovery", "breaker", "websocket", "terminal", "collector"}
 Calls = {a, b}
 MaxAttempts = 2
 FailureThreshold = 2
 SuccessThreshold = 2
 Window = 1
 OpenTimeout = 2
 Permits = 1
 Payers = {a, b}
 Free = free
 TripThreshold = 2
 RecoveryTimeout = 2
 Tries = 2
 Conns = {a, b}
 Boxes = {s}
 NotThere = NotThere
 Terms = {a}
 Channel = 1
 Capacity = 3
 Timers = {"timer"}
 MaxMetrics = 4
 MaxFaults = 1
INVARIANT Inv
PROPERTIES BreakersAreEarned CallsAreServed NoZombie ExitUnblocks LossIsAccounted Drains
CHECK_DEADLOCK FALSE
