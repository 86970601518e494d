SPECIFICATION PoolsSpec
CONSTANTS
 Focus = {"pool", "startup"}
 k1 = k1
 k2 = k2
 c1 = c1
 c2 = c2
 c3 = c3
 None = None
 Clients <- TwoClients
 Conts <- ThreeConts
 MinContainers = 1
 MaxContainers = 1
 MaxFaults = 2
 Callers = {a}
 Warmers = {v, w}
 Target = 2
 MaxStartups = 1
 MaxMade = 4
INVARIANTS PoolInv PoolOvershoot WarmPoolInv
PROPERTIES Replenishes RequestsEnd
CHECK_DEADLOCK FALSE
