SPECIFICATION FairService
CONSTANTS
 t1 = t1
 t2 = t2
 s1 = s1
 s2 = s2
 p1 = p1
 p2 = p2
 p3 = p3
 None = None
 Threads <- MCThreads
 Sandboxes <- MCSandboxes
 Ports <- MCPorts
 MaxPorts = 1
INVARIANTS Ownership LimitOvershoot
PROPERTIES ReleaseCompletes ImplementsRegistry
