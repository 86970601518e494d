SPECIFICATION FocusSpec
CONSTANTS
 Focus = {"pool", "cache", "metrics", "surreal", "summaries"}
 t1 = t1
 t2 = t2
 t3 = t3
 t4 = t4
 s1 = s1
 s2 = s2
 s3 = s3
 None = None
 Tasks <- FourTasks
 SandboxIds <- ThreeIds
 MaxSandboxes = 2
 Inserters = {a, b}
 CacheKeys = {j, k, l}
 MaxSize = 1
 MaxRuns = 4
 NoKey = NoKey
 Workers = {a, b}
 Conns = {j, k, l, m}
 MaxConns = 1
 MinConns = 1
 NoConn = NoConn
 Askers = {a, b}
 LastInstant = 2
 MaxUsage = 1
SYMMETRY Symmetry
INVARIANTS Custody CreationBounded BoundsInv
