SPECIFICATION Spec
CONSTANTS
 Focus = {"costs"}
 cpu = cpu
 p = p
 q = q
 Loggers = {a, b}
 MaxMemoryLogs = 2
 MaxEntries = 4
 Clients = {a, b}
 StreamIds = {s, t}
 BufferSize = 2
 MaxMessages = 3
 Files = {f}
 Restorers = {ra, rb}
 Torn = Torn
 MaxSecond = 0
 MaxVersion = 1
 MaxCopies = 2
 NetBoxes = {a, b}
 NetPorts = {p, q}
 Logged = {d}
 PortLists <- NoPortOneOrTwo
 ProxyConfigs = {d, e}
 MaxLog = 1
 BadProxy = BadProxy
 Nobody = Nobody
 Users = {u}
 Roles = {r, s}
 AccessLife = 1
 RefreshLife = 2
 MaxClock = 2
 MaxSubjects = 2
 Handlers = {a, b, c}
 GrpcBoxes = {s, t, x}
 GrpcClients = {a, b, c}
 MaxStreams = 4
 Adders = {a, b}
 Timers = {v}
 Stopper = stop
 Periods <- OnePeriod
 MaxHalf = 3
 MaxUses = 2
 mem = mem
 Kinds = {cpu, mem}
 Usages = {0, 161, 241, 246, 1202, 40000}
 Tiers <- FourTiers
 Unit = 4
 StepOf <- HalvesAndWholes
 Offers <- FiveOffers
 Coin = 10
 Whole = 100000
 MaxCharge = 10000000
 NoBill = NoBill
 Samplers = {a, b}
 SampleSize = 2
 BatchSize = 2
 Parts = {s, t}
 Monitors = {a, b}
 FailuresToFail = 3
 SuccessesToHeal = 2
 VmBoxes = {s, t}
 Vms = {j, k}
 Enders = {a, b}
 NoVm = NoVm
 Requests = {a, b, c}
 Java = {a, b}
 Streamed = {b, c}
 NoCode = NoCode
 r1 = r1
 r2 = r2
 Readings = {r1, r2}
 Summaries = {p}
 Invoices = {i}
 BillWriters = {a, b}
 Statuses = {Draft, paid}
 Draft = Draft
 SpanOf <- OneSession
 Invalid = {r2}
 MaxWritten = 2
 RestTasks = {a, b}
 RestUsers = {u}
 RestBoxes = {s, t}
 NoBox = NoBox
INVARIANT PercentageIsTakenOff
CHECK_DEADLOCK FALSE
