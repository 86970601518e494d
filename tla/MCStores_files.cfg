SPECIFICATION FocusSpec
CONSTANTS
 Focus = {"files"}
 w1 = w1
 svc = svc
 s1 = s1
 s2 = s2
 u1 = u1
 c1 = c1
 c2 = c2
 a1 = a1
 a2 = a2
 e1 = e1
 e2 = e2
 x1 = x1
 x2 = x2
 None = None
 Clients <- OneServer
 Service = svc
 Sessions <- TwoSessions
 Users <- OneUser
 Guessable <- OneUser
 Owner <- SameOwner
 Conts <- TwoConts
 Life = 2
 Buffer = 1
 MaxLife = 14
 Extensions <- NoExtension
 Horizon = 3
 MaxFaults = 1
 Callers <- TwoCallers
 Paths <- FourPaths
 Standard <- OneStandard
 Home <- BaseBox
 Content <- Sizes
 TotalLimit = 2
 FileLimit = 2
 NoPath = NoPath
 Hole = Hole
 Editors <- TwoEditors
 TemplateIds <- TwoTemplates
 Slugs = {"s", "t"}
 MaxVersion = 1
 MaxCacheSize = 1
 NoTemplate = NoTemplate
INVARIANT ListingShowsFiles
CHECK_DEADLOCK FALSE
