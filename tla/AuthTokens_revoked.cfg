SPECIFICATION AuthSpec
CONSTANTS
 Users = {u}
 Roles = {r, s}
 AccessLife = 1
 RefreshLife = 2
 MaxClock = 2
 MaxSubjects = 2
INVARIANT OnlyRevokedAreRefused
CHECK_DEADLOCK FALSE
