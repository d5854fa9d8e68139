\* A gap of more than a second at the end of a minute.
CONSTANTS
    u1 = u1
    u2 = u2
    Units = {u1}
    MsPerSec = 2
    SecPerMin = 3
    MinPerHour = 3
    CountRange = 4
    StartTimes <- AroundMinute
    MaxTime = 24
    MaxGap = 3
    MaxBack = 0
    DelExpired = TRUE
SPECIFICATION Spec
INVARIANTS NothingOverdue
