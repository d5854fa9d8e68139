\* timer_timeout at least once a second: the wheel is exact.
CONSTANTS
    u1 = u1
    u2 = u2
    Units = {u1, u2}
    MsPerSec = 2
    SecPerMin = 3
    MinPerHour = 3
    CountRange = 4
    StartTimes <- AroundMinute
    MaxTime = 36
    MaxGap = 2
    MaxBack = 1
    DelExpired = TRUE
SYMMETRY Interchangeable
SPECIFICATION Spec
INVARIANTS TypeOK Placed
PROPERTIES ImplementsApi
