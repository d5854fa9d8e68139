\* Gaps of up to more than a minute.
CONSTANTS
    u1 = u1
    u2 = u2
    Units = {u1, u2}
    MsPerSec = 2
    SecPerMin = 3
    MinPerHour = 3
    CountRange = 4
    StartTimes <- AroundMinute
    MaxTime = 26
    MaxGap = 8
    MaxBack = 0
    DelExpired = FALSE
SPECIFICATION FairSpec
INVARIANTS LinkedOnce EmptyBelow CountIsUnits
PROPERTIES NeverEarly NextReturns
