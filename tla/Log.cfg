\* Two threads and two hours.
CONSTANTS
    Threads = {t1, t2}
    NoThread = NoThread
    Files = {f1, f2, f3, f4, f5, f6, f7, f8, f9, f10}
    NULL = NULL
    Other = Other
    DescNum = 3
    MaxOther = 2
    HourLen = 2
    StartTime = 3
    MaxTime = 5
SPECIFICATION FairSpec
INVARIANTS TypeOK FilesOpen UndisturbedKept
PROPERTIES ArchivesKept CallsReturn
