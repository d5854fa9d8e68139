\* Reads and writes of one socket: data, end of file, errors, timeouts, detach.
CONSTANTS
    Socks = {s1}
    ListenSocks = {}
    Stubs = {n1}
    Tasks = {t1, t2}
    NULL = NULL
    RxCap = 2
    TxCap = 1
    EvtSize = 1
    PeerEvents = {"send", "close", "drain", "reset"}
    ReadSizes = {0, 2}
    WriteSizes = {2}
    Timed = {TRUE, FALSE}
    Requests <- MCRequests
    IdleTimers = {TRUE}
    PollSizes = {1, 2}
    Calls = {"detach"}
    ClockStepsBack = FALSE
SPECIFICATION Spec
SYMMETRY Symmetry
INVARIANTS TypeOK NoDangling TaskOwnership TimersMatch HeadOnlyPartial HonestResults
PROPERTIES AnsweredOnce
