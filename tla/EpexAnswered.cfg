\* Liveness with timeouts, errors and detaching.
CONSTANTS
    Socks = {s1}
    ListenSocks = {}
    Stubs = {n1}
    Tasks = {t1, t2}
    NULL = NULL
    RxCap = 1
    TxCap = 1
    EvtSize = 1
    PeerEvents = {"send", "close", "reset"}
    ReadSizes = {2}
    WriteSizes = {2}
    Timed = {TRUE}
    Requests <- MCRequests
    IdleTimers = {TRUE}
    PollSizes = {1}
    Calls = {"detach"}
    ClockStepsBack = TRUE
SPECIFICATION FairSpec
PROPERTIES TimedRequestAnswered DyingNotified
