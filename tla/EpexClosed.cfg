\* A read made after the peer has closed.
CONSTANTS
    Socks = {s1}
    ListenSocks = {}
    Stubs = {n1}
    Tasks = {t1}
    NULL = NULL
    RxCap = 1
    TxCap = 1
    EvtSize = 1
    PeerEvents = {"send", "close"}
    ReadSizes = {1}
    WriteSizes = {}
    Timed = {FALSE}
    Requests <- MCRequests
    IdleTimers = {FALSE}
    PollSizes = {1}
    Calls = {}
    ClockStepsBack = FALSE
SPECIFICATION ServedSpec
PROPERTIES ReadAfterCloseAnswered
