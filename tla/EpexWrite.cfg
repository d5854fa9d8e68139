\* Writes and connects of one socket whose peer reads, or breaks the connection.
CONSTANTS
    Socks = {s1}
    ListenSocks = {}
    Stubs = {n1}
    Tasks = {t1, t2}
    NULL = NULL
    RxCap = 1
    TxCap = 2
    EvtSize = 1
    PeerEvents = {"drain", "reset"}
    ReadSizes = {1}
    WriteSizes = {1, 3}
    Timed = {TRUE, FALSE}
    Requests <- MCRequests
    IdleTimers = {TRUE}
    PollSizes = {1, 2}
    Calls = {"detach", "connect", "reopen"}
    ClockStepsBack = TRUE
SPECIFICATION Spec
SYMMETRY Symmetry
INVARIANTS ListsMatchStatus NoLostWakeup HonestResults
PROPERTIES ImplementsApi
