\* Two sockets
CONSTANTS
    Socks = {s1, s2}
    ListenSocks = {s2}
    Stubs = {n1, n2}
    Tasks = {t1, t2}
    NULL = NULL
    RxCap = 1
    TxCap = 1
    EvtSize = 1
    PeerEvents = {"send", "reset"}
    ReadSizes = {1}
    WriteSizes = {}
    Timed = {TRUE}
    Requests <- MCRequests
    IdleTimers = {FALSE}
    PollSizes = {1}
    Calls = {"detach", "silence", "accept", "reopen"}
    ClockStepsBack = FALSE
SPECIFICATION Spec
SYMMETRY Symmetry
INVARIANTS NoDangling TaskOwnership DyingSettled NoLostWakeup
PROPERTIES NotifyIsLast DyingIsFinal ImplementsApi
