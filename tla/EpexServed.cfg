\* Liveness with peers that go on reading and sending, and no timeouts.
CONSTANTS
    Socks = {s1}
    ListenSocks = {}
    Stubs = {n1}
    Tasks = {t1, t2}
    NULL = NULL
    RxCap = 2
    TxCap = 1
    EvtSize = 1
    PeerEvents = {"send", "close", "drain"}
    ReadSizes = {1, 2}
    WriteSizes = {2}
    Timed = {FALSE}
    Requests <- MCRequests
    IdleTimers = {FALSE}
    PollSizes = {1}
    Calls = {}
    ClockStepsBack = FALSE
SPECIFICATION ServedSpec
PROPERTIES WriteServed ReadServed
