\* An error on a socket with an idle timeout.
CONSTANTS
    Socks = {s1}
    ListenSocks = {}
    Stubs = {n1}
    Tasks = {t1}
    NULL = NULL
    RxCap = 1
    TxCap = 1
    EvtSize = 1
    PeerEvents = {"send", "reset"}
    ReadSizes = {2}
    WriteSizes = {}
    Timed = {FALSE}
    Requests <- MCRequests
    IdleTimers = {TRUE}
    PollSizes = {1}
    Calls = {}
    ClockStepsBack = FALSE
SPECIFICATION Spec
PROPERTIES ErrorIsFinal
