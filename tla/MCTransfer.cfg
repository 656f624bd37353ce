SPECIFICATION Spec
CONSTANTS
    NbConn = 2
    Fds <- MCFds
    InitFds = 2
    ReqLen = 1
    MaxRead = 4
    Chunks = {2}
    TimeoutPage = 1
    TimeoutIncr = 1
    LimitBand = 1
    Todo <- MCTodo
    Horizon = 3
INVARIANTS SocketsOwned BandBound SilenceBounded
PROPERTIES ConnectionsEnd EndsOrWaits
CHECK_DEADLOCK FALSE
