SPECIFICATION Spec
CONSTANTS
    q1 = q1
    q2 = q2
    Queries = {q1, q2}
    Zone <- BothZones
    NServers = 2
    UdpRetry = 0
    UdpMaxRetries = 2
    TcpWait = 1
    TcpConn = 0
    TcpIdle = 0
    Measured = {q1}
    TcpTruncates = FALSE
INVARIANTS Consistent AllAsked LatencyBounded
PROPERTY Implements
CHECK_DEADLOCK FALSE
