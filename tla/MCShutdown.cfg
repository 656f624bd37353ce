\* Every caller and one signal, with and without the high level mode.
CONSTANTS
    h1 = h1
    HttpPort = TRUE
    HighLevels = {TRUE, FALSE}
    LimitTime = TRUE
    LimitPage = TRUE
    EarlySignals = FALSE
    Handlers = {h1}
SPECIFICATION FairSpec
INVARIANT
    TypeOK
PROPERTIES
    ServerOutlivesSearch
    LimitStops
    LowServerEnds
