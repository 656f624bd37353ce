\* The instance of MCShared with a host that has no address.
CONSTANTS
    u1 = u1 u2 = u2 u3 = u3 u4 = u4 h1 = h1 h2 = h2 h3 = h3
    s1 = s1 s2 = s2 a1 = a1 a2 = a2 i1 = i1 i2 = i2 f1 = f1 f2 = f2
    None = None
    Urls <- ThreeUrls
    Hosts = {h1, h2}
    Ports = {80, 81}
    Files = {f1, f2}
    HostOf <- SharedHostOf
    PortOf <- SharedPortOf
    FileOf <- SharedFileOf
    Privileged = {u3}
    Idn = {}
    Slots = {s1}
    SlotOf <- SharedSlotOf
    Addrs = {a1}
    IPs = {i1}
    IPHashOf <- SharedIPHashOf
    SlotHash <- OneSlotHash
    Numeric = {h2}
    Literal <- BadLiteral
    UseProxy = FALSE
    IgnoreRobots = FALSE
    RobotsTxt <- RobotsF1
    StartUrls <- StartOne
    InputUrls = {u3}
    InputTests = {TRUE}
    LinkedUrls = {u2}
    NbConn = 2
    DnsConn = 1
    MaxIPUrls = 2
    RamUrls = 3
    MaxPerCall = 2
    MaxUrlsBySite = 4
    LimitUrl = 4
    LimitWait = 3
    LimitPrio = 4
    LimitPrioWait = 2
    WaitDuration = 1
    DnsValid = 1
    Period = 2
    HalfPeriod = 1
    Gaps = {1}
    UintRange = 65536
    MaxCopies = 1
SPECIFICATION FairSpec
PROPERTIES
    EveryUrlReported
    Ends
