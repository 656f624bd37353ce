\* One host, four urls, a ring of four places, limits in the order of the code.
CONSTANTS
    u1 = u1 u2 = u2 u3 = u3 u4 = u4 h1 = h1 h2 = h2 h3 = h3
    s1 = s1 s2 = s2 a1 = a1 a2 = a2 i1 = i1 i2 = i2 f1 = f1 f2 = f2
    None = None
    Urls <- FourUrls
    Hosts = {h1}
    Ports = {80, 81}
    Files = {f1, f2}
    HostOf <- RingHostOf
    PortOf <- RingPortOf
    FileOf <- RingFileOf
    Privileged = {}
    Idn = {}
    Slots = {s1}
    SlotOf <- RingSlotOf
    Addrs = {a1}
    IPs = {i1}
    IPHashOf <- SharedIPHashOf
    SlotHash <- OneSlotHash
    Numeric = {}
    Literal <- NoLiteral
    UseProxy = FALSE
    IgnoreRobots = FALSE
    RobotsTxt <- RobotsF1
    StartUrls <- StartNone
    InputUrls <- FourUrls
    InputTests = {TRUE}
    LinkedUrls = {}
    NbConn = 1
    DnsConn = 1
    MaxIPUrls = 2
    RamUrls = 8
    MaxPerCall = 2
    MaxUrlsBySite = 4
    LimitUrl = 4
    LimitWait = 3
    LimitPrio = 2
    LimitPrioWait = 1
    WaitDuration = 1
    DnsValid = 1
    Period = 2
    HalfPeriod = 1
    Gaps = {1}
    UintRange = 65536
    MaxCopies = 1
SPECIFICATION Spec
INVARIANT
    RingNeverFull
