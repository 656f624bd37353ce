\* Two slots whose hosts may share an address, or an IPSite only.
CONSTANTS
    u1 = u1 u2 = u2 u3 = u3 h1 = h1 h2 = h2 h3 = h3
    s1 = s1 s2 = s2 a1 = a1 a2 = a2 i1 = i1 i2 = i2 f1 = f1
    None = None
    Urls <- MCUrls
    Hosts = {h1, h2, h3}
    Ports = {80}
    Files = {f1}
    HostOf <- MCHostOf
    PortOf <- MCPortOf
    FileOf <- MCFileOf
    Privileged = {}
    Idn = {}
    Slots = {s1, s2}
    SlotOf <- MCSlotOf
    Addrs = {a1, a2}
    IPs = {i1, i2}
    IPHashOf <- MCIPHashOf
    SlotHash <- MCSlotHash
    Numeric = {h3}
    Literal <- MCLiteral
    UseProxy = FALSE
    IgnoreRobots = FALSE
    RobotsTxt <- MCRobotsTxt
    StartUrls <- MCStart
    InputUrls = {}
    InputTests = {TRUE}
    LinkedUrls = {u3}
    NbConn = 2
    DnsConn = 2
    MaxIPUrls = 3
    RamUrls = 3
    MaxPerCall = 2
    MaxUrlsBySite = 4
    LimitUrl = 3
    LimitWait = 2
    LimitPrio = 2
    LimitPrioWait = 2
    WaitDuration = 2
    DnsValid = 2
    Period = 2
    HalfPeriod = 1
    Gaps = {1}
    UintRange = 65536
    MaxCopies = 1
SPECIFICATION PSpec
INVARIANTS
    UrlObjectsExact
    StopsOnlyWhenDone
    ConnAccounting
    FreeConnForFetch
    IPSitesRight
PROPERTIES
    PageSpacing
