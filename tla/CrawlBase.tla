------------------------------ MODULE CrawlBase ------------------------------
(***************************************************************************)
(* The state of larbin's main thread: the frontier queues, the NamedSite   *)
(* and IPSite tables, the connections, the statistics the program decides  *)
(* on, and the place where the main loop is.  IPSite, NamedSite and        *)
(* Crawler are layered above this module.                                  *)
(*                                                                         *)
(* A handler of the program scans lists and calls itself, so it is cut     *)
(* into steps; pc, ci, scanSite, scanLeft, fetching and parsing play the   *)
(* part of the call stack and make the steps of one handler follow each    *)
(* other with nothing in between, exactly as in the single thread.         *)
(*                                                                         *)
(* An url object is a member of Urls (the classes of url::hashCode).       *)
(***************************************************************************)
EXTENDS Integers, Sequences, FiniteSets

CONSTANTS
    Urls, Hosts, Ports, Files,
    HostOf, PortOf, FileOf,   \* what an url is made of
    Privileged,               \* urls matchPrivExt accepts under specificSearch
    Idn,                      \* hosts whose punycode differs from the host
    Slots, SlotOf,            \* namedSiteList and hostHashCode
    Addrs, IPs,               \* internet addresses, IPSiteList
    IPHashOf, SlotHash,       \* ipHash of an address, of a slot (proxy)
    Numeric, Literal,         \* hosts that start with a digit, inet_aton
    UseProxy, IgnoreRobots,
    RobotsTxt,                \* the sets of files a robots.txt may forbid
    StartUrls,                \* startUrl lines of the configuration
    InputUrls, InputTests,    \* what clients of the input port submit
    LinkedUrls                \* what pages may link to

CONSTANTS
    NbConn, DnsConn, MaxIPUrls, RamUrls, MaxPerCall, MaxUrlsBySite,
    LimitUrl, LimitWait, LimitPrio, LimitPrioWait,
    WaitDuration, DnsValid,
    Period, HalfPeriod,       \* 300 and 150 in cron
    Gaps,                     \* seconds that may pass between two crons
    UintRange,                \* 2^32, where namedUrl wraps
    MaxCopies,                \* bound: submissions of one url with test:0
    None

Conns == 1 .. NbConn

ASSUME UrlsAssumption ==
    /\ HostOf \in [Urls -> Hosts]
    /\ PortOf \in [Urls -> Ports]
    /\ FileOf \in [Urls -> Files]
    /\ SlotOf \in [Hosts -> Slots]
    /\ Privileged \subseteq Urls
    /\ Idn \subseteq Hosts
    /\ StartUrls \in Seq(Urls \ Privileged)
    /\ \A i, j \in 1 .. Len(StartUrls) : StartUrls[i] = StartUrls[j] => i = j
    /\ InputUrls \subseteq Urls
    /\ InputTests \subseteq BOOLEAN
    /\ LinkedUrls \subseteq Urls

ASSUME AddressAssumption ==
    /\ IPHashOf \in [Addrs -> IPs]
    /\ SlotHash \in [Slots -> IPs]
    /\ Numeric \subseteq Hosts
    /\ Literal \in [Numeric -> Addrs \cup {None}]
    /\ UseProxy \in BOOLEAN
    /\ IgnoreRobots \in BOOLEAN
    /\ RobotsTxt \subseteq SUBSET Files

ASSUME NoneAssumption ==
    None \notin Urls \cup Hosts \cup Ports \cup Slots \cup Addrs \cup IPs

\* namedSiteList and IPSiteList are tables.
ASSUME TablesAssumption == IsFiniteSet(Slots) /\ IsFiniteSet(IPs)

\* A connection serves either a site (robots.txt) or an url (a page).
ASSUME ParserAssumption == Slots \cap Urls = {}

ASSUME SizesAssumption ==
    /\ NbConn \in Nat \ {0}
    /\ DnsConn \in Nat
    /\ MaxIPUrls \in Nat
    /\ RamUrls \in Nat
    /\ MaxPerCall \in Nat \ {0}
    /\ MaxUrlsBySite \in Nat \ {0}
    /\ {LimitUrl, LimitWait, LimitPrio, LimitPrioWait} \subseteq Nat
    /\ UintRange \in Nat \ {0}
    /\ MaxCopies \in Nat

ASSUME TimeAssumption ==
    /\ WaitDuration \in Nat
    /\ DnsValid \in Nat
    /\ Period \in Nat \ {0}
    /\ HalfPeriod \in 1 .. Period - 1
    /\ Gaps \subseteq Nat \ {0}

VARIABLES
    \* time: now % Period, time since IPSite::lastAccess, since newId, and
    \* until fetchOpen's next_call, each cut where the program stops caring
    clock, idle, dnsAge, callIn,
    \* the frontier
    urlsPriority, urlsPriorityWait, urlsDisk, urlsDiskWait,
    readPriorityWait, readWait, seen,
    \* the sequencer
    interPos, space, still, testPriority,
    \* NamedSite, one value per slot
    name, port, nburls, fifo, isInFifo, dnsState, addr, ipHash, forbidden,
    cname,
    \* DNS
    dnsSites, queries, nbDnsCalls,
    \* IPSite; urlAddr has the field addr of each url object of tab
    tab, ipQueued, okSites, IPUrl, urlAddr,
    \* connections
    parser, freeConns,
    \* statistics: debUrl, namedUrl, and hashUrls and urls kept by url
    debUrl, namedUrl, accepted, reported,
    \* where the main thread is
    pc, ci, parsing, scanSite, scanLeft, fetching

timeVars     == <<clock, idle, dnsAge, callIn>>
queueVars    == <<urlsPriority, urlsPriorityWait, urlsDisk, urlsDiskWait,
                  readPriorityWait, readWait, seen>>
intervalVars == <<interPos, space, still, testPriority>>
identityVars == <<name, port, dnsState, addr, ipHash, forbidden, cname>>
siteVars     == <<identityVars, nburls, fifo, isInFifo>>
dnsVars      == <<dnsSites, queries, nbDnsCalls>>
ipVars       == <<tab, ipQueued, okSites, IPUrl, urlAddr>>
connVars     == <<parser, freeConns>>
statVars     == <<debUrl, namedUrl, accepted, reported>>
controlVars  == <<pc, ci, parsing, scanSite, scanLeft, fetching>>

vars == <<timeVars, queueVars, intervalVars, siteVars, dnsVars, ipVars,
          connVars, statVars, controlVars>>
-----------------------------------------------------------------------------
\* Mutant: one second too early.
RestedEarly(i) == idle[i] >= WaitDuration - 1

\* IPSite::fetch and putUrl: lastAccess + waitDuration <= now.
Rested(i) == idle[i] >= WaitDuration

\* NamedSite::putGenericUrl: now > dnsTimeout.
Expired(s) == dnsAge[s] > DnsValid

\* NamedSite::testRobots.
TestRobots(s, u) == IgnoreRobots \/ FileOf[u] \notin forbidden[s]

\* strcmp(name, u->getPunycode()) == 0, and the same with the port.
SameName(s, u) == name[s] = HostOf[u]
SameSite(s, u) == SameName(s, u) /\ port[s] = PortOf[u]

\* Nothing of a called method is left to do: the caller's next step runs.
Idle == scanSite = None /\ fetching = None

\* The url u is over: `delete u`, after its end was reported.
Report(u) == reported' = [reported EXCEPT ![u] = @ + 1]
=============================================================================
