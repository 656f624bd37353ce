------------------------------- MODULE Crawler -------------------------------
(***************************************************************************)
(* larbin's main loop (main.cxx), which calls, in this order, cron once a  *)
(* second, input, sequencer, fetchDns, fetchOpen and checkAll, over the    *)
(* sites of NamedSite and IPSite.                                          *)
(***************************************************************************)
EXTENDS NamedSite, Functions, FiniteSetsExt

\* The structures built by global::global, and the startUrl lines, each of
\* which goes through check.
Init ==
    /\ clock \in 0 .. Period - 1
    /\ idle = [i \in IPs |-> WaitDuration]
    /\ dnsAge = [s \in Slots |-> DnsValid + 1]
    /\ callIn = 0
    /\ urlsPriority = <<>> /\ urlsPriorityWait = <<>>
    /\ urlsDisk = StartUrls /\ urlsDiskWait = <<>>
    /\ readPriorityWait = 0 /\ readWait = 0
    /\ seen = Range(StartUrls)
    /\ interPos = 0 /\ space = 0 /\ still = 0 /\ testPriority = TRUE
    /\ name = [s \in Slots |-> None]
    /\ port = [s \in Slots |-> None]
    /\ nburls = [s \in Slots |-> 0]
    /\ fifo = [s \in Slots |-> <<>>]
    /\ isInFifo = [s \in Slots |-> FALSE]
    /\ dnsState = [s \in Slots |-> "waitDns"]
    /\ addr = [s \in Slots |-> None]
    /\ ipHash = [s \in Slots |-> None]
    /\ forbidden = [s \in Slots |-> {}]
    /\ cname = [s \in Slots |-> FALSE]
    /\ dnsSites = <<>> /\ queries = {} /\ nbDnsCalls = 0
    /\ tab = [i \in IPs |-> <<>>]
    /\ ipQueued = [i \in IPs |-> FALSE]
    /\ okSites = <<>>
    /\ IPUrl = 0
    /\ urlAddr = [i \in IPs |-> <<>>]
    /\ parser = [c \in Conns |-> None]
    /\ freeConns = [c \in Conns |-> c]
    /\ debUrl = 0 /\ namedUrl = 0
    /\ accepted = [u \in Urls |-> IF u \in seen THEN 1 ELSE 0]
    /\ reported = [u \in Urls |-> 0]
    /\ pc = "loop" /\ ci = 1 /\ parsing = FALSE
    /\ scanSite = None /\ scanLeft = 0 /\ fetching = None
-----------------------------------------------------------------------------

\* A counter of seconds that stops at m, where nothing depends on it any more.
Aged(x, d, m) == IF x + d < m THEN x + d ELSE m

\* The time left until next_call, and a mutant without its floor.
RemainingNoFloor(d) == callIn - d
Remaining(d) == IF d < callIn THEN callIn - d ELSE 0

\* Mutant: url objects in memory are not counted.
NothingOnDisk == urlsDisk = <<>> /\ urlsDiskWait = <<>>

\* cron's first test: nothing on disk and no url object left.
NothingLeft == urlsDisk = <<>> /\ urlsDiskWait = <<>> /\ debUrl = 0

\* d seconds have passed since the last turn of the loop; cron stops the
\* search or goes on with checkTimeout.
Cron(d) ==
    /\ pc = "loop"
    /\ clock' = (clock + d) % Period
    /\ idle' = [i \in IPs |-> Aged(idle[i], d, WaitDuration)]
    /\ dnsAge' = [s \in Slots |-> Aged(dnsAge[s], d, DnsValid + 1)]
    /\ callIn' = Remaining(d)
    /\ pc' = IF NothingLeft THEN "stopped" ELSE "timeouts"
    /\ UNCHANGED <<queueVars, intervalVars, siteVars, dnsVars, ipVars,
                   connVars, statVars, ci, parsing, scanSite, scanLeft, fetching>>

\* The same second as in the last turn.
SkipCron ==
    /\ pc = "loop"
    /\ pc' = "input"
    /\ UNCHANGED <<timeVars, queueVars, intervalVars, siteVars, dnsVars, ipVars,
                   connVars, statVars, ci, parsing, scanSite, scanLeft, fetching>>

\* What cron makes of readPriorityWait and readWait, and a mutant that takes
\* the length of the other queue.
RereadPriorityFrom(queue) ==
    CASE clock = 0          -> Len(queue)
      [] clock = HalfPeriod -> 0
      [] OTHER              -> readPriorityWait
RereadPriorityOther == RereadPriorityFrom(urlsDiskWait)
RereadPriority == RereadPriorityFrom(urlsPriorityWait)
Reread ==
    CASE clock = 0          -> Len(urlsDiskWait)
      [] clock = HalfPeriod -> 0
      [] OTHER              -> readWait

\* The end of cron, after checkTimeout: read the waiting queues again for
\* half of each period.
CronTail ==
    /\ pc = "timeouts" /\ Idle /\ ci > NbConn
    /\ readPriorityWait' = RereadPriority
    /\ readWait' = Reread
    /\ pc' = "input"
    /\ ci' = 1
    /\ UNCHANGED <<timeVars, urlsPriority, urlsPriorityWait, urlsDisk,
                   urlsDiskWait, seen, intervalVars, siteVars, dnsVars, ipVars,
                   connVars, statVars, parsing, scanSite, scanLeft, fetching>>
-----------------------------------------------------------------------------
\* An url enters the frontier, in memory or on disk.
Enter(v, prio) ==
    /\ seen' = seen \cup {v}
    /\ accepted' = [accepted EXCEPT ![v] = @ + 1]
    /\ IF prio
       THEN /\ urlsPriority' = Append(urlsPriority, v)
            /\ debUrl' = debUrl + 1
            /\ UNCHANGED urlsDisk
       ELSE /\ urlsDisk' = Append(urlsDisk, v)
            /\ UNCHANGED <<urlsPriority, debUrl>>
    /\ UNCHANGED <<timeVars, urlsPriorityWait, urlsDiskWait, readPriorityWait,
                   readWait, intervalVars, siteVars, dnsVars, ipVars, connVars,
                   namedUrl, reported>>

\* input: a client submits v, to be compared with the urls seen (test:1, an
\* url already seen changes nothing) or not (test:0, up to MaxCopies times).
InputUrl(v, prio, test) ==
    /\ pc = "input"
    /\ IF test THEN v \notin seen ELSE accepted[v] < MaxCopies
    /\ Enter(v, prio)
    /\ UNCHANGED controlVars
-----------------------------------------------------------------------------
\* sequencer: take all the room of the interval if none is left over.
Sequencer ==
    LET room == IF space = 0 THEN RamUrls - interPos ELSE space IN
    /\ pc = "input"
    /\ space' = room
    /\ interPos' = IF space = 0 THEN RamUrls ELSE interPos
    /\ still' = IF room > MaxPerCall THEN MaxPerCall ELSE room
    /\ testPriority' = TRUE
    /\ pc' = "sequencer"
    /\ UNCHANGED <<timeVars, queueVars, siteVars, dnsVars, ipVars, connVars,
                   statVars, ci, parsing, scanSite, scanLeft, fetching>>

\* canGetUrl gave an url: what its four branches have in common.
Sequencing == pc = "sequencer" /\ Idle /\ still > 0
Sequenced ==
    /\ still' = still - 1
    /\ space' = space - 1
    /\ UNCHANGED <<timeVars, seen, identityVars, queries, nbDnsCalls, connVars,
                   accepted, ci, parsing, scanSite, scanLeft>>

SeqPriorityWait ==
    /\ Sequencing
    /\ readPriorityWait > 0
    /\ readPriorityWait' = readPriorityWait - 1
    /\ PutGenericUrl(Head(urlsPriorityWait), LimitPrioWait, TRUE,
                     Tail(urlsPriorityWait), urlsDiskWait, 0)
    /\ Sequenced
    /\ UNCHANGED <<readWait, urlsPriority, urlsDisk, testPriority>>

SeqPriority ==
    /\ Sequencing
    /\ readPriorityWait = 0 /\ testPriority /\ urlsPriority # <<>>
    /\ urlsPriority' = Tail(urlsPriority)
    /\ PutGenericUrl(Head(urlsPriority), LimitPrio, TRUE,
                     urlsPriorityWait, urlsDiskWait, 0)
    /\ Sequenced
    /\ UNCHANGED <<readPriorityWait, readWait, urlsDisk, testPriority>>

NoPriority ==
    /\ Sequencing
    /\ readPriorityWait = 0 /\ (testPriority => urlsPriority = <<>>)
    /\ testPriority' = FALSE
    /\ UNCHANGED <<readPriorityWait, urlsPriority>>

SeqDiskWait ==
    /\ NoPriority
    /\ readWait > 0
    /\ readWait' = readWait - 1
    /\ PutGenericUrl(Head(urlsDiskWait), LimitWait, FALSE,
                     urlsPriorityWait, Tail(urlsDiskWait), 1)
    /\ Sequenced
    /\ UNCHANGED urlsDisk

SeqDisk ==
    /\ NoPriority
    /\ readWait = 0 /\ urlsDisk # <<>>
    /\ urlsDisk' = Tail(urlsDisk)
    /\ PutGenericUrl(Head(urlsDisk), LimitUrl, FALSE,
                     urlsPriorityWait, urlsDiskWait, 1)
    /\ Sequenced
    /\ UNCHANGED readWait

SeqNone ==
    /\ NoPriority
    /\ readWait = 0 /\ urlsDisk = <<>>
    /\ still' = 0
    /\ UNCHANGED <<timeVars, urlsPriorityWait, urlsDisk, urlsDiskWait, readWait,
                   seen, interPos, space, siteVars, dnsVars, ipVars, connVars,
                   statVars, controlVars>>

\* The sequencer returns; its local testPriority is no more.
SeqEnd ==
    /\ pc = "sequencer" /\ Idle /\ still = 0
    /\ testPriority' = TRUE
    /\ pc' = "fetchDns"
    /\ UNCHANGED <<timeVars, queueVars, interPos, space, still, siteVars,
                   dnsVars, ipVars, connVars, statVars,
                   ci, parsing, scanSite, scanLeft, fetching>>
-----------------------------------------------------------------------------
\* fetchDns submits queries, not too many.
MaySubmit == nbDnsCalls < DnsConn /\ freeConns # <<>> /\ IPUrl < MaxIPUrls

Submit ==
    /\ pc = "fetchDns" /\ Idle
    /\ MaySubmit /\ dnsSites # <<>>
    /\ NewQuery

\* Only the program counter moves.
Goto(label) ==
    /\ pc' = label
    /\ UNCHANGED <<timeVars, queueVars, intervalVars, siteVars, dnsVars, ipVars,
                   connVars, statVars, ci, parsing, scanSite, scanLeft, fetching>>

SubmitEnd ==
    /\ pc = "fetchDns" /\ Idle
    /\ ~(MaySubmit /\ dnsSites # <<>>)
    /\ Goto("dnsRead")

\* fetchDns reads the answers adns has, as long as a connection is free.
MayRead == pc = "dnsRead" /\ Idle /\ nbDnsCalls > 0 /\ freeConns # <<>>
ReadCname(s) == MayRead /\ DnsCname(s)
ReadAns(s) == MayRead /\ \E a \in Addrs \cup {None} : DnsAns(s, a)

ReadEnd == pc = "dnsRead" /\ Idle /\ Goto("fetchOpen")

\* fetchOpen calls fetch on the first of okSites until one is too early.
MayOpen == callIn = 0 /\ freeConns # <<>> /\ okSites # <<>>

Open ==
    /\ pc = "fetchOpen" /\ Idle /\ MayOpen
    /\ fetching' = Head(okSites)
    /\ okSites' = Tail(okSites)
    /\ UNCHANGED <<timeVars, queueVars, intervalVars, siteVars, dnsVars, tab,
                   ipQueued, IPUrl, urlAddr, connVars, statVars,
                   pc, ci, parsing, scanSite, scanLeft>>

OpenEnd == pc = "fetchOpen" /\ Idle /\ ~MayOpen /\ Goto("checkAll")
-----------------------------------------------------------------------------
\* checkTimeout and checkAll look at every connection.
AtConn == pc \in {"timeouts", "checkAll"} /\ Idle /\ ci <= NbConn

\* This one is free, or not over.
NextConn ==
    /\ AtConn
    /\ ~parsing
    /\ ci' = ci + 1
    /\ UNCHANGED <<timeVars, queueVars, intervalVars, siteVars, dnsVars, ipVars,
                   connVars, statVars, pc, parsing, scanSite, scanLeft, fetching>>

\* url::initOK refuses a link to a site known to fail or to forbid it; it
\* compares the name of the site, a punycode, with the host.
FastForbidden(v) ==
    LET s == SlotOf[HostOf[v]] IN
    /\ HostOf[v] \notin Idn
    /\ SameSite(s, v)
    /\ \/ dnsState[s] \in {"errorDns", "noConnDns"}
       \/ dnsState[s] = "doneDns" /\ ~TestRobots(s, v)

\* manageUrl and check: the page that is being read links to v, not yet seen.
PageLink(v) ==
    /\ AtConn
    /\ pc = "checkAll"
    /\ parser[ci] \in Urls
    /\ v \notin seen
    /\ ~FastForbidden(v)
    /\ Enter(v, v \in Privileged)
    /\ parsing' = TRUE
    /\ UNCHANGED <<pc, ci, scanSite, scanLeft, fetching>>

\* The url objects of a page: here and base, and a mutant that leaks base.
HereOnly == 1
HereAndBase == 2

\* endOfFile of a page, for whatever reason: its url and base are deleted.
PageEnd ==
    /\ AtConn
    /\ parser[ci] \in Urls
    /\ Report(parser[ci])
    /\ debUrl' = debUrl - HereAndBase
    /\ parser' = [parser EXCEPT ![ci] = None]
    /\ freeConns' = Append(freeConns, ci)
    /\ ci' = ci + 1
    /\ parsing' = FALSE
    /\ UNCHANGED <<timeVars, queueVars, intervalVars, siteVars, dnsVars, ipVars,
                   namedUrl, accepted, pc, scanSite, scanLeft, fetching>>

\* endOfFile of a robots.txt: parsed if the server answered 2xx, then
\* robotsResult.  Only pipeWrite can report noConnection.
RobotsEnd ==
    /\ AtConn
    /\ parser[ci] \in Slots
    /\ LET s == parser[ci] IN
       \/ \E rules \in RobotsTxt \cup {forbidden[s]} : RobotsResult(s, TRUE, rules)
       \/ pc = "checkAll" /\ RobotsResult(s, FALSE, forbidden[s])
    /\ UNCHANGED <<timeVars, queueVars, intervalVars, name, port, addr, cname,
                   nburls, fifo, isInFifo, dnsVars, ipVars, connVars, statVars,
                   pc, ci, parsing, fetching>>

CheckEnd ==
    /\ pc = "checkAll" /\ Idle /\ ci > NbConn
    /\ pc' = "loop"
    /\ ci' = 1
    /\ UNCHANGED <<timeVars, queueVars, intervalVars, siteVars, dnsVars, ipVars,
                   connVars, statVars, parsing, scanSite, scanLeft, fetching>>
-----------------------------------------------------------------------------
\* The main loop was left, or an assertion stopped the program.
Terminated == pc \in {"stopped", "aborted"} /\ UNCHANGED vars

\* Everything but the passing of time.
Step ==
    \/ SkipCron \/ CronTail
    \/ \E v \in InputUrls, prio \in BOOLEAN, test \in InputTests :
           InputUrl(v, prio, test)
    \/ Sequencer \/ SeqPriorityWait \/ SeqPriority \/ SeqDiskWait \/ SeqDisk
    \/ SeqNone \/ SeqEnd
    \/ Submit \/ SubmitEnd
    \/ \E s \in Slots : ReadCname(s) \/ ReadAns(s)
    \/ ReadEnd
    \/ Open \/ OpenEnd \/ Fetch
    \/ Scan
    \/ NextConn \/ PageEnd \/ RobotsEnd \/ CheckEnd
    \/ \E v \in LinkedUrls : PageLink(v)
    \/ Terminated

Next == Step \/ \E d \in Gaps : Cron(d)

Spec == Init /\ [][Next]_vars
-----------------------------------------------------------------------------
(***************************************************************************)
(* Type invariant.                                                         *)
(***************************************************************************)
TimeOK ==
    /\ clock \in 0 .. Period - 1
    /\ idle \in [IPs -> 0 .. WaitDuration]
    /\ dnsAge \in [Slots -> 0 .. DnsValid + 1]
    /\ callIn \in 0 .. WaitDuration

QueuesOK ==
    /\ {urlsPriority, urlsPriorityWait, urlsDisk, urlsDiskWait} \subseteq Seq(Urls)
    /\ readPriorityWait \in Nat /\ readWait \in Nat
    /\ seen \subseteq Urls
    /\ interPos \in Int /\ space \in Int /\ still \in Int
    /\ testPriority \in BOOLEAN

SitesOK ==
    /\ name \in [Slots -> Hosts \cup {None}]
    /\ port \in [Slots -> Ports \cup {None}]
    /\ nburls \in [Slots -> Int]
    /\ fifo \in [Slots -> Seq(Urls)]
    /\ isInFifo \in [Slots -> BOOLEAN]
    /\ dnsState \in [Slots -> {"waitDns", "doneDns", "errorDns", "noConnDns"}]
    /\ addr \in [Slots -> Addrs \cup {None}]
    /\ ipHash \in [Slots -> IPs \cup {None}]
    /\ forbidden \in [Slots -> SUBSET Files]
    /\ cname \in [Slots -> BOOLEAN]
    /\ dnsSites \in Seq(Slots)
    /\ queries \subseteq Slots
    /\ nbDnsCalls \in Int

IPSitesOK ==
    /\ tab \in [IPs -> Seq(Urls)]
    /\ ipQueued \in [IPs -> BOOLEAN]
    /\ okSites \in Seq(IPs)
    /\ IPUrl \in Int
    /\ urlAddr \in [IPs -> Seq(Addrs \cup {None})]

ConnsOK ==
    /\ parser \in [Conns -> Slots \cup Urls \cup {None}]
    /\ freeConns \in Seq(Conns)

StatsOK ==
    /\ debUrl \in Int
    /\ namedUrl \in 0 .. UintRange - 1
    /\ accepted \in [Urls -> Nat]
    /\ reported \in [Urls -> Nat]

ControlOK ==
    /\ pc \in {"loop", "timeouts", "input", "sequencer", "fetchDns", "dnsRead",
               "fetchOpen", "checkAll", "stopped", "aborted"}
    /\ ci \in 1 .. NbConn + 1
    /\ parsing \in BOOLEAN
    /\ scanSite \in Slots \cup {None}
    /\ scanLeft \in Nat
    /\ fetching \in IPs \cup {None}

TypeOK == /\ TimeOK /\ QueuesOK /\ SitesOK /\ IPSitesOK
          /\ ConnsOK /\ StatsOK /\ ControlOK
-----------------------------------------------------------------------------
(***************************************************************************)
(* Safety.                                                                 *)
(***************************************************************************)
Count(seq, u) == Cardinality({k \in DOMAIN seq : seq[k] = u})
TotalLen(f) == SumFunction([x \in DOMAIN f |-> Len(f[x])])

\* The places where an url object, or its line on disk, can be.
Copies(u) ==
    Count(urlsPriority, u) + Count(urlsPriorityWait, u) + Count(urlsDisk, u)
    + Count(urlsDiskWait, u) + Count(parser, u)
    + SumFunction([s \in Slots |-> Count(fifo[s], u)])
    + SumFunction([i \in IPs |-> Count(tab[i], u)])

\* No url is lost, nor handled twice: through every hand-over between the
\* queues, the rings, the IPSites and the connections, each url that was
\* accepted is either in exactly one place or was reported once.
Conservation ==
    pc # "aborted" => \A u \in Urls : accepted[u] = Copies(u) + reported[u]

\* nburls of a site, on which putGenericUrl bases its limits although it is
\* changed from IPSite, counts the urls of its ring and those of its hosts
\* in all the IPSites.
SiteAccounting ==
    pc # "aborted" => \A s \in Slots :
        nburls[s] = Len(fifo[s]) + SumFunction([i \in IPs |->
            Cardinality({k \in DOMAIN tab[i] : SlotOf[HostOf[tab[i][k]]] = s})])

\* The Interval never counts more than ramUrls, nor wraps below zero: its
\* position is what the sequencer may still take plus the urls of the sites.
IntervalAccounting ==
    /\ 0 <= space /\ space <= interPos /\ interPos <= RamUrls
    /\ pc # "aborted" => interPos = space + SumFunction(nburls)

\* What the limits of the sites and of the whole crawl are tested against is
\* what is in memory, at every step of a hand-over.
Accounting == SiteAccounting /\ IntervalAccounting

\* debUrl, on which cron decides to stop, is the number of url objects:
\* those waiting in memory, those of the sites, and two for each page.
UrlObjectsExact ==
    pc # "aborted" =>
        debUrl = Len(urlsPriority) + Len(urlsPriorityWait) + TotalLen(fifo)
                 + TotalLen(tab) + 2 * Cardinality({c \in Conns : parser[c] \in Urls})

\* The search only stops by itself when every url was reported and no
\* connection, DNS query or queue is left with anything to do.
StopsOnlyWhenDone ==
    pc = "stopped" =>
        /\ accepted = reported
        /\ queries = {} /\ dnsSites = <<>> /\ okSites = <<>>
        /\ \A c \in Conns : parser[c] = None

\* Where a site that has something under way can be.
InDnsSites(s) == s \in Range(dnsSites)
InQueries(s)  == s \in queries
InRobots(s)   == \E c \in Conns : parser[c] = s
InDnsErr(s)   == scanSite = s /\ pc \notin {"timeouts", "checkAll"}

\* A site is never in two places: isInFifo says that it is in dnsSites, or
\* asked to the DNS, or getting its robots.txt, or scanned for a DNS error,
\* just one of these and once; otherwise its ring is empty, so no url is
\* forgotten in a site nobody will look at.
OneToken(s) ==
    /\ isInFifo[s] <=> InDnsSites(s) \/ InQueries(s) \/ InRobots(s) \/ InDnsErr(s)
    /\ ~(InDnsSites(s) /\ (InQueries(s) \/ InRobots(s) \/ InDnsErr(s)))
    /\ ~(InQueries(s) /\ (InRobots(s) \/ InDnsErr(s)))
    /\ ~(InRobots(s) /\ InDnsErr(s))
    /\ isInFifo[s] /\ scanSite # s => fifo[s] # <<>>
    /\ ~isInFifo[s] => fifo[s] = <<>>

SiteToken ==
    /\ IsInjective(dnsSites)
    /\ \A c, d \in Conns : parser[c] = parser[d] /\ parser[c] \in Slots => c = d
    /\ \A s \in Slots : OneToken(s)

\* The same for an IPSite: isInFifo says it is in okSites once, or fetch is
\* running for it; otherwise it has no url.
IPSiteToken ==
    /\ IsInjective(okSites)
    /\ \A i \in IPs :
        /\ ipQueued[i] <=> i \in Range(okSites) \/ fetching = i
        /\ ~(i \in Range(okSites) /\ fetching = i)
        /\ i \in Range(okSites) => tab[i] # <<>>
        /\ ~ipQueued[i] => tab[i] = <<>>

\* Every connection is either free, once, or used by a parser.
ConnAccounting ==
    /\ IsInjective(freeConns)
    /\ Range(freeConns) = {c \in Conns : parser[c] = None}

\* nbDnsCalls and IPUrl, which bound the work under way, are exact.
BoundsExact == nbDnsCalls = Cardinality(queries) /\ IPUrl = TotalLen(tab)

\* "there must be at least one element in freeConns !!!": while fetch runs
\* there is one, also when it was called from the scan of a site, from the
\* sequencer or from itself.
FreeConnForFetch == fetching # None => freeConns # <<>>

\* The sequencer never reads a waiting queue that is empty, on which
\* SyncFifo::get and PersistentFifo::get would block for ever.
ReadWaitBounded ==
    /\ readPriorityWait <= Len(urlsPriorityWait)
    /\ readWait <= Len(urlsDiskWait)

\* Each url of an IPSite goes to an address whose delays that site keeps,
\* even if its NamedSite has got another address or identity meanwhile; with a
\* proxy the IPSite is that of its slot.
RightIPSite ==
    \A i \in IPs :
        /\ DOMAIN urlAddr[i] = DOMAIN tab[i]
        /\ \A k \in DOMAIN tab[i] :
              IF UseProxy THEN SlotHash[SlotOf[HostOf[tab[i][k]]]] = i
              ELSE urlAddr[i][k] # None /\ IPHashOf[urlAddr[i][k]] = i

\* An IPSite is held once, has the urls of its addresses only, and the numbers
\* of urls and DNS calls under way, which bound it, are exact.
IPSitesRight == IPSiteToken /\ BoundsExact /\ RightIPSite

-----------------------------------------------------------------------------
(***************************************************************************)
(* Liveness.  The loop keeps turning and seconds pass; adns ends each      *)
(* query with a final answer; and a connection ends, by its time out or    *)
(* because a page has at most maxPageSize bytes.                           *)
(***************************************************************************)
EndConn(c) == ci = c /\ (PageEnd \/ RobotsEnd)

Fairness ==
    /\ WF_vars(Next)
    /\ SF_vars(\E d \in Gaps : Cron(d))
    /\ \A s \in Slots : SF_vars(ReadAns(s))
    /\ \A c \in Conns : SF_vars(EndConn(c))

FairSpec == Spec /\ Fairness

\* Every url that entered the frontier is reported in the end, whatever it
\* shares its slot, its address, its robots.txt and the limits with.
EveryUrlReported ==
    \A u \in Urls : accepted[u] = 1 ~> reported[u] = 1

\* Without input the crawl of a finite site ends by itself.
Ends == <>(pc = "stopped")
=============================================================================
