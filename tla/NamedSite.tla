------------------------------ MODULE NamedSite ------------------------------
(***************************************************************************)
(* class NamedSite (fetch/site.cxx): the urls of one slot of the table of  *)
(* host names, kept in a ring of MaxUrlsBySite places until the name is    *)
(* resolved and robots.txt is read, then given to an IPSite or forgotten.  *)
(* A site with urls in its ring is in dnsSites, or a DNS query or the      *)
(* fetch of its robots.txt is under way for it.                            *)
(***************************************************************************)
EXTENDS IPSite

\* NamedSite::putInFifo stops the program (its assertion) if the ring is full.
RingFull(s) == Len(fifo[s]) + 1 = MaxUrlsBySite

\* addNamedUrl and delNamedUrl on an unsigned counter.
AddNamedUrl == namedUrl' = (namedUrl + 1) % UintRange
DelNamedUrl == namedUrl' = (namedUrl - 1) % UintRange

\* Mutant: the end of the url is not reported.
ForgetUrlSilently(s, u, n) ==
    /\ nburls' = [nburls EXCEPT ![s] = n - 1]
    /\ interPos' = interPos - 1
    /\ UNCHANGED reported

\* NamedSite::forgetUrl for an url that counted in nburls[s] = n.
ForgetUrl(s, u, n) ==
    /\ nburls' = [nburls EXCEPT ![s] = n - 1]
    /\ interPos' = interPos - 1
    /\ Report(u)

\* Mutant: the url does not get the address of its site.
TransferNoAddr(s, u) ==
    /\ PutUrl(ipHash[s], u)
    /\ urlAddr' = [urlAddr EXCEPT ![ipHash[s]] = Append(@, None)]

\* NamedSite::transfer of an url robots.txt allows.
Transfer(s, u) ==
    /\ PutUrl(ipHash[s], u)
    /\ urlAddr' = [urlAddr EXCEPT ![ipHash[s]] =
                      Append(@, IF UseProxy THEN None ELSE addr[s])]
-----------------------------------------------------------------------------
\* The first test of putGenericUrl: the site has enough urls in memory.
TooMany(s, limit) == nburls[s] > MaxUrlsBySite - limit

\* The site already knows that u cannot be fetched.
Hopeless(s, u) ==
    \/ SameName(s, u) /\ dnsState[s] \in {"errorDns", "noConnDns"}
    \/ SameSite(s, u) /\ dnsState[s] = "doneDns" /\ ~TestRobots(s, u)

\* The site is not, or no longer, resolved for this url.
Unresolved(s, u) ==
    dnsState[s] = "waitDns" \/ ~SameSite(s, u) \/ Expired(s)

\* Mutant: isInFifo is not tested.
QueueUrlAgain(s, u) ==
    /\ ~RingFull(s)
    /\ fifo' = [fifo EXCEPT ![s] = Append(@, u)]
    /\ AddNamedUrl
    /\ isInFifo' = [isInFifo EXCEPT ![s] = TRUE]
    /\ dnsSites' = Append(dnsSites, s)
    /\ UNCHANGED pc

\* u waits in the ring for the answers about its site; the site enters
\* dnsSites if it is not under way.
QueueUrl(s, u) ==
    \/ /\ RingFull(s)
       /\ pc' = "aborted"
       /\ UNCHANGED <<fifo, namedUrl, isInFifo, dnsSites>>
    \/ /\ ~RingFull(s)
       /\ fifo' = [fifo EXCEPT ![s] = Append(@, u)]
       /\ AddNamedUrl
       /\ isInFifo' = [isInFifo EXCEPT ![s] = TRUE]
       /\ dnsSites' = IF isInFifo[s] THEN dnsSites ELSE Append(dnsSites, s)
       /\ UNCHANGED pc

\* putGenericUrl(u, limit, prio) of the url the sequencer has just read: pw
\* and dw are what is left of the waiting queues, born is 1 if reading made
\* the url object (a disk queue), 0 if it was in memory.
PutGenericUrl(u, limit, prio, pw, dw, born) ==
    LET s    == SlotOf[HostOf[u]]
        back == TooMany(s, limit) /\ ~Hopeless(s, u)
        gone == Hopeless(s, u) /\ (TooMany(s, limit) \/ ~Unresolved(s, u))
    IN
    /\ urlsPriorityWait' = IF back /\ prio THEN Append(pw, u) ELSE pw
    /\ urlsDiskWait' = IF back /\ ~prio THEN Append(dw, u) ELSE dw
    /\ debUrl' = debUrl + born - (IF gone \/ (back /\ ~prio) THEN 1 ELSE 0)
    /\ \/ /\ gone
          /\ ForgetUrl(s, u, nburls[s] + 1)
          /\ UNCHANGED <<fifo, namedUrl, isInFifo, dnsSites, pc, ipVars, fetching>>
       \/ /\ back
          /\ interPos' = interPos - 1
          /\ UNCHANGED <<nburls, reported,
                         fifo, namedUrl, isInFifo, dnsSites, pc, ipVars, fetching>>
       \/ /\ ~TooMany(s, limit) /\ Unresolved(s, u)
          /\ nburls' = [nburls EXCEPT ![s] = @ + 1]
          /\ QueueUrl(s, u)
          /\ UNCHANGED <<interPos, reported, ipVars, fetching>>
       \/ /\ ~TooMany(s, limit) /\ ~Unresolved(s, u) /\ ~Hopeless(s, u)
          /\ nburls' = [nburls EXCEPT ![s] = @ + 1]
          /\ Transfer(s, u)
          /\ UNCHANGED <<interPos, reported, fifo, namedUrl, isInFifo, dnsSites, pc>>
-----------------------------------------------------------------------------
\* newId: the slot takes the identity of its first url.  The rules of
\* robots.txt, addr and ipHash stay as they are; dnsState becomes waitDns.
NewId(s) ==
    LET u == Head(fifo[s]) IN
    /\ name' = [name EXCEPT ![s] = HostOf[u]]
    /\ port' = [port EXCEPT ![s] = PortOf[u]]
    /\ dnsAge' = [dnsAge EXCEPT ![s] = 0]

\* Scan the ring from its head, each url it holds now once.
StartScan(s) ==
    /\ scanSite' = s
    /\ scanLeft' = Len(fifo[s])

\* No address for the site: dnsErr scans the ring with this state.
DnsError(s) ==
    /\ dnsState' = [dnsState EXCEPT ![s] = "errorDns"]
    /\ StartScan(s)
    /\ UNCHANGED connVars

\* Mutant: a connection that failed at once is not given back.
DnsOKLeak(s) ==
    \/ /\ dnsState' = [dnsState EXCEPT ![s] = "waitDns"]
       /\ parser' = [parser EXCEPT ![Head(freeConns)] = s]
       /\ freeConns' = Tail(freeConns)
       /\ UNCHANGED <<scanSite, scanLeft>>
    \/ /\ dnsState' = [dnsState EXCEPT ![s] = "noConnDns"]
       /\ freeConns' = Tail(freeConns)
       /\ StartScan(s)
       /\ UNCHANGED parser

\* dnsOK: connect to fetch robots.txt, or fail at once (dnsErr).
DnsOK(s) ==
    LET c == Head(freeConns) IN
    \/ /\ dnsState' = [dnsState EXCEPT ![s] = "waitDns"]
       /\ parser' = [parser EXCEPT ![c] = s]
       /\ freeConns' = Tail(freeConns)
       /\ UNCHANGED <<scanSite, scanLeft>>
    \/ /\ dnsState' = [dnsState EXCEPT ![s] = "noConnDns"]
       /\ freeConns' = Append(Tail(freeConns), c)
       /\ StartScan(s)
       /\ UNCHANGED parser

\* newQuery for the first site of dnsSites.
NewQuery ==
    LET s == Head(dnsSites)
        h == HostOf[Head(fifo[s])]
    IN
    /\ dnsSites' = Tail(dnsSites)
    /\ NewId(s)
    /\ \/ /\ UseProxy
          /\ DnsOK(s)
          /\ UNCHANGED <<addr, queries, nbDnsCalls>>
       \/ /\ ~UseProxy /\ h \in Numeric
          /\ IF Literal[h] # None
             THEN addr' = [addr EXCEPT ![s] = Literal[h]] /\ DnsOK(s)
             ELSE DnsError(s) /\ UNCHANGED addr
          /\ UNCHANGED <<queries, nbDnsCalls>>
       \/ /\ ~UseProxy /\ h \notin Numeric
          /\ dnsState' = [dnsState EXCEPT ![s] = "waitDns"]
          /\ queries' = queries \cup {s}
          /\ nbDnsCalls' = nbDnsCalls + 1
          /\ UNCHANGED <<addr, connVars, scanSite, scanLeft>>
    /\ UNCHANGED <<clock, idle, callIn, queueVars, intervalVars, ipHash,
                   forbidden, cname, nburls, fifo, isInFifo, ipVars, statVars,
                   pc, ci, parsing, fetching>>

\* dnsAns, the answer is a CNAME: ask again, for the name it gives.
DnsCname(s) ==
    /\ s \in queries
    /\ cname' = [cname EXCEPT ![s] = TRUE]
    /\ UNCHANGED <<timeVars, queueVars, intervalVars, name, port, dnsState,
                   addr, ipHash, forbidden, nburls, fifo, isInFifo, dnsVars,
                   ipVars, connVars, statVars, controlVars>>

\* dnsAns, a final answer: an address a, or None for an error.
DnsAns(s, a) ==
    /\ s \in queries
    /\ queries' = queries \ {s}
    /\ nbDnsCalls' = nbDnsCalls - 1
    /\ cname' = [cname EXCEPT ![s] = FALSE]
    /\ IF a = None
       THEN DnsError(s) /\ UNCHANGED addr
       ELSE addr' = [addr EXCEPT ![s] = a] /\ DnsOK(s)
    /\ UNCHANGED <<timeVars, queueVars, intervalVars, name, port, ipHash,
                   forbidden, nburls, fifo, isInFifo, dnsSites, ipVars,
                   statVars, pc, ci, parsing, fetching>>
-----------------------------------------------------------------------------
\* robotsResult(res) once the robots.txt of s is over: ok unless nobody could
\* be connected to; then the scan starts.  rules is forbidden[s] from here.
RobotsResult(s, ok, rules) ==
    /\ forbidden' = [forbidden EXCEPT ![s] = rules]
    /\ dnsState' = [dnsState EXCEPT ![s] = IF ok THEN "doneDns" ELSE "noConnDns"]
    /\ ipHash' = IF ~ok THEN ipHash
                 ELSE [ipHash EXCEPT ![s] = IF UseProxy THEN SlotHash[s]
                                            ELSE IPHashOf[addr[s]]]
    /\ StartScan(s)

\* One url of the scan, of dnsErr and robotsResult alike: forget it, give
\* it to its IPSite, or put it back at the end of the ring.
Scanned(s) ==
    /\ scanSite = s
    /\ fetching = None
    /\ scanLeft > 0
    /\ scanLeft' = scanLeft - 1
    /\ UNCHANGED <<timeVars, queueVars, space, still, testPriority,
                   identityVars, isInFifo, dnsVars, connVars, accepted,
                   pc, ci, parsing, scanSite>>

ScanKeep(s) ==
    LET u == Head(fifo[s]) IN
    /\ Scanned(s)
    /\ \/ ~SameName(s, u) /\ UNCHANGED namedUrl
       \/ SameName(s, u) /\ port[s] # PortOf[u] /\ dnsState[s] = "doneDns"
          /\ DelNamedUrl
    /\ fifo' = [fifo EXCEPT ![s] = Append(Tail(@), u)]
    /\ UNCHANGED <<nburls, interPos, debUrl, reported, ipVars, fetching>>

ScanForget(s) ==
    LET u == Head(fifo[s]) IN
    /\ Scanned(s)
    /\ Hopeless(s, u)
    /\ DelNamedUrl
    /\ fifo' = [fifo EXCEPT ![s] = Tail(@)]
    /\ ForgetUrl(s, u, nburls[s])
    /\ debUrl' = debUrl - 1
    /\ UNCHANGED <<ipVars, fetching>>

ScanTransfer(s) ==
    LET u == Head(fifo[s]) IN
    /\ Scanned(s)
    /\ SameSite(s, u) /\ dnsState[s] = "doneDns" /\ TestRobots(s, u)
    /\ DelNamedUrl
    /\ fifo' = [fifo EXCEPT ![s] = Tail(@)]
    /\ Transfer(s, u)
    /\ UNCHANGED <<nburls, interPos, debUrl, reported>>

\* Where should now lie this site, and a mutant that forgets dnsSites.
PlaceNowhere(s) ==
    /\ isInFifo' = [isInFifo EXCEPT ![s] = fifo[s] # <<>>]
    /\ UNCHANGED dnsSites
Place(s) ==
    /\ isInFifo' = [isInFifo EXCEPT ![s] = fifo[s] # <<>>]
    /\ dnsSites' = IF fifo[s] = <<>> THEN dnsSites ELSE Append(dnsSites, s)

\* The end of the scan.  After a robots.txt, endOfFile also recycles the connection and the loop over them goes on.
ScanEnd(s) ==
    /\ scanSite = s
    /\ fetching = None
    /\ scanLeft = 0
    /\ scanSite' = None
    /\ Place(s)
    /\ IF pc \in {"timeouts", "checkAll"}
       THEN /\ parser' = [parser EXCEPT ![ci] = None]
            /\ freeConns' = Append(freeConns, ci)
            /\ ci' = ci + 1
       ELSE UNCHANGED <<connVars, ci>>
    /\ UNCHANGED <<timeVars, queueVars, intervalVars, identityVars, nburls,
                   fifo, queries, nbDnsCalls, ipVars, statVars,
                   pc, parsing, scanLeft, fetching>>

Scan == \E s \in Slots :
            ScanKeep(s) \/ ScanForget(s) \/ ScanTransfer(s) \/ ScanEnd(s)
=============================================================================
