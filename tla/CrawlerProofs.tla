---------------------------- MODULE CrawlerProofs ----------------------------
(***************************************************************************)
(* Proofs about Crawler and Politeness, for every value of their constants.*)
(***************************************************************************)
EXTENDS Politeness, QueueLemmas

\* A scan never looks further than the end of its ring, and it runs while the
\* loop is in a phase that can start one; after a robots.txt the connection
\* it came from is still held.
ScanBounded ==
    scanSite # None =>
        /\ scanLeft <= Len(fifo[scanSite])
        /\ pc \in {"fetchDns", "dnsRead", "timeouts", "checkAll"}
        /\ pc \in {"timeouts", "checkAll"} => ci \in Conns /\ parser[ci] = scanSite

\* A site in doneDns knows its IPSite, and one whose robots.txt is under way
\* has an address (with a proxy, none is needed).
Resolved ==
    \A s \in Slots :
        /\ dnsState[s] = "doneDns" => ipHash[s] \in IPs
        /\ (\E c \in Conns : parser[c] = s) => UseProxy \/ addr[s] \in Addrs

\* Each url object of an IPSite has its address.
AddrKept == \A i \in IPs : Len(urlAddr[i]) = Len(tab[i])

IInv == /\ TypeOK /\ ReadWaitBounded /\ ConnAccounting /\ FreeConnForFetch
        /\ SiteToken /\ ScanBounded /\ Resolved /\ AddrKept
-----------------------------------------------------------------------------
(***************************************************************************)
(* What the invariant says of the heads the actions take.                  *)
(***************************************************************************)
LEMMA UrlParts ==
    ASSUME NEW u \in Urls
    PROVE  HostOf[u] \in Hosts /\ PortOf[u] \in Ports /\ SlotOf[HostOf[u]] \in Slots
BY UrlsAssumption

\* The first site of dnsSites has an url to take its identity from.
LEMMA SubmitHead ==
    ASSUME IInv, scanSite = None, dnsSites # <<>>
    PROVE  /\ Head(dnsSites) \in Slots
           /\ InDnsSites(Head(dnsSites))
           /\ fifo[Head(dnsSites)] # <<>>
           /\ Head(fifo[Head(dnsSites)]) \in Urls
<1> DEFINE s == Head(dnsSites)
<1>1. dnsSites \in Seq(Slots) /\ fifo \in [Slots -> Seq(Urls)]
  BY DEF IInv, TypeOK, SitesOK
<1>2. s \in Slots /\ s \in Range(dnsSites)
  BY <1>1, TailRange
<1>3. isInFifo[s] /\ scanSite # s
  BY <1>2, NoneAssumption DEF IInv, SiteToken, OneToken, InDnsSites
<1>4. fifo[s] # <<>> /\ fifo[s] \in Seq(Urls)
  BY <1>1, <1>2, <1>3 DEF IInv, SiteToken, OneToken
<1> QED
  BY <1>2, <1>4, TailRange DEF InDnsSites

\* A scan that goes on has an url to look at.
LEMMA ScanHead ==
    ASSUME IInv, NEW s \in Slots, Scanned(s)
    PROVE  /\ fifo[s] # <<>> /\ fifo[s] \in Seq(Urls)
           /\ Head(fifo[s]) \in Urls /\ Tail(fifo[s]) \in Seq(Urls)
           /\ Len(Tail(fifo[s])) = Len(fifo[s]) - 1
<1>1. fifo[s] \in Seq(Urls) /\ scanLeft \in Nat
  BY DEF IInv, TypeOK, SitesOK, ControlOK
<1>2. scanSite = s /\ scanLeft > 0 /\ s # None
  BY NoneAssumption DEF Scanned
<1>3. Len(fifo[s]) > 0
  BY <1>1, <1>2 DEF IInv, ScanBounded
<1>4. fifo[s] # <<>>
  BY <1>1, <1>3
<1> QED
  BY <1>1, <1>4, TailRange

\* fetch has a free connection, and the url it takes has a slot.
LEMMA FetchHead ==
    ASSUME IInv, NEW i \in IPs, fetching = i, tab[i] # <<>>
    PROVE  /\ tab[i] \in Seq(Urls) /\ Head(tab[i]) \in Urls /\ Tail(tab[i]) \in Seq(Urls)
           /\ SlotOf[HostOf[Head(tab[i])]] \in Slots
           /\ freeConns \in Seq(Conns) /\ freeConns # <<>>
           /\ Head(freeConns) \in Conns /\ Tail(freeConns) \in Seq(Conns)
           /\ Tail(urlAddr[i]) \in Seq(Addrs \cup {None})
           /\ Len(Tail(tab[i])) = Len(tab[i]) - 1
           /\ Len(Tail(urlAddr[i])) = Len(tab[i]) - 1
<1>1. tab[i] \in Seq(Urls) /\ freeConns \in Seq(Conns)
  BY DEF IInv, TypeOK, IPSitesOK, ConnsOK
<1>2. freeConns # <<>>
  BY NoneAssumption DEF IInv, FreeConnForFetch
<1>3. Head(tab[i]) \in Urls /\ Tail(tab[i]) \in Seq(Urls)
  BY <1>1, TailRange
<1>4. Head(freeConns) \in Conns /\ Tail(freeConns) \in Seq(Conns)
  BY <1>1, <1>2, TailRange
<1>5. /\ Len(Tail(tab[i])) = Len(tab[i]) - 1
      /\ Tail(urlAddr[i]) \in Seq(Addrs \cup {None})
      /\ Len(Tail(urlAddr[i])) = Len(tab[i]) - 1
  <2>1. urlAddr[i] \in Seq(Addrs \cup {None}) /\ Len(urlAddr[i]) = Len(tab[i])
    BY DEF IInv, TypeOK, IPSitesOK, AddrKept
  <2>2. urlAddr[i] # <<>>
    BY <1>1, <2>1
  <2> QED
    BY <1>1, <2>1, <2>2, TailRange
<1> QED
  BY <1>1, <1>2, <1>3, <1>4, <1>5, UrlParts
-----------------------------------------------------------------------------
\* The actions that change the connections.
LEMMA ConnFrame ==
    ASSUME Next, ~Submit, ~PageEnd,
           \A s \in Slots : ~ReadAns(s) /\ ~ScanEnd(s),
           \A i \in IPs : ~FetchConnect(i) /\ ~FetchRefused(i)
    PROVE  UNCHANGED connVars
<1>1. CASE \E d \in Gaps : Cron(d)
  BY <1>1 DEF Cron, connVars
<1>2. CASE SkipCron \/ CronTail \/ Sequencer \/ SeqEnd \/ SeqNone
  BY <1>2 DEF SkipCron, CronTail, Sequencer, SeqEnd, SeqNone, connVars
<1>3. CASE SeqPriorityWait \/ SeqPriority \/ SeqDiskWait \/ SeqDisk
  BY <1>3 DEF SeqPriorityWait, SeqPriority, SeqDiskWait, SeqDisk, Sequenced, connVars
<1>4. CASE \E v \in InputUrls, prio \in BOOLEAN, test \in InputTests :
             InputUrl(v, prio, test)
  BY <1>4 DEF InputUrl, Enter, connVars
<1>5. CASE \E v \in LinkedUrls : PageLink(v)
  BY <1>5 DEF PageLink, Enter, connVars
<1>6. CASE SubmitEnd \/ ReadEnd \/ OpenEnd \/ CheckEnd \/ NextConn
  BY <1>6 DEF SubmitEnd, ReadEnd, OpenEnd, CheckEnd, NextConn, Goto, connVars
<1>7. CASE \E s \in Slots : ReadCname(s)
  BY <1>7 DEF ReadCname, DnsCname, connVars
<1>8. CASE Open \/ RobotsEnd
  BY <1>8 DEF Open, RobotsEnd, connVars
<1>9. CASE \E i \in IPs : FetchEmpty(i) \/ FetchEarly(i)
  BY <1>9 DEF FetchEmpty, FetchEarly, connVars
<1>10. CASE \E s \in Slots : ScanKeep(s) \/ ScanForget(s) \/ ScanTransfer(s)
  BY <1>10 DEF ScanKeep, ScanForget, ScanTransfer, Scanned, connVars
<1>11. CASE Terminated
  BY <1>11 DEF Terminated, vars, connVars
<1> QED
  BY <1>1, <1>2, <1>3, <1>4, <1>5, <1>6, <1>7, <1>8, <1>9, <1>10, <1>11
     DEF Next, Step, Fetch, Scan
-----------------------------------------------------------------------------
(***************************************************************************)
(* Types, one lemma for each part of TypeOK.                               *)
(***************************************************************************)
LEMMA TimeStep ==
    ASSUME IInv, [Next]_vars
    PROVE  TimeOK'
<1> USE TimeAssumption DEF IInv, TypeOK, TimeOK
<1>1. CASE UNCHANGED timeVars
  BY <1>1 DEF timeVars
<1>2. ASSUME NEW d \in Gaps, Cron(d) PROVE TimeOK'
  <2>1. clock' \in 0 .. Period - 1
    BY <1>2 DEF Cron
  <2>2. idle' \in [IPs -> 0 .. WaitDuration]
    BY <1>2 DEF Cron, Aged
  <2>3. dnsAge' \in [Slots -> 0 .. DnsValid + 1]
    BY <1>2 DEF Cron, Aged
  <2>4. callIn' \in 0 .. WaitDuration
    BY <1>2 DEF Cron, Remaining
  <2> QED
    BY <2>1, <2>2, <2>3, <2>4
<1>3. ASSUME NEW i \in IPs, FetchEarly(i) PROVE TimeOK'
  BY <1>3 DEF FetchEarly, Rested
<1>4. ASSUME NEW i \in IPs, FetchConnect(i) PROVE TimeOK'
  BY <1>4 DEF FetchConnect
<1>5. CASE Submit
  <2>1. /\ dnsAge' = [dnsAge EXCEPT ![Head(dnsSites)] = 0]
        /\ UNCHANGED <<clock, idle, callIn>>
    BY <1>5 DEF Submit, NewQuery, NewId
  <2>2. Head(dnsSites) \in Slots
    BY <1>5, SubmitHead DEF Submit, Idle
  <2>3. dnsAge' \in [Slots -> 0 .. DnsValid + 1]
    BY <2>1, <2>2
  <2> QED
    BY <2>1, <2>3
<1>6. CASE \/ SkipCron \/ CronTail \/ Sequencer \/ SeqEnd \/ SeqNone
           \/ SubmitEnd \/ ReadEnd \/ OpenEnd \/ CheckEnd \/ NextConn
           \/ Open \/ RobotsEnd \/ PageEnd
  BY <1>1, <1>6 DEF SkipCron, CronTail, Sequencer, SeqEnd, SeqNone, SubmitEnd,
     ReadEnd, OpenEnd, CheckEnd, NextConn, Goto, Open, RobotsEnd, PageEnd
<1>7. CASE SeqPriorityWait \/ SeqPriority \/ SeqDiskWait \/ SeqDisk
  BY <1>1, <1>7 DEF SeqPriorityWait, SeqPriority, SeqDiskWait, SeqDisk, Sequenced
<1>8. CASE \/ \E v \in InputUrls, prio \in BOOLEAN, test \in InputTests :
                InputUrl(v, prio, test)
           \/ \E v \in LinkedUrls : PageLink(v)
  BY <1>1, <1>8 DEF InputUrl, PageLink, Enter
<1>9. CASE \E s \in Slots : ReadCname(s) \/ ReadAns(s)
  BY <1>1, <1>9 DEF ReadCname, ReadAns, DnsCname, DnsAns
<1>10. CASE \E i \in IPs : FetchEmpty(i) \/ FetchRefused(i)
  BY <1>1, <1>10 DEF FetchEmpty, FetchRefused
<1>11. CASE Scan
  BY <1>1, <1>11 DEF Scan, ScanKeep, ScanForget, ScanTransfer, ScanEnd, Scanned
<1>12. CASE Terminated \/ UNCHANGED vars
  BY <1>1, <1>12 DEF Terminated, vars
<1> QED
  BY <1>2, <1>3, <1>4, <1>5, <1>6, <1>7, <1>8, <1>9, <1>10, <1>11, <1>12
     DEF Next, Step, Fetch
\* An url of a queue and what the queue is without it.
LEMMA QueueHead ==
    ASSUME NEW q \in Seq(Urls), q # <<>>
    PROVE  Head(q) \in Urls /\ Tail(q) \in Seq(Urls) /\ Len(Tail(q)) = Len(q) - 1
BY TailRange

\* The url each branch of the sequencer takes, and what is left behind.
LEMMA SeqHeads ==
    ASSUME IInv
    PROVE  /\ SeqPriorityWait \/ readPriorityWait > 0 => urlsPriorityWait # <<>>
           /\ SeqDiskWait \/ readWait > 0 => urlsDiskWait # <<>>
           /\ SeqPriority => urlsPriority # <<>>
           /\ SeqDisk => urlsDisk # <<>>
<1>1. /\ urlsPriorityWait \in Seq(Urls) /\ urlsDiskWait \in Seq(Urls)
      /\ readPriorityWait \in Nat /\ readWait \in Nat
      /\ readPriorityWait <= Len(urlsPriorityWait) /\ readWait <= Len(urlsDiskWait)
  BY DEF IInv, TypeOK, QueuesOK, ReadWaitBounded
<1>2. readPriorityWait > 0 => urlsPriorityWait # <<>>
  BY <1>1
<1>3. readWait > 0 => urlsDiskWait # <<>>
  BY <1>1
<1> QED
  BY <1>2, <1>3 DEF SeqPriorityWait, SeqDiskWait, SeqPriority, SeqDisk

LEMMA QueuesStep ==
    ASSUME IInv, [Next]_vars
    PROVE  QueuesOK'
<1>0. QueuesOK
  BY DEF IInv, TypeOK
<1> USE DEF QueuesOK
<1>1. CASE UNCHANGED <<queueVars, intervalVars>>
  BY <1>0, <1>1 DEF queueVars, intervalVars
<1>2. CASE CronTail
  BY <1>0, <1>2 DEF CronTail, RereadPriority, RereadPriorityFrom, Reread, intervalVars
<1>3. CASE SeqPriorityWait
  <2>1. Head(urlsPriorityWait) \in Urls /\ Tail(urlsPriorityWait) \in Seq(Urls)
    BY <1>0, <1>3, SeqHeads, QueueHead
  <2>2. urlsPriorityWait' \in Seq(Urls) /\ urlsDiskWait' \in Seq(Urls)
    BY <1>0, <1>3, <2>1 DEF SeqPriorityWait, PutGenericUrl
  <2>3. interPos' \in Int
    BY <1>0, <1>3 DEF SeqPriorityWait, PutGenericUrl, ForgetUrl
  <2>4. readPriorityWait' \in Nat /\ still' \in Int /\ space' \in Int
    BY <1>0, <1>3 DEF SeqPriorityWait, Sequenced
  <2> QED
    BY <1>0, <1>3, <2>2, <2>3, <2>4 DEF SeqPriorityWait, Sequenced
<1>4. CASE SeqPriority
  <2>1. Head(urlsPriority) \in Urls /\ Tail(urlsPriority) \in Seq(Urls)
    BY <1>0, <1>4, SeqHeads, QueueHead
  <2>2. urlsPriorityWait' \in Seq(Urls) /\ urlsDiskWait' \in Seq(Urls)
    BY <1>0, <1>4, <2>1 DEF SeqPriority, PutGenericUrl
  <2>3. interPos' \in Int
    BY <1>0, <1>4 DEF SeqPriority, PutGenericUrl, ForgetUrl
  <2>4. urlsPriority' \in Seq(Urls) /\ still' \in Int /\ space' \in Int
    BY <1>0, <1>4, <2>1 DEF SeqPriority, Sequenced
  <2> QED
    BY <1>0, <1>4, <2>2, <2>3, <2>4 DEF SeqPriority, Sequenced
<1>5. CASE SeqDiskWait
  <2>1. Head(urlsDiskWait) \in Urls /\ Tail(urlsDiskWait) \in Seq(Urls)
    BY <1>0, <1>5, SeqHeads, QueueHead
  <2>2. urlsPriorityWait' \in Seq(Urls) /\ urlsDiskWait' \in Seq(Urls)
    BY <1>0, <1>5, <2>1 DEF SeqDiskWait, PutGenericUrl
  <2>3. interPos' \in Int
    BY <1>0, <1>5 DEF SeqDiskWait, PutGenericUrl, ForgetUrl
  <2>4. readWait' \in Nat /\ still' \in Int /\ space' \in Int
    BY <1>0, <1>5 DEF SeqDiskWait, Sequenced
  <2> QED
    BY <1>0, <1>5, <2>2, <2>3, <2>4 DEF SeqDiskWait, Sequenced, NoPriority
<1>6. CASE SeqDisk
  <2>1. Head(urlsDisk) \in Urls /\ Tail(urlsDisk) \in Seq(Urls)
    BY <1>0, <1>6, SeqHeads, QueueHead
  <2>2. urlsPriorityWait' \in Seq(Urls) /\ urlsDiskWait' \in Seq(Urls)
    BY <1>0, <1>6, <2>1 DEF SeqDisk, PutGenericUrl
  <2>3. interPos' \in Int
    BY <1>0, <1>6 DEF SeqDisk, PutGenericUrl, ForgetUrl
  <2>4. urlsDisk' \in Seq(Urls) /\ still' \in Int /\ space' \in Int
    BY <1>0, <1>6, <2>1 DEF SeqDisk, Sequenced
  <2> QED
    BY <1>0, <1>6, <2>2, <2>3, <2>4 DEF SeqDisk, Sequenced, NoPriority
<1>7. ASSUME NEW v \in Urls, NEW prio \in BOOLEAN, Enter(v, prio)
      PROVE  QueuesOK'
  <2>1. /\ seen' = seen \cup {v}
        /\ UNCHANGED <<urlsPriorityWait, urlsDiskWait, readPriorityWait, readWait,
                       interPos, space, still, testPriority>>
    BY <1>7 DEF Enter, intervalVars
  <2>2. urlsPriority' \in Seq(Urls) /\ urlsDisk' \in Seq(Urls)
    <3>1. Append(urlsPriority, v) \in Seq(Urls) /\ Append(urlsDisk, v) \in Seq(Urls)
      <4>1. urlsPriority \in Seq(Urls) /\ urlsDisk \in Seq(Urls)
        BY <1>0
      <4> QED
        BY ONLY <4>1, v \in Urls, AppendRange
    <3>2. \/ urlsPriority' = Append(urlsPriority, v) /\ urlsDisk' = urlsDisk
          \/ urlsDisk' = Append(urlsDisk, v) /\ urlsPriority' = urlsPriority
      BY <1>7 DEF Enter
    <3>3. urlsPriority \in Seq(Urls) /\ urlsDisk \in Seq(Urls)
      BY <1>0
    <3> QED
      BY ONLY <3>1, <3>2, <3>3
  <2> QED
    BY <1>0, <2>1, <2>2
<1>8. ASSUME NEW v \in InputUrls, NEW prio \in BOOLEAN, NEW test \in InputTests,
             InputUrl(v, prio, test)
      PROVE  QueuesOK'
  <2>1. v \in Urls /\ Enter(v, prio)
    BY <1>8, UrlsAssumption DEF InputUrl
  <2> QED
    BY <1>7, <2>1
<1>15. ASSUME NEW v \in LinkedUrls, PageLink(v) PROVE QueuesOK'
  <2>1. v \in Urls /\ (v \in Privileged) \in BOOLEAN
    BY UrlsAssumption
  <2> QED
    BY <1>7, <1>15, <2>1 DEF PageLink
<1>9. CASE Sequencer \/ SeqNone \/ SeqEnd
  <2>1. CASE Sequencer
    <3>1. interPos' \in Int /\ space' \in Int /\ still' \in Int /\ testPriority'
      BY <1>0, <2>1, SizesAssumption DEF Sequencer
    <3> QED
      BY <1>0, <2>1, <3>1 DEF Sequencer, queueVars
  <2>2. CASE SeqNone
    <3>1. /\ UNCHANGED <<urlsPriority, urlsPriorityWait, urlsDisk, urlsDiskWait,
                        readPriorityWait, readWait, seen, interPos, space>>
          /\ still' = 0 /\ testPriority' = FALSE
      BY <2>2 DEF SeqNone, NoPriority
    <3>2. testPriority' \in BOOLEAN
      BY <3>1
    <3> QED
      BY <1>0, <3>1, <3>2
  <2>3. CASE SeqEnd
    <3>1. UNCHANGED <<queueVars, interPos, space, still>> /\ testPriority' = TRUE
      BY <2>3 DEF SeqEnd
    <3> QED
      BY <1>0, <3>1 DEF queueVars
  <2> QED
    BY <1>9, <2>1, <2>2, <2>3
<1>10. CASE \E i \in IPs : FetchConnect(i) \/ FetchRefused(i)
  <2>1. UNCHANGED queueVars /\ UNCHANGED <<space, still, testPriority>>
    BY <1>10 DEF FetchConnect, FetchRefused
  <2>2. interPos' = interPos - 1
    BY <1>10 DEF FetchConnect, FetchRefused, GetUrl
  <2> QED
    BY <1>0, <2>1, <2>2 DEF queueVars
<1>11. CASE Scan
  <2>1. PICK s \in Slots : ScanKeep(s) \/ ScanForget(s) \/ ScanTransfer(s) \/ ScanEnd(s)
    BY <1>11 DEF Scan
  <2>2. UNCHANGED queueVars /\ UNCHANGED <<space, still, testPriority>>
    BY <2>1 DEF ScanKeep, ScanForget, ScanTransfer, ScanEnd, Scanned, intervalVars
  <2>3. interPos' \in {interPos, interPos - 1}
    BY <2>1 DEF ScanKeep, ScanForget, ScanTransfer, ScanEnd, ForgetUrl, intervalVars
  <2> QED
    BY <1>0, <2>2, <2>3 DEF queueVars
<1>12. CASE \/ SkipCron \/ SubmitEnd \/ ReadEnd \/ OpenEnd \/ CheckEnd
            \/ NextConn \/ Open \/ RobotsEnd \/ PageEnd \/ Submit
            \/ \E d \in Gaps : Cron(d)
  BY <1>1, <1>12 DEF SkipCron, SubmitEnd, ReadEnd, OpenEnd, CheckEnd, NextConn,
     Goto, Open, RobotsEnd, PageEnd, Submit, NewQuery, Cron
<1>13. CASE \/ \E s \in Slots : ReadCname(s) \/ ReadAns(s)
            \/ \E i \in IPs : FetchEmpty(i) \/ FetchEarly(i)
  BY <1>1, <1>13 DEF ReadCname, ReadAns, DnsCname, DnsAns, FetchEmpty, FetchEarly
<1>14. CASE Terminated \/ UNCHANGED vars
  BY <1>1, <1>14 DEF Terminated, vars
<1> QED
  BY <1>2, <1>3, <1>4, <1>5, <1>6, <1>8, <1>15, <1>9, <1>10, <1>11, <1>12, <1>13,
     <1>14 DEF Next, Step, Fetch
-----------------------------------------------------------------------------
LEMMA PutUrlTypes ==
    ASSUME IInv, NEW i \in IPs, NEW u \in Urls, PutUrl(i, u)
    PROVE  /\ tab' \in [IPs -> Seq(Urls)]
           /\ ipQueued' \in [IPs -> BOOLEAN]
           /\ okSites' \in Seq(IPs)
           /\ IPUrl' \in Int
           /\ fetching' \in IPs \cup {None}
<1>1. IPSitesOK /\ fetching \in IPs \cup {None}
  BY DEF IInv, TypeOK, ControlOK
<1>2. tab' \in [IPs -> Seq(Urls)] /\ IPUrl' \in Int /\ ipQueued' \in [IPs -> BOOLEAN]
  BY <1>1 DEF PutUrl, IPSitesOK
<1>3. okSites' \in Seq(IPs) /\ fetching' \in IPs \cup {None}
  <2>1. okSites \in Seq(IPs) /\ Append(okSites, i) \in Seq(IPs)
    BY <1>1 DEF IPSitesOK
  <2>2. okSites' \in {okSites, Append(okSites, i)} /\ fetching' \in {fetching, i}
    BY DEF PutUrl
  <2> QED
    BY <1>1, <2>1, <2>2
<1> QED
  BY <1>2, <1>3

LEMMA TransferTypes ==
    ASSUME IInv, NEW s \in Slots, NEW u \in Urls,
           dnsState[s] = "doneDns", Transfer(s, u)
    PROVE  IPSitesOK' /\ fetching' \in IPs \cup {None}
<1>1. ipHash[s] \in IPs /\ PutUrl(ipHash[s], u)
  BY DEF IInv, Resolved, Transfer
<1>2. urlAddr' \in [IPs -> Seq(Addrs \cup {None})]
  <2>1. urlAddr \in [IPs -> Seq(Addrs \cup {None})] /\ addr[s] \in Addrs \cup {None}
    BY DEF IInv, TypeOK, IPSitesOK, SitesOK
  <2>2. PICK a \in Addrs \cup {None} : urlAddr' = [urlAddr EXCEPT ![ipHash[s]] = Append(@, a)]
    BY <2>1 DEF Transfer
  <2>3. Append(urlAddr[ipHash[s]], a) \in Seq(Addrs \cup {None})
    BY <1>1, <2>1
  <2> QED
    BY <2>1, <2>2, <2>3
<1> QED
  BY <1>1, <1>2, PutUrlTypes DEF IPSitesOK

\* The branches of putGenericUrl.
LEMMA PutBranches ==
    ASSUME NEW u \in Urls, NEW limit, NEW prio, NEW pw, NEW dw, NEW born,
           NEW s \in Slots, s = SlotOf[HostOf[u]], IInv,
           PutGenericUrl(u, limit, prio, pw, dw, born)
    PROVE  \/ /\ ForgetUrl(s, u, nburls[s] + 1)
              /\ UNCHANGED <<fifo, namedUrl, isInFifo, dnsSites, pc, ipVars, fetching>>
           \/ /\ interPos' = interPos - 1
              /\ UNCHANGED <<nburls, reported, fifo, namedUrl, isInFifo, dnsSites,
                             pc, ipVars, fetching>>
           \/ /\ nburls' = [nburls EXCEPT ![s] = @ + 1]
              /\ QueueUrl(s, u)
              /\ UNCHANGED <<interPos, reported, ipVars, fetching>>
           \/ /\ dnsState[s] = "doneDns"
              /\ nburls' = [nburls EXCEPT ![s] = @ + 1]
              /\ Transfer(s, u)
              /\ UNCHANGED <<interPos, reported, fifo, namedUrl, isInFifo, dnsSites, pc>>
<1>1. ASSUME ~Unresolved(s, u), ~Hopeless(s, u)
      PROVE  dnsState[s] = "doneDns"
  <2>1. dnsState[s] \in {"waitDns", "doneDns", "errorDns", "noConnDns"}
    BY DEF IInv, TypeOK, SitesOK
  <2> QED
    BY <1>1, <2>1 DEF Unresolved, Hopeless, SameSite
<1> QED
  BY <1>1 DEF PutGenericUrl

LEMMA ModRange ==
    ASSUME NEW n \in Int
    PROVE  n % UintRange \in 0 .. UintRange - 1
BY SizesAssumption

LEMMA PutTypes ==
    ASSUME IInv, NEW u \in Urls, NEW limit, NEW prio, NEW pw, NEW dw,
           NEW born \in Int, PutGenericUrl(u, limit, prio, pw, dw, born)
    PROVE  /\ nburls' \in [Slots -> Int]
           /\ fifo' \in [Slots -> Seq(Urls)]
           /\ isInFifo' \in [Slots -> BOOLEAN]
           /\ dnsSites' \in Seq(Slots)
           /\ IPSitesOK'
           /\ debUrl' \in Int
           /\ namedUrl' \in 0 .. UintRange - 1
           /\ reported' \in [Urls -> Nat]
           /\ fetching' \in IPs \cup {None}
           /\ pc' \in {pc, "aborted"}
<1> DEFINE s == SlotOf[HostOf[u]]
<1>1. /\ nburls \in [Slots -> Int] /\ fifo \in [Slots -> Seq(Urls)]
      /\ isInFifo \in [Slots -> BOOLEAN] /\ dnsSites \in Seq(Slots)
      /\ IPSitesOK /\ debUrl \in Int /\ namedUrl \in 0 .. UintRange - 1
      /\ reported \in [Urls -> Nat] /\ fetching \in IPs \cup {None}
  BY DEF IInv, TypeOK, SitesOK, StatsOK, ControlOK
<1>2. s \in Slots
  BY UrlParts
<1>3. debUrl' \in Int
  BY <1>1 DEF PutGenericUrl
<1>4. CASE ForgetUrl(s, u, nburls[s] + 1)
           /\ UNCHANGED <<fifo, namedUrl, isInFifo, dnsSites, pc, ipVars, fetching>>
  <2>1. nburls' = [nburls EXCEPT ![s] = (nburls[s] + 1) - 1] /\ Report(u)
    BY <1>4 DEF ForgetUrl
  <2>2. nburls' \in [Slots -> Int]
    BY <1>1, <1>2, <2>1
  <2>3. reported' \in [Urls -> Nat]
    BY <1>1, <2>1 DEF Report
  <2>4. IPSitesOK'
    BY <1>1, <1>4 DEF ipVars, IPSitesOK
  <2> QED
    BY <1>1, <1>3, <1>4, <2>2, <2>3, <2>4
<1>5. CASE UNCHANGED <<nburls, reported, fifo, namedUrl, isInFifo, dnsSites,
                       pc, ipVars, fetching>>
  BY <1>1, <1>3, <1>5 DEF ipVars, IPSitesOK
<1>6. CASE /\ nburls' = [nburls EXCEPT ![s] = @ + 1]
           /\ QueueUrl(s, u)
           /\ UNCHANGED <<interPos, reported, ipVars, fetching>>
  <2>1. namedUrl' \in 0 .. UintRange - 1
    <3>1. namedUrl' \in {namedUrl, (namedUrl + 1) % UintRange} /\ namedUrl + 1 \in Int
      BY <1>1, <1>6 DEF QueueUrl, AddNamedUrl
    <3> QED
      BY <1>1, <3>1, ModRange
  <2>2. fifo' \in [Slots -> Seq(Urls)]
    <3>1. fifo' \in {fifo, [fifo EXCEPT ![s] = Append(@, u)]}
      BY <1>6 DEF QueueUrl
    <3>2. Append(fifo[s], u) \in Seq(Urls)
      BY <1>1, <1>2
    <3>3. [fifo EXCEPT ![s] = Append(@, u)] \in [Slots -> Seq(Urls)]
      BY <1>1, <1>2, <3>2
    <3> QED
      BY <1>1, <3>1, <3>3
  <2>3. isInFifo' \in [Slots -> BOOLEAN]
    <3>1. isInFifo' = isInFifo \/ isInFifo' = [isInFifo EXCEPT ![s] = TRUE]
      BY <1>6 DEF QueueUrl
    <3> QED
      BY <1>1, <1>2, <3>1
  <2>5. dnsSites' \in Seq(Slots) /\ pc' \in {pc, "aborted"}
    <3>1. dnsSites' \in {dnsSites, Append(dnsSites, s)} /\ pc' \in {pc, "aborted"}
      BY <1>6 DEF QueueUrl
    <3>2. Append(dnsSites, s) \in Seq(Slots)
      BY <1>1, <1>2
    <3> QED
      BY <1>1, <3>1, <3>2
  <2>4. IPSitesOK' /\ nburls' \in [Slots -> Int] /\ UNCHANGED <<reported, fetching>>
    BY <1>1, <1>2, <1>6 DEF ipVars, IPSitesOK
  <2> QED
    BY <1>1, <1>3, <2>1, <2>2, <2>3, <2>4, <2>5
<1>7. CASE /\ dnsState[s] = "doneDns"
           /\ nburls' = [nburls EXCEPT ![s] = @ + 1]
           /\ Transfer(s, u)
           /\ UNCHANGED <<interPos, reported, fifo, namedUrl, isInFifo, dnsSites, pc>>
  <2>1. IPSitesOK' /\ fetching' \in IPs \cup {None}
    BY <1>2, <1>7, TransferTypes
  <2> QED
    BY <1>1, <1>2, <1>3, <1>7, <2>1
<1> QED
  BY <1>2, <1>4, <1>5, <1>6, <1>7, PutBranches
\* Every branch of the sequencer hands an url to putGenericUrl.
LEMMA SeqPut ==
    ASSUME IInv, SeqPriorityWait \/ SeqPriority \/ SeqDiskWait \/ SeqDisk
    PROVE  /\ Sequencing /\ Sequenced
           /\ \E u \in Urls, limit \in Nat, prio \in BOOLEAN,
                 pw \in Seq(Urls), dw \in Seq(Urls), born \in {0, 1} :
                     PutGenericUrl(u, limit, prio, pw, dw, born)
<1>1. {urlsPriority, urlsPriorityWait, urlsDisk, urlsDiskWait} \subseteq Seq(Urls)
  BY DEF IInv, TypeOK, QueuesOK
<1>2. {LimitUrl, LimitWait, LimitPrio, LimitPrioWait} \subseteq Nat
  BY SizesAssumption
<1>3. CASE SeqPriorityWait
  <2>1. Head(urlsPriorityWait) \in Urls /\ Tail(urlsPriorityWait) \in Seq(Urls)
    BY <1>1, <1>3, SeqHeads, QueueHead
  <2> QED
    BY <1>1, <1>2, <1>3, <2>1 DEF SeqPriorityWait
<1>4. CASE SeqPriority
  <2>1. Head(urlsPriority) \in Urls
    BY <1>1, <1>4, SeqHeads, QueueHead
  <2> QED
    BY <1>1, <1>2, <1>4, <2>1 DEF SeqPriority
<1>5. CASE SeqDiskWait
  <2>1. Head(urlsDiskWait) \in Urls /\ Tail(urlsDiskWait) \in Seq(Urls)
    BY <1>1, <1>5, SeqHeads, QueueHead
  <2> QED
    BY <1>1, <1>2, <1>5, <2>1 DEF SeqDiskWait, NoPriority
<1>6. CASE SeqDisk
  <2>1. Head(urlsDisk) \in Urls
    BY <1>1, <1>6, SeqHeads, QueueHead
  <2> QED
    BY <1>1, <1>2, <1>6, <2>1 DEF SeqDisk, NoPriority
<1> QED
  BY <1>3, <1>4, <1>5, <1>6

LEMMA DnsOKTypes ==
    ASSUME IInv, NEW s \in Slots, freeConns # <<>>, DnsOK(s) \/ DnsError(s)
    PROVE  /\ \E st \in {"waitDns", "errorDns", "noConnDns"} :
                  dnsState' = [dnsState EXCEPT ![s] = st]
           /\ parser' \in [Conns -> Slots \cup Urls \cup {None}]
           /\ freeConns' \in Seq(Conns)
           /\ scanSite' \in {scanSite, s}
           /\ scanLeft' \in Nat
<1>1. /\ parser \in [Conns -> Slots \cup Urls \cup {None}]
      /\ freeConns \in Seq(Conns) /\ scanLeft \in Nat /\ fifo[s] \in Seq(Urls)
  BY DEF IInv, TypeOK, ConnsOK, ControlOK, SitesOK
<1>2. /\ Head(freeConns) \in Conns /\ Tail(freeConns) \in Seq(Conns)
      /\ Append(Tail(freeConns), Head(freeConns)) \in Seq(Conns)
  BY <1>1, TailRange, Rotate
<1>3. \E st \in {"waitDns", "errorDns", "noConnDns"} :
          dnsState' = [dnsState EXCEPT ![s] = st]
  BY DEF DnsOK, DnsError
<1>4. parser' \in {parser, [parser EXCEPT ![Head(freeConns)] = s]}
  BY DEF DnsOK, DnsError, connVars
<1>5. parser' \in [Conns -> Slots \cup Urls \cup {None}]
  BY <1>1, <1>2, <1>4
<1>6. freeConns' \in {freeConns, Tail(freeConns), Append(Tail(freeConns), Head(freeConns))}
  BY DEF DnsOK, DnsError, connVars
<1>7. scanSite' \in {scanSite, s} /\ scanLeft' \in {scanLeft, Len(fifo[s])}
  BY DEF DnsOK, DnsError, StartScan
<1>8. Len(fifo[s]) \in Nat
  BY <1>1
<1> QED
  BY <1>1, <1>2, <1>3, <1>5, <1>6, <1>7, <1>8
\* What newQuery and dnsAns do, seen from the site they are about.
LEMMA SubmitBranches ==
    ASSUME Submit, NEW s, s = Head(dnsSites)
    PROVE  \/ /\ DnsOK(s) /\ UNCHANGED <<queries, nbDnsCalls>>
              /\ \/ UseProxy /\ UNCHANGED addr
                 \/ \E a \in Addrs : addr' = [addr EXCEPT ![s] = a]
           \/ DnsError(s) /\ UNCHANGED <<addr, queries, nbDnsCalls>>
           \/ /\ dnsState' = [dnsState EXCEPT ![s] = "waitDns"]
              /\ queries' = queries \cup {s} /\ nbDnsCalls' = nbDnsCalls + 1
              /\ UNCHANGED <<addr, connVars, scanSite, scanLeft>>
<1> DEFINE h == HostOf[Head(fifo[s])]
<1>1. CASE UseProxy
  BY <1>1, AddressAssumption DEF Submit, NewQuery
<1>2. CASE ~UseProxy /\ h \in Numeric
  <2>1. CASE Literal[h] # None
    <3>1. Literal[h] \in Addrs
      BY <1>2, <2>1, AddressAssumption
    <3> QED
      BY <1>2, <2>1, <3>1 DEF Submit, NewQuery
  <2>2. CASE Literal[h] = None
    BY <1>2, <2>2 DEF Submit, NewQuery
  <2> QED
    BY <2>1, <2>2
<1>3. CASE ~UseProxy /\ h \notin Numeric
  BY <1>3 DEF Submit, NewQuery
<1> QED
  BY <1>1, <1>2, <1>3

LEMMA SitesStep ==
    ASSUME IInv, [Next]_vars
    PROVE  SitesOK'
<1>0. SitesOK
  BY DEF IInv, TypeOK
<1> USE DEF SitesOK
<1>1. CASE UNCHANGED <<siteVars, dnsVars>>
  BY <1>0, <1>1 DEF siteVars, identityVars, dnsVars
<1>2. CASE SeqPriorityWait \/ SeqPriority \/ SeqDiskWait \/ SeqDisk
  <2>1. UNCHANGED <<identityVars, queries, nbDnsCalls>>
    BY <1>2, SeqPut DEF Sequenced
  <2>2. /\ nburls' \in [Slots -> Int] /\ fifo' \in [Slots -> Seq(Urls)]
        /\ isInFifo' \in [Slots -> BOOLEAN] /\ dnsSites' \in Seq(Slots)
    BY <1>2, SeqPut, PutTypes
  <2> QED
    BY <1>0, <2>1, <2>2 DEF identityVars
<1>3. CASE Submit
  <2> DEFINE s == Head(dnsSites)
  <2>1. s \in Slots /\ Head(fifo[s]) \in Urls /\ freeConns # <<>> /\ dnsSites # <<>>
    BY <1>3, SubmitHead DEF Submit, MaySubmit, Idle
  <2>2. /\ dnsSites' = Tail(dnsSites) /\ NewId(s)
        /\ UNCHANGED <<ipHash, forbidden, cname, nburls, fifo, isInFifo>>
    BY <1>3 DEF Submit, NewQuery
  <2>3. name' \in [Slots -> Hosts \cup {None}] /\ port' \in [Slots -> Ports \cup {None}]
    BY <1>0, <2>1, <2>2, UrlsAssumption DEF NewId
  <2>4. dnsSites' \in Seq(Slots)
    BY <1>0, <2>1, <2>2, TailRange
  <2>5. dnsState' \in [Slots -> {"waitDns", "doneDns", "errorDns", "noConnDns"}]
    BY <1>0, <1>3, <2>1, SubmitBranches, DnsOKTypes
  <2>6. addr' \in [Slots -> Addrs \cup {None}]
    BY <1>0, <1>3, <2>1, SubmitBranches
  <2>7. queries' \subseteq Slots /\ nbDnsCalls' \in Int
    BY <1>0, <1>3, <2>1, SubmitBranches
  <2> QED
    BY <1>0, <2>2, <2>3, <2>4, <2>5, <2>6, <2>7
<1>4. ASSUME NEW s \in Slots, ReadCname(s) PROVE SitesOK'
  <2>1. cname' \in [Slots -> BOOLEAN]
    BY <1>0, <1>4 DEF ReadCname, DnsCname
  <2> QED
    BY <1>0, <1>4, <2>1 DEF ReadCname, DnsCname, dnsVars
<1>5. ASSUME NEW s \in Slots, ReadAns(s) PROVE SitesOK'
  <2>1. PICK a \in Addrs \cup {None} : DnsAns(s, a)
    BY <1>5 DEF ReadAns
  <2>2. dnsState' \in [Slots -> {"waitDns", "doneDns", "errorDns", "noConnDns"}]
    <3>1. freeConns # <<>> /\ (DnsOK(s) \/ DnsError(s))
      BY <1>5, <2>1 DEF ReadAns, MayRead, DnsAns
    <3> QED
      BY <1>0, <3>1, DnsOKTypes
  <2>3. addr' \in [Slots -> Addrs \cup {None}]
    BY <1>0, <2>1 DEF DnsAns
  <2>4. /\ queries' \subseteq Slots /\ nbDnsCalls' \in Int
        /\ cname' \in [Slots -> BOOLEAN]
    BY <1>0, <2>1 DEF DnsAns
  <2> QED
    BY <1>0, <2>1, <2>2, <2>3, <2>4 DEF DnsAns
<1>6. CASE RobotsEnd
  <2> DEFINE s == parser[ci]
  <2>1. ci \in Conns /\ s \in Slots
    BY <1>6, SizesAssumption DEF RobotsEnd, AtConn, IInv, TypeOK, ControlOK, Conns
  <2>2. PICK ok \in BOOLEAN, rules \in SUBSET Files : RobotsResult(s, ok, rules)
    <3>1. forbidden[s] \in SUBSET Files /\ RobotsTxt \subseteq SUBSET Files
      BY <1>0, <2>1, AddressAssumption
    <3> QED
      BY <1>6, <3>1 DEF RobotsEnd
  <2>3. ipHash' \in [Slots -> IPs \cup {None}]
    <3>1. UseProxy \/ addr[s] \in Addrs
      BY <2>1 DEF IInv, Resolved
    <3>2. SlotHash[s] \in IPs /\ (~UseProxy => IPHashOf[addr[s]] \in IPs)
      BY <2>1, <3>1, AddressAssumption
    <3> QED
      BY <1>0, <2>1, <2>2, <3>2 DEF RobotsResult
  <2>4. forbidden' \in [Slots -> SUBSET Files]
    BY <1>0, <2>1, <2>2 DEF RobotsResult
  <2>5. dnsState' \in [Slots -> {"waitDns", "doneDns", "errorDns", "noConnDns"}]
    BY <1>0, <2>1, <2>2 DEF RobotsResult
  <2> QED
    BY <1>0, <1>6, <2>3, <2>4, <2>5 DEF RobotsEnd, dnsVars
<1>7. ASSUME NEW i \in IPs, FetchConnect(i) \/ FetchRefused(i) PROVE SitesOK'
  <2>1. GetUrl(i) /\ UNCHANGED <<identityVars, fifo, isInFifo, dnsVars>>
    BY <1>7 DEF FetchConnect, FetchRefused
  <2>2. nburls' \in [Slots -> Int]
    <3>1. SlotOf[HostOf[Head(tab[i])]] \in Slots
      BY <1>7, FetchHead DEF FetchConnect, FetchRefused
    <3> QED
      BY <1>0, <2>1, <3>1 DEF GetUrl
  <2> QED
    BY <1>0, <2>1, <2>2 DEF identityVars, dnsVars
<1>8. ASSUME NEW s \in Slots, ScanKeep(s) \/ ScanForget(s) \/ ScanTransfer(s)
      PROVE  SitesOK'
  <2>1. Scanned(s) /\ UNCHANGED <<identityVars, isInFifo, dnsVars>>
    BY <1>8 DEF ScanKeep, ScanForget, ScanTransfer, Scanned
  <2>2. Head(fifo[s]) \in Urls /\ Tail(fifo[s]) \in Seq(Urls)
    BY <2>1, ScanHead
  <2>3. Append(Tail(fifo[s]), Head(fifo[s])) \in Seq(Urls)
    BY <2>2
  <2>4. \/ fifo' = [fifo EXCEPT ![s] = Tail(@)]
        \/ fifo' = [fifo EXCEPT ![s] = Append(Tail(@), Head(fifo[s]))]
    BY <1>8 DEF ScanKeep, ScanForget, ScanTransfer
  <2>5. fifo' \in [Slots -> Seq(Urls)]
    BY <1>0, <2>2, <2>3, <2>4
  <2>6. nburls' \in [Slots -> Int]
    BY <1>0, <1>8 DEF ScanKeep, ScanForget, ScanTransfer, ForgetUrl
  <2> QED
    BY <1>0, <2>1, <2>5, <2>6 DEF identityVars, dnsVars
<1>9. ASSUME NEW s \in Slots, ScanEnd(s) PROVE SitesOK'
  <2>1. isInFifo' \in [Slots -> BOOLEAN]
    BY <1>0, <1>9 DEF ScanEnd, Place
  <2>2. dnsSites' \in Seq(Slots)
    <3>1. dnsSites' \in {dnsSites, Append(dnsSites, s)} /\ Append(dnsSites, s) \in Seq(Slots)
      BY <1>0, <1>9 DEF ScanEnd, Place
    <3> QED
      BY <1>0, <3>1
  <2> QED
    BY <1>0, <1>9, <2>1, <2>2 DEF ScanEnd, identityVars
<1>10. CASE \/ SkipCron \/ CronTail \/ Sequencer \/ SeqNone \/ SeqEnd
            \/ SubmitEnd \/ ReadEnd \/ OpenEnd \/ CheckEnd
            \/ NextConn \/ Open \/ PageEnd
            \/ \E d \in Gaps : Cron(d)
  BY <1>1, <1>10 DEF SkipCron, CronTail, Sequencer, SeqNone, SeqEnd, SubmitEnd,
     ReadEnd, OpenEnd, CheckEnd, NextConn, Goto, Open, PageEnd, Cron
<1>11. CASE \/ \E v \in InputUrls, prio \in BOOLEAN, test \in InputTests :
                InputUrl(v, prio, test)
           \/ \E v \in LinkedUrls : PageLink(v)
  BY <1>1, <1>11 DEF InputUrl, PageLink, Enter
<1>13. CASE \E i \in IPs : FetchEmpty(i) \/ FetchEarly(i)
  BY <1>1, <1>13 DEF FetchEmpty, FetchEarly
<1>12. CASE Terminated \/ UNCHANGED vars
  BY <1>1, <1>12 DEF Terminated, vars
<1> QED
  BY <1>2, <1>3, <1>4, <1>5, <1>6, <1>7, <1>8, <1>9, <1>10, <1>11, <1>12, <1>13
     DEF Next, Step, Fetch, Scan
LEMMA ScanTransferSite ==
    ASSUME NEW s \in Slots, ScanTransfer(s)
    PROVE  dnsState[s] = "doneDns" /\ Transfer(s, Head(fifo[s]))
BY DEF ScanTransfer

LEMMA IPSitesStep ==
    ASSUME IInv, [Next]_vars
    PROVE  IPSitesOK'
<1>0. IPSitesOK
  BY DEF IInv, TypeOK
<1> USE DEF IPSitesOK
<1>1. CASE UNCHANGED ipVars
  BY <1>0, <1>1 DEF ipVars
<1>2. CASE SeqPriorityWait \/ SeqPriority \/ SeqDiskWait \/ SeqDisk
  BY <1>2, SeqPut, PutTypes
<1>3. CASE Open
  <2>1. okSites # <<>> /\ okSites' = Tail(okSites)
    BY <1>3 DEF Open, MayOpen
  <2>2. Tail(okSites) \in Seq(IPs)
    BY <1>0, <2>1, TailRange
  <2> QED
    BY <1>0, <1>3, <2>1, <2>2 DEF Open
<1>4. ASSUME NEW i \in IPs, FetchEmpty(i) PROVE IPSitesOK'
  BY <1>0, <1>4 DEF FetchEmpty
<1>5. ASSUME NEW i \in IPs, FetchEarly(i) PROVE IPSitesOK'
  <2>1. <<i>> \o okSites \in Seq(IPs)
    BY <1>0
  <2> QED
    BY <1>0, <1>5, <2>1 DEF FetchEarly
<1>6. ASSUME NEW i \in IPs, FetchConnect(i) PROVE IPSitesOK'
  <2>1. Tail(tab[i]) \in Seq(Urls) /\ Tail(urlAddr[i]) \in Seq(Addrs \cup {None})
    BY <1>6, FetchHead DEF FetchConnect
  <2>2. /\ tab' \in [IPs -> Seq(Urls)] /\ IPUrl' \in Int
        /\ urlAddr' \in [IPs -> Seq(Addrs \cup {None})]
    BY <1>0, <1>6, <2>1 DEF FetchConnect, GetUrl
  <2>3. okSites' \in Seq(IPs)
    <3>1. okSites' \in {okSites, Append(okSites, i)}
      BY <1>6 DEF FetchConnect
    <3>2. Append(okSites, i) \in Seq(IPs)
      BY <1>0
    <3> QED
      BY <1>0, <3>1, <3>2
  <2>4. ipQueued' \in [IPs -> BOOLEAN]
    BY <1>0, <1>6 DEF FetchConnect
  <2> QED
    BY <1>0, <1>6, <2>2, <2>3, <2>4 DEF FetchConnect
<1>7. ASSUME NEW i \in IPs, FetchRefused(i) PROVE IPSitesOK'
  <2>1. Tail(tab[i]) \in Seq(Urls) /\ Tail(urlAddr[i]) \in Seq(Addrs \cup {None})
    BY <1>7, FetchHead DEF FetchRefused
  <2>2. /\ tab' \in [IPs -> Seq(Urls)] /\ IPUrl' \in Int
        /\ urlAddr' \in [IPs -> Seq(Addrs \cup {None})]
    BY <1>0, <1>7, <2>1 DEF FetchRefused, GetUrl
  <2> QED
    BY <1>0, <1>7, <2>2 DEF FetchRefused
<1>8. ASSUME NEW s \in Slots, ScanTransfer(s) PROVE IPSitesOK'
  <2>1. Head(fifo[s]) \in Urls
    BY <1>8, ScanHead DEF ScanTransfer
  <2> QED
    BY <1>8, <2>1, ScanTransferSite, TransferTypes
<1>9. ASSUME NEW s \in Slots, ScanKeep(s) \/ ScanForget(s) \/ ScanEnd(s)
      PROVE  IPSitesOK'
  BY <1>1, <1>9 DEF ScanKeep, ScanForget, ScanEnd
<1>10. CASE \/ SkipCron \/ CronTail \/ Sequencer \/ SeqNone \/ SeqEnd
            \/ SubmitEnd \/ ReadEnd \/ OpenEnd \/ CheckEnd
            \/ NextConn \/ PageEnd \/ RobotsEnd \/ Submit
            \/ \E d \in Gaps : Cron(d)
  BY <1>1, <1>10 DEF SkipCron, CronTail, Sequencer, SeqNone, SeqEnd, SubmitEnd,
     ReadEnd, OpenEnd, CheckEnd, NextConn, Goto, PageEnd, RobotsEnd, Submit,
     NewQuery, Cron
<1>11. CASE \/ \E v \in InputUrls, prio \in BOOLEAN, test \in InputTests :
                InputUrl(v, prio, test)
           \/ \E v \in LinkedUrls : PageLink(v)
  BY <1>1, <1>11 DEF InputUrl, PageLink, Enter
<1>12. CASE \E s \in Slots : ReadCname(s) \/ ReadAns(s)
  BY <1>1, <1>12 DEF ReadCname, ReadAns, DnsCname, DnsAns
<1>13. CASE Terminated \/ UNCHANGED vars
  BY <1>1, <1>13 DEF Terminated, vars
<1> QED
  BY <1>2, <1>3, <1>4, <1>5, <1>6, <1>7, <1>8, <1>9, <1>10, <1>11, <1>12, <1>13
     DEF Next, Step, Fetch, Scan

\* An url object enters and leaves its IPSite together with its address.
LEMMA AddrStep ==
    ASSUME IInv, [Next]_vars
    PROVE  AddrKept'
<1>0. /\ tab \in [IPs -> Seq(Urls)] /\ urlAddr \in [IPs -> Seq(Addrs \cup {None})]
      /\ \A i \in IPs : Len(urlAddr[i]) = Len(tab[i])
  BY DEF IInv, TypeOK, IPSitesOK, AddrKept
<1>1. CASE UNCHANGED <<tab, urlAddr>>
  BY <1>0, <1>1 DEF AddrKept
<1>2. ASSUME NEW s \in Slots, NEW u \in Urls, dnsState[s] = "doneDns", Transfer(s, u)
      PROVE  AddrKept'
  <2>1. ipHash[s] \in IPs /\ addr[s] \in Addrs \cup {None}
    BY <1>2 DEF IInv, Resolved, TypeOK, SitesOK
  <2>2. PICK a \in Addrs \cup {None} :
           /\ urlAddr' = [urlAddr EXCEPT ![ipHash[s]] = Append(@, a)]
           /\ tab' = [tab EXCEPT ![ipHash[s]] = Append(@, u)]
    BY <1>2, <2>1 DEF Transfer, PutUrl
  <2>3. \A i \in IPs : /\ Len(Append(urlAddr[i], a)) = Len(urlAddr[i]) + 1
                        /\ Len(Append(tab[i], u)) = Len(tab[i]) + 1
    BY <1>0
  <2> QED
    BY <1>0, <2>1, <2>2, <2>3 DEF AddrKept
<1>3. CASE SeqPriorityWait \/ SeqPriority \/ SeqDiskWait \/ SeqDisk
  <2>1. PICK u \in Urls, limit \in Nat, prio \in BOOLEAN, pw \in Seq(Urls),
             dw \in Seq(Urls), born \in {0, 1} :
                 PutGenericUrl(u, limit, prio, pw, dw, born)
    BY <1>3, SeqPut
  <2>2. \/ UNCHANGED ipVars
        \/ dnsState[SlotOf[HostOf[u]]] = "doneDns" /\ Transfer(SlotOf[HostOf[u]], u)
    BY <2>1, UrlParts, PutBranches
  <2> QED
    BY <1>1, <1>2, <2>2, UrlParts DEF ipVars
<1>4. ASSUME NEW i \in IPs, FetchConnect(i) \/ FetchRefused(i) PROVE AddrKept'
  <2>1. /\ Len(Tail(tab[i])) = Len(tab[i]) - 1
        /\ Len(Tail(urlAddr[i])) = Len(tab[i]) - 1
    BY <1>4, FetchHead DEF FetchConnect, FetchRefused
  <2>2. /\ tab' = [tab EXCEPT ![i] = Tail(@)]
        /\ urlAddr' = [urlAddr EXCEPT ![i] = Tail(@)]
    BY <1>4 DEF FetchConnect, FetchRefused, GetUrl
  <2> QED
    BY <1>0, <2>1, <2>2 DEF AddrKept
<1>5. ASSUME NEW s \in Slots, ScanTransfer(s) PROVE AddrKept'
  <2>1. Head(fifo[s]) \in Urls
    BY <1>5, ScanHead DEF ScanTransfer
  <2> QED
    BY <1>2, <1>5, <2>1, ScanTransferSite
<1>6. ASSUME NEW s \in Slots, ScanKeep(s) \/ ScanForget(s) \/ ScanEnd(s)
      PROVE  AddrKept'
  BY <1>1, <1>6 DEF ScanKeep, ScanForget, ScanEnd, ipVars
<1>7. CASE \/ SkipCron \/ CronTail \/ Sequencer \/ SeqNone \/ SeqEnd
           \/ SubmitEnd \/ ReadEnd \/ Open \/ OpenEnd \/ CheckEnd
           \/ NextConn \/ PageEnd \/ RobotsEnd \/ Submit
           \/ \E d \in Gaps : Cron(d)
  BY <1>1, <1>7 DEF SkipCron, CronTail, Sequencer, SeqNone, SeqEnd, SubmitEnd,
     ReadEnd, Open, OpenEnd, CheckEnd, NextConn, Goto, PageEnd, RobotsEnd, Submit,
     NewQuery, Cron, ipVars
<1>8. CASE \/ \E v \in InputUrls, prio \in BOOLEAN, test \in InputTests :
                InputUrl(v, prio, test)
           \/ \E v \in LinkedUrls : PageLink(v)
  BY <1>1, <1>8 DEF InputUrl, PageLink, Enter, ipVars
<1>9. CASE \/ \E s \in Slots : ReadCname(s) \/ ReadAns(s)
           \/ \E i \in IPs : FetchEmpty(i) \/ FetchEarly(i)
  BY <1>1, <1>9 DEF ReadCname, ReadAns, DnsCname, DnsAns, FetchEmpty, FetchEarly, ipVars
<1>10. CASE Terminated \/ UNCHANGED vars
  BY <1>1, <1>10 DEF Terminated, vars, ipVars
<1> QED
  BY <1>3, <1>4, <1>5, <1>6, <1>7, <1>8, <1>9, <1>10 DEF Next, Step, Fetch, Scan

LEMMA StatsStep ==
    ASSUME IInv, [Next]_vars
    PROVE  StatsOK'
<1>0. StatsOK
  BY DEF IInv, TypeOK
<1> USE DEF StatsOK
<1>1. CASE UNCHANGED statVars
  BY <1>0, <1>1 DEF statVars
<1>2. CASE SeqPriorityWait \/ SeqPriority \/ SeqDiskWait \/ SeqDisk
  <2>1. UNCHANGED accepted
    BY <1>2, SeqPut DEF Sequenced
  <2>2. debUrl' \in Int /\ namedUrl' \in 0 .. UintRange - 1 /\ reported' \in [Urls -> Nat]
    BY <1>2, SeqPut, PutTypes
  <2> QED
    BY <1>0, <2>1, <2>2
<1>3. ASSUME NEW v \in Urls, NEW prio \in BOOLEAN, Enter(v, prio)
      PROVE  StatsOK'
  <2>1. accepted' \in [Urls -> Nat] /\ debUrl' \in Int
    BY <1>0, <1>3 DEF Enter
  <2> QED
    BY <1>0, <1>3, <2>1 DEF Enter
<1>4. ASSUME NEW v \in InputUrls, NEW prio \in BOOLEAN, NEW test \in InputTests,
             InputUrl(v, prio, test)
      PROVE  StatsOK'
  <2>1. v \in Urls /\ Enter(v, prio)
    BY <1>4, UrlsAssumption DEF InputUrl
  <2> QED
    BY <1>3, <2>1
<1>5. ASSUME NEW v \in LinkedUrls, PageLink(v) PROVE StatsOK'
  <2>1. v \in Urls /\ (v \in Privileged) \in BOOLEAN
    BY UrlsAssumption
  <2> QED
    BY <1>3, <1>5, <2>1 DEF PageLink
<1>6. ASSUME NEW i \in IPs, FetchConnect(i) PROVE StatsOK'
  BY <1>0, <1>6 DEF FetchConnect
<1>7. ASSUME NEW u \in Urls, Report(u) PROVE reported' \in [Urls -> Nat]
  BY <1>0, <1>7 DEF Report
<1>8. ASSUME NEW i \in IPs, FetchRefused(i) PROVE StatsOK'
  <2>1. reported' \in [Urls -> Nat]
    BY <1>7, <1>8, FetchHead DEF FetchRefused
  <2> QED
    BY <1>0, <1>8, <2>1 DEF FetchRefused
<1>9. CASE PageEnd
  <2>1. reported' \in [Urls -> Nat]
    BY <1>7, <1>9 DEF PageEnd
  <2> QED
    BY <1>0, <1>9, <2>1 DEF PageEnd, HereAndBase
<1>10. ASSUME NEW s \in Slots, ScanKeep(s) \/ ScanForget(s) \/ ScanTransfer(s)
       PROVE  StatsOK'
  <2>1. Head(fifo[s]) \in Urls
    BY <1>10, ScanHead DEF ScanKeep, ScanForget, ScanTransfer
  <2>2. reported' \in [Urls -> Nat] /\ debUrl' \in Int
    BY <1>0, <1>7, <1>10, <2>1 DEF ScanKeep, ScanForget, ScanTransfer, ForgetUrl
  <2>3. namedUrl' \in {namedUrl, (namedUrl - 1) % UintRange} /\ namedUrl - 1 \in Int
    BY <1>0, <1>10, SizesAssumption
       DEF ScanKeep, ScanForget, ScanTransfer, DelNamedUrl
  <2>4. namedUrl' \in 0 .. UintRange - 1
    BY <1>0, <2>3, ModRange
  <2> QED
    BY <1>0, <1>10, <2>2, <2>4 DEF ScanKeep, ScanForget, ScanTransfer, Scanned
<1>11. ASSUME NEW s \in Slots, ScanEnd(s) PROVE StatsOK'
  BY <1>1, <1>11 DEF ScanEnd
<1>12. CASE \/ SkipCron \/ CronTail \/ Sequencer \/ SeqNone \/ SeqEnd
            \/ SubmitEnd \/ ReadEnd \/ Open \/ OpenEnd \/ CheckEnd
            \/ NextConn \/ RobotsEnd \/ Submit
            \/ \E d \in Gaps : Cron(d)
  BY <1>1, <1>12 DEF SkipCron, CronTail, Sequencer, SeqNone, SeqEnd, SubmitEnd,
     ReadEnd, Open, OpenEnd, CheckEnd, NextConn, Goto, RobotsEnd, Submit,
     NewQuery, Cron
<1>13. CASE \/ \E s \in Slots : ReadCname(s) \/ ReadAns(s)
            \/ \E i \in IPs : FetchEmpty(i) \/ FetchEarly(i)
  BY <1>1, <1>13 DEF ReadCname, ReadAns, DnsCname, DnsAns, FetchEmpty, FetchEarly
<1>14. CASE Terminated \/ UNCHANGED vars
  BY <1>1, <1>14 DEF Terminated, vars
<1> QED
  BY <1>2, <1>4, <1>5, <1>6, <1>8, <1>9, <1>10, <1>11, <1>12, <1>13, <1>14
     DEF Next, Step, Fetch, Scan
LEMMA ControlStep ==
    ASSUME IInv, [Next]_vars
    PROVE  ControlOK'
<1>0. ControlOK /\ NbConn \in Nat \ {0}
  BY SizesAssumption DEF IInv, TypeOK
<1> USE DEF ControlOK
<1>1. CASE UNCHANGED controlVars
  BY <1>0, <1>1 DEF controlVars
<1>2. CASE SeqPriorityWait \/ SeqPriority \/ SeqDiskWait \/ SeqDisk
  <2>1. UNCHANGED <<ci, parsing, scanSite, scanLeft>>
    BY <1>2, SeqPut DEF Sequenced
  <2>2. fetching' \in IPs \cup {None} /\ pc' \in {pc, "aborted"}
    BY <1>2, SeqPut, PutTypes
  <2> QED
    BY <1>0, <2>1, <2>2
<1>3. CASE \/ SkipCron \/ Sequencer \/ SeqEnd \/ SubmitEnd \/ ReadEnd \/ OpenEnd
           \/ \E d \in Gaps : Cron(d)
  BY <1>0, <1>3 DEF SkipCron, Sequencer, SeqEnd, SubmitEnd, ReadEnd, OpenEnd,
     Goto, Cron
<1>4. CASE CronTail \/ CheckEnd
  <2>1. 1 \in 1 .. NbConn + 1
    BY <1>0
  <2> QED
    BY <1>0, <1>4, <2>1 DEF CronTail, CheckEnd
<1>5. CASE NextConn \/ PageEnd
  <2>1. ci' \in 1 .. NbConn + 1
    BY <1>0, <1>5 DEF NextConn, PageEnd, AtConn
  <2> QED
    BY <1>0, <1>5, <2>1 DEF NextConn, PageEnd
<1>6. CASE Submit
  <2>1. Head(dnsSites) \in Slots /\ freeConns # <<>>
    BY <1>6, SubmitHead DEF Submit, MaySubmit, Idle
  <2>2. scanSite' \in Slots \cup {None} /\ scanLeft' \in Nat
    BY <1>0, <1>6, <2>1, SubmitBranches, DnsOKTypes
  <2> QED
    BY <1>0, <1>6, <2>2 DEF Submit, NewQuery
<1>7. ASSUME NEW s \in Slots, ReadAns(s) PROVE ControlOK'
  <2>1. freeConns # <<>> /\ (DnsOK(s) \/ DnsError(s))
    BY <1>7 DEF ReadAns, MayRead, DnsAns
  <2>2. scanSite' \in Slots \cup {None} /\ scanLeft' \in Nat
    BY <1>0, <2>1, DnsOKTypes
  <2> QED
    BY <1>0, <1>7, <2>2 DEF ReadAns, DnsAns
<1>8. CASE RobotsEnd
  <2>1. parser[ci] \in Slots
    BY <1>8 DEF RobotsEnd
  <2>2. Len(fifo[parser[ci]]) \in Nat
    BY <2>1 DEF IInv, TypeOK, SitesOK
  <2>3. scanSite' \in Slots \cup {None} /\ scanLeft' \in Nat
    BY <1>8, <2>1, <2>2 DEF RobotsEnd, RobotsResult, StartScan
  <2> QED
    BY <1>0, <1>8, <2>3 DEF RobotsEnd
<1>9. CASE Open
  <2>1. okSites \in Seq(IPs) /\ okSites # <<>>
    BY <1>9 DEF Open, MayOpen, IInv, TypeOK, IPSitesOK
  <2>2. Head(okSites) \in IPs
    BY <2>1, TailRange
  <2> QED
    BY <1>0, <1>9, <2>2 DEF Open
<1>10. CASE \E i \in IPs : \/ FetchEmpty(i) \/ FetchEarly(i)
                           \/ FetchConnect(i) \/ FetchRefused(i)
  BY <1>0, <1>10 DEF FetchEmpty, FetchEarly, FetchConnect, FetchRefused, controlVars
<1>11. ASSUME NEW s \in Slots, ScanKeep(s) \/ ScanForget(s) \/ ScanTransfer(s)
       PROVE  ControlOK'
  <2>1. scanLeft' \in Nat /\ UNCHANGED <<pc, ci, parsing, scanSite>>
    BY <1>0, <1>11 DEF ScanKeep, ScanForget, ScanTransfer, Scanned
  <2>2. fetching' \in IPs \cup {None}
    <3>1. CASE ScanTransfer(s)
      <4>1. Head(fifo[s]) \in Urls
        BY <3>1, ScanHead DEF ScanTransfer
      <4> QED
        BY <3>1, <4>1, ScanTransferSite, TransferTypes
    <3> QED
      BY <1>0, <1>11, <3>1 DEF ScanKeep, ScanForget
  <2> QED
    BY <1>0, <2>1, <2>2
<1>12. ASSUME NEW s \in Slots, ScanEnd(s) PROVE ControlOK'
  <2>1. ci' \in 1 .. NbConn + 1
    <3>1. pc \in {"timeouts", "checkAll"} => ci \in 1 .. NbConn
      BY <1>12, NoneAssumption DEF ScanEnd, IInv, ScanBounded, Conns
    <3> QED
      BY <1>0, <1>12, <3>1 DEF ScanEnd
  <2> QED
    BY <1>0, <1>12, <2>1 DEF ScanEnd
<1>13. CASE \E v \in LinkedUrls : PageLink(v)
  BY <1>0, <1>13 DEF PageLink
<1>14. CASE \E v \in InputUrls, prio \in BOOLEAN, test \in InputTests :
                InputUrl(v, prio, test)
  BY <1>1, <1>14 DEF InputUrl
<1>15. CASE SeqNone \/ Terminated \/ UNCHANGED vars
           \/ \E s \in Slots : ReadCname(s)
  BY <1>1, <1>15 DEF SeqNone, Terminated, vars, ReadCname, DnsCname
<1> QED
  BY <1>2, <1>3, <1>4, <1>5, <1>6, <1>7, <1>8, <1>9, <1>10, <1>11, <1>12, <1>13,
     <1>14, <1>15 DEF Next, Step, Fetch, Scan
-----------------------------------------------------------------------------
(***************************************************************************)
(* The connections: taken from the head of freeConns, given back at its    *)
(* end by the parser that held them.                                       *)
(***************************************************************************)
LEMMA TakeConn ==
    ASSUME ConnsOK, ConnAccounting, freeConns # <<>>, NEW x \in Slots \cup Urls,
           parser' = [parser EXCEPT ![Head(freeConns)] = x],
           freeConns' = Tail(freeConns)
    PROVE  ConnsOK' /\ ConnAccounting'
<1> DEFINE c == Head(freeConns)
<1>1. /\ freeConns \in Seq(Conns) /\ IsInjective(freeConns)
      /\ parser \in [Conns -> Slots \cup Urls \cup {None}]
      /\ Range(freeConns) = {d \in Conns : parser[d] = None}
  BY DEF ConnsOK, ConnAccounting
<1>2. /\ c \in Conns /\ freeConns' \in Seq(Conns)
      /\ Range(freeConns) = Range(freeConns') \cup {c}
  BY <1>1, TailRange
<1>3. IsInjective(freeConns') /\ c \notin Range(freeConns')
  BY <1>1, TailInjective
<1>4. x # None
  BY NoneAssumption
<1>5. Range(freeConns') = {d \in Conns : parser'[d] = None}
  BY <1>1, <1>2, <1>3, <1>4
<1>6. parser' \in [Conns -> Slots \cup Urls \cup {None}]
  BY <1>1, <1>2
<1> QED
  BY <1>2, <1>3, <1>5, <1>6 DEF ConnsOK, ConnAccounting

LEMMA GiveConn ==
    ASSUME ConnsOK, ConnAccounting, NEW c \in Conns, parser[c] # None,
           parser' = [parser EXCEPT ![c] = None],
           freeConns' = Append(freeConns, c)
    PROVE  ConnsOK' /\ ConnAccounting'
<1>1. /\ freeConns \in Seq(Conns) /\ IsInjective(freeConns)
      /\ parser \in [Conns -> Slots \cup Urls \cup {None}]
      /\ Range(freeConns) = {d \in Conns : parser[d] = None}
  BY DEF ConnsOK, ConnAccounting
<1>2. freeConns' \in Seq(Conns) /\ Range(freeConns') = Range(freeConns) \cup {c}
  BY <1>1, AppendRange
<1>3. IsInjective(freeConns')
  <2>1. c \notin Range(freeConns)
    BY <1>1
  <2> QED
    BY <1>1, <2>1, AppendKeepsInjective
<1>4. Range(freeConns') = {d \in Conns : parser'[d] = None}
  BY <1>1, <1>2
<1>5. parser' \in [Conns -> Slots \cup Urls \cup {None}]
  BY <1>1
<1> QED
  BY <1>2, <1>3, <1>4, <1>5 DEF ConnsOK, ConnAccounting

LEMMA RotateConn ==
    ASSUME ConnsOK, ConnAccounting, freeConns # <<>>, UNCHANGED parser,
           freeConns' = Append(Tail(freeConns), Head(freeConns))
    PROVE  ConnsOK' /\ ConnAccounting' /\ freeConns' # <<>>
<1>1. /\ freeConns \in Seq(Conns) /\ IsInjective(freeConns)
      /\ Range(freeConns) = {d \in Conns : parser[d] = None}
  BY DEF ConnsOK, ConnAccounting
<1>2. /\ freeConns' \in Seq(Conns) /\ freeConns' # <<>>
      /\ Range(freeConns') = Range(freeConns) /\ IsInjective(freeConns')
  BY <1>1, Rotate
<1> QED
  BY <1>1, <1>2 DEF ConnsOK, ConnAccounting

LEMMA ConnOfDns ==
    ASSUME ConnsOK, ConnAccounting, freeConns # <<>>, NEW s \in Slots,
           DnsOK(s) \/ DnsError(s)
    PROVE  ConnsOK' /\ ConnAccounting'
<1>1. CASE /\ parser' = [parser EXCEPT ![Head(freeConns)] = s]
           /\ freeConns' = Tail(freeConns)
  BY <1>1, TakeConn
<1>2. CASE /\ freeConns' = Append(Tail(freeConns), Head(freeConns))
           /\ UNCHANGED parser
  BY <1>2, RotateConn
<1>3. CASE DnsError(s)
  BY <1>3 DEF DnsError, connVars, ConnsOK, ConnAccounting
<1> QED
  BY <1>1, <1>2, <1>3 DEF DnsOK

LEMMA ConnStep ==
    ASSUME IInv, [Next]_vars
    PROVE  ConnsOK' /\ ConnAccounting'
<1>0. ConnsOK /\ ConnAccounting /\ ControlOK
  BY DEF IInv, TypeOK
<1>1. CASE UNCHANGED connVars
  BY <1>0, <1>1 DEF connVars, ConnsOK, ConnAccounting
<1>2. CASE Submit
  <2>1. Head(dnsSites) \in Slots /\ freeConns # <<>>
    BY <1>2, SubmitHead DEF Submit, MaySubmit, Idle
  <2> QED
    BY <1>0, <1>1, <1>2, <2>1, SubmitBranches, ConnOfDns
<1>3. ASSUME NEW s \in Slots, ReadAns(s) PROVE ConnsOK' /\ ConnAccounting'
  <2>1. freeConns # <<>> /\ (DnsOK(s) \/ DnsError(s))
    BY <1>3 DEF ReadAns, MayRead, DnsAns
  <2> QED
    BY <1>0, <2>1, ConnOfDns
<1>4. ASSUME NEW s \in Slots, ScanEnd(s) PROVE ConnsOK' /\ ConnAccounting'
  <2>1. CASE pc \in {"timeouts", "checkAll"}
    <3>1. ci \in Conns /\ parser[ci] = s /\ s # None
      BY <1>4, <2>1, NoneAssumption DEF ScanEnd, IInv, ScanBounded
    <3>2. parser' = [parser EXCEPT ![ci] = None] /\ freeConns' = Append(freeConns, ci)
      BY <1>4, <2>1 DEF ScanEnd
    <3> QED
      BY <1>0, <3>1, <3>2, GiveConn
  <2>2. CASE pc \notin {"timeouts", "checkAll"}
    BY <1>1, <1>4, <2>2 DEF ScanEnd
  <2> QED
    BY <2>1, <2>2
<1>5. ASSUME NEW i \in IPs, FetchConnect(i) PROVE ConnsOK' /\ ConnAccounting'
  <2>1. freeConns # <<>> /\ Head(tab[i]) \in Urls
    BY <1>5, FetchHead DEF FetchConnect
  <2>2. /\ parser' = [parser EXCEPT ![Head(freeConns)] = Head(tab[i])]
        /\ freeConns' = Tail(freeConns)
    BY <1>5 DEF FetchConnect
  <2> QED
    BY <1>0, <2>1, <2>2, TakeConn
<1>6. ASSUME NEW i \in IPs, FetchRefused(i) PROVE ConnsOK' /\ ConnAccounting'
  <2>1. freeConns # <<>>
    BY <1>6, FetchHead DEF FetchRefused
  <2>2. UNCHANGED parser /\ freeConns' = Append(Tail(freeConns), Head(freeConns))
    BY <1>6 DEF FetchRefused
  <2> QED
    BY <1>0, <2>1, <2>2, RotateConn
<1>7. CASE PageEnd
  <2>1. ci \in Conns /\ parser[ci] # None
    BY <1>0, <1>7, SizesAssumption, NoneAssumption DEF PageEnd, AtConn, ControlOK, Conns
  <2>2. parser' = [parser EXCEPT ![ci] = None] /\ freeConns' = Append(freeConns, ci)
    BY <1>7 DEF PageEnd
  <2> QED
    BY <1>0, <2>1, <2>2, GiveConn
<1>8. CASE UNCHANGED vars
  BY <1>1, <1>8 DEF vars
<1> QED
  BY <1>1, <1>2, <1>3, <1>4, <1>5, <1>6, <1>7, <1>8, ConnFrame
-----------------------------------------------------------------------------
(***************************************************************************)
(* The counters of the waiting queues and the precondition of fetch.       *)
(***************************************************************************)
LEMMA ReadWaitStep ==
    ASSUME IInv, [Next]_vars
    PROVE  ReadWaitBounded'
<1>0. /\ readPriorityWait <= Len(urlsPriorityWait) /\ readWait <= Len(urlsDiskWait)
      /\ readPriorityWait \in Nat /\ readWait \in Nat
      /\ urlsPriorityWait \in Seq(Urls) /\ urlsDiskWait \in Seq(Urls)
  BY DEF IInv, ReadWaitBounded, TypeOK, QueuesOK
<1> USE DEF ReadWaitBounded
<1>1. CASE UNCHANGED <<urlsPriorityWait, urlsDiskWait, readPriorityWait, readWait>>
  BY <1>0, <1>1
<1>2. CASE CronTail
  <2>1. Len(urlsPriorityWait) \in Nat /\ Len(urlsDiskWait) \in Nat
    BY <1>0
  <2>2. /\ readPriorityWait' \in {Len(urlsPriorityWait), 0, readPriorityWait}
        /\ readWait' \in {Len(urlsDiskWait), 0, readWait}
        /\ UNCHANGED <<urlsPriorityWait, urlsDiskWait>>
    BY <1>2 DEF CronTail, RereadPriority, RereadPriorityFrom, Reread
  <2> QED
    BY <1>0, <2>1, <2>2
<1>3. ASSUME NEW q \in Seq(Urls), NEW u \in Urls
      PROVE  Len(Append(q, u)) = Len(q) + 1 /\ Len(q) \in Nat
  BY <1>3
<1>4. CASE SeqPriorityWait
  <2>1. /\ Head(urlsPriorityWait) \in Urls /\ Tail(urlsPriorityWait) \in Seq(Urls)
        /\ Len(Tail(urlsPriorityWait)) = Len(urlsPriorityWait) - 1
    BY <1>0, <1>4, SeqHeads, QueueHead
  <2>2. /\ \/ urlsPriorityWait' = Tail(urlsPriorityWait)
           \/ urlsPriorityWait' = Append(Tail(urlsPriorityWait), Head(urlsPriorityWait))
        /\ \/ urlsDiskWait' = urlsDiskWait
           \/ urlsDiskWait' = Append(urlsDiskWait, Head(urlsPriorityWait))
        /\ readPriorityWait' = readPriorityWait - 1 /\ UNCHANGED readWait
    BY <1>4 DEF SeqPriorityWait, PutGenericUrl
  <2> QED
    BY <1>0, <1>3, <2>1, <2>2
<1>5. ASSUME NEW u \in Urls,
             \/ urlsPriorityWait' = urlsPriorityWait
             \/ urlsPriorityWait' = Append(urlsPriorityWait, u),
             \/ urlsDiskWait' = urlsDiskWait
             \/ urlsDiskWait' = Append(urlsDiskWait, u),
             UNCHANGED <<readPriorityWait, readWait>>
      PROVE  ReadWaitBounded'
  BY <1>0, <1>3, <1>5
<1>6. CASE SeqPriority
  <2>1. Head(urlsPriority) \in Urls
    BY <1>6, SeqHeads, QueueHead DEF IInv, TypeOK, QueuesOK
  <2> QED
    BY <1>5, <1>6, <2>1 DEF SeqPriority, PutGenericUrl
<1>7. CASE SeqDiskWait
  <2>1. /\ Head(urlsDiskWait) \in Urls /\ Tail(urlsDiskWait) \in Seq(Urls)
        /\ Len(Tail(urlsDiskWait)) = Len(urlsDiskWait) - 1
    BY <1>0, <1>7, SeqHeads, QueueHead
  <2>2. /\ \/ urlsPriorityWait' = urlsPriorityWait
           \/ urlsPriorityWait' = Append(urlsPriorityWait, Head(urlsDiskWait))
        /\ \/ urlsDiskWait' = Tail(urlsDiskWait)
           \/ urlsDiskWait' = Append(Tail(urlsDiskWait), Head(urlsDiskWait))
        /\ readWait' = readWait - 1 /\ UNCHANGED readPriorityWait
    BY <1>7 DEF SeqDiskWait, NoPriority, PutGenericUrl
  <2> QED
    BY <1>0, <1>3, <2>1, <2>2
<1>8. CASE SeqDisk
  <2>1. Head(urlsDisk) \in Urls
    BY <1>8, SeqHeads, QueueHead DEF IInv, TypeOK, QueuesOK
  <2> QED
    BY <1>5, <1>8, <2>1 DEF SeqDisk, NoPriority, PutGenericUrl
<1>9. CASE \/ SkipCron \/ Sequencer \/ SeqNone \/ SeqEnd \/ SubmitEnd \/ ReadEnd
           \/ OpenEnd \/ CheckEnd \/ NextConn \/ PageEnd \/ RobotsEnd \/ Open
           \/ Submit \/ \E d \in Gaps : Cron(d)
  BY <1>1, <1>9 DEF SkipCron, Sequencer, SeqNone, NoPriority, SeqEnd, SubmitEnd,
     ReadEnd, OpenEnd, CheckEnd, NextConn, Goto, PageEnd, RobotsEnd, Open, Submit,
     NewQuery, Cron, queueVars
<1>10. CASE \/ \E v \in InputUrls, prio \in BOOLEAN, test \in InputTests :
                InputUrl(v, prio, test)
            \/ \E v \in LinkedUrls : PageLink(v)
  BY <1>1, <1>10 DEF InputUrl, PageLink, Enter
<1>11. CASE \/ \E s \in Slots : ReadCname(s) \/ ReadAns(s)
            \/ Scan \/ Fetch
  BY <1>1, <1>11 DEF ReadCname, ReadAns, DnsCname, DnsAns, queueVars,
     Scan, ScanKeep, ScanForget, ScanTransfer, ScanEnd, Scanned,
     Fetch, FetchEmpty, FetchEarly, FetchConnect, FetchRefused
<1>12. CASE Terminated \/ UNCHANGED vars
  BY <1>1, <1>12 DEF Terminated, vars, queueVars
<1> QED
  BY <1>2, <1>4, <1>6, <1>7, <1>8, <1>9, <1>10, <1>11, <1>12 DEF Next, Step

LEMMA FetchConnStep ==
    ASSUME IInv, [Next]_vars
    PROVE  FreeConnForFetch'
<1>0. FreeConnForFetch
  BY DEF IInv
<1> USE DEF FreeConnForFetch
<1>1. CASE freeConns' = freeConns /\ fetching' \in {fetching, None}
  BY <1>0, <1>1
<1>2. CASE fetching' = None
  BY <1>2
<1>3. ASSUME NEW i, NEW u, PutUrl(i, u), UNCHANGED freeConns
      PROVE  FreeConnForFetch'
  BY <1>0, <1>3 DEF PutUrl
<1>4. CASE SeqPriorityWait \/ SeqPriority \/ SeqDiskWait \/ SeqDisk
  <2>1. UNCHANGED freeConns
    BY <1>4, SeqPut DEF Sequenced, connVars
  <2>2. PICK u \in Urls, limit \in Nat, prio \in BOOLEAN, pw \in Seq(Urls),
             dw \in Seq(Urls), born \in {0, 1} :
                 PutGenericUrl(u, limit, prio, pw, dw, born)
    BY <1>4, SeqPut
  <2>3. \/ UNCHANGED fetching
        \/ Transfer(SlotOf[HostOf[u]], u)
    BY <2>2, UrlParts, PutBranches
  <2> QED
    BY <1>1, <1>3, <2>1, <2>3 DEF Transfer
<1>5. ASSUME NEW s \in Slots, ScanTransfer(s) PROVE FreeConnForFetch'
  <2>1. UNCHANGED freeConns /\ Transfer(s, Head(fifo[s]))
    BY <1>5 DEF ScanTransfer, Scanned, connVars
  <2> QED
    BY <1>3, <2>1 DEF Transfer
<1>6. CASE Open
  BY <1>6 DEF Open, MayOpen, connVars
<1>7. ASSUME NEW i \in IPs, FetchRefused(i) PROVE FreeConnForFetch'
  <2>1. freeConns # <<>> /\ freeConns \in Seq(Conns)
    BY <1>7, FetchHead DEF FetchRefused
  <2>2. freeConns' = Append(Tail(freeConns), Head(freeConns))
    BY <1>7 DEF FetchRefused
  <2> QED
    BY <2>1, <2>2, Rotate
<1>8. CASE \E i \in IPs : FetchEmpty(i) \/ FetchEarly(i) \/ FetchConnect(i)
  BY <1>2, <1>8 DEF FetchEmpty, FetchEarly, FetchConnect
<1>9. CASE Submit \/ PageEnd \/ \E s \in Slots : ReadAns(s) \/ ScanEnd(s)
  BY <1>2, <1>9 DEF Submit, NewQuery, PageEnd, AtConn, Idle, ReadAns, MayRead,
     DnsAns, ScanEnd
<1>10. CASE \/ SkipCron \/ CronTail \/ Sequencer \/ SeqNone \/ SeqEnd
            \/ SubmitEnd \/ ReadEnd \/ OpenEnd \/ CheckEnd \/ NextConn
            \/ RobotsEnd \/ \E d \in Gaps : Cron(d)
  BY <1>1, <1>10 DEF SkipCron, CronTail, Sequencer, SeqNone, SeqEnd, SubmitEnd,
     ReadEnd, OpenEnd, CheckEnd, NextConn, Goto, RobotsEnd, Cron, connVars,
     controlVars
<1>11. CASE \/ \E v \in InputUrls, prio \in BOOLEAN, test \in InputTests :
                InputUrl(v, prio, test)
            \/ \E v \in LinkedUrls : PageLink(v)
  BY <1>1, <1>11 DEF InputUrl, PageLink, Enter, connVars, controlVars
<1>12. CASE \E s \in Slots : ReadCname(s) \/ ScanKeep(s) \/ ScanForget(s)
  BY <1>1, <1>12 DEF ReadCname, DnsCname, ScanKeep, ScanForget, Scanned,
     connVars, controlVars
<1>13. CASE Terminated \/ UNCHANGED vars
  BY <1>1, <1>13 DEF Terminated, vars, connVars, controlVars
<1> QED
  BY <1>4, <1>5, <1>6, <1>7, <1>8, <1>9, <1>10, <1>11, <1>12, <1>13
     DEF Next, Step, Fetch, Scan
-----------------------------------------------------------------------------
(***************************************************************************)
(* The scan of a ring, and what is known of a site that was resolved.      *)
(***************************************************************************)
LEMMA ScanStep ==
    ASSUME IInv, [Next]_vars
    PROVE  ScanBounded'
<1>0. ScanBounded /\ ControlOK
  BY DEF IInv, TypeOK
<1> USE DEF ScanBounded
<1>1. CASE UNCHANGED <<scanSite, scanLeft, fifo, pc, ci, parser>>
  BY <1>0, <1>1
<1>2. CASE scanSite' = None
  BY <1>2
<1>3. CASE SeqPriorityWait \/ SeqPriority \/ SeqDiskWait \/ SeqDisk
  BY <1>2, <1>3, SeqPut DEF Sequencing, Sequenced, Idle
<1>4. CASE \/ SkipCron \/ Sequencer
           \/ \E d \in Gaps : Cron(d)
           \/ \E v \in InputUrls, prio \in BOOLEAN, test \in InputTests :
                  InputUrl(v, prio, test)
  BY <1>0, <1>2, <1>4 DEF SkipCron, Sequencer, Cron, InputUrl, controlVars
<1>5. CASE \/ CronTail \/ SeqNone \/ SeqEnd \/ SubmitEnd \/ ReadEnd \/ Open
           \/ OpenEnd \/ NextConn \/ PageEnd \/ CheckEnd
           \/ \E v \in LinkedUrls : PageLink(v)
  BY <1>2, <1>5 DEF CronTail, SeqNone, NoPriority, Sequencing, SeqEnd, SubmitEnd,
     ReadEnd, Goto, Open, OpenEnd, NextConn, PageEnd, PageLink, AtConn, CheckEnd,
     Idle, controlVars
<1>6. ASSUME NEW s \in Slots, DnsOK(s) \/ DnsError(s), scanSite = None,
             pc \in {"fetchDns", "dnsRead"}, UNCHANGED <<pc, fifo>>
      PROVE  ScanBounded'
  <2>1. Len(fifo[s]) \in Nat
    BY DEF IInv, TypeOK, SitesOK
  <2>2. \/ scanSite' = None
        \/ scanSite' = s /\ scanLeft' = Len(fifo[s])
    BY <1>6 DEF DnsOK, DnsError, StartScan
  <2> QED
    BY <1>6, <2>1, <2>2
<1>7. CASE Submit
  <2>1. Head(dnsSites) \in Slots /\ scanSite = None
    BY <1>7, SubmitHead DEF Submit, Idle
  <2>2. pc = "fetchDns" /\ UNCHANGED <<pc, fifo>>
    BY <1>7 DEF Submit, NewQuery
  <2> QED
    BY <1>2, <1>6, <1>7, <2>1, <2>2, SubmitBranches
<1>8. ASSUME NEW s \in Slots, ReadAns(s) PROVE ScanBounded'
  <2>1. /\ pc = "dnsRead" /\ UNCHANGED <<pc, fifo>> /\ scanSite = None
        /\ DnsOK(s) \/ DnsError(s)
    BY <1>8 DEF ReadAns, MayRead, DnsAns, Idle
  <2> QED
    BY <1>6, <2>1
<1>9. CASE RobotsEnd
  <2>1. /\ ci \in Conns /\ parser[ci] \in Slots /\ pc \in {"timeouts", "checkAll"}
        /\ scanSite' = parser[ci] /\ scanLeft' = Len(fifo[parser[ci]])
        /\ UNCHANGED <<fifo, pc, ci, parser>>
    BY <1>0, <1>9, SizesAssumption
       DEF RobotsEnd, AtConn, RobotsResult, StartScan, connVars, ControlOK, Conns
  <2>2. Len(fifo[parser[ci]]) \in Nat
    BY <2>1 DEF IInv, TypeOK, SitesOK
  <2> QED
    BY <2>1, <2>2
<1>10. ASSUME NEW i \in IPs, FetchConnect(i) PROVE ScanBounded'
  <2>1. /\ UNCHANGED <<scanSite, scanLeft, fifo, pc, ci>>
        /\ parser' = [parser EXCEPT ![Head(freeConns)] = Head(tab[i])]
    BY <1>10 DEF FetchConnect
  <2>2. parser[Head(freeConns)] = None
    <3>1. Head(freeConns) \in Range(freeConns)
      BY <1>10, FetchHead, TailRange DEF FetchConnect
    <3> QED
      BY <3>1 DEF IInv, ConnAccounting
  <2>3. parser \in [Conns -> Slots \cup Urls \cup {None}]
    BY DEF IInv, TypeOK, ConnsOK
  <2> QED
    BY <1>0, <2>1, <2>2, <2>3
<1>11. CASE \E i \in IPs : FetchEmpty(i) \/ FetchEarly(i) \/ FetchRefused(i)
  BY <1>1, <1>11 DEF FetchEmpty, FetchEarly, FetchRefused, siteVars, connVars, controlVars
<1>12. ASSUME NEW s \in Slots, ScanKeep(s) \/ ScanForget(s) \/ ScanTransfer(s)
       PROVE  ScanBounded'
  <2>1. Scanned(s)
    BY <1>12 DEF ScanKeep, ScanForget, ScanTransfer
  <2>2. /\ scanSite = s /\ s # None /\ scanLeft' = scanLeft - 1 /\ scanLeft \in Nat
        /\ UNCHANGED <<scanSite, pc, ci, parser>>
    BY <1>0, <2>1, NoneAssumption DEF Scanned, ControlOK, connVars
  <2>3. /\ Head(fifo[s]) \in Urls /\ Tail(fifo[s]) \in Seq(Urls)
        /\ Len(Tail(fifo[s])) = Len(fifo[s]) - 1 /\ fifo[s] \in Seq(Urls)
    BY <2>1, ScanHead
  <2>4. \/ fifo' = [fifo EXCEPT ![s] = Tail(@)]
        \/ fifo' = [fifo EXCEPT ![s] = Append(Tail(@), Head(fifo[s]))]
    BY <1>12 DEF ScanKeep, ScanForget, ScanTransfer
  <2>5. Len(Append(Tail(fifo[s]), Head(fifo[s]))) = Len(fifo[s]) /\ Len(fifo[s]) \in Nat
    BY <2>3
  <2>6. fifo'[s] \in {Tail(fifo[s]), Append(Tail(fifo[s]), Head(fifo[s]))}
    BY <2>4 DEF IInv, TypeOK, SitesOK
  <2>7. scanLeft' <= Len(fifo'[s])
    BY <1>0, <2>2, <2>3, <2>5, <2>6
  <2> QED
    BY <1>0, <2>2, <2>7
<1>13. CASE \E s \in Slots : ScanEnd(s)
  BY <1>2, <1>13 DEF ScanEnd
<1>14. CASE \E s \in Slots : ReadCname(s)
  BY <1>1, <1>14 DEF ReadCname, DnsCname, connVars, controlVars
<1>15. CASE Terminated \/ UNCHANGED vars
  BY <1>1, <1>15 DEF Terminated, vars, siteVars, connVars, controlVars
<1> QED
  BY <1>3, <1>4, <1>5, <1>7, <1>8, <1>9, <1>10, <1>11, <1>12, <1>13, <1>14, <1>15
     DEF Next, Step, Fetch, Scan

LEMMA ResolvedStep ==
    ASSUME IInv, [Next]_vars
    PROVE  Resolved'
<1>0. /\ Resolved
      /\ parser \in [Conns -> Slots \cup Urls \cup {None}]
      /\ dnsState \in [Slots -> {"waitDns", "doneDns", "errorDns", "noConnDns"}]
      /\ addr \in [Slots -> Addrs \cup {None}]
      /\ ipHash \in [Slots -> IPs \cup {None}]
  BY DEF IInv, TypeOK, ConnsOK, SitesOK
<1> USE DEF Resolved
<1>1. CASE UNCHANGED <<dnsState, addr, ipHash, parser>>
  BY <1>0, <1>1
<1>2. ASSUME NEW s \in Slots, freeConns # <<>>, UNCHANGED ipHash,
             \/ DnsOK(s) /\ (UseProxy \/ \E a \in Addrs : addr' = [addr EXCEPT ![s] = a])
             \/ DnsError(s),
             addr' = addr \/ \E a \in Addrs : addr' = [addr EXCEPT ![s] = a]
      PROVE  Resolved'
  <2>1. \E st \in {"waitDns", "errorDns", "noConnDns"} :
            dnsState' = [dnsState EXCEPT ![s] = st]
    BY <1>2, DnsOKTypes
  <2>2. \A t \in Slots : dnsState'[t] = "doneDns" => ipHash'[t] \in IPs
    BY <1>0, <1>2, <2>1
  <2>3. \A t \in Slots : addr[t] \in Addrs => addr'[t] \in Addrs
    BY <1>0, <1>2
  <2>4. \/ UNCHANGED parser
        \/ /\ parser' = [parser EXCEPT ![Head(freeConns)] = s]
           /\ UseProxy \/ addr'[s] \in Addrs
    BY <1>0, <1>2 DEF DnsOK, DnsError, connVars
  <2>5. ASSUME NEW t \in Slots, NEW c \in Conns, parser'[c] = t
        PROVE  UseProxy \/ addr'[t] \in Addrs
    BY <1>0, <2>3, <2>4, <2>5
  <2> QED
    BY <2>2, <2>5
<1>3. CASE Submit
  <2>1. Head(dnsSites) \in Slots /\ freeConns # <<>> /\ UNCHANGED ipHash
    BY <1>3, SubmitHead DEF Submit, NewQuery, MaySubmit, Idle
  <2>2. CASE UNCHANGED connVars /\ UNCHANGED addr
             /\ dnsState' = [dnsState EXCEPT ![Head(dnsSites)] = "waitDns"]
    BY <1>0, <2>1, <2>2 DEF connVars
  <2> QED
    BY <1>2, <1>3, <2>1, <2>2, SubmitBranches
<1>4. ASSUME NEW s \in Slots, ReadAns(s) PROVE Resolved'
  <2>1. PICK a \in Addrs \cup {None} : DnsAns(s, a)
    BY <1>4 DEF ReadAns
  <2>2. /\ freeConns # <<>> /\ UNCHANGED ipHash
        /\ \/ a \in Addrs /\ DnsOK(s) /\ addr' = [addr EXCEPT ![s] = a]
           \/ DnsError(s) /\ UNCHANGED addr
    BY <1>4, <2>1 DEF ReadAns, MayRead, DnsAns
  <2> QED
    BY <1>2, <2>2
<1>5. CASE RobotsEnd
  <2> DEFINE s == parser[ci]
  <2>1. ci \in Conns /\ s \in Slots /\ UNCHANGED <<addr, parser>>
    BY <1>5, SizesAssumption
       DEF RobotsEnd, AtConn, connVars, IInv, TypeOK, ControlOK, Conns
  <2>2. PICK rules : \E ok \in BOOLEAN : RobotsResult(s, ok, rules)
    BY <1>5 DEF RobotsEnd
  <2>3. SlotHash[s] \in IPs /\ (~UseProxy => IPHashOf[addr[s]] \in IPs)
    BY <1>0, <2>1, AddressAssumption
  <2>4. \/ /\ dnsState' = [dnsState EXCEPT ![s] = "doneDns"]
           /\ \E i \in IPs : ipHash' = [ipHash EXCEPT ![s] = i]
        \/ /\ dnsState' = [dnsState EXCEPT ![s] = "noConnDns"]
           /\ ipHash' = ipHash
    BY <2>2, <2>3 DEF RobotsResult
  <2>5. \A t \in Slots : dnsState'[t] = "doneDns" => ipHash'[t] \in IPs
    BY <1>0, <2>1, <2>4
  <2> QED
    BY <1>0, <2>1, <2>5
<1>6. ASSUME NEW c \in Conns, NEW x, x \notin Slots, parser' = [parser EXCEPT ![c] = x],
             UNCHANGED <<dnsState, addr, ipHash>>
      PROVE  Resolved'
  BY <1>0, <1>6
<1>7. ASSUME NEW i \in IPs, FetchConnect(i) PROVE Resolved'
  <2>1. Head(freeConns) \in Conns /\ Head(tab[i]) \notin Slots
    BY <1>7, FetchHead, ParserAssumption DEF FetchConnect
  <2> QED
    BY <1>6, <1>7, <2>1 DEF FetchConnect, identityVars
<1>8. CASE PageEnd
  <2>1. ci \in Conns /\ None \notin Slots
    BY <1>8, SizesAssumption, NoneAssumption
       DEF PageEnd, AtConn, IInv, TypeOK, ControlOK, Conns
  <2> QED
    BY <1>6, <1>8, <2>1 DEF PageEnd, siteVars, identityVars
<1>9. ASSUME NEW s \in Slots, ScanEnd(s) PROVE Resolved'
  <2>1. CASE pc \in {"timeouts", "checkAll"}
    <3>1. ci \in Conns /\ None \notin Slots
      BY <1>9, <2>1, NoneAssumption DEF ScanEnd, IInv, ScanBounded
    <3> QED
      BY <1>6, <1>9, <2>1, <3>1 DEF ScanEnd, identityVars
  <2>2. CASE pc \notin {"timeouts", "checkAll"}
    BY <1>1, <1>9, <2>2 DEF ScanEnd, identityVars, connVars
  <2> QED
    BY <2>1, <2>2
<1>10. CASE SeqPriorityWait \/ SeqPriority \/ SeqDiskWait \/ SeqDisk
  BY <1>1, <1>10, SeqPut DEF Sequenced, identityVars, connVars
<1>11. CASE \/ SkipCron \/ CronTail \/ Sequencer \/ SeqNone \/ SeqEnd
            \/ SubmitEnd \/ ReadEnd \/ Open \/ OpenEnd \/ CheckEnd
            \/ NextConn \/ \E d \in Gaps : Cron(d)
  BY <1>1, <1>11 DEF SkipCron, CronTail, Sequencer, SeqNone, SeqEnd, SubmitEnd,
     ReadEnd, Open, OpenEnd, CheckEnd, NextConn, Goto, Cron, siteVars,
     identityVars, connVars
<1>12. CASE \/ \E v \in InputUrls, prio \in BOOLEAN, test \in InputTests :
                InputUrl(v, prio, test)
            \/ \E v \in LinkedUrls : PageLink(v)
  BY <1>1, <1>12 DEF InputUrl, PageLink, Enter, siteVars, identityVars, connVars
<1>13. CASE \/ \E s \in Slots : ReadCname(s) \/ ScanKeep(s) \/ ScanForget(s)
                                \/ ScanTransfer(s)
            \/ \E i \in IPs : FetchEmpty(i) \/ FetchEarly(i) \/ FetchRefused(i)
  BY <1>1, <1>13 DEF ReadCname, DnsCname, ScanKeep, ScanForget, ScanTransfer,
     Scanned, FetchEmpty, FetchEarly, FetchRefused, siteVars, identityVars, connVars
<1>14. CASE Terminated \/ UNCHANGED vars
  BY <1>1, <1>14 DEF Terminated, vars, siteVars, identityVars, connVars
<1> QED
  BY <1>3, <1>4, <1>5, <1>7, <1>8, <1>9, <1>10, <1>11, <1>12, <1>13, <1>14
     DEF Next, Step, Fetch, Scan
-----------------------------------------------------------------------------
(***************************************************************************)
(* The token of a site: where it is, as the queues, the DNS, the           *)
(* connections and the scan hand it to each other.                         *)
(***************************************************************************)

\* A step that moves no token, seen from one site.
LEMMA TokenKept ==
    ASSUME NEW s \in Slots, OneToken(s),
           InDnsSites(s)' <=> InDnsSites(s), InQueries(s)' <=> InQueries(s),
           InRobots(s)' <=> InRobots(s), InDnsErr(s)' <=> InDnsErr(s),
           isInFifo'[s] = isInFifo[s],
           scanSite' # s => scanSite # s /\ fifo'[s] = fifo[s],
           isInFifo[s] \/ fifo'[s] = fifo[s]
    PROVE  OneToken(s)'
BY DEF OneToken

\* A step that moves no token: pages come and go, the loop goes on.
LEMMA TokenFrame ==
    ASSUME IInv, UNCHANGED <<dnsSites, isInFifo, queries, scanSite, fifo>>,
           scanSite = None \/ UNCHANGED pc,
           \A s \in Slots, c \in Conns : parser'[c] = s <=> parser[c] = s
    PROVE  SiteToken'
<1>1. ASSUME NEW s \in Slots PROVE OneToken(s)'
  <2>1. OneToken(s)
    BY DEF IInv, SiteToken
  <2>2. s # None
    BY NoneAssumption
  <2>3. InRobots(s)' <=> InRobots(s)
    BY DEF InRobots
  <2>4. InDnsErr(s)' <=> InDnsErr(s)
    BY <2>2 DEF InDnsErr
  <2> QED
    BY <2>1, <2>3, <2>4, TokenKept DEF InDnsSites, InQueries
<1>2. \A c, d \in Conns : parser'[c] = parser'[d] /\ parser'[c] \in Slots => c = d
  BY DEF IInv, SiteToken
<1>3. IsInjective(dnsSites')
  BY DEF IInv, SiteToken
<1> QED
  BY <1>1, <1>2, <1>3 DEF SiteToken

\* putGenericUrl puts an url in a ring: the site enters dnsSites if it has
\* no token yet.
LEMMA TokenOfQueueUrl ==
    ASSUME IInv, scanSite = None, UNCHANGED <<parser, queries, scanSite>>,
           NEW s \in Slots, NEW u \in Urls, QueueUrl(s, u)
    PROVE  SiteToken'
<1>0. /\ dnsSites \in Seq(Slots) /\ fifo \in [Slots -> Seq(Urls)]
      /\ isInFifo \in [Slots -> BOOLEAN]
      /\ IsInjective(dnsSites) /\ (\A t \in Slots : OneToken(t))
      /\ \A c, d \in Conns : parser[c] = parser[d] /\ parser[c] \in Slots => c = d
  BY DEF IInv, SiteToken, TypeOK, SitesOK
<1>1. CASE RingFull(s) /\ pc' = "aborted" /\ UNCHANGED <<fifo, isInFifo, dnsSites>>
  BY <1>1, TokenFrame
<1>2. CASE /\ fifo' = [fifo EXCEPT ![s] = Append(@, u)]
           /\ isInFifo' = [isInFifo EXCEPT ![s] = TRUE]
           /\ dnsSites' = IF isInFifo[s] THEN dnsSites ELSE Append(dnsSites, s)
           /\ UNCHANGED pc
  <2>1. Append(fifo[s], u) # <<>> /\ fifo'[s] = Append(fifo[s], u)
    BY <1>0, <1>2, AppendRange
  <2>2. IsInjective(dnsSites') /\ \A t \in Slots \ {s} : InDnsSites(t)' <=> InDnsSites(t)
    <3>1. CASE isInFifo[s]
      BY <1>0, <1>2, <3>1 DEF InDnsSites
    <3>2. CASE ~isInFifo[s]
      <4>1. s \notin Range(dnsSites)
        BY <1>0, <3>2 DEF OneToken, InDnsSites
      <4>2. IsInjective(dnsSites') /\ Range(dnsSites') = Range(dnsSites) \cup {s}
        BY <1>0, <1>2, <3>2, <4>1, AppendRange, AppendKeepsInjective
      <4> QED
        BY <4>2 DEF InDnsSites
    <3> QED
      BY <3>1, <3>2
  <2>3. \A t \in Slots : t # None
    BY NoneAssumption
  <2>4. \A t \in Slots : /\ InQueries(t)' <=> InQueries(t)
                         /\ InRobots(t)' <=> InRobots(t)
                         /\ ~InDnsErr(t) /\ ~InDnsErr(t)'
    BY <2>3 DEF InQueries, InRobots, InDnsErr
  <2>5. ASSUME NEW t \in Slots \ {s} PROVE OneToken(t)'
    <3>1. isInFifo'[t] = isInFifo[t] /\ fifo'[t] = fifo[t] /\ OneToken(t)
      BY <1>0, <1>2
    <3> QED
      BY <2>2, <2>4, <3>1, TokenKept
  <2>6. OneToken(s)'
    <3>1. isInFifo'[s] /\ fifo'[s] # <<>>
      BY <1>0, <1>2, <2>1
    <3>2. CASE isInFifo[s]
      <4>1. InDnsSites(s)' <=> InDnsSites(s)
        BY <1>2, <3>2 DEF InDnsSites
      <4>2. OneToken(s)
        BY <1>0
      <4> QED
        BY <2>4, <3>1, <3>2, <4>1, <4>2 DEF OneToken
    <3>3. CASE ~isInFifo[s]
      <4>1. dnsSites' = Append(dnsSites, s)
        BY <1>2, <3>3
      <4>2. InDnsSites(s)'
        BY <1>0, <4>1, AppendRange DEF InDnsSites
      <4>3. OneToken(s)
        BY <1>0
      <4> QED
        BY <2>4, <3>1, <3>3, <4>2, <4>3 DEF OneToken
    <3> QED
      BY <3>2, <3>3
  <2> QED
    BY <1>0, <2>2, <2>5, <2>6 DEF SiteToken
<1> QED
  BY <1>1, <1>2 DEF QueueUrl
\* The site that leaves dnsSites or the DNS queries gets a connection, or is
\* scanned as it cannot be fetched.
LEMMA TokenOfDns ==
    ASSUME IInv, freeConns # <<>>, scanSite = None, pc \in {"fetchDns", "dnsRead"},
           NEW s \in Slots, InDnsSites(s) \/ InQueries(s),
           DnsOK(s) \/ DnsError(s),
           UNCHANGED <<pc, fifo, isInFifo>>,
           IsInjective(dnsSites'), ~InDnsSites(s)', ~InQueries(s)',
           \A t \in Slots \ {s} : /\ InDnsSites(t)' <=> InDnsSites(t)
                                  /\ InQueries(t)' <=> InQueries(t)
    PROVE  SiteToken'
<1>0. /\ parser \in [Conns -> Slots \cup Urls \cup {None}]
      /\ \A t \in Slots : OneToken(t) /\ t # None
      /\ \A c, d \in Conns : parser[c] = parser[d] /\ parser[c] \in Slots => c = d
  BY NoneAssumption DEF IInv, SiteToken, TypeOK, ConnsOK
<1>1. \A t \in Slots : ~InDnsErr(t)
  BY <1>0 DEF InDnsErr
<1>2. isInFifo[s] /\ fifo[s] # <<>> /\ ~InRobots(s)
  BY <1>0 DEF OneToken
<1>3. Head(freeConns) \in Conns /\ parser[Head(freeConns)] = None
  <2>1. freeConns \in Seq(Conns) /\ Range(freeConns) = {c \in Conns : parser[c] = None}
    BY DEF IInv, TypeOK, ConnsOK, ConnAccounting
  <2> QED
    BY <2>1, TailRange
<1>4. \/ parser' = [parser EXCEPT ![Head(freeConns)] = s] /\ scanSite' = None
      \/ parser' = parser /\ scanSite' = s
  BY DEF DnsOK, DnsError, StartScan, connVars
<1>5. \A c, d \in Conns : parser'[c] = parser'[d] /\ parser'[c] \in Slots => c = d
  <2>1. \A c \in Conns : parser[c] # s
    BY <1>2 DEF InRobots
  <2> QED
    BY <1>0, <1>3, <1>4, <2>1
<1>6. ASSUME NEW t \in Slots \ {s} PROVE OneToken(t)'
  <2>1. InRobots(t)' <=> InRobots(t)
    BY <1>0, <1>3, <1>4 DEF InRobots
  <2>2. ~InDnsErr(t)' /\ scanSite' # t /\ scanSite # t
    BY <1>0, <1>4 DEF InDnsErr
  <2>3. OneToken(t) /\ ~InDnsErr(t)
    BY <1>0, <1>1
  <2>4. (InDnsSites(t)' <=> InDnsSites(t)) /\ (InQueries(t)' <=> InQueries(t))
    OBVIOUS
  <2> QED
    BY <2>1, <2>2, <2>3, <2>4, TokenKept
<1>7. OneToken(s)'
  <2>1. CASE parser' = [parser EXCEPT ![Head(freeConns)] = s] /\ scanSite' = None
    <3>1. InRobots(s)' /\ ~InDnsErr(s)'
      BY <1>0, <1>3, <2>1 DEF InRobots, InDnsErr
    <3> QED
      BY <1>2, <3>1 DEF OneToken
  <2>2. CASE parser' = parser /\ scanSite' = s
    <3>1. ~InRobots(s)' /\ InDnsErr(s)'
      BY <1>2, <2>2 DEF InRobots, InDnsErr
    <3> QED
      BY <1>2, <3>1 DEF OneToken
  <2> QED
    BY <1>4, <2>1, <2>2
<1> QED
  BY <1>5, <1>6, <1>7 DEF SiteToken

\* newQuery takes the head of dnsSites.
LEMMA TokenOfSubmit ==
    ASSUME IInv, Submit
    PROVE  SiteToken'
<1>. PICK s \in Slots : s = Head(dnsSites)
  BY SubmitHead DEF Submit, Idle
<1>0. /\ dnsSites \in Seq(Slots) /\ dnsSites # <<>> /\ IsInjective(dnsSites)
      /\ s \in Slots /\ InDnsSites(s) /\ freeConns # <<>>
      /\ scanSite = None /\ pc = "fetchDns"
      /\ dnsSites' = Tail(dnsSites) /\ UNCHANGED <<pc, fifo, isInFifo>>
  BY SubmitHead DEF Submit, NewQuery, MaySubmit, Idle, IInv, TypeOK, SitesOK, SiteToken
<1>1. /\ IsInjective(dnsSites') /\ s \notin Range(dnsSites')
      /\ Range(dnsSites) = Range(dnsSites') \cup {s}
  BY <1>0, TailRange, TailInjective
<1>2. ~InDnsSites(s)' /\ \A t \in Slots \ {s} : InDnsSites(t)' <=> InDnsSites(t)
  BY <1>1 DEF InDnsSites
<1>3. \A t \in Slots : OneToken(t) /\ t # None
  BY NoneAssumption DEF IInv, SiteToken
<1>4. CASE (DnsOK(s) \/ DnsError(s)) /\ UNCHANGED queries
  <2>1. ~InQueries(s) /\ \A t \in Slots : InQueries(t)' <=> InQueries(t)
    BY <1>0, <1>3, <1>4 DEF OneToken, InQueries
  <2> QED
    BY <1>0, <1>1, <1>2, <1>4, <2>1, TokenOfDns
<1>5. CASE queries' = queries \cup {s} /\ UNCHANGED <<connVars, scanSite>>
  <2>1. /\ InQueries(s)'
        /\ \A t \in Slots \ {s} : InQueries(t)' <=> InQueries(t)
        /\ \A t \in Slots : /\ InRobots(t)' <=> InRobots(t)
                            /\ ~InDnsErr(t) /\ ~InDnsErr(t)'
    BY <1>0, <1>3, <1>5 DEF InQueries, InRobots, InDnsErr, connVars
  <2>2. ASSUME NEW t \in Slots \ {s} PROVE OneToken(t)'
    <3>1. OneToken(t)
      BY <1>3
    <3> QED
      BY <1>0, <1>2, <1>3, <1>5, <2>1, <3>1, TokenKept
  <2>3. OneToken(s)'
    <3>1. OneToken(s)
      BY <1>0, <1>3
    <3>2. isInFifo[s] /\ fifo[s] # <<>> /\ ~InRobots(s)
      BY <1>0, <1>3, <3>1 DEF OneToken
    <3> QED
      BY <1>0, <1>2, <2>1, <3>2 DEF OneToken
  <2>4. \A c, d \in Conns : parser'[c] = parser'[d] /\ parser'[c] \in Slots => c = d
    BY <1>5 DEF IInv, SiteToken, connVars
  <2> QED
    BY <1>1, <2>2, <2>3, <2>4 DEF SiteToken
<1> QED
  BY <1>4, <1>5, SubmitBranches

\* dnsAns takes the site out of the queries under way.
LEMMA TokenOfAns ==
    ASSUME IInv, NEW s \in Slots, ReadAns(s)
    PROVE  SiteToken'
<1>1. /\ freeConns # <<>> /\ scanSite = None /\ pc = "dnsRead"
      /\ s \in queries /\ queries' = queries \ {s}
      /\ UNCHANGED <<pc, fifo, isInFifo, dnsSites>>
      /\ DnsOK(s) \/ DnsError(s)
  BY DEF ReadAns, MayRead, DnsAns, Idle
<1>2. IsInjective(dnsSites) /\ OneToken(s)
  BY DEF IInv, SiteToken
<1>3. /\ InQueries(s) /\ ~InQueries(s)'
      /\ \A t \in Slots \ {s} : InQueries(t)' <=> InQueries(t)
      /\ \A t \in Slots : InDnsSites(t)' <=> InDnsSites(t)
  BY <1>1 DEF InQueries, InDnsSites
<1>4. ~InDnsSites(s)'
  BY <1>2, <1>3 DEF OneToken
<1> QED
  BY <1>1, <1>2, <1>3, <1>4, TokenOfDns
\* The robots.txt of a site is over: it keeps its connection while its ring
\* is scanned.
LEMMA TokenOfRobots ==
    ASSUME IInv, RobotsEnd
    PROVE  SiteToken'
<1>0. /\ ci \in Conns /\ scanSite = None /\ pc \in {"timeouts", "checkAll"}
      /\ UNCHANGED <<pc, fifo, isInFifo, dnsSites, queries, parser>>
      /\ parser[ci] \in Slots
  BY SizesAssumption DEF RobotsEnd, AtConn, Idle, dnsVars, connVars, IInv, TypeOK,
     ControlOK, Conns
<1>. PICK s \in Slots : s = parser[ci]
  BY <1>0
<1>1. scanSite' = s
  BY DEF RobotsEnd, RobotsResult, StartScan
<1>2. ASSUME NEW t \in Slots PROVE OneToken(t)'
  <2>1. OneToken(t) /\ t # None
    BY NoneAssumption DEF IInv, SiteToken
  <2>2. /\ InDnsSites(t)' <=> InDnsSites(t)
        /\ InQueries(t)' <=> InQueries(t)
        /\ InRobots(t)' <=> InRobots(t)
        /\ ~InDnsErr(t) /\ ~InDnsErr(t)'
    BY <1>0 DEF InDnsSites, InQueries, InRobots, InDnsErr
  <2> QED
    BY <1>0, <1>1, <2>1, <2>2, TokenKept
<1> QED
  BY <1>0, <1>2 DEF IInv, SiteToken

\* A scan under way holds the token of its site.
LEMMA ScanHasToken ==
    ASSUME IInv, NEW s \in Slots, scanSite = s
    PROVE  /\ isInFifo[s] /\ ~InDnsSites(s) /\ ~InQueries(s)
           /\ pc \in {"timeouts", "checkAll"} =>
                  ci \in Conns /\ parser[ci] = s /\ ~InDnsErr(s)
           /\ pc \notin {"timeouts", "checkAll"} => ~InRobots(s) /\ InDnsErr(s)
<1>1. OneToken(s) /\ s # None
  BY NoneAssumption DEF IInv, SiteToken
<1>2. CASE pc \in {"timeouts", "checkAll"}
  <2>1. ci \in Conns /\ parser[ci] = s /\ ~InDnsErr(s)
    BY <1>1, <1>2 DEF IInv, ScanBounded, InDnsErr
  <2>2. InRobots(s)
    BY <2>1 DEF InRobots
  <2> QED
    BY <1>1, <1>2, <2>1, <2>2 DEF OneToken
<1>3. CASE pc \notin {"timeouts", "checkAll"}
  <2>1. InDnsErr(s)
    BY <1>3 DEF InDnsErr
  <2> QED
    BY <1>1, <1>3, <2>1 DEF OneToken
<1> QED
  BY <1>2, <1>3

\* One url of the scan.
LEMMA TokenOfScan ==
    ASSUME IInv, NEW s \in Slots, ScanKeep(s) \/ ScanForget(s) \/ ScanTransfer(s)
    PROVE  SiteToken'
<1>0. /\ scanSite = s /\ fifo \in [Slots -> Seq(Urls)]
      /\ UNCHANGED <<scanSite, pc, isInFifo, dnsSites, queries, parser>>
  BY DEF ScanKeep, ScanForget, ScanTransfer, Scanned, dnsVars, connVars, IInv,
     TypeOK, SitesOK
<1>1. \A t \in Slots \ {s} : fifo'[t] = fifo[t]
  BY <1>0 DEF ScanKeep, ScanForget, ScanTransfer
<1>2. isInFifo[s]
  BY <1>0, ScanHasToken
<1>3. ASSUME NEW t \in Slots PROVE OneToken(t)'
  <2>1. OneToken(t)
    BY DEF IInv, SiteToken
  <2>2. /\ InDnsSites(t)' <=> InDnsSites(t)
        /\ InQueries(t)' <=> InQueries(t)
        /\ InRobots(t)' <=> InRobots(t)
        /\ InDnsErr(t)' <=> InDnsErr(t)
    BY <1>0 DEF InDnsSites, InQueries, InRobots, InDnsErr
  <2>3. CASE t = s
    BY <1>0, <1>2, <2>1, <2>2, <2>3, TokenKept
  <2>4. CASE t # s
    <3>1. fifo'[t] = fifo[t]
      BY <1>1, <2>4
    <3> QED
      BY <1>0, <2>1, <2>2, <2>4, <3>1, TokenKept
  <2> QED
    BY <2>3, <2>4
<1> QED
  BY <1>0, <1>3 DEF IInv, SiteToken

\* The scan is over: the site goes back to dnsSites with what its ring still
\* holds, or nothing is under way for it.
LEMMA TokenOfScanEnd ==
    ASSUME IInv, NEW s \in Slots, ScanEnd(s)
    PROVE  SiteToken'
<1>0. /\ scanSite = s /\ scanSite' = None /\ UNCHANGED <<pc, fifo, queries>>
      /\ isInFifo' = [isInFifo EXCEPT ![s] = fifo[s] # <<>>]
      /\ dnsSites' = IF fifo[s] = <<>> THEN dnsSites ELSE Append(dnsSites, s)
  BY DEF ScanEnd, Place
<1>1. /\ dnsSites \in Seq(Slots) /\ isInFifo \in [Slots -> BOOLEAN]
      /\ parser \in [Conns -> Slots \cup Urls \cup {None}]
      /\ IsInjective(dnsSites) /\ \A t \in Slots : OneToken(t) /\ t # None
      /\ \A c, d \in Conns : parser[c] = parser[d] /\ parser[c] \in Slots => c = d
  BY NoneAssumption DEF IInv, SiteToken, TypeOK, SitesOK, ConnsOK
<1>2. ~InDnsSites(s) /\ ~InQueries(s)
  BY <1>0, ScanHasToken
<1>3. /\ IsInjective(dnsSites')
      /\ \A t \in Slots \ {s} : InDnsSites(t)' <=> InDnsSites(t)
      /\ InDnsSites(s)' <=> fifo[s] # <<>>
  <2>1. CASE fifo[s] = <<>>
    BY <1>0, <1>1, <1>2, <2>1 DEF InDnsSites
  <2>2. CASE fifo[s] # <<>>
    <3>1. IsInjective(dnsSites') /\ Range(dnsSites') = Range(dnsSites) \cup {s}
      BY <1>0, <1>1, <1>2, <2>2, AppendRange, AppendKeepsInjective DEF InDnsSites
    <3> QED
      BY <2>2, <3>1 DEF InDnsSites
  <2> QED
    BY <2>1, <2>2
<1>4. /\ ~InRobots(s)'
      /\ \A t \in Slots \ {s} : InRobots(t)' <=> InRobots(t)
      /\ \A c, d \in Conns : parser'[c] = parser'[d] /\ parser'[c] \in Slots => c = d
  <2>1. CASE pc \in {"timeouts", "checkAll"}
    <3>1. ci \in Conns /\ parser[ci] = s
      BY <1>0, <2>1, ScanHasToken
    <3>2. parser' = [parser EXCEPT ![ci] = None]
      BY <2>1 DEF ScanEnd
    <3>3. None \notin Slots
      BY NoneAssumption
    <3> QED
      BY <1>1, <3>1, <3>2, <3>3 DEF InRobots
  <2>2. CASE pc \notin {"timeouts", "checkAll"}
    <3>1. UNCHANGED parser /\ ~InRobots(s)
      BY <1>0, <2>2, ScanHasToken DEF ScanEnd, connVars
    <3> QED
      BY <1>1, <3>1 DEF InRobots
  <2> QED
    BY <2>1, <2>2
<1>5. \A t \in Slots : ~InDnsErr(t)'
  BY <1>0, <1>1 DEF InDnsErr
<1>6. ASSUME NEW t \in Slots \ {s} PROVE OneToken(t)'
  <2>1. OneToken(t) /\ isInFifo'[t] = isInFifo[t] /\ ~InDnsErr(t) /\ scanSite # t
    BY <1>0, <1>1 DEF InDnsErr
  <2>2. InQueries(t)' <=> InQueries(t)
    BY <1>0 DEF InQueries
  <2> QED
    BY <1>0, <1>3, <1>4, <1>5, <2>1, <2>2, TokenKept
<1>7. OneToken(s)'
  <2>1. isInFifo'[s] = (fifo[s] # <<>>) /\ fifo'[s] = fifo[s] /\ ~InQueries(s)'
    BY <1>0, <1>1, <1>2 DEF InQueries
  <2> QED
    BY <1>3, <1>4, <1>5, <2>1 DEF OneToken
<1> QED
  BY <1>3, <1>4, <1>6, <1>7 DEF SiteToken
LEMMA TokenStep ==
    ASSUME IInv, [Next]_vars
    PROVE  SiteToken'
<1>0. /\ parser \in [Conns -> Slots \cup Urls \cup {None}]
      /\ \A s \in Slots : s # None /\ s \notin Urls
  BY NoneAssumption, ParserAssumption DEF IInv, TypeOK, ConnsOK
<1>1. CASE UNCHANGED <<dnsSites, isInFifo, queries, scanSite, fifo, parser>>
           /\ (scanSite = None \/ UNCHANGED pc)
  BY <1>1, TokenFrame
<1>2. CASE SeqPriorityWait \/ SeqPriority \/ SeqDiskWait \/ SeqDisk
  <2>1. scanSite = None /\ UNCHANGED <<queries, parser, scanSite>>
    BY <1>2, SeqPut DEF Sequencing, Sequenced, Idle, connVars
  <2>2. PICK u \in Urls, limit \in Nat, prio \in BOOLEAN, pw \in Seq(Urls),
             dw \in Seq(Urls), born \in {0, 1} :
                 PutGenericUrl(u, limit, prio, pw, dw, born)
    BY <1>2, SeqPut
  <2>3. \/ UNCHANGED <<fifo, isInFifo, dnsSites, pc>>
        \/ QueueUrl(SlotOf[HostOf[u]], u)
    BY <2>2, UrlParts, PutBranches
  <2> QED
    BY <1>1, <2>1, <2>3, UrlParts, TokenOfQueueUrl
<1>3. CASE \/ SkipCron \/ Sequencer
           \/ \E d \in Gaps : Cron(d)
           \/ \E v \in InputUrls, prio \in BOOLEAN, test \in InputTests :
                  InputUrl(v, prio, test)
  <2>1. scanSite = None
    BY <1>3 DEF SkipCron, Sequencer, Cron, InputUrl, IInv, ScanBounded
  <2> QED
    BY <1>1, <1>3, <2>1 DEF SkipCron, Sequencer, Cron, InputUrl, Enter, siteVars,
       dnsVars, connVars, controlVars
<1>4. CASE \/ CronTail \/ SeqNone \/ SeqEnd \/ SubmitEnd \/ ReadEnd \/ Open
           \/ OpenEnd \/ NextConn \/ CheckEnd
           \/ \E v \in LinkedUrls : PageLink(v)
  BY <1>1, <1>4 DEF CronTail, SeqNone, NoPriority, Sequencing, SeqEnd, SubmitEnd,
     ReadEnd, Goto, Open, OpenEnd, NextConn, PageLink, Enter, AtConn, CheckEnd,
     Idle, siteVars, dnsVars, connVars, controlVars
<1>5. ASSUME NEW i \in IPs, FetchConnect(i) PROVE SiteToken'
  <2>1. /\ UNCHANGED <<dnsSites, isInFifo, queries, scanSite, fifo, pc>>
        /\ parser' = [parser EXCEPT ![Head(freeConns)] = Head(tab[i])]
    BY <1>5 DEF FetchConnect, dnsVars
  <2>2. /\ Head(freeConns) \in Range(freeConns) /\ Head(freeConns) \in Conns
        /\ Head(tab[i]) \in Urls
    BY <1>5, FetchHead, TailRange DEF FetchConnect
  <2>3. parser[Head(freeConns)] = None
    BY <2>2 DEF IInv, ConnAccounting
  <2>4. \A s \in Slots, c \in Conns : parser'[c] = s <=> parser[c] = s
    BY <1>0, <2>1, <2>2, <2>3
  <2> QED
    BY <2>1, <2>4, TokenFrame
<1>6. CASE PageEnd
  <2>1. /\ ci \in Conns /\ parser[ci] \in Urls
        /\ UNCHANGED <<dnsSites, isInFifo, queries, scanSite, fifo, pc>>
        /\ parser' = [parser EXCEPT ![ci] = None]
    BY <1>6, SizesAssumption
       DEF PageEnd, AtConn, siteVars, dnsVars, IInv, TypeOK, ControlOK, Conns
  <2>2. \A s \in Slots, c \in Conns : parser'[c] = s <=> parser[c] = s
    BY <1>0, <2>1
  <2> QED
    BY <2>1, <2>2, TokenFrame
<1>7. CASE \/ \E i \in IPs : FetchEmpty(i) \/ FetchEarly(i) \/ FetchRefused(i)
           \/ \E s \in Slots : ReadCname(s)
  BY <1>1, <1>7 DEF FetchEmpty, FetchEarly, FetchRefused, ReadCname, DnsCname,
     siteVars, dnsVars, connVars, controlVars
<1>8. CASE \E s \in Slots : ScanKeep(s) \/ ScanForget(s) \/ ScanTransfer(s)
  BY <1>8, TokenOfScan
<1>9. CASE \E s \in Slots : ScanEnd(s)
  BY <1>9, TokenOfScanEnd
<1>10. CASE Submit \/ RobotsEnd \/ \E s \in Slots : ReadAns(s)
  BY <1>10, TokenOfSubmit, TokenOfRobots, TokenOfAns
<1>11. CASE Terminated \/ UNCHANGED vars
  BY <1>1, <1>11 DEF Terminated, vars, siteVars, dnsVars, connVars, controlVars
<1> QED
  BY <1>2, <1>3, <1>4, <1>5, <1>6, <1>7, <1>8, <1>9, <1>10, <1>11
     DEF Next, Step, Fetch, Scan
-----------------------------------------------------------------------------
(***************************************************************************)
(* The inductive invariant and the theorems it gives.                      *)
(***************************************************************************)
LEMMA InitTypes ==
    ASSUME Init
    PROVE  TypeOK
<1>1. StartUrls \in Seq(Urls)
  BY UrlsAssumption
<1>2. Range(StartUrls) \subseteq Urls
  BY <1>1 DEF Range
<1>3. TimeOK
  BY TimeAssumption DEF Init, TimeOK
<1>4. QueuesOK
  <2>1. <<>> \in Seq(Urls)
    OBVIOUS
  <2> QED
    BY <1>1, <1>2, <2>1 DEF Init, QueuesOK
<1>5. SitesOK
  BY DEF Init, SitesOK
<1>6. IPSitesOK
  BY DEF Init, IPSitesOK
<1>7. ConnsOK
  <2>1. NbConn \in Nat /\ Conns = 1 .. NbConn
    BY SizesAssumption DEF Conns
  <2>2. [c \in Conns |-> c] \in Seq(Conns)
    BY <2>1
  <2> QED
    BY <2>2 DEF Init, ConnsOK
<1>8. StatsOK
  BY SizesAssumption DEF Init, StatsOK
<1>9. ControlOK
  <2>1. ci \in 1 .. NbConn + 1
    BY SizesAssumption DEF Init
  <2> QED
    BY <2>1 DEF Init, ControlOK
<1> QED
  BY <1>3, <1>4, <1>5, <1>6, <1>7, <1>8, <1>9 DEF TypeOK

LEMMA InitIInv == Init => IInv
<1> SUFFICES ASSUME Init PROVE IInv
  OBVIOUS
<1>1. TypeOK
  BY InitTypes
<1>2. ReadWaitBounded
  BY DEF Init, ReadWaitBounded
<1>3. ConnAccounting
  BY DEF Init, ConnAccounting, IsInjective, Range
<1>4. FreeConnForFetch
  BY DEF Init, FreeConnForFetch
<1>5. SiteToken
  <2>1. dnsSites = <<>> /\ DOMAIN dnsSites = {}
    BY DEF Init
  <2>2. IsInjective(dnsSites) /\ Range(dnsSites) = {}
    BY <2>1 DEF IsInjective, Range
  <2>3. ASSUME NEW s \in Slots PROVE OneToken(s)
    BY <2>2, NoneAssumption
       DEF Init, OneToken, InDnsSites, InQueries, InRobots, InDnsErr
  <2>4. \A c \in Conns : parser[c] \notin Slots
    BY NoneAssumption DEF Init
  <2> QED
    BY <2>2, <2>3, <2>4 DEF SiteToken
<1>6. ScanBounded
  BY DEF Init, ScanBounded
<1>7. Resolved
  BY NoneAssumption DEF Init, Resolved
<1>8. AddrKept
  BY DEF Init, AddrKept
<1> QED
  BY <1>1, <1>2, <1>3, <1>4, <1>5, <1>6, <1>7, <1>8 DEF IInv

LEMMA IInvStep == IInv /\ [Next]_vars => IInv'
<1> SUFFICES ASSUME IInv, [Next]_vars PROVE IInv'
  OBVIOUS
<1>1. TypeOK'
  BY TimeStep, QueuesStep, SitesStep, IPSitesStep, ConnStep, StatsStep, ControlStep
     DEF TypeOK
<1> QED
  BY <1>1, ReadWaitStep, ConnStep, FetchConnStep, TokenStep, ScanStep, ResolvedStep,
     AddrStep DEF IInv

LEMMA Invariance == Spec => []IInv
BY InitIInv, IInvStep, PTL DEF Spec

\* Every variable keeps its type: no queue or ring is read when it is empty,
\* no site is looked for an address it has not.
THEOREM TypeCorrect == Spec => []TypeOK
<1>1. IInv => TypeOK
  BY DEF IInv
<1> QED
  BY <1>1, Invariance, PTL

\* The sequencer never blocks on a waiting queue (main.cxx, sequencer.cxx).
THEOREM NeverBlocksOnWaitingQueue == Spec => []ReadWaitBounded
<1>1. IInv => ReadWaitBounded
  BY DEF IInv
<1> QED
  BY <1>1, Invariance, PTL

\* The comment on IPSite::fetch, "there must be at least one element in
\* freeConns", holds whoever calls it.
THEOREM FetchHasConnection == Spec => []FreeConnForFetch
<1>1. IInv => FreeConnForFetch
  BY DEF IInv
<1> QED
  BY <1>1, Invariance, PTL

\* No connection is lost, or used twice, by any of the paths that take and
\* give one back.
THEOREM ConnectionsKept == Spec => []ConnAccounting
<1>1. IInv => ConnAccounting
  BY DEF IInv
<1> QED
  BY <1>1, Invariance, PTL

\* A site with urls in its ring is under way in exactly one place.
THEOREM SitesUnderWayOnce == Spec => []SiteToken
<1>1. IInv => SiteToken
  BY DEF IInv
<1> QED
  BY <1>1, Invariance, PTL
-----------------------------------------------------------------------------
(***************************************************************************)
(* What Crawler counts: a step moves at most one url, from one place to    *)
(* another, and every counter of the program follows it (OneMove). That no *)
(* url is lost, and that nburls, the Interval and debUrl are exact, are    *)
(* sums over it.                                                           *)
(***************************************************************************)
\* The urls in C at each place of the program.
Mem(C)   == CountIn(urlsPriority, C) + CountIn(urlsPriorityWait, C)
Disk(C)  == CountIn(urlsDisk, C) + CountIn(urlsDiskWait, C)
Rings(C) == CountsIn(fifo, C)
Tabs(C)  == CountsIn(tab, C)
Fetched(C) == CountIn(parser, C)

\* How many url objects stand for an url at a place, and whether nburls and
\* the Interval count it there.
Objects(place) == CASE place \in {"mem", "ring", "tab"} -> 1
                    [] place = "page" -> 2
                    [] OTHER -> 0
InSite(place) == IF place \in {"ring", "tab"} THEN 1 ELSE 0
Places == {"new", "mem", "disk", "ring", "tab", "page"}
Others == {"mem", "disk", "ring", "tab", "page", "over"}

\* What the place r gains in C when u goes from p to q.
Gain(u, p, q, r, C) == (IF q = r THEN One(u, C) ELSE 0) - (IF p = r THEN One(u, C) ELSE 0)

CountsMove(u, p, q, C) ==
    /\ Mem(C)' = Mem(C) + Gain(u, p, q, "mem", C)
    /\ Disk(C)' = Disk(C) + Gain(u, p, q, "disk", C)
    /\ Rings(C)' = Rings(C) + Gain(u, p, q, "ring", C)
    /\ Tabs(C)' = Tabs(C) + Gain(u, p, q, "tab", C)
    /\ Fetched(C)' = Fetched(C) + Gain(u, p, q, "page", C)

\* u goes from p to q, and the counters of the program with it.
Move(u, p, q, C) ==
    /\ CountsMove(u, p, q, C)
    /\ accepted' = IF p = "new" THEN [accepted EXCEPT ![u] = @ + 1] ELSE accepted
    /\ reported' = IF q = "over" THEN [reported EXCEPT ![u] = @ + 1] ELSE reported
    /\ debUrl' = debUrl + Objects(q) - Objects(p)
    /\ nburls' = [nburls EXCEPT ![SlotOf[HostOf[u]]] = @ + InSite(q) - InSite(p)]
    /\ interPos' - space' = interPos - space + InSite(q) - InSite(p)

\* No url moves.
NoMove(C) ==
    /\ Mem(C)' = Mem(C) /\ Disk(C)' = Disk(C) /\ Rings(C)' = Rings(C)
    /\ Tabs(C)' = Tabs(C) /\ Fetched(C)' = Fetched(C)
    /\ UNCHANGED <<accepted, reported, debUrl, nburls>>
    /\ interPos' - space' = interPos - space

\* The urls of a ring are those of its slot.
Of(s) == {u \in Urls : SlotOf[HostOf[u]] = s}
RingsSorted == \A s \in Slots : fifo[s] \in Seq(Of(s))
-----------------------------------------------------------------------------
(***************************************************************************)
(* The lists of the frontier, the rings and the tabs as queues.            *)
(***************************************************************************)
LEMMA ListTypes ==
    ASSUME IInv
    PROVE  /\ urlsPriority \in Seq(Urls) /\ urlsPriorityWait \in Seq(Urls)
           /\ urlsDisk \in Seq(Urls) /\ urlsDiskWait \in Seq(Urls)
           /\ fifo \in [Slots -> Seq(Urls)] /\ tab \in [IPs -> Seq(Urls)]
           /\ parser \in [Conns -> Slots \cup Urls \cup {None}]
           /\ IsFiniteSet(Conns) /\ IsFiniteSet(Slots) /\ IsFiniteSet(IPs)
<1>1. IsFiniteSet(Conns)
  <2>1. NbConn \in Int
    BY SizesAssumption
  <2> QED
    BY <2>1, FS_Interval DEF Conns
<1> QED
  BY <1>1, TablesAssumption DEF IInv, TypeOK, QueuesOK, SitesOK, IPSitesOK, ConnsOK

LEMMA CountTypes ==
    ASSUME IInv, NEW C
    PROVE  /\ Mem(C) \in Nat /\ Disk(C) \in Nat /\ Rings(C) \in Nat
           /\ Tabs(C) \in Nat /\ Fetched(C) \in Nat
           /\ CountIn(urlsPriority, C) \in Nat /\ CountIn(urlsPriorityWait, C) \in Nat
           /\ CountIn(urlsDisk, C) \in Nat /\ CountIn(urlsDiskWait, C) \in Nat
<1>1. /\ CountIn(urlsPriority, C) \in Nat /\ CountIn(urlsPriorityWait, C) \in Nat
      /\ CountIn(urlsDisk, C) \in Nat /\ CountIn(urlsDiskWait, C) \in Nat
  BY ListTypes, CountSeqType
<1>2. Rings(C) \in Nat /\ Tabs(C) \in Nat
  BY ListTypes, CountsType DEF Rings, Tabs
<1>3. Fetched(C) \in Nat
  <2>1. DOMAIN parser = Conns /\ IsFiniteSet(Conns)
    BY ListTypes
  <2> QED
    BY <2>1, CountType DEF Fetched
<1> QED
  BY <1>1, <1>2, <1>3 DEF Mem, Disk

\* One is a number.
LEMMA OneType == ASSUME NEW u, NEW C PROVE One(u, C) \in {0, 1}
BY DEF One

\* What an url object adds to a list, to a ring and to a tab.
LEMMA ListAppend ==
    ASSUME NEW q \in Seq(Urls), NEW u \in Urls, NEW C
    PROVE  /\ Append(q, u) \in Seq(Urls) /\ CountIn(q, C) \in Nat
           /\ CountIn(Append(q, u), C) = CountIn(q, C) + One(u, C)
BY CountAppend

LEMMA ListTail ==
    ASSUME NEW q \in Seq(Urls), q # <<>>, NEW C
    PROVE  /\ Head(q) \in Urls /\ Tail(q) \in Seq(Urls)
           /\ CountIn(q, C) \in Nat /\ CountIn(Tail(q), C) \in Nat
           /\ CountIn(q, C) = CountIn(Tail(q), C) + One(Head(q), C)
BY CountTail, TailRange

LEMMA RingAppend ==
    ASSUME IInv, NEW s \in Slots, NEW u \in Urls, NEW C,
           fifo' = [fifo EXCEPT ![s] = Append(@, u)]
    PROVE  Rings(C)' = Rings(C) + One(u, C)
<1>1. AppendedAt(fifo, fifo', Slots, Urls, s, u)
  BY ListTypes DEF AppendedAt
<1>2. CountsIn(fifo', C) = CountsIn(fifo, C) + One(u, C)
  BY ONLY TablesAssumption, <1>1, CountsAppend
<1> QED
  BY <1>2 DEF Rings

LEMMA RingTail ==
    ASSUME IInv, NEW s \in Slots, NEW C, fifo[s] # <<>>,
           fifo' = [fifo EXCEPT ![s] = Tail(@)]
    PROVE  Rings(C)' = Rings(C) - One(Head(fifo[s]), C)
<1>1. TakenAt(fifo, fifo', Slots, Urls, s)
  BY ListTypes DEF TakenAt
<1>2. CountsIn(fifo', C) = CountsIn(fifo, C) - One(Head(fifo[s]), C)
  BY ONLY TablesAssumption, <1>1, CountsTail
<1> QED
  BY <1>2 DEF Rings

LEMMA RingRotate ==
    ASSUME IInv, NEW s \in Slots, NEW C, fifo[s] # <<>>,
           fifo' = [fifo EXCEPT ![s] = Append(Tail(@), Head(fifo[s]))]
    PROVE  Rings(C)' = Rings(C)
<1>1. RotatedAt(fifo, fifo', Slots, Urls, s)
  BY ListTypes DEF RotatedAt
<1>2. CountsIn(fifo', C) = CountsIn(fifo, C)
  BY ONLY TablesAssumption, <1>1, CountsRotate
<1> QED
  BY <1>2 DEF Rings

LEMMA TabAppend ==
    ASSUME IInv, NEW i \in IPs, NEW u \in Urls, NEW C,
           tab' = [tab EXCEPT ![i] = Append(@, u)]
    PROVE  Tabs(C)' = Tabs(C) + One(u, C)
<1>1. AppendedAt(tab, tab', IPs, Urls, i, u)
  BY ListTypes DEF AppendedAt
<1>2. CountsIn(tab', C) = CountsIn(tab, C) + One(u, C)
  BY ONLY TablesAssumption, <1>1, CountsAppend
<1> QED
  BY <1>2 DEF Tabs

LEMMA TabTail ==
    ASSUME IInv, NEW i \in IPs, NEW C, tab[i] # <<>>,
           tab' = [tab EXCEPT ![i] = Tail(@)]
    PROVE  Tabs(C)' = Tabs(C) - One(Head(tab[i]), C)
<1>1. TakenAt(tab, tab', IPs, Urls, i)
  BY ListTypes DEF TakenAt
<1>2. CountsIn(tab', C) = CountsIn(tab, C) - One(Head(tab[i]), C)
  BY ONLY TablesAssumption, <1>1, CountsTail
<1> QED
  BY <1>2 DEF Tabs

\* A connection changes hands.
LEMMA ParserChange ==
    ASSUME IInv, NEW c \in Conns, NEW x \in Slots \cup Urls \cup {None}, NEW C,
           parser' = [parser EXCEPT ![c] = x]
    PROVE  Fetched(C)' = Fetched(C) + One(x, C) - One(parser[c], C)
<1>1. /\ ChangedAt(parser, parser', Conns, Slots \cup Urls \cup {None}, c)
      /\ parser'[c] = x /\ IsFiniteSet(Conns)
  BY ListTypes DEF ChangedAt
<1>2. CountIn(parser', C) = CountIn(parser, C) + One(parser'[c], C) - One(parser[c], C)
  BY ONLY <1>1, CountStep
<1> QED
  BY <1>1, <1>2 DEF Fetched
-----------------------------------------------------------------------------
(***************************************************************************)
(* Every step moves at most one url.                                       *)
(***************************************************************************)
LEMMA PlaceFacts ==
    /\ Objects("new") = 0 /\ Objects("mem") = 1 /\ Objects("disk") = 0
    /\ Objects("ring") = 1 /\ Objects("tab") = 1 /\ Objects("page") = 2
    /\ Objects("over") = 0
    /\ InSite("new") = 0 /\ InSite("mem") = 0 /\ InSite("disk") = 0
    /\ InSite("ring") = 1 /\ InSite("tab") = 1 /\ InSite("page") = 0
    /\ InSite("over") = 0
BY DEF Objects, InSite

LEMMA CounterTypes ==
    ASSUME IInv
    PROVE  /\ debUrl \in Int /\ nburls \in [Slots -> Int] /\ interPos \in Int
           /\ space \in Int /\ still \in Int
           /\ accepted \in [Urls -> Nat] /\ reported \in [Urls -> Nat]
BY DEF IInv, TypeOK, QueuesOK, SitesOK, StatsOK

\* nburls when the place of u inside or outside the sites stays as it is.
LEMMA SameLoad ==
    ASSUME IInv, NEW u \in Urls, UNCHANGED nburls
    PROVE  nburls' = [nburls EXCEPT ![SlotOf[HostOf[u]]] = @ + 0 - 0]
BY CounterTypes, UrlParts

\* An url enters the frontier.
LEMMA EnterMove ==
    ASSUME IInv, NEW C, NEW v \in Urls, NEW prio \in BOOLEAN, Enter(v, prio)
    PROVE  Move(v, "new", "mem", C) \/ Move(v, "new", "disk", C)
<1>1. /\ accepted' = [accepted EXCEPT ![v] = @ + 1]
      /\ UNCHANGED <<reported, nburls, interPos, space, fifo, tab, parser,
                     urlsPriorityWait, urlsDiskWait>>
  BY DEF Enter, intervalVars, siteVars, ipVars, connVars
<1>2. nburls' = [nburls EXCEPT ![SlotOf[HostOf[v]]] = @ + 0 - 0]
  BY <1>1, SameLoad
<1>3. Rings(C)' = Rings(C) /\ Tabs(C)' = Tabs(C) /\ Fetched(C)' = Fetched(C)
  BY <1>1 DEF Rings, Tabs, Fetched
<1>4. CASE prio
  <2>1. /\ urlsPriority' = Append(urlsPriority, v) /\ UNCHANGED urlsDisk
        /\ debUrl' = debUrl + 1
    BY <1>4 DEF Enter
  <2>2. Mem(C)' = Mem(C) + One(v, C) /\ Disk(C)' = Disk(C)
    <3>1. CountIn(urlsPriority', C) = CountIn(urlsPriority, C) + One(v, C)
      BY <2>1, ListTypes, ListAppend
    <3> QED
      BY <1>1, <2>1, <3>1, CountTypes, OneType DEF Mem, Disk
  <2>3. CountsMove(v, "new", "mem", C)
    BY <1>3, <2>2, CountTypes, OneType DEF CountsMove, Gain
  <2>4. /\ debUrl' = debUrl + Objects("mem") - Objects("new")
        /\ interPos' - space' = interPos - space + InSite("mem") - InSite("new")
    BY <1>1, <2>1, PlaceFacts, CounterTypes
  <2> QED
    BY <1>1, <1>2, <2>3, <2>4, PlaceFacts DEF Move
<1>5. CASE ~prio
  <2>1. /\ urlsDisk' = Append(urlsDisk, v) /\ UNCHANGED <<urlsPriority, debUrl>>
    BY <1>5 DEF Enter
  <2>2. Disk(C)' = Disk(C) + One(v, C) /\ Mem(C)' = Mem(C)
    <3>1. CountIn(urlsDisk', C) = CountIn(urlsDisk, C) + One(v, C)
      BY <2>1, ListTypes, ListAppend
    <3> QED
      BY <1>1, <2>1, <3>1, CountTypes, OneType DEF Mem, Disk
  <2>3. CountsMove(v, "new", "disk", C)
    BY <1>3, <2>2, CountTypes, OneType DEF CountsMove, Gain
  <2>4. /\ debUrl' = debUrl + Objects("disk") - Objects("new")
        /\ interPos' - space' = interPos - space + InSite("disk") - InSite("new")
    BY <1>1, <2>1, PlaceFacts, CounterTypes
  <2> QED
    BY <1>1, <1>2, <2>3, <2>4, PlaceFacts DEF Move
<1> QED
  BY <1>4, <1>5

\* The sequencer has read u from memory (born = 0) or from disk; pw and dw are
\* what is left of the waiting queues.
SeqRead(u, limit, prio, pw, dw, born, C) ==
    /\ u \in Urls /\ pw \in Seq(Urls) /\ dw \in Seq(Urls)
    /\ PutGenericUrl(u, limit, prio, pw, dw, born)
    /\ \/ /\ prio = TRUE /\ born = 0
          /\ CountIn(urlsPriority', C) + CountIn(pw, C) = Mem(C) - One(u, C)
          /\ CountIn(urlsDisk', C) + CountIn(dw, C) = Disk(C)
       \/ /\ prio = FALSE /\ born = 1
          /\ CountIn(urlsPriority', C) + CountIn(pw, C) = Mem(C)
          /\ CountIn(urlsDisk', C) + CountIn(dw, C) = Disk(C) - One(u, C)

\* The four branches of the sequencer read an url.
LEMMA SeqReads ==
    ASSUME IInv, SeqPriorityWait \/ SeqPriority \/ SeqDiskWait \/ SeqDisk, NEW C
    PROVE  \E u, limit, prio, pw, dw, born : SeqRead(u, limit, prio, pw, dw, born, C)
<1>1. /\ CountIn(urlsPriority, C) \in Nat /\ CountIn(urlsPriorityWait, C) \in Nat
      /\ CountIn(urlsDisk, C) \in Nat /\ CountIn(urlsDiskWait, C) \in Nat
  BY CountTypes
<1>2. /\ urlsPriority \in Seq(Urls) /\ urlsPriorityWait \in Seq(Urls)
      /\ urlsDisk \in Seq(Urls) /\ urlsDiskWait \in Seq(Urls)
  BY ListTypes
<1>3. CASE SeqPriorityWait
  <2> DEFINE u == Head(urlsPriorityWait)
  <2>1. /\ u \in Urls /\ Tail(urlsPriorityWait) \in Seq(Urls)
        /\ CountIn(Tail(urlsPriorityWait), C) \in Nat
        /\ CountIn(urlsPriorityWait, C) = CountIn(Tail(urlsPriorityWait), C) + One(u, C)
    BY <1>2, <1>3, SeqHeads, ListTail
  <2>2. PutGenericUrl(u, LimitPrioWait, TRUE, Tail(urlsPriorityWait), urlsDiskWait, 0)
        /\ UNCHANGED <<urlsPriority, urlsDisk>>
    BY <1>3 DEF SeqPriorityWait
  <2>3. /\ CountIn(urlsPriority', C) + CountIn(Tail(urlsPriorityWait), C) = Mem(C) - One(u, C)
        /\ CountIn(urlsDisk', C) + CountIn(urlsDiskWait, C) = Disk(C)
    BY <1>1, <2>1, <2>2, OneType DEF Mem, Disk
  <2>4. SeqRead(u, LimitPrioWait, TRUE, Tail(urlsPriorityWait), urlsDiskWait, 0, C)
    BY <1>2, <2>1, <2>2, <2>3 DEF SeqRead
  <2> QED
    BY <2>4
<1>4. CASE SeqPriority
  <2> DEFINE u == Head(urlsPriority)
  <2>1. /\ u \in Urls /\ CountIn(Tail(urlsPriority), C) \in Nat
        /\ CountIn(urlsPriority, C) = CountIn(Tail(urlsPriority), C) + One(u, C)
    BY <1>2, <1>4, SeqHeads, ListTail
  <2>2. /\ PutGenericUrl(u, LimitPrio, TRUE, urlsPriorityWait, urlsDiskWait, 0)
        /\ urlsPriority' = Tail(urlsPriority) /\ UNCHANGED urlsDisk
    BY <1>4 DEF SeqPriority
  <2>3. /\ CountIn(urlsPriority', C) + CountIn(urlsPriorityWait, C) = Mem(C) - One(u, C)
        /\ CountIn(urlsDisk', C) + CountIn(urlsDiskWait, C) = Disk(C)
    <3>1. /\ CountIn(urlsPriority', C) = CountIn(Tail(urlsPriority), C)
          /\ CountIn(urlsDisk', C) = CountIn(urlsDisk, C)
      BY <2>2
    <3>2. One(u, C) \in {0, 1}
      BY OneType
    <3> HIDE DEF u
    <3> QED
      BY <1>1, <2>1, <3>1, <3>2 DEF Mem, Disk
  <2>4. SeqRead(u, LimitPrio, TRUE, urlsPriorityWait, urlsDiskWait, 0, C)
    BY <1>2, <2>1, <2>2, <2>3 DEF SeqRead
  <2> QED
    BY <2>4
<1>5. CASE SeqDiskWait
  <2> DEFINE u == Head(urlsDiskWait)
  <2>1. /\ u \in Urls /\ Tail(urlsDiskWait) \in Seq(Urls)
        /\ CountIn(Tail(urlsDiskWait), C) \in Nat
        /\ CountIn(urlsDiskWait, C) = CountIn(Tail(urlsDiskWait), C) + One(u, C)
    BY <1>2, <1>5, SeqHeads, ListTail
  <2>2. PutGenericUrl(u, LimitWait, FALSE, urlsPriorityWait, Tail(urlsDiskWait), 1)
        /\ UNCHANGED <<urlsPriority, urlsDisk>>
    BY <1>5 DEF SeqDiskWait, NoPriority
  <2>3. /\ CountIn(urlsDisk', C) + CountIn(Tail(urlsDiskWait), C) = Disk(C) - One(u, C)
        /\ CountIn(urlsPriority', C) + CountIn(urlsPriorityWait, C) = Mem(C)
    BY <1>1, <2>1, <2>2, OneType DEF Mem, Disk
  <2>4. SeqRead(u, LimitWait, FALSE, urlsPriorityWait, Tail(urlsDiskWait), 1, C)
    BY <1>2, <2>1, <2>2, <2>3 DEF SeqRead
  <2> QED
    BY <2>4
<1>6. CASE SeqDisk
  <2> DEFINE u == Head(urlsDisk)
  <2>1. /\ u \in Urls /\ CountIn(Tail(urlsDisk), C) \in Nat
        /\ CountIn(urlsDisk, C) = CountIn(Tail(urlsDisk), C) + One(u, C)
    BY <1>2, <1>6, SeqHeads, ListTail
  <2>2. /\ PutGenericUrl(u, LimitUrl, FALSE, urlsPriorityWait, urlsDiskWait, 1)
        /\ urlsDisk' = Tail(urlsDisk) /\ UNCHANGED urlsPriority
    BY <1>6 DEF SeqDisk, NoPriority
  <2>3. /\ CountIn(urlsDisk', C) + CountIn(urlsDiskWait, C) = Disk(C) - One(u, C)
        /\ CountIn(urlsPriority', C) + CountIn(urlsPriorityWait, C) = Mem(C)
    BY <1>1, <2>1, <2>2, OneType DEF Mem, Disk
  <2>4. SeqRead(u, LimitUrl, FALSE, urlsPriorityWait, urlsDiskWait, 1, C)
    BY <1>2, <2>1, <2>2, <2>3 DEF SeqRead
  <2> QED
    BY <2>4
<1> QED
  BY <1>3, <1>4, <1>5, <1>6

\* The branches of putGenericUrl, once more: what becomes of the counters.
PutEnds(u, pw, dw, born, s) ==
    /\ ForgetUrl(s, u, nburls[s] + 1)
    /\ urlsPriorityWait' = pw /\ urlsDiskWait' = dw
    /\ debUrl' = debUrl + born - 1 /\ UNCHANGED <<fifo, tab>>
PutWaits(u, prio, pw, dw, born) ==
    /\ urlsPriorityWait' = IF prio THEN Append(pw, u) ELSE pw
    /\ urlsDiskWait' = IF prio THEN dw ELSE Append(dw, u)
    /\ debUrl' = debUrl + born - IF prio THEN 0 ELSE 1
    /\ interPos' = interPos - 1
    /\ UNCHANGED <<nburls, reported, fifo, tab>>
PutKeeps(u, pw, dw, born, s) ==
    /\ urlsPriorityWait' = pw /\ urlsDiskWait' = dw
    /\ debUrl' = debUrl + born - 0
    /\ nburls' = [nburls EXCEPT ![s] = @ + 1] /\ UNCHANGED <<interPos, reported>>
    /\ \/ QueueUrl(s, u) /\ UNCHANGED tab
       \/ dnsState[s] = "doneDns" /\ Transfer(s, u) /\ UNCHANGED fifo

LEMMA PutMoves ==
    ASSUME IInv, NEW u, u \in Urls, NEW limit, NEW prio, NEW pw, NEW dw,
           NEW born, PutGenericUrl(u, limit, prio, pw, dw, born),
           NEW s, s \in Slots, s = SlotOf[HostOf[u]]
    PROVE  \/ PutEnds(u, pw, dw, born, s) \/ PutWaits(u, prio, pw, dw, born)
           \/ PutKeeps(u, pw, dw, born, s)
<1>1. CASE Hopeless(s, u) /\ (TooMany(s, limit) \/ ~Unresolved(s, u))
  BY <1>1 DEF PutGenericUrl, ipVars, PutEnds, PutWaits, PutKeeps
<1>2. CASE TooMany(s, limit) /\ ~Hopeless(s, u)
  BY <1>2 DEF PutGenericUrl, ipVars, PutEnds, PutWaits, PutKeeps
<1>3. CASE ~TooMany(s, limit) /\ Unresolved(s, u)
  BY <1>3 DEF PutGenericUrl, ipVars, PutEnds, PutWaits, PutKeeps
<1>4. CASE ~TooMany(s, limit) /\ ~Unresolved(s, u) /\ ~Hopeless(s, u)
  <2>1. dnsState[s] \in {"waitDns", "doneDns", "errorDns", "noConnDns"}
    BY DEF IInv, TypeOK, SitesOK
  <2>2. dnsState[s] = "doneDns"
    BY <1>4, <2>1 DEF Unresolved, Hopeless, SameSite
  <2> QED
    BY <1>4, <2>2 DEF PutGenericUrl, PutKeeps
<1> QED
  BY <1>1, <1>2, <1>3, <1>4

\* The sequencer has handed the url it read to its site, which keeps it in its
\* ring or its tab, or ends it.
Handed(u, pw, dw, born, q, C) ==
    /\ urlsPriorityWait' = pw /\ urlsDiskWait' = dw
    /\ UNCHANGED <<parser, accepted>> /\ space' = space - 1
    /\ Rings(C)' = Rings(C) + (IF q = "ring" THEN One(u, C) ELSE 0)
    /\ Tabs(C)' = Tabs(C) + (IF q = "tab" THEN One(u, C) ELSE 0)
    /\ reported' = IF q = "over" THEN [reported EXCEPT ![u] = @ + 1] ELSE reported
    /\ debUrl' = debUrl + born - (IF q = "over" THEN 1 ELSE 0)
    /\ interPos' = interPos - (IF q = "over" THEN 1 ELSE 0)
    /\ nburls' = [nburls EXCEPT ![SlotOf[HostOf[u]]] = @ + InSite(q) - 0]

LEMMA ReadMove ==
    ASSUME IInv, NEW u, NEW limit, NEW prio, NEW pw, NEW dw, NEW born, NEW C,
           SeqRead(u, limit, prio, pw, dw, born, C),
           NEW q, q \in {"ring", "tab", "over"}, Handed(u, pw, dw, born, q, C)
    PROVE  Move(u, "mem", q, C) \/ Move(u, "disk", q, C)
<1>1. /\ Mem(C)' = CountIn(urlsPriority', C) + CountIn(pw, C)
      /\ Disk(C)' = CountIn(urlsDisk', C) + CountIn(dw, C)
      /\ Fetched(C)' = Fetched(C)
  BY DEF Mem, Disk, Fetched, Handed
<1>2. One(u, C) \in {0, 1} /\ Fetched(C) \in Nat /\ Mem(C) \in Nat /\ Disk(C) \in Nat
      /\ Rings(C) \in Nat /\ Tabs(C) \in Nat
  BY OneType, CountTypes
<1>3. debUrl \in Int /\ interPos \in Int /\ space \in Int
  BY CounterTypes
<1>4. CASE born = 0
  <2>1. Mem(C)' = Mem(C) - One(u, C) /\ Disk(C)' = Disk(C)
    BY <1>1, <1>4 DEF SeqRead
  <2>2. CountsMove(u, "mem", q, C)
    BY <1>1, <1>2, <2>1 DEF CountsMove, Gain, Handed
  <2>3. /\ debUrl' = debUrl + Objects(q) - Objects("mem")
        /\ interPos' - space' = interPos - space + InSite(q) - InSite("mem")
    BY <1>3, <1>4, PlaceFacts DEF Handed
  <2>4. Move(u, "mem", q, C)
    BY <2>2, <2>3, PlaceFacts DEF Move, Handed
  <2> QED
    BY <2>4
<1>5. CASE born = 1
  <2>1. Disk(C)' = Disk(C) - One(u, C) /\ Mem(C)' = Mem(C)
    BY <1>1, <1>5 DEF SeqRead
  <2>2. CountsMove(u, "disk", q, C)
    BY <1>1, <1>2, <2>1 DEF CountsMove, Gain, Handed
  <2>3. /\ debUrl' = debUrl + Objects(q) - Objects("disk")
        /\ interPos' - space' = interPos - space + InSite(q) - InSite("disk")
    BY <1>3, <1>5, PlaceFacts DEF Handed
  <2>4. Move(u, "disk", q, C)
    BY <2>2, <2>3, PlaceFacts DEF Move, Handed
  <2> QED
    BY <2>4
<1> QED
  BY <1>4, <1>5 DEF SeqRead

LEMMA SeqMove ==
    ASSUME IInv, SeqPriorityWait \/ SeqPriority \/ SeqDiskWait \/ SeqDisk,
           pc' # "aborted", NEW C
    PROVE  NoMove(C) \/ \E u \in Urls, p \in Places, q \in Others : Move(u, p, q, C)
<1>1. PICK u, limit, prio, pw, dw, born : SeqRead(u, limit, prio, pw, dw, born, C)
  BY SeqReads
<1>9. PICK s \in Slots : s = SlotOf[HostOf[u]]
  BY <1>1, UrlParts DEF SeqRead
<1>2. /\ u \in Urls /\ prio \in BOOLEAN /\ born \in {0, 1}
      /\ pw \in Seq(Urls) /\ dw \in Seq(Urls)
      /\ PutGenericUrl(u, limit, prio, pw, dw, born)
  BY <1>1 DEF SeqRead
<1>3. UNCHANGED <<parser, accepted>> /\ space' = space - 1
  BY SeqPut DEF Sequenced, connVars
<1>4. /\ debUrl \in Int /\ interPos \in Int /\ space \in Int
      /\ nburls \in [Slots -> Int]
  BY CounterTypes
<1>5. One(u, C) \in {0, 1} /\ Rings(C) \in Nat /\ Tabs(C) \in Nat
  BY OneType, CountTypes
<1>10. ASSUME NEW q, q \in {"ring", "tab", "over"}, Handed(u, pw, dw, born, q, C)
       PROVE  \E v \in Urls, p \in Places, r \in Others : Move(v, p, r, C)
  <2>1. Move(u, "mem", q, C) \/ Move(u, "disk", q, C)
    BY <1>1, <1>10, ReadMove
  <2>2. u \in Urls /\ {"mem", "disk"} \subseteq Places /\ q \in Others
    BY <1>2, <1>10 DEF Places, Others
  <2> QED
    BY <2>1, <2>2
<1>6. CASE PutEnds(u, pw, dw, born, s)
  <2>1. Rings(C)' = Rings(C) /\ Tabs(C)' = Tabs(C)
    BY <1>6 DEF Rings, Tabs, PutEnds
  <2>2. /\ interPos' = interPos - 1
        /\ reported' = [reported EXCEPT ![u] = @ + 1]
    BY <1>6 DEF ForgetUrl, Report, PutEnds
  <2>3. nburls' = [nburls EXCEPT ![s] = @ + 0 - 0]
    <3>1. ForgetUrl(s, u, nburls[s] + 1)
      BY <1>6 DEF PutEnds
    <3>2. nburls[s] \in Int /\ s \in Slots
      BY <1>4, <1>9
    <3>3. nburls' = [nburls EXCEPT ![s] = nburls[s]]
      <4>1. (nburls[s] + 1) - 1 = nburls[s]
        BY <3>2
      <4> QED
        BY <3>1, <4>1, Zenon DEF ForgetUrl
    <3>4. nburls[s] + 0 - 0 = nburls[s]
      BY <3>2
    <3> QED
      BY <3>3, <3>4, Zenon
  <2>4. Rings(C)' = Rings(C) + 0 /\ Tabs(C)' = Tabs(C) + 0
    BY <1>5, <2>1
  <2>5. Handed(u, pw, dw, born, "over", C)
    BY <1>3, <1>6, <1>9, <2>2, <2>3, <2>4, PlaceFacts DEF Handed, PutEnds
  <2> QED
    BY <1>10, <2>5
<1>7. CASE PutWaits(u, prio, pw, dw, born)
  <2>1. /\ CountIn(pw, C) \in Nat /\ CountIn(Append(pw, u), C) = CountIn(pw, C) + One(u, C)
        /\ CountIn(dw, C) \in Nat /\ CountIn(Append(dw, u), C) = CountIn(dw, C) + One(u, C)
    BY <1>2, ListAppend
  <2>2. CountIn(urlsPriority', C) \in Nat /\ CountIn(urlsDisk', C) \in Nat
    <3>1. urlsPriority' \in Seq(Urls) /\ urlsDisk' \in Seq(Urls)
      BY QueuesStep DEF QueuesOK, Next, Step
    <3> QED
      BY <3>1, CountSeqType
  <2>3. Mem(C)' = Mem(C) /\ Disk(C)' = Disk(C)
    <3>1. /\ Mem(C)' = CountIn(urlsPriority', C) + CountIn(urlsPriorityWait', C)
          /\ Disk(C)' = CountIn(urlsDisk', C) + CountIn(urlsDiskWait', C)
      BY DEF Mem, Disk
    <3>2. Mem(C) \in Nat /\ Disk(C) \in Nat
      BY CountTypes
    <3>3. CASE prio
      <4>1. /\ CountIn(urlsPriorityWait', C) = CountIn(pw, C) + One(u, C)
            /\ CountIn(urlsDiskWait', C) = CountIn(dw, C)
            /\ CountIn(urlsPriority', C) + CountIn(pw, C) = Mem(C) - One(u, C)
            /\ CountIn(urlsDisk', C) + CountIn(dw, C) = Disk(C)
        BY <1>1, <1>7, <2>1, <3>3 DEF SeqRead, PutWaits
      <4> QED
        BY <1>5, <2>1, <2>2, <3>1, <3>2, <4>1
    <3>4. CASE ~prio
      <4>1. /\ CountIn(urlsPriorityWait', C) = CountIn(pw, C)
            /\ CountIn(urlsDiskWait', C) = CountIn(dw, C) + One(u, C)
            /\ CountIn(urlsPriority', C) + CountIn(pw, C) = Mem(C)
            /\ CountIn(urlsDisk', C) + CountIn(dw, C) = Disk(C) - One(u, C)
        BY <1>1, <1>7, <2>1, <3>4 DEF SeqRead, PutWaits
      <4> QED
        BY <1>5, <2>1, <2>2, <3>1, <3>2, <4>1
    <3> QED
      BY <3>3, <3>4
  <2>4. Rings(C)' = Rings(C) /\ Tabs(C)' = Tabs(C) /\ Fetched(C)' = Fetched(C)
    BY <1>3, <1>7 DEF Rings, Tabs, Fetched, PutWaits
  <2>5. debUrl' = debUrl /\ interPos' - space' = interPos - space
    BY <1>1, <1>3, <1>4, <1>7 DEF SeqRead, PutWaits
  <2> QED
    BY <1>3, <1>7, <2>3, <2>4, <2>5 DEF NoMove, PutWaits
<1>8. CASE PutKeeps(u, pw, dw, born, s)
  <2>1. nburls' = [nburls EXCEPT ![s] = @ + 1 - 0] /\ interPos' = interPos - 0
    BY <1>4, <1>8 DEF PutKeeps
  <2>2. CASE QueueUrl(s, u) /\ UNCHANGED tab
    <3>1. fifo' = [fifo EXCEPT ![s] = Append(@, u)]
      BY <2>2 DEF QueueUrl
    <3>2. Rings(C)' = Rings(C) + One(u, C)
      BY <1>2, <3>1, RingAppend
    <3>3. Tabs(C)' = Tabs(C) + 0
      BY <1>5, <2>2 DEF Tabs
    <3>4. Handed(u, pw, dw, born, "ring", C)
      BY <1>3, <1>8, <1>9, <2>1, <3>2, <3>3, PlaceFacts DEF Handed, PutKeeps
    <3> QED
      BY <1>10, <3>4
  <2>3. CASE dnsState[s] = "doneDns" /\ Transfer(s, u) /\ UNCHANGED fifo
    <3>1. tab' = [tab EXCEPT ![ipHash[s]] = Append(@, u)]
      BY <2>3 DEF Transfer, PutUrl
    <3>2. ipHash[s] \in IPs
      BY <2>3 DEF IInv, Resolved
    <3>3. Tabs(C)' = Tabs(C) + One(u, C)
      BY <1>2, <3>1, <3>2, TabAppend
    <3>4. Rings(C)' = Rings(C) + 0
      BY <1>5, <2>3 DEF Rings
    <3>5. Handed(u, pw, dw, born, "tab", C)
      BY <1>3, <1>8, <1>9, <2>1, <3>3, <3>4, PlaceFacts DEF Handed, PutKeeps
    <3> QED
      BY <1>10, <3>5
  <2> QED
    BY <1>8, <2>2, <2>3 DEF PutKeeps
<1> QED
  BY <1>2, <1>6, <1>7, <1>8, <1>9, PutMoves DEF PutKeeps

\* Nothing of what Move and NoMove speak of changes.
CountedVars == <<urlsPriority, urlsPriorityWait, urlsDisk, urlsDiskWait, fifo, tab,
                 parser, accepted, reported, debUrl, nburls, interPos, space>>

LEMMA StillNoMove ==
    ASSUME UNCHANGED CountedVars, NEW C
    PROVE  NoMove(C)
BY DEF CountedVars, NoMove, Mem, Disk, Rings, Tabs, Fetched

\* A free connection serves nobody.
LEMMA FreeConn ==
    ASSUME IInv, freeConns # <<>>
    PROVE  Head(freeConns) \in Conns /\ parser[Head(freeConns)] = None
<1>1. freeConns \in Seq(Conns)
  BY DEF IInv, TypeOK, ConnsOK
<1>2. Head(freeConns) \in Range(freeConns)
  BY <1>1, TailRange
<1> QED
  BY <1>2 DEF IInv, ConnAccounting

\* Sites are no urls.
LEMMA NotCounted ==
    ASSUME NEW C, C \subseteq Urls, NEW x, x \in Slots \/ x = None
    PROVE  One(x, C) = 0
BY NoneAssumption, ParserAssumption DEF One

LEMMA ConnectMove ==
    ASSUME IInv, NEW C, C \subseteq Urls, NEW i \in IPs, FetchConnect(i)
    PROVE  Head(tab[i]) \in Urls /\ Move(Head(tab[i]), "tab", "page", C)
<1> DEFINE u == Head(tab[i])
           c == Head(freeConns)
<1>1. /\ u \in Urls /\ SlotOf[HostOf[u]] \in Slots /\ freeConns # <<>> /\ tab[i] # <<>>
  BY FetchHead DEF FetchConnect
<1>2. /\ tab' = [tab EXCEPT ![i] = Tail(@)]
      /\ parser' = [parser EXCEPT ![c] = u]
      /\ nburls' = [nburls EXCEPT ![SlotOf[HostOf[u]]] = @ - 1]
      /\ interPos' = interPos - 1 /\ debUrl' = debUrl + 1
  BY DEF FetchConnect, GetUrl
<1>3. UNCHANGED <<queueVars, space, fifo, accepted, reported>>
  BY DEF FetchConnect
<1>4. c \in Conns /\ parser[c] = None
  BY <1>1, FreeConn
<1>5. One(None, C) = 0 /\ One(u, C) \in {0, 1}
  BY NotCounted, OneType
<1>6. Tabs(C)' = Tabs(C) - One(u, C)
  BY <1>1, <1>2, TabTail
<1>7. Fetched(C)' = Fetched(C) + One(u, C) - 0
  BY <1>1, <1>2, <1>4, <1>5, ParserChange
<1>8. Mem(C)' = Mem(C) /\ Disk(C)' = Disk(C) /\ Rings(C)' = Rings(C)
  BY <1>3 DEF queueVars, Mem, Disk, Rings
<1>9. CountsMove(u, "tab", "page", C)
  <2> HIDE DEF u
  <2> QED
    BY <1>5, <1>6, <1>7, <1>8, CountTypes DEF CountsMove, Gain
<1>10. nburls' = [nburls EXCEPT ![SlotOf[HostOf[u]]] = @ + 0 - 1]
  <2>1. nburls[SlotOf[HostOf[u]]] - 1 = nburls[SlotOf[HostOf[u]]] + 0 - 1
    BY <1>1, CounterTypes
  <2> QED
    BY <1>2, <2>1, Zenon
<1>11. /\ debUrl' = debUrl + 2 - 1
       /\ interPos' - space' = interPos - space + 0 - 1
  BY <1>2, <1>3, CounterTypes
<1>12. Move(u, "tab", "page", C)
  <2> HIDE DEF u
  <2> QED
    BY <1>3, <1>9, <1>10, <1>11, PlaceFacts DEF Move
<1> QED
  BY <1>1, <1>12

LEMMA RefusedMove ==
    ASSUME IInv, NEW C, C \subseteq Urls, NEW i \in IPs, FetchRefused(i)
    PROVE  Head(tab[i]) \in Urls /\ Move(Head(tab[i]), "tab", "over", C)
<1> DEFINE u == Head(tab[i])
<1>1. /\ u \in Urls /\ SlotOf[HostOf[u]] \in Slots /\ tab[i] # <<>>
  BY FetchHead DEF FetchRefused
<1>2. /\ tab' = [tab EXCEPT ![i] = Tail(@)]
      /\ nburls' = [nburls EXCEPT ![SlotOf[HostOf[u]]] = @ - 1]
      /\ interPos' = interPos - 1 /\ debUrl' = debUrl - 1
      /\ reported' = [reported EXCEPT ![u] = @ + 1]
  BY DEF FetchRefused, GetUrl, Report
<1>3. UNCHANGED <<queueVars, space, fifo, parser, accepted>>
  BY DEF FetchRefused
<1>5. One(u, C) \in {0, 1}
  BY OneType
<1>6. Tabs(C)' = Tabs(C) - One(u, C)
  BY <1>1, <1>2, TabTail
<1>8. Mem(C)' = Mem(C) /\ Disk(C)' = Disk(C) /\ Rings(C)' = Rings(C)
      /\ Fetched(C)' = Fetched(C)
  BY <1>3 DEF queueVars, Mem, Disk, Rings, Fetched
<1>9. CountsMove(u, "tab", "over", C)
  <2> HIDE DEF u
  <2> QED
    BY <1>5, <1>6, <1>8, CountTypes DEF CountsMove, Gain
<1>10. nburls' = [nburls EXCEPT ![SlotOf[HostOf[u]]] = @ + 0 - 1]
  <2>1. nburls[SlotOf[HostOf[u]]] - 1 = nburls[SlotOf[HostOf[u]]] + 0 - 1
    BY <1>1, CounterTypes
  <2> QED
    BY <1>2, <2>1, Zenon
<1>11. /\ debUrl' = debUrl + 0 - 1
       /\ interPos' - space' = interPos - space + 0 - 1
  <2>1. debUrl \in Int /\ interPos \in Int /\ space \in Int
    BY CounterTypes
  <2>2. debUrl' = debUrl - 1 /\ interPos' = interPos - 1 /\ space' = space
    BY <1>2, <1>3
  <2> QED
    BY ONLY <2>1, <2>2
<1>12. Move(u, "tab", "over", C)
  <2> HIDE DEF u
  <2> QED
    BY <1>2, <1>3, <1>9, <1>10, <1>11, PlaceFacts DEF Move
<1> QED
  BY <1>1, <1>12

LEMMA ScanKeepMove ==
    ASSUME IInv, NEW C, NEW s \in Slots, ScanKeep(s)
    PROVE  NoMove(C)
<1>1. fifo' = [fifo EXCEPT ![s] = Append(Tail(@), Head(fifo[s]))] /\ fifo[s] # <<>>
  BY ScanHead DEF ScanKeep
<1>2. UNCHANGED <<queueVars, space, interPos, accepted, reported, debUrl, nburls, tab, parser>>
  BY DEF ScanKeep, Scanned, ipVars, connVars
<1>3. Rings(C)' = Rings(C)
  BY <1>1, RingRotate
<1> QED
  BY <1>2, <1>3 DEF NoMove, queueVars, Mem, Disk, Tabs, Fetched

LEMMA ScanForgetMove ==
    ASSUME IInv, NEW C, NEW s \in Slots, ScanForget(s),
           SlotOf[HostOf[Head(fifo[s])]] = s
    PROVE  Head(fifo[s]) \in Urls /\ Move(Head(fifo[s]), "ring", "over", C)
<1> DEFINE u == Head(fifo[s])
<1>1. u \in Urls /\ fifo[s] # <<>>
  BY ScanHead DEF ScanForget
<1>2. /\ fifo' = [fifo EXCEPT ![s] = Tail(@)]
      /\ nburls' = [nburls EXCEPT ![s] = nburls[s] - 1]
      /\ interPos' = interPos - 1 /\ debUrl' = debUrl - 1
      /\ reported' = [reported EXCEPT ![u] = @ + 1]
  BY DEF ScanForget, ForgetUrl, Report
<1>3. UNCHANGED <<queueVars, space, tab, parser, accepted>>
  BY DEF ScanForget, Scanned, ipVars, connVars
<1>5. One(u, C) \in {0, 1}
  BY OneType
<1>6. Rings(C)' = Rings(C) - One(u, C)
  BY <1>1, <1>2, RingTail
<1>8. Mem(C)' = Mem(C) /\ Disk(C)' = Disk(C) /\ Tabs(C)' = Tabs(C)
      /\ Fetched(C)' = Fetched(C)
  BY <1>3 DEF queueVars, Mem, Disk, Tabs, Fetched
<1>9. CountsMove(u, "ring", "over", C)
  <2> HIDE DEF u
  <2> QED
    BY <1>5, <1>6, <1>8, CountTypes DEF CountsMove, Gain
<1>10. nburls' = [nburls EXCEPT ![SlotOf[HostOf[u]]] = @ + 0 - 1]
  <2>1. nburls[s] - 1 = nburls[s] + 0 - 1
    BY CounterTypes
  <2> QED
    BY <1>2, <2>1, Zenon
<1>11. /\ debUrl' = debUrl + 0 - 1
       /\ interPos' - space' = interPos - space + 0 - 1
  <2>1. debUrl \in Int /\ interPos \in Int /\ space \in Int
    BY CounterTypes
  <2>2. debUrl' = debUrl - 1 /\ interPos' = interPos - 1 /\ space' = space
    BY <1>2, <1>3
  <2> QED
    BY ONLY <2>1, <2>2
<1>12. Move(u, "ring", "over", C)
  <2> HIDE DEF u
  <2> QED
    BY <1>2, <1>3, <1>9, <1>10, <1>11, PlaceFacts DEF Move
<1> QED
  BY <1>1, <1>12

LEMMA ScanTransferMove ==
    ASSUME IInv, NEW C, NEW s \in Slots, ScanTransfer(s)
    PROVE  Head(fifo[s]) \in Urls /\ Move(Head(fifo[s]), "ring", "tab", C)
<1> DEFINE u == Head(fifo[s])
<1>1. u \in Urls /\ fifo[s] # <<>> /\ ipHash[s] \in IPs
  BY ScanHead DEF ScanTransfer, IInv, Resolved
<1>2. /\ fifo' = [fifo EXCEPT ![s] = Tail(@)]
      /\ tab' = [tab EXCEPT ![ipHash[s]] = Append(@, u)]
  BY DEF ScanTransfer, Transfer, PutUrl
<1>3. UNCHANGED <<queueVars, space, interPos, parser, accepted, reported, debUrl, nburls>>
  BY DEF ScanTransfer, Scanned, connVars
<1>5. One(u, C) \in {0, 1}
  BY OneType
<1>6. Rings(C)' = Rings(C) - One(u, C) /\ Tabs(C)' = Tabs(C) + One(u, C)
  BY <1>1, <1>2, RingTail, TabAppend
<1>8. Mem(C)' = Mem(C) /\ Disk(C)' = Disk(C) /\ Fetched(C)' = Fetched(C)
  BY <1>3 DEF queueVars, Mem, Disk, Fetched
<1>9. CountsMove(u, "ring", "tab", C)
  <2> HIDE DEF u
  <2> QED
    BY <1>5, <1>6, <1>8, CountTypes DEF CountsMove, Gain
<1>10. nburls' = [nburls EXCEPT ![SlotOf[HostOf[u]]] = @ + 1 - 1]
  <2>1. nburls \in [Slots -> Int] /\ SlotOf[HostOf[u]] \in Slots
    BY <1>1, CounterTypes, UrlParts
  <2>2. nburls[SlotOf[HostOf[u]]] + 1 - 1 = nburls[SlotOf[HostOf[u]]]
    BY <2>1
  <2> QED
    BY <1>3, <2>1, <2>2, Zenon
<1>11. /\ debUrl' = debUrl + 1 - 1
       /\ interPos' - space' = interPos - space + 1 - 1
  BY <1>3, CounterTypes
<1>12. Move(u, "ring", "tab", C)
  <2> HIDE DEF u
  <2> QED
    BY <1>3, <1>9, <1>10, <1>11, PlaceFacts DEF Move
<1> QED
  BY <1>1, <1>12

LEMMA PageEndMove ==
    ASSUME IInv, NEW C, C \subseteq Urls, PageEnd
    PROVE  parser[ci] \in Urls /\ Move(parser[ci], "page", "over", C)
<1> DEFINE u == parser[ci]
<1>1. u \in Urls /\ ci \in Conns
  BY DEF PageEnd, AtConn, IInv, TypeOK, ControlOK, Conns
<1>2. /\ parser' = [parser EXCEPT ![ci] = None]
      /\ debUrl' = debUrl - 2
      /\ reported' = [reported EXCEPT ![u] = @ + 1]
  BY DEF PageEnd, Report, HereAndBase
<1>3. UNCHANGED <<queueVars, space, interPos, fifo, tab, accepted, nburls>>
  BY DEF PageEnd, intervalVars, siteVars, ipVars
<1>5. One(None, C) = 0 /\ One(u, C) \in {0, 1}
  BY NotCounted, OneType
<1>7. Fetched(C)' = Fetched(C) + 0 - One(u, C)
  BY <1>1, <1>2, <1>5, ParserChange
<1>8. Mem(C)' = Mem(C) /\ Disk(C)' = Disk(C) /\ Rings(C)' = Rings(C) /\ Tabs(C)' = Tabs(C)
  BY <1>3 DEF queueVars, Mem, Disk, Rings, Tabs
<1>9. CountsMove(u, "page", "over", C)
  <2> HIDE DEF u
  <2> QED
    BY <1>5, <1>7, <1>8, CountTypes DEF CountsMove, Gain
<1>10. nburls' = [nburls EXCEPT ![SlotOf[HostOf[u]]] = @ + 0 - 0]
  BY <1>1, <1>3, SameLoad
<1>11. /\ debUrl' = debUrl + 0 - 2
       /\ interPos' - space' = interPos - space + 0 - 0
  BY <1>2, <1>3, CounterTypes
<1>12. Move(u, "page", "over", C)
  <2> HIDE DEF u
  <2> QED
    BY <1>2, <1>3, <1>9, <1>10, <1>11, PlaceFacts DEF Move
<1> QED
  BY <1>1, <1>12

Moved(C) == NoMove(C) \/ \E u \in Urls, p \in Places, q \in Others : Move(u, p, q, C)

\* A connection taken for a robots.txt, or given back after it, has no url.
LEMMA ParserMove ==
    ASSUME IInv, NEW C, C \subseteq Urls, NEW c \in Conns, parser[c] \notin Urls,
           NEW x \in Slots \cup {None}, parser' = [parser EXCEPT ![c] = x],
           UNCHANGED <<queueVars, interPos, space, fifo, tab, accepted, reported,
                       debUrl, nburls>>
    PROVE  NoMove(C)
<1>1. parser[c] \in Slots \cup {None}
  BY ListTypes
<1>2. One(x, C) = 0 /\ One(parser[c], C) = 0
  BY <1>1, NotCounted
<1>3. Fetched(C)' = Fetched(C) + 0 - 0
  BY <1>2, ParserChange
<1> QED
  BY <1>3, CountTypes DEF NoMove, queueVars, Mem, Disk, Rings, Tabs

LEMMA DnsMove ==
    ASSUME IInv, NEW C, C \subseteq Urls, NEW s \in Slots, freeConns # <<>>,
           DnsOK(s) \/ UNCHANGED connVars,
           UNCHANGED <<queueVars, interPos, space, fifo, tab, accepted, reported,
                       debUrl, nburls>>
    PROVE  NoMove(C)
<1>1. CASE UNCHANGED parser
  BY <1>1 DEF NoMove, queueVars, Mem, Disk, Rings, Tabs, Fetched
<1>2. CASE parser' = [parser EXCEPT ![Head(freeConns)] = s]
  BY <1>2, FreeConn, ParserMove, NoneAssumption
<1> QED
  BY <1>1, <1>2 DEF DnsOK, connVars

LEMMA ScanEndMove ==
    ASSUME IInv, NEW C, C \subseteq Urls, NEW s \in Slots, ScanEnd(s)
    PROVE  NoMove(C)
<1>1. UNCHANGED <<queueVars, interPos, space, fifo, tab, accepted, reported, debUrl, nburls>>
  BY DEF ScanEnd, intervalVars, ipVars, statVars
<1>2. CASE UNCHANGED parser
  BY <1>1, <1>2 DEF NoMove, queueVars, Mem, Disk, Rings, Tabs, Fetched
<1>3. CASE pc \in {"timeouts", "checkAll"} /\ parser' = [parser EXCEPT ![ci] = None]
  <2>1. ci \in Conns /\ parser[ci] = s
    BY <1>3, NoneAssumption DEF ScanEnd, IInv, ScanBounded
  <2>2. parser[ci] \notin Urls
    BY <2>1, ParserAssumption
  <2> QED
    BY <1>1, <1>3, <2>1, <2>2, ParserMove
<1> QED
  BY <1>2, <1>3 DEF ScanEnd, connVars

LEMMA OneMove ==
    ASSUME IInv, RingsSorted, [Next]_vars, pc' # "aborted", NEW C, C \subseteq Urls
    PROVE  Moved(C)
<1>1. CASE UNCHANGED vars \/ \E d \in Gaps : Cron(d)
  <2>1. UNCHANGED CountedVars
    BY <1>1 DEF vars, Cron, CountedVars, queueVars, intervalVars, siteVars, ipVars,
                connVars, statVars
  <2> QED
    BY <2>1, StillNoMove DEF Moved
<1>2. CASE SkipCron \/ CronTail \/ SeqEnd \/ SeqNone
  <2>1. UNCHANGED CountedVars
    BY <1>2 DEF SkipCron, CronTail, SeqEnd, SeqNone, NoPriority, CountedVars, queueVars,
                intervalVars, siteVars, ipVars, connVars, statVars
  <2> QED
    BY <2>1, StillNoMove DEF Moved
<1>3. CASE SubmitEnd \/ ReadEnd \/ OpenEnd \/ CheckEnd \/ NextConn \/ Open \/ RobotsEnd
           \/ (\E s \in Slots : ReadCname(s)) \/ Terminated
  <2>1. CASE SubmitEnd \/ ReadEnd \/ OpenEnd \/ CheckEnd \/ NextConn
    <3>1. UNCHANGED CountedVars
      BY <2>1 DEF SubmitEnd, ReadEnd, OpenEnd, CheckEnd, NextConn, Goto, CountedVars,
                  queueVars, intervalVars, siteVars, ipVars, connVars, statVars
    <3> QED
      BY <3>1, StillNoMove DEF Moved
  <2>2. CASE Open \/ RobotsEnd \/ (\E s \in Slots : ReadCname(s)) \/ Terminated
    <3>1. CASE Open \/ Terminated
      <4>1. UNCHANGED CountedVars
        BY <3>1 DEF Open, Terminated, vars, CountedVars, queueVars, intervalVars,
                    siteVars, ipVars, connVars, statVars
      <4> QED
        BY <4>1, StillNoMove DEF Moved
    <3>2. CASE RobotsEnd
      <4>1. UNCHANGED <<queueVars, intervalVars>>
        BY <3>2 DEF RobotsEnd, AtConn, RobotsResult, StartScan
      <4>2. UNCHANGED <<nburls, fifo, ipVars, connVars, statVars>>
        BY <3>2 DEF RobotsEnd
      <4>3. UNCHANGED CountedVars
        BY <4>1, <4>2 DEF CountedVars, queueVars, intervalVars, ipVars, connVars, statVars
      <4> QED
        BY <4>3, StillNoMove DEF Moved
    <3>3. CASE \E s \in Slots : ReadCname(s)
      <4>1. UNCHANGED CountedVars
        BY <3>3 DEF ReadCname, DnsCname, CountedVars, queueVars, intervalVars, ipVars,
                    connVars, statVars
      <4> QED
        BY <4>1, StillNoMove DEF Moved
    <3> QED
      BY <2>2, <3>1, <3>2, <3>3
  <2> QED
    BY <1>3, <2>1, <2>2
<1>4. CASE Sequencer
  <2>1. UNCHANGED <<queueVars, siteVars, ipVars, connVars, statVars>>
    BY <1>4 DEF Sequencer
  <2>2. interPos' - space' = interPos - space
    BY <1>4, CounterTypes, SizesAssumption DEF Sequencer
  <2>3. NoMove(C)
    BY <2>1, <2>2 DEF NoMove, Mem, Disk, Rings, Tabs, Fetched, queueVars, siteVars,
                      ipVars, connVars, statVars
  <2> QED
    BY <2>3 DEF Moved
<1>5. CASE (\E v \in InputUrls, prio \in BOOLEAN, test \in InputTests : InputUrl(v, prio, test))
           \/ \E v \in LinkedUrls : PageLink(v)
  <2>1. CASE \E v \in InputUrls, prio \in BOOLEAN, test \in InputTests : InputUrl(v, prio, test)
    <3>1. PICK v \in InputUrls, prio \in BOOLEAN : Enter(v, prio)
      BY <2>1 DEF InputUrl
    <3>2. Move(v, "new", "mem", C) \/ Move(v, "new", "disk", C)
      BY <3>1, EnterMove, UrlsAssumption
    <3> QED
      BY <3>2, UrlsAssumption DEF Moved, Places, Others
  <2>2. CASE \E v \in LinkedUrls : PageLink(v)
    <3>1. PICK v \in LinkedUrls : PageLink(v)
      BY <2>2
    <3>2. Enter(v, v \in Privileged) /\ v \in Urls /\ (v \in Privileged) \in BOOLEAN
      BY <3>1, UrlsAssumption DEF PageLink
    <3>3. Move(v, "new", "mem", C) \/ Move(v, "new", "disk", C)
      BY <3>2, EnterMove
    <3> QED
      BY <3>2, <3>3 DEF Moved, Places, Others
  <2> QED
    BY <1>5, <2>1, <2>2
<1>6. CASE SeqPriorityWait \/ SeqPriority \/ SeqDiskWait \/ SeqDisk
  BY <1>6, SeqMove DEF Moved
<1>7. CASE Submit
  <2> DEFINE s == Head(dnsSites)
  <2>1. s \in Slots /\ freeConns # <<>>
    BY <1>7, SubmitHead DEF Submit, Idle, MaySubmit
  <2>2. DnsOK(s) \/ UNCHANGED connVars
    BY <1>7 DEF Submit, NewQuery, DnsError
  <2>3. UNCHANGED <<queueVars, interPos, space, fifo, tab, accepted, reported, debUrl, nburls>>
    BY <1>7 DEF Submit, NewQuery, intervalVars, ipVars, statVars
  <2>4. NoMove(C)
    BY <2>1, <2>2, <2>3, DnsMove
  <2> QED
    BY <2>4 DEF Moved
<1>8. CASE \E s \in Slots : ReadAns(s)
  <2>1. PICK s \in Slots : ReadAns(s)
    BY <1>8
  <2>2. freeConns # <<>> /\ \E a \in Addrs \cup {None} : DnsAns(s, a)
    BY <2>1 DEF ReadAns, MayRead
  <2>3. DnsOK(s) \/ UNCHANGED connVars
    BY <2>2 DEF DnsAns, DnsError
  <2>4. UNCHANGED <<queueVars, interPos, space, fifo, tab, accepted, reported, debUrl, nburls>>
    BY <2>2 DEF DnsAns, intervalVars, ipVars, statVars
  <2>5. NoMove(C)
    BY <2>2, <2>3, <2>4, DnsMove
  <2> QED
    BY <2>5 DEF Moved
<1>9. CASE Fetch
  <2>1. PICK i \in IPs : FetchEmpty(i) \/ FetchEarly(i) \/ FetchConnect(i) \/ FetchRefused(i)
    BY <1>9 DEF Fetch
  <2>2. CASE FetchEmpty(i) \/ FetchEarly(i)
    <3>1. UNCHANGED CountedVars
      BY <2>2 DEF FetchEmpty, FetchEarly, CountedVars, queueVars, intervalVars, siteVars,
                  connVars, statVars
    <3> QED
      BY <3>1, StillNoMove DEF Moved
  <2>3. CASE FetchConnect(i)
    BY <2>3, ConnectMove DEF Moved, Places, Others
  <2>4. CASE FetchRefused(i)
    BY <2>4, RefusedMove DEF Moved, Places, Others
  <2> QED
    BY <2>1, <2>2, <2>3, <2>4
<1>10. CASE Scan
  <2>1. PICK s \in Slots : ScanKeep(s) \/ ScanForget(s) \/ ScanTransfer(s) \/ ScanEnd(s)
    BY <1>10 DEF Scan
  <2>2. CASE ScanKeep(s)
    BY <2>2, ScanKeepMove DEF Moved
  <2>3. CASE ScanForget(s)
    <3>1. fifo[s] \in Seq(Of(s)) /\ fifo[s] # <<>>
      BY <2>3, ScanHead DEF ScanForget, RingsSorted
    <3>2. SlotOf[HostOf[Head(fifo[s])]] = s
      BY <3>1, TailRange DEF Of
    <3> QED
      BY <2>3, <3>2, ScanForgetMove DEF Moved, Places, Others
  <2>4. CASE ScanTransfer(s)
    BY <2>4, ScanTransferMove DEF Moved, Places, Others
  <2>5. CASE ScanEnd(s)
    BY <2>5, ScanEndMove DEF Moved
  <2> QED
    BY <2>1, <2>2, <2>3, <2>4, <2>5
<1>11. CASE PageEnd
  BY <1>11, PageEndMove DEF Moved, Places, Others
<1> QED
  BY <1>1, <1>2, <1>3, <1>4, <1>5, <1>6, <1>7, <1>8, <1>9, <1>10, <1>11 DEF Next, Step
-----------------------------------------------------------------------------
(***************************************************************************)
(* The invariant the counters are part of.                                 *)
(***************************************************************************)
Total(C) == Mem(C) + Disk(C) + Rings(C) + Tabs(C) + Fetched(C)

\* A call of fetch or a scan is over when its caller returns.
CallsReturn == pc \in {"loop", "input", "stopped", "aborted"} => Idle

Conserved == \A u \in Urls : accepted[u] = Total({u}) + reported[u]
Loads == \A s \in Slots : nburls[s] = Rings(Of(s)) + Tabs(Of(s))
Balanced == interPos - space = SumFunction(nburls)
ObjectsCounted == debUrl = Mem(Urls) + Rings(Urls) + Tabs(Urls) + 2 * Fetched(Urls)

SpaceBounds == /\ 0 <= still /\ still <= space /\ space <= interPos
               /\ interPos <= RamUrls

CInv == /\ RingsSorted /\ CallsReturn /\ SpaceBounds
        /\ pc # "aborted" => Conserved /\ Loads /\ Balanced /\ ObjectsCounted

\* A program that stopped or was aborted does nothing.
LEMMA HaltedStays ==
    ASSUME IInv, CallsReturn, [Next]_vars, pc \in {"stopped", "aborted"}
    PROVE  UNCHANGED vars
<1>1. scanSite = None /\ fetching = None
  BY DEF CallsReturn, Idle
<1>2. \A s \in Slots : s # None
  BY NoneAssumption
<1>3. \A i \in IPs : i # None
  BY NoneAssumption
<1>4. ~Scan
  BY <1>1, <1>2 DEF Scan, ScanKeep, ScanForget, ScanTransfer, ScanEnd, Scanned
<1>5. ~Fetch
  BY <1>1, <1>3 DEF Fetch, FetchEmpty, FetchEarly, FetchConnect, FetchRefused
<1>6. ~(SeqPriorityWait \/ SeqPriority \/ SeqDiskWait \/ SeqDisk \/ SeqNone \/ SeqEnd)
  BY DEF SeqPriorityWait, SeqPriority, SeqDiskWait, SeqDisk, SeqNone, NoPriority,
         Sequencing, SeqEnd
<1>7. ~(SkipCron \/ CronTail \/ Sequencer \/ Submit \/ SubmitEnd \/ ReadEnd \/ Open
        \/ OpenEnd \/ NextConn \/ PageEnd \/ RobotsEnd \/ CheckEnd)
  BY DEF SkipCron, CronTail, Sequencer, Submit, SubmitEnd, ReadEnd, Open, OpenEnd,
         NextConn, PageEnd, RobotsEnd, CheckEnd, AtConn
<1>8. /\ \A s \in Slots : ~ReadCname(s) /\ ~ReadAns(s)
      /\ \A d \in Gaps : ~Cron(d)
      /\ \A v \in LinkedUrls : ~PageLink(v)
      /\ \A v \in InputUrls, prio \in BOOLEAN, test \in InputTests : ~InputUrl(v, prio, test)
  BY DEF ReadCname, ReadAns, MayRead, Cron, PageLink, AtConn, InputUrl
<1> QED
  BY <1>4, <1>5, <1>6, <1>7, <1>8 DEF Next, Step, Terminated

\* A ring gets an url of its slot from the sequencer, or a scan takes its head.
LEMMA RingsStep ==
    ASSUME IInv, RingsSorted, [Next]_vars
    PROVE  RingsSorted'
<1>1. fifo \in [Slots -> Seq(Urls)] /\ \A t \in Slots : fifo[t] \in Seq(Of(t))
  BY ListTypes DEF RingsSorted
<1>2. CASE UNCHANGED fifo
  BY <1>1, <1>2 DEF RingsSorted
<1>3. CASE SeqPriorityWait \/ SeqPriority \/ SeqDiskWait \/ SeqDisk
  <2>1. PICK u \in Urls, limit \in Nat, prio \in BOOLEAN, pw \in Seq(Urls),
             dw \in Seq(Urls), born \in {0, 1} :
                 PutGenericUrl(u, limit, prio, pw, dw, born)
    BY <1>3, SeqPut
  <2>2. PICK s \in Slots : s = SlotOf[HostOf[u]]
    BY UrlParts
  <2>3. UNCHANGED fifo \/ QueueUrl(s, u)
    BY <2>1, <2>2, PutBranches
  <2>4. CASE fifo' = [fifo EXCEPT ![s] = Append(@, u)]
    <3>1. u \in Of(s)
      BY <2>2 DEF Of
    <3>2. Append(fifo[s], u) \in Seq(Of(s))
      BY <1>1, <3>1
    <3> QED
      BY <1>1, <2>4, <3>2 DEF RingsSorted
  <2> QED
    BY <1>2, <2>3, <2>4 DEF QueueUrl
<1>4. ASSUME NEW s \in Slots, ScanKeep(s) \/ ScanForget(s) \/ ScanTransfer(s)
      PROVE  RingsSorted'
  <2>1. fifo[s] # <<>> /\ fifo[s] \in Seq(Of(s))
    BY <1>1, <1>4, ScanHead DEF ScanKeep, ScanForget, ScanTransfer
  <2>2. /\ Head(fifo[s]) \in Of(s) /\ Tail(fifo[s]) \in Seq(Of(s))
        /\ Append(Tail(fifo[s]), Head(fifo[s])) \in Seq(Of(s))
    BY <2>1, TailRange
  <2>3. \/ fifo' = [fifo EXCEPT ![s] = Tail(@)]
        \/ fifo' = [fifo EXCEPT ![s] = Append(Tail(@), Head(fifo[s]))]
    BY <1>4 DEF ScanKeep, ScanForget, ScanTransfer
  <2> QED
    BY <1>1, <2>2, <2>3 DEF RingsSorted
<1>5. CASE \/ SkipCron \/ CronTail \/ Sequencer \/ SeqNone \/ SeqEnd
           \/ SubmitEnd \/ ReadEnd \/ OpenEnd \/ CheckEnd
           \/ NextConn \/ Open \/ PageEnd \/ RobotsEnd \/ Submit
           \/ (\E d \in Gaps : Cron(d))
  BY <1>2, <1>5 DEF SkipCron, CronTail, Sequencer, SeqNone, SeqEnd, SubmitEnd, ReadEnd,
     OpenEnd, CheckEnd, NextConn, Goto, Open, PageEnd, RobotsEnd, Submit, NewQuery, Cron,
     siteVars
<1>6. CASE (\E v \in InputUrls, prio \in BOOLEAN, test \in InputTests : InputUrl(v, prio, test))
           \/ \E v \in LinkedUrls : PageLink(v)
  BY <1>2, <1>6 DEF InputUrl, PageLink, Enter, siteVars
<1>7. CASE Fetch
  BY <1>2, <1>7 DEF Fetch, FetchEmpty, FetchEarly, FetchConnect, FetchRefused, siteVars
<1>8. CASE \E s \in Slots : ReadCname(s) \/ ReadAns(s) \/ ScanEnd(s)
  BY <1>2, <1>8 DEF ReadCname, DnsCname, ReadAns, DnsAns, ScanEnd
<1>9. CASE Terminated \/ UNCHANGED vars
  BY <1>2, <1>9 DEF Terminated, vars, siteVars
<1> QED
  BY <1>3, <1>4, <1>5, <1>6, <1>7, <1>8, <1>9 DEF Next, Step, Scan

\* The phases follow each other only when nothing of a call is left to do.
LEMMA CallsReturnStep ==
    ASSUME IInv, CallsReturn, [Next]_vars
    PROVE  CallsReturn'
<1> USE DEF CallsReturn, Idle
<1>1. CASE SeqPriorityWait \/ SeqPriority \/ SeqDiskWait \/ SeqDisk
  <2>1. PICK u \in Urls, limit \in Nat, prio \in BOOLEAN, pw \in Seq(Urls),
             dw \in Seq(Urls), born \in {0, 1} :
                 PutGenericUrl(u, limit, prio, pw, dw, born)
    BY <1>1, SeqPut
  <2>2. pc = "sequencer" /\ scanSite = None /\ fetching = None /\ UNCHANGED scanSite
    BY <1>1, SeqPut DEF Sequencing, Sequenced
  <2>3. UNCHANGED pc \/ UNCHANGED fetching
    BY <2>1 DEF PutGenericUrl
  <2> QED
    BY <2>2, <2>3
<1>2. CASE \/ SkipCron \/ CronTail \/ Sequencer \/ SeqEnd \/ NextConn \/ CheckEnd
           \/ (\E d \in Gaps : Cron(d))
  BY <1>2 DEF SkipCron, CronTail, Sequencer, SeqEnd, NextConn, CheckEnd, Cron
<1>3. CASE SeqNone \/ SubmitEnd \/ ReadEnd \/ OpenEnd \/ Open \/ PageEnd \/ RobotsEnd \/ Submit
  BY <1>3 DEF SeqNone, NoPriority, Sequencing, SubmitEnd, ReadEnd, OpenEnd, Goto, Open, PageEnd, AtConn,
     RobotsEnd, Submit, NewQuery, controlVars
<1>4. CASE (\E v \in InputUrls, prio \in BOOLEAN, test \in InputTests : InputUrl(v, prio, test))
           \/ \E v \in LinkedUrls : PageLink(v)
  BY <1>4 DEF InputUrl, PageLink, controlVars
<1>5. CASE Fetch
  <2>1. UNCHANGED <<pc, scanSite>> /\ (UNCHANGED fetching \/ fetching' = None)
    BY <1>5 DEF Fetch, FetchEmpty, FetchEarly, FetchConnect, FetchRefused, controlVars
  <2> QED
    BY <2>1
<1>6. CASE \E s \in Slots : ReadCname(s) \/ ReadAns(s)
  BY <1>6 DEF ReadCname, DnsCname, ReadAns, DnsAns, MayRead, controlVars
<1>7. CASE Scan
  <2>1. PICK s \in Slots : ScanKeep(s) \/ ScanForget(s) \/ ScanTransfer(s) \/ ScanEnd(s)
    BY <1>7 DEF Scan
  <2>2. scanSite = s /\ UNCHANGED pc
    BY <2>1 DEF ScanKeep, ScanForget, ScanTransfer, ScanEnd, Scanned
  <2>3. s # None
    BY NoneAssumption
  <2> QED
    BY <2>2, <2>3
<1>8. CASE Terminated \/ UNCHANGED vars
  BY <1>8 DEF Terminated, vars, controlVars
<1> QED
  BY <1>1, <1>2, <1>3, <1>4, <1>5, <1>6, <1>7, <1>8 DEF Next, Step

\* The sequencer takes what space allows, and nothing else takes of it.
LEMMA SpaceStep ==
    ASSUME IInv, SpaceBounds, [Next]_vars
    PROVE  /\ 0 <= still' /\ still' <= space' /\ interPos' <= RamUrls
           /\ pc' = "aborted" => space' <= interPos' \/ pc = "aborted"
<1>0. interPos \in Int /\ space \in Int /\ still \in Int /\ RamUrls \in Nat
  BY CounterTypes, SizesAssumption
<1> USE DEF SpaceBounds
<1>1. CASE UNCHANGED intervalVars
  BY <1>0, <1>1 DEF intervalVars
<1>2. CASE Sequencer
  <2>1. MaxPerCall \in Nat
    BY SizesAssumption
  <2>2. pc' # "aborted"
    BY <1>2 DEF Sequencer
  <2>3. CASE space = 0
    BY <1>0, <1>2, <2>1, <2>2, <2>3 DEF Sequencer
  <2>4. CASE space # 0
    BY <1>0, <1>2, <2>1, <2>2, <2>4 DEF Sequencer
  <2> QED
    BY <2>3, <2>4
<1>3. CASE SeqPriorityWait \/ SeqPriority \/ SeqDiskWait \/ SeqDisk
  <2>1. PICK u \in Urls, limit \in Nat, prio \in BOOLEAN, pw \in Seq(Urls),
             dw \in Seq(Urls), born \in {0, 1} :
                 PutGenericUrl(u, limit, prio, pw, dw, born)
    BY <1>3, SeqPut
  <2>2. still > 0 /\ still' = still - 1 /\ space' = space - 1 /\ pc = "sequencer"
    BY <1>3, SeqPut DEF Sequencing, Sequenced
  <2>3. \/ interPos' = interPos
        \/ interPos' = interPos - 1
    BY <2>1 DEF PutGenericUrl, ForgetUrl
  <2> QED
    BY <1>0, <2>2, <2>3
<1>4. CASE SeqNone \/ SeqEnd
  <2>1. (still' = 0 \/ still' = still) /\ UNCHANGED <<space, interPos>>
    BY <1>4 DEF SeqNone, SeqEnd
  <2> QED
    BY <1>0, <2>1
<1>5. ASSUME NEW i \in IPs, FetchConnect(i) \/ FetchRefused(i)
      PROVE  /\ 0 <= still' /\ still' <= space' /\ interPos' <= RamUrls
             /\ pc' = "aborted" => space' <= interPos' \/ pc = "aborted"
  <2>1. UNCHANGED <<still, space, pc>> /\ interPos' = interPos - 1
    BY <1>5 DEF FetchConnect, FetchRefused, GetUrl, controlVars
  <2> QED
    BY <1>0, <2>1
<1>6. ASSUME NEW s \in Slots, ScanKeep(s) \/ ScanForget(s) \/ ScanTransfer(s)
      PROVE  /\ 0 <= still' /\ still' <= space' /\ interPos' <= RamUrls
             /\ pc' = "aborted" => space' <= interPos' \/ pc = "aborted"
  <2>1. UNCHANGED <<still, space, pc>> /\ (interPos' = interPos - 1 \/ interPos' = interPos)
    BY <1>6 DEF ScanKeep, ScanForget, ScanTransfer, Scanned, ForgetUrl
  <2> QED
    BY <1>0, <2>1
<1>7. CASE \/ SkipCron \/ CronTail \/ SubmitEnd \/ ReadEnd \/ OpenEnd \/ CheckEnd
           \/ NextConn \/ Open \/ PageEnd \/ RobotsEnd \/ Submit
           \/ (\E d \in Gaps : Cron(d))
  BY <1>1, <1>7 DEF SkipCron, CronTail, SubmitEnd, ReadEnd,
     OpenEnd, CheckEnd, NextConn, Goto, Open, PageEnd, RobotsEnd, Submit, NewQuery, Cron
<1>8. CASE (\E v \in InputUrls, prio \in BOOLEAN, test \in InputTests : InputUrl(v, prio, test))
           \/ \E v \in LinkedUrls : PageLink(v)
  BY <1>1, <1>8 DEF InputUrl, PageLink, Enter
<1>9. CASE (\E i \in IPs : FetchEmpty(i) \/ FetchEarly(i))
           \/ (\E s \in Slots : ReadCname(s) \/ ReadAns(s) \/ ScanEnd(s))
  BY <1>1, <1>9 DEF FetchEmpty, FetchEarly, ReadCname, DnsCname, ReadAns, DnsAns, ScanEnd
<1>10. CASE Terminated \/ UNCHANGED vars
  BY <1>1, <1>10 DEF Terminated, vars
<1> QED
  BY <1>2, <1>3, <1>4, <1>5, <1>6, <1>7, <1>8, <1>9, <1>10 DEF Next, Step, Scan, Fetch

\* What a move makes of the copies of an url, and of the urls at a place.
LEMMA MoveTotal ==
    ASSUME IInv, NEW C, NEW u, NEW p \in Places, NEW q \in Others, Move(u, p, q, C)
    PROVE  Total(C)' = Total(C) + (IF p = "new" THEN One(u, C) ELSE 0)
                                - (IF q = "over" THEN One(u, C) ELSE 0)
<1>1. /\ Mem(C) \in Nat /\ Disk(C) \in Nat /\ Rings(C) \in Nat
      /\ Tabs(C) \in Nat /\ Fetched(C) \in Nat /\ One(u, C) \in {0, 1}
  BY CountTypes, OneType
<1>2. CountsMove(u, p, q, C)
  BY DEF Move
<1>3. Total(C)' = Mem(C)' + Disk(C)' + Rings(C)' + Tabs(C)' + Fetched(C)'
  BY DEF Total
<1>4. Gain(u, p, q, "mem", C) + Gain(u, p, q, "disk", C) + Gain(u, p, q, "ring", C)
      + Gain(u, p, q, "tab", C) + Gain(u, p, q, "page", C)
      = (IF q = "over" THEN 0 ELSE One(u, C)) - (IF p = "new" THEN 0 ELSE One(u, C))
  BY <1>1 DEF Gain, Places, Others
<1>5. \A r \in {"mem", "disk", "ring", "tab", "page"} : Gain(u, p, q, r, C) \in Int
  BY <1>1 DEF Gain
<1>6. Total(C)' = Total(C) + ((IF q = "over" THEN 0 ELSE One(u, C))
                              - (IF p = "new" THEN 0 ELSE One(u, C)))
  <2> DEFINE gm == Gain(u, p, q, "mem", C)
             gd == Gain(u, p, q, "disk", C)
             gr == Gain(u, p, q, "ring", C)
             gt == Gain(u, p, q, "tab", C)
             gp == Gain(u, p, q, "page", C)
             g == (IF q = "over" THEN 0 ELSE One(u, C)) - (IF p = "new" THEN 0 ELSE One(u, C))
  <2>1. gm \in Int /\ gd \in Int /\ gr \in Int /\ gt \in Int /\ gp \in Int
        /\ gm + gd + gr + gt + gp = g
    BY <1>4, <1>5
  <2>2. Total(C)' = (Mem(C) + gm) + (Disk(C) + gd) + (Rings(C) + gr) + (Tabs(C) + gt)
                    + (Fetched(C) + gp)
    BY <1>2, <1>3 DEF CountsMove
  <2>3. Total(C) = Mem(C) + Disk(C) + Rings(C) + Tabs(C) + Fetched(C)
    BY DEF Total
  <2> HIDE DEF gm, gd, gr, gt, gp, g
  <2>4. Total(C)' = Total(C) + g
    BY <1>1, <2>1, <2>2, <2>3
  <2> QED
    BY <2>4 DEF g
<1>7. Total(C) \in Nat
  BY <1>1 DEF Total
<1> QED
  BY <1>1, <1>6, <1>7

LEMMA ConservedStep ==
    ASSUME IInv, RingsSorted, [Next]_vars, pc' # "aborted", Conserved
    PROVE  Conserved'
<1> SUFFICES ASSUME NEW v \in Urls PROVE accepted'[v] = Total({v})' + reported'[v]
  BY DEF Conserved
<1>1. accepted[v] = Total({v}) + reported[v]
  BY DEF Conserved
<1>2. Moved({v})
  BY OneMove
<1>3. /\ accepted \in [Urls -> Nat] /\ reported \in [Urls -> Nat] /\ Total({v}) \in Nat
  BY CounterTypes, CountTypes DEF Total
<1>4. CASE NoMove({v})
  <2>1. Total({v})' = Total({v}) /\ UNCHANGED <<accepted, reported>>
    BY <1>4 DEF NoMove, Total
  <2> QED
    BY <1>1, <2>1
<1>5. ASSUME NEW u \in Urls, NEW p \in Places, NEW q \in Others, Move(u, p, q, {v})
      PROVE  accepted'[v] = Total({v})' + reported'[v]
  <2>1. Total({v})' = Total({v}) + (IF p = "new" THEN One(u, {v}) ELSE 0)
                                 - (IF q = "over" THEN One(u, {v}) ELSE 0)
    BY <1>5, MoveTotal
  <2>2. accepted'[v] = accepted[v] + (IF p = "new" THEN One(u, {v}) ELSE 0)
    BY <1>3, <1>5 DEF Move, One
  <2>3. reported'[v] = reported[v] + (IF q = "over" THEN One(u, {v}) ELSE 0)
    BY <1>3, <1>5 DEF Move, One
  <2>4. One(u, {v}) \in {0, 1}
    BY OneType
  <2> QED
    BY <1>1, <1>3, <2>1, <2>2, <2>3, <2>4
<1> QED
  BY <1>2, <1>4, <1>5 DEF Moved

LEMMA LoadsStep ==
    ASSUME IInv, RingsSorted, [Next]_vars, pc' # "aborted", Loads
    PROVE  Loads'
<1> SUFFICES ASSUME NEW s \in Slots PROVE nburls'[s] = Rings(Of(s))' + Tabs(Of(s))'
  BY DEF Loads, Of
<1>1. nburls[s] = Rings(Of(s)) + Tabs(Of(s))
  BY DEF Loads
<1>2. Of(s) \subseteq Urls /\ Moved(Of(s))
  <2>1. Of(s) \subseteq Urls
    BY DEF Of
  <2> QED
    BY <2>1, OneMove
<1>3. nburls \in [Slots -> Int] /\ Rings(Of(s)) \in Nat /\ Tabs(Of(s)) \in Nat
  BY CounterTypes, CountTypes
<1>4. CASE NoMove(Of(s))
  BY <1>1, <1>4 DEF NoMove, Of
<1>5. ASSUME NEW u \in Urls, NEW p \in Places, NEW q \in Others, Move(u, p, q, Of(s))
      PROVE  nburls'[s] = Rings(Of(s))' + Tabs(Of(s))'
  <2>1. /\ Rings(Of(s))' = Rings(Of(s)) + Gain(u, p, q, "ring", Of(s))
        /\ Tabs(Of(s))' = Tabs(Of(s)) + Gain(u, p, q, "tab", Of(s))
    BY <1>5 DEF Move, CountsMove
  <2>2. PICK t \in Slots : t = SlotOf[HostOf[u]]
    BY UrlParts
  <2>3. nburls' = [nburls EXCEPT ![t] = @ + InSite(q) - InSite(p)]
    BY <1>5, <2>2 DEF Move
  <2>4. One(u, Of(s)) = IF s = t THEN 1 ELSE 0
    BY <2>2 DEF One, Of
  <2>5. InSite(q) \in {0, 1} /\ InSite(p) \in {0, 1}
    BY DEF InSite
  <2>6. CASE s # t
    <3>1. Gain(u, p, q, "ring", Of(s)) = 0 /\ Gain(u, p, q, "tab", Of(s)) = 0
      BY <2>4, <2>6 DEF Gain
    <3>2. nburls'[s] = nburls[s]
      BY <1>3, <2>3, <2>6
    <3> QED
      BY <1>1, <1>3, <2>1, <3>1, <3>2
  <2>7. CASE s = t
    <3>1. Gain(u, p, q, "ring", Of(s)) + Gain(u, p, q, "tab", Of(s)) = InSite(q) - InSite(p)
      BY <2>4, <2>7 DEF Gain, InSite
    <3>2. nburls'[s] = nburls[s] + InSite(q) - InSite(p)
      BY <1>3, <2>3, <2>7
    <3>3. Gain(u, p, q, "ring", Of(s)) \in Int /\ Gain(u, p, q, "tab", Of(s)) \in Int
      BY <2>4 DEF Gain
    <3> QED
      BY <1>1, <1>3, <2>1, <2>5, <3>1, <3>2, <3>3
  <2> QED
    BY <2>6, <2>7
<1> QED
  BY <1>2, <1>4, <1>5 DEF Moved

LEMMA BalancedStep ==
    ASSUME IInv, RingsSorted, [Next]_vars, pc' # "aborted", Balanced
    PROVE  Balanced'
<1>1. interPos - space = SumFunction(nburls)
  BY DEF Balanced
<1>2. Moved({})
  BY OneMove
<1>3. /\ nburls \in [Slots -> Int] /\ nburls' \in [Slots -> Int]
      /\ interPos \in Int /\ space \in Int
  BY CounterTypes, SitesStep DEF SitesOK
<1>4. CASE NoMove({})
  BY <1>1, <1>4 DEF NoMove, Balanced
<1>5. ASSUME NEW u \in Urls, NEW p \in Places, NEW q \in Others, Move(u, p, q, {})
      PROVE  interPos' - space' = SumFunction(nburls')
  <2>1. PICK t \in Slots : t = SlotOf[HostOf[u]]
    BY UrlParts
  <2>2. nburls' = [nburls EXCEPT ![t] = @ + InSite(q) - InSite(p)]
    BY <1>5, <2>1 DEF Move
  <2>3. ChangedAt(nburls, nburls', Slots, Int, t)
    BY <1>3, <2>2 DEF ChangedAt
  <2>4. /\ SumFunction(nburls) \in Int
        /\ SumFunction(nburls') = SumFunction(nburls) + nburls'[t] - nburls[t]
    BY ONLY TablesAssumption, <2>3, SumStep
  <2>5. nburls'[t] = nburls[t] + InSite(q) - InSite(p) /\ nburls[t] \in Int
    BY <1>3, <2>2
  <2>6. InSite(q) \in {0, 1} /\ InSite(p) \in {0, 1}
    BY DEF InSite
  <2>7. interPos' - space' = interPos - space + InSite(q) - InSite(p)
    BY <1>5 DEF Move
  <2> QED
    BY <1>1, <1>3, <2>4, <2>5, <2>6, <2>7
<1> QED
  BY <1>2, <1>4, <1>5 DEF Moved, Balanced

LEMMA ObjectsStep ==
    ASSUME IInv, RingsSorted, [Next]_vars, pc' # "aborted", ObjectsCounted
    PROVE  ObjectsCounted'
<1>1. debUrl = Mem(Urls) + Rings(Urls) + Tabs(Urls) + 2 * Fetched(Urls)
  BY DEF ObjectsCounted
<1>2. Moved(Urls)
  BY OneMove
<1>3. /\ debUrl \in Int /\ Mem(Urls) \in Nat /\ Rings(Urls) \in Nat /\ Tabs(Urls) \in Nat
      /\ Fetched(Urls) \in Nat
  BY CounterTypes, CountTypes
<1>4. CASE NoMove(Urls)
  BY <1>1, <1>4 DEF NoMove, ObjectsCounted
<1>5. ASSUME NEW u \in Urls, NEW p \in Places, NEW q \in Others, Move(u, p, q, Urls)
      PROVE  ObjectsCounted'
  <2>1. /\ Mem(Urls)' = Mem(Urls) + Gain(u, p, q, "mem", Urls)
        /\ Rings(Urls)' = Rings(Urls) + Gain(u, p, q, "ring", Urls)
        /\ Tabs(Urls)' = Tabs(Urls) + Gain(u, p, q, "tab", Urls)
        /\ Fetched(Urls)' = Fetched(Urls) + Gain(u, p, q, "page", Urls)
    BY <1>5 DEF Move, CountsMove
  <2>2. One(u, Urls) = 1
    BY DEF One
  <2>3. /\ Gain(u, p, q, "mem", Urls) + Gain(u, p, q, "ring", Urls)
           + Gain(u, p, q, "tab", Urls) + 2 * Gain(u, p, q, "page", Urls)
           = Objects(q) - Objects(p)
        /\ \A r \in Places : Gain(u, p, q, r, Urls) \in Int
    BY <2>2 DEF Gain, Objects, Places, Others
  <2>4. debUrl' = debUrl + Objects(q) - Objects(p) /\ Objects(q) \in Int /\ Objects(p) \in Int
    BY <1>5 DEF Move, Objects
  <2>5. debUrl' = Mem(Urls)' + Rings(Urls)' + Tabs(Urls)' + 2 * Fetched(Urls)'
    <3> DEFINE gm == Gain(u, p, q, "mem", Urls)
               gr == Gain(u, p, q, "ring", Urls)
               gt == Gain(u, p, q, "tab", Urls)
               gp == Gain(u, p, q, "page", Urls)
               oq == Objects(q)
               op == Objects(p)
    <3>1. gm \in Int /\ gr \in Int /\ gt \in Int /\ gp \in Int
      BY <2>3 DEF Places
    <3>2. gm + gr + gt + 2 * gp = oq - op
      BY <2>3
    <3>3. debUrl' = debUrl + oq - op /\ oq \in Int /\ op \in Int
      BY <2>4
    <3>4. /\ Mem(Urls)' = Mem(Urls) + gm /\ Rings(Urls)' = Rings(Urls) + gr
          /\ Tabs(Urls)' = Tabs(Urls) + gt /\ Fetched(Urls)' = Fetched(Urls) + gp
      BY <2>1
    <3> HIDE DEF gm, gr, gt, gp, oq, op
    <3>5. 2 * Fetched(Urls)' = 2 * Fetched(Urls) + 2 * gp
      BY <1>3, <3>1, <3>4
    <3>6. debUrl' = debUrl + gm + gr + gt + 2 * gp
      BY <1>3, <3>1, <3>2, <3>3
    <3>7. Mem(Urls)' + Rings(Urls)' + Tabs(Urls)'
          = Mem(Urls) + Rings(Urls) + Tabs(Urls) + gm + gr + gt
      BY <1>3, <3>1, <3>4
    <3> QED
      BY <1>1, <1>3, <3>1, <3>5, <3>6, <3>7
  <2> QED
    BY <2>5 DEF ObjectsCounted
<1> QED
  BY <1>2, <1>4, <1>5 DEF Moved

\* A balanced Interval holds what space holds.
LEMMA SpaceBelow ==
    ASSUME NEW f \in [Slots -> Seq(Urls)], NEW t \in [IPs -> Seq(Urls)],
           NEW n \in [Slots -> Int], NEW pos \in Int, NEW room \in Int,
           pos - room = SumFunction(n),
           \A s \in Slots : n[s] = CountsIn(f, Of(s)) + CountsIn(t, Of(s))
    PROVE  room <= pos
<1>1. \A C : CountsIn(f, C) \in Nat /\ CountsIn(t, C) \in Nat
  BY TablesAssumption, CountsType
<1>2. n \in [Slots -> Nat]
  BY <1>1
<1>3. SumFunction(n) \in Nat
  BY <1>2, TablesAssumption, SumNat
<1> QED
  BY <1>3

LEMMA CInvStep == IInv /\ CInv /\ [Next]_vars => CInv'
<1> SUFFICES ASSUME IInv, CInv, [Next]_vars PROVE CInv'
  OBVIOUS
<1>1. RingsSorted /\ CallsReturn /\ SpaceBounds
  BY DEF CInv
<1>2. RingsSorted' /\ CallsReturn'
  BY <1>1, RingsStep, CallsReturnStep
<1>3. CASE pc = "aborted"
  <2>1. UNCHANGED vars
    BY <1>1, <1>3, HaltedStays
  <2>2. UNCHANGED <<still, space, interPos, pc>>
    BY <2>1 DEF vars, intervalVars, controlVars
  <2>3. SpaceBounds' /\ pc' = "aborted"
    BY <1>1, <1>3, <2>2 DEF SpaceBounds
  <2> QED
    BY <1>2, <2>3 DEF CInv
<1>4. CASE pc # "aborted"
  <2>1. Conserved /\ Loads /\ Balanced /\ ObjectsCounted
    BY <1>4 DEF CInv
  <2>2. /\ 0 <= still' /\ still' <= space' /\ interPos' <= RamUrls
        /\ pc' = "aborted" => space' <= interPos'
    BY <1>1, <1>4, SpaceStep
  <2>3. CASE pc' = "aborted"
    BY <1>2, <2>2, <2>3 DEF CInv, SpaceBounds
  <2>4. CASE pc' # "aborted"
    <3>1. Conserved' /\ Loads' /\ Balanced' /\ ObjectsCounted'
      BY <1>1, <2>1, <2>4, ConservedStep, LoadsStep, BalancedStep, ObjectsStep
    <3>2. space' <= interPos'
      <4>1. /\ fifo' \in [Slots -> Seq(Urls)] /\ nburls' \in [Slots -> Int]
            /\ tab' \in [IPs -> Seq(Urls)]
            /\ interPos' \in Int /\ space' \in Int
        BY SitesStep, IPSitesStep, QueuesStep DEF SitesOK, IPSitesOK, QueuesOK
      <4>2. \A s \in Slots : nburls'[s] = CountsIn(fifo', Of(s)) + CountsIn(tab', Of(s))
        BY <3>1 DEF Loads, Rings, Tabs, Of
      <4>3. interPos' - space' = SumFunction(nburls')
        BY <3>1 DEF Balanced
      <4> QED
        BY <4>1, <4>2, <4>3, SpaceBelow
    <3> QED
      BY <1>2, <2>2, <3>1, <3>2 DEF CInv, SpaceBounds
  <2> QED
    BY <2>3, <2>4
<1> QED
  BY <1>3, <1>4

\* Nothing is in a queue, a ring or a tab that is empty.
LEMMA CountNothing ==
    ASSUME NEW C
    PROVE  /\ CountIn(<<>>, C) = 0
           /\ CountsIn([s \in Slots |-> <<>>], C) = 0
           /\ CountsIn([i \in IPs |-> <<>>], C) = 0
<1>1. CountIn(<<>>, C) = 0
  <2>1. {k \in DOMAIN <<>> : <<>>[k] \in C} = {}
    OBVIOUS
  <2> QED
    BY <2>1, FS_EmptySet DEF CountIn
<1>2. ASSUME NEW D, IsFiniteSet(D) PROVE CountsIn([y \in D |-> <<>>], C) = 0
  <2> DEFINE Z == [y \in D |-> 0]
  <2>1. CountsIn([y \in D |-> <<>>], C) = SumFunction(Z)
    BY <1>1 DEF CountsIn
  <2>2. Z \in [D -> Nat] /\ \A y \in D : Z[y] = 0
    OBVIOUS
  <2> HIDE DEF Z
  <2>3. SumFunction(Z) = 0
    BY <1>2, <2>2, SumNat
  <2> QED
    BY <2>1, <2>3
<1> QED
  BY <1>1, <1>2, TablesAssumption

\* A startUrl is on disk once.
LEMMA StartOnDisk ==
    ASSUME NEW u \in Urls
    PROVE  CountIn(StartUrls, {u}) = IF u \in Range(StartUrls) THEN 1 ELSE 0
<1> DEFINE K == {k \in DOMAIN StartUrls : StartUrls[k] \in {u}}
<1>1. StartUrls \in Seq(Urls) /\ DOMAIN StartUrls = 1 .. Len(StartUrls)
  BY UrlsAssumption
<1>2. CASE u \in Range(StartUrls)
  <2>1. PICK k \in DOMAIN StartUrls : StartUrls[k] = u
    BY <1>2 DEF Range
  <2>2. K = {k}
    BY <1>1, <2>1, UrlsAssumption
  <2>3. Cardinality({k}) = 1
    BY FS_Singleton
  <2> QED
    BY <1>2, <2>2, <2>3 DEF CountIn
<1>3. CASE u \notin Range(StartUrls)
  <2>1. K = {}
    BY <1>3 DEF Range
  <2> QED
    BY <1>3, <2>1, FS_EmptySet DEF CountIn
<1> QED
  BY <1>2, <1>3

LEMMA InitCInv == Init => CInv
<1> SUFFICES ASSUME Init PROVE CInv
  OBVIOUS
<1>1. /\ urlsPriority = <<>> /\ urlsPriorityWait = <<>>
      /\ urlsDisk = StartUrls /\ urlsDiskWait = <<>>
      /\ fifo = [s \in Slots |-> <<>>] /\ tab = [i \in IPs |-> <<>>]
      /\ parser = [c \in Conns |-> None] /\ nburls = [s \in Slots |-> 0]
      /\ interPos = 0 /\ space = 0 /\ still = 0 /\ debUrl = 0
      /\ pc = "loop" /\ scanSite = None /\ fetching = None
      /\ accepted = [u \in Urls |-> IF u \in Range(StartUrls) THEN 1 ELSE 0]
      /\ reported = [u \in Urls |-> 0]
  BY DEF Init
<1>2. \A C : Mem(C) = 0 /\ Rings(C) = 0 /\ Tabs(C) = 0 /\ Disk(C) = CountIn(StartUrls, C) + 0
  BY <1>1, CountNothing DEF Mem, Rings, Tabs, Disk
<1>3. ASSUME NEW C, C \subseteq Urls PROVE Fetched(C) = 0
  <2>1. {c \in DOMAIN parser : parser[c] \in C} = {}
    BY <1>1, <1>3, NoneAssumption
  <2> QED
    BY <2>1, FS_EmptySet DEF Fetched, CountIn
<1>4. RingsSorted
  BY <1>1 DEF RingsSorted
<1>5. CallsReturn /\ SpaceBounds
  BY <1>1, SizesAssumption DEF CallsReturn, Idle, SpaceBounds
<1>6. Conserved
  <2> SUFFICES ASSUME NEW u \in Urls PROVE accepted[u] = Total({u}) + reported[u]
    BY DEF Conserved
  <2>1. Fetched({u}) = 0
    BY <1>3
  <2>2. CountIn(StartUrls, {u}) \in {0, 1} /\ accepted[u] = CountIn(StartUrls, {u})
    BY <1>1, StartOnDisk
  <2>3. Total({u}) = 0 + (CountIn(StartUrls, {u}) + 0) + 0 + 0 + 0
    BY <1>2, <2>1 DEF Total
  <2> QED
    BY <1>1, <2>2, <2>3
<1>7. Loads
  BY <1>1, <1>2 DEF Loads
<1>8. Balanced
  <2>1. nburls \in [Slots -> Nat] /\ \A s \in Slots : nburls[s] = 0
    BY <1>1
  <2>2. SumFunction(nburls) = 0
    BY <2>1, SumNat, TablesAssumption
  <2> QED
    BY <1>1, <2>2 DEF Balanced
<1>9. ObjectsCounted
  BY <1>1, <1>2, <1>3 DEF ObjectsCounted
<1> QED
  BY <1>4, <1>5, <1>6, <1>7, <1>8, <1>9 DEF CInv

LEMMA CountsInvariance == Spec => [](IInv /\ CInv)
<1>1. Init => IInv /\ CInv
  BY InitIInv, InitCInv
<1>2. IInv /\ CInv /\ [Next]_vars => (IInv /\ CInv)'
  BY IInvStep, CInvStep
<1> QED
  BY <1>1, <1>2, PTL DEF Spec
-----------------------------------------------------------------------------
(***************************************************************************)
(* What the runs check, from the invariant.                                *)
(***************************************************************************)
LEMMA CopiesAre == ASSUME IInv, NEW u \in Urls PROVE Copies(u) = Total({u})
<1>1. ASSUME NEW q PROVE Count(q, u) = CountIn(q, {u})
  <2>1. {k \in DOMAIN q : q[k] = u} = {k \in DOMAIN q : q[k] \in {u}}
    OBVIOUS
  <2> QED
    BY <2>1 DEF Count, CountIn
<1>2. /\ Rings({u}) = SumFunction([s \in Slots |-> Count(fifo[s], u)])
      /\ Tabs({u}) = SumFunction([i \in IPs |-> Count(tab[i], u)])
  <2>1. DOMAIN fifo = Slots /\ DOMAIN tab = IPs
    BY ListTypes
  <2> QED
    BY <1>1, <2>1 DEF Rings, Tabs, CountsIn
<1>3. /\ Mem({u}) = Count(urlsPriority, u) + Count(urlsPriorityWait, u)
      /\ Disk({u}) = Count(urlsDisk, u) + Count(urlsDiskWait, u)
      /\ Fetched({u}) = Count(parser, u)
  BY <1>1 DEF Mem, Disk, Fetched
<1>4. /\ Count(urlsPriority, u) \in Nat /\ Count(urlsPriorityWait, u) \in Nat
      /\ Count(urlsDisk, u) \in Nat /\ Count(urlsDiskWait, u) \in Nat
      /\ Rings({u}) \in Nat /\ Tabs({u}) \in Nat /\ Fetched({u}) \in Nat
  BY <1>1, CountTypes
<1>5. Total({u}) = (Count(urlsPriority, u) + Count(urlsPriorityWait, u))
                   + (Count(urlsDisk, u) + Count(urlsDiskWait, u))
                   + Rings({u}) + Tabs({u}) + Fetched({u})
  BY <1>3 DEF Total
<1>6. Copies(u) = Count(urlsPriority, u) + Count(urlsPriorityWait, u)
                  + Count(urlsDisk, u) + Count(urlsDiskWait, u) + Fetched({u})
                  + Rings({u}) + Tabs({u})
  BY <1>2, <1>3 DEF Copies
<1> QED
  BY <1>4, <1>5, <1>6

\* No url is lost, nor handled twice, on any of the paths from the frontier to
\* the end of its page.
THEOREM NoUrlLost == Spec => []Conservation
<1>1. IInv /\ CInv => Conservation
  BY CopiesAre DEF CInv, Conserved, Conservation
<1> QED
  BY <1>1, CountsInvariance, PTL

\* The urls of a ring, and of the tabs, that belong to one slot.
LEMMA LoadsAre ==
    ASSUME IInv, RingsSorted, NEW s \in Slots
    PROVE  /\ Rings(Of(s)) = Len(fifo[s])
           /\ Tabs(Of(s)) = SumFunction([i \in IPs |->
                  Cardinality({k \in DOMAIN tab[i] : SlotOf[HostOf[tab[i][k]]] = s})])
<1>1. fifo \in [Slots -> Seq(Urls)] /\ tab \in [IPs -> Seq(Urls)]
  BY ListTypes
<1>2. Rings(Of(s)) = Len(fifo[s])
  <2> DEFINE F == [t \in Slots |-> CountIn(fifo[t], Of(s))]
             Z == [t \in Slots |-> 0]
  <2>1. F[s] = Len(fifo[s]) /\ Len(fifo[s]) \in Nat
    <3>1. fifo[s] \in Seq(Of(s))
      BY DEF RingsSorted
    <3> QED
      BY <3>1, CountAll
  <2>2. ASSUME NEW t \in Slots, t # s PROVE F[t] = 0
    <3>1. fifo[t] \in Seq(Of(t))
      BY DEF RingsSorted
    <3>2. {k \in DOMAIN fifo[t] : fifo[t][k] \in Of(s)} = {}
      BY <2>2, <3>1 DEF Of
    <3> QED
      BY <3>2, FS_EmptySet DEF CountIn
  <2>3. F \in [Slots -> Int] /\ Z \in [Slots -> Int] /\ Z \in [Slots -> Nat] /\ Z[s] = 0
    BY <2>1, <2>2
  <2>4. Rings(Of(s)) = SumFunction(F)
    BY <1>1 DEF Rings, CountsIn
  <2>5. \A t \in Slots : Z[t] = 0
    OBVIOUS
  <2> HIDE DEF F, Z
  <2>6. ChangedAt(Z, F, Slots, Int, s)
    BY <2>2, <2>3, <2>5 DEF ChangedAt
  <2>7. SumFunction(Z) = 0
    BY <2>3, <2>5, SumNat, TablesAssumption
  <2>8. SumFunction(F) = SumFunction(Z) + F[s] - Z[s]
    BY ONLY <2>6, TablesAssumption, SumStep
  <2> QED
    BY <2>1, <2>3, <2>4, <2>7, <2>8
<1>3. \A i \in IPs : CountIn(tab[i], Of(s))
                     = Cardinality({k \in DOMAIN tab[i] : SlotOf[HostOf[tab[i][k]]] = s})
  <2> SUFFICES ASSUME NEW i \in IPs
               PROVE  {k \in DOMAIN tab[i] : tab[i][k] \in Of(s)}
                      = {k \in DOMAIN tab[i] : SlotOf[HostOf[tab[i][k]]] = s}
    BY DEF CountIn
  <2>1. \A k \in DOMAIN tab[i] : tab[i][k] \in Urls
    BY <1>1
  <2> QED
    BY <2>1 DEF Of
<1>4. Tabs(Of(s)) = SumFunction([i \in IPs |->
          Cardinality({k \in DOMAIN tab[i] : SlotOf[HostOf[tab[i][k]]] = s})])
  BY <1>1, <1>3 DEF Tabs, CountsIn
<1> QED
  BY <1>2, <1>4

\* What the limits are tested against is exact, at every step of a hand-over.
THEOREM LimitsExact == Spec => []Accounting
<1>1. IInv /\ CInv => SiteAccounting
  BY LoadsAre DEF CInv, Loads, SiteAccounting
<1>2. IInv /\ CInv => IntervalAccounting
  <2> SUFFICES ASSUME IInv, CInv PROVE IntervalAccounting
    OBVIOUS
  <2>1. interPos \in Int /\ space \in Int /\ still \in Int
    BY CounterTypes
  <2>2. 0 <= space /\ space <= interPos /\ interPos <= RamUrls
    BY <2>1 DEF CInv, SpaceBounds
  <2>3. pc # "aborted" => interPos = space + SumFunction(nburls)
    <3>1. pc # "aborted" => interPos - space = SumFunction(nburls)
      BY DEF CInv, Balanced
    <3> QED
      BY <2>1, <3>1
  <2> QED
    BY <2>2, <2>3 DEF IntervalAccounting
<1>3. IInv /\ CInv => Accounting
  BY <1>1, <1>2 DEF Accounting
<1> QED
  BY <1>3, CountsInvariance, PTL

\* debUrl, on which cron decides to stop, counts the url objects exactly.
THEOREM UrlObjectsCounted == Spec => []UrlObjectsExact
<1>1. ASSUME IInv, CInv, pc # "aborted"
      PROVE  debUrl = Len(urlsPriority) + Len(urlsPriorityWait) + TotalLen(fifo)
                      + TotalLen(tab) + 2 * Cardinality({c \in Conns : parser[c] \in Urls})
  <2>1. debUrl = Mem(Urls) + Rings(Urls) + Tabs(Urls) + 2 * Fetched(Urls)
    BY <1>1 DEF CInv, ObjectsCounted
  <2>2. Mem(Urls) = Len(urlsPriority) + Len(urlsPriorityWait)
    BY <1>1, ListTypes, CountAll DEF Mem
  <2>3. Rings(Urls) = TotalLen(fifo) /\ Tabs(Urls) = TotalLen(tab)
    <3>1. /\ fifo \in [Slots -> Seq(Urls)] /\ tab \in [IPs -> Seq(Urls)]
          /\ IsFiniteSet(Slots) /\ IsFiniteSet(IPs)
      BY <1>1, ListTypes
    <3>2. /\ CountsIn(fifo, Urls) = SumFunction([y \in DOMAIN fifo |-> Len(fifo[y])])
          /\ CountsIn(tab, Urls) = SumFunction([y \in DOMAIN tab |-> Len(tab[y])])
      BY ONLY <3>1, CountsAll
    <3> QED
      BY <3>2, Zenon DEF Rings, Tabs, TotalLen
  <2>4. Fetched(Urls) = Cardinality({c \in Conns : parser[c] \in Urls})
    <3>1. DOMAIN parser = Conns
      BY <1>1, ListTypes
    <3> QED
      BY <3>1 DEF Fetched, CountIn
  <2> QED
    BY <2>1, <2>2, <2>3, <2>4
<1>2. IInv /\ CInv => UrlObjectsExact
  BY <1>1 DEF UrlObjectsExact
<1> QED
  BY <1>2, CountsInvariance, PTL
-----------------------------------------------------------------------------
(***************************************************************************)
(* The assertion of NamedSite::putInFifo (site.cxx).                       *)
(***************************************************************************)
\* Only putGenericUrl calls putInFifo.
LEMMA AbortsInPut ==
    ASSUME IInv, CallsReturn, [Next]_vars, pc # "aborted", pc' = "aborted"
    PROVE  SeqPriorityWait \/ SeqPriority \/ SeqDiskWait \/ SeqDisk
<1>1. ~(\/ SkipCron \/ CronTail \/ Sequencer \/ SeqEnd \/ NextConn \/ CheckEnd
        \/ (\E d \in Gaps : Cron(d)))
  BY DEF SkipCron, CronTail, Sequencer, SeqEnd, NextConn, CheckEnd, Cron
<1>2. ~(SeqNone \/ SubmitEnd \/ ReadEnd \/ OpenEnd \/ Open \/ PageEnd \/ RobotsEnd \/ Submit)
  BY DEF SeqNone, SubmitEnd, ReadEnd, OpenEnd, Goto, Open, PageEnd, RobotsEnd, Submit,
         NewQuery, controlVars
<1>3. /\ ~(\E v \in InputUrls, prio \in BOOLEAN, test \in InputTests : InputUrl(v, prio, test))
      /\ ~(\E v \in LinkedUrls : PageLink(v))
  BY DEF InputUrl, PageLink, controlVars
<1>4. ~Fetch
  BY DEF Fetch, FetchEmpty, FetchEarly, FetchConnect, FetchRefused, controlVars
<1>5. ~(\E s \in Slots : ReadCname(s) \/ ReadAns(s))
  BY DEF ReadCname, DnsCname, ReadAns, DnsAns, MayRead, controlVars
<1>6. ~Scan
  BY DEF Scan, ScanKeep, ScanForget, ScanTransfer, ScanEnd, Scanned
<1>7. ~(Terminated \/ UNCHANGED vars)
  BY DEF Terminated, vars, controlVars
<1> QED
  BY <1>1, <1>2, <1>3, <1>4, <1>5, <1>6, <1>7 DEF Next, Step

\* The urls of a ring are of those its site counts.
LEMMA RingWithinLoad ==
    ASSUME IInv, RingsSorted, Loads, NEW s \in Slots
    PROVE  Len(fifo[s]) <= nburls[s]
<1>1. nburls[s] = Rings(Of(s)) + Tabs(Of(s)) /\ Rings(Of(s)) = Len(fifo[s])
  BY LoadsAre DEF Loads
<1>2. Tabs(Of(s)) \in Nat /\ Len(fifo[s]) \in Nat
  BY CountTypes, ListTypes
<1> QED
  BY <1>1, <1>2

\* The limit of putGenericUrl leaves a place in the ring, if it is not the
\* least one, 1.
LEMMA RoomInRing ==
    ASSUME IInv, RingsSorted, Loads, pc # "aborted",
           NEW u \in Urls, NEW limit \in Nat \ {0, 1}, NEW prio, NEW pw, NEW dw, NEW born,
           PutGenericUrl(u, limit, prio, pw, dw, born)
    PROVE  pc' # "aborted"
<1> DEFINE s == SlotOf[HostOf[u]]
<1>1. s \in Slots
  BY UrlParts
<1>2. Len(fifo[s]) <= nburls[s] /\ Len(fifo[s]) \in Nat /\ nburls[s] \in Int
      /\ MaxUrlsBySite \in Nat
  BY <1>1, RingWithinLoad, ListTypes, SizesAssumption DEF IInv, TypeOK, SitesOK
<1>3. ASSUME ~TooMany(s, limit) PROVE ~RingFull(s)
  BY <1>2, <1>3 DEF TooMany, RingFull
<1>4. CASE UNCHANGED pc
  BY <1>4
<1>5. CASE ~TooMany(s, limit) /\ QueueUrl(s, u)
  BY <1>3, <1>5 DEF QueueUrl
<1> QED
  BY <1>4, <1>5 DEF PutGenericUrl

\* Three of the limits are not the least: with those of putUrl, putUrlWait and
\* putPriorityUrl (15, 10 and 5 in site.h) only putPriorityUrlWait can meet a
\* ring that is full.
LEMMA OnlyPriorityWait ==
    ASSUME {LimitUrl, LimitWait, LimitPrio} \cap {0, 1} = {},
           IInv, CInv, [Next]_vars, pc # "aborted", pc' = "aborted"
    PROVE  SeqPriorityWait
<1>0. {LimitUrl, LimitWait, LimitPrio} \subseteq Nat \ {0, 1}
  BY SizesAssumption
<1>1. CallsReturn /\ RingsSorted /\ Loads
  BY DEF CInv
<1>2. /\ urlsPriority \in Seq(Urls) /\ urlsDisk \in Seq(Urls) /\ urlsDiskWait \in Seq(Urls)
  BY ListTypes
<1>3. CASE SeqPriority
  <2>1. Head(urlsPriority) \in Urls
    BY <1>2, <1>3, SeqHeads, QueueHead
  <2> QED
    BY <1>0, <1>1, <1>3, <2>1, RoomInRing DEF SeqPriority
<1>4. CASE SeqDiskWait
  <2>1. Head(urlsDiskWait) \in Urls
    BY <1>2, <1>4, SeqHeads, QueueHead
  <2> QED
    BY <1>0, <1>1, <1>4, <2>1, RoomInRing DEF SeqDiskWait
<1>5. CASE SeqDisk
  <2>1. Head(urlsDisk) \in Urls
    BY <1>2, <1>5, SeqHeads, QueueHead
  <2> QED
    BY <1>0, <1>1, <1>5, <2>1, RoomInRing DEF SeqDisk
<1> QED
  BY <1>1, <1>3, <1>4, <1>5, AbortsInPut

\* The assertion of putInFifo fails in putPriorityUrlWait only: the ring of a
\* site has room for what putUrl, putUrlWait and putPriorityUrl let through,
\* although they test nburls and not the ring (site.cxx, site.h).
THEOREM OnlyPriorityWaitFills ==
    ASSUME {LimitUrl, LimitWait, LimitPrio} \cap {0, 1} = {}
    PROVE  Spec => [][pc # "aborted" /\ pc' = "aborted" => SeqPriorityWait]_vars
<1>1. IInv /\ CInv /\ [Next]_vars => [pc # "aborted" /\ pc' = "aborted" => SeqPriorityWait]_vars
  BY OnlyPriorityWait
<1> QED
  BY <1>1, CountsInvariance, PTL DEF Spec

\* With a greater limit there too, which the code has not, the assertion holds.
THEOREM RingsNeverFull ==
    ASSUME {LimitUrl, LimitWait, LimitPrio, LimitPrioWait} \cap {0, 1} = {}
    PROVE  Spec => [](pc # "aborted")
<1>0. /\ {LimitUrl, LimitWait, LimitPrio} \cap {0, 1} = {}
      /\ LimitPrioWait \in Nat \ {0, 1}
  BY SizesAssumption
<1>1. IInv /\ CInv /\ [Next]_vars /\ pc # "aborted" => (pc # "aborted")'
  <2> SUFFICES ASSUME IInv, CInv, [Next]_vars, pc # "aborted", pc' = "aborted" PROVE FALSE
    OBVIOUS
  <2>1. SeqPriorityWait
    BY <1>0, OnlyPriorityWait
  <2>2. urlsPriorityWait \in Seq(Urls)
    BY ListTypes
  <2>3. Head(urlsPriorityWait) \in Urls
    BY <2>1, <2>2, SeqHeads, QueueHead
  <2>4. RingsSorted /\ Loads
    BY DEF CInv
  <2> QED
    BY <1>0, <2>1, <2>3, <2>4, RoomInRing DEF SeqPriorityWait
<1>2. Init => pc # "aborted"
  BY DEF Init
<1> QED
  BY <1>1, <1>2, CountsInvariance, PTL DEF Spec

-----------------------------------------------------------------------------
(***************************************************************************)
(* The IPSites: each is under way in one place, its urls belong to its     *)
(* addresses, the numbers of urls and DNS calls under way are exact, the   *)
(* search stops only when all is done; and, for Politeness, the pages of a *)
(* server are spaced.                                                      *)
(***************************************************************************)
\* The IPSite of a resolved site is that of its address, or with a proxy of
\* its slot.
HashRight ==
    \A s \in Slots : dnsState[s] = "doneDns" =>
        IF UseProxy THEN ipHash[s] = SlotHash[s]
        ELSE addr[s] \in Addrs /\ ipHash[s] = IPHashOf[addr[s]]

\* The body of RightIPSite but for the domains, which AddrKept gives.
UrlsRight ==
    \A i \in IPs : \A k \in DOMAIN tab[i] :
        IF UseProxy THEN SlotHash[SlotOf[HostOf[tab[i][k]]]] = i
        ELSE urlAddr[i][k] \in Addrs /\ IPHashOf[urlAddr[i][k]] = i

\* The DNS calls under way and the urls of the IPSites are counted right, and a
\* crawl that has stopped passed the test of cron.
Calls == nbDnsCalls = Cardinality(queries)
Waiting == IPUrl = Tabs(Urls)
StopTested == pc = "stopped" => NothingLeft

IPInv == IPSiteToken /\ HashRight /\ UrlsRight /\ Calls /\ Waiting /\ StopTested
-----------------------------------------------------------------------------
(***************************************************************************)
(* The steps that change an IPSite.                                        *)
(***************************************************************************)
\* A site gives an url of its slot to its IPSite.
Handover(s, u) ==
    /\ s = SlotOf[HostOf[u]] /\ dnsState[s] = "doneDns" /\ fetching = None
    /\ Transfer(s, u)

LEMMA IPChange ==
    ASSUME IInv, RingsSorted, [Next]_vars
    PROVE  \/ UNCHANGED <<ipVars, fetching>>
           \/ \E s \in Slots, u \in Urls : Handover(s, u)
           \/ Open \/ Fetch
<1>1. CASE SeqPriorityWait \/ SeqPriority \/ SeqDiskWait \/ SeqDisk
  <2>1. PICK u \in Urls, limit \in Nat, prio \in BOOLEAN, pw \in Seq(Urls),
             dw \in Seq(Urls), born \in {0, 1} :
                 PutGenericUrl(u, limit, prio, pw, dw, born)
    BY <1>1, SeqPut
  <2>2. PICK s \in Slots : s = SlotOf[HostOf[u]]
    BY UrlParts
  <2>3. fetching = None
    BY <1>1, SeqPut DEF Sequencing, Idle
  <2>4. UNCHANGED <<ipVars, fetching>> \/ (dnsState[s] = "doneDns" /\ Transfer(s, u))
    BY <2>1, <2>2, PutBranches
  <2> QED
    BY <2>2, <2>3, <2>4 DEF Handover
<1>2. ASSUME NEW s \in Slots, ScanTransfer(s)
      PROVE  \E t \in Slots, u \in Urls : Handover(t, u)
  <2> DEFINE u == Head(fifo[s])
  <2>1. fifo[s] \in Seq(Of(s)) /\ fifo[s] # <<>> /\ u \in Urls
    BY <1>2, ScanHead DEF ScanTransfer, RingsSorted
  <2>2. s = SlotOf[HostOf[u]]
    BY <2>1, TailRange DEF Of
  <2>3. fetching = None /\ dnsState[s] = "doneDns" /\ Transfer(s, u)
    BY <1>2, ScanTransferSite DEF ScanTransfer, Scanned
  <2>4. Handover(s, u)
    BY <2>2, <2>3 DEF Handover
  <2> QED
    BY <2>1, <2>4
<1>3. ASSUME NEW s \in Slots, ScanKeep(s) \/ ScanForget(s) \/ ScanEnd(s)
      PROVE  UNCHANGED <<ipVars, fetching>>
  BY <1>3 DEF ScanKeep, ScanForget, ScanEnd
<1>4. CASE \/ SkipCron \/ CronTail \/ Sequencer \/ SeqNone \/ SeqEnd
           \/ SubmitEnd \/ ReadEnd \/ OpenEnd \/ CheckEnd
           \/ NextConn \/ PageEnd \/ RobotsEnd \/ Submit
           \/ \E d \in Gaps : Cron(d)
  BY <1>4 DEF SkipCron, CronTail, Sequencer, SeqNone, SeqEnd, SubmitEnd,
     ReadEnd, OpenEnd, CheckEnd, NextConn, Goto, PageEnd, RobotsEnd, Submit,
     NewQuery, Cron, controlVars
<1>5. CASE \/ \E v \in InputUrls, prio \in BOOLEAN, test \in InputTests :
                InputUrl(v, prio, test)
           \/ \E v \in LinkedUrls : PageLink(v)
  BY <1>5 DEF InputUrl, PageLink, Enter, controlVars
<1>6. CASE \E s \in Slots : ReadCname(s) \/ ReadAns(s)
  BY <1>6 DEF ReadCname, ReadAns, DnsCname, DnsAns, controlVars
<1>7. CASE Terminated \/ UNCHANGED vars
  BY <1>7 DEF Terminated, vars, controlVars
<1> QED
  BY <1>1, <1>2, <1>3, <1>4, <1>5, <1>6, <1>7 DEF Next, Step, Scan

\* What Transfer does to the variables of the IPSites.
LEMMA HandoverPut ==
    ASSUME IInv, NEW s \in Slots, NEW u \in Urls, Handover(s, u)
    PROVE  /\ ipHash[s] \in IPs /\ PutUrl(ipHash[s], u)
           /\ tab' = [tab EXCEPT ![ipHash[s]] = Append(@, u)]
           /\ IPUrl' = IPUrl + 1
           /\ urlAddr' = [urlAddr EXCEPT ![ipHash[s]] =
                             Append(@, IF UseProxy THEN None ELSE addr[s])]
BY DEF Handover, Transfer, PutUrl, IInv, Resolved

\* An element is put back at the head of a queue.
LEMMA ConsRange ==
    ASSUME NEW S, NEW q \in Seq(S), NEW x \in S
    PROVE  /\ Range(<<x>> \o q) = Range(q) \cup {x}
           /\ IsInjective(q) /\ x \notin Range(q) => IsInjective(<<x>> \o q)
<1> DEFINE r == <<x>> \o q
<1>1. /\ DOMAIN q = 1 .. Len(q) /\ Len(q) \in Nat /\ DOMAIN r = 1 .. Len(q) + 1
      /\ r[1] = x /\ \A k \in 1 .. Len(q) : r[k + 1] = q[k]
  OBVIOUS
<1>2. ASSUME NEW k \in 1 .. Len(q) + 1, k # 1
      PROVE  k - 1 \in 1 .. Len(q) /\ r[k] = q[k - 1]
  <2>1. k - 1 \in 1 .. Len(q) /\ (k - 1) + 1 = k
    BY <1>1, <1>2
  <2> QED
    BY <1>1, <2>1
<1> HIDE DEF r
<1>3. Range(r) \subseteq Range(q) \cup {x}
  <2> SUFFICES ASSUME NEW k \in 1 .. Len(q) + 1 PROVE r[k] \in Range(q) \cup {x}
    BY <1>1 DEF Range
  <2> QED
    BY <1>1, <1>2 DEF Range
<1>4. Range(q) \cup {x} \subseteq Range(r)
  <2>1. 1 \in DOMAIN r /\ \A k \in 1 .. Len(q) : k + 1 \in DOMAIN r
    BY <1>1
  <2> QED
    BY <1>1, <2>1 DEF Range
<1>5. ASSUME IsInjective(q), x \notin Range(q) PROVE IsInjective(r)
  <2> SUFFICES ASSUME NEW j \in 1 .. Len(q) + 1, NEW k \in 1 .. Len(q) + 1, r[j] = r[k]
               PROVE  j = k
    BY <1>1 DEF IsInjective
  <2>1. CASE j = 1 /\ k = 1
    BY <2>1
  <2>2. CASE j = 1 /\ k # 1
    BY <1>1, <1>2, <1>5, <2>2 DEF Range
  <2>3. CASE j # 1 /\ k = 1
    BY <1>1, <1>2, <1>5, <2>3 DEF Range
  <2>4. CASE j # 1 /\ k # 1
    <3>1. /\ j - 1 \in 1 .. Len(q) /\ k - 1 \in 1 .. Len(q) /\ q[j - 1] = q[k - 1]
      BY <1>2, <2>4
    <3>2. j - 1 = k - 1
      BY <1>1, <1>5, <3>1 DEF IsInjective
    <3> QED
      BY <3>2
  <2> QED
    BY <2>1, <2>2, <2>3, <2>4
<1> QED
  BY <1>3, <1>4, <1>5 DEF r

LEMMA IPTokenStep ==
    ASSUME IInv, RingsSorted, [Next]_vars, IPSiteToken
    PROVE  IPSiteToken'
<1>0. /\ tab \in [IPs -> Seq(Urls)] /\ ipQueued \in [IPs -> BOOLEAN]
      /\ okSites \in Seq(IPs) /\ None \notin IPs
      /\ IsInjective(okSites)
      /\ \A i \in IPs :
            /\ ipQueued[i] <=> i \in Range(okSites) \/ fetching = i
            /\ ~(i \in Range(okSites) /\ fetching = i)
            /\ i \in Range(okSites) => tab[i] # <<>>
            /\ ~ipQueued[i] => tab[i] = <<>>
  BY NoneAssumption DEF IInv, TypeOK, IPSitesOK, IPSiteToken
<1>1. CASE UNCHANGED <<ipVars, fetching>>
  BY <1>0, <1>1 DEF ipVars, IPSiteToken
<1>2. ASSUME NEW s \in Slots, NEW u \in Urls, Handover(s, u)
      PROVE  IPSiteToken'
  <2>1. PICK i \in IPs : i = ipHash[s]
    BY <1>2, HandoverPut
  <2>2. /\ tab' = [tab EXCEPT ![i] = Append(@, u)]
        /\ ipQueued' = [ipQueued EXCEPT ![i] = TRUE]
        /\ \/ ipQueued[i] /\ UNCHANGED <<okSites, fetching>>
           \/ ~ipQueued[i] /\ fetching' = i /\ UNCHANGED okSites
           \/ ~ipQueued[i] /\ okSites' = Append(okSites, i) /\ UNCHANGED fetching
    BY <1>2, <2>1, HandoverPut DEF PutUrl
  <2>3. fetching = None
    BY <1>2 DEF Handover
  <2>4. Append(tab[i], u) # <<>>
    BY <1>0, AppendRange
  <2>5. /\ Range(Append(okSites, i)) = Range(okSites) \cup {i}
        /\ i \notin Range(okSites) => IsInjective(Append(okSites, i))
    BY <1>0, AppendRange, AppendKeepsInjective
  <2>6. CASE ipQueued[i] /\ UNCHANGED <<okSites, fetching>>
    BY <1>0, <2>2, <2>4, <2>6 DEF IPSiteToken
  <2>7. CASE ~ipQueued[i] /\ fetching' = i /\ UNCHANGED okSites
    BY <1>0, <2>2, <2>3, <2>4, <2>7 DEF IPSiteToken
  <2>8. CASE ~ipQueued[i] /\ okSites' = Append(okSites, i) /\ UNCHANGED fetching
    BY <1>0, <2>2, <2>3, <2>4, <2>5, <2>8 DEF IPSiteToken
  <2> QED
    BY <2>2, <2>6, <2>7, <2>8
<1>3. CASE Open
  <2>1. /\ okSites # <<>> /\ fetching = None
        /\ fetching' = Head(okSites) /\ okSites' = Tail(okSites)
        /\ UNCHANGED <<tab, ipQueued>>
    BY <1>3 DEF Open, MayOpen, Idle
  <2>2. PICK i \in IPs : i = Head(okSites)
    BY <1>0, <2>1, TailRange
  <2>3. /\ Range(okSites) = Range(okSites') \cup {i} /\ i \notin Range(okSites')
        /\ IsInjective(okSites')
    BY <1>0, <2>1, <2>2, TailRange, TailInjective
  <2> QED
    BY <1>0, <2>1, <2>2, <2>3 DEF IPSiteToken
<1>4. ASSUME NEW i \in IPs, FetchEmpty(i) PROVE IPSiteToken'
  <2>1. /\ fetching = i /\ tab[i] = <<>> /\ fetching' = None
        /\ ipQueued' = [ipQueued EXCEPT ![i] = FALSE] /\ UNCHANGED <<tab, okSites>>
    BY <1>4 DEF FetchEmpty
  <2> QED
    BY <1>0, <2>1 DEF IPSiteToken
<1>5. ASSUME NEW i \in IPs, FetchEarly(i) PROVE IPSiteToken'
  <2>1. /\ fetching = i /\ tab[i] # <<>> /\ fetching' = None
        /\ okSites' = <<i>> \o okSites /\ UNCHANGED <<tab, ipQueued>>
    BY <1>5 DEF FetchEarly
  <2>2. /\ Range(okSites') = Range(okSites) \cup {i} /\ IsInjective(okSites')
    BY <1>0, <2>1, ConsRange
  <2> QED
    BY <1>0, <2>1, <2>2 DEF IPSiteToken
<1>6. ASSUME NEW i \in IPs, FetchConnect(i) PROVE IPSiteToken'
  <2>1. /\ fetching = i /\ tab[i] # <<>> /\ fetching' = None
        /\ tab' = [tab EXCEPT ![i] = Tail(@)]
        /\ \/ /\ Len(tab[i]) = 1
              /\ ipQueued' = [ipQueued EXCEPT ![i] = FALSE] /\ UNCHANGED okSites
           \/ /\ Len(tab[i]) # 1
              /\ okSites' = Append(okSites, i) /\ UNCHANGED ipQueued
    BY <1>6 DEF FetchConnect, GetUrl
  <2>2. Len(tab[i]) = 1 <=> Tail(tab[i]) = <<>>
    <3>1. /\ tab[i] \in Seq(Urls) /\ Tail(tab[i]) \in Seq(Urls)
          /\ Len(Tail(tab[i])) = Len(tab[i]) - 1
      BY <2>1, FetchHead
    <3>2. Len(Tail(tab[i])) = 0 <=> Tail(tab[i]) = <<>>
      <4>1. \A q \in Seq(Urls) : Len(q) = 0 <=> q = <<>>
        OBVIOUS
      <4> QED
        BY <3>1, <4>1
    <3>3. Len(tab[i]) \in Nat
      BY <3>1
    <3> QED
      BY <3>1, <3>2, <3>3
  <2>3. /\ Range(Append(okSites, i)) = Range(okSites) \cup {i}
        /\ IsInjective(Append(okSites, i))
    BY <1>0, <2>1, AppendRange, AppendKeepsInjective
  <2>4. CASE Len(tab[i]) = 1
    BY <1>0, <2>1, <2>2, <2>4 DEF IPSiteToken
  <2>5. CASE Len(tab[i]) # 1
    BY <1>0, <2>1, <2>2, <2>3, <2>5 DEF IPSiteToken
  <2> QED
    BY <2>4, <2>5
<1>7. ASSUME NEW i \in IPs, FetchRefused(i) PROVE IPSiteToken'
  <2>1. /\ fetching = i /\ fetching' = fetching
        /\ tab' = [tab EXCEPT ![i] = Tail(@)] /\ UNCHANGED <<okSites, ipQueued>>
    BY <1>7 DEF FetchRefused, GetUrl, controlVars
  <2> QED
    BY <1>0, <2>1 DEF IPSiteToken
<1> QED
  BY <1>1, <1>2, <1>3, <1>4, <1>5, <1>6, <1>7, IPChange DEF Fetch

\* IPUrl follows the tabs.
LEMMA WaitingStep ==
    ASSUME IInv, RingsSorted, [Next]_vars, Waiting
    PROVE  Waiting'
<1>0. IPUrl = Tabs(Urls) /\ IPUrl \in Int /\ Tabs(Urls) \in Nat
      /\ \A u \in Urls : One(u, Urls) = 1
  BY CountTypes DEF Waiting, IInv, TypeOK, IPSitesOK, One
<1>1. CASE UNCHANGED <<IPUrl, tab>>
  BY <1>0, <1>1 DEF Waiting, Tabs
<1>2. ASSUME NEW s \in Slots, NEW u \in Urls, Handover(s, u)
      PROVE  Waiting'
  <2>1. PICK i \in IPs : i = ipHash[s]
    BY <1>2, HandoverPut
  <2>2. tab' = [tab EXCEPT ![i] = Append(@, u)] /\ IPUrl' = IPUrl + 1
    BY <1>2, <2>1, HandoverPut
  <2>3. Tabs(Urls)' = Tabs(Urls) + One(u, Urls)
    BY <2>2, TabAppend
  <2> QED
    BY <1>0, <2>2, <2>3 DEF Waiting
<1>3. ASSUME NEW i \in IPs, FetchConnect(i) \/ FetchRefused(i) PROVE Waiting'
  <2>1. /\ tab' = [tab EXCEPT ![i] = Tail(@)] /\ IPUrl' = IPUrl - 1
        /\ tab[i] # <<>> /\ Head(tab[i]) \in Urls
    BY <1>3, FetchHead DEF FetchConnect, FetchRefused, GetUrl
  <2>2. Tabs(Urls)' = Tabs(Urls) - One(Head(tab[i]), Urls)
    BY <2>1, TabTail
  <2> QED
    BY <1>0, <2>1, <2>2 DEF Waiting
<1>4. CASE Open \/ \E i \in IPs : FetchEmpty(i) \/ FetchEarly(i)
  BY <1>1, <1>4 DEF Open, FetchEmpty, FetchEarly
<1> QED
  BY <1>1, <1>2, <1>3, <1>4, IPChange DEF Fetch, ipVars

\* An url comes with the address its IPSite was found by.
LEMMA UrlsRightStep ==
    ASSUME IInv, RingsSorted, HashRight, [Next]_vars, UrlsRight
    PROVE  UrlsRight'
<1>0. /\ tab \in [IPs -> Seq(Urls)] /\ urlAddr \in [IPs -> Seq(Addrs \cup {None})]
      /\ \A i \in IPs : Len(urlAddr[i]) = Len(tab[i])
  BY DEF IInv, TypeOK, IPSitesOK, AddrKept
<1>1. CASE UNCHANGED <<tab, urlAddr>>
  BY <1>1 DEF UrlsRight
<1>2. ASSUME NEW s \in Slots, NEW u \in Urls, Handover(s, u)
      PROVE  UrlsRight'
  <2>1. PICK i \in IPs : i = ipHash[s]
    BY <1>2, HandoverPut
  <2>2. PICK a \in Addrs \cup {None} : a = IF UseProxy THEN None ELSE addr[s]
    BY DEF IInv, TypeOK, SitesOK
  <2>3. /\ tab' = [tab EXCEPT ![i] = Append(@, u)]
        /\ urlAddr' = [urlAddr EXCEPT ![i] = Append(@, a)]
    BY <1>2, <2>1, <2>2, HandoverPut
  <2>4. IF UseProxy THEN SlotHash[SlotOf[HostOf[u]]] = i
        ELSE a \in Addrs /\ IPHashOf[a] = i
    BY <1>2, <2>1, <2>2 DEF HashRight, Handover
  <2>5. ASSUME NEW j \in IPs, j # i
        PROVE  tab'[j] = tab[j] /\ urlAddr'[j] = urlAddr[j]
    BY <1>0, <2>3, <2>5
  <2>6. tab'[i] = Append(tab[i], u) /\ urlAddr'[i] = Append(urlAddr[i], a)
    BY <1>0, <2>3
  <2>7. ASSUME NEW k \in DOMAIN tab'[i]
        PROVE  IF UseProxy THEN SlotHash[SlotOf[HostOf[tab'[i][k]]]] = i
               ELSE urlAddr'[i][k] \in Addrs /\ IPHashOf[urlAddr'[i][k]] = i
    <3>1. k \in 1 .. Len(tab[i]) + 1 /\ Len(tab[i]) \in Nat /\ Len(urlAddr[i]) = Len(tab[i])
      BY <1>0, <2>6
    <3>2. CASE k = Len(tab[i]) + 1
      <4>1. tab'[i][k] = u /\ urlAddr'[i][k] = a
        BY <1>0, <2>6, <3>1, <3>2
      <4> QED
        BY <2>4, <4>1
    <3>3. CASE k \in 1 .. Len(tab[i])
      <4>1. tab'[i][k] = tab[i][k] /\ urlAddr'[i][k] = urlAddr[i][k] /\ k \in DOMAIN tab[i]
        BY <1>0, <2>6, <3>1, <3>3
      <4> QED
        BY <4>1 DEF UrlsRight
    <3> QED
      BY <3>1, <3>2, <3>3
  <2> QED
    BY <2>5, <2>7 DEF UrlsRight
<1>3. ASSUME NEW i \in IPs, FetchConnect(i) \/ FetchRefused(i) PROVE UrlsRight'
  <2>1. /\ tab' = [tab EXCEPT ![i] = Tail(@)] /\ urlAddr' = [urlAddr EXCEPT ![i] = Tail(@)]
        /\ tab[i] # <<>>
    BY <1>3 DEF FetchConnect, FetchRefused, GetUrl
  <2>2. ASSUME NEW j \in IPs, j # i
        PROVE  tab'[j] = tab[j] /\ urlAddr'[j] = urlAddr[j]
    BY <1>0, <2>1, <2>2
  <2>3. tab'[i] = Tail(tab[i]) /\ urlAddr'[i] = Tail(urlAddr[i])
    BY <1>0, <2>1
  <2>4. ASSUME NEW k \in DOMAIN tab'[i]
        PROVE  IF UseProxy THEN SlotHash[SlotOf[HostOf[tab'[i][k]]]] = i
               ELSE urlAddr'[i][k] \in Addrs /\ IPHashOf[urlAddr'[i][k]] = i
    <3>1. /\ Len(tab[i]) \in Nat /\ Len(tab[i]) > 0 /\ Len(urlAddr[i]) = Len(tab[i])
          /\ k \in 1 .. Len(tab[i]) - 1
      BY <1>0, <2>1, <2>3
    <3>2. k + 1 \in DOMAIN tab[i]
      BY <1>0, <3>1
    <3>3. tab'[i][k] = tab[i][k + 1] /\ urlAddr'[i][k] = urlAddr[i][k + 1]
      BY <1>0, <2>1, <2>3, <3>1
    <3> QED
      BY <3>2, <3>3 DEF UrlsRight
  <2> QED
    BY <2>2, <2>4 DEF UrlsRight
<1>4. CASE Open \/ \E i \in IPs : FetchEmpty(i) \/ FetchEarly(i)
  BY <1>1, <1>4 DEF Open, FetchEmpty, FetchEarly
<1> QED
  BY <1>1, <1>2, <1>3, <1>4, IPChange DEF Fetch, ipVars

\* A slot in doneDns keeps its address until it leaves that state.
LEMMA HashRightStep ==
    ASSUME IInv, [Next]_vars, HashRight
    PROVE  HashRight'
<1>0. /\ dnsState \in [Slots -> {"waitDns", "doneDns", "errorDns", "noConnDns"}]
      /\ addr \in [Slots -> Addrs \cup {None}]
      /\ ipHash \in [Slots -> IPs \cup {None}]
  BY DEF IInv, TypeOK, SitesOK
<1> USE DEF HashRight
<1>1. CASE UNCHANGED <<dnsState, addr, ipHash>>
  BY <1>1
<1>2. ASSUME NEW s \in Slots, UNCHANGED ipHash,
             addr' = addr \/ \E a \in Addrs : addr' = [addr EXCEPT ![s] = a],
             \E st \in {"waitDns", "errorDns", "noConnDns"} :
                 dnsState' = [dnsState EXCEPT ![s] = st]
      PROVE  HashRight'
  BY <1>0, <1>2
<1>3. CASE Submit
  <2>1. Head(dnsSites) \in Slots /\ freeConns # <<>> /\ UNCHANGED ipHash
    BY <1>3, SubmitHead DEF Submit, NewQuery, MaySubmit, Idle
  <2>2. /\ addr' = addr \/ \E a \in Addrs : addr' = [addr EXCEPT ![Head(dnsSites)] = a]
        /\ \/ DnsOK(Head(dnsSites)) \/ DnsError(Head(dnsSites))
           \/ dnsState' = [dnsState EXCEPT ![Head(dnsSites)] = "waitDns"]
    BY <1>3, <2>1, SubmitBranches
  <2>3. \E st \in {"waitDns", "errorDns", "noConnDns"} :
            dnsState' = [dnsState EXCEPT ![Head(dnsSites)] = st]
    BY <2>1, <2>2, DnsOKTypes
  <2> QED
    BY <1>2, <2>1, <2>2, <2>3
<1>4. ASSUME NEW s \in Slots, ReadAns(s) PROVE HashRight'
  <2>1. PICK a \in Addrs \cup {None} : DnsAns(s, a)
    BY <1>4 DEF ReadAns
  <2>2. /\ freeConns # <<>> /\ UNCHANGED ipHash
        /\ \/ a \in Addrs /\ DnsOK(s) /\ addr' = [addr EXCEPT ![s] = a]
           \/ DnsError(s) /\ UNCHANGED addr
    BY <1>4, <2>1 DEF ReadAns, MayRead, DnsAns
  <2>3. \E st \in {"waitDns", "errorDns", "noConnDns"} :
            dnsState' = [dnsState EXCEPT ![s] = st]
    BY <2>2, DnsOKTypes
  <2> QED
    BY <1>2, <2>2, <2>3
<1>5. CASE RobotsEnd
  <2> DEFINE s == parser[ci]
  <2>1. ci \in Conns /\ s \in Slots /\ UNCHANGED addr
    BY <1>5, SizesAssumption
       DEF RobotsEnd, AtConn, IInv, TypeOK, ControlOK, Conns
  <2>2. PICK rules : \E ok \in BOOLEAN : RobotsResult(s, ok, rules)
    BY <1>5 DEF RobotsEnd
  <2>3. UseProxy \/ addr[s] \in Addrs
    BY <2>1 DEF IInv, Resolved
  <2>4. \/ /\ dnsState' = [dnsState EXCEPT ![s] = "doneDns"]
           /\ ipHash' = [ipHash EXCEPT ![s] = IF UseProxy THEN SlotHash[s]
                                              ELSE IPHashOf[addr[s]]]
        \/ /\ dnsState' = [dnsState EXCEPT ![s] = "noConnDns"]
           /\ ipHash' = ipHash
    BY <2>2 DEF RobotsResult
  <2> HIDE DEF s
  <2>5. CASE dnsState' = [dnsState EXCEPT ![s] = "noConnDns"] /\ ipHash' = ipHash
    BY <1>0, <2>1, <2>5
  <2>6. CASE /\ dnsState' = [dnsState EXCEPT ![s] = "doneDns"]
             /\ ipHash' = [ipHash EXCEPT ![s] = IF UseProxy THEN SlotHash[s]
                                              ELSE IPHashOf[addr[s]]]
    <3>1. ipHash'[s] = IF UseProxy THEN SlotHash[s] ELSE IPHashOf[addr[s]]
      BY <1>0, <2>1, <2>6
    <3>2. ASSUME NEW t \in Slots, t # s
          PROVE  dnsState'[t] = dnsState[t] /\ ipHash'[t] = ipHash[t]
      BY <1>0, <2>6, <3>2
    <3> QED
      BY <2>1, <2>3, <3>1, <3>2
  <2> QED
    BY <2>4, <2>5, <2>6
<1>6. CASE SeqPriorityWait \/ SeqPriority \/ SeqDiskWait \/ SeqDisk
  BY <1>1, <1>6, SeqPut DEF Sequenced, identityVars
<1>7. CASE \/ SkipCron \/ CronTail \/ Sequencer \/ SeqNone \/ SeqEnd
           \/ SubmitEnd \/ ReadEnd \/ Open \/ OpenEnd \/ CheckEnd
           \/ NextConn \/ PageEnd \/ \E d \in Gaps : Cron(d)
  BY <1>1, <1>7 DEF SkipCron, CronTail, Sequencer, SeqNone, SeqEnd, SubmitEnd,
     ReadEnd, Open, OpenEnd, CheckEnd, NextConn, PageEnd, Goto, Cron, siteVars,
     identityVars
<1>8. CASE \/ \E v \in InputUrls, prio \in BOOLEAN, test \in InputTests :
                InputUrl(v, prio, test)
           \/ \E v \in LinkedUrls : PageLink(v)
  BY <1>1, <1>8 DEF InputUrl, PageLink, Enter, siteVars, identityVars
<1>9. CASE \/ \E s \in Slots : ReadCname(s) \/ ScanKeep(s) \/ ScanForget(s)
                               \/ ScanTransfer(s) \/ ScanEnd(s)
           \/ Fetch
  BY <1>1, <1>9 DEF ReadCname, DnsCname, ScanKeep, ScanForget, ScanTransfer, ScanEnd,
     Scanned, Fetch, FetchEmpty, FetchEarly, FetchConnect, FetchRefused, siteVars,
     identityVars
<1>10. CASE Terminated \/ UNCHANGED vars
  BY <1>1, <1>10 DEF Terminated, vars, siteVars, identityVars
<1> QED
  BY <1>3, <1>4, <1>5, <1>6, <1>7, <1>8, <1>9, <1>10 DEF Next, Step, Scan

\* nbDnsCalls follows the queries under way.
LEMMA CallsStep ==
    ASSUME IInv, [Next]_vars, Calls
    PROVE  Calls'
<1>0. /\ queries \subseteq Slots /\ nbDnsCalls \in Int /\ nbDnsCalls = Cardinality(queries)
      /\ IsFiniteSet(queries)
  BY TablesAssumption, FS_Subset DEF IInv, TypeOK, SitesOK, Calls
<1>1. CASE UNCHANGED <<queries, nbDnsCalls>>
  BY <1>1 DEF Calls
<1>2. CASE Submit
  <2>1. PICK s \in Slots : s = Head(dnsSites) /\ InDnsSites(s)
    BY <1>2, SubmitHead DEF Submit, Idle
  <2>2. s \notin queries
    BY <2>1 DEF IInv, SiteToken, OneToken, InQueries
  <2>3. \/ UNCHANGED <<queries, nbDnsCalls>>
        \/ queries' = queries \cup {s} /\ nbDnsCalls' = nbDnsCalls + 1
    BY <1>2, <2>1 DEF Submit, NewQuery
  <2>4. Cardinality(queries \cup {s}) = Cardinality(queries) + 1
    BY <1>0, <2>2, FS_AddElement
  <2> QED
    BY <1>0, <1>1, <2>3, <2>4 DEF Calls
<1>3. ASSUME NEW s \in Slots, ReadAns(s) PROVE Calls'
  <2>1. s \in queries /\ queries' = queries \ {s} /\ nbDnsCalls' = nbDnsCalls - 1
    BY <1>3 DEF ReadAns, DnsAns
  <2>2. Cardinality(queries \ {s}) = Cardinality(queries) - 1
    BY <1>0, <2>1, FS_RemoveElement
  <2> QED
    BY <1>0, <2>1, <2>2 DEF Calls
<1>4. CASE SeqPriorityWait \/ SeqPriority \/ SeqDiskWait \/ SeqDisk
  BY <1>1, <1>4, SeqPut DEF Sequenced
<1>5. CASE \/ SkipCron \/ CronTail \/ Sequencer \/ SeqNone \/ SeqEnd
           \/ SubmitEnd \/ ReadEnd \/ Open \/ OpenEnd \/ CheckEnd
           \/ NextConn \/ PageEnd \/ RobotsEnd \/ \E d \in Gaps : Cron(d)
  BY <1>1, <1>5 DEF SkipCron, CronTail, Sequencer, SeqNone, SeqEnd, SubmitEnd,
     ReadEnd, Open, OpenEnd, CheckEnd, NextConn, PageEnd, RobotsEnd, Goto, Cron, dnsVars
<1>6. CASE \/ \E v \in InputUrls, prio \in BOOLEAN, test \in InputTests :
                InputUrl(v, prio, test)
           \/ \E v \in LinkedUrls : PageLink(v)
  BY <1>1, <1>6 DEF InputUrl, PageLink, Enter, dnsVars
<1>7. CASE \/ \E s \in Slots : ReadCname(s) \/ ScanKeep(s) \/ ScanForget(s)
                               \/ ScanTransfer(s) \/ ScanEnd(s)
           \/ Fetch
  BY <1>1, <1>7 DEF ReadCname, DnsCname, ScanKeep, ScanForget, ScanTransfer, ScanEnd,
     Scanned, Fetch, FetchEmpty, FetchEarly, FetchConnect, FetchRefused, dnsVars
<1>8. CASE Terminated \/ UNCHANGED vars
  BY <1>1, <1>8 DEF Terminated, vars, dnsVars
<1> QED
  BY <1>2, <1>3, <1>4, <1>5, <1>6, <1>7, <1>8 DEF Next, Step, Scan

\* Only cron stops the search, after its test.
LEMMA StopTestedStep ==
    ASSUME IInv, CallsReturn, [Next]_vars, StopTested
    PROVE  StopTested'
<1> SUFFICES ASSUME pc' = "stopped" PROVE NothingLeft'
  BY DEF StopTested
<1>1. CASE pc = "stopped"
  <2>1. UNCHANGED vars
    BY <1>1, HaltedStays
  <2> QED
    BY <1>1, <2>1 DEF StopTested, NothingLeft, vars, queueVars, statVars
<1>2. CASE pc # "stopped"
  <2>1. ~UNCHANGED pc
    BY <1>2
  <2>2. ~(SeqPriorityWait \/ SeqPriority \/ SeqDiskWait \/ SeqDisk)
    <3>1. SUFFICES ASSUME SeqPriorityWait \/ SeqPriority \/ SeqDiskWait \/ SeqDisk
                   PROVE  pc' \in {pc, "aborted"}
      BY <2>1
    <3> QED
      BY <3>1, SeqPut, PutTypes
  <2>3. ~(\/ SkipCron \/ CronTail \/ Sequencer \/ SeqNone \/ SeqEnd
          \/ SubmitEnd \/ ReadEnd \/ Open \/ OpenEnd \/ CheckEnd
          \/ NextConn \/ PageEnd \/ RobotsEnd \/ Submit)
    BY <2>1 DEF SkipCron, CronTail, Sequencer, SeqNone, SeqEnd, SubmitEnd, ReadEnd,
       Open, OpenEnd, CheckEnd, NextConn, PageEnd, RobotsEnd, Goto, Submit, NewQuery,
       controlVars
  <2>4. /\ \A v \in InputUrls, prio \in BOOLEAN, test \in InputTests : ~InputUrl(v, prio, test)
        /\ \A v \in LinkedUrls : ~PageLink(v)
        /\ \A s \in Slots : ~ReadCname(s) /\ ~ReadAns(s)
    BY <2>1 DEF InputUrl, PageLink, ReadCname, DnsCname, ReadAns, DnsAns, controlVars
  <2>5. ~Scan /\ ~Fetch
    BY <2>1 DEF Scan, ScanKeep, ScanForget, ScanTransfer, ScanEnd, Scanned, Fetch,
       FetchEmpty, FetchEarly, FetchConnect, FetchRefused, controlVars
  <2>6. ~Terminated /\ ~UNCHANGED vars
    BY <2>1 DEF Terminated, vars, controlVars
  <2>7. \E d \in Gaps : Cron(d)
    BY <2>2, <2>3, <2>4, <2>5, <2>6 DEF Next, Step
  <2>8. NothingLeft /\ UNCHANGED <<urlsDisk, urlsDiskWait, debUrl>>
    BY <2>7 DEF Cron, queueVars, statVars
  <2> QED
    BY <2>8 DEF NothingLeft
<1> QED
  BY <1>1, <1>2

LEMMA IPInvStep == IInv /\ CInv /\ IPInv /\ [Next]_vars => IPInv'
<1> SUFFICES ASSUME IInv, CInv, IPInv, [Next]_vars PROVE IPInv'
  OBVIOUS
<1>1. RingsSorted /\ CallsReturn
  BY DEF CInv
<1> QED
  BY <1>1, IPTokenStep, HashRightStep, UrlsRightStep, CallsStep, WaitingStep,
     StopTestedStep DEF IPInv

LEMMA InitIPInv == Init => IPInv
<1> SUFFICES ASSUME Init PROVE IPInv
  OBVIOUS
<1>1. IPSiteToken
  BY NoneAssumption DEF Init, IPSiteToken, IsInjective, Range
<1>2. HashRight /\ StopTested
  BY DEF Init, HashRight, StopTested
<1>3. UrlsRight
  BY DEF Init, UrlsRight
<1>4. Calls
  BY FS_EmptySet DEF Init, Calls
<1>5. Waiting
  BY CountNothing DEF Init, Waiting, Tabs
<1> QED
  BY <1>1, <1>2, <1>3, <1>4, <1>5 DEF IPInv

LEMMA IPInvariance == Spec => [](IInv /\ CInv /\ IPInv)
<1>1. Init => IInv /\ CInv /\ IPInv
  BY InitIInv, InitCInv, InitIPInv
<1>2. IInv /\ CInv /\ IPInv /\ [Next]_vars => (IInv /\ CInv /\ IPInv)'
  BY IInvStep, CInvStep, IPInvStep
<1> QED
  BY <1>1, <1>2, PTL DEF Spec
-----------------------------------------------------------------------------
LEMMA RightUrls == ASSUME IInv, UrlsRight PROVE RightIPSite
<1>1. /\ tab \in [IPs -> Seq(Urls)] /\ urlAddr \in [IPs -> Seq(Addrs \cup {None})]
      /\ \A i \in IPs : Len(urlAddr[i]) = Len(tab[i])
  BY DEF IInv, TypeOK, IPSitesOK, AddrKept
<1>2. \A i \in IPs : DOMAIN urlAddr[i] = DOMAIN tab[i]
  BY <1>1
<1>3. \A a \in Addrs : a # None
  BY NoneAssumption
<1> QED
  BY <1>2, <1>3 DEF RightIPSite, UrlsRight

\* An IPSite is under way once, with the urls of its addresses, and the numbers
\* that bound the work under way are exact.
THEOREM IPSitesKept == Spec => []IPSitesRight
<1>1. IInv /\ CInv /\ IPInv => IPSitesRight
  <2> SUFFICES ASSUME IInv, IPInv PROVE IPSitesRight
    OBVIOUS
  <2>1. RightIPSite
    BY RightUrls DEF IPInv
  <2>2. Tabs(Urls) = TotalLen(tab)
    <3>1. tab \in [IPs -> Seq(Urls)] /\ IsFiniteSet(IPs)
      BY ListTypes
    <3>2. CountsIn(tab, Urls) = SumFunction([y \in DOMAIN tab |-> Len(tab[y])])
      BY ONLY <3>1, CountsAll
    <3> QED
      BY <3>2, Zenon DEF Tabs, TotalLen
  <2> QED
    BY <2>1, <2>2 DEF IPSitesRight, BoundsExact, IPInv, Calls, Waiting
<1> QED
  BY <1>1, IPInvariance, PTL

\* No url object is left in memory or on disk.
LEMMA NothingCounted ==
    ASSUME IInv, CInv, pc = "stopped", NothingLeft
    PROVE  /\ \A s \in Slots : fifo[s] = <<>>
           /\ \A i \in IPs : tab[i] = <<>>
           /\ \A c \in Conns : parser[c] \notin Urls
           /\ accepted = reported
<1>1. /\ debUrl = Mem(Urls) + Rings(Urls) + Tabs(Urls) + 2 * Fetched(Urls) /\ debUrl = 0
      /\ urlsDisk = <<>> /\ urlsDiskWait = <<>>
  BY DEF CInv, ObjectsCounted, NothingLeft
<1>2. Mem(Urls) \in Nat /\ Rings(Urls) \in Nat /\ Tabs(Urls) \in Nat /\ Fetched(Urls) \in Nat
      /\ CountIn(urlsPriority, Urls) \in Nat /\ CountIn(urlsPriorityWait, Urls) \in Nat
  BY CountTypes
<1>3. Mem(Urls) = 0 /\ Rings(Urls) = 0 /\ Tabs(Urls) = 0 /\ Fetched(Urls) = 0
  BY <1>1, <1>2
<1>4. /\ fifo \in [Slots -> Seq(Urls)] /\ tab \in [IPs -> Seq(Urls)]
      /\ urlsPriority \in Seq(Urls) /\ urlsPriorityWait \in Seq(Urls)
      /\ parser \in [Conns -> Slots \cup Urls \cup {None}]
      /\ IsFiniteSet(Conns) /\ IsFiniteSet(Slots) /\ IsFiniteSet(IPs)
  BY ListTypes
<1>5. \A s \in Slots : fifo[s] = <<>>
  <2>1. CountsIn(fifo, Urls) = 0
    BY <1>3 DEF Rings
  <2> QED
    BY ONLY <1>4, <2>1, CountsAll
<1>6. \A i \in IPs : tab[i] = <<>>
  <2>1. CountsIn(tab, Urls) = 0
    BY <1>3 DEF Tabs
  <2> QED
    BY ONLY <1>4, <2>1, CountsAll
<1>7. {c \in DOMAIN parser : parser[c] \in Urls} = {}
  <2>1. IsFiniteSet({c \in DOMAIN parser : parser[c] \in Urls})
    BY <1>4, FS_Subset
  <2> QED
    BY <1>3, <2>1, FS_EmptySet DEF Fetched, CountIn
<1>8. urlsPriority = <<>> /\ urlsPriorityWait = <<>>
  <2>1. CountIn(urlsPriority, Urls) = 0 /\ CountIn(urlsPriorityWait, Urls) = 0
    BY <1>2, <1>3 DEF Mem
  <2>2. Len(urlsPriority) = 0 /\ Len(urlsPriorityWait) = 0
    BY <1>4, <2>1, CountAll
  <2> QED
    BY <1>4, <2>2
<1>9. ASSUME NEW u \in Urls PROVE Total({u}) = 0
  <2>1. Mem({u}) = 0 /\ Disk({u}) = 0
    BY <1>1, <1>8, CountNothing DEF Mem, Disk
  <2>2. Rings({u}) = 0 /\ Tabs({u}) = 0
    <3>1. fifo = [s \in Slots |-> <<>>] /\ tab = [i \in IPs |-> <<>>]
      BY <1>4, <1>5, <1>6
    <3> QED
      BY <3>1, CountNothing DEF Rings, Tabs
  <2>3. Fetched({u}) = 0
    <3>1. {c \in DOMAIN parser : parser[c] \in {u}} = {}
      BY <1>7
    <3> QED
      BY <3>1, FS_EmptySet DEF Fetched, CountIn
  <2> QED
    BY <2>1, <2>2, <2>3 DEF Total
<1>10. accepted = reported
  <2>1. accepted \in [Urls -> Nat] /\ reported \in [Urls -> Nat]
    BY CounterTypes
  <2>2. ASSUME NEW u \in Urls PROVE accepted[u] = reported[u]
    <3>1. accepted[u] = Total({u}) + reported[u]
      BY DEF CInv, Conserved
    <3>2. Total({u}) = 0
      BY <1>9
    <3>3. accepted[u] \in Nat /\ reported[u] \in Nat
      BY <2>1
    <3> QED
      BY ONLY <3>1, <3>2, <3>3
  <2> QED
    BY <2>1, <2>2
<1> QED
  BY <1>4, <1>5, <1>6, <1>7, <1>10

\* When the search stops by itself every url was reported and nothing is under
\* way.
THEOREM StopsWhenDone == Spec => []StopsOnlyWhenDone
<1>1. IInv /\ CInv /\ IPInv => StopsOnlyWhenDone
  <2> SUFFICES ASSUME IInv, CInv, IPInv, pc = "stopped"
               PROVE  /\ accepted = reported
                      /\ queries = {} /\ dnsSites = <<>> /\ okSites = <<>>
                      /\ \A c \in Conns : parser[c] = None
    BY DEF StopsOnlyWhenDone
  <2>1. /\ \A s \in Slots : fifo[s] = <<>>
        /\ \A i \in IPs : tab[i] = <<>>
        /\ \A c \in Conns : parser[c] \notin Urls
        /\ accepted = reported
    BY NothingCounted DEF IPInv, StopTested
  <2>2. scanSite = None
    BY DEF CInv, CallsReturn, Idle
  <2>3. ASSUME NEW s \in Slots PROVE ~InDnsSites(s) /\ ~InQueries(s) /\ ~InRobots(s)
    <3>1. OneToken(s) /\ s # None
      BY NoneAssumption DEF IInv, SiteToken
    <3> QED
      BY <2>1, <2>2, <3>1 DEF OneToken
  <2>4. queries = {} /\ \A c \in Conns : parser[c] = None
    BY <2>1, <2>3 DEF InQueries, InRobots, IInv, TypeOK, SitesOK, ConnsOK
  <2>5. dnsSites = <<>>
    <3>1. dnsSites \in Seq(Slots)
      BY DEF IInv, TypeOK, SitesOK
    <3> QED
      BY <2>3, <3>1, TailRange DEF InDnsSites
  <2>6. okSites = <<>>
    <3>1. okSites \in Seq(IPs) /\ \A i \in IPs : i \notin Range(okSites)
      BY <2>1 DEF IInv, TypeOK, IPSitesOK, IPInv, IPSiteToken
    <3> QED
      BY <3>1, TailRange
  <2> QED
    BY <2>1, <2>4, <2>5, <2>6
<1> QED
  BY <1>1, IPInvariance, PTL
-----------------------------------------------------------------------------
(***************************************************************************)
(* PageSpacing: two pages are never asked to one server within             *)
(* waitDuration.  The clock of a server is never behind lastAccess of the  *)
(* IPSite its urls wait in, and fetch looks at lastAccess.                 *)
(***************************************************************************)
\* The IPSite the urls of server v wait in.
SiteOf(v) == IF UseProxy THEN SlotHash[SlotOf[v]] ELSE IPHashOf[v]

ClockTypes == sincePage \in [Servers -> 0 .. WaitDuration]
NotBehind == \A v \in Servers : idle[SiteOf(v)] <= sincePage[v]

PInv == IInv /\ CInv /\ IPInv /\ ClockTypes /\ NotBehind

LEMMA SiteOfType == ASSUME NEW v \in Servers PROVE SiteOf(v) \in IPs
  BY AddressAssumption, UrlsAssumption DEF SiteOf, Servers

\* lastAccess of an IPSite changes when it opens a connection, or with time.
LEMMA IdleChange ==
    ASSUME IInv, Step
    PROVE  UNCHANGED idle \/ \E i \in IPs : FetchConnect(i)
<1>1. CASE SkipCron \/ CronTail \/ Sequencer \/ SeqEnd \/ SeqNone
  BY <1>1 DEF SkipCron, CronTail, Sequencer, SeqEnd, SeqNone, timeVars
<1>2. CASE SubmitEnd \/ ReadEnd \/ OpenEnd \/ CheckEnd \/ NextConn \/ Open
  BY <1>2 DEF SubmitEnd, ReadEnd, OpenEnd, CheckEnd, NextConn, Goto, Open, timeVars
<1>3. CASE RobotsEnd \/ PageEnd \/ Terminated
  BY <1>3 DEF RobotsEnd, PageEnd, Terminated, vars, timeVars
<1>4. CASE Submit
  BY <1>4 DEF Submit, NewQuery, NewId
<1>5. CASE SeqPriorityWait \/ SeqPriority \/ SeqDiskWait \/ SeqDisk
  BY <1>5 DEF SeqPriorityWait, SeqPriority, SeqDiskWait, SeqDisk, Sequenced, timeVars
<1>6. CASE \E v \in InputUrls, prio \in BOOLEAN, test \in InputTests :
               InputUrl(v, prio, test)
  BY <1>6 DEF InputUrl, Enter, timeVars
<1>7. CASE \E v \in LinkedUrls : PageLink(v)
  BY <1>7 DEF PageLink, Enter, timeVars
<1>8. CASE \E s \in Slots : ReadCname(s) \/ ReadAns(s)
  BY <1>8 DEF ReadCname, ReadAns, DnsCname, DnsAns, timeVars
<1>9. CASE \E i \in IPs : FetchEmpty(i) \/ FetchEarly(i) \/ FetchRefused(i)
  BY <1>9 DEF FetchEmpty, FetchEarly, FetchRefused, timeVars
<1>10. CASE Scan
  BY <1>10 DEF Scan, ScanKeep, ScanForget, ScanTransfer, ScanEnd, Scanned, timeVars
<1> QED
  BY <1>1, <1>2, <1>3, <1>4, <1>5, <1>6, <1>7, <1>8, <1>9, <1>10 DEF Step, Fetch

\* A page is asked for by IPSite::fetch and nothing else.
LEMMA OnlyFetchOpens ==
    ASSUME IInv, Step, NEW c \in Conns, parser[c] = None, parser'[c] \in Urls
    PROVE  \E i \in IPs : /\ FetchConnect(i)
                          /\ parser'[c] = Head(tab[i])
<1>0. parser \in [Conns -> Slots \cup Urls \cup {None}]
  BY DEF IInv, TypeOK, ConnsOK
<1>1. None \notin Urls
  BY NoneAssumption
<1>2. ASSUME UNCHANGED parser PROVE FALSE
  BY <1>1, <1>2
<1>3. ASSUME NEW d \in Conns, NEW x \in Slots \cup {None},
             parser' = [parser EXCEPT ![d] = x]
      PROVE  FALSE
  <2>1. x \notin Urls
    BY <1>1, ParserAssumption
  <2>2. parser'[c] \in {parser[c], x}
    BY <1>0, <1>3
  <2> QED
    BY <1>1, <2>1, <2>2
<1>4. ASSUME NEW s \in Slots, DnsOK(s) \/ DnsError(s) \/ UNCHANGED connVars,
             freeConns # <<>>
      PROVE  FALSE
  <2>1. Head(freeConns) \in Conns
    BY <1>4, FreeConn
  <2>2. UNCHANGED parser \/ parser' = [parser EXCEPT ![Head(freeConns)] = s]
    BY <1>4 DEF DnsOK, DnsError, connVars
  <2> QED
    BY <1>2, <1>3, <2>1, <2>2
<1>5. CASE Submit
  <2>1. Head(dnsSites) \in Slots /\ freeConns # <<>>
    BY <1>5, SubmitHead DEF Submit, MaySubmit, Idle
  <2> QED
    BY <1>4, <1>5, <2>1, SubmitBranches
<1>6. CASE \E s \in Slots : ReadAns(s)
  BY <1>4, <1>6 DEF ReadAns, MayRead, DnsAns
<1>7. CASE PageEnd
  <2>1. ci \in Conns /\ parser' = [parser EXCEPT ![ci] = None]
    BY <1>7 DEF PageEnd, AtConn, IInv, TypeOK, ControlOK, Conns
  <2> QED
    BY <1>3, <2>1
<1>8. CASE \E s \in Slots : ScanEnd(s)
  <2>1. PICK s \in Slots : ScanEnd(s)
    BY <1>8
  <2>2. CASE pc \in {"timeouts", "checkAll"}
    <3>1. ci \in Conns /\ parser' = [parser EXCEPT ![ci] = None]
      BY <2>1, <2>2, NoneAssumption DEF ScanEnd, IInv, ScanBounded
    <3> QED
      BY <1>3, <3>1
  <2>3. CASE pc \notin {"timeouts", "checkAll"}
    BY <1>2, <2>1, <2>3 DEF ScanEnd, connVars
  <2> QED
    BY <2>2, <2>3
<1>9. CASE \E i \in IPs : FetchRefused(i)
  BY <1>2, <1>9 DEF FetchRefused
<1>10. CASE \E i \in IPs : FetchConnect(i)
  <2>1. PICK i \in IPs : FetchConnect(i)
    BY <1>10
  <2>2. parser' = [parser EXCEPT ![Head(freeConns)] = Head(tab[i])]
    BY <2>1 DEF FetchConnect
  <2>3. parser'[c] = parser[c] \/ parser'[c] = Head(tab[i])
    BY <1>0, <2>2
  <2> QED
    BY <1>1, <2>1, <2>3
<1>11. CASE UNCHANGED connVars
  BY <1>2, <1>11 DEF connVars
<1> QED
  BY <1>5, <1>6, <1>7, <1>8, <1>9, <1>10, <1>11, ConnFrame DEF Next

\* The server of a page is that of the IPSite that asks for it, and this
\* IPSite has rested.
LEMMA PageCallRested ==
    ASSUME PInv, Step, NEW v \in Servers, PageCall(v)
    PROVE  FetchConnect(SiteOf(v)) /\ idle[SiteOf(v)] = WaitDuration
<1>1. PICK c \in Conns : /\ parser[c] = None /\ parser'[c] \in Urls
                         /\ v = IF UseProxy THEN HostOf[parser'[c]]
                                ELSE Head(urlAddr[fetching])
  BY DEF PageCall, Opened
<1>2. PICK i \in IPs : FetchConnect(i) /\ parser'[c] = Head(tab[i])
  BY <1>1, OnlyFetchOpens DEF PInv
<1>3. fetching = i /\ tab[i] # <<>> /\ Rested(i)
  BY <1>2 DEF FetchConnect
<1>4. /\ tab[i] \in Seq(Urls) /\ urlAddr[i] \in Seq(Addrs \cup {None})
      /\ Len(urlAddr[i]) = Len(tab[i])
  BY DEF PInv, IInv, TypeOK, IPSitesOK, AddrKept
<1>5. 1 \in DOMAIN tab[i] /\ Head(tab[i]) = tab[i][1] /\ Head(urlAddr[i]) = urlAddr[i][1]
  BY <1>3, <1>4
<1>6. SiteOf(v) = i
  <2>1. IF UseProxy THEN SlotHash[SlotOf[HostOf[tab[i][1]]]] = i
        ELSE urlAddr[i][1] \in Addrs /\ IPHashOf[urlAddr[i][1]] = i
    BY <1>5 DEF PInv, IPInv, UrlsRight
  <2> QED
    BY <1>1, <1>2, <1>3, <1>5, <2>1 DEF SiteOf
<1>7. idle[i] \in 0 .. WaitDuration /\ WaitDuration \in Nat
  BY TimeAssumption DEF PInv, IInv, TypeOK, TimeOK
<1>8. idle[i] = WaitDuration
  BY <1>3, <1>7 DEF Rested
<1> QED
  BY <1>2, <1>6, <1>8
-----------------------------------------------------------------------------
(***************************************************************************)
(* The clocks along a step.                                                *)
(***************************************************************************)
LEMMA ClocksOfStep ==
    ASSUME PInv, Step,
           sincePage' = [v \in Servers |-> IF PageCall(v) THEN 0 ELSE sincePage[v]]
    PROVE  ClockTypes' /\ NotBehind'
<1>1. /\ sincePage \in [Servers -> 0 .. WaitDuration]
      /\ idle \in [IPs -> 0 .. WaitDuration] /\ WaitDuration \in Nat
  BY TimeAssumption DEF PInv, ClockTypes, IInv, TypeOK, TimeOK
<1>2. ClockTypes'
  BY <1>1 DEF ClockTypes
<1>3. ASSUME NEW v \in Servers PROVE idle'[SiteOf(v)] <= sincePage'[v]
  <2>1. SiteOf(v) \in IPs
    BY SiteOfType
  <2>2. idle[SiteOf(v)] <= sincePage[v]
    BY DEF PInv, NotBehind
  <2>3. CASE PageCall(v)
    <3>1. FetchConnect(SiteOf(v))
      BY <2>3, PageCallRested
    <3>2. idle'[SiteOf(v)] = 0
      BY <1>1, <2>1, <3>1 DEF FetchConnect
    <3>3. sincePage'[v] = 0
      BY <2>3
    <3> QED
      BY <3>2, <3>3
  <2>4. CASE ~PageCall(v)
    <3>1. idle'[SiteOf(v)] \in {idle[SiteOf(v)], 0}
      <4>1. CASE UNCHANGED idle
        BY <4>1
      <4>2. ASSUME NEW i \in IPs, FetchConnect(i)
            PROVE  idle'[SiteOf(v)] \in {idle[SiteOf(v)], 0}
        <5>1. idle' = [idle EXCEPT ![i] = 0]
          BY <4>2 DEF FetchConnect
        <5> QED
          BY <1>1, <2>1, <5>1
      <4> QED
        BY <4>1, <4>2, IdleChange DEF PInv
    <3>2. sincePage'[v] = sincePage[v]
      BY <2>4
    <3>3. sincePage[v] \in 0 .. WaitDuration
      BY <1>1
    <3> QED
      BY <1>1, <2>2, <3>1, <3>2, <3>3
  <2> QED
    BY <2>3, <2>4
<1>4. ASSUME NEW v \in Servers PROVE SiteOf(v)' = SiteOf(v)
  BY DEF SiteOf
<1> QED
  BY <1>2, <1>3, <1>4 DEF NotBehind

LEMMA AgedBounds ==
    ASSUME NEW x \in 0 .. WaitDuration, NEW y \in 0 .. WaitDuration, x <= y,
           NEW d \in Gaps
    PROVE  /\ Aged(x, d, WaitDuration) <= Aged(y, d, WaitDuration)
           /\ Aged(y, d, WaitDuration) \in 0 .. WaitDuration
<1>1. d \in Nat /\ WaitDuration \in Nat
  BY TimeAssumption
<1> QED
  BY <1>1 DEF Aged

LEMMA ClocksOfCron ==
    ASSUME PInv, NEW d \in Gaps, Cron(d),
           sincePage' = [v \in Servers |-> Aged(sincePage[v], d, WaitDuration)]
    PROVE  ClockTypes' /\ NotBehind'
<1>1. /\ sincePage \in [Servers -> 0 .. WaitDuration]
      /\ idle \in [IPs -> 0 .. WaitDuration]
      /\ idle' = [i \in IPs |-> Aged(idle[i], d, WaitDuration)]
  BY DEF PInv, ClockTypes, IInv, TypeOK, TimeOK, Cron
<1>2. ASSUME NEW v \in Servers
      PROVE  /\ idle'[SiteOf(v)] <= sincePage'[v]
             /\ sincePage'[v] \in 0 .. WaitDuration
  <2>1. SiteOf(v) \in IPs
    BY SiteOfType
  <2>2. idle[SiteOf(v)] <= sincePage[v]
    BY DEF PInv, NotBehind
  <2>3. idle[SiteOf(v)] \in 0 .. WaitDuration /\ sincePage[v] \in 0 .. WaitDuration
    BY <1>1, <2>1
  <2>4. /\ idle'[SiteOf(v)] = Aged(idle[SiteOf(v)], d, WaitDuration)
        /\ sincePage'[v] = Aged(sincePage[v], d, WaitDuration)
    BY <1>1, <2>1
  <2> QED
    BY <2>2, <2>3, <2>4, AgedBounds
<1>3. ClockTypes'
  BY <1>2 DEF ClockTypes
<1>4. ASSUME NEW v \in Servers PROVE SiteOf(v)' = SiteOf(v)
  BY DEF SiteOf
<1> QED
  BY <1>2, <1>3, <1>4 DEF NotBehind

LEMMA PInvStep == PInv /\ [PNext]_politeVars => PInv'
<1> SUFFICES ASSUME PInv, [PNext]_politeVars PROVE PInv'
  OBVIOUS
<1>1. [Next]_vars
  BY DEF PNext, Next, politeVars
<1>2. IInv' /\ CInv' /\ IPInv'
  BY <1>1, IInvStep, CInvStep, IPInvStep DEF PInv
<1>3. ClockTypes' /\ NotBehind'
  <2>1. CASE UNCHANGED politeVars
    <3>1. idle' = idle /\ sincePage' = sincePage
      BY <2>1 DEF politeVars, vars, timeVars
    <3> QED
      BY <3>1 DEF PInv, ClockTypes, NotBehind, SiteOf
  <2>2. CASE PNext
    BY <2>2, ClocksOfStep, ClocksOfCron DEF PNext
  <2> QED
    BY <2>1, <2>2
<1> QED
  BY <1>2, <1>3 DEF PInv

LEMMA InitPInv == PInit => PInv
<1> SUFFICES ASSUME PInit PROVE PInv
  OBVIOUS
<1>1. IInv /\ CInv /\ IPInv
  BY InitIInv, InitCInv, InitIPInv DEF PInit
<1>2. ClockTypes
  BY TimeAssumption DEF PInit, ClockTypes
<1>3. ASSUME NEW v \in Servers PROVE idle[SiteOf(v)] <= sincePage[v]
  <2>1. SiteOf(v) \in IPs
    BY SiteOfType
  <2>2. idle[SiteOf(v)] = WaitDuration /\ sincePage[v] = WaitDuration
    BY <2>1 DEF PInit, Init
  <2> QED
    BY <2>2, TimeAssumption
<1> QED
  BY <1>1, <1>2, <1>3 DEF PInv, NotBehind

\* Two pages are never asked to one server within waitDuration, for any
\* number of sites, addresses and connections, with a proxy or without.
THEOREM PagesSpaced == PSpec => PageSpacing
<1> DEFINE Spaced == \A v \in Servers : PageCall(v) => sincePage[v] = WaitDuration
<1>1. PInv /\ [PNext]_politeVars => [Spaced]_politeVars
  <2> SUFFICES ASSUME PInv, PNext, NEW v \in Servers, PageCall(v)
               PROVE  sincePage[v] = WaitDuration
    OBVIOUS
  <2>1. CASE Step
    <3>1. idle[SiteOf(v)] = WaitDuration /\ idle[SiteOf(v)] <= sincePage[v]
      BY <2>1, PageCallRested DEF PInv, NotBehind
    <3>2. sincePage[v] \in 0 .. WaitDuration /\ WaitDuration \in Nat
      BY TimeAssumption DEF PInv, ClockTypes
    <3> QED
      BY <3>1, <3>2
  <2>2. ASSUME NEW d \in Gaps, Cron(d) PROVE FALSE
    <3>1. parser' = parser
      BY <2>2 DEF Cron, connVars
    <3> QED
      BY <3>1, NoneAssumption DEF PageCall, Opened
  <2> QED
    BY <2>1, <2>2 DEF PNext
<1> QED
  BY <1>1, PInvStep, InitPInv, PTL DEF PSpec, PageSpacing
=============================================================================
