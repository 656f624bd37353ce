-------------------------------- MODULE IPSite --------------------------------
(***************************************************************************)
(* class IPSite (fetch/site.cxx): the urls of one internet address, put in *)
(* okSites when the server may be called again, and fetched over a free    *)
(* connection.  getFds (socket and connect) either starts a connection or  *)
(* fails at once; which one is the operating system's choice.              *)
(***************************************************************************)
EXTENDS CrawlBase

\* (of PutUrl) No free connection is needed.
PutUrlAnyConn(i, u) ==
    /\ tab' = [tab EXCEPT ![i] = Append(@, u)]
    /\ IPUrl' = IPUrl + 1
    /\ ipQueued' = [ipQueued EXCEPT ![i] = TRUE]
    /\ okSites' = IF ipQueued[i] \/ Rested(i) THEN okSites ELSE Append(okSites, i)
    /\ fetching' = IF ipQueued[i] \/ ~Rested(i) THEN fetching ELSE i

\* IPSite::putUrl: keep u, and start fetching if this site is not queued yet
\* and the delay since the last access is over.
PutUrl(i, u) ==
    /\ tab' = [tab EXCEPT ![i] = Append(@, u)]
    /\ IPUrl' = IPUrl + 1
    /\ ipQueued' = [ipQueued EXCEPT ![i] = TRUE]
    /\ \/ ipQueued[i] /\ UNCHANGED <<okSites, fetching>>
       \/ /\ ~ipQueued[i] /\ Rested(i) /\ freeConns # <<>>
          /\ fetching' = i
          /\ UNCHANGED okSites
       \/ /\ ~ipQueued[i] /\ ~(Rested(i) /\ freeConns # <<>>)
          /\ okSites' = Append(okSites, i)
          /\ UNCHANGED fetching

\* (of GetUrl) nburls of the site is forgotten.
GetUrlNoSite(i) ==
    /\ tab' = [tab EXCEPT ![i] = Tail(@)]
    /\ urlAddr' = [urlAddr EXCEPT ![i] = Tail(@)]
    /\ IPUrl' = IPUrl - 1
    /\ interPos' = interPos - 1
    /\ UNCHANGED nburls

\* IPSite::getUrl: the head of tab leaves memory.
GetUrl(i) ==
    LET u == Head(tab[i]) IN
    /\ tab' = [tab EXCEPT ![i] = Tail(@)]
    /\ urlAddr' = [urlAddr EXCEPT ![i] = Tail(@)]
    /\ IPUrl' = IPUrl - 1
    /\ nburls' = [nburls EXCEPT ![SlotOf[HostOf[u]]] = @ - 1]
    /\ interPos' = interPos - 1

\* fetch: no more url to read, possible because fetch calls itself.
FetchEmpty(i) ==
    /\ fetching = i
    /\ tab[i] = <<>>
    /\ ipQueued' = [ipQueued EXCEPT ![i] = FALSE]
    /\ fetching' = None
    /\ UNCHANGED <<timeVars, queueVars, intervalVars, siteVars, dnsVars,
                   tab, okSites, IPUrl, urlAddr, connVars, statVars,
                   pc, ci, parsing, scanSite, scanLeft>>

\* fetch: too early, the site goes back to the head and its time of call is
\* what fetchOpen keeps in next_call.
FetchEarly(i) ==
    /\ fetching = i
    /\ tab[i] # <<>>
    /\ ~Rested(i)
    /\ okSites' = <<i>> \o okSites
    /\ callIn' = WaitDuration - idle[i]
    /\ fetching' = None
    /\ UNCHANGED <<clock, idle, dnsAge, queueVars, intervalVars, siteVars,
                   dnsVars, tab, ipQueued, IPUrl, urlAddr, connVars, statVars,
                   pc, ci, parsing, scanSite, scanLeft>>

\* fetch: the connection to the address of the first url is under way; the
\* constructor of html makes a second url object, its base.
FetchConnect(i) ==
    LET u == Head(tab[i])
        c == Head(freeConns)
    IN  /\ fetching = i
        /\ tab[i] # <<>>
        /\ Rested(i)
        /\ GetUrl(i)
        /\ freeConns' = Tail(freeConns)
        /\ parser' = [parser EXCEPT ![c] = u]
        /\ idle' = [idle EXCEPT ![i] = 0]
        /\ debUrl' = debUrl + 1
        /\ fetching' = None
        /\ IF Len(tab[i]) = 1
           THEN /\ ipQueued' = [ipQueued EXCEPT ![i] = FALSE]
                /\ UNCHANGED okSites
           ELSE /\ okSites' = Append(okSites, i)
                /\ UNCHANGED ipQueued
        /\ UNCHANGED <<clock, dnsAge, callIn, queueVars, space, still,
                       testPriority, identityVars, fifo, isInFifo, dnsVars,
                       namedUrl, accepted, reported,
                       pc, ci, parsing, scanSite, scanLeft>>

\* fetch: no socket or connect fails at once; the url is over, the
\* connection goes back, and fetch calls itself.
FetchRefused(i) ==
    LET u == Head(tab[i]) IN
    /\ fetching = i
    /\ tab[i] # <<>>
    /\ Rested(i)
    /\ GetUrl(i)
    /\ freeConns' = Append(Tail(freeConns), Head(freeConns))
    /\ debUrl' = debUrl - 1
    /\ Report(u)
    /\ UNCHANGED <<timeVars, queueVars, space, still, testPriority,
                   identityVars, fifo, isInFifo, dnsVars, ipQueued, okSites,
                   parser, namedUrl, accepted, controlVars>>

Fetch == \E i \in IPs :
             FetchEmpty(i) \/ FetchEarly(i) \/ FetchConnect(i) \/ FetchRefused(i)
=============================================================================
