------------------------------ MODULE Politeness ------------------------------
(***************************************************************************)
(* How often the crawler calls a server, told from outside: two clocks for *)
(* each server, independent of IPSite::lastAccess, measure the time since  *)
(* the last connection to it, for a page and for anything.  A server is an *)
(* internet address, or with a proxy the host the proxy is asked for.      *)
(***************************************************************************)
EXTENDS Crawler

VARIABLES
    sincePage,  \* seconds since a connection was opened to fetch a page
    sinceCall   \* the same for a page or a robots.txt

politeVars == <<vars, sincePage, sinceCall>>

Servers == IF UseProxy THEN Hosts ELSE Addrs

\* A connection to server v is opened by this step.
Opened(c) == parser[c] = None /\ parser'[c] # None
PageCall(v) ==
    \E c \in Conns :
        /\ Opened(c) /\ parser'[c] \in Urls
        /\ v = IF UseProxy THEN HostOf[parser'[c]] ELSE Head(urlAddr[fetching])
RobotsCall(v) ==
    \E c \in Conns :
        /\ Opened(c) /\ parser'[c] \in Slots
        /\ v = IF UseProxy THEN name'[parser'[c]] ELSE addr'[parser'[c]]

PInit ==
    /\ Init
    /\ sincePage = [v \in Servers |-> WaitDuration]
    /\ sinceCall = [v \in Servers |-> WaitDuration]

PNext ==
    \/ /\ Step
       /\ sincePage' = [v \in Servers |-> IF PageCall(v) THEN 0 ELSE sincePage[v]]
       /\ sinceCall' = [v \in Servers |-> IF PageCall(v) \/ RobotsCall(v)
                                          THEN 0 ELSE sinceCall[v]]
    \/ \E d \in Gaps :
       /\ Cron(d)
       /\ sincePage' = [v \in Servers |-> Aged(sincePage[v], d, WaitDuration)]
       /\ sinceCall' = [v \in Servers |-> Aged(sinceCall[v], d, WaitDuration)]

PSpec == PInit /\ [][PNext]_politeVars

\* Two pages are never asked to the same server within waitDuration, even
\* if two NamedSites share it, their urls meet in one IPSite, the first
\* connection was refused, or fetch ran from a scan or from the sequencer.
PageSpacing ==
    [][\A v \in Servers : PageCall(v) => sincePage[v] = WaitDuration]_politeVars

\* "time between 2 calls on the same server" (larbin.conf): no two calls of
\* any kind come within waitDuration.
CallSpacing ==
    [][\A v \in Servers : PageCall(v) \/ RobotsCall(v)
                              => sinceCall[v] = WaitDuration]_politeVars
=============================================================================
