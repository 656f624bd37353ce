------------------------------ MODULE Resolver ------------------------------
(***************************************************************************)
(* The resolver of src/adns as larbin uses it: adns_submit of an address   *)
(* query, adns_check once a turn. Both run adns_processany: timeouts, then *)
(* the UDP socket, then the TCP connection. A reply of a server may be     *)
(* lost, late, repeated or out of order; a TCP connection may hang, fail   *)
(* or break. One record `ads' is the adns__state with the kernel's side of *)
(* its sockets; the functions of the source map it to its possible values. *)
(***************************************************************************)
EXTENDS Integers, Sequences, FiniteSets, SequencesExt

CONSTANTS Queries, NServers,
          UdpRetry, UdpMaxRetries,           \* UDPRETRYMS, UDPMAXRETRIES
          TcpWait, TcpConn, TcpIdle,         \* TCPWAITMS, TCPCONNMS, TCPIDLEMS
          Zone,                              \* the replies each query may get
          Measured,                          \* the queries whose age is kept
          TcpTruncates                       \* servers truncate over TCP too

\* A reply may start with a CNAME; its body has the addresses, an error or
\* nothing (fail), is truncated, or refers to other servers.
Replies == [cname : BOOLEAN, body : {"ok", "fail", "truncated", "referral"}]

ASSUME ResolverAssumption ==
    /\ NServers \in Nat \ {0} /\ UdpMaxRetries \in Nat \ {0}
    /\ {UdpRetry, TcpWait, TcpConn, TcpIdle} \subseteq Nat
    /\ TcpTruncates \in BOOLEAN /\ Zone \in [Queries -> SUBSET Replies]
    /\ Measured \subseteq Queries

VARIABLES ads,
          pc, caller,  \* where the thread is; which call it is in
          fds,         \* events adns_processany still tries
          fresh        \* the sockets were tried since the last tick

vars == <<ads, pc, caller, fds, fresh>>

Servers == 0 .. NServers - 1
NoTime == -2           \* a timer not set; a timer runs down and expires at -1

NewQuery == [state |-> "none", status |-> "none", retries |-> 0, next |-> 0,
             sent |-> {}, timer |-> NoTime, usevc |-> FALSE, cname |-> FALSE,
             id |-> 0, age |-> 0]

\* id: the ids a query has had, in order; asked: the ids that reached a server
\* by UDP; onTcp: by this connection; tcpsend: those still in the buffer.
Init ==
    /\ ads = [udpw |-> <<>>, tcpw |-> <<>>, output |-> <<>>,
              q |-> [x \in Queries |-> NewQuery],
              tcp |-> "disconnected", tcpserver |-> 0, tcptimeout |-> NoTime,
              tcpsend |-> {}, sock |-> "none", onTcp |-> {}, asked |-> {}]
    /\ pc = "idle" /\ caller = "check" /\ fds = {} /\ fresh = TRUE
-----------------------------------------------------------------------------
\* adns__query_done; with adns__query_fail the status is an error.
Done(R, x, st) ==
    [R EXCEPT !.q[x] = [R.q[x] EXCEPT !.state = "done", !.status = st, !.timer = NoTime],
              !.output = Append(@, x)]

\* adns__tcp_broken: a connection that never was counts as a try of all that
\* wait for it.
Broken(R) ==
    [R EXCEPT !.sock = "none", !.tcp = "broken", !.tcpsend = {}, !.onTcp = {},
              !.tcpserver = (@ + 1) % NServers,
              !.q = [x \in Queries |-> IF R.tcp = "connecting" /\ Contains(R.tcpw, x)
                                       THEN [R.q[x] EXCEPT !.retries = @ + 1] ELSE R.q[x]]]

\* The elements of s that are in S, in their order.
Only(s, S) ==
    LET f[i \in 0 .. Len(s)] ==
          IF i = 0 THEN <<>>
          ELSE IF s[i] \in S THEN Append(f[i - 1], s[i]) ELSE f[i - 1]
    IN f[Len(s)]

\* tcp_broken_events: queries that tried every server fail. A mutant keeps
\* them for one more.
ExhaustedLate(R, x) == R.q[x].retries > NServers + 1
Exhausted(R, x) == R.q[x].retries > NServers
BrokenEvents(R) ==
    LET Dead == {x \in ToSet(R.tcpw) : Exhausted(R, x)}
    IN [R EXCEPT !.tcp = "disconnected",
                 !.tcpw = Only(@, Queries \ Dead), !.output = @ \o Only(R.tcpw, Dead),
                 !.q = [x \in Queries |-> IF x \in Dead
                                          THEN [R.q[x] EXCEPT !.state = "done", !.timer = NoTime,
                                                            !.status = "allservfail"]
                                          ELSE R.q[x]]]

\* adns__querysend_tcp: written at once, left in the buffer, or the
\* connection proves broken.
SendTcp(R, x) ==
    LET S == [R EXCEPT !.q[x].retries = @ + 1, !.tcptimeout = NoTime]
        m == <<x, R.q[x].id>>
        Buffered == [S EXCEPT !.tcpsend = @ \union {m}]
    IN CASE R.tcp # "ok" -> {R}
         [] R.tcp = "ok" /\ (R.tcpsend # {} \/ R.sock = "syn") -> {Buffered}
         [] R.tcp = "ok" /\ R.tcpsend = {} /\ R.sock = "up" ->
              {Buffered, [S EXCEPT !.onTcp = @ \union {m}]}
         [] OTHER -> {S, Broken(S)}

\* tcp_connected: all that wait are sent, while the connection holds.
Connected(R) ==
    LET f[i \in 0 .. Len(R.tcpw)] ==
          IF i = 0 THEN {[R EXCEPT !.tcp = "ok"]}
                   ELSE UNION {SendTcp(S, R.tcpw[i]) : S \in f[i - 1]}
    IN f[Len(R.tcpw)]

\* adns__tcp_tryconnect: connect may fail for some servers at once; then one
\* is connected or connecting, or all have been tried.
TryConnect(R) ==
    LET f[n \in 0 .. NServers] ==
          IF n = 0 THEN R ELSE BrokenEvents(Broken([f[n - 1] EXCEPT !.tcp = "connecting"]))
    IN IF R.tcp # "disconnected" THEN {R}
       ELSE {f[NServers]}
            \union UNION {{[f[n] EXCEPT !.tcp = "connecting", !.sock = "syn", !.tcptimeout = TcpConn]}
                          \union Connected([f[n] EXCEPT !.sock = "up"]) : n \in 0 .. NServers - 1}

\* query_usetcp
UseTcp(R, x) ==
    LET q == [R.q[x] EXCEPT !.state = "tcpw", !.timer = TcpWait]
    IN UNION {TryConnect(S) : S \in SendTcp([R EXCEPT !.q[x] = q, !.tcpw = Append(@, x)], x)}

\* The server of the next try, and a mutant: the first again.
SameServer(s) == s
NextServer(s) == (s + 1) % NServers

\* adns__query_send
QuerySend(R, x) ==
    LET q == R.q[x] IN
    CASE q.usevc -> UseTcp(R, x)
      [] ~q.usevc /\ q.retries >= UdpMaxRetries -> {Done(R, x, "timeout")}
      [] OTHER -> {[R EXCEPT !.q[x] = [q EXCEPT !.state = "udpw", !.timer = UdpRetry,
                                               !.sent = q.sent \union {q.next},
                                               !.retries = q.retries + 1,
                                               !.next = NextServer(q.next)],
                             !.asked = @ \union {<<x, q.id, q.next>>},
                             !.udpw = Append(@, x)]}
-----------------------------------------------------------------------------
\* adns__procdgram for a query taken off its queue.

\* The query starts again, at the canonical name with a new id.
NewId(q) == IF q.cname THEN q.id + 1 ELSE q.id

Restart(R, x, q) ==
    QuerySend([R EXCEPT !.q[x] = [q EXCEPT !.id = NewId(q), !.retries = 0,
                                           !.state = "tosend"]], x)

\* Only one CNAME is followed.
SecondCname(q, rep) == rep.cname /\ q.cname
Process(R, x, rep) ==
    LET q == [R.q[x] EXCEPT !.cname = @ \/ rep.cname] IN
    CASE rep.body = "fail" -> {Done(R, x, "failed")}
      [] rep.body # "fail" /\ SecondCname(R.q[x], rep) -> {Done(R, x, "prohibitedcname")}
      [] OTHER ->
           CASE rep.body = "ok" -> {Done([R EXCEPT !.q[x] = q], x, "ok")}
             [] rep.body = "truncated" -> Restart(R, x, [q EXCEPT !.usevc = TRUE])
             [] rep.body = "referral" /\ rep.cname -> Restart(R, x, q)
             [] OTHER -> {Done(R, x, "failed")}

\* The query leaves its queue; a mutant takes it off udpw only.
UnlinkUdp(R, x) == [R EXCEPT !.udpw = Only(@, Queries \ {x})]
Unlink(R, x) == [R EXCEPT !.udpw = Only(@, Queries \ {x}), !.tcpw = Only(@, Queries \ {x})]
-----------------------------------------------------------------------------
\* Calls of larbin.

\* adns_submit; a name that is no domain fails at once.
Submit(x) ==
    /\ pc = "idle" /\ ads.q[x].state = "none"
    /\ ads' \in QuerySend([ads EXCEPT !.q[x].state = "tosend"], x)
                  \union {Done(ads, x, "failed")}
    /\ pc' = "timeouts" /\ caller' = "submit" /\ UNCHANGED <<fds, fresh>>

\* adns_check, called while queries are outstanding.
Outstanding == {x \in Queries : ads.q[x].state \notin {"none", "taken"}}
Check == /\ pc = "idle" /\ Outstanding # {}
         /\ pc' = "timeouts" /\ caller' = "check" /\ UNCHANGED <<ads, fds, fresh>>
-----------------------------------------------------------------------------
\* adns__timeouts: udpw, then tcpw, then tcp_events until it returns.

\* (A mutant does not time out what an established connection was sent.)
Late(x) == ads.q[x].timer = -1
LateUdp == \E i \in 1 .. Len(ads.udpw) : Late(ads.udpw[i])
LateTcpDown == ads.tcp # "ok" /\ \E i \in 1 .. Len(ads.tcpw) : Late(ads.tcpw[i])
LateTcp == \E i \in 1 .. Len(ads.tcpw) : Late(ads.tcpw[i])
First(s) == s[CHOOSE i \in 1 .. Len(s) : Late(s[i]) /\ \A j \in 1 .. i - 1 : ~Late(s[j])]

ExpireUdp == /\ pc = "timeouts" /\ LateUdp
             /\ LET x == First(ads.udpw) IN ads' \in QuerySend(Unlink(ads, x), x)
             /\ UNCHANGED <<pc, caller, fds, fresh>>

ExpireTcp == /\ pc = "timeouts" /\ ~LateUdp /\ LateTcp
             /\ LET x == First(ads.tcpw) IN ads' = Done(Unlink(ads, x), x, "timeout")
             /\ UNCHANGED <<pc, caller, fds, fresh>>

TcpEvents == pc = "timeouts" /\ ~LateUdp /\ ~LateTcp /\ UNCHANGED <<caller, fresh>>

\* The connection broke, or queries wait for one.
TcpConnect == /\ TcpEvents /\ ads.tcp \in {"broken", "disconnected"}
              /\ ads.tcp = "broken" \/ ads.tcpw # <<>>
              /\ LET R == IF ads.tcp = "broken" THEN BrokenEvents(ads) ELSE ads
                 IN ads' \in (IF R.tcpw = <<>> THEN {R} ELSE TryConnect(R))
              /\ UNCHANGED <<pc, fds>>

TcpConnTimeout == /\ TcpEvents /\ ads.tcp = "connecting" /\ ads.tcptimeout = -1
                  /\ ads' = Broken(ads) /\ UNCHANGED <<pc, fds>>

\* adns__pollfds: the events adns_processany is going to try.
Events(R) == {"udp"} \union (CASE R.tcp = "connecting" -> {"connect"}
                               [] R.tcp = "ok" -> IF R.tcpsend = {} THEN {"read"} ELSE {"read", "write"}
                               [] OTHER -> {})

\* tcp_events returns: an idle connection gets a time to live, or is closed.
TcpReturn ==
    /\ TcpEvents /\ ~(ads.tcp \in {"broken", "disconnected"} /\ (ads.tcp = "broken" \/ ads.tcpw # <<>>))
    /\ ~(ads.tcp = "connecting" /\ ads.tcptimeout = -1)
    /\ LET idle == ads.tcp = "ok" /\ ads.tcpw = <<>>
           R == CASE idle /\ ads.tcptimeout = NoTime -> [ads EXCEPT !.tcptimeout = TcpIdle]
                  [] idle /\ ads.tcptimeout = -1 ->
                       [ads EXCEPT !.tcp = "disconnected", !.sock = "none", !.tcpsend = {}, !.onTcp = {}]
                  [] OTHER -> ads
       IN ads' = R /\ fds' = Events(R)
    /\ pc' = "events"
-----------------------------------------------------------------------------
\* adns__fdevents

Event(e) == pc = "events" /\ e \in fds /\ UNCHANGED <<pc, caller, fresh>>

\* A reply by UDP counts for a query of this id that this server was sent.
Matches(x, id) == ads.q[x].id = id
ReadUdp == /\ Event("udp")
           /\ \E a \in ads.asked : \E rep \in Zone[a[1]] :
                /\ Contains(ads.udpw, a[1]) /\ Matches(a[1], a[2]) /\ a[3] \in ads.q[a[1]].sent
                /\ ads' \in Process(Unlink(ads, a[1]), a[1], rep)
           /\ UNCHANGED fds

\* No datagram left.
UdpEmpty == Event("udp") /\ fds' = fds \ {"udp"} /\ UNCHANGED ads

TcpEvent(e) == Event(e) /\ "udp" \notin fds

\* Any read that is not refused makes the connection count as established, also
\* when it gives nothing because the server has closed again.
TcpConnected ==
    /\ TcpEvent("connect") /\ fds' = fds \ {"connect"}
    /\ ads' \in Connected(ads) \union (IF ads.sock = "dead" THEN {Broken(ads)} ELSE {})

ReadTcp == /\ TcpEvent("read") /\ ads.tcp = "ok" /\ ads.sock = "up"
           /\ \E m \in ads.onTcp : \E rep \in Zone[m[1]] :
                /\ rep.body = "truncated" => TcpTruncates
                /\ Contains(ads.tcpw, m[1]) /\ Matches(m[1], m[2])
                /\ ads' \in Process(Unlink(ads, m[1]), m[1], rep)
           /\ UNCHANGED fds

TcpEmpty == /\ TcpEvent("read") /\ fds' = fds \ {"read"}
            /\ ads' = IF ads.tcp = "ok" /\ ads.sock = "dead" THEN Broken(ads) ELSE ads

\* The buffer is written, wholly or not, if the connection still holds.
WriteTcp == /\ TcpEvent("write") /\ "read" \notin fds /\ fds' = fds \ {"write"}
            /\ CASE ads.tcp = "ok" /\ ads.sock = "up" ->
                      ads' \in {ads, [ads EXCEPT !.tcpsend = {}, !.onTcp = @ \union ads.tcpsend]}
                 [] ads.tcp = "ok" /\ ads.sock = "dead" -> ads' = Broken(ads)
                 [] OTHER -> UNCHANGED ads

\* adns__internal_check: the oldest answer, or none yet.
Return ==
    /\ pc = "events" /\ fds = {} /\ pc' = "idle" /\ fresh' = TRUE
    /\ ads' = IF caller = "check" /\ ads.output # <<>>
              THEN [ads EXCEPT !.output = Tail(@), !.q[Head(ads.output)].state = "taken"]
              ELSE ads
    /\ UNCHANGED <<caller, fds>>

Program == \/ Check \/ ExpireUdp \/ ExpireTcp \/ TcpConnect \/ TcpConnTimeout \/ TcpReturn
           \/ ReadUdp \/ UdpEmpty \/ TcpConnected \/ ReadTcp \/ TcpEmpty \/ WriteTcp \/ Return
-----------------------------------------------------------------------------
\* The connection is established, refused or broken by the other side.
Network == /\ pc = "idle"
           /\ \/ ads.sock = "syn" /\ \E s \in {"up", "dead"} : ads' = [ads EXCEPT !.sock = s]
              \/ ads.sock = "up" /\ ads' = [ads EXCEPT !.sock = "dead"]
           /\ UNCHANGED <<pc, caller, fds, fresh>>

\* Time passes. larbin calls adns_check at least once in a tick, if there is
\* anything to wait for.
Run(t) == IF t < 0 THEN t ELSE t - 1
MaxAge == 4 * (UdpMaxRetries * (UdpRetry + 2) + TcpWait + 2)
Tick ==
    /\ pc = "idle" /\ (fresh \/ Outstanding = {}) /\ fresh' = FALSE
    /\ LET Older(x) == IF x \in Measured /\ ads.q[x].age < MaxAge THEN 1 ELSE 0
       IN ads' = [ads EXCEPT !.tcptimeout = Run(@),
                             !.q = [x \in Queries |->
                                IF ads.q[x].state \in {"udpw", "tcpw"}
                                THEN [ads.q[x] EXCEPT !.timer = Run(@), !.age = @ + Older(x)]
                                ELSE ads.q[x]]]
    /\ UNCHANGED <<pc, caller, fds>>

Next == Program \/ Network \/ Tick \/ \E x \in Queries : Submit(x)
Spec == Init /\ [][Next]_vars /\ WF_vars(Program) /\ SF_vars(Tick)
-----------------------------------------------------------------------------
\* Types.
States == {"none", "tosend", "udpw", "tcpw", "done", "taken"}
TypeOK ==
    /\ \A x \in Queries : /\ ads.q[x].state \in States \ {"tosend"}
                          /\ ads.q[x].next \in Servers /\ ads.q[x].sent \subseteq Servers
    /\ {ads.udpw, ads.tcpw, ads.output} \subseteq Seq(Queries)
    /\ ads.tcp \in {"disconnected", "connecting", "ok", "broken"}
    /\ ads.sock \in {"none", "syn", "up", "dead"} /\ ads.tcpserver \in Servers
    /\ pc \in {"idle", "timeouts", "events"} /\ caller \in {"check", "submit"}
    /\ fds \subseteq {"udp", "connect", "read", "write"} /\ fresh \in BOOLEAN

\* What adns__consistency asserts (check.c), one operator per function.
CheckcQuery(q) == q.next \in Servers /\ q.sent \subseteq Servers
CheckcNotcpbuf == ads.tcpsend = {}
CheckcGlobal ==
    /\ ads.tcpserver \in Servers
    /\ (ads.sock = "none") <=> (ads.tcp \in {"disconnected", "broken"})
    /\ ads.tcp # "ok" => CheckcNotcpbuf
CheckcQueueUdpw ==
    \A i \in DOMAIN ads.udpw :
        LET q == ads.q[ads.udpw[i]]
        IN q.state = "udpw" /\ q.retries <= UdpMaxRetries /\ q.sent # {} /\ CheckcQuery(q)
CheckcQueueTcpw ==
    \A i \in DOMAIN ads.tcpw :
        LET q == ads.q[ads.tcpw[i]]
        IN q.state = "tcpw" /\ q.retries <= NServers + 1 /\ CheckcQuery(q)
CheckcQueueOutput ==
    \A i \in DOMAIN ads.output :
        LET q == ads.q[ads.output[i]] IN q.state = "done" /\ CheckcQuery(q)
QueueOf(state) == CASE state = "udpw" -> ads.udpw
                    [] state = "tcpw" -> ads.tcpw
                    [] state = "done" -> ads.output
                    [] OTHER -> <<>>
InItsQueue(x) ==
    ads.q[x].state \in {"udpw", "tcpw", "done"} =>
        Cardinality({i \in DOMAIN QueueOf(ads.q[x].state) : QueueOf(ads.q[x].state)[i] = x}) = 1

\* The assertions of check.c hold after every step, not only at its calls: each
\* query is in the queue of its state, once, and in no other; its tries are
\* within their limits; the socket and the buffer fit the state of the
\* connection, and while it is up every query that waits for it is in its
\* stream ("iff ... server_ok", internal.h), so none can be forgotten there.
Consistent ==
    /\ TypeOK
    /\ CheckcGlobal /\ CheckcQueueUdpw /\ CheckcQueueTcpw /\ CheckcQueueOutput
    /\ \A x \in Queries : InItsQueue(x)
    /\ ads.tcp = "ok" /\ ads.sock # "dead" => \A i \in DOMAIN ads.tcpw :
          <<ads.tcpw[i], ads.q[ads.tcpw[i]].id>> \in ads.tcpsend \union ads.onTcp

\* A query that ends by time and never went over TCP has asked every server.
AllAsked == UdpMaxRetries >= NServers =>
    \A x \in Queries : ads.q[x].status = "timeout" /\ ~ads.q[x].usevc => ads.q[x].sent = Servers

\* The longest a query can take: the tries by UDP, perhaps again at a canonical
\* name, and the wait for TCP.
UdpTime == UdpMaxRetries * (UdpRetry + 1)
LatencyBounded ==
    \A x \in Queries : ads.q[x].age <= (TcpWait + 1) + UdpTime
                          + IF UdpTime > TcpWait + 1 THEN UdpTime ELSE TcpWait + 1

\* Every query is answered.
Answered == \A x \in Queries : ads.q[x].state \notin {"none", "taken"} ~> ads.q[x].state = "taken"

\* "Ignore second and subsequent CNAME(s)" (adns__procdgram).
CnamesIgnored == \A x \in Queries : ads.q[x].status # "prohibitedcname"
-----------------------------------------------------------------------------
\* What the crawl relies on: each query is answered once, with one result.
Service == INSTANCE DnsService WITH
    queries <- Outstanding,
    answered <- {x \in Queries : ads.q[x].state = "taken"}
Implements == Service!Spec
=============================================================================
