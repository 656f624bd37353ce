---------------------------- MODULE ResolverProofs ----------------------------
(***************************************************************************)
(* Proofs about Resolver, for any number of queries, servers and tries and *)
(* any replies: what check.c asserts holds after every step, and each      *)
(* query is answered at most once (Implements).                            *)
(***************************************************************************)
EXTENDS Resolver, QueueLemmas

\* s holds each element of S once, and nothing else.
IsQueue(s, S) == s \in Seq(S) /\ IsInjective(s) /\ Range(s) = S
-----------------------------------------------------------------------------
(***************************************************************************)
(* Only.                                                                   *)
(***************************************************************************)
Selects(g, n, s, S) ==
    g = [i \in 0 .. n |-> IF i = 0 THEN <<>>
                          ELSE IF s[i] \in S THEN Append(g[i - 1], s[i]) ELSE g[i - 1]]

LEMMA SelectsExists ==
    ASSUME NEW s, NEW S, NEW m \in Nat
    PROVE  \E g : Selects(g, m, s, S)
<1> DEFINE F(g, i) == IF i = 0 THEN <<>>
                      ELSE IF s[i] \in S THEN Append(g[i - 1], s[i]) ELSE g[i - 1]
           N == {n \in Nat : \E g : Selects(g, n, s, S)}
<1>1. 0 \in N
  <2>1. Selects([i \in 0 .. 0 |-> <<>>], 0, s, S)
    BY DEF Selects
  <2> QED
    BY <2>1
<1>2. ASSUME NEW n \in N PROVE n + 1 \in N
  <2>1. PICK g : g = [i \in 0 .. n |-> F(g, i)]
    BY DEF Selects
  <2> DEFINE h == [i \in 0 .. n + 1 |-> F(g, i)]
  <2>2. \A i \in 0 .. n : g[i] = F(g, i)
    BY <2>1, Zenon
  <2>3. \A i \in 0 .. n : i \in 0 .. n + 1 /\ h[i] = g[i]
    <3>1. \A i \in 0 .. n : i \in 0 .. n + 1
      OBVIOUS
    <3> QED
      BY <2>2, <3>1, Zenon
  <2>4. ASSUME NEW i \in 0 .. n + 1, i # 0 PROVE h[i - 1] = g[i - 1]
    <3>1. i - 1 \in 0 .. n
      BY <2>4
    <3> QED
      BY <2>3, <3>1
  <2>6. h = [i \in 0 .. n + 1 |-> F(h, i)]
    BY <2>4
  <2> HIDE DEF h
  <2>7. Selects(h, n + 1, s, S)
    BY <2>6 DEF Selects
  <2> QED
    BY <2>7
<1>3. N = Nat
  <2>1. N \in SUBSET Nat
    OBVIOUS
  <2> HIDE DEF N
  <2> QED
    BY <1>1, <1>2, <2>1, NatInduct
<1> QED
  BY <1>3

LEMMA OnlyIs ==
    ASSUME NEW s, NEW S, Len(s) \in Nat
    PROVE  \E g : Selects(g, Len(s), s, S) /\ Only(s, S) = g[Len(s)]
<1>1. Only(s, S) = (CHOOSE g : Selects(g, Len(s), s, S))[Len(s)]
  BY DEF Only, Selects
<1>2. \E g : Selects(g, Len(s), s, S)
  BY SelectsExists
<1> QED
  BY <1>1, <1>2

\* The elements of s up to place n.
UpToPlace(s, n) == {s[j] : j \in 1 .. n}

\* Of a sequence without repetition Only keeps what is in S, once.
LEMMA OnlyKeeps ==
    ASSUME NEW D, NEW s, IsQueue(s, D), NEW S, S \subseteq D
    PROVE  IsQueue(Only(s, S), S)
<1>0. Len(s) \in Nat /\ s \in Seq(D) /\ Range(s) = D /\ DOMAIN s = 1 .. Len(s)
  BY DEF IsQueue
<1>1. PICK g : Selects(g, Len(s), s, S) /\ Only(s, S) = g[Len(s)]
  BY <1>0, OnlyIs
<1> DEFINE P(n) == S \cap UpToPlace(s, n)
           N == {n \in Nat : n <= Len(s) => IsQueue(g[n], P(n))}
<1>2. \A i \in 0 .. Len(s) : g[i] = IF i = 0 THEN <<>>
                ELSE IF s[i] \in S THEN Append(g[i - 1], s[i]) ELSE g[i - 1]
  BY <1>1, Zenon DEF Selects
<1>3. 0 \in N
  <2>1. 0 \in 0 .. Len(s) /\ 1 .. 0 = {}
    BY <1>0
  <2>2. g[0] = <<>> /\ P(0) = {}
    BY <1>2, <2>1 DEF UpToPlace
  <2>3. IsQueue(<<>>, {})
    BY DEF IsQueue, IsInjective, Range
  <2> QED
    BY <2>2, <2>3
<1>4. ASSUME NEW n \in N PROVE n + 1 \in N
  <2> SUFFICES ASSUME n + 1 <= Len(s) PROVE IsQueue(g[n + 1], P(n + 1))
    OBVIOUS
  <2>1. n \in Nat /\ n + 1 \in 0 .. Len(s) /\ n + 1 \in 1 .. Len(s) /\ (n + 1) - 1 = n
    BY <1>0
  <2>2. IsQueue(g[n], P(n))
    BY <2>1
  <2>3. g[n + 1] = IF s[n + 1] \in S THEN Append(g[n], s[n + 1]) ELSE g[n]
    BY <1>2, <2>1
  <2>4. UpToPlace(s, n + 1) = UpToPlace(s, n) \cup {s[n + 1]}
    <3>1. \A j \in 1 .. n + 1 : j \in 1 .. n \/ j = n + 1
      BY <2>1
    <3>2. 1 .. n \subseteq 1 .. n + 1 /\ n + 1 \in 1 .. n + 1
      BY <2>1
    <3> QED
      BY <3>1, <3>2 DEF UpToPlace
  <2>5. CASE s[n + 1] \notin S
    <3>1. P(n + 1) = P(n)
      BY <2>4, <2>5
    <3> QED
      BY <2>2, <2>3, <2>5, <3>1
  <2>6. CASE s[n + 1] \in S
    <3>1. P(n + 1) = P(n) \cup {s[n + 1]}
      BY <2>4, <2>6
    <3>2. s[n + 1] \notin UpToPlace(s, n)
      <4>1. \A j \in 1 .. n : j \in DOMAIN s /\ n + 1 \in DOMAIN s /\ j # n + 1
        BY <1>0, <2>1
      <4> QED
        BY <4>1 DEF UpToPlace, IsQueue, IsInjective
    <3>3. g[n + 1] = Append(g[n], s[n + 1])
      BY <2>3, <2>6
    <3>4. IsQueue(Append(g[n], s[n + 1]), P(n) \cup {s[n + 1]})
      <4>1. g[n] \in Seq(P(n) \cup {s[n + 1]})
        BY <2>2 DEF IsQueue
      <4> HIDE DEF P
      <4>2. s[n + 1] \notin P(n)
        BY <3>2 DEF P
      <4> QED
        BY <2>2, <4>1, <4>2, AppendRange, AppendKeepsInjective DEF IsQueue
    <3> QED
      BY <3>1, <3>3, <3>4
  <2> QED
    BY <2>5, <2>6
<1>5. N = Nat
  <2>1. N \in SUBSET Nat
    OBVIOUS
  <2> HIDE DEF N
  <2> QED
    BY <1>3, <1>4, <2>1, NatInduct
<1>6. IsQueue(g[Len(s)], P(Len(s)))
  <2>1. Len(s) \in N
    BY <1>0, <1>5
  <2> HIDE DEF P
  <2> QED
    BY <1>0, <2>1
<1>7. UpToPlace(s, Len(s)) = D
  BY <1>0 DEF UpToPlace, Range
<1> QED
  BY <1>1, <1>6, <1>7

\* Only looks at its set where the sequence has elements.
LEMMA OnlySame ==
    ASSUME NEW s, Len(s) \in Nat, NEW S, NEW U,
           \A i \in 1 .. Len(s) : s[i] \in S <=> s[i] \in U
    PROVE  Only(s, S) = Only(s, U)
<1>1. \A g : Selects(g, Len(s), s, S) <=> Selects(g, Len(s), s, U)
  <2> SUFFICES ASSUME NEW g
               PROVE  Selects(g, Len(s), s, S) <=> Selects(g, Len(s), s, U)
    OBVIOUS
  <2> DEFINE A == [i \in 0 .. Len(s) |-> IF i = 0 THEN <<>>
                     ELSE IF s[i] \in S THEN Append(g[i - 1], s[i]) ELSE g[i - 1]]
             B == [i \in 0 .. Len(s) |-> IF i = 0 THEN <<>>
                     ELSE IF s[i] \in U THEN Append(g[i - 1], s[i]) ELSE g[i - 1]]
  <2>1. \A i \in 0 .. Len(s) : i # 0 => (s[i] \in S <=> s[i] \in U)
    OBVIOUS
  <2>2. A = B
    BY <2>1
  <2> HIDE DEF A, B
  <2>3. (g = A) <=> (g = B)
    BY <2>2
  <2> USE DEF A, B
  <2> QED
    BY <2>3, Zenon DEF Selects
<1>2. (CHOOSE g : Selects(g, Len(s), s, S)) = CHOOSE g : Selects(g, Len(s), s, U)
  BY <1>1, Zenon
<1>3. /\ Only(s, S) = (CHOOSE g : Selects(g, Len(s), s, S))[Len(s)]
      /\ Only(s, U) = (CHOOSE g : Selects(g, Len(s), s, U))[Len(s)]
  BY DEF Only, Selects
<1> QED
  BY <1>2, <1>3
-----------------------------------------------------------------------------
(***************************************************************************)
(* Queues without repetition.                                              *)
(***************************************************************************)
LEMMA QueueAppend ==
    ASSUME NEW S, NEW s, IsQueue(s, S), NEW x, x \notin S
    PROVE  IsQueue(Append(s, x), S \cup {x})
<1>1. s \in Seq(S \cup {x})
  BY DEF IsQueue
<1> QED
  BY <1>1, AppendRange, AppendKeepsInjective DEF IsQueue

LEMMA QueueTail ==
    ASSUME NEW S, NEW s, IsQueue(s, S), s # <<>>
    PROVE  Head(s) \in S /\ IsQueue(Tail(s), S \ {Head(s)})
<1>1. /\ Head(s) \in S /\ Range(s) = Range(Tail(s)) \cup {Head(s)}
      /\ Tail(s) \in Seq(S)
  BY TailRange DEF IsQueue
<1>2. IsInjective(Tail(s)) /\ Head(s) \notin Range(Tail(s))
  BY TailInjective DEF IsQueue
<1>3. Range(Tail(s)) = S \ {Head(s)}
  BY <1>1, <1>2 DEF IsQueue
<1>4. Tail(s) \in Seq(S \ {Head(s)})
  <2> DEFINE r == Tail(s)
  <2>1. r \in Seq(S) /\ Range(r) = S \ {Head(s)}
    BY <1>1, <1>3
  <2> HIDE DEF r
  <2>2. \A i \in 1 .. Len(r) : r[i] \in S \ {Head(s)}
    BY <2>1 DEF Range
  <2>3. r \in Seq(S \ {Head(s)})
    BY <2>1, <2>2
  <2> QED
    BY <2>3 DEF r
<1> QED
  BY <1>1, <1>2, <1>3, <1>4 DEF IsQueue

\* Who is in a queue.
LEMMA QueueHas ==
    ASSUME NEW S, NEW s, IsQueue(s, S)
    PROVE  /\ s \in Seq(S) /\ Len(s) \in Nat /\ DOMAIN s = 1 .. Len(s)
           /\ \A i \in DOMAIN s : s[i] \in S
           /\ \A x \in S : \E i \in DOMAIN s : s[i] = x
           /\ \A x : Contains(s, x) <=> x \in S
           /\ ToSet(s) = S
           /\ s = <<>> <=> S = {}
<1>1. s \in Seq(S) /\ Len(s) \in Nat /\ DOMAIN s = 1 .. Len(s) /\ S = {s[i] : i \in DOMAIN s}
  BY DEF IsQueue, Range
<1>2. \A x : Contains(s, x) <=> x \in S
  BY <1>1 DEF Contains
<1>3. s = <<>> <=> S = {}
  <2>1. CASE s = <<>>
    BY <1>1, <2>1
  <2>2. CASE s # <<>>
    BY <2>2, TailRange DEF IsQueue
  <2> QED
    BY <2>1, <2>2
<1> QED
  BY <1>1, <1>2, <1>3 DEF ToSet

LEMMA QueueOnce ==
    ASSUME NEW S, NEW s, IsQueue(s, S), NEW x \in S
    PROVE  Cardinality({i \in DOMAIN s : s[i] = x}) = 1
<1>1. PICK i \in DOMAIN s : s[i] = x
  BY QueueHas
<1>2. {j \in DOMAIN s : s[j] = x} = {i}
  BY <1>1 DEF IsQueue, IsInjective
<1> QED
  BY <1>2, FS_Singleton

LEMMA QueueConcat ==
    ASSUME NEW S, NEW s, IsQueue(s, S), NEW T, NEW t, IsQueue(t, T), S \cap T = {}
    PROVE  IsQueue(s \o t, S \cup T)
<1> DEFINE U == S \cup T
           n == Len(s)
           m == Len(t)
           r == s \o t
<1>1. /\ n \in Nat /\ m \in Nat /\ DOMAIN s = 1 .. n /\ DOMAIN t = 1 .. m
      /\ \A i \in 1 .. n : s[i] \in S
      /\ \A i \in 1 .. m : t[i] \in T
      /\ \A x \in S : \E i \in 1 .. n : s[i] = x
      /\ \A x \in T : \E i \in 1 .. m : t[i] = x
  BY QueueHas
<1>2. s \in Seq(U) /\ t \in Seq(U)
  BY <1>1 DEF IsQueue
<1>3. /\ r \in Seq(U) /\ Len(r) = n + m /\ DOMAIN r = 1 .. n + m
      /\ \A i \in 1 .. n + m : r[i] = IF i <= n THEN s[i] ELSE t[i - n]
  BY <1>2
<1>4. \A i \in 1 .. n : i \in 1 .. n + m /\ r[i] = s[i]
  BY <1>1, <1>3
<1>5. \A i \in 1 .. m : n + i \in 1 .. n + m /\ r[n + i] = t[i]
  BY <1>1, <1>3
<1>6. \A i \in 1 .. n + m : i \in 1 .. n \/ (i > n /\ i - n \in 1 .. m /\ r[i] = t[i - n])
  BY <1>1, <1>3
<1>7. Range(r) = U
  <2>1. \A i \in 1 .. n + m : r[i] \in U
    BY <1>1, <1>4, <1>6
  <2>2. ASSUME NEW x \in U PROVE \E i \in 1 .. n + m : r[i] = x
    <3>1. CASE x \in S
      <4>1. PICK i \in 1 .. n : s[i] = x
        BY <1>1, <3>1
      <4> QED
        BY <1>4, <4>1
    <3>2. CASE x \in T
      <4>1. PICK i \in 1 .. m : t[i] = x
        BY <1>1, <3>2
      <4> QED
        BY <1>5, <4>1
    <3> QED
      BY <3>1, <3>2
  <2>3. DOMAIN r = 1 .. n + m
    BY <1>3
  <2> HIDE DEF r, U, n, m
  <2> QED
    BY <2>1, <2>2, <2>3 DEF Range
<1>8. IsInjective(r)
  <2> SUFFICES ASSUME NEW i \in 1 .. n + m, NEW j \in 1 .. n + m, r[i] = r[j] PROVE i = j
    BY <1>3 DEF IsInjective
  <2>1. CASE i \in 1 .. n /\ j \in 1 .. n
    BY <1>1, <1>4, <2>1 DEF IsQueue, IsInjective
  <2>2. CASE i \notin 1 .. n /\ j \notin 1 .. n
    <3>1. i - n \in 1 .. m /\ j - n \in 1 .. m /\ t[i - n] = t[j - n]
      BY <1>6, <2>2
    <3>2. i - n = j - n
      BY <1>1, <3>1 DEF IsQueue, IsInjective
    <3> QED
      BY <1>1, <3>2
  <2>3. CASE i \in 1 .. n /\ j \notin 1 .. n
    BY <1>1, <1>4, <1>6, <2>3
  <2>4. CASE i \notin 1 .. n /\ j \in 1 .. n
    BY <1>1, <1>4, <1>6, <2>4
  <2> QED
    BY <2>1, <2>2, <2>3, <2>4
<1> QED
  BY <1>3, <1>7, <1>8 DEF IsQueue
-----------------------------------------------------------------------------
(***************************************************************************)
(* The invariant, for a record R that the functions of the source pass on. *)
(***************************************************************************)
QueryType == [state : States, retries : Nat, next : Servers, sent : SUBSET Servers,
              status : {"none", "ok", "failed", "timeout", "allservfail", "prohibitedcname"},
              timer : Int, usevc : BOOLEAN, cname : BOOLEAN, id : Nat, age : Nat]
AdsType == [udpw : Seq(Queries), tcpw : Seq(Queries), output : Seq(Queries),
            q : [Queries -> QueryType],
            tcp : {"disconnected", "connecting", "ok", "broken"}, tcpserver : Servers,
            tcptimeout : Int, sock : {"none", "syn", "up", "dead"},
            tcpsend : SUBSET (Queries \X Nat), onTcp : SUBSET (Queries \X Nat),
            asked : SUBSET (Queries \X Nat \X Servers)]

\* How many servers are asked by UDP before s.
Ahead(q, s) == IF s >= q.next THEN s - q.next ELSE s - q.next + NServers

\* Whether and how a query has ended fits the servers it has asked: a server
\* that was not asked is still ahead, by at most the tries that are left.
Tried(q) ==
    /\ q.state \notin {"done", "taken"} => q.status = "none"
    /\ q.state = "none" => ~q.usevc
    /\ ~q.usevc => \A s \in Servers \ q.sent : Ahead(q, s) + q.retries < NServers
    /\ q.status = "timeout" /\ ~q.usevc /\ UdpMaxRetries >= NServers => q.sent = Servers

\* A query has three rounds at most: over UDP, at a canonical name or over TCP,
\* and over TCP. What is left of its round, and when the round ends.
TcpTime == TcpWait + 1
Longer == IF UdpTime > TcpTime THEN UdpTime ELSE TcpTime
Longest == TcpTime + UdpTime + Longer
TriesLeft(q) == (UdpMaxRetries - q.retries) * (UdpRetry + 1)
TimeLeft(q) == CASE q.state = "udpw" -> q.timer + 1 + TriesLeft(q)
                 [] q.state = "tcpw" -> q.timer + 1
                 [] q.state = "tosend" -> IF q.usevc THEN TcpTime ELSE TriesLeft(q)
                 [] OTHER -> 0
RoundEnd(usevc, cname) ==
    IF usevc THEN (IF cname THEN Longest ELSE UdpTime + TcpTime)
             ELSE (IF cname THEN UdpTime + UdpTime ELSE UdpTime)

\* A timer that runs is not below 0, or it has expired.
Lows == {-1, 0}

\* A query that waits has a timer of at least low, and its round ends in time,
\* unless servers truncate over TCP.
Timely(q, low) ==
    /\ q.state \in {"udpw", "tcpw"} => q.timer >= low
    /\ q.state = "udpw" => q.retries <= UdpMaxRetries
    /\ q.state = "none" => q.age = 0 /\ q.retries = 0
    /\ ~TcpTruncates =>
          IF q.state \in {"done", "taken"} THEN q.age <= Longest
          ELSE q.age + TimeLeft(q) <= RoundEnd(q.usevc, q.cname)

\* The tries of a query fit its queue; tcp is the state of the connection.
Settled(q, tcp) ==
    /\ q.state # "tosend"
    /\ q.state = "udpw" => q.retries <= UdpMaxRetries /\ q.sent # {} /\ ~q.usevc
    /\ q.state = "tcpw" =>
          /\ q.usevc /\ q.retries <= NServers + 1
          /\ tcp \in {"disconnected", "connecting"} => q.retries <= NServers

In(R, state, O) == {y \in Queries \ O : R.q[y].state = state}

Queues(R, O) ==
    /\ IsQueue(R.udpw, In(R, "udpw", O))
    /\ IsQueue(R.tcpw, In(R, "tcpw", O))
    /\ IsQueue(R.output, In(R, "done", O))

\* The queries that wait for the connection are in its stream, but for E.
Streams(R, E) ==
    R.tcp = "ok" /\ R.sock # "dead" =>
        \A y \in In(R, "tcpw", E) : <<y, R.q[y].id>> \in R.tcpsend \union R.onTcp

Socket(R) ==
    /\ (R.sock = "none") <=> (R.tcp \in {"disconnected", "broken"})
    /\ R.tcp # "ok" => R.tcpsend = {}

\* But for the queries of O, which are in no queue, and those of E, which have
\* yet to be sent over the connection; N are those that were never submitted, T
\* those whose answer larbin has taken, and no timer is below low.
Core(R, O, E, N, T, low) ==
    /\ R \in AdsType /\ Queues(R, O)
    /\ In(R, "none", O) = N /\ In(R, "taken", O) = T
    /\ \A y \in Queries : Tried(R.q[y]) /\ Timely(R.q[y], low)
    /\ \A y \in Queries \ O : Settled(R.q[y], R.tcp)
    /\ E \subseteq Queries /\ \A y \in E : R.q[y].retries <= NServers
    /\ Streams(R, O \union E)
Right(R, O, E, N, T, low) == Core(R, O, E, N, T, low) /\ Socket(R)

SameStates(R, S) == \A y \in Queries : S.q[y].state = R.q[y].state
-----------------------------------------------------------------------------
(***************************************************************************)
(* Time.                                                                   *)
(***************************************************************************)
LEMMA Times ==
    /\ UdpTime \in Nat /\ TcpTime \in Nat /\ TcpTime > 0 /\ Longer \in Nat
    /\ Longer >= UdpTime /\ Longer >= TcpTime
    /\ Longest = TcpTime + UdpTime + Longer
    /\ UdpRetry \in Nat /\ UdpMaxRetries \in Nat /\ TcpWait \in Nat /\ TcpTime = TcpWait + 1
BY ResolverAssumption DEF UdpTime, TcpTime, Longer, Longest

LEMMA TriesLeftIs ==
    ASSUME NEW q, q.retries \in Nat
    PROVE  /\ TriesLeft(q) \in Int
           /\ q.retries <= UdpMaxRetries => TriesLeft(q) >= 0
           /\ q.retries = 0 => TriesLeft(q) = UdpTime
           /\ \A r : r.retries = q.retries + 1 => TriesLeft(r) = TriesLeft(q) - (UdpRetry + 1)
<1> DEFINE a == UdpMaxRetries
           b == UdpRetry + 1
           n == q.retries
<1>1. a \in Nat /\ b \in Nat /\ n \in Nat /\ UdpTime = a * b
  BY ResolverAssumption DEF UdpTime
<1>2. /\ TriesLeft(q) = (a - n) * b
      /\ \A r : r.retries = n + 1 => TriesLeft(r) = (a - (n + 1)) * b
  BY DEF TriesLeft
<1> HIDE DEF a, b, n
<1>3. (a - n) * b \in Int /\ (a - (n + 1)) * b = (a - n) * b - b /\ (a - 0) * b = a * b
  BY <1>1
<1>4. n <= a => (a - n) * b >= 0
  BY <1>1
<1> QED
  BY <1>1, <1>2, <1>3, <1>4 DEF a, b, n

\* No query is older than the longest time.
LEMMA AgeBound ==
    ASSUME NEW q \in QueryType, NEW low \in Lows, Timely(q, low), ~TcpTruncates,
           q.state # "tosend" \/ q.usevc \/ q.retries <= UdpMaxRetries
    PROVE  q.age <= Longest
<1>1. /\ q.age \in Nat /\ q.timer \in Int /\ q.retries \in Nat /\ q.usevc \in BOOLEAN
      /\ q.cname \in BOOLEAN
  BY DEF QueryType
<1>2. RoundEnd(q.usevc, q.cname) <= Longest /\ RoundEnd(q.usevc, q.cname) \in Nat
  BY Times DEF RoundEnd
<1>3. CASE q.state \in {"done", "taken"}
  BY <1>3 DEF Timely
<1>4. CASE q.state \notin {"done", "taken"}
  <2>1. q.age + TimeLeft(q) <= RoundEnd(q.usevc, q.cname)
    BY <1>4 DEF Timely
  <2>2. TriesLeft(q) \in Int /\ (q.retries <= UdpMaxRetries => TriesLeft(q) >= 0)
    BY <1>1, TriesLeftIs
  <2>3. TimeLeft(q) \in Int /\ TimeLeft(q) >= 0
    BY <1>1, <2>2, Times DEF TimeLeft, Timely, Lows
  <2> QED
    BY <1>1, <1>2, <2>1, <2>3, Times
<1> QED
  BY <1>3, <1>4

\* The tries of a query over TCP, and who it is sent to, do not change its times.
LEMMA TimelySame ==
    ASSUME NEW p, NEW r, NEW low, Timely(p, low),
           r.state = p.state, r.timer = p.timer, r.age = p.age, r.usevc = p.usevc,
           r.cname = p.cname, r.retries = p.retries \/ p.state = "tcpw"
    PROVE  Timely(r, low)
<1>1. r.retries = p.retries => TriesLeft(r) = TriesLeft(p)
  BY DEF TriesLeft
<1>2. TimeLeft(r) = TimeLeft(p)
  BY <1>1 DEF TimeLeft
<1> QED
  BY <1>2 DEF Timely

\* A query that is over.
LEMMA TimelyOver ==
    ASSUME NEW p \in QueryType, NEW low \in Lows, Timely(p, low),
           p.state # "tosend" \/ p.usevc \/ p.retries <= UdpMaxRetries,
           NEW r, r.state \in {"done", "taken"}, r.age = p.age
    PROVE  Timely(r, low)
BY AgeBound DEF Timely
-----------------------------------------------------------------------------
(***************************************************************************)
(* The connection.                                                         *)
(***************************************************************************)
LEMMA SameStatesIn ==
    ASSUME NEW R, NEW S, SameStates(R, S)
    PROVE  \A O, st : In(S, st, O) = In(R, st, O)
BY DEF SameStates, In

\* adns__tcp_broken
LEMMA BrokenRight ==
    ASSUME NEW R, NEW E, NEW N, NEW T, NEW low \in Lows, Core(R, {}, E, N, T, low), R.tcp # "connecting" \/ E = {}
    PROVE  /\ Right(Broken(R), {}, E, N, T, low) /\ SameStates(R, Broken(R))
           /\ Broken(R).tcp = "broken"
<1> DEFINE S == Broken(R)
<1>0. R \in AdsType /\ Queues(R, {})
  BY DEF Core
<1> DEFINE Q == [x \in Queries |-> IF R.tcp = "connecting" /\ Contains(R.tcpw, x)
                                   THEN [R.q[x] EXCEPT !.retries = @ + 1] ELSE R.q[x]]
           next == (R.tcpserver + 1) % NServers
<1>a. S = [R EXCEPT !.sock = "none", !.tcp = "broken", !.tcpsend = {}, !.onTcp = {},
                    !.tcpserver = next, !.q = Q]
  BY DEF Broken
<1>1. /\ S.udpw = R.udpw /\ S.tcpw = R.tcpw /\ S.output = R.output
      /\ S.tcp = "broken" /\ S.sock = "none" /\ S.tcpsend = {}
      /\ S.q = Q
      /\ S = [udpw |-> R.udpw, tcpw |-> R.tcpw, output |-> R.output, q |-> Q,
             tcp |-> "broken", tcpserver |-> next,
             tcptimeout |-> R.tcptimeout, sock |-> "none", tcpsend |-> {}, onTcp |-> {},
             asked |-> R.asked]
  <2> HIDE DEF S, Q, next
  <2> QED
    BY <1>0, <1>a DEF AdsType
<1>2. \A x \in Queries : R.q[x] \in QueryType
  BY <1>0 DEF AdsType
<1>3. \A x \in Queries : Contains(R.tcpw, x) <=> R.q[x].state = "tcpw"
  BY <1>0, QueueHas DEF Queues, In
<1>4. ASSUME NEW x \in Queries
      PROVE  /\ S.q[x] \in QueryType /\ S.q[x].state = R.q[x].state
             /\ Tried(S.q[x]) /\ Settled(S.q[x], "broken") /\ Timely(S.q[x], low)
             /\ x \in E => S.q[x].retries <= NServers
  <2>1. /\ Tried(R.q[x]) /\ Settled(R.q[x], R.tcp) /\ Timely(R.q[x], low)
        /\ x \in E => R.q[x].retries <= NServers
    BY DEF Core
  <2>2. CASE R.tcp = "connecting" /\ Contains(R.tcpw, x)
    <3>1. R.q[x].state = "tcpw" /\ R.q[x].retries <= NServers /\ R.q[x].usevc /\ x \notin E
      BY <1>3, <2>1, <2>2 DEF Settled
    <3>2. S.q[x] = [R.q[x] EXCEPT !.retries = @ + 1]
      BY <1>1, <2>2
    <3> HIDE DEF S
    <3>3. Timely(S.q[x], low)
      <4> DEFINE p == R.q[x]
                 r == S.q[x]
      <4>1. p \in QueryType /\ r = [p EXCEPT !.retries = @ + 1] /\ p.state = "tcpw" /\ Timely(p, low)
        BY <1>2, <2>1, <3>1, <3>2
      <4> HIDE DEF p, r
      <4>2. /\ r.state = p.state /\ r.timer = p.timer /\ r.age = p.age /\ r.usevc = p.usevc
            /\ r.cname = p.cname
        BY <4>1 DEF QueryType
      <4>3. Timely(r, low)
        BY <4>1, <4>2, TimelySame
      <4> QED
        BY <4>3 DEF r
    <3> QED
      BY <1>2, <2>1, <3>1, <3>2, <3>3, ResolverAssumption DEF QueryType, Tried, Settled, Ahead
  <2>3. CASE ~(R.tcp = "connecting" /\ Contains(R.tcpw, x))
    <3>1. S.q[x] = R.q[x]
      BY <1>1, <2>3
    <3> HIDE DEF S
    <3> QED
      BY <1>2, <2>1, <3>1 DEF Settled
  <2> QED
    BY <2>2, <2>3
<1>5. SameStates(R, S)
  BY <1>4 DEF SameStates
<1>6. S \in AdsType
  <2>1. S.q \in [Queries -> QueryType]
    BY <1>1, <1>4
  <2>2. (R.tcpserver + 1) % NServers \in Servers
    BY <1>0, ResolverAssumption DEF AdsType, Servers
  <2> QED
    BY <1>0, <1>1, <2>1, <2>2 DEF AdsType
<1>7. Queues(S, {}) /\ In(S, "none", {}) = N /\ In(S, "taken", {}) = T
  BY <1>0, <1>1, <1>5, SameStatesIn DEF Queues, Core
<1>8. Streams(S, {} \union E) /\ Socket(S)
  BY <1>1 DEF Streams, Socket
<1> QED
  BY <1>1, <1>4, <1>5, <1>6, <1>7, <1>8 DEF Right, Core

\* tcp_broken_events: what it ends are queries that waited for the connection.
LEMMA BrokenEventsRight ==
    ASSUME NEW R, NEW N, NEW T, NEW low \in Lows, Right(R, {}, {}, N, T, low), R.tcp = "broken"
    PROVE  /\ Right(BrokenEvents(R), {}, {}, N, T, low)
           /\ BrokenEvents(R).tcp = "disconnected" /\ BrokenEvents(R).sock = "none"
<1> DEFINE S == BrokenEvents(R)
           Dead == {x \in ToSet(R.tcpw) : Exhausted(R, x)}
           Q == [x \in Queries |-> IF x \in Dead
                                   THEN [R.q[x] EXCEPT !.state = "done", !.timer = NoTime,
                                                       !.status = "allservfail"]
                                   ELSE R.q[x]]
           W == In(R, "tcpw", {})
           kept == Only(R.tcpw, Queries \ Dead)
           over == R.output \o Only(R.tcpw, Dead)
<1>0. /\ R \in AdsType /\ IsQueue(R.udpw, In(R, "udpw", {})) /\ IsQueue(R.tcpw, W)
      /\ IsQueue(R.output, In(R, "done", {})) /\ R.tcpsend = {} /\ R.sock = "none"
  BY DEF Right, Core, Queues, Socket
<1>1. S = [R EXCEPT !.tcp = "disconnected", !.tcpw = kept, !.output = over, !.q = Q]
  BY DEF BrokenEvents
<1>2. /\ S.udpw = R.udpw /\ S.tcpw = kept /\ S.output = over /\ S.q = Q
      /\ S.tcp = "disconnected" /\ S.sock = "none" /\ S.tcpsend = {}
      /\ S = [udpw |-> R.udpw, tcpw |-> kept, output |-> over, q |-> Q,
              tcp |-> "disconnected", tcpserver |-> R.tcpserver,
              tcptimeout |-> R.tcptimeout, sock |-> "none", tcpsend |-> {},
              onTcp |-> R.onTcp, asked |-> R.asked]
  <2> HIDE DEF S, Q, kept, over
  <2> QED
    BY <1>0, <1>1 DEF AdsType
<1>3. Dead \subseteq W /\ W \subseteq Queries
  BY <1>0, QueueHas DEF In
<1>4. ASSUME NEW x \in Queries
      PROVE  /\ Q[x] \in QueryType /\ Tried(Q[x]) /\ Settled(Q[x], "disconnected") /\ Timely(Q[x], low)
             /\ x \notin Dead => Q[x].state = R.q[x].state
             /\ x \in Dead => Q[x].state = "done"
  <2>1. R.q[x] \in QueryType /\ Tried(R.q[x]) /\ Settled(R.q[x], "broken") /\ Timely(R.q[x], low)
    BY <1>0 DEF Right, Core, AdsType
  <2>2. CASE x \in Dead
    <3>1. R.q[x].usevc
      BY <1>3, <2>1, <2>2 DEF In, Settled
    <3>2. Q[x] = [R.q[x] EXCEPT !.state = "done", !.timer = NoTime, !.status = "allservfail"]
      BY <2>2
    <3> DEFINE q == R.q[x]
               r == Q[x]
    <3> HIDE DEF Q, Dead, q, r
    <3>3. q \in QueryType /\ q.usevc /\ Timely(q, low)
      BY <2>1, <3>1 DEF q
    <3>4. r = [q EXCEPT !.state = "done", !.timer = NoTime, !.status = "allservfail"]
      BY <3>2 DEF q, r
    <3>5. /\ r \in QueryType /\ r.state = "done" /\ r.usevc /\ r.status = "allservfail"
          /\ r.age = q.age
      <4>1. r = [state |-> "done", retries |-> q.retries, next |-> q.next, sent |-> q.sent,
                 status |-> "allservfail", timer |-> NoTime, usevc |-> q.usevc,
                 cname |-> q.cname, id |-> q.id, age |-> q.age]
        BY <3>3, <3>4 DEF QueryType
      <4>2. NoTime \in Int /\ "done" \in States
        BY DEF NoTime, States
      <4> HIDE DEF r
      <4> QED
        BY <3>3, <4>1, <4>2 DEF QueryType
    <3>6. Timely(r, low)
      BY <3>3, <3>5, TimelyOver
    <3> QED
      BY <2>2, <3>5, <3>6 DEF Tried, Settled, r
  <2>3. CASE x \notin Dead
    <3>1. Q[x] = R.q[x]
      BY <2>3
    <3>2. R.q[x].state = "tcpw" => R.q[x].retries <= NServers
      <4>1. R.q[x].state = "tcpw" => x \in ToSet(R.tcpw)
        BY <1>0, QueueHas DEF In
      <4> QED
        BY <2>1, <2>3, <4>1, ResolverAssumption DEF Exhausted, QueryType
    <3> HIDE DEF Q, Dead
    <3> QED
      BY <2>1, <2>3, <3>1, <3>2 DEF Settled
  <2> QED
    BY <2>2, <2>3
<1>5. /\ IsQueue(Only(R.tcpw, Dead), Dead) /\ IsQueue(kept, W \ Dead)
  <2>1. IsQueue(Only(R.tcpw, Dead), Dead)
    <3> HIDE DEF Dead, W
    <3> QED
      BY <1>0, <1>3, OnlyKeeps
  <2>2. Only(R.tcpw, Queries \ Dead) = Only(R.tcpw, W \ Dead)
    <3>1. \A i \in 1 .. Len(R.tcpw) : R.tcpw[i] \in W
      BY <1>0, QueueHas
    <3>2. \A i \in 1 .. Len(R.tcpw) : R.tcpw[i] \in Queries \ Dead <=> R.tcpw[i] \in W \ Dead
      BY <1>3, <3>1
    <3>3. Len(R.tcpw) \in Nat
      BY <1>0, QueueHas
    <3> HIDE DEF Dead, W
    <3> QED
      BY <3>2, <3>3, OnlySame
  <2>3. IsQueue(Only(R.tcpw, W \ Dead), W \ Dead)
    <3> HIDE DEF Dead, W
    <3> QED
      BY <1>0, OnlyKeeps
  <2> QED
    BY <2>1, <2>2, <2>3
<1>6. /\ In(S, "tcpw", {}) = W \ Dead
      /\ In(S, "done", {}) = In(R, "done", {}) \cup Dead
      /\ In(S, "udpw", {}) = In(R, "udpw", {})
      /\ In(S, "none", {}) = N /\ In(S, "taken", {}) = T
  <2>1. /\ \A x \in Dead : R.q[x].state = "tcpw" /\ x \in Queries
        /\ \A x \in Queries : /\ x \notin Dead => S.q[x].state = R.q[x].state
                              /\ x \in Dead => S.q[x].state = "done"
    BY <1>2, <1>3, <1>4 DEF In
  <2>2. In(R, "none", {}) = N /\ In(R, "taken", {}) = T
    BY DEF Right, Core
  <2> HIDE DEF S, Dead
  <2> QED
    BY <2>1, <2>2 DEF In
<1>7. IsQueue(over, In(R, "done", {}) \cup Dead)
  <2>1. In(R, "done", {}) \cap Dead = {}
    BY <1>3 DEF In
  <2> HIDE DEF Dead
  <2> QED
    BY <1>0, <1>5, <2>1, QueueConcat
<1>8. Queues(S, {})
  BY <1>0, <1>2, <1>5, <1>6, <1>7 DEF Queues
<1>9. S \in AdsType
  <2>1. kept \in Seq(Queries) /\ over \in Seq(Queries)
    <3>1. W \ Dead \subseteq Queries /\ In(R, "done", {}) \cup Dead \subseteq Queries
      BY <1>3 DEF In
    <3> HIDE DEF kept, over, W, Dead
    <3> QED
      BY <1>5, <1>7, <3>1 DEF IsQueue
  <2>2. Q \in [Queries -> QueryType]
    BY <1>4
  <2> HIDE DEF S, Q, kept, over
  <2> QED
    BY <1>0, <1>2, <2>1, <2>2 DEF AdsType
<1>10. Streams(S, {} \union {}) /\ Socket(S)
  <2> HIDE DEF S, Q, kept, over
  <2> QED
    BY <1>2 DEF Streams, Socket
<1>11. \A x \in Queries : Tried(S.q[x]) /\ Settled(S.q[x], S.tcp) /\ Timely(S.q[x], low)
  BY <1>2, <1>4
<1> HIDE DEF S, Q, kept, over, Dead, W
<1>12. Core(S, {}, {}, N, T, low)
  BY <1>6, <1>8, <1>9, <1>10, <1>11 DEF Core
<1> QED
  BY <1>2, <1>10, <1>12 DEF S, Right

\* One more try of a query that waits for an established connection, which is
\* now in its stream.
SentOn(R, S, x) ==
    /\ R.tcp = "ok" /\ S.tcp = "ok" /\ S.sock = R.sock /\ S \in AdsType
    /\ S.udpw = R.udpw /\ S.tcpw = R.tcpw /\ S.output = R.output
    /\ S.q = [R.q EXCEPT ![x].retries = @ + 1]
    /\ R.tcpsend \union R.onTcp \subseteq S.tcpsend \union S.onTcp
    /\ R.sock # "dead" => <<x, R.q[x].id>> \in S.tcpsend \union S.onTcp

LEMMA SentRight ==
    ASSUME NEW R, NEW E, NEW N, NEW T, NEW low \in Lows, Right(R, {}, E, N, T, low), NEW x \in E,
           R.q[x].state = "tcpw", NEW S, SentOn(R, S, x)
    PROVE  Right(S, {}, E \ {x}, N, T, low) /\ SameStates(R, S)
<1>1. R \in AdsType /\ Queues(R, {}) /\ Socket(R) /\ x \in Queries /\ E \subseteq Queries
  BY DEF Right, Core
<1>2. \A y \in Queries : /\ R.q[y] \in QueryType /\ Tried(R.q[y]) /\ Settled(R.q[y], "ok")
                        /\ Timely(R.q[y], low)
  BY <1>1 DEF AdsType, Right, Core, SentOn
<1>3. /\ \A y \in Queries : y # x => S.q[y] = R.q[y]
      /\ S.q[x] = [R.q[x] EXCEPT !.retries = @ + 1]
  BY <1>1 DEF SentOn, AdsType
<1>4. /\ S.q[x].state = "tcpw" /\ S.q[x].id = R.q[x].id
      /\ Tried(S.q[x]) /\ Settled(S.q[x], "ok") /\ Timely(S.q[x], low)
  <2> DEFINE p == R.q[x]
             r == S.q[x]
  <2>1. /\ p \in QueryType /\ Tried(p) /\ Settled(p, "ok") /\ Timely(p, low)
        /\ p.state = "tcpw" /\ p.retries <= NServers
    BY <1>1, <1>2 DEF Right, Core
  <2>2. r = [p EXCEPT !.retries = @ + 1]
    BY <1>3
  <2> HIDE DEF p, r
  <2>3. /\ r.state = "tcpw" /\ r.id = p.id /\ r.usevc = p.usevc /\ r.status = p.status
        /\ r.retries = p.retries + 1 /\ p.retries \in Nat
        /\ r.timer = p.timer /\ r.age = p.age /\ r.cname = p.cname
    BY <2>1, <2>2 DEF QueryType
  <2>4. p.usevc /\ p.status = "none"
    BY <2>1 DEF Tried, Settled
  <2>5. Tried(r)
    BY <2>3, <2>4 DEF Tried
  <2>6. Settled(r, "ok")
    BY <2>1, <2>3, <2>4, ResolverAssumption DEF Settled
  <2>7. Timely(r, low)
    BY <2>1, <2>3, TimelySame
  <2> QED
    BY <2>3, <2>5, <2>6, <2>7 DEF p, r
<1>5. SameStates(R, S)
  BY <1>3, <1>4 DEF SameStates
<1>6. Queues(S, {}) /\ In(S, "none", {}) = N /\ In(S, "taken", {}) = T
  <2>1. \A st : In(S, st, {}) = In(R, st, {})
    BY <1>5, SameStatesIn
  <2> QED
    BY <1>1, <2>1 DEF Queues, SentOn, Right, Core
<1>7. \A y \in E \ {x} : S.q[y].retries <= NServers
  BY <1>1, <1>3 DEF Right, Core
<1>8. Streams(S, {} \union (E \ {x}))
  <2> SUFFICES ASSUME R.sock # "dead", NEW y \in Queries, S.q[y].state = "tcpw", y \notin E \ {x}
               PROVE  <<y, S.q[y].id>> \in S.tcpsend \union S.onTcp
    BY DEF Streams, SentOn, In
  <2>1. CASE y = x
    BY <1>4, <2>1 DEF SentOn
  <2>2. CASE y # x
    <3>1. y \in In(R, "tcpw", {} \union E) /\ S.q[y].id = R.q[y].id
      BY <1>3, <2>2 DEF In
    <3>2. Streams(R, {} \union E) /\ R.tcp = "ok"
      BY DEF Right, Core, SentOn
    <3>3. <<y, R.q[y].id>> \in R.tcpsend \union R.onTcp
      BY <3>1, <3>2 DEF Streams
    <3> QED
      BY <3>1, <3>3 DEF SentOn
  <2> QED
    BY <2>1, <2>2
<1>9. Socket(S)
  BY <1>1 DEF Socket, SentOn
<1>10. \A y \in Queries : Tried(S.q[y]) /\ Settled(S.q[y], S.tcp) /\ Timely(S.q[y], low)
  BY <1>2, <1>3, <1>4 DEF SentOn
<1>11. S \in AdsType /\ E \ {x} \subseteq Queries
  BY <1>1 DEF SentOn
<1> QED
  BY <1>5, <1>6, <1>7, <1>8, <1>9, <1>10, <1>11 DEF Right, Core

\* A query less that has yet to be sent, once the connection is down again.
LEMMA LessToSend ==
    ASSUME NEW R, NEW E, NEW N, NEW T, NEW low \in Lows, Right(R, {}, E, N, T, low), NEW x, R.tcp # "ok"
    PROVE  Right(R, {}, E \ {x}, N, T, low)
BY DEF Right, Core, Streams

\* adns__querysend_tcp
LEMMA SendTcpRight ==
    ASSUME NEW R, NEW E, NEW N, NEW T, NEW low \in Lows, Right(R, {}, E, N, T, low), NEW x \in E,
           R.q[x].state = "tcpw", NEW S \in SendTcp(R, x)
    PROVE  /\ Right(S, {}, E \ {x}, N, T, low) /\ SameStates(R, S)
           /\ R.tcp # "ok" => S = R
<1> DEFINE P == [R EXCEPT !.q[x].retries = @ + 1, !.tcptimeout = NoTime]
           m == <<x, R.q[x].id>>
           Q == [R.q EXCEPT ![x].retries = @ + 1]
<1>1. R \in AdsType /\ Socket(R) /\ x \in Queries /\ E \subseteq Queries
  BY DEF Right, Core
<1>2. CASE R.tcp # "ok"
  <2>1. S = R
    BY <1>2 DEF SendTcp
  <2> QED
    BY <1>2, <2>1, LessToSend DEF SameStates
<1>3. CASE R.tcp = "ok"
  <2>1. Q \in [Queries -> QueryType] /\ m \in Queries \X Nat /\ NoTime \in Int
    <3>0. R.q \in [Queries -> QueryType] /\ R.q[x] \in QueryType
      BY <1>1 DEF AdsType
    <3>1. R.q[x].id \in Nat /\ R.q[x].retries + 1 \in Nat
      BY <3>0 DEF QueryType
    <3>2. [R.q[x] EXCEPT !.retries = @ + 1] \in QueryType
      BY <3>0, <3>1 DEF QueryType
    <3> QED
      BY <1>1, <3>0, <3>1, <3>2 DEF NoTime
  <2>2. P = [R EXCEPT !.q = Q, !.tcptimeout = NoTime]
    BY <1>1 DEF AdsType
  <2>3. /\ P \in AdsType /\ P.tcp = "ok" /\ P.sock = R.sock /\ P.q = Q
        /\ P.udpw = R.udpw /\ P.tcpw = R.tcpw /\ P.output = R.output
        /\ P.tcpsend = R.tcpsend /\ P.onTcp = R.onTcp
    <3>1. P = [udpw |-> R.udpw, tcpw |-> R.tcpw, output |-> R.output, q |-> Q,
               tcp |-> R.tcp, tcpserver |-> R.tcpserver, tcptimeout |-> NoTime,
               sock |-> R.sock, tcpsend |-> R.tcpsend, onTcp |-> R.onTcp, asked |-> R.asked]
      <4> HIDE DEF P, Q
      <4> QED
        BY <1>1, <2>2 DEF AdsType
    <3> HIDE DEF P, Q
    <3> QED
      BY <1>1, <1>3, <2>1, <3>1 DEF AdsType
  <2> DEFINE B == [P EXCEPT !.tcpsend = @ \union {m}]
             C == [P EXCEPT !.onTcp = @ \union {m}]
  <2>4. SentOn(R, B, x)
    <3>1. /\ B \in AdsType /\ B.tcp = "ok" /\ B.sock = R.sock /\ B.q = Q
          /\ B.udpw = R.udpw /\ B.tcpw = R.tcpw /\ B.output = R.output
          /\ B.tcpsend = R.tcpsend \union {m} /\ B.onTcp = R.onTcp
      <4> HIDE DEF P, Q, m
      <4> QED
        BY <2>1, <2>3 DEF AdsType
    <3> HIDE DEF B
    <3> QED
      BY <1>3, <3>1 DEF SentOn
  <2>5. SentOn(R, C, x)
    <3>1. /\ C \in AdsType /\ C.tcp = "ok" /\ C.sock = R.sock /\ C.q = Q
          /\ C.udpw = R.udpw /\ C.tcpw = R.tcpw /\ C.output = R.output
          /\ C.tcpsend = R.tcpsend /\ C.onTcp = R.onTcp \union {m}
      <4> HIDE DEF P, Q, m
      <4> QED
        BY <2>1, <2>3 DEF AdsType
    <3> HIDE DEF C
    <3> QED
      BY <1>3, <3>1 DEF SentOn
  <2>6. \/ S \in {B, C}
        \/ R.sock \in {"none", "dead"} /\ S \in {P, Broken(P)}
    <3>1. R.sock \in {"none", "syn", "up", "dead"}
      BY <1>1 DEF AdsType
    <3> QED
      BY <1>3, <3>1 DEF SendTcp
  <2>7. CASE S \in {B, C}
    <3>1. SentOn(R, S, x)
      BY <2>4, <2>5, <2>7
    <3> HIDE DEF B, C, P, Q, m
    <3> QED
      BY <1>3, <3>1, SentRight
  <2>8. CASE R.sock \in {"none", "dead"} /\ S \in {P, Broken(P)}
    <3>1. R.sock = "dead"
      BY <1>1, <1>3, <2>8 DEF Socket
    <3>2. SentOn(R, P, x)
      <4> HIDE DEF P
      <4> QED
        BY <1>3, <2>3, <3>1 DEF SentOn
    <3> HIDE DEF B, C, P, Q, m
    <3>3. Right(P, {}, E \ {x}, N, T, low) /\ SameStates(R, P)
      BY <3>2, SentRight
    <3>4. Right(Broken(P), {}, E \ {x}, N, T, low) /\ SameStates(P, Broken(P))
      <4>1. Core(P, {}, E \ {x}, N, T, low) /\ P.tcp # "connecting"
        BY <2>3, <3>3 DEF Right
      <4> QED
        BY <4>1, BrokenRight
    <3>5. SameStates(R, Broken(P))
      BY <3>3, <3>4 DEF SameStates
    <3> QED
      BY <1>3, <2>8, <3>3, <3>4, <3>5
  <2> QED
    BY <2>6, <2>7, <2>8
<1> QED
  BY <1>2, <1>3

\* tcp_connected: after i queries the rest has yet to be sent.
Sends(g, n, R) ==
    g = [i \in 0 .. n |-> IF i = 0 THEN {[R EXCEPT !.tcp = "ok"]}
                          ELSE UNION {SendTcp(S, R.tcpw[i]) : S \in g[i - 1]}]

LEMMA SendsExists ==
    ASSUME NEW R, NEW m \in Nat
    PROVE  \E g : Sends(g, m, R)
<1> DEFINE F(g, i) == IF i = 0 THEN {[R EXCEPT !.tcp = "ok"]}
                      ELSE UNION {SendTcp(S, R.tcpw[i]) : S \in g[i - 1]}
           N == {n \in Nat : \E g : Sends(g, n, R)}
<1>1. 0 \in N
  <2>1. Sends([i \in 0 .. 0 |-> {[R EXCEPT !.tcp = "ok"]}], 0, R)
    BY DEF Sends
  <2> QED
    BY <2>1
<1>2. ASSUME NEW n \in N PROVE n + 1 \in N
  <2>1. PICK g : g = [i \in 0 .. n |-> F(g, i)]
    BY DEF Sends
  <2> DEFINE h == [i \in 0 .. n + 1 |-> F(g, i)]
  <2>2. \A i \in 0 .. n : g[i] = F(g, i)
    BY <2>1, Zenon
  <2>3. \A i \in 0 .. n : i \in 0 .. n + 1 /\ h[i] = g[i]
    <3>1. \A i \in 0 .. n : i \in 0 .. n + 1
      OBVIOUS
    <3> QED
      BY <2>2, <3>1, Zenon
  <2>4. ASSUME NEW i \in 0 .. n + 1, i # 0 PROVE h[i - 1] = g[i - 1]
    <3>1. i - 1 \in 0 .. n
      BY <2>4
    <3> QED
      BY <2>3, <3>1
  <2>5. \A i \in 0 .. n + 1 : F(g, i) = F(h, i)
    BY <2>4
  <2>6. h = [i \in 0 .. n + 1 |-> F(h, i)]
    BY <2>5
  <2> HIDE DEF h
  <2>7. Sends(h, n + 1, R)
    BY <2>6 DEF Sends
  <2> QED
    BY <2>7
<1>3. N = Nat
  <2>1. N \in SUBSET Nat
    OBVIOUS
  <2> HIDE DEF N
  <2> QED
    BY <1>1, <1>2, <2>1, NatInduct
<1> QED
  BY <1>3

LEMMA ConnectedIs ==
    ASSUME NEW R, Len(R.tcpw) \in Nat
    PROVE  \E g : Sends(g, Len(R.tcpw), R) /\ Connected(R) = g[Len(R.tcpw)]
<1>1. Connected(R) = (CHOOSE g : Sends(g, Len(R.tcpw), R))[Len(R.tcpw)]
  BY DEF Connected, Sends
<1>2. \E g : Sends(g, Len(R.tcpw), R)
  BY SendsExists
<1> QED
  BY <1>1, <1>2

\* The places of s after n.
After(s, n) == {s[j] : j \in n + 1 .. Len(s)}

LEMMA ConnectedRight ==
    ASSUME NEW R, NEW N, NEW T, NEW low \in Lows, Core(R, {}, {}, N, T, low), R.tcp \in {"disconnected", "connecting"},
           R.tcpsend = {}, R.sock \in {"syn", "up", "dead"}, NEW Z \in Connected(R)
    PROVE  Right(Z, {}, {}, N, T, low)
<1> DEFINE n == Len(R.tcpw)
           W == In(R, "tcpw", {})
           A == [R EXCEPT !.tcp = "ok"]
<1>1. R \in AdsType /\ Queues(R, {}) /\ IsQueue(R.tcpw, W)
  BY DEF Core, Queues
<1>2. n \in Nat /\ DOMAIN R.tcpw = 1 .. n /\ \A i \in 1 .. n : R.tcpw[i] \in W
  BY <1>1, QueueHas
<1>3. PICK g : Sends(g, n, R) /\ Connected(R) = g[n]
  BY <1>2, ConnectedIs
<1>4. \A i \in 0 .. n : g[i] = IF i = 0 THEN {A}
                ELSE UNION {SendTcp(S, R.tcpw[i]) : S \in g[i - 1]}
  BY <1>3, Zenon DEF Sends
<1> DEFINE Good(S, i) == Right(S, {}, After(R.tcpw, i), N, T, low) /\ SameStates(R, S)
           K == {i \in Nat : i <= n => \A S \in g[i] : Good(S, i)}
<1>5. 0 \in K
  <2>1. g[0] = {A}
    <3>1. 0 \in 0 .. n
      BY <1>2
    <3> HIDE DEF n, A
    <3> QED
      BY <1>4, <3>1
  <2>2. After(R.tcpw, 0) = W
    BY <1>1, <1>2, QueueHas DEF After
  <2>3. /\ A \in AdsType /\ A.tcp = "ok" /\ A.sock = R.sock /\ A.q = R.q
        /\ A.udpw = R.udpw /\ A.tcpw = R.tcpw /\ A.output = R.output /\ A.tcpsend = R.tcpsend
    BY <1>1 DEF AdsType
  <2> HIDE DEF A, W
  <2>4. SameStates(R, A) /\ \A O, st : In(A, st, O) = In(R, st, O)
    BY <2>3 DEF SameStates, In
  <2>5. \A y \in Queries : Tried(A.q[y]) /\ Settled(A.q[y], "ok") /\ Timely(A.q[y], low)
    BY <2>3 DEF Core, Settled
  <2>6. W \subseteq Queries /\ \A y \in W : A.q[y].retries <= NServers
    BY <2>3 DEF W, In, Core, Settled
  <2>7. Streams(A, {} \union W)
    <3>1. In(A, "tcpw", {} \union W) = {}
      BY <2>3 DEF In, W
    <3> QED
      BY <3>1 DEF Streams
  <2>8. Queues(A, {}) /\ In(A, "none", {}) = N /\ In(A, "taken", {}) = T
    BY <1>1, <2>3, <2>4 DEF Queues, Core
  <2>9. Socket(A)
    BY <2>3 DEF Socket
  <2>10. Right(A, {}, W, N, T, low)
    BY <2>3, <2>5, <2>6, <2>7, <2>8, <2>9 DEF Right, Core
  <2> QED
    BY <2>1, <2>2, <2>4, <2>10
<1>6. ASSUME NEW i \in K PROVE i + 1 \in K
  <2> SUFFICES ASSUME i + 1 <= n, NEW S \in g[i + 1] PROVE Good(S, i + 1)
    OBVIOUS
  <2>1. i \in Nat /\ i + 1 \in 0 .. n /\ i + 1 \in 1 .. n /\ i + 1 # 0 /\ (i + 1) - 1 = i
    BY <1>2
  <2> DEFINE x == R.tcpw[i + 1]
  <2>2. PICK P \in g[i] : S \in SendTcp(P, x)
    <3>1. g[i + 1] = UNION {SendTcp(V, x) : V \in g[i]}
      BY <1>4, <2>1
    <3> QED
      BY <3>1
  <2>3. Right(P, {}, After(R.tcpw, i), N, T, low) /\ SameStates(R, P)
    BY <1>2, <2>1
  <2>4. x \in After(R.tcpw, i) /\ After(R.tcpw, i) \ {x} = After(R.tcpw, i + 1)
    <3> DEFINE s == R.tcpw
    <3>1. Len(s) = n /\ \A j, k \in 1 .. n : s[j] = s[k] => j = k
      BY <1>1, <1>2 DEF IsQueue, IsInjective
    <3> HIDE DEF s, n
    <3>2. \A j \in i + 1 .. n : j = i + 1 \/ j \in (i + 1) + 1 .. n
      BY <1>2, <2>1
    <3>3. \A j \in (i + 1) + 1 .. n : j \in i + 1 .. n /\ j \in 1 .. n /\ j # i + 1
      BY <1>2, <2>1
    <3>4. i + 1 \in i + 1 .. n
      BY <1>2, <2>1
    <3>5. \A j \in (i + 1) + 1 .. n : s[j] # s[i + 1]
      BY <2>1, <3>1, <3>3
    <3>6. s[i + 1] \in After(s, i) /\ After(s, i) \ {s[i + 1]} = After(s, i + 1)
      BY <3>1, <3>2, <3>3, <3>4, <3>5 DEF After
    <3> QED
      BY <3>6 DEF s
  <2>5. P.q[x].state = "tcpw"
    <3>1. R.q[x].state = "tcpw" /\ x \in Queries
      BY <1>2, <2>1 DEF In
    <3> QED
      BY <2>3, <3>1 DEF SameStates
  <2> HIDE DEF x
  <2>6. Right(S, {}, After(R.tcpw, i) \ {x}, N, T, low) /\ SameStates(P, S)
    <3> DEFINE D == After(R.tcpw, i)
    <3>1. Right(P, {}, D, N, T, low) /\ x \in D
      BY <2>3, <2>4
    <3> HIDE DEF D
    <3>2. Right(S, {}, D \ {x}, N, T, low) /\ SameStates(P, S)
      BY ONLY <2>2, <2>5, <3>1, low \in Lows, SendTcpRight
    <3> QED
      BY <3>2 DEF D
  <2>7. SameStates(R, S)
    BY <2>3, <2>6 DEF SameStates
  <2> QED
    BY <2>4, <2>6, <2>7
<1>7. K = Nat
  <2>1. K \in SUBSET Nat
    OBVIOUS
  <2> HIDE DEF K
  <2> QED
    BY <1>5, <1>6, <2>1, NatInduct
<1>8. Good(Z, n)
  <2>1. n \in K
    BY <1>2, <1>7
  <2> QED
    BY <1>2, <1>3, <2>1
<1>9. After(R.tcpw, n) = {}
  <2>1. n + 1 .. n = {}
    BY <1>2
  <2> QED
    BY <2>1 DEF After
<1> QED
  BY <1>8, <1>9

\* adns__tcp_tryconnect: after n servers refused.
OneRefused(R) == BrokenEvents(Broken([R EXCEPT !.tcp = "connecting"]))
Refused(g, m, R) == g = [n \in 0 .. m |-> IF n = 0 THEN R ELSE OneRefused(g[n - 1])]

LEMMA RefusedExists ==
    ASSUME NEW R, NEW m \in Nat
    PROVE  \E g : Refused(g, m, R)
<1> DEFINE F(g, i) == IF i = 0 THEN R ELSE OneRefused(g[i - 1])
           N == {n \in Nat : \E g : Refused(g, n, R)}
<1>1. 0 \in N
  <2>1. Refused([i \in 0 .. 0 |-> R], 0, R)
    BY DEF Refused
  <2> QED
    BY <2>1
<1>2. ASSUME NEW n \in N PROVE n + 1 \in N
  <2>1. PICK g : g = [i \in 0 .. n |-> F(g, i)]
    BY DEF Refused
  <2> DEFINE h == [i \in 0 .. n + 1 |-> F(g, i)]
  <2>2. \A i \in 0 .. n : g[i] = F(g, i)
    BY <2>1, Zenon
  <2>3. \A i \in 0 .. n : i \in 0 .. n + 1 /\ h[i] = g[i]
    <3>1. \A i \in 0 .. n : i \in 0 .. n + 1
      OBVIOUS
    <3> QED
      BY <2>2, <3>1, Zenon
  <2>4. ASSUME NEW i \in 0 .. n + 1, i # 0 PROVE h[i - 1] = g[i - 1]
    <3>1. i - 1 \in 0 .. n
      BY <2>4
    <3> QED
      BY <2>3, <3>1
  <2>5. \A i \in 0 .. n + 1 : F(g, i) = F(h, i)
    BY <2>4
  <2>6. h = [i \in 0 .. n + 1 |-> F(h, i)]
    BY <2>5
  <2> HIDE DEF h
  <2>7. Refused(h, n + 1, R)
    BY <2>6 DEF Refused
  <2> QED
    BY <2>7
<1>3. N = Nat
  <2>1. N \in SUBSET Nat
    OBVIOUS
  <2> HIDE DEF N
  <2> QED
    BY <1>1, <1>2, <2>1, NatInduct
<1> QED
  BY <1>3

\* A connection begins or stands: what is put in its stream does not matter yet.
LEMMA Connecting ==
    ASSUME NEW R, NEW N, NEW T, NEW low \in Lows, Right(R, {}, {}, N, T, low), R.tcp = "disconnected"
    PROVE  /\ Core([R EXCEPT !.tcp = "connecting"], {}, {}, N, T, low)
           /\ Right([R EXCEPT !.tcp = "connecting", !.sock = "syn", !.tcptimeout = TcpConn],
                    {}, {}, N, T, low)
           /\ Core([R EXCEPT !.sock = "up"], {}, {}, N, T, low)
<1>1. R \in AdsType /\ Queues(R, {}) /\ R.tcpsend = {}
  BY DEF Right, Core, Socket
<1> DEFINE A == [R EXCEPT !.tcp = "connecting"]
           B == [R EXCEPT !.tcp = "connecting", !.sock = "syn", !.tcptimeout = TcpConn]
           C == [R EXCEPT !.sock = "up"]
           Alike(S) == /\ S \in AdsType /\ S.q = R.q /\ S.udpw = R.udpw /\ S.tcpw = R.tcpw
                       /\ S.output = R.output /\ S.tcp \in {"disconnected", "connecting"}
<1>2. Alike(A) /\ A.tcp = "connecting"
  BY <1>1 DEF AdsType
<1>3. Alike(B) /\ B.tcp = "connecting" /\ B.sock = "syn" /\ B.tcpsend = {}
  <2>1. TcpConn \in Int
    BY ResolverAssumption
  <2> QED
    BY <1>1, <2>1 DEF AdsType
<1>4. Alike(C)
  BY <1>1 DEF AdsType
<1>5. ASSUME NEW S, Alike(S) PROVE Core(S, {}, {}, N, T, low)
  <2>1. \A O, st : In(S, st, O) = In(R, st, O)
    BY <1>5 DEF In
  <2>2. \A y \in Queries : Tried(S.q[y]) /\ Settled(S.q[y], S.tcp) /\ Timely(S.q[y], low)
    BY <1>5 DEF Right, Core, Settled
  <2>3. Queues(S, {}) /\ In(S, "none", {}) = N /\ In(S, "taken", {}) = T
    BY <1>1, <1>5, <2>1 DEF Queues, Right, Core
  <2>4. Streams(S, {} \union {})
    BY <1>5 DEF Streams
  <2> QED
    BY <1>5, <2>2, <2>3, <2>4 DEF Core
<1> HIDE DEF Alike, A, B, C
<1>6. Socket(B)
  BY <1>3 DEF Socket
<1>7. Core(A, {}, {}, N, T, low) /\ Core(C, {}, {}, N, T, low) /\ Right(B, {}, {}, N, T, low)
  BY <1>2, <1>3, <1>4, <1>5, <1>6 DEF Right
<1> QED
  BY <1>7 DEF A, B, C

LEMMA TryConnectRight ==
    ASSUME NEW R, NEW N, NEW T, NEW low \in Lows, Right(R, {}, {}, N, T, low), NEW Z \in TryConnect(R)
    PROVE  /\ Right(Z, {}, {}, N, T, low)
           /\ R.tcp # "disconnected" => Z = R
<1>1. CASE R.tcp # "disconnected"
  BY <1>1 DEF TryConnect
<1>2. CASE R.tcp = "disconnected"
  <2>0. NServers \in Nat
    BY ResolverAssumption
  <2> DEFINE g == CHOOSE f : Refused(f, NServers, R)
  <2>1. Z \in {g[NServers]}
           \union UNION {{[g[n] EXCEPT !.tcp = "connecting", !.sock = "syn", !.tcptimeout = TcpConn]}
                         \union Connected([g[n] EXCEPT !.sock = "up"]) : n \in 0 .. NServers - 1}
    BY <1>2 DEF TryConnect, Refused, OneRefused
  <2>2. Refused(g, NServers, R)
    BY <2>0, RefusedExists
  <2> HIDE DEF g
  <2>3. \A n \in 0 .. NServers : g[n] = IF n = 0 THEN R ELSE OneRefused(g[n - 1])
    BY <2>2, Zenon DEF Refused
  <2> DEFINE Good(S) == Right(S, {}, {}, N, T, low) /\ S.tcp = "disconnected"
             K == {n \in Nat : n <= NServers => Good(g[n])}
  <2>4. 0 \in K
    <3>1. 0 \in 0 .. NServers
      BY <2>0
    <3>2. g[0] = R
      BY <2>3, <3>1
    <3> QED
      BY <1>2, <3>2
  <2>5. ASSUME NEW n \in K PROVE n + 1 \in K
    <3> SUFFICES ASSUME n + 1 <= NServers PROVE Good(g[n + 1])
      OBVIOUS
    <3>1. n \in Nat /\ n + 1 \in 0 .. NServers /\ n + 1 # 0 /\ (n + 1) - 1 = n
      BY <2>0
    <3>2. g[n + 1] = OneRefused(g[n]) /\ Good(g[n])
      BY <2>0, <2>3, <3>1
    <3> DEFINE A == [g[n] EXCEPT !.tcp = "connecting"]
    <3>3. Core(A, {}, {}, N, T, low)
      BY <3>2, Connecting
    <3> HIDE DEF A
    <3>4. Right(Broken(A), {}, {}, N, T, low) /\ Broken(A).tcp = "broken"
      BY <3>3, BrokenRight
    <3>5. Good(BrokenEvents(Broken(A)))
      BY <3>4, BrokenEventsRight
    <3> QED
      BY <3>2, <3>5 DEF OneRefused, A
  <2>6. K = Nat
    <3>1. K \in SUBSET Nat
      OBVIOUS
    <3> HIDE DEF K
    <3> QED
      BY <2>4, <2>5, <3>1, NatInduct
  <2>7. ASSUME NEW n \in 0 .. NServers PROVE Good(g[n])
    BY <2>0, <2>6
  <2>8. ASSUME NEW n \in 0 .. NServers - 1, NEW V \in Connected([g[n] EXCEPT !.sock = "up"])
        PROVE  Right(V, {}, {}, N, T, low)
    <3> DEFINE C == [g[n] EXCEPT !.sock = "up"]
    <3>1. Good(g[n])
      BY <2>0, <2>7
    <3>2. Core(C, {}, {}, N, T, low)
      BY <3>1, Connecting
    <3>3. C.sock = "up" /\ C.tcp = "disconnected" /\ C.tcpsend = {}
      BY <3>1 DEF Right, Core, Socket, AdsType
    <3> HIDE DEF C
    <3>4. V \in Connected(C)
      BY <2>8 DEF C
    <3> QED
      BY <3>2, <3>3, <3>4, ConnectedRight
  <2>9. ASSUME NEW n \in 0 .. NServers - 1
        PROVE  Right([g[n] EXCEPT !.tcp = "connecting", !.sock = "syn", !.tcptimeout = TcpConn],
                     {}, {}, N, T, low)
    <3>1. Good(g[n])
      BY <2>0, <2>7
    <3> QED
      BY <3>1, Connecting
  <2>10. Good(g[NServers])
    BY <2>0, <2>7
  <2> QED
    BY <1>2, <2>1, <2>8, <2>9, <2>10
<1> QED
  BY <1>1, <1>2
-----------------------------------------------------------------------------
(***************************************************************************)
(* The query x, which was in no queue, enters one.                         *)
(***************************************************************************)
Enter(s, x, st, k) == IF st = k THEN Append(s, x) ELSE s
Entered(R, S, x, st) ==
    /\ S \in AdsType /\ S.tcp = R.tcp /\ S.sock = R.sock
    /\ S.tcpsend = R.tcpsend /\ S.onTcp = R.onTcp
    /\ \A y \in Queries : y # x => S.q[y] = R.q[y]
    /\ S.q[x].state = st
    /\ S.udpw = Enter(R.udpw, x, st, "udpw")
    /\ S.tcpw = Enter(R.tcpw, x, st, "tcpw")
    /\ S.output = Enter(R.output, x, st, "done")

LEMMA EnterQueue ==
    ASSUME NEW S, NEW s, IsQueue(s, S), NEW x, x \notin S, NEW st, NEW k
    PROVE  IsQueue(Enter(s, x, st, k), IF st = k THEN S \cup {x} ELSE S)
BY QueueAppend DEF Enter

LEMMA EnteredRight ==
    ASSUME NEW R, NEW x \in Queries, NEW N, NEW T, NEW low \in Lows, Right(R, {x}, {}, N, T, low),
           NEW st \in {"udpw", "tcpw", "done"}, NEW S, Entered(R, S, x, st),
           Tried(S.q[x]), Settled(S.q[x], R.tcp), Timely(S.q[x], low),
           NEW E, E = IF st = "tcpw" THEN {x} ELSE {}, st = "tcpw" => S.q[x].retries = 0
    PROVE  Right(S, {}, E, N, T, low)
<1>1. R \in AdsType /\ Queues(R, {x}) /\ Socket(R)
  BY DEF Right, Core
<1>2. \A k \in States : In(S, k, {}) = IF k = st THEN In(R, k, {x}) \cup {x} ELSE In(R, k, {x})
  BY DEF In, Entered
<1>3. /\ In(S, "udpw", {}) = IF st = "udpw" THEN In(R, "udpw", {x}) \cup {x} ELSE In(R, "udpw", {x})
      /\ In(S, "tcpw", {}) = IF st = "tcpw" THEN In(R, "tcpw", {x}) \cup {x} ELSE In(R, "tcpw", {x})
      /\ In(S, "done", {}) = IF st = "done" THEN In(R, "done", {x}) \cup {x} ELSE In(R, "done", {x})
      /\ In(S, "none", {}) = In(R, "none", {x})
      /\ In(S, "taken", {}) = In(R, "taken", {x})
  BY <1>2, Zenon DEF States
<1>4. \A k : x \notin In(R, k, {x})
  BY DEF In
<1>5. Queues(S, {})
  <2>1. IsQueue(S.udpw, In(S, "udpw", {}))
    <3> DEFINE D == In(R, "udpw", {x})
    <3>1. IsQueue(R.udpw, D) /\ x \notin D
      BY <1>1, <1>4 DEF Queues
    <3>2. In(S, "udpw", {}) = IF st = "udpw" THEN D \cup {x} ELSE D
      BY <1>3
    <3> HIDE DEF D
    <3>3. IsQueue(Enter(R.udpw, x, st, "udpw"), IF st = "udpw" THEN D \cup {x} ELSE D)
      BY <3>1, EnterQueue
    <3>4. S.udpw = Enter(R.udpw, x, st, "udpw")
      BY DEF Entered
    <3> QED
      BY <3>2, <3>3, <3>4
  <2>2. IsQueue(S.tcpw, In(S, "tcpw", {}))
    <3> DEFINE D == In(R, "tcpw", {x})
    <3>1. IsQueue(R.tcpw, D) /\ x \notin D
      BY <1>1, <1>4 DEF Queues
    <3>2. In(S, "tcpw", {}) = IF st = "tcpw" THEN D \cup {x} ELSE D
      BY <1>3
    <3> HIDE DEF D
    <3>3. IsQueue(Enter(R.tcpw, x, st, "tcpw"), IF st = "tcpw" THEN D \cup {x} ELSE D)
      BY <3>1, EnterQueue
    <3>4. S.tcpw = Enter(R.tcpw, x, st, "tcpw")
      BY DEF Entered
    <3> QED
      BY <3>2, <3>3, <3>4
  <2>3. IsQueue(S.output, In(S, "done", {}))
    <3> DEFINE D == In(R, "done", {x})
    <3>1. IsQueue(R.output, D) /\ x \notin D
      BY <1>1, <1>4 DEF Queues
    <3>2. In(S, "done", {}) = IF st = "done" THEN D \cup {x} ELSE D
      BY <1>3
    <3> HIDE DEF D
    <3>3. IsQueue(Enter(R.output, x, st, "done"), IF st = "done" THEN D \cup {x} ELSE D)
      BY <3>1, EnterQueue
    <3>4. S.output = Enter(R.output, x, st, "done")
      BY DEF Entered
    <3> QED
      BY <3>2, <3>3, <3>4
  <2> QED
    BY <2>1, <2>2, <2>3 DEF Queues
<1>6. In(S, "none", {}) = N /\ In(S, "taken", {}) = T
  BY <1>3 DEF Right, Core
<1>7. \A y \in Queries : Tried(S.q[y]) /\ Settled(S.q[y], S.tcp) /\ Timely(S.q[y], low)
  BY DEF Right, Core, Entered
<1>8. E \subseteq Queries /\ \A y \in E : S.q[y].retries <= NServers
  BY ResolverAssumption
<1>9. Streams(S, {} \union E)
  <2>1. ASSUME NEW y \in In(S, "tcpw", {} \union E)
        PROVE  y \in In(R, "tcpw", {x} \union {}) /\ S.q[y] = R.q[y]
    BY DEF In, Entered
  <2>2. Streams(R, {x} \union {})
    BY DEF Right, Core
  <2> QED
    BY <2>1, <2>2 DEF Streams, Entered
<1>10. Socket(S)
  BY <1>1 DEF Socket, Entered
<1>11. S \in AdsType
  BY DEF Entered
<1> QED
  BY <1>5, <1>6, <1>7, <1>8, <1>9, <1>10, <1>11 DEF Right, Core

\* A record whose query and whose queues change.
Changed(R, x, r, k) ==
    [R EXCEPT !.q = [R.q EXCEPT ![x] = r], !.asked = k,
              !.udpw = Enter(R.udpw, x, r.state, "udpw"),
              !.tcpw = Enter(R.tcpw, x, r.state, "tcpw"),
              !.output = Enter(R.output, x, r.state, "done")]

LEMMA ChangedType ==
    ASSUME NEW R, R \in AdsType, NEW x \in Queries, NEW r \in QueryType,
           NEW k \in SUBSET (Queries \X Nat \X Servers)
    PROVE  Entered(R, Changed(R, x, r, k), x, r.state) /\ Changed(R, x, r, k).q[x] = r
<1> DEFINE S == Changed(R, x, r, k)
           st == r.state
           Q == [R.q EXCEPT ![x] = r]
           u == Enter(R.udpw, x, st, "udpw")
           w == Enter(R.tcpw, x, st, "tcpw")
           o == Enter(R.output, x, st, "done")
<1>1. Q \in [Queries -> QueryType] /\ Q[x] = r /\ \A y \in Queries : y # x => Q[y] = R.q[y]
  BY DEF AdsType
<1>2. u \in Seq(Queries) /\ w \in Seq(Queries) /\ o \in Seq(Queries)
  BY DEF AdsType, Enter
<1> HIDE DEF Q, u, w, o
<1>3. S = [udpw |-> u, tcpw |-> w, output |-> o, q |-> Q, tcp |-> R.tcp,
           tcpserver |-> R.tcpserver, tcptimeout |-> R.tcptimeout, sock |-> R.sock,
           tcpsend |-> R.tcpsend, onTcp |-> R.onTcp, asked |-> k]
  <2>1. S = [R EXCEPT !.q = Q, !.asked = k, !.udpw = u, !.tcpw = w, !.output = o]
    BY DEF Changed, Q, u, w, o
  <2> HIDE DEF S
  <2> QED
    BY <2>1 DEF AdsType
<1> HIDE DEF S
<1>4. S \in AdsType
  BY <1>1, <1>2, <1>3 DEF AdsType
<1>5. /\ S.tcp = R.tcp /\ S.sock = R.sock /\ S.tcpsend = R.tcpsend /\ S.onTcp = R.onTcp
      /\ S.q = Q /\ S.udpw = u /\ S.tcpw = w /\ S.output = o
  BY ONLY <1>3
<1> QED
  BY <1>1, <1>4, <1>5 DEF S, Entered, u, w, o

\* What a query needs when it is sent: it starts its tries over TCP with the
\* first, and if it goes over UDP it is new or late there.
Ready(R, x) ==
    /\ R.q[x].usevc => R.q[x].state = "tosend" /\ R.q[x].retries = 0
    /\ ~R.q[x].usevc => R.q[x].state = "udpw" \/ (R.q[x].state = "tosend" /\ R.q[x].retries = 0)

\* What a query needs when it ends.
CanEnd(q) == q.state # "tosend" \/ q.usevc \/ q.retries <= UdpMaxRetries

Statuses == {"ok", "failed", "timeout", "prohibitedcname"}

\* adns__query_done, adns__query_fail
LEMMA DoneRight ==
    ASSUME NEW R, NEW x \in Queries, NEW N, NEW T, NEW low \in Lows, Right(R, {x}, {}, N, T, low),
           NEW st \in Statuses, CanEnd(R.q[x]),
           st = "timeout" /\ ~R.q[x].usevc /\ UdpMaxRetries >= NServers => R.q[x].sent = Servers
    PROVE  Right(Done(R, x, st), {}, {}, N, T, low) /\ Done(R, x, st).tcp = R.tcp
<1> DEFINE q == R.q[x]
           r == [q EXCEPT !.state = "done", !.status = st, !.timer = NoTime]
           S == Done(R, x, st)
<1>1. /\ R \in AdsType /\ q \in QueryType /\ Tried(q) /\ Timely(q, low)
      /\ R.asked \in SUBSET (Queries \X Nat \X Servers)
  BY DEF Right, Core, AdsType
<1>2. /\ r \in QueryType /\ r.state = "done" /\ r.status = st /\ r.usevc = q.usevc
      /\ r.sent = q.sent /\ r.next = q.next /\ r.retries = q.retries /\ r.age = q.age
  <2>0. r = [q EXCEPT !.state = "done", !.status = st, !.timer = NoTime]
    OBVIOUS
  <2> HIDE DEF r, q
  <2>1. r = [state |-> "done", retries |-> q.retries, next |-> q.next, sent |-> q.sent,
             status |-> st, timer |-> NoTime, usevc |-> q.usevc,
             cname |-> q.cname, id |-> q.id, age |-> q.age]
    BY <1>1, <2>0 DEF QueryType
  <2>2. NoTime \in Int /\ "done" \in States
    BY DEF NoTime, States
  <2> QED
    BY <1>1, <2>1, <2>2 DEF QueryType, Statuses
<1>3. S = [R EXCEPT !.q = [R.q EXCEPT ![x] = r], !.output = Append(@, x)]
  <2>1. S = [R EXCEPT !.q[x] = r, !.output = Append(@, x)]
    BY DEF Done
  <2> HIDE DEF S, r
  <2> QED
    BY <1>1, <2>1 DEF AdsType
<1>4. S = Changed(R, x, r, R.asked)
  <2> DEFINE Q == [R.q EXCEPT ![x] = r]
  <2>1. S = [R EXCEPT !.q = Q, !.output = Append(@, x)]
    BY <1>3
  <2> HIDE DEF S, Q
  <2>2. S = [R EXCEPT !.q = Q, !.asked = R.asked, !.udpw = R.udpw, !.tcpw = R.tcpw,
                      !.output = Append(R.output, x)]
    BY <1>1, <2>1 DEF AdsType
  <2> HIDE DEF r
  <2> QED
    BY <1>2, <2>2 DEF Changed, Enter, Q
<1>5. Tried(r) /\ Settled(r, R.tcp)
  <2> HIDE DEF r, q
  <2> QED
    BY <1>1, <1>2 DEF Tried, Settled, Ahead, q
<1>a. Timely(r, low)
  <2> HIDE DEF r
  <2>1. CanEnd(q)
    OBVIOUS
  <2> HIDE DEF q
  <2> QED
    BY <1>1, <1>2, <2>1, TimelyOver DEF CanEnd
<1> HIDE DEF r, S
<1>6. Entered(R, S, x, "done") /\ S.q[x] = r
  BY <1>1, <1>2, <1>4, ChangedType
<1>7. Right(S, {}, {}, N, T, low)
  BY <1>5, <1>a, <1>6, EnteredRight
<1> QED
  BY <1>6, <1>7 DEF Entered, S

\* query_usetcp
LEMMA UseTcpRight ==
    ASSUME NEW R, NEW x \in Queries, NEW N, NEW T, NEW low \in Lows, Right(R, {x}, {}, N, T, low), Ready(R, x),
           R.q[x].usevc, NEW Z \in UseTcp(R, x)
    PROVE  Right(Z, {}, {}, N, T, low) /\ (R.tcp = "connecting" => Z.tcp = "connecting")
<1> DEFINE q == R.q[x]
           r == [q EXCEPT !.state = "tcpw", !.timer = TcpWait]
           P == [R EXCEPT !.q[x] = r, !.tcpw = Append(@, x)]
<1>1. /\ R \in AdsType /\ q \in QueryType /\ Tried(q) /\ q.usevc /\ q.retries = 0
      /\ Timely(q, low) /\ q.state = "tosend"
      /\ R.asked \in SUBSET (Queries \X Nat \X Servers)
  BY DEF Right, Core, AdsType, Ready
<1>2. /\ r \in QueryType /\ r.state = "tcpw" /\ r.status = q.status /\ r.usevc
      /\ r.retries = 0 /\ r.timer = TcpWait /\ r.age = q.age /\ r.cname = q.cname
      /\ r.usevc = q.usevc
  <2>1. r = [q EXCEPT !.state = "tcpw", !.timer = TcpWait]
    OBVIOUS
  <2> HIDE DEF r, q
  <2>2. r = [state |-> "tcpw", retries |-> q.retries, next |-> q.next, sent |-> q.sent,
             status |-> q.status, timer |-> TcpWait, usevc |-> q.usevc,
             cname |-> q.cname, id |-> q.id, age |-> q.age]
    BY <1>1, <2>1 DEF QueryType
  <2>3. TcpWait \in Int /\ "tcpw" \in States
    BY ResolverAssumption DEF States
  <2> QED
    BY <1>1, <2>2, <2>3 DEF QueryType
<1>3. Tried(r) /\ Settled(r, R.tcp)
  <2>1. q.status = "none"
    BY <1>1 DEF Tried
  <2> HIDE DEF r, q
  <2> QED
    BY <1>1, <1>2, <2>1, ResolverAssumption DEF Tried, Settled
<1>a. Timely(r, low)
  <2> HIDE DEF r, q
  <2>1. TimeLeft(q) = TcpTime /\ TimeLeft(r) = TcpTime
    BY <1>1, <1>2 DEF TimeLeft, TcpTime
  <2>2. ~TcpTruncates => q.age + TimeLeft(q) <= RoundEnd(q.usevc, q.cname)
    BY <1>1 DEF Timely
  <2>3. RoundEnd(r.usevc, r.cname) = RoundEnd(q.usevc, q.cname)
    BY <1>2
  <2>4. ~TcpTruncates => r.age + TimeLeft(r) <= RoundEnd(r.usevc, r.cname)
    BY <1>2, <2>1, <2>2, <2>3
  <2>5. r.timer >= low
    BY <1>2, Times DEF Lows
  <2> QED
    BY <1>2, <2>4, <2>5 DEF Timely
<1>4. P = Changed(R, x, r, R.asked)
  <2> DEFINE Q == [R.q EXCEPT ![x] = r]
  <2> HIDE DEF r
  <2>1. P = [R EXCEPT !.q = Q, !.tcpw = Append(R.tcpw, x)]
    BY <1>1 DEF AdsType
  <2> HIDE DEF P, Q
  <2>2. P = [R EXCEPT !.q = Q, !.asked = R.asked, !.udpw = R.udpw, !.output = R.output,
                      !.tcpw = Append(R.tcpw, x)]
    BY <1>1, <2>1 DEF AdsType
  <2> QED
    BY <1>2, <2>2 DEF Changed, Enter, Q
<1>5. PICK S \in SendTcp(P, x) : Z \in TryConnect(S)
  BY DEF UseTcp
<1> HIDE DEF r, P, q
<1>6. Entered(R, P, x, "tcpw") /\ P.q[x] = r
  BY <1>1, <1>2, <1>4, ChangedType
<1>7. Right(P, {}, {x}, N, T, low)
  BY <1>2, <1>3, <1>a, <1>6, EnteredRight
<1>8. Right(S, {}, {x} \ {x}, N, T, low) /\ (P.tcp # "ok" => S = P)
  BY <1>2, <1>5, <1>6, <1>7, SendTcpRight
<1>9. Right(S, {}, {}, N, T, low)
  <2>1. {x} \ {x} = {}
    OBVIOUS
  <2> QED
    BY <1>8, <2>1
<1>10. Right(Z, {}, {}, N, T, low) /\ (S.tcp # "disconnected" => Z = S)
  BY <1>5, <1>9, TryConnectRight
<1>11. P.tcp = R.tcp
  BY <1>6 DEF Entered
<1> QED
  BY <1>8, <1>10, <1>11

\* The next server is one further.
LEMMA NextServerIs ==
    ASSUME NEW s \in Servers
    PROVE  NextServer(s) \in Servers /\ NextServer(s) = IF s + 1 = NServers THEN 0 ELSE s + 1
<1>1. NServers \in Nat /\ NServers > 0 /\ s \in 0 .. NServers - 1
  BY ResolverAssumption DEF Servers
<1>2. CASE s + 1 = NServers
  <2>1. (s + 1) % NServers = 0
    BY <1>1, <1>2
  <2> QED
    BY <1>1, <1>2, <2>1 DEF NextServer, Servers
<1>3. CASE s + 1 # NServers
  <2>1. s + 1 \in 0 .. NServers - 1
    BY <1>1, <1>3
  <2>2. (s + 1) % NServers = s + 1
    BY <1>1, <2>1
  <2> QED
    BY <1>3, <2>1, <2>2 DEF NextServer, Servers
<1> QED
  BY <1>2, <1>3

\* One more try by UDP: all servers but the one asked come nearer by one.
OneTry(q) == [q EXCEPT !.state = "udpw", !.timer = UdpRetry, !.sent = q.sent \union {q.next},
                       !.retries = q.retries + 1, !.next = NextServer(q.next)]

LEMMA OneTryRight ==
    ASSUME NEW q \in QueryType, Tried(q), ~q.usevc, q.retries < UdpMaxRetries,
           q.state \in {"tosend", "udpw"}, NEW tcp, NEW low \in Lows, Timely(q, low)
    PROVE  /\ OneTry(q) \in QueryType /\ OneTry(q).state = "udpw"
           /\ Tried(OneTry(q)) /\ Settled(OneTry(q), tcp) /\ Timely(OneTry(q), low)
<1> DEFINE r == OneTry(q)
           n == NextServer(q.next)
<1>0. r = [q EXCEPT !.state = "udpw", !.timer = UdpRetry, !.sent = q.sent \union {q.next},
                    !.retries = q.retries + 1, !.next = n]
  BY DEF OneTry
<1> HIDE DEF r, n
<1>1. r = [state |-> "udpw", retries |-> q.retries + 1, next |-> n,
           sent |-> q.sent \union {q.next}, status |-> q.status, timer |-> UdpRetry,
           usevc |-> q.usevc, cname |-> q.cname, id |-> q.id, age |-> q.age]
  BY <1>0 DEF QueryType
<1>2. /\ n \in Servers /\ n = IF q.next + 1 = NServers THEN 0 ELSE q.next + 1
      /\ q.next \in Servers /\ q.sent \subseteq Servers /\ q.retries \in Nat
  BY NextServerIs DEF QueryType, n
<1>3. UdpRetry \in Int /\ "udpw" \in States
  BY ResolverAssumption DEF States
<1>4. r \in QueryType
  BY <1>1, <1>2, <1>3 DEF QueryType
<1>5. ASSUME NEW s \in Servers \ r.sent
      PROVE  Ahead(r, s) + r.retries < NServers
  <2>1. s \in Servers \ q.sent /\ s # q.next /\ r.next = n /\ r.retries = q.retries + 1
    BY <1>1
  <2>2. Ahead(q, s) + q.retries < NServers
    BY <2>1 DEF Tried
  <2>3. Ahead(r, s) = Ahead(q, s) - 1
    BY <1>2, <2>1, ResolverAssumption DEF Ahead, Servers
  <2>4. Ahead(q, s) \in Int
    BY <1>2, ResolverAssumption DEF Ahead, Servers
  <2> QED
    BY <1>2, <2>1, <2>2, <2>3, <2>4, ResolverAssumption
<1>6. q.status = "none"
  BY DEF Tried
<1>7. Tried(r)
  BY <1>1, <1>5, <1>6 DEF Tried
<1>8. Settled(r, tcp)
  BY <1>1, <1>2, ResolverAssumption DEF Settled
<1>9. Timely(r, low)
  <2>1. /\ q.age \in Nat /\ q.timer \in Int /\ TriesLeft(q) \in Int
        /\ TriesLeft(r) = TriesLeft(q) - (UdpRetry + 1)
    BY <1>1, <1>2, TriesLeftIs DEF QueryType
  <2>2. /\ r.state = "udpw" /\ r.timer = UdpRetry /\ r.age = q.age /\ r.cname = q.cname
        /\ r.usevc = q.usevc /\ r.retries = q.retries + 1
    BY ONLY <1>1
  <2>3. TimeLeft(r) = TriesLeft(q)
    BY <2>1, <2>2, Times DEF TimeLeft
  <2>4. q.state = "udpw" => q.timer >= -1
    BY <2>1 DEF Timely, Lows
  <2>5. TimeLeft(q) >= TriesLeft(q) /\ TimeLeft(q) \in Int
    BY <2>1, <2>4 DEF TimeLeft
  <2>6. RoundEnd(q.usevc, q.cname) \in Int
    BY Times DEF RoundEnd
  <2>7. ~TcpTruncates => r.age + TimeLeft(r) <= RoundEnd(r.usevc, r.cname)
    BY <2>1, <2>2, <2>3, <2>5, <2>6 DEF Timely
  <2> QED
    BY <1>2, <2>2, <2>7, Times DEF Timely, Lows
<1> QED
  BY <1>1, <1>4, <1>7, <1>8, <1>9 DEF r

\* After as many tries as there are servers all of them were asked.
LEMMA AllSent ==
    ASSUME NEW q \in QueryType, Tried(q), ~q.usevc, q.retries >= NServers
    PROVE  q.sent = Servers
<1>1. q.next \in Servers /\ q.sent \subseteq Servers /\ q.retries \in Nat
  BY DEF QueryType
<1>2. ASSUME NEW s \in Servers \ q.sent PROVE FALSE
  <2>1. Ahead(q, s) + q.retries < NServers
    BY DEF Tried
  <2>2. Ahead(q, s) \in Nat
    BY <1>1, ResolverAssumption DEF Ahead, Servers
  <2> QED
    BY <1>1, <2>1, <2>2, ResolverAssumption
<1> QED
  BY <1>1, <1>2

\* adns__query_send
LEMMA QuerySendRight ==
    ASSUME NEW R, NEW x \in Queries, NEW N, NEW T, NEW low \in Lows, Right(R, {x}, {}, N, T, low), Ready(R, x),
           NEW Z \in QuerySend(R, x)
    PROVE  Right(Z, {}, {}, N, T, low) /\ (R.tcp = "connecting" => Z.tcp = "connecting")
<1> DEFINE q == R.q[x]
<1>1. /\ R \in AdsType /\ q \in QueryType /\ Tried(q) /\ Timely(q, low) /\ CanEnd(q)
      /\ (~q.usevc => q.state \in {"tosend", "udpw"})
      /\ q.retries \in Nat /\ q.usevc \in BOOLEAN
  <2>1. R \in AdsType /\ Tried(q) /\ Timely(q, low)
    BY DEF Right, Core
  <2>2. q \in QueryType
    BY <2>1 DEF AdsType
  <2> QED
    BY <2>1, <2>2, ResolverAssumption DEF Ready, QueryType, CanEnd
<1>2. CASE q.usevc
  <2>1. Z \in UseTcp(R, x)
    BY <1>2 DEF QuerySend
  <2> QED
    BY <1>2, <2>1, UseTcpRight
<1>3. CASE ~q.usevc /\ q.retries >= UdpMaxRetries
  <2>1. Z = Done(R, x, "timeout")
    BY <1>3 DEF QuerySend
  <2>2. UdpMaxRetries >= NServers => q.retries >= NServers
    BY <1>1, <1>3, ResolverAssumption
  <2>3. UdpMaxRetries >= NServers => q.sent = Servers
    BY <1>1, <1>3, <2>2, AllSent
  <2>4. "timeout" \in Statuses
    BY DEF Statuses
  <2> QED
    BY <1>1, <2>1, <2>3, <2>4, DoneRight
<1>4. CASE ~q.usevc /\ ~(q.retries >= UdpMaxRetries)
  <2> DEFINE k == R.asked \union {<<x, q.id, q.next>>}
             r == OneTry(q)
  <2>1. Z = [R EXCEPT !.q[x] = r, !.asked = @ \union {<<x, q.id, q.next>>},
                      !.udpw = Append(@, x)]
    BY <1>4 DEF QuerySend, OneTry
  <2>2. q.retries < UdpMaxRetries
    BY <1>1, <1>4, ResolverAssumption
  <2>3. r \in QueryType /\ r.state = "udpw" /\ Tried(r) /\ Settled(r, R.tcp) /\ Timely(r, low)
    <3> HIDE DEF q
    <3> QED
      BY <1>1, <1>4, <2>2, OneTryRight
  <2>4. k \in SUBSET (Queries \X Nat \X Servers)
    BY <1>1 DEF AdsType, QueryType
  <2> HIDE DEF r
  <2>5. Z = Changed(R, x, r, k)
    <3> DEFINE Q == [R.q EXCEPT ![x] = r]
    <3>1. Z = [R EXCEPT !.q = Q, !.asked = k, !.udpw = Append(R.udpw, x)]
      <4> HIDE DEF q
      <4> QED
        BY <1>1, <2>1 DEF AdsType
    <3> HIDE DEF Q, k, q
    <3>2. Z = [R EXCEPT !.q = Q, !.asked = k, !.udpw = Append(R.udpw, x), !.tcpw = R.tcpw,
                        !.output = R.output]
      BY <1>1, <3>1 DEF AdsType
    <3> QED
      BY <2>3, <3>2 DEF Changed, Enter, Q
  <2> HIDE DEF k, q
  <2>6. Entered(R, Z, x, "udpw") /\ Z.q[x] = r
    BY <1>1, <2>3, <2>4, <2>5, ChangedType
  <2>7. Right(Z, {}, {}, N, T, low)
    BY <2>3, <2>6, EnteredRight
  <2> QED
    BY <2>6, <2>7 DEF Entered
<1> QED
  BY <1>1, <1>2, <1>3, <1>4

-----------------------------------------------------------------------------
(***************************************************************************)
(* A reply.                                                                *)
(***************************************************************************)
\* The query x, which is in no queue, changes.
Updated(R, x, r) == [R EXCEPT !.q[x] = r]

LEMMA UpdatedRight ==
    ASSUME NEW R, NEW x \in Queries, NEW N, NEW T, NEW low \in Lows, Right(R, {x}, {}, N, T, low),
           NEW r \in QueryType, Tried(r), Timely(r, low)
    PROVE  /\ Right(Updated(R, x, r), {x}, {}, N, T, low)
           /\ Updated(R, x, r).tcp = R.tcp /\ Updated(R, x, r).q[x] = r
<1> DEFINE S == Updated(R, x, r)
           Q == [R.q EXCEPT ![x] = r]
<1>1. R \in AdsType
  BY DEF Right, Core
<1>2. Q \in [Queries -> QueryType] /\ Q[x] = r /\ \A y \in Queries \ {x} : Q[y] = R.q[y]
  BY <1>1 DEF AdsType
<1>3. S = [R EXCEPT !.q = Q]
  BY <1>1 DEF AdsType, Updated
<1> HIDE DEF Q, S
<1>4. S = [udpw |-> R.udpw, tcpw |-> R.tcpw, output |-> R.output, q |-> Q, tcp |-> R.tcp,
           tcpserver |-> R.tcpserver, tcptimeout |-> R.tcptimeout, sock |-> R.sock,
           tcpsend |-> R.tcpsend, onTcp |-> R.onTcp, asked |-> R.asked]
  BY <1>1, <1>3 DEF AdsType
<1>5. S \in AdsType
  BY <1>1, <1>2, <1>4 DEF AdsType
<1>6. /\ S.tcp = R.tcp /\ S.sock = R.sock /\ S.tcpsend = R.tcpsend /\ S.onTcp = R.onTcp
      /\ S.q = Q /\ S.udpw = R.udpw /\ S.tcpw = R.tcpw /\ S.output = R.output
  BY ONLY <1>4
<1>7. \A st : In(S, st, {x}) = In(R, st, {x})
  BY <1>2, <1>6 DEF In
<1>8. /\ Queues(R, {x}) /\ In(R, "none", {x}) = N /\ In(R, "taken", {x}) = T /\ Socket(R)
      /\ \A y \in Queries : Tried(R.q[y]) /\ Timely(R.q[y], low)
      /\ \A y \in Queries \ {x} : Settled(R.q[y], R.tcp)
      /\ Streams(R, {x})
  BY DEF Right, Core
<1>9. Queues(S, {x})
  BY <1>6, <1>7, <1>8 DEF Queues
<1>10. In(S, "none", {x}) = N /\ In(S, "taken", {x}) = T
  BY <1>7, <1>8
<1>11. \A y \in Queries : Tried(S.q[y]) /\ Timely(S.q[y], low)
  BY <1>2, <1>6, <1>8
<1>12. \A y \in Queries \ {x} : Settled(S.q[y], S.tcp)
  BY <1>2, <1>6, <1>8
<1>13. Streams(S, {x})
  <2>1. \A y \in In(R, "tcpw", {x}) : S.q[y] = R.q[y]
    BY <1>2, <1>6 DEF In
  <2> QED
    BY <1>6, <1>7, <1>8, <2>1 DEF Streams
<1>14. Socket(S)
  BY <1>6, <1>8 DEF Socket
<1> QED
  BY <1>2, <1>5, <1>6, <1>9, <1>10, <1>11, <1>12, <1>13, <1>14 DEF Right, Core, S

\* There is time for another round.
InTime(q) == ~TcpTruncates =>
    q.age + (IF q.usevc THEN TcpTime ELSE UdpTime) <= RoundEnd(q.usevc, q.cname)

\* The query starts again.
LEMMA RestartRight ==
    ASSUME NEW R, NEW x \in Queries, NEW N, NEW T, NEW low \in Lows, Right(R, {x}, {}, N, T, low),
           NEW q \in QueryType, Tried(q), q.status = "none", InTime(q),
           NEW Z \in Restart(R, x, q)
    PROVE  Right(Z, {}, {}, N, T, low) /\ (R.tcp = "connecting" => Z.tcp = "connecting")
<1> DEFINE r == [q EXCEPT !.id = NewId(q), !.retries = 0, !.state = "tosend"]
           S == Updated(R, x, r)
<1>1. Z \in QuerySend(S, x)
  BY DEF Restart, Updated
<1>2. NewId(q) \in Nat
  BY DEF NewId, QueryType
<1>0. r = [q EXCEPT !.id = NewId(q), !.retries = 0, !.state = "tosend"]
  OBVIOUS
<1> DEFINE k == NewId(q)
<1> HIDE DEF r, k
<1>3. r = [state |-> "tosend", retries |-> 0, next |-> q.next, sent |-> q.sent,
           status |-> q.status, timer |-> q.timer, usevc |-> q.usevc,
           cname |-> q.cname, id |-> k, age |-> q.age]
  BY <1>0 DEF QueryType, k
<1> HIDE DEF S
<1>4. r \in QueryType
  BY <1>2, <1>3 DEF QueryType, States, k
<1>5. Tried(r)
  <2>1. \A s \in Servers : Ahead(r, s) < NServers
    BY <1>3, ResolverAssumption DEF QueryType, Ahead, Servers
  <2>2. \A s \in Servers : Ahead(r, s) + r.retries < NServers
    <3>1. \A s \in Servers : Ahead(r, s) \in Int
      BY <1>3, ResolverAssumption DEF QueryType, Ahead, Servers
    <3> QED
      BY <1>3, <2>1, <3>1
  <2> QED
    BY <1>3, <2>2 DEF Tried
<1>a. Timely(r, low)
  <2>1. /\ r.state = "tosend" /\ r.age = q.age /\ r.usevc = q.usevc /\ r.cname = q.cname
        /\ r.retries = 0
    BY ONLY <1>3
  <2>2. TriesLeft(r) = UdpTime
    BY <2>1, TriesLeftIs
  <2>3. TimeLeft(r) = IF q.usevc THEN TcpTime ELSE UdpTime
    BY <2>1, <2>2 DEF TimeLeft
  <2>4. RoundEnd(r.usevc, r.cname) = RoundEnd(q.usevc, q.cname)
    BY <2>1
  <2> QED
    BY <2>1, <2>3, <2>4 DEF Timely, InTime
<1>6. Right(S, {x}, {}, N, T, low) /\ S.tcp = R.tcp /\ S.q[x] = r
  BY <1>4, <1>5, <1>a, UpdatedRight DEF S
<1>7. Ready(S, x)
  BY <1>3, <1>6 DEF Ready
<1> QED
  BY <1>1, <1>6, <1>7, QuerySendRight

\* The reply may start with a CNAME.
LEMMA NamedRight ==
    ASSUME NEW q \in QueryType, Tried(q), q.state \in {"udpw", "tcpw"}, NEW c \in BOOLEAN,
           q.cname => c, NEW low \in Lows, Timely(q, low)
    PROVE  LET r == [q EXCEPT !.cname = c]
           IN /\ r \in QueryType /\ Tried(r) /\ r.status = "none" /\ Timely(r, low)
              /\ r.state = q.state /\ r.usevc = q.usevc /\ r.cname = c /\ r.age = q.age
<1> DEFINE r == [q EXCEPT !.cname = c]
<1>1. r = [q EXCEPT !.cname = c]
  OBVIOUS
<1> HIDE DEF r
<1>2. r = [state |-> q.state, retries |-> q.retries, next |-> q.next, sent |-> q.sent,
           status |-> q.status, timer |-> q.timer, usevc |-> q.usevc,
           cname |-> c, id |-> q.id, age |-> q.age]
  BY <1>1 DEF QueryType
<1>3. r \in QueryType
  BY <1>2 DEF QueryType
<1>4. /\ r.state = q.state /\ r.retries = q.retries /\ r.next = q.next /\ r.sent = q.sent
      /\ r.status = q.status /\ r.usevc = q.usevc
      /\ r.timer = q.timer /\ r.age = q.age /\ r.cname = c
  BY ONLY <1>2
<1>5. \A s : Ahead(r, s) = Ahead(q, s)
  BY <1>4 DEF Ahead
<1>6. Tried(r)
  BY <1>4, <1>5 DEF Tried
<1>7. Timely(r, low)
  <2>1. TimeLeft(r) = TimeLeft(q)
    BY <1>4 DEF TimeLeft, TriesLeft
  <2>2. /\ RoundEnd(q.usevc, q.cname) \in Nat /\ RoundEnd(q.usevc, c) \in Nat
        /\ RoundEnd(q.usevc, q.cname) <= RoundEnd(q.usevc, c)
    BY Times DEF RoundEnd, QueryType
  <2>3. TimeLeft(q) \in Int /\ q.age \in Nat
    BY TriesLeftIs DEF TimeLeft, QueryType
  <2> QED
    BY <1>4, <2>1, <2>2, <2>3 DEF Timely
<1> QED
  BY <1>3, <1>4, <1>6, <1>7 DEF r, Tried

\* Or the query is to go over TCP.
LEMMA ByTcpRight ==
    ASSUME NEW q \in QueryType, Tried(q), q.state \in {"udpw", "tcpw"}
    PROVE  LET r == [q EXCEPT !.usevc = TRUE]
           IN /\ r \in QueryType /\ Tried(r) /\ r.status = "none"
              /\ r.usevc = TRUE /\ r.cname = q.cname /\ r.age = q.age
<1> DEFINE r == [q EXCEPT !.usevc = TRUE]
<1>1. r = [q EXCEPT !.usevc = TRUE]
  OBVIOUS
<1> HIDE DEF r
<1>2. r = [state |-> q.state, retries |-> q.retries, next |-> q.next, sent |-> q.sent,
           status |-> q.status, timer |-> q.timer, usevc |-> TRUE,
           cname |-> q.cname, id |-> q.id, age |-> q.age]
  BY <1>1 DEF QueryType
<1>3. r \in QueryType
  BY <1>2 DEF QueryType
<1>4. /\ r.state = q.state /\ r.status = q.status /\ r.usevc = TRUE
      /\ r.cname = q.cname /\ r.age = q.age
  BY ONLY <1>2
<1>5. r.status = "none"
  BY <1>4 DEF Tried
<1> QED
  BY <1>3, <1>4, <1>5 DEF r, Tried

\* How old a query is when a reply comes.
LEMMA AgeAtReply ==
    ASSUME NEW p \in QueryType, p.state \in {"udpw", "tcpw"},
           NEW low \in Lows, Timely(p, low), ~TcpTruncates
    PROVE  p.age \in Nat /\ p.age <= RoundEnd(p.usevc, p.cname)
<1>1. p.age \in Nat /\ p.timer \in Int /\ p.timer >= -1 /\ p.retries \in Nat
  BY DEF QueryType, Timely, Lows
<1>2. TriesLeft(p) \in Int /\ (p.state = "udpw" => TriesLeft(p) >= 0)
  BY <1>1, TriesLeftIs DEF Timely
<1>3. TimeLeft(p) \in Int /\ TimeLeft(p) >= 0
  BY <1>1, <1>2 DEF TimeLeft
<1>4. p.age + TimeLeft(p) <= RoundEnd(p.usevc, p.cname) /\ RoundEnd(p.usevc, p.cname) \in Nat
  BY Times DEF Timely, RoundEnd
<1> QED
  BY <1>1, <1>3, <1>4

\* adns__procdgram
LEMMA ProcessRight ==
    ASSUME NEW R, NEW x \in Queries, NEW N, NEW T, NEW low \in Lows, Right(R, {x}, {}, N, T, low),
           R.q[x].state \in {"udpw", "tcpw"}, NEW rep \in Replies, NEW Z \in Process(R, x, rep),
           R.q[x].state = "udpw" => ~R.q[x].usevc,
           R.q[x].state = "tcpw" => R.q[x].usevc /\ (rep.body = "truncated" => TcpTruncates)
    PROVE  Right(Z, {}, {}, N, T, low) /\ (R.tcp = "connecting" => Z.tcp = "connecting")
<1> DEFINE p == R.q[x]
           c == p.cname \/ rep.cname
           q == [p EXCEPT !.cname = c]
           u == [q EXCEPT !.usevc = TRUE]
<1>1. R \in AdsType /\ p \in QueryType /\ Tried(p) /\ Timely(p, low)
  BY DEF Right, Core, AdsType
<1>2. c \in BOOLEAN /\ (p.cname => c) /\ q = [R.q[x] EXCEPT !.cname = @ \/ rep.cname]
  OBVIOUS
<1>3. \/ Z = Done(R, x, "failed") \/ Z = Done(R, x, "prohibitedcname")
      \/ Z = Done([R EXCEPT !.q[x] = q], x, "ok")
      \/ Z \in Restart(R, x, u) /\ rep.body = "truncated"
      \/ Z \in Restart(R, x, q) /\ rep.cname /\ ~p.cname
  BY <1>2 DEF Process, SecondCname
<1>b. rep.cname => c
  OBVIOUS
<1> HIDE DEF c
<1>4. /\ q \in QueryType /\ Tried(q) /\ q.status = "none" /\ Timely(q, low)
      /\ q.state = p.state /\ q.usevc = p.usevc /\ q.cname = c /\ q.age = p.age
  BY <1>1, <1>2, NamedRight
<1>c. CanEnd(p) /\ p.state \in {"udpw", "tcpw"}
  BY DEF CanEnd
<1>d. /\ p.state = "udpw" => ~p.usevc
      /\ p.state = "tcpw" => p.usevc /\ (rep.body = "truncated" => TcpTruncates)
  OBVIOUS
<1> HIDE DEF q
<1>5. /\ u \in QueryType /\ Tried(u) /\ u.status = "none"
      /\ u.usevc = TRUE /\ u.cname = c /\ u.age = p.age
  BY <1>4, ByTcpRight
<1> HIDE DEF u, p
<1>6. "failed" \in Statuses /\ "prohibitedcname" \in Statuses /\ "ok" \in Statuses
  BY DEF Statuses
<1>7. CASE Z = Done(R, x, "failed") \/ Z = Done(R, x, "prohibitedcname")
  BY <1>6, <1>7, <1>c, DoneRight DEF p
<1>8. CASE Z = Done([R EXCEPT !.q[x] = q], x, "ok")
  <2> DEFINE S == Updated(R, x, q)
  <2>1. Right(S, {x}, {}, N, T, low) /\ S.tcp = R.tcp /\ S.q[x] = q
    BY <1>4, UpdatedRight
  <2> HIDE DEF S
  <2>2. CanEnd(S.q[x])
    BY <1>4, <1>c, <2>1 DEF CanEnd
  <2>3. Right(Done(S, x, "ok"), {}, {}, N, T, low) /\ Done(S, x, "ok").tcp = S.tcp
    BY <1>6, <2>1, <2>2, DoneRight
  <2> QED
    BY <1>8, <2>1, <2>3 DEF S, Updated
<1>9. CASE Z \in Restart(R, x, u) /\ rep.body = "truncated"
  <2>1. InTime(u)
    <3> SUFFICES ASSUME ~TcpTruncates PROVE u.age + TcpTime <= RoundEnd(TRUE, c)
      BY <1>5 DEF InTime
    <3>1. p.state = "udpw" /\ ~p.usevc
      BY <1>9, <1>c, <1>d
    <3>2. p.age \in Nat /\ p.age <= RoundEnd(p.usevc, p.cname)
      BY <1>1, <1>c, AgeAtReply
    <3>3. p.age <= IF p.cname THEN UdpTime + UdpTime ELSE UdpTime
      BY <3>1, <3>2 DEF RoundEnd
    <3>4. p.cname => c
      BY <1>2 DEF p
    <3>5. CASE c
      <4>1. RoundEnd(TRUE, c) = Longest
        BY <3>5 DEF RoundEnd
      <4>2. p.age <= UdpTime + Longer
        BY <3>2, <3>3, Times
      <4>3. p.age + TcpTime <= Longest
        BY <3>2, <4>2, Times
      <4> QED
        BY <1>5, <4>1, <4>3
    <3>6. CASE ~c
      <4>1. RoundEnd(TRUE, c) = UdpTime + TcpTime
        BY <3>6 DEF RoundEnd
      <4>2. p.age <= UdpTime
        BY <3>3, <3>4, <3>6
      <4>3. p.age + TcpTime <= UdpTime + TcpTime
        BY <3>2, <4>2, Times
      <4> QED
        BY <1>5, <4>1, <4>3
    <3> QED
      BY <3>5, <3>6
  <2> QED
    BY <1>5, <1>9, <2>1, RestartRight
<1>10. CASE Z \in Restart(R, x, q) /\ rep.cname /\ ~p.cname
  <2>1. InTime(q)
    <3> SUFFICES ASSUME ~TcpTruncates
                 PROVE  p.age + (IF p.usevc THEN TcpTime ELSE UdpTime) <= RoundEnd(p.usevc, c)
      BY <1>4 DEF InTime
    <3>1. p.age \in Nat /\ p.age <= RoundEnd(p.usevc, p.cname)
      BY <1>1, <1>c, AgeAtReply
    <3>2. p.age <= IF p.usevc THEN UdpTime + TcpTime ELSE UdpTime
      BY <1>10, <3>1 DEF RoundEnd
    <3>3. RoundEnd(p.usevc, c) = IF p.usevc THEN Longest ELSE UdpTime + UdpTime
      BY <1>10, <1>b DEF RoundEnd
    <3> QED
      BY <3>1, <3>2, <3>3, Times
  <2> QED
    BY <1>4, <1>10, <2>1, RestartRight
<1> QED
  BY <1>3, <1>7, <1>8, <1>9, <1>10

\* A query leaves its queue.
LEMMA LeaveQueue ==
    ASSUME NEW S \in SUBSET Queries, NEW s, IsQueue(s, S), NEW x
    PROVE  IsQueue(Only(s, Queries \ {x}), S \ {x})
<1>1. Len(s) \in Nat /\ \A i \in 1 .. Len(s) : s[i] \in S
  BY QueueHas
<1>2. \A i \in 1 .. Len(s) : s[i] \in Queries \ {x} <=> s[i] \in S \ {x}
  BY <1>1
<1>3. Only(s, Queries \ {x}) = Only(s, S \ {x})
  BY <1>1, <1>2, OnlySame
<1> QED
  BY <1>3, OnlyKeeps

LEMMA QueueType ==
    ASSUME NEW U, NEW S \in SUBSET U, NEW s, IsQueue(s, S)
    PROVE  s \in Seq(U)
<1>1. s \in Seq(S)
  BY DEF IsQueue
<1> QED
  BY <1>1

LEMMA UnlinkRight ==
    ASSUME NEW R, NEW x \in Queries, NEW N, NEW T, NEW low \in Lows, Right(R, {}, {}, N, T, low),
           R.q[x].state \in {"udpw", "tcpw"}
    PROVE  LET S == Unlink(R, x)
           IN Right(S, {x}, {}, N, T, low) /\ S.tcp = R.tcp /\ S.q = R.q
<1> DEFINE S == Unlink(R, x)
           u == Only(R.udpw, Queries \ {x})
           w == Only(R.tcpw, Queries \ {x})
<1>1. /\ R \in AdsType /\ Queues(R, {}) /\ In(R, "none", {}) = N /\ In(R, "taken", {}) = T
      /\ Socket(R)
      /\ \A y \in Queries : Tried(R.q[y]) /\ Timely(R.q[y], low)
      /\ \A y \in Queries : Settled(R.q[y], R.tcp)
      /\ Streams(R, {})
  BY DEF Right, Core
<1>2. S = [R EXCEPT !.udpw = u, !.tcpw = w]
  BY <1>1 DEF Unlink, AdsType
<1> HIDE DEF S, u, w
<1>3. S = [udpw |-> u, tcpw |-> w, output |-> R.output, q |-> R.q, tcp |-> R.tcp,
           tcpserver |-> R.tcpserver, tcptimeout |-> R.tcptimeout, sock |-> R.sock,
           tcpsend |-> R.tcpsend, onTcp |-> R.onTcp, asked |-> R.asked]
  BY <1>1, <1>2 DEF AdsType
<1>4. /\ S.tcp = R.tcp /\ S.sock = R.sock /\ S.tcpsend = R.tcpsend /\ S.onTcp = R.onTcp
      /\ S.q = R.q /\ S.udpw = u /\ S.tcpw = w /\ S.output = R.output
  BY ONLY <1>3
<1>5. \A st : In(S, st, {x}) = In(R, st, {}) \ {x}
  BY <1>4 DEF In
<1>6. /\ IsQueue(u, In(R, "udpw", {}) \ {x})
      /\ IsQueue(w, In(R, "tcpw", {}) \ {x})
  <2>1. \A st : In(R, st, {}) \in SUBSET Queries
    BY DEF In
  <2> QED
    BY <1>1, <2>1, LeaveQueue DEF Queues, u, w
<1>7. /\ In(R, "done", {}) \ {x} = In(R, "done", {})
      /\ In(R, "none", {}) \ {x} = In(R, "none", {})
      /\ In(R, "taken", {}) \ {x} = In(R, "taken", {})
  BY DEF In
<1>8. u \in Seq(Queries) /\ w \in Seq(Queries)
  <2>1. \A st : In(R, st, {}) \ {x} \subseteq Queries
    BY DEF In
  <2> QED
    BY <1>6, <2>1, QueueType
<1>9. S \in AdsType
  BY <1>1, <1>3, <1>8 DEF AdsType
<1>10. Queues(S, {x})
  BY <1>1, <1>4, <1>5, <1>6, <1>7 DEF Queues
<1>11. In(S, "none", {x}) = N /\ In(S, "taken", {x}) = T
  BY <1>1, <1>5, <1>7
<1>12. Streams(S, {x})
  BY <1>1, <1>4, <1>5 DEF Streams
<1>13. Socket(S)
  BY <1>1, <1>4 DEF Socket
<1> QED
  BY <1>1, <1>4, <1>9, <1>10, <1>11, <1>12, <1>13 DEF Right, Core, S

-----------------------------------------------------------------------------
(***************************************************************************)
(* The other changes of ads.                                               *)
(***************************************************************************)
\* Only the connection changes.
Wired(R, t, o, s, b, c) ==
    [R EXCEPT !.tcp = t, !.tcptimeout = o, !.sock = s, !.tcpsend = b, !.onTcp = c]

LEMMA WiredRight ==
    ASSUME NEW R, NEW N, NEW T, NEW low \in Lows, Right(R, {}, {}, N, T, low),
           NEW t \in {"disconnected", "connecting", "ok", "broken"}, NEW o \in Int,
           NEW s \in {"none", "syn", "up", "dead"},
           NEW b \in SUBSET (Queries \X Nat), NEW c \in SUBSET (Queries \X Nat),
           t = R.tcp \/ R.tcpw = <<>>,
           (s = "none") <=> (t \in {"disconnected", "broken"}), t # "ok" => b = {},
           t = "ok" /\ s # "dead" =>
               R.tcp = "ok" /\ R.sock # "dead" /\ R.tcpsend \union R.onTcp \subseteq b \union c
    PROVE  LET S == Wired(R, t, o, s, b, c)
           IN Right(S, {}, {}, N, T, low) /\ S.tcp = t /\ S.tcpsend = b
<1> DEFINE S == Wired(R, t, o, s, b, c)
<1>1. /\ R \in AdsType /\ Queues(R, {}) /\ In(R, "none", {}) = N /\ In(R, "taken", {}) = T
      /\ \A y \in Queries : Tried(R.q[y]) /\ Timely(R.q[y], low)
      /\ \A y \in Queries : Settled(R.q[y], R.tcp)
      /\ Streams(R, {})
  BY DEF Right, Core
<1>2. S = [R EXCEPT !.tcp = t, !.tcptimeout = o, !.sock = s, !.tcpsend = b, !.onTcp = c]
  BY DEF Wired
<1> HIDE DEF S
<1>3. S = [udpw |-> R.udpw, tcpw |-> R.tcpw, output |-> R.output, q |-> R.q, tcp |-> t,
           tcpserver |-> R.tcpserver, tcptimeout |-> o, sock |-> s,
           tcpsend |-> b, onTcp |-> c, asked |-> R.asked]
  BY <1>1, <1>2 DEF AdsType
<1>4. /\ S.tcp = t /\ S.sock = s /\ S.tcpsend = b /\ S.onTcp = c
      /\ S.q = R.q /\ S.udpw = R.udpw /\ S.tcpw = R.tcpw /\ S.output = R.output
  BY ONLY <1>3
<1>5. S \in AdsType
  BY <1>1, <1>3 DEF AdsType
<1>6. \A st, O : In(S, st, O) = In(R, st, O)
  BY <1>4 DEF In
<1>7. Queues(S, {})
  BY <1>1, <1>4, <1>6 DEF Queues
<1>8. \A y \in Queries : Settled(S.q[y], S.tcp)
  <2>1. CASE t = R.tcp
    BY <1>1, <1>4, <2>1
  <2>2. CASE R.tcpw = <<>>
    <3>1. In(R, "tcpw", {}) = {}
      BY <1>1, <2>2, QueueHas DEF Queues
    <3> QED
      BY <1>1, <1>4, <3>1 DEF Settled, In
  <2> QED
    BY <2>1, <2>2
<1>9. Streams(S, {})
  BY <1>1, <1>4, <1>6 DEF Streams
<1>10. Socket(S)
  BY <1>4 DEF Socket
<1> QED
  BY <1>1, <1>4, <1>5, <1>6, <1>7, <1>8, <1>9, <1>10 DEF Right, Core, S

\* A turn of the timers.
LEMMA RunInt ==
    ASSUME NEW t \in Int
    PROVE  Run(t) \in Int
BY DEF Run

\* The queries keep all but their timers and ages; low is 0 before and -1 after.
LEMMA AgedRight ==
    ASSUME NEW R, NEW N, NEW T, NEW low \in Lows, Right(R, {}, {}, N, T, low), NEW t \in Int,
           NEW Q \in [Queries -> QueryType], NEW k \in Lows,
           \A y \in Queries : Timely(Q[y], k) /\
              \E i \in Int, a \in Nat : Q[y] = [R.q[y] EXCEPT !.timer = i, !.age = a]
    PROVE  LET S == [R EXCEPT !.tcptimeout = t, !.q = Q]
           IN Right(S, {}, {}, N, T, k) /\ S.tcp = R.tcp
<1> DEFINE S == [R EXCEPT !.tcptimeout = t, !.q = Q]
<1>1. /\ R \in AdsType /\ Queues(R, {}) /\ In(R, "none", {}) = N /\ In(R, "taken", {}) = T
      /\ \A y \in Queries : Tried(R.q[y]) /\ Timely(R.q[y], low)
      /\ \A y \in Queries : Settled(R.q[y], R.tcp)
      /\ Streams(R, {}) /\ Socket(R)
  BY DEF Right, Core
<1>2. S = [R EXCEPT !.tcptimeout = t, !.q = Q]
  OBVIOUS
<1> HIDE DEF S
<1>3. S = [udpw |-> R.udpw, tcpw |-> R.tcpw, output |-> R.output, q |-> Q, tcp |-> R.tcp,
           tcpserver |-> R.tcpserver, tcptimeout |-> t, sock |-> R.sock,
           tcpsend |-> R.tcpsend, onTcp |-> R.onTcp, asked |-> R.asked]
  BY <1>1, <1>2 DEF AdsType
<1>4. /\ S.tcp = R.tcp /\ S.sock = R.sock /\ S.tcpsend = R.tcpsend /\ S.onTcp = R.onTcp
      /\ S.q = Q /\ S.udpw = R.udpw /\ S.tcpw = R.tcpw /\ S.output = R.output
  BY ONLY <1>3
<1>5. S \in AdsType
  BY <1>1, <1>3 DEF AdsType
<1>6. ASSUME NEW y \in Queries
      PROVE  /\ Q[y].state = R.q[y].state /\ Q[y].retries = R.q[y].retries
             /\ Q[y].next = R.q[y].next /\ Q[y].sent = R.q[y].sent /\ Q[y].id = R.q[y].id
             /\ Q[y].status = R.q[y].status /\ Q[y].usevc = R.q[y].usevc
  <2> DEFINE p == R.q[y]
             r == Q[y]
  <2>1. p \in QueryType
    BY <1>1 DEF AdsType
  <2>2. PICK i \in Int, a \in Nat : r = [p EXCEPT !.timer = i, !.age = a]
    OBVIOUS
  <2> HIDE DEF p, r
  <2>3. r = [state |-> p.state, retries |-> p.retries, next |-> p.next, sent |-> p.sent,
             status |-> p.status, timer |-> i, usevc |-> p.usevc,
             cname |-> p.cname, id |-> p.id, age |-> a]
    BY <2>1, <2>2 DEF QueryType
  <2>4. /\ r.state = p.state /\ r.retries = p.retries /\ r.next = p.next /\ r.sent = p.sent
        /\ r.id = p.id /\ r.status = p.status /\ r.usevc = p.usevc
    BY ONLY <2>3
  <2> QED
    BY <2>4 DEF p, r
<1>7. \A st, O : In(S, st, O) = In(R, st, O)
  BY <1>4, <1>6 DEF In
<1>8. Queues(S, {})
  BY <1>1, <1>4, <1>7 DEF Queues
<1>9. \A y \in Queries : Tried(Q[y])
  <2> SUFFICES ASSUME NEW y \in Queries PROVE Tried(Q[y])
    OBVIOUS
  <2>1. \A s : Ahead(Q[y], s) = Ahead(R.q[y], s)
    BY <1>6 DEF Ahead
  <2>2. Tried(R.q[y])
    BY <1>1
  <2>3. /\ Q[y].state = R.q[y].state /\ Q[y].retries = R.q[y].retries
        /\ Q[y].sent = R.q[y].sent /\ Q[y].status = R.q[y].status /\ Q[y].usevc = R.q[y].usevc
    BY <1>6
  <2> QED
    BY ONLY <2>1, <2>2, <2>3 DEF Tried
<1>a. \A y \in Queries : Timely(S.q[y], k)
  BY <1>4
<1>10. \A y \in Queries : Settled(Q[y], R.tcp)
  BY <1>1, <1>6 DEF Settled
<1>11. Streams(S, {})
  <2>1. \A y \in In(R, "tcpw", {}) : y \in Queries
    BY DEF In
  <2>2. \A y \in In(S, "tcpw", {}) : y \in In(R, "tcpw", {}) /\ S.q[y].id = R.q[y].id
    <3>1. In(S, "tcpw", {}) = In(R, "tcpw", {})
      BY <1>7
    <3>2. \A y \in Queries : Q[y].id = R.q[y].id
      BY <1>6
    <3> QED
      BY <1>4, <2>1, <3>1, <3>2
  <2>3. /\ R.tcp = "ok" /\ R.sock # "dead" =>
              \A y \in In(R, "tcpw", {}) : <<y, R.q[y].id>> \in R.tcpsend \union R.onTcp
    BY <1>1 DEF Streams
  <2>4. /\ S.tcp = "ok" /\ S.sock # "dead" =>
              \A y \in In(S, "tcpw", {}) : <<y, S.q[y].id>> \in S.tcpsend \union S.onTcp
    BY <1>4, <2>2, <2>3
  <2> QED
    BY <2>4 DEF Streams
<1>12. Socket(S)
  BY <1>1, <1>4 DEF Socket
<1> QED
  BY <1>1, <1>4, <1>5, <1>7, <1>8, <1>9, <1>a, <1>10, <1>11, <1>12 DEF Right, Core, S

\* A query in another state.
LEMMA InState ==
    ASSUME NEW q \in QueryType, NEW st \in States
    PROVE  LET r == [q EXCEPT !.state = st]
           IN /\ r \in QueryType /\ r.state = st /\ r.status = q.status
              /\ r.usevc = q.usevc /\ r.sent = q.sent /\ r.next = q.next
              /\ r.retries = q.retries /\ r.age = q.age /\ r.cname = q.cname
<1> DEFINE r == [q EXCEPT !.state = st]
<1>1. r = [q EXCEPT !.state = st]
  OBVIOUS
<1> HIDE DEF r
<1>2. r = [state |-> st, retries |-> q.retries, next |-> q.next, sent |-> q.sent,
           status |-> q.status, timer |-> q.timer, usevc |-> q.usevc,
           cname |-> q.cname, id |-> q.id, age |-> q.age]
  BY <1>1 DEF QueryType
<1>3. r \in QueryType
  BY <1>2 DEF QueryType
<1>4. /\ r.state = st /\ r.status = q.status /\ r.usevc = q.usevc /\ r.sent = q.sent
      /\ r.next = q.next /\ r.retries = q.retries /\ r.age = q.age /\ r.cname = q.cname
  BY ONLY <1>2
<1> QED
  BY <1>3, <1>4 DEF r

\* adns_submit
LEMMA SubmitRight ==
    ASSUME NEW R, NEW x \in Queries, NEW N, NEW T, NEW low \in Lows, Right(R, {}, {}, N, T, low),
           R.q[x].state = "none",
           NEW Z \in QuerySend([R EXCEPT !.q[x].state = "tosend"], x)
                       \union {Done(R, x, "failed")}
    PROVE  Right(Z, {}, {}, N \ {x}, T, low)
<1> DEFINE q == R.q[x]
           r == [q EXCEPT !.state = "tosend"]
           S == Updated(R, x, r)
<1>1. /\ R \in AdsType /\ Queues(R, {}) /\ In(R, "none", {}) = N /\ In(R, "taken", {}) = T
      /\ \A y \in Queries : Tried(R.q[y]) /\ Timely(R.q[y], low)
      /\ \A y \in Queries : Settled(R.q[y], R.tcp)
      /\ Streams(R, {}) /\ Socket(R) /\ q \in QueryType
  BY DEF Right, Core, AdsType
<1>2. /\ In(R, "none", {x}) = N \ {x}
      /\ \A st \in {"udpw", "tcpw", "done", "taken"} : In(R, st, {x}) = In(R, st, {})
  BY <1>1 DEF In
<1>3. Queues(R, {x})
  BY <1>1, <1>2 DEF Queues
<1>4. Streams(R, {x})
  BY <1>1, <1>2 DEF Streams
<1>5. Right(R, {x}, {}, N \ {x}, T, low)
  BY <1>1, <1>2, <1>3, <1>4 DEF Right, Core
<1>6. CASE Z = Done(R, x, "failed")
  <2>1. "failed" \in Statuses
    BY DEF Statuses
  <2>2. CanEnd(q)
    BY DEF CanEnd
  <2> QED
    BY <1>5, <1>6, <2>1, <2>2, DoneRight
<1>7. CASE Z \in QuerySend([R EXCEPT !.q[x].state = "tosend"], x)
  <2>1. Z \in QuerySend(S, x)
    BY <1>7 DEF Updated
  <2>2. Tried(q) /\ Timely(q, low) /\ q.state = "none"
    BY <1>1
  <2> HIDE DEF q
  <2>3. /\ r \in QueryType /\ r.state = "tosend" /\ r.status = q.status
        /\ r.usevc = q.usevc /\ r.sent = q.sent /\ r.next = q.next /\ r.retries = q.retries
        /\ r.age = q.age /\ r.cname = q.cname
    BY <1>1, InState DEF States
  <2> HIDE DEF r
  <2>4. q.status = "none" /\ ~q.usevc
    BY <2>2 DEF Tried
  <2>5. Tried(r)
    <3>1. \A s : Ahead(r, s) = Ahead(q, s)
      BY <2>3 DEF Ahead
    <3> QED
      BY <2>2, <2>3, <2>4, <3>1 DEF Tried
  <2>8. Timely(r, low)
    <3>1. r.age = 0 /\ r.retries = 0 /\ ~r.usevc
      BY <2>2, <2>3, <2>4 DEF Timely
    <3>2. TimeLeft(r) = UdpTime
      BY <2>3, <3>1, TriesLeftIs DEF TimeLeft
    <3>3. RoundEnd(r.usevc, r.cname) \in Nat /\ RoundEnd(r.usevc, r.cname) >= UdpTime
      BY <3>1, Times DEF RoundEnd
    <3> QED
      BY <2>3, <3>1, <3>2, <3>3, Times DEF Timely
  <2>6. Right(S, {x}, {}, N \ {x}, T, low) /\ S.q[x] = r
    BY <1>5, <2>3, <2>5, <2>8, UpdatedRight
  <2> HIDE DEF S
  <2>7. Ready(S, x)
    <3>1. r.retries = 0
      BY <2>2, <2>3 DEF Timely
    <3> QED
      BY <2>3, <2>4, <2>6, <3>1 DEF Ready
  <2> QED
    BY <2>1, <2>6, <2>7, QuerySendRight
<1> QED
  BY <1>6, <1>7

\* adns__internal_check
LEMMA TakenRight ==
    ASSUME NEW R, NEW N, NEW T, NEW low \in Lows, Right(R, {}, {}, N, T, low), R.output # <<>>
    PROVE  LET x == Head(R.output)
               S == [R EXCEPT !.output = Tail(@), !.q[x].state = "taken"]
           IN /\ x \in Queries \ (N \union T) /\ S.tcp = R.tcp
              /\ Right(S, {}, {}, N, T \union {x}, low)
<1> DEFINE x == Head(R.output)
           q == R.q[x]
           r == [q EXCEPT !.state = "taken"]
           S == [R EXCEPT !.output = Tail(@), !.q[x].state = "taken"]
           Q == [R.q EXCEPT ![x] = r]
           o == Tail(R.output)
<1>1. /\ R \in AdsType /\ Queues(R, {}) /\ In(R, "none", {}) = N /\ In(R, "taken", {}) = T
      /\ \A y \in Queries : Tried(R.q[y]) /\ Timely(R.q[y], low)
      /\ \A y \in Queries : Settled(R.q[y], R.tcp)
      /\ Streams(R, {}) /\ Socket(R)
  BY DEF Right, Core
<1>2. /\ x \in In(R, "done", {})
      /\ IsQueue(o, In(R, "done", {}) \ {x})
  BY <1>1, QueueTail DEF Queues
<1>3. /\ x \in Queries /\ q \in QueryType /\ q.state = "done" /\ Tried(q) /\ Timely(q, low)
      /\ x \in Queries \ (N \union T)
  BY <1>1, <1>2 DEF In, AdsType
<1>4. S = [R EXCEPT !.output = o, !.q = Q]
  BY <1>1, <1>3 DEF AdsType
<1> HIDE DEF S, q, x, o
<1>5. /\ r \in QueryType /\ r.state = "taken" /\ r.status = q.status
      /\ r.usevc = q.usevc /\ r.sent = q.sent /\ r.next = q.next /\ r.retries = q.retries
      /\ r.age = q.age
  BY <1>3, InState DEF States
<1> HIDE DEF r
<1>6. Q \in [Queries -> QueryType] /\ Q[x] = r /\ \A y \in Queries \ {x} : Q[y] = R.q[y]
  BY <1>1, <1>3, <1>5 DEF AdsType
<1> HIDE DEF Q
<1>7. S = [udpw |-> R.udpw, tcpw |-> R.tcpw, output |-> o, q |-> Q, tcp |-> R.tcp,
           tcpserver |-> R.tcpserver, tcptimeout |-> R.tcptimeout, sock |-> R.sock,
           tcpsend |-> R.tcpsend, onTcp |-> R.onTcp, asked |-> R.asked]
  BY <1>1, <1>4 DEF AdsType
<1>8. /\ S.tcp = R.tcp /\ S.sock = R.sock /\ S.tcpsend = R.tcpsend /\ S.onTcp = R.onTcp
      /\ S.q = Q /\ S.udpw = R.udpw /\ S.tcpw = R.tcpw /\ S.output = o
  BY ONLY <1>7
<1>9. o \in Seq(Queries)
  <2>1. In(R, "done", {}) \ {x} \in SUBSET Queries
    BY DEF In
  <2> QED
    BY <1>2, <2>1, QueueType
<1>10. S \in AdsType
  BY <1>1, <1>6, <1>7, <1>9 DEF AdsType
<1>11. /\ \A st \in {"none", "udpw", "tcpw"} : In(S, st, {}) = In(R, st, {})
       /\ In(S, "done", {}) = In(R, "done", {}) \ {x}
       /\ In(S, "taken", {}) = In(R, "taken", {}) \union {x}
  <2>1. q = R.q[x]
    BY DEF q
  <2> QED
    BY <1>3, <1>5, <1>6, <1>8, <2>1 DEF In
<1>12. Queues(S, {})
  BY <1>1, <1>2, <1>8, <1>11 DEF Queues
<1>13. Tried(r)
  <2>1. \A s : Ahead(r, s) = Ahead(q, s)
    BY <1>5 DEF Ahead
  <2> QED
    BY <1>3, <1>5, <2>1 DEF Tried
<1>a. Timely(r, low)
  BY <1>3, <1>5, TimelyOver
<1>14. \A y \in Queries : Tried(S.q[y]) /\ Timely(S.q[y], low)
  BY <1>1, <1>6, <1>8, <1>13, <1>a
<1>15. \A y \in Queries : Settled(S.q[y], S.tcp)
  <2>1. Settled(r, R.tcp)
    BY <1>5 DEF Settled
  <2> QED
    BY <1>1, <1>6, <1>8, <2>1
<1>16. Streams(S, {})
  <2>1. \A y \in In(R, "tcpw", {}) : y \in Queries \ {x}
    <3>1. q = R.q[x]
      BY DEF q
    <3> QED
      BY <1>3, <3>1 DEF In
  <2>2. \A y \in In(R, "tcpw", {}) : S.q[y] = R.q[y]
    BY <1>6, <1>8, <2>1
  <2> QED
    BY <1>1, <1>8, <1>11, <2>2 DEF Streams
<1>17. Socket(S)
  BY <1>1, <1>8 DEF Socket
<1>18. Right(S, {}, {}, N, T \union {x}, low)
  BY <1>1, <1>10, <1>11, <1>12, <1>14, <1>15, <1>16, <1>17 DEF Right, Core
<1> QED
  BY <1>3, <1>8, <1>18 DEF S, x, q

-----------------------------------------------------------------------------
(***************************************************************************)
(* The invariant and the actions.                                          *)
(***************************************************************************)
Never == In(ads, "none", {})
Taken == In(ads, "taken", {})
\* When the timers were looked at since the last tick, none has expired.
Least == IF pc = "events" \/ (pc = "idle" /\ fresh) THEN 0 ELSE -1
Sound(N, T) == Right(ads, {}, {}, N, T, Least)

\* Between calls and within them ads is right; and while adns_processany still
\* tries to complete a connection there is one to complete.
RInv ==
    /\ Sound(Never, Taken)
    /\ pc \in {"idle", "timeouts", "events"} /\ caller \in {"check", "submit"}
    /\ fds \subseteq {"udp", "connect", "read", "write"} /\ fresh \in BOOLEAN
    /\ pc = "events" /\ "connect" \in fds => ads.tcp = "connecting"

\* What a step other than a submission or a return must keep.
Kept == Sound(Never, Taken)' /\ Never' = Never /\ Taken' = Taken

LEMMA LeastIn == Least \in Lows
BY DEF Least, Lows

\* A late query is no harm where one may be late.
LEMMA RightLess ==
    ASSUME NEW R, NEW N, NEW T, NEW low \in Lows, Right(R, {}, {}, N, T, low)
    PROVE  Right(R, {}, {}, N, T, -1)
<1>1. ASSUME NEW y \in Queries PROVE Timely(R.q[y], -1)
  <2>1. Timely(R.q[y], low) /\ R.q[y].timer \in Int
    BY DEF Right, Core, AdsType, QueryType
  <2> QED
    BY <2>1 DEF Timely, Lows
<1> QED
  BY <1>1 DEF Right, Core

\* The first late query of a queue.
LEMMA FirstIn ==
    ASSUME NEW s, Len(s) \in Nat, \E i \in 1 .. Len(s) : Late(s[i])
    PROVE  \E i \in 1 .. Len(s) : First(s) = s[i]
<1> DEFINE IsFirst(i) == Late(s[i]) /\ \A j \in 1 .. i - 1 : ~Late(s[j])
<1>1. \E i \in 1 .. Len(s) : IsFirst(i)
  <2> SUFFICES ASSUME \A i \in 1 .. Len(s) : ~IsFirst(i) PROVE FALSE
    OBVIOUS
  <2> DEFINE M == {n \in Nat : n <= Len(s) => \A j \in 1 .. n : ~Late(s[j])}
  <2>1. 0 \in M
    OBVIOUS
  <2>2. ASSUME NEW n \in M PROVE n + 1 \in M
    <3> SUFFICES ASSUME n + 1 <= Len(s) PROVE \A j \in 1 .. n + 1 : ~Late(s[j])
      OBVIOUS
    <3>1. n \in Nat /\ n <= Len(s) /\ n + 1 \in 1 .. Len(s) /\ (n + 1) - 1 = n
      OBVIOUS
    <3>2. \A j \in 1 .. n : ~Late(s[j])
      BY <3>1
    <3>3. ~Late(s[n + 1])
      BY <3>1, <3>2
    <3>4. \A j \in 1 .. n + 1 : j \in 1 .. n \/ j = n + 1
      BY <3>1
    <3> QED
      BY <3>2, <3>3, <3>4
  <2>3. M = Nat
    <3>1. M \in SUBSET Nat
      OBVIOUS
    <3> HIDE DEF M
    <3> QED
      BY <2>1, <2>2, <3>1, NatInduct
  <2>4. Len(s) \in M
    BY <2>3
  <2> QED
    BY <2>4
<1>2. First(s) = s[CHOOSE i \in 1 .. Len(s) : IsFirst(i)]
  BY DEF First
<1> HIDE DEF IsFirst
<1> QED
  BY <1>1, <1>2

LEMMA StartsRight == Init => RInv
<1> SUFFICES ASSUME Init PROVE RInv
  OBVIOUS
<1>1. /\ ads.udpw = <<>> /\ ads.tcpw = <<>> /\ ads.output = <<>>
      /\ ads.q = [y \in Queries |-> NewQuery] /\ ads.tcp = "disconnected"
      /\ ads.sock = "none" /\ ads.tcpsend = {}
  BY DEF Init
<1>2. NewQuery \in QueryType /\ NewQuery.state = "none"
  BY ResolverAssumption DEF NewQuery, QueryType, States, Servers, NoTime
<1>3. ads \in AdsType
  <2>1. [y \in Queries |-> NewQuery] \in [Queries -> QueryType]
    BY <1>2
  <2>2. 0 \in Servers /\ NoTime \in Int
    BY ResolverAssumption DEF Servers, NoTime
  <2> DEFINE Q == [y \in Queries |-> NewQuery]
  <2>3. ads = [udpw |-> <<>>, tcpw |-> <<>>, output |-> <<>>, q |-> Q,
               tcp |-> "disconnected", tcpserver |-> 0, tcptimeout |-> NoTime,
               tcpsend |-> {}, sock |-> "none", onTcp |-> {}, asked |-> {}]
    BY DEF Init
  <2> HIDE DEF Q
  <2> QED
    BY <2>1, <2>2, <2>3 DEF AdsType, Q
<1>4. \A y \in Queries : ads.q[y] = NewQuery
  BY <1>1
<1>5. \A st \in {"udpw", "tcpw", "done"} : In(ads, st, {}) = {}
  BY <1>2, <1>4 DEF In
<1>6. Queues(ads, {})
  <2>1. IsQueue(<<>>, {})
    BY DEF IsQueue, IsInjective, Range
  <2> QED
    BY <1>1, <1>5, <2>1 DEF Queues
<1>7. Tried(NewQuery) /\ Settled(NewQuery, "disconnected")
  <2>1. /\ NewQuery.state = "none" /\ NewQuery.status = "none" /\ ~NewQuery.usevc
        /\ NewQuery.next = 0 /\ NewQuery.retries = 0
    BY DEF NewQuery
  <2>2. \A s \in Servers : Ahead(NewQuery, s) + NewQuery.retries < NServers
    BY <2>1, ResolverAssumption DEF Ahead, Servers
  <2> QED
    BY <2>1, <2>2 DEF Tried, Settled
<1>a. Timely(NewQuery, Least)
  <2>1. /\ NewQuery.state = "none" /\ NewQuery.age = 0 /\ NewQuery.retries = 0
        /\ ~NewQuery.usevc /\ ~NewQuery.cname
    BY DEF NewQuery
  <2>2. TimeLeft(NewQuery) = 0 /\ RoundEnd(NewQuery.usevc, NewQuery.cname) = UdpTime
    BY <2>1 DEF TimeLeft, RoundEnd
  <2> QED
    BY <2>1, <2>2, Times DEF Timely
<1>8. Streams(ads, {}) /\ Socket(ads)
  BY <1>1 DEF Streams, Socket
<1>9. Sound(Never, Taken)
  BY <1>1, <1>3, <1>4, <1>6, <1>7, <1>a, <1>8 DEF Sound, Right, Core, Never, Taken
<1> QED
  BY <1>9 DEF RInv, Init

LEMMA KeptRight ==
    ASSUME NEW low \in Lows, Right(ads', {}, {}, Never, Taken, low), Least' \in {low, -1}
    PROVE  Kept
<1>1. In(ads', "none", {}) = Never /\ In(ads', "taken", {}) = Taken
  BY DEF Right, Core
<1>2. Never' = In(ads', "none", {}) /\ Taken' = In(ads', "taken", {})
  BY DEF Never, Taken
<1>0. Right(ads', {}, {}, Never, Taken, Least')
  BY RightLess
<1>3. Right(ads', {}, {}, Never', Taken', Least')
  BY <1>0, <1>1, <1>2
<1> QED
  BY <1>1, <1>2, <1>3 DEF Kept, Sound

LEMMA KeptSame ==
    ASSUME RInv, ads' = ads, Least' \in {Least, -1}
    PROVE  Kept
BY KeptRight, LeastIn DEF RInv, Sound

\* A query that leaves its queue when it is late.
LEMMA ExpireStep ==
    ASSUME RInv, ExpireUdp \/ ExpireTcp
    PROVE  RInv' /\ Kept
<1>1. Right(ads, {}, {}, Never, Taken, Least) /\ pc = "timeouts"
  BY DEF RInv, Sound, ExpireUdp, ExpireTcp
<1>2. ads \in AdsType /\ Queues(ads, {}) /\ \A y \in Queries : Tried(ads.q[y]) /\ Settled(ads.q[y], ads.tcp)
  BY <1>1 DEF Right, Core
<1>3. Right(ads', {}, {}, Never, Taken, Least)
  <2>1. CASE ExpireUdp
    <3> DEFINE x == First(ads.udpw)
    <3>1. x \in In(ads, "udpw", {})
      <4>1. Len(ads.udpw) \in Nat /\ \A i \in 1 .. Len(ads.udpw) : ads.udpw[i] \in In(ads, "udpw", {})
        BY <1>2, QueueHas DEF Queues
      <4> QED
        BY <2>1, <4>1, FirstIn DEF ExpireUdp, LateUdp
    <3>2. ads' \in QuerySend(Unlink(ads, x), x)
      BY <2>1 DEF ExpireUdp
    <3> HIDE DEF x
    <3>3. x \in Queries /\ ads.q[x].state = "udpw"
      BY <3>1 DEF In
    <3> DEFINE S == Unlink(ads, x)
    <3>4. Right(S, {x}, {}, Never, Taken, Least) /\ S.q = ads.q
      BY <1>1, <3>3, LeastIn, UnlinkRight
    <3>5. Ready(S, x)
      BY <1>2, <3>3, <3>4 DEF Ready, Settled
    <3> HIDE DEF S
    <3> QED
      BY <3>2, <3>3, <3>4, <3>5, LeastIn, QuerySendRight DEF S
  <2>2. CASE ExpireTcp
    <3> DEFINE x == First(ads.tcpw)
    <3>1. x \in In(ads, "tcpw", {})
      <4>1. Len(ads.tcpw) \in Nat /\ \A i \in 1 .. Len(ads.tcpw) : ads.tcpw[i] \in In(ads, "tcpw", {})
        BY <1>2, QueueHas DEF Queues
      <4> QED
        BY <2>2, <4>1, FirstIn DEF ExpireTcp, LateTcp
    <3>2. ads' = Done(Unlink(ads, x), x, "timeout")
      BY <2>2 DEF ExpireTcp
    <3> HIDE DEF x
    <3>3. x \in Queries /\ ads.q[x].state = "tcpw"
      BY <3>1 DEF In
    <3> DEFINE S == Unlink(ads, x)
    <3>4. Right(S, {x}, {}, Never, Taken, Least) /\ S.q = ads.q
      BY <1>1, <3>3, LeastIn, UnlinkRight
    <3>5. S.q[x].usevc /\ CanEnd(S.q[x])
      BY <1>2, <3>3, <3>4 DEF Settled, CanEnd
    <3>6. "timeout" \in Statuses
      BY DEF Statuses
    <3> HIDE DEF S
    <3> QED
      BY <3>2, <3>3, <3>4, <3>5, <3>6, LeastIn, DoneRight DEF S
  <2> QED
    BY <2>1, <2>2
<1>5. UNCHANGED <<pc, caller, fds, fresh>>
  BY DEF ExpireUdp, ExpireTcp
<1>4. Kept
  <2>1. Least' = Least
    BY <1>5 DEF Least
  <2> QED
    BY <1>3, <2>1, LeastIn, KeptRight
<1> QED
  BY <1>1, <1>4, <1>5 DEF RInv, Kept

\* tcp_events
LEMMA TcpEventsStep ==
    ASSUME RInv, TcpConnect \/ TcpConnTimeout
    PROVE  RInv' /\ Kept
<1>1. Right(ads, {}, {}, Never, Taken, Least) /\ pc = "timeouts"
  BY DEF RInv, Sound, TcpConnect, TcpConnTimeout, TcpEvents
<1>2. Right(ads', {}, {}, Never, Taken, Least)
  <2>1. CASE TcpConnect
    <3> DEFINE R == IF ads.tcp = "broken" THEN BrokenEvents(ads) ELSE ads
    <3>1. ads' \in (IF R.tcpw = <<>> THEN {R} ELSE TryConnect(R))
      BY <2>1 DEF TcpConnect
    <3>2. Right(R, {}, {}, Never, Taken, Least)
      BY <1>1, LeastIn, BrokenEventsRight
    <3> HIDE DEF R
    <3> QED
      BY <3>1, <3>2, LeastIn, TryConnectRight
  <2>2. CASE TcpConnTimeout
    <3>1. Core(ads, {}, {}, Never, Taken, Least)
      BY <1>1 DEF Right
    <3>2. Right(Broken(ads), {}, {}, Never, Taken, Least)
      BY <3>1, LeastIn, BrokenRight
    <3> QED
      BY <2>2, <3>2 DEF TcpConnTimeout
  <2> QED
    BY <2>1, <2>2
<1>4. UNCHANGED <<pc, caller, fds, fresh>>
  BY DEF TcpConnect, TcpConnTimeout, TcpEvents
<1>3. Kept
  <2>1. Least' = Least
    BY <1>4 DEF Least
  <2> QED
    BY <1>2, <2>1, LeastIn, KeptRight
<1> QED
  BY <1>1, <1>3, <1>4 DEF RInv, Kept

LEMMA SocketRight ==
    ASSUME NEW R, NEW N, NEW T, NEW low \in Lows, Right(R, {}, {}, N, T, low)
    PROVE  /\ R \in AdsType /\ Socket(R)
           /\ R.tcp \in {"disconnected", "connecting", "ok", "broken"} /\ R.tcptimeout \in Int
           /\ R.sock \in {"none", "syn", "up", "dead"}
           /\ R.tcpsend \in SUBSET (Queries \X Nat) /\ R.onTcp \in SUBSET (Queries \X Nat)
BY DEF Right, Core, AdsType

\* When no query is late, no timer is below 0.
LEMMA NoneLate ==
    ASSUME Right(ads, {}, {}, Never, Taken, Least), ~LateUdp, ~LateTcp
    PROVE  Right(ads, {}, {}, Never, Taken, 0)
<1>1. ads \in AdsType /\ Queues(ads, {})
  BY DEF Right, Core
<1>2. ASSUME NEW y \in Queries PROVE Timely(ads.q[y], 0)
  <2>1. Timely(ads.q[y], Least) /\ ads.q[y].timer \in Int
    BY <1>1 DEF Right, Core, AdsType, QueryType
  <2>2. ads.q[y].state = "udpw" => ads.q[y].timer # -1
    <3> SUFFICES ASSUME ads.q[y].state = "udpw" PROVE ~Late(y)
      BY DEF Late
    <3>1. y \in In(ads, "udpw", {})
      BY DEF In
    <3>2. PICK i \in 1 .. Len(ads.udpw) : ads.udpw[i] = y
      BY <1>1, <3>1, QueueHas DEF Queues
    <3> QED
      BY <3>2 DEF LateUdp
  <2>3. ads.q[y].state = "tcpw" => ads.q[y].timer # -1
    <3> SUFFICES ASSUME ads.q[y].state = "tcpw" PROVE ~Late(y)
      BY DEF Late
    <3>1. y \in In(ads, "tcpw", {})
      BY DEF In
    <3>2. PICK i \in 1 .. Len(ads.tcpw) : ads.tcpw[i] = y
      BY <1>1, <3>1, QueueHas DEF Queues
    <3> QED
      BY <3>2 DEF LateTcp
  <2>4. Least \in {-1, 0}
    BY DEF Least
  <2>5. ads.q[y].state \in {"udpw", "tcpw"} => ads.q[y].timer >= 0
    BY <2>1, <2>2, <2>3, <2>4 DEF Timely
  <2> QED
    BY <2>1, <2>5 DEF Timely
<1> QED
  BY <1>2 DEF Right, Core

\* tcp_events, when it returns.
LEMMA TcpReturnStep ==
    ASSUME RInv, TcpReturn
    PROVE  RInv' /\ Kept
<1>1. Right(ads, {}, {}, Never, Taken, Least)
  BY DEF RInv, Sound
<1>2. /\ ads \in AdsType /\ Socket(ads)
      /\ ads.tcp \in {"disconnected", "connecting", "ok", "broken"} /\ ads.tcptimeout \in Int
      /\ ads.sock \in {"none", "syn", "up", "dead"}
      /\ ads.tcpsend \in SUBSET (Queries \X Nat) /\ ads.onTcp \in SUBSET (Queries \X Nat)
  BY <1>1, LeastIn, SocketRight
<1> DEFINE idle == ads.tcp = "ok" /\ ads.tcpw = <<>>
<1>3. /\ \/ ads' = ads
         \/ idle /\ ads' = [ads EXCEPT !.tcptimeout = TcpIdle]
         \/ idle /\ ads' = [ads EXCEPT !.tcp = "disconnected", !.sock = "none",
                                       !.tcpsend = {}, !.onTcp = {}]
      /\ fds' = Events(ads') /\ pc' = "events" /\ caller' = caller /\ fresh' = fresh
  <2> DEFINE A == [ads EXCEPT !.tcptimeout = TcpIdle]
             B == [ads EXCEPT !.tcp = "disconnected", !.sock = "none",
                              !.tcpsend = {}, !.onTcp = {}]
             R == CASE idle /\ ads.tcptimeout = NoTime -> A
                    [] idle /\ ads.tcptimeout = -1 -> B
                    [] OTHER -> ads
  <2>1. /\ ads' = R /\ fds' = Events(R)
        /\ pc' = "events" /\ caller' = caller /\ fresh' = fresh
    BY DEF TcpReturn, TcpEvents
  <2> HIDE DEF A, B
  <2>2. R = ads \/ (idle /\ R = A) \/ (idle /\ R = B)
    OBVIOUS
  <2> HIDE DEF R
  <2> QED
    BY <2>1, <2>2 DEF A, B
<1>a. 0 \in Lows
  BY DEF Lows
<1>b. Right(ads, {}, {}, Never, Taken, 0)
  BY <1>1, NoneLate DEF TcpReturn, TcpEvents
<1>4. Right(ads', {}, {}, Never, Taken, 0)
  <2>1. CASE ads' = ads
    BY <1>b, <2>1
  <2>2. CASE idle /\ ads' = [ads EXCEPT !.tcptimeout = TcpIdle]
    <3>1. ads' = Wired(ads, ads.tcp, TcpIdle, ads.sock, ads.tcpsend, ads.onTcp)
      BY <1>2, <2>2 DEF Wired, AdsType
    <3>2. TcpIdle \in Int
      BY ResolverAssumption
    <3> QED
      BY <1>a, <1>b, <1>2, <3>1, <3>2, WiredRight DEF Socket
  <2>3. CASE idle /\ ads' = [ads EXCEPT !.tcp = "disconnected", !.sock = "none",
                                        !.tcpsend = {}, !.onTcp = {}]
    <3>1. ads' = Wired(ads, "disconnected", ads.tcptimeout, "none", {}, {})
      BY <1>2, <2>3 DEF Wired, AdsType
    <3> QED
      BY <1>a, <1>b, <1>2, <2>3, <3>1, WiredRight
  <2> QED
    BY <1>3, <2>1, <2>2, <2>3
<1>5. Kept
  <2>1. Least' = 0
    BY <1>3 DEF Least
  <2> QED
    BY <1>4, <1>a, <2>1, KeptRight
<1>6. fds' \subseteq {"udp", "connect", "read", "write"} /\ ("connect" \in fds' => ads'.tcp = "connecting")
  BY <1>3 DEF Events
<1> QED
  BY <1>3, <1>5, <1>6 DEF RInv, Kept

\* adns__procdgram on a datagram, or on what the connection brought.
LEMMA ReplyStep ==
    ASSUME RInv, NEW x, NEW st \in {"udpw", "tcpw"}, x \in In(ads, st, {}),
           NEW rep \in Zone[x], ads' \in Process(Unlink(ads, x), x, rep),
           st = "tcpw" /\ rep.body = "truncated" => TcpTruncates,
           UNCHANGED <<pc, caller, fds, fresh>>
    PROVE  RInv' /\ Kept
<1>1. Right(ads, {}, {}, Never, Taken, Least)
  BY DEF RInv, Sound
<1>2. /\ x \in Queries /\ ads.q[x].state \in {"udpw", "tcpw"} /\ ads.q[x].state = st
      /\ Settled(ads.q[x], ads.tcp)
  BY <1>1 DEF In, Right, Core
<1>3. rep \in Replies
  BY <1>2, ResolverAssumption
<1> DEFINE S == Unlink(ads, x)
<1>4. Right(S, {x}, {}, Never, Taken, Least) /\ S.tcp = ads.tcp /\ S.q = ads.q
  BY <1>1, <1>2, LeastIn, UnlinkRight
<1>5. ads' \in Process(S, x, rep)
  OBVIOUS
<1> HIDE DEF S
<1>6. Right(ads', {}, {}, Never, Taken, Least) /\ (ads.tcp = "connecting" => ads'.tcp = "connecting")
  <2>1. /\ S.q[x].state \in {"udpw", "tcpw"}
        /\ S.q[x].state = "udpw" => ~S.q[x].usevc
        /\ S.q[x].state = "tcpw" => S.q[x].usevc /\ (rep.body = "truncated" => TcpTruncates)
    BY <1>2, <1>4 DEF Settled
  <2> QED
    BY <1>2, <1>3, <1>4, <1>5, <2>1, LeastIn, ProcessRight
<1>7. Kept
  <2>1. Least' = Least
    BY DEF Least
  <2> QED
    BY <1>6, <2>1, LeastIn, KeptRight
<1> QED
  BY <1>6, <1>7 DEF RInv, Kept

LEMMA ReadStep ==
    ASSUME RInv, ReadUdp \/ ReadTcp
    PROVE  RInv' /\ Kept
<1>1. /\ ads.asked \in SUBSET (Queries \X Nat \X Servers)
      /\ ads.onTcp \in SUBSET (Queries \X Nat)
      /\ \A y : Contains(ads.udpw, y) <=> y \in In(ads, "udpw", {})
      /\ \A y : Contains(ads.tcpw, y) <=> y \in In(ads, "tcpw", {})
  <2>1. ads \in AdsType /\ Queues(ads, {})
    BY DEF RInv, Sound, Right, Core
  <2> QED
    BY <2>1, QueueHas DEF AdsType, Queues
<1>2. CASE ReadUdp
  <2>1. PICK a \in ads.asked : \E rep \in Zone[a[1]] :
             Contains(ads.udpw, a[1]) /\ ads' \in Process(Unlink(ads, a[1]), a[1], rep)
    BY <1>2 DEF ReadUdp
  <2>2. UNCHANGED <<pc, caller, fds, fresh>>
    BY <1>2 DEF ReadUdp, Event
  <2> DEFINE x == a[1]
  <2>3. PICK rep \in Zone[x] : Contains(ads.udpw, x) /\ ads' \in Process(Unlink(ads, x), x, rep)
    BY <2>1
  <2> HIDE DEF x
  <2>4. x \in In(ads, "udpw", {})
    BY <1>1, <2>3
  <2> QED
    BY <2>2, <2>3, <2>4, ReplyStep
<1>3. CASE ReadTcp
  <2>1. PICK m \in ads.onTcp : \E rep \in Zone[m[1]] :
             /\ rep.body = "truncated" => TcpTruncates
             /\ Contains(ads.tcpw, m[1])
             /\ ads' \in Process(Unlink(ads, m[1]), m[1], rep)
    BY <1>3 DEF ReadTcp
  <2>2. UNCHANGED <<pc, caller, fds, fresh>>
    BY <1>3 DEF ReadTcp, TcpEvent, Event
  <2> DEFINE x == m[1]
  <2>3. PICK rep \in Zone[x] : /\ rep.body = "truncated" => TcpTruncates
                               /\ Contains(ads.tcpw, x) /\ ads' \in Process(Unlink(ads, x), x, rep)
    BY <2>1
  <2> HIDE DEF x
  <2>4. x \in In(ads, "tcpw", {})
    BY <1>1, <2>3
  <2> QED
    BY <2>2, <2>3, <2>4, ReplyStep
<1> QED
  BY <1>2, <1>3

\* The rest of adns__fdevents.
LEMMA EventStep ==
    ASSUME RInv, UdpEmpty \/ TcpConnected \/ TcpEmpty \/ WriteTcp
    PROVE  RInv' /\ Kept
<1>1. Right(ads, {}, {}, Never, Taken, Least)
  BY DEF RInv, Sound
<1>2. /\ ads \in AdsType /\ Socket(ads) /\ Core(ads, {}, {}, Never, Taken, Least)
      /\ ads.tcp \in {"disconnected", "connecting", "ok", "broken"} /\ ads.tcptimeout \in Int
      /\ ads.sock \in {"none", "syn", "up", "dead"}
      /\ ads.tcpsend \in SUBSET (Queries \X Nat) /\ ads.onTcp \in SUBSET (Queries \X Nat)
  BY <1>1, LeastIn, SocketRight DEF Right
<1>3. /\ pc = "events" /\ pc' = pc /\ caller' = caller /\ fresh' = fresh
      /\ fds' \subseteq fds /\ (TcpConnected => "connect" \notin fds')
      /\ TcpConnected => "connect" \in fds
  BY DEF UdpEmpty, TcpConnected, TcpEmpty, WriteTcp, TcpEvent, Event
<1>4. Right(ads', {}, {}, Never, Taken, Least) /\ (TcpConnected \/ ads.tcp = "ok" \/ ads' = ads)
  <2>1. CASE UdpEmpty
    BY <1>1, <2>1 DEF UdpEmpty
  <2>2. CASE TcpConnected
    <3>1. ads.tcp = "connecting" /\ ads.sock # "none" /\ ads.tcpsend = {}
      BY <1>2, <1>3, <2>2 DEF RInv, Socket
    <3>2. CASE ads' = Broken(ads)
      BY <1>2, <2>2, <3>2, LeastIn, BrokenRight
    <3>3. CASE ads' \in Connected(ads)
      <4>1. ads.sock \in {"syn", "up", "dead"}
        BY <1>2, <3>1
      <4> QED
        BY <1>2, <2>2, <3>1, <3>3, <4>1, LeastIn, ConnectedRight
    <3>4. ads' \in Connected(ads) \/ ads' = Broken(ads)
      BY <2>2 DEF TcpConnected
    <3> QED
      BY <3>2, <3>3, <3>4
  <2>3. CASE ads.tcp = "ok" /\ ads' = Broken(ads)
    BY <1>2, <2>3, LeastIn, BrokenRight
  <2>4. CASE TcpEmpty
    <3>1. ads' = ads \/ (ads.tcp = "ok" /\ ads' = Broken(ads))
      BY <2>4 DEF TcpEmpty
    <3> QED
      BY <1>1, <2>3, <3>1
  <2>5. CASE WriteTcp
    <3> DEFINE W == [ads EXCEPT !.tcpsend = {}, !.onTcp = @ \union ads.tcpsend]
    <3>1. \/ ads' = ads
          \/ ads.tcp = "ok" /\ ads.sock = "up" /\ ads' = W
          \/ ads.tcp = "ok" /\ ads' = Broken(ads)
      <4> HIDE DEF W
      <4>1. CASE ads.tcp = "ok" /\ ads.sock = "up"
        BY <2>5, <4>1 DEF WriteTcp, W
      <4>2. CASE ads.tcp = "ok" /\ ads.sock = "dead"
        BY <2>5, <4>2 DEF WriteTcp
      <4>3. CASE ~(ads.tcp = "ok" /\ ads.sock = "up") /\ ~(ads.tcp = "ok" /\ ads.sock = "dead")
        BY <2>5, <4>3 DEF WriteTcp
      <4> QED
        BY <4>1, <4>2, <4>3
    <3>2. CASE ads.tcp = "ok" /\ ads.sock = "up" /\ ads' = W
      <4> DEFINE c == ads.onTcp \union ads.tcpsend
      <4>1. ads' = Wired(ads, ads.tcp, ads.tcptimeout, ads.sock, {}, c)
        BY <1>2, <3>2 DEF Wired, AdsType
      <4>2. c \in SUBSET (Queries \X Nat) /\ ads.tcpsend \union ads.onTcp \subseteq {} \union c
        BY <1>2
      <4> HIDE DEF c
      <4> QED
        BY <1>1, <1>2, <3>2, <4>1, <4>2, LeastIn, WiredRight
    <3> QED
      BY <1>1, <2>3, <3>1, <3>2
  <2> QED
    BY <2>1, <2>2, <2>4, <2>5
<1>5. Kept
  <2>1. Least' = Least
    BY <1>3 DEF Least
  <2> QED
    BY <1>4, <2>1, LeastIn, KeptRight
<1>6. "connect" \in fds' => ads'.tcp = "connecting"
  <2> SUFFICES ASSUME "connect" \in fds' PROVE ads'.tcp = "connecting"
    OBVIOUS
  <2>1. ads.tcp = "connecting" /\ ~TcpConnected
    BY <1>3 DEF RInv
  <2> QED
    BY <1>4, <2>1
<1> QED
  BY <1>3, <1>5, <1>6 DEF RInv, Kept

\* The network, between calls.
LEMMA NetworkStep ==
    ASSUME RInv, Network
    PROVE  RInv' /\ Kept
<1>1. Right(ads, {}, {}, Never, Taken, Least)
  BY DEF RInv, Sound
<1>2. /\ ads \in AdsType /\ Socket(ads)
      /\ ads.tcp \in {"disconnected", "connecting", "ok", "broken"} /\ ads.tcptimeout \in Int
      /\ ads.tcpsend \in SUBSET (Queries \X Nat) /\ ads.onTcp \in SUBSET (Queries \X Nat)
  BY <1>1, LeastIn, SocketRight
<1>3. PICK s \in {"up", "dead"} : /\ ads.sock \in {"syn", "up"}
                                  /\ ads' = [ads EXCEPT !.sock = s]
  BY DEF Network
<1>4. ads' = Wired(ads, ads.tcp, ads.tcptimeout, s, ads.tcpsend, ads.onTcp)
  BY <1>2, <1>3 DEF Wired, AdsType
<1>5. Right(ads', {}, {}, Never, Taken, Least)
  BY <1>1, <1>2, <1>3, <1>4, LeastIn, WiredRight DEF Socket
<1>7. pc = "idle" /\ UNCHANGED <<pc, caller, fds, fresh>>
  BY DEF Network
<1>6. Kept
  <2>1. Least' = Least
    BY <1>7 DEF Least
  <2> QED
    BY <1>5, <2>1, LeastIn, KeptRight
<1> QED
  BY <1>6, <1>7 DEF RInv, Kept

\* A query that waits while time passes: its timer falls as its age rises.
LEMMA OlderTimely ==
    ASSUME NEW p \in QueryType, p.state \in {"udpw", "tcpw"}, Timely(p, 0),
           NEW o \in {0, 1}, NEW r, r.state = p.state, r.usevc = p.usevc, r.cname = p.cname,
           r.retries = p.retries, r.timer = Run(p.timer), r.age = p.age + o
    PROVE  Timely(r, -1)
<1>1. p.timer \in Int /\ p.timer >= 0 /\ p.age \in Nat /\ p.retries \in Nat
  BY DEF QueryType, Timely
<1>2. r.timer = p.timer - 1 /\ r.timer >= -1
  BY <1>1 DEF Run
<1>3. TriesLeft(r) = TriesLeft(p) /\ TriesLeft(p) \in Int
  BY <1>1, TriesLeftIs DEF TriesLeft
<1>4. TimeLeft(p) \in Int /\ TimeLeft(r) = TimeLeft(p) - 1
  BY <1>1, <1>2, <1>3 DEF TimeLeft
<1>5. RoundEnd(p.usevc, p.cname) \in Int
  BY Times DEF RoundEnd
<1>6. ~TcpTruncates => p.age + TimeLeft(p) <= RoundEnd(p.usevc, p.cname)
  BY DEF Timely
<1>7. ~TcpTruncates => r.age + TimeLeft(r) <= RoundEnd(r.usevc, r.cname)
  BY <1>1, <1>4, <1>5, <1>6
<1> QED
  BY <1>2, <1>7 DEF Timely

\* Time passes when adns has just looked at the timers, or none runs.
LEMMA TickStep ==
    ASSUME RInv, Tick
    PROVE  RInv' /\ Kept
<1>1. Right(ads, {}, {}, Never, Taken, Least)
  BY DEF RInv, Sound
<1>2. ads \in AdsType /\ ads.tcptimeout \in Int /\ Run(ads.tcptimeout) \in Int
  BY <1>1, LeastIn, SocketRight, RunInt
<1> DEFINE Older(x) == IF x \in Measured /\ ads.q[x].age < MaxAge THEN 1 ELSE 0
           r(x) == [ads.q[x] EXCEPT !.timer = Run(@), !.age = @ + Older(x)]
           Q == [x \in Queries |-> IF ads.q[x].state \in {"udpw", "tcpw"} THEN r(x) ELSE ads.q[x]]
           t == Run(ads.tcptimeout)
<1>3. ads' = [ads EXCEPT !.tcptimeout = t, !.q = Q]
  <2>1. ads' = [ads EXCEPT !.tcptimeout = Run(@), !.q = Q]
    BY DEF Tick
  <2> HIDE DEF Q
  <2> QED
    BY <1>2, <2>1 DEF AdsType
<1>4. ASSUME NEW y \in Queries
      PROVE  Q[y] \in QueryType /\ \E i \in Int, a \in Nat : Q[y] = [ads.q[y] EXCEPT !.timer = i, !.age = a]
  <2> DEFINE p == ads.q[y]
             i == Run(p.timer)
             a == p.age + Older(y)
  <2>1. p \in QueryType
    BY <1>2 DEF AdsType
  <2>2. Q[y] = IF p.state \in {"udpw", "tcpw"} THEN [p EXCEPT !.timer = i, !.age = a] ELSE p
    <3>1. Q[y] = IF p.state \in {"udpw", "tcpw"} THEN [p EXCEPT !.timer = Run(@), !.age = @ + Older(y)]
                 ELSE p
      OBVIOUS
    <3> HIDE DEF Q, p, Older
    <3> QED
      BY <2>1, <3>1 DEF QueryType
  <2>3. i \in Int /\ a \in Nat
    <3>1. p.timer \in Int /\ p.age \in Nat /\ Older(y) \in Nat
      BY <2>1 DEF QueryType
    <3> QED
      BY <3>1, RunInt
  <2>4. p = [p EXCEPT !.timer = p.timer, !.age = p.age]
    <3> HIDE DEF p
    <3> QED
      BY <2>1 DEF QueryType
  <2> DEFINE v == Q[y]
  <2>5. v = p \/ v = [p EXCEPT !.timer = i, !.age = a]
    <3> HIDE DEF Q, p, i, a
    <3> QED
      BY <2>2
  <2> HIDE DEF p, i, a, v
  <2>6. [p EXCEPT !.timer = i, !.age = a] \in QueryType
    BY <2>1, <2>3 DEF QueryType
  <2>7. v \in QueryType /\ \E j \in Int, b \in Nat : v = [p EXCEPT !.timer = j, !.age = b]
    <3>1. p.timer \in Int /\ p.age \in Nat
      BY <2>1 DEF QueryType
    <3> QED
      BY <2>1, <2>3, <2>4, <2>5, <2>6, <3>1, Zenon
  <2> QED
    BY <2>7 DEF v, p
<1>5. Q \in [Queries -> QueryType]
  <2> HIDE DEF r
  <2>1. \A y \in Queries : Q[y] \in QueryType
    BY <1>4
  <2> QED
    BY <2>1
<1>a. ASSUME NEW y \in Queries PROVE Timely(Q[y], -1)
  <2> DEFINE p == ads.q[y]
             o == Older(y)
  <2>1. p \in QueryType /\ Timely(p, Least)
    BY <1>1, <1>2 DEF AdsType, Right, Core
  <2>2. CASE p.state \in {"udpw", "tcpw"}
    <3>1. y \in Outstanding
      BY <2>2 DEF Outstanding
    <3>2. Least = 0
      BY <3>1 DEF Tick, Least
    <3>3. Q[y] = [p EXCEPT !.timer = Run(@), !.age = @ + o]
      BY <2>2
    <3>4. o \in {0, 1}
      OBVIOUS
    <3> HIDE DEF Q, p, o, Older, r
    <3>5. /\ Q[y].state = p.state /\ Q[y].usevc = p.usevc /\ Q[y].cname = p.cname
          /\ Q[y].retries = p.retries /\ Q[y].timer = Run(p.timer) /\ Q[y].age = p.age + o
      BY <2>1, <3>3 DEF QueryType
    <3> QED
      BY ONLY <2>1, <2>2, <3>2, <3>4, <3>5, OlderTimely
  <2>3. CASE p.state \notin {"udpw", "tcpw"}
    <3>1. Q[y] = p
      BY <2>3
    <3> HIDE DEF Q, p, Older, r
    <3> QED
      BY <2>1, <2>3, <3>1 DEF Timely
  <2> QED
    BY <2>2, <2>3
<1> HIDE DEF Q, t
<1>6. Right(ads', {}, {}, Never, Taken, -1)
  <2>1. -1 \in Lows /\ Least \in Lows
    BY LeastIn DEF Lows
  <2>2. t \in Int
    BY <1>2 DEF t
  <2>3. \A y \in Queries : Timely(Q[y], -1) /\
           \E i \in Int, a \in Nat : Q[y] = [ads.q[y] EXCEPT !.timer = i, !.age = a]
    BY <1>4, <1>a, Zenon
  <2> DEFINE S == [ads EXCEPT !.tcptimeout = t, !.q = Q]
  <2>4. Right(S, {}, {}, Never, Taken, -1)
    BY ONLY <1>1, <1>5, <2>1, <2>2, <2>3, AgedRight
  <2> QED
    BY <1>3, <2>4
<1>8. pc = "idle" /\ UNCHANGED <<pc, caller, fds>> /\ fresh' = FALSE
  BY DEF Tick
<1>7. Kept
  <2>1. Least' = -1 /\ -1 \in Lows
    BY <1>8 DEF Least, Lows
  <2> QED
    BY <1>6, <2>1, KeptRight
<1> QED
  BY <1>7, <1>8 DEF RInv, Kept

\* A query is submitted, once.
LEMMA SubmitStep ==
    ASSUME RInv, NEW x \in Queries, Submit(x)
    PROVE  RInv' /\ x \in Never /\ Never' = Never \ {x} /\ Taken' = Taken
<1>1. Right(ads, {}, {}, Never, Taken, Least)
  BY DEF RInv, Sound
<1>2. /\ ads.q[x].state = "none"
      /\ ads' \in QuerySend([ads EXCEPT !.q[x].state = "tosend"], x)
                    \union {Done(ads, x, "failed")}
      /\ pc' = "timeouts" /\ caller' = "submit" /\ UNCHANGED <<fds, fresh>>
  BY DEF Submit
<1>3. x \in Never
  BY <1>2 DEF Never, In
<1>4. Right(ads', {}, {}, Never \ {x}, Taken, Least)
  BY <1>1, <1>2, LeastIn, SubmitRight
<1>5. Never' = Never \ {x} /\ Taken' = Taken
  BY <1>4 DEF Right, Core, Never, Taken
<1>6. Sound(Never, Taken)'
  <2>1. Least' = -1
    BY <1>2 DEF Least
  <2>2. Right(ads', {}, {}, Never \ {x}, Taken, -1)
    BY <1>4, LeastIn, RightLess
  <2> QED
    BY <1>5, <2>1, <2>2 DEF Sound
<1> QED
  BY <1>2, <1>3, <1>5, <1>6 DEF RInv

LEMMA CheckStep ==
    ASSUME RInv, Check
    PROVE  RInv' /\ Kept
<1>1. Kept
  <2>1. Least' = -1
    BY DEF Least, Check
  <2> QED
    BY <2>1, KeptSame DEF Check
<1> QED
  BY <1>1 DEF RInv, Kept, Check

\* An answer is taken, once.
LEMMA ReturnStep ==
    ASSUME RInv, Return
    PROVE  /\ RInv'
           /\ \/ Kept
              \/ \E x \in Queries \ (Never \union Taken) :
                     Never' = Never /\ Taken' = Taken \union {x}
<1>1. Right(ads, {}, {}, Never, Taken, Least)
  BY DEF RInv, Sound
<1> DEFINE x == Head(ads.output)
           S == [ads EXCEPT !.output = Tail(@), !.q[Head(ads.output)].state = "taken"]
<1>2. /\ ads' = ads \/ (ads.output # <<>> /\ ads' = S)
      /\ pc' = "idle" /\ fresh' = TRUE /\ caller' = caller /\ fds' = fds
  BY DEF Return
<1>0. Least = 0 /\ Least' = 0
  BY <1>2 DEF Least, Return
<1>3. CASE ads' = ads
  <2>1. Kept
    BY <1>0, <1>3, KeptSame
  <2> QED
    BY <1>2, <2>1 DEF RInv, Kept
<1>4. CASE ads.output # <<>> /\ ads' = S
  <2>1. x \in Queries \ (Never \union Taken) /\ Right(S, {}, {}, Never, Taken \union {x}, Least)
    BY <1>1, <1>4, LeastIn, TakenRight
  <2> HIDE DEF x, S
  <2>2. Right(ads', {}, {}, Never, Taken \union {x}, Least')
    BY <1>0, <1>4, <2>1
  <2>3. Never' = Never /\ Taken' = Taken \union {x}
    BY <2>2 DEF Right, Core, Never, Taken
  <2>4. Sound(Never, Taken)'
    BY <2>2, <2>3 DEF Sound
  <2> QED
    BY <1>2, <2>1, <2>3, <2>4 DEF RInv
<1> QED
  BY <1>2, <1>3, <1>4

\* Every step.
LEMMA EveryStep ==
    ASSUME RInv, [Next]_vars
    PROVE  /\ RInv'
           /\ \/ Kept
              \/ \E x \in Never : Never' = Never \ {x} /\ Taken' = Taken
              \/ \E x \in Queries \ (Never \union Taken) :
                     Never' = Never /\ Taken' = Taken \union {x}
<1>1. CASE UNCHANGED vars
  <2>1. Kept
    <3>1. Least' = Least
      BY <1>1 DEF Least, vars
    <3> QED
      BY <1>1, <3>1, KeptSame DEF vars
  <2> QED
    BY <1>1, <2>1 DEF RInv, Kept, vars
<1>2. CASE ExpireUdp \/ ExpireTcp
  BY <1>2, ExpireStep
<1>3. CASE TcpConnect \/ TcpConnTimeout
  BY <1>3, TcpEventsStep
<1>4. CASE TcpReturn
  BY <1>4, TcpReturnStep
<1>5. CASE ReadUdp \/ ReadTcp
  BY <1>5, ReadStep
<1>6. CASE UdpEmpty \/ TcpConnected \/ TcpEmpty \/ WriteTcp
  BY <1>6, EventStep
<1>7. CASE Network
  BY <1>7, NetworkStep
<1>8. CASE Tick
  BY <1>8, TickStep
<1>9. CASE Check
  BY <1>9, CheckStep
<1>10. CASE Return
  BY <1>10, ReturnStep
<1>11. ASSUME NEW x \in Queries, Submit(x)
       PROVE  RInv' /\ \E y \in Never : Never' = Never \ {y} /\ Taken' = Taken
  BY <1>11, SubmitStep
<1> QED
  BY <1>1, <1>2, <1>3, <1>4, <1>5, <1>6, <1>7, <1>8, <1>9, <1>10, <1>11 DEF Next, Program

-----------------------------------------------------------------------------
(***************************************************************************)
(* What holds.                                                             *)
(***************************************************************************)
LEMMA RightConsistent == RInv => Consistent
<1> SUFFICES ASSUME RInv PROVE Consistent
  OBVIOUS
<1>1. /\ ads \in AdsType /\ Queues(ads, {}) /\ Socket(ads) /\ Streams(ads, {})
      /\ \A y \in Queries : Settled(ads.q[y], ads.tcp)
  BY DEF RInv, Sound, Right, Core
<1>2. \A y \in Queries : ads.q[y] \in QueryType
  BY <1>1 DEF AdsType
<1>3. /\ \A i \in DOMAIN ads.udpw : ads.udpw[i] \in In(ads, "udpw", {})
      /\ \A i \in DOMAIN ads.tcpw : ads.tcpw[i] \in In(ads, "tcpw", {})
      /\ \A i \in DOMAIN ads.output : ads.output[i] \in In(ads, "done", {})
  BY <1>1, QueueHas DEF Queues
<1>4. \A y \in Queries : CheckcQuery(ads.q[y])
  BY <1>2 DEF CheckcQuery, QueryType
<1>5. TypeOK
  <2>1. \A y \in Queries : /\ ads.q[y].state \in States \ {"tosend"}
                           /\ ads.q[y].next \in Servers /\ ads.q[y].sent \subseteq Servers
    BY <1>1, <1>2 DEF Settled, QueryType
  <2>2. /\ {ads.udpw, ads.tcpw, ads.output} \subseteq Seq(Queries)
        /\ ads.tcp \in {"disconnected", "connecting", "ok", "broken"}
        /\ ads.sock \in {"none", "syn", "up", "dead"} /\ ads.tcpserver \in Servers
    BY <1>1 DEF AdsType
  <2> QED
    BY <2>1, <2>2 DEF TypeOK, RInv
<1>6. CheckcGlobal
  <2>1. ads.tcpserver \in Servers
    BY <1>1 DEF AdsType
  <2> QED
    BY <1>1, <2>1 DEF CheckcGlobal, CheckcNotcpbuf, Socket
<1>7. CheckcQueueUdpw
  <2> SUFFICES ASSUME NEW i \in DOMAIN ads.udpw
               PROVE  LET q == ads.q[ads.udpw[i]]
                      IN q.state = "udpw" /\ q.retries <= UdpMaxRetries /\ q.sent # {} /\ CheckcQuery(q)
    BY DEF CheckcQueueUdpw
  <2>1. ads.udpw[i] \in Queries /\ ads.q[ads.udpw[i]].state = "udpw"
    BY <1>3 DEF In
  <2> QED
    BY <1>1, <1>4, <2>1 DEF Settled
<1>8. CheckcQueueTcpw
  <2> SUFFICES ASSUME NEW i \in DOMAIN ads.tcpw
               PROVE  LET q == ads.q[ads.tcpw[i]]
                      IN q.state = "tcpw" /\ q.retries <= NServers + 1 /\ CheckcQuery(q)
    BY DEF CheckcQueueTcpw
  <2>1. ads.tcpw[i] \in Queries /\ ads.q[ads.tcpw[i]].state = "tcpw"
    BY <1>3 DEF In
  <2> QED
    BY <1>1, <1>4, <2>1 DEF Settled
<1>9. CheckcQueueOutput
  <2> SUFFICES ASSUME NEW i \in DOMAIN ads.output
               PROVE  LET q == ads.q[ads.output[i]] IN q.state = "done" /\ CheckcQuery(q)
    BY DEF CheckcQueueOutput
  <2>1. ads.output[i] \in Queries /\ ads.q[ads.output[i]].state = "done"
    BY <1>3 DEF In
  <2> QED
    BY <1>4, <2>1
<1>10. ASSUME NEW y \in Queries PROVE InItsQueue(y)
  <2> SUFFICES ASSUME ads.q[y].state \in {"udpw", "tcpw", "done"}
               PROVE  LET s == QueueOf(ads.q[y].state)
                      IN Cardinality({i \in DOMAIN s : s[i] = y}) = 1
    BY DEF InItsQueue
  <2> DEFINE st == ads.q[y].state
             s == QueueOf(st)
  <2>1. y \in In(ads, st, {})
    BY DEF In
  <2>2. IsQueue(s, In(ads, st, {}))
    <3> HIDE DEF st
    <3>1. st \in {"udpw", "tcpw", "done"}
      BY DEF st
    <3> QED
      BY <1>1, <3>1 DEF Queues, QueueOf
  <2> HIDE DEF s, st
  <2>3. Cardinality({i \in DOMAIN s : s[i] = y}) = 1
    BY <2>1, <2>2, QueueOnce
  <2> QED
    BY <2>3 DEF s, st
<1>11. ads.tcp = "ok" /\ ads.sock # "dead" => \A i \in DOMAIN ads.tcpw :
          <<ads.tcpw[i], ads.q[ads.tcpw[i]].id>> \in ads.tcpsend \union ads.onTcp
  BY <1>1, <1>3 DEF Streams
<1> QED
  BY <1>5, <1>6, <1>7, <1>8, <1>9, <1>10, <1>11 DEF Consistent

LEMMA RightAsked == RInv => AllAsked
<1> SUFFICES ASSUME RInv, UdpMaxRetries >= NServers, NEW y \in Queries,
                    ads.q[y].status = "timeout" /\ ~ads.q[y].usevc
             PROVE  ads.q[y].sent = Servers
  BY DEF AllAsked
<1>1. Tried(ads.q[y])
  BY DEF RInv, Sound, Right, Core
<1> QED
  BY <1>1 DEF Tried

LEMMA RightBounded == ~TcpTruncates /\ RInv => LatencyBounded
<1> SUFFICES ASSUME ~TcpTruncates, RInv, NEW y \in Queries
             PROVE  ads.q[y].age <= (TcpWait + 1) + UdpTime
                       + IF UdpTime > TcpWait + 1 THEN UdpTime ELSE TcpWait + 1
  BY DEF LatencyBounded
<1>1. ads.q[y] \in QueryType /\ Timely(ads.q[y], Least) /\ ads.q[y].state # "tosend"
  BY DEF RInv, Sound, Right, Core, AdsType, Settled
<1>2. ads.q[y].age <= Longest
  BY <1>1, LeastIn, AgeBound
<1> QED
  BY <1>2 DEF Longest, Longer, TcpTime

\* The invariant holds at all times.
THEOREM ResolverRight == Spec => []RInv
<1>1. RInv /\ [Next]_vars => RInv'
  BY EveryStep
<1> QED
  BY <1>1, StartsRight, PTL DEF Spec

\* What check.c asserts of the state of adns holds after every step, for any
\* number of queries and servers and any replies: each query is in the queue
\* of its state, once; its tries and the connection are within their limits,
\* and none that waits for the connection is missing from its stream.
THEOREM ResolverConsistent == Spec => []Consistent
BY ResolverRight, RightConsistent, PTL

\* With no fewer tries than servers, a query that ends by time (adns__timeouts)
\* and never went over TCP has asked every server, a CNAME on its way or not.
THEOREM ResolverAsksAll == Spec => []AllAsked
BY ResolverRight, RightAsked, PTL

\* Unless the servers truncate over TCP as well, no query waits for longer than
\* its rounds take (adns__query_send, adns__procdgram, adns__timeouts): one over
\* TCP, one over UDP, and the longer of the two for a canonical name.
THEOREM ResolverBounded ==
    ASSUME ~TcpTruncates
    PROVE  Spec => []LatencyBounded
<1>1. RInv => LatencyBounded
  BY RightBounded
<1> QED
  BY <1>1, ResolverRight, PTL

\* Every answer adns_check gives is to a query that was submitted and not yet
\* answered: the resolver implements the service the crawl relies on.
THEOREM ResolverImplements == Spec => Implements
<1> DEFINE Answers == {x \in Queries : ads.q[x].state = "taken"}
<1>1. Outstanding = Queries \ (Never \union Taken) /\ Answers = Taken
  BY DEF Outstanding, Never, Taken, In
<1>2. Outstanding' = Queries \ (Never' \union Taken') /\ Answers' = Taken'
  BY DEF Outstanding, Never, Taken, In
<1>3. Init => Service!Init
  <2> SUFFICES ASSUME Init PROVE Service!Init
    OBVIOUS
  <2>1. \A y \in Queries : ads.q[y].state = "none"
    BY DEF Init, NewQuery
  <2> QED
    BY <2>1 DEF Service!Init, Outstanding
<1>4. ASSUME RInv, [Next]_vars
      PROVE  [Service!Next]_<<Outstanding, {x \in Queries : ads.q[x].state = "taken"}>>
  <2> SUFFICES Service!Next \/ (Outstanding' = Outstanding /\ Answers' = Answers)
    OBVIOUS
  <2>0. Never \subseteq Queries /\ Never \cap Taken = {}
    BY DEF Never, Taken, In
  <2>1. CASE Kept
    BY <1>1, <1>2, <2>1 DEF Kept
  <2>2. CASE \E x \in Never : Never' = Never \ {x} /\ Taken' = Taken
    <3>1. PICK x \in Never : Never' = Never \ {x} /\ Taken' = Taken
      BY <2>2
    <3> HIDE DEF Answers
    <3>2. x \notin Outstanding \union Answers /\ x \in Queries
      BY <1>1, <2>0
    <3>3. Outstanding' = Outstanding \union {x} /\ Answers' = Answers
      BY <1>1, <1>2, <2>0, <3>1
    <3>4. Service!Submit(x)
      BY <3>2, <3>3 DEF Service!Submit, Answers
    <3> QED
      BY <3>2, <3>4 DEF Service!Next
  <2>3. CASE \E x \in Queries \ (Never \union Taken) : Never' = Never /\ Taken' = Taken \union {x}
    <3>1. PICK x \in Queries \ (Never \union Taken) : Never' = Never /\ Taken' = Taken \union {x}
      BY <2>3
    <3> HIDE DEF Answers
    <3>2. /\ x \in Outstanding /\ Outstanding' = Outstanding \ {x}
          /\ Answers' = Answers \union {x}
      BY <1>1, <1>2, <3>1
    <3>3. Service!Answer(x)
      BY <3>2 DEF Service!Answer, Answers
    <3> QED
      BY <3>3 DEF Service!Next
  <2> QED
    BY <1>4, <2>1, <2>2, <2>3, EveryStep
<1> QED
  BY <1>3, <1>4, ResolverRight, PTL DEF Spec, Implements, Service!Spec
=============================================================================
