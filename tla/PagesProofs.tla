---------------------------- MODULE PagesProofs ----------------------------
(***************************************************************************)
(* Proofs about Pages: what html::inputHeaders makes of a page does not    *)
(* depend on the pieces it came in.  The lines of the header are a         *)
(* recursive function (ReadLines); its values are followed line by line in *)
(* two parsers at once, one that has all the bytes and one that has those  *)
(* of the first pieces.  From there: what a page offers to the crawl has a *)
(* file in normal form and the cookies of its host, and is read back from  *)
(* the disk queue as it was written.                                       *)
(***************************************************************************)
EXTENDS Pages, QueueLemmas

Fields == {"kind", "here", "first", "base", "answer", "sent", "lastPiece", "state",
           "err", "interesting", "saved", "offered", "body"}
IsConn(c) == c = [f \in Fields |-> c[f]]

\* What the reading of a line depends on, and what it may change.
Read == {"here", "state", "err", "interesting", "offered"}
Asked == {"first", "base", "answer", "body"}
Counted == {"kind", "sent", "lastPiece", "saved"}
Same(c, d) == \A f \in Read \cup Asked : c[f] = d[f]
Stays(c, d) == \A f \in Counted \cup Asked : c[f] = d[f]

\* Two connections that are the same to the parser, and c becomes e where d
\* becomes g.
Pair(c, d) == IsConn(c) /\ IsConn(d) /\ Same(c, d)
Alike(c, e, g) == Pair(e, g) /\ Stays(c, e)

LEMMA Updated ==
    ASSUME NEW c, IsConn(c), NEW v, NEW f \in Read
    PROVE  LET e == [c EXCEPT ![f] = v]
           IN IsConn(e) /\ Stays(c, e) /\ e[f] = v /\ \A g \in Fields : g # f => e[g] = c[g]
<1> DEFINE e == [c EXCEPT ![f] = v]
<1>1. f \in Fields /\ DOMAIN c = Fields
  BY DEF IsConn, Fields, Read
<1>2. DOMAIN e = Fields /\ e[f] = v /\ \A g \in Fields : g # f => e[g] = c[g]
  BY <1>1
<1>3. e = [g \in Fields |-> e[g]]
  BY <1>1
<1>4. f \notin Counted \cup Asked
  BY DEF Read, Counted, Asked
<1>5. Counted \cup Asked \subseteq Fields
  BY DEF Fields, Counted, Asked
<1> QED
  BY <1>2, <1>3, <1>4, <1>5 DEF IsConn, Stays

\* The same change of two connections that are the same to the parser.
LEMMA UpdatedAlike ==
    ASSUME NEW c, NEW d, Pair(c, d), NEW v, NEW f \in Read
    PROVE  Alike(c, [c EXCEPT ![f] = v], [d EXCEPT ![f] = v])
<1> DEFINE e == [c EXCEPT ![f] = v]
           g == [d EXCEPT ![f] = v]
<1>1. IsConn(e) /\ Stays(c, e) /\ e[f] = v /\ \A h \in Fields : h # f => e[h] = c[h]
  BY Updated DEF Pair
<1>2. g[f] = v /\ IsConn(g) /\ \A h \in Fields : h # f => g[h] = d[h]
  <2>1. f \in Fields /\ DOMAIN d = Fields
    BY DEF IsConn, Fields, Read, Pair
  <2>2. g[f] = v /\ DOMAIN g = Fields /\ \A h \in Fields : h # f => g[h] = d[h]
    BY <2>1
  <2>3. g = [h \in Fields |-> g[h]]
    BY <2>1
  <2> QED
    BY <2>2, <2>3 DEF IsConn
<1>3. Read \cup Asked \subseteq Fields
  BY DEF Read, Asked, Fields
<1>4. Alike(c, e, g)
  <2> HIDE DEF e, g
  <2>1. Same(e, g)
    BY <1>1, <1>2, <1>3 DEF Same, Pair
  <2> QED
    BY <1>1, <1>2, <2>1 DEF Alike, Pair
<1> QED
  BY <1>4

LEMMA FieldsAlike ==
    ASSUME NEW c, NEW d, Pair(c, d), NEW v
    PROVE  /\ Alike(c, [c EXCEPT !.state = v], [d EXCEPT !.state = v])
           /\ Alike(c, [c EXCEPT !.err = v], [d EXCEPT !.err = v])
           /\ Alike(c, [c EXCEPT !.interesting = v], [d EXCEPT !.interesting = v])
           /\ Alike(c, [c EXCEPT !.offered = v], [d EXCEPT !.offered = v])
           /\ Alike(c, [c EXCEPT !.here = v], [d EXCEPT !.here = v])
<1>1. {"state", "err", "interesting", "offered", "here"} \subseteq Read
  BY DEF Read
<1>2. \A f \in Read : Alike(c, [c EXCEPT ![f] = v], [d EXCEPT ![f] = v])
  BY UpdatedAlike
<1> QED
  BY <1>1, <1>2

LEMMA FieldsSame ==
    ASSUME NEW c, NEW d, Pair(c, d)
    PROVE  /\ c.here = d.here /\ c.state = d.state /\ c.err = d.err
           /\ c.interesting = d.interesting /\ c.offered = d.offered
           /\ c.base = d.base /\ c.answer = d.answer
           /\ Alike(c, c, d)
<1>1. \A f \in Read \cup Asked : c[f] = d[f]
  BY DEF Pair, Same
<1>2. {"here", "state", "err", "interesting", "offered", "base", "answer"}
         \subseteq Read \cup Asked
  BY DEF Read, Asked
<1> QED
  BY <1>1, <1>2 DEF Alike, Stays

LEMMA ManageAlike ==
    ASSUME NEW c, NEW d, Pair(c, d), NEW u, NEW r
    PROVE  Alike(c, ManageUrl(c, u, r), ManageUrl(d, u, r))
<1>1. c.here = d.here /\ c.offered = d.offered /\ Alike(c, c, d)
  BY FieldsSame
<1> DEFINE v == Append(c.offered, InitOK(u, c.here))
           may == IsValid(u) /\ Filter1(u) /\ (opt.externalLinks \/ r \/ u.host = c.here.host)
<1>2. Alike(c, [c EXCEPT !.offered = v], [d EXCEPT !.offered = v])
  BY FieldsAlike
<1>3. /\ ManageUrl(c, u, r) = IF may THEN [c EXCEPT !.offered = v] ELSE c
      /\ ManageUrl(d, u, r) = IF may THEN [d EXCEPT !.offered = v] ELSE d
  BY <1>1 DEF ManageUrl
<1> HIDE DEF v, may
<1> QED
  BY <1>1, <1>2, <1>3

LEMMA AlikeTwice ==
    ASSUME NEW c, NEW e, NEW g, NEW e2, NEW g2, Alike(c, e, g), Alike(e, e2, g2)
    PROVE  Alike(c, e2, g2)
BY DEF Alike, Stays

LEMMA HeaderAlike ==
    ASSUME NEW c, NEW d, Pair(c, d), NEW line
    PROVE  /\ Alike(c, ParseCmdline(c), ParseCmdline(d))
           /\ Alike(c, ParseHeader(c, line), ParseHeader(d, line))
           /\ Alike(c, ParseHeader30X(c, line), ParseHeader30X(d, line))
<1>0. /\ c.here = d.here /\ c.state = d.state /\ c.err = d.err
      /\ c.interesting = d.interesting /\ c.offered = d.offered
      /\ c.base = d.base /\ c.answer = d.answer
      /\ Alike(c, c, d)
  BY FieldsSame
<1> DEFINE OK(e, g) == Alike(c, e, g)
<1>1. \A v : /\ OK([c EXCEPT !.state = v], [d EXCEPT !.state = v])
             /\ OK([c EXCEPT !.err = v], [d EXCEPT !.err = v])
             /\ OK([c EXCEPT !.interesting = v], [d EXCEPT !.interesting = v])
             /\ OK([c EXCEPT !.here = v], [d EXCEPT !.here = v])
  BY FieldsAlike
<1>2. OK(ParseCmdline(c), ParseCmdline(d))
  <2> HIDE DEF OK
  <2> QED
    BY <1>0, <1>1 DEF ParseCmdline
<1>3. OK(ParseHeader(c, line), ParseHeader(d, line))
  <2> DEFINE html == IF opt.specificSearch /\ c.interesting THEN "SPECIFIC" ELSE "HTML"
             put == [c.here EXCEPT !.cookie = AddCookie(@, <<c.here.host>>)]
  <2>1. OK([c EXCEPT !.state = html], [d EXCEPT !.state = html])
    BY <1>1
  <2>2. OK([c EXCEPT !.here.cookie = AddCookie(@, <<c.here.host>>)],
           [d EXCEPT !.here.cookie = AddCookie(@, <<d.here.host>>)])
    <3>1. OK([c EXCEPT !.here = put], [d EXCEPT !.here = put])
      BY <1>1
    <3> QED
      BY <1>0, <3>1
  <2>3. c.interesting = d.interesting /\ OK(c, d)
    BY <1>0
  <2> HIDE DEF OK
  <2> QED
    BY <1>1, <2>1, <2>2, <2>3 DEF ParseHeader
<1>4. OK(ParseHeader30X(c, line), ParseHeader30X(d, line))
  <2> DEFINE m(x) == ManageUrl(x, UrlOf(line.text, x.here.depth, x.base), TRUE)
  <2>1. Alike(c, m(c), m(d))
    BY <1>0, ManageAlike
  <2>2. Alike(m(c), [m(c) EXCEPT !.err = "err30X"], [m(d) EXCEPT !.err = "err30X"])
    <3> HIDE DEF m
    <3> QED
      BY <2>1, FieldsAlike DEF Alike
  <2>3. OK([m(c) EXCEPT !.err = "err30X"], [m(d) EXCEPT !.err = "err30X"])
    <3> HIDE DEF m
    <3> QED
      BY <2>1, <2>2, AlikeTwice
  <2>4. OK(c, d)
    BY <1>0
  <2> HIDE DEF OK
  <2> QED
    BY <1>1, <2>3, <2>4 DEF ParseHeader30X
<1> QED
  BY <1>2, <1>3, <1>4

States == {"ANSWER", "HEADERS", "HEADERS30X", "HTML", "SPECIFIC"}
LEMMA LineAlike ==
    ASSUME NEW c, NEW d, Pair(c, d), NEW i
    PROVE  c.state \in States => Alike(c, ReadLine(c, i), ReadLine(d, i))
<1> SUFFICES ASSUME c.state \in States PROVE Alike(c, ReadLine(c, i), ReadLine(d, i))
  OBVIOUS
<1>1. c.state = d.state /\ c.err = d.err /\ c.answer = d.answer /\ Alike(c, c, d)
  BY FieldsSame
<1> DEFINE line == c.answer.headers[i - 1]
<1>2. /\ Alike(c, ParseCmdline(c), ParseCmdline(d))
      /\ Alike(c, ParseHeader(c, line), ParseHeader(d, line))
      /\ Alike(c, ParseHeader30X(c, line), ParseHeader30X(d, line))
  BY HeaderAlike
<1> HIDE DEF line
<1> QED
  BY <1>1, <1>2 DEF ReadLine, States, line

\* Where a line leaves the parser.
LEMMA LineState ==
    ASSUME NEW c, IsConn(c), c.state \in States, NEW i
    PROVE  /\ ReadLine(c, i).state \in States
           /\ c.state = "SPECIFIC" => ReadLine(c, i) = c
<1>0. DOMAIN c = Fields /\ "state" \in Fields
  BY DEF IsConn, Fields
<1>1. \A v : /\ [c EXCEPT !.state = v].state = v
             /\ [c EXCEPT !.err = v].state = c.state
             /\ [c EXCEPT !.interesting = v].state = c.state
             /\ [c EXCEPT !.offered = v].state = c.state
             /\ [c EXCEPT !.here = v].state = c.state
  BY <1>0
<1>2. CASE c.err # "success" \/ c.state \in {"HTML", "SPECIFIC"}
  BY <1>2 DEF ReadLine
<1>3. CASE c.err = "success" /\ c.state = "ANSWER"
  <2>1. ReadLine(c, i) = ParseCmdline(c)
    BY <1>3 DEF ReadLine
  <2>2. ParseCmdline(c).state \in {c.state, "HEADERS", "HEADERS30X"}
    BY <1>1 DEF ParseCmdline
  <2> QED
    BY <1>3, <2>1, <2>2 DEF States
<1>4. CASE c.err = "success" /\ c.state = "HEADERS"
  <2> DEFINE line == c.answer.headers[i - 1]
  <2>1. ReadLine(c, i) = ParseHeader(c, line)
    BY <1>4 DEF ReadLine
  <2>2. [c EXCEPT !.here.cookie = AddCookie(@, <<c.here.host>>)].state = c.state
    BY <1>0
  <2>3. ParseHeader(c, line).state \in {c.state, "SPECIFIC", "HTML"}
    <3> HIDE DEF line
    <3> QED
      BY <1>1, <2>2 DEF ParseHeader
  <2> QED
    BY <1>4, <2>1, <2>3 DEF States
<1>5. CASE c.err = "success" /\ c.state = "HEADERS30X"
  <2> DEFINE line == c.answer.headers[i - 1]
             m == ManageUrl(c, UrlOf(line.text, c.here.depth, c.base), TRUE)
  <2>1. ReadLine(c, i) = ParseHeader30X(c, line)
    BY <1>5 DEF ReadLine
  <2>2. m.state = c.state /\ DOMAIN m = Fields
    <3>1. m = c \/ \E v : m = [c EXCEPT !.offered = v]
      BY DEF ManageUrl
    <3> QED
      BY <1>0, <1>1, <3>1
  <2>3. [m EXCEPT !.err = "err30X"].state = c.state
    <3> HIDE DEF m
    <3>1. "state" \in DOMAIN m
      BY <1>0, <2>2
    <3> QED
      BY <2>2, <3>1
  <2>4. ParseHeader30X(c, line).state = c.state
    <3> HIDE DEF line, m
    <3> QED
      BY <1>1, <2>3 DEF ParseHeader30X, m
  <2> QED
    BY <1>5, <2>1, <2>4 DEF States
<1> QED
  BY <1>2, <1>3, <1>4, <1>5 DEF States

-----------------------------------------------------------------------------
(***************************************************************************)
(* The lines of a header, one after the other.                             *)
(***************************************************************************)
Reads(f, c, a, b) == f = [k \in a .. b |-> IF k = a THEN c ELSE ReadLine(f[k - 1], k)]

LEMMA ReadsExist ==
    ASSUME NEW c, NEW a \in Nat, NEW b \in Nat, a <= b
    PROVE  \E f : Reads(f, c, a, b)
<1> DEFINE S == {n \in Nat : \E f : Reads(f, c, a, a + n)}
<1>1. 0 \in S
  <2>1. Reads([k \in a .. a |-> c], c, a, a + 0)
    <3>1. a + 0 = a /\ \A k \in a .. a : k = a
      OBVIOUS
    <3> QED
      BY <3>1 DEF Reads
  <2> QED
    BY <2>1
<1>2. ASSUME NEW n \in S PROVE n + 1 \in S
  <2>1. PICK f : Reads(f, c, a, a + n)
    OBVIOUS
  <2>2. n \in Nat
    OBVIOUS
  <2> DEFINE g == [k \in a .. a + (n + 1) |->
                      IF k = a + (n + 1) THEN ReadLine(f[a + n], k) ELSE f[k]]
  <2>3. ASSUME NEW k \in a .. a + (n + 1)
        PROVE  g[k] = IF k = a THEN c ELSE ReadLine(g[k - 1], k)
    <3>1. CASE k = a + (n + 1)
      <4>1. k # a /\ k - 1 = a + n /\ a + n \in a .. a + (n + 1) /\ a + n # a + (n + 1)
        BY <2>2, <3>1
      <4>2. g[k - 1] = f[a + n]
        BY <4>1
      <4> QED
        BY <3>1, <4>1, <4>2
    <3>2. CASE k # a + (n + 1)
      <4>1. k \in a .. a + n
        BY <2>2, <3>2
      <4>2. f[k] = IF k = a THEN c ELSE ReadLine(f[k - 1], k)
        BY <2>1, <4>1 DEF Reads
      <4>3. g[k] = f[k]
        BY <3>2
      <4>4. k # a => g[k - 1] = f[k - 1]
        <5>1. k # a => k - 1 \in a .. a + (n + 1) /\ k - 1 # a + (n + 1)
          BY <2>2, <4>1
        <5> QED
          BY <5>1
      <4> QED
        BY <4>2, <4>3, <4>4
    <3> QED
      BY <3>1, <3>2
  <2>4. g = [k \in a .. a + (n + 1) |-> IF k = a THEN c ELSE ReadLine(g[k - 1], k)]
    <3>1. g = [k \in a .. a + (n + 1) |-> g[k]]
      OBVIOUS
    <3> HIDE DEF g
    <3> QED
      BY <2>3, <3>1
  <2>5. Reads(g, c, a, a + (n + 1))
    BY <2>4 DEF Reads
  <2>6. n + 1 \in Nat
    BY <2>2
  <2> HIDE DEF g
  <2> QED
    BY <2>5, <2>6
<1>3. S \subseteq Nat
  OBVIOUS
<1> HIDE DEF S
<1>4. \A n \in Nat : n \in S
  BY <1>1, <1>2, <1>3, NatInduct
<1>5. b - a \in Nat /\ a + (b - a) = b
  OBVIOUS
<1>6. b - a \in S
  BY <1>4, <1>5
<1> QED
  BY <1>5, <1>6 DEF S

\* ReadLines is the last of them.
LEMMA LinesRead ==
    ASSUME NEW c, NEW a \in Nat, LinesIn(c, c.sent) \in Nat, a <= LinesIn(c, c.sent)
    PROVE  \E f : Reads(f, c, a, LinesIn(c, c.sent)) /\ ReadLines(c, a) = f[LinesIn(c, c.sent)]
<1> DEFINE b == LinesIn(c, c.sent)
<1>1. \E f : Reads(f, c, a, b)
  BY ReadsExist
<1>2. ReadLines(c, a) = (CHOOSE f : Reads(f, c, a, b))[b]
  BY DEF ReadLines, Reads
<1> QED
  BY <1>1, <1>2

\* The lines from a to b, read by f.
Follows(f, a, b) == \A k \in a + 1 .. b : f[k] = ReadLine(f[k - 1], k)

LEMMA ReadsFollow ==
    ASSUME NEW f, NEW c, NEW a \in Nat, NEW b \in Nat, a <= b, Reads(f, c, a, b)
    PROVE  f[a] = c /\ Follows(f, a, b)
<1>1. \A k \in a .. b : f[k] = IF k = a THEN c ELSE ReadLine(f[k - 1], k)
  BY DEF Reads
<1>2. a \in a .. b /\ \A k \in a + 1 .. b : k \in a .. b /\ k # a
  OBVIOUS
<1> QED
  BY <1>1, <1>2 DEF Follows

\* What is read of two connections that are the same to the parser.
LEMMA FollowAlike ==
    ASSUME NEW a \in Nat, NEW b \in Nat, a <= b, NEW f, NEW g,
           Follows(f, a, b), Follows(g, a, b), Pair(f[a], g[a]), f[a].state \in States
    PROVE  /\ Alike(f[a], f[b], g[b]) /\ Stays(g[a], g[b])
           /\ f[b].state \in States
           /\ f[a].state = "SPECIFIC" => f[b].state = "SPECIFIC"
<1> DEFINE Ok(k) == /\ Alike(f[a], f[k], g[k]) /\ Stays(g[a], g[k])
                    /\ f[k].state \in States
                    /\ f[a].state = "SPECIFIC" => f[k].state = "SPECIFIC"
           S == {n \in Nat : a + n <= b => Ok(a + n)}
<1>1. 0 \in S
  <2>1. Ok(a)
    BY FieldsSame DEF Stays
  <2>2. a + 0 = a
    OBVIOUS
  <2> HIDE DEF Ok
  <2> QED
    BY <2>1, <2>2
<1>2. ASSUME NEW n \in S PROVE n + 1 \in S
  <2> SUFFICES ASSUME a + (n + 1) <= b PROVE Ok(a + (n + 1))
    OBVIOUS
  <2> DEFINE k == a + (n + 1)
  <2>1. n \in Nat /\ k \in a + 1 .. b /\ k - 1 = a + n /\ a + n <= b
    OBVIOUS
  <2>2. Ok(k - 1)
    <3> HIDE DEF Ok
    <3> QED
      BY <2>1
  <2>3. f[k] = ReadLine(f[k - 1], k) /\ g[k] = ReadLine(g[k - 1], k)
    BY <2>1 DEF Follows
  <2> HIDE DEF k
  <2>4. Pair(f[k - 1], g[k - 1]) /\ IsConn(f[k - 1]) /\ IsConn(g[k - 1])
    BY <2>2 DEF Alike, Pair
  <2>5. Alike(f[k - 1], f[k], g[k])
    BY <2>2, <2>3, <2>4, LineAlike
  <2>6. Alike(f[a], f[k], g[k])
    BY <2>2, <2>5, AlikeTwice
  <2>7. Stays(g[a], g[k])
    <3>1. Pair(g[k - 1], g[k - 1]) /\ g[k - 1].state = f[k - 1].state
      BY <2>4, FieldsSame DEF Pair, Same
    <3>2. Alike(g[k - 1], g[k], g[k])
      BY <2>2, <2>3, <3>1, LineAlike
    <3> QED
      BY <2>2, <3>2 DEF Alike, Stays
  <2>8. /\ f[k].state \in States
        /\ f[k - 1].state = "SPECIFIC" => f[k] = f[k - 1]
    BY <2>2, <2>3, <2>4, LineState
  <2> QED
    BY <2>2, <2>6, <2>7, <2>8 DEF k
<1>3. S \subseteq Nat
  OBVIOUS
<1> HIDE DEF S
<1>4. b - a \in Nat /\ a + (b - a) = b /\ b <= b
  OBVIOUS
<1>5. b - a \in S
  BY <1>1, <1>2, <1>3, <1>4, NatInduct
<1>6. Ok(b)
  <2> HIDE DEF Ok
  <2> QED
    BY <1>4, <1>5 DEF S
<1> QED
  BY <1>6

\* How many lines came, and what came after them.
LEMMA MinMax ==
    ASSUME NEW a \in Int, NEW b \in Int
    PROVE  /\ Min({a, b}) = IF a <= b THEN a ELSE b
           /\ Max({a, b}) = IF a <= b THEN b ELSE a
<1>1. \E x \in {a, b} : \A y \in {a, b} : x <= y
  OBVIOUS
<1>2. \E x \in {a, b} : \A y \in {a, b} : x >= y
  OBVIOUS
<1>3. Min({a, b}) \in {a, b} /\ \A y \in {a, b} : Min({a, b}) <= y
  BY <1>1 DEF Min
<1>4. Max({a, b}) \in {a, b} /\ \A y \in {a, b} : Max({a, b}) >= y
  BY <1>2 DEF Max
<1> QED
  BY <1>3, <1>4

LEMMA LinesCount ==
    ASSUME NEW c, Len(c.answer.headers) \in Nat, NEW m \in Nat, NEW n \in Nat, m <= n
    PROVE  /\ LinesIn(c, m) \in Nat /\ LinesIn(c, n) \in Nat
           /\ LinesIn(c, m) <= LinesIn(c, n)
           /\ LinesIn(c, 0) = 0
<1> DEFINE h == HeaderLines(c)
<1>1. h \in Nat /\ h > 0
  BY DEF HeaderLines
<1>2. m \div 2 \in Nat /\ n \div 2 \in Nat /\ 0 \div 2 = 0 /\ m \div 2 <= n \div 2
  OBVIOUS
<1> HIDE DEF h
<1>3. \A x \in Nat : LinesIn(c, x) = IF x \div 2 <= h THEN x \div 2 ELSE h
  <2> TAKE x \in Nat
  <2>1. x \div 2 \in Int /\ h \in Int
    BY <1>1
  <2> QED
    BY <2>1, MinMax DEF LinesIn, h
<1> QED
  BY <1>1, <1>2, <1>3

-----------------------------------------------------------------------------
(***************************************************************************)
(* A piece of a page.                                                      *)
(***************************************************************************)
\* What inputHeaders makes of r, of which the lines were read.
Full(r, saved) == \/ r.state = "SPECIFIC" /\ saved >= MaxSpec
                  \/ r.state # "SPECIFIC" /\ r.sent >= MaxPage - 1
Saved(r) == IF r.state = "SPECIFIC" THEN BodyHalves(r) ELSE r.saved
Outcome(e, r) ==
    /\ IsConn(e) /\ IsConn(r)
    /\ \A f \in Fields \ {"saved", "lastPiece", "err"} : e[f] = r[f]
    /\ e.saved = Saved(r)
    /\ e.err = IF r.err = "success" /\ Full(r, Saved(r)) THEN "tooBig" ELSE r.err

LEMMA OutcomeIs ==
    ASSUME NEW r, IsConn(r), NEW n
    PROVE  Outcome(Limited(PipeSpec(r, n)), r)
<1> DEFINE p == PipeSpec(r, n)
           e == Limited(p)
<1>0. {"saved", "lastPiece", "err", "state", "sent"} \subseteq Fields /\ DOMAIN r = Fields
  BY DEF IsConn, Fields
<1>1. /\ IsConn(p) /\ DOMAIN p = Fields
      /\ \A f \in Fields \ {"saved", "lastPiece"} : p[f] = r[f]
      /\ p.saved = Saved(r)
  <2>1. CASE r.state = "SPECIFIC"
    <3> DEFINE x == BodyHalves(r)
               y == Min({n, BodyHalves(r)})
    <3>1. p = [r EXCEPT !.saved = x, !.lastPiece = y]
      BY <2>1 DEF PipeSpec
    <3> HIDE DEF x, y, p
    <3>2. DOMAIN p = Fields /\ p = [f \in Fields |-> p[f]]
      BY <1>0, <3>1
    <3>3. \A f \in Fields \ {"saved", "lastPiece"} : p[f] = r[f]
      BY <1>0, <3>1
    <3>4. p.saved = x
      BY <1>0, <3>1
    <3> QED
      BY <2>1, <3>2, <3>3, <3>4 DEF IsConn, Saved, x
  <2>2. CASE r.state # "SPECIFIC"
    BY <1>0, <2>2 DEF PipeSpec, Saved
  <2> QED
    BY <2>1, <2>2
<1> HIDE DEF p
<1>2. p.state = r.state /\ p.sent = r.sent /\ p.err = r.err
  BY <1>0, <1>1
<1>3. CASE r.err = "success" /\ Full(r, Saved(r))
  <2>1. e = [p EXCEPT !.err = "tooBig"]
    BY <1>1, <1>2, <1>3 DEF Limited, Full
  <2> HIDE DEF e
  <2>2. /\ IsConn(e) /\ e.err = "tooBig" /\ \A f \in Fields \ {"err"} : e[f] = p[f]
    <3>1. DOMAIN e = Fields /\ e = [f \in Fields |-> e[f]]
      BY <1>1, <2>1
    <3> QED
      BY <1>0, <1>1, <2>1, <3>1 DEF IsConn
  <2>3. Outcome(e, r)
    <3>1. e.saved = p.saved
      BY <1>0, <2>2
    <3> QED
      BY <1>0, <1>1, <1>3, <2>2, <3>1 DEF Outcome
  <2> QED
    BY <2>3 DEF e, p
<1>4. CASE ~(r.err = "success" /\ Full(r, Saved(r)))
  <2>1. e = p
    BY <1>1, <1>2, <1>4 DEF Limited, Full
  <2> QED
    BY <1>0, <1>1, <1>2, <1>4, <2>1 DEF Outcome, p, e
<1> QED
  BY <1>3, <1>4

\* A piece of n halves, by the lines it completes.
LEMMA InputIs ==
    ASSUME NEW c, IsConn(c), c.state \in States, c.sent \in Nat, NEW n \in Nat,
           Len(c.answer.headers) \in Nat
    PROVE  \E f : /\ f[LinesIn(c, c.sent)] = [c EXCEPT !.sent = c.sent + n]
                  /\ Follows(f, LinesIn(c, c.sent), LinesIn(c, c.sent + n))
                  /\ Outcome(PageInput(c, n), f[LinesIn(c, c.sent + n)])
<1> DEFINE d == [c EXCEPT !.sent = c.sent + n]
           a == LinesIn(c, c.sent)
           b == LinesIn(c, c.sent + n)
<1>1. /\ DOMAIN d = Fields /\ IsConn(d) /\ d.sent = c.sent + n /\ d.state = c.state
      /\ d.answer = c.answer
  <2>1. DOMAIN c = Fields /\ {"sent", "state", "answer"} \subseteq Fields
    BY DEF IsConn, Fields
  <2>2. d = [f \in Fields |-> d[f]] /\ DOMAIN d = Fields
    BY <2>1
  <2> QED
    BY <2>1, <2>2 DEF IsConn
<1>2. c.sent + n \in Nat /\ c.sent <= c.sent + n
  OBVIOUS
<1>3. a \in Nat /\ b \in Nat /\ a <= b
  BY <1>2, LinesCount
<1>4. LinesIn(d, d.sent) = b
  BY <1>1 DEF LinesIn, HeaderLines
<1>5. PageInput(c, n) = Limited(PipeSpec(ReadLines(d, a), n))
  BY DEF PageInput
<1> HIDE DEF d, a, b
<1>6. PICK f : Reads(f, d, a, b) /\ ReadLines(d, a) = f[b]
  BY <1>3, <1>4, LinesRead
<1>7. f[a] = d /\ Follows(f, a, b)
  BY <1>3, <1>6, ReadsFollow
<1>8. IsConn(f[b])
  <2>1. Pair(d, d)
    BY <1>1 DEF Pair, Same
  <2> QED
    BY <1>1, <1>3, <1>7, <2>1, FollowAlike DEF Alike, Pair
<1>9. Outcome(PageInput(c, n), f[b])
  BY <1>5, <1>6, <1>8, OutcomeIs
<1> QED
  BY <1>7, <1>9 DEF d, a, b

\* c is the parser w, but for the length of the last piece.
Equals(c, w) == IsConn(c) /\ IsConn(w) /\ \A f \in Fields \ {"lastPiece"} : c[f] = w[f]

\* A parser before its first byte.
LEMMA AtStart ==
    ASSUME NEW u, NEW answer
    PROVE  LET p == Parser("page", u, answer)
           IN /\ IsConn(p) /\ p.state = "ANSWER" /\ p.sent = 0 /\ p.saved = 0
              /\ p.answer = answer /\ p.kind = "page" /\ p.err = "success"
              /\ p.first = u
<1> DEFINE p == Parser("page", u, answer)
<1>1. /\ p.state = "ANSWER" /\ p.sent = 0 /\ p.saved = 0
      /\ p.answer = answer /\ p.kind = "page" /\ p.err = "success" /\ p.first = u
  BY DEF Parser
<1>2. DOMAIN p = Fields
  BY DEF Parser, Fields
<1>3. p = [f \in DOMAIN p |-> p[f]]
  BY DEF Parser
<1> QED
  BY <1>1, <1>2, <1>3 DEF IsConn

\* The first piece.
LEMMA FirstInput ==
    ASSUME NEW p, IsConn(p), p.state \in States, p.sent = 0, NEW m \in Nat,
           Len(p.answer.headers) \in Nat
    PROVE  \E f : /\ f[0] = [p EXCEPT !.sent = m]
                  /\ Follows(f, 0, LinesIn(p, m))
                  /\ Outcome(PageInput(p, m), f[LinesIn(p, m)])
<1>1. p.sent \in Nat /\ p.sent + m = m /\ m <= m
  OBVIOUS
<1>2. LinesIn(p, p.sent) = 0
  <2>1. LinesIn(p, 0) = 0
    BY <1>1, LinesCount
  <2> QED
    BY <2>1
<1>3. \E f : /\ f[LinesIn(p, p.sent)] = [p EXCEPT !.sent = p.sent + m]
             /\ Follows(f, LinesIn(p, p.sent), LinesIn(p, p.sent + m))
             /\ Outcome(PageInput(p, m), f[LinesIn(p, p.sent + m)])
  BY <1>1, InputIs
<1> QED
  BY <1>1, <1>2, <1>3

\* What another piece makes of the parser of a page is what it would be had all
\* come in one.
LEMMA PieceJoins ==
    ASSUME NEW u, NEW answer, Len(answer.headers) \in Nat,
           NEW m \in Nat, NEW n \in Nat, NEW c,
           Equals(c, PageInput(Parser("page", u, answer), m)),
           PageInput(Parser("page", u, answer), m).err = "success"
    PROVE  Equals(PageInput(c, n), PageInput(Parser("page", u, answer), m + n))
<1> DEFINE p == Parser("page", u, answer)
           w == PageInput(p, m)
           v == PageInput(p, m + n)
           e == PageInput(c, n)
           a == LinesIn(p, m)
           b == LinesIn(p, m + n)
<1>0. /\ IsConn(p) /\ p.state = "ANSWER" /\ p.sent = 0 /\ p.saved = 0
      /\ p.answer = answer /\ p.kind = "page" /\ p.state \in States
  BY AtStart DEF States
<1> HIDE DEF p
<1>1. /\ LinesIn(p, 0) = 0 /\ a \in Nat /\ b \in Nat /\ a <= b /\ 0 <= b
      /\ 0 + m = m /\ 0 + (m + n) = m + n
  <2>1. m + n \in Nat /\ m <= m + n
    OBVIOUS
  <2> QED
    BY <1>0, <2>1, LinesCount
<1>2. PICK fw : /\ fw[0] = [p EXCEPT !.sent = m]
                /\ Follows(fw, 0, a) /\ Outcome(w, fw[a])
  BY <1>0, FirstInput
<1>3. PICK fv : /\ fv[0] = [p EXCEPT !.sent = m + n]
                /\ Follows(fv, 0, b) /\ Outcome(v, fv[b])
  <2>1. m + n \in Nat
    OBVIOUS
  <2> QED
    BY <1>0, <2>1, FirstInput
<1> HIDE DEF w, v, e, a, b
\* the two parsers of the whole, before the first line
<1>4. /\ Pair(fw[0], fv[0]) /\ Pair(fv[0], fv[0])
      /\ fw[0].state \in States /\ fv[0].state \in States
      /\ fw[0].saved = 0 /\ fv[0].saved = 0 /\ fw[0].kind = fv[0].kind
      /\ fw[0].sent = m /\ fv[0].sent = m + n
  <2>1. DOMAIN p = Fields /\ {"sent", "state", "saved", "kind"} \subseteq Fields
        /\ Read \cup Asked \subseteq Fields /\ "sent" \notin Read \cup Asked
    BY <1>0 DEF IsConn, Fields, Read, Asked
  <2>2. \A x : /\ IsConn([p EXCEPT !.sent = x])
               /\ [p EXCEPT !.sent = x].sent = x
               /\ \A f \in Fields \ {"sent"} : [p EXCEPT !.sent = x][f] = p[f]
    <3> TAKE x
    <3> DEFINE q == [p EXCEPT !.sent = x]
    <3>1. DOMAIN q = Fields /\ q = [f \in Fields |-> q[f]]
      BY <2>1
    <3> QED
      BY <2>1, <3>1 DEF IsConn
  <2> QED
    BY <1>0, <1>2, <1>3, <2>1, <2>2 DEF Pair, Same
<1>5. /\ Alike(fw[0], fw[a], fv[a]) /\ Stays(fv[0], fv[a])
      /\ fw[a].state \in States
  <2>1. Follows(fv, 0, a) /\ 0 \in Nat /\ 0 <= a
    BY <1>1, <1>3 DEF Follows
  <2>2. Follows(fw, 0, a) /\ Pair(fw[0], fv[0]) /\ fw[0].state \in States
    BY <1>2, <1>4
  <2>3. a \in Nat
    BY <1>1
  <2> QED
    BY ONLY <2>1, <2>2, <2>3, FollowAlike
<1>6. /\ Same(c, fw[a]) /\ IsConn(c) /\ c.state = fw[a].state
      /\ c.sent = m /\ c.answer = answer /\ c.kind = fw[0].kind
      /\ c.saved = Saved(fw[a]) /\ fw[a].saved = 0
  <2>1. /\ fw[a].sent = fw[0].sent /\ fw[a].saved = fw[0].saved
        /\ fw[a].kind = fw[0].kind /\ fw[a].answer = fw[0].answer
    BY <1>5 DEF Alike, Stays, Counted, Asked
  <2>2. Equals(c, w) /\ w.err = "success"
    BY DEF w, p
  <2>3. /\ \A f \in Fields \ {"saved", "lastPiece", "err"} : c[f] = fw[a][f]
        /\ c.saved = Saved(fw[a]) /\ c.err = fw[a].err
    <3>1. {"saved", "err"} \subseteq Fields \ {"lastPiece"}
      BY DEF Fields
    <3>2. w.saved = Saved(fw[a])
          /\ \A f \in Fields \ {"saved", "lastPiece", "err"} : w[f] = fw[a][f]
      BY <1>2 DEF Outcome
    <3>3. fw[a].err = w.err
      BY <1>2, <2>2 DEF Outcome
    <3>4. \A f \in Fields \ {"lastPiece"} : c[f] = w[f]
      BY <2>2 DEF Equals
    <3>5. \A f \in Fields \ {"saved", "lastPiece", "err"} : c[f] = fw[a][f]
      BY <3>2, <3>4
    <3>6. c.saved = w.saved /\ c.err = w.err
      BY <3>1, <3>4
    <3> QED
      BY <3>2, <3>3, <3>5, <3>6
  <2>4. {"sent", "kind", "answer", "state"} \subseteq Fields \ {"saved", "lastPiece", "err"}
        /\ (Read \cup Asked) \ {"err"} \subseteq Fields \ {"saved", "lastPiece", "err"}
    BY DEF Fields, Read, Asked
  <2>5. fw[0].answer = answer
    BY <1>0, <1>2 DEF IsConn, Fields
  <2> QED
    BY <1>4, <2>1, <2>2, <2>3, <2>4, <2>5 DEF Equals, Same
\* the lines of the new piece
<1>7. LinesIn(c, c.sent) = a /\ LinesIn(c, c.sent + n) = b
  BY <1>0, <1>6 DEF LinesIn, HeaderLines, a, b
<1>8. PICK f : /\ f[a] = [c EXCEPT !.sent = m + n]
               /\ Follows(f, a, b) /\ Outcome(e, f[b])
  <2>1. /\ c.state \in States /\ c.sent \in Nat /\ Len(c.answer.headers) \in Nat
    BY <1>5, <1>6
  <2>2. \E f : /\ f[LinesIn(c, c.sent)] = [c EXCEPT !.sent = c.sent + n]
               /\ Follows(f, LinesIn(c, c.sent), LinesIn(c, c.sent + n))
               /\ Outcome(PageInput(c, n), f[LinesIn(c, c.sent + n)])
    BY <1>6, <2>1, InputIs
  <2> QED
    BY <1>6, <1>7, <2>2 DEF e
<1>9. /\ Pair(f[a], fv[a]) /\ f[a].state = c.state
      /\ f[a].saved = c.saved /\ f[a].sent = m + n /\ f[a].kind = c.kind
  <2>1. DOMAIN c = Fields /\ {"sent", "state", "saved", "kind"} \subseteq Fields
        /\ Read \cup Asked \subseteq Fields /\ "sent" \notin Read \cup Asked
    BY <1>6 DEF IsConn, Fields, Read, Asked
  <2> DEFINE q == [c EXCEPT !.sent = m + n]
  <2>2. DOMAIN q = Fields /\ q = [g \in Fields |-> q[g]]
    BY <2>1
  <2>3. q.sent = m + n /\ \A g \in Fields \ {"sent"} : q[g] = c[g]
    BY <2>1
  <2> HIDE DEF q
  <2>4. IsConn(q) /\ \A g \in Read \cup Asked : q[g] = c[g]
    BY <2>1, <2>2, <2>3 DEF IsConn
  <2>5. Pair(fw[a], fv[a])
    BY <1>5 DEF Alike
  <2>6. Same(q, fv[a])
    BY <1>6, <2>4, <2>5 DEF Same, Pair
  <2>7. f[a] = q
    BY <1>8 DEF q
  <2> QED
    BY <2>1, <2>3, <2>4, <2>5, <2>6, <2>7 DEF Pair
<1>10. /\ Alike(f[a], f[b], fv[b]) /\ Stays(fv[a], fv[b])
       /\ f[a].state = "SPECIFIC" => f[b].state = "SPECIFIC"
  <2>1. Follows(fv, a, b)
    BY <1>1, <1>3 DEF Follows
  <2>2. f[a].state \in States
    BY <1>5, <1>6, <1>9
  <2>3. Follows(f, a, b) /\ Pair(f[a], fv[a])
    BY <1>8, <1>9
  <2>4. a \in Nat /\ b \in Nat /\ a <= b
    BY <1>1
  <2> QED
    BY ONLY <2>1, <2>2, <2>3, <2>4, FollowAlike
<1>11. /\ f[b].sent = m + n /\ fv[b].sent = m + n
       /\ f[b].kind = fv[b].kind /\ f[b].saved = c.saved /\ fv[b].saved = 0
       /\ f[b].state = fv[b].state /\ f[b].answer = fv[b].answer /\ f[b].err = fv[b].err
  <2>1. \A g \in Counted : f[b][g] = f[a][g] /\ fv[b][g] = fv[0][g]
    BY <1>5, <1>10 DEF Alike, Stays
  <2>2. {"sent", "kind", "saved"} \subseteq Counted
    BY DEF Counted
  <2>3. Pair(f[b], fv[b])
    BY <1>10 DEF Alike
  <2> QED
    BY <1>4, <1>6, <1>9, <2>1, <2>2, <2>3, FieldsSame
<1>12. Saved(f[b]) = Saved(fv[b])
  <2>1. CASE f[b].state = "SPECIFIC"
    BY <1>11, <2>1 DEF Saved, BodyHalves, HeaderLines
  <2>2. CASE f[b].state # "SPECIFIC"
    BY <1>6, <1>9, <1>10, <1>11, <2>2 DEF Saved
  <2> QED
    BY <2>1, <2>2
<1>13. Full(f[b], Saved(f[b])) <=> Full(fv[b], Saved(fv[b]))
  BY <1>11, <1>12 DEF Full
<1>14. \A g \in Fields \ {"saved", "lastPiece", "err"} : e[g] = v[g]
  <2>1. Same(f[b], fv[b])
    BY <1>10 DEF Alike, Pair
  <2>2. Fields \ {"saved", "lastPiece", "err"} \subseteq (Read \cup Asked) \cup {"sent", "kind"}
    BY DEF Fields, Read, Asked
  <2>3. \A g \in Fields \ {"saved", "lastPiece", "err"} : f[b][g] = fv[b][g]
    BY <1>11, <2>1, <2>2 DEF Same
  <2> QED
    BY <1>3, <1>8, <2>3 DEF Outcome
<1>15. e.saved = v.saved /\ e.err = v.err /\ IsConn(e) /\ IsConn(v)
  BY <1>3, <1>8, <1>11, <1>12, <1>13 DEF Outcome
<1>16. Equals(e, v)
  BY <1>14, <1>15 DEF Equals
<1> QED
  BY <1>16 DEF e, v, p

-----------------------------------------------------------------------------
(***************************************************************************)
(* The whole of a page depends on the options and on what is known of the  *)
(* site; both stay as they are while a page is read.                       *)
(***************************************************************************)
Whole(u, answer, m) == PageInput(Parser("page", u, answer), m)

LEMMA LinesKept ==
    ASSUME UNCHANGED <<opt, site>>
    PROVE  \A c, i : ReadLine(c, i)' = ReadLine(c, i)
<1>1. \A file : TestRobots(file)' <=> TestRobots(file)
  BY DEF TestRobots
<1>2. \A u, from : InitOK(u, from)' = InitOK(u, from)
  BY <1>1 DEF InitOK
<1>3. \A c, u, r : ManageUrl(c, u, r)' = ManageUrl(c, u, r)
  BY <1>2 DEF ManageUrl
<1>4. \A text : NotCgi(text)' <=> NotCgi(text)
  BY DEF NotCgi
<1>5. \A c, line : ParseHeader(c, line)' = ParseHeader(c, line)
  BY DEF ParseHeader
<1>6. \A c, line : ParseHeader30X(c, line)' = ParseHeader30X(c, line)
  BY <1>3, <1>4 DEF ParseHeader30X
<1> QED
  BY <1>5, <1>6 DEF ReadLine

FirstRead ==
    \A u, answer : \A m \in Nat :
        Len(answer.headers) \in Nat =>
        LET p == Parser("page", u, answer)
        IN \E f : /\ f[0] = [p EXCEPT !.sent = m]
                  /\ Follows(f, 0, LinesIn(p, m))
                  /\ Outcome(Whole(u, answer, m), f[LinesIn(p, m)])
LEMMA FirstReads == FirstRead
<1> SUFFICES ASSUME NEW u, NEW answer, NEW m \in Nat, Len(answer.headers) \in Nat
             PROVE  LET p == Parser("page", u, answer)
                    IN \E f : /\ f[0] = [p EXCEPT !.sent = m]
                              /\ Follows(f, 0, LinesIn(p, m))
                              /\ Outcome(Whole(u, answer, m), f[LinesIn(p, m)])
  BY DEF FirstRead
<1> DEFINE p == Parser("page", u, answer)
<1>1. IsConn(p) /\ p.state \in States /\ p.sent = 0 /\ p.answer = answer
  BY AtStart DEF States
<1> HIDE DEF p
<1>2. \E f : /\ f[0] = [p EXCEPT !.sent = m]
             /\ Follows(f, 0, LinesIn(p, m))
             /\ Outcome(PageInput(p, m), f[LinesIn(p, m)])
  BY <1>1, FirstInput
<1> QED
  BY <1>2 DEF p, Whole
LEMMA FirstReadsNext == FirstRead'
BY FirstReads, PTL

\* Before the lines are read, and after.
Begun(f, u, answer, m) ==
    LET p == Parser("page", u, answer)
    IN f[0] = [p EXCEPT !.sent = m] /\ Follows(f, 0, LinesIn(p, m))
Ended(f, b, u, answer, m) ==
    /\ b \in Nat /\ Pair(f[0], f[0]) /\ f[0].state \in States
    /\ Alike(f[0], f[b], f[b])
    /\ f[b].state \in States /\ f[b].first = u /\ f[b].answer = answer
    /\ f[b].sent = m /\ f[b].kind = "page" /\ f[b].saved = 0

LEMMA WholeReads ==
    ASSUME NEW u, NEW answer, NEW m \in Nat, Len(answer.headers) \in Nat,
           NEW f, Begun(f, u, answer, m)
    PROVE  Ended(f, LinesIn(Parser("page", u, answer), m), u, answer, m)
<1> DEFINE p == Parser("page", u, answer)
           b == LinesIn(p, m)
<1>1. /\ IsConn(p) /\ p.state = "ANSWER" /\ p.saved = 0
      /\ p.answer = answer /\ p.kind = "page" /\ p.first = u
  BY AtStart
<1> HIDE DEF p
<1>2. b \in Nat /\ 0 <= b
  BY <1>1, LinesCount
<1> HIDE DEF b
<1>3. f[0] = [p EXCEPT !.sent = m] /\ Follows(f, 0, b)
  BY DEF p, b, Begun
<1>4. /\ Pair(f[0], f[0]) /\ f[0].state \in States
      /\ f[0].first = u /\ f[0].answer = answer
      /\ f[0].sent = m /\ f[0].kind = "page" /\ f[0].saved = 0
  <2>1. DOMAIN p = Fields /\ {"sent", "state", "saved", "kind", "first", "answer"} \subseteq Fields
    BY <1>1 DEF IsConn, Fields
  <2> DEFINE q == [p EXCEPT !.sent = m]
  <2>2. /\ DOMAIN q = Fields /\ q = [g \in Fields |-> q[g]]
        /\ q.sent = m /\ \A g \in Fields \ {"sent"} : q[g] = p[g]
    BY <2>1
  <2>3. f[0] = q
    BY <1>3
  <2> HIDE DEF q
  <2> QED
    BY <1>1, <2>1, <2>2, <2>3 DEF Pair, Same, IsConn, States
<1>5. Alike(f[0], f[b], f[b]) /\ f[b].state \in States
  <2>1. 0 \in Nat
    OBVIOUS
  <2> QED
    BY ONLY <1>2, <1>3, <1>4, <2>1, FollowAlike
<1>6. \A g \in Counted \cup Asked : f[b][g] = f[0][g]
  BY <1>5 DEF Alike, Stays
<1>7. {"first", "answer", "sent", "kind", "saved"} \subseteq Counted \cup Asked
  BY DEF Counted, Asked
<1> QED
  BY <1>2, <1>4, <1>5, <1>6, <1>7 DEF b, p, Ended

\* What the whole keeps of its parser.
LEMMA WholeFields ==
    ASSUME NEW u, NEW answer, NEW m \in Nat, Len(answer.headers) \in Nat
    PROVE  LET w == Whole(u, answer, m)
           IN /\ IsConn(w) /\ w.state \in States /\ w.kind = "page"
              /\ w.first = u /\ w.answer = answer /\ w.sent = m
<1> DEFINE b == LinesIn(Parser("page", u, answer), m)
           w == Whole(u, answer, m)
<1>1. PICK f : /\ f[0] = [Parser("page", u, answer) EXCEPT !.sent = m]
               /\ Follows(f, 0, b) /\ Outcome(w, f[b])
  BY FirstReads DEF FirstRead
<1>2. /\ f[b].state \in States /\ f[b].first = u /\ f[b].answer = answer
      /\ f[b].sent = m /\ f[b].kind = "page"
  <2>1. Begun(f, u, answer, m)
    BY <1>1 DEF Begun
  <2>2. Ended(f, b, u, answer, m)
    BY <2>1, WholeReads
  <2> QED
    BY <2>2 DEF Ended
<1> HIDE DEF w, b
<1>3. IsConn(w) /\ \A g \in Fields \ {"saved", "lastPiece", "err"} : w[g] = f[b][g]
  BY <1>1 DEF Outcome
<1>4. {"state", "first", "answer", "sent", "kind"} \subseteq Fields \ {"saved", "lastPiece", "err"}
  BY DEF Fields
<1> QED
  BY <1>2, <1>3, <1>4 DEF w

LEMMA WholeKept ==
    ASSUME UNCHANGED <<opt, site>>, NEW u, NEW answer, NEW m \in Nat, Len(answer.headers) \in Nat
    PROVE  Equals(Whole(u, answer, m)', Whole(u, answer, m))
<1> DEFINE p == Parser("page", u, answer)
           b == LinesIn(p, m)
<1>1. PICK f : /\ f[0] = [p EXCEPT !.sent = m] /\ Follows(f, 0, b)
               /\ Outcome(Whole(u, answer, m), f[b])
  BY FirstReads DEF FirstRead
<1>2. PICK g : /\ g[0] = [p EXCEPT !.sent = m] /\ Follows(g, 0, b)'
               /\ Outcome(Whole(u, answer, m)', g[b])
  BY FirstReadsNext DEF FirstRead
<1>3. Follows(g, 0, b)
  BY <1>2, LinesKept DEF Follows
<1>4. Ended(f, b, u, answer, m)
  <2>1. Begun(f, u, answer, m)
    BY <1>1 DEF Begun
  <2> QED
    BY <2>1, WholeReads
<1>5. Ended(g, b, u, answer, m)
  <2>1. Begun(g, u, answer, m)
    BY <1>2, <1>3 DEF Begun
  <2> QED
    BY <2>1, WholeReads
<1> HIDE DEF p, b
<1>6. Alike(f[0], f[b], g[b])
  <2>1. Pair(f[0], g[0]) /\ 0 \in Nat /\ 0 <= b
    BY <1>1, <1>2, <1>4 DEF Ended
  <2>2. Follows(f, 0, b) /\ Follows(g, 0, b) /\ b \in Nat /\ f[0].state \in States
    BY <1>1, <1>3, <1>4 DEF Ended
  <2> QED
    BY ONLY <2>1, <2>2, FollowAlike
<1>7. \A h \in Fields \ {"lastPiece"} : f[b][h] = g[b][h]
  <2>1. Fields \ {"lastPiece"} \subseteq Read \cup Asked \cup {"sent", "kind", "saved"}
    BY DEF Fields, Read, Asked
  <2>2. \A h \in Read \cup Asked : f[b][h] = g[b][h]
    BY <1>6 DEF Alike, Pair, Same
  <2> QED
    BY <1>4, <1>5, <2>1, <2>2 DEF Ended
<1>8. /\ Saved(f[b]) = Saved(g[b]) /\ f[b].err = g[b].err
      /\ Full(f[b], Saved(f[b])) <=> Full(g[b], Saved(g[b]))
  <2>1. {"state", "err", "sent", "answer", "saved"} \subseteq Fields \ {"lastPiece"}
    BY DEF Fields
  <2>2. /\ f[b].state = g[b].state /\ f[b].err = g[b].err /\ f[b].sent = g[b].sent
        /\ f[b].answer = g[b].answer /\ f[b].saved = g[b].saved
    BY <1>7, <2>1
  <2>3. Saved(f[b]) = Saved(g[b])
    BY <2>2 DEF Saved, BodyHalves, HeaderLines
  <2> QED
    BY <2>2, <2>3 DEF Full
<1> DEFINE w == Whole(u, answer, m)
           x == Whole(u, answer, m)'
<1>9. Outcome(w, f[b]) /\ Outcome(x, g[b])
  BY <1>1, <1>2
<1> HIDE DEF w, x
<1>10. w.saved = x.saved /\ w.err = x.err /\ IsConn(w) /\ IsConn(x)
  BY <1>8, <1>9 DEF Outcome
<1>11. \A h \in Fields \ {"saved", "lastPiece", "err"} : w[h] = x[h]
  BY <1>7, <1>9 DEF Outcome
<1> QED
  BY <1>10, <1>11 DEF Equals, w, x
-----------------------------------------------------------------------------
(***************************************************************************)
(* The inductive invariant: a parser that reads is the one that would have *)
(* read all of it in one piece, and so was one that has had enough.        *)
(***************************************************************************)
Reading(c) ==
    \E u \in {c.first}, answer \in {c.answer}, m \in {c.sent} :
        m \in Nat /\ Len(answer.headers) \in Nat /\ Equals(c, Whole(u, answer, m))
HadEnough == {"badType", "tooBig", "err30X"}
PagesInv ==
    /\ fetches \in 0 .. MaxFetches
    /\ conn.kind = "page" => fetches > 0 /\ conn.err = "success" /\ Reading(conn)
    /\ conn.kind = "over" /\ conn.err \in HadEnough =>
          IsConn(conn) /\ Reading([conn EXCEPT !.kind = "page"])
    /\ conn.kind = "robots" => IsConn(conn)

LEMMA ReadingIs ==
    ASSUME NEW u, NEW answer, NEW m \in Nat, Len(answer.headers) \in Nat,
           NEW c, Equals(c, Whole(u, answer, m))
    PROVE  Reading(c) /\ c.first = u /\ c.answer = answer /\ c.sent = m
<1>1. LET w == Whole(u, answer, m)
      IN w.first = u /\ w.answer = answer /\ w.sent = m
  BY WholeFields
<1>2. {"first", "answer", "sent"} \subseteq Fields \ {"lastPiece"}
  BY DEF Fields
<1>3. c.first = u /\ c.answer = answer /\ c.sent = m
  BY <1>1, <1>2 DEF Equals
<1> QED
  BY <1>3 DEF Reading

LEMMA ReadingConn ==
    ASSUME NEW c, Reading(c)
    PROVE  IsConn(c) /\ c.state \in States /\ c.kind = "page"
<1>1. PICK u, answer, m : m \in Nat /\ Len(answer.headers) \in Nat
                          /\ Equals(c, Whole(u, answer, m))
  BY DEF Reading
<1>2. LET w == Whole(u, answer, m) IN w.state \in States /\ w.kind = "page"
  BY <1>1, WholeFields
<1>3. {"state", "kind"} \subseteq Fields \ {"lastPiece"}
  BY DEF Fields
<1> QED
  BY <1>1, <1>2, <1>3 DEF Equals

LEMMA ReadingKept ==
    ASSUME UNCHANGED <<opt, site>>
    PROVE  \A c : Reading(c) => Reading(c)'
<1> SUFFICES ASSUME NEW c, Reading(c) PROVE Reading(c)'
  OBVIOUS
<1>1. PICK u \in {c.first}, answer \in {c.answer}, m \in {c.sent} :
         m \in Nat /\ Len(answer.headers) \in Nat /\ Equals(c, Whole(u, answer, m))
  BY DEF Reading
<1>2. Equals(Whole(u, answer, m)', Whole(u, answer, m))
  BY <1>1, WholeKept
<1>3. Equals(c, Whole(u, answer, m)')
  BY <1>1, <1>2 DEF Equals
<1> QED
  BY <1>1, <1>3 DEF Reading

\* A parser that has read nothing.
LEMMA ReadingStarts ==
    ASSUME NEW u, NEW answer, Len(answer.headers) \in Nat
    PROVE  Reading(Parser("page", u, answer))
<1> DEFINE p == Parser("page", u, answer)
<1>1. /\ IsConn(p) /\ p.state = "ANSWER" /\ p.sent = 0 /\ p.saved = 0
      /\ p.answer = answer /\ p.kind = "page" /\ p.err = "success" /\ p.first = u
      /\ p.state \in States
  BY AtStart DEF States
<1> HIDE DEF p
<1>2. PICK f : /\ f[0] = [p EXCEPT !.sent = 0]
               /\ Follows(f, 0, LinesIn(p, 0))
               /\ Outcome(PageInput(p, 0), f[LinesIn(p, 0)])
  <2>1. 0 \in Nat
    OBVIOUS
  <2> QED
    BY <1>1, <2>1, FirstInput
<1>3. LinesIn(p, 0) = 0
  <2>1. 0 \in Nat /\ 0 <= 0
    OBVIOUS
  <2> QED
    BY <1>1, <2>1, LinesCount
<1>4. [p EXCEPT !.sent = 0] = p
  <2>1. DOMAIN p = Fields
    BY <1>1 DEF IsConn
  <2> QED
    BY <1>1, <2>1 DEF IsConn
<1>5. Outcome(Whole(u, answer, 0), p)
  BY <1>2, <1>3, <1>4 DEF Whole, p
<1>6. ~Full(p, Saved(p)) /\ Saved(p) = 0
  BY <1>1, PagesAssumption DEF Full, Saved
<1> DEFINE w == Whole(u, answer, 0)
<1>7. Outcome(w, p)
  BY <1>5
<1> HIDE DEF w
<1>8. /\ w.saved = p.saved /\ w.err = p.err /\ IsConn(w)
      /\ \A g \in Fields \ {"saved", "lastPiece", "err"} : w[g] = p[g]
  BY <1>1, <1>6, <1>7 DEF Outcome
<1>9. Equals(p, w)
  BY <1>1, <1>8 DEF Equals
<1>10. Reading(p)
  <2>1. Equals(p, Whole(u, answer, 0)) /\ 0 \in Nat
    BY <1>9 DEF w
  <2> QED
    BY <2>1, ReadingIs
<1> QED
  BY <1>10 DEF p

LEMMA ReadingJoins ==
    ASSUME NEW c, Reading(c), c.err = "success", NEW n \in Nat
    PROVE  Reading(PageInput(c, n))
<1>1. PICK u, answer, m : m \in Nat /\ Len(answer.headers) \in Nat
                          /\ Equals(c, Whole(u, answer, m))
  BY DEF Reading
<1>2. Whole(u, answer, m).err = "success"
  <2>1. "err" \in Fields \ {"lastPiece"}
    BY DEF Fields
  <2> QED
    BY <1>1, <2>1 DEF Equals
<1>3. Equals(PageInput(c, n), Whole(u, answer, m + n))
  <2>1. /\ Equals(c, PageInput(Parser("page", u, answer), m))
        /\ PageInput(Parser("page", u, answer), m).err = "success"
    BY <1>1, <1>2 DEF Whole
  <2>2. Equals(PageInput(c, n), PageInput(Parser("page", u, answer), m + n))
    BY <1>1, <2>1, PieceJoins
  <2> QED
    BY <2>2 DEF Whole
<1>4. m + n \in Nat
  BY <1>1
<1> QED
  BY <1>1, <1>3, <1>4, ReadingIs
-----------------------------------------------------------------------------
(***************************************************************************)
(* The parsing of a body reports no error.                                 *)
(***************************************************************************)
Quiet(c, e) == IsConn(e) /\ e.err = c.err

LEMMA QuietField ==
    ASSUME NEW c, IsConn(c), NEW v
    PROVE  /\ Quiet(c, c)
           /\ Quiet(c, [c EXCEPT !.offered = v])
           /\ Quiet(c, [c EXCEPT !.base = v])
           /\ Quiet(c, [c EXCEPT !.body = v])
<1>1. DOMAIN c = Fields /\ {"err", "offered", "base", "body"} \subseteq Fields
  BY DEF IsConn, Fields
<1>2. \A f \in Fields \ {"err"} : Quiet(c, [c EXCEPT ![f] = v])
  <2> TAKE f \in Fields \ {"err"}
  <2> DEFINE e == [c EXCEPT ![f] = v]
  <2>1. DOMAIN e = Fields /\ e = [g \in Fields |-> e[g]] /\ e.err = c.err
    BY <1>1
  <2> QED
    BY <2>1 DEF Quiet, IsConn
<1> QED
  BY <1>1, <1>2 DEF Quiet

LEMMA TagQuiet ==
    ASSUME NEW c, IsConn(c), NEW tag, NEW atEnd
    PROVE  Quiet(c, ParseTag(c, tag, atEnd))
<1>1. \A u, r : Quiet(c, ManageUrl(c, u, r))
  <2> TAKE u, r
  <2> DEFINE v == Append(c.offered, InitOK(u, c.here))
  <2>1. ManageUrl(c, u, r) = c \/ ManageUrl(c, u, r) = [c EXCEPT !.offered = v]
    BY DEF ManageUrl
  <2>2. Quiet(c, c) /\ Quiet(c, [c EXCEPT !.offered = v])
    BY QuietField
  <2> QED
    BY <2>1, <2>2
<1>2. \A text : Quiet(c, ParseBase(c, text))
  <2> TAKE text
  <2> DEFINE v == OrNone(UrlOf(SubSeq(text, 1, Max({k \in DOMAIN text :
                      text[k] = "/" /\ CharsOf(SubSeq(text, 1, k - 1)) > 7})), 0, None))
  <2>1. ParseBase(c, text) = c \/ ParseBase(c, text) = [c EXCEPT !.base = v]
    BY DEF ParseBase
  <2>2. Quiet(c, c) /\ Quiet(c, [c EXCEPT !.base = v])
    BY QuietField
  <2> HIDE DEF v
  <2> QED
    BY <2>1, <2>2
<1>3. Quiet(c, ParseContent(c, tag, atEnd))
  <2>1. \/ ParseContent(c, tag, atEnd) = c
        \/ \E text : ParseContent(c, tag, atEnd) = ParseBase(c, text)
        \/ \E u, r : ParseContent(c, tag, atEnd) = ManageUrl(c, u, r)
    BY DEF ParseContent
  <2> QED
    BY <1>1, <1>2, <2>1, QuietField
<1> QED
  BY <1>3, QuietField DEF ParseTag
\* The tags of a body up to the k-th, parsed by f.
Parses(f, c, tags, had, whole, hidden) ==
    f = [i \in 0 .. Len(tags) |->
           IF i = 0 THEN [c EXCEPT !.body = tags]
           ELSE IF hidden[i] THEN f[i - 1] ELSE ParseTag(f[i - 1], had[i], ~whole[i])]

LEMMA ParsesExist ==
    ASSUME NEW c, NEW tags, Len(tags) \in Nat, NEW had, NEW whole, NEW hidden
    PROVE  \E f : Parses(f, c, tags, had, whole, hidden)
<1> DEFINE Upto(f, n) == f = [i \in 0 .. n |->
                IF i = 0 THEN [c EXCEPT !.body = tags]
                ELSE IF hidden[i] THEN f[i - 1] ELSE ParseTag(f[i - 1], had[i], ~whole[i])]
           S == {n \in Nat : \E f : Upto(f, n)}
<1>1. 0 \in S
  <2>1. Upto([i \in 0 .. 0 |-> [c EXCEPT !.body = tags]], 0)
    OBVIOUS
  <2> QED
    BY <2>1
<1>2. ASSUME NEW n \in S PROVE n + 1 \in S
  <2>1. PICK f : Upto(f, n)
    OBVIOUS
  <2>2. n \in Nat
    OBVIOUS
  <2> DEFINE step(x, i) == IF hidden[i] THEN x ELSE ParseTag(x, had[i], ~whole[i])
             g == [i \in 0 .. n + 1 |-> IF i = n + 1 THEN step(f[n], i) ELSE f[i]]
             first == [c EXCEPT !.body = tags]
  <2>3. \A i \in 0 .. n : f[i] = IF i = 0 THEN first ELSE step(f[i - 1], i)
    BY <2>1
  <2> HIDE DEF step, first
  <2>4. ASSUME NEW i \in 0 .. n + 1
        PROVE  g[i] = IF i = 0 THEN first ELSE step(g[i - 1], i)
    <3>1. CASE i = n + 1
      <4>1. i # 0 /\ i - 1 = n /\ n \in 0 .. n + 1 /\ n # n + 1
        BY ONLY <2>2, <3>1
      <4>2. g[i - 1] = f[n]
        BY <4>1
      <4> QED
        BY <3>1, <4>1, <4>2
    <3>2. CASE i # n + 1
      <4>1. i \in 0 .. n
        BY <2>2, <3>2
      <4>2. g[i] = f[i]
        BY <3>2
      <4>3. i # 0 => g[i - 1] = f[i - 1]
        <5>1. i # 0 => i - 1 \in 0 .. n + 1 /\ i - 1 # n + 1
          BY <2>2, <4>1
        <5> QED
          BY <5>1
      <4> QED
        BY <2>3, <4>1, <4>2, <4>3
    <3> QED
      BY <3>1, <3>2
  <2>5. g = [i \in 0 .. n + 1 |-> IF i = 0 THEN first ELSE step(g[i - 1], i)]
    <3>1. g = [i \in 0 .. n + 1 |-> g[i]]
      OBVIOUS
    <3> HIDE DEF g
    <3> QED
      BY <2>4, <3>1
  <2>6. Upto(g, n + 1)
    <3> HIDE DEF g
    <3> QED
      BY <2>5 DEF first, step
  <2>7. n + 1 \in Nat
    BY <2>2
  <2> HIDE DEF g, Upto
  <2> QED
    BY <2>6, <2>7
<1>3. S \subseteq Nat
  OBVIOUS
<1> HIDE DEF S
<1>4. Len(tags) \in S
  BY <1>1, <1>2, <1>3, NatInduct
<1> QED
  BY <1>4 DEF S, Parses

LEMMA HtmlQuiet ==
    ASSUME NEW c, IsConn(c), NEW tags, Len(tags) \in Nat
    PROVE  Quiet(c, ParseHtml(c, tags))
<1> DEFINE hidden == [i \in 0 .. Len(tags) |-> \E j \in 1 .. i : tags[j].name = "openComment"]
           whole == [i \in 0 .. Len(tags) |-> 2 * i <= BodyHalves(c)]
           had == [i \in 0 .. Len(tags) |->
                     IF whole[i] THEN tags[i] ELSE [tags[i] EXCEPT !.text = Front(@)]]
<1>1. ParseHtml(c, tags) = (CHOOSE f : Parses(f, c, tags, had, whole, hidden))[Len(tags)]
  BY DEF ParseHtml, Parses
<1> HIDE DEF hidden, whole, had
<1>2. PICK f : /\ Parses(f, c, tags, had, whole, hidden)
               /\ ParseHtml(c, tags) = f[Len(tags)]
  BY <1>1, ParsesExist
<1> DEFINE S == {n \in Nat : n <= Len(tags) => Quiet(c, f[n])}
<1>3. \A i \in 0 .. Len(tags) :
        f[i] = IF i = 0 THEN [c EXCEPT !.body = tags]
               ELSE IF hidden[i] THEN f[i - 1] ELSE ParseTag(f[i - 1], had[i], ~whole[i])
  BY <1>2 DEF Parses
<1>4. 0 \in S
  <2>1. 0 \in 0 .. Len(tags)
    OBVIOUS
  <2>2. f[0] = [c EXCEPT !.body = tags]
    BY <1>3, <2>1
  <2>3. Quiet(c, [c EXCEPT !.body = tags])
    BY QuietField
  <2>4. Quiet(c, f[0])
    BY ONLY <2>2, <2>3
  <2> QED
    BY <2>4
<1>5. ASSUME NEW n \in S PROVE n + 1 \in S
  <2> SUFFICES ASSUME n + 1 <= Len(tags) PROVE Quiet(c, f[n + 1])
    OBVIOUS
  <2>1. n \in Nat /\ n + 1 \in 0 .. Len(tags) /\ n + 1 # 0 /\ (n + 1) - 1 = n /\ n <= Len(tags)
    OBVIOUS
  <2>2. Quiet(c, f[n])
    BY <2>1
  <2>3. f[n + 1] = f[n] \/ f[n + 1] = ParseTag(f[n], had[n + 1], ~whole[n + 1])
    BY <1>3, <2>1
  <2>4. Quiet(f[n], ParseTag(f[n], had[n + 1], ~whole[n + 1]))
    BY <2>2, TagQuiet DEF Quiet
  <2> QED
    BY <2>2, <2>3, <2>4 DEF Quiet
<1>6. S \subseteq Nat
  OBVIOUS
<1> HIDE DEF S
<1>7. Len(tags) \in S
  BY <1>4, <1>5, <1>6, NatInduct
<1> QED
  BY <1>2, <1>7 DEF S
LEMMA EndIs ==
    ASSUME NEW c, IsConn(c), c.state \in States, c.err = "success",
           NEW tags, Len(tags) \in Nat
    PROVE  IsConn(PageEnd(c, tags)) /\ PageEnd(c, tags).err \notin HadEnough
<1>1. DOMAIN c = Fields /\ "err" \in Fields
  BY DEF IsConn, Fields
<1>2. \A v : IsConn([c EXCEPT !.err = v]) /\ [c EXCEPT !.err = v].err = v
  <2> TAKE v
  <2> DEFINE e == [c EXCEPT !.err = v]
  <2>1. DOMAIN e = Fields /\ e = [f \in Fields |-> e[f]] /\ e.err = v
    BY <1>1
  <2> QED
    BY <2>1 DEF IsConn
<1>3. IsConn(ParseHtml(c, tags)) /\ ParseHtml(c, tags).err = "success"
  BY HtmlQuiet DEF Quiet
<1>4. PageEnd(c, tags) \in {[c EXCEPT !.err = "earlyStop"], [c EXCEPT !.err = "err40X"],
                            [c EXCEPT !.err = "duplicate"], c, ParseHtml(c, tags)}
  BY DEF PageEnd, States
<1> HIDE DEF HadEnough
<1>5. {"earlyStop", "err40X", "duplicate", "success"} \cap HadEnough = {}
  BY DEF HadEnough
<1> QED
  BY <1>2, <1>3, <1>4, <1>5

LEMMA OverIs ==
    ASSUME NEW c, IsConn(c)
    PROVE  /\ IsConn(Over(c)) /\ Over(c).kind = "over" /\ Over(c).err = c.err
           /\ c.kind = "page" => [Over(c) EXCEPT !.kind = "page"] = c
<1>1. DOMAIN c = Fields /\ {"kind", "err"} \subseteq Fields
  BY DEF IsConn, Fields
<1> DEFINE e == [c EXCEPT !.kind = "over"]
<1>2. DOMAIN e = Fields /\ e = [f \in Fields |-> e[f]] /\ e.kind = "over" /\ e.err = c.err
  BY <1>1
<1>3. IsConn(e)
  BY <1>2 DEF IsConn
<1>4. c.kind = "page" => [e EXCEPT !.kind = "page"] = c
  <2> DEFINE g == [e EXCEPT !.kind = "page"]
  <2>1. g = [f \in Fields |-> g[f]]
    BY <1>2
  <2>2. c.kind = "page" => \A f \in Fields : g[f] = c[f]
    BY <1>1, <1>2
  <2> HIDE DEF g
  <2> QED
    BY <2>1, <2>2 DEF IsConn, g
<1> QED
  BY <1>2, <1>3, <1>4 DEF Over

-----------------------------------------------------------------------------
(* The invariant *)

LEMMA PagesInit == Init => PagesInv
<1> SUFFICES ASSUME Init PROVE PagesInv
  OBVIOUS
<1>1. fetches = 0 /\ conn.kind = "none"
  BY DEF Init, NoConn
<1>2. MaxFetches \in Nat
  BY PagesAssumption
<1> QED
  BY <1>1, <1>2 DEF PagesInv

\* conn stays and so do the options and the site.
LEMMA ConnStays ==
    PagesInv /\ UNCHANGED <<opt, site, conn, fetches>> => PagesInv'
<1> SUFFICES ASSUME PagesInv, UNCHANGED <<opt, site, conn, fetches>> PROVE PagesInv'
  OBVIOUS
<1>1. \A c : Reading(c) => Reading(c)'
  BY ReadingKept
<1>2. PICK c : c = conn
  OBVIOUS
<1>3. conn' = c
  BY <1>2
<1>4. /\ fetches' \in 0 .. MaxFetches
      /\ c.kind = "page" => fetches' > 0 /\ c.err = "success" /\ Reading(c)'
      /\ c.kind = "over" /\ c.err \in HadEnough =>
            IsConn(c) /\ Reading([c EXCEPT !.kind = "page"])'
      /\ c.kind = "robots" => IsConn(c)
  BY <1>1, <1>2 DEF PagesInv
<1> QED
  BY <1>3, <1>4 DEF PagesInv, Reading

\* A page is begun, or goes on.
LEMMA NowReading ==
    ASSUME NEW e, fetches' \in 1 .. MaxFetches, conn' = e, UNCHANGED <<opt, site>>,
           Reading(e), e.err = "success"
    PROVE  PagesInv'
<1>1. Reading(e)'
  BY ReadingKept
<1>2. Reading(conn)'
  BY <1>1 DEF Reading
<1>3. e.kind = "page"
  BY ReadingConn
<1> QED
  BY <1>2, <1>3, PagesAssumption DEF PagesInv

\* A page is over.
LEMMA NowOver ==
    ASSUME NEW e, fetches' \in 0 .. MaxFetches, conn' = Over(e), UNCHANGED <<opt, site>>,
           IsConn(e), e.err \in HadEnough => Reading(e)
    PROVE  PagesInv'
<1>1. IsConn(conn') /\ conn'.kind = "over" /\ conn'.err = e.err
  BY OverIs
<1>2. e.err \in HadEnough => Reading([conn EXCEPT !.kind = "page"])'
  <2> SUFFICES ASSUME e.err \in HadEnough PROVE Reading([conn EXCEPT !.kind = "page"])'
    OBVIOUS
  <2>1. [conn' EXCEPT !.kind = "page"] = e
    BY OverIs, ReadingConn
  <2>2. Reading(e)'
    BY ReadingKept
  <2> QED
    BY <2>1, <2>2 DEF Reading
<1> QED
  BY <1>1, <1>2 DEF PagesInv

\* The connection is no longer that of a page, or not yet.
LEMMA NoPage ==
    ASSUME fetches' \in 0 .. MaxFetches, conn'.kind \notin {"page", "over"},
           conn'.kind = "robots" => IsConn(conn')
    PROVE  PagesInv'
BY DEF PagesInv
LEMMA StepFetchPage ==
    ASSUME PagesInv, NEW line, NEW answer, FetchPage(line, answer)
    PROVE  PagesInv'
<1> DEFINE u == Reload(line, opt.useCookies)
           p == Parser("page", u, answer)
<1>1. /\ fetches < MaxFetches /\ answer \in Answers[fetches + 1]
      /\ conn' = p /\ fetches' = fetches + 1 /\ UNCHANGED <<opt, site>>
  BY DEF FetchPage
<1>2. fetches' \in 1 .. MaxFetches
  BY <1>1, PagesAssumption DEF PagesInv
<1>3. Len(answer.headers) \in Nat
  <2>1. answer \in Answers[fetches']
    BY <1>1
  <2> QED
    BY <1>2, <2>1, PagesAssumption
<1> HIDE DEF u
<1>4. Reading(p)
  BY <1>3, ReadingStarts
<1>5. p.err = "success"
  BY DEF Parser
<1> HIDE DEF p
<1> QED
  BY <1>1, <1>2, <1>4, <1>5, NowReading

LEMMA StepPagePiece ==
    ASSUME PagesInv, NEW n \in 1 .. MaxPage, PagePiece(n)
    PROVE  PagesInv'
<1> DEFINE c == PageInput(conn, n)
<1>1. /\ conn.kind = "page" /\ UNCHANGED <<opt, site, fetches>>
      /\ conn' = IF c.err = "success" THEN c ELSE Over(c)
  BY DEF PagePiece
<1>2. /\ fetches \in 1 .. MaxFetches /\ Reading(conn) /\ conn.err = "success"
  BY <1>1, PagesAssumption DEF PagesInv
<1>3. n \in Nat
  BY PagesAssumption
<1>4. Reading(c)
  BY <1>2, <1>3, ReadingJoins
<1> HIDE DEF c
<1>5. CASE c.err = "success"
  <2>1. conn' = c /\ fetches' \in 1 .. MaxFetches /\ UNCHANGED <<opt, site>>
    BY <1>1, <1>2, <1>5
  <2> QED
    BY <1>4, <1>5, <2>1, NowReading
<1>6. CASE c.err # "success"
  <2>1. conn' = Over(c) /\ fetches' \in 0 .. MaxFetches /\ UNCHANGED <<opt, site>>
    BY <1>1, <1>2, <1>6, PagesAssumption
  <2>2. IsConn(c)
    BY <1>4, ReadingConn
  <2> QED
    BY <1>4, <2>1, <2>2, NowOver
<1> QED
  BY <1>5, <1>6

LEMMA StepClosePage ==
    ASSUME PagesInv, NEW tags, ClosePage(tags)
    PROVE  PagesInv'
<1> DEFINE e == PageEnd(conn, tags)
<1>1. /\ conn.kind = "page" /\ tags \in Bodies[fetches]
      /\ conn' = Over(e) /\ UNCHANGED <<opt, site, fetches>>
  BY DEF ClosePage
<1>2. /\ fetches \in 1 .. MaxFetches /\ Reading(conn) /\ conn.err = "success"
      /\ fetches \in 0 .. MaxFetches
  BY <1>1, PagesAssumption DEF PagesInv
<1>3. Len(tags) \in Nat
  BY <1>1, <1>2, PagesAssumption
<1>4. IsConn(e) /\ e.err \notin HadEnough
  BY <1>2, <1>3, ReadingConn, EndIs
<1> HIDE DEF e
<1>5. fetches' \in 0 .. MaxFetches /\ UNCHANGED <<opt, site>>
  BY <1>1, <1>2
<1> QED
  BY <1>1, <1>4, <1>5, NowOver

LEMMA StepBreakPage ==
    ASSUME PagesInv, BreakPage
    PROVE  PagesInv'
<1> DEFINE e == [conn EXCEPT !.err = "earlyStop"]
<1>1. conn.kind = "page" /\ conn' = Over(e) /\ UNCHANGED <<opt, site, fetches>>
  BY DEF BreakPage
<1>2. IsConn(conn) /\ fetches \in 0 .. MaxFetches
  BY <1>1, ReadingConn DEF PagesInv
<1>3. IsConn(e) /\ e.err = "earlyStop"
  <2>1. DOMAIN conn = Fields /\ "err" \in Fields
    BY <1>2 DEF IsConn, Fields
  <2>2. DOMAIN e = Fields /\ e = [f \in Fields |-> e[f]] /\ e.err = "earlyStop"
    BY <2>1
  <2> QED
    BY <2>2 DEF IsConn
<1> HIDE DEF e
<1>4. e.err \notin HadEnough
  BY <1>3 DEF HadEnough
<1>5. fetches' \in 0 .. MaxFetches /\ UNCHANGED <<opt, site>>
  BY <1>1, <1>2
<1> QED
  BY <1>1, <1>3, <1>4, <1>5, NowOver

LEMMA StepRobots ==
    ASSUME PagesInv,
           \/ \E line, answer : FetchRobots(line, answer)
           \/ \E line : NoDns(line)
           \/ \E n, words : RobotsPiece(n, words)
           \/ \E words : CloseRobots(words)
           \/ \E why, words : BreakRobots(why, words)
    PROVE  PagesInv'
<1>1. fetches \in 0 .. MaxFetches
  BY DEF PagesInv
<1>2. ASSUME fetches' = fetches, conn' = NoConn PROVE PagesInv'
  <2>1. NoConn.kind = "none"
    BY DEF NoConn
  <2> QED
    BY <1>1, <1>2, <2>1, NoPage
<1>3. ASSUME NEW line, NEW answer, FetchRobots(line, answer) PROVE PagesInv'
  <2> DEFINE p == Parser("robots", Reload(line, opt.useCookies), answer)
  <2>1. conn' = p /\ fetches' = fetches
    BY <1>3 DEF FetchRobots
  <2>2. DOMAIN p = Fields /\ p = [f \in DOMAIN p |-> p[f]] /\ p.kind = "robots"
    BY DEF Parser, Fields
  <2> HIDE DEF p
  <2> QED
    BY <1>1, <2>1, <2>2, NoPage DEF IsConn
<1>4. ASSUME NEW n, NEW words, RobotsPiece(n, words) PROVE PagesInv'
  <2> DEFINE c == RobotsInput(conn, n)
  <2>1. /\ conn.kind = "robots" /\ fetches' = fetches
        /\ conn' = c \/ conn' = NoConn
    BY <1>4 DEF RobotsPiece
  <2>2. IsConn(conn)
    BY <2>1 DEF PagesInv
  <2>3. IsConn(c) /\ c.kind = "robots"
    <3>1. DOMAIN conn = Fields /\ {"err", "kind", "sent"} \subseteq Fields
      BY <2>2 DEF IsConn, Fields
    <3> DEFINE d == [conn EXCEPT !.sent = @ + n]
    <3>2. DOMAIN d = Fields /\ d = [f \in Fields |-> d[f]] /\ d.kind = "robots"
      BY <2>1, <3>1
    <3>3. c \in {d, [d EXCEPT !.err = "err40X"], [d EXCEPT !.err = "tooBig"]}
      BY DEF RobotsInput
    <3> HIDE DEF c, d
    <3>4. \A v : LET e == [d EXCEPT !.err = v]
                 IN DOMAIN e = Fields /\ e = [f \in Fields |-> e[f]] /\ e.kind = "robots"
      BY <3>1, <3>2
    <3> QED
      BY <3>2, <3>3, <3>4 DEF IsConn
  <2> HIDE DEF c
  <2>4. CASE conn' = c
    BY <1>1, <2>1, <2>3, <2>4, NoPage
  <2> QED
    BY <1>2, <2>1, <2>4
<1>5. ASSUME NEW words, CloseRobots(words) PROVE PagesInv'
  BY <1>2, <1>5 DEF CloseRobots
<1>7. ASSUME NEW line, NoDns(line) PROVE PagesInv'
  BY <1>2, <1>7 DEF NoDns
<1>6. ASSUME NEW why, NEW words, BreakRobots(why, words) PROVE PagesInv'
  BY <1>2, <1>6 DEF BreakRobots
<1> QED
  BY <1>3, <1>4, <1>5, <1>6, <1>7

LEMMA PagesStep == PagesInv /\ [Next]_vars => PagesInv'
<1> SUFFICES ASSUME PagesInv, [Next]_vars PROVE PagesInv'
  OBVIOUS
<1>1. ASSUME NEW text, Submit(text) PROVE PagesInv'
  BY <1>1, ConnStays DEF Submit
<1>2. ASSUME NEW line, NEW answer, FetchPage(line, answer) PROVE PagesInv'
  BY <1>2, StepFetchPage
<1>3. ASSUME NEW n \in 1 .. MaxPage, PagePiece(n) PROVE PagesInv'
  BY <1>3, StepPagePiece
<1>4. ASSUME NEW tags, ClosePage(tags) PROVE PagesInv'
  BY <1>4, StepClosePage
<1>5. CASE BreakPage
  BY <1>5, StepBreakPage
<1>6. ASSUME \/ \E line, answer : FetchRobots(line, answer)
             \/ \E line : NoDns(line)
             \/ \E n, words : RobotsPiece(n, words)
             \/ \E words : CloseRobots(words)
             \/ \E why, words : BreakRobots(why, words)
      PROVE  PagesInv'
  BY <1>6, StepRobots
<1>7. CASE UNCHANGED vars
  BY <1>7, ConnStays DEF vars
<1>8. ASSUME Next PROVE PagesInv'
  BY <1>1, <1>2, <1>3, <1>4, <1>5, <1>6, <1>8 DEF Next
<1> QED
  BY <1>7, <1>8

LEMMA PagesInvMeans == PagesInv => PiecesDontMatter
<1> SUFFICES ASSUME PagesInv,
                    \/ conn.kind = "page"
                    \/ conn.kind = "over" /\ conn.err \in HadEnough
             PROVE  LET w == PageInput(Parser("page", conn.first, conn.answer), conn.sent)
                    IN /\ conn = [w EXCEPT !.kind = conn.kind, !.lastPiece = conn.lastPiece]
                       /\ conn.kind = "page" <=> w.err = "success"
  BY DEF PiecesDontMatter, HadEnough
<1> DEFINE w == PageInput(Parser("page", conn.first, conn.answer), conn.sent)
           d == IF conn.kind = "page" THEN conn ELSE [conn EXCEPT !.kind = "page"]
<1>1. IsConn(conn) /\ Reading(d) /\ \A f \in Fields \ {"kind"} : d[f] = conn[f]
  <2>1. CASE conn.kind = "page"
    BY <2>1, ReadingConn DEF PagesInv
  <2>2. CASE conn.kind = "over" /\ conn.err \in HadEnough
    <3>1. IsConn(conn) /\ Reading([conn EXCEPT !.kind = "page"])
      BY <2>2 DEF PagesInv
    <3>2. d = [conn EXCEPT !.kind = "page"]
      BY <2>2
    <3>3. \A f \in Fields \ {"kind"} : [conn EXCEPT !.kind = "page"][f] = conn[f]
      BY <3>1 DEF IsConn
    <3> QED
      BY <3>1, <3>2, <3>3
  <2> QED
    BY <2>1, <2>2
<1>2. {"first", "answer", "sent", "err"} \subseteq Fields \ {"kind", "lastPiece"}
      /\ {"kind", "lastPiece"} \subseteq Fields
  BY DEF Fields
<1>3. Equals(d, w)
  <2>1. d.first = conn.first /\ d.answer = conn.answer /\ d.sent = conn.sent
    BY <1>1, <1>2
  <2> HIDE DEF d
  <2> QED
    BY <1>1, <2>1 DEF Reading, Whole
<1> HIDE DEF w, d
<1>4. /\ DOMAIN conn = Fields /\ conn = [f \in Fields |-> conn[f]]
      /\ DOMAIN w = Fields /\ \A f \in Fields \ {"kind", "lastPiece"} : w[f] = conn[f]
  BY <1>1, <1>3 DEF Equals, IsConn
<1>5. conn = [w EXCEPT !.kind = conn.kind, !.lastPiece = conn.lastPiece]
  <2> DEFINE e == [w EXCEPT !.kind = conn.kind, !.lastPiece = conn.lastPiece]
  <2>1. /\ e = [f \in Fields |-> e[f]]
        /\ e.kind = conn.kind /\ e.lastPiece = conn.lastPiece
        /\ \A f \in Fields \ {"kind", "lastPiece"} : e[f] = w[f]
    BY <1>2, <1>4
  <2> HIDE DEF e
  <2>2. \A f \in Fields : e[f] = conn[f]
    BY <1>4, <2>1
  <2> QED
    BY <1>4, <2>1, <2>2 DEF e
<1>6. w.err = conn.err
  BY <1>2, <1>4
<1>7. conn.kind = "page" => conn.err = "success"
  BY DEF PagesInv
<1>8. conn.kind # "page" => conn.err # "success"
  BY DEF HadEnough
<1> QED
  BY <1>5, <1>6, <1>7, <1>8 DEF w

\* In every behaviour, what a parser has made of a page, or of one it wants no
\* more of, is what it would have made of the same bytes in one piece: reads
\* may be cut anywhere (pipeRead, html::inputHeaders, with the posParse, area
\* and state it keeps between its calls), whatever the options, the answers,
\* the bodies, the rules of the site and the sizes of the buffers.
THEOREM PiecesJoin == Spec => []PiecesDontMatter
<1>1. Init => PagesInv
  BY PagesInit
<1>2. PagesInv /\ [Next]_vars => PagesInv'
  BY PagesStep
<1>3. PagesInv => PiecesDontMatter
  BY PagesInvMeans
<1> QED
  BY <1>1, <1>2, <1>3, PTL DEF Spec

-----------------------------------------------------------------------------
(***************************************************************************)
(* Texts: what is normalised is the file of an url or nothing.             *)
(***************************************************************************)
IsText(s) == s \in Seq(Units)
IsFile(s) == IsText(s) /\ Len(s) > 0 /\ s[1] = "/"

LEMMA TextUnits ==
    /\ {"/", ".", "#", "%2e", "%e9"} \subseteq Units /\ " " \notin Units
    /\ \A x \in DOMAIN Printable : Printable[x] \in Units
    /\ "/" \notin DOMAIN Printable
    /\ \A x \in DOMAIN Extended : Extended[x] \in Units
    /\ "/" \notin DOMAIN Extended
<1>1. {"/", ".", "#", "%2e", "%e9"} \subseteq Units /\ " " \notin Units
  BY UnitsAssumption
<1>2. \A x \in DOMAIN Printable : Printable[x] \in {"/", ".", "#", "%2e"}
  BY DEF Printable
<1>3. \A x \in DOMAIN Extended : Extended[x] = "%e9"
  BY DEF Extended
<1>4. "/" \notin DOMAIN Printable /\ "/" \notin DOMAIN Extended
  BY DEF Printable, Extended
<1> QED
  BY <1>1, <1>2, <1>3, <1>4

\* A set of numbers up to n has a greatest.
LEMMA Greatest ==
    ASSUME NEW n \in Nat, NEW T \in SUBSET (0 .. n), T # {}
    PROVE  Max(T) \in T /\ \A y \in T : Max(T) >= y
<1> DEFINE S == {m \in Nat : \A R \in SUBSET (0 .. m) :
                    R # {} => \E x \in R : \A y \in R : x >= y}
<1>1. 0 \in S
  <2>1. 0 .. 0 = {0}
    OBVIOUS
  <2>2. \A R \in SUBSET {0} : R # {} => R = {0}
    OBVIOUS
  <2> QED
    BY <2>1, <2>2
<1>2. ASSUME NEW m \in S PROVE m + 1 \in S
  <2> SUFFICES ASSUME NEW R \in SUBSET (0 .. m + 1), R # {}
               PROVE  \E x \in R : \A y \in R : x >= y
    OBVIOUS
  <2>1. m \in Nat
    OBVIOUS
  <2>2. CASE m + 1 \in R
    <3>1. \A y \in R : m + 1 >= y
      BY <2>1
    <3> QED
      BY <2>2, <3>1
  <2>3. CASE m + 1 \notin R
    <3>1. R \in SUBSET (0 .. m)
      BY <2>1, <2>3
    <3> QED
      BY <3>1
  <2> QED
    BY <2>2, <2>3
<1>3. S \subseteq Nat
  OBVIOUS
<1>4. n \in S
  <2> HIDE DEF S
  <2> QED
    BY <1>1, <1>2, <1>3, NatInduct
<1>5. \E x \in T : \A y \in T : x >= y
  BY <1>4
<1> QED
  BY <1>5 DEF Max

\* The last slash of a file.
LEMMA LastSlash ==
    ASSUME NEW s, IsFile(s)
    PROVE  /\ LastAt(s, "/") \in 1 .. Len(s) /\ s[LastAt(s, "/")] = "/"
           /\ IsFile(SubSeq(s, 1, LastAt(s, "/")))
           /\ IsText(SubSeq(s, 1, LastAt(s, "/") - 1))
           /\ LastAt(s, "/") > 1 => IsFile(SubSeq(s, 1, LastAt(s, "/") - 1))
           /\ LastAt(s, "/") = 1 => SubSeq(s, 1, LastAt(s, "/") - 1) = <<>>
<1> DEFINE T == {i \in DOMAIN s : s[i] = "/"}
           l == LastAt(s, "/")
<1>1. s \in Seq(Units) /\ Len(s) \in Nat /\ DOMAIN s = 1 .. Len(s) /\ 1 \in T
  BY DEF IsFile, IsText
<1>2. T \in SUBSET (0 .. Len(s))
  BY <1>1
<1>3. l = Max(T)
  BY DEF LastAt
<1>4. l \in T
  BY <1>1, <1>2, <1>3, Greatest
<1>5. l \in 1 .. Len(s) /\ s[l] = "/"
  BY <1>1, <1>4
<1> HIDE DEF l, T
<1>6. /\ SubSeq(s, 1, l) \in Seq(Units) /\ Len(SubSeq(s, 1, l)) = l
      /\ SubSeq(s, 1, l)[1] = s[1]
  BY <1>1, <1>5
<1>7. /\ SubSeq(s, 1, l - 1) \in Seq(Units) /\ Len(SubSeq(s, 1, l - 1)) = l - 1
      /\ l > 1 => SubSeq(s, 1, l - 1)[1] = s[1]
  BY <1>1, <1>5
<1>8. l = 1 => SubSeq(s, 1, l - 1) = <<>>
  BY <1>5, <1>7
<1> DEFINE b == SubSeq(s, 1, l)
           d == SubSeq(s, 1, l - 1)
<1>9. s[1] = "/"
  BY DEF IsFile
<1>10. IsFile(b)
  <2>1. b \in Seq(Units) /\ Len(b) = l /\ b[1] = "/"
    BY <1>6, <1>9
  <2> HIDE DEF b
  <2> QED
    BY <1>5, <2>1 DEF IsFile, IsText
<1>11. IsText(d) /\ (l > 1 => IsFile(d))
  <2>1. d \in Seq(Units) /\ Len(d) = l - 1 /\ (l > 1 => d[1] = "/")
    BY <1>7, <1>9
  <2> HIDE DEF d
  <2> QED
    BY <1>5, <2>1 DEF IsFile, IsText
<1> QED
  BY <1>5, <1>8, <1>10, <1>11 DEF l

\* What a text holds that begins with a slash and dots.
LEMMA BeginsWith ==
    ASSUME NEW s, IsText(s)
    PROVE  /\ StartWith(<<"/", "/">>, s) => Len(s) >= 2 /\ s[2] = "/"
           /\ StartWith(<<"/", ".", "/">>, s) => Len(s) >= 3 /\ s[3] = "/"
           /\ StartWith(<<"/", ".", ".", "/">>, s) => Len(s) >= 4 /\ s[4] = "/"
           /\ StartWith(<<"/">>, s) => IsFile(s)
           /\ StartWith(<<"http://">>, s) \/ StartWith(<<"http:">>, s) =>
                 Len(s) >= 1 /\ IsText(Tail(s))
<1>1. s \in Seq(Units) /\ Len(s) \in Nat
  BY DEF IsText
<1>2. \A n \in Nat : n >= 1 /\ n <= Len(s) => SubSeq(s, 1, n)[n] = s[n]
  BY <1>1
<1>3. ASSUME StartWith(<<"/", "/">>, s) PROVE Len(s) >= 2 /\ s[2] = "/"
  <2>1. Len(<<"/", "/">>) = 2 /\ SubSeq(<<"/", "/">>, 1, 2)[2] = "/"
    OBVIOUS
  <2>2. 2 <= Len(s) /\ SubSeq(<<"/", "/">>, 1, 2) = SubSeq(s, 1, 2)
    BY <1>3, <2>1 DEF StartWith, IsPrefix
  <2> QED
    BY <1>1, <1>2, <2>1, <2>2
<1>4. ASSUME StartWith(<<"/", ".", "/">>, s) PROVE Len(s) >= 3 /\ s[3] = "/"
  <2>1. Len(<<"/", ".", "/">>) = 3 /\ SubSeq(<<"/", ".", "/">>, 1, 3)[3] = "/"
    OBVIOUS
  <2>2. 3 <= Len(s) /\ SubSeq(<<"/", ".", "/">>, 1, 3) = SubSeq(s, 1, 3)
    BY <1>4, <2>1 DEF StartWith, IsPrefix
  <2> QED
    BY <1>1, <1>2, <2>1, <2>2
<1>5. ASSUME StartWith(<<"/", ".", ".", "/">>, s) PROVE Len(s) >= 4 /\ s[4] = "/"
  <2>1. Len(<<"/", ".", ".", "/">>) = 4 /\ SubSeq(<<"/", ".", ".", "/">>, 1, 4)[4] = "/"
    OBVIOUS
  <2>2. 4 <= Len(s) /\ SubSeq(<<"/", ".", ".", "/">>, 1, 4) = SubSeq(s, 1, 4)
    BY <1>5, <2>1 DEF StartWith, IsPrefix
  <2> QED
    BY <1>1, <1>2, <2>1, <2>2
<1>6. ASSUME StartWith(<<"/">>, s) PROVE IsFile(s)
  <2>1. Len(<<"/">>) = 1 /\ SubSeq(<<"/">>, 1, 1)[1] = "/"
    OBVIOUS
  <2>2. 1 <= Len(s) /\ SubSeq(<<"/">>, 1, 1) = SubSeq(s, 1, 1)
    BY <1>6, <2>1 DEF StartWith, IsPrefix
  <2> QED
    BY <1>1, <1>2, <2>1, <2>2 DEF IsFile, IsText
<1>7. ASSUME StartWith(<<"http://">>, s) \/ StartWith(<<"http:">>, s)
      PROVE  Len(s) >= 1 /\ IsText(Tail(s))
  <2>1. Len(<<"http://">>) = 1 /\ Len(<<"http:">>) = 1
    OBVIOUS
  <2>2. 1 <= Len(s)
    BY <1>7, <2>1 DEF StartWith, IsPrefix
  <2>3. s # <<>>
    BY <1>1, <2>2
  <2>4. Tail(s) \in Seq(Units)
    BY <1>1, <2>3
  <2> QED
    BY <2>2, <2>4 DEF IsText
<1> QED
  BY <1>3, <1>4, <1>5, <1>6, <1>7

\* What is left of a text.
LEMMA Rest ==
    ASSUME NEW s, IsText(s), NEW n \in Nat, n < Len(s)
    PROVE  /\ IsText(SubSeq(s, n + 1, Len(s)))
           /\ s[n + 1] = "/" => IsFile(SubSeq(s, n + 1, Len(s)))
<1>1. s \in Seq(Units) /\ Len(s) \in Nat
  BY DEF IsText
<1>2. /\ SubSeq(s, n + 1, Len(s)) \in Seq(Units)
      /\ Len(SubSeq(s, n + 1, Len(s))) = Len(s) - n
      /\ SubSeq(s, n + 1, Len(s))[1] = s[n + 1]
  BY <1>1
<1> QED
  BY <1>1, <1>2 DEF IsText, IsFile

\* A step of fileNormalize: what it has passed is a file, once it passed the
\* first slash.
Walking(w) ==
    /\ IsText(w.out) /\ IsText(w.rest)
    /\ w.out = <<>> \/ IsFile(w.out)
    /\ w.out = <<>> => w.rest = <<>> \/ IsFile(w.rest)

LEMMA TextAppend ==
    ASSUME NEW s, IsText(s), NEW x \in Units, s = <<>> => x = "/", s # <<>> => IsFile(s)
    PROVE  IsText(Append(s, x)) /\ IsFile(Append(s, x))
<1>1. s \in Seq(Units) /\ Len(s) \in Nat
  BY DEF IsText
<1>2. Append(s, x) \in Seq(Units) /\ Len(Append(s, x)) = Len(s) + 1
  BY <1>1
<1>3. CASE s = <<>>
  <2>1. Append(s, x)[1] = x
    BY <1>3
  <2> QED
    BY <1>1, <1>2, <1>3, <2>1 DEF IsText, IsFile
<1>4. CASE s # <<>>
  <2>1. Append(s, x)[1] = s[1]
    BY <1>1, <1>4 DEF IsFile
  <2> QED
    BY <1>1, <1>2, <1>4, <2>1 DEF IsText, IsFile
<1> QED
  BY <1>3, <1>4

LEMMA WalkKeeps ==
    ASSUME NEW w, Walking(w)
    PROVE  Walking(Walk(w))
<1> DEFINE out == w.out
           rest == w.rest
           after(n) == SubSeq(rest, n + 1, Len(rest))
           parent == SubSeq(out, 1, LastAt(out, "/") - 1)
           x == IF Head(rest) \in DOMAIN Printable THEN Printable[Head(rest)] ELSE Head(rest)
           to(o, r) == [out |-> o, rest |-> r]
           v == Walk(w)
<1> DEFINE C1 == rest = <<>> \/ Head(rest) = "#"
           C2 == StartWith(<<"/", ".", "/">>, rest)
           C3 == StartWith(<<"/", "/">>, rest)
           C4 == StartWith(<<"/", ".", ".", "/">>, rest) /\ out # <<>>
           C5 == rest = <<"/", ".">>
           C6 == rest = <<"/", ".", ".">> /\ out # <<>>
           C7 == StartWith(<<"/", ".", ".", "/">>, rest \o <<"/">>) /\ out = <<>>
           C8 == rest # <<>> /\ Head(rest) \in BadEscapes
<1>0. v = CASE C1 -> to(out, <<>>)
            [] C2 -> to(out, after(2))
            [] C3 -> to(out, after(1))
            [] C4 -> to(parent, after(3))
            [] C5 -> to(Append(out, "/"), <<>>)
            [] C6 -> to(Append(parent, "/"), <<>>)
            [] C7 -> to(Refused, <<>>)
            [] C8 -> to(Refused, <<>>)
            [] OTHER -> to(Append(out, x), after(1))
  BY Zenon DEF Walk
<1>1. \/ v = to(out, <<>>)
      \/ StartWith(<<"/", ".", "/">>, rest) /\ v = to(out, after(2))
      \/ StartWith(<<"/", "/">>, rest) /\ v = to(out, after(1))
      \/ StartWith(<<"/", ".", ".", "/">>, rest) /\ out # <<>> /\ v = to(parent, after(3))
      \/ rest = <<"/", ".">> /\ v = to(Append(out, "/"), <<>>)
      \/ out # <<>> /\ v = to(Append(parent, "/"), <<>>)
      \/ v = to(Refused, <<>>)
      \/ rest # <<>> /\ v = to(Append(out, x), after(1))
  <2>1. rest = <<>> => C1
    OBVIOUS
  <2> HIDE DEF v, to, after, parent, x, out, rest, C1, C2, C3, C4, C5, C6, C7, C8
  <2>2. \/ v = to(out, <<>>)
        \/ C2 /\ v = to(out, after(2))
        \/ C3 /\ v = to(out, after(1))
        \/ C4 /\ v = to(parent, after(3))
        \/ C5 /\ v = to(Append(out, "/"), <<>>)
        \/ C6 /\ v = to(Append(parent, "/"), <<>>)
        \/ v = to(Refused, <<>>)
        \/ ~C1 /\ v = to(Append(out, x), after(1))
    BY <1>0
  <2> QED
    BY <2>1, <2>2 DEF C2, C3, C4, C5, C6
<1>2. IsText(<<>>) /\ IsText(out) /\ IsText(rest) /\ {"/"} \subseteq Units
  <2>1. <<>> \in Seq(Units)
    OBVIOUS
  <2> QED
    BY <2>1, TextUnits DEF Walking, IsText
<1>3. /\ out = <<>> \/ IsFile(out)
      /\ out = <<>> => rest = <<>> \/ IsFile(rest)
  BY DEF Walking
<1>4. rest # <<>> => Len(rest) > 0 /\ Head(rest) = rest[1] /\ rest[1] \in Units
  BY <1>2 DEF IsText
<1> SUFFICES Walking(v)
  OBVIOUS
<1> HIDE DEF v, out, rest
<1>5. \A o, r : /\ IsText(o) /\ IsText(r) /\ (o = <<>> \/ IsFile(o))
                /\ o = <<>> => r = <<>> \/ IsFile(r)
                => Walking(to(o, r))
  BY DEF Walking
<1> HIDE DEF to
<1>6. CASE v = to(out, <<>>)
  BY <1>2, <1>3, <1>5, <1>6
<1>7. CASE StartWith(<<"/", ".", "/">>, rest) /\ v = to(out, after(2))
  <2>1. Len(rest) >= 3 /\ rest[3] = "/"
    BY <1>2, <1>7, BeginsWith
  <2>2. IsFile(after(2))
    <3>1. Len(rest) \in Nat
      BY <1>2 DEF IsText
    <3>2. 2 \in Nat /\ 2 < Len(rest) /\ rest[2 + 1] = "/"
      BY <2>1, <3>1
    <3> QED
      BY <1>2, <3>2, Rest
  <2> HIDE DEF after
  <2> QED
    BY <1>2, <1>3, <1>5, <1>7, <2>2 DEF IsFile
<1>8. CASE StartWith(<<"/", "/">>, rest) /\ v = to(out, after(1))
  <2>1. Len(rest) >= 2 /\ rest[2] = "/"
    BY <1>2, <1>8, BeginsWith
  <2>2. IsFile(after(1))
    <3>1. Len(rest) \in Nat
      BY <1>2 DEF IsText
    <3>2. 1 \in Nat /\ 1 < Len(rest) /\ rest[1 + 1] = "/"
      BY <2>1, <3>1
    <3> QED
      BY <1>2, <3>2, Rest
  <2> HIDE DEF after
  <2> QED
    BY <1>2, <1>3, <1>5, <1>8, <2>2 DEF IsFile
<1>9. out # <<>> => /\ IsText(parent) /\ (parent = <<>> \/ IsFile(parent))
  <2> SUFFICES ASSUME out # <<>> PROVE IsText(parent) /\ (parent = <<>> \/ IsFile(parent))
    OBVIOUS
  <2>1. IsFile(out)
    BY <1>3
  <2>2. LastAt(out, "/") \in 1 .. Len(out) /\ Len(out) \in Nat
    BY <2>1, LastSlash DEF IsFile, IsText
  <2>3. LastAt(out, "/") > 1 \/ LastAt(out, "/") = 1
    BY <2>2
  <2> QED
    BY <2>1, <2>3, LastSlash
<1>10. CASE StartWith(<<"/", ".", ".", "/">>, rest) /\ out # <<>> /\ v = to(parent, after(3))
  <2>1. Len(rest) >= 4 /\ rest[4] = "/"
    BY <1>2, <1>10, BeginsWith
  <2>2. IsFile(after(3))
    <3>1. Len(rest) \in Nat
      BY <1>2 DEF IsText
    <3>2. 3 \in Nat /\ 3 < Len(rest) /\ rest[3 + 1] = "/"
      BY <2>1, <3>1
    <3> QED
      BY <1>2, <3>2, Rest
  <2> HIDE DEF after, parent
  <2> QED
    BY <1>9, <1>5, <1>10, <2>2 DEF IsFile
<1>11. \A o : IsText(o) /\ (o = <<>> \/ IsFile(o)) => Walking(to(Append(o, "/"), <<>>))
  <2> TAKE o
  <2> HAVE IsText(o) /\ (o = <<>> \/ IsFile(o))
  <2>1. IsText(Append(o, "/")) /\ IsFile(Append(o, "/"))
    BY <1>2, TextAppend
  <2> QED
    BY <1>2, <1>5, <2>1
<1>12. CASE rest = <<"/", ".">> /\ v = to(Append(out, "/"), <<>>)
  BY <1>2, <1>3, <1>11, <1>12
<1>13. CASE out # <<>> /\ v = to(Append(parent, "/"), <<>>)
  <2> HIDE DEF parent
  <2> QED
    BY <1>9, <1>11, <1>13
<1>14. CASE v = to(Refused, <<>>)
  BY <1>2, <1>5, <1>14 DEF Refused
<1>15. CASE rest # <<>> /\ v = to(Append(out, x), after(1))
  <2>1. x \in Units
    BY <1>4, <1>15, TextUnits
  <2>2. out = <<>> => x = "/"
    BY <1>3, <1>4, <1>15, TextUnits DEF IsFile
  <2> HIDE DEF x
  <2>3. IsText(Append(out, x)) /\ IsFile(Append(out, x))
    BY <1>2, <1>3, <2>1, <2>2, TextAppend
  <2>4. IsText(after(1))
    <3>1. Len(rest) \in Nat /\ Len(rest) > 0 /\ rest \in Seq(Units)
      BY <1>2, <1>4, <1>15 DEF IsText
    <3>2. SubSeq(rest, 1 + 1, Len(rest)) \in Seq(Units)
      BY <3>1
    <3> QED
      BY <3>2 DEF IsText
  <2>5. Append(out, x) # <<>>
    BY <2>3 DEF IsFile
  <2> DEFINE o == Append(out, x)
             r == after(1)
  <2> HIDE DEF o, r
  <2>6. IsText(o) /\ IsFile(o) /\ IsText(r) /\ o # <<>>
    BY <2>3, <2>4, <2>5 DEF o, r
  <2>7. Walking(to(o, r))
    BY <1>5, <2>6
  <2> QED
    BY <1>15, <2>7 DEF o, r
<1> HIDE DEF after, parent, x
<1> QED
  BY <1>1, <1>6, <1>7, <1>8, <1>10, <1>12, <1>13, <1>14, <1>15

\* The steps of fileNormalize, one after the other.
Walks(f, file, n) ==
    f = [k \in 0 .. n |-> IF k = 0 THEN [out |-> <<>>, rest |-> file] ELSE Walk(f[k - 1])]

LEMMA WalksExist ==
    ASSUME NEW file, NEW n \in Nat
    PROVE  \E f : Walks(f, file, n)
<1> DEFINE first == [out |-> <<>>, rest |-> file]
           S == {m \in Nat : \E f : Walks(f, file, m)}
<1>1. 0 \in S
  <2>1. Walks([k \in 0 .. 0 |-> first], file, 0)
    BY DEF Walks
  <2> QED
    BY <2>1
<1>2. ASSUME NEW m \in S PROVE m + 1 \in S
  <2>1. PICK f : Walks(f, file, m)
    OBVIOUS
  <2>2. m \in Nat
    OBVIOUS
  <2> DEFINE g == [k \in 0 .. m + 1 |-> IF k = m + 1 THEN Walk(f[m]) ELSE f[k]]
  <2>3. \A k \in 0 .. m : f[k] = IF k = 0 THEN first ELSE Walk(f[k - 1])
    BY <2>1 DEF Walks
  <2> HIDE DEF first
  <2>4. ASSUME NEW k \in 0 .. m + 1
        PROVE  g[k] = IF k = 0 THEN first ELSE Walk(g[k - 1])
    <3>1. CASE k = m + 1
      <4>1. k # 0 /\ k - 1 = m /\ m \in 0 .. m + 1 /\ m # m + 1
        BY ONLY <2>2, <3>1
      <4>2. g[k - 1] = f[m]
        BY <4>1
      <4> QED
        BY <3>1, <4>1, <4>2
    <3>2. CASE k # m + 1
      <4>1. k \in 0 .. m
        BY <2>2, <3>2
      <4>2. g[k] = f[k]
        BY <3>2
      <4>3. k # 0 => g[k - 1] = f[k - 1]
        <5>1. k # 0 => k - 1 \in 0 .. m + 1 /\ k - 1 # m + 1
          BY <2>2, <4>1
        <5> QED
          BY <5>1
      <4> QED
        BY <2>3, <4>1, <4>2, <4>3
    <3> QED
      BY <3>1, <3>2
  <2>5. g = [k \in 0 .. m + 1 |-> IF k = 0 THEN first ELSE Walk(g[k - 1])]
    <3>1. g = [k \in 0 .. m + 1 |-> g[k]]
      OBVIOUS
    <3> HIDE DEF g
    <3> QED
      BY <2>4, <3>1
  <2>6. Walks(g, file, m + 1)
    <3> HIDE DEF g
    <3> QED
      BY <2>5 DEF Walks, first
  <2>7. m + 1 \in Nat
    BY <2>2
  <2> HIDE DEF g
  <2> QED
    BY <2>6, <2>7
<1>3. S \subseteq Nat
  OBVIOUS
<1> HIDE DEF S
<1>4. n \in S
  BY <1>1, <1>2, <1>3, NatInduct
<1> QED
  BY <1>4 DEF S

\* What fileNormalize makes of a file is a file, or it is refused.
LEMMA NormalForm ==
    ASSUME NEW file, IsFile(file)
    PROVE  FileNormalize(file) = Refused \/ IsFile(FileNormalize(file))
<1>1. IsText(file) /\ Len(file) \in Nat
  BY DEF IsFile, IsText
<1>2. PICK f : Walks(f, file, Len(file)) /\ FileNormalize(file) = f[Len(file)].out
  <2>1. FileNormalize(file) = (CHOOSE f : Walks(f, file, Len(file)))[Len(file)].out
    BY DEF FileNormalize, Walks
  <2>2. \E f : Walks(f, file, Len(file))
    BY <1>1, WalksExist
  <2> QED
    BY <2>1, <2>2
<1> DEFINE S == {m \in Nat : m <= Len(file) => Walking(f[m])}
<1>3. \A k \in 0 .. Len(file) :
         f[k] = IF k = 0 THEN [out |-> <<>>, rest |-> file] ELSE Walk(f[k - 1])
  BY <1>2 DEF Walks
<1>4. 0 \in S
  <2>1. f[0] = [out |-> <<>>, rest |-> file]
    BY <1>1, <1>3
  <2>2. IsText(<<>>)
    <3>1. <<>> \in Seq(Units)
      OBVIOUS
    <3> QED
      BY <3>1 DEF IsText
  <2>3. f[0].out = <<>> /\ f[0].rest = file
    BY <2>1
  <2>4. Walking(f[0])
    BY <1>1, <2>2, <2>3 DEF Walking
  <2> QED
    BY <2>4
<1>5. ASSUME NEW m \in S PROVE m + 1 \in S
  <2> SUFFICES ASSUME m + 1 <= Len(file) PROVE Walking(f[m + 1])
    OBVIOUS
  <2>1. m \in Nat /\ m + 1 \in 0 .. Len(file) /\ m + 1 # 0 /\ (m + 1) - 1 = m /\ m <= Len(file)
    BY <1>1
  <2>2. Walking(f[m])
    BY <2>1
  <2>3. f[m + 1] = Walk(f[m])
    BY <1>3, <2>1
  <2> QED
    BY <2>2, <2>3, WalkKeeps
<1>6. S \subseteq Nat
  OBVIOUS
<1> HIDE DEF S
<1>7. Len(file) \in S
  BY <1>1, <1>4, <1>5, <1>6, NatInduct
<1>8. Walking(f[Len(file)])
  <2>1. Len(file) <= Len(file)
    BY <1>1
  <2> QED
    BY <1>7, <2>1 DEF S
<1> QED
  BY <1>2, <1>8 DEF Walking, Refused

LEMMA NormalFile ==
    ASSUME NEW file, IsFile(file)
    PROVE  Normalize(file) = Refused \/ IsFile(Normalize(file))
<1> DEFINE s == FileNormalize(file)
           e == [i \in DOMAIN s |-> IF s[i] \in DOMAIN Extended THEN Extended[s[i]] ELSE s[i]]
<1>1. Normalize(file) = e
  BY DEF Normalize, Escaped
<1>2. s = <<>> \/ IsFile(s)
  BY NormalForm DEF Refused
<1> HIDE DEF s
<1>3. CASE s = <<>>
  <2>1. DOMAIN s = {}
    BY <1>3
  <2>2. e = [i \in {} |-> s[i]]
    BY <2>1
  <2>3. e = <<>>
    BY <2>2
  <2> QED
    BY <1>1, <2>3 DEF Refused
<1>4. CASE IsFile(s)
  <2>1. s \in Seq(Units) /\ Len(s) \in Nat /\ Len(s) > 0 /\ s[1] = "/" /\ DOMAIN s = 1 .. Len(s)
    BY <1>4 DEF IsFile, IsText
  <2>2. \A i \in 1 .. Len(s) :
           (IF s[i] \in DOMAIN Extended THEN Extended[s[i]] ELSE s[i]) \in Units
    <3>1. \A x \in DOMAIN Extended : Extended[x] \in Units
      BY TextUnits
    <3>2. \A x : x \in Units =>
             (IF x \in DOMAIN Extended THEN Extended[x] ELSE x) \in Units
      BY ONLY <3>1
    <3>3. \A i \in 1 .. Len(s) : s[i] \in Units
      BY <2>1
    <3> QED
      BY ONLY <3>2, <3>3
  <2>3. e \in [1 .. Len(s) -> Units]
    BY <2>1, <2>2
  <2>4. e \in Seq(Units) /\ Len(e) = Len(s)
    BY <2>1, <2>3
  <2>5. e[1] = "/"
    <3>1. "/" \notin DOMAIN Extended
      BY TextUnits
    <3>2. 1 \in DOMAIN s /\ s[1] = "/"
      BY <2>1
    <3> QED
      BY ONLY <3>1, <3>2
  <2> HIDE DEF e
  <2> QED
    BY <1>1, <2>1, <2>4, <2>5 DEF IsFile, IsText
<1> QED
  BY <1>2, <1>3, <1>4

\* An url that was read and has no cookie yet.
UrlFields == {"host", "port", "file", "depth", "cookie"}
IsUrl(u) == u = [f \in UrlFields |-> u[f]] /\ (u.file = <<>> \/ IsFile(u.file))
Written(u) == IsUrl(u) /\ u.cookie = <<>>

LEMMA UrlIs ==
    ASSUME NEW host, NEW port, NEW file, NEW depth, file = <<>> \/ IsFile(file)
    PROVE  LET u == Url(host, port, file, depth)
           IN Written(u) /\ u.host = host /\ u.file = file
<1> DEFINE u == Url(host, port, file, depth)
<1>1. u.host = host /\ u.file = file /\ u.cookie = <<>>
  BY DEF Url
<1>2. DOMAIN u = UrlFields /\ u = [f \in DOMAIN u |-> u[f]]
  BY DEF Url, UrlFields
<1> HIDE DEF u
<1>3. Written(u)
  BY <1>1, <1>2 DEF Written, IsUrl
<1> QED
  BY <1>1, <1>3 DEF u

LEMMA NoUrlIs == \A depth : Written(NoUrl(depth))
BY UrlIs DEF NoUrl

LEMMA WithFileIs ==
    ASSUME NEW u, Written(u), NEW file, u.host # None => file = Refused \/ IsFile(file)
    PROVE  Written(WithFile(u, file))
<1>1. CASE u.host = None \/ file = Refused
  BY <1>1, NoUrlIs DEF WithFile
<1>2. CASE u.host # None /\ file # Refused
  <2> DEFINE e == [u EXCEPT !.file = file]
  <2>1. WithFile(u, file) = e /\ IsFile(file)
    BY <1>2 DEF WithFile
  <2>2. DOMAIN u = UrlFields /\ {"file", "cookie"} \subseteq UrlFields
    BY DEF Written, IsUrl, UrlFields
  <2>3. e = [f \in UrlFields |-> e[f]] /\ e.file = file /\ e.cookie = u.cookie
    BY <2>2
  <2> HIDE DEF e
  <2> QED
    BY <2>1, <2>3 DEF Written, IsUrl
<1> QED
  BY <1>1, <1>2

LEMMA ParseIs ==
    ASSUME NEW text, IsText(text), NEW depth
    PROVE  LET u == Parse(text, depth)
           IN Written(u) /\ (u.host = None \/ IsFile(u.file))
<1>1. CASE text = <<>> \/ Head(text) \notin DOMAIN Lower
  <2>1. Parse(text, depth) = NoUrl(depth)
    BY <1>1 DEF Parse
  <2>2. NoUrl(depth).host = None
    BY UrlIs DEF NoUrl
  <2> QED
    BY <2>1, <2>2, NoUrlIs
<1>2. CASE ~(text = <<>> \/ Head(text) \notin DOMAIN Lower)
  <2> DEFINE named == Len(text) > 1 /\ text[2] \in DOMAIN PortOf
             file == SubSeq(text, IF named THEN 3 ELSE 2, Len(text))
             port == IF named THEN PortOf[text[2]] ELSE 80
             put == IF StartWith(<<"/">>, file) THEN file ELSE <<"/">>
  <2>1. Parse(text, depth) = Url(Lower[Head(text)], port, put, depth)
    BY <1>2 DEF Parse
  <2>2. text \in Seq(Units) /\ Len(text) \in Nat
    BY DEF IsText
  <2>3. SubSeq(text, 3, Len(text)) \in Seq(Units) /\ SubSeq(text, 2, Len(text)) \in Seq(Units)
    BY <2>2
  <2> HIDE DEF named
  <2>4. IsText(file)
    BY <2>3 DEF IsText
  <2> HIDE DEF file
  <2>5. IsFile(<<"/">>)
    <3>1. "/" \in Units
      BY TextUnits
    <3>2. <<"/">> \in Seq(Units) /\ Len(<<"/">>) > 0 /\ <<"/">>[1] = "/"
      BY ONLY <3>1
    <3> QED
      BY <3>2 DEF IsFile, IsText
  <2>6. IsFile(put)
    BY <2>4, <2>5, BeginsWith
  <2> HIDE DEF put, port
  <2> QED
    BY <2>1, <2>6, UrlIs
<1> QED
  BY <1>1, <1>2

LEMMA AbsoluteIs ==
    ASSUME NEW text, IsText(Tail(text)), NEW depth
    PROVE  Written(Absolute(text, depth))
<1> DEFINE u == Parse(Tail(text), depth)
<1>1. Absolute(text, depth) = WithFile(u, Normalize(u.file))
  BY DEF Absolute
<1>2. Written(u) /\ (u.host = None \/ IsFile(u.file))
  BY ParseIs
<1> HIDE DEF u
<1>3. u.host # None => Normalize(u.file) = Refused \/ IsFile(Normalize(u.file))
  BY <1>2, NormalFile
<1> QED
  BY <1>1, <1>2, <1>3, WithFileIs

LEMMA ParseWithBaseIs ==
    ASSUME NEW text, IsText(text), NEW depth, NEW from, IsFile(from.file)
    PROVE  Written(ParseWithBase(text, depth, from))
<1> DEFINE u == Url(from.host, from.port, <<>>, depth)
           file == IF StartWith(<<"/">>, text) THEN text ELSE from.file \o text
<1>1. ParseWithBase(text, depth, from) = WithFile(u, Normalize(file))
  BY DEF ParseWithBase
<1>2. Written(u)
  BY UrlIs
<1>3. IsFile(file)
  <2>1. StartWith(<<"/">>, text) => IsFile(text)
    BY BeginsWith
  <2>2. IsFile(from.file \o text)
    <3> DEFINE s == from.file
    <3>1. s \in Seq(Units) /\ Len(s) \in Nat /\ Len(s) > 0 /\ s[1] = "/"
      BY DEF IsFile, IsText
    <3>2. text \in Seq(Units) /\ Len(text) \in Nat
      BY DEF IsText
    <3> HIDE DEF s
    <3>3. s \o text \in Seq(Units) /\ Len(s \o text) = Len(s) + Len(text)
          /\ (s \o text)[1] = s[1]
      BY <3>1, <3>2
    <3>4. IsFile(s \o text)
      BY <3>1, <3>2, <3>3 DEF IsFile, IsText
    <3> QED
      BY <3>4 DEF s
  <2> QED
    BY <2>1, <2>2
<1> HIDE DEF u, file
<1>4. Normalize(file) = Refused \/ IsFile(Normalize(file))
  BY <1>3, NormalFile
<1> QED
  BY <1>1, <1>2, <1>4, WithFileIs

\* The url of a link and that of a client.
LEMMA LinkIs ==
    ASSUME NEW text, IsText(text), NEW depth, NEW from, from = None \/ IsFile(from.file)
    PROVE  Written(UrlOf(text, depth, from)) /\ Written(InputUrl(text, depth))
<1>1. ASSUME StartWith(<<"http://">>, text) PROVE Written(Absolute(text, depth))
  BY <1>1, BeginsWith, AbsoluteIs
<1>2. Written(NoUrl(depth))
  BY NoUrlIs
<1>3. ASSUME from # None
      PROVE  Written(ParseWithBase(IF StartWith(<<"http:">>, text) THEN Tail(text) ELSE text,
                                   depth, from))
  <2> DEFINE s == IF StartWith(<<"http:">>, text) THEN Tail(text) ELSE text
  <2>1. IsText(s)
    BY BeginsWith
  <2> HIDE DEF s
  <2>2. Written(ParseWithBase(s, depth, from))
    BY <1>3, <2>1, ParseWithBaseIs
  <2> QED
    BY <2>2 DEF s
<1>4. Written(InputUrl(text, depth))
  BY <1>1, <1>2 DEF InputUrl
<1>5. Written(UrlOf(text, depth, from))
  BY <1>1, <1>2, <1>3 DEF UrlOf
<1> QED
  BY <1>4, <1>5

-----------------------------------------------------------------------------
(***************************************************************************)
(* What a page offers to the crawl: files, with the cookies of their host. *)
(***************************************************************************)
Cookies(u) == u.cookie \in Seq({u.host, "; "})
OfferOK(o, host) ==
    /\ IsUrl(o.url) /\ IsFile(o.url.file) /\ Cookies(o.url)
    /\ opt.lockSite /\ o.why = "success" => o.url.host = host
OffersOK(s, host) == \E X : s \in Seq(X) /\ \A o \in X : OfferOK(o, host)
HereOK(u, host) == {"host", "cookie"} \subseteq DOMAIN u /\ u.host = host /\ Cookies(u)
BaseOK(base) == base = None \/ IsFile(base.file)
Good(c, host) ==
    IsConn(c) /\ HereOK(c.here, host) /\ BaseOK(c.base) /\ OffersOK(c.offered, host)

LEMMA GoodChange ==
    ASSUME NEW c, NEW host, Good(c, host), NEW v
    PROVE  /\ \A f \in Fields \ {"here", "base", "offered"} : Good([c EXCEPT ![f] = v], host)
           /\ HereOK(v, host) => Good([c EXCEPT !.here = v], host)
           /\ BaseOK(v) => Good([c EXCEPT !.base = v], host)
           /\ OffersOK(v, host) => Good([c EXCEPT !.offered = v], host)
<1>1. DOMAIN c = Fields /\ {"here", "base", "offered"} \subseteq Fields
  BY DEF Good, IsConn, Fields
<1>2. ASSUME NEW f \in Fields
      PROVE  LET e == [c EXCEPT ![f] = v]
             IN IsConn(e) /\ e[f] = v /\ \A g \in Fields \ {f} : e[g] = c[g]
  <2> DEFINE e == [c EXCEPT ![f] = v]
  <2>1. e = [g \in Fields |-> e[g]] /\ e[f] = v /\ \A g \in Fields \ {f} : e[g] = c[g]
    BY <1>1
  <2> QED
    BY <2>1 DEF IsConn
<1>3. HereOK(c.here, host) /\ BaseOK(c.base) /\ OffersOK(c.offered, host)
  BY DEF Good
<1>4. ASSUME NEW f \in Fields \ {"here", "base", "offered"} PROVE Good([c EXCEPT ![f] = v], host)
  <2> DEFINE e == [c EXCEPT ![f] = v]
  <2>1. IsConn(e) /\ \A g \in Fields \ {f} : e[g] = c[g]
    BY <1>2
  <2> HIDE DEF e
  <2>2. e.here = c.here /\ e.base = c.base /\ e.offered = c.offered
    BY <1>1, <2>1
  <2>3. Good(e, host)
    BY <1>3, <2>1, <2>2 DEF Good
  <2> QED
    BY <2>3 DEF e
<1>5. ASSUME HereOK(v, host) PROVE Good([c EXCEPT !.here = v], host)
  <2> DEFINE e == [c EXCEPT !["here"] = v]
  <2>1. IsConn(e) /\ e.here = v /\ \A g \in Fields \ {"here"} : e[g] = c[g]
    BY <1>1, <1>2
  <2> HIDE DEF e
  <2>2. e.base = c.base /\ e.offered = c.offered
    BY <1>1, <2>1
  <2>3. Good(e, host)
    BY <1>3, <1>5, <2>1, <2>2 DEF Good
  <2> QED
    BY <2>3 DEF e
<1>6. ASSUME BaseOK(v) PROVE Good([c EXCEPT !.base = v], host)
  <2> DEFINE e == [c EXCEPT !["base"] = v]
  <2>1. IsConn(e) /\ e.base = v /\ \A g \in Fields \ {"base"} : e[g] = c[g]
    BY <1>1, <1>2
  <2> HIDE DEF e
  <2>2. e.here = c.here /\ e.offered = c.offered
    BY <1>1, <2>1
  <2>3. Good(e, host)
    BY <1>3, <1>6, <2>1, <2>2 DEF Good
  <2> QED
    BY <2>3 DEF e
<1>7. ASSUME OffersOK(v, host) PROVE Good([c EXCEPT !.offered = v], host)
  <2> DEFINE e == [c EXCEPT !["offered"] = v]
  <2>1. IsConn(e) /\ e.offered = v /\ \A g \in Fields \ {"offered"} : e[g] = c[g]
    BY <1>1, <1>2
  <2> HIDE DEF e
  <2>2. e.base = c.base /\ e.here = c.here
    BY <1>1, <2>1
  <2>3. Good(e, host)
    BY <1>3, <1>7, <2>1, <2>2 DEF Good
  <2> QED
    BY <2>3 DEF e
<1> QED
  BY <1>4, <1>5, <1>6, <1>7

\* An url that is offered keeps its file, and has the cookies of its host.
LEMMA InitOKIs ==
    ASSUME NEW u, Written(u), IsFile(u.file), NEW from, NEW host, HereOK(from, host)
    PROVE  OfferOK(InitOK(u, from), host)
<1> DEFINE other == from.host # u.host
           depth == IF other /\ opt.depthBySite THEN DepthInSite ELSE u.depth
           cookie == IF ~other /\ opt.useCookies THEN from.cookie ELSE u.cookie
           v == [u EXCEPT
                   !.depth = IF other /\ opt.depthBySite THEN DepthInSite ELSE @,
                   !.cookie = IF ~other /\ opt.useCookies THEN from.cookie ELSE @]
           o == InitOK(u, from)
<1>1. DOMAIN u = UrlFields /\ {"depth", "cookie", "host", "file", "port"} \subseteq UrlFields
      /\ u.cookie = <<>>
  BY DEF Written, IsUrl, UrlFields
<1>2. /\ v = [f \in UrlFields |-> v[f]] /\ v.host = u.host /\ v.file = u.file
      /\ v.cookie = cookie
  BY <1>1
<1>3. o.url = v
  BY DEF InitOK
<1>4. other /\ opt.lockSite => o.why = "outSite"
  BY DEF InitOK
<1> HIDE DEF v
<1>5. cookie \in Seq({v.host, "; "})
  <2>1. CASE ~other /\ opt.useCookies
    BY <1>2, <2>1 DEF HereOK, Cookies
  <2>2. CASE other \/ ~opt.useCookies
    <3>1. cookie = <<>>
      BY <1>1, <2>2
    <3>2. <<>> \in Seq({v.host, "; "})
      OBVIOUS
    <3> QED
      BY <3>1, <3>2
  <2> QED
    BY <2>1, <2>2
<1> HIDE DEF cookie
<1>6. IsUrl(v) /\ IsFile(v.file) /\ Cookies(v)
  BY <1>2, <1>5 DEF IsUrl, Cookies
<1>7. opt.lockSite /\ o.why = "success" => v.host = host
  BY <1>2, <1>4 DEF HereOK
<1> HIDE DEF o
<1> QED
  BY <1>3, <1>6, <1>7 DEF OfferOK, o

LEMMA ManageKeeps ==
    ASSUME NEW c, NEW host, Good(c, host), NEW u, Written(u), NEW r
    PROVE  Good(ManageUrl(c, u, r), host)
<1> DEFINE o == InitOK(u, c.here)
           v == Append(c.offered, o)
<1>1. \/ ManageUrl(c, u, r) = c
      \/ IsValid(u) /\ ManageUrl(c, u, r) = [c EXCEPT !.offered = v]
  BY DEF ManageUrl
<1>2. ASSUME IsValid(u) PROVE OfferOK(o, host)
  <2>1. IsFile(u.file)
    BY <1>2 DEF IsValid, Written, IsUrl
  <2> QED
    BY <2>1, InitOKIs DEF Good
<1>3. ASSUME IsValid(u) PROVE OffersOK(v, host)
  <2>1. PICK X : c.offered \in Seq(X) /\ \A x \in X : OfferOK(x, host)
    BY DEF Good, OffersOK
  <2> HIDE DEF o
  <2>2. c.offered \in Seq(X \cup {o})
    BY <2>1
  <2>3. v \in Seq(X \cup {o})
    BY <2>2
  <2>4. \A x \in X \cup {o} : OfferOK(x, host)
    BY <1>2, <1>3, <2>1
  <2> QED
    BY <2>3, <2>4 DEF OffersOK
<1> HIDE DEF v
<1>4. OffersOK(v, host) => Good([c EXCEPT !.offered = v], host)
  BY GoodChange
<1> QED
  BY <1>1, <1>3, <1>4

\* A cookie is put after the others, and cut.
LEMMA CookieMade ==
    ASSUME NEW S, NEW cookie, cookie \in Seq(S), NEW value, value \in S, NEW end, end \in S
    PROVE  LET whole == IF cookie = <<>> THEN <<value>> ELSE cookie \o <<end>> \o <<value>>
           IN SubSeq(whole, 1, Min({Len(whole), MaxCookie - 1})) \in Seq(S)
<1> DEFINE whole == IF cookie = <<>> THEN <<value>> ELSE cookie \o <<end>> \o <<value>>
           n == Min({Len(whole), MaxCookie - 1})
<1>1. whole \in Seq(S)
  <2>1. <<end>> \in Seq(S) /\ <<value>> \in Seq(S)
    OBVIOUS
  <2>2. cookie \o <<end>> \o <<value>> \in Seq(S)
    BY <2>1
  <2> QED
    BY <2>1, <2>2
<1> HIDE DEF whole
<1>2. n \in Nat /\ n <= Len(whole)
  <2> DEFINE l == Len(whole)
             m == MaxCookie - 1
  <2>1. l \in Nat /\ m \in Nat
    BY <1>1, UrlConstants
  <2> HIDE DEF l, m
  <2>2. l \in Int /\ m \in Int
    BY ONLY <2>1
  <2>3. Min({l, m}) = IF l <= m THEN l ELSE m
    BY ONLY <2>2, MinMax
  <2>4. Min({l, m}) \in Nat /\ Min({l, m}) <= l
    BY ONLY <2>1, <2>3
  <2> QED
    BY <2>4 DEF l, m
<1> HIDE DEF n
<1>3. SubSeq(whole, 1, n) \in Seq(S)
  BY <1>1, <1>2
<1> QED
  BY <1>3 DEF whole, n

LEMMA CookieIs ==
    ASSUME NEW host, NEW cookie, cookie \in Seq({host, "; "})
    PROVE  AddCookie(cookie, <<host>>) \in Seq({host, "; "})
<1>1. host \in {host, "; "} /\ "; " \in {host, "; "}
  OBVIOUS
<1> QED
  BY <1>1, CookieMade DEF AddCookie

\* Of the lines of a header, and before them the first of the answer.
LineOK(line) == IsText(line.text)
LEMMA HeaderGood ==
    ASSUME NEW c, NEW host, Good(c, host), NEW line, LineOK(line)
    PROVE  /\ Good(ParseCmdline(c), host)
           /\ Good(ParseHeader(c, line), host)
           /\ Good(ParseHeader30X(c, line), host)
<1> DEFINE OK(e) == Good(e, host)
<1>1. \A v : OK([c EXCEPT !.state = v]) /\ OK([c EXCEPT !.err = v])
             /\ OK([c EXCEPT !.interesting = v])
  <2> TAKE v
  <2>1. {"state", "err", "interesting"} \subseteq Fields \ {"here", "base", "offered"}
    BY DEF Fields
  <2>2. \A f \in Fields \ {"here", "base", "offered"} : OK([c EXCEPT ![f] = v])
    BY GoodChange
  <2> QED
    BY <2>1, <2>2
<1>2. OK(c)
  OBVIOUS
<1>3. OK(ParseCmdline(c))
  <2> HIDE DEF OK
  <2> QED
    BY <1>1 DEF ParseCmdline
<1>4. OK(ParseHeader(c, line))
  <2> DEFINE put == [c.here EXCEPT !.cookie = AddCookie(@, <<c.here.host>>)]
             html == IF opt.specificSearch /\ c.interesting THEN "SPECIFIC" ELSE "HTML"
  <2>1. HereOK(put, host)
    <3> DEFINE h == c.here
               cookie == AddCookie(h.cookie, <<h.host>>)
    <3>1. HereOK(h, host)
      BY DEF Good
    <3>2. cookie \in Seq({h.host, "; "})
      BY <3>1, CookieIs DEF HereOK, Cookies
    <3> HIDE DEF h, cookie
    <3> DEFINE p == [h EXCEPT !.cookie = cookie]
    <3>3. DOMAIN p = DOMAIN h /\ p.host = h.host /\ p.cookie = cookie
      BY <3>1 DEF HereOK
    <3>4. p = put
      BY DEF h, cookie
    <3> HIDE DEF p
    <3>5. HereOK(p, host)
      BY <3>1, <3>2, <3>3 DEF HereOK, Cookies
    <3> QED
      BY <3>4, <3>5
  <2>2. OK([c EXCEPT !.here = put])
    BY <2>1, GoodChange
  <2>3. OK([c EXCEPT !.here.cookie = AddCookie(@, <<c.here.host>>)])
    BY <2>2
  <2>4. OK([c EXCEPT !.state = html])
    BY <1>1
  <2> HIDE DEF OK
  <2> QED
    BY <1>1, <1>2, <2>3, <2>4 DEF ParseHeader
<1>5. OK(ParseHeader30X(c, line))
  <2> DEFINE m == ManageUrl(c, UrlOf(line.text, c.here.depth, c.base), TRUE)
  <2>1. OK(m)
    <3>1. Written(UrlOf(line.text, c.here.depth, c.base))
      BY LinkIs DEF LineOK, Good, BaseOK
    <3> QED
      BY <3>1, ManageKeeps
  <2> HIDE DEF m
  <2>2. OK([m EXCEPT !.err = "err30X"])
    <3>1. "err" \in Fields \ {"here", "base", "offered"}
      BY DEF Fields
    <3> QED
      BY <2>1, <3>1, GoodChange
  <2> HIDE DEF OK
  <2> QED
    BY <1>1, <1>2, <2>2 DEF ParseHeader30X, m
<1> QED
  BY <1>3, <1>4, <1>5

LEMMA LineGood ==
    ASSUME NEW c, NEW host, Good(c, host), c.state \in States, NEW i,
           c.state = "ANSWER" \/ LineOK(c.answer.headers[i - 1])
    PROVE  Good(ReadLine(c, i), host)
<1>1. CASE c.err # "success" \/ c.state \in {"HTML", "SPECIFIC"}
  BY <1>1 DEF ReadLine
<1>2. CASE c.err = "success" /\ c.state = "ANSWER"
  <2> DEFINE line == [text |-> <<>>]
  <2>1. LineOK(line)
    <3>1. line.text = <<>> /\ <<>> \in Seq(Units)
      OBVIOUS
    <3> QED
      BY <3>1 DEF LineOK, IsText
  <2>2. Good(ParseCmdline(c), host)
    BY <2>1, HeaderGood
  <2> QED
    BY <1>2, <2>2 DEF ReadLine
<1>3. CASE c.err = "success" /\ c.state \in {"HEADERS", "HEADERS30X"}
  <2> DEFINE line == c.answer.headers[i - 1]
  <2>1. LineOK(line)
    BY <1>3
  <2>2. ReadLine(c, i) = ParseHeader(c, line) \/ ReadLine(c, i) = ParseHeader30X(c, line)
    BY <1>3 DEF ReadLine
  <2> HIDE DEF line
  <2>3. Good(ParseHeader(c, line), host) /\ Good(ParseHeader30X(c, line), host)
    BY <2>1, HeaderGood
  <2> QED
    BY <2>2, <2>3
<1> QED
  BY <1>1, <1>2, <1>3 DEF States

\* What comes from the queue, and what is asked for it.
UrlOK(u) == HereOK(u, u.host) /\ IsFile(u.file)
AnswerOK(answer) ==
    /\ Len(answer.headers) \in Nat
    /\ \A k \in 1 .. Len(answer.headers) : LineOK(answer.headers[k])

LEMMA ParserGood ==
    ASSUME NEW u, UrlOK(u), NEW answer
    PROVE  Good(Parser("page", u, answer), u.host)
<1> DEFINE p == Parser("page", u, answer)
           file == SubSeq(u.file, 1, LastAt(u.file, "/"))
<1>1. IsConn(p)
  BY AtStart
<1>2. p.here = u /\ p.base = GiveBase(u) /\ p.offered = <<>>
  BY DEF Parser
<1> HIDE DEF p
<1>3. IsFile(file)
  BY LastSlash DEF UrlOK
<1> HIDE DEF file
<1>4. GiveBase(u) = Url(u.host, u.port, file, 0)
  BY DEF GiveBase, file
<1>5. IsFile(GiveBase(u).file)
  BY <1>3, <1>4, UrlIs
<1>6. OffersOK(<<>>, u.host)
  <2> DEFINE X == {}
  <2>1. <<>> \in Seq(X) /\ \A o \in X : OfferOK(o, u.host)
    OBVIOUS
  <2> HIDE DEF X
  <2> QED
    BY <2>1 DEF OffersOK
<1>7. Good(p, u.host)
  BY <1>1, <1>2, <1>5, <1>6 DEF Good, UrlOK, BaseOK
<1> QED
  BY <1>7 DEF p

LEMMA LinesGood ==
    ASSUME NEW u, UrlOK(u), NEW answer, AnswerOK(answer), NEW m \in Nat,
           NEW f, Begun(f, u, answer, m)
    PROVE  Good(f[LinesIn(Parser("page", u, answer), m)], u.host)
<1> DEFINE p == Parser("page", u, answer)
           b == LinesIn(p, m)
           host == u.host
<1>1. /\ IsConn(p) /\ p.state = "ANSWER" /\ p.answer = answer
  BY AtStart
<1>2. Good(p, host)
  BY ParserGood
<1> HIDE DEF p, host
<1>3. b \in Nat /\ b <= 1 + Len(answer.headers)
  <2> DEFINE h == 1 + Len(answer.headers)
  <2>1. h \in Int /\ h \in Nat /\ m \div 2 \in Int /\ m \div 2 \in Nat
    BY DEF AnswerOK
  <2>2. b = Min({m \div 2, h})
    BY <1>1 DEF LinesIn, HeaderLines
  <2> HIDE DEF h, b
  <2>3. b = IF m \div 2 <= h THEN m \div 2 ELSE h
    BY <2>1, <2>2, MinMax
  <2>4. b \in Nat /\ b <= h
    BY ONLY <2>1, <2>3
  <2> QED
    BY <2>4 DEF h
<1> HIDE DEF b
<1>4. f[0] = [p EXCEPT !.sent = m] /\ Follows(f, 0, b)
  BY DEF p, b, Begun
<1>5. /\ Good(f[0], host) /\ Pair(f[0], f[0])
      /\ f[0].state = "ANSWER" /\ f[0].answer = answer
  <2>1. "sent" \in Fields \ {"here", "base", "offered"} /\ {"sent", "state", "answer"} \subseteq Fields
    BY DEF Fields
  <2>2. Good(f[0], host)
    <3>1. \A g \in Fields \ {"here", "base", "offered"} : Good([p EXCEPT ![g] = m], host)
      BY <1>2, GoodChange
    <3> QED
      BY <1>4, <2>1, <3>1
  <2>3. DOMAIN p = Fields
    BY <1>1 DEF IsConn
  <2>4. f[0].state = "ANSWER" /\ f[0].answer = answer
    BY <1>1, <1>4, <2>1, <2>3
  <2> QED
    BY <2>2, <2>4 DEF Pair, Same, Good
<1> DEFINE S == {k \in Nat : k <= b => Good(f[k], host)}
<1>6. 0 \in S
  BY <1>5
<1>7. ASSUME NEW n \in S PROVE n + 1 \in S
  <2> SUFFICES ASSUME n + 1 <= b PROVE Good(f[n + 1], host)
    OBVIOUS
  <2>1. n \in Nat /\ n <= b /\ Good(f[n], host) /\ n + 1 \in 0 + 1 .. b /\ (n + 1) - 1 = n
    BY <1>3
  <2>2. f[n + 1] = ReadLine(f[n], n + 1)
    BY <1>4, <2>1 DEF Follows
  <2>3. Follows(f, 0, n)
    <3>1. \A k \in 0 + 1 .. n : k \in 0 + 1 .. b
      BY <1>3, <2>1
    <3> QED
      BY <1>4, <3>1 DEF Follows
  <2>4. Alike(f[0], f[n], f[n]) /\ f[n].state \in States
    <3>1. 0 \in Nat /\ 0 <= n /\ n \in Nat /\ f[0].state \in States
      BY <1>5, <2>1 DEF States
    <3> QED
      BY ONLY <1>5, <2>3, <3>1, FollowAlike
  <2>5. f[n].answer = answer
    <3>1. "answer" \in Counted \cup Asked
      BY DEF Asked
    <3> QED
      BY <1>5, <2>4, <3>1 DEF Alike, Stays
  <2>6. f[n].state = "ANSWER" \/ LineOK(f[n].answer.headers[(n + 1) - 1])
    <3>1. CASE n = 0
      BY <1>5, <3>1
    <3>2. CASE n # 0
      <4>1. n \in 1 .. Len(answer.headers)
        BY <1>3, <2>1, <3>2 DEF AnswerOK
      <4> QED
        BY <2>1, <2>5, <4>1 DEF AnswerOK
    <3> QED
      BY <3>1, <3>2
  <2> QED
    BY <2>1, <2>2, <2>4, <2>6, LineGood
<1>8. S \subseteq Nat
  OBVIOUS
<1> HIDE DEF S
<1>9. b \in S
  BY <1>3, <1>6, <1>7, <1>8, NatInduct
<1>10. Good(f[b], host)
  <2>1. b <= b
    BY <1>3
  <2> QED
    BY <1>9, <2>1 DEF S
<1> QED
  BY <1>10 DEF p, b, host

\* What the parser of a page has offered at any moment.
LEMMA WholeGood ==
    ASSUME NEW u, UrlOK(u), NEW answer, AnswerOK(answer), NEW m \in Nat
    PROVE  Good(Whole(u, answer, m), u.host)
<1> DEFINE b == LinesIn(Parser("page", u, answer), m)
           w == Whole(u, answer, m)
<1>1. PICK f : /\ f[0] = [Parser("page", u, answer) EXCEPT !.sent = m]
               /\ Follows(f, 0, b) /\ Outcome(w, f[b])
  BY FirstReads DEF FirstRead, AnswerOK
<1>2. Good(f[b], u.host)
  <2>1. Begun(f, u, answer, m)
    BY <1>1 DEF Begun
  <2> QED
    BY <2>1, LinesGood
<1> HIDE DEF w, b
<1>3. IsConn(w) /\ \A g \in Fields \ {"saved", "lastPiece", "err"} : w[g] = f[b][g]
  BY <1>1 DEF Outcome
<1>4. {"here", "base", "offered"} \subseteq Fields \ {"saved", "lastPiece", "err"}
  BY DEF Fields
<1>5. w.here = f[b].here /\ w.base = f[b].base /\ w.offered = f[b].offered
  BY <1>3, <1>4
<1>6. Good(w, u.host)
  BY <1>2, <1>3, <1>5 DEF Good
<1> QED
  BY <1>6 DEF w

LEMMA ReadingGood ==
    ASSUME NEW c, Reading(c), UrlOK(c.first), AnswerOK(c.answer)
    PROVE  Good(c, c.first.host)
<1>1. PICK m : m \in Nat /\ Equals(c, Whole(c.first, c.answer, m))
  BY DEF Reading
<1> DEFINE w == Whole(c.first, c.answer, m)
<1>2. Good(w, c.first.host)
  BY <1>1, WholeGood
<1>3. IsConn(c) /\ \A f \in Fields \ {"lastPiece"} : c[f] = w[f]
  BY <1>1 DEF Equals
<1> HIDE DEF w
<1>4. {"here", "base", "offered"} \subseteq Fields \ {"lastPiece"}
  BY DEF Fields
<1>5. c.here = w.here /\ c.base = w.base /\ c.offered = w.offered
  BY <1>3, <1>4
<1> QED
  BY <1>2, <1>3, <1>5 DEF Good

\* The tags of a body.
TagOK(tag) == tag \in [name : STRING, quoted : BOOLEAN, text : Seq(Units)]

LEMMA BaseGood ==
    ASSUME NEW c, NEW host, Good(c, host), NEW text, IsText(text)
    PROVE  Good(ParseBase(c, text), host)
<1> DEFINE slashes == {k \in DOMAIN text :
                          text[k] = "/" /\ CharsOf(SubSeq(text, 1, k - 1)) > 7}
           max == Max(slashes)
           head == SubSeq(text, 1, max)
           v == OrNone(UrlOf(head, 0, None))
<1>1. CASE slashes = {}
  BY <1>1 DEF ParseBase
<1>2. CASE slashes # {}
  <2>1. ParseBase(c, text) = [c EXCEPT !.base = v]
    BY <1>2 DEF ParseBase
  <2>2. text \in Seq(Units) /\ Len(text) \in Nat /\ DOMAIN text = 1 .. Len(text)
    BY DEF IsText
  <2>3. slashes \in SUBSET (0 .. Len(text)) /\ slashes \subseteq 1 .. Len(text)
    <3>1. slashes \subseteq DOMAIN text
      OBVIOUS
    <3> HIDE DEF slashes
    <3> QED
      BY <2>2, <3>1
  <2> HIDE DEF slashes
  <2>4. max \in 1 .. Len(text)
    BY <1>2, <2>2, <2>3, Greatest
  <2> HIDE DEF max
  <2>5. IsText(head)
    <3>1. SubSeq(text, 1, max) \in Seq(Units)
      BY <2>2, <2>4
    <3> QED
      BY <3>1 DEF IsText
  <2> HIDE DEF head
  <2>6. Written(UrlOf(head, 0, None))
    BY <2>5, LinkIs
  <2>7. BaseOK(v)
    BY <2>6 DEF OrNone, IsValid, BaseOK, Written, IsUrl
  <2> HIDE DEF v
  <2>8. BaseOK(v) => Good([c EXCEPT !.base = v], host)
    BY GoodChange
  <2> QED
    BY <2>1, <2>7, <2>8
<1> QED
  BY <1>1, <1>2

LEMMA TagGood ==
    ASSUME NEW c, NEW host, Good(c, host), NEW tag, TagOK(tag), NEW atEnd
    PROVE  Good(ParseTag(c, tag, atEnd), host)
<1> DEFINE text == [i \in DOMAIN tag.text |->
                      IF tag.text[i] = "\\" THEN "/" ELSE tag.text[i]]
           link == UrlOf(text, c.here.depth - 1, c.base)
<1>1. IsText(text)
  <2> DEFINE s == tag.text
  <2>1. s \in Seq(Units)
    BY DEF TagOK
  <2> HIDE DEF s
  <2> DEFINE t == [i \in DOMAIN s |-> IF s[i] = "\\" THEN "/" ELSE s[i]]
  <2>2. DOMAIN s = 1 .. Len(s) /\ Len(s) \in Nat /\ \A i \in 1 .. Len(s) : s[i] \in Units
    BY <2>1
  <2>3. "/" \in Units
    BY TextUnits
  <2>4. t \in [1 .. Len(s) -> Units]
    BY <2>2, <2>3
  <2> HIDE DEF t
  <2>5. t \in Seq(Units)
    BY <2>2, <2>4
  <2> QED
    BY <2>5 DEF IsText, s, t
<1> HIDE DEF text
<1>2. Written(link)
  BY <1>1, LinkIs DEF Good, BaseOK
<1>3. Good(ManageUrl(c, link, FALSE), host)
  BY <1>2, ManageKeeps
<1>4. Good(ParseBase(c, text), host)
  BY <1>1, BaseGood
<1>5. \/ ParseContent(c, tag, atEnd) = c
      \/ ParseContent(c, tag, atEnd) = ParseBase(c, text)
      \/ ParseContent(c, tag, atEnd) = ManageUrl(c, link, FALSE)
  BY DEF ParseContent, text
<1>6. ParseTag(c, tag, atEnd) \in {c, ParseContent(c, tag, atEnd)}
  BY DEF ParseTag
<1> HIDE DEF link
<1> QED
  BY <1>3, <1>4, <1>5, <1>6

LEMMA HtmlGood ==
    ASSUME NEW c, NEW host, Good(c, host), NEW tags, Len(tags) \in Nat,
           \A i \in 1 .. Len(tags) : TagOK(tags[i])
    PROVE  Good(ParseHtml(c, tags), host)
<1> DEFINE hidden == [i \in 0 .. Len(tags) |-> \E j \in 1 .. i : tags[j].name = "openComment"]
           whole == [i \in 0 .. Len(tags) |-> 2 * i <= BodyHalves(c)]
           had == [i \in 0 .. Len(tags) |->
                     IF whole[i] THEN tags[i] ELSE [tags[i] EXCEPT !.text = Front(@)]]
<1>1. ParseHtml(c, tags) = (CHOOSE f : Parses(f, c, tags, had, whole, hidden))[Len(tags)]
  BY DEF ParseHtml, Parses
<1>2. ASSUME NEW i \in 1 .. Len(tags) PROVE TagOK(had[i])
  <2>1. TagOK(tags[i]) /\ i \in 0 .. Len(tags)
    OBVIOUS
  <2> DEFINE tag == tags[i]
  <2>2. had[i] = tag \/ had[i] = [tag EXCEPT !.text = Front(@)]
    BY <2>1
  <2> HIDE DEF tag, had
  <2>3. TagOK([tag EXCEPT !.text = Front(@)])
    <3>1. tag \in [name : STRING, quoted : BOOLEAN, text : Seq(Units)]
      BY <2>1 DEF TagOK, tag
    <3> DEFINE s == tag.text
    <3>2. s \in Seq(Units)
      BY <3>1
    <3> HIDE DEF s
    <3>3. Front(s) \in Seq(Units)
      <4>1. Len(s) \in Nat
        BY <3>2
      <4>2. SubSeq(s, 1, Len(s) - 1) \in Seq(Units)
        BY <3>2, <4>1
      <4> QED
        BY <4>2 DEF Front
    <3> DEFINE t == Front(s)
    <3> HIDE DEF t
    <3>4. [tag EXCEPT !.text = t] \in [name : STRING, quoted : BOOLEAN, text : Seq(Units)]
      BY <3>1, <3>3 DEF t
    <3> QED
      BY <3>4 DEF TagOK, t, s
  <2> QED
    BY <2>1, <2>2, <2>3 DEF tag
<1> HIDE DEF hidden, whole, had
<1>3. PICK f : /\ Parses(f, c, tags, had, whole, hidden)
               /\ ParseHtml(c, tags) = f[Len(tags)]
  BY <1>1, ParsesExist
<1> DEFINE S == {n \in Nat : n <= Len(tags) => Good(f[n], host)}
<1>4. \A i \in 0 .. Len(tags) :
        f[i] = IF i = 0 THEN [c EXCEPT !.body = tags]
               ELSE IF hidden[i] THEN f[i - 1] ELSE ParseTag(f[i - 1], had[i], ~whole[i])
  BY <1>3 DEF Parses
<1>5. 0 \in S
  <2>1. 0 \in 0 .. Len(tags)
    OBVIOUS
  <2>2. f[0] = [c EXCEPT !.body = tags]
    BY <1>4, <2>1
  <2>3. \A g \in Fields \ {"here", "base", "offered"} : Good([c EXCEPT ![g] = tags], host)
    BY GoodChange
  <2>4. "body" \in Fields \ {"here", "base", "offered"}
    BY DEF Fields
  <2>5. Good(f[0], host)
    BY ONLY <2>2, <2>3, <2>4
  <2> QED
    BY <2>5
<1>6. ASSUME NEW n \in S PROVE n + 1 \in S
  <2> SUFFICES ASSUME n + 1 <= Len(tags) PROVE Good(f[n + 1], host)
    OBVIOUS
  <2>1. /\ n \in Nat /\ n + 1 \in 0 .. Len(tags) /\ n + 1 # 0 /\ (n + 1) - 1 = n
        /\ n <= Len(tags) /\ n + 1 \in 1 .. Len(tags)
    OBVIOUS
  <2>2. Good(f[n], host)
    BY <2>1
  <2>3. f[n + 1] = f[n] \/ f[n + 1] = ParseTag(f[n], had[n + 1], ~whole[n + 1])
    BY <1>4, <2>1
  <2>4. Good(ParseTag(f[n], had[n + 1], ~whole[n + 1]), host)
    BY <1>2, <2>1, <2>2, TagGood
  <2> QED
    BY <2>2, <2>3, <2>4
<1>7. S \subseteq Nat
  OBVIOUS
<1> HIDE DEF S
<1>8. Len(tags) \in S
  BY <1>5, <1>6, <1>7, NatInduct
<1>9. Good(f[Len(tags)], host)
  <2>1. Len(tags) <= Len(tags)
    OBVIOUS
  <2> QED
    BY <1>8, <2>1 DEF S
<1> QED
  BY <1>3, <1>9

LEMMA EndGood ==
    ASSUME NEW c, NEW host, Good(c, host), c.state \in States, NEW tags, Len(tags) \in Nat,
           \A i \in 1 .. Len(tags) : TagOK(tags[i])
    PROVE  Good(PageEnd(c, tags), host)
<1>1. \A v : Good([c EXCEPT !.err = v], host)
  <2> TAKE v
  <2>1. \A g \in Fields \ {"here", "base", "offered"} : Good([c EXCEPT ![g] = v], host)
    BY GoodChange
  <2>2. "err" \in Fields \ {"here", "base", "offered"}
    BY DEF Fields
  <2> QED
    BY <2>1, <2>2
<1>2. Good(ParseHtml(c, tags), host)
  BY HtmlGood
<1>3. PageEnd(c, tags) \in {[c EXCEPT !.err = "earlyStop"], [c EXCEPT !.err = "err40X"],
                            [c EXCEPT !.err = "duplicate"], c, ParseHtml(c, tags)}
  BY DEF PageEnd, States
<1> QED
  BY <1>1, <1>2, <1>3

-----------------------------------------------------------------------------
(***************************************************************************)
(* The lines of the disk queue, and what is known of them.                 *)
(***************************************************************************)
LEMMA SeqGrows ==
    ASSUME NEW S, NEW T, S \subseteq T, NEW s \in Seq(S)
    PROVE  s \in Seq(T)
OBVIOUS

LEMMA Concat ==
    ASSUME NEW D, NEW s \in Seq(D), NEW t \in Seq(D)
    PROVE  LET r == s \o t
           IN /\ r \in Seq(D) /\ Len(r) = Len(s) + Len(t)
              /\ \A i \in 1 .. Len(s) : r[i] = s[i]
              /\ \A i \in Len(s) + 1 .. Len(r) : r[i] = t[i - Len(s)]
<1> DEFINE r == s \o t
<1>1. r \in Seq(D) /\ Len(r) = Len(s) + Len(t) /\ Len(s) \in Nat /\ Len(t) \in Nat
  OBVIOUS
<1>2. \A i \in 1 .. Len(s) : r[i] = s[i]
  BY <1>1
<1>3. \A i \in Len(s) + 1 .. Len(r) : r[i] = t[i - Len(s)]
  BY <1>1
<1> QED
  BY <1>1, <1>2, <1>3

Joins(f, x, k) == f \o (<<x>> \o k) = f \o <<x>> \o k
LEMMA Joined ==
    ASSUME NEW D, NEW f \in Seq(D), NEW k \in Seq(D), NEW x \in D
    PROVE  Joins(f, x, k)
<1> DEFINE a == <<x>> \o k
           b == f \o <<x>>
<1>0. <<x>> \in Seq(D) /\ Len(<<x>>) = 1 /\ <<x>>[1] = x
  OBVIOUS
<1>1. /\ a \in Seq(D) /\ Len(a) = 1 + Len(k) /\ a[1] = x
      /\ \A i \in 2 .. Len(a) : a[i] = k[i - 1]
  BY <1>0
<1>2. /\ b \in Seq(D) /\ Len(b) = Len(f) + 1 /\ b[Len(f) + 1] = x
      /\ \A i \in 1 .. Len(f) : b[i] = f[i]
  BY <1>0
<1> HIDE DEF a, b
<1> DEFINE c == f \o a
           d == b \o k
<1>3. /\ c \in Seq(D) /\ Len(c) = Len(f) + Len(a)
      /\ \A i \in 1 .. Len(f) : c[i] = f[i]
      /\ \A i \in Len(f) + 1 .. Len(c) : c[i] = a[i - Len(f)]
  BY <1>1, Concat
<1>4. /\ d \in Seq(D) /\ Len(d) = Len(b) + Len(k)
      /\ \A i \in 1 .. Len(b) : d[i] = b[i]
      /\ \A i \in Len(b) + 1 .. Len(d) : d[i] = k[i - Len(b)]
  BY <1>2, Concat
<1> HIDE DEF c, d
<1>5. Len(f) \in Nat /\ Len(k) \in Nat /\ Len(c) = Len(d)
  BY <1>1, <1>2, <1>3, <1>4
<1>6. ASSUME NEW i \in 1 .. Len(c) PROVE c[i] = d[i]
  <2>1. CASE i <= Len(f)
    <3>1. i \in 1 .. Len(f) /\ i \in 1 .. Len(b)
      BY <1>2, <1>5, <2>1
    <3> QED
      BY ONLY <1>2, <1>3, <1>4, <3>1
  <2>2. CASE i = Len(f) + 1
    <3>1. /\ i \in Len(f) + 1 .. Len(c) /\ i \in 1 .. Len(b) /\ i - Len(f) = 1
          /\ b[i] = x
      BY <1>2, <1>5, <2>2
    <3>2. c[i] = a[1]
      BY ONLY <1>3, <3>1
    <3>3. d[i] = b[i]
      BY ONLY <1>4, <3>1
    <3> QED
      BY ONLY <1>1, <3>1, <3>2, <3>3
  <2>3. CASE i > Len(f) + 1
    <3>1. c[i] = a[i - Len(f)] /\ i - Len(f) \in 2 .. Len(a)
      BY <1>1, <1>3, <1>5, <2>3
    <3>2. a[i - Len(f)] = k[i - Len(f) - 1]
      BY <1>1, <3>1
    <3>3. i - Len(b) = i - Len(f) - 1 /\ i \in Len(b) + 1 .. Len(d)
      BY <1>2, <1>5, <2>3
    <3>4. d[i] = k[i - Len(b)]
      BY ONLY <1>4, <3>3
    <3> QED
      BY ONLY <3>1, <3>2, <3>3, <3>4
  <2> QED
    BY <1>5, <2>1, <2>2, <2>3
<1>7. c = d
  <2>1. c = [i \in 1 .. Len(c) |-> c[i]] /\ d = [i \in 1 .. Len(d) |-> d[i]]
    BY <1>3, <1>4
  <2> QED
    BY <1>5, <1>6, <2>1
<1> QED
  BY <1>7 DEF a, b, c, d, Joins

\* A text, a blank that it does not hold, and what follows.
Splits(r, f, x, k) ==
    /\ Has(r, x) /\ FirstAt(r, x) = Len(f) + 1
    /\ SubSeq(r, 1, Len(f)) = f
    /\ SubSeq(r, Len(f) + 2, Len(r)) = k
LEMMA SplitsAt ==
    ASSUME NEW D, NEW f \in Seq(D), NEW k \in Seq(D), NEW x \in D,
           \A i \in 1 .. Len(f) : f[i] # x
    PROVE  Splits(f \o <<x>> \o k, f, x, k)
<1> DEFINE n == Len(f)
           r == f \o <<x>> \o k
           T == {i \in DOMAIN r : r[i] = x}
<1>1. <<x>> \in Seq(D) /\ Len(<<x>>) = 1 /\ <<x>>[1] = x
  OBVIOUS
<1>2. /\ r \in Seq(D) /\ Len(r) = n + 1 + Len(k) /\ Len(k) \in Nat /\ n \in Nat
  BY <1>1
<1>3. DOMAIN r = 1 .. Len(r)
  BY <1>2
<1>4. \A i \in 1 .. n : r[i] = f[i]
  BY <1>1, <1>2
<1>5. r[n + 1] = x
  BY <1>1, <1>2
<1>6. \A i \in 1 .. Len(k) : r[n + 1 + i] = k[i]
  BY <1>1, <1>2
<1>7. f = [i \in 1 .. n |-> f[i]] /\ k = [i \in 1 .. Len(k) |-> k[i]]
  OBVIOUS
<1> HIDE DEF r
<1>8. SubSeq(r, 1, n) = f
  <2>1. SubSeq(r, 1, n) = [i \in 1 .. n |-> r[i]]
    BY <1>2
  <2> QED
    BY <1>4, <1>7, <2>1
<1>9. SubSeq(r, n + 2, Len(r)) = k
  <2> DEFINE s == SubSeq(r, n + 2, Len(r))
  <2>1. Len(s) = Len(k) /\ s = [i \in 1 .. Len(k) |-> s[i]]
    BY <1>2
  <2>2. \A i \in 1 .. Len(k) : s[i] = r[n + 1 + i]
    BY <1>2
  <2> HIDE DEF s
  <2>3. \A i \in 1 .. Len(k) : s[i] = k[i]
    BY <1>6, <2>2
  <2>4. s = k
    BY <1>7, <2>1, <2>3
  <2> QED
    BY <2>4 DEF s
<1> HIDE DEF n
<1>10. n + 1 \in T
  BY <1>2, <1>3, <1>5
<1>11. \A i \in T : n + 1 <= i /\ i \in Int
  <2> TAKE i \in T
  <2>1. i \in 1 .. Len(r) /\ r[i] = x
    BY <1>3
  <2>2. i \notin 1 .. n
    BY <1>4, <2>1 DEF n
  <2> QED
    BY <1>2, <2>1, <2>2
<1> HIDE DEF T
<1>12. FirstAt(r, x) = n + 1
  <2>1. Min(T) \in T /\ \A i \in T : Min(T) <= i
    BY <1>10, <1>11 DEF Min
  <2>2. Min(T) <= n + 1 /\ n + 1 <= Min(T) /\ Min(T) \in Int
    BY <1>10, <1>11, <2>1
  <2>3. Min(T) = n + 1
    BY <1>2, <2>2
  <2> QED
    BY <2>3 DEF FirstAt, T
<1>13. Has(r, x)
  <2>1. \E i \in DOMAIN r : r[i] = x
    BY <1>10 DEF T
  <2> QED
    BY <2>1 DEF Has, ToSet
<1> QED
  BY <1>8, <1>9, <1>12, <1>13 DEF n, r, Splits

LEMMA ReloadIs ==
    ASSUME NEW u, IsUrl(u), IsFile(u.file), Cookies(u), NEW use
    PROVE  LET v == Reload(Serialize(u, use), use)
           IN Key(v) = Key(u) /\ v.host = u.host /\ UrlOK(v)
<1> DEFINE rest == u.file \o (IF use /\ u.cookie # <<>> THEN <<" ">> \o u.cookie ELSE <<>>)
           line == Serialize(u, use)
           split == use /\ Has(rest, " ")
           at == FirstAt(rest, " ")
           file == IF split THEN SubSeq(rest, 1, at - 1) ELSE rest
           cookie == IF split THEN SubSeq(rest, at + 1, Len(rest)) ELSE <<>>
           v == Reload(line, use)
<1>1. line.rest = rest /\ line.host = u.host /\ line.port = u.port
  BY DEF Serialize
<1>2. /\ v.host = u.host /\ v.port = u.port /\ v.file = file /\ v.cookie = cookie
      /\ {"host", "cookie"} \subseteq DOMAIN v
  BY <1>1 DEF Reload
<1> HIDE DEF v, line
<1> DEFINE f == u.file
           n == Len(f)
           k == u.cookie
           C == {u.host, "; "}
           D == Units \cup C \cup {" "}
<1>3. f \in Seq(Units) /\ k \in Seq(C)
  BY DEF IsFile, IsText, Cookies
<1> HIDE DEF f, k, C
<1>4. f \in Seq(D) /\ k \in Seq(D) /\ " " \in D
  <2>1. Units \subseteq D /\ C \subseteq D /\ " " \in D
    OBVIOUS
  <2> HIDE DEF D
  <2> QED
    BY ONLY <1>3, <2>1, SeqGrows
<1>5. \A i \in 1 .. Len(f) : f[i] # " "
  <2>1. \A i \in 1 .. Len(f) : f[i] \in Units
    BY <1>3
  <2> QED
    BY ONLY <2>1, TextUnits
<1>6. Len(f) \in Nat
  BY <1>3
<1> HIDE DEF D
<1>7. file = f /\ cookie \in Seq(C)
  <2>1. CASE use /\ k # <<>>
    <3> DEFINE r == f \o <<" ">> \o k
    <3>1. rest = r
      <4>1. rest = f \o (<<" ">> \o k)
        BY <2>1 DEF f, k
      <4>2. f \o (<<" ">> \o k) = f \o <<" ">> \o k
        <5>1. Joins(f, " ", k)
          BY <1>4, Joined
        <5> QED
          BY <5>1 DEF Joins
      <4> HIDE DEF rest
      <4> QED
        BY <4>1, <4>2
    <3> HIDE DEF rest
    <3>2. Splits(r, f, " ", k)
      BY <1>4, <1>5, SplitsAt
    <3> HIDE DEF r
    <3>3. split /\ at = Len(f) + 1
      BY <2>1, <3>1, <3>2 DEF Splits
    <3> HIDE DEF split, at
    <3>4. at - 1 = Len(f) /\ at + 1 = Len(f) + 2
      BY ONLY <1>6, <3>3
    <3>5. file = f /\ cookie = k
      BY <3>1, <3>2, <3>3, <3>4 DEF Splits
    <3> QED
      BY <1>3, <3>5
  <2>2. CASE ~(use /\ k # <<>>)
    <3>1. rest = f
      <4>1. rest = f \o <<>>
        BY <2>2 DEF f, k
      <4> HIDE DEF rest
      <4> QED
        BY <1>3, <4>1
    <3> HIDE DEF rest
    <3>2. ~split
      <4>1. DOMAIN f = 1 .. Len(f)
        BY <1>3
      <4>2. " " \notin ToSet(f)
        BY <1>5, <4>1 DEF ToSet
      <4> QED
        BY <3>1, <4>2 DEF Has
    <3>3. file = f /\ cookie = <<>>
      BY <3>1, <3>2
    <3>4. <<>> \in Seq(C)
      OBVIOUS
    <3> QED
      BY <3>3, <3>4
  <2> QED
    BY <2>1, <2>2
<1> HIDE DEF rest, file, cookie
<1>8. Key(v) = Key(u)
  BY <1>2, <1>7 DEF Key, f
<1>9. IsFile(v.file) /\ v.cookie \in Seq({v.host, "; "})
  BY <1>2, <1>7 DEF f, C
<1>10. UrlOK(v)
  BY <1>2, <1>9 DEF UrlOK, HereOK, Cookies
<1> QED
  BY <1>2, <1>8, <1>10 DEF v, line

QueueOK ==
    /\ \A line \in waiting :
          LET u == Reload(line, opt.useCookies) IN Key(u) \in seen /\ UrlOK(u)
    /\ opt.lockSite => \A k \in seen, l \in seen : k.host = l.host
FetchOK ==
    conn.kind = "page" =>
        /\ UrlOK(conn.first) /\ AnswerOK(conn.answer)
        /\ \E k \in seen : k.host = conn.first.host
KeepsInv == PagesInv /\ QueueOK /\ FetchOK

LEMMA PieceAsks ==
    ASSUME NEW c, Reading(c), c.err = "success", NEW n \in Nat
    PROVE  PageInput(c, n).first = c.first /\ PageInput(c, n).answer = c.answer
<1> DEFINE u == c.first
           answer == c.answer
<1>1. PICK m : m \in Nat /\ Len(answer.headers) \in Nat /\ Equals(c, Whole(u, answer, m))
  BY DEF Reading
<1> HIDE DEF u, answer
<1>2. Whole(u, answer, m).err = "success"
  <2>1. "err" \in Fields \ {"lastPiece"}
    BY DEF Fields
  <2> QED
    BY <1>1, <2>1 DEF Equals
<1>3. Equals(PageInput(c, n), Whole(u, answer, m + n))
  BY <1>1, <1>2, PieceJoins DEF Whole
<1>4. m + n \in Nat
  BY <1>1
<1> QED
  BY <1>1, <1>3, <1>4, ReadingIs DEF u, answer

LEMMA KeepsInit == Init => KeepsInv
<1> SUFFICES ASSUME Init PROVE KeepsInv
  OBVIOUS
<1>1. seen = {} /\ waiting = {} /\ conn.kind = "none"
  BY DEF Init, NoConn
<1> QED
  BY <1>1, PagesInit DEF KeepsInv, QueueOK, FetchOK

\* What is offered and was never met is written to the queue.
LEMMA CheckedKeeps ==
    ASSUME QueueOK, NEW c, NEW host, Good(c, host), Checked(c), opt' = opt,
           \E k \in seen : k.host = host
    PROVE  QueueOK' /\ \E k \in seen' : k.host = host
<1> DEFINE new == {i \in DOMAIN c.offered :
                      /\ c.offered[i].why = "success"
                      /\ Key(c.offered[i].url) \notin seen
                      /\ \A j \in 1..(i-1) : c.offered[j].why = "success" =>
                             Key(c.offered[j].url) # Key(c.offered[i].url)}
           use == opt.useCookies
<1>1. /\ seen' = seen \union {Key(c.offered[i].url) : i \in new}
      /\ waiting' = waiting \union {Serialize(c.offered[i].url, use) : i \in new}
  BY DEF Checked
<1>2. \A i \in new : OfferOK(c.offered[i], host) /\ c.offered[i].why = "success"
  <2>1. PICK X : c.offered \in Seq(X) /\ \A o \in X : OfferOK(o, host)
    BY DEF Good, OffersOK
  <2>2. \A i \in DOMAIN c.offered : c.offered[i] \in X
    BY <2>1
  <2> QED
    BY <2>1, <2>2
<1> HIDE DEF new
<1>3. PICK k0 \in seen : k0.host = host
  OBVIOUS
<1>4. \A line \in waiting' :
         LET u == Reload(line, use) IN Key(u) \in seen' /\ UrlOK(u)
  <2> TAKE line \in waiting'
  <2>1. CASE line \in waiting
    BY <1>1, <2>1 DEF QueueOK
  <2>2. CASE line \notin waiting
    <3>1. PICK i \in new : line = Serialize(c.offered[i].url, use)
      BY <1>1, <2>2
    <3> DEFINE u == c.offered[i].url
               v == Reload(line, use)
    <3>2. IsUrl(u) /\ IsFile(u.file) /\ Cookies(u)
      BY <1>2 DEF OfferOK
    <3>3. Key(u) \in seen'
      BY <1>1
    <3> HIDE DEF u
    <3>4. Key(v) = Key(u) /\ UrlOK(v)
      BY <3>1, <3>2, ReloadIs DEF u
    <3> QED
      BY <3>3, <3>4
  <2> QED
    BY <2>1, <2>2
<1>5. ASSUME opt.lockSite, NEW k \in seen' PROVE k.host = host
  <2>1. CASE k \in seen
    BY <1>3, <1>5, <2>1 DEF QueueOK
  <2>2. CASE k \notin seen
    <3>1. PICK i \in new : k = Key(c.offered[i].url)
      BY <1>1, <2>2
    <3>2. c.offered[i].url.host = host
      BY <1>2, <1>5 DEF OfferOK
    <3>3. k.host = c.offered[i].url.host
      BY <3>1 DEF Key
    <3> QED
      BY <3>2, <3>3
  <2> QED
    BY <2>1, <2>2
<1>6. k0 \in seen' /\ k0.host = host
  BY <1>1, <1>3
<1>7. opt'.lockSite => \A k \in seen', l \in seen' : k.host = l.host
  BY <1>5
<1>8. opt'.useCookies = use
  OBVIOUS
<1>9. QueueOK'
  BY <1>4, <1>7, <1>8 DEF QueueOK
<1> QED
  BY <1>6, <1>9

LEMMA KeepsSubmit ==
    ASSUME KeepsInv, Seeds \subseteq Seq(Units), NEW text \in Seeds, Submit(text)
    PROVE  QueueOK' /\ FetchOK'
<1> DEFINE u == InputUrl(text, InputDepth)
           use == opt.useCookies
<1>1. /\ seen = {} /\ IsValid(u) /\ seen' = {Key(u)} /\ waiting' = {Serialize(u, use)}
      /\ UNCHANGED <<opt, conn>>
  BY DEF Submit
<1>2. Written(u)
  <2>1. IsText(text)
    BY DEF IsText
  <2> QED
    BY <2>1, LinkIs
<1> HIDE DEF u
<1>3. IsUrl(u) /\ IsFile(u.file) /\ Cookies(u)
  <2>1. <<>> \in Seq({u.host, "; "})
    OBVIOUS
  <2> QED
    BY <1>1, <1>2, <2>1 DEF Written, IsUrl, IsValid, Cookies
<1> DEFINE v == Reload(Serialize(u, use), use)
<1>4. Key(v) = Key(u) /\ UrlOK(v)
  BY <1>3, ReloadIs
<1> HIDE DEF v
<1>5. QueueOK'
  BY <1>1, <1>4 DEF QueueOK, v
<1>6. conn.kind # "page"
  BY <1>1 DEF KeepsInv, FetchOK
<1>7. FetchOK'
  BY <1>1, <1>6 DEF FetchOK
<1> QED
  BY <1>5, <1>7

LEMMA KeepsFetchPage ==
    ASSUME KeepsInv, NEW line \in waiting, NEW answer, FetchPage(line, answer)
    PROVE  QueueOK' /\ FetchOK'
<1> DEFINE u == Reload(line, opt.useCookies)
           p == Parser("page", u, answer)
<1>1. /\ fetches < MaxFetches /\ answer \in Answers[fetches + 1]
      /\ conn' = p /\ UNCHANGED <<opt, seen>> /\ waiting' = waiting \ {line}
  BY DEF FetchPage
<1>2. QueueOK'
  BY <1>1 DEF KeepsInv, QueueOK
<1>3. UrlOK(u) /\ Key(u) \in seen
  BY DEF KeepsInv, QueueOK
<1>4. fetches + 1 \in 1 .. MaxFetches
  BY <1>1, PagesAssumption DEF KeepsInv, PagesInv
<1>5. AnswerOK(answer)
  <2>1. Len(answer.headers) \in Nat
    BY <1>1, <1>4, PagesAssumption
  <2>2. \A k \in 1 .. Len(answer.headers) : answer.headers[k].text \in Seq(Units)
    BY <1>1, <1>4, UnitsAssumption
  <2> QED
    BY <2>1, <2>2 DEF AnswerOK, LineOK, IsText
<1> HIDE DEF u
<1>6. p.first = u /\ p.answer = answer
  BY DEF Parser
<1> HIDE DEF p
<1>7. Key(u).host = u.host
  BY DEF Key
<1>8. FetchOK'
  BY <1>1, <1>3, <1>5, <1>6, <1>7 DEF FetchOK
<1> QED
  BY <1>2, <1>8

LEMMA KeepsPagePiece ==
    ASSUME KeepsInv, NEW n \in 1 .. MaxPage, PagePiece(n)
    PROVE  QueueOK' /\ FetchOK'
<1> DEFINE c == PageInput(conn, n)
           first == conn.first
<1>1. /\ conn.kind = "page" /\ opt' = opt /\ Checked(c)
      /\ conn' = IF c.err = "success" THEN c ELSE Over(c)
  BY DEF PagePiece
<1>2. Reading(conn) /\ conn.err = "success"
  BY <1>1 DEF KeepsInv, PagesInv
<1>3. /\ UrlOK(first) /\ AnswerOK(conn.answer)
      /\ \E k \in seen : k.host = first.host
  BY <1>1 DEF KeepsInv, FetchOK
<1>4. n \in Nat
  BY PagesAssumption
<1>5. Reading(c)
  BY <1>2, <1>4, ReadingJoins
<1>6. c.first = first /\ c.answer = conn.answer
  BY <1>2, <1>4, PieceAsks
<1> HIDE DEF c
<1>7. Good(c, first.host)
  BY <1>3, <1>5, <1>6, ReadingGood
<1>8. QueueOK' /\ \E k \in seen' : k.host = first.host
  BY <1>1, <1>3, <1>7, CheckedKeeps DEF KeepsInv
<1>9. IsConn(c)
  BY <1>7 DEF Good
<1>10. FetchOK'
  <2>1. CASE c.err = "success"
    BY <1>1, <1>3, <1>6, <1>8, <2>1 DEF FetchOK
  <2>2. CASE c.err # "success"
    BY <1>1, <1>9, <2>2, OverIs DEF FetchOK
  <2> QED
    BY <2>1, <2>2
<1> QED
  BY <1>8, <1>10

LEMMA KeepsClosePage ==
    ASSUME KeepsInv, NEW tags, ClosePage(tags)
    PROVE  QueueOK' /\ FetchOK'
<1> DEFINE e == PageEnd(conn, tags)
           host == conn.first.host
<1>1. /\ conn.kind = "page" /\ tags \in Bodies[fetches] /\ opt' = opt
      /\ conn' = Over(e) /\ Checked(e)
  BY DEF ClosePage
<1>2. Reading(conn) /\ fetches \in 1 .. MaxFetches
  BY <1>1, PagesAssumption DEF KeepsInv, PagesInv
<1>3. /\ UrlOK(conn.first) /\ AnswerOK(conn.answer)
      /\ \E k \in seen : k.host = host
  BY <1>1 DEF KeepsInv, FetchOK
<1>4. Good(conn, host)
  BY <1>2, <1>3, ReadingGood
<1>5. Len(tags) \in Nat /\ \A i \in 1 .. Len(tags) : TagOK(tags[i])
  <2>1. tags \in Seq([name : STRING, quoted : BOOLEAN, text : Seq(Units)])
    BY <1>1, <1>2, UnitsAssumption
  <2> DEFINE T == [name : STRING, quoted : BOOLEAN, text : Seq(Units)]
  <2>2. tags \in Seq(T)
    BY <2>1
  <2> HIDE DEF T
  <2>3. Len(tags) \in Nat /\ \A i \in 1 .. Len(tags) : tags[i] \in T
    BY <2>2
  <2> QED
    BY <2>3 DEF T, TagOK
<1>6. conn.state \in States
  BY <1>2, ReadingConn
<1> HIDE DEF host
<1>7. Good(e, host)
  BY <1>4, <1>5, <1>6, EndGood
<1> HIDE DEF e
<1>8. QueueOK'
  BY <1>1, <1>3, <1>7, CheckedKeeps DEF KeepsInv
<1>9. conn'.kind = "over"
  BY <1>1, <1>7, OverIs DEF Good
<1> QED
  BY <1>8, <1>9 DEF FetchOK

\* What leaves the queue and the table as they are, and asks for no page.
LEMMA KeepsQuiet ==
    ASSUME QueueOK, UNCHANGED <<opt, seen, waiting>>, conn'.kind # "page"
    PROVE  QueueOK' /\ FetchOK'
BY DEF QueueOK, FetchOK

LEMMA KeepsRobots ==
    ASSUME KeepsInv,
           \/ \E line, answer : FetchRobots(line, answer)
           \/ \E line : NoDns(line)
           \/ \E n, words : RobotsPiece(n, words)
           \/ \E words : CloseRobots(words)
           \/ \E why, words : BreakRobots(why, words)
           \/ BreakPage
    PROVE  QueueOK' /\ FetchOK'
<1>1. NoConn.kind # "page"
  BY DEF NoConn
<1>2. UNCHANGED <<opt, seen, waiting>>
  BY DEF FetchRobots, NoDns, RobotsPiece, CloseRobots, BreakRobots, BreakPage
<1>3. ASSUME NEW line, NEW answer, FetchRobots(line, answer) PROVE conn'.kind # "page"
  <2> DEFINE u == Reload(line, opt.useCookies)
             p == Parser("robots", u, answer)
  <2>1. conn' = p
    BY <1>3 DEF FetchRobots
  <2> HIDE DEF u
  <2>2. p.kind = "robots"
    BY DEF Parser
  <2> HIDE DEF p
  <2> QED
    BY <2>1, <2>2
<1>4. ASSUME NEW n, NEW words, RobotsPiece(n, words) PROVE conn'.kind # "page"
  <2> DEFINE c == RobotsInput(conn, n)
             d == [conn EXCEPT !.sent = @ + n]
  <2>1. conn.kind = "robots" /\ (conn' = c \/ conn' = NoConn)
    BY <1>4 DEF RobotsPiece
  <2>2. IsConn(conn) /\ DOMAIN conn = Fields /\ {"kind", "sent", "err"} \subseteq Fields
    BY <2>1 DEF KeepsInv, PagesInv, IsConn, Fields
  <2>3. d.kind = "robots" /\ DOMAIN d = Fields
    BY <2>1, <2>2
  <2>4. c \in {d, [d EXCEPT !.err = "err40X"], [d EXCEPT !.err = "tooBig"]}
    BY DEF RobotsInput
  <2> HIDE DEF c, d
  <2>5. c.kind = "robots"
    BY <2>2, <2>3, <2>4
  <2> QED
    BY <1>1, <2>1, <2>5
<1>5. ASSUME NEW words, CloseRobots(words) PROVE conn'.kind # "page"
  BY <1>1, <1>5 DEF CloseRobots
<1>9. ASSUME NEW line, NoDns(line) PROVE conn'.kind # "page"
  BY <1>1, <1>9 DEF NoDns
<1>6. ASSUME NEW why, NEW words, BreakRobots(why, words) PROVE conn'.kind # "page"
  BY <1>1, <1>6 DEF BreakRobots
<1>7. ASSUME BreakPage PROVE conn'.kind # "page"
  <2> DEFINE e == [conn EXCEPT !.err = "earlyStop"]
  <2>1. conn' = Over(e) /\ conn.kind = "page"
    BY <1>7 DEF BreakPage
  <2>2. IsConn(conn)
    BY <2>1, ReadingConn DEF KeepsInv, PagesInv
  <2>3. DOMAIN e = Fields /\ "kind" \in Fields
    BY <2>2 DEF IsConn, Fields
  <2> HIDE DEF e
  <2>4. Over(e).kind = "over"
    BY <2>3 DEF Over
  <2> QED
    BY <2>1, <2>4
<1>8. conn'.kind # "page"
  BY <1>3, <1>4, <1>5, <1>6, <1>7, <1>9
<1> QED
  BY <1>2, <1>8, KeepsQuiet DEF KeepsInv

LEMMA KeepsStep ==
    ASSUME Seeds \subseteq Seq(Units)
    PROVE  KeepsInv /\ [Next]_vars => KeepsInv'
<1> SUFFICES ASSUME KeepsInv, [Next]_vars PROVE KeepsInv'
  OBVIOUS
<1>1. PagesInv'
  BY PagesStep DEF KeepsInv
<1>2. ASSUME NEW text \in Seeds, Submit(text) PROVE QueueOK' /\ FetchOK'
  BY <1>2, KeepsSubmit
<1>3. ASSUME NEW line \in waiting, NEW answer, FetchPage(line, answer) PROVE QueueOK' /\ FetchOK'
  BY <1>3, KeepsFetchPage
<1>4. ASSUME NEW n \in 1 .. MaxPage, PagePiece(n) PROVE QueueOK' /\ FetchOK'
  BY <1>4, KeepsPagePiece
<1>5. ASSUME NEW tags, ClosePage(tags) PROVE QueueOK' /\ FetchOK'
  BY <1>5, KeepsClosePage
<1>6. ASSUME \/ \E line, answer : FetchRobots(line, answer)
             \/ \E line : NoDns(line)
             \/ \E n, words : RobotsPiece(n, words)
             \/ \E words : CloseRobots(words)
             \/ \E why, words : BreakRobots(why, words)
             \/ BreakPage
      PROVE  QueueOK' /\ FetchOK'
  BY <1>6, KeepsRobots
<1>7. ASSUME UNCHANGED vars PROVE QueueOK' /\ FetchOK'
  <2>1. UNCHANGED <<opt, seen, waiting, conn>>
    BY <1>7 DEF vars
  <2>2. QueueOK'
    BY <2>1 DEF KeepsInv, QueueOK
  <2>3. FetchOK'
    BY <2>1 DEF KeepsInv, FetchOK
  <2> QED
    BY <2>2, <2>3
<1>8. ASSUME Next PROVE QueueOK' /\ FetchOK'
  BY <1>2, <1>3, <1>4, <1>5, <1>6, <1>8 DEF Next
<1>9. QueueOK' /\ FetchOK'
  BY <1>7, <1>8
<1> QED
  BY <1>1, <1>9 DEF KeepsInv

LEMMA KeepsInvMeans == KeepsInv => QueueKeeps
<1> SUFFICES ASSUME KeepsInv, NEW line \in waiting
             PROVE  LET u == Reload(line, opt.useCookies)
                    IN /\ Key(u) \in seen
                       /\ ToSet(u.cookie) \subseteq {u.host, "; "}
                       /\ opt.lockSite => \A k \in seen : k.host = u.host
  BY DEF QueueKeeps
<1> DEFINE u == Reload(line, opt.useCookies)
<1>1. Key(u) \in seen /\ UrlOK(u)
  BY DEF KeepsInv, QueueOK
<1> HIDE DEF u
<1>2. Key(u).host = u.host
  BY DEF Key
<1>3. opt.lockSite => \A k \in seen : k.host = u.host
  BY <1>1, <1>2 DEF KeepsInv, QueueOK
<1>4. ToSet(u.cookie) \subseteq {u.host, "; "}
  <2> DEFINE C == {u.host, "; "}
             s == u.cookie
  <2>1. s \in Seq(C)
    BY <1>1 DEF UrlOK, HereOK, Cookies
  <2> HIDE DEF C, s
  <2>2. \A i \in DOMAIN s : s[i] \in C
    BY <2>1
  <2>3. ToSet(s) \subseteq C
    BY <2>2 DEF ToSet
  <2> QED
    BY <2>3 DEF C, s
<1> QED
  BY <1>1, <1>3, <1>4 DEF u

\* In every behaviour, when no client submits a blank, what waits on disk comes
\* back as the url that was entered in the table, with the cookies of its host
\* only, and with lockSite it is of the site the crawl began with (url::serialize
\* and its constructor from a line, initOK, addCookie), whatever the pages and
\* their links, the pieces they come in, and the rules of the site.
THEOREM QueueComesBack ==
    ASSUME Seeds \subseteq Seq(Units)
    PROVE  Spec => []QueueKeeps
<1>1. Init => KeepsInv
  BY KeepsInit
<1>2. KeepsInv /\ [Next]_vars => KeepsInv'
  BY KeepsStep
<1>3. KeepsInv => QueueKeeps
  BY KeepsInvMeans
<1> QED
  BY <1>1, <1>2, <1>3, PTL DEF Spec
===============================================================================
