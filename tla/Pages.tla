------------------------------- MODULE Pages -------------------------------
(* What a connection's parser makes of an answer that arrives in pieces:     *)
(* html and robots (file.cxx), the saving of specific documents              *)
(* (save_specific_buffer.cxx), the filter of urls (checker.cxx) and the line *)
(* an url becomes in a disk queue until it is fetched in its turn.           *)
(*                                                                           *)
(* An answer is counted in halves: a line of the header, a tag of the body   *)
(* and a word of a robots.txt are two halves each, and a piece is any number *)
(* of them, so a piece may end inside a line, a tag or a word. What a body   *)
(* or a robots.txt holds is chosen when it is parsed: nothing reads it       *)
(* before.                                                                   *)
EXTENDS UrlForms

CONSTANTS
    Options,        \* sets of options a configuration may give
    Units,          \* what the texts of urls and links are made of
    Seeds,          \* texts a client of the input port submits
    InputDepth,     \* the depth it asks for
    DepthInSite,
    Answers,        \* those of the n-th page, [code, headers]: a header ends
                    \* with a blank line
    Bodies,         \* the sequences of tags of the n-th page
    RobotsAnswers,
    RobotsFiles,    \* sequences of words
    ForbExt,        \* forbidden extensions
    Domains,        \* hosts limitToDomain allows
    MaxPage,        \* maxPageSize, in halves
    MaxSpec,        \* maxSpecSize, in halves
    MaxRobots,      \* maxRobotsSize, in halves
    MaxItems,       \* maxRobotsItem
    MaxFetches      \* bound: pages fetched in a behaviour

ASSUME PagesAssumption ==
    /\ MaxPage \in Nat \ {0, 1}
    /\ MaxFetches \in Nat
    /\ \A i \in 1 .. MaxFetches :
          /\ \A answer \in Answers[i] : Len(answer.headers) \in Nat
          /\ \A tags \in Bodies[i] : Len(tags) \in Nat

\* the text of a link ends at a blank (parseHeader30X, parseContent)
ASSUME UnitsAssumption ==
    /\ {"/", ".", "#", "%2e", "%e9"} \subseteq Units /\ " " \notin Units
    /\ \A i \in 1 .. MaxFetches :
          /\ \A answer \in Answers[i] : \A k \in 1 .. Len(answer.headers) :
                answer.headers[k].text \in Seq(Units)
          /\ Bodies[i] \subseteq Seq([name : STRING, quoted : BOOLEAN, text : Seq(Units)])

VARIABLES
    opt,            \* the options, fixed by the configuration
    seen,           \* global::seen
    waiting,        \* the lines of the disk queue
    site,           \* the entry of namedSiteList the hosts share; had is the
                    \* robots.txt its rules come from, for the properties
    conn,           \* a Connexion, with its parser
    dup,            \* global::hDuplicate
    fetches         \* pages fetched so far

vars == <<opt, seen, waiting, site, conn, dup, fetches>>

NoConn == [kind |-> "none"]

Init ==
    /\ opt \in Options
    /\ seen = {} /\ waiting = {}
    /\ site = [host |-> None, port |-> 0, state |-> "waitDns", forbidden |-> <<>>,
               had |-> None]
    /\ conn = NoConn
    /\ dup = {}
    /\ fetches = 0

-----------------------------------------------------------------------------
(* From a link to the disk queue *)

\* filter1
Filter1(u) ==
    /\ Domains # {} => u.host \in Domains
    /\ \/ Last(u.file) \in {"/", ".html", ".htm"}
       \/ Last(u.file) \notin ForbExt

TestRobots(file) ==
    \/ opt.ignoreRobots
    \/ \A i \in DOMAIN site.forbidden : ~RobotsMatch(site.forbidden[i], file)

\* initOK: the url as it leaves, and why it is refused. A mutant: the cookies go
\* wherever the link leads.
InitOKAnywhere(u, from) ==
    [url |-> [u EXCEPT !.cookie = from.cookie],
     why |-> IF u.depth < 0 THEN "tooDeep" ELSE "success"]
InitOK(u, from) ==
    LET other == from.host # u.host
        v == [u EXCEPT
                !.depth = IF other /\ opt.depthBySite THEN DepthInSite ELSE @,
                !.cookie = IF ~other /\ opt.useCookies THEN from.cookie ELSE @]
        known == site.host = v.host /\ site.port = v.port
    IN [url |-> v,
        why |-> IF other /\ opt.lockSite THEN "outSite"
                ELSE IF v.depth < 0 THEN "tooDeep"
                ELSE IF known /\ site.state = "noDns" THEN "fastNoDns"
                ELSE IF known /\ site.state = "noConn" THEN "fastNoConn"
                ELSE IF known /\ site.state = "done" /\ ~TestRobots(v.file)
                     THEN "fastRobots"
                ELSE "success"]

Key(u) == [host |-> u.host, port |-> u.port, file |-> u.file]

\* manageUrl: what a page offers goes to check(), is refused, or is dropped
ManageUrl(c, u, isRedir) ==
    IF /\ IsValid(u) /\ Filter1(u)
       /\ opt.externalLinks \/ isRedir \/ u.host = c.here.host
    THEN [c EXCEPT !.offered = Append(@, InitOK(u, c.here))]
    ELSE c

\* check(): the offered urls that are new are written to the disk queue
Checked(c) ==
    LET new == {i \in DOMAIN c.offered :
                   /\ c.offered[i].why = "success"
                   /\ Key(c.offered[i].url) \notin seen
                   /\ \A j \in 1..(i-1) : c.offered[j].why = "success" =>
                          Key(c.offered[j].url) # Key(c.offered[i].url)}
    IN /\ seen' = seen \union {Key(c.offered[i].url) : i \in new}
       /\ waiting' = waiting \union
              {Serialize(c.offered[i].url, opt.useCookies) : i \in new}

-----------------------------------------------------------------------------
(* The header of a page, line by line *)

NotCgi(text) == opt.getCGI \/ ~Has(text, "?")

\* parseCmdline
ParseCmdline(c) ==
    CASE c.answer.code = "2" -> [c EXCEPT !.state = "HEADERS"]
      [] c.answer.code = "3" -> [c EXCEPT !.state = "HEADERS30X"]
      [] c.answer.code = "short" -> [c EXCEPT !.err = "earlyStop"]
      [] OTHER -> [c EXCEPT !.err = "err40X"]

\* parseHeader, with verifType, verifLength and newSpec; the value of a cookie
\* is the host that sets it
ParseHeader(c, line) ==
    CASE line.is = "blank" ->
            [c EXCEPT !.state = IF opt.specificSearch /\ c.interesting
                                THEN "SPECIFIC" ELSE "HTML"]
      [] line.is = "cookie" /\ opt.useCookies ->
            [c EXCEPT !.here.cookie = AddCookie(@, <<c.here.host>>)]
      [] line.is = "specific" /\ opt.specificSearch ->
            [c EXCEPT !.interesting = TRUE]
      [] \/ line.is = "specific" /\ ~opt.specificSearch /\ ~opt.anyType
         \/ line.is = "image" /\ ~opt.anyType /\ ~opt.getImage ->
            [c EXCEPT !.err = "badType"]
      [] line.is = "long" /\ ~opt.specificSearch -> [c EXCEPT !.err = "tooBig"]
      [] OTHER -> c

\* parseHeader30X: the location is followed at the same depth
ParseHeader30X(c, line) ==
    CASE line.is = "blank" -> [c EXCEPT !.err = "err40X"]
      [] line.is = "location" /\ NotCgi(line.text) ->
            [ManageUrl(c, UrlOf(line.text, c.here.depth, c.base), TRUE)
                EXCEPT !.err = "err30X"]
      [] line.is = "location" /\ ~NotCgi(line.text) -> [c EXCEPT !.err = "err30X"]
      [] OTHER -> c

ReadLine(c, i) ==
    CASE c.err # "success" \/ c.state \in {"HTML", "SPECIFIC"} -> c
      [] c.err = "success" /\ c.state = "ANSWER" -> ParseCmdline(c)
      [] c.err = "success" /\ c.state = "HEADERS" ->
            ParseHeader(c, c.answer.headers[i-1])
      [] c.err = "success" /\ c.state = "HEADERS30X" ->
            ParseHeader30X(c, c.answer.headers[i-1])

HeaderLines(c) == 1 + Len(c.answer.headers)
LinesIn(c, halves) == Min({halves \div 2, HeaderLines(c)})
BodyHalves(c) == Max({0, c.sent - 2 * HeaderLines(c)})

\* every line that is complete, from the first not yet read. A mutant: one line
\* at each call.
ReadLinesOne(c, from) ==
    IF from < LinesIn(c, c.sent) THEN ReadLine(c, from + 1) ELSE c
ReadLines(c, from) ==
    LET read[k \in from .. LinesIn(c, c.sent)] ==
            IF k = from THEN c ELSE ReadLine(read[k - 1], k)
    IN read[LinesIn(c, c.sent)]

\* html::inputHeaders, then the limit of pipeRead: a specific document is
\* written to its file as it comes (pipeSpec), so that its buffer never fills
\* and holds its last piece
PipeSpec(c, n) ==
    IF c.state = "SPECIFIC"
    THEN [c EXCEPT !.saved = BodyHalves(c), !.lastPiece = Min({n, BodyHalves(c)})]
    ELSE c
Limited(c) ==
    IF c.err = "success" /\ \/ c.state = "SPECIFIC" /\ c.saved >= MaxSpec
                            \/ c.state # "SPECIFIC" /\ c.sent >= MaxPage - 1
    THEN [c EXCEPT !.err = "tooBig"] ELSE c
PageInput(c, n) ==
    Limited(PipeSpec(ReadLines([c EXCEPT !.sent = @ + n], LinesIn(c, c.sent)), n))

-----------------------------------------------------------------------------
(* The body of a page *)

Links == [a |-> "href", link |-> "href", base |-> "href", frame |-> "src",
          img |-> "src"]
ParamLen == [href |-> 4, src |-> 3]

\* parseTag, after the parameter's name, skips a tag whose ">" is as far as
\* the name was long
Overlooked(tag) ==
    CharsOf(tag.text) + 1 + (IF tag.quoted THEN 2 ELSE 0) = ParamLen[Links[tag.name]]

\* parseContent for the href of a BASE tag: up to its last "/" after the host
OrNone(u) == IF IsValid(u) THEN u ELSE None
ParseBase(c, text) ==
    LET slashes == {k \in DOMAIN text :
                      text[k] = "/" /\ CharsOf(SubSeq(text, 1, k - 1)) > 7}
    IN IF slashes = {} THEN c
       ELSE [c EXCEPT !.base =
               OrNone(UrlOf(SubSeq(text, 1, Max(slashes)), 0, None))]

\* parseContent: a text that ends with the file may be cut, and is left. A
\* mutant: it is followed.
ParseContentCut(c, tag, atEnd) ==
    ManageUrl(c, UrlOf(tag.text, c.here.depth - 1, c.base), FALSE)
ParseContent(c, tag, atEnd) ==
    LET text == [i \in DOMAIN tag.text |->
                    IF tag.text[i] = "\\" THEN "/" ELSE tag.text[i]]
    IN IF atEnd \/ CharsOf(text) >= MaxUrl \/ ~NotCgi(text) THEN c
       ELSE IF tag.name = "base" THEN ParseBase(c, text)
       ELSE ManageUrl(c, UrlOf(text, c.here.depth - 1, c.base), FALSE)

\* parseTag
ParseTag(c, tag, atEnd) ==
    IF \/ tag.name \notin DOMAIN Links
       \/ tag.name = "img" /\ ~opt.getImage
       \/ ~atEnd /\ Overlooked(tag)
    THEN c ELSE ParseContent(c, tag, atEnd)

\* parseHtml: a comment that is not closed takes the rest of the page
ParseHtml(c, tags) ==
    LET hidden(i) == \E j \in 1 .. i : tags[j].name = "openComment"
        whole(i) == 2 * i <= BodyHalves(c)
        had(i) == IF whole(i) THEN tags[i]
                  ELSE [tags[i] EXCEPT !.text = Front(@)]
        parsed[i \in 0 .. Len(tags)] ==
            IF i = 0 THEN [c EXCEPT !.body = tags]
            ELSE IF hidden(i) THEN parsed[i - 1]
            ELSE ParseTag(parsed[i - 1], had(i), ~whole(i))
    IN parsed[Len(tags)]

\* hashDup::testSet reads the letters of what the buffer holds
Letters(c, tags) ==
    IF c.state = "SPECIFIC" THEN <<"piece", c.saved - c.lastPiece, c.saved>>
    ELSE [i \in DOMAIN tags |->
            SelectSeq(tags[i].text, LAMBDA u : u \notin {"/", ".", "?", "0xe9"})]
Duplicate(c, tags) ==
    opt.noDuplicate /\ c.state \in {"HTML", "SPECIFIC"} /\ Letters(c, tags) \in dup

\* html::endInput
PageEnd(c, tags) ==
    CASE c.state \in {"ANSWER", "HEADERS"} -> [c EXCEPT !.err = "earlyStop"]
      [] c.state = "HEADERS30X" -> [c EXCEPT !.err = "err40X"]
      [] Duplicate(c, tags) -> [c EXCEPT !.err = "duplicate"]
      [] c.state = "SPECIFIC" /\ ~Duplicate(c, tags) -> c
      [] c.state = "HTML" /\ ~Duplicate(c, tags) -> ParseHtml(c, tags)

-----------------------------------------------------------------------------
(* robots.txt: nextToken drops comments and takes blanks and ":" alike, so   *)
(* the file is a sequence of words.                                          *)

\* robots::inputHeaders
RobotsInput(c, n) ==
    LET d == [c EXCEPT !.sent = @ + n] IN
    CASE LinesIn(d, d.sent) > 0 /\ d.answer.code # "2" ->
            [d EXCEPT !.err = "err40X"]
      [] ~(LinesIn(d, d.sent) > 0 /\ d.answer.code # "2") /\ d.sent > MaxRobots ->
            [d EXCEPT !.err = "tooBig"]
      [] OTHER -> d

Agent == <<"user-agent">>
Disallow == <<"disallow">>
Rule(word) == FileNormalize(IF Head(word) = "*" THEN <<"/">> \o Tail(word)
                            ELSE IF Head(word) = "/" THEN word ELSE <<"/">> \o word)

\* what a word at the top of parseRobots' loop begins
Heading(r, word) ==
    CASE word = Agent /\ r.strength = 2 -> [r EXCEPT !.at = "done"]
      [] word = Agent /\ r.strength # 2 -> [r EXCEPT !.at = "agents", !.strength = 0]
      [] word = Disallow -> [r EXCEPT !.at = "rules"]
      [] OTHER -> [r EXCEPT !.at = "top"]

\* a new record that concerns us takes the place of the rules found before. A
\* mutant: it is put after them.
ForgetNone(r) == r
Forget(r) == IF r.strength = 0 THEN r ELSE [r EXCEPT !.rules = <<>>, !.items = 0]

ReadWord(r, word) ==
    CASE r.at = "done" -> r
      [] r.at = "top" -> Heading(r, word)
      [] r.at = "agents" /\ word = Agent -> Heading(Forget(r), word)
      [] r.at = "agents" /\ word = Disallow ->
            IF r.strength = 0 THEN [r EXCEPT !.at = "skip"]
            ELSE Heading(Forget(r), word)
      [] r.at = "agents" /\ word \notin {Agent, Disallow} ->
            [r EXCEPT !.strength = IF Has(word, "larbin") THEN 2
                                   ELSE IF r.strength = 0 /\ word = <<"*">> THEN 1
                                   ELSE r.strength]
      [] r.at = "skip" -> IF word = Agent THEN Heading(r, word) ELSE r
      [] r.at = "rules" /\ word \in {Agent, Disallow} -> Heading(r, word)
      [] r.at = "rules" /\ word \notin {Agent, Disallow} ->
            [r EXCEPT !.items = @ + 1,
                      !.rules = IF r.items < MaxItems /\ Rule(word) # Refused
                                THEN Append(@, Rule(word)) ELSE @]

\* parseRobots; a file that ends inside a line of agents is forgotten as well
ParseRobots(words) ==
    LET r == FoldLeft(ReadWord,
                 [at |-> "top", strength |-> 1, rules |-> <<>>, items |-> 0], words)
    IN IF r.at = "agents" THEN Forget(r).rules ELSE r.rules

\* the half of a word
Half(word) == IF word = <<"*">> THEN word
              ELSE IF Len(word) = 1 THEN <<"u">> ELSE Front(word)

\* robots::parse: after an error the last word, which may be cut, is dropped
RobotsRules(c, words) ==
    LET halves == Min({BodyHalves(c), 2 * Len(words)})
        cut == halves % 2 = 1
        whole == SubSeq(words, 1, halves \div 2)
    IN ParseRobots(IF cut /\ c.err = "success"
                   THEN Append(whole, Half(words[Len(whole) + 1])) ELSE whole)

\* robots::parse and NamedSite::robotsResult
RobotsEnd(c, words) ==
    LET parsed == c.answer.code = "2" /\ LinesIn(c, c.sent) = HeaderLines(c) IN
    site' = [site EXCEPT
        !.state = IF c.err = "noConnection" THEN "noConn" ELSE "done",
        !.forbidden = IF parsed THEN RobotsRules(c, words) ELSE @,
        !.had = IF parsed /\ BodyHalves(c) >= 2 * Len(words) THEN words ELSE None]

-----------------------------------------------------------------------------
(* Actions *)

\* input.cxx: an url a client submits
Submit(text) ==
    LET u == InputUrl(text, InputDepth) IN
    /\ seen = {}
    /\ IsValid(u)
    /\ seen' = {Key(u)}
    /\ waiting' = {Serialize(u, opt.useCookies)}
    /\ UNCHANGED <<opt, site, conn, dup, fetches>>

Parser(kind, here, answer) ==
    [kind |-> kind, here |-> here, first |-> here, base |-> GiveBase(here),
     answer |-> answer, sent |-> 0, lastPiece |-> 0, state |-> "ANSWER",
     err |-> "success", interesting |-> FALSE, saved |-> 0, offered |-> <<>>,
     body |-> <<>>]

\* the site lets its url go: it has no address, cannot be reached, or its rules
\* forbid it
TurnedAway(u) ==
    /\ site.host = u.host /\ site.port = u.port
    /\ site.state \in {"noDns", "noConn"} \/ ~TestRobots(u.file)

\* an url comes back from the disk queue and its page is asked for
FetchPage(line, answer) ==
    LET u == Reload(line, opt.useCookies) IN
    /\ conn.kind \in {"none", "over"}
    /\ fetches < MaxFetches /\ answer \in Answers[fetches + 1]
    /\ ~TurnedAway(u)
    /\ waiting' = waiting \ {line}
    /\ conn' = Parser("page", u, answer)
    /\ fetches' = fetches + 1
    /\ UNCHANGED <<opt, seen, site, dup>>

\* the first url of a host asks for its robots.txt
FetchRobots(line, answer) ==
    LET u == Reload(line, opt.useCookies) IN
    /\ conn.kind = "none" /\ site.host = None
    /\ site' = [site EXCEPT !.host = u.host, !.port = u.port]
    /\ conn' = Parser("robots", u, answer)
    /\ UNCHANGED <<opt, seen, waiting, dup, fetches>>

\* the name of the host has no address (dnsErr); what the last connection was is
\* forgotten
NoDns(line) ==
    LET u == Reload(line, opt.useCookies) IN
    /\ conn.kind \in {"none", "over"} /\ site.host = None
    /\ site' = [site EXCEPT !.host = u.host, !.port = u.port, !.state = "noDns"]
    /\ conn' = NoConn
    /\ UNCHANGED <<opt, seen, waiting, dup, fetches>>

\* what pipeRead asks for: up to the end of the buffer
Room(c) == MaxPage - 1 - (IF c.state = "SPECIFIC" THEN 2 * HeaderLines(c) ELSE c.sent)

Over(c) == [c EXCEPT !.kind = "over"]

\* a piece of n halves; after it the parser may not want any more
PagePiece(n) ==
    /\ conn.kind = "page" /\ n <= Room(conn)
    /\ \E c \in {PageInput(conn, n)} :
          /\ conn' = IF c.err = "success" THEN c ELSE Over(c)
          /\ Checked(c)
    /\ UNCHANGED <<opt, site, dup, fetches>>

RobotsPiece(n, words) ==
    /\ conn.kind = "robots" /\ n <= Room(conn)
    /\ \E c \in {RobotsInput(conn, n)} :
          /\ BodyHalves(c) <= 2 * Len(words)
          /\ \/ c.err = "success" /\ conn' = c /\ UNCHANGED site
             \/ c.err # "success" /\ conn' = NoConn /\ RobotsEnd(c, words)
    /\ UNCHANGED <<opt, seen, waiting, dup, fetches>>

\* the server closes, with the page whole or not
ClosePage(tags) ==
    /\ conn.kind = "page" /\ tags \in Bodies[fetches]
    /\ IF conn.state = "HTML"
       THEN BodyHalves(conn) \in {2 * Len(tags), 2 * Len(tags) - 1}
       ELSE tags = <<>>
    /\ \E c \in {PageEnd(conn, tags)} : conn' = Over(c) /\ Checked(c)
    /\ dup' = IF opt.noDuplicate /\ conn.state \in {"HTML", "SPECIFIC"}
              THEN dup \union {Letters(conn, tags)} ELSE dup
    /\ UNCHANGED <<opt, site, fetches>>

CloseRobots(words) ==
    /\ conn.kind = "robots"
    /\ BodyHalves(conn) <= 2 * Len(words)
    /\ conn' = NoConn
    /\ RobotsEnd(conn, words)
    /\ UNCHANGED <<opt, seen, waiting, dup, fetches>>

\* the connection breaks, or its time is up: a page is not parsed
BreakPage ==
    /\ conn.kind = "page"
    /\ conn' = Over([conn EXCEPT !.err = "earlyStop"])
    /\ UNCHANGED <<opt, seen, waiting, site, dup, fetches>>

BreakRobots(why, words) ==
    /\ conn.kind = "robots"
    /\ why = "noConnection" => conn.sent = 0
    /\ BodyHalves(conn) <= 2 * Len(words)
    /\ conn' = NoConn
    /\ RobotsEnd([conn EXCEPT !.err = why], words)
    /\ UNCHANGED <<opt, seen, waiting, dup, fetches>>

Next ==
    \/ \E text \in Seeds : Submit(text)
    \/ \E line \in waiting, answer \in UNION {Answers[i] : i \in 1..MaxFetches} :
          FetchPage(line, answer)
    \/ \E line \in waiting, answer \in RobotsAnswers : FetchRobots(line, answer)
    \/ \E line \in waiting : NoDns(line)
    \/ \E n \in 1..MaxPage : PagePiece(n)
    \/ \E n \in 1..MaxPage, words \in RobotsFiles : RobotsPiece(n, words)
    \/ \E tags \in UNION {Bodies[i] : i \in 1..MaxFetches} : ClosePage(tags)
    \/ \E words \in RobotsFiles : CloseRobots(words)
    \/ \E why \in {"earlyStop", "noConnection"}, words \in RobotsFiles :
          BreakRobots(why, words)
    \/ BreakPage

Spec == Init /\ [][Next]_vars

-----------------------------------------------------------------------------
(* Properties *)

\* What a parser makes of the bytes of a page does not depend on the pieces
\* they came in: at every moment, and when the parser wants no more of it,
\* all that was sent gives the same in one piece (inputHeaders is called
\* after each read and keeps state, posParse and area between its calls).
PiecesDontMatter ==
    \/ conn.kind = "page"
    \/ conn.kind = "over" /\ conn.err \in {"badType", "tooBig", "err30X"}
    => \E whole \in {PageInput(Parser("page", conn.first, conn.answer), conn.sent)} :
          /\ conn = [whole EXCEPT !.kind = conn.kind, !.lastPiece = conn.lastPiece]
          /\ conn.kind = "page" <=> whole.err = "success"

\* a path as its segments, resolved with a stack
Segments(path) ==
    LET cuts == <<0>> \o SetToSortSeq({i \in DOMAIN path : path[i] = "/"}, <)
                      \o <<Len(path) + 1>>
    IN [i \in 1 .. Len(cuts) - 1 |-> SubSeq(path, cuts[i] + 1, cuts[i + 1] - 1)]
Dots == {<<>>, <<".">>, <<".", ".">>}
PushSegment(st, seg) ==
    CASE seg \in {<<>>, <<".">>} \/ ~st.ok -> st
      [] seg = <<".", ".">> /\ st.ok ->
            IF st.dirs = <<>> THEN [st EXCEPT !.ok = FALSE]
            ELSE [st EXCEPT !.dirs = Front(@)]
      [] OTHER -> [st EXCEPT !.dirs = Append(@, seg)]
Resolved(path) ==
    LET segs == Segments(Tail(path))
        st == FoldLeft(PushSegment, [ok |-> TRUE, dirs |-> <<>>], segs)
        names == FlattenSeq([i \in DOMAIN st.dirs |-> <<"/">> \o st.dirs[i]])
    IN IF ~st.ok THEN Refused
       ELSE IF Last(segs) \in Dots THEN Append(names, "/") ELSE names

Plain(text) == \A i \in DOMAIN text :
    text[i] \notin DOMAIN Printable \union KeptEscapes \union BadEscapes
                    \union DOMAIN Extended \union {"#", "\\", "?"}

\* where a link of a page that has no BASE leads, by the text of the link
Target(c, text) ==
    LET full == Head(text) = "http://"
        path == CASE full -> SubSeq(text, IF Len(text) > 2 /\ text[3] # "/" THEN 4
                                          ELSE 3, Len(text))
                  [] Head(text) = "/" -> text
                  [] Head(text) = "http:" /\ Len(text) > 1 /\ text[2] = "/" -> Tail(text)
                  [] Head(text) = "http:" /\ ~(Len(text) > 1 /\ text[2] = "/") ->
                        GiveBase(c.first).file \o Tail(text)
                  [] OTHER -> GiveBase(c.first).file \o text
    IN [host |-> IF full THEN Lower[text[2]] ELSE c.first.host,
        port |-> IF ~full THEN c.first.port
                 ELSE IF Len(text) > 2 /\ text[3] \in DOMAIN PortOf
                 THEN PortOf[text[3]] ELSE 80,
        file |-> IF path = <<>> THEN <<"/">> ELSE Resolved(path)]

\* may the crawl, as it is configured, follow a link of this page there ?
Wanted(c, t) ==
    /\ t.file # Refused /\ IsValid(t) /\ Filter1(t)
    /\ t.host # c.first.host => opt.externalLinks /\ ~opt.lockSite
    /\ t.host = c.first.host \/ ~opt.depthBySite => c.first.depth > 0
    /\ site.host = t.host /\ site.port = t.port /\ site.state = "done"
         => TestRobots(t.file)
    /\ site.host = t.host /\ site.port = t.port => site.state \notin {"noDns", "noConn"}

\* A page gives the crawl the links of its whole tags and no other: never one
\* that the end of the page cuts short, each resolved as its segments say,
\* one level deeper in the site (manageUrl, parseWithBase, fileNormalize).
LinksRight ==
    conn.kind = "over" /\ conn.err = "success" /\ conn.state = "HTML" =>
        LET n == BodyHalves(conn) \div 2
            hidden == {i \in DOMAIN conn.body : conn.body[i].name = "openComment"}
            linking == {i \in 1..n :
                /\ conn.body[i].name \in {"a", "link", "frame"}
                      \union (IF opt.getImage THEN {"img"} ELSE {})
                /\ \A h \in hidden : i < h
                /\ ~Overlooked(conn.body[i])}
            targets == {Target(conn, conn.body[i].text) : i \in linking}
        IN /\ Plain(conn.first.file)
           /\ \A i \in DOMAIN conn.body : Plain(conn.body[i].text)
           /\ \A i \in DOMAIN conn.body :
                 conn.body[i].name # "base" /\ Head(conn.body[i].text) # "mailto:"
           => /\ {Key(conn.offered[i].url) :
                    i \in {k \in DOMAIN conn.offered : conn.offered[k].why = "success"}}
                   = {t \in targets : Wanted(conn, t)}
              /\ \A i \in DOMAIN conn.offered :
                    conn.offered[i].url.depth =
                       IF conn.offered[i].url.host # conn.first.host /\ opt.depthBySite
                       THEN DepthInSite ELSE conn.first.depth - 1

\* What waits on disk comes back as the url that was entered in the table, so
\* that it is known when it is met again; its cookies are those of its host;
\* and with lockSite it is of the site the crawl began with.
QueueKeeps ==
    \A line \in waiting :
        LET u == Reload(line, opt.useCookies) IN
        /\ Key(u) \in seen
        /\ ToSet(u.cookie) \subseteq {u.host, "; "}
        /\ opt.lockSite => \A k \in seen : k.host = u.host

\* the rules of the records of a robots.txt, one agent to a record
Records(words) ==
    LET heads == SetToSortSeq({i \in DOMAIN words : i = 1 \/ words[i] = Agent}, <)
                   \o <<Len(words) + 1>>
    IN [i \in 1 .. Len(heads) - 1 |-> SubSeq(words, heads[i], heads[i + 1] - 1)]
WellFormed(words) ==
    LET rs == Records(words) IN
    /\ \A i \in DOMAIN rs :
          /\ Len(rs[i]) % 2 = 0 /\ rs[i][1] = Agent
          /\ \A k \in 3..Len(rs[i]) :
                IF k % 2 = 1 THEN rs[i][k] = Disallow
                ELSE Head(rs[i][k]) = "/" /\ Plain(rs[i][k]) /\ ~Has(rs[i][k], "*")
    /\ Cardinality({i \in DOMAIN rs : rs[i][2] = <<"*">>}) <= 1
\* the record that names us, or else the one for every agent
OurRecord(words) ==
    LET rs == Records(words)
        ours == {i \in DOMAIN rs : Has(rs[i][2], "larbin")}
        every == {i \in DOMAIN rs : rs[i][2] = <<"*">>}
    IN IF ours # {} THEN rs[Min(ours)]
       ELSE IF every # {} THEN rs[Min(every)] ELSE <<>>

\* No page is asked for that the robots.txt of its site, received whole and
\* well formed, forbids to this agent, and none is refused that it allows
\* (parseRobots and its three states, robotsMatch).
RobotsObeyed ==
    site.had # None /\ WellFormed(site.had) /\ ~opt.ignoreRobots =>
        LET r == OurRecord(site.had)
            forbids(file) == \E k \in 3..Len(r) :
                k % 2 = 0 /\ IsPrefix(Resolved(r[k]), file)
        IN \A k \in seen : TestRobots(k.file) <=> ~forbids(k.file)
=============================================================================
