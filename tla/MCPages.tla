------------------------------ MODULE MCPages ------------------------------
(* Small answers, bodies, robots.txt and names for Pages and Punycode.       *)
EXTENDS Pages, Punycode

MCLower == ("h1" :> "h1") @@ ("H1" :> "h1") @@ ("h2" :> "h2")
MCPortOf == (":80" :> 80) @@ (":81" :> 81)
MCWidth == ("http://" :> 7) @@ ("http:" :> 5) @@ ("mailto:" :> 7)
             @@ ("h1" :> 2) @@ ("H1" :> 2) @@ ("h2" :> 2) @@ (":80" :> 3)
             @@ (":81" :> 3) @@ (".gz" :> 3) @@ (".html" :> 5)
             @@ [e \in (DOMAIN Printable \ {"%252e"}) \union KeptEscapes
                         \union (BadEscapes \ {"%"}) |-> 3] @@ ("%252e" :> 5)

Base0 == [externalLinks |-> TRUE, lockSite |-> FALSE, depthBySite |-> FALSE,
          useCookies |-> TRUE, getCGI |-> FALSE, getImage |-> FALSE,
          anyType |-> FALSE, specificSearch |-> FALSE, noDuplicate |-> FALSE,
          ignoreRobots |-> FALSE]
MCOptions ==
    {Base0,
     [Base0 EXCEPT !.externalLinks = FALSE, !.depthBySite = TRUE, !.getImage = TRUE,
                   !.noDuplicate = TRUE, !.useCookies = FALSE],
     [Base0 EXCEPT !.lockSite = TRUE, !.specificSearch = TRUE, !.noDuplicate = TRUE]}

MCUnits ==
    {"/", ".", "..", "#", "?", "\\", "x", "y", "z", ".gz", ".html", "http://", "http:",
     "mailto:", "h1", "H1", "h2", ":81", "0xe9"}
      \union DOMAIN Printable \union KeptEscapes \union BadEscapes
MCSeeds == {<<"http://", "H1">>, <<"http://", "h1", ":81", "/", "x", "/", "y">>}
MCAccent == {<<"http://", "h1", "/", "0xe9", "/">>}

Line(kind) == [is |-> kind, text |-> <<>>]
To(text) == [is |-> "location", text |-> text]
Blank == Line("blank")
FirstAnswers ==
    {[code |-> "2", headers |-> <<Line("html"), Line("cookie"), Blank>>],
     [code |-> "2", headers |-> <<Line("cookie"), Line("specific"), Blank>>],
     [code |-> "2", headers |-> <<Line("long"), Line("image"), Blank>>],
     [code |-> "3", headers |-> <<Line("cookie"), To(<<"http://", "h2", "/", "x">>), Blank>>],
     [code |-> "3", headers |-> <<To(<<"x", "/", "..", "?">>), Blank>>],
     [code |-> "3", headers |-> <<Line("html"), Blank>>],
     [code |-> "4", headers |-> <<Blank>>],
     [code |-> "short", headers |-> <<Blank>>]}
MCAnswers == <<FirstAnswers,
               {[code |-> "2", headers |-> <<Line("cookie"), Blank>>],
                [code |-> "2", headers |-> <<Line("specific"), Blank>>],
                [code |-> "3", headers |-> <<To(<<"http://", "H1", "/", "x">>), Blank>>]}>>

MCRobotsAnswers == {[code |-> "2", headers |-> <<Blank>>], [code |-> "4", headers |-> <<Blank>>],
                    [code |-> "2", headers |-> <<Line("html"), Blank>>]}

\* every text of up to three units, and longer ones
Texts ==
    (BoundedSeq({"/", ".", "x"}, 3) \ {<<>>})
      \union {<<"/", "x">> \o t : t \in TupleOf({"/", "."}, 3)}
      \union {<<"http://", "h2", "/">>, <<"http://", "H1", ":81", "/", "x", ".gz">>,
              <<"http://", "h2", ":81">>, <<"http:", "x", ".html">>, <<"mailto:", "x">>,
              <<"x", "?", "y">>, <<"x", "\\", "y">>, <<"x", "/", ".", ".", "#", "y">>,
              <<"%2e", "%2e", "/", "x">>, <<"x", "%2f", "y">>, <<"x", "%00">>,
              <<"%252e">>, <<"x", "%20">>, <<"0xe9">>,
              [i \in 1..30 |-> "x"]}

Tag(kind, text) == [name |-> kind, quoted |-> TRUE, text |-> text]
First ==
    {<<>>} \union {<<Tag("a", t)>> : t \in Texts}
      \union {<<Tag("a", <<"y", "z">>), Tag("frame", t)>> :
                 t \in {<<"/", "x">>, <<"x", "y", "/">>}}
      \union {<<Tag("a", <<"http://", "h2", "/">>), Tag("link", <<"/", "x">>)>>,
              <<[Tag("a", <<"/", "x", "x">>) EXCEPT !.quoted = FALSE], Tag("img", <<"x", "y">>)>>,
              <<Tag("openComment", <<"x">>), Tag("link", <<"x", "x">>)>>,
              <<Tag("p", <<"x">>), Tag("img", <<"x", "y", "z">>)>>,
              <<Tag("base", <<"http://", "h2", "/", "x", "/", "y">>), Tag("a", <<"z", "z">>)>>,
              <<Tag("base", <<"/", "x", "x", "x", "x", "x", "x", "x", "/">>),
                Tag("a", <<"z", "z">>)>>}

Later == {<<>>, <<Tag("a", <<"http://", "h2", "/", "y">>)>>,
          <<Tag("a", <<".", ".", "/", "x", "y", "z">>)>>,
          <<Tag("a", <<"/", "x">>), Tag("link", <<"x", "/", "y">>)>>}
MCBodies == <<First, Later>>

Me == <<"larbin">>
Star == <<"*">>
For(agent, path) == <<Agent, agent, Disallow, path>>
MCRobots ==
    {<<>>,
     For(Star, <<"/", "x">>) \o For(Me, <<"/", "x", "/">>),
     For(Me, <<"/", "x", "/", ".", ".", "/", "y">>) \o For(Star, <<"/">>),
     For(Star, <<"/", "x", "/", "y">>) \o <<Disallow, <<"/", "y">>>>,
     For(Star, <<"/">>) \o For(<<"other">>, <<"/", "x">>),
     <<Agent, Me, Disallow, <<"x">>, <<"allow">>, <<"/", "y">>, Disallow, <<"*", "y">>>>}

\* a record for two agents, and one whose rules are followed by an "Allow"
MCRobotsGroup == {<<Agent, Me>> \o For(<<"other">>, <<"/">>)}

\* doc/configure.md:71 says ignoreRobots is what makes the crawl not keep to the
\* robots.txt protocol: without it, a rule under a line that names this agent is
\* kept to, whatever agents the other lines of its record name.
GroupObeyed ==
    site.had # None /\ ~opt.ignoreRobots /\ Contains(site.had, Me) =>
        LET last == Max({i \in DOMAIN site.had : site.had[i] = Disallow})
        IN \A k \in seen : IsPrefix(site.had[last + 1], k.file) => ~TestRobots(k.file)

\* The file of an url that normalize() accepted is accepted by it again, as the
\* part of the file of a relative link (url.cxx:562: false only for cgi-bin).
NormalAccepted == \A k \in seen : Normalize(GiveBase(Url(k.host, k.port, k.file, 0)).file) # Refused

-----------------------------------------------------------------------------
(* Names: the decoding of RFC 3492, beside which PunycodeHost is put *)

\* U+4E2D, U+56FD and U+FF01, "a", "-"
Characters == {<<228, 184, 173>>, <<229, 155, 189>>, <<239, 188, 129>>, <<97>>, <<45>>}
Ascii == <<<<97>>, <<98>>>>
MCLabels == BoundedSeq(Characters, 4) \ {<<>>}
CodePoint(bytes) ==
    IF Len(bytes) = 1 THEN bytes[1]
    ELSE (bytes[1] - 224) * 4096 + (bytes[2] - 128) * 64 + bytes[3] - 128
\* labels the conversion breaks: see FromUtf8
LastAlone(label) ==
    Len(label) > 1 /\ Len(Last(label)) = 1 /\ Len(label[Len(label) - 1]) = 3

RECURSIVE RefBias(_, _)
RefBias(k, delta) == IF delta > 455 THEN RefBias(k + 36, delta \div 35)
                     ELSE k + (36 * delta) \div (delta + 38)
RefAdapt(delta, n, first) ==
    LET d == delta \div (IF first THEN 700 ELSE 2) IN RefBias(0, d + d \div n)

\* the number at the head of digits, and how many of them it takes
RECURSIVE Number(_, _, _, _)
Number(digits, bias, k, w) ==
    LET t == Max({1, Min({26, k - bias})})
        more == Number(Tail(digits), bias, k + 36, w * (36 - t))
    IN IF Head(digits) < t THEN [v |-> Head(digits) * w, n |-> 1]
       ELSE [v |-> Head(digits) * w + more.v, n |-> more.n + 1]

RECURSIVE Decoded(_, _, _, _, _)
Decoded(out, digits, n, from, bias) ==
    IF digits = <<>> THEN out
    ELSE LET x == Number(digits, bias, 36, 1)
             len == Len(out) + 1
             at == (from + x.v) % len
             point == n + ((from + x.v) \div len)
         IN Decoded(InsertAt(out, at + 1, point), SubSeq(digits, x.n + 1, Len(digits)),
                    point, at + 1, RefAdapt(x.v, len, n = 128))

Points(label) == [i \in DOMAIN label |-> CodePoint(label[i])]
Read(written) == [i \in DOMAIN written |->
    Decoded(written[i].basic, written[i].digits, 128, 0, 72)]
Written(labels) ==
    PunycodeHost([i \in DOMAIN labels |-> FlattenSeq(labels[i])])

\* The name sent to the resolver decodes to the name of the url, for labels of
\* ASCII and of characters of three bytes, but those whose last character is
\* ASCII and comes after one of three bytes (punycode_host, punycode_encode).
\* It is about no variable: the states before the first url are enough.
PunycodeInverse ==
    seen = {} => \A label \in MCLabels : ~LastAlone(label) =>
        \A name \in {<<label>>, <<Ascii, label>>, <<label, Ascii>>} :
            Read(Written(name)) = [i \in DOMAIN name |-> Points(name[i])]

\* doc/configure.md:69: with punycode, larbin resolves domain names that are
\* not English, Chinese names for instance.
AnyName ==
    seen = {} => \A label \in MCLabels :
        Read(Written(<<label, Ascii>>)) = <<Points(label), Points(Ascii)>>
=============================================================================
