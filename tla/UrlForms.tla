------------------------------ MODULE UrlForms ------------------------------
(* How url.cxx and text.cxx read, normalise, store and compare urls.         *)
(*                                                                           *)
(* A text is a sequence of units. A unit is one character, the name of a     *)
(* host, a port with its colon, "http://", "http:", "mailto:" (standing for  *)
(* any protocol that is not followed), or an escape "%xx";                   *)
(* Width gives its characters. A file begins with "/", so <<>> is no file.   *)
EXTENDS Integers, SequencesExt, FiniteSetsExt

CONSTANTS
    None,
    Lower,          \* host as spelled |-> host in lower case
    PortOf,         \* ":80" |-> 80, ...
    Width,          \* unit |-> its characters (1 when it is not listed)
    MaxUrl,         \* maxUrlSize
    MaxSite,        \* maxSiteSize
    MaxCookie       \* maxCookieSize

ASSUME UrlConstants ==
    /\ {MaxUrl, MaxSite, MaxCookie} \subseteq Nat \ {0}
    /\ \A u \in DOMAIN Width : Width[u] \in Nat \ {0}
    /\ \A p \in DOMAIN PortOf : PortOf[p] \in Nat

\* What fileNormalize makes of an escape. "%252e" is "%25" followed by "2e":
\* its "%25" becomes "%" and the walk is then past it.
Printable == [e \in {"%2e", "%2f", "%23", "%252e"} |->
    CASE e = "%2e" -> "." [] e = "%2f" -> "/" [] e = "%23" -> "#" [] e = "%252e" -> "%2e"]
KeptEscapes == {"%20"}
\* a control character, a byte outside ASCII, a "%" without two digits
BadEscapes == {"%00", "%e9", "%"}
\* bytes outside ASCII, that normalize() writes as escapes
Extended == [u \in {"0xe9"} |-> "%e9"]

CharsOf(text) ==
    FoldLeft(LAMBDA n, u : n + (IF u \in DOMAIN Width THEN Width[u] ELSE 1), 0, text)

-----------------------------------------------------------------------------
(* text.cxx *)

\* Does text begin with a ?
StartWith(a, text) == IsPrefix(a, text)

\* Does text end with a ?
EndWith(a, text) == IsSuffix(a, text)

Has(text, u) == u \in ToSet(text)
FirstAt(text, u) == Min({i \in DOMAIN text : text[i] = u})
LastAt(text, u) == Max({i \in DOMAIN text : text[i] = u})

\* Is file forbidden by pattern ? A "*" jumps to the first place where the
\* unit that follows it occurs, and never tries a later one.
RobotsMatch(pattern, file) ==
    LET from(f, u) == {k \in f .. Len(file) : file[k] = u}
        \* is the file from f on forbidden by the pattern from p on ?
        match[p \in 1 .. Len(pattern) + 1, f \in 1 .. Len(file) + 1] ==
            \/ p > Len(pattern)
            \/ p = Len(pattern) /\ pattern[p] = "*"
            \/ /\ p < Len(pattern) /\ pattern[p] = "*" /\ pattern[p + 1] # "*"
               /\ from(f, pattern[p + 1]) # {}
               /\ match[p + 1, Min(from(f, pattern[p + 1]))]
            \/ /\ p <= Len(pattern) /\ pattern[p] # "*"
               /\ f <= Len(file) /\ pattern[p] = file[f]
               /\ match[p + 1, f + 1]
    IN match[1, 1]

-----------------------------------------------------------------------------
(* fileNormalize: out is what the walk has passed, rest what it looks at; *)
(* a step passes a unit at least, so it is over after as many as there are.*)

Refused == <<>>

Walk(w) ==
    LET out == w.out
        rest == w.rest
        after(n) == SubSeq(rest, n + 1, Len(rest))
        parent == SubSeq(out, 1, LastAt(out, "/") - 1)
        passed == IF Head(rest) \in DOMAIN Printable
                  THEN Printable[Head(rest)] ELSE Head(rest)
        to(o, r) == [out |-> o, rest |-> r]
    IN CASE rest = <<>> \/ Head(rest) = "#" -> to(out, <<>>)
         [] StartWith(<<"/", ".", "/">>, rest) -> to(out, after(2))
         [] StartWith(<<"/", "/">>, rest) -> to(out, after(1))
         [] StartWith(<<"/", ".", ".", "/">>, rest) /\ out # <<>> ->
                to(parent, after(3))
         [] rest = <<"/", ".">> -> to(Append(out, "/"), <<>>)
         [] rest = <<"/", ".", ".">> /\ out # <<>> -> to(Append(parent, "/"), <<>>)
         [] StartWith(<<"/", ".", ".", "/">>, rest \o <<"/">>) /\ out = <<>> ->
                to(Refused, <<>>)
         [] rest # <<>> /\ Head(rest) \in BadEscapes -> to(Refused, <<>>)
         [] OTHER -> to(Append(out, passed), after(1))

FileNormalize(file) ==
    LET walk[k \in 0 .. Len(file)] ==
            IF k = 0 THEN [out |-> <<>>, rest |-> file] ELSE Walk(walk[k - 1])
    IN walk[Len(file)].out

\* normalize: the bytes outside ASCII that are left are written as escapes
Escaped(file) ==
    [i \in DOMAIN file |->
        IF file[i] \in DOMAIN Extended THEN Extended[file[i]] ELSE file[i]]
Normalize(file) == Escaped(FileNormalize(file))

-----------------------------------------------------------------------------
(* Urls *)

Url(host, port, file, depth) ==
    [host |-> host, port |-> port, file |-> file, depth |-> depth, cookie |-> <<>>]
NoUrl(depth) == Url(None, 80, <<>>, depth)

\* parse: the host in lower case up to "/", ":" or the end, then a port, then
\* the file, or "/"
Parse(text, depth) ==
    IF text = <<>> \/ Head(text) \notin DOMAIN Lower THEN NoUrl(depth)
    ELSE LET named == Len(text) > 1 /\ text[2] \in DOMAIN PortOf
             file == SubSeq(text, IF named THEN 3 ELSE 2, Len(text))
         IN Url(Lower[Head(text)], IF named THEN PortOf[text[2]] ELSE 80,
                IF StartWith(<<"/">>, file) THEN file ELSE <<"/">>, depth)

\* what is left of an url once its file is normalised
WithFile(u, file) ==
    IF u.host = None \/ file = Refused THEN NoUrl(u.depth) ELSE [u EXCEPT !.file = file]

\* parseWithBase: the file is put after the directory of the base
ParseWithBase(text, depth, from) ==
    WithFile(Url(from.host, from.port, <<>>, depth),
             Normalize(IF StartWith(<<"/">>, text) THEN text ELSE from.file \o text))

\* an url in full, as a client of the input port or a page gives it
Absolute(text, depth) ==
    LET u == Parse(Tail(text), depth) IN WithFile(u, Normalize(u.file))

\* the url of a link; from is None when the page has no base
UrlOf(text, depth, from) ==
    IF StartWith(<<"http://">>, text) THEN Absolute(text, depth)
    ELSE IF from = None THEN NoUrl(depth)
    ELSE IF StartWith(<<"mailto:">>, text) THEN NoUrl(depth)
    ELSE ParseWithBase(IF StartWith(<<"http:">>, text) THEN Tail(text) ELSE text,
                       depth, from)

\* the constructor used by input
InputUrl(text, depth) ==
    IF StartWith(<<"http://">>, text) THEN Absolute(text, depth) ELSE NoUrl(depth)

IsValid(u) ==
    /\ u.host # None /\ u.file # <<>>
    /\ CharsOf(<<u.host>>) < MaxSite
    /\ CharsOf(<<u.host>>) + CharsOf(u.file) + 18 < MaxUrl

\* giveBase: the directory of the url, a new url without its cookies
GiveBase(u) == Url(u.host, u.port, SubSeq(u.file, 1, LastAt(u.file, "/")), 0)

\* writeUrl: the text of a request to a proxy, of an index, of a report
WriteUrl(u) ==
    <<"http://", u.host>>
      \o (IF u.port = 80 THEN <<>>
          ELSE <<CHOOSE p \in DOMAIN PortOf : PortOf[p] = u.port>>)
      \o u.file

\* hashCode reads the port, the host and the file
SameHash(u, v) == u.port = v.port /\ u.host = v.host /\ u.file = v.file

-----------------------------------------------------------------------------
(* The line of a disk queue. With cookies, a blank separates the file from   *)
(* the cookie, and the first blank is taken for it.                          *)

Serialize(u, useCookies) ==
    [depth |-> u.depth, host |-> u.host, port |-> u.port,
     rest |-> u.file \o (IF useCookies /\ u.cookie # <<>>
                         THEN <<" ">> \o u.cookie ELSE <<>>)]

Reload(line, useCookies) ==
    LET split == useCookies /\ Has(line.rest, " ")
        at == FirstAt(line.rest, " ")
    IN [host |-> line.host, port |-> line.port, depth |-> line.depth,
        file |-> IF split THEN SubSeq(line.rest, 1, at - 1) ELSE line.rest,
        cookie |-> IF split THEN SubSeq(line.rest, at + 1, Len(line.rest))
                   ELSE <<>>]

\* addCookie: the value up to ";" is put after the old ones, and what passes
\* the buffer is lost
AddCookie(cookie, value) ==
    LET whole == IF cookie = <<>> THEN value ELSE cookie \o <<"; ">> \o value
    IN SubSeq(whole, 1, Min({Len(whole), MaxCookie - 1}))

=============================================================================
