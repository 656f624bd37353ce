----------------------------- MODULE WebServer -----------------------------
(***************************************************************************)
(* How the webserver reads a request and chooses a page                    *)
(* (utils/webserver.cxx:835-967): the bytes come in pieces, and what is    *)
(* read so far is judged after each. The name of a file is two bytes of    *)
(* the model, its stem and the rest.                                       *)
(***************************************************************************)
EXTENDS Integers, FiniteSetsExt, SequencesExt

CONSTANTS Requests,      \* what the peer sends before it waits for the answer
          WebBufSize     \* BUF_SIZE

VARIABLES request, arrived,             \* the peer: how much it sent
          buf, pos, endFile, blank,     \* blank: where the name was cut off
          answer
webVars == <<request, arrived, buf, pos, endFile, blank, answer>>

Pending == "none"
Refused == "wrong method"
Unread == "nothing read"
Method == <<"G", "E", "T", " ">>

InitWeb(requests) ==
           /\ request \in requests /\ arrived = 0
           /\ buf = <<>> /\ pos = 0 /\ endFile = FALSE /\ blank = 0
           /\ answer = Pending

\* Where parseRequest stops in the text it has, from the state it was left in:
\* an error in the method, the end of the name, then the blank line.
WrongMethod(text, from) == \E i \in from + 1 .. Len(Method) : i \in DOMAIN text /\ text[i] # Method[i]
Spaces(text, from) == {i \in from + 1 .. Len(text) : text[i] = " "}
Whole(text) == text[Len(text)] = "\n" /\ text[Len(text) - 2] = "\n"

\* manageAns: the page for a name
Name(text, end) == SubSeq(text, Len(Method) + 1, end - 1)
Page(name) ==
    CASE Len(name) >= 2 /\ name[1] = "/output" /\ name[2] = ".html" -> "output"
      [] name = <<"/dns", ".html">> -> "urls of dnsSites"
      [] name = <<"/urls", ".html">> -> "urls of okSites"
      [] name = <<"/all", ".html">> -> "stats, graphs and debug"
      [] name = <<"/system", ".html">> -> "debug"
      [] name = <<"/histograms", ".html">> -> "graphs"
      [] name = <<"/stats", ".html">> -> "stats"
      [] OTHER -> "stats and graphs"

\* A piece is read behind what is there (readRequest), as long as there is room,
\* and parsed.
ReadPiece(n) ==
    LET text == buf \o SubSeq(request, arrived + 1, n)
        name == Max({pos, Len(Method)})         \* where the search of the name's end begins
        ends == IF endFile THEN {blank} ELSE Spaces(text, name)
    IN /\ answer = Pending /\ n \in arrived + 1 .. Min({Len(request), WebBufSize})
       /\ arrived' = n /\ buf' = text /\ pos' = Len(text)
       /\ IF pos < Len(Method) /\ WrongMethod(text, pos)
          THEN answer' = Refused /\ UNCHANGED <<endFile, blank>>
          ELSE IF Len(text) <= Len(Method) \/ ends = {}
          THEN UNCHANGED <<endFile, blank, answer>>
          ELSE /\ endFile' = TRUE /\ blank' = Min(ends)
               /\ answer' = IF Len(text) > Min(ends) /\ Whole(text)
                            THEN Page(Name(text, Min(ends))) ELSE Pending
       /\ UNCHANGED request

\* read gives nothing: the peer is gone, the call failed, or the buffer is full.
ReadNothing == /\ answer = Pending /\ answer' = Unread
               /\ UNCHANGED <<request, arrived, buf, pos, endFile, blank>>

NextWeb == (\E n \in DOMAIN request : ReadPiece(n)) \/ ReadNothing
-----------------------------------------------------------------------------
\* The answer to a request is the page its name asks for, and comes when the
\* blank line has: neither depends on the pieces the request came in. A request
\* is given up for its method only, or before its blank line could be read.
RequestUnderstood ==
    LET ends == Spaces(request, Len(Method))
        ended == IsPrefix(Method, request) /\ ends # {}
                   /\ IsSuffix(<<"\r", "\n", "\r", "\n">>, SubSeq(request, 1, arrived))
    IN /\ answer \notin {Pending, Refused, Unread} =>
            ended /\ answer = Page(Name(request, Min(ends)))
       /\ answer = Refused => ~IsPrefix(Method, request)
       /\ answer \in {Pending, Unread} /\ arrived = Len(request) => ~ended
=============================================================================
