------------------------------ MODULE Clients ------------------------------
(***************************************************************************)
(* The input port (io/input.cxx): clients that submit urls, one a line,    *)
(* after a line with their priority. input() is called once in a turn of   *)
(* the main loop, with the answers of the last poll; the clients act while *)
(* the program polls, which is all that its reads can tell. A header or an *)
(* url is one byte of the model, beside "\r" and "\n".                     *)
(***************************************************************************)
EXTENDS Integers, FiniteSetsExt, SequencesExt

CONSTANTS Users,        \* who may connect; also the descriptors
          ListenFd,     \* inputFds
          MaxInput, BufSize,
          MaxLine,      \* maxUrlSize + 100
          Scripts,      \* what the clients may send: user -> bytes
          Headers,      \* right first lines -> [priority, test]; the numbers -1
                        \* and -2, which sscanf reads as well, are INIT and END
          ValidUrls     \* lines that make a valid url

ASSUME ClientsAssumption ==
    /\ MaxInput \in Nat \ {0, 1} /\ ListenFd \notin Users
    /\ MaxLine + 1 < BufSize - BufSize \div 2

VARIABLES inputConns, nbInput,          \* array of Input, and how many are open
          ansPoll, pollfds,             \* descriptors with an answer; to poll
          pc, at,                       \* where input() is, and the index i
          seen, urlsPriority, urlsDisk, \* where valid urls go
          script, sent, net, status,    \* the clients and the network
          taken                         \* history: lines taken as urls, by client
clientsVars == <<inputConns, nbInput, ansPoll, pollfds, pc, at, seen, urlsPriority,
                 urlsDisk, script, sent, net, status, taken>>
inputVars == <<inputConns, nbInput>>
queueVars == <<seen, urlsPriority, urlsDisk>>
netVars == <<script, sent, net, status>>

Fresh(fd) == [fds |-> fd, pos |-> 0, endPos |-> 0, endPosp |-> 0,
              priority |-> "INIT", test |-> FALSE, buffer |-> <<>>]

InitClients(scripts) ==
    /\ inputConns = [i \in 0 .. MaxInput - 1 |-> Fresh(ListenFd)] /\ nbInput = 0
    /\ ansPoll = {} /\ pollfds = {} /\ pc = "accept" /\ at = 0
    /\ seen = {} /\ urlsPriority = <<>> /\ urlsDisk = <<>>
    /\ script \in scripts /\ sent = [u \in Users |-> 0]
    /\ net = [u \in Users |-> <<>>] /\ status = [u \in Users |-> "away"]
    /\ taken = [u \in Users |-> <<>>]

Room == nbInput < MaxInput - 1
Connections == {inputConns[i].fds : i \in 0 .. nbInput - 1}
-----------------------------------------------------------------------------
(* The clients and the network: status goes from "away" to "called", when the *)
(* connection waits to be accepted, "open", "hungUp" and "over".              *)

Connect(u) == /\ pc = "poll" /\ status[u] = "away" /\ u \in DOMAIN script
              /\ status' = [status EXCEPT ![u] = "called"]
              /\ UNCHANGED <<inputVars, ansPoll, pollfds, pc, at, queueVars, script,
                             sent, net, taken>>

\* The next bytes of the script arrive, any number of them.
Send(u) == /\ pc = "poll" /\ status[u] = "open" /\ sent[u] < Len(script[u])
           /\ \E n \in sent[u] + 1 .. Len(script[u]) :
                 /\ sent' = [sent EXCEPT ![u] = n]
                 /\ net' = [net EXCEPT ![u] = @ \o SubSeq(script[u], sent[u] + 1, n)]
           /\ UNCHANGED <<inputVars, ansPoll, pollfds, pc, at, queueVars, script,
                          status, taken>>

HangUp(u) == /\ pc = "poll" /\ status[u] = "open" /\ sent[u] = Len(script[u])
             /\ status' = [status EXCEPT ![u] = "hungUp"]
             /\ UNCHANGED <<inputVars, ansPoll, pollfds, pc, at, queueVars, script,
                            sent, net, taken>>

Ready(fd) == IF fd = ListenFd THEN \E u \in Users : status[u] = "called"
             ELSE net[fd] # <<>> \/ status[fd] = "hungUp"

Poll == /\ pc = "poll" /\ pc' = "accept"
        /\ ansPoll' = {fd \in pollfds : Ready(fd)} /\ pollfds' = {}
        /\ UNCHANGED <<inputVars, at, queueVars, netVars, taken>>
-----------------------------------------------------------------------------
\* A new client, when the listening socket has an answer; then the socket is
\* polled again if another may come.
Accepted(u) ==
    /\ status' = [status EXCEPT ![u] = "open"]
    /\ inputConns' = [inputConns EXCEPT ![nbInput] = Fresh(u)]
    /\ nbInput' = nbInput + 1

Accept ==
    /\ pc = "accept" /\ pc' = "conn" /\ at' = 0
    /\ IF Room /\ ListenFd \in ansPoll
       THEN \E u \in Users : status[u] = "called" /\ Accepted(u)
       ELSE UNCHANGED <<inputVars, status>>
    /\ pollfds' = IF nbInput' < MaxInput - 1 THEN {ListenFd} ELSE {}
    /\ UNCHANGED <<ansPoll, queueVars, script, sent, net, taken>>

\* readMore: a line that is too long ends the connection; the buffer is moved
\* to its beginning when half of it is used up.
TooLong(in) == in.endPosp - in.pos > MaxLine
MoveAt(in) == 2 * in.pos > BufSize
Shifted(in) ==
    IF MoveAt(in)
    THEN [in EXCEPT !.endPos = @ - in.pos, !.endPosp = in.endPos - in.pos, !.pos = 0,
                    !.buffer = SubSeq(@, in.pos + 1, in.endPos)]
    ELSE in

ReadMore(in) ==
    LET s == Shifted(in)
        nb == Min({Len(net[in.fds]), BufSize - s.endPos})
        more == SubSeq(net[in.fds], 1, nb)
    IN IF TooLong(in)
       THEN inputConns' = [inputConns EXCEPT ![at].priority = "END"] /\ UNCHANGED net
       ELSE IF net[in.fds] = <<>> /\ status[in.fds] # "hungUp"      \* EAGAIN
       THEN inputConns' = [inputConns EXCEPT ![at] = s] /\ UNCHANGED net
       ELSE IF nb <= 0
       THEN inputConns' = [inputConns EXCEPT ![at] = [s EXCEPT !.priority = "END"]]
            /\ UNCHANGED net
       ELSE /\ inputConns' = [inputConns EXCEPT ![at] =
                    [s EXCEPT !.endPos = @ + nb, !.buffer = SubSeq(@, 1, s.endPos) \o more]]
            /\ net' = [net EXCEPT ![in.fds] = SubSeq(@, nb + 1, Len(@))]

Conn ==
    /\ pc = "conn" /\ at < nbInput
    /\ IF inputConns[at].fds \in ansPoll
       THEN /\ ReadMore(inputConns[at])
            /\ pc' = IF net' = net THEN "next" ELSE "line"
       ELSE pc' = "next" /\ UNCHANGED <<inputConns, net>>
    /\ UNCHANGED <<nbInput, ansPoll, pollfds, at, queueVars, script, sent, status, taken>>

\* readline: from pos to before the next "\n", without a "\r" before that
Ends(in) == {i \in in.endPosp + 1 .. in.endPos : in.buffer[i] = "\n"}
LineUpTo(in, end) ==
    LET line == SubSeq(in.buffer, in.pos + 1, end - 1)
    IN IF line # <<>> /\ Last(line) = "\r" THEN Front(line) ELSE line

\* The url is queued if it is valid and, for a client that asks for the test, new.
Submit(in, line) ==
    IF line \notin ValidUrls \/ (in.test /\ line \in seen) THEN UNCHANGED queueVars
    ELSE /\ seen' = seen \union {line}
         /\ IF in.priority # "0"
            THEN urlsPriority' = Append(urlsPriority, line) /\ UNCHANGED urlsDisk
            ELSE urlsDisk' = Append(urlsDisk, line) /\ UNCHANGED urlsPriority

\* (A client whose header says -1 gives another; one that says -2 is dropped
\* after the lines that came with it.)
TakeLine(in, end) ==
    LET line == LineUpTo(in, end)
        rest == [in EXCEPT !.pos = end, !.endPosp = end]
    IN IF in.priority = "INIT"
       THEN /\ inputConns' = [inputConns EXCEPT ![at] =
                 IF line \in DOMAIN Headers
                 THEN [rest EXCEPT !.priority = Headers[line].priority,
                                   !.test = Headers[line].test]
                 ELSE [rest EXCEPT !.priority = "END"]]
            /\ pc' = IF line \in DOMAIN Headers THEN "line" ELSE "next"
            /\ UNCHANGED <<queueVars, taken>>
       ELSE /\ Submit(in, line)
            /\ inputConns' = [inputConns EXCEPT ![at] = rest]
            /\ taken' = [taken EXCEPT ![in.fds] = Append(@, line)]
            /\ UNCHANGED pc

Line ==
    /\ pc = "line"
    /\ LET in == inputConns[at]
       IN IF Ends(in) # {} THEN TakeLine(in, Min(Ends(in)))
          ELSE /\ inputConns' = [inputConns EXCEPT ![at].endPosp = in.endPos]
               /\ pc' = "next" /\ UNCHANGED <<queueVars, taken>>
    /\ UNCHANGED <<nbInput, ansPoll, pollfds, at, netVars>>

\* (of NextIndex) goes on after the place where a connection ended
NextIndexPast(ended) == at + 1

\* A connection that ended changes places with the last one, which is next.
Swapped == [inputConns EXCEPT ![at] = inputConns[nbInput - 1],
                              ![nbInput - 1] = inputConns[at]]
NextIndex(ended) == IF ended THEN at ELSE at + 1

NextConn ==
    /\ pc = "next" /\ pc' = "conn"
    /\ LET in == inputConns[at] ended == in.priority = "END"
       IN /\ IF ended
             THEN /\ inputConns' = Swapped /\ nbInput' = nbInput - 1
                  /\ status' = [status EXCEPT ![in.fds] = "over"]
                  /\ UNCHANGED pollfds
             ELSE pollfds' = pollfds \union {in.fds} /\ UNCHANGED <<inputVars, status>>
          /\ at' = NextIndex(ended)
    /\ UNCHANGED <<ansPoll, queueVars, script, sent, net, taken>>

EndOfInput == /\ pc = "conn" /\ at = nbInput /\ pc' = "poll"
              /\ UNCHANGED <<inputVars, ansPoll, pollfds, at, queueVars, netVars, taken>>

MainInput == Poll \/ Accept \/ Conn \/ Line \/ NextConn \/ EndOfInput
NextClients == MainInput \/ \E u \in Users : Connect(u) \/ Send(u) \/ HangUp(u)
-----------------------------------------------------------------------------
(* What a client asks for: the lines of its script, each ended by "\n" *)

LineEnds(text) == {i \in DOMAIN text : text[i] = "\n"}
LinesOf(text) ==
    LET ends == SetToSortSeq(LineEnds(text), <)
        From(n) == IF n = 1 THEN 1 ELSE ends[n - 1] + 1
    IN [n \in DOMAIN ends |-> SelectSeq(SubSeq(text, From(n), ends[n] - 1), LAMBDA b : b # "\r")]

\* The line whose priority counts, if there is one: the first after headers that
\* leave the client as it was.
Header(text) ==
    LET lines == LinesOf(text)
    IN {k \in DOMAIN lines : /\ \A j \in 1 .. k : lines[j] \in DOMAIN Headers
                            /\ \A j \in 1 .. k : Headers[lines[j]].priority = "INIT" <=> j # k}
Asked(text) == Headers[LinesOf(text)[Min(Header(text))]]
UrlsOf(text) ==
    IF Header(text) = {} THEN <<>>
    ELSE SubSeq(LinesOf(text), Min(Header(text)) + 1, Len(LinesOf(text)))
Dropped(text) == Header(text) # {} /\ Asked(text).priority = "END"
Short(text) ==
    \A i \in 0 .. Len(text) - MaxLine - 1 : \E j \in i + 1 .. i + MaxLine + 1 : text[j] = "\n"

\* The urls of a client are taken from its lines, in order and each once, however
\* the bytes arrive and the buffer is moved (readMore, readline); all of them
\* before the connection is dropped, unless a line is longer than an url may be
\* or the priority was the mark of an end.
LinesTaken ==
    \A u \in DOMAIN script :
        /\ IsPrefix(taken[u], UrlsOf(script[u]))
        /\ status[u] = "over" /\ Short(script[u]) /\ ~Dropped(script[u]) =>
                taken[u] = UrlsOf(script[u])

\* At the end of input() just the open connections will be polled, and the
\* listening socket only when another client can be taken; no client has two
\* places. (A place that was freed after that test waits for the next turn.)
EachPolled ==
    pc = "poll" =>
        /\ pollfds \ {ListenFd} = Connections
        /\ ListenFd \in pollfds => Room
        /\ Cardinality(Connections) = nbInput
        /\ Connections = {u \in Users : status[u] \in {"open", "hungUp"}}

\* A valid url of a client is known and queued; once, if all who sent it asked
\* for the test, and only in the queue of a priority that somebody gave it.
UrlsQueued ==
    LET queued == urlsPriority \o urlsDisk
        Takers(v) == {u \in Users : Contains(taken[u], v)}
    IN /\ Range(queued) = seen
       /\ seen = {v \in ValidUrls : Takers(v) # {}}
       /\ \A v \in seen :
             /\ (\A u \in Takers(v) : Asked(script[u]).test) =>
                    Cardinality({i \in DOMAIN queued : queued[i] = v}) = 1
             /\ Contains(urlsPriority, v) => \E u \in Takers(v) : Asked(script[u]).priority # "0"

\* Whoever calls is taken, if the others hang up, and served until it hangs up.
ClientsServed == \A u \in Users : status[u] = "called" ~> status[u] = "over"
=============================================================================
