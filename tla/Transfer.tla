------------------------------ MODULE Transfer ------------------------------
(***************************************************************************)
(* The connections of larbin (fetch/fetch_pipe.cxx) between the main loop  *)
(* that polls them, the second that times them out and limits bandwidth    *)
(* (main.cxx), the opening of a socket (getFds) and the kernel. The urls   *)
(* not opened yet are numbers in `todo'; the parser of a page answers      *)
(* freely.                                                                 *)
(***************************************************************************)
EXTENDS Integers, FiniteSetsExt

CONSTANTS NbConn,       \* global::nb_conn
          Fds,          \* file descriptors, numbers
          InitFds,      \* sizePoll, the first size of ansPoll
          ReqLen,       \* length of a request
          MaxRead,      \* room of a connection's buffer, maxPageSize-1
          Chunks,       \* what a peer may send at once
          TimeoutPage, TimeoutIncr,
          LimitBand,    \* bytes in a second, 0 for no limit
          Todo,         \* pages and robots.txt to fetch
          Horizon       \* `seconds' counts so far, `silent' to TimeoutPage + 2

ASSUME TransferAssumption ==
    /\ NbConn \in Nat \ {0} /\ Fds \subseteq Nat /\ InitFds \in Nat \ {0}
    /\ ReqLen \in Nat \ {0} /\ MaxRead \in Nat \ {0}
    /\ Chunks \subseteq Nat \ {0} /\ \E b \in Chunks \union {0} : \A n \in Chunks : n <= b
    /\ TimeoutPage \in Nat /\ TimeoutIncr \in Nat \ {0}
    /\ LimitBand \in Nat /\ Horizon \in Nat
    /\ Todo \in [{"page", "robots"} -> Nat]

VARIABLES state, socket, timeout, kind,  \* Connexion, and its parser's class
          pos,                           \* written, then read, so far
          pollfds, ansPoll, maxFds,      \* descriptors to poll; with an event
          remainBand,
          todo,
          pc, ci, opening,               \* the call stack of the main thread
          kern, inq, eof,                \* the kernel's side of a socket
          total, seconds, silent         \* history: bytes, crons, crons since data

connVars == <<state, socket, timeout, kind, pos, silent>>
bandVars == <<remainBand, total, seconds>>
pollVars == <<pollfds, ansPoll, maxFds>>
kernVars == <<kern, inq, eof>>
vars == <<connVars, bandVars, pollVars, kernVars, todo, pc, ci, opening>>

Conns == 1 .. NbConn
Least(S) == Min(S)
Busy == {c \in Conns : state[c] # "empty"}

Init ==
    /\ state = [c \in Conns |-> "empty"] /\ socket = [c \in Conns |-> 0]
    /\ timeout = [c \in Conns |-> 0] /\ kind = [c \in Conns |-> "page"]
    /\ pos = [c \in Conns |-> 0] /\ silent = [c \in Conns |-> 0]
    /\ pollfds = {} /\ ansPoll = {} /\ maxFds = InitFds
    /\ remainBand = LimitBand /\ total = 0 /\ seconds = 0
    /\ todo = Todo
    /\ kern = [f \in Fds |-> "closed"]
    /\ inq = [f \in Fds |-> 0] /\ eof = [f \in Fds |-> FALSE]
    /\ pc = "loop" /\ ci = 1 /\ opening = FALSE
-----------------------------------------------------------------------------
\* The kernel and the peers. They act at any time; what they do is seen in
\* checkAll and by poll only, so they act there.

Answer(f, how) ==
    /\ kern[f] = "syn" /\ kern' = [kern EXCEPT ![f] = how]
    /\ UNCHANGED <<inq, eof>>

Arrive(f) ==
    /\ kern[f] = "up" /\ ~eof[f] /\ inq[f] = 0
    /\ \/ /\ \E n \in Chunks : inq' = [inq EXCEPT ![f] = n]
          /\ UNCHANGED <<kern, eof>>
       \/ /\ eof' = [eof EXCEPT ![f] = TRUE] /\ UNCHANGED <<kern, inq>>
       \/ /\ kern' = [kern EXCEPT ![f] = "reset"] /\ UNCHANGED <<inq, eof>>

Kernel == /\ pc = "check" /\ ~opening
          /\ \E f \in Fds : Arrive(f) \/ \E how \in {"up", "refused"} : Answer(f, how)
          /\ UNCHANGED <<connVars, bandVars, pollVars, todo, pc, ci, opening>>

\* An event for poll: with POLLOUT the connection is decided, with POLLIN
\* there is something to read.
Ready(f) ==
    \E c \in Busy : /\ socket[c] = f
                    /\ IF state[c] = "open" THEN inq[f] > 0 \/ eof[f] \/ kern[f] = "reset"
                                            ELSE kern[f] # "syn"
-----------------------------------------------------------------------------
\* global::verifMax, and a mutant: a table of n has no place for n.
GrownShort(f) == IF f <= maxFds THEN maxFds ELSE 2 * maxFds
Grown(f) == IF f < maxFds THEN maxFds
            ELSE IF f >= 2 * maxFds THEN f + maxFds ELSE 2 * maxFds

\* getFds for a page or a robots.txt, and what its callers do with the
\* connection: any free one, for the order of freeConns. connect may be over at
\* once, go on, or fail.
Open == \E k \in {"page", "robots"}, res \in {"write", "connecting", "empty"} :
    /\ (pc = "open" \/ opening) /\ todo[k] > 0
    /\ \E f \in Fds : kern[f] = "closed"
    /\ \E c \in Conns \ Busy :
       LET f == Least({g \in Fds : kern[g] = "closed"})
       IN /\ maxFds' = Grown(f)
          /\ todo' = [todo EXCEPT ![k] = @ - 1]
          /\ IF res = "empty" THEN UNCHANGED <<connVars, kernVars>>
             ELSE /\ state' = [state EXCEPT ![c] = res]
                  /\ timeout' = [timeout EXCEPT ![c] = TimeoutPage]
                  /\ kind' = [kind EXCEPT ![c] = k]
                  /\ pos' = [pos EXCEPT ![c] = 0]
                  /\ silent' = [silent EXCEPT ![c] = 0]
                  /\ kern' = [kern EXCEPT ![f] = IF res = "write" THEN "up" ELSE "syn"]
                  /\ socket' = [socket EXCEPT ![c] = f]
                  /\ UNCHANGED <<inq, eof>>
    /\ UNCHANGED <<bandVars, pollfds, ansPoll, pc, ci, opening>>

\* endOfFile: the socket is closed and the connection free (its fields, which
\* nothing reads before getFds sets them, are cleared). The end of a robots.txt
\* starts urls of its site (robotsResult), before the loop goes on.
Freed(c) ==
    /\ state' = [state EXCEPT ![c] = "empty"] /\ kind' = [kind EXCEPT ![c] = "page"]
    /\ socket' = [socket EXCEPT ![c] = 0] /\ timeout' = [timeout EXCEPT ![c] = 0]
    /\ pos' = [pos EXCEPT ![c] = 0] /\ silent' = [silent EXCEPT ![c] = 0]
    /\ opening' = (kind[c] = "robots")
\* Mutant: the socket is not closed.
EndNoClose(c) == Freed(c) /\ UNCHANGED kernVars
EndOfFile(c) ==
    /\ Freed(c)
    /\ kern' = [kern EXCEPT ![socket[c]] = "closed"]
    /\ inq' = [inq EXCEPT ![socket[c]] = 0] /\ eof' = [eof EXCEPT ![socket[c]] = FALSE]

RobotsDone == opening /\ opening' = FALSE
              /\ UNCHANGED <<connVars, bandVars, pollVars, kernVars, todo, pc, ci>>
-----------------------------------------------------------------------------
\* cron

NothingLeft == todo["page"] = 0 /\ todo["robots"] = 0 /\ Busy = {}

At(p) == pc = p /\ ~opening
Aged(n) == IF n < Horizon THEN n + 1 ELSE n

\* cron's answer stops the search; a mutant that ignores it, as waitBandwidth
\* does.
CronIgnored == FALSE
CronStops == NothingLeft

\* A second has passed in the main loop.
Second ==
    /\ At("loop")
    /\ IF CronStops THEN pc' = "end" /\ UNCHANGED ci
                      ELSE pc' = "timeouts" /\ ci' = 1
    /\ UNCHANGED <<connVars, bandVars, pollVars, kernVars, todo, opening>>

\* A turn of the loop in the same second.
SameSecond ==
    /\ At("loop") /\ pc' = "band"
    /\ UNCHANGED <<connVars, bandVars, pollVars, kernVars, todo, ci, opening>>

\* checkTimeout for one connection with time left, and mutants: the time is not
\* brought back to its limit; it does not pass.
TimeLeftUnlimited(c) == timeout[c] - 1
TimeLeftKept(c) == IF timeout[c] > TimeoutPage THEN TimeoutPage ELSE timeout[c]
TimeLeft(c) == IF timeout[c] > TimeoutPage THEN TimeoutPage ELSE timeout[c] - 1

CheckTimeout ==
    /\ At("timeouts") /\ ci <= NbConn /\ ci' = ci + 1
    /\ CASE ci \notin Busy -> UNCHANGED <<connVars, kernVars, opening>>
         [] ci \in Busy /\ timeout[ci] = 0 -> EndOfFile(ci)
         [] OTHER -> /\ timeout' = [timeout EXCEPT ![ci] = TimeLeft(ci)]
                     /\ silent' = [silent EXCEPT ![ci] = Min({@, TimeoutPage + 1}) + 1]
                     /\ UNCHANGED <<state, socket, kind, pos, kernVars, opening>>
    /\ UNCHANGED <<bandVars, pollVars, todo, pc>>

\* The new allowance, and a mutant: the debt is forgotten.
RefilledFresh == LimitBand
Refilled == IF remainBand > 0 THEN LimitBand ELSE remainBand + LimitBand

Refill ==
    /\ At("timeouts") /\ ci > NbConn /\ pc' = "band"
    /\ remainBand' = IF LimitBand # 0 THEN Refilled ELSE remainBand
    /\ seconds' = Aged(seconds)
    /\ UNCHANGED <<connVars, total, pollVars, kernVars, todo, ci, opening>>

\* waitBandwidth: cron for each second of the wait, whatever it answers; when
\* nothing is left it returns before the refill and the wait goes on.
WaitBandwidth ==
    /\ At("band") /\ LimitBand # 0 /\ remainBand < 0
    /\ IF NothingLeft THEN UNCHANGED <<pc, ci>> ELSE pc' = "timeouts" /\ ci' = 1
    /\ UNCHANGED <<connVars, bandVars, pollVars, kernVars, todo, opening>>
-----------------------------------------------------------------------------
\* The rest of a turn.

\* ansPoll becomes the events of the last poll; posPoll = 0.
\* (Between poll and here only cron runs: events of sockets it closed remain.)
CopyEvents ==
    /\ At("band") /\ (LimitBand = 0 \/ remainBand >= 0)
    /\ ansPoll' = pollfds /\ pollfds' = {} /\ pc' = "open"
    /\ UNCHANGED <<connVars, bandVars, maxFds, kernVars, todo, ci, opening>>

StartCheck ==
    /\ At("open") /\ pc' = "check" /\ ci' = 1
    /\ UNCHANGED <<connVars, bandVars, pollVars, kernVars, todo, opening>>

\* One connection of checkAll.
Turn == /\ At("check") /\ ci <= NbConn /\ ci' = ci + 1
        /\ UNCHANGED <<todo, pollVars, pc>>
Event == ci \in Busy /\ socket[ci] \in ansPoll
Spend(n) == /\ remainBand' = IF LimitBand # 0 THEN remainBand - n ELSE remainBand
            /\ total' = total + n
            /\ UNCHANGED seconds

\* (A read that would block does as much.)
NoEvent == /\ Turn /\ ~Event
           /\ UNCHANGED <<connVars, bandVars, kernVars, opening>>

\* pipeWrite
CanWrite == /\ Turn /\ Event /\ state[ci] \in {"connecting", "write"}
Peer == kern[socket[ci]]

\* getsockopt tells that the connection failed: noConnection; or write fails:
\* earlyStop.
WriteFails == /\ CanWrite /\ Peer \in {"refused", "reset"} /\ EndOfFile(ci)
              /\ UNCHANGED bandVars

\* write would block; the connection counts as established.
WriteLater == /\ CanWrite /\ Peer \in {"syn", "up"}
              /\ state' = [state EXCEPT ![ci] = "write"]
              /\ UNCHANGED <<socket, timeout, kind, pos, silent, bandVars, kernVars, opening>>

WriteSome ==
    /\ CanWrite /\ Peer = "up"
    /\ \E n \in 1 .. ReqLen - pos[ci] :
         /\ Spend(n)
         /\ IF pos[ci] + n = ReqLen
            THEN state' = [state EXCEPT ![ci] = "open"] /\ pos' = [pos EXCEPT ![ci] = 0]
            ELSE state' = [state EXCEPT ![ci] = "write"] /\ pos' = [pos EXCEPT ![ci] = @ + n]
    /\ UNCHANGED <<socket, timeout, kind, silent, kernVars, opening>>

\* pipeRead
CanRead == Turn /\ Event /\ state[ci] = "open"

ReadEnds == /\ CanRead /\ inq[socket[ci]] = 0 /\ (eof[socket[ci]] \/ Peer = "reset")
            /\ EndOfFile(ci)
            /\ UNCHANGED bandVars

\* What can be read at once.
Readable(c) == Min({inq[socket[c]], MaxRead - pos[c]})

\* Some bytes: the time grows with them; the page ends if the parser has
\* enough or the buffer is full.
ReadSome ==
    /\ CanRead /\ inq[socket[ci]] > 0
    /\ LET n == Readable(ci) IN
       /\ Spend(n)
       /\ \/ EndOfFile(ci)
          \/ /\ pos[ci] + n < MaxRead
             /\ timeout' = [timeout EXCEPT ![ci] = @ + n \div TimeoutIncr]
             /\ pos' = [pos EXCEPT ![ci] = @ + n]
             /\ silent' = [silent EXCEPT ![ci] = 0]
             /\ inq' = [inq EXCEPT ![socket[ci]] = @ - n]
             /\ UNCHANGED <<state, socket, kind, kern, eof, opening>>

\* The end of checkAll asks poll for every busy connection; poll.
Poll ==
    /\ At("check") /\ ci > NbConn /\ pc' = "loop"
    /\ pollfds' = {f \in Fds : Ready(f)}
    /\ UNCHANGED <<connVars, bandVars, ansPoll, maxFds, kernVars, todo, ci, opening>>

CheckAll == NoEvent \/ WriteFails \/ WriteLater \/ WriteSome \/ ReadEnds \/ ReadSome
Main == \/ Open \/ RobotsDone \/ Second \/ SameSecond \/ CheckTimeout \/ Refill
        \/ WaitBandwidth \/ CopyEvents \/ StartCheck \/ CheckAll \/ Poll
Next == Main \/ Kernel

\* The program runs and time passes; nothing is asked of the peers.
Fairness == WF_vars(Main) /\ SF_vars(Second)
Spec == Init /\ [][Next]_vars /\ Fairness
-----------------------------------------------------------------------------
\* Types.
TypeOK ==
    /\ state \in [Conns -> {"empty", "connecting", "write", "open"}]
    /\ socket \in [Conns -> Nat] /\ timeout \in [Conns -> Nat]
    /\ kind \in [Conns -> {"page", "robots"}] /\ pos \in [Conns -> Nat]
    /\ pollfds \subseteq Fds /\ ansPoll \subseteq Fds /\ maxFds \in Nat \ {0}
    /\ remainBand \in Int /\ total \in Nat /\ seconds \in 0 .. Horizon
    /\ todo \in [{"page", "robots"} -> Nat] /\ silent \in [Conns -> Nat]
    /\ kern \in [Fds -> {"closed", "syn", "refused", "up", "reset"}]
    /\ inq \in [Fds -> Nat] /\ eof \in [Fds -> BOOLEAN]
    /\ pc \in {"loop", "timeouts", "band", "open", "check", "end"}
    /\ ci \in 1 .. NbConn + 1 /\ opening \in BOOLEAN

\* Every open socket belongs to exactly one connection that is not free, and
\* ansPoll has room for it.
SocketsOwned ==
    /\ TypeOK
    /\ \A c \in Busy : /\ kern[socket[c]] # "closed" /\ socket[c] < maxFds
                       /\ \A d \in Busy : socket[d] = socket[c] => d = c
    /\ \A f \in Fds : kern[f] # "closed" => \E c \in Busy : socket[c] = f

\* The most one connection moves in a turn of checkAll.
Move == Max({ReqLen} \union Chunks)

\* What is moved in a time is limited by the allowance of that time and one
\* turn of the loop.
BandBound ==
    LimitBand # 0 /\ seconds < Horizon
        => total <= LimitBand * (seconds + 1) + NbConn * Move

\* A connection from which nothing comes is not kept.
SilenceBounded == \A c \in Busy : silent[c] <= TimeoutPage + 1

\* Every connection ends.
ConnectionsEnd == \A c \in Conns : state[c] # "empty" ~> state[c] = "empty"

\* When nothing is left the search ends, or it waits for bandwidth for ever.
EndsOrWaits == NothingLeft ~> \/ pc = "end"
                              \/ pc = "band" /\ NothingLeft /\ remainBand < 0

\* "Connection succesfull" (pipeWrite): a connection in state writeC is
\* connected, or was.
Connected == \A c \in Conns : state[c] = "write" => kern[socket[c]] \in {"up", "reset"}
=============================================================================
