------------------------------- MODULE Shutdown -------------------------------
(***************************************************************************)
(* How larbin stops (utils/level.cxx, limit_time.cxx, limit_page.cxx,      *)
(* webserver.cxx, main.cxx): closeLevelUp is called by the main thread     *)
(* when nothing is left, by the two limit threads and by the handler of    *)
(* SIGINT, without a lock.  Each read and each write of a global variable  *)
(* is a step of its own.                                                   *)
(***************************************************************************)
EXTENDS Integers

CONSTANTS
    HttpPort, LimitTime, LimitPage,   \* options set
    HighLevels,     \* values of the option highLevelWebServer
    EarlySignals,   \* SIGINT may come before main calls searchOn
    Handlers        \* the calls of getSIGINT, bounded by the size of the set

Limits == {"time", "page"}
Callers == {"main"} \cup Limits \cup Handlers

\* LEVEL_SEARCH and LEVEL_WEBSERVER.
Search == 0
Webserver == 1

ASSUME OptionsAssumption ==
    /\ {HttpPort, LimitTime, LimitPage, EarlySignals} \subseteq BOOLEAN
    /\ HighLevels \subseteq BOOLEAN
    /\ Handlers \cap ({"main"} \cup Limits) = {}

VARIABLES
    highLevelWebServer,
    searchOn, webServerOn, closeLevel,
    main,       \* where main is
    web,        \* the webserver thread
    limit,      \* the threads pLimitTime ("time") and pLimitPage ("page")
    reached,    \* the limits that were reached
    call, got   \* where each caller is in closeLevelUp, the value it read

flagVars == <<highLevelWebServer, searchOn, webServerOn, closeLevel>>
threadVars == <<main, web, limit, reached>>
vars == <<flagVars, threadVars, call, got>>

Init ==
    /\ highLevelWebServer \in HighLevels
    /\ searchOn = FALSE /\ webServerOn = FALSE /\ closeLevel = 0
    /\ main = "boot" /\ web = "none"
    /\ limit = [c \in Limits |-> "none"]
    /\ reached = {}
    /\ call = [c \in Callers |-> "out"]
    /\ got = [c \in Callers |-> 0]

\* exit ends every thread.
Running == main # "exited"
-----------------------------------------------------------------------------
\* closeLevelUp: the caller c goes from one label to another.
Enter(c) == call' = [call EXCEPT ![c] = "switch"]
At(c, label) == Running /\ call[c] = label
Go(c, label) == call' = [call EXCEPT ![c] = label]

\* The level that is closed now; the mutant takes one for the other.
LevelSwapped == IF closeLevel = Search THEN Webserver ELSE Search
Level == closeLevel

Switch(c) ==
    /\ At(c, "switch")
    /\ Go(c, CASE Level = Search    -> "search"
               [] Level = Webserver -> "server"
               [] OTHER             -> "test")
    /\ UNCHANGED <<flagVars, threadVars, got>>

SearchIsOn(c) ==
    /\ At(c, "search")
    /\ Go(c, IF searchOn THEN "withServer" ELSE "test")
    /\ UNCHANGED <<flagVars, threadVars, got>>

\* Closing the search closes the webserver as well, except in high level mode;
\* the mutant has the option the wrong way round.
HighGoesToo == webServerOn /\ highLevelWebServer
GoesToo == webServerOn /\ ~highLevelWebServer

WithServer(c) ==
    /\ At(c, "withServer")
    /\ Go(c, IF GoesToo THEN "serverToo" ELSE "searchOff")
    /\ UNCHANGED <<flagVars, threadVars, got>>

ServerToo(c) ==
    /\ At(c, "serverToo")
    /\ webServerOn' = FALSE
    /\ Go(c, "searchOff")
    /\ UNCHANGED <<highLevelWebServer, searchOn, closeLevel, threadVars, got>>

\* searchOn = false, and a mutant that forgets it.
KeepSearch == UNCHANGED searchOn
StopSearch == searchOn' = FALSE

SearchOff(c) ==
    /\ At(c, "searchOff")
    /\ StopSearch
    /\ Go(c, "test")
    /\ UNCHANGED <<highLevelWebServer, webServerOn, closeLevel, threadVars, got>>

ServerIsOn(c) ==
    /\ At(c, "server")
    /\ Go(c, IF webServerOn THEN "serverOff" ELSE "test")
    /\ UNCHANGED <<flagVars, threadVars, got>>

ServerOff(c) ==
    /\ At(c, "serverOff")
    /\ webServerOn' = FALSE
    /\ Go(c, "test")
    /\ UNCHANGED <<highLevelWebServer, searchOn, closeLevel, threadVars, got>>

\* l >= closeLevel: the handler passes LEVEL_ALL (-1), the others
\* LEVEL_SEARCH.
MayRise(c) == c \in Handlers \/ Search >= closeLevel

Test(c) ==
    /\ At(c, "test")
    /\ Go(c, IF MayRise(c) THEN "read" ELSE "back")
    /\ UNCHANGED <<flagVars, threadVars, got>>

\* closeLevel++ reads and writes.
Read(c) ==
    /\ At(c, "read")
    /\ got' = [got EXCEPT ![c] = closeLevel]
    /\ Go(c, "write")
    /\ UNCHANGED <<flagVars, threadVars>>

\* The mutant counts down.
Lowered(c) == got[c] - 1
Raised(c) == got[c] + 1

Write(c) ==
    /\ At(c, "write")
    /\ closeLevel' = Raised(c)
    /\ Go(c, "back")
    /\ UNCHANGED <<highLevelWebServer, searchOn, webServerOn, threadVars, got>>

CloseLevelUp(c) ==
    \/ Switch(c) \/ SearchIsOn(c) \/ WithServer(c) \/ ServerToo(c) \/ SearchOff(c)
    \/ ServerIsOn(c) \/ ServerOff(c) \/ Test(c) \/ Read(c) \/ Write(c)
-----------------------------------------------------------------------------
\* The handler is registered; the webserver thread starts if it has a port.
Boot ==
    /\ main = "boot"
    /\ main' = "search"
    /\ web' = IF HttpPort THEN "starting" ELSE "none"
    /\ UNCHANGED <<flagVars, limit, reached, call, got>>

\* searchOn(), then the limit threads.
SearchOn ==
    /\ main = "search"
    /\ searchOn' = TRUE
    /\ main' = "limits"
    /\ UNCHANGED <<highLevelWebServer, webServerOn, closeLevel, web, limit, reached, call, got>>

IsSet(c) == IF c = "time" THEN LimitTime ELSE LimitPage

StartLimits ==
    /\ main = "limits"
    /\ main' = "loop"
    /\ limit' = [c \in Limits |-> IF IsSet(c) THEN "sleep" ELSE "none"]
    /\ UNCHANGED <<flagVars, web, reached, call, got>>

\* The main loop: its condition, and a turn in which cron finds nothing left.
LoopEnds ==
    /\ main = "loop" /\ ~searchOn
    /\ main' = "end"
    /\ UNCHANGED <<flagVars, web, limit, reached, call, got>>

NothingLeft ==
    /\ main = "loop"
    /\ main' = "close"
    /\ Enter("main")
    /\ UNCHANGED <<flagVars, web, limit, reached, got>>

Closed ==
    /\ main = "close" /\ call["main"] = "back"
    /\ main' = "end"
    /\ Go("main", "out")
    /\ UNCHANGED <<flagVars, web, limit, reached, got>>

\* while (webServerOn) sleep(1).
Exit ==
    /\ main = "end" /\ ~webServerOn
    /\ main' = "exited"
    /\ UNCHANGED <<flagVars, web, limit, reached, call, got>>

\* The webserver gets its socket or not; its loop leaves accept now and then.
WebStart ==
    /\ Running /\ web = "starting"
    /\ \/ web' = "on" /\ webServerOn' = TRUE
       \/ web' = "failed" /\ webServerOn' = FALSE
    /\ UNCHANGED <<highLevelWebServer, searchOn, closeLevel, main, limit, reached, call, got>>

WebEnd ==
    /\ Running /\ web = "on" /\ ~webServerOn
    /\ web' = "ended"
    /\ UNCHANGED <<flagVars, main, limit, reached, call, got>>

\* The time is over, or enough pages were fetched, which takes a search.
Reach(c) ==
    /\ Running /\ limit[c] # "none"
    /\ c = "page" => main = "loop"
    /\ reached' = reached \cup {c}
    /\ UNCHANGED <<flagVars, main, web, limit, call, got>>

\* pLimitTime and pLimitPage after each second of sleep: read searchOn (the
\* other read, in the loop of pLimitTime, sees no more), then look at the limit.
LimitSearch(c) ==
    /\ Running /\ limit[c] = "sleep"
    /\ limit' = [limit EXCEPT ![c] = IF searchOn THEN "look" ELSE "ended"]
    /\ UNCHANGED <<flagVars, main, web, reached, call, got>>

LimitLook(c) ==
    /\ Running /\ limit[c] = "look"
    /\ IF c \in reached
       THEN /\ limit' = [limit EXCEPT ![c] = "ended"]
            /\ Enter(c)
       ELSE /\ limit' = [limit EXCEPT ![c] = "sleep"]
            /\ UNCHANGED call
    /\ UNCHANGED <<flagVars, main, web, reached, got>>

\* SIGINT, handled by whatever thread the system gives it to, and another
\* one by another thread before the first handler returns.
Signal(h) ==
    /\ Running /\ main # "boot"
    /\ EarlySignals \/ main # "search"
    /\ call[h] = "out"
    /\ Enter(h)
    /\ UNCHANGED <<flagVars, threadVars, got>>

Done == main = "exited" /\ UNCHANGED vars

Main == Boot \/ SearchOn \/ StartLimits \/ LoopEnds \/ Closed \/ Exit

Next ==
    \/ Main \/ NothingLeft
    \/ WebStart \/ WebEnd
    \/ \E c \in Limits : Reach(c) \/ LimitSearch(c) \/ LimitLook(c)
    \/ \E c \in Callers : CloseLevelUp(c)
    \/ \E h \in Handlers : Signal(h)
    \/ Done

\* Every thread is scheduled, a limit that is set is reached some day, and
\* the webserver thread ends its start.  Nothing obliges cron to find
\* nothing left, the user to press Ctrl-C, or accept to return.
Fairness ==
    /\ WF_vars(Main) /\ WF_vars(WebStart)
    /\ \A c \in Limits :
          WF_vars(Reach(c)) /\ WF_vars(LimitSearch(c) \/ LimitLook(c))
    /\ \A c \in Callers : WF_vars(CloseLevelUp(c))

Spec == Init /\ [][Next]_vars
FairSpec == Spec /\ Fairness
-----------------------------------------------------------------------------
TypeOK ==
    /\ highLevelWebServer \in BOOLEAN
    /\ searchOn \in BOOLEAN /\ webServerOn \in BOOLEAN
    /\ closeLevel \in Nat
    /\ main \in {"boot", "search", "limits", "loop", "close", "end", "exited"}
    /\ web \in {"none", "starting", "on", "failed", "ended"}
    /\ limit \in [Limits -> {"none", "sleep", "look", "ended"}]
    /\ reached \subseteq Limits
    /\ call \in [Callers -> {"out", "switch", "search", "withServer", "serverToo",
                             "searchOff", "server", "serverOff", "test", "read",
                             "write", "back"}]
    /\ got \in [Callers -> Nat]

\* In high level mode the webserver is never closed under a search that goes
\* on, whatever callers meet in closeLevelUp.
ServerOutlivesSearch ==
    [][highLevelWebServer /\ webServerOn /\ ~webServerOn' => ~searchOn]_vars

\* A limit that is reached ends the search, also when the other limit,
\* Ctrl-C or the end of the urls come at the same time.
LimitStops == \A c \in Limits : c \in reached ~> ~searchOn

\* Without the option, a webserver that started before anybody began to close
\* ends with the search, and the program with it.
LowServerEnds ==
    (/\ ~highLevelWebServer /\ main = "loop" /\ web = "on"
     /\ \A c \in Callers : call[c] = "out")  ~>  main = "exited"

\* "the webserver still runs when larbin has stopped crawling" (doc/
\* configure.md, highLevelWebserver): only Ctrl-C, of a user who looks at it,
\* closes it.
HighServerStays ==
    [][highLevelWebServer /\ webServerOn /\ ~webServerOn'
           => \E h \in Handlers : call[h] = "serverOff"]_vars

\* The same line of the doc, of a webserver without the option: it is not on
\* any more when the search is off.
LowServerCloses == ~highLevelWebServer /\ main = "end" => ~webServerOn

\* "level" (types.h): there are two levels to close, and a webserver that is
\* on is closed by one of the signals still to come.
ServerCanBeClosed == webServerOn => closeLevel <= Webserver

\* main registers the handler before it starts the search, for Ctrl-C to
\* close it: while the search is on, its level is not closed.
SearchCanBeClosed == main = "loop" /\ searchOn => closeLevel = Search
=============================================================================
