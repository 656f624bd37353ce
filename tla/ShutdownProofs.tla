---------------------------- MODULE ShutdownProofs ----------------------------
(***************************************************************************)
(* Proofs about Shutdown, for every choice of the options and any number   *)
(* of signals that come after main has called searchOn.                    *)
(***************************************************************************)
EXTENDS Shutdown, TLAPS

\* Before the search is on nobody closes a level.
NotBefore ==
    main \in {"boot", "search"} =>
        /\ ~searchOn /\ closeLevel = 0
        /\ limit = [c \in Limits |-> "none"]
        /\ \A c \in Callers : call[c] = "out"

\* A level is raised, or the second one closed, only after the search is off.
SearchFirst ==
    /\ closeLevel # 0 => ~searchOn
    /\ \A c \in Callers :
          call[c] \in {"server", "serverOff", "test", "read", "write"} => ~searchOn
    /\ \A c \in Callers : call[c] = "serverToo" => ~highLevelWebServer

\* The webserver is on only after its thread has started.
ServerStarted == webServerOn => web \notin {"none", "starting"}

IInv == TypeOK /\ NotBefore /\ SearchFirst /\ (main = "boot" => web = "none") /\ ServerStarted

\* The invariant holds at the start.
LEMMA InitInv == Init => IInv
  <1> SUFFICES ASSUME Init PROVE IInv
      OBVIOUS
  <1>1. TypeOK
      BY OptionsAssumption DEF Init, TypeOK
  <1>2. NotBefore
      BY DEF Init, NotBefore
  <1>3. SearchFirst
      BY DEF Init, SearchFirst
  <1> QED
      BY <1>1, <1>2, <1>3 DEF Init, IInv, ServerStarted

\* A step of closeLevelUp keeps the invariant.
LEMMA CallInv ==
    ASSUME ~EarlySignals, IInv, NEW c \in Callers, CloseLevelUp(c)
    PROVE  IInv'
  <1> USE DEF IInv, At, Go, Running, flagVars, threadVars
  <1>0. /\ TypeOK /\ NotBefore /\ SearchFirst /\ ServerStarted
        /\ main \notin {"boot", "search"}
        /\ UNCHANGED <<highLevelWebServer, threadVars>>
        /\ searchOn' = searchOn \/ searchOn' = FALSE
        /\ webServerOn' = webServerOn \/ webServerOn' = FALSE
      BY DEF CloseLevelUp, Switch, SearchIsOn, WithServer, ServerToo, SearchOff, StopSearch,
         ServerIsOn, ServerOff, Test, Read, Write, NotBefore
  <1>1. TypeOK'
    <2>1. searchOn' \in BOOLEAN /\ webServerOn' \in BOOLEAN
        BY <1>0 DEF TypeOK
    <2>2. closeLevel' \in Nat /\ got' \in [Callers -> Nat]
        BY <1>0 DEF CloseLevelUp, Switch, SearchIsOn, WithServer, ServerToo, SearchOff,
           ServerIsOn, ServerOff, Test, Read, Write, Raised, TypeOK
    <2>3. call' \in [Callers -> {"out", "switch", "search", "withServer", "serverToo",
                                 "searchOff", "server", "serverOff", "test", "read",
                                 "write", "back"}]
        BY <1>0 DEF CloseLevelUp, Switch, SearchIsOn, WithServer, ServerToo, SearchOff,
           ServerIsOn, ServerOff, Test, Read, Write, TypeOK
    <2> QED
        BY <1>0, <2>1, <2>2, <2>3 DEF TypeOK
  <1>2. NotBefore' /\ ServerStarted'
      BY <1>0 DEF NotBefore, ServerStarted
  <1>3. SearchFirst'
    <2>1. CASE Switch(c)
        BY <2>1, <1>0 DEF Switch, Level, SearchFirst, TypeOK, Search, Webserver
    <2>2. CASE SearchIsOn(c)
        BY <2>2, <1>0 DEF SearchIsOn, SearchFirst, TypeOK
    <2>3. CASE WithServer(c)
        BY <2>3, <1>0 DEF WithServer, GoesToo, SearchFirst, TypeOK
    <2>4. CASE ServerToo(c) \/ SearchOff(c)
        BY <2>4, <1>0 DEF ServerToo, SearchOff, StopSearch, SearchFirst, TypeOK
    <2>5. CASE ServerIsOn(c) \/ ServerOff(c)
        BY <2>5, <1>0 DEF ServerIsOn, ServerOff, SearchFirst, TypeOK
    <2>6. CASE Test(c) \/ Read(c)
        BY <2>6, <1>0 DEF Test, Read, SearchFirst, TypeOK
    <2>7. CASE Write(c)
        BY <2>7, <1>0 DEF Write, SearchFirst, TypeOK
    <2> QED
        BY <2>1, <2>2, <2>3, <2>4, <2>5, <2>6, <2>7 DEF CloseLevelUp
  <1> QED
      BY <1>0, <1>1, <1>2, <1>3 DEF threadVars

\* Every other step keeps it.
LEMMA StepInv == ~EarlySignals /\ IInv /\ [Next]_vars => IInv'
  <1> SUFFICES ASSUME ~EarlySignals, IInv, [Next]_vars
               PROVE  IInv'
      OBVIOUS
  <1> USE OptionsAssumption
          DEF IInv, flagVars, threadVars, vars, Limits, Callers
  <1>1. CASE Boot
      BY <1>1 DEF Boot, TypeOK, NotBefore, SearchFirst, ServerStarted
  <1>2. CASE SearchOn
      BY <1>2 DEF SearchOn, TypeOK, NotBefore, SearchFirst, ServerStarted
  <1>3. CASE StartLimits
      BY <1>3 DEF StartLimits, TypeOK, NotBefore, SearchFirst, ServerStarted
  <1>4. CASE LoopEnds \/ Exit
    <2>1. TypeOK'
        BY <1>4 DEF LoopEnds, Exit, TypeOK
    <2>2. NotBefore' /\ SearchFirst'
        BY <1>4 DEF LoopEnds, Exit, NotBefore, SearchFirst
    <2>3. ServerStarted' /\ (main' = "boot" => web' = "none")
        BY <1>4 DEF LoopEnds, Exit, ServerStarted
    <2> QED
        BY <2>1, <2>2, <2>3
  <1>5. CASE NothingLeft
      BY <1>5 DEF NothingLeft, Enter, TypeOK, NotBefore, SearchFirst, ServerStarted
  <1>6. CASE Closed
      BY <1>6 DEF Closed, Go, TypeOK, NotBefore, SearchFirst, ServerStarted
  <1>7. CASE WebStart \/ WebEnd
    <2>1. TypeOK'
        BY <1>7 DEF WebStart, WebEnd, TypeOK
    <2>2. NotBefore' /\ SearchFirst'
        BY <1>7 DEF WebStart, WebEnd, NotBefore, SearchFirst
    <2>3. ServerStarted' /\ (main' = "boot" => web' = "none")
        BY <1>7 DEF WebStart, WebEnd, ServerStarted
    <2> QED
        BY <2>1, <2>2, <2>3
  <1>8. ASSUME NEW c \in Limits, Reach(c) \/ LimitSearch(c) \/ LimitLook(c)
        PROVE  IInv'
    <2>1. limit[c] # "none" /\ c \in Callers
        BY <1>8 DEF Reach, LimitSearch, LimitLook
    <2>2. main \notin {"boot", "search"}
        BY <2>1 DEF NotBefore
    <2>3. CASE Reach(c)
        BY <2>2, <2>3 DEF Reach, TypeOK, NotBefore, SearchFirst, ServerStarted
    <2>4. CASE LimitSearch(c)
      <3>1. TypeOK'
          BY <2>4 DEF LimitSearch, TypeOK
      <3> QED
          BY <2>2, <2>4, <3>1 DEF LimitSearch, NotBefore, SearchFirst, ServerStarted
    <2>5. CASE LimitLook(c)
      <3>1. limit' \in [Limits -> {"none", "sleep", "look", "ended"}]
          BY <2>5 DEF LimitLook, TypeOK
      <3>2. call' \in [Callers -> {"out", "switch", "search", "withServer", "serverToo",
                                   "searchOff", "server", "serverOff", "test", "read",
                                   "write", "back"}]
          BY <2>1, <2>5 DEF LimitLook, Enter, TypeOK
      <3>3. TypeOK'
          BY <2>5, <3>1, <3>2 DEF LimitLook, TypeOK
      <3>4. SearchFirst'
          BY <2>1, <2>5 DEF LimitLook, Enter, SearchFirst, TypeOK
      <3> QED
          BY <2>2, <2>5, <3>3, <3>4 DEF LimitLook, NotBefore, ServerStarted
    <2> QED
        BY <1>8, <2>3, <2>4, <2>5
  <1>9. ASSUME NEW c \in Callers, CloseLevelUp(c)
        PROVE  IInv'
      BY <1>9, CallInv
  <1>10. ASSUME NEW h \in Handlers, Signal(h)
         PROVE  IInv'
      BY <1>10 DEF Signal, Enter, Running, TypeOK, NotBefore, SearchFirst, ServerStarted
  <1>11. CASE Done \/ UNCHANGED vars
    <2>1. TypeOK'
        BY <1>11 DEF Done, TypeOK
    <2>2. NotBefore' /\ SearchFirst'
        BY <1>11 DEF Done, NotBefore, SearchFirst
    <2>3. ServerStarted' /\ (main' = "boot" => web' = "none")
        BY <1>11 DEF Done, ServerStarted
    <2> QED
        BY <2>1, <2>2, <2>3
  <1> QED
      BY <1>1, <1>2, <1>3, <1>4, <1>5, <1>6, <1>7, <1>8, <1>9, <1>10, <1>11 DEF Next, Main

\* Reached by every behaviour in which no signal comes before the search.
THEOREM ShutdownInv == ~EarlySignals /\ Spec => []IInv
  <1> SUFFICES ASSUME ~EarlySignals PROVE Spec => []IInv
      OBVIOUS
  <1>1. Init => IInv
      BY InitInv
  <1>2. IInv /\ [Next]_vars => IInv'
      BY StepInv
  <1> QED
      BY <1>1, <1>2, PTL DEF Spec

\* The type invariant of the shutdown.
THEOREM TypeCorrect == ~EarlySignals /\ Spec => []TypeOK
  BY ShutdownInv, PTL DEF IInv

\* In high level mode no step closes the webserver under a running search.
THEOREM SearchEndsFirst == ~EarlySignals /\ Spec => ServerOutlivesSearch
  <1> SUFFICES ASSUME ~EarlySignals PROVE Spec => ServerOutlivesSearch
      OBVIOUS
  <1>1. IInv /\ IInv' /\ [Next]_vars
            => [highLevelWebServer /\ webServerOn /\ ~webServerOn' => ~searchOn]_vars
    <2> SUFFICES ASSUME IInv, Next, highLevelWebServer, webServerOn, ~webServerOn'
                 PROVE  ~searchOn
        BY DEF vars, flagVars
    <2>1. CASE \E c \in Callers : ServerToo(c) \/ ServerOff(c)
        BY <2>1 DEF ServerToo, ServerOff, At, IInv, SearchFirst
    <2>2. CASE WebStart
        BY <2>2 DEF WebStart, IInv, ServerStarted
    <2> QED
        BY <2>1, <2>2 DEF Next, Main, Boot, SearchOn, StartLimits, LoopEnds, Closed, Exit,
           NothingLeft, WebEnd, Reach, LimitSearch, LimitLook, CloseLevelUp, Switch,
           SearchIsOn, WithServer, SearchOff, ServerIsOn, Test, Read, Write, Signal, Done,
           vars, flagVars
  <1> QED
      BY <1>1, ShutdownInv, PTL DEF Spec, ServerOutlivesSearch
=============================================================================
