------------------------------- MODULE Output -------------------------------
(***************************************************************************)
(* The end of a page (fetch/fetch_pipe.cxx:236-262, io/output.cxx) and     *)
(* what the outputs keep of it. The main thread takes connections from the *)
(* ring freeConns and, in the build with THREAD_OUTPUT, leaves the loaded  *)
(* ones in the ring userConns to a thread that reports and frees them; in  *)
(* the other build it does so itself. A method of a ring holds the ring's  *)
(* mutex, so it is one step; waiting for an element is a step of its own.  *)
(***************************************************************************)
EXTENDS Rings, FiniteSetsExt, SequencesExt

CONSTANTS NbConn,       \* global::nb_conn
          Todos,        \* sequences of pages: [path, length, priv]
          Base,         \* digits of a file name go from 0 to Base - 1
          Digits,       \* and are that many
          FilesPerDir,
          SizeStep, NbSizes,  \* taille and nb of stats_user_output.cxx
          IndexFile           \* "index.html"

ASSUME OutputAssumption ==
    /\ NbConn \in Nat \ {0} /\ Base \in Nat \ {0, 1} /\ Digits \in Nat \ {0}
    /\ FilesPerDir \in 1 .. Base ^ Digits
    /\ SizeStep \in Nat \ {0} /\ NbSizes \in Nat \ {0}
    /\ Unset \notin Nat

VARIABLES threaded, mode, specificSearch,   \* the build and the options
          freeConns, userConns,             \* rings of connections
          crawling, load,                   \* load: Connexion, and its parser's page
          waiting, reporting,               \* the output thread
          todo, started,                    \* pages, how many are or were taken
          disk, dirs, nbdir, nbfile, fileName, index,
          tabs, totalpages, totalbytes,
          ended, reported                   \* history

connVars == <<freeConns, userConns, crawling, load, waiting, reporting, started>>
optVars == <<threaded, mode, specificSearch, todo>>
diskVars == <<disk, dirs, nbdir, nbfile, fileName, index>>
statVars == <<tabs, totalpages, totalbytes>>
outputVars == <<connVars, optVars, diskVars, statVars, ended, reported>>

Conns == 1 .. NbConn
Modes == {"default", "save", "mirror", "stats"}
\* the ring of the connections, put there one by one
Filled[n \in 0 .. NbConn] == IF n = 0 THEN ConstantRing(NbConn) ELSE Put(Filled[n - 1], n)
Zeros == [d \in 1 .. Digits |-> 0]

InitOutput(modes, pages) ==
    /\ \E m \in modes : threaded = m[1] /\ mode = m[2] /\ specificSearch = m[3]
    /\ freeConns = Filled[NbConn]
    /\ userConns = ConstantRing(NbConn)
    /\ crawling = {}
    /\ load = [c \in Conns |-> [page |-> Unset, err |-> "success", interesting |-> FALSE]]
    /\ waiting = FALSE /\ reporting = <<"get", Unset>>
    /\ todo \in pages /\ started = 0
    /\ disk = <<>> /\ dirs = {<<>>}
    /\ nbdir = -1 /\ nbfile = FilesPerDir /\ fileName = [dir |-> Zeros, file |-> Zeros]
    /\ index = <<>>
    /\ tabs = [t \in 0 .. NbSizes - 1 |-> 0] /\ totalpages = 1 /\ totalbytes = 0
    /\ ended = <<>> /\ reported = <<>>
-----------------------------------------------------------------------------
(* What the page k leaves behind when it was loaded: one action per output mode *)

\* The digits of n are written from the last; those before them stay.
Numbered(digits, n) ==
    [d \in 1 .. Digits |->
        IF n \div Base ^ (Digits - d) = 0 THEN digits[d]
        ELSE (n \div Base ^ (Digits - d)) % Base]

NextFile ==
    IF nbfile + 1 < FilesPerDir
    THEN [dir |-> fileName.dir, file |-> Numbered(fileName.file, nbfile + 1)]
    ELSE [dir |-> Numbered(fileName.dir, nbdir + 1), file |-> Zeros]

SaveLoaded(k) ==
    LET newDir == nbfile + 1 >= FilesPerDir
        n == IF newDir THEN 0 ELSE nbfile + 1
        path == <<NextFile.dir, NextFile.file>>
        idx == IF newDir THEN (NextFile.dir :> <<>>) @@ index ELSE index
    IN /\ nbdir' = IF newDir THEN nbdir + 1 ELSE nbdir
       /\ nbfile' = n
       /\ fileName' = NextFile
       /\ disk' = (path :> k) @@ disk
       /\ index' = [idx EXCEPT ![NextFile.dir] = Append(@, <<n, k>>)]
       /\ dirs' = dirs \union {<<NextFile.dir>>}
       /\ UNCHANGED statVars

\* The directories that miss are made, unless a file is in their place; a page
\* whose file cannot be created is left out without a word.
MirrorPath(p) == IF Last(p.path) = "" THEN Front(p.path) \o <<IndexFile>> ELSE p.path
Exists(path) == path \in dirs \/ path \in DOMAIN disk
Above(path) == {SubSeq(path, 1, n) : n \in 0 .. Len(path) - 1}
Made(p) ==
    LET there == {d \in Above(p.path) : Exists(d)}
        deepest == CHOOSE d \in there : \A e \in there : Len(e) <= Len(d)
    IN IF deepest \in dirs THEN Above(p.path) ELSE {}

MirrorLoaded(k) ==
    LET path == MirrorPath(todo[k])
    IN /\ dirs' = dirs \union Made(todo[k])
       /\ disk' = IF Front(path) \in dirs' /\ path \notin dirs'
                  THEN (path :> k) @@ disk ELSE disk
       /\ UNCHANGED <<nbdir, nbfile, fileName, index, statVars>>

StatsLoaded(k) ==
    LET size == Min({todo[k].length \div SizeStep, NbSizes - 1})
    IN /\ tabs' = [tabs EXCEPT ![size] = @ + 1]
       /\ totalpages' = totalpages + 1
       /\ totalbytes' = totalbytes + todo[k].length
       /\ UNCHANGED diskVars

Loaded(k) ==
    \/ mode = "save" /\ SaveLoaded(k)
    \/ mode = "mirror" /\ MirrorLoaded(k)
    \/ mode = "stats" /\ StatsLoaded(k)
    \/ mode = "default" /\ UNCHANGED <<diskVars, statVars>>

\* endOfLoad, fetchFail: a specific search gives out the pages it looks for, and
\* the failures of those and of the urls whose extension it looks for.
Given(l) ==
    ~specificSearch \/ l.interesting \/ (l.err # "success" /\ todo[l.page].priv)
EndOfLoad(l) ==
    /\ reported' = IF Given(l) THEN Append(reported, l) ELSE reported
    /\ IF Given(l) /\ l.err = "success" THEN Loaded(l.page)
       ELSE UNCHANGED <<diskVars, statVars>>
-----------------------------------------------------------------------------
\* IPSite::fetch with a free connection and a page; the socket may be refused.
Fetch ==
    /\ started < Len(todo) /\ ~IsEmpty(freeConns)
    /\ started' = started + 1
    /\ LET c == First(freeConns)
       IN \/ /\ crawling' = crawling \union {c} /\ freeConns' = Got(freeConns)
             /\ load' = [load EXCEPT ![c] = [page |-> started', err |-> "success",
                                             interesting |-> FALSE]]
          \/ /\ freeConns' = Put(Got(freeConns), c)
             /\ UNCHANGED <<crawling, load>>
    /\ UNCHANGED <<userConns, waiting, reporting, optVars, diskVars, statVars,
                   ended, reported>>

\* (of GiveToThread) whether the ring is empty is asked when the element is in it
GiveToThreadLate(c) ==
    /\ userConns' = Put(userConns, c)
    /\ waiting' = (waiting /\ ~IsEmpty(userConns'))
    /\ UNCHANGED <<freeConns, reported, diskVars, statVars>>

\* manageHtml, in either build: the thread is woken if its ring was empty
GiveToThread(c) ==
    /\ userConns' = Put(userConns, c)
    /\ waiting' = (waiting /\ ~IsEmpty(userConns))
    /\ UNCHANGED <<freeConns, reported, diskVars, statVars>>
ReportItself(c) ==
    /\ EndOfLoad(load'[c])
    /\ freeConns' = Put(freeConns, c)
    /\ UNCHANGED <<userConns, waiting>>

\* endOfFile of a page
EndOfFile(c) ==
    /\ c \in crawling /\ crawling' = crawling \ {c}
    /\ \E e \in {"success", "timeout"}, i \in (IF specificSearch THEN BOOLEAN ELSE {FALSE}) :
          load' = [load EXCEPT ![c].err = e, ![c].interesting = i]
    /\ ended' = IF Given(load'[c]) THEN Append(ended, load'[c]) ELSE ended
    /\ IF threaded THEN GiveToThread(c) ELSE ReportItself(c)
    /\ UNCHANGED <<reporting, started, optVars>>
-----------------------------------------------------------------------------
(* startOutput: get, which waits; endOfLoad and recycle; put *)

OutputGet ==
    /\ threaded /\ ~waiting /\ reporting[1] = "get"
    /\ IF IsEmpty(userConns)
       THEN waiting' = TRUE /\ UNCHANGED <<userConns, reporting>>
       ELSE /\ reporting' = <<"report", First(userConns)>>
            /\ userConns' = Got(userConns) /\ UNCHANGED waiting
    /\ UNCHANGED <<freeConns, crawling, load, started, optVars, diskVars, statVars,
                   ended, reported>>

OutputReport ==
    /\ reporting[1] = "report"
    /\ EndOfLoad(load[reporting[2]])
    /\ reporting' = <<"put", reporting[2]>>
    /\ UNCHANGED <<freeConns, userConns, crawling, load, waiting, started, optVars, ended>>

OutputPut ==
    /\ reporting[1] = "put"
    /\ freeConns' = Put(freeConns, reporting[2])
    /\ reporting' = <<"get", Unset>>
    /\ UNCHANGED <<userConns, crawling, load, waiting, started, optVars, diskVars,
                   statVars, ended, reported>>

MainLoads == Fetch \/ \E c \in Conns : EndOfFile(c)
OutputThread == OutputGet \/ OutputReport \/ OutputPut
NextOutput == MainLoads \/ OutputThread
-----------------------------------------------------------------------------
\* Each connection is free, crawling, left to the thread or in its hands, once:
\* the rings, which never grow, never run over (the assertion of
\* constant_fifo.h:111), and none is forgotten or given out twice.
ConnsKept ==
    LET held == IF reporting[1] = "get" THEN <<>> ELSE <<reporting[2]>>
        inRings == Contents(freeConns) \o Contents(userConns) \o held
    IN /\ freeConns.size = NbConn + 1 /\ userConns.size = NbConn + 1
       /\ Len(inRings) + Cardinality(crawling) = NbConn
       /\ Range(inRings) \union crawling = Conns
       /\ \A c \in Range(Contents(userConns)) : load[c].page # Unset

\* Pages are reported in the order they ended, each once (io/output.cxx:79-88).
InOrder == IsPrefix(reported, ended) /\ (~threaded => reported = ended)

\* Every page that was loaded is on the disk: under a name of its own that the
\* index of its directory gives (save_user_output.cxx), or under its path, unless
\* a page loaded too needs a file where this one needs a directory or the other
\* way round (the "url mysteries" of mirror_user_output.cxx:94), or is the same
\* file; or it is counted (stats_user_output.cxx).
Clash(p, q) ==
    LET f == MirrorPath(todo[p]) g == MirrorPath(todo[q])
    IN p # q /\ (IsPrefix(f, g) \/ IsPrefix(g, f))
LoadedPages == {reported[i].page : i \in {j \in DOMAIN reported : reported[j].err = "success"}}
PagesKept ==
    /\ mode = "save" =>
         /\ Range(disk) = LoadedPages
         /\ \A d \in DOMAIN index : \A i \in DOMAIN index[d] :
               disk[<<d, Numbered(Zeros, index[d][i][1])>>] = index[d][i][2]
    /\ mode = "mirror" => \A p \in LoadedPages :
         p \in Range(disk) \/ \E q \in LoadedPages : Clash(p, q)
    /\ mode = "stats" =>
         /\ totalpages = Cardinality(LoadedPages) + 1
         /\ totalpages = MapThenSumSet(LAMBDA t : tabs[t], DOMAIN tabs) + 1
         /\ totalbytes = MapThenSumSet(LAMBDA p : todo[p].length, LoadedPages)

OutputRight == ConnsKept /\ InOrder /\ PagesKept

\* A connection that is loaded is free again, and its page reported: the thread
\* is woken (constant_fifo.h:107) and never waits for what is there.
ConnsComeBack == \A c \in Conns : c \in crawling ~> c \in Range(Contents(freeConns))
=============================================================================
