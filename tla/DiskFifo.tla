------------------------------- MODULE DiskFifo -------------------------------
(***************************************************************************)
(* class PersistentFifo (utils/persistent_fifo.cxx), the queues of urls on *)
(* disk, and the table of seen urls (fetch/hash_table.cxx) each of them    *)
(* saves when it begins a file; what a crash leaves of them, and what the  *)
(* options --reload and --scratch make of that.                            *)
(*                                                                         *)
(* A file is the sequence of its urls.  A handler is cut where the disk    *)
(* changes, so that a crash can fall between two changes; `step` says what *)
(* comes next and `todo` for which queue.                                  *)
(***************************************************************************)
EXTENDS Integers, Sequences, FiniteSetsExt

CONSTANTS
    Urls,
    Order,          \* the queues in the order global::global builds them
    Match,          \* Match[q]: the queues whose file names start with the
                    \* base name of q ("fifo" starts "fifowait" as well)
    UrlByFile,
    CanReload,
    CrashPoints,    \* the steps a crash may come before
    MaxFile         \* bound: the highest number of a file

Queues == {Order[i] : i \in 1 .. Len(Order)}

ASSUME FilesAssumption ==
    /\ UrlByFile \in Nat \ {0}
    /\ MaxFile \in Nat
    /\ CanReload \in BOOLEAN

ASSUME QueuesAssumption ==
    /\ Order \in Seq(Queues)
    /\ Match \in [Queues -> SUBSET Queues]
    /\ \A q \in Queues : q \in Match[q]

\* What a file of the table may be: missing, not complete, or a table.
TableFile(state, urls) == [state |-> state, urls |-> urls]
NoFile == TableFile("none", {})
Short == TableFile("short", {})
Whole(urls) == TableFile("whole", urls)
TableFiles == {NoFile, Short} \cup {Whole(T) : T \in SUBSET Urls}

VARIABLES
    \* on disk: the files of each queue, hashtable.bin and hashtable.old
    dir, hashBin, hashOld,
    \* PersistentFifo: the numbers, the counters, the buffers, and of rfds
    \* whether open succeeded and how many urls were read
    fin, fout, in, out, outbuf, buf, opened, rpos,
    \* global::seen
    seen,
    step, todo

diskVars == <<dir, hashBin, hashOld>>
fifoVars == <<fin, fout, in, out, outbuf, buf, opened, rpos>>
vars == <<diskVars, fifoVars, seen, step, todo>>

Steps == {"run", "full", "flushed", "rename", "creat", "write", "unlink",
          "consumed", "down", "loading", "refused", "aborted", "spinning"}
-----------------------------------------------------------------------------
\* creat(n): the file of q is there and empty.
Creat(q, n) ==
    [dir EXCEPT ![q] = [k \in DOMAIN @ \cup {n} |-> IF k = n THEN <<>> ELSE @[k]]]

\* flushOut: outbuf goes to the end of the file wfds writes.
FlushOut(q) == [dir EXCEPT ![q][fin[q]] = @ \o outbuf[q]]

\* --scratch, and the first start: no file but the first of each queue; a
\* hashtable.bin that is there stays there.
Fresh ==
    /\ dir' = [q \in Queues |-> [k \in {0} |-> <<>>]]
    /\ opened' = [q \in Queues |-> TRUE]
    /\ step' = "run"

\* No queue is open.
Zero == [q \in Queues |-> 0]
Empty == [q \in Queues |-> <<>>]

Init ==
    /\ dir = [q \in Queues |-> [k \in {0} |-> <<>>]]
    /\ hashBin = NoFile /\ hashOld = NoFile
    /\ fin = Zero /\ fout = Zero /\ in = Zero /\ out = Zero /\ rpos = Zero
    /\ outbuf = Empty /\ buf = Empty
    /\ opened = [q \in Queues |-> TRUE]
    /\ seen = {}
    /\ step = "run" /\ todo = <<>>
-----------------------------------------------------------------------------
\* put: writeUrl appends to outbuf, after a flush if it is full, which
\* depends on the lengths of the urls.
Put(q, u) ==
    /\ step = "run"
    /\ fin[q] <= MaxFile
    /\ \/ outbuf' = [outbuf EXCEPT ![q] = Append(@, u)] /\ UNCHANGED dir
       \/ /\ outbuf[q] # <<>>
          /\ dir' = FlushOut(q)
          /\ outbuf' = [outbuf EXCEPT ![q] = <<u>>]
    /\ in' = [in EXCEPT ![q] = @ + 1]
    /\ IF in'[q] % UrlByFile = 0
       THEN step' = "full" /\ todo' = <<q>>
       ELSE UNCHANGED <<step, todo>>
    /\ UNCHANGED <<hashBin, hashOld, fin, fout, out, buf, opened, rpos>>

\* updateWrite, the file is full: flushOut, and a mutant without it.
SkipFlush(q) == UNCHANGED <<dir, outbuf>>
FullFlush(q) ==
    /\ dir' = FlushOut(q)
    /\ outbuf' = [outbuf EXCEPT ![q] = <<>>]

RollFlush ==
    /\ step = "full"
    /\ FullFlush(Head(todo))
    /\ step' = "flushed"
    /\ UNCHANGED <<hashBin, hashOld, fin, fout, in, out, buf, opened, rpos, seen, todo>>

\* updateWrite: whether the table is saved now, and a mutant that saves it
\* with the first queue only.
SavesFirst(q) == CanReload /\ q = Order[1]
Saves(q) == CanReload

\* updateWrite: the next file, then the table is saved.
RollCreat ==
    LET q == Head(todo) IN
    /\ step = "flushed"
    /\ fin' = [fin EXCEPT ![q] = @ + 1]
    /\ dir' = Creat(q, fin[q] + 1)
    /\ step' = IF Saves(q) THEN "rename" ELSE "run"
    /\ todo' = <<>>
    /\ UNCHANGED <<hashBin, hashOld, fout, in, out, outbuf, buf, opened, rpos, seen>>

\* hashTable::save in its four changes of the disk.
SaveRename ==
    /\ step = "rename"
    /\ hashOld' = IF hashBin = NoFile THEN hashOld ELSE hashBin
    /\ hashBin' = NoFile
    /\ step' = "creat"
    /\ UNCHANGED <<dir, fifoVars, seen, todo>>

SaveCreat ==
    /\ step = "creat"
    /\ hashBin' = Short
    /\ step' = "write"
    /\ UNCHANGED <<dir, hashOld, fifoVars, seen, todo>>

SaveWrite ==
    /\ step = "write"
    /\ hashBin' = Whole(seen)
    /\ step' = "unlink"
    /\ UNCHANGED <<dir, hashOld, fifoVars, seen, todo>>

SaveUnlink ==
    /\ step = "unlink"
    /\ hashOld' = NoFile
    /\ step' = "run"
    /\ UNCHANGED <<dir, hashBin, fifoVars, seen, todo>>
-----------------------------------------------------------------------------
\* What rfds has not given yet.
Unread(q) == IF opened[q] THEN SubSeq(dir[q][fout[q]], rpos[q] + 1, Len(dir[q][fout[q]]))
                          ELSE <<>>

\* readLine has nothing in buf and reads: it flushes first if all of the
\* file was read, which helps only if it is the file being written.
MustFlush(q) == Unread(q) = <<>>
Readable(q) == IF MustFlush(q) /\ fin[q] = fout[q] THEN outbuf[q] ELSE Unread(q)

\* The url readLine returns.
NextUrl(q) == IF buf[q] # <<>> THEN Head(buf[q]) ELSE Head(Readable(q))

\* out++ and, at the end of the file, updateRead.
Took(q) ==
    /\ out' = [out EXCEPT ![q] = @ + 1]
    /\ IF out'[q] % UrlByFile = 0
       THEN step' = "consumed" /\ todo' = <<q>>
       ELSE UNCHANGED <<step, todo>>
    /\ UNCHANGED <<hashBin, hashOld, fin, fout, in, opened, seen>>

GetBuffered(q) ==
    /\ step = "run" /\ in[q] # out[q]
    /\ buf[q] # <<>>
    /\ buf' = [buf EXCEPT ![q] = Tail(@)]
    /\ Took(q)
    /\ UNCHANGED <<dir, outbuf, rpos>>

\* read gives some of what there is: buf has a size.
GetRead(q) ==
    /\ step = "run" /\ in[q] # out[q]
    /\ buf[q] = <<>> /\ Readable(q) # <<>>
    /\ \E n \in 1 .. Len(Readable(q)) :
           /\ buf' = [buf EXCEPT ![q] = SubSeq(Readable(q), 2, n)]
           /\ rpos' = [rpos EXCEPT ![q] = @ + n]
    /\ IF MustFlush(q)
       THEN dir' = FlushOut(q) /\ outbuf' = [outbuf EXCEPT ![q] = <<>>]
       ELSE UNCHANGED <<dir, outbuf>>
    /\ Took(q)

\* There is an url to give that no file has.
Starved(q) == in[q] # out[q] /\ buf[q] = <<>> /\ Readable(q) = <<>>

\* Nothing to read: read fails on a file that was not opened (the assertion),
\* and gives nothing for ever at the end of another one, after a flush that did
\* not help.
GetFails(q) ==
    /\ step = "run" /\ Starved(q)
    /\ IF opened[q]
       THEN /\ step' = "spinning"
            /\ dir' = FlushOut(q) /\ outbuf' = [outbuf EXCEPT ![q] = <<>>]
       ELSE step' = "aborted" /\ UNCHANGED <<dir, outbuf>>
    /\ UNCHANGED <<hashBin, hashOld, fin, fout, in, out, buf, opened, rpos, seen, todo>>

Get(q) == GetBuffered(q) \/ GetRead(q)

\* updateRead: how many urls are left, with a mutant that forgets what was read,
\* and the file that is over, with one that has gone on to the next too soon.
InSame(q) == in[q]
InLeft(q) == in[q] - out[q]
FileAfter(q) == fout[q] + 1
FileOver(q) == fout[q]

RollRead ==
    LET q == Head(todo) IN
    /\ step = "consumed"
    /\ dir' = [dir EXCEPT ![q] = [k \in DOMAIN @ \ {FileOver(q)} |-> @[k]]]
    /\ fout' = [fout EXCEPT ![q] = @ + 1]
    /\ opened' = [opened EXCEPT ![q] = fout[q] + 1 \in DOMAIN dir'[q]]
    /\ in' = [in EXCEPT ![q] = InLeft(q)]
    /\ out' = [out EXCEPT ![q] = 0]
    /\ rpos' = [rpos EXCEPT ![q] = 0]
    /\ step' = IF buf[q] = <<>> THEN "run" ELSE "aborted"
    /\ todo' = <<>>
    /\ UNCHANGED <<hashBin, hashOld, fin, outbuf, buf, seen>>
-----------------------------------------------------------------------------
\* The program stops without a word: what is in memory is gone.  larbin does
\* the same when it ends by itself, nothing is flushed or saved.
Forget ==
    /\ fin' = Zero /\ fout' = Zero /\ in' = Zero /\ out' = Zero /\ rpos' = Zero
    /\ outbuf' = Empty /\ buf' = Empty
    /\ seen' = {}

Crash ==
    /\ step \in CrashPoints
    /\ Forget
    /\ opened' = [q \in Queues |-> FALSE]
    /\ step' = "down" /\ todo' = <<>>
    /\ UNCHANGED diskVars

\* The program does not run: it was stopped, an assertion failed, or it
\* refused to start.
Ended == step \in {"down", "refused", "aborted"}

Scratch ==
    /\ Ended
    /\ Forget /\ todo' = <<>>
    /\ Fresh
    /\ UNCHANGED <<hashBin, hashOld>>

\* --reload: open the queues in their order, then the table.
Reload ==
    /\ Ended
    /\ Forget
    /\ opened' = [q \in Queues |-> FALSE]
    /\ step' = "loading"
    /\ todo' = Order
    /\ UNCHANGED diskVars

\* The numbers of the files whose name starts with the base name of q.
Numbers(q) == UNION {DOMAIN dir[r] : r \in Match[q]}

\* How many urls lie in the files between the first and the last.
WholeFiles(first, last) == (last - first) * UrlByFile

\* The constructor of PersistentFifo with reload: the last file is written
\* again from nothing, the first is read again from its start.
LoadQueue ==
    LET q     == Head(todo)
        last  == IF Numbers(q) = {} THEN 0 ELSE Max(Numbers(q))
        first == IF Numbers(q) = {} THEN 0 ELSE Min(Numbers(q))
    IN
    /\ step = "loading" /\ todo # <<>>
    /\ \/ /\ last = first /\ last # 0
          /\ step' = "refused"
          /\ todo' = <<>>
          /\ UNCHANGED <<dir, fin, fout, in, opened>>
       \/ /\ ~(last = first /\ last # 0)
          /\ fin' = [fin EXCEPT ![q] = last]
          /\ fout' = [fout EXCEPT ![q] = first]
          /\ in' = [in EXCEPT ![q] = WholeFiles(first, last)]
          /\ dir' = Creat(q, last)
          /\ opened' = [opened EXCEPT ![q] = first \in DOMAIN dir'[q]]
          /\ todo' = Tail(todo)
          /\ UNCHANGED step
    /\ UNCHANGED <<hashBin, hashOld, out, outbuf, buf, rpos, seen>>

\* The constructor of hashTable without create.
LoadTable ==
    /\ step = "loading" /\ todo = <<>>
    /\ \/ hashBin = NoFile /\ seen' = {} /\ step' = "run"
       \/ hashBin = Short /\ step' = "refused" /\ UNCHANGED seen
       \/ hashBin.state = "whole" /\ seen' = hashBin.urls /\ step' = "run"
    /\ UNCHANGED <<diskVars, fifoVars, todo>>

\* What follows by itself, whoever uses the queues.
Inside ==
    \/ RollFlush \/ RollCreat \/ RollRead
    \/ SaveRename \/ SaveCreat \/ SaveWrite \/ SaveUnlink
    \/ LoadQueue \/ LoadTable

\* The queues in the hands of any caller.
Next ==
    \/ \E q \in Queues :
          \/ \E u \in Urls : Put(q, u) /\ seen' = seen \cup {u}
          \/ Get(q)
    \/ Inside
    \/ Crash \/ Reload \/ Scratch

Spec == Init /\ [][Next]_vars
-----------------------------------------------------------------------------
\* Types.
TypeOK ==
    /\ \A q \in Queues : \A n \in DOMAIN dir[q] : n \in Nat /\ dir[q][n] \in Seq(Urls)
    /\ DOMAIN dir = Queues
    /\ {hashBin, hashOld} \subseteq TableFiles
    /\ {fin, fout, in, out, rpos} \subseteq [Queues -> Nat]
    /\ {outbuf, buf} \subseteq [Queues -> Seq(Urls)]
    /\ opened \in [Queues -> BOOLEAN]
    /\ seen \subseteq Urls
    /\ step \in Steps
    /\ todo \in Seq(Queues)

\* The counters promise no url the files do not have, through every change of
\* file and every reload, and the assertion of updateRead holds.
NeverStarved ==
    /\ TypeOK
    /\ step # "aborted"
    /\ step = "run" => \A q \in Queues : ~Starved(q)

\* The assertion of readLine holds, and readLine never waits for urls that
\* will not come.
NeverStuck == step \notin {"aborted", "spinning"}
=============================================================================
