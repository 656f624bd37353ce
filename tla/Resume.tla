-------------------------------- MODULE Resume --------------------------------
(***************************************************************************)
(* The two queues on disk in the hands of the crawler: check puts an url   *)
(* it has not seen into URLsDisk, the sequencer takes urls from both       *)
(* queues, an url of a full site goes back to URLsDiskWait, and another is *)
(* over after a while.  What does a crawl that is resumed know?            *)
(***************************************************************************)
EXTENDS DiskQueue

CONSTANT URLsDisk

ASSUME NamesAssumption == Queues = {URLsDisk, URLsDiskWait} /\ URLsDisk # URLsDiskWait

VARIABLES
    held,   \* how often each url is in memory: named sites, connections
    over,   \* the urls whose end was reported since the last --scratch
    stray   \* the urls a reload took from a file that was not full, since then

resumeVars == <<vars, held, over, stray>>

ResumeInit == Init /\ held = [u \in Urls |-> 0] /\ over = {} /\ stray = {}

\* check(u): testSet finds u absent.
Check(u) ==
    /\ u \notin seen
    /\ Put(URLsDisk, u)
    /\ seen' = seen \cup {u}
    /\ UNCHANGED <<held, over, stray>>

\* canGetUrl takes the next url of a queue.
Take(q) ==
    /\ Get(q)
    /\ held' = [held EXCEPT ![NextUrl(q)] = @ + 1]
    /\ UNCHANGED <<over, stray>>

\* The queue promised an url it cannot read.
TakeFails(q) ==
    /\ GetFails(q)
    /\ UNCHANGED <<held, over, stray>>

\* putGenericUrl: the site of u has too many urls in memory.
PutBack(u) ==
    /\ held[u] > 0
    /\ Put(URLsDiskWait, u)
    /\ held' = [held EXCEPT ![u] = @ - 1]
    /\ UNCHANGED <<seen, over, stray>>

\* The url is over, for whatever reason.
Finish(u) ==
    /\ step = "run"
    /\ held[u] > 0
    /\ held' = [held EXCEPT ![u] = @ - 1]
    /\ over' = over \cup {u}
    /\ UNCHANGED <<vars, stray>>

\* The urls of q in files that are not full, but for the file that is written.
NotFull(q) ==
    UNION {ToSet(dir[q][k]) : k \in {f \in DOMAIN dir[q] : f # fin[q]
                                                 /\ Len(dir[q][f]) # UrlByFile}}

ResumeNext ==
    \/ \E u \in Urls : Check(u) \/ PutBack(u) \/ Finish(u)
    \/ \E q \in Queues : Take(q) \/ TakeFails(q)
    \/ /\ Inside
       /\ stray' = stray \cup IF step = "loading" /\ step' = "run"
                              THEN UNION {NotFull(q) : q \in Queues} ELSE {}
       /\ UNCHANGED <<held, over>>
    \/ /\ Crash \/ Reload
       /\ held' = [u \in Urls |-> 0]
       /\ UNCHANGED <<over, stray>>
    \/ /\ Scratch
       /\ held' = [u \in Urls |-> 0]
       /\ over' = {} /\ stray' = {}

ResumeSpec == ResumeInit /\ [][ResumeNext]_resumeVars

\* The urls on disk or in the buffers of the queues.
Queued == UNION {ToSet(Pending(q)) : q \in Queues}

\* The urls of the full files of q.
InFullFiles(q) ==
    UNION {ToSet(dir[q][k]) : k \in {f \in DOMAIN dir[q] : Len(dir[q][f]) = UrlByFile}}

\* Between two operations, and after any stop and reload between two
\* operations, the table on disk covers the full files of both queues and
\* everything of URLsDiskWait that --reload would read: no url of theirs can
\* be taken for a new one and queued a second time.  The urls are left out
\* that a reload read from a file that was never full: it may give URLsDisk a
\* number too high for its last file, which then is read as if it were full.
Covered(table) ==
    ToSet(OnDisk(URLsDiskWait)) \cup UNION {InFullFiles(q) : q \in Queues} \subseteq table
TableCovers == step = "run" => Covered(hashBin.urls \cup stray)

\* The same with no url left out.
AllCovered == step = "run" => Covered(hashBin.urls)

\* "larbin goes on from the state it was left in" (doc/configure.md): an url
\* that was seen is over, in memory or queued.
NothingForgotten ==
    step = "run" => \A u \in seen : u \in over \/ held[u] > 0 \/ u \in Queued

\* The same sentence: a table that is whole on disk is not lost.
TableNotLost ==
    [][step = "loading" /\ step' = "run" /\ hashOld.state = "whole"
           => hashOld.urls \subseteq seen']_resumeVars

\* The same sentence: the crawl that was stopped can be resumed.
ReloadAccepted == step # "refused"
-----------------------------------------------------------------------------
\* URLsDiskWait keeps the promise of a queue beside the files of URLsDisk,
\* while those of URLsDiskWait mislead URLsDisk.
WaitPromise == QueuePromise
===============================================================================
