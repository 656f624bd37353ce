------------------------------- MODULE DiskQueue -------------------------------
(***************************************************************************)
(* The urls a PersistentFifo holds, wherever they lie.                     *)
(***************************************************************************)
EXTENDS DiskFifo, SequencesExt

CONSTANT URLsDiskWait

\* The names of the files of URLsDiskWait start the name of no other file.
Alone(q) == Match[q] = {q}
ASSUME AloneAssumption == URLsDiskWait \in Queues /\ Alone(URLsDiskWait)

\* The urls of the files first .. last of q, those that are missing left out.
Files(q, first, last) ==
    FlattenSeq([i \in 1 .. last - first + 1 |->
                   IF first + i - 1 \in DOMAIN dir[q] THEN dir[q][first + i - 1]
                                                      ELSE <<>>])

\* While the program runs: what readLine read ahead, the rest of the file,
\* the files up to the one that is written, and what was not written yet.
Pending(q) ==
    buf[q] \o Unread(q) \o Files(q, fout[q] + 1, fin[q]) \o outbuf[q]

\* What --reload would find: every file but the last.
OnDisk(q) ==
    IF DOMAIN dir[q] = {} THEN <<>>
    ELSE Files(q, Min(DOMAIN dir[q]), Max(DOMAIN dir[q]) - 1)

Up == ~Ended /\ step # "loading"

\* The urls of the file that is read that were given already.
Given(q) == IF opened[q] THEN SubSeq(dir[q][fout[q]], 1, out[q]) ELSE <<>>

\* getLength, which decides when the crawl stops and how many urls are read
\* again, is the number of urls that can still be read, also after a reload.
LengthExact ==
    step = "run" => \A q \in Queues : in[q] - out[q] = Len(Pending(q))

\* URLsDiskWait as a whole.
Promise == INSTANCE UrlQueue WITH
    Slack <- UrlByFile,
    up <- Up,
    queue <- IF Up THEN Pending(URLsDiskWait) ELSE OnDisk(URLsDiskWait),
    given <- IF Up THEN Given(URLsDiskWait) ELSE <<>>

\* The queue is a queue: whatever its buffers, the changes of file and the
\* crashes between them do, urls come out in order and once, and a crash
\* costs at most a file of urls at either end.
QueuePromise == Promise!Spec
=============================================================================
