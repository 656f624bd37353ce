------------------------------- MODULE UrlQueue -------------------------------
(***************************************************************************)
(* What a queue of urls on disk promises: urls come out in the order they  *)
(* went in, each once.  A crash may take back the urls given last and lose *)
(* the urls put last, at most Slack of each, but none in the middle and    *)
(* never the order.                                                        *)
(***************************************************************************)
EXTENDS Naturals, Sequences

CONSTANTS Urls, Slack

VARIABLES
    up,     \* whether the program runs
    queue,  \* the urls that are in
    given   \* the urls that came out last and may come again after a crash

Init == up = TRUE /\ queue = <<>> /\ given = <<>>

PutUrl(u) == queue' = Append(queue, u) /\ UNCHANGED given

GetUrl ==
    /\ queue # <<>>
    /\ queue' = Tail(queue)
    /\ given' = Append(given, Head(queue))
    /\ Len(given') <= Slack

\* The urls given will not come again.
Settle == given' = <<>> /\ UNCHANGED queue

\* A crash: the urls given come again, some of the last are lost.
Stop ==
    LET all == given \o queue IN
    /\ up /\ ~up'
    /\ \E lost \in 0 .. Slack :
           /\ lost <= Len(all)
           /\ queue' = SubSeq(all, 1, Len(all) - lost)
    /\ given' = <<>>

\* Started again with what there is, or with nothing.
Start == ~up /\ up' /\ queue' \in {queue, <<>>} /\ given' = <<>>

Next ==
    \/ /\ up /\ up'
       /\ (\E u \in Urls : PutUrl(u)) \/ GetUrl \/ Settle
    \/ Stop \/ Start

Spec == Init /\ [][Next]_<<up, queue, given>>
=============================================================================
