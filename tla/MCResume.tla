------------------------------- MODULE MCResume -------------------------------
(***************************************************************************)
(* Both queues in one directory.                                           *)
(***************************************************************************)
EXTENDS Resume

CONSTANTS u1, u2, u3

TwoUrls == {u1, u2}
ThreeUrls == {u1, u2, u3}
BothQueues == <<URLsDisk, URLsDiskWait>>

\* "fifo" and "fifowait" (types.h).
FileNames == [q \in {URLsDisk, URLsDiskWait} |->
                IF q = URLsDisk THEN {URLsDisk, URLsDiskWait} ELSE {URLsDiskWait}]

\* Between two operations, in the middle of none.
Between == {"run", "spinning"}
AnyTime == Steps \ {"down", "refused", "aborted"}
=============================================================================
