------------------------------- MODULE MCDiskFifo -------------------------------
(***************************************************************************)
(* One queue alone in its directory, as URLsDiskWait sees it: no other     *)
(* file starts with "fifowait".                                            *)
(***************************************************************************)
EXTENDS DiskQueue

CONSTANTS u1, u2, u3, wait

MCUrls == {u1, u2}
MCOrder == <<wait>>
MCMatch == [q \in {wait} |-> {wait}]

\* Any change of the disk may be the last.
AnyTime == Steps \ {"down", "refused", "aborted"}
===============================================================================
