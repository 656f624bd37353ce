------------------------------ MODULE MCCrawler ------------------------------
(***************************************************************************)
(* Small instances of Crawler.  The names of the definitions say which one *)
(* they belong to; the limits are in the .cfg files.                       *)
(***************************************************************************)
EXTENDS Crawler, TLC

CONSTANTS u1, u2, u3, u4, h1, h2, h3, s1, s2, a1, a2, i1, i2, f1, f2

ThreeUrls == {u1, u2, u3}
NoUrls == {}

\* Shared: two hosts in one slot, one of them with two ports.
SharedHostOf == u1 :> h1 @@ u2 :> h2 @@ u3 :> h1
SharedPortOf == u1 :> 80 @@ u2 :> 80 @@ u3 :> 81
SharedFileOf == u1 :> f1 @@ u2 :> f1 @@ u3 :> f2
SharedSlotOf == h1 :> s1 @@ h2 :> s1
SharedIPHashOf == a1 :> i1
OneSlotHash == s1 :> i1
NoLiteral == <<>>
BadLiteral == h2 :> None
StartOne == <<u1>>
StartTwo == <<u1, u2>>
RobotsF1 == {{}, {f1}}

\* Ring: four urls of one host, submitted by a client.
FourUrls == {u1, u2, u3, u4}
RingHostOf == [u \in FourUrls |-> h1]
RingPortOf == [u \in FourUrls |-> 80]
RingFileOf == [u \in FourUrls |-> f1]
RingSlotOf == h1 :> s1
StartNone == <<>>

\* NamedSite::putInFifo's assertion: "Never fill totally the fifo => call at
\* least with 1" (site.h), and putPriorityUrlWait calls putGenericUrl with 1.
RingNeverFull == pc # "aborted"

\* "urls in namedSites" (debug.h): what namedUrl counts.
NamedUrlExact == pc # "aborted" => namedUrl = TotalLen(fifo)
=============================================================================
