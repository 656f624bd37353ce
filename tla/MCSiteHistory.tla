------------------------------ MODULE MCSiteHistory ------------------------------
(***************************************************************************)
(* The instance of MCShared with the history of each slot.                 *)
(***************************************************************************)
EXTENDS SiteHistory, TLC

CONSTANTS u1, u2, u3, u4, h1, h2, h3, s1, s2, a1, a2, i1, i2, f1, f2

ThreeUrls == {u1, u2, u3}
NoUrls == {}

\* Shared: two hosts in one slot, one of them with two ports.
SharedHostOf == u1 :> h1 @@ u2 :> h2 @@ u3 :> h1
SharedPortOf == u1 :> 80 @@ u2 :> 80 @@ u3 :> 81
SharedFileOf == u1 :> f1 @@ u2 :> f1 @@ u3 :> f2
SharedSlotOf == h1 :> s1 @@ h2 :> s1
SharedIPHashOf == a1 :> i1
OneSlotHash == s1 :> i1
NoLiteral == <<>>
StartOne == <<u1>>
StartTwo == <<u1, u2>>
RobotsF1 == {{}, {f1}}

=============================================================================
