----------------------------- MODULE MCPoliteness -----------------------------
(***************************************************************************)
(* Small instances of Politeness: two slots, three addresses, the first    *)
(* two of which fall into one IPSite, and a host written as an address.    *)
(***************************************************************************)
EXTENDS Politeness, TLC

CONSTANTS u1, u2, u3, h1, h2, h3, s1, s2, a1, a2, i1, i2, f1

MCUrls == {u1, u2, u3}
MCHostOf == u1 :> h1 @@ u2 :> h2 @@ u3 :> h3
MCPortOf == u1 :> 80 @@ u2 :> 80 @@ u3 :> 80
MCFileOf == u1 :> f1 @@ u2 :> f1 @@ u3 :> f1
MCSlotOf == h1 :> s1 @@ h2 :> s2 @@ h3 :> s1
MCIPHashOf == a1 :> i1 @@ a2 :> i1
MCSlotHash == s1 :> i1 @@ s2 :> i2
MCLiteral == h3 :> a1
MCStart == <<u1, u2>>
MCStartOne == <<u1>>
MCRobotsTxt == {{}}
=============================================================================
