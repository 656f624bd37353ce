----------------------------- MODULE SiteHistory -----------------------------
(***************************************************************************)
(* What a slot of namedSiteList went through: the site whose robots.txt    *)
(* gave the rules it holds, and how many CNAMEs its query has followed.    *)
(***************************************************************************)
EXTENDS Crawler

CONSTANT MaxJumps   \* bound: CNAMEs followed by one query

VARIABLES rulesOf, jumps

historyVars == <<vars, rulesOf, jumps>>

Identity(s) == <<name[s], port[s]>>

HInit ==
    /\ Init
    /\ rulesOf = [s \in Slots |-> <<None, None>>]
    /\ jumps = [s \in Slots |-> 0]

\* parseRobots replaced the rules of s in this step.  A step of RobotsEnd that
\* keeps them is one where the server had no robots.txt to parse.
Parsed(s) == forbidden'[s] # forbidden[s]
Jumped(s) == MayRead /\ DnsCname(s)

HNext ==
    /\ Next
    /\ rulesOf' = [s \in Slots |-> IF Parsed(s) THEN Identity(s) ELSE rulesOf[s]]
    /\ jumps' = [s \in Slots |-> CASE s \notin queries' -> 0
                                   [] s \in queries /\ Jumped(s) -> jumps[s] + 1
                                   [] OTHER -> jumps[s]]
    /\ \A s \in Slots : jumps'[s] <= MaxJumps

HSpec == HInit /\ [][HNext]_historyVars

\* "Delete the old identity of the site" (site.h): the rules a resolved site
\* tests its urls with come from a robots.txt of that very site.
RulesOfThisSite ==
    \A s \in Slots : dnsState[s] = "doneDns" /\ forbidden[s] # {}
                        => rulesOf[s] = Identity(s)

\* "string used for following CNAME chains (just one jump)" (site.h).
JustOneJump == \A s \in Slots : jumps[s] <= 1
=============================================================================
