----------------------------- MODULE DnsService -----------------------------
(* What fetchDns (fetch/fetch_open.cxx) expects of adns: a query submitted   *)
(* is outstanding until adns_check gives its answer, once.                   *)
CONSTANT Queries
VARIABLES queries, answered

Init == queries = {} /\ answered = {}

Submit(x) == /\ x \notin queries \union answered
             /\ queries' = queries \union {x} /\ UNCHANGED answered

Answer(x) == /\ x \in queries
             /\ queries' = queries \ {x} /\ answered' = answered \union {x}

Next == \E x \in Queries : Submit(x) \/ Answer(x)
Spec == Init /\ [][Next]_<<queries, answered>>
=============================================================================
