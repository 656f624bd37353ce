------------------------------ MODULE MCResolver ------------------------------
(* Instances of Resolver: two servers; a query that may get any reply, and   *)
(* beside it one whose replies are whole or truncated.                       *)
EXTENDS Resolver
CONSTANTS q1, q2

Large == [cname |-> FALSE, body |-> "truncated"]
Whole == [cname |-> FALSE, body |-> "ok"]
BothZones == [x \in Queries |-> IF x = q1 THEN Replies ELSE {Large, Whole}]
=============================================================================
