----------------------------- MODULE MCStrategy -----------------------------
(* Instances of Strategy for TLC: a Ladle that is replaced by one that has *)
(* another Join, which the second pool's fyToken uses.                     *)
EXTENDS Strategy

CONSTANTS l1, l2, p1, p2, dai, join1, join2

MCKnownPools == [l \in Ladle |-> IF l = l1 THEN {p1} ELSE {p1, p2}]
MCKnownIds == [l \in Ladle |-> {dai}]
MCJoinOf == [l \in Ladle |-> [i \in {dai} |-> IF l = l1 THEN join1 ELSE join2]]
MCFYJoin == [p \in Pool |-> IF p = p1 THEN join1 ELSE join2]
=============================================================================
