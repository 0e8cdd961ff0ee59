-------------------------- MODULE MCEmergencyBrake --------------------------
(* Instances of EmergencyBrake for TLC: one Join with two functions, and   *)
(* plans that overlap.                                                     *)
EXTENDS EmergencyBrake, TLC

CONSTANTS Join, give, take, witch

P(target, roles) == [target |-> target, permissions |-> [i \in 1..Len(roles) |-> <<Join, roles[i]>>]]

MCPlans == {P(witch, <<give, take>>), P(witch, <<take>>), P(witch, <<give, give>>),
            P(witch, <<ROOT>>)}

MCBatches == {<<<<Join, give>>, <<Join, take>>>>, <<<<Join, give>>>>, <<<<Join, ROOT>>>>}
=============================================================================
