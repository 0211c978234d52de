--------------------------- MODULE MCAgentCreation ---------------------------
(* Instances of AgentCreation for TLC.                                       *)
EXTENDS AgentCreation

CONSTANTS q1, q2, w1, w2, o1, o2, c1

OneOwner == [q \in Request |-> o1]
TwoOwners == [q \in Request |-> IF q = q1 THEN o1 ELSE o2]
OwnHost == [w \in Runner |-> w]      \* Kata: one Runner per host
SharedHost == [w \in Runner |-> "phala"] \* Phala: one source host for the class
=============================================================================
