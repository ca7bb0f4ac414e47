---------------------------- MODULE MCAgentRelay ----------------------------
(* A small instance of AgentRelay: two messages of one key, one of         *)
(* another, one that the filters drop.                                     *)
EXTENDS AgentRelay, TLC

CONSTANTS e1, e2, e3, own, k1, k2

MCKeyOf == [e \in Events |-> IF e = e3 THEN k2 ELSE k1]
=============================================================================
