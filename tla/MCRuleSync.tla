------------------------------ MODULE MCRuleSync ------------------------------
(* An instance of RuleSync for model checking: one rule, its listener and  *)
(* another account that may take over.                                     *)
EXTENDS RuleSync, TLC

CONSTANTS r1, a1, a2, h1, h2, p1, p2

ListenerA1 == r1 :> a1
=============================================================================
