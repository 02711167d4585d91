---------------------------- MODULE MCRuleEngine ----------------------------
(* One rule with a few sources, ports and timestamps. *)
EXTENDS RuleEngine, TLC

MCSymmetry == Permutations(Sources) \cup Permutations(Values)
=============================================================================
