---------------------------- MODULE MCAlertQueue ----------------------------
(* The alert queue with room for two alerts. *)
EXTENDS AlertQueue, TLC

MCSymmetry == Permutations(Producers)
=============================================================================
