----------------------------- MODULE MCCapture -----------------------------
(* Capture on two controlling threads, and on one with a statistics poller. *)
EXTENDS Capture, TLC

MCSymmetry == Permutations(Handles) \cup Permutations(Controllers)
=============================================================================
