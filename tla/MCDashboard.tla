---------------------------- MODULE MCDashboard ----------------------------
(* Dashboard over three captures. *)
EXTENDS Dashboard
=============================================================================
