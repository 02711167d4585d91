-------------------------- MODULE MCAnalyticsLink --------------------------
(* The analytics link with a small queue and a service that breaks streams. *)
EXTENDS AnalyticsLink
=============================================================================
