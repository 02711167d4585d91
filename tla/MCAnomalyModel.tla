--------------------------- MODULE MCAnomalyModel ---------------------------
(* AnomalyModel with two streams and small limits. *)
EXTENDS AnomalyModel
=============================================================================
