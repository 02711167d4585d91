---------------------------- MODULE MCFlowTable ----------------------------
(* The flow table with room for two of three flows, and its exporter with   *)
(* room for one flow in a batch, over two captures.                         *)
EXTENDS FlowExport
=============================================================================
