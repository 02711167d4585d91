--------------------------- MODULE CaptureSession ---------------------------
(***************************************************************************)
(* What the C ABI promises about a capture, seen as one sequential object: *)
(* a source is opened, started once, delivers frames only while it runs,   *)
(* and must be stopped before another one can be opened.  Capture.tla      *)
(* shows that the sniffer thread, the wrapper and the locks implement it.  *)
(***************************************************************************)
EXTENDS Naturals

VARIABLES
    phase,   \* "closed", "ready", "running", "stopped" or "gone"
    packets  \* packets the engine has counted since the source was installed

vars == <<phase, packets>>

Init == phase = "closed" /\ packets = 0

\* A source is installed: the engine restarts from nothing.
Open  == phase = "closed" /\ phase' = "ready" /\ packets' = 0
\* Opening a source first gives the previous one back; never a running one.
Close == phase \in {"ready", "stopped"} /\ phase' = "closed" /\ UNCHANGED packets
Start == phase = "ready" /\ phase' = "running" /\ UNCHANGED packets
Frame == phase = "running" /\ packets' = packets + 1 /\ UNCHANGED phase
Stop  == phase = "running" /\ phase' = "stopped" /\ UNCHANGED packets
\* The core is destroyed after it has stopped and given back its source.
Destroy == phase = "closed" /\ phase' = "gone" /\ UNCHANGED packets

Next == Open \/ Close \/ Start \/ Frame \/ Stop \/ Destroy

Spec == Init /\ [][Next]_vars
=============================================================================
