----------------------------- MODULE FlowExport -----------------------------
(***************************************************************************)
(* What the exporter takes from the flow table (Exporter::export in        *)
(* core-ffi/src/analytics.rs): once a second the flows seen since its      *)
(* watermark, while captures, each with a new engine, come and go under    *)
(* it.  A tick without a connected link does nothing.                      *)
(***************************************************************************)
EXTENDS FlowTable

CONSTANTS
    MaxBatch,    \* MAX_FLOWS_PER_BATCH
    MaxCaptures  \* bound: engines installed

ASSUME ExportAssumption == MaxBatch \in Nat \ {0} /\ MaxCaptures \in Nat

VARIABLES
    lastExport,  \* Exporter.last_export_us
    captures,    \* bound: captures so far
    window,      \* history: window_end of the last batch of this capture, None before it
    unsent,      \* history: flows with a packet that no accepted batch has reported
    excused      \* history: those of them that a named loss accounts for

exportVars == <<vars, lastExport, captures, window, unsent, excused>>

None == -1

Active == ToSet(lru)

ExportInit ==
    /\ Init /\ lastExport = 0 /\ captures = 1 /\ window = None
    /\ unsent = {} /\ excused = {}

\* NcCore::install: a new engine, under the same exporter
NewCapture ==
    /\ captures < MaxCaptures /\ captures' = captures + 1
    /\ lru' = <<>> /\ stats' = [k \in {} |-> 0] /\ evicted' = 0 /\ expired' = 0
    /\ lastTs' = 0 /\ nextExpiry' = 0 /\ packets' = 0
    /\ created' = 0 /\ seen' = [p \in Pairs |-> 0] /\ retired' = seen' /\ inOrder' = TRUE
    /\ window' = None /\ unsent' = {} /\ excused' = {}
    /\ UNCHANGED lastExport

Tracked(ts, src, dst) ==
    LET k == Canonical(src, dst) IN
    /\ packets < MaxPackets /\ ProcessTracked(ts, src, dst)
    /\ unsent' = (unsent \cup {k}) \cap ToSet(lru')
    /\ excused' = (IF ts <= window THEN excused \cup {k} ELSE excused) \cap ToSet(lru')
    /\ UNCHANGED <<lastExport, captures, window>>

Untracked(ts) ==
    /\ packets < MaxPackets /\ ProcessUntracked(ts)
    /\ unsent' = unsent \cap ToSet(lru') /\ excused' = excused \cap ToSet(lru')
    /\ UNCHANGED <<lastExport, captures, window>>

-----------------------------------------------------------------------------
\* mutant: the watermark of an earlier capture stays
KeptWatermark == lastExport

\* the watermark of an earlier capture is noticed when the clock is behind it
Since == IF lastTs < lastExport THEN 0 ELSE lastExport

Changed == {k \in Active : stats[k].last > Since}

\* the flows used most recently, as many as fit
Batch ==
    {lru[i] : i \in {i \in DOMAIN lru :
        lru[i] \in Changed /\ Cardinality({j \in i + 1..Len(lru) : lru[j] \in Changed}) < MaxBatch}}

Left == Changed \ Batch

\* the clock has passed the watermark of an earlier capture before this tick
Overtaken == {k \in Active : window = None /\ lastExport > 0 /\ stats[k].last <= Since}

Export ==
    /\ \/ Batch = {} /\ lastExport' = Since /\ UNCHANGED <<window, unsent, excused>>
       \/ /\ Batch # {} /\ lastExport' = lastTs /\ window' = lastTs
          \* offer accepts the batch or drops it; export does not look
          /\ \E accepted \in BOOLEAN :
                LET sent == IF accepted THEN Batch ELSE {} IN
                /\ unsent' = unsent \ sent
                /\ excused' = (excused \cup Left \cup Overtaken \cup Batch) \cap unsent'
    /\ UNCHANGED <<vars, captures>>

ExportNext ==
    \/ \E ts \in 0..MaxTime :
          \/ \E src, dst \in Endpoints : Tracked(ts, src, dst)
          \/ Untracked(ts)
    \/ NewCapture
    \/ Export

ExportSpec == ExportInit /\ [][ExportNext]_exportVars

-----------------------------------------------------------------------------
(* Properties.                                                             *)

\* Every change of an active flow is reported to the service by an accepted batch, or is in
\* the next batch, or one of these losses has hit it: offer dropped the batch, the batch
\* was full, a frame came with a timestamp that an earlier batch had covered (or with
\* timestamp 0), or the clock of a new capture passed the watermark of the one before it
\* between two ticks.  The last is a gap of the code: it tells a new capture by its clock
\* being behind (analytics.rs:132), and a file replayed within a second is not behind.
ChangesExported ==
    \A k \in unsent \cap Active :
        \/ stats[k].last > Since
        \/ k \in excused
        \/ k \in Overtaken /\ lastTs >= lastExport
        \/ stats[k].last = 0
=============================================================================
