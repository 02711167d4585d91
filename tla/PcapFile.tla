------------------------------ MODULE PcapFile ------------------------------
(***************************************************************************)
(* PcapReader and PcapWriter (core/src/pcap.rs).  A file is a global       *)
(* header and records laid end to end, in the byte order of its writer,    *)
(* cut off after size bytes.  Words are two digits in base Digits, so that *)
(* swap_bytes is what it is for four; the fields hold what was meant.      *)
(***************************************************************************)
EXTENDS PacketParser

CONSTANTS
    Digits,       \* bound: values of one byte of a word
    MicrosPerSec, NanosPerMicro,
    MaxRecord,    \* MAX_RECORD_LEN
    Chunks        \* bound: how many bytes one read may return

ASSUME PcapAssumption ==
    /\ Digits \in Nat \ {0} /\ MicrosPerSec \in Nat \ {0} /\ NanosPerMicro \in Nat \ {0}
    /\ MaxRecord \in Nat /\ Chunks \subseteq Nat \ {0}

VARIABLES
    file,     \* [kind, big, link, recs, size, faulty]
    stage,    \* "open", "record", "data", "frame" or "ended"
    at,       \* bytes read and used
    filled,   \* read_full_or_eof: bytes of the next record header read so far
    swapped, nanos,
    next,     \* records read
    stamps,   \* history: RecordHeader.ts_us of the records read
    outcome   \* how the reading ended: "none", "ok" or "error"

pcapVars == <<file, stage, at, filled, swapped, nanos, next, stamps, outcome>>

GLOBAL_HEADER_LEN == 24
RECORD_HEADER_LEN == 16
MAGIC == [micros |-> 18, nanos |-> 19, other |-> 20]

swap_bytes(w) == (w % Digits) * Digits + w \div Digits

\* a word as its little-endian reader gets it
Stored(w) == IF file.big THEN swap_bytes(w) ELSE w

\* the magic numbers are told apart in either byte order, as those of the code are
ASSUME MagicAssumption ==
    \A k \in DOMAIN MAGIC :
        MAGIC[k] < Digits * Digits /\ swap_bytes(MAGIC[k]) \notin {MAGIC.micros, MAGIC.nanos}

read_u32(w) == IF swapped THEN swap_bytes(Stored(w)) ELSE Stored(w)

\* LinkType::from_raw
FromRaw(w) == CASE w = 0 -> "Null" [] w = 1 -> "Ethernet" [] w \in {12, 14, 101} -> "Raw"
                [] OTHER -> "none"

Fails == stage' = "ended" /\ outcome' = "error"

\* PcapReader::new
Open ==
    LET magic == Stored(MAGIC[file.kind])
        swap  == magic # MAGIC.micros /\ magic # MAGIC.nanos
        meant == IF swap THEN swap_bytes(magic) ELSE magic
        raw   == FromRaw(IF swap THEN swap_bytes(Stored(file.link)) ELSE Stored(file.link))
    IN  /\ stage = "open"
        /\ \/ /\ file.size < GLOBAL_HEADER_LEN \/ meant \notin {MAGIC.micros, MAGIC.nanos} \/ raw = "none"
              /\ Fails /\ UNCHANGED <<at, swapped, nanos, link>>
           \/ /\ file.size >= GLOBAL_HEADER_LEN /\ meant \in {MAGIC.micros, MAGIC.nanos} /\ raw # "none"
              /\ at' = GLOBAL_HEADER_LEN /\ stage' = "record"
              /\ swapped' = swap /\ nanos' = (meant = MAGIC.nanos) /\ link' = raw
              /\ UNCHANGED outcome
    /\ UNCHANGED <<file, filled, next, stamps>>

Left == file.size - at - filled

\* what one read returns, and the loop of read_full_or_eof asks for the rest
Gets(n) == Smaller(n, Smaller(Left, RECORD_HEADER_LEN - filled))

\* mutant: the end of the file ends the replay wherever it is
EndAnywhere == TRUE

AtEnd == filled = 0

\* next_record: one read of the record header
ReadHeader ==
    /\ stage = "record"
    /\ \/ /\ Left = 0
          /\ stage' = "ended" /\ outcome' = IF AtEnd THEN "ok" ELSE "error"
          /\ UNCHANGED <<at, filled>>
       \/ /\ Left > 0
          /\ \E n \in Chunks :
                \/ /\ filled + Gets(n) < RECORD_HEADER_LEN
                   /\ filled' = filled + Gets(n) /\ UNCHANGED <<at, stage>>
                \/ /\ filled + Gets(n) = RECORD_HEADER_LEN
                   /\ filled' = 0 /\ at' = at + RECORD_HEADER_LEN /\ stage' = "data"
          /\ UNCHANGED outcome
    /\ UNCHANGED <<file, swapped, nanos, next, stamps, link>>

\* RecordHeader.ts_us
Timestamp(r) ==
    read_u32(r.sec) * MicrosPerSec
        + IF nanos THEN read_u32(r.frac) \div NanosPerMicro ELSE read_u32(r.frac)

\* next_record: the limit, the data and the timestamp
Data(r) ==
    LET cap == read_u32(r.cap) IN
    /\ stage = "data"
    /\ \/ /\ cap > MaxRecord \/ at + cap > file.size
          /\ Fails /\ UNCHANGED <<at, next, stamps, frame>>
       \/ /\ cap <= MaxRecord /\ at + cap <= file.size
          /\ at' = at + cap /\ next' = next + 1 /\ stamps' = Append(stamps, Timestamp(r))
          /\ stage' = "frame" /\ frame' = r.frame /\ UNCHANGED outcome
    /\ UNCHANGED <<file, filled, swapped, nanos, link>>

\* a read that returns an error
ReadFails ==
    /\ file.faulty /\ stage \in {"open", "record", "data"} /\ Fails
    /\ UNCHANGED <<file, at, filled, swapped, nanos, next, stamps, link>>

PcapInit(files) ==
    /\ file \in files /\ stage = "open" /\ at = 0 /\ filled = 0 /\ swapped = FALSE /\ nanos = FALSE
    /\ next = 0 /\ stamps = <<>> /\ outcome = "none"

-----------------------------------------------------------------------------
(* PcapWriter: the header, and one record per packet.                       *)

WriteRecord(ts, f) ==
    [sec |-> ts \div MicrosPerSec, frac |-> ts % MicrosPerSec, cap |-> f.len, wire |-> f.len, frame |-> f]

SizeOf(recs) ==
    LET end[i \in 0..Len(recs)] ==
            IF i = 0 THEN GLOBAL_HEADER_LEN ELSE end[i - 1] + RECORD_HEADER_LEN + recs[i].cap
    IN  end[Len(recs)]

\* the file that holds these <<timestamp, frame>> pairs
WriteFile(packets) ==
    LET recs == [i \in DOMAIN packets |-> WriteRecord(packets[i][1], packets[i][2])]
    IN  [kind |-> "micros", big |-> FALSE, link |-> 1, recs |-> recs, size |-> SizeOf(recs),
         faulty |-> FALSE]

\* What a file may be: it is cut off somewhere within its records, and what a writer in
\* another byte order wrote are words.
Word == 0..(Digits * Digits - 1)

PcapType ==
    {f \in [kind : DOMAIN MAGIC, big : BOOLEAN, link : Nat, size : Nat, faulty : BOOLEAN,
            recs : Seq([sec : Nat, frac : Nat, cap : Nat, wire : Nat, frame : FrameType])] :
        /\ f.size <= SizeOf(f.recs)
        /\ f.big \/ f.kind = "other" =>
              f.link \in Word /\ \A i \in DOMAIN f.recs : {f.recs[i].sec, f.recs[i].frac, f.recs[i].cap} \subseteq Word}

\* The type invariant of the reader: lengths, positions and timestamps are never negative.
PcapTypeOK ==
    /\ file \in PcapType /\ stage \in {"open", "record", "data", "frame", "ended"}
    /\ at \in Nat /\ filled \in Nat /\ swapped \in BOOLEAN /\ nanos \in BOOLEAN
    /\ next \in Nat /\ stamps \in Seq(Nat) /\ outcome \in {"none", "ok", "error"}

-----------------------------------------------------------------------------
(* replay_open and replay_loop (sniffer-c/src/pcap_replay.c) read the same  *)
(* files for the capture thread; NcCore::install refuses unknown links.     *)

Complete(i) == file.recs[i].cap <= MaxRecord /\ SizeOf(SubSeq(file.recs, 1, i)) <= file.size

ReplayOpens ==
    file.size >= GLOBAL_HEADER_LEN /\ file.kind # "other" /\ FromRaw(file.link) # "none"

ReplayDelivers ==
    IF ReplayOpens THEN {i \in DOMAIN file.recs : \A j \in 1..i : Complete(j)} ELSE {}

ReplayEndsOk ==
    ReplayOpens /\ \E i \in 0..Len(file.recs) :
        i = next /\ SizeOf(SubSeq(file.recs, 1, i)) = file.size

MicrosOf(r) == r.sec * MicrosPerSec + (IF file.kind = "nanos" THEN r.frac \div NanosPerMicro ELSE r.frac)

\* The command line's reader and the capture thread's replay agree on every file: however
\* the reads are cut, in either byte order, they deliver the same records with the same
\* timestamps, and both report an error unless the file ends with a whole record.
ReadersAgree ==
    /\ \A i \in 1..next : i \in ReplayDelivers /\ stamps[i] = MicrosOf(file.recs[i])
    /\ stage = "ended" /\ ~file.faulty =>
          /\ next = Len(stamps) /\ ReplayDelivers = 1..next
          /\ outcome = "ok" <=> ReplayEndsOk
=============================================================================
