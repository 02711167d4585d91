------------------------------- MODULE Replay -------------------------------
(***************************************************************************)
(* `netmon gen` and `netmon replay` (cli/src/main.rs): a pcap file is read *)
(* record by record, each frame goes through Engine::process, which parses *)
(* it and counts what came out (core/src/engine.rs).  Flows and rules have *)
(* modules of their own; here a tracked packet is only counted.            *)
(***************************************************************************)
EXTENDS Synth

CONSTANTS
    Captures,   \* files from elsewhere
    GenPackets  \* bound: packets of a generated file

ASSUME ReplayAssumption == Captures \subseteq PcapType /\ GenPackets \in Nat

VARIABLES
    counters,   \* Engine.counters
    tracked,    \* history: calls of FlowTable::update
    later,      \* history: later fragments
    origin      \* history: the scenario of a generated file, "capture" otherwise

vars == <<parserVars, pcapVars, counters, tracked, later, origin>>

Counters == {"packets", "ipv4", "ipv6", "tcp", "udp", "icmp", "other_l4", "non_ip",
             "fragments", "dns", "dns_errors", "parse_errors"}

GeneratedFiles(scenario) == {WriteFile(packets) : packets \in Generate(scenario, GenPackets)}

Init ==
    /\ \/ origin = "capture" /\ PcapInit(Captures)
       \/ \E s \in Scenario : origin = s /\ PcapInit(GeneratedFiles(s))
    /\ link = "Ethernet" /\ frame = IcmpEcho /\ ParserIdle
    /\ counters = [c \in Counters |-> 0] /\ tracked = 0 /\ later = 0

Unparsed == UNCHANGED <<phase, frame, slice, tags, exts, result, dnsVars>>
Uncounted == UNCHANGED <<counters, tracked, later, origin>>

Reader == (Open \/ ReadHeader \/ ReadFails) /\ Unparsed /\ Uncounted

\* replay hands the record to Engine::process, which counts it before it is parsed
NextRecord ==
    /\ stage = "data" /\ LET r == file.recs[next + 1] IN
         /\ Data(r)
         /\ \/ stage' = "frame" /\ ParseBegin(r.frame)
                 /\ counters' = [counters EXCEPT !.packets = @ + 1]
            \/ stage' # "frame" /\ Unparsed /\ UNCHANGED counters
    /\ UNCHANGED <<tracked, later, origin>>

Parse == stage = "frame" /\ ParseNext /\ UNCHANGED pcapVars /\ Uncounted

\* Engine::count: the counters one parsed packet raises
Raised ==
    IF refused # "no" THEN {"parse_errors"}
    ELSE IF ip = "none" THEN {"non_ip"}
    ELSE {IF ip = "v4" THEN "ipv4" ELSE "ipv6"}
         \cup (IF frag.more \/ frag.offset # 0 THEN {"fragments"} ELSE {})
         \cup (CASE transport = "Tcp" -> {"tcp"} [] transport = "Udp" -> {"udp"}
                 [] transport = "Icmp" -> {"icmp"} [] transport = "Other" -> {"other_l4"}
                 [] OTHER -> {})
         \cup (CASE app = "Dns" -> {"dns"} [] app = "DnsError" -> {"dns_errors"} [] OTHER -> {})

\* mutant: every fragment is tracked as a flow of its own
TrackAll == refused = "no" /\ ip # "none"

\* track_flow goes on to FlowTable::update
Tracks == refused = "no" /\ ip # "none" /\ transport # "LaterFragment"

\* parse has returned: the rest of Engine::process
Count ==
    /\ stage = "frame" /\ phase = "parsed"
    /\ counters' = [c \in Counters |-> counters[c] + (IF c \in Raised THEN 1 ELSE 0)]
    /\ tracked' = tracked + (IF Tracks THEN 1 ELSE 0)
    /\ later' = later + (IF refused = "no" /\ transport = "LaterFragment" THEN 1 ELSE 0)
    /\ stage' = "record" /\ phase' = "idle"
    /\ UNCHANGED <<link, frame, slice, tags, exts, result, dnsVars, origin>>
    /\ UNCHANGED <<file, at, filled, swapped, nanos, next, stamps, outcome>>

Next == Reader \/ NextRecord \/ Parse \/ Count

Spec == Init /\ [][Next]_vars

-----------------------------------------------------------------------------
(* Properties.                                                             *)

\* The type invariant of a replay: the parsers', the reader's and the report's variables.
TypeOK ==
    /\ DnsTypeOK /\ ParserTypeOK /\ PcapTypeOK
    /\ counters \in [Counters -> Nat] /\ tracked \in Nat /\ later \in Nat
    /\ origin \in Scenario \cup {"capture"}

\* The counters of the report add up to what was read: every packet is an error, not IP or
\* IP of one version, every IP packet is a later fragment or exactly one flow is told of
\* it, and DNS is counted within UDP.
CountersAgree ==
    stage # "frame" =>
        /\ counters.packets = next
        /\ next = counters.parse_errors + counters.non_ip + counters.ipv4 + counters.ipv6
        /\ tracked = counters.tcp + counters.udp + counters.icmp + counters.other_l4
        /\ counters.ipv4 + counters.ipv6 = tracked + later
        /\ counters.dns + counters.dns_errors <= counters.udp

\* What `netmon gen` writes, `netmon replay` reads back whole: every packet, in order of
\* strictly rising timestamps, without a parse or DNS error.
GeneratedReadsBack ==
    origin # "capture" =>
        /\ counters.parse_errors + counters.dns_errors + counters.non_ip + counters.fragments = 0
        /\ \A i, j \in DOMAIN stamps : i < j => stamps[i] < stamps[j]
        /\ stage = "ended" => outcome = "ok" /\ counters.packets = GenPackets

=============================================================================
