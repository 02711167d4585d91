------------------------------- MODULE Synth -------------------------------
(***************************************************************************)
(* The synthetic traffic of `netmon gen` and core_write_demo               *)
(* (core/src/synth.rs): frames by kind, and the sequences of frames and    *)
(* timestamps generate may pass to its sink, whatever the random numbers.  *)
(* Addresses, ports other than 53 and checksums are left out.              *)
(***************************************************************************)
EXTENDS PcapFile

CONSTANTS
    StartTs, MaxGap,     \* START_TS_US, MAX_GAP_US
    InjectEvery,
    MaxPayload,          \* MAX_TCP_PAYLOAD
    Domains, TunnelName  \* label lengths of DOMAINS and of tunnel_query's name

Labels == Seq(1..63)

ASSUME SynthAssumption ==
    /\ StartTs \in Nat /\ MaxGap \in Nat \ {0} /\ InjectEvery \in Nat \ {0}
    /\ MaxPayload \in Nat \ {0} /\ Domains \subseteq Labels /\ TunnelName \in Labels

Scenario == {"mixed", "portscan", "dnstunnel", "flood"}

\* ethernet_ipv4 around a transport header and its payload of n bytes together
EthernetIpv4(proto, n) ==
    [len |-> ETH_HEADER_LEN + IPV4_HEADER_LEN + n, tags |-> 0, ethertype |-> "ipv4", version |-> 4,
     ihl |-> IPV4_HEADER_LEN, total |-> IPV4_HEADER_LEN + n, offset |-> 0, more |-> FALSE,
     exts |-> <<>>, proto |-> proto, doff |-> TCP_HEADER_LEN, declared |-> 0, dns |-> FALSE,
     message |-> <<>>]

TcpSegment(payload) == EthernetIpv4("tcp", TCP_HEADER_LEN + payload)

\* mutant: the length leaves out the header
PayloadOnly(payload) == Len(payload)

DatagramLen(payload) == UDP_HEADER_LEN + Len(payload)

UdpDatagram(payload, port53) ==
    [EthernetIpv4("udp", UDP_HEADER_LEN + Len(payload)) EXCEPT
        !.declared = DatagramLen(payload), !.dns = port53, !.message = payload]

IcmpEcho == EthernetIpv4("icmp", 8)

\* the labels with their lengths, root label included
NameBytes(name) ==
    LET bytes[i \in 0..Len(name)] ==
            IF i = 0 THEN <<>> ELSE bytes[i - 1] \o <<name[i]>> \o [j \in 1..name[i] |-> 97]
    IN  bytes[Len(name)] \o <<0>>

DnsQueryPayload(name) ==
    <<0, 0, 1, 0, 0, 1, 0, 0, 0, 0, 0, 0>> \o NameBytes(name) \o <<0, 1, 0, 1>>

DnsQuery(name) == UdpDatagram(DnsQueryPayload(name), TRUE)

BackgroundPacket ==
    {TcpSegment(n) : n \in 0..(MaxPayload - 1)} \cup {DnsQuery(d) : d \in Domains} \cup {IcmpEcho}

FloodSyn == TcpSegment(0)
ScanProbe == TcpSegment(0)
TunnelQuery == DnsQuery(TunnelName)

Packet == BackgroundPacket \cup {FloodSyn, ScanProbe, TunnelQuery}

\* no frame is longer than a record may be, and no name than the parser reads: the longest
\* have 1453 of 262144 bytes and 68 of 253 characters
ASSUME LimitsAssumption ==
    /\ \A f \in Packet : f.len <= MaxRecord
    /\ \A name \in Domains \cup {TunnelName} : Len(NameBytes(name)) <= MaxName + 2

\* the frames of turn i of generate
FrameAt(scenario, i) ==
    IF scenario = "flood" THEN {FloodSyn}
    ELSE IF scenario = "mixed" \/ i % InjectEvery # 0 THEN BackgroundPacket
    ELSE IF scenario = "portscan" THEN {ScanProbe}
    ELSE {TunnelQuery}

Gap == 1..MaxGap

\* what generate passes to its sink in n turns
Generate(scenario, n) ==
    LET time(gaps) == [i \in 1..n |-> LET t[j \in 0..i] == IF j = 0 THEN StartTs ELSE t[j - 1] + gaps[j]
                                      IN  t[i]]
    IN  {[i \in 1..n |-> <<time(gaps)[i], frames[i]>>] :
            gaps \in [1..n -> Gap],
            frames \in {q \in [1..n -> Packet] : \A i \in 1..n : q[i] \in FrameAt(scenario, i - 1)}}
=============================================================================
