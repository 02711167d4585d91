---------------------------- MODULE PacketParser ----------------------------
(***************************************************************************)
(* packet::parse (core/src/packet/): one captured frame from its link      *)
(* layer to the transport header and the DNS message behind it.  A frame   *)
(* is what its bytes say: a chain of headers with the lengths they declare,*)
(* cut off after len bytes by the capture.  Errors keep their layer only.  *)
(***************************************************************************)
EXTENDS DnsParser

CONSTANTS
    MaxTags,   \* MAX_VLAN_TAGS
    MaxExts,   \* MAX_EXTENSION_HEADERS
    Frames     \* the frames a parse on its own may start with

LinkType == {"Null", "Ethernet", "Raw"}
\* of (n + 1) * 8, (n + 2) * 4 or 8 bytes: none is shorter than its fixed part
Extension == [kind : {"options", "auth", "fragment"}, size : Nat \ 0..7, offset : Nat, more : BOOLEAN]
FrameType ==
    [len : Nat,                                   \* captured bytes
     tags : Nat,                                  \* VLAN and QinQ tags
     ethertype : {"ipv4", "ipv6", "other"},
     version : Nat,                               \* high nibble of the network header
     ihl : Nat, total : Nat,                      \* IPv4 header, IPv4 total or IPv6 payload length
     offset : Nat, more : BOOLEAN,                \* IPv4 fragment field
     exts : Seq(Extension),                       \* IPv6 extension headers
     proto : {"tcp", "udp", "icmp", "icmpv6", "other"},
     doff : Nat,                                  \* TCP header length
     declared : Nat,                              \* UDP length
     dns : BOOLEAN,                               \* a UDP port is 53
     message : Seq(Byte)]                         \* UDP payload

ASSUME ParserAssumption ==
    MaxTags \in Nat /\ MaxExts \in Nat /\ Frames \subseteq FrameType

VARIABLES
    phase,     \* the parser that runs next; "idle" before, "parsed" after parse
    link, frame,
    offset,    \* bytes of the frame in front of the slice being parsed
    limit,     \* where that slice ends
    touched,   \* history: how far the frame has been read
    tags,      \* vlan_tags
    exts,      \* extension headers passed
    ip,        \* Packet.ip: "none", "v4" or "v6"
    frag,      \* its fragment_offset and more_fragments
    transport, \* Packet.transport
    app,       \* Packet.app
    refused    \* the layer of the ParseError, "no" without one

slice == <<offset, limit, touched>>
result == <<ip, frag, transport, app, refused>>
parserVars == <<phase, link, frame, slice, tags, exts, result, dnsVars>>

ParserIdle ==
    /\ phase = "idle" /\ offset = 0 /\ limit = 0 /\ touched = 0 /\ tags = 0 /\ exts = 0
    /\ ip = "none" /\ frag = [offset |-> 0, more |-> FALSE]
    /\ transport = "None" /\ app = "None" /\ refused = "no" /\ DnsIdle

\* parse(link, frame) is called
ParseBegin(f) ==
    /\ phase' = "link" /\ frame' = f /\ offset' = 0 /\ limit' = f.len /\ touched' = 0
    /\ tags' = 0 /\ exts' = 0 /\ ip' = "none" /\ frag' = [offset |-> 0, more |-> FALSE]
    /\ transport' = "None" /\ app' = "None" /\ refused' = "no"
    /\ UNCHANGED <<link, dnsVars>>

-----------------------------------------------------------------------------
\* mutant: need accepts one byte more than there is
HoldsOneLess(n) == offset + n <= limit + 1

\* need(buf, n)
Holds(n) == offset + n <= limit

\* n bytes are read and the parser after them is called on the rest
Read(n, next) == offset' = offset + n /\ touched' = offset + n /\ phase' = next

Refuse(layer) ==
    /\ phase' = "parsed" /\ refused' = layer
    /\ UNCHANGED <<link, frame, slice, tags, exts, ip, frag, transport, app, dnsVars>>

NULL_HEADER_LEN == 4
ETH_HEADER_LEN == 14
VLAN_TAG_LEN == 4
IPV4_HEADER_LEN == 20
IPV6_HEADER_LEN == 40
FRAGMENT_HEADER_LEN == 8
TCP_HEADER_LEN == 20
UDP_HEADER_LEN == 8
ICMP_HEADER_LEN == 4

LinkHeader ==
    /\ phase = "link"
    /\ LET n == CASE link = "Ethernet" -> ETH_HEADER_LEN
                  [] link = "Null" -> NULL_HEADER_LEN
                  [] link = "Raw" -> 0
       IN  \/ ~Holds(n) /\ Refuse("Link")
           \/ /\ Holds(n) /\ Read(n, IF link = "Ethernet" THEN "tag" ELSE "version")
              /\ UNCHANGED <<link, frame, limit, tags, exts, result, dnsVars>>

\* ethernet::parse: the loop over VLAN tags
VlanTag ==
    /\ phase = "tag" /\ tags < frame.tags
    /\ \/ (tags = MaxTags \/ ~Holds(VLAN_TAG_LEN)) /\ Refuse("Link")
       \/ /\ tags < MaxTags /\ Holds(VLAN_TAG_LEN)
          /\ Read(VLAN_TAG_LEN, "tag") /\ tags' = tags + 1
          /\ UNCHANGED <<link, frame, limit, exts, result, dnsVars>>

\* parse: the ethertype, or the version nibble where there is none
NetworkLayer ==
    /\ \/ phase = "tag" /\ tags = frame.tags
       \/ phase = "version" /\ Holds(1) /\ frame.version \in {4, 6}
    /\ phase' = CASE phase = "tag" /\ frame.ethertype = "other" -> "parsed"
                  [] phase = "tag" /\ frame.ethertype # "other" -> frame.ethertype
                  [] phase = "version" -> IF frame.version = 4 THEN "ipv4" ELSE "ipv6"
    /\ UNCHANGED <<link, frame, slice, tags, exts, result, dnsVars>>

UnknownVersion ==
    /\ phase = "version" /\ ~(Holds(1) /\ frame.version \in {4, 6})
    /\ Refuse("Link")

Smaller(m, n) == IF m < n THEN m ELSE n

Ipv4Valid ==
    /\ Holds(IPV4_HEADER_LEN) /\ frame.version = 4
    /\ frame.ihl >= IPV4_HEADER_LEN /\ Holds(frame.ihl) /\ frame.total >= frame.ihl

\* mutant: the padding behind the packet is taken for a part of it
Padded(n) == limit

\* a packet of n bytes may be longer than what was captured
PacketEnd(n) == Smaller(offset + n, limit)

Ipv4 ==
    /\ phase = "ipv4"
    /\ \/ ~Ipv4Valid /\ Refuse("Ipv4")
       \/ /\ Ipv4Valid
          /\ Read(frame.ihl, "l4") /\ limit' = PacketEnd(frame.total)
          /\ ip' = "v4" /\ frag' = [offset |-> frame.offset, more |-> frame.more]
          /\ UNCHANGED <<link, frame, tags, exts, transport, app, refused, dnsVars>>

Ipv6 ==
    /\ phase = "ipv6"
    /\ \/ ~(Holds(IPV6_HEADER_LEN) /\ frame.version = 6) /\ Refuse("Ipv6")
       \/ /\ Holds(IPV6_HEADER_LEN) /\ frame.version = 6
          /\ Read(IPV6_HEADER_LEN, "ext") /\ limit' = PacketEnd(IPV6_HEADER_LEN + frame.total)
          /\ UNCHANGED <<link, frame, tags, exts, result, dnsVars>>

\* the part of an extension header that is read before its length is known
Fixed(e) == IF e.kind = "fragment" THEN FRAGMENT_HEADER_LEN ELSE 2

\* the loop has turns left: a turn passes one extension header or returns
TurnsLeft == exts < MaxExts

\* ipv6::parse: one turn of the loop
ExtensionHeader ==
    /\ phase = "ext" /\ TurnsLeft /\ exts < Len(frame.exts)
    /\ LET e == frame.exts[exts + 1] IN
       \/ ~(Holds(Fixed(e)) /\ Holds(e.size)) /\ Refuse("Ipv6")
       \/ /\ Holds(Fixed(e)) /\ Holds(e.size)
          /\ Read(e.size, "ext") /\ exts' = exts + 1
          /\ frag' = IF e.kind = "fragment" THEN [offset |-> e.offset, more |-> e.more] ELSE frag
          /\ UNCHANGED <<link, frame, limit, tags, ip, transport, app, refused, dnsVars>>

TooManyExtensions == phase = "ext" /\ ~TurnsLeft /\ Refuse("Ipv6")

LastExtension ==
    /\ phase = "ext" /\ TurnsLeft /\ exts = Len(frame.exts)
    /\ phase' = "l4" /\ ip' = "v6"
    /\ UNCHANGED <<link, frame, slice, tags, exts, frag, transport, app, refused, dnsVars>>

-----------------------------------------------------------------------------
(* parse: the transport layer.                                              *)

Later == frag.offset # 0

Transport(t, n) ==
    /\ transport' = t /\ Read(n, "parsed")
    /\ UNCHANGED <<link, frame, limit, tags, exts, ip, frag, app, refused, dnsVars>>

LaterFragment == phase = "l4" /\ Later /\ Transport("LaterFragment", 0)

Tcp ==
    /\ phase = "l4" /\ ~Later /\ frame.proto = "tcp"
    /\ LET valid == Holds(TCP_HEADER_LEN) /\ frame.doff >= TCP_HEADER_LEN /\ Holds(frame.doff) IN
       \/ ~valid /\ Refuse("Tcp")
       \/ valid /\ Transport("Tcp", frame.doff)

\* where the payload of a datagram ends
DatagramEnd == IF frame.declared = 0 THEN limit ELSE Smaller(offset + frame.declared, limit)

Payload ==
    SubSeq(frame.message, 1, Smaller(DatagramEnd - offset - UDP_HEADER_LEN, Len(frame.message)))

Udp ==
    /\ phase = "l4" /\ ~Later /\ frame.proto = "udp"
    /\ LET valid == Holds(UDP_HEADER_LEN) /\ (frame.declared = 0 \/ frame.declared >= UDP_HEADER_LEN)
           ask   == frame.dns /\ DatagramEnd > offset + UDP_HEADER_LEN
       IN  \/ ~valid /\ Refuse("Udp")
           \/ valid /\ ~ask /\ Transport("Udp", UDP_HEADER_LEN)
           \/ /\ valid /\ ask /\ transport' = "Udp"
              /\ Read(UDP_HEADER_LEN, "dns") /\ limit' = DatagramEnd /\ DnsBegin(Payload)
              /\ UNCHANGED <<link, frame, tags, exts, ip, frag, app, refused>>

Icmp ==
    /\ phase = "l4" /\ ~Later /\ frame.proto \in {"icmp", "icmpv6"}
    /\ \/ ~Holds(ICMP_HEADER_LEN) /\ Refuse("Icmp")
       \/ Holds(ICMP_HEADER_LEN) /\ Transport("Icmp", ICMP_HEADER_LEN)

Other == phase = "l4" /\ ~Later /\ frame.proto = "other" /\ Transport("Other", 0)

\* dns::parse runs, and its result becomes Packet.app
DnsStep ==
    /\ phase = "dns" /\ DnsNext
    /\ UNCHANGED <<phase, link, frame, slice, tags, exts, result>>

DnsReturns ==
    /\ phase = "dns" /\ walk \in {"ok", "error"}
    /\ app' = IF walk = "ok" THEN "Dns" ELSE "DnsError"
    /\ phase' = "parsed"
    /\ UNCHANGED <<link, frame, slice, tags, exts, ip, frag, transport, refused, dnsVars>>

ParseNext ==
    \/ LinkHeader \/ VlanTag \/ NetworkLayer \/ UnknownVersion
    \/ Ipv4 \/ Ipv6 \/ ExtensionHeader \/ TooManyExtensions \/ LastExtension
    \/ LaterFragment \/ Tcp \/ Udp \/ Icmp \/ Other \/ DnsStep \/ DnsReturns

ParseInit ==
    /\ link \in LinkType /\ frame \in Frames
    /\ phase = "link" /\ offset = 0 /\ limit = frame.len /\ touched = 0 /\ tags = 0 /\ exts = 0
    /\ ip = "none" /\ frag = [offset |-> 0, more |-> FALSE]
    /\ transport = "None" /\ app = "None" /\ refused = "no" /\ DnsIdle

ParseSpec == ParseInit /\ [][ParseNext]_parserVars

-----------------------------------------------------------------------------
(* Properties.                                                             *)

ParserTypeOK ==
    /\ phase \in {"idle", "link", "tag", "version", "ipv4", "ipv6", "ext", "l4", "dns", "parsed"}
    /\ link \in LinkType /\ frame \in FrameType
    /\ offset \in Nat /\ limit \in Nat /\ touched \in Nat /\ tags \in Nat /\ exts \in Nat
    /\ ip \in {"none", "v4", "v6"} /\ frag \in [offset : Nat, more : BOOLEAN]
    /\ transport \in {"None", "Tcp", "Udp", "Icmp", "LaterFragment", "Other"}
    /\ app \in {"None", "Dns", "DnsError"}
    /\ refused \in {"no", "Link", "Ipv4", "Ipv6", "Tcp", "Udp", "Icmp"}

\* No parser reads past the end of its slice, and no slice reaches past the capture: with
\* any lengths in the headers no index is out of bounds, which would end the capture
\* thread with a panic.
InBounds == offset <= limit /\ touched <= limit /\ limit <= frame.len

-----------------------------------------------------------------------------
(* What the bytes of a frame mean, without the order they are read in.      *)

ExtsLen(f) == LET sum[i \in 0..Len(f.exts)] == IF i = 0 THEN 0 ELSE sum[i - 1] + f.exts[i].size
              IN  sum[Len(f.exts)]

Network(f) == IF link = "Ethernet" THEN f.ethertype
              ELSE IF f.version = 4 THEN "ipv4" ELSE IF f.version = 6 THEN "ipv6" ELSE "bad"

NetworkStart(f) == CASE link = "Ethernet" -> ETH_HEADER_LEN + VLAN_TAG_LEN * f.tags
                     [] link = "Null" -> NULL_HEADER_LEN
                     [] link = "Raw" -> 0

NetworkLen(f) == IF Network(f) = "ipv4" THEN f.ihl ELSE IPV6_HEADER_LEN + ExtsLen(f)
PacketLen(f) == IF Network(f) = "ipv4" THEN f.total ELSE IPV6_HEADER_LEN + f.total

\* a fragment other than the first has no transport header
MeansLater(f) ==
    IF Network(f) = "ipv4" THEN f.offset # 0
    ELSE LET fragments == {i \in DOMAIN f.exts : f.exts[i].kind = "fragment"} IN
         \E i \in fragments : f.exts[i].offset # 0 /\ \A j \in fragments : j <= i

TransportLen(f) ==
    IF MeansLater(f) THEN 0
    ELSE CASE f.proto = "tcp" -> f.doff
           [] f.proto = "udp" -> UDP_HEADER_LEN
           [] f.proto \in {"icmp", "icmpv6"} -> ICMP_HEADER_LEN
           [] f.proto = "other" -> 0

Meaning(f) ==
    IF MeansLater(f) THEN "LaterFragment"
    ELSE CASE f.proto = "tcp" -> "Tcp" [] f.proto = "udp" -> "Udp"
           [] f.proto \in {"icmp", "icmpv6"} -> "Icmp" [] f.proto = "other" -> "Other"

WellFormed(f) ==
    /\ link = "Ethernet" => f.tags <= MaxTags
    /\ \/ Network(f) = "ipv4" /\ f.version = 4 /\ f.ihl >= IPV4_HEADER_LEN
       \/ Network(f) = "ipv6" /\ f.version = 6 /\ Len(f.exts) < MaxExts
    /\ NetworkLen(f) + TransportLen(f) <= PacketLen(f)
    /\ MeansLater(f) \/ (f.proto = "tcp" => f.doff >= TCP_HEADER_LEN)
    /\ MeansLater(f) \/ (f.proto = "udp" => f.declared = 0 \/ f.declared >= UDP_HEADER_LEN)

\* captured up to the end of the transport header
Captured(f) == f.len >= NetworkStart(f) + NetworkLen(f) + TransportLen(f)

HeadersAsMeant ==
    IF Network(frame) = "other"
    THEN /\ refused = "no" <=> frame.tags <= MaxTags /\ frame.len >= NetworkStart(frame)
         /\ ip = "none" /\ transport = "None"
    ELSE /\ refused = "no" <=> WellFormed(frame) /\ Captured(frame)
         /\ refused = "no" => transport = Meaning(frame)
         /\ app # "None" => transport = "Udp" /\ refused = "no"

\* A frame is parsed if and only if its headers are well formed and were captured up to
\* the end of the transport header; padding behind a short packet never stands in for
\* missing bytes.  What it is parsed to is what the headers say; what the DNS parser makes
\* of the payload never refuses the packet, and it reads the question where the bytes put it.
ParsedAsMeant == QuestionPlaced /\ (phase = "parsed" => HeadersAsMeant)
=============================================================================
