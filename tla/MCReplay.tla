------------------------------ MODULE MCReplay ------------------------------
(***************************************************************************)
(* Files for the replay: every way to cut a file of a few records, every   *)
(* captured length of frames with good and bad headers, every short DNS    *)
(* message over an alphabet of length bytes, pointers and positions.       *)
(***************************************************************************)
EXTENDS Replay

MCDomains == {<<2>>, <<1, 1>>}
MCTunnelName == <<2, 2>>

-----------------------------------------------------------------------------
(* DNS messages: a header with the question count, then up to five bytes.   *)

Header(q) == <<0, 0, 1, 0, 0, q, 0, 0, 0, 0, 0, 0>>
NameBytesOf == {0, 1, 2, 192, 12, 14}
MCMessages ==
    {Header(1) \o name : name \in [1..5 -> NameBytesOf]}
        \cup {Header(1) \o name : name \in [1..3 -> NameBytesOf \cup {64, 13, 255}]}
        \cup {Header(0), <<0, 0, 1>>, <<>>}

-----------------------------------------------------------------------------
(* Frames.                                                                  *)

Ext(kind, size, off) == [kind |-> kind, size |-> size, offset |-> off, more |-> TRUE]
MCExts ==
    {<<>>, <<Ext("options", 8, 0)>>, <<Ext("fragment", 8, 1)>>,
     <<Ext("auth", 12, 0), Ext("fragment", 8, 0)>>, <<Ext("fragment", 8, 1), Ext("options", 16, 0)>>,
     <<Ext("fragment", 8, 1), Ext("fragment", 8, 0)>>,
     <<Ext("options", 8, 0), Ext("options", 8, 0), Ext("options", 8, 0)>>}

Plain == UdpDatagram(DnsQueryPayload(<<1>>), TRUE)

Transports ==
    {TcpSegment(1), IcmpEcho, Plain, UdpDatagram(<<>>, TRUE), UdpDatagram(<<0>>, FALSE),
     [IcmpEcho EXCEPT !.proto = "other"], [TcpSegment(1) EXCEPT !.doff = 16],
     [TcpSegment(4) EXCEPT !.doff = 24], [TcpSegment(1) EXCEPT !.doff = 24],
     [Plain EXCEPT !.declared = 7], [Plain EXCEPT !.declared = 0], [Plain EXCEPT !.declared = 20]}

\* the frame with its network layer replaced by an IPv6 header and these extensions
AsV6(f, x) == LET n == f.total - f.ihl + ExtsLen([f EXCEPT !.exts = x]) IN
    [f EXCEPT !.ethertype = "ipv6", !.version = 6, !.exts = x, !.total = n,
              !.len = ETH_HEADER_LEN + IPV6_HEADER_LEN + n]

Networks ==
    Transports
        \cup {AsV6(f, x) : f \in Transports, x \in MCExts}
        \cup {[f EXCEPT !.offset = o, !.more = m] : f \in {Plain, TcpSegment(1)}, o \in 0..1, m \in BOOLEAN}
        \cup {[f EXCEPT !.total = n] : f \in {Plain, TcpSegment(1)}, n \in {19, 20, 27, 30, 40}}
        \cup {[TcpSegment(4) EXCEPT !.ihl = n] : n \in {16, 24}}
        \cup {[f EXCEPT !.version = v] : f \in {Plain, AsV6(Plain, <<>>)}, v \in {0, 4, 6}}
        \cup {[Plain EXCEPT !.ethertype = "other"]}

\* on each link, with tags, and captured in full, with padding or in part
OnLink(f, kind, n) ==
    [f EXCEPT !.tags = n, !.len = @ - ETH_HEADER_LEN + (CASE kind = 1 -> ETH_HEADER_LEN + 4 * n
                                                           [] kind = 0 -> NULL_HEADER_LEN
                                                           [] kind = 12 -> 0)]
Linked ==
    {<<1, OnLink(f, 1, 0)>> : f \in Networks}
        \cup {<<1, OnLink(f, 1, n)>> : f \in {Plain, IcmpEcho, [Plain EXCEPT !.ethertype = "other"]}, n \in 1..3}
        \cup {<<k, OnLink(f, k, 0)>> : k \in {0, 12},
                f \in {Plain, AsV6(Plain, <<Ext("options", 8, 0)>>), [Plain EXCEPT !.version = 0]}}

Cuts(n) == {n, n + 3} \cup {c \in {n - 1, n - 8, n - 12, n - 20, n - 28} : c > 0}
              \cup {c \in {1, 3, 4, 13, 14, 17, 18, 22, 33, 34, 41, 42, 53, 54, 55, 61, 62, 63} : c < n}

MCFrameFiles ==
    UNION {{[WriteFile(<<<<1, [p[2] EXCEPT !.len = c]>>>>) EXCEPT !.link = p[1]] : c \in Cuts(p[2].len)}
             : p \in Linked}

MCFrames == {p[2] : p \in Linked}
MCDnsFiles == {WriteFile(<<<<1, UdpDatagram(m, TRUE)>>>>) : m \in MCMessages}

-----------------------------------------------------------------------------
(* Files.                                                                   *)

Record(sec, frac, f) == [sec |-> sec, frac |-> frac, cap |-> f.len, wire |-> f.len + 5, frame |-> f]
TooLong == [IcmpEcho EXCEPT !.len = MaxRecord + 1]
Records == {<<>>, <<Record(1, 3, IcmpEcho), Record(0, 2, Plain)>>, <<Record(1, 0, TooLong)>>,
            <<Record(2, 5, IcmpEcho), Record(1, 0, TooLong)>>}

MCPcapFiles ==
    UNION {{[kind |-> k, big |-> b, link |-> l, recs |-> r, size |-> n, faulty |-> e] :
              n \in {SizeOf(SubSeq(r, 1, i)) + d : i \in 0..Len(r), d \in {-1, 0, 1, 15, 16, 17}}
                       \cap 0..SizeOf(r),
              k \in {"micros", "nanos", "other"}, b \in BOOLEAN, l \in {0, 1, 7, 12, 101}, e \in BOOLEAN}
             : r \in Records}

MCCaptures == MCPcapFiles \cup MCFrameFiles \cup MCDnsFiles
=============================================================================
