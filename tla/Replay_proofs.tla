---------------------------- MODULE Replay_proofs ----------------------------
(* What holds of a replay for every file, every generated capture and any   *)
(* limits: no parser reads past its slice and no slice past the capture, the *)
(* walk over a DNS name ends, the two readers of pcap files make the same of *)
(* every file, the counters of the report add up, a frame is parsed to what *)
(* its headers mean, and a generated capture is read back whole.            *)
EXTENDS Replay, SequenceTheorems, FiniteSetTheorems, TLAPS

-----------------------------------------------------------------------------
(* The walk over a DNS name.                                                *)

\* A step pays for itself with a pointer or with a longer name.
WalkInv ==
    /\ DnsTypeOK
    /\ steps <= jumps + nameLen /\ jumps <= MaxJumps /\ nameLen <= MaxName

\* A byte of a message is a byte.
LEMMA ByteRead ==
    ASSUME msg \in Seq(Byte), NEW p \in Nat, Holding(p + 1)
    PROVE  At(p) \in Byte
  BY DEF At, Holding

\* A step more is paid for by a character more.
LEMMA OneMore ==
    ASSUME NEW s \in Nat, NEW j \in Nat, NEW n \in Nat, NEW m \in Nat, s <= j + n, m >= n + 1
    PROVE  s + 1 <= j + m
  OBVIOUS

\* dns::parse starts in the invariant: nothing is read yet.
LEMMA WalkInit == DnsInit => WalkInv
  BY DnsAssumption, Z3 DEF DnsInit, WalkInv, DnsTypeOK, HeaderLen, None

\* A refusal leaves the walk where it was.
LEMMA RejectPreserves == WalkInv /\ Reject => WalkInv'
  BY DEF WalkInv, DnsTypeOK, Reject

\* A label lengthens the name by at least one, up to its limit.
LEMMA LabelPreserves == WalkInv /\ Label => WalkInv'
<1> SUFFICES ASSUME WalkInv, Label PROVE WalkInv'
  OBVIOUS
<1>1. CASE Reject
  BY <1>1, RejectPreserves
<1>2. CASE /\ Holding(pos + 1 + At(pos)) /\ Longer(At(pos)) <= MaxName
           /\ pos' = pos + 1 + At(pos) /\ nameLen' = Longer(At(pos)) /\ steps' = steps + 1
           /\ UNCHANGED <<msg, walk, resume, jumps>>
  <2>1. At(pos) \in Byte /\ At(pos) # 0
    BY ByteRead DEF WalkInv, DnsTypeOK, Label, Reading
  <2>2. PICK b \in 1..255 : At(pos) = b
    BY <2>1 DEF Byte
  <2>3. Longer(b) \in Nat /\ Longer(b) >= nameLen + 1
    BY DEF Longer, WalkInv, DnsTypeOK
  <2>4. nameLen' \in Nat /\ nameLen' >= nameLen + 1 /\ nameLen' <= MaxName
    BY <1>2, <2>2, <2>3
  <2>5. pos' \in Nat
    BY <1>2, <2>2 DEF WalkInv, DnsTypeOK
  <2>6. /\ steps' = steps + 1
        /\ msg' = msg /\ walk' = walk /\ resume' = resume /\ jumps' = jumps
    BY <1>2
  <2>7. DnsTypeOK'
    BY <2>4, <2>5, <2>6 DEF WalkInv, DnsTypeOK
  <2>8. jumps' <= MaxJumps /\ nameLen' <= MaxName
    BY <2>4, <2>6 DEF WalkInv
  <2>9. steps' <= jumps' + nameLen'
    <3>1. steps \in Nat /\ jumps \in Nat /\ nameLen \in Nat /\ steps <= jumps + nameLen
      BY DEF WalkInv, DnsTypeOK
    <3>2. steps + 1 <= jumps + nameLen'
      BY <3>1, <2>4, OneMore
    <3> QED
      BY <3>2, <2>6
  <2> QED
    BY <2>7, <2>8, <2>9 DEF WalkInv
<1> QED
  BY <1>1, <1>2 DEF Label

\* A pointer uses up one of the jumps.
LEMMA PointerPreserves == WalkInv /\ Pointer => WalkInv'
<1> SUFFICES ASSUME WalkInv, Pointer PROVE WalkInv'
  OBVIOUS
<1>1. CASE Reject
  BY <1>1, RejectPreserves
<1>2. CASE /\ Holding(pos + 2) /\ MayJump
           /\ pos' = (At(pos) % 64) * 256 + At(pos + 1)
           /\ resume' = FirstResume /\ jumps' = jumps + 1 /\ steps' = steps + 1
           /\ UNCHANGED <<msg, walk, nameLen>>
  <2>1. At(pos) \in Byte /\ At(pos + 1) \in Byte
    <3>1. Holding(pos + 1) /\ Holding((pos + 1) + 1) /\ pos \in Nat /\ pos + 1 \in Nat
      BY <1>2 DEF Holding, WalkInv, DnsTypeOK
    <3> QED
      BY <3>1, ByteRead DEF WalkInv, DnsTypeOK
  <2>2. At(pos) % 64 \in 0..63
    BY <2>1 DEF Byte
  <2>3. pos' \in Nat
    BY <1>2, <2>1, <2>2 DEF Byte
  <2>4. resume' \in Nat \cup {None}
    BY <1>2 DEF FirstResume, WalkInv, DnsTypeOK
  <2> QED
    BY <1>2, <2>3, <2>4, DnsAssumption DEF WalkInv, DnsTypeOK, MayJump
<1> QED
  BY <1>1, <1>2 DEF Pointer

\* No step of the walk leaves its invariant.
LEMMA WalkNext == WalkInv /\ [DnsNext]_dnsVars => WalkInv'
<1> SUFFICES ASSUME WalkInv, [DnsNext]_dnsVars PROVE WalkInv'
  OBVIOUS
<1>1. CASE DnsHeader
  BY <1>1, RejectPreserves DEF DnsHeader, WalkInv, DnsTypeOK
<1>2. CASE Root
  BY <1>2 DEF Root, NameEnd, WalkInv, DnsTypeOK
<1>3. CASE Label
  BY <1>3, LabelPreserves
<1>4. CASE Pointer
  BY <1>4, PointerPreserves
<1>5. CASE BadLabel
  BY <1>5, RejectPreserves DEF BadLabel
<1>6. CASE Question
  BY <1>6, RejectPreserves DEF Question, WalkInv, DnsTypeOK
<1>7. CASE UNCHANGED dnsVars
  BY <1>7 DEF dnsVars, WalkInv, DnsTypeOK
<1> QED
  BY <1>1, <1>2, <1>3, <1>4, <1>5, <1>6, <1>7 DEF DnsNext

\* The walk over the name of any message takes at most as many steps as pointers may be
\* followed and characters the name may have.
THEOREM WalkIsBounded == DnsSpec => []WalkBounded
<1>1. DnsInit => WalkInv
  BY WalkInit
<1>2. WalkInv /\ [DnsNext]_dnsVars => WalkInv'
  BY WalkNext
<1>3. WalkInv => WalkBounded
  BY DnsAssumption DEF WalkInv, WalkBounded, DnsTypeOK
<1> QED
  BY <1>1, <1>2, <1>3, PTL DEF DnsSpec

-----------------------------------------------------------------------------
(* The slices of the parsers.                                               *)

SliceInv ==
    /\ frame \in FrameType
    /\ offset \in Nat /\ limit \in Nat /\ touched \in Nat /\ exts \in Nat
    /\ InBounds

\* A header of k bytes that the slice holds, in a packet that declares n bytes, lies in front
\* of the end both give.
LEMMA EndBehindHeader ==
    ASSUME NEW o \in Nat, NEW l \in Nat, NEW n \in Nat, NEW k \in Nat, o + k <= l, k <= n
    PROVE  Smaller(o + n, l) \in Nat /\ Smaller(o + n, l) <= l /\ o + k <= Smaller(o + n, l)
  BY DEF Smaller

\* Reading bytes the slice holds stays inside it, also when the slice ends earlier
\* afterwards, behind what was read.
LEMMA ReadStays ==
    ASSUME SliceInv, NEW n \in Nat, NEW after, Read(n, after), Holds(n),
           frame' = frame, exts' \in Nat,
           limit' \in Nat, limit' <= limit, offset + n <= limit'
    PROVE  SliceInv'
<1>1. offset' \in Nat /\ touched' \in Nat /\ offset' = offset + n /\ touched' = offset + n
  BY DEF SliceInv, Read
<1>2. frame.len \in Nat /\ limit <= frame.len
  BY DEF SliceInv, InBounds, FrameType
<1>3. limit' <= frame.len
  BY <1>2 DEF SliceInv
<1> QED
  BY <1>1, <1>3 DEF SliceInv, InBounds

\* The same where the slice keeps its end.
LEMMA ReadStaysWhole ==
    ASSUME SliceInv, NEW n \in Nat, NEW after, Read(n, after), Holds(n),
           frame' = frame, exts' \in Nat, limit' = limit
    PROVE  SliceInv'
<1>1. limit' \in Nat /\ limit' <= limit /\ offset + n <= limit'
  BY DEF SliceInv, Holds
<1> QED
  BY <1>1, ReadStays

\* Nothing moves: the slice stays inside the capture.
LEMMA KeptStays ==
    ASSUME SliceInv, UNCHANGED <<frame, offset, limit, touched>>, exts' \in Nat
    PROVE  SliceInv'
  BY DEF SliceInv, InBounds

\* A refusal that read no further than its slice.
LEMMA RefuseStays ==
    ASSUME SliceInv, NEW layer, Refuse(layer)
    PROVE  SliceInv'
  BY KeptStays DEF Refuse, slice, SliceInv

\* A transport header was read, and nothing behind it.
LEMMA TransportStays ==
    ASSUME SliceInv, NEW t, NEW n \in Nat, Transport(t, n), Holds(n)
    PROVE  SliceInv'
  BY ReadStaysWhole DEF Transport, SliceInv

-----------------------------------------------------------------------------

\* The link header of every link type.
LEMMA LinkHeaderStays == SliceInv /\ link \in LinkType /\ LinkHeader => SliceInv'
<1> SUFFICES ASSUME SliceInv, link \in LinkType, LinkHeader PROVE SliceInv'
  OBVIOUS
<1> DEFINE n == CASE link = "Ethernet" -> ETH_HEADER_LEN
                  [] link = "Null" -> NULL_HEADER_LEN
                  [] link = "Raw" -> 0
           after == IF link = "Ethernet" THEN "tag" ELSE "version"
<1>1. n \in Nat
  BY DEF LinkType, ETH_HEADER_LEN, NULL_HEADER_LEN
<1>2. \/ Refuse("Link")
      \/ Holds(n) /\ Read(n, after) /\ UNCHANGED <<frame, limit, exts>>
  BY DEF LinkHeader
<1> HIDE DEF n, after
<1> QED
  BY <1>1, <1>2, RefuseStays, ReadStaysWhole DEF SliceInv

\* One VLAN tag.
LEMMA VlanTagStays == SliceInv /\ VlanTag => SliceInv'
<1> SUFFICES ASSUME SliceInv, VlanTag PROVE SliceInv'
  OBVIOUS
<1>1. \/ Refuse("Link")
      \/ Holds(VLAN_TAG_LEN) /\ Read(VLAN_TAG_LEN, "tag") /\ UNCHANGED <<frame, limit, exts>>
  BY DEF VlanTag
<1>2. VLAN_TAG_LEN \in Nat
  BY DEF VLAN_TAG_LEN
<1> QED
  BY <1>1, <1>2, RefuseStays, ReadStaysWhole DEF SliceInv

\* The IPv4 header lies in front of the end that the total length gives.
LEMMA Ipv4Stays == SliceInv /\ Ipv4 => SliceInv'
<1> SUFFICES ASSUME SliceInv, Ipv4 PROVE SliceInv'
  OBVIOUS
<1>1. CASE Refuse("Ipv4")
  BY <1>1, RefuseStays
<1>2. CASE /\ Ipv4Valid /\ Read(frame.ihl, "l4") /\ limit' = PacketEnd(frame.total)
           /\ UNCHANGED <<frame, exts>>
  <2>1. frame.ihl \in Nat /\ frame.total \in Nat /\ offset \in Nat /\ limit \in Nat /\ exts \in Nat
    BY DEF SliceInv, FrameType
  <2>2. offset + frame.ihl <= limit /\ frame.ihl <= frame.total
    BY <1>2, <2>1 DEF Ipv4Valid, Holds
  <2>3. limit' \in Nat /\ limit' <= limit /\ offset + frame.ihl <= limit'
    BY <1>2, <2>1, <2>2, EndBehindHeader DEF PacketEnd
  <2> QED
    BY <1>2, <2>1, <2>3, ReadStays DEF Ipv4Valid
<1> QED
  BY <1>1, <1>2 DEF Ipv4

\* The IPv6 header lies in front of the end that the payload length gives.
LEMMA Ipv6Stays == SliceInv /\ Ipv6 => SliceInv'
<1> SUFFICES ASSUME SliceInv, Ipv6 PROVE SliceInv'
  OBVIOUS
<1>1. CASE Refuse("Ipv6")
  BY <1>1, RefuseStays
<1>2. CASE /\ Holds(IPV6_HEADER_LEN) /\ Read(IPV6_HEADER_LEN, "ext")
           /\ limit' = PacketEnd(IPV6_HEADER_LEN + frame.total) /\ UNCHANGED <<frame, exts>>
  <2>1. frame.total \in Nat /\ offset \in Nat /\ limit \in Nat /\ exts \in Nat
    BY DEF SliceInv, FrameType
  <2>2. /\ offset + IPV6_HEADER_LEN <= limit /\ IPV6_HEADER_LEN \in Nat
        /\ IPV6_HEADER_LEN + frame.total \in Nat
        /\ IPV6_HEADER_LEN <= IPV6_HEADER_LEN + frame.total
    BY <1>2, <2>1 DEF Holds, IPV6_HEADER_LEN
  <2>3. limit' \in Nat /\ limit' <= limit /\ offset + IPV6_HEADER_LEN <= limit'
    BY <1>2, <2>1, <2>2, EndBehindHeader DEF PacketEnd
  <2> QED
    BY <1>2, <2>1, <2>2, <2>3, ReadStays
<1> QED
  BY <1>1, <1>2 DEF Ipv6

\* An IPv6 extension header, whatever length it declares.
LEMMA ExtensionHeaderStays == SliceInv /\ ExtensionHeader => SliceInv'
<1> SUFFICES ASSUME SliceInv, ExtensionHeader PROVE SliceInv'
  OBVIOUS
<1> DEFINE e == frame.exts[exts + 1]
<1>1. e \in Extension
  BY DEF SliceInv, FrameType, ExtensionHeader
<1>2. e.size \in Nat /\ exts \in Nat
  BY <1>1 DEF Extension, SliceInv
<1>3. \/ Refuse("Ipv6")
      \/ /\ Holds(e.size) /\ Read(e.size, "ext") /\ exts' = exts + 1
         /\ UNCHANGED <<frame, limit>>
  BY DEF ExtensionHeader
<1> HIDE DEF e
<1> QED
  BY <1>2, <1>3, RefuseStays, ReadStaysWhole

\* The TCP header, whatever its data offset declares.
LEMMA TcpStays == SliceInv /\ Tcp => SliceInv'
<1> SUFFICES ASSUME SliceInv, Tcp PROVE SliceInv'
  OBVIOUS
<1>1. \/ Refuse("Tcp")
      \/ Holds(frame.doff) /\ Transport("Tcp", frame.doff)
  BY DEF Tcp
<1>2. frame.doff \in Nat
  BY DEF SliceInv, FrameType
<1> QED
  BY <1>1, <1>2, RefuseStays, TransportStays

\* The UDP header lies in front of the end that the declared length gives.
LEMMA UdpStays == SliceInv /\ Udp => SliceInv'
<1> SUFFICES ASSUME SliceInv, Udp PROVE SliceInv'
  OBVIOUS
<1>0. UDP_HEADER_LEN \in Nat
  BY DEF UDP_HEADER_LEN
<1>1. CASE Refuse("Udp")
  BY <1>1, RefuseStays
<1>2. CASE Holds(UDP_HEADER_LEN) /\ Transport("Udp", UDP_HEADER_LEN)
  BY <1>0, <1>2, TransportStays
<1>3. CASE /\ Holds(UDP_HEADER_LEN) /\ (frame.declared = 0 \/ frame.declared >= UDP_HEADER_LEN)
           /\ Read(UDP_HEADER_LEN, "dns") /\ limit' = DatagramEnd /\ UNCHANGED <<frame, exts>>
  <2>1. frame.declared \in Nat /\ offset \in Nat /\ limit \in Nat /\ exts \in Nat
    BY DEF SliceInv, FrameType
  <2>2. offset + UDP_HEADER_LEN <= limit
    BY <1>3 DEF Holds
  <2>3. limit' \in Nat /\ limit' <= limit /\ offset + UDP_HEADER_LEN <= limit'
    <3>1. CASE frame.declared = 0
      BY <1>3, <2>1, <2>2, <3>1 DEF DatagramEnd
    <3>2. CASE frame.declared # 0
      <4>1. limit' = Smaller(offset + frame.declared, limit)
        BY <1>3, <3>2 DEF DatagramEnd
      <4>2. UDP_HEADER_LEN <= frame.declared
        BY <1>3, <3>2
      <4> QED
        BY <1>0, <2>1, <2>2, <4>1, <4>2, EndBehindHeader
    <3> QED
      BY <3>1, <3>2
  <2> QED
    BY <1>0, <1>3, <2>1, <2>3, ReadStays
<1> QED
  BY <1>1, <1>2, <1>3 DEF Udp

-----------------------------------------------------------------------------

BoundsInv == SliceInv /\ link \in LinkType

\* packet::parse starts with the whole frame as its slice.
LEMMA BoundsInit == ParseInit => BoundsInv
  BY ParserAssumption DEF ParseInit, BoundsInv, SliceInv, InBounds, FrameType

\* The link type belongs to the capture: no parser changes it.
LEMMA LinkKept == [ParseNext]_parserVars => link' = link
<1> SUFFICES ASSUME [ParseNext]_parserVars PROVE link' = link
  OBVIOUS
<1>1. CASE LinkHeader \/ VlanTag \/ NetworkLayer \/ UnknownVersion
  BY <1>1 DEF LinkHeader, VlanTag, NetworkLayer, UnknownVersion, Refuse
<1>2. CASE Ipv4 \/ Ipv6 \/ ExtensionHeader \/ TooManyExtensions \/ LastExtension
  BY <1>2 DEF Ipv4, Ipv6, ExtensionHeader, TooManyExtensions, LastExtension, Refuse
<1>3. CASE LaterFragment \/ Tcp \/ Udp \/ Icmp \/ Other
  BY <1>3 DEF LaterFragment, Tcp, Udp, Icmp, Other, Transport, Refuse
<1>4. CASE DnsStep \/ DnsReturns \/ UNCHANGED parserVars
  BY <1>4 DEF DnsStep, DnsReturns, parserVars
<1> QED
  BY <1>1, <1>2, <1>3, <1>4 DEF ParseNext

\* No step of a parser leaves its invariant.
LEMMA BoundsNext == BoundsInv /\ [ParseNext]_parserVars => BoundsInv'
<1> SUFFICES ASSUME BoundsInv, [ParseNext]_parserVars PROVE SliceInv'
  BY LinkKept DEF BoundsInv
<1> USE DEF BoundsInv
<1>1. CASE LinkHeader
  BY <1>1, LinkHeaderStays
<1>2. CASE VlanTag
  BY <1>2, VlanTagStays
<1>3. CASE NetworkLayer \/ LastExtension \/ DnsStep \/ DnsReturns \/ UNCHANGED parserVars
  <2>1. UNCHANGED <<frame, offset, limit, touched, exts>>
    BY <1>3 DEF NetworkLayer, LastExtension, DnsStep, DnsReturns, parserVars, slice
  <2> QED
    BY <2>1, KeptStays DEF SliceInv
<1>4. CASE UnknownVersion \/ TooManyExtensions
  BY <1>4, RefuseStays DEF UnknownVersion, TooManyExtensions
<1>5. CASE Ipv4
  BY <1>5, Ipv4Stays
<1>6. CASE Ipv6
  BY <1>6, Ipv6Stays
<1>7. CASE ExtensionHeader
  BY <1>7, ExtensionHeaderStays
<1>8. CASE LaterFragment \/ Other
  <2>1. Holds(0)
    BY DEF Holds, SliceInv, InBounds
  <2> QED
    BY <1>8, <2>1, TransportStays DEF LaterFragment, Other
<1>9. CASE Tcp
  BY <1>9, TcpStays
<1>10. CASE Udp
  BY <1>10, UdpStays
<1>11. CASE Icmp
  <2>1. ICMP_HEADER_LEN \in Nat
    BY DEF ICMP_HEADER_LEN
  <2> QED
    BY <1>11, <2>1, RefuseStays, TransportStays DEF Icmp
<1> QED
  BY <1>1, <1>2, <1>3, <1>4, <1>5, <1>6, <1>7, <1>8, <1>9, <1>10, <1>11 DEF ParseNext

-----------------------------------------------------------------------------

\* Whatever frame a capture delivers, no parser of packet::parse indexes a byte outside the
\* slice it was given, and every slice lies inside the captured bytes.
THEOREM ParserStaysInBounds == ParseSpec => []InBounds
<1>1. ParseInit => BoundsInv
  BY BoundsInit
<1>2. BoundsInv /\ [ParseNext]_parserVars => BoundsInv'
  BY BoundsNext
<1>3. BoundsInv => InBounds
  BY DEF BoundsInv, SliceInv
<1> QED
  BY <1>1, <1>2, <1>3, PTL DEF ParseSpec

-----------------------------------------------------------------------------
(* Functions defined by recursion over the positions of a file.            *)

\* A set of numbers has a least one: the intervals that end in them are finite sets, and
\* strict inclusion is well-founded on those.
LEMMA Least ==
    ASSUME NEW T, T \subseteq Nat, T # {}
    PROVE  \E x \in T : \A y \in T : x <= y
<1>. DEFINE R == StrictSubsetOrdering(Nat)
            F == FiniteSubsetsOf(Nat)
            G == {0..n : n \in T}
<1>1. IsWellFoundedOn(R, F)
  BY FS_StrictSubsetOrderingWellFounded
<1>2. \A n \in T : 0..n \in F
  BY FS_Interval DEF FiniteSubsetsOf
<1>3. G \subseteq F /\ G # {}
  BY <1>2
<1>. HIDE DEF R, F
<1>4. PICK s \in G : \A t \in G : ~(<<t, s>> \in R)
  <2>. HIDE DEF G
  <2>. QED BY <1>1, <1>3, WFMin
<1>5. PICK x \in T : s = 0..x
  OBVIOUS
<1>6. ASSUME NEW y \in T, y < x PROVE FALSE
  <2>1. 0..y \in G
    OBVIOUS
  <2>2. <<0..y, 0..x>> \notin R
    BY <1>4, <1>5, <2>1
  <2>3. 0..y \subseteq 0..x /\ 0..y # 0..x
    BY <1>6, x \in Nat, y \in Nat
  <2>. QED BY <2>2, <2>3 DEF R, StrictSubsetOrdering
<1>. QED BY <1>6


\* e is defined from each value to the next.
Follows(e, s, n, F) == e[0] = s /\ \A i \in 1..n : e[i] = F[<<i, e[i - 1]>>]

\* d goes where e goes.
Alongside(d, e, n) == d[0] = e[0] /\ \A i \in 1..n : d[i - 1] = e[i - 1] => d[i] = e[i]

\* A function on 0..n may be defined from each value to the next.
LEMMA Recursion ==
    ASSUME NEW S, NEW s \in S, NEW n \in Nat, NEW F \in [(1..n) \X S -> S]
    PROVE  \E e \in [0..n -> S] : Follows(e, s, n, F)
<1>. DEFINE Def(k) == \E e \in [0..k -> S] : e[0] = s /\ \A i \in 1..k : e[i] = F[<<i, e[i - 1]>>]
            Bad == {k \in 0..n : ~Def(k)}
<1>1. ASSUME Bad # {} PROVE FALSE
  <2>1. PICK k \in Bad : \A j \in Bad : k <= j
    <3>1. Bad \subseteq Nat
      OBVIOUS
    <3>. HIDE DEF Bad
    <3>. QED BY <1>1, <3>1, Least
  <2>2. CASE k = 0
    <3>. DEFINE e == [i \in 0..0 |-> s]
    <3>1. e \in [0..0 -> S] /\ e[0] = s /\ \A i \in 1..0 : e[i] = F[<<i, e[i - 1]>>]
      OBVIOUS
    <3>. QED BY <2>2, <3>1
  <2>3. CASE k # 0
    <3>1. k - 1 \in 0..n /\ k - 1 < k /\ k \in 1..n
      BY <2>3
    <3>2. Def(k - 1)
      BY <2>1, <3>1
    <3>3. PICK d \in [0..(k - 1) -> S] :
             d[0] = s /\ \A i \in 1..(k - 1) : d[i] = F[<<i, d[i - 1]>>]
      BY <3>2
    <3>. DEFINE e == [i \in 0..k |-> IF i = k THEN F[<<k, d[k - 1]>>] ELSE d[i]]
    <3>4. d[k - 1] \in S
      BY <3>1
    <3>5. e \in [0..k -> S]
      BY <3>1, <3>4
    <3>6. e[0] = s
      BY <3>1, <3>3
    <3>7. ASSUME NEW i \in 1..k PROVE e[i] = F[<<i, e[i - 1]>>]
      <4>1. CASE i = k
        <5>1. e[k] = F[<<k, d[k - 1]>>] /\ e[k - 1] = d[k - 1]
          BY <3>1
        <5>. QED BY <4>1, <5>1
      <4>2. CASE i # k
        BY <4>2, <3>1, <3>3
      <4>. QED BY <4>1, <4>2
    <3>8. Def(k)
      BY <3>5, <3>6, <3>7
    <3>. QED BY <3>8
  <2>. QED BY <2>2, <2>3
<1>. QED BY <1>1 DEF Follows

\* Two such functions are the same.
LEMMA SameRecursion ==
    ASSUME NEW n \in Nat, NEW d, NEW e, Alongside(d, e, n)
    PROVE  \A i \in 0..n : d[i] = e[i]
<1>. DEFINE Bad == {k \in 0..n : d[k] # e[k]}
<1>1. ASSUME Bad # {} PROVE FALSE
  <2>. USE DEF Alongside
  <2>1. PICK k \in Bad : \A j \in Bad : k <= j
    <3>1. Bad \subseteq Nat
      OBVIOUS
    <3>. HIDE DEF Bad
    <3>. QED BY <1>1, <3>1, Least
  <2>2. k \in 1..n /\ k - 1 \in 0..n /\ k - 1 < k
    BY <2>1
  <2>3. d[k - 1] = e[k - 1]
    BY <2>1, <2>2
  <2>. QED BY <2>2, <2>3
<1>. QED BY <1>1

\* Sums over a sequence of numbers.
LEMMA SumExists ==
    ASSUME NEW n \in Nat, NEW s \in Nat, NEW d \in [1..n -> Nat]
    PROVE  \E e \in [0..n -> Nat] : e[0] = s /\ \A i \in 1..n : e[i] = e[i - 1] + d[i]
<1>. DEFINE F == [p \in (1..n) \X Nat |-> p[2] + d[p[1]]]
<1>1. F \in [(1..n) \X Nat -> Nat]
  OBVIOUS
<1>2. \A i \in 1..n, m \in Nat : F[<<i, m>>] = m + d[i]
  OBVIOUS
<1>3. PICK e \in [0..n -> Nat] : Follows(e, s, n, F)
  <2>. HIDE DEF F
  <2>. QED BY <1>1, Recursion
<1>4. \A i \in 1..n : e[i - 1] \in Nat
  OBVIOUS
<1>. QED BY <1>2, <1>3, <1>4 DEF Follows

\* Where the records of a file end.
LEMMA SizeOfIs ==
    ASSUME NEW recs, NEW n \in Nat, Len(recs) = n, \A i \in 1..n : recs[i].cap \in Nat,
           NEW e \in [0..n -> Nat], e[0] = GLOBAL_HEADER_LEN,
           \A i \in 1..n : e[i] = e[i - 1] + RECORD_HEADER_LEN + recs[i].cap
    PROVE  SizeOf(recs) = e[n]
<1>. DEFINE f(end) == [i \in 0..Len(recs) |->
                        IF i = 0 THEN GLOBAL_HEADER_LEN ELSE end[i - 1] + RECORD_HEADER_LEN + recs[i].cap]
            end == CHOOSE x : x = f(x)
<1>1. e = f(e)
  OBVIOUS
<1>2. end = f(end)
  BY <1>1
<1>3. SizeOf(recs) = end[Len(recs)]
  BY DEF SizeOf
<1>. HIDE DEF f, end
<1>4. end[0] = GLOBAL_HEADER_LEN /\ \A i \in 1..n : end[i] = end[i - 1] + RECORD_HEADER_LEN + recs[i].cap
  BY <1>2 DEF f
<1>5. \A i \in 1..n : end[i - 1] = e[i - 1] => end[i] = e[i]
  BY <1>4
<1>6. \A i \in 0..n : end[i] = e[i]
  <2>1. Alongside(end, e, n)
    BY <1>4, <1>5 DEF Alongside
  <2>2. \A d : Alongside(d, e, n) => \A i \in 0..n : d[i] = e[i]
    BY SameRecursion, SMTT(30)
  <2>. QED BY <2>1, <2>2
<1>. QED BY <1>3, <1>6

\* The ends of the records of a file, for every number of records.
LEMMA Ends ==
    ASSUME NEW R, NEW recs \in Seq(R), \A r \in R : r.cap \in Nat
    PROVE  \E e \in [0..Len(recs) -> Nat] :
              /\ e[0] = GLOBAL_HEADER_LEN
              /\ \A i \in 1..Len(recs) : e[i] = e[i - 1] + RECORD_HEADER_LEN + recs[i].cap
              /\ \A i \in 0..Len(recs) : SizeOf(SubSeq(recs, 1, i)) = e[i]
              /\ SizeOf(recs) = e[Len(recs)]
<1>. DEFINE n == Len(recs)
            d == [i \in 1..n |-> RECORD_HEADER_LEN + recs[i].cap]
<1>0. n \in Nat /\ DOMAIN recs = 1..n /\ (\A i \in 1..n : recs[i] \in R)
  BY LenProperties, ElementOfSeq
<1>1. GLOBAL_HEADER_LEN \in Nat /\ RECORD_HEADER_LEN \in Nat
  BY DEF GLOBAL_HEADER_LEN, RECORD_HEADER_LEN
<1>2. d \in [1..n -> Nat] /\ \A i \in 1..n : d[i] = RECORD_HEADER_LEN + recs[i].cap /\ recs[i].cap \in Nat
  BY <1>0, <1>1
<1>. HIDE DEF n, d
<1>3. PICK e \in [0..n -> Nat] : e[0] = GLOBAL_HEADER_LEN /\ \A i \in 1..n : e[i] = e[i - 1] + d[i]
  BY <1>0, <1>1, <1>2, SumExists
<1>4. \A i \in 1..n : e[i] = e[i - 1] + RECORD_HEADER_LEN + recs[i].cap
  <2>1. \A i \in 1..n : i - 1 \in 0..n /\ e[i - 1] \in Nat
    BY <1>0
  <2>2. \A a, b, c \in Nat : a + (b + c) = a + b + c
    OBVIOUS
  <2>3. ASSUME NEW i \in 1..n PROVE e[i] = e[i - 1] + RECORD_HEADER_LEN + recs[i].cap
    <3>1. /\ e[i] = e[i - 1] + (RECORD_HEADER_LEN + recs[i].cap)
          /\ e[i - 1] \in Nat /\ RECORD_HEADER_LEN \in Nat /\ recs[i].cap \in Nat
      BY <1>1, <1>2, <1>3, <2>1, Zenon
    <3>. QED BY <2>2, <3>1, Zenon
  <2>. QED BY <2>3
<1>5. ASSUME NEW i \in 0..n PROVE SizeOf(SubSeq(recs, 1, i)) = e[i]
  <2>. DEFINE s == SubSeq(recs, 1, i)
              f == [j \in 0..i |-> e[j]]
  <2>1. Len(s) = i /\ \A j \in 1..i : s[j] = recs[j] /\ j \in 1..n
    BY <1>0 DEF n
  <2>2. i \in Nat /\ f \in [0..i -> Nat] /\ f[0] = GLOBAL_HEADER_LEN /\ f[i] = e[i]
    BY <1>0, <1>3
  <2>3. \A j \in 1..i : f[j] = f[j - 1] + RECORD_HEADER_LEN + s[j].cap
    <3>1. \A j \in 1..i : f[j] = e[j] /\ f[j - 1] = e[j - 1] /\ j \in 1..n
      BY <1>0
    <3>. HIDE DEF f, s
    <3>. QED BY <1>4, <2>1, <3>1
  <2>4. \A j \in 1..i : s[j].cap \in Nat
    BY <1>2, <2>1
  <2>. HIDE DEF f, s
  <2>5. SizeOf(s) = f[i]
    BY <2>1, <2>2, <2>3, <2>4, SizeOfIs
  <2>. QED BY <2>2, <2>5 DEF s
<1>6. SizeOf(recs) = e[n]
  BY <1>0, <1>2, <1>3, <1>4, SizeOfIs DEF n
<1>. QED BY <1>3, <1>4, <1>5, <1>6 DEF n

-----------------------------------------------------------------------------
(* Words.                                                                   *)

\* Two digits are what the word they make up is divided into.
LEMMA Digit ==
    ASSUME NEW d \in Nat \ {0}, NEW a \in 0..d - 1, NEW b \in 0..d - 1
    PROVE  (b * d + a) % d = a /\ (b * d + a) \div d = b
<1>. DEFINE w == b * d + a
            q == w \div d
            m == w % d
<1>1. w \in Nat /\ w = d * q + m /\ m \in 0..d - 1 /\ q \in Nat
  OBVIOUS
<1>2. ASSUME NEW x \in Nat, NEW y \in Nat, x < y PROVE d * x + d <= d * y
  <2>1. PICK k \in Nat : y = x + 1 + k
    <3>1. y - x - 1 \in Nat /\ y = x + 1 + (y - x - 1)
      BY <1>2
    <3>. QED BY <3>1
  <2>2. d * y = d * x + d + d * k /\ d * k \in Nat /\ d * x \in Nat
    BY <2>1
  <2>. QED BY <2>2
<1>3. b * d = d * b /\ b \in Nat /\ d * b \in Nat /\ d * q \in Nat
  BY <1>1
<1>. HIDE DEF q, m
<1>4. ~(q < b)
  <2>1. q < b => d * q + d <= d * b
    BY <1>1, <1>2
  <2>. QED BY <1>1, <1>3, <2>1
<1>5. ~(b < q)
  <2>1. b < q => d * b + d <= d * q
    BY <1>1, <1>2, <1>3
  <2>. QED BY <1>1, <1>3, <2>1
<1>6. q = b
  BY <1>1, <1>3, <1>4, <1>5
<1>7. m = a
  BY <1>1, <1>3, <1>6
<1>. QED BY <1>6, <1>7 DEF q, m

\* What is swapped twice is what it was: a reader understands either byte order.
LEMMA SwapTwice == \A w \in Word : swap_bytes(w) \in Nat /\ swap_bytes(swap_bytes(w)) = w
<1>. SUFFICES ASSUME NEW w \in Word PROVE swap_bytes(w) \in Nat /\ swap_bytes(swap_bytes(w)) = w
  OBVIOUS
<1>. DEFINE a == w \div Digits
            b == w % Digits
<1>1. w \in Nat /\ Digits \in Nat \ {0} /\ w < Digits * Digits
  BY PcapAssumption DEF Word
<1>2. b \in 0..Digits - 1 /\ a \in Nat /\ w = a * Digits + b
  BY <1>1
<1>3. a < Digits
  <2>1. a >= Digits => a * Digits >= Digits * Digits
    <3>1. ASSUME a >= Digits PROVE a * Digits >= Digits * Digits
      <4>1. PICK k \in Nat : a = Digits + k
        <5>1. a - Digits \in Nat /\ a = Digits + (a - Digits)
          BY <3>1, <1>1, <1>2
        <5>. QED BY <5>1
      <4>. HIDE DEF a
      <4>2. a * Digits = Digits * Digits + k * Digits /\ k * Digits \in Nat /\ Digits * Digits \in Nat
        BY <4>1, <1>1
      <4>. QED BY <4>2
    <3>. QED BY <3>1
  <2>2. a * Digits \in Nat /\ Digits * Digits \in Nat
    BY <1>1, <1>2
  <2>. HIDE DEF a, b
  <2>. QED BY <1>1, <1>2, <2>1, <2>2
<1>. HIDE DEF a, b
<1>4. (b * Digits + a) % Digits = a /\ (b * Digits + a) \div Digits = b
  BY <1>1, <1>2, <1>3, Digit
<1>5. swap_bytes(w) = b * Digits + a
  BY DEF swap_bytes, a, b
<1>6. swap_bytes(swap_bytes(w)) = a * Digits + b
  BY <1>4, <1>5 DEF swap_bytes
<1>. QED BY <1>1, <1>2, <1>5, <1>6

-----------------------------------------------------------------------------
(* Where a reader may be, and what a replay has counted.                   *)

\* The end of the first i records of the file.
EndOf(i) == SizeOf(SubSeq(file.recs, 1, i))

\* Where the reader is: at the end of a whole number of records, or behind one more header,
\* and never behind the end of the file.
Position ==
    /\ stage \in {"open", "record", "data", "frame", "ended"}
    /\ at \in Nat /\ filled \in Nat /\ next \in Nat /\ next <= Len(file.recs)
    /\ stage = "open" => next = 0
    /\ stage \in {"record", "frame"} => at = EndOf(next)
    /\ stage = "data" => at = EndOf(next) + RECORD_HEADER_LEN
    /\ stage = "record" => filled < RECORD_HEADER_LEN
    /\ stage \in {"open", "data", "frame"} => filled = 0
    /\ stage \in {"record", "data", "frame"} =>
          ReplayOpens /\ swapped = file.big /\ nanos = (file.kind = "nanos") /\ at + filled <= file.size

\* What has been read is what the other reader delivers.
Delivered ==
    /\ stamps \in Seq(Nat) /\ Len(stamps) = next
    /\ \A i \in 1..next : ReplayOpens /\ Complete(i) /\ stamps[i] = MicrosOf(file.recs[i])
    /\ stage = "ended" /\ ~file.faulty =>
          ReplayDelivers = 1..next /\ (outcome = "ok" <=> ReplayEndsOk)

FileInv == file \in PcapType /\ Position /\ Delivered

\* Every counter but that of the packets is raised after the parse.
Sums ==
    /\ counters \in [Counters -> Nat] /\ tracked \in Nat /\ later \in Nat
    /\ counters.packets = next
    /\ next = counters.parse_errors + counters.non_ip + counters.ipv4 + counters.ipv6
                + (IF stage = "frame" THEN 1 ELSE 0)
    /\ tracked = counters.tcp + counters.udp + counters.icmp + counters.other_l4
    /\ counters.ipv4 + counters.ipv6 = tracked + later
    /\ counters.dns + counters.dns_errors <= counters.udp

\* What parse has found out when it is at a layer.
Found ==
    /\ phase \in {"idle", "link", "tag", "version", "ipv4", "ipv6", "ext", "l4", "dns", "parsed"}
    /\ stage = "frame" <=> phase # "idle"
    /\ phase \notin {"idle", "parsed"} => refused = "no" /\ app = "None"
    /\ phase \in {"link", "tag", "version", "ipv4", "ipv6", "ext"} => ip = "none"
    /\ phase \in {"l4", "dns"} => ip \in {"v4", "v6"}
    /\ phase \in {"link", "tag", "version", "ipv4", "ipv6", "ext", "l4"} => transport = "None"
    /\ phase = "dns" => transport = "Udp"
    /\ phase = "parsed" /\ refused = "no" =>
          \/ ip = "none" /\ transport = "None" /\ app = "None"
          \/ /\ ip \in {"v4", "v6"} /\ transport \in {"Tcp", "Udp", "Icmp", "LaterFragment", "Other"}
             /\ app \in {"None", "Dns", "DnsError"} /\ (app # "None" => transport = "Udp")

IInv == FileInv /\ Sums /\ Found /\ BoundsInv /\ WalkInv

-----------------------------------------------------------------------------
(* Files and their two readers.                                             *)

\* What the type of a file says of its parts.
LEMMA FileTypes ==
    ASSUME file \in PcapType
    PROVE  /\ file.kind \in {"micros", "nanos", "other"} /\ file.big \in BOOLEAN
           /\ file.link \in Nat /\ file.size \in Nat
           /\ Len(file.recs) \in Nat /\ DOMAIN file.recs = 1..Len(file.recs)
           /\ \A i \in 1..Len(file.recs) :
                 /\ file.recs[i].sec \in Nat /\ file.recs[i].frac \in Nat /\ file.recs[i].cap \in Nat
                 /\ file.recs[i].frame \in FrameType
           /\ file.big \/ file.kind = "other" =>
                 /\ file.link \in Word
                 /\ \A i \in 1..Len(file.recs) :
                       /\ file.recs[i].sec \in Word /\ file.recs[i].frac \in Word
                       /\ file.recs[i].cap \in Word
<1>. DEFINE R == [sec : Nat, frac : Nat, cap : Nat, wire : Nat, frame : FrameType]
<1>1. file \in [kind : DOMAIN MAGIC, big : BOOLEAN, link : Nat, size : Nat, faulty : BOOLEAN, recs : Seq(R)]
  BY DEF PcapType
<1>2. DOMAIN MAGIC = {"micros", "nanos", "other"}
  BY DEF MAGIC
<1>3. file.recs \in Seq(R)
  BY <1>1
<1>4. Len(file.recs) \in Nat /\ DOMAIN file.recs = 1..Len(file.recs)
      /\ \A i \in 1..Len(file.recs) : file.recs[i] \in R
  BY <1>3, LenProperties, ElementOfSeq
<1>5. file.big \/ file.kind = "other" =>
         /\ file.link \in Word
         /\ \A i \in DOMAIN file.recs :
               {file.recs[i].sec, file.recs[i].frac, file.recs[i].cap} \subseteq Word
  BY DEF PcapType
<1>6. \A r \in R : r.sec \in Nat /\ r.frac \in Nat /\ r.cap \in Nat /\ r.frame \in FrameType
  OBVIOUS
<1>7. file.kind \in {"micros", "nanos", "other"} /\ file.big \in BOOLEAN
      /\ file.link \in Nat /\ file.size \in Nat
  BY <1>1, <1>2
<1>. HIDE DEF R
<1>. QED BY <1>4, <1>5, <1>6, <1>7

\* Records follow each other: each ends where its header and its data do.
LEMMA EndFacts ==
    ASSUME file \in PcapType
    PROVE  /\ EndOf(0) = GLOBAL_HEADER_LEN
           /\ \A i \in 0..Len(file.recs) : EndOf(i) \in Nat
           /\ \A i \in 0..Len(file.recs) - 1 :
                 EndOf(i + 1) = EndOf(i) + RECORD_HEADER_LEN + file.recs[i + 1].cap
           /\ file.size <= EndOf(Len(file.recs))
<1>. DEFINE R == [sec : Nat, frac : Nat, cap : Nat, wire : Nat, frame : FrameType]
            n == Len(file.recs)
<1>1. file.recs \in Seq(R) /\ file.size <= SizeOf(file.recs)
  BY DEF PcapType
<1>2. \A r \in R : r.cap \in Nat
  OBVIOUS
<1>. HIDE DEF R
<1>3. n \in Nat
  BY FileTypes
<1>4. PICK e \in [0..n -> Nat] :
         /\ e[0] = GLOBAL_HEADER_LEN
         /\ \A i \in 1..n : e[i] = e[i - 1] + RECORD_HEADER_LEN + file.recs[i].cap
         /\ \A i \in 0..n : SizeOf(SubSeq(file.recs, 1, i)) = e[i]
         /\ SizeOf(file.recs) = e[n]
  BY <1>1, <1>2, Ends
<1>. HIDE DEF n
<1>5. \A i \in 0..n : EndOf(i) = e[i] /\ e[i] \in Nat
  BY <1>4 DEF EndOf
<1>6. ASSUME NEW i \in 0..n - 1
      PROVE  EndOf(i + 1) = EndOf(i) + RECORD_HEADER_LEN + file.recs[i + 1].cap
  <2>1. i + 1 \in 1..n /\ (i + 1) - 1 = i /\ i \in 0..n /\ i + 1 \in 0..n
    BY <1>3
  <2>2. e[i + 1] = e[i] + RECORD_HEADER_LEN + file.recs[i + 1].cap
    BY <1>4, <2>1
  <2>. QED BY <1>5, <2>1, <2>2
<1>7. 0 \in 0..n /\ n \in 0..n
  BY <1>3
<1>. QED BY <1>1, <1>4, <1>5, <1>6, <1>7 DEF n

\* What PcapReader::new makes of the global header.
LEMMA Understood ==
    ASSUME file \in PcapType
    PROVE  LET magic == Stored(MAGIC[file.kind])
               swap  == magic # MAGIC.micros /\ magic # MAGIC.nanos
               meant == IF swap THEN swap_bytes(magic) ELSE magic
               raw   == FromRaw(IF swap THEN swap_bytes(Stored(file.link)) ELSE Stored(file.link))
           IN  /\ file.kind = "other" => meant \notin {MAGIC.micros, MAGIC.nanos}
               /\ file.kind # "other" =>
                     /\ swap = file.big /\ raw = FromRaw(file.link)
                     /\ meant \in {MAGIC.micros, MAGIC.nanos}
                     /\ meant = MAGIC.nanos <=> file.kind = "nanos"
<1>1. /\ MAGIC.micros = 18 /\ MAGIC.nanos = 19 /\ MAGIC.other = 20
      /\ MAGIC["micros"] = 18 /\ MAGIC["nanos"] = 19 /\ MAGIC["other"] = 20
  BY DEF MAGIC
<1>2. \A k \in {"micros", "nanos", "other"} : MAGIC[k] \in Word /\ swap_bytes(MAGIC[k]) \notin {18, 19}
  <2>1. \A k \in {"micros", "nanos", "other"} : MAGIC[k] < Digits * Digits /\ swap_bytes(MAGIC[k]) \notin {18, 19}
    BY <1>1, MagicAssumption DEF MAGIC
  <2>2. Digits * Digits \in Nat
    BY PcapAssumption
  <2>. QED BY <1>1, <2>1, <2>2 DEF Word
<1>3. 18 \in Word /\ 19 \in Word /\ 20 \in Word
      /\ swap_bytes(18) \notin {18, 19} /\ swap_bytes(19) \notin {18, 19} /\ swap_bytes(20) \notin {18, 19}
  BY <1>1, <1>2
<1>4. swap_bytes(swap_bytes(18)) = 18 /\ swap_bytes(swap_bytes(19)) = 19 /\ swap_bytes(swap_bytes(20)) = 20
  BY <1>3, SwapTwice
<1>5. /\ file.kind \in {"micros", "nanos", "other"} /\ file.big \in BOOLEAN
      /\ file.big => swap_bytes(swap_bytes(file.link)) = file.link
  BY FileTypes, SwapTwice
<1>. QED BY <1>1, <1>3, <1>4, <1>5 DEF Stored

\* Words are read as they were meant.
LEMMA ReadsBack ==
    ASSUME file \in PcapType, swapped = file.big, file.kind # "other"
    PROVE  /\ \A i \in 1..Len(file.recs) :
                 /\ read_u32(file.recs[i].cap) = file.recs[i].cap
                 /\ (nanos <=> file.kind = "nanos") =>
                       Timestamp(file.recs[i]) = MicrosOf(file.recs[i])
                 /\ MicrosOf(file.recs[i]) \in Nat
<1>. SUFFICES ASSUME NEW i \in 1..Len(file.recs)
     PROVE  /\ read_u32(file.recs[i].cap) = file.recs[i].cap
            /\ (nanos <=> file.kind = "nanos") => Timestamp(file.recs[i]) = MicrosOf(file.recs[i])
            /\ MicrosOf(file.recs[i]) \in Nat
  OBVIOUS
<1>. DEFINE r == file.recs[i]
<1>1. /\ r.sec \in Nat /\ r.frac \in Nat /\ r.cap \in Nat /\ file.big \in BOOLEAN
      /\ file.big => r.sec \in Word /\ r.frac \in Word /\ r.cap \in Word
  BY FileTypes
<1>2. \A w : (file.big => w \in Word) => read_u32(w) = w
  BY SwapTwice, <1>1 DEF read_u32, Stored
<1>3. read_u32(r.sec) = r.sec /\ read_u32(r.frac) = r.frac /\ read_u32(r.cap) = r.cap
  BY <1>1, <1>2
<1>4. MicrosOf(r) \in Nat
  <2>1. r.sec * MicrosPerSec \in Nat /\ r.frac \div NanosPerMicro \in Nat
    BY <1>1, PcapAssumption
  <2>. HIDE DEF r
  <2>. QED BY <1>1, <2>1 DEF MicrosOf
<1>5. (nanos <=> file.kind = "nanos") => Timestamp(r) = MicrosOf(r)
  BY <1>3 DEF Timestamp, MicrosOf
<1>. QED BY <1>3, <1>4, <1>5

\* What is said of the same file stays said, whatever else a step changes.
LEMMA Kept ==
    ASSUME file' = file
    PROVE  /\ ReplayOpens' = ReplayOpens /\ ReplayDelivers' = ReplayDelivers
           /\ \A i : Complete(i)' = Complete(i)
           /\ \A r : MicrosOf(r)' = MicrosOf(r)
           /\ \A i : EndOf(i)' = EndOf(i)
  BY DEF ReplayOpens, ReplayDelivers, Complete, MicrosOf, EndOf

\* The records that were read are all that the other reader delivers, if the one after
\* them is not whole.
LEMMA DeliversAll ==
    ASSUME file \in PcapType, NEW n \in Nat, n <= Len(file.recs),
           \A i \in 1..n : ReplayOpens /\ Complete(i),
           n < Len(file.recs) => ~Complete(n + 1),
           ReplayOpens
    PROVE  ReplayDelivers = 1..n
<1>1. Len(file.recs) \in Nat /\ DOMAIN file.recs = 1..Len(file.recs)
  BY FileTypes
<1>2. ASSUME NEW i \in DOMAIN file.recs, \A j \in 1..i : Complete(j), i > n PROVE FALSE
  <2>1. n + 1 \in 1..i /\ n < Len(file.recs)
    BY <1>1, <1>2
  <2>. QED BY <1>2, <2>1
<1>3. ASSUME NEW i \in DOMAIN file.recs, ~(i > n) PROVE i \in 1..n
  BY <1>1, <1>3
<1>4. ASSUME NEW i \in 1..n PROVE i \in DOMAIN file.recs /\ \A j \in 1..i : Complete(j)
  <2>1. i \in DOMAIN file.recs /\ \A j \in 1..i : j \in 1..n
    BY <1>1
  <2>. QED BY <2>1
<1>5. ReplayDelivers = {i \in DOMAIN file.recs : \A j \in 1..i : Complete(j)}
  BY DEF ReplayDelivers
<1>. QED BY <1>2, <1>3, <1>4, <1>5

\* The end of a record is where the other reader sees the file end.
LEMMA EndsOk ==
    ASSUME file \in PcapType, next \in Nat, next <= Len(file.recs), ReplayOpens
    PROVE  ReplayEndsOk <=> EndOf(next) = file.size
<1>1. next \in 0..Len(file.recs)
  BY FileTypes
<1>. QED BY <1>1 DEF ReplayEndsOk, EndOf

\* PcapReader::new
LEMMA OpenStep == ASSUME FileInv, Open PROVE FileInv'
<1>. USE DEF FileInv
<1>1. file' = file /\ filled' = filled /\ next' = next /\ stamps' = stamps /\ stage = "open"
  BY DEF Open
<1>2. next = 0 /\ filled = 0 /\ stamps = <<>> /\ Len(stamps) = 0 /\ at \in Nat /\ stamps \in Seq(Nat)
  BY <1>1 DEF Position, Delivered
<1>. DEFINE magic == Stored(MAGIC[file.kind])
            swap  == magic # MAGIC.micros /\ magic # MAGIC.nanos
            meant == IF swap THEN swap_bytes(magic) ELSE magic
            raw   == FromRaw(IF swap THEN swap_bytes(Stored(file.link)) ELSE Stored(file.link))
<1>3. /\ file.kind = "other" => meant \notin {MAGIC.micros, MAGIC.nanos}
      /\ file.kind # "other" =>
            /\ swap = file.big /\ raw = FromRaw(file.link)
            /\ meant \in {MAGIC.micros, MAGIC.nanos}
            /\ (meant = MAGIC.nanos <=> file.kind = "nanos")
  BY Understood
<1>4. \/ /\ file.size < GLOBAL_HEADER_LEN \/ meant \notin {MAGIC.micros, MAGIC.nanos} \/ raw = "none"
         /\ Fails /\ at' = at
      \/ /\ file.size >= GLOBAL_HEADER_LEN /\ meant \in {MAGIC.micros, MAGIC.nanos} /\ raw # "none"
         /\ at' = GLOBAL_HEADER_LEN /\ stage' = "record"
         /\ swapped' = swap /\ nanos' = (meant = MAGIC.nanos)
  BY DEF Open
<1>. HIDE DEF magic, swap, meant, raw
<1>5. /\ file.size \in Nat /\ Len(file.recs) \in Nat /\ EndOf(0) = GLOBAL_HEADER_LEN
      /\ GLOBAL_HEADER_LEN = 24 /\ RECORD_HEADER_LEN = 16
  BY FileTypes, EndFacts DEF GLOBAL_HEADER_LEN, RECORD_HEADER_LEN
<1>6. next' = 0 /\ 0 <= Len(file'.recs) /\ Len(stamps') = 0 /\ stamps' \in Seq(Nat)
  BY <1>1, <1>2, <1>5
<1>7. CASE /\ file.size < GLOBAL_HEADER_LEN \/ meant \notin {MAGIC.micros, MAGIC.nanos} \/ raw = "none"
           /\ Fails /\ at' = at
  <2>1. ~ReplayOpens
    BY <1>3, <1>5, <1>7 DEF ReplayOpens
  <2>2. ReplayDelivers = {} /\ ~ReplayEndsOk /\ 1..0 = {}
    BY <2>1 DEF ReplayDelivers, ReplayEndsOk
  <2>3. stage' = "ended" /\ outcome' = "error"
    BY <1>7 DEF Fails
  <2>4. ReplayDelivers' = {} /\ ~ReplayEndsOk'
    BY <1>1, <1>2, <1>6, <2>1, <2>2 DEF ReplayDelivers, ReplayEndsOk, ReplayOpens
  <2>5. Position'
    BY <1>1, <1>2, <1>6, <1>7, <2>3 DEF Position
  <2>6. Delivered'
    BY <1>6, <2>2, <2>3, <2>4 DEF Delivered
  <2>. QED BY <1>1, <2>5, <2>6
<1>8. CASE /\ file.size >= GLOBAL_HEADER_LEN /\ meant \in {MAGIC.micros, MAGIC.nanos} /\ raw # "none"
           /\ at' = GLOBAL_HEADER_LEN /\ stage' = "record"
           /\ swapped' = swap /\ nanos' = (meant = MAGIC.nanos)
  <2>1. file.kind # "other" /\ ReplayOpens
    BY <1>3, <1>5, <1>8 DEF ReplayOpens
  <2>2. swapped' = file'.big /\ nanos' = (file'.kind = "nanos")
    BY <1>1, <1>3, <1>8, <2>1
  <2>3. ReplayOpens' /\ EndOf(next)' = GLOBAL_HEADER_LEN
    BY <1>1, <1>2, <1>5, <2>1 DEF ReplayOpens, EndOf
  <2>4. Position'
    BY <1>1, <1>2, <1>5, <1>6, <1>8, <2>2, <2>3 DEF Position
  <2>5. Delivered'
    BY <1>6, <1>8 DEF Delivered
  <2>. QED BY <1>1, <2>4, <2>5
<1>. QED BY <1>4, <1>7, <1>8

\* A record header, or a part of it.
LEMMA ReadHeaderStep == ASSUME FileInv, ReadHeader PROVE FileInv'
<1>. USE DEF FileInv
<1>1. /\ file' = file /\ swapped' = swapped /\ nanos' = nanos /\ next' = next /\ stamps' = stamps
      /\ stage = "record"
  BY DEF ReadHeader
<1>2. /\ file.size \in Nat /\ Len(file.recs) \in Nat /\ next \in Nat /\ next <= Len(file.recs)
      /\ EndOf(next) \in Nat /\ at = EndOf(next) /\ filled \in Nat /\ filled < 16
      /\ RECORD_HEADER_LEN = 16 /\ at + filled <= file.size /\ ReplayOpens
      /\ swapped = file.big /\ nanos = (file.kind = "nanos")
      /\ \A i \in 1..next : Complete(i)
  BY FileTypes, EndFacts, <1>1 DEF RECORD_HEADER_LEN, Position, Delivered
<1>3. /\ stamps \in Seq(Nat) /\ Len(stamps) = next
      /\ \A i \in 1..next : ReplayOpens /\ Complete(i) /\ stamps[i] = MicrosOf(file.recs[i])
  BY DEF Delivered
<1>4. /\ stamps' \in Seq(Nat) /\ Len(stamps') = next'
      /\ \A i \in 1..next' : ReplayOpens' /\ Complete(i)' /\ stamps'[i] = MicrosOf(file.recs[i])'
  BY <1>1, <1>3, Kept
<1>5. ReplayOpens' /\ EndOf(next)' = EndOf(next)
  BY <1>1, <1>2, Kept DEF EndOf
<1>6. CASE Left = 0 /\ stage' = "ended" /\ outcome' = (IF AtEnd THEN "ok" ELSE "error") /\ UNCHANGED <<at, filled>>
  <2>1. at + filled = file.size
    BY <1>2, <1>6 DEF Left
  <2>2. next < Len(file.recs) => ~Complete(next + 1)
    <3>1. ASSUME next < Len(file.recs), Complete(next + 1) PROVE FALSE
      <4>1. /\ EndOf(next + 1) = EndOf(next) + 16 + file.recs[next + 1].cap
            /\ file.recs[next + 1].cap \in Nat
        BY <1>2, <3>1, EndFacts, FileTypes
      <4>2. EndOf(next + 1) <= file.size
        BY <3>1 DEF Complete, EndOf
      <4>. QED BY <1>2, <2>1, <4>1, <4>2
    <3>. QED BY <3>1
  <2>3. ReplayDelivers = 1..next
    BY <1>2, <2>2, DeliversAll
  <2>4. ReplayEndsOk <=> outcome' = "ok"
    BY <1>2, <1>6, <2>1, EndsOk DEF AtEnd
  <2>5. ReplayDelivers' = 1..next' /\ (outcome' = "ok" <=> ReplayEndsOk')
    BY <1>1, <2>3, <2>4, Kept DEF ReplayEndsOk, ReplayOpens
  <2>6. Position'
    BY <1>1, <1>2, <1>6 DEF Position
  <2>7. Delivered'
    BY <1>4, <2>5 DEF Delivered
  <2>. QED BY <1>1, <2>6, <2>7
<1>7. ASSUME Left > 0, NEW n \in Chunks,
             \/ /\ filled + Gets(n) < RECORD_HEADER_LEN
                /\ filled' = filled + Gets(n) /\ UNCHANGED <<at, stage>>
             \/ /\ filled + Gets(n) = RECORD_HEADER_LEN
                /\ filled' = 0 /\ at' = at + RECORD_HEADER_LEN /\ stage' = "data"
      PROVE  FileInv'
  <2>1. Gets(n) \in Nat /\ at + filled + Gets(n) <= file.size
    <3>1. n \in Nat /\ Left \in Nat /\ RECORD_HEADER_LEN - filled \in Nat /\ Left = file.size - at - filled
      BY <1>2, <1>7, PcapAssumption DEF Left
    <3>2. Gets(n) \in Nat /\ Gets(n) <= Left
      <4>. HIDE DEF Left
      <4>. QED BY <3>1 DEF Gets, Smaller
    <3>. QED BY <1>2, <3>1, <3>2
  <2>2. stage' \in {"record", "data"} /\ at' \in Nat /\ filled' \in Nat /\ at' + filled' <= file.size
    BY <1>1, <1>2, <1>7, <2>1
  <2>3. /\ stage' = "record" => at' = EndOf(next) /\ filled' < RECORD_HEADER_LEN
        /\ stage' = "data" => at' = EndOf(next) + RECORD_HEADER_LEN /\ filled' = 0
    BY <1>1, <1>2, <1>7
  <2>4. Position'
    BY <1>1, <1>2, <1>5, <2>2, <2>3 DEF Position
  <2>5. Delivered'
    BY <1>4, <2>2 DEF Delivered
  <2>. QED BY <1>1, <2>4, <2>5
<1>. QED BY <1>6, <1>7 DEF ReadHeader

\* Where a record's data are read there is a record.
LEMMA Within ==
    ASSUME FileInv, stage = "data"
    PROVE  /\ next + 1 \in 1..Len(file.recs) /\ next \in 0..Len(file.recs) - 1
           /\ file.recs[next + 1].frame \in FrameType /\ file.recs[next + 1].cap \in Nat
           /\ read_u32(file.recs[next + 1].cap) = file.recs[next + 1].cap
           /\ Timestamp(file.recs[next + 1]) = MicrosOf(file.recs[next + 1])
           /\ MicrosOf(file.recs[next + 1]) \in Nat
           /\ EndOf(next) \in Nat
           /\ EndOf(next + 1) = at + file.recs[next + 1].cap
<1>. USE DEF FileInv
<1>1. /\ next \in Nat /\ next <= Len(file.recs) /\ Len(file.recs) \in Nat /\ file.size \in Nat
      /\ at = EndOf(next) + RECORD_HEADER_LEN /\ at + filled <= file.size /\ filled = 0
      /\ EndOf(next) \in Nat /\ RECORD_HEADER_LEN = 16
      /\ file.size <= EndOf(Len(file.recs))
  BY FileTypes, EndFacts DEF Position, RECORD_HEADER_LEN
<1>2. next # Len(file.recs)
  BY <1>1
<1>3. next + 1 \in 1..Len(file.recs) /\ next \in 0..Len(file.recs) - 1
  BY <1>1, <1>2
<1>4. swapped = file.big /\ file.kind # "other" /\ (nanos <=> file.kind = "nanos")
  BY DEF Position, ReplayOpens
<1>5. EndOf(next + 1) = at + file.recs[next + 1].cap
  BY <1>1, <1>3, EndFacts
<1>. QED BY <1>1, <1>3, <1>4, <1>5, ReadsBack, FileTypes

\* Reading a record's data, whole, cut off or faulty.
LEMMA DataStep ==
    ASSUME FileInv, stage = "data", Data(file.recs[next + 1]), stage' \in {"frame", "ended"}
    PROVE  FileInv'
<1>. USE DEF FileInv
<1>. DEFINE r == file.recs[next + 1]
<1>1. file' = file /\ filled' = filled /\ swapped' = swapped /\ nanos' = nanos
  BY DEF Data
<1>2. /\ next + 1 \in 1..Len(file.recs) /\ next \in 0..Len(file.recs) - 1 /\ r.cap \in Nat
      /\ read_u32(r.cap) = r.cap /\ Timestamp(r) = MicrosOf(r) /\ MicrosOf(r) \in Nat
      /\ EndOf(next) \in Nat /\ EndOf(next + 1) = at + r.cap
  BY Within
<1>3. /\ next \in Nat /\ next < Len(file.recs) /\ Len(file.recs) \in Nat /\ file.size \in Nat
      /\ at \in Nat /\ filled = 0 /\ at = EndOf(next) + 16 /\ at <= file.size /\ ReplayOpens
      /\ swapped = file.big /\ nanos = (file.kind = "nanos")
  BY <1>2, FileTypes DEF Position, RECORD_HEADER_LEN
<1>4. /\ stamps \in Seq(Nat) /\ Len(stamps) = next
      /\ \A i \in 1..next : ReplayOpens /\ Complete(i) /\ stamps[i] = MicrosOf(file.recs[i])
  BY DEF Delivered
<1>5. /\ ReplayOpens' = ReplayOpens /\ ReplayDelivers' = ReplayDelivers
      /\ \A i : Complete(i)' = Complete(i)
      /\ \A x : MicrosOf(x)' = MicrosOf(x)
      /\ \A i : EndOf(i)' = EndOf(i)
  BY <1>1, Kept
<1>6. Complete(next + 1) <=> r.cap <= MaxRecord /\ at + r.cap <= file.size
  BY <1>2 DEF Complete, EndOf
<1>7. CASE /\ r.cap > MaxRecord \/ at + r.cap > file.size
           /\ Fails /\ UNCHANGED <<at, next, stamps, frame>>
  <2>1. stage' = "ended" /\ outcome' = "error"
    BY <1>7 DEF Fails
  <2>2. ~Complete(next + 1)
    BY <1>2, <1>3, <1>6, <1>7, PcapAssumption
  <2>3. ReplayDelivers = 1..next
    BY <1>3, <1>4, <2>2, DeliversAll
  <2>4. ~ReplayEndsOk
    BY <1>2, <1>3, EndsOk
  <2>5. ReplayDelivers' = 1..next' /\ ~ReplayEndsOk'
    BY <1>1, <1>7, <2>3, <2>4, <1>5 DEF ReplayEndsOk, ReplayOpens
  <2>6. Position'
    BY <1>1, <1>3, <1>7, <2>1 DEF Position
  <2>7. /\ stamps' \in Seq(Nat) /\ Len(stamps') = next'
        /\ \A i \in 1..next' : ReplayOpens' /\ Complete(i)' /\ stamps'[i] = MicrosOf(file.recs[i])'
    BY <1>1, <1>4, <1>5, <1>7
  <2>8. Delivered'
    BY <2>1, <2>5, <2>7 DEF Delivered
  <2>. QED BY <1>1, <2>6, <2>8
<1>8. CASE /\ r.cap <= MaxRecord /\ at + r.cap <= file.size
           /\ at' = at + r.cap /\ next' = next + 1 /\ stamps' = Append(stamps, MicrosOf(r))
           /\ stage' = "frame"
  <2>1. Complete(next + 1)
    BY <1>6, <1>8
  <2>2. /\ stamps' \in Seq(Nat) /\ Len(stamps') = next + 1
        /\ \A i \in 1..next : stamps'[i] = stamps[i]
        /\ stamps'[next + 1] = MicrosOf(r)
    BY <1>2, <1>3, <1>4, <1>8, AppendProperties
  <2>3. \A i \in 1..next' : i \in 1..next \/ i = next + 1
    BY <1>3, <1>8
  <2>4. \A i \in 1..next' : Complete(i) /\ stamps'[i] = MicrosOf(file.recs[i])
    BY <1>4, <2>1, <2>2, <2>3
  <2>5. Delivered'
    BY <1>1, <1>3, <1>5, <1>8, <2>2, <2>4 DEF Delivered
  <2>6. at' = EndOf(next + 1) /\ at' \in Nat /\ next' \in Nat /\ next' <= Len(file'.recs)
    BY <1>1, <1>2, <1>3, <1>8
  <2>7. EndOf(next)' = EndOf(next + 1)
    BY <1>1, <1>8 DEF EndOf
  <2>8. at' + filled' <= file'.size
    BY <1>1, <1>2, <1>3, <1>8
  <2>9. Position'
    BY <1>1, <1>3, <1>5, <1>8, <2>6, <2>7, <2>8 DEF Position
  <2>. QED BY <1>1, <2>5, <2>9
<1>. QED BY <1>2, <1>7, <1>8 DEF Data

\* A read that fails ends the replay.
LEMMA ReadFailsStep == ASSUME FileInv, ReadFails PROVE FileInv'
<1>. USE DEF FileInv
<1>1. /\ file' = file /\ at' = at /\ filled' = filled /\ swapped' = swapped /\ nanos' = nanos
      /\ next' = next /\ stamps' = stamps /\ stage' = "ended" /\ file.faulty
  BY DEF ReadFails, Fails
<1>2. Position'
  BY <1>1 DEF Position
<1>3. Delivered'
  BY <1>1, Kept DEF Delivered
<1>. QED BY <1>1, <1>2, <1>3

\* Steps of the parsers leave the file alone.
LEMMA FileRests == ASSUME FileInv, UNCHANGED pcapVars PROVE FileInv'
<1>. USE DEF FileInv
<1>1. /\ file' = file /\ at' = at /\ filled' = filled /\ swapped' = swapped /\ nanos' = nanos
      /\ next' = next /\ stamps' = stamps /\ stage' = stage /\ outcome' = outcome
  BY DEF pcapVars
<1>2. Position'
  BY <1>1, Kept DEF Position, EndOf
<1>3. Delivered'
  BY <1>1, Kept DEF Delivered, ReplayEndsOk, ReplayOpens
<1>. QED BY <1>1, <1>2, <1>3

\* Engine::process has returned.
LEMMA FrameDone ==
    ASSUME FileInv, stage = "frame", stage' = "record",
           UNCHANGED <<file, at, filled, swapped, nanos, next, stamps, outcome>>
    PROVE  FileInv'
<1>. USE DEF FileInv
<1>1. Position'
  BY Kept DEF Position, EndOf, RECORD_HEADER_LEN
<1>2. Delivered'
  BY Kept DEF Delivered
<1>. QED BY <1>1, <1>2

-----------------------------------------------------------------------------
(* What the generator writes is a file.                                     *)

\* the first i labels of NameBytes
Labelled(name, i) ==
    LET bytes[j \in 0..Len(name)] ==
            IF j = 0 THEN <<>> ELSE bytes[j - 1] \o <<name[j]>> \o [l \in 1..name[j] |-> 97]
    IN  bytes[i]

\* The labels follow each other.
LEMMA LabelledIs ==
    ASSUME NEW name \in Labels
    PROVE  /\ Len(name) \in Nat /\ \A i \in 1..Len(name) : name[i] \in 1..63
           /\ NameBytes(name) = Labelled(name, Len(name)) \o <<0>>
           /\ Labelled(name, 0) = <<>>
           /\ \A i \in 0..Len(name) : Labelled(name, i) \in Seq(Byte)
           /\ \A i \in 1..Len(name) :
                 Labelled(name, i) = Labelled(name, i - 1) \o <<name[i]>> \o [l \in 1..name[i] |-> 97]
<1>. DEFINE n == Len(name)
            S == Seq(Byte)
            b(i) == <<name[i]>>
            c(i) == [j \in 1..name[i] |-> 97]
            F == [p \in (1..n) \X S |-> p[2] \o b(p[1]) \o c(p[1])]
            g(x) == [i \in 0..Len(name) |->
                        IF i = 0 THEN <<>> ELSE x[i - 1] \o <<name[i]>> \o [j \in 1..name[i] |-> 97]]
            bytes == CHOOSE x : x = g(x)
<1>1. n \in Nat /\ \A i \in 1..n : name[i] \in 1..63
  BY LenProperties, ElementOfSeq DEF Labels
<1>2. \A i \in 1..n : b(i) \in S /\ c(i) \in S
  <2>1. ASSUME NEW i \in 1..n PROVE b(i) \in S /\ c(i) \in S
    <3>1. name[i] \in Byte /\ name[i] \in Nat /\ 97 \in Byte
      <4>1. 97 \in Byte /\ \A x \in 1..63 : x \in Byte /\ x \in Nat
        BY DEF Byte
      <4>. HIDE DEF n, b, c
      <4>. QED BY <1>1, <4>1
    <3>2. b(i) \in S
      BY <3>1
    <3>3. c(i) \in [1..name[i] -> Byte]
      BY <3>1
    <3>4. c(i) \in S
      BY <3>1, <3>3, SeqDef
    <3>. QED BY <3>2, <3>4
  <2>. QED BY <2>1
<1>3. \A i \in 1..n, q \in S : F[<<i, q>>] = q \o b(i) \o c(i) /\ q \o b(i) \o c(i) \in S
  <2>1. ASSUME NEW i \in 1..n, NEW q \in S PROVE q \o b(i) \o c(i) \in S
    <3>1. b(i) \in S /\ c(i) \in S
      BY <1>2
    <3>. HIDE DEF b, c
    <3>2. q \o b(i) \in S
      BY <3>1, ConcatProperties
    <3>. QED BY <3>1, <3>2, ConcatProperties
  <2>. HIDE DEF b, c, S
  <2>. QED BY <2>1
<1>4. F \in [(1..n) \X S -> S]
  <2>. HIDE DEF b, c, S
  <2>1. \A p \in (1..n) \X S : p[2] \o b(p[1]) \o c(p[1]) \in S
    <3>1. ASSUME NEW p \in (1..n) \X S PROVE p[2] \o b(p[1]) \o c(p[1]) \in S
      <4>1. p[1] \in 1..n /\ p[2] \in S
        BY <3>1
      <4>. QED BY <4>1, <1>3
    <3>. QED BY <3>1
  <2>. QED BY <2>1
<1>5. <<>> \in S
  OBVIOUS
<1>6. PICK e \in [0..n -> S] : Follows(e, <<>>, n, F)
  <2>. HIDE DEF F, S, n
  <2>. QED BY <1>1, <1>4, <1>5, Recursion
<1>7. e[0] = <<>> /\ \A i \in 1..n : e[i] = e[i - 1] \o b(i) \o c(i)
  <2>1. \A i \in 1..n : i - 1 \in 0..n /\ e[i - 1] \in S
    <3>1. \A i \in 1..n : i - 1 \in 0..n
      BY <1>1
    <3>. HIDE DEF F, S, n
    <3>. QED BY <1>6, <3>1
  <2>. HIDE DEF F, S, b, c
  <2>. QED BY <1>3, <1>6, <2>1 DEF Follows
<1>8. e = g(e)
  <2>1. g(e) = [i \in 0..n |-> IF i = 0 THEN <<>> ELSE e[i - 1] \o b(i) \o c(i)]
    OBVIOUS
  <2>2. \A i \in 0..n : i = 0 \/ i \in 1..n
    BY <1>1
  <2>3. e = [i \in 0..n |-> e[i]]
    <3>. HIDE DEF S, F, n
    <3>. QED BY <1>6
  <2>. HIDE DEF g, b, c, n
  <2>. QED BY <1>7, <2>1, <2>2, <2>3
<1>9. bytes = g(bytes)
  BY <1>8
<1>10. NameBytes(name) = bytes[Len(name)] \o <<0>> /\ \A i : Labelled(name, i) = bytes[i]
  BY DEF NameBytes, Labelled
<1>11. bytes[0] = <<>> /\ \A i \in 1..n : bytes[i] = bytes[i - 1] \o b(i) \o c(i)
  <2>1. g(bytes) = [i \in 0..n |-> IF i = 0 THEN <<>> ELSE bytes[i - 1] \o b(i) \o c(i)]
    OBVIOUS
  <2>2. 0 \in 0..n /\ \A i \in 1..n : i \in 0..n /\ i # 0
    BY <1>1
  <2>. HIDE DEF bytes, b, c, g, n
  <2>. QED BY <1>9, <2>1, <2>2
<1>12. \A i \in 0..n : bytes[i] = e[i]
  <2>. HIDE DEF bytes, b, c, g, F
  <2>2. Alongside(bytes, e, n)
    BY <1>7, <1>11 DEF Alongside
  <2>3. \A d : Alongside(d, e, n) => \A i \in 0..n : d[i] = e[i]
    BY <1>1, SameRecursion
  <2>. QED BY <1>1, <2>2, <2>3
<1>13. \A i \in 0..n : e[i] \in S
  <2>. HIDE DEF S, F, n
  <2>. QED BY <1>6
<1>. HIDE DEF bytes, g, F
<1>. QED BY <1>1, <1>10, <1>11, <1>12, <1>13 DEF n, S, b, c

\* A name is written as bytes.
LEMMA NameBytesType ==
    ASSUME NEW name \in Labels
    PROVE  NameBytes(name) \in Seq(Byte)
<1>. DEFINE q == Labelled(name, Len(name))
            r == <<0>>
<1>1. 0 \in Byte /\ Len(name) \in 0..Len(name)
  BY LabelledIs DEF Byte
<1>2. r \in Seq(Byte)
  BY <1>1
<1>3. q \in Seq(Byte) /\ NameBytes(name) = q \o r
  BY <1>1, LabelledIs
<1>. HIDE DEF q, r
<1>4. q \o r \in Seq(Byte)
  BY <1>2, <1>3, ConcatProperties
<1>. QED BY <1>3, <1>4

\* A query is written as bytes.
LEMMA PayloadType == \A name \in Labels : DnsQueryPayload(name) \in Seq(Byte)
<1>. SUFFICES ASSUME NEW name \in Labels PROVE DnsQueryPayload(name) \in Seq(Byte)
  OBVIOUS
<1>. DEFINE head == <<0, 0, 1, 0, 0, 1, 0, 0, 0, 0, 0, 0>>
            rest == <<0, 1, 0, 1>>
<1>1. head \in Seq(Byte) /\ rest \in Seq(Byte)
  BY DEF Byte
<1>2. DnsQueryPayload(name) = head \o NameBytes(name) \o rest
  BY DEF DnsQueryPayload
<1>. HIDE DEF head, rest
<1>3. head \o NameBytes(name) \in Seq(Byte)
  BY <1>1, NameBytesType, ConcatProperties
<1>. QED BY <1>1, <1>2, <1>3, ConcatProperties

\* Every template of the generator is a frame.
LEMMA FrameTypes ==
    /\ \A proto \in {"tcp", "udp", "icmp"}, n \in Nat : EthernetIpv4(proto, n) \in FrameType
    /\ \A payload \in Seq(Byte), port53 \in BOOLEAN : UdpDatagram(payload, port53) \in FrameType
<1>. USE DEF ETH_HEADER_LEN, IPV4_HEADER_LEN, TCP_HEADER_LEN, UDP_HEADER_LEN
<1>1. ASSUME NEW proto \in {"tcp", "udp", "icmp"}, NEW n \in Nat
      PROVE  EthernetIpv4(proto, n) \in FrameType
  <2>1. <<>> \in Seq(Extension) /\ <<>> \in Seq(Byte)
    OBVIOUS
  <2>. QED BY <2>1 DEF EthernetIpv4, FrameType
<1>2. ASSUME NEW payload \in Seq(Byte), NEW port53 \in BOOLEAN
      PROVE  UdpDatagram(payload, port53) \in FrameType
  <2>1. Len(payload) \in Nat /\ UDP_HEADER_LEN + Len(payload) \in Nat
    BY LenProperties
  <2>. DEFINE f == EthernetIpv4("udp", UDP_HEADER_LEN + Len(payload))
  <2>2. f \in FrameType
    BY <1>1, <2>1
  <2>3. DatagramLen(payload) \in Nat
    BY <2>1 DEF DatagramLen
  <2>4. UdpDatagram(payload, port53) =
           [f EXCEPT !.declared = DatagramLen(payload), !.dns = port53, !.message = payload]
    BY DEF UdpDatagram
  <2>. HIDE DEF f
  <2>. QED BY <2>2, <2>3, <2>4 DEF FrameType
<1>. QED BY <1>1, <1>2

\* Every frame of every scenario is a frame.
LEMMA GeneratedFrames == \A scenario, i : FrameAt(scenario, i) \subseteq FrameType
<1>1. \A n \in Nat : TcpSegment(n) \in FrameType
  BY FrameTypes DEF TcpSegment, TCP_HEADER_LEN
<1>2. \A d \in Labels : DnsQuery(d) \in FrameType
  BY PayloadType, FrameTypes DEF DnsQuery
<1>3. IcmpEcho \in FrameType
  BY FrameTypes DEF IcmpEcho
<1>4. BackgroundPacket \subseteq FrameType
  <2>1. \A n \in 0..MaxPayload - 1 : n \in Nat
    OBVIOUS
  <2>. QED BY <1>1, <1>2, <1>3, <2>1, SynthAssumption DEF BackgroundPacket
<1>5. FloodSyn \in FrameType /\ ScanProbe \in FrameType /\ TunnelQuery \in FrameType
  BY <1>1, <1>2, SynthAssumption DEF FloodSyn, ScanProbe, TunnelQuery
<1>. QED BY <1>4, <1>5 DEF FrameAt

\* What the writer makes of packets is a file.
LEMMA WriteFileType ==
    ASSUME NEW n \in Nat, NEW packets, DOMAIN packets = 1..n,
           \A i \in 1..n : packets[i][1] \in Nat /\ packets[i][2] \in FrameType
    PROVE  WriteFile(packets) \in PcapType
<1>. DEFINE R == [sec : Nat, frac : Nat, cap : Nat, wire : Nat, frame : FrameType]
            recs == [i \in DOMAIN packets |-> WriteRecord(packets[i][1], packets[i][2])]
            f == WriteFile(packets)
<1>1. ASSUME NEW ts \in Nat, NEW x \in FrameType PROVE WriteRecord(ts, x) \in R
  <2>1. ts \div MicrosPerSec \in Nat /\ ts % MicrosPerSec \in Nat
    BY PcapAssumption
  <2>2. x.len \in Nat
    BY DEF FrameType
  <2>. QED BY <2>1, <2>2 DEF WriteRecord
<1>2. recs \in [1..n -> R]
  <2>1. \A i \in 1..n : WriteRecord(packets[i][1], packets[i][2]) \in R
    <3>. HIDE DEF R
    <3>. QED BY <1>1
  <2>. HIDE DEF R
  <2>. QED BY <2>1
<1>3. recs \in Seq(R)
  <2>. HIDE DEF R, recs
  <2>. QED BY <1>2, SeqDef
<1>4. \A r \in R : r.cap \in Nat
  OBVIOUS
<1>5. SizeOf(recs) \in Nat
  <2>. HIDE DEF R, recs
  <2>1. Len(recs) \in Nat /\ Len(recs) \in 0..Len(recs)
    BY <1>3, LenProperties
  <2>2. PICK e \in [0..Len(recs) -> Nat] : SizeOf(recs) = e[Len(recs)]
    BY <1>3, <1>4, Ends
  <2>. QED BY <2>1, <2>2
<1>6. f = [kind |-> "micros", big |-> FALSE, link |-> 1, recs |-> recs, size |-> SizeOf(recs),
           faulty |-> FALSE]
  BY DEF WriteFile
<1>7. "micros" \in DOMAIN MAGIC
  BY DEF MAGIC
<1>. HIDE DEF R, recs, f
<1>8. f \in [kind : DOMAIN MAGIC, big : BOOLEAN, link : Nat, size : Nat, faulty : BOOLEAN, recs : Seq(R)]
  BY <1>3, <1>5, <1>6, <1>7
<1>9. f.size <= SizeOf(f.recs) /\ ~(f.big \/ f.kind = "other")
  BY <1>5, <1>6
<1>. QED BY <1>8, <1>9 DEF PcapType, R, f

\* What rises at every step rises over several.
LEMMA Rising ==
    ASSUME NEW n \in Nat, NEW e \in [0..n -> Nat], \A i \in 1..n : e[i - 1] < e[i]
    PROVE  \A i, j \in 0..n : i < j => e[i] < e[j]
<1>. SUFFICES ASSUME NEW i \in 0..n PROVE \A j \in 0..n : i < j => e[i] < e[j]
  OBVIOUS
<1>. DEFINE Bad == {j \in 0..n : i < j /\ ~(e[i] < e[j])}
<1>1. ASSUME Bad # {} PROVE FALSE
  <2>1. PICK k \in Bad : \A j \in Bad : k <= j
    <3>1. Bad \subseteq Nat
      OBVIOUS
    <3>. HIDE DEF Bad
    <3>. QED BY <1>1, <3>1, Least
  <2>2. k \in 0..n /\ i < k /\ ~(e[i] < e[k])
    BY <2>1
  <2>3. k \in 1..n /\ k - 1 \in 0..n /\ ~(k <= k - 1) /\ (k - 1 = i \/ i < k - 1)
    BY <2>2
  <2>4. k - 1 \notin Bad
    <3>. HIDE DEF Bad
    <3>. QED BY <2>1, <2>3
  <2>5. e[k - 1] = e[i] \/ e[i] < e[k - 1]
    BY <2>3, <2>4
  <2>6. e[k - 1] < e[k] /\ e[i] \in Nat /\ e[k] \in Nat /\ e[k - 1] \in Nat
    BY <2>2, <2>3
  <2>. QED BY <2>2, <2>5, <2>6
<1>. QED BY <1>1

\* The packets of generate come at rising times, whatever the gaps.
LEMMA TimesRise ==
    ASSUME NEW n \in Nat, NEW gaps \in [1..n -> Gap]
    PROVE  \E e \in [0..n -> Nat] :
              /\ \A i, j \in 0..n : i < j => e[i] < e[j]
              /\ \A i \in 1..n :
                    (LET t[j \in 0..i] == IF j = 0 THEN StartTs ELSE t[j - 1] + gaps[j] IN t[i]) = e[i]
<1>. DEFINE d == [j \in 1..n |-> gaps[j]]
<1>1. StartTs \in Nat /\ d \in [1..n -> Nat] /\ \A j \in 1..n : d[j] = gaps[j] /\ d[j] > 0
  BY SynthAssumption DEF Gap
<1>. HIDE DEF d
<1>2. PICK e \in [0..n -> Nat] : e[0] = StartTs /\ \A j \in 1..n : e[j] = e[j - 1] + d[j]
  BY <1>1, SumExists
<1>3. \A i, j \in 0..n : i < j => e[i] < e[j]
  <2>1. ASSUME NEW j \in 1..n PROVE e[j - 1] < e[j]
    <3>1. j - 1 \in 0..n /\ e[j] = e[j - 1] + d[j] /\ d[j] \in Nat /\ d[j] > 0
      BY <1>1, <1>2
    <3>2. e[j - 1] \in Nat
      BY <3>1
    <3>. QED BY <3>1, <3>2
  <2>. QED BY <2>1, Rising
<1>4. ASSUME NEW i \in 1..n
      PROVE  (LET t[j \in 0..i] == IF j = 0 THEN StartTs ELSE t[j - 1] + gaps[j] IN t[i]) = e[i]
  <2>. DEFINE g(x) == [j \in 0..i |-> IF j = 0 THEN StartTs ELSE x[j - 1] + gaps[j]]
              t == CHOOSE x : x = g(x)
              f == [j \in 0..i |-> e[j]]
  <2>1. i \in Nat /\ i \in 0..i /\ 0 \in 0..i /\ \A j \in 1..i : j \in 1..n /\ j \in 0..i /\ j - 1 \in 0..i /\ j # 0
    OBVIOUS
  <2>2. f[0] = StartTs /\ f[i] = e[i] /\ \A j \in 1..i : f[j] = f[j - 1] + gaps[j]
    <3>1. \A j \in 1..i : f[j] = e[j] /\ f[j - 1] = e[j - 1]
      BY <2>1
    <3>2. f[0] = e[0] /\ f[i] = e[i]
      BY <2>1
    <3>. HIDE DEF f
    <3>. QED BY <1>1, <1>2, <2>1, <3>1, <3>2
  <2>3. f = g(f)
    <3>1. f = [j \in 0..i |-> f[j]]
      OBVIOUS
    <3>2. \A j \in 0..i : f[j] = IF j = 0 THEN StartTs ELSE f[j - 1] + gaps[j]
      <4>1. \A j \in 0..i : j = 0 \/ j \in 1..i
        BY <2>1
      <4>. HIDE DEF f
      <4>. QED BY <2>2, <4>1
    <3>. HIDE DEF f
    <3>. QED BY <3>1, <3>2
  <2>4. t = g(t)
    BY <2>3
  <2>5. t[0] = StartTs /\ \A j \in 1..i : t[j] = t[j - 1] + gaps[j]
    <3>. HIDE DEF t
    <3>. QED BY <2>1, <2>4
  <2>. HIDE DEF t, g, f
  <2>6. t[i] = f[i]
    <3>1. Alongside(t, f, i)
      BY <2>2, <2>5 DEF Alongside
    <3>2. \A x : Alongside(x, f, i) => \A j \in 0..i : x[j] = f[j]
      BY <2>1, SameRecursion
    <3>. QED BY <2>1, <3>1, <3>2
  <2>. QED BY <2>2, <2>6 DEF t, g
<1>. QED BY <1>3, <1>4

\* What generate passes to its sink: frames of the scenario at rising times.
LEMMA Turns ==
    ASSUME NEW s, NEW packets \in Generate(s, GenPackets)
    PROVE  \E e \in [0..GenPackets -> Nat], frames \in [1..GenPackets -> Packet] :
              /\ \A i, j \in 0..GenPackets : i < j => e[i] < e[j]
              /\ \A i \in 1..GenPackets : frames[i] \in FrameAt(s, i - 1)
              /\ DOMAIN packets = 1..GenPackets
              /\ \A i \in 1..GenPackets : packets[i][1] = e[i] /\ packets[i][2] = frames[i]
<1>. DEFINE n == GenPackets
            time(gaps) == [i \in 1..n |-> LET t[j \in 0..i] == IF j = 0 THEN StartTs ELSE t[j - 1] + gaps[j]
                                          IN  t[i]]
            chosen == {q \in [1..n -> Packet] : \A i \in 1..n : q[i] \in FrameAt(s, i - 1)}
            turns(gaps, frames) == [i \in 1..n |-> <<time(gaps)[i], frames[i]>>]
<1>1. n \in Nat
  BY ReplayAssumption
<1>2. Generate(s, n) = {turns(gaps, frames) : gaps \in [1..n -> Gap], frames \in chosen}
  BY DEF Generate
<1>3. PICK gaps \in [1..n -> Gap], frames \in chosen : packets = turns(gaps, frames)
  <2>. HIDE DEF turns, chosen, n
  <2>1. packets \in Generate(s, n)
    BY DEF n
  <2>. QED BY <1>2, <2>1
<1>4. PICK e \in [0..n -> Nat] :
         /\ \A i, j \in 0..n : i < j => e[i] < e[j]
         /\ \A i \in 1..n :
               (LET t[j \in 0..i] == IF j = 0 THEN StartTs ELSE t[j - 1] + gaps[j] IN t[i]) = e[i]
  BY <1>1, TimesRise
<1>5. \A i \in 1..n : time(gaps)[i] = e[i]
  BY <1>4
<1>6. frames \in [1..n -> Packet] /\ \A i \in 1..n : frames[i] \in FrameAt(s, i - 1)
  OBVIOUS
<1>. HIDE DEF time, n
<1>7. DOMAIN packets = 1..n /\ \A i \in 1..n : packets[i][1] = e[i] /\ packets[i][2] = frames[i]
  BY <1>3, <1>5
<1>. QED BY <1>4, <1>6, <1>7 DEF n

\* Every scenario generates files.
LEMMA GeneratedType == \A s : GeneratedFiles(s) \subseteq PcapType
<1>. SUFFICES ASSUME NEW s, NEW packets \in Generate(s, GenPackets)
     PROVE  WriteFile(packets) \in PcapType
  BY DEF GeneratedFiles
<1>1. PICK e \in [0..GenPackets -> Nat], frames \in [1..GenPackets -> Packet] :
         /\ \A i \in 1..GenPackets : frames[i] \in FrameAt(s, i - 1)
         /\ DOMAIN packets = 1..GenPackets
         /\ \A i \in 1..GenPackets : packets[i][1] = e[i] /\ packets[i][2] = frames[i]
  BY Turns
<1>2. GenPackets \in Nat /\ \A i \in 1..GenPackets : i \in 0..GenPackets
  BY ReplayAssumption
<1>3. \A i \in 1..GenPackets : packets[i][1] \in Nat /\ packets[i][2] \in FrameType
  BY <1>1, <1>2, GeneratedFrames
<1>. QED BY <1>1, <1>2, <1>3, WriteFileType

\* A replay starts before the global header.
LEMMA FileInit == Init => FileInv
<1>. SUFFICES ASSUME Init PROVE FileInv
  OBVIOUS
<1>1. \E files : files \subseteq PcapType /\ PcapInit(files)
  BY GeneratedType, ReplayAssumption DEF Init
<1>2. /\ file \in PcapType /\ stage = "open" /\ at = 0 /\ filled = 0
      /\ next = 0 /\ stamps = <<>>
  BY <1>1 DEF PcapInit
<1>3. Len(file.recs) \in Nat /\ <<>> \in Seq(Nat) /\ Len(<<>>) = 0
  BY <1>2, FileTypes
<1>. QED BY <1>2, <1>3 DEF FileInv, Position, Delivered

-----------------------------------------------------------------------------
(* One frame through the parsers.                                           *)

\* The payload that the DNS parser is called with consists of bytes.
LEMMA PayloadBytes ==
    ASSUME SliceInv, DatagramEnd > offset + UDP_HEADER_LEN
    PROVE  Payload \in Seq(Byte)
<1>. DEFINE m == Smaller(DatagramEnd - offset - UDP_HEADER_LEN, Len(frame.message))
<1>1. frame.message \in Seq(Byte) /\ frame.declared \in Nat /\ offset \in Nat /\ limit \in Nat
  BY DEF SliceInv, FrameType
<1>2. Len(frame.message) \in Nat /\ DatagramEnd \in Nat /\ UDP_HEADER_LEN \in Nat
  BY <1>1, LenProperties DEF DatagramEnd, Smaller, UDP_HEADER_LEN
<1>3. m \in 0..Len(frame.message)
  BY <1>1, <1>2 DEF Smaller
<1>. HIDE DEF m
<1>4. SubSeq(frame.message, 1, m) \in Seq(Byte)
  BY <1>1, <1>3, SubSeqProperties
<1>. QED BY <1>4 DEF Payload, m

\* No step of a parse leaves the invariant of the walk.
LEMMA WalkParses == ASSUME SliceInv, WalkInv, ParseNext PROVE WalkInv'
<1>1. CASE UNCHANGED dnsVars
  BY <1>1, WalkNext
<1>2. CASE DnsNext
  BY <1>2, WalkNext
<1>3. CASE DatagramEnd > offset + UDP_HEADER_LEN /\ DnsBegin(Payload)
  <2>1. Payload \in Seq(Byte)
    BY <1>3, PayloadBytes
  <2>. QED BY <1>3, <2>1, DnsAssumption DEF DnsBegin, WalkInv, DnsTypeOK, HeaderLen, None
<1>4. CASE LinkHeader \/ VlanTag \/ NetworkLayer \/ UnknownVersion
  BY <1>1, <1>4 DEF LinkHeader, VlanTag, NetworkLayer, UnknownVersion, Refuse
<1>5. CASE Ipv4 \/ Ipv6 \/ ExtensionHeader \/ TooManyExtensions \/ LastExtension
  BY <1>1, <1>5 DEF Ipv4, Ipv6, ExtensionHeader, TooManyExtensions, LastExtension, Refuse
<1>6. CASE LaterFragment \/ Tcp \/ Icmp \/ Other
  BY <1>1, <1>6 DEF LaterFragment, Tcp, Icmp, Other, Transport, Refuse
<1>7. CASE Udp
  BY <1>1, <1>3, <1>7 DEF Udp, Transport, Refuse
<1>8. CASE DnsStep \/ DnsReturns
  BY <1>1, <1>2, <1>8 DEF DnsStep, DnsReturns
<1>. QED BY <1>4, <1>5, <1>6, <1>7, <1>8 DEF ParseNext

\* What parse finds out, layer by layer.
LEMMA FindsOut ==
    ASSUME Found, frame \in FrameType, stage = "frame", stage' = stage, ParseNext
    PROVE  Found'
<1>1. frame.ethertype \in {"ipv4", "ipv6", "other"}
  BY DEF FrameType
<1>. USE DEF Found
<1>2. ASSUME NEW layer \in {"Link", "Ipv4", "Ipv6", "Tcp", "Udp", "Icmp"}, Refuse(layer) PROVE Found'
  BY <1>2 DEF Refuse
<1>3. CASE LinkHeader
  <2>1. \/ Refuse("Link")
        \/ phase = "link" /\ phase' \in {"tag", "version"} /\ UNCHANGED result
    BY <1>3 DEF LinkHeader, Read
  <2>. QED BY <1>2, <2>1 DEF result
<1>4. CASE VlanTag
  <2>1. \/ Refuse("Link")
        \/ phase = "tag" /\ phase' = "tag" /\ UNCHANGED result
    BY <1>4 DEF VlanTag, Read
  <2>. QED BY <1>2, <2>1 DEF result
<1>5. CASE NetworkLayer
  <2>1. phase \in {"tag", "version"} /\ phase' \in {"ipv4", "ipv6", "parsed"} /\ UNCHANGED result
    BY <1>1, <1>5 DEF NetworkLayer
  <2>. QED BY <2>1 DEF result
<1>6. CASE UnknownVersion \/ TooManyExtensions
  BY <1>2, <1>6 DEF UnknownVersion, TooManyExtensions
<1>7. CASE Ipv4
  <2>1. \/ Refuse("Ipv4")
        \/ phase = "ipv4" /\ phase' = "l4" /\ ip' = "v4" /\ UNCHANGED <<transport, app, refused>>
    BY <1>7 DEF Ipv4, Read
  <2>. QED BY <1>2, <2>1
<1>8. CASE Ipv6
  <2>1. \/ Refuse("Ipv6")
        \/ phase = "ipv6" /\ phase' = "ext" /\ UNCHANGED result
    BY <1>8 DEF Ipv6, Read
  <2>. QED BY <1>2, <2>1 DEF result
<1>9. CASE ExtensionHeader
  <2>1. \/ Refuse("Ipv6")
        \/ phase = "ext" /\ phase' = "ext" /\ UNCHANGED <<ip, transport, app, refused>>
    BY <1>9 DEF ExtensionHeader, Read
  <2>. QED BY <1>2, <2>1
<1>10. CASE LastExtension
  BY <1>10 DEF LastExtension
<1>11. ASSUME phase = "l4", NEW t \in {"Tcp", "Udp", "Icmp", "LaterFragment", "Other"}, NEW n,
              Transport(t, n)
       PROVE  Found'
  BY <1>11 DEF Transport, Read
<1>12. CASE LaterFragment \/ Other
  BY <1>11, <1>12 DEF LaterFragment, Other
<1>13. CASE Tcp
  BY <1>2, <1>11, <1>13 DEF Tcp
<1>14. CASE Udp
  <2>1. \/ Refuse("Udp")
        \/ phase = "l4" /\ Transport("Udp", UDP_HEADER_LEN)
        \/ /\ phase = "l4" /\ phase' = "dns" /\ transport' = "Udp"
           /\ UNCHANGED <<ip, app, refused>>
    BY <1>14 DEF Udp, Read
  <2>. QED BY <1>2, <1>11, <2>1
<1>15. CASE Icmp
  BY <1>2, <1>11, <1>15 DEF Icmp
<1>16. CASE DnsStep
  BY <1>16 DEF DnsStep, result
<1>17. CASE DnsReturns
  BY <1>17 DEF DnsReturns
<1>. QED BY <1>3, <1>4, <1>5, <1>6, <1>7, <1>8, <1>9, <1>10, <1>12, <1>13, <1>14, <1>15, <1>16, <1>17
         DEF ParseNext

-----------------------------------------------------------------------------
(* The whole replay.                                                        *)

\* Engine::count raises, for each packet, one counter of what it is and the counters of its
\* transport and of DNS in step with what it is tracked as.
LEMMA CountedOnce ==
    ASSUME Found, phase = "parsed"
    PROVE  LET up(c) == IF c \in Raised THEN 1 ELSE 0
               flow  == IF Tracks THEN 1 ELSE 0
               rest  == IF refused = "no" /\ transport = "LaterFragment" THEN 1 ELSE 0
           IN  /\ up("packets") = 0
               /\ up("parse_errors") + up("non_ip") + up("ipv4") + up("ipv6") = 1
               /\ up("tcp") + up("udp") + up("icmp") + up("other_l4") = flow
               /\ up("ipv4") + up("ipv6") = flow + rest
               /\ up("dns") + up("dns_errors") <= up("udp")
<1>1. CASE refused # "no"
  BY <1>1 DEF Raised, Tracks
<1>2. CASE refused = "no" /\ ip = "none"
  BY <1>2 DEF Found, Raised, Tracks
<1>3. CASE /\ refused = "no" /\ ip \in {"v4", "v6"}
           /\ transport \in {"Tcp", "Udp", "Icmp", "LaterFragment", "Other"}
           /\ app \in {"None", "Dns", "DnsError"} /\ (app # "None" => transport = "Udp")
  <2>. DEFINE v == IF ip = "v4" THEN "ipv4" ELSE "ipv6"
              f == IF frag.more \/ frag.offset # 0 THEN {"fragments"} ELSE {}
              t == CASE transport = "Tcp" -> {"tcp"} [] transport = "Udp" -> {"udp"}
                     [] transport = "Icmp" -> {"icmp"} [] transport = "Other" -> {"other_l4"}
                     [] OTHER -> {}
              d == CASE app = "Dns" -> {"dns"} [] app = "DnsError" -> {"dns_errors"} [] OTHER -> {}
  <2>1. Raised = {v} \cup f \cup t \cup d
    BY <1>3 DEF Raised
  <2>2. v \in {"ipv4", "ipv6"} /\ f \subseteq {"fragments"}
    OBVIOUS
  <2>3. \/ transport = "Tcp" /\ t = {"tcp"} /\ d = {}
        \/ transport = "Udp" /\ t = {"udp"} /\ d \in {{}, {"dns"}, {"dns_errors"}}
        \/ transport = "Icmp" /\ t = {"icmp"} /\ d = {}
        \/ transport = "Other" /\ t = {"other_l4"} /\ d = {}
        \/ transport = "LaterFragment" /\ t = {} /\ d = {}
    BY <1>3
  <2>4. Tracks <=> transport # "LaterFragment"
    BY <1>3 DEF Tracks
  <2>. HIDE DEF v, f, t, d
  <2>. QED BY <1>3, <2>1, <2>2, <2>3, <2>4
<1>. QED BY <1>1, <1>2, <1>3 DEF Found

\* The counters are raised once, after the parse.
LEMMA CountStep == ASSUME Sums, Found, Count PROVE Sums' /\ Found'
<1>. DEFINE up(c) == IF c \in Raised THEN 1 ELSE 0
            flow  == IF Tracks THEN 1 ELSE 0
            rest  == IF refused = "no" /\ transport = "LaterFragment" THEN 1 ELSE 0
<1>1. /\ stage = "frame" /\ phase = "parsed" /\ stage' = "record" /\ phase' = "idle" /\ next' = next
      /\ counters' = [c \in Counters |-> counters[c] + up(c)]
      /\ tracked' = tracked + flow /\ later' = later + rest
  BY DEF Count
<1>2. /\ up("packets") = 0
      /\ up("parse_errors") + up("non_ip") + up("ipv4") + up("ipv6") = 1
      /\ up("tcp") + up("udp") + up("icmp") + up("other_l4") = flow
      /\ up("ipv4") + up("ipv6") = flow + rest
      /\ up("dns") + up("dns_errors") <= up("udp")
  BY <1>1, CountedOnce
<1>3. \A c \in Counters : up(c) \in Nat /\ counters[c] \in Nat /\ counters'[c] = counters[c] + up(c)
  BY <1>1 DEF Sums
<1>4. flow \in Nat /\ rest \in Nat
  OBVIOUS
<1>. HIDE DEF up, flow, rest
<1>5. counters' \in [Counters -> Nat] /\ tracked' \in Nat /\ later' \in Nat
  <2>1. \A c \in Counters : counters[c] + up(c) \in Nat
    BY <1>3
  <2>. QED BY <1>1, <1>4, <2>1 DEF Sums
<1>6. /\ counters'.packets = next'
      /\ next' = counters'.parse_errors + counters'.non_ip + counters'.ipv4 + counters'.ipv6
      /\ tracked' = counters'.tcp + counters'.udp + counters'.icmp + counters'.other_l4
      /\ counters'.ipv4 + counters'.ipv6 = tracked' + later'
      /\ counters'.dns + counters'.dns_errors <= counters'.udp
  <2>1. \A c \in {"packets", "ipv4", "ipv6", "tcp", "udp", "icmp", "other_l4", "non_ip", "dns",
                  "dns_errors", "parse_errors"} :
           up(c) \in Nat /\ counters[c] \in Nat /\ counters'[c] = counters[c] + up(c)
    BY <1>3 DEF Counters
  <2>2. /\ tracked \in Nat /\ later \in Nat
        /\ counters.packets = next
        /\ next = counters.parse_errors + counters.non_ip + counters.ipv4 + counters.ipv6 + 1
        /\ tracked = counters.tcp + counters.udp + counters.icmp + counters.other_l4
        /\ counters.ipv4 + counters.ipv6 = tracked + later
        /\ counters.dns + counters.dns_errors <= counters.udp
    BY <1>1 DEF Sums
  <2>3. counters'.packets = next'
    <3>1. counters'.packets = counters.packets + 0
      BY <1>2, <2>1
    <3>2. counters.packets \in Nat
      BY <2>1
    <3>. QED BY <1>1, <2>2, <3>1, <3>2
  <2>4. next' = counters'.parse_errors + counters'.non_ip + counters'.ipv4 + counters'.ipv6
    <3>1. \A a, b, c, d, i, j, k, l \in Nat :
             a + b + c + d + (i + j + k + l) = (a + i) + (b + j) + (c + k) + (d + l)
      OBVIOUS
    <3>2. next' = counters.parse_errors + counters.non_ip + counters.ipv4 + counters.ipv6
                    + (up("parse_errors") + up("non_ip") + up("ipv4") + up("ipv6"))
      BY <1>1, <1>2, <2>2
    <3>. QED BY <2>1, <3>1, <3>2
  <2>5. tracked' = counters'.tcp + counters'.udp + counters'.icmp + counters'.other_l4
    <3>1. \A a, b, c, d, i, j, k, l \in Nat :
             (a + b + c + d) + (i + j + k + l) = (a + i) + (b + j) + (c + k) + (d + l)
      OBVIOUS
    <3>. QED BY <1>1, <1>2, <2>1, <2>2, <3>1
  <2>6. counters'.ipv4 + counters'.ipv6 = tracked' + later'
    <3>1. /\ counters.ipv4 \in Nat /\ up("ipv4") \in Nat /\ counters'.ipv4 = counters.ipv4 + up("ipv4")
          /\ counters.ipv6 \in Nat /\ up("ipv6") \in Nat /\ counters'.ipv6 = counters.ipv6 + up("ipv6")
      BY <2>1
    <3>2. /\ counters.ipv4 + counters.ipv6 = tracked + later /\ up("ipv4") + up("ipv6") = flow + rest
          /\ tracked' = tracked + flow /\ later' = later + rest
          /\ tracked \in Nat /\ later \in Nat /\ flow \in Nat /\ rest \in Nat
      BY <1>1, <1>2, <1>4, <2>2
    <3>. QED BY <3>1, <3>2
  <2>7. counters'.dns + counters'.dns_errors <= counters'.udp
    <3>1. \A a, b, c, i, j, k \in Nat :
             a + b <= c /\ i + j <= k => (a + i) + (b + j) <= c + k
      OBVIOUS
    <3>. QED BY <1>2, <2>1, <2>2, <3>1
  <2>. QED BY <2>3, <2>4, <2>5, <2>6, <2>7
<1>7. Sums'
  BY <1>1, <1>5, <1>6 DEF Sums
<1>8. Found'
  BY <1>1 DEF Found
<1>. QED BY <1>7, <1>8

\* A replay starts in the invariant.
LEMMA ReplayInit == Init => IInv
<1>. SUFFICES ASSUME Init PROVE IInv
  OBVIOUS
<1>1. /\ stage = "open" /\ next = 0 /\ link = "Ethernet" /\ frame = IcmpEcho
      /\ counters = [c \in Counters |-> 0] /\ tracked = 0 /\ later = 0 /\ ParserIdle
  BY DEF Init, PcapInit
<1>2. FileInv
  BY FileInit
<1>3. Sums
  <2>1. counters \in [Counters -> Nat] /\ \A c \in Counters : counters[c] = 0
    BY <1>1
  <2>2. \A c \in {"packets", "ipv4", "ipv6", "tcp", "udp", "icmp", "other_l4", "non_ip", "dns",
                  "dns_errors", "parse_errors"} : counters[c] = 0
    BY <2>1 DEF Counters
  <2>. QED BY <1>1, <2>1, <2>2 DEF Sums
<1>4. Found
  BY <1>1 DEF Found, ParserIdle
<1>5. BoundsInv
  <2>1. IcmpEcho \in FrameType
    BY FrameTypes DEF IcmpEcho
  <2>2. IcmpEcho.len \in Nat
    BY <2>1 DEF FrameType
  <2>. QED BY <1>1, <2>1, <2>2 DEF BoundsInv, SliceInv, InBounds, ParserIdle, LinkType
<1>6. WalkInv
  BY <1>1, DnsAssumption DEF ParserIdle, DnsIdle, WalkInv, DnsTypeOK, None
<1>. QED BY <1>2, <1>3, <1>4, <1>5, <1>6 DEF IInv

\* The reader, and a record it does not accept, leave the parser and the counters alone.
LEMMA ParserRests ==
    ASSUME IInv, Unparsed, Uncounted, next' = next, stage # "frame", stage' # "frame",
           link' \in LinkType
    PROVE  Sums' /\ Found' /\ BoundsInv' /\ WalkInv'
<1>1. Sums'
  BY DEF IInv, Uncounted, Sums
<1>2. Found'
  BY DEF IInv, Unparsed, result, Found
<1>3. BoundsInv'
  BY DEF IInv, Unparsed, slice, BoundsInv, SliceInv, InBounds
<1>4. WalkInv'
  BY WalkNext DEF IInv, Unparsed
<1>. QED BY <1>1, <1>2, <1>3, <1>4

\* No step of the reader leaves the invariant.
LEMMA ReaderStep == ASSUME IInv, Reader PROVE IInv'
<1>1. FileInv'
  BY OpenStep, ReadHeaderStep, ReadFailsStep DEF IInv, Reader
<1>2. stage # "frame" /\ stage' # "frame" /\ next' = next
  BY DEF Reader, Open, ReadHeader, ReadFails, Fails
<1>3. link' \in LinkType
  <2>1. CASE Open
    <3>1. \/ link' = link
          \/ \E w : link' = FromRaw(w) /\ FromRaw(w) # "none"
      BY <2>1 DEF Open
    <3>. QED BY <3>1 DEF FromRaw, LinkType, IInv, BoundsInv
  <2>2. CASE ReadHeader \/ ReadFails
    BY <2>2 DEF ReadHeader, ReadFails, IInv, BoundsInv
  <2>. QED BY <2>1, <2>2 DEF Reader
<1>4. Unparsed /\ Uncounted
  BY DEF Reader
<1>. QED BY <1>1, <1>2, <1>3, <1>4, ParserRests DEF IInv

\* A record that is read is one more packet to parse.
LEMMA NextRecordStep == ASSUME IInv, NextRecord PROVE IInv'
<1>. DEFINE r == file.recs[next + 1]
<1>1. stage = "data" /\ Data(r) /\ UNCHANGED <<tracked, later, origin>>
  BY DEF NextRecord
<1>2. stage' \in {"frame", "ended"} /\ link' = link
  BY <1>1 DEF Data, Fails
<1>3. FileInv'
  BY <1>1, <1>2, DataStep DEF IInv
<1>4. r.frame \in FrameType
  BY <1>1, Within DEF IInv
<1>5. CASE stage' # "frame" /\ Unparsed /\ UNCHANGED counters
  <2>1. next' = next
    BY <1>1, <1>5 DEF Data
  <2>2. link' \in LinkType /\ Uncounted
    BY <1>1, <1>2, <1>5 DEF IInv, BoundsInv, Uncounted
  <2>. QED BY <1>1, <1>3, <1>5, <2>1, <2>2, ParserRests DEF IInv
<1>6. CASE stage' = "frame" /\ ParseBegin(r.frame) /\ counters' = [counters EXCEPT !.packets = @ + 1]
  <2>1. next' = next + 1
    BY <1>1, <1>6 DEF Data, Fails
  <2>2. Sums'
    <3>1. "packets" \in Counters /\ counters \in [Counters -> Nat] /\ counters.packets = next
      BY DEF Counters, IInv, Sums
    <3>2. counters' \in [Counters -> Nat] /\ counters'.packets = next'
      BY <1>6, <2>1, <3>1
    <3>3. \A c \in {"ipv4", "ipv6", "tcp", "udp", "icmp", "other_l4", "non_ip", "dns", "dns_errors",
                    "parse_errors"} : c \in Counters /\ counters[c] \in Nat /\ counters'[c] = counters[c]
      BY <1>6, <3>1 DEF Counters
    <3>. QED BY <1>1, <1>6, <2>1, <3>2, <3>3 DEF IInv, Sums
  <2>3. Found'
    BY <1>6 DEF ParseBegin, Found
  <2>4. BoundsInv'
    <3>1. r.frame.len \in Nat
      BY <1>4 DEF FrameType
    <3>. HIDE DEF r
    <3>. QED BY <1>2, <1>4, <1>6, <3>1 DEF ParseBegin, BoundsInv, SliceInv, InBounds, IInv
  <2>5. WalkInv'
    BY <1>6, WalkNext DEF ParseBegin, IInv
  <2>. QED BY <1>3, <2>2, <2>3, <2>4, <2>5 DEF IInv
<1>. QED BY <1>5, <1>6 DEF NextRecord

\* No step of a parse leaves the invariant.
LEMMA ParseStep == ASSUME IInv, Parse PROVE IInv'
<1>1. stage = "frame" /\ ParseNext /\ UNCHANGED pcapVars /\ Uncounted
  BY DEF Parse
<1>2. FileInv'
  BY <1>1, FileRests DEF IInv
<1>3. stage' = stage /\ next' = next
  BY <1>1 DEF pcapVars
<1>4. Sums'
  BY <1>1, <1>3 DEF IInv, Sums, Uncounted
<1>5. Found'
  BY <1>1, <1>3, FindsOut DEF IInv, BoundsInv, SliceInv
<1>6. BoundsInv'
  BY <1>1, BoundsNext DEF IInv
<1>7. WalkInv'
  BY <1>1, WalkParses DEF IInv, BoundsInv
<1>. QED BY <1>2, <1>4, <1>5, <1>6, <1>7 DEF IInv

\* The parse returns and its result is counted.
LEMMA ReturnStep == ASSUME IInv, Count PROVE IInv'
<1>1. FileInv'
  BY FrameDone DEF IInv, Count
<1>2. Sums' /\ Found'
  BY CountStep DEF IInv
<1>3. BoundsInv'
  BY DEF IInv, Count, slice, BoundsInv, SliceInv, InBounds
<1>4. WalkInv'
  BY WalkNext DEF IInv, Count
<1>. QED BY <1>1, <1>2, <1>3, <1>4 DEF IInv

\* A stuttering step changes nothing.
LEMMA ReplayRests == ASSUME IInv, UNCHANGED vars PROVE IInv'
<1>1. FileInv'
  BY FileRests DEF IInv, vars
<1>2. Sums' /\ Found' /\ BoundsInv'
  BY DEF IInv, vars, parserVars, pcapVars, result, slice, Sums, Found, BoundsInv, SliceInv, InBounds
<1>3. WalkInv'
  BY WalkNext DEF IInv, vars, parserVars
<1>. QED BY <1>1, <1>2, <1>3 DEF IInv

\* The invariant of the replay.
LEMMA Inductive == Spec => []IInv
<1>1. IInv /\ [Next]_vars => IInv'
  BY ReaderStep, NextRecordStep, ParseStep, ReturnStep, ReplayRests DEF Next
<1>. QED BY <1>1, ReplayInit, PTL DEF Spec

\* The counters of the report add up to what was read, for every capture and whatever
\* generate writes.
THEOREM CountersAddUp == Spec => []CountersAgree
<1>1. IInv => CountersAgree
  <2>. SUFFICES ASSUME IInv, stage # "frame" PROVE CountersAgree
    BY DEF CountersAgree
  <2>1. Sums
    BY DEF IInv
  <2>2. /\ counters.parse_errors \in Nat /\ counters.non_ip \in Nat
        /\ counters.ipv4 \in Nat /\ counters.ipv6 \in Nat
    BY <2>1 DEF Sums, Counters
  <2>3. \A a, b, c, d \in Nat : a + b + c + d + 0 = a + b + c + d
    OBVIOUS
  <2>4. counters.parse_errors + counters.non_ip + counters.ipv4 + counters.ipv6 + 0
          = counters.parse_errors + counters.non_ip + counters.ipv4 + counters.ipv6
    BY <2>2, <2>3
  <2>5. next = counters.parse_errors + counters.non_ip + counters.ipv4 + counters.ipv6 + 0
    BY <2>1, stage # "frame" DEF Sums
  <2>. QED BY <2>1, <2>4, <2>5 DEF Sums, CountersAgree
<1>. QED BY <1>1, Inductive, PTL

\* The reader of the command line and the replay of the capture thread make the same of
\* every file, in either byte order, cut anywhere and read in any pieces.
THEOREM ReadersStayAgreed == Spec => []ReadersAgree
<1>1. IInv => ReadersAgree
  <2>. SUFFICES ASSUME IInv PROVE ReadersAgree
    OBVIOUS
  <2>1. file \in PcapType /\ next \in Nat /\ next <= Len(file.recs)
    BY DEF IInv, FileInv, Position
  <2>2. Len(file.recs) \in Nat /\ DOMAIN file.recs = 1..Len(file.recs)
    BY <2>1, FileTypes
  <2>3. \A i \in 1..next : ReplayOpens /\ Complete(i) /\ stamps[i] = MicrosOf(file.recs[i])
    BY DEF IInv, FileInv, Delivered
  <2>4. \A i \in 1..next : i \in DOMAIN file.recs /\ \A j \in 1..i : j \in 1..next
    BY <2>1, <2>2
  <2>5. \A i \in 1..next : i \in ReplayDelivers
    BY <2>3, <2>4 DEF ReplayDelivers
  <2>. QED BY <2>3, <2>5 DEF IInv, FileInv, Delivered, ReadersAgree
<1>. QED BY <1>1, Inductive, PTL

\* The same bounds hold in a replay, frame after frame, for whatever its files hold.
THEOREM ReplayStaysInBounds == Spec => [](InBounds /\ WalkBounded)
<1>1. IInv => InBounds /\ WalkBounded
  BY DnsAssumption DEF IInv, BoundsInv, SliceInv, WalkInv, WalkBounded, DnsTypeOK
<1>. QED BY <1>1, Inductive, PTL

-----------------------------------------------------------------------------
(* Types.                                                                   *)

\* The parsers keep their types.
LEMMA ParserTypes == ASSUME ParserTypeOK, BoundsInv', ParseNext PROVE ParserTypeOK'
<1>1. /\ link \in LinkType /\ frame \in FrameType /\ tags \in Nat /\ exts \in Nat
      /\ ip \in {"none", "v4", "v6"} /\ frag \in [offset : Nat, more : BOOLEAN]
      /\ transport \in {"None", "Tcp", "Udp", "Icmp", "LaterFragment", "Other"}
      /\ app \in {"None", "Dns", "DnsError"}
      /\ refused \in {"no", "Link", "Ipv4", "Ipv6", "Tcp", "Udp", "Icmp"}
  BY DEF ParserTypeOK
<1>2. /\ link' \in LinkType /\ frame' \in FrameType
      /\ offset' \in Nat /\ limit' \in Nat /\ touched' \in Nat
  BY DEF BoundsInv, SliceInv
<1>3. SUFFICES /\ phase' \in {"idle", "link", "tag", "version", "ipv4", "ipv6", "ext", "l4", "dns", "parsed"}
               /\ tags' \in Nat /\ exts' \in Nat /\ ip' \in {"none", "v4", "v6"}
               /\ frag' \in [offset : Nat, more : BOOLEAN]
               /\ transport' \in {"None", "Tcp", "Udp", "Icmp", "LaterFragment", "Other"}
               /\ app' \in {"None", "Dns", "DnsError"}
               /\ refused' \in {"no", "Link", "Ipv4", "Ipv6", "Tcp", "Udp", "Icmp"}
  BY <1>2 DEF ParserTypeOK
<1>4. ASSUME NEW layer \in {"Link", "Ipv4", "Ipv6", "Tcp", "Udp", "Icmp"}, Refuse(layer)
      PROVE  /\ phase' = "parsed" /\ UNCHANGED <<tags, exts, ip, frag, transport, app>>
             /\ refused' \in {"no", "Link", "Ipv4", "Ipv6", "Tcp", "Udp", "Icmp"}
  BY <1>4 DEF Refuse
<1>5. ASSUME NEW t \in {"Tcp", "Udp", "Icmp", "LaterFragment", "Other"}, NEW n, Transport(t, n)
      PROVE  /\ phase' = "parsed" /\ UNCHANGED <<tags, exts, ip, frag, app, refused>>
             /\ transport' \in {"None", "Tcp", "Udp", "Icmp", "LaterFragment", "Other"}
  BY <1>5 DEF Transport, Read
<1>6. CASE LinkHeader
  BY <1>1, <1>4, <1>6 DEF LinkHeader, Read, result
<1>7. CASE VlanTag
  BY <1>1, <1>4, <1>7 DEF VlanTag, Read, result
<1>8. CASE NetworkLayer
  <2>1. frame.ethertype \in {"ipv4", "ipv6", "other"}
    BY <1>1 DEF FrameType
  <2>2. phase' \in {"ipv4", "ipv6", "parsed"}
    BY <1>8, <2>1 DEF NetworkLayer
  <2>. QED BY <1>1, <1>8, <2>2 DEF NetworkLayer, result
<1>9. CASE UnknownVersion \/ TooManyExtensions
  BY <1>1, <1>4, <1>9 DEF UnknownVersion, TooManyExtensions
<1>10. CASE Ipv4
  <2>1. frame.offset \in Nat /\ frame.more \in BOOLEAN
    BY <1>1 DEF FrameType
  <2>. QED BY <1>1, <1>4, <1>10, <2>1 DEF Ipv4, Read
<1>11. CASE Ipv6
  BY <1>1, <1>4, <1>11 DEF Ipv6, Read, result
<1>12. CASE ExtensionHeader
  <2>1. exts < Len(frame.exts)
    BY <1>12 DEF ExtensionHeader
  <2>2. exts + 1 \in 1..Len(frame.exts) /\ frame.exts \in Seq(Extension)
    <3>1. frame.exts \in Seq(Extension)
      BY <1>1 DEF FrameType
    <3>2. Len(frame.exts) \in Nat
      BY <3>1, LenProperties
    <3>. QED BY <1>1, <2>1, <3>1, <3>2
  <2>3. frame.exts[exts + 1] \in Extension
    BY <2>2, ElementOfSeq
  <2>4. frame.exts[exts + 1].offset \in Nat /\ frame.exts[exts + 1].more \in BOOLEAN
    BY <2>3 DEF Extension
  <2>5. CASE Refuse("Ipv6")
    BY <1>1, <1>4, <2>5
  <2>6. CASE ~Refuse("Ipv6")
    <3>1. /\ phase' = "ext" /\ exts' = exts + 1 /\ UNCHANGED <<tags, ip, transport, app, refused>>
          /\ \/ frag' = frag
             \/ frag' = [offset |-> frame.exts[exts + 1].offset, more |-> frame.exts[exts + 1].more]
      BY <1>12, <2>6 DEF ExtensionHeader, Read
    <3>. QED BY <1>1, <2>4, <3>1
  <2>. QED BY <2>5, <2>6
<1>13. CASE LastExtension
  BY <1>1, <1>13 DEF LastExtension
<1>14. CASE LaterFragment \/ Tcp \/ Icmp \/ Other
  BY <1>1, <1>4, <1>5, <1>14 DEF LaterFragment, Tcp, Icmp, Other
<1>15. CASE Udp
  BY <1>1, <1>4, <1>5, <1>15 DEF Udp, Read
<1>16. CASE DnsStep
  BY <1>1, <1>16 DEF DnsStep, result, ParserTypeOK
<1>17. CASE DnsReturns
  BY <1>1, <1>17 DEF DnsReturns
<1>. QED BY <1>6, <1>7, <1>8, <1>9, <1>10, <1>11, <1>12, <1>13, <1>14, <1>15, <1>16, <1>17 DEF ParseNext

\* Every variable of a replay keeps its type, for any files.
THEOREM TypeCorrect == Spec => []TypeOK
<1>. DEFINE Rest == /\ ParserTypeOK
                    /\ swapped \in BOOLEAN /\ nanos \in BOOLEAN /\ outcome \in {"none", "ok", "error"}
                    /\ origin \in Scenario \cup {"capture"}
<1>1. Init => Rest
  <2>. SUFFICES ASSUME Init PROVE Rest
    OBVIOUS
  <2>1. ParserTypeOK
    <3>1. IcmpEcho \in FrameType
      BY FrameTypes DEF IcmpEcho
    <3>. QED BY <3>1 DEF Init, ParserIdle, ParserTypeOK, LinkType
  <2>. QED BY <2>1 DEF Init, PcapInit
<1>2. IInv /\ IInv' /\ Rest /\ [Next]_vars => Rest'
  <2>. SUFFICES ASSUME IInv, IInv', Rest, [Next]_vars PROVE Rest'
    OBVIOUS
  <2>0. BoundsInv' /\ link' \in LinkType
    BY DEF IInv, BoundsInv
  <2>1. ASSUME Unparsed PROVE ParserTypeOK'
    BY <2>0, <2>1 DEF Unparsed, slice, result, ParserTypeOK
  <2>2. CASE Reader
    <3>1. /\ swapped' \in BOOLEAN /\ nanos' \in BOOLEAN /\ outcome' \in {"none", "ok", "error"}
      BY <2>2 DEF Reader, Open, ReadHeader, ReadFails, Fails
    <3>. QED BY <2>1, <2>2, <3>1 DEF Reader, Uncounted
  <2>3. CASE NextRecord
    <3>1. swapped' = swapped /\ nanos' = nanos /\ origin' = origin /\ outcome' \in {"none", "ok", "error"}
      BY <2>3 DEF NextRecord, Data, Fails
    <3>2. ASSUME NEW f, ParseBegin(f) PROVE ParserTypeOK'
      <4>1. frame' \in FrameType /\ limit' \in Nat
        BY <2>0 DEF BoundsInv, SliceInv
      <4>. QED BY <2>0, <3>2, <4>1 DEF ParseBegin, ParserTypeOK
    <3>. QED BY <2>1, <2>3, <3>1, <3>2 DEF NextRecord
  <2>4. CASE Parse
    BY <2>0, <2>4, ParserTypes DEF Parse, pcapVars, Uncounted
  <2>5. CASE Count
    BY <2>5 DEF Count, slice, result, ParserTypeOK
  <2>6. CASE UNCHANGED vars
    BY <2>6 DEF vars, parserVars, pcapVars, slice, result, ParserTypeOK
  <2>. QED BY <2>2, <2>3, <2>4, <2>5, <2>6 DEF Next
<1>3. IInv /\ Rest => TypeOK
  BY DEF IInv, FileInv, Position, Delivered, Sums, WalkInv, PcapTypeOK, TypeOK
<1>. QED BY <1>1, <1>2, <1>3, Inductive, PTL DEF Spec

-----------------------------------------------------------------------------
(* Where a name ends.                                                       *)

\* A function on 0..n may be defined from each value to the ones before it.
LEMMA Backwards ==
    ASSUME NEW n \in Nat, NEW A \in [0..n -> Int], NEW J \in [0..n -> Nat]
    PROVE  \E e \in [0..n -> Int] :
              \A p \in 0..n : e[p] = IF p < J[p] /\ J[p] <= n THEN e[J[p]] ELSE A[p]
<1>. DEFINE body(e, p) == IF p < J[p] /\ J[p] <= n THEN e[J[p]] ELSE A[p]
            Def(k) == \E e \in [0..n -> Int] : \A p \in 0..n : n <= p + k => e[p] = body(e, p)
            Bad == {k \in 0..n : ~Def(k)}
<1>1. ASSUME Bad # {} PROVE FALSE
  <2>1. PICK k \in Bad : \A j \in Bad : k <= j
    <3>1. Bad \subseteq Nat
      OBVIOUS
    <3>. HIDE DEF Bad
    <3>. QED BY <1>1, <3>1, Least
  <2>2. CASE k = 0
    <3>1. \A p \in 0..n : n <= p + 0 => body(A, p) = A[p] /\ p = n
      OBVIOUS
    <3>2. Def(0)
      BY <3>1
    <3>. QED BY <2>1, <2>2, <3>2
  <2>3. CASE k # 0
    <3>1. k - 1 \in 0..n /\ k - 1 < k /\ n - k \in 0..n
      BY <2>3
    <3>2. Def(k - 1)
      <4>. k \in 0..n /\ k - 1 < k
        BY <2>1, <3>1
      <4>1. k - 1 \notin Bad
        <5>. HIDE DEF Bad
        <5>. QED BY <2>1, <3>1
      <4>. HIDE DEF Def
      <4>. QED BY <3>1, <4>1
    <3>3. PICK d \in [0..n -> Int] : \A p \in 0..n : n <= p + (k - 1) => d[p] = body(d, p)
      BY <3>2
    <3>. DEFINE o == n - k
                e == [d EXCEPT ![o] = body(d, o)]
    <3>4. body(d, o) \in Int
      BY <3>1
    <3>5. e \in [0..n -> Int] /\ e[o] = body(d, o) /\ \A p \in 0..n : p # o => e[p] = d[p]
      BY <3>1, <3>4
    <3>6. \A p \in 0..n : o <= p => body(e, p) = body(d, p)
      <4>1. ASSUME NEW p \in 0..n, o <= p, p < J[p], J[p] <= n PROVE e[J[p]] = d[J[p]]
        <5>1. J[p] \in 0..n /\ J[p] # o
          BY <3>1, <4>1
        <5>. HIDE DEF e
        <5>. QED BY <3>5, <5>1
      <4>. HIDE DEF e, o
      <4>. QED BY <4>1
    <3>7. ASSUME NEW p \in 0..n, n <= p + k PROVE e[p] = body(e, p)
      <4>1. o <= p /\ (p # o => n <= p + (k - 1))
        BY <3>1, <3>7
      <4>. HIDE DEF e, o, body
      <4>. QED BY <3>3, <3>5, <3>6, <4>1
    <3>8. Def(k)
      <4>. HIDE DEF e, body
      <4>. QED BY <3>5, <3>7
    <3>. QED BY <2>1, <3>8
  <2>. QED BY <2>2, <2>3
<1>2. Def(n)
  <2>1. n \in 0..n
    OBVIOUS
  <2>. QED BY <1>1, <2>1
<1>3. \A p \in 0..n : n <= p + n
  OBVIOUS
<1>. QED BY <1>2, <1>3

\* The end of a name that starts at p, as SkipName has it for the first one.
Skip(p) ==
    LET skip[q \in 0..Len(msg)] ==
            IF q = Len(msg) \/ Kind(At(q)) \notin {LABEL_LITERAL, LABEL_POINTER} THEN None
            ELSE IF Kind(At(q)) = LABEL_POINTER THEN q + 2
            ELSE IF At(q) = 0 THEN q + 1
            ELSE IF Holding(q + 1 + At(q)) THEN skip[q + 1 + At(q)]
            ELSE None
    IN  skip[p]

\* A reader that follows no pointer goes from label to label.
LEMMA SkipIs ==
    ASSUME msg \in Seq(Byte), NEW p \in 0..Len(msg)
    PROVE  Skip(p) = IF p = Len(msg) \/ Kind(At(p)) \notin {LABEL_LITERAL, LABEL_POINTER} THEN None
                     ELSE IF Kind(At(p)) = LABEL_POINTER THEN p + 2
                     ELSE IF At(p) = 0 THEN p + 1
                     ELSE IF Holding(p + 1 + At(p)) THEN Skip(p + 1 + At(p))
                     ELSE None
<1>. DEFINE n == Len(msg)
            stop(q) == q = n \/ Kind(At(q)) \notin {LABEL_LITERAL, LABEL_POINTER}
            g(x) == [q \in 0..Len(msg) |->
                       IF q = Len(msg) \/ Kind(At(q)) \notin {LABEL_LITERAL, LABEL_POINTER} THEN None
                       ELSE IF Kind(At(q)) = LABEL_POINTER THEN q + 2
                       ELSE IF At(q) = 0 THEN q + 1
                       ELSE IF Holding(q + 1 + At(q)) THEN x[q + 1 + At(q)]
                       ELSE None]
            skip == CHOOSE x : x = g(x)
            goes(q) == ~stop(q) /\ Kind(At(q)) # LABEL_POINTER /\ At(q) # 0
            A == [q \in 0..n |-> IF stop(q) \/ goes(q) THEN None
                                 ELSE IF Kind(At(q)) = LABEL_POINTER THEN q + 2 ELSE q + 1]
            J == [q \in 0..n |-> IF goes(q) THEN q + 1 + At(q) ELSE 0]
<1>1. n \in Nat /\ None \in Int
  BY LenProperties DEF None
<1>2. \A q \in 0..n : goes(q) => At(q) \in Nat
  <2>1. ASSUME NEW q \in 0..n, q # n PROVE At(q) \in Nat
    <3>1. q \in Nat /\ Holding(q + 1)
      BY <1>1, <2>1 DEF Holding
    <3>2. At(q) \in Byte
      BY <3>1, ByteRead
    <3>3. \A b \in Byte : b \in Nat
      BY DEF Byte
    <3>. QED BY <3>2, <3>3
  <2>. HIDE DEF n
  <2>. QED BY <2>1
<1>3. A \in [0..n -> Int] /\ J \in [0..n -> Nat]
  <2>. HIDE DEF n, goes, stop
  <2>. QED BY <1>1, <1>2
<1>4. PICK e \in [0..n -> Int] :
         \A q \in 0..n : e[q] = IF q < J[q] /\ J[q] <= n THEN e[J[q]] ELSE A[q]
  <2>. HIDE DEF n, A, J
  <2>. QED BY <1>1, <1>3, Backwards
<1>5. ASSUME NEW q \in 0..n PROVE e[q] = g(e)[q]
  <2>1. CASE stop(q)
    <3>1. A[q] = None /\ J[q] = 0
      BY <2>1
    <3>2. g(e)[q] = None
      BY <2>1
    <3>. HIDE DEF A, J, g, n
    <3>. QED BY <1>1, <1>4, <3>1, <3>2
  <2>2. CASE ~stop(q) /\ ~goes(q)
    <3>1. A[q] = (IF Kind(At(q)) = LABEL_POINTER THEN q + 2 ELSE q + 1) /\ J[q] = 0
      BY <2>2
    <3>2. g(e)[q] = IF Kind(At(q)) = LABEL_POINTER THEN q + 2 ELSE q + 1
      BY <2>2
    <3>. HIDE DEF A, J, g, n
    <3>. QED BY <1>1, <1>4, <3>1, <3>2
  <2>3. CASE goes(q)
    <3>1. A[q] = None /\ J[q] = q + 1 + At(q) /\ At(q) \in Nat
      BY <1>2, <2>3
    <3>2. g(e)[q] = IF Holding(q + 1 + At(q)) THEN e[q + 1 + At(q)] ELSE None
      BY <2>3
    <3>3. Holding(q + 1 + At(q)) <=> q + 1 + At(q) <= n
      BY <1>1, <3>1 DEF Holding
    <3>4. q < q + 1 + At(q)
      BY <3>1
    <3>. HIDE DEF A, J, g, n
    <3>. QED BY <1>4, <3>1, <3>2, <3>3, <3>4
  <2>. QED BY <2>1, <2>2, <2>3
<1>6. e = g(e)
  <2>1. DOMAIN g(e) = 0..n
    OBVIOUS
  <2>2. g(e) = [q \in 0..n |-> g(e)[q]]
    OBVIOUS
  <2>. HIDE DEF g, n, A, J
  <2>. QED BY <1>4, <1>5, <2>2
<1>7. skip = g(skip)
  BY <1>6
<1>8. \A q : Skip(q) = skip[q]
  BY DEF Skip
<1>. HIDE DEF skip
<1>9. skip[p] = g(skip)[p]
  BY <1>7
<1>. QED BY <1>8, <1>9

\* Where the walk is on its way to the end of the name.
Placed ==
    /\ walk = "header" => pos = HeaderLen /\ resume = None
    /\ walk = "name" => IF resume = None THEN pos <= Len(msg) /\ SkipName = Skip(pos)
                        ELSE SkipName = resume
    /\ walk = "question" => pos = SkipName
    /\ QuestionPlaced

\* A name that is not cut off before its first byte starts behind the header.
LEMMA SkipStart == SkipName = Skip(HeaderLen)
  BY DEF SkipName, Skip

LEMMA PlacedNext == WalkInv /\ Placed /\ [DnsNext]_dnsVars => Placed'
<1>. SUFFICES ASSUME WalkInv, Placed, [DnsNext]_dnsVars PROVE Placed'
  OBVIOUS
<1>0. /\ msg \in Seq(Byte) /\ Len(msg) \in Nat /\ pos \in Nat /\ resume \in Nat \cup {None}
      /\ None = -1 /\ HeaderLen = 12
  BY LenProperties DEF WalkInv, DnsTypeOK, None, HeaderLen
<1>1. ASSUME msg' = msg PROVE SkipName' = SkipName /\ (\A p : Skip(p)' = Skip(p)) /\ QuestionCount' = QuestionCount
  BY <1>1 DEF SkipName, Skip, At, Kind, Holding, QuestionCount, be16, None
<1>2. CASE Reject
  BY <1>2 DEF Reject, Placed, QuestionPlaced
<1>3. CASE DnsHeader
  <2>1. CASE Holding(HeaderLen) /\ UNCHANGED <<msg, pos, resume>> /\ walk = "header"
             /\ walk' = IF QuestionCount = 0 THEN "ok" ELSE "name"
    BY <1>0, <1>1, <2>1, SkipStart DEF Placed, QuestionPlaced, Holding
  <2>. QED BY <1>2, <1>3, <2>1 DEF DnsHeader
<1>4. CASE Root
  <2>1. /\ walk = "name" /\ Holding(pos + 1) /\ Kind(At(pos)) = LABEL_LITERAL /\ At(pos) = 0
        /\ walk' = "question" /\ pos' = NameEnd /\ msg' = msg
    BY <1>4 DEF Root, Reading
  <2>2. resume = None => Skip(pos) = pos + 1
    <3>1. pos \in 0..Len(msg) /\ pos # Len(msg)
      BY <1>0, <2>1 DEF Holding
    <3>. QED BY <1>0, <2>1, <3>1, SkipIs DEF LABEL_LITERAL, LABEL_POINTER
  <2>3. pos' = SkipName
    BY <2>1, <2>2 DEF Placed, NameEnd
  <2>. QED BY <1>1, <2>1, <2>3 DEF Placed, QuestionPlaced
<1>5. CASE Label
  <2>1. CASE /\ walk = "name" /\ Holding(pos + 1) /\ Kind(At(pos)) = LABEL_LITERAL /\ At(pos) # 0
             /\ Holding(pos + 1 + At(pos)) /\ pos' = pos + 1 + At(pos) /\ UNCHANGED <<msg, walk, resume>>
    <3>1. pos \in 0..Len(msg) /\ pos # Len(msg)
      BY <1>0, <2>1 DEF Holding
    <3>2. Skip(pos) = Skip(pos')
      BY <1>0, <2>1, <3>1, SkipIs DEF LABEL_LITERAL, LABEL_POINTER
    <3>3. pos' <= Len(msg)
      <4>1. At(pos) \in Byte
        BY <1>0, <2>1, ByteRead
      <4>2. \A b \in Byte : b \in Nat
        BY DEF Byte
      <4>. QED BY <1>0, <2>1, <4>1, <4>2 DEF Holding
    <3>. QED BY <1>1, <2>1, <3>2, <3>3 DEF Placed, QuestionPlaced
  <2>. QED BY <1>2, <1>5, <2>1 DEF Label, Reading
<1>6. CASE Pointer
  <2>1. CASE /\ walk = "name" /\ Holding(pos + 1) /\ Kind(At(pos)) = LABEL_POINTER
             /\ resume' = FirstResume /\ UNCHANGED <<msg, walk>>
    <3>1. resume = None => Skip(pos) = pos + 2
      <4>1. pos \in 0..Len(msg) /\ pos # Len(msg)
        BY <1>0, <2>1 DEF Holding
      <4>. QED BY <1>0, <2>1, <4>1, SkipIs DEF LABEL_LITERAL, LABEL_POINTER
    <3>2. resume' # None /\ SkipName = resume'
      BY <1>0, <2>1, <3>1 DEF Placed, FirstResume
    <3>3. None' = None
      BY DEF None
    <3>. QED BY <1>1, <2>1, <3>2, <3>3 DEF Placed, QuestionPlaced
  <2>. QED BY <1>2, <1>6, <2>1 DEF Pointer, Reading
<1>7. CASE BadLabel
  BY <1>2, <1>7 DEF BadLabel
<1>8. CASE Question
  <2>1. CASE walk = "question" /\ Holding(pos + 2) /\ walk' = "ok" /\ UNCHANGED <<msg, pos, resume>>
    BY <1>1, <2>1 DEF Placed, QuestionPlaced, Holding
  <2>. QED BY <1>2, <1>8, <2>1 DEF Question
<1>9. CASE UNCHANGED dnsVars
  BY <1>1, <1>9 DEF dnsVars, Placed, QuestionPlaced, Holding
<1>. QED
  BY <1>3, <1>4, <1>5, <1>6, <1>7, <1>8, <1>9 DEF DnsNext

-----------------------------------------------------------------------------
(* What the headers of a frame mean.                                        *)

\* the length of the first n extension headers, as ExtsLen has it for all of them
Passed(f, n) == LET sum[i \in 0..Len(f.exts)] == IF i = 0 THEN 0 ELSE sum[i - 1] + f.exts[i].size
                IN  sum[n]

\* the last fragment header among the first n extension headers is of a later fragment
LaterAmong(f, n) ==
    \E i \in 1..n : /\ f.exts[i].kind = "fragment" /\ f.exts[i].offset # 0
                    /\ \A j \in 1..n : f.exts[j].kind = "fragment" => j <= i

TagsFit == link = "Ethernet" => frame.tags <= MaxTags

\* the header in front of the transport header is well formed
NetworkFits ==
    \/ Network(frame) = "ipv4" /\ frame.version = 4 /\ frame.ihl >= IPV4_HEADER_LEN /\ frame.ihl <= frame.total
    \/ Network(frame) = "ipv6" /\ frame.version = 6 /\ Len(frame.exts) < MaxExts

PacketLimit == Smaller(NetworkStart(frame) + PacketLen(frame), frame.len)

\* How far a parser has come in what the bytes mean.
Understands ==
    /\ phase \in {"link", "tag", "version", "ipv4", "ipv6", "ext", "l4"} =>
          transport = "None" /\ app = "None" /\ refused = "no"
    /\ phase \in {"link", "tag", "version", "ipv4", "ipv6"} =>
          limit = frame.len /\ exts = 0 /\ ip = "none" /\ frag.offset = 0
    /\ phase = "link" => offset = 0 /\ tags = 0
    /\ phase = "tag" =>
          /\ link = "Ethernet" /\ tags \in Nat /\ tags <= MaxTags /\ tags <= frame.tags
          /\ offset = ETH_HEADER_LEN + VLAN_TAG_LEN * tags
    /\ phase = "version" => link # "Ethernet" /\ offset = NetworkStart(frame)
    /\ phase \in {"ipv4", "ipv6"} => Network(frame) = phase /\ TagsFit /\ offset = NetworkStart(frame)
    /\ phase = "ext" =>
          /\ Network(frame) = "ipv6" /\ frame.version = 6 /\ TagsFit
          /\ exts <= Len(frame.exts) /\ exts <= MaxExts
          /\ offset = NetworkStart(frame) + IPV6_HEADER_LEN + Passed(frame, exts)
          /\ limit = PacketLimit /\ (Later <=> LaterAmong(frame, exts))
    /\ phase = "l4" =>
          /\ NetworkFits /\ TagsFit /\ offset = NetworkStart(frame) + NetworkLen(frame)
          /\ limit = PacketLimit /\ (Later <=> MeansLater(frame))
    /\ phase = "dns" =>
          /\ Network(frame) \in {"ipv4", "ipv6"} /\ WellFormed(frame) /\ Captured(frame)
          /\ Meaning(frame) = "Udp" /\ transport = "Udp" /\ app = "None" /\ refused = "no"
    /\ phase = "parsed" => HeadersAsMeant

\* The lengths of the extension headers add up one by one.
LEMMA PassedIs ==
    ASSUME NEW f \in FrameType
    PROVE  /\ Len(f.exts) \in Nat /\ ExtsLen(f) \in Nat
           /\ Passed(f, 0) = 0 /\ Passed(f, Len(f.exts)) = ExtsLen(f)
           /\ \A i \in 0..Len(f.exts) : Passed(f, i) \in Nat /\ Passed(f, i) <= ExtsLen(f)
           /\ \A i \in 1..Len(f.exts) :
                 f.exts[i] \in Extension /\ Passed(f, i) = Passed(f, i - 1) + f.exts[i].size
<1>. DEFINE n == Len(f.exts)
            d == [i \in 1..n |-> f.exts[i].size]
            g(x) == [i \in 0..Len(f.exts) |-> IF i = 0 THEN 0 ELSE x[i - 1] + f.exts[i].size]
            sum == CHOOSE x : x = g(x)
<1>1. n \in Nat /\ \A i \in 1..n : f.exts[i] \in Extension
  <2>1. f.exts \in Seq(Extension)
    BY DEF FrameType
  <2>. QED BY <2>1, LenProperties, ElementOfSeq
<1>2. d \in [1..n -> Nat] /\ \A i \in 1..n : d[i] = f.exts[i].size
  <2>1. \A x \in Extension : x.size \in Nat
    BY DEF Extension
  <2>. HIDE DEF n
  <2>. QED BY <1>1, <2>1
<1>. HIDE DEF d
<1>3. PICK e \in [0..n -> Nat] : e[0] = 0 /\ \A i \in 1..n : e[i] = e[i - 1] + d[i]
  <2>1. 0 \in Nat
    OBVIOUS
  <2>. HIDE DEF n
  <2>. QED BY <1>1, <1>2, <2>1, SumExists, Zenon
<1>4. e = g(e)
  BY <1>2, <1>3
<1>5. sum = g(sum)
  BY <1>4
<1>6. \A i : Passed(f, i) = sum[i]
  BY DEF Passed
<1>7. ExtsLen(f) = sum[n]
  BY DEF ExtsLen
<1>. HIDE DEF sum
<1>8. sum[0] = 0 /\ \A i \in 1..n : sum[i] = sum[i - 1] + d[i]
  <2>1. 0 \in 0..n /\ \A i \in 1..n : i \in 0..n /\ i # 0
    BY <1>1
  <2>. QED BY <1>2, <1>5, <2>1
<1>. HIDE DEF g, n
<1>9. \A i \in 0..n : sum[i] = e[i]
  <2>1. Alongside(sum, e, n)
    BY <1>3, <1>8 DEF Alongside
  <2>2. \A x : Alongside(x, e, n) => \A i \in 0..n : x[i] = e[i]
    BY <1>1, SameRecursion
  <2>. QED BY <2>1, <2>2
<1>10. \A i \in 0..n : e[i] <= e[n]
  <2>. DEFINE Bad == {k \in 0..n : ~(e[n - k] <= e[n])}
  <2>1. ASSUME Bad # {} PROVE FALSE
    <3>1. PICK k \in Bad : \A j \in Bad : k <= j
      <4>1. Bad \subseteq Nat
        OBVIOUS
      <4>. HIDE DEF Bad
      <4>. QED BY <2>1, <4>1, Least
    <3>2. k # 0 /\ k - 1 \in 0..n /\ k - 1 < k /\ n - k \in 0..n /\ n - k + 1 \in 1..n
          /\ n - (k - 1) = n - k + 1
      BY <1>1, <1>3, <3>1
    <3>3. e[n - (k - 1)] <= e[n]
      BY <3>1, <3>2
    <3>4. e[n - k + 1] = e[n - k] + d[n - k + 1]
      <4>1. n - k + 1 - 1 = n - k
        BY <1>1, <3>1
      <4>. QED BY <1>3, <3>2, <4>1
    <3>5. e[n - k] \in Nat /\ e[n] \in Nat /\ d[n - k + 1] \in Nat
      BY <1>1, <1>2, <1>3, <3>2
    <3>. QED BY <3>1, <3>2, <3>3, <3>4, <3>5
  <2>2. \A i \in 0..n : n - i \in 0..n /\ n - (n - i) = i
    BY <1>1
  <2>3. \A k \in 0..n : e[n - k] <= e[n]
    BY <2>1
  <2>4. ASSUME NEW i \in 0..n PROVE e[i] <= e[n]
    <3>1. e[n - (n - i)] <= e[n]
      BY <2>2, <2>3
    <3>. QED BY <2>2, <3>1
  <2>. QED BY <2>4
<1>11. \A i \in 0..n : e[i] \in Nat /\ e[n] \in Nat
  BY <1>1, <1>3
<1>12. 0 \in 0..n /\ n \in 0..n /\ \A i \in 1..n : i \in 0..n /\ i - 1 \in 0..n
  BY <1>1
<1>. QED BY <1>1, <1>2, <1>3, <1>6, <1>7, <1>8, <1>9, <1>10, <1>11, <1>12 DEF n

\* The lengths are numbers.
LEMMA LengthsType ==
    ASSUME frame \in FrameType, link \in LinkType
    PROVE  /\ NetworkStart(frame) \in Nat /\ NetworkLen(frame) \in Nat
           /\ PacketLen(frame) \in Nat /\ TransportLen(frame) \in Nat
           /\ frame.len \in Nat /\ frame.tags \in Nat /\ frame.total \in Nat
<1>1. /\ frame.len \in Nat /\ frame.tags \in Nat /\ frame.ihl \in Nat /\ frame.total \in Nat /\ frame.doff \in Nat
      /\ frame.proto \in {"tcp", "udp", "icmp", "icmpv6", "other"}
  BY DEF FrameType
<1>2. NetworkStart(frame) \in Nat
  BY <1>1 DEF NetworkStart, LinkType, ETH_HEADER_LEN, VLAN_TAG_LEN, NULL_HEADER_LEN
<1>3. NetworkLen(frame) \in Nat /\ PacketLen(frame) \in Nat
  BY <1>1, PassedIs DEF NetworkLen, PacketLen, IPV6_HEADER_LEN
<1>4. TransportLen(frame) \in Nat
  BY <1>1 DEF TransportLen, UDP_HEADER_LEN, ICMP_HEADER_LEN
<1>. QED BY <1>1, <1>2, <1>3, <1>4

\* A step that keeps the frame and its link type keeps what the frame means.
LEMMA MeaningKept ==
    ASSUME frame' = frame, link' = link
    PROVE  /\ Network(frame)' = Network(frame) /\ NetworkStart(frame)' = NetworkStart(frame)
           /\ NetworkLen(frame)' = NetworkLen(frame) /\ PacketLen(frame)' = PacketLen(frame)
           /\ MeansLater(frame)' = MeansLater(frame) /\ Meaning(frame)' = Meaning(frame)
           /\ WellFormed(frame)' = WellFormed(frame) /\ Captured(frame)' = Captured(frame)
           /\ TagsFit' = TagsFit /\ NetworkFits' = NetworkFits /\ PacketLimit' = PacketLimit
<1>1. Network(frame)' = Network(frame) /\ NetworkStart(frame)' = NetworkStart(frame)
  BY DEF Network, NetworkStart
<1>2. ExtsLen(frame)' = ExtsLen(frame)
  BY DEF ExtsLen
<1>3. NetworkLen(frame)' = NetworkLen(frame) /\ PacketLen(frame)' = PacketLen(frame)
  BY <1>1, <1>2 DEF NetworkLen, PacketLen
<1>4. MeansLater(frame)' = MeansLater(frame)
  BY <1>1, Zenon DEF MeansLater
<1>5. Meaning(frame)' = Meaning(frame) /\ TransportLen(frame)' = TransportLen(frame)
  <2>1. CASE MeansLater(frame)
    BY <1>4, <2>1 DEF Meaning, TransportLen
  <2>2. CASE ~MeansLater(frame)
    BY <1>4, <2>2 DEF Meaning, TransportLen, UDP_HEADER_LEN, ICMP_HEADER_LEN
  <2>. QED BY <2>1, <2>2
<1>6. WellFormed(frame)' = WellFormed(frame)
  BY <1>1, <1>3, <1>4, <1>5, Zenon DEF WellFormed
<1>7. Captured(frame)' = Captured(frame)
  BY <1>1, <1>3, <1>5 DEF Captured
<1>8. TagsFit' = TagsFit /\ NetworkFits' = NetworkFits /\ PacketLimit' = PacketLimit
  BY <1>1, <1>3, Zenon DEF TagsFit, NetworkFits, PacketLimit, Smaller
<1>. QED BY <1>1, <1>3, <1>4, <1>5, <1>6, <1>7, <1>8

-----------------------------------------------------------------------------
(* The parsers make of a frame what its headers mean.                       *)

Layers == {"Link", "Ipv4", "Ipv6", "Tcp", "Udp", "Icmp"}

\* A refusal is right when the frame is not well formed or was not captured to the end.
LEMMA RefusedAsMeant ==
    ASSUME NEW layer \in Layers, Refuse(layer), app = "None",
           Network(frame) = "other" =>
              /\ ip = "none" /\ transport = "None"
              /\ ~(frame.tags <= MaxTags /\ frame.len >= NetworkStart(frame)),
           Network(frame) # "other" => ~(WellFormed(frame) /\ Captured(frame))
    PROVE  Understands'
<1>1. /\ phase' = "parsed" /\ refused' = layer /\ frame' = frame /\ link' = link
      /\ ip' = ip /\ transport' = transport /\ app' = app /\ layer # "no"
  BY DEF Refuse, Layers
<1>2. HeadersAsMeant'
  BY <1>1, MeaningKept DEF HeadersAsMeant
<1>. QED BY <1>1, <1>2 DEF Understands

\* Bytes of the headers that are missing in the capture, or behind the end the packet
\* declares, make a frame that is not well formed or not captured to the end.
LEMMA CutShort ==
    ASSUME frame \in FrameType, link \in LinkType, NEW k \in Nat,
           WellFormed(frame) => k <= NetworkLen(frame) + TransportLen(frame),
           NEW end, end = frame.len \/ end = PacketLimit, ~(NetworkStart(frame) + k <= end)
    PROVE  ~(WellFormed(frame) /\ Captured(frame))
<1>. SUFFICES ASSUME WellFormed(frame), Captured(frame) PROVE NetworkStart(frame) + k <= end
  OBVIOUS
<1>1. /\ NetworkStart(frame) \in Nat /\ NetworkLen(frame) \in Nat
      /\ PacketLen(frame) \in Nat /\ TransportLen(frame) \in Nat /\ frame.len \in Nat
  BY LengthsType
<1>2. NetworkLen(frame) + TransportLen(frame) <= PacketLen(frame)
  BY DEF WellFormed
<1>3. frame.len >= NetworkStart(frame) + NetworkLen(frame) + TransportLen(frame)
  BY DEF Captured
<1>4. k <= NetworkLen(frame) + TransportLen(frame)
  OBVIOUS
<1>5. \A s, n, t, p, l \in Nat : k <= n + t /\ n + t <= p /\ l >= s + n + t =>
         s + k <= l /\ s + k <= s + p
  OBVIOUS
<1>6. NetworkStart(frame) + k <= frame.len /\ NetworkStart(frame) + k <= NetworkStart(frame) + PacketLen(frame)
  BY <1>1, <1>2, <1>3, <1>4, <1>5
<1>. QED BY <1>6 DEF PacketLimit, Smaller

\* What lies in front of the network header is a part of every frame.
LEMMA NoNetwork ==
    ASSUME frame \in FrameType, link \in LinkType, ~(NetworkStart(frame) <= frame.len)
    PROVE  /\ ~(WellFormed(frame) /\ Captured(frame))
           /\ ~(frame.tags <= MaxTags /\ frame.len >= NetworkStart(frame))
<1>1. NetworkStart(frame) \in Nat /\ NetworkLen(frame) + TransportLen(frame) \in Nat /\ frame.len \in Nat
  BY LengthsType
<1>. QED BY <1>1, CutShort

\* The link header.
LEMMA LinkMeans == ASSUME BoundsInv, Understands, LinkHeader PROVE Understands'
<1>. DEFINE n == CASE link = "Ethernet" -> ETH_HEADER_LEN
                  [] link = "Null" -> NULL_HEADER_LEN
                  [] link = "Raw" -> 0
<1>1. frame \in FrameType /\ link \in LinkType /\ frame.len \in Nat /\ frame.tags \in Nat
  BY DEF BoundsInv, SliceInv, FrameType
<1>2. /\ n \in Nat /\ n <= NetworkStart(frame) /\ NetworkStart(frame) \in Nat
      /\ link # "Ethernet" => n = NetworkStart(frame)
      /\ link = "Ethernet" => n = ETH_HEADER_LEN + VLAN_TAG_LEN * 0
  BY <1>1 DEF NetworkStart, LinkType, ETH_HEADER_LEN, NULL_HEADER_LEN, VLAN_TAG_LEN
<1>3. /\ phase = "link" /\ offset = 0 /\ limit = frame.len /\ tags = 0 /\ exts = 0 /\ ip = "none"
      /\ frag.offset = 0 /\ transport = "None" /\ app = "None" /\ refused = "no"
  BY DEF LinkHeader, Understands
<1>4. \/ ~Holds(n) /\ Refuse("Link")
      \/ /\ Holds(n) /\ Read(n, IF link = "Ethernet" THEN "tag" ELSE "version")
         /\ UNCHANGED <<link, frame, limit, tags, exts, result, dnsVars>>
  BY DEF LinkHeader
<1>. HIDE DEF n
<1>5. CASE ~Holds(n) /\ Refuse("Link")
  <2>1. ~(NetworkStart(frame) <= frame.len)
    BY <1>1, <1>2, <1>3, <1>5 DEF Holds
  <2>. QED BY <1>1, <1>3, <1>5, <2>1, NoNetwork, RefusedAsMeant DEF Layers
<1>6. CASE /\ Read(n, IF link = "Ethernet" THEN "tag" ELSE "version")
           /\ UNCHANGED <<link, frame, limit, tags, exts, result, dnsVars>>
  <2>1. /\ phase' = (IF link = "Ethernet" THEN "tag" ELSE "version") /\ offset' = n
        /\ link' = link /\ frame' = frame /\ limit' = limit /\ tags' = tags /\ exts' = exts
        /\ ip' = ip /\ frag' = frag /\ transport' = transport /\ app' = app /\ refused' = refused
    BY <1>2, <1>3, <1>6 DEF Read, result
  <2>2. NetworkStart(frame)' = NetworkStart(frame)
    BY <2>1, MeaningKept
  <2>3. 0 <= MaxTags /\ 0 <= frame.tags
    BY <1>1, ParserAssumption
  <2>. QED BY <1>2, <1>3, <2>1, <2>2, <2>3 DEF Understands, ETH_HEADER_LEN, VLAN_TAG_LEN
<1>. QED BY <1>4, <1>5, <1>6

\* A VLAN tag.
LEMMA TagMeans == ASSUME BoundsInv, Understands, VlanTag PROVE Understands'
<1>1. /\ frame \in FrameType /\ link \in LinkType /\ frame.len \in Nat /\ frame.tags \in Nat
      /\ MaxTags \in Nat
  BY ParserAssumption DEF BoundsInv, SliceInv, FrameType
<1>2. /\ phase = "tag" /\ link = "Ethernet" /\ tags \in Nat /\ tags <= MaxTags /\ tags < frame.tags
      /\ offset = ETH_HEADER_LEN + VLAN_TAG_LEN * tags
      /\ limit = frame.len /\ exts = 0 /\ ip = "none"
      /\ frag.offset = 0 /\ transport = "None" /\ app = "None" /\ refused = "no"
  BY DEF VlanTag, Understands
<1>3. NetworkStart(frame) = ETH_HEADER_LEN + VLAN_TAG_LEN * frame.tags
  BY <1>2 DEF NetworkStart
<1>4. CASE tags = MaxTags /\ Refuse("Link")
  <2>1. ~(frame.tags <= MaxTags)
    BY <1>1, <1>2, <1>4
  <2>. QED BY <1>1, <1>2, <1>4, <2>1, RefusedAsMeant DEF Layers, WellFormed
<1>5. CASE ~Holds(VLAN_TAG_LEN) /\ Refuse("Link")
  <2>1. ~(NetworkStart(frame) <= frame.len)
    BY <1>1, <1>2, <1>3, <1>5 DEF Holds, ETH_HEADER_LEN, VLAN_TAG_LEN
  <2>. QED BY <1>1, <1>2, <1>5, <2>1, NoNetwork, RefusedAsMeant DEF Layers
<1>6. CASE /\ tags < MaxTags /\ Read(VLAN_TAG_LEN, "tag") /\ tags' = tags + 1
           /\ UNCHANGED <<link, frame, limit, exts, result, dnsVars>>
  <2>1. /\ phase' = "tag" /\ offset' = offset + VLAN_TAG_LEN
        /\ link' = link /\ frame' = frame /\ limit' = limit /\ exts' = exts
        /\ ip' = ip /\ frag' = frag /\ transport' = transport /\ app' = app /\ refused' = refused
    BY <1>6 DEF Read, result
  <2>2. tags' \in Nat /\ tags' <= MaxTags /\ tags' <= frame.tags
    BY <1>1, <1>2, <1>6
  <2>3. offset' = ETH_HEADER_LEN + VLAN_TAG_LEN * tags'
    BY <1>2, <1>6, <2>1 DEF ETH_HEADER_LEN, VLAN_TAG_LEN
  <2>. QED BY <1>2, <2>1, <2>2, <2>3 DEF Understands, ETH_HEADER_LEN, VLAN_TAG_LEN
<1>. QED BY <1>4, <1>5, <1>6 DEF VlanTag

\* The ethertype or the version says what the network header is.
LEMMA NetworkMeans == ASSUME BoundsInv, Understands, NetworkLayer PROVE Understands'
<1>1. /\ frame \in FrameType /\ link \in LinkType /\ frame.len \in Nat /\ frame.tags \in Nat
      /\ frame.ethertype \in {"ipv4", "ipv6", "other"} /\ offset <= limit
  BY DEF BoundsInv, SliceInv, FrameType, InBounds
<1>2. /\ limit = frame.len /\ exts = 0 /\ ip = "none"
      /\ frag.offset = 0 /\ transport = "None" /\ app = "None" /\ refused = "no"
  BY DEF NetworkLayer, Understands
<1>3. /\ link' = link /\ frame' = frame /\ offset' = offset /\ limit' = limit /\ tags' = tags /\ exts' = exts
      /\ ip' = ip /\ frag' = frag /\ transport' = transport /\ app' = app /\ refused' = refused
  BY DEF NetworkLayer, result, slice
<1>4. CASE phase = "tag"
  <2>1. /\ link = "Ethernet" /\ tags = frame.tags /\ frame.tags <= MaxTags
        /\ offset = NetworkStart(frame) /\ Network(frame) = frame.ethertype /\ TagsFit
    BY <1>4 DEF NetworkLayer, Understands, NetworkStart, Network, TagsFit
  <2>2. CASE frame.ethertype = "other"
    <3>1. phase' = "parsed"
      BY <1>4, <2>2 DEF NetworkLayer
    <3>2. HeadersAsMeant'
      BY <1>1, <1>2, <1>3, <2>1, <2>2, MeaningKept DEF HeadersAsMeant
    <3>. QED BY <3>1, <3>2 DEF Understands
  <2>3. CASE frame.ethertype # "other"
    <3>1. phase' = frame.ethertype /\ frame.ethertype \in {"ipv4", "ipv6"}
      BY <1>1, <1>4, <2>3 DEF NetworkLayer
    <3>. QED BY <1>2, <1>3, <2>1, <3>1, MeaningKept DEF Understands
  <2>. QED BY <2>2, <2>3
<1>5. CASE phase = "version"
  <2>1. /\ link # "Ethernet" /\ offset = NetworkStart(frame) /\ TagsFit
        /\ frame.version \in {4, 6}
    BY <1>5 DEF NetworkLayer, Understands, TagsFit
  <2>2. phase' = (IF frame.version = 4 THEN "ipv4" ELSE "ipv6")
    BY <1>5 DEF NetworkLayer
  <2>3. Network(frame) = phase' /\ phase' \in {"ipv4", "ipv6"}
    BY <2>1, <2>2 DEF Network
  <2>. QED BY <1>2, <1>3, <2>1, <2>3, MeaningKept DEF Understands
<1>. QED BY <1>4, <1>5 DEF NetworkLayer

\* A packet whose version is unknown, or missing, is none.
LEMMA VersionMeans == ASSUME BoundsInv, Understands, UnknownVersion PROVE Understands'
<1>1. /\ frame \in FrameType /\ link \in LinkType /\ frame.len \in Nat /\ frame.version \in Nat
      /\ frame.ihl \in Nat
  BY DEF BoundsInv, SliceInv, FrameType
<1>2. /\ link # "Ethernet" /\ offset = NetworkStart(frame) /\ limit = frame.len /\ app = "None"
      /\ Refuse("Link")
  BY DEF UnknownVersion, Understands
<1>3. Network(frame) # "other"
  BY <1>2 DEF Network
<1>4. ~(WellFormed(frame) /\ Captured(frame))
  <2>1. CASE frame.version \notin {4, 6}
    BY <2>1 DEF WellFormed
  <2>2. CASE ~Holds(1)
    <3>1. ~(NetworkStart(frame) + 1 <= frame.len)
      BY <1>2, <2>2 DEF Holds
    <3>2. WellFormed(frame) => 1 <= NetworkLen(frame) + TransportLen(frame)
      <4>1. TransportLen(frame) \in Nat /\ ExtsLen(frame) \in Nat
        BY <1>1, LengthsType, PassedIs
      <4>2. CASE Network(frame) = "ipv4"
        BY <1>1, <4>1, <4>2 DEF WellFormed, NetworkLen, IPV4_HEADER_LEN
      <4>3. CASE Network(frame) # "ipv4"
        BY <1>1, <4>1, <4>3 DEF WellFormed, NetworkLen, IPV6_HEADER_LEN
      <4>. QED BY <4>2, <4>3
    <3>. QED BY <1>1, <3>1, <3>2, CutShort
  <2>. QED BY <2>1, <2>2 DEF UnknownVersion
<1>. QED BY <1>2, <1>3, <1>4, RefusedAsMeant DEF Layers

\* The IPv4 header.
LEMMA Ipv4Means == ASSUME BoundsInv, Understands, Ipv4 PROVE Understands'
<1>1. /\ frame \in FrameType /\ link \in LinkType /\ frame.len \in Nat /\ frame.ihl \in Nat
      /\ frame.total \in Nat /\ frame.offset \in Nat /\ TransportLen(frame) \in Nat
  BY LengthsType DEF BoundsInv, SliceInv, FrameType
<1>2. /\ Network(frame) = "ipv4" /\ TagsFit /\ offset = NetworkStart(frame) /\ limit = frame.len
      /\ transport = "None" /\ app = "None" /\ refused = "no"
  BY DEF Ipv4, Understands
<1>3. /\ NetworkLen(frame) = frame.ihl /\ PacketLen(frame) = frame.total
      /\ MeansLater(frame) <=> frame.offset # 0
  BY <1>2 DEF NetworkLen, PacketLen, MeansLater
<1>4. CASE ~Ipv4Valid /\ Refuse("Ipv4")
  <2>1. ASSUME WellFormed(frame), Captured(frame) PROVE Ipv4Valid
    <3>1. frame.version = 4 /\ frame.ihl >= IPV4_HEADER_LEN
      BY <1>2, <2>1 DEF WellFormed
    <3>2. frame.total >= frame.ihl
      BY <1>1, <1>3, <2>1 DEF WellFormed
    <3>3. IPV4_HEADER_LEN \in Nat /\ IPV4_HEADER_LEN <= NetworkLen(frame) + TransportLen(frame)
          /\ frame.ihl <= NetworkLen(frame) + TransportLen(frame)
      BY <1>1, <1>3, <3>1 DEF IPV4_HEADER_LEN
    <3>4. Holds(IPV4_HEADER_LEN) /\ Holds(frame.ihl)
      BY <1>1, <1>2, <2>1, <3>3, CutShort DEF Holds
    <3>. QED BY <3>1, <3>2, <3>4 DEF Ipv4Valid
  <2>. QED BY <1>2, <1>4, <2>1, RefusedAsMeant DEF Layers
<1>5. CASE /\ Ipv4Valid /\ Read(frame.ihl, "l4") /\ limit' = PacketEnd(frame.total)
           /\ frag' = [offset |-> frame.offset, more |-> frame.more]
           /\ UNCHANGED <<link, frame, transport, app, refused>>
  <2>1. phase' = "l4" /\ offset' = NetworkStart(frame) + NetworkLen(frame)
    BY <1>2, <1>3, <1>5 DEF Read
  <2>2. NetworkFits
    BY <1>1, <1>2, <1>5 DEF NetworkFits, Ipv4Valid
  <2>3. limit' = PacketLimit
    BY <1>2, <1>3, <1>5 DEF PacketEnd, PacketLimit
  <2>4. Later' <=> MeansLater(frame)
    BY <1>3, <1>5 DEF Later
  <2>. QED BY <1>2, <1>5, <2>1, <2>2, <2>3, <2>4, MeaningKept DEF Understands
<1>. QED BY <1>4, <1>5 DEF Ipv4

\* The fixed IPv6 header.
LEMMA Ipv6Means == ASSUME BoundsInv, Understands, Ipv6 PROVE Understands'
<1>1. /\ frame \in FrameType /\ link \in LinkType /\ frame.len \in Nat /\ frame.total \in Nat
      /\ TransportLen(frame) \in Nat /\ NetworkStart(frame) \in Nat /\ ExtsLen(frame) \in Nat
      /\ Passed(frame, 0) = 0 /\ Len(frame.exts) \in Nat /\ MaxExts \in Nat
  BY LengthsType, PassedIs, ParserAssumption DEF BoundsInv, SliceInv, FrameType
<1>2. /\ Network(frame) = "ipv6" /\ TagsFit /\ offset = NetworkStart(frame) /\ limit = frame.len
      /\ exts = 0 /\ frag.offset = 0 /\ transport = "None" /\ app = "None" /\ refused = "no"
  BY DEF Ipv6, Understands
<1>3. /\ NetworkLen(frame) = IPV6_HEADER_LEN + ExtsLen(frame)
      /\ PacketLen(frame) = IPV6_HEADER_LEN + frame.total
  BY <1>2 DEF NetworkLen, PacketLen
<1>4. CASE ~(Holds(IPV6_HEADER_LEN) /\ frame.version = 6) /\ Refuse("Ipv6")
  <2>1. ASSUME WellFormed(frame), Captured(frame) PROVE Holds(IPV6_HEADER_LEN) /\ frame.version = 6
    <3>1. frame.version = 6
      BY <1>2, <2>1 DEF WellFormed
    <3>2. IPV6_HEADER_LEN \in Nat /\ IPV6_HEADER_LEN <= NetworkLen(frame) + TransportLen(frame)
      BY <1>1, <1>3 DEF IPV6_HEADER_LEN
    <3>. QED BY <1>1, <1>2, <2>1, <3>1, <3>2, CutShort DEF Holds
  <2>. QED BY <1>2, <1>4, <2>1, RefusedAsMeant DEF Layers
<1>5. CASE /\ frame.version = 6 /\ Read(IPV6_HEADER_LEN, "ext")
           /\ limit' = PacketEnd(IPV6_HEADER_LEN + frame.total)
           /\ UNCHANGED <<link, frame, tags, exts, result, dnsVars>>
  <2>1. /\ phase' = "ext" /\ offset' = NetworkStart(frame) + IPV6_HEADER_LEN /\ exts' = 0
        /\ link' = link /\ frame' = frame /\ frag' = frag
        /\ transport' = transport /\ app' = app /\ refused' = refused
    BY <1>2, <1>5 DEF Read, result
  <2>2. offset' = NetworkStart(frame) + IPV6_HEADER_LEN + Passed(frame, 0)
    BY <1>1, <2>1 DEF IPV6_HEADER_LEN
  <2>3. limit' = PacketLimit
    BY <1>2, <1>3, <1>5 DEF PacketEnd, PacketLimit
  <2>4. ~Later' /\ ~LaterAmong(frame, 0)'
    BY <1>2, <2>1 DEF Later, LaterAmong
  <2>5. Passed(frame, 0)' = Passed(frame, 0) /\ IPV6_HEADER_LEN' = IPV6_HEADER_LEN
    BY <2>1 DEF Passed, IPV6_HEADER_LEN
  <2>6. 0 <= Len(frame.exts) /\ 0 <= MaxExts
    BY <1>1
  <2>7. /\ Network(frame)' = "ipv6" /\ frame'.version = 6 /\ TagsFit'
        /\ exts' <= Len(frame'.exts) /\ exts' <= MaxExts
    BY <1>2, <1>5, <2>1, <2>6, MeaningKept
  <2>8. offset' = NetworkStart(frame)' + IPV6_HEADER_LEN + Passed(frame, exts)'
    <3>1. Passed(frame, exts)' = Passed(frame, 0)
      BY <2>1 DEF Passed
    <3>. QED BY <2>1, <2>2, <3>1, MeaningKept
  <2>9. limit' = PacketLimit' /\ ~LaterAmong(frame, exts)'
    <3>1. LaterAmong(frame, exts)' <=> LaterAmong(frame, 0)'
      BY <2>1 DEF LaterAmong
    <3>. QED BY <2>1, <2>3, <2>4, <3>1, MeaningKept
  <2>. QED BY <1>2, <2>1, <2>4, <2>7, <2>8, <2>9 DEF Understands
<1>. QED BY <1>4, <1>5 DEF Ipv6

\* One header more decides what the fragment is if it is a fragment header.
LEMMA OneMoreExtension ==
    ASSUME NEW f \in FrameType, NEW n \in Nat, n + 1 <= Len(f.exts)
    PROVE  LaterAmong(f, n + 1) <=> IF f.exts[n + 1].kind = "fragment" THEN f.exts[n + 1].offset # 0
                                    ELSE LaterAmong(f, n)
<1>1. \A i : i \in 1..n + 1 <=> i = n + 1 \/ i \in 1..n
  OBVIOUS
<1>2. \A i \in 1..n : ~(n + 1 <= i) /\ i <= n + 1
  OBVIOUS
<1>3. n + 1 <= n + 1
  OBVIOUS
<1>4. CASE f.exts[n + 1].kind = "fragment"
  <2>1. LaterAmong(f, n + 1) => f.exts[n + 1].offset # 0
    BY <1>1, <1>2, <1>4 DEF LaterAmong
  <2>2. f.exts[n + 1].offset # 0 => LaterAmong(f, n + 1)
    BY <1>1, <1>2, <1>3, <1>4 DEF LaterAmong
  <2>. QED BY <1>4, <2>1, <2>2
<1>5. CASE f.exts[n + 1].kind # "fragment"
  <2>1. LaterAmong(f, n + 1) => LaterAmong(f, n)
    BY <1>1, <1>5 DEF LaterAmong
  <2>2. LaterAmong(f, n) => LaterAmong(f, n + 1)
    BY <1>1, <1>5 DEF LaterAmong
  <2>. QED BY <1>5, <2>1, <2>2
<1>. QED BY <1>4, <1>5

\* An extension header.
LEMMA ExtensionMeans == ASSUME BoundsInv, Understands, ExtensionHeader PROVE Understands'
<1>. DEFINE e == frame.exts[exts + 1]
<1>1. /\ frame \in FrameType /\ link \in LinkType /\ frame.len \in Nat
      /\ TransportLen(frame) \in Nat /\ NetworkStart(frame) \in Nat /\ ExtsLen(frame) \in Nat
      /\ exts \in Nat /\ Len(frame.exts) \in Nat /\ MaxExts \in Nat
  BY LengthsType, PassedIs, ParserAssumption DEF BoundsInv, SliceInv, FrameType
<1>2. /\ Network(frame) = "ipv6" /\ frame.version = 6 /\ TagsFit
      /\ exts < Len(frame.exts) /\ exts < MaxExts
      /\ offset = NetworkStart(frame) + IPV6_HEADER_LEN + Passed(frame, exts)
      /\ limit = PacketLimit /\ (Later <=> LaterAmong(frame, exts))
      /\ transport = "None" /\ app = "None" /\ refused = "no"
  BY DEF ExtensionHeader, TurnsLeft, Understands
<1>3. NetworkLen(frame) = IPV6_HEADER_LEN + ExtsLen(frame)
  BY <1>2 DEF NetworkLen
<1>4. /\ e \in Extension /\ Passed(frame, exts) \in Nat /\ Passed(frame, exts + 1) \in Nat
      /\ Passed(frame, exts + 1) = Passed(frame, exts) + e.size
      /\ Passed(frame, exts + 1) <= ExtsLen(frame)
  <2>1. exts \in 0..Len(frame.exts) /\ exts + 1 \in 1..Len(frame.exts)
        /\ exts + 1 \in 0..Len(frame.exts) /\ exts + 1 - 1 = exts
    BY <1>1, <1>2
  <2>. QED BY <1>1, <2>1, PassedIs
<1>5. e.size \in Nat /\ Fixed(e) \in Nat /\ Fixed(e) <= e.size
  BY <1>4 DEF Extension, Fixed, FRAGMENT_HEADER_LEN
<1>6. \/ ~(Holds(Fixed(e)) /\ Holds(e.size)) /\ Refuse("Ipv6")
      \/ /\ Read(e.size, "ext") /\ exts' = exts + 1
         /\ frag' = IF e.kind = "fragment" THEN [offset |-> e.offset, more |-> e.more] ELSE frag
         /\ UNCHANGED <<link, frame, limit, tags, ip, transport, app, refused, dnsVars>>
  BY DEF ExtensionHeader
<1>. HIDE DEF e
<1>0. IPV6_HEADER_LEN \in Nat /\ \A a, b, c, d \in Nat :
         (a + b + c) + d = a + (b + (c + d)) /\ (a + b + c) + d = a + b + (c + d)
  BY DEF IPV6_HEADER_LEN
<1>7. CASE ~(Holds(Fixed(e)) /\ Holds(e.size)) /\ Refuse("Ipv6")
  <2>. DEFINE k == IPV6_HEADER_LEN + Passed(frame, exts + 1)
  <2>1. k \in Nat /\ k <= NetworkLen(frame) + TransportLen(frame)
    BY <1>1, <1>3, <1>4 DEF IPV6_HEADER_LEN
  <2>2. limit \in Nat /\ offset \in Nat /\ ~(offset + e.size <= limit)
    BY <1>5, <1>7 DEF Holds, BoundsInv, SliceInv
  <2>3. offset + e.size = NetworkStart(frame) + k
    <3>1. (NetworkStart(frame) + IPV6_HEADER_LEN + Passed(frame, exts)) + e.size
             = NetworkStart(frame) + (IPV6_HEADER_LEN + (Passed(frame, exts) + e.size))
      BY <1>0, <1>1, <1>4, <1>5
    <3>. QED BY <1>2, <1>4, <3>1
  <2>. HIDE DEF k
  <2>4. ~(WellFormed(frame) /\ Captured(frame))
    BY <1>1, <1>2, <2>1, <2>2, <2>3, CutShort
  <2>. QED BY <1>2, <1>7, <2>4, RefusedAsMeant DEF Layers
<1>8. CASE /\ Read(e.size, "ext") /\ exts' = exts + 1
           /\ frag' = IF e.kind = "fragment" THEN [offset |-> e.offset, more |-> e.more] ELSE frag
           /\ UNCHANGED <<link, frame, limit, tags, ip, transport, app, refused, dnsVars>>
  <2>1. /\ phase' = "ext" /\ offset' = offset + e.size /\ exts' = exts + 1 /\ limit' = limit
        /\ link' = link /\ frame' = frame
        /\ transport' = transport /\ app' = app /\ refused' = refused
    BY <1>8 DEF Read
  <2>2. offset' = NetworkStart(frame) + IPV6_HEADER_LEN + Passed(frame, exts + 1)
    BY <1>0, <1>1, <1>2, <1>4, <1>5, <2>1
  <2>3. Later' <=> LaterAmong(frame, exts + 1)
    <3>1. exts + 1 <= Len(frame.exts)
      BY <1>1, <1>2
    <3>2. LaterAmong(frame, exts + 1) <=> IF e.kind = "fragment" THEN e.offset # 0
                                          ELSE LaterAmong(frame, exts)
      BY <1>1, <3>1, OneMoreExtension DEF e
    <3>3. CASE e.kind = "fragment"
      BY <1>8, <3>2, <3>3 DEF Later
    <3>4. CASE e.kind # "fragment"
      <4>1. frag' = frag
        BY <1>8, <3>4
      <4>2. Later' <=> Later
        BY <4>1 DEF Later
      <4>. QED BY <1>2, <3>2, <3>4, <4>2
    <3>. QED BY <3>3, <3>4
  <2>4. Passed(frame, exts)' = Passed(frame, exts + 1)
    BY <2>1 DEF Passed
  <2>5. LaterAmong(frame, exts)' <=> LaterAmong(frame, exts + 1)
    BY <2>1 DEF LaterAmong
  <2>6. exts' <= Len(frame'.exts) /\ exts' <= MaxExts
    BY <1>1, <1>2, <2>1
  <2>7. /\ Network(frame)' = "ipv6" /\ frame'.version = 6 /\ TagsFit' /\ limit' = PacketLimit'
        /\ offset' = NetworkStart(frame)' + IPV6_HEADER_LEN + Passed(frame, exts)'
    BY <1>2, <2>1, <2>2, <2>4, MeaningKept
  <2>. QED BY <1>2, <2>1, <2>3, <2>5, <2>6, <2>7 DEF Understands
<1>. QED BY <1>6, <1>7, <1>8

\* More extension headers than the loop has turns for.
LEMMA TooManyMeans == ASSUME BoundsInv, Understands, TooManyExtensions PROVE Understands'
<1>1. exts \in Nat /\ Len(frame.exts) \in Nat /\ MaxExts \in Nat
  BY PassedIs, ParserAssumption DEF BoundsInv, SliceInv
<1>2. /\ Network(frame) = "ipv6" /\ exts <= Len(frame.exts) /\ ~(exts < MaxExts) /\ app = "None"
      /\ Refuse("Ipv6")
  BY DEF TooManyExtensions, TurnsLeft, Understands
<1>3. ~(Len(frame.exts) < MaxExts)
  BY <1>1, <1>2
<1>. QED BY <1>2, <1>3, RefusedAsMeant DEF Layers, WellFormed

\* No extension header is left.
LEMMA LastMeans == ASSUME BoundsInv, Understands, LastExtension PROVE Understands'
<1>1. /\ frame \in FrameType /\ exts \in Nat /\ Len(frame.exts) \in Nat /\ NetworkStart(frame) \in Nat
      /\ ExtsLen(frame) \in Nat /\ DOMAIN frame.exts = 1..Len(frame.exts)
  <2>1. frame \in FrameType /\ frame.exts \in Seq(Extension)
    BY DEF BoundsInv, SliceInv, FrameType
  <2>. QED BY <2>1, LengthsType, PassedIs, LenProperties DEF BoundsInv, SliceInv
<1>2. /\ Network(frame) = "ipv6" /\ frame.version = 6 /\ TagsFit
      /\ exts = Len(frame.exts) /\ exts < MaxExts
      /\ offset = NetworkStart(frame) + IPV6_HEADER_LEN + Passed(frame, exts)
      /\ limit = PacketLimit /\ (Later <=> LaterAmong(frame, exts))
      /\ transport = "None" /\ app = "None" /\ refused = "no"
  BY DEF LastExtension, TurnsLeft, Understands
<1>3. /\ phase' = "l4" /\ offset' = offset /\ limit' = limit /\ frag' = frag
      /\ link' = link /\ frame' = frame
      /\ transport' = transport /\ app' = app /\ refused' = refused
  BY DEF LastExtension, slice
<1>4. offset = NetworkStart(frame) + NetworkLen(frame)
  <2>1. Passed(frame, exts) = ExtsLen(frame)
    BY <1>1, <1>2, PassedIs
  <2>. QED BY <1>1, <1>2, <2>1 DEF NetworkLen, IPV6_HEADER_LEN
<1>5. NetworkFits
  BY <1>2 DEF NetworkFits
<1>6. Later' <=> MeansLater(frame)
  <2>1. LaterAmong(frame, exts) <=> MeansLater(frame)
    BY <1>1, <1>2 DEF LaterAmong, MeansLater
  <2>. QED BY <1>2, <1>3, <2>1 DEF Later
<1>. QED BY <1>2, <1>3, <1>4, <1>5, <1>6, MeaningKept DEF Understands

\* At the transport header a parser has what the packet declares, as far as it was captured:
\* the rest of the parse decides about the transport header alone.
LEMMA AtTransport ==
    ASSUME BoundsInv, Understands, phase = "l4"
    PROVE  /\ Network(frame) # "other" /\ transport = "None" /\ app = "None" /\ refused = "no"
           /\ (Later <=> MeansLater(frame)) /\ Holds(0)
           /\ WellFormed(frame) /\ Captured(frame) <=>
                 /\ Holds(TransportLen(frame))
                 /\ MeansLater(frame) \/ (frame.proto = "tcp" => frame.doff >= TCP_HEADER_LEN)
                 /\ MeansLater(frame) \/ (frame.proto = "udp" => frame.declared = 0 \/ frame.declared >= UDP_HEADER_LEN)
<1>. DEFINE s == NetworkStart(frame)
            n == NetworkLen(frame)
            t == TransportLen(frame)
            p == PacketLen(frame)
<1>1. frame \in FrameType /\ link \in LinkType /\ offset <= limit /\ offset \in Nat /\ limit \in Nat
  BY DEF BoundsInv, SliceInv, InBounds
<1>2. s \in Nat /\ n \in Nat /\ t \in Nat /\ p \in Nat /\ frame.len \in Nat
  BY <1>1, LengthsType
<1>3. /\ transport = "None" /\ app = "None" /\ refused = "no"
      /\ NetworkFits /\ TagsFit /\ offset = s + n /\ limit = PacketLimit /\ (Later <=> MeansLater(frame))
  BY DEF Understands
<1>4. Network(frame) # "other"
  BY <1>3 DEF NetworkFits
<1>5. Holds(0)
  BY <1>1 DEF Holds
<1>6. limit = IF s + p < frame.len THEN s + p ELSE frame.len
  BY <1>3 DEF PacketLimit, Smaller
<1>7. n + t <= p /\ Captured(frame) <=> Holds(t)
  <2>1. Holds(t) <=> s + n + t <= limit
    BY <1>3 DEF Holds
  <2>2. Captured(frame) <=> frame.len >= s + n + t
    BY DEF Captured
  <2>3. \A a, b, c, d, l \in Nat :
           b + c <= d /\ l >= a + b + c <=> a + b + c <= (IF a + d < l THEN a + d ELSE l)
    OBVIOUS
  <2>. HIDE DEF s, n, t, p
  <2>. QED BY <1>2, <1>6, <2>1, <2>2, <2>3
<1>8. WellFormed(frame) <=>
         /\ n + t <= p
         /\ MeansLater(frame) \/ (frame.proto = "tcp" => frame.doff >= TCP_HEADER_LEN)
         /\ MeansLater(frame) \/ (frame.proto = "udp" => frame.declared = 0 \/ frame.declared >= UDP_HEADER_LEN)
  BY <1>3 DEF WellFormed, NetworkFits, TagsFit
<1>. QED BY <1>3, <1>4, <1>5, <1>7, <1>8

\* A transport header that the slice holds ends the parse.
LEMMA TransportMeans ==
    ASSUME BoundsInv, Understands, phase = "l4", WellFormed(frame), Captured(frame),
           NEW n, Transport(Meaning(frame), n)
    PROVE  Understands'
<1>1. /\ phase' = "parsed" /\ transport' = Meaning(frame) /\ refused' = refused /\ app' = app
      /\ frame' = frame /\ link' = link
  BY DEF Transport, Read
<1>2. Network(frame) # "other" /\ app = "None" /\ refused = "no"
  BY AtTransport
<1>3. HeadersAsMeant'
  BY <1>1, <1>2, MeaningKept DEF HeadersAsMeant
<1>. QED BY <1>1, <1>3 DEF Understands

\* A transport header that is refused.
LEMMA NoTransport ==
    ASSUME BoundsInv, Understands, phase = "l4", NEW layer \in Layers, Refuse(layer),
           ~(WellFormed(frame) /\ Captured(frame))
    PROVE  Understands'
  BY AtTransport, RefusedAsMeant

\* The protocols that need no further look at the frame.
LEMMA OthersMean ==
    ASSUME BoundsInv, Understands, LaterFragment \/ Icmp \/ Other
    PROVE  Understands'
<1>1. phase = "l4"
  BY DEF LaterFragment, Icmp, Other
<1>2. CASE LaterFragment
  <2>1. MeansLater(frame) /\ Meaning(frame) = "LaterFragment" /\ TransportLen(frame) = 0
    BY <1>1, <1>2, AtTransport DEF LaterFragment, Meaning, TransportLen
  <2>2. WellFormed(frame) /\ Captured(frame)
    BY <1>1, <2>1, AtTransport
  <2>. QED BY <1>1, <1>2, <2>1, <2>2, TransportMeans DEF LaterFragment
<1>3. CASE Other
  <2>1. ~MeansLater(frame) /\ frame.proto = "other"
    BY <1>1, <1>3, AtTransport DEF Other
  <2>2. Meaning(frame) = "Other" /\ TransportLen(frame) = 0
    BY <2>1 DEF Meaning, TransportLen
  <2>3. WellFormed(frame) /\ Captured(frame)
    BY <1>1, <2>1, <2>2, AtTransport
  <2>. QED BY <1>1, <1>3, <2>2, <2>3, TransportMeans DEF Other
<1>4. CASE Icmp
  <2>1. ~MeansLater(frame) /\ frame.proto \in {"icmp", "icmpv6"}
    BY <1>1, <1>4, AtTransport DEF Icmp
  <2>2. Meaning(frame) = "Icmp" /\ TransportLen(frame) = ICMP_HEADER_LEN
    BY <2>1 DEF Meaning, TransportLen
  <2>3. WellFormed(frame) /\ Captured(frame) <=> Holds(ICMP_HEADER_LEN)
    BY <1>1, <2>1, <2>2, AtTransport
  <2>. QED BY <1>1, <1>4, <2>2, <2>3, TransportMeans, NoTransport DEF Icmp, Layers
<1>. QED BY <1>2, <1>3, <1>4

\* The TCP header.
LEMMA TcpMeans == ASSUME BoundsInv, Understands, Tcp PROVE Understands'
<1>1. phase = "l4" /\ frame.proto = "tcp" /\ ~Later
  BY DEF Tcp
<1>2. ~MeansLater(frame)
  BY <1>1, AtTransport
<1>3. Meaning(frame) = "Tcp" /\ TransportLen(frame) = frame.doff
  BY <1>1, <1>2 DEF Meaning, TransportLen
<1>4. WellFormed(frame) /\ Captured(frame) <=> Holds(frame.doff) /\ frame.doff >= TCP_HEADER_LEN
  BY <1>1, <1>2, <1>3, AtTransport
<1>5. Holds(frame.doff) /\ frame.doff >= TCP_HEADER_LEN => Holds(TCP_HEADER_LEN)
  <2>1. frame.doff \in Nat /\ offset \in Nat /\ limit \in Nat
    BY DEF BoundsInv, SliceInv, FrameType
  <2>. QED BY <2>1 DEF Holds, TCP_HEADER_LEN
<1>. QED BY <1>1, <1>3, <1>4, <1>5, TransportMeans, NoTransport DEF Tcp, Layers

\* The UDP header, and the payload that the DNS parser is called with.
LEMMA UdpMeans == ASSUME BoundsInv, Understands, Udp PROVE Understands'
<1>. DEFINE valid == Holds(UDP_HEADER_LEN) /\ (frame.declared = 0 \/ frame.declared >= UDP_HEADER_LEN)
<1>1. phase = "l4" /\ frame.proto = "udp" /\ ~Later
  BY DEF Udp
<1>2. ~MeansLater(frame)
  BY <1>1, AtTransport
<1>3. Meaning(frame) = "Udp" /\ TransportLen(frame) = UDP_HEADER_LEN
  BY <1>1, <1>2 DEF Meaning, TransportLen
<1>4. WellFormed(frame) /\ Captured(frame) <=> valid
  BY <1>1, <1>2, <1>3, AtTransport
<1>5. \/ ~valid /\ Refuse("Udp")
      \/ valid /\ Transport("Udp", UDP_HEADER_LEN)
      \/ /\ valid /\ transport' = "Udp" /\ phase' = "dns"
         /\ UNCHANGED <<link, frame, app, refused>>
  BY DEF Udp, Read
<1>. HIDE DEF valid
<1>6. CASE valid /\ transport' = "Udp" /\ phase' = "dns" /\ UNCHANGED <<link, frame, app, refused>>
  <2>1. Network(frame) \in {"ipv4", "ipv6"}
    BY <1>4, <1>6 DEF WellFormed
  <2>2. app = "None" /\ refused = "no"
    BY <1>1, AtTransport
  <2>. QED BY <1>3, <1>4, <1>6, <2>1, <2>2, MeaningKept DEF Understands
<1>. QED BY <1>1, <1>3, <1>4, <1>5, <1>6, TransportMeans, NoTransport DEF Layers

\* The DNS parser works on the payload and its result is kept; the packet is parsed before.
LEMMA DnsMeans == ASSUME Understands, DnsStep \/ DnsReturns PROVE Understands'
<1>1. /\ phase = "dns" /\ frame' = frame /\ link' = link /\ transport' = transport /\ refused' = refused
      /\ \/ phase' = "dns" /\ app' = app
         \/ phase' = "parsed"
  BY DEF DnsStep, DnsReturns, result
<1>2. /\ Network(frame) \in {"ipv4", "ipv6"} /\ WellFormed(frame) /\ Captured(frame)
      /\ Meaning(frame) = "Udp" /\ transport = "Udp" /\ app = "None" /\ refused = "no"
  BY <1>1 DEF Understands
<1>3. CASE phase' = "dns" /\ app' = app
  BY <1>1, <1>2, <1>3, MeaningKept DEF Understands
<1>4. CASE phase' = "parsed"
  <2>1. HeadersAsMeant'
    BY <1>1, <1>2, MeaningKept DEF HeadersAsMeant
  <2>. QED BY <1>4, <2>1 DEF Understands
<1>. QED BY <1>1, <1>3, <1>4

\* No step of a parse leaves what the bytes mean.
LEMMA ParserUnderstands ==
    ASSUME BoundsInv, Understands, ParseNext
    PROVE  Understands'
  BY LinkMeans, TagMeans, NetworkMeans, VersionMeans, Ipv4Means, Ipv6Means, ExtensionMeans,
     TooManyMeans, LastMeans, OthersMean, TcpMeans, UdpMeans, DnsMeans DEF ParseNext

\* Between two parses nothing is said of the frame.
LEMMA UnderstandingKept ==
    ASSUME Understands, UNCHANGED <<phase, link, frame, offset, limit, tags, exts, result>>
    PROVE  Understands'
<1>1. /\ phase' = phase /\ link' = link /\ frame' = frame /\ offset' = offset /\ limit' = limit
      /\ tags' = tags /\ exts' = exts
      /\ ip' = ip /\ frag' = frag /\ transport' = transport /\ app' = app /\ refused' = refused
  BY DEF result
<1>2. /\ Passed(frame, exts)' = Passed(frame, exts) /\ (LaterAmong(frame, exts)' <=> LaterAmong(frame, exts))
      /\ (Later' <=> Later)
  BY <1>1 DEF Passed, LaterAmong, Later
<1>3. HeadersAsMeant' <=> HeadersAsMeant
  BY <1>1, MeaningKept DEF HeadersAsMeant
<1>. QED BY <1>1, <1>2, <1>3, MeaningKept DEF Understands, ETH_HEADER_LEN, VLAN_TAG_LEN, IPV6_HEADER_LEN

\* A parse of its own starts at the link header.
LEMMA UnderstandingInit == ParseInit => Understands
  BY DEF ParseInit, Understands

\* Where a name ends is known in every parse.
LEMMA PlacedParses == ASSUME SliceInv, WalkInv, Placed, ParseNext PROVE Placed'
<1>1. CASE UNCHANGED dnsVars
  BY <1>1, PlacedNext
<1>2. CASE DnsNext
  BY <1>2, PlacedNext
<1>3. CASE DnsBegin(Payload)
  BY <1>3 DEF DnsBegin, Placed, QuestionPlaced, HeaderLen, None
<1>4. CASE LinkHeader \/ VlanTag \/ NetworkLayer \/ UnknownVersion
  BY <1>1, <1>4 DEF LinkHeader, VlanTag, NetworkLayer, UnknownVersion, Refuse
<1>5. CASE Ipv4 \/ Ipv6 \/ ExtensionHeader \/ TooManyExtensions \/ LastExtension
  BY <1>1, <1>5 DEF Ipv4, Ipv6, ExtensionHeader, TooManyExtensions, LastExtension, Refuse
<1>6. CASE LaterFragment \/ Tcp \/ Icmp \/ Other
  BY <1>1, <1>6 DEF LaterFragment, Tcp, Icmp, Other, Transport, Refuse
<1>7. CASE Udp
  BY <1>1, <1>3, <1>7 DEF Udp, Transport, Refuse
<1>8. CASE DnsStep \/ DnsReturns
  BY <1>1, <1>2, <1>8 DEF DnsStep, DnsReturns
<1>. QED BY <1>4, <1>5, <1>6, <1>7, <1>8 DEF ParseNext

MeantInv == BoundsInv /\ WalkInv /\ Understands /\ Placed

\* Whatever the bytes of a frame and however much of it was captured: it is parsed if and
\* only if its headers are well formed and there, and to what they say.
THEOREM FramesParseAsMeant == ParseSpec => []ParsedAsMeant
<1>1. ParseInit => MeantInv
  <2>. SUFFICES ASSUME ParseInit PROVE WalkInv /\ Placed
    BY BoundsInit, UnderstandingInit DEF MeantInv
  <2>. QED BY DnsAssumption DEF ParseInit, DnsIdle, WalkInv, DnsTypeOK, Placed, QuestionPlaced, None
<1>2. MeantInv /\ [ParseNext]_parserVars => MeantInv'
  <2>. SUFFICES ASSUME MeantInv, [ParseNext]_parserVars PROVE MeantInv'
    OBVIOUS
  <2>1. CASE ParseNext
    BY <2>1, BoundsNext, WalkParses, ParserUnderstands, PlacedParses DEF MeantInv, BoundsInv
  <2>2. CASE UNCHANGED parserVars
    <3>1. UNCHANGED dnsVars /\ UNCHANGED <<phase, link, frame, offset, limit, tags, exts, result>>
      BY <2>2 DEF parserVars, slice
    <3>. QED BY <2>2, <3>1, BoundsNext, WalkNext, UnderstandingKept, PlacedNext DEF MeantInv
  <2>. QED BY <2>1, <2>2
<1>3. MeantInv => ParsedAsMeant
  BY DEF MeantInv, Understands, Placed, ParsedAsMeant
<1>. QED BY <1>1, <1>2, <1>3, PTL DEF ParseSpec

\* In a replay every frame is understood.
LEMMA AllMeant == Spec => [](Understands /\ Placed)
<1>. DEFINE Inv == Understands /\ Placed
<1>1. Init => Inv
  BY DEF Init, ParserIdle, DnsIdle, Understands, Placed, QuestionPlaced, None
<1>2. IInv /\ Inv /\ [Next]_vars => Inv'
  <2>. SUFFICES ASSUME IInv, Inv, [Next]_vars PROVE Inv'
    OBVIOUS
  <2>0. BoundsInv /\ SliceInv /\ WalkInv /\ Found
    BY DEF IInv, BoundsInv
  <2>1. ASSUME UNCHANGED dnsVars PROVE Placed'
    BY <2>0, <2>1, PlacedNext
  <2>2. CASE Reader
    <3>1. stage # "frame" /\ Unparsed
      BY <2>2 DEF Reader, Open, ReadHeader, ReadFails
    <3>2. phase' = "idle" /\ UNCHANGED dnsVars
      BY <2>0, <3>1 DEF Found, Unparsed
    <3>. QED BY <2>1, <3>2 DEF Understands
  <2>3. CASE NextRecord
    <3>1. stage = "data"
      BY <2>3 DEF NextRecord
    <3>2. phase = "idle"
      BY <2>0, <3>1 DEF Found
    <3>3. CASE Unparsed
      BY <2>1, <3>2, <3>3 DEF Unparsed, Understands
    <3>4. ASSUME NEW f, ParseBegin(f) PROVE Inv'
      BY <2>1, <3>4 DEF ParseBegin, Understands
    <3>. QED BY <2>3, <3>3, <3>4 DEF NextRecord
  <2>4. CASE Parse
    BY <2>0, <2>4, ParserUnderstands, PlacedParses DEF Parse
  <2>5. CASE Count
    BY <2>1, <2>5 DEF Count, Understands
  <2>6. CASE UNCHANGED vars
    <3>1. UNCHANGED dnsVars /\ UNCHANGED <<phase, link, frame, offset, limit, tags, exts, result>>
      BY <2>6 DEF vars, parserVars, slice
    <3>. QED BY <2>1, <3>1, UnderstandingKept
  <2>. QED BY <2>2, <2>3, <2>4, <2>5, <2>6 DEF Next
<1>. QED BY <1>1, <1>2, Inductive, PTL DEF Spec

\* The same of every frame of a replay.
THEOREM ReplayParsesAsMeant == Spec => []ParsedAsMeant
<1>1. Understands /\ Placed => ParsedAsMeant
  BY DEF Understands, Placed, ParsedAsMeant
<1>. QED BY <1>1, AllMeant, PTL

-----------------------------------------------------------------------------
(* The queries that the generator writes.                                   *)

\* where label i + 1 of a name starts
LabelAt(name, i) == Len(Labelled(name, i))

\* A label is its length and as many characters.
LEMMA LabelsLie ==
    ASSUME NEW name \in Labels
    PROVE  /\ LabelAt(name, 0) = 0
           /\ \A i \in 0..Len(name) : LabelAt(name, i) \in Nat
           /\ \A i \in 1..Len(name) : LabelAt(name, i) = LabelAt(name, i - 1) + 1 + name[i]
           /\ \A i \in 1..Len(name) : \A p \in 1..LabelAt(name, i - 1) :
                 Labelled(name, i)[p] = Labelled(name, i - 1)[p]
           /\ \A i \in 1..Len(name) : Labelled(name, i)[LabelAt(name, i - 1) + 1] = name[i]
<1>1. LabelAt(name, 0) = 0
  BY LabelledIs DEF LabelAt
<1>2. \A i \in 0..Len(name) : LabelAt(name, i) \in Nat
  BY LabelledIs, LenProperties DEF LabelAt
<1>3. ASSUME NEW i \in 1..Len(name)
      PROVE  /\ LabelAt(name, i) = LabelAt(name, i - 1) + 1 + name[i]
             /\ \A p \in 1..LabelAt(name, i - 1) : Labelled(name, i)[p] = Labelled(name, i - 1)[p]
             /\ Labelled(name, i)[LabelAt(name, i - 1) + 1] = name[i]
  <2>. DEFINE s == Labelled(name, i - 1)
              a == <<name[i]>>
              c == [l \in 1..name[i] |-> 97]
              t == s \o a
  <2>1. i - 1 \in 0..Len(name) /\ name[i] \in 1..63
    BY LabelledIs
  <2>2. s \in Seq(Byte)
    BY <2>1, LabelledIs
  <2>3. a \in Seq(Byte) /\ Len(a) = 1 /\ a[1] = name[i]
    BY <2>1 DEF Byte
  <2>4. c \in Seq(Byte) /\ Len(c) = name[i]
    <3>0. 97 \in Byte
      BY DEF Byte
    <3>1. c \in [1..name[i] -> Byte] /\ name[i] \in Nat
      <4>1. \A x \in 1..63 : x \in Nat
        OBVIOUS
      <4>2. c \in [1..name[i] -> Byte]
        BY <3>0
      <4>. HIDE DEF c
      <4>. QED BY <2>1, <4>1, <4>2
    <3>. HIDE DEF c
    <3>2. c \in Seq(Byte)
      BY <3>1, SeqDef
    <3>. QED BY <3>1, <3>2, LenProperties
  <2>5. Labelled(name, i) = t \o c
    BY LabelledIs
  <2>. HIDE DEF s, a, c
  <2>6. /\ t \in Seq(Byte) /\ Len(t) = Len(s) + 1 /\ Len(s) \in Nat
        /\ \A p \in 1..Len(s) : t[p] = s[p]
        /\ t[Len(s) + 1] = name[i]
    <3>1. /\ t \in Seq(Byte) /\ Len(t) = Len(s) + Len(a)
          /\ \A p \in 1..Len(s) + Len(a) : t[p] = IF p <= Len(s) THEN s[p] ELSE a[p - Len(s)]
      BY <2>2, <2>3, ConcatProperties
    <3>2. Len(s) \in Nat
      BY <2>2, LenProperties
    <3>. HIDE DEF t
    <3>3. \A p \in 1..Len(s) : p \in 1..Len(s) + 1 /\ p <= Len(s)
      BY <3>2
    <3>4. Len(s) + 1 \in 1..Len(s) + 1 /\ ~(Len(s) + 1 <= Len(s)) /\ Len(s) + 1 - Len(s) = 1
      BY <3>2
    <3>. QED BY <2>3, <3>1, <3>2, <3>3, <3>4
  <2>. HIDE DEF t
  <2>7. /\ Len(t \o c) = Len(t) + Len(c)
        /\ \A p \in 1..Len(t) : (t \o c)[p] = t[p]
    <3>1. /\ Len(t \o c) = Len(t) + Len(c)
          /\ \A p \in 1..Len(t) + Len(c) : (t \o c)[p] = IF p <= Len(t) THEN t[p] ELSE c[p - Len(t)]
      BY <2>4, <2>6, ConcatProperties
    <3>2. Len(t) \in Nat /\ Len(c) \in Nat
      BY <2>4, <2>6, LenProperties
    <3>3. \A p \in 1..Len(t) : p \in 1..Len(t) + Len(c) /\ p <= Len(t)
      BY <3>2
    <3>. QED BY <3>1, <3>3
  <2>8. Len(s) + 1 \in 1..Len(t) /\ \A p \in 1..Len(s) : p \in 1..Len(t)
    BY <2>6
  <2>. QED BY <2>4, <2>5, <2>6, <2>7, <2>8 DEF LabelAt, s
<1>. QED BY <1>1, <1>2, <1>3

\* The labels of a name are found where the ones before them end.
LEMMA LabelsFound ==
    ASSUME NEW name \in Labels
    PROVE  \A i \in 1..Len(name) :
              /\ LabelAt(name, i) <= LabelAt(name, Len(name))
              /\ Labelled(name, Len(name))[LabelAt(name, i - 1) + 1] = name[i]
<1>. DEFINE n == Len(name)
            Ok(k) == \A i \in 1..k : /\ LabelAt(name, i) <= LabelAt(name, k)
                                     /\ Labelled(name, k)[LabelAt(name, i - 1) + 1] = name[i]
            Bad == {k \in 0..n : ~Ok(k)}
<1>1. n \in Nat /\ \A i \in 1..n : name[i] \in 1..63
  BY LabelledIs
<1>2. ASSUME Bad # {} PROVE FALSE
  <2>1. PICK k \in Bad : \A j \in Bad : k <= j
    <3>1. Bad \subseteq Nat
      OBVIOUS
    <3>. HIDE DEF Bad
    <3>. QED BY <1>2, <3>1, Least
  <2>2. k \in 0..n /\ ~Ok(k)
    BY <2>1
  <2>3. Ok(0)
    OBVIOUS
  <2>4. k \in 1..n /\ k - 1 \in 0..n /\ ~(k <= k - 1)
    BY <1>1, <2>2, <2>3
  <2>5. Ok(k - 1)
    <3>1. k - 1 \notin Bad
      <4>. HIDE DEF Bad
      <4>. QED BY <2>1, <2>4
    <3>. QED BY <2>4, <3>1
  <2>6. /\ LabelAt(name, k) \in Nat /\ LabelAt(name, k - 1) \in Nat
        /\ LabelAt(name, k) = LabelAt(name, k - 1) + 1 + name[k] /\ name[k] \in Nat
    <3>1. \A x \in 1..63 : x \in Nat
      OBVIOUS
    <3>2. LabelAt(name, k) \in Nat /\ LabelAt(name, k - 1) \in Nat
      BY <2>2, <2>4, LabelsLie
    <3>3. LabelAt(name, k) = LabelAt(name, k - 1) + 1 + name[k]
      BY <2>4, LabelsLie
    <3>. QED BY <1>1, <2>4, <3>1, <3>2, <3>3
  <2>7. ASSUME NEW i \in 1..k
        PROVE  /\ LabelAt(name, i) <= LabelAt(name, k)
               /\ Labelled(name, k)[LabelAt(name, i - 1) + 1] = name[i]
    <3>1. CASE i = k
      BY <2>4, <2>6, <3>1, LabelsLie
    <3>2. CASE i # k
      <4>1. i \in 1..(k - 1) /\ i \in 0..n /\ i - 1 \in 0..n /\ i \in 1..n
        BY <2>4, <3>2
      <4>2. /\ LabelAt(name, i) <= LabelAt(name, k - 1)
            /\ Labelled(name, k - 1)[LabelAt(name, i - 1) + 1] = name[i]
        BY <2>5, <4>1
      <4>3. /\ LabelAt(name, i) \in Nat /\ LabelAt(name, i - 1) \in Nat /\ name[i] \in Nat
            /\ LabelAt(name, i) = LabelAt(name, i - 1) + 1 + name[i]
        <5>1. \A x \in 1..63 : x \in Nat
          OBVIOUS
        <5>2. LabelAt(name, i) \in Nat /\ LabelAt(name, i - 1) \in Nat
          BY <4>1, LabelsLie
        <5>3. LabelAt(name, i) = LabelAt(name, i - 1) + 1 + name[i]
          BY <4>1, LabelsLie
        <5>. QED BY <1>1, <4>1, <5>1, <5>2, <5>3
      <4>4. LabelAt(name, i - 1) + 1 \in 1..LabelAt(name, k - 1)
        BY <2>6, <4>2, <4>3
      <4>5. Labelled(name, k)[LabelAt(name, i - 1) + 1] = Labelled(name, k - 1)[LabelAt(name, i - 1) + 1]
        BY <2>4, <4>4, LabelsLie
      <4>6. LabelAt(name, i) <= LabelAt(name, k)
        BY <2>6, <4>2, <4>3
      <4>. QED BY <4>2, <4>5, <4>6
    <3>. QED BY <3>1, <3>2
  <2>. QED BY <2>2, <2>7
<1>3. n \in 0..n
  BY <1>1
<1>4. Ok(n)
  BY <1>2, <1>3
<1>. QED BY <1>4

\* The bytes of a query: one question, its labels from behind the header on, the root label,
\* and four bytes behind that.
LEMMA QueryBytes ==
    ASSUME NEW name \in Labels, NEW end, end = LabelAt(name, Len(name))
    PROVE  /\ end \in Nat /\ Len(NameBytes(name)) = end + 1
           /\ DnsQueryPayload(name) \in Seq(Byte) /\ Len(DnsQueryPayload(name)) = end + 17
           /\ DnsQueryPayload(name)[5] = 0 /\ DnsQueryPayload(name)[6] = 1
           /\ \A i \in 1..Len(name) : DnsQueryPayload(name)[LabelAt(name, i - 1) + 13] = name[i]
           /\ DnsQueryPayload(name)[end + 13] = 0
<1>. DEFINE head == <<0, 0, 1, 0, 0, 1, 0, 0, 0, 0, 0, 0>>
            rest == <<0, 1, 0, 1>>
            q == Labelled(name, Len(name))
            m == NameBytes(name)
            hm == head \o m
            full == hm \o rest
<1>1. /\ head \in Seq(Byte) /\ rest \in Seq(Byte) /\ Len(head) = 12 /\ Len(rest) = 4
      /\ head[5] = 0 /\ head[6] = 1
  BY DEF Byte
<1>2. DnsQueryPayload(name) = full
  BY DEF DnsQueryPayload
<1>. HIDE DEF head, rest
<1>3. /\ Len(name) \in Nat /\ q \in Seq(Byte) /\ m = q \o <<0>> /\ Len(q) = end /\ end \in Nat
  <2>1. Len(name) \in Nat
    BY LabelledIs
  <2>2. Len(name) \in 0..Len(name)
    BY <2>1
  <2>. QED BY <2>1, <2>2, LabelledIs, LabelsLie DEF LabelAt
<1>. HIDE DEF q
<1>4. /\ m \in Seq(Byte) /\ Len(m) = end + 1 /\ m[end + 1] = 0 /\ \A p \in 1..end : m[p] = q[p]
  <2>. DEFINE r == <<0>>
  <2>0. m = q \o r
    BY <1>3
  <2>1. r \in Seq(Byte) /\ Len(r) = 1 /\ r[1] = 0
    BY DEF Byte
  <2>. HIDE DEF r, m
  <2>2. /\ m \in Seq(Byte) /\ Len(m) = end + 1
        /\ \A p \in 1..end + 1 : m[p] = IF p <= end THEN q[p] ELSE r[p - end]
    <3>1. /\ q \o r \in Seq(Byte) /\ Len(q \o r) = Len(q) + Len(r)
          /\ \A p \in 1..Len(q) + Len(r) : (q \o r)[p] = IF p <= Len(q) THEN q[p] ELSE r[p - Len(q)]
      BY <1>3, <2>1, ConcatProperties
    <3>. QED BY <1>3, <2>0, <2>1, <3>1
  <2>3. end + 1 \in 1..end + 1 /\ ~(end + 1 <= end) /\ end + 1 - end = 1
        /\ \A p \in 1..end : p \in 1..end + 1 /\ p <= end
    BY <1>3
  <2>4. m[end + 1] = r[1]
    <3>. DEFINE k == end + 1
    <3>1. k \in 1..k /\ ~(k <= end) /\ k - end = 1
      <4>1. end \in Nat
        BY <1>3
      <4>. QED BY <4>1
    <3>2. \A p \in 1..k : m[p] = IF p <= end THEN q[p] ELSE r[p - end]
      BY <2>2
    <3>. HIDE DEF k
    <3>3. m[k] = IF k <= end THEN q[k] ELSE r[k - end]
      BY <3>1, <3>2
    <3>. QED BY <3>1, <3>3 DEF k
  <2>5. \A p \in 1..end : m[p] = q[p]
    BY <2>2, <2>3
  <2>. QED BY <2>1, <2>2, <2>4, <2>5
<1>. HIDE DEF m
<1>5. /\ hm \in Seq(Byte) /\ Len(hm) = end + 13
      /\ \A p \in 1..12 : hm[p] = head[p]
      /\ \A p \in 1..end + 1 : hm[p + 12] = m[p]
  <2>1. /\ hm \in Seq(Byte) /\ Len(hm) = 12 + (end + 1)
        /\ \A p \in 1..12 + (end + 1) : hm[p] = IF p <= 12 THEN head[p] ELSE m[p - 12]
    <3>1. /\ hm \in Seq(Byte) /\ Len(hm) = Len(head) + Len(m)
          /\ \A p \in 1..Len(head) + Len(m) :
                hm[p] = IF p <= Len(head) THEN head[p] ELSE m[p - Len(head)]
      BY <1>1, <1>4, ConcatProperties
    <3>. HIDE DEF hm
    <3>. QED BY <1>1, <1>4, <3>1
  <2>2. 12 + (end + 1) = end + 13
    BY <1>3
  <2>3. \A p \in 1..12 : p \in 1..12 + (end + 1) /\ p <= 12
    BY <1>3
  <2>4. \A p \in 1..end + 1 : p + 12 \in 1..12 + (end + 1) /\ ~(p + 12 <= 12) /\ p + 12 - 12 = p
    BY <1>3
  <2>. HIDE DEF hm
  <2>. QED BY <2>1, <2>2, <2>3, <2>4
<1>. HIDE DEF hm
<1>6. /\ full \in Seq(Byte) /\ Len(full) = end + 17 /\ \A p \in 1..end + 13 : full[p] = hm[p]
  <2>1. /\ full \in Seq(Byte) /\ Len(full) = (end + 13) + 4
        /\ \A p \in 1..(end + 13) + 4 : full[p] = IF p <= end + 13 THEN hm[p] ELSE rest[p - (end + 13)]
    <3>1. /\ full \in Seq(Byte) /\ Len(full) = Len(hm) + Len(rest)
          /\ \A p \in 1..Len(hm) + Len(rest) :
                full[p] = IF p <= Len(hm) THEN hm[p] ELSE rest[p - Len(hm)]
      BY <1>1, <1>5, ConcatProperties
    <3>. HIDE DEF full
    <3>. QED BY <1>1, <1>5, <3>1
  <2>2. (end + 13) + 4 = end + 17
    BY <1>3
  <2>3. \A p \in 1..end + 13 : p \in 1..(end + 13) + 4 /\ p <= end + 13
    BY <1>3
  <2>. HIDE DEF full
  <2>. QED BY <2>1, <2>2, <2>3
<1>. HIDE DEF full
<1>7. full[5] = 0 /\ full[6] = 1
  <2>1. 5 \in 1..end + 13 /\ 6 \in 1..end + 13 /\ 5 \in 1..12 /\ 6 \in 1..12
    BY <1>3
  <2>. QED BY <1>1, <1>5, <1>6, <2>1
<1>8. \A p \in 1..end + 1 : full[p + 12] = m[p]
  <2>1. \A p \in 1..end + 1 : p + 12 \in 1..end + 13
    BY <1>3
  <2>. QED BY <1>5, <1>6, <2>1
<1>9. ASSUME NEW i \in 1..Len(name) PROVE full[LabelAt(name, i - 1) + 13] = name[i]
  <2>. DEFINE s == LabelAt(name, i - 1)
  <2>1. s \in Nat /\ s + 1 <= end /\ q[s + 1] = name[i]
    <3>1. i \in 0..Len(name) /\ i - 1 \in 0..Len(name) /\ name[i] \in 1..63
      BY <1>3, LabelledIs
    <3>2. LabelAt(name, i) = s + 1 + name[i] /\ s \in Nat
      BY <3>1, LabelsLie
    <3>3. LabelAt(name, i) <= end /\ q[s + 1] = name[i]
      BY LabelsFound DEF q
    <3>4. \A a, c \in Nat, b \in 1..63 : a + 1 + b <= c => a + 1 <= c
      OBVIOUS
    <3>. HIDE DEF s
    <3>. QED BY <1>3, <3>1, <3>2, <3>3, <3>4
  <2>. HIDE DEF s
  <2>2. s + 1 \in 1..end /\ s + 1 \in 1..end + 1 /\ (s + 1) + 12 = s + 13
    BY <1>3, <2>1
  <2>3. full[s + 13] = name[i]
    BY <1>4, <1>8, <2>1, <2>2
  <2>. QED BY <2>3 DEF s
<1>10. full[end + 13] = 0
  <2>1. end + 1 \in 1..end + 1 /\ (end + 1) + 12 = end + 13
    BY <1>3
  <2>. QED BY <1>4, <1>8, <2>1
<1>. QED BY <1>2, <1>3, <1>4, <1>6, <1>7, <1>9, <1>10 DEF m

\* The walk over a query goes from label to label, and nowhere else.
ReadsName(name) ==
    /\ msg = DnsQueryPayload(name) /\ resume = None
    /\ \/ walk = "header" /\ pos = HeaderLen /\ nameLen = 0
       \/ /\ walk = "name"
          /\ \E i \in 0..Len(name) : /\ pos = HeaderLen + LabelAt(name, i)
                                     /\ nameLen = IF i = 0 THEN 0 ELSE LabelAt(name, i) - 1
       \/ walk = "question" /\ pos = HeaderLen + LabelAt(name, Len(name)) + 1
       \/ walk = "ok"

\* A name within the limit is read to its end.
LEMMA NameIsRead ==
    ASSUME NEW name \in Labels, Len(NameBytes(name)) <= MaxName + 2, ReadsName(name), DnsNext
    PROVE  ReadsName(name)'
<1>. DEFINE n == Len(name)
            start(i) == LabelAt(name, i)
            end == LabelAt(name, n)
<1>0. MaxName \in Nat /\ None = -1 /\ HeaderLen = 12
  BY DnsAssumption DEF None, HeaderLen
<1>1. /\ n \in Nat /\ end \in Nat /\ end + 1 <= MaxName + 2 /\ Len(msg) = end + 17
      /\ msg[5] = 0 /\ msg[6] = 1 /\ msg[end + 13] = 0
      /\ \A i \in 1..n : msg[start(i - 1) + 13] = name[i]
  BY QueryBytes, LabelledIs DEF ReadsName
<1>2. start(0) = 0 /\ (\A i \in 0..n : start(i) \in Nat)
  BY LabelsLie
<1>3. \A i \in 1..n : start(i) = start(i - 1) + 1 + name[i] /\ start(i) <= end /\ name[i] \in 1..63
  BY LabelsLie, LabelsFound, LabelledIs
<1>. HIDE DEF n, start, end
<1>4. msg = DnsQueryPayload(name) /\ resume = None
  BY DEF ReadsName
<1>5. ASSUME UNCHANGED <<msg, resume>>
      PROVE  msg' = DnsQueryPayload(name) /\ resume' = None /\ None' = None /\ HeaderLen' = HeaderLen
  BY <1>4, <1>5 DEF None, HeaderLen
<1>6. CASE walk = "header"
  <2>1. Holding(HeaderLen) /\ QuestionCount = 1
    BY <1>0, <1>1 DEF Holding, QuestionCount, be16, At
  <2>2. DnsHeader
    BY <1>6 DEF DnsNext, Root, Label, Pointer, BadLabel, Question, Reading
  <2>3. walk' = "name" /\ UNCHANGED <<msg, pos, resume, nameLen>>
    BY <2>1, <2>2 DEF DnsHeader
  <2>4. pos' = HeaderLen + start(0) /\ nameLen' = 0 /\ 0 \in 0..n
    BY <1>0, <1>1, <1>2, <1>6, <2>3 DEF ReadsName
  <2>. QED BY <1>5, <2>3, <2>4 DEF ReadsName, n, start
<1>7. CASE walk = "name"
  <2>1. PICK i \in 0..n : /\ pos = HeaderLen + start(i)
                          /\ nameLen = IF i = 0 THEN 0 ELSE start(i) - 1
    BY <1>7 DEF ReadsName, n, start
  <2>2. CASE i = n
    <3>1. pos = 12 + end /\ At(pos) = 0 /\ Holding(pos + 1)
      <4>1. pos = 12 + end /\ pos + 1 = end + 13
        BY <1>0, <1>1, <2>1, <2>2 DEF end, start
      <4>. QED BY <1>1, <4>1 DEF At, Holding
    <3>2. Kind(At(pos)) = LABEL_LITERAL
      BY <3>1 DEF Kind, LABEL_LITERAL
    <3>3. Root
      BY <1>7, <3>1, <3>2 DEF DnsNext, DnsHeader, Label, Pointer, BadLabel, Question, Reading,
                              LABEL_LITERAL, LABEL_POINTER
    <3>4. walk' = "question" /\ pos' = pos + 1 /\ UNCHANGED <<msg, resume>>
      BY <1>4, <3>3 DEF Root, NameEnd
    <3>5. pos' = HeaderLen + end + 1
      BY <1>0, <3>1, <3>4
    <3>. QED BY <1>5, <3>4, <3>5 DEF ReadsName, end, n
  <2>3. CASE i # n
    <3>0. i + 1 \in 1..n /\ i + 1 \in 0..n /\ i + 1 - 1 = i /\ i + 1 # 0
      BY <1>1, <2>3
    <3>. DEFINE l == name[i + 1]
    <3>1. /\ l \in 1..63 /\ start(i) \in Nat /\ start(i + 1) = start(i) + 1 + l
          /\ start(i + 1) <= end /\ msg[start(i) + 13] = l
      BY <1>1, <1>2, <1>3, <3>0
    <3>2. At(pos) = l /\ Holding(pos + 1) /\ Holding(pos + 1 + l)
      <4>. HIDE DEF l
      <4>1. \A a \in Nat, b \in 1..63, c, d \in Nat :
               c = a + 1 + b /\ c <= d =>
                 /\ (12 + a) + 1 = a + 13 /\ ((12 + a) + 1) + b = 12 + c
                 /\ a + 13 <= d + 17 /\ 12 + c <= d + 17
        OBVIOUS
      <4>2. start(i + 1) \in Nat /\ pos = 12 + start(i)
        BY <1>0, <1>2, <2>1, <3>0
      <4>3. /\ pos + 1 = start(i) + 13 /\ pos + 1 + l = 12 + start(i + 1)
            /\ start(i) + 13 <= Len(msg) /\ 12 + start(i + 1) <= Len(msg)
        <5>. DEFINE a == start(i)
                    c == start(i + 1)
        <5>1. a \in Nat /\ l \in 1..63 /\ c \in Nat /\ end \in Nat /\ c = a + 1 + l /\ c <= end
          BY <1>1, <3>1, <4>2
        <5>2. Len(msg) = end + 17 /\ pos = 12 + a
          BY <1>1, <4>2
        <5>. HIDE DEF a, c
        <5>3. /\ (12 + a) + 1 = a + 13 /\ ((12 + a) + 1) + l = 12 + c
              /\ a + 13 <= end + 17 /\ 12 + c <= end + 17
          BY <4>1, <5>1
        <5>. QED BY <5>2, <5>3 DEF a, c
      <4>4. At(pos) = l
        BY <3>1, <4>3 DEF At
      <4>. QED BY <4>3, <4>4 DEF Holding
    <3>. HIDE DEF l
    <3>3. Kind(At(pos)) = LABEL_LITERAL /\ At(pos) # 0
      <4>1. \A b \in 1..63 : b \div 64 = 0 /\ b # 0
        OBVIOUS
      <4>. QED BY <3>1, <3>2, <4>1 DEF Kind, LABEL_LITERAL
    <3>4. Longer(l) = start(i + 1) - 1 /\ Longer(l) <= MaxName
      <4>1. start(i + 1) \in Nat
        BY <1>2, <3>0
      <4>2. CASE i = 0
        <5>1. nameLen = 0 /\ start(i) = 0
          BY <1>2, <2>1, <4>2
        <5>2. Longer(l) = l
          BY <3>1, <5>1 DEF Longer
        <5>3. \A b \in 1..63, c, d, m \in Nat :
                 c = 0 + 1 + b /\ c <= d /\ d + 1 <= m + 2 => b = c - 1 /\ b <= m
          OBVIOUS
        <5>. QED BY <1>0, <1>1, <3>1, <4>1, <5>1, <5>2, <5>3
      <4>3. CASE i # 0
        <5>1. nameLen = start(i) - 1
          BY <2>1, <4>3
        <5>2. start(i) >= 2
          <6>1. i \in 1..n /\ i - 1 \in 0..n
            BY <1>1, <4>3
          <6>2. start(i) = start(i - 1) + 1 + name[i] /\ start(i - 1) \in Nat /\ name[i] \in 1..63
            BY <1>2, <1>3, <6>1
          <6>3. \A a \in Nat, b \in 1..63 : a + 1 + b >= 2
            OBVIOUS
          <6>. QED BY <6>2, <6>3
        <5>3. \A a \in Nat, b \in 1..63, c, d, m \in Nat :
                 a >= 2 /\ c = a + 1 + b /\ c <= d /\ d + 1 <= m + 2 =>
                   /\ a - 1 # 0 /\ (a - 1) + 1 + b = c - 1 /\ (a - 1) + b + 1 = c - 1 /\ c - 1 <= m
          OBVIOUS
        <5>4. /\ nameLen # 0 /\ nameLen + 1 + l = start(i + 1) - 1 /\ nameLen + l + 1 = start(i + 1) - 1
              /\ start(i + 1) - 1 <= MaxName
          <6>. DEFINE a == start(i)
                      c == start(i + 1)
          <6>1. a \in Nat /\ l \in 1..63 /\ c \in Nat /\ end \in Nat /\ MaxName \in Nat
            BY <1>0, <1>1, <3>1, <4>1
          <6>2. a >= 2 /\ c = a + 1 + l /\ c <= end /\ end + 1 <= MaxName + 2 /\ nameLen = a - 1
            BY <1>1, <3>1, <5>1, <5>2
          <6>. HIDE DEF a, c
          <6>3. a - 1 # 0 /\ (a - 1) + 1 + l = c - 1 /\ (a - 1) + l + 1 = c - 1 /\ c - 1 <= MaxName
            BY <5>3, <6>1, <6>2
          <6>. QED BY <6>2, <6>3 DEF c
        <5>. QED BY <5>4 DEF Longer
      <4>. QED BY <4>2, <4>3
    <3>5. Label
      BY <1>7, <3>2, <3>3 DEF DnsNext, DnsHeader, Root, Pointer, BadLabel, Question, Reading,
                              LABEL_LITERAL, LABEL_POINTER
    <3>6. /\ walk' = walk /\ pos' = pos + 1 + l /\ nameLen' = Longer(l) /\ UNCHANGED <<msg, resume>>
      BY <3>2, <3>4, <3>5 DEF Label
    <3>7. pos' = HeaderLen + start(i + 1) /\ nameLen' = start(i + 1) - 1
      BY <1>0, <2>1, <3>1, <3>4, <3>6
    <3>. QED BY <1>5, <1>7, <3>0, <3>6, <3>7 DEF ReadsName, n, start
  <2>. QED BY <2>2, <2>3
<1>8. CASE walk = "question"
  <2>1. pos = HeaderLen + end + 1
    BY <1>8 DEF ReadsName, end, n
  <2>2. Holding(pos + 2)
    BY <1>0, <1>1, <2>1 DEF Holding
  <2>3. Question
    BY <1>8 DEF DnsNext, DnsHeader, Root, Label, Pointer, BadLabel, Reading
  <2>4. walk' = "ok" /\ UNCHANGED <<msg, resume>>
    BY <2>2, <2>3 DEF Question
  <2>. QED BY <1>5, <2>4 DEF ReadsName
<1>9. walk # "ok"
  BY DEF DnsNext, DnsHeader, Root, Label, Pointer, BadLabel, Question, Reading
<1>. QED BY <1>6, <1>7, <1>8, <1>9 DEF ReadsName

-----------------------------------------------------------------------------
(* What the generator writes and the replay makes of it.                    *)

Written == Domains \cup {TunnelName}

\* Every frame of the generator is one IPv4 packet as long as its header says, with a TCP or
\* ICMP header or with a query.
LEMMA PacketIs ==
    ASSUME NEW f \in Packet
    PROVE  /\ f.tags = 0 /\ f.ethertype = "ipv4" /\ f.version = 4 /\ f.ihl = 20 /\ f.offset = 0
           /\ f.more = FALSE /\ f.doff = 20 /\ f.total \in Nat /\ f.len = 14 + f.total
           /\ f \in FrameType /\ f.len <= MaxRecord
           /\ \/ f.proto = "tcp" /\ f.total >= 40
              \/ f.proto = "icmp" /\ f.total = 28
              \/ \E name \in Written :
                    /\ f.proto = "udp" /\ f.dns /\ f.message = DnsQueryPayload(name)
                    /\ DnsQueryPayload(name) \in Seq(Byte) /\ Len(DnsQueryPayload(name)) \in Nat \ {0}
                    /\ f.declared = 8 + Len(DnsQueryPayload(name))
                    /\ f.total = 28 + Len(DnsQueryPayload(name))
<1>. USE DEF ETH_HEADER_LEN, IPV4_HEADER_LEN, TCP_HEADER_LEN, UDP_HEADER_LEN
<1>1. f \in FrameType /\ f.len <= MaxRecord
  <2>1. FrameAt("portscan", 0) \subseteq FrameType /\ FrameAt("mixed", 0) \subseteq FrameType
        /\ FrameAt("flood", 0) \subseteq FrameType /\ FrameAt("dnstunnel", 0) \subseteq FrameType
    BY GeneratedFrames
  <2>2. 0 % InjectEvery = 0
    BY SynthAssumption
  <2>3. Packet \subseteq FrameType
    BY <2>1, <2>2 DEF FrameAt, Packet
  <2>. QED BY <2>3, LimitsAssumption
<1>. DEFINE Plain(p) ==
                /\ p.tags = 0 /\ p.ethertype = "ipv4" /\ p.version = 4 /\ p.ihl = 20 /\ p.offset = 0
                /\ p.more = FALSE /\ p.doff = 20 /\ p.total \in Nat /\ p.len = 14 + p.total
<1>2. \A proto, n : n \in Nat =>
         /\ Plain(EthernetIpv4(proto, n))
         /\ EthernetIpv4(proto, n).proto = proto /\ EthernetIpv4(proto, n).total = 20 + n
  <2>. SUFFICES ASSUME NEW proto, NEW n \in Nat
       PROVE  /\ Plain(EthernetIpv4(proto, n))
              /\ EthernetIpv4(proto, n).proto = proto /\ EthernetIpv4(proto, n).total = 20 + n
    OBVIOUS
  <2>. QED BY DEF EthernetIpv4
<1>. HIDE DEF Plain
<1>3. ASSUME NEW n \in Nat, f = TcpSegment(n) PROVE Plain(f) /\ f.proto = "tcp" /\ f.total >= 40
  <2>. DEFINE m == 20 + n
  <2>1. f = EthernetIpv4("tcp", m)
    BY <1>3 DEF TcpSegment
  <2>2. m \in Nat /\ 20 + m >= 40
    OBVIOUS
  <2>. HIDE DEF m
  <2>. QED BY <1>2, <2>1, <2>2
<1>4. ASSUME f = IcmpEcho PROVE Plain(f) /\ f.proto = "icmp" /\ f.total = 28
  <2>. DEFINE m == 8
  <2>1. f = EthernetIpv4("icmp", m)
    BY <1>4 DEF IcmpEcho
  <2>2. m \in Nat /\ 20 + m = 28
    OBVIOUS
  <2>. HIDE DEF m
  <2>. QED BY <1>2, <2>1, <2>2
<1>5. ASSUME NEW name \in Written, f = DnsQuery(name)
      PROVE  /\ f.proto = "udp" /\ f.dns /\ f.message = DnsQueryPayload(name)
             /\ DnsQueryPayload(name) \in Seq(Byte) /\ Len(DnsQueryPayload(name)) \in Nat \ {0}
             /\ f.declared = 8 + Len(DnsQueryPayload(name))
             /\ f.total = 28 + Len(DnsQueryPayload(name)) /\ Plain(f)
  <2>. DEFINE m == DnsQueryPayload(name)
              p == EthernetIpv4("udp", 8 + Len(m))
  <2>1. name \in Labels
    BY SynthAssumption DEF Written
  <2>2. m \in Seq(Byte) /\ Len(m) \in Nat \ {0}
    <3>. DEFINE end == LabelAt(name, Len(name))
    <3>1. end \in Nat /\ m \in Seq(Byte) /\ Len(m) = end + 17
      BY <2>1, QueryBytes
    <3>. HIDE DEF end, m
    <3>. QED BY <3>1
  <2>3. f = [p EXCEPT !.declared = DatagramLen(m), !.dns = TRUE, !.message = m] /\ DatagramLen(m) = 8 + Len(m)
    BY <1>5 DEF DnsQuery, UdpDatagram, DatagramLen
  <2>. HIDE DEF m
  <2>4. Plain(p) /\ p.proto = "udp" /\ p.total = 28 + Len(m)
    <3>. DEFINE k == 8 + Len(m)
    <3>1. k \in Nat /\ 20 + k = 28 + Len(m)
      BY <2>2
    <3>. HIDE DEF k
    <3>2. Plain(EthernetIpv4("udp", k)) /\ EthernetIpv4("udp", k).proto = "udp"
          /\ EthernetIpv4("udp", k).total = 28 + Len(m)
      BY <1>2, <3>1
    <3>. QED BY <3>2 DEF k
  <2>5. DOMAIN p = {"len", "tags", "ethertype", "version", "ihl", "total", "offset", "more", "exts",
                    "proto", "doff", "declared", "dns", "message"}
    BY DEF EthernetIpv4
  <2>6. f.declared = 8 + Len(m) /\ f.dns = TRUE /\ f.message = m
    <3>. HIDE DEF p
    <3>. QED BY <2>3, <2>5
  <2>7. /\ f.tags = p.tags /\ f.ethertype = p.ethertype /\ f.version = p.version /\ f.ihl = p.ihl
        /\ f.offset = p.offset /\ f.more = p.more /\ f.doff = p.doff /\ f.total = p.total
        /\ f.len = p.len /\ f.proto = p.proto
    <3>. HIDE DEF p
    <3>. QED BY <2>3, <2>5
  <2>. HIDE DEF p
  <2>8. Plain(f) /\ f.proto = "udp" /\ f.total = 28 + Len(m)
    BY <2>4, <2>7 DEF Plain
  <2>. QED BY <2>2, <2>6, <2>8 DEF m
<1>6. \/ \E n \in Nat : f = TcpSegment(n)
      \/ f = IcmpEcho
      \/ \E name \in Written : f = DnsQuery(name)
  <2>1. \A n \in 0..(MaxPayload - 1) : n \in Nat
    OBVIOUS
  <2>. QED BY <2>1 DEF Packet, BackgroundPacket, FloodSyn, ScanProbe, TunnelQuery, Written
<1>7. CASE \E n \in Nat : f = TcpSegment(n)
  BY <1>1, <1>3, <1>7 DEF Plain
<1>8. CASE f = IcmpEcho
  BY <1>1, <1>4, <1>8 DEF Plain
<1>9. CASE \E name \in Written : f = DnsQuery(name)
  BY <1>1, <1>5, <1>9 DEF Plain
<1>. QED BY <1>6, <1>7, <1>8, <1>9

\* Such a frame is whole and well formed.
LEMMA PacketMeans ==
    ASSUME link = "Ethernet", frame \in Packet
    PROVE  /\ Network(frame) = "ipv4" /\ NetworkStart(frame) = 14 /\ NetworkLen(frame) = 20
           /\ PacketLimit = frame.len /\ ~MeansLater(frame)
           /\ WellFormed(frame) /\ Captured(frame) /\ Meaning(frame) # "None"
<1>. USE DEF ETH_HEADER_LEN, VLAN_TAG_LEN, IPV4_HEADER_LEN, TCP_HEADER_LEN, UDP_HEADER_LEN,
             ICMP_HEADER_LEN
<1>1. /\ frame.tags = 0 /\ frame.ethertype = "ipv4" /\ frame.version = 4 /\ frame.ihl = 20
      /\ frame.offset = 0 /\ frame.doff = 20 /\ frame.total \in Nat /\ frame.len = 14 + frame.total
      /\ \/ frame.proto = "tcp" /\ frame.total >= 40
         \/ frame.proto = "icmp" /\ frame.total = 28
         \/ frame.proto = "udp" /\ frame.total >= 28 /\ frame.declared >= 8
  <2>1. \A n \in Nat \ {0} : 28 + n >= 28 /\ 8 + n >= 8
    OBVIOUS
  <2>. QED BY <2>1, PacketIs
<1>2. Network(frame) = "ipv4" /\ NetworkStart(frame) = 14 /\ NetworkLen(frame) = 20
  BY <1>1 DEF Network, NetworkStart, NetworkLen
<1>3. ~MeansLater(frame) /\ PacketLen(frame) = frame.total
  BY <1>1, <1>2 DEF MeansLater, PacketLen
<1>4. PacketLimit = frame.len
  BY <1>1, <1>2, <1>3 DEF PacketLimit, Smaller
<1>5. \/ frame.proto = "tcp" /\ TransportLen(frame) = 20
      \/ frame.proto = "icmp" /\ TransportLen(frame) = 4
      \/ frame.proto = "udp" /\ TransportLen(frame) = 8
  BY <1>1, <1>3 DEF TransportLen
<1>6. WellFormed(frame)
  <2>1. NetworkLen(frame) + TransportLen(frame) <= PacketLen(frame)
    BY <1>1, <1>2, <1>3, <1>5
  <2>2. frame.tags <= MaxTags
    BY <1>1, ParserAssumption
  <2>. QED BY <1>1, <1>2, <2>1, <2>2 DEF WellFormed
<1>7. Captured(frame)
  BY <1>1, <1>2, <1>5 DEF Captured
<1>8. Meaning(frame) # "None"
  BY <1>1, <1>3 DEF Meaning
<1>. QED BY <1>2, <1>3, <1>4, <1>6, <1>7, <1>8

\* What is known of a file that was generated.
LEMMA GeneratedFile ==
    ASSUME NEW s, NEW f \in GeneratedFiles(s)
    PROVE  /\ f.kind = "micros" /\ f.big = FALSE /\ f.link = 1 /\ f.faulty = FALSE
           /\ f.size = SizeOf(f.recs) /\ Len(f.recs) = GenPackets
           /\ \A i \in 1..GenPackets : f.recs[i].frame \in Packet /\ f.recs[i].cap <= MaxRecord
           /\ \A i, j \in 1..GenPackets : i < j =>
                 f.recs[i].sec * MicrosPerSec + f.recs[i].frac < f.recs[j].sec * MicrosPerSec + f.recs[j].frac
<1>. DEFINE n == GenPackets
<1>0. n \in Nat
  BY ReplayAssumption
<1>1. PICK packets \in Generate(s, GenPackets) : f = WriteFile(packets)
  BY DEF GeneratedFiles
<1>2. PICK e \in [0..n -> Nat], frames \in [1..n -> Packet] :
         /\ \A i, j \in 0..n : i < j => e[i] < e[j]
         /\ DOMAIN packets = 1..n
         /\ \A i \in 1..n : packets[i][1] = e[i] /\ packets[i][2] = frames[i]
  BY Turns
<1>3. \A i \in 1..n : i \in 0..n
  BY <1>0
<1>4. \A i \in 1..n : e[i] \in Nat /\ frames[i] \in Packet
  BY <1>3
<1>. HIDE DEF n
<1>5. DOMAIN packets = 1..n /\ \A i \in 1..n : packets[i][1] = e[i] /\ packets[i][2] = frames[i]
  BY <1>2
<1>6. f = [kind |-> "micros", big |-> FALSE, link |-> 1,
           recs |-> [i \in 1..n |-> WriteRecord(packets[i][1], packets[i][2])],
           size |-> SizeOf([i \in 1..n |-> WriteRecord(packets[i][1], packets[i][2])]), faulty |-> FALSE]
  BY <1>1, <1>5 DEF WriteFile
<1>. DEFINE recs == [i \in 1..n |-> WriteRecord(packets[i][1], packets[i][2])]
<1>7. /\ f.kind = "micros" /\ f.big = FALSE /\ f.link = 1 /\ f.faulty = FALSE
      /\ f.recs = recs /\ f.size = SizeOf(recs)
  <2>. HIDE DEF recs
  <2>. QED BY <1>6 DEF recs
<1>8. Len(recs) = n
  <2>1. f.recs \in Seq([sec : Nat, frac : Nat, cap : Nat, wire : Nat, frame : FrameType])
    <3>1. f \in PcapType
      BY GeneratedType
    <3>. QED BY <3>1 DEF PcapType
  <2>2. Len(f.recs) \in Nat /\ DOMAIN f.recs = 1..Len(f.recs) /\ DOMAIN recs = 1..n
    BY <2>1, LenProperties
  <2>3. \A m \in Nat : 1..m = 1..n => m = n
    <3>1. ASSUME NEW m \in Nat, 1..m = 1..n PROVE m = n
      <4>1. m >= 1 => m \in 1..m
        OBVIOUS
      <4>2. n >= 1 => n \in 1..n
        BY <1>0
      <4>3. (m >= 1 => m \in 1..n) /\ (n >= 1 => n \in 1..m)
        BY <3>1, <4>1, <4>2
      <4>. QED BY <1>0, <3>1, <4>3
    <3>. QED BY <3>1
  <2>. HIDE DEF recs
  <2>. QED BY <1>7, <2>2, <2>3
<1>9. ASSUME NEW i \in 1..n
      PROVE  /\ recs[i].frame \in Packet /\ recs[i].cap <= MaxRecord
             /\ recs[i].sec * MicrosPerSec + recs[i].frac = e[i]
  <2>1. recs[i] = WriteRecord(e[i], frames[i]) /\ frames[i] \in Packet /\ e[i] \in Nat
    BY <1>4, <1>5
  <2>. HIDE DEF recs
  <2>2. recs[i].frame = frames[i] /\ recs[i].cap = frames[i].len
        /\ recs[i].sec = e[i] \div MicrosPerSec /\ recs[i].frac = e[i] % MicrosPerSec
    BY <2>1 DEF WriteRecord
  <2>3. \A d \in Nat \ {0}, w \in Nat : (w \div d) * d + (w % d) = w
    <3>1. ASSUME NEW d \in Nat \ {0}, NEW w \in Nat PROVE (w \div d) * d + (w % d) = w
      <4>. DEFINE q == w \div d
                  m == w % d
      <4>1. w = d * q + m /\ m \in 0..d - 1 /\ q \in Nat
        OBVIOUS
      <4>. HIDE DEF q, m
      <4>2. d * q = q * d
        BY <4>1
      <4>3. w = q * d + m
        BY <4>1, <4>2
      <4>. QED BY <4>3 DEF q, m
    <3>. QED BY <3>1
  <2>4. MicrosPerSec \in Nat \ {0}
    BY PcapAssumption
  <2>. QED BY <2>1, <2>2, <2>3, <2>4, LimitsAssumption
<1>10. \A i, j \in 1..n : i < j => e[i] < e[j]
  BY <1>2, <1>3
<1>. HIDE DEF recs
<1>11. \A i, j \in 1..n : i < j =>
          recs[i].sec * MicrosPerSec + recs[i].frac < recs[j].sec * MicrosPerSec + recs[j].frac
  BY <1>9, <1>10
<1>. QED BY <1>7, <1>8, <1>9, <1>11 DEF n

\* Each record of such a file is whole, and the file ends with the last.
LEMMA AllDelivered ==
    ASSUME file \in GeneratedFiles(origin)
    PROVE  /\ file \in PcapType /\ Len(file.recs) = GenPackets /\ GenPackets \in Nat
           /\ ReplayOpens /\ ReplayDelivers = 1..GenPackets
           /\ EndOf(GenPackets) = file.size
<1>. DEFINE n == GenPackets
            R == [sec : Nat, frac : Nat, cap : Nat, wire : Nat, frame : FrameType]
<1>1. /\ n \in Nat /\ file \in PcapType /\ file.kind = "micros" /\ file.link = 1
      /\ file.size = SizeOf(file.recs) /\ Len(file.recs) = n
      /\ \A i \in 1..n : file.recs[i].cap <= MaxRecord
  BY GeneratedFile, GeneratedType, ReplayAssumption
<1>2. file.recs \in Seq(R) /\ \A r \in R : r.cap \in Nat
  BY <1>1 DEF PcapType
<1>. HIDE DEF n, R
<1>3. PICK e \in [0..n -> Nat] :
         /\ e[0] = GLOBAL_HEADER_LEN
         /\ \A i \in 1..n : e[i] = e[i - 1] + RECORD_HEADER_LEN + file.recs[i].cap
         /\ \A i \in 0..n : SizeOf(SubSeq(file.recs, 1, i)) = e[i]
         /\ SizeOf(file.recs) = e[n]
  BY <1>1, <1>2, Ends
<1>4. ASSUME NEW i \in 1..n PROVE e[i - 1] < e[i]
  <2>1. i - 1 \in 0..n /\ e[i] = e[i - 1] + RECORD_HEADER_LEN + file.recs[i].cap
    BY <1>1, <1>3
  <2>2. e[i - 1] \in Nat /\ file.recs[i].cap \in Nat /\ RECORD_HEADER_LEN = 16
    BY <1>1, <1>2, <2>1, FileTypes DEF RECORD_HEADER_LEN
  <2>3. \A a, b \in Nat : a < a + 16 + b
    OBVIOUS
  <2>. QED BY <2>1, <2>2, <2>3
<1>5. \A i, j \in 0..n : i < j => e[i] < e[j]
  BY <1>1, <1>4, Rising
<1>6. ASSUME NEW i \in 0..n PROVE e[i] <= file.size /\ e[i] \in Nat
  <2>1. n \in 0..n /\ (i = n \/ i < n)
    BY <1>1
  <2>2. e[i] \in Nat /\ e[n] \in Nat /\ e[n] = file.size
    BY <1>1, <1>3, <2>1
  <2>. QED BY <1>5, <2>1, <2>2
<1>7. ReplayOpens
  <2>1. 0 \in 0..n
    BY <1>1
  <2>2. file.size >= GLOBAL_HEADER_LEN
    BY <1>1, <1>3, <1>6, <2>1, FileTypes DEF GLOBAL_HEADER_LEN
  <2>3. FromRaw(1) = "Ethernet"
    BY DEF FromRaw
  <2>. QED BY <1>1, <2>2, <2>3 DEF ReplayOpens
<1>8. \A i \in 1..n : Complete(i)
  <2>1. \A i \in 1..n : i \in 0..n
    BY <1>1
  <2>. QED BY <1>1, <1>3, <1>6, <2>1 DEF Complete
<1>9. ReplayDelivers = 1..n
  <2>1. ~(n < n)
    BY <1>1
  <2>. QED BY <1>1, <1>7, <1>8, <2>1, DeliversAll
<1>10. EndOf(n) = file.size
  <2>1. n \in 0..n
    BY <1>1
  <2>. QED BY <1>1, <1>3, <2>1 DEF EndOf
<1>. QED BY <1>1, <1>7, <1>9, <1>10 DEF n

\* What the replay of a generated file comes across: its frames, its names, no error.
Clean ==
    /\ file \in GeneratedFiles(origin) /\ link = "Ethernet"
    /\ \A c \in {"parse_errors", "non_ip", "fragments", "dns_errors"} : counters[c] = 0
    /\ phase # "idle" => frame \in Packet /\ frag = [offset |-> 0, more |-> FALSE] /\ app # "DnsError"
    /\ phase = "dns" => \E name \in Written : ReadsName(name)

\* It ends with the last record, and nothing went wrong.
LEMMA CleanReadsBack ==
    ASSUME IInv, Clean
    PROVE  /\ counters.parse_errors + counters.dns_errors + counters.non_ip + counters.fragments = 0
           /\ \A i, j \in DOMAIN stamps : i < j => stamps[i] < stamps[j]
           /\ stage = "ended" => outcome = "ok" /\ counters.packets = GenPackets
<1>1. counters.parse_errors + counters.dns_errors + counters.non_ip + counters.fragments = 0
  BY DEF Clean
<1>2. /\ stamps \in Seq(Nat) /\ Len(stamps) = next /\ next \in Nat /\ next <= Len(file.recs)
      /\ \A i \in 1..next : stamps[i] = MicrosOf(file.recs[i])
      /\ stage = "ended" /\ ~file.faulty => ReplayDelivers = 1..next /\ (outcome = "ok" <=> ReplayEndsOk)
      /\ counters.packets = next
  BY DEF IInv, FileInv, Position, Delivered, Sums
<1>3. /\ Len(file.recs) = GenPackets /\ GenPackets \in Nat /\ file.kind = "micros" /\ file.faulty = FALSE
      /\ \A i, j \in 1..GenPackets : i < j =>
            file.recs[i].sec * MicrosPerSec + file.recs[i].frac
              < file.recs[j].sec * MicrosPerSec + file.recs[j].frac
      /\ file \in PcapType /\ ReplayOpens /\ ReplayDelivers = 1..GenPackets
      /\ EndOf(GenPackets) = file.size
  <2>1. file \in GeneratedFiles(origin)
    BY DEF Clean
  <2>. QED BY <2>1, GeneratedFile, AllDelivered
<1>4. \A i, j \in DOMAIN stamps : i < j => stamps[i] < stamps[j]
  <2>1. DOMAIN stamps = 1..next
    BY <1>2, LenProperties
  <2>2. \A i \in 1..next : i \in 1..GenPackets
    BY <1>2, <1>3
  <2>3. \A r : MicrosOf(r) = r.sec * MicrosPerSec + r.frac
    BY <1>3 DEF MicrosOf
  <2>. QED BY <1>2, <1>3, <2>1, <2>2, <2>3
<1>5. ASSUME stage = "ended" PROVE outcome = "ok" /\ counters.packets = GenPackets
  <2>1. 1..next = 1..GenPackets /\ (outcome = "ok" <=> ReplayEndsOk)
    BY <1>2, <1>3, <1>5
  <2>2. next = GenPackets
    <3>0. GenPackets >= 1 => GenPackets \in 1..GenPackets
      BY <1>3
    <3>1. GenPackets >= 1 => GenPackets \in 1..next
      BY <2>1, <3>0
    <3>. QED BY <1>2, <1>3, <3>1
  <2>3. ReplayEndsOk
    BY <1>2, <1>3, <2>2, EndsOk
  <2>. QED BY <1>2, <2>1, <2>2, <2>3
<1>. QED BY <1>1, <1>4, <1>5

\* A step that raises no counter and neither reads nor parses leaves it clean.
LEMMA CleanKept ==
    ASSUME Clean, UNCHANGED <<file, origin, counters, link, phase, frame, frag, app, dnsVars>>
    PROVE  Clean'
<1>1. /\ file' = file /\ origin' = origin /\ counters' = counters /\ link' = link /\ phase' = phase
      /\ frame' = frame /\ frag' = frag /\ app' = app
      /\ msg' = msg /\ walk' = walk /\ pos' = pos /\ resume' = resume /\ nameLen' = nameLen
  BY DEF dnsVars
<1>2. \A name : ReadsName(name)' <=> ReadsName(name)
  BY <1>1 DEF ReadsName, HeaderLen, None
<1>. QED BY <1>1, <1>2 DEF Clean

\* The reader opens the file as Ethernet and has nothing to count.
LEMMA CleanReader == ASSUME IInv, Clean, Reader PROVE Clean'
<1>1. Unparsed /\ Uncounted /\ file' = file /\ stage # "frame"
  BY DEF Reader, Open, ReadHeader, ReadFails
<1>2. phase = "idle" /\ phase' = "idle"
  BY <1>1 DEF IInv, Found, Unparsed
<1>3. link' = "Ethernet"
  <2>1. CASE Open
    <3>1. file \in PcapType /\ file.kind = "micros" /\ file.link = 1
      BY GeneratedFile, AllDelivered DEF Clean
    <3>2. FromRaw(file.link) = "Ethernet"
      BY <3>1 DEF FromRaw
    <3>. QED BY <2>1, <3>1, <3>2, Understood DEF Open, Clean
  <2>2. CASE ReadHeader \/ ReadFails
    BY <2>2 DEF ReadHeader, ReadFails, Clean
  <2>. QED BY <2>1, <2>2 DEF Reader
<1>. QED BY <1>1, <1>2, <1>3 DEF Clean, Uncounted

\* The next record holds a frame of the generator.
LEMMA CleanRecord == ASSUME IInv, Clean, NextRecord PROVE Clean'
<1>1. /\ stage = "data" /\ file' = file /\ link' = link /\ origin' = origin
  BY DEF NextRecord, Data
<1>2. phase = "idle"
  BY <1>1 DEF IInv, Found
<1>3. file.recs[next + 1].frame \in Packet
  <2>1. next + 1 \in 1..Len(file.recs)
    BY <1>1, Within DEF IInv
  <2>2. Len(file.recs) = GenPackets /\ \A i \in 1..GenPackets : file.recs[i].frame \in Packet
    BY GeneratedFile DEF Clean
  <2>. QED BY <2>1, <2>2
<1>4. CASE Unparsed /\ UNCHANGED counters
  BY <1>1, <1>2, <1>4 DEF Clean, Unparsed
<1>5. CASE ParseBegin(file.recs[next + 1].frame) /\ counters' = [counters EXCEPT !.packets = @ + 1]
  <2>1. \A c \in {"parse_errors", "non_ip", "fragments", "dns_errors"} : counters'[c] = 0
    <3>1. counters \in [Counters -> Nat]
      BY DEF IInv, Sums
    <3>2. \A c \in {"parse_errors", "non_ip", "fragments", "dns_errors"} :
             c \in Counters /\ c # "packets" /\ counters[c] = 0
      BY DEF Clean, Counters
    <3>. QED BY <1>5, <3>1, <3>2
  <2>2. phase' = "link" /\ frame' \in Packet /\ frag' = [offset |-> 0, more |-> FALSE] /\ app' = "None"
    BY <1>3, <1>5 DEF ParseBegin
  <2>. QED BY <1>1, <2>1, <2>2 DEF Clean
<1>. QED BY <1>4, <1>5 DEF NextRecord

\* The query of a datagram is all of its payload.
LEMMA WholePayload ==
    ASSUME link = "Ethernet", frame \in Packet, frame.dns, offset = 34, limit = frame.len,
           frame.proto = "udp"
    PROVE  \E name \in Written : Payload = DnsQueryPayload(name)
<1>1. PICK name \in Written :
         /\ frame.message = DnsQueryPayload(name) /\ DnsQueryPayload(name) \in Seq(Byte)
         /\ Len(DnsQueryPayload(name)) \in Nat \ {0}
         /\ frame.declared = 8 + Len(DnsQueryPayload(name))
         /\ frame.total = 28 + Len(DnsQueryPayload(name))
         /\ frame.len = 14 + frame.total
  BY PacketIs
<1>. DEFINE m == DnsQueryPayload(name)
            l == Len(m)
<1>2. m \in Seq(Byte) /\ l \in Nat /\ frame.declared = 8 + l /\ frame.len = 14 + (28 + l) /\ frame.message = m
  BY <1>1
<1>. HIDE DEF m, l
<1>3. DatagramEnd = 42 + l
  <2>1. \A n \in Nat : 8 + n # 0 /\ 34 + (8 + n) = 42 + n /\ 14 + (28 + n) = 42 + n
    OBVIOUS
  <2>2. frame.declared # 0 /\ offset + frame.declared = 42 + l /\ limit = 42 + l
    BY <1>2, <2>1
  <2>. QED BY <2>2 DEF DatagramEnd, Smaller
<1>4. Smaller(DatagramEnd - offset - UDP_HEADER_LEN, Len(frame.message)) = l
  <2>1. (42 + l) - 34 - 8 = l
    BY <1>2
  <2>2. Len(frame.message) = l
    BY <1>2 DEF l
  <2>. QED BY <1>3, <2>1, <2>2 DEF Smaller, UDP_HEADER_LEN
<1>5. Payload = SubSeq(m, 1, l)
  BY <1>2, <1>4 DEF Payload
<1>6. SubSeq(m, 1, l) = m
  <2>. DEFINE s == SubSeq(m, 1, l)
  <2>1. \A i \in 1..l : m[i] \in Byte
    BY <1>2, ElementOfSeq DEF l
  <2>2. /\ s \in Seq(Byte) /\ Len(s) = IF 1 <= l THEN l - 1 + 1 ELSE 0
        /\ \A i \in 1..(l - 1 + 1) : s[i] = m[1 + i - 1]
    BY <1>2, <2>1, SubSeqProperties
  <2>3. Len(s) = l /\ \A i \in 1..l : s[i] = m[i]
    <3>. HIDE DEF s
    <3>1. l - 1 + 1 = l /\ (1 <= l \/ l = 0) /\ \A i \in 1..l : 1 + i - 1 = i
      BY <1>2
    <3>. QED BY <2>2, <3>1
  <2>. HIDE DEF s
  <2>4. s = m
    BY <1>2, <2>2, <2>3, SeqEqual DEF l
  <2>. QED BY <2>4 DEF s
<1>. QED BY <1>5, <1>6 DEF m

\* A parse of such a frame comes across no error.
LEMMA CleanParse == ASSUME IInv, Understands, Clean, Parse PROVE Clean'
<1>1. ParseNext /\ file' = file /\ counters' = counters /\ origin' = origin
  BY DEF Parse, pcapVars, Uncounted
<1>2. phase # "idle" /\ link' = link /\ frame' = frame
  <2>1. link' = link
    BY <1>1, LinkKept
  <2>2. phase # "idle" /\ frame' = frame
    BY <1>1 DEF ParseNext, LinkHeader, VlanTag, NetworkLayer, UnknownVersion, Ipv4, Ipv6,
                ExtensionHeader, TooManyExtensions, LastExtension, LaterFragment, Tcp, Udp, Icmp,
                Other, DnsStep, DnsReturns, Transport, Refuse
  <2>. QED BY <2>1, <2>2
<1>3. /\ link = "Ethernet" /\ frame \in Packet /\ frag = [offset |-> 0, more |-> FALSE]
      /\ app # "DnsError"
  BY <1>2 DEF Clean
<1>4. /\ Network(frame) = "ipv4" /\ NetworkStart(frame) = 14 /\ NetworkLen(frame) = 20
      /\ PacketLimit = frame.len
  BY <1>3, PacketMeans
<1>5. SUFFICES /\ frag' = [offset |-> 0, more |-> FALSE] /\ app' # "DnsError"
               /\ phase' = "dns" => \E name \in Written : ReadsName(name)'
  BY <1>1, <1>2, <1>3 DEF Clean
<1>6. ASSUME NEW layer, Refuse(layer)
      PROVE  phase' # "dns" /\ frag' = frag /\ app' = app
  BY <1>6 DEF Refuse
<1>7. CASE LinkHeader \/ VlanTag \/ NetworkLayer \/ UnknownVersion
  <2>1. \/ \E layer : Refuse(layer)
        \/ phase' # "dns" /\ frag' = frag /\ app' = app
    <3>1. frame.ethertype = "ipv4"
      BY <1>3, PacketIs
    <3>. QED BY <1>7, <3>1 DEF LinkHeader, VlanTag, NetworkLayer, UnknownVersion, Read, result
  <2>. QED BY <1>3, <1>6, <2>1
<1>8. CASE Ipv4
  <2>1. frame.offset = 0 /\ frame.more = FALSE
    BY <1>3, PacketIs
  <2>2. CASE Refuse("Ipv4")
    BY <1>3, <1>6, <2>2
  <2>3. CASE ~Refuse("Ipv4")
    BY <1>3, <1>8, <2>1, <2>3 DEF Ipv4, Read
  <2>. QED BY <2>2, <2>3
<1>9. ~Ipv6 /\ ~ExtensionHeader /\ ~TooManyExtensions /\ ~LastExtension
  BY <1>4 DEF Understands, Ipv6, ExtensionHeader, TooManyExtensions, LastExtension
<1>10. CASE LaterFragment \/ Tcp \/ Icmp \/ Other
  <2>1. ASSUME NEW t, NEW n, Transport(t, n) PROVE phase' # "dns" /\ frag' = frag /\ app' = app
    BY <2>1 DEF Transport, Read
  <2>2. (\E layer : Refuse(layer)) \/ (\E t, n : Transport(t, n))
    BY <1>10 DEF LaterFragment, Tcp, Icmp, Other
  <2>. QED BY <1>3, <1>6, <2>1, <2>2
<1>11. CASE Udp
  <2>1. CASE Refuse("Udp")
    BY <1>3, <1>6, <2>1
  <2>2. CASE Transport("Udp", UDP_HEADER_LEN)
    BY <1>3, <2>2 DEF Transport, Read
  <2>3. CASE frame.dns /\ frag' = frag /\ app' = app /\ DnsBegin(Payload)
    <3>1. offset = 34 /\ limit = frame.len /\ frame.proto = "udp"
      <4>1. phase = "l4" /\ frame.proto = "udp"
        BY <1>11 DEF Udp
      <4>2. offset = 14 + 20 /\ limit = frame.len
        BY <1>4, <4>1 DEF Understands
      <4>. QED BY <4>1, <4>2
    <3>2. PICK name \in Written : Payload = DnsQueryPayload(name)
      BY <1>3, <2>3, <3>1, WholePayload
    <3>3. ReadsName(name)'
      BY <2>3, <3>2 DEF DnsBegin, ReadsName, HeaderLen, None
    <3>. QED BY <1>3, <2>3, <3>3
  <2>. QED BY <1>11, <2>1, <2>2, <2>3 DEF Udp
<1>12. CASE DnsStep
  <2>1. PICK name \in Written : ReadsName(name)
    BY <1>12 DEF DnsStep, Clean
  <2>2. name \in Labels /\ Len(NameBytes(name)) <= MaxName + 2
    BY SynthAssumption, LimitsAssumption DEF Written
  <2>3. ReadsName(name)'
    BY <1>12, <2>1, <2>2, NameIsRead DEF DnsStep
  <2>4. frag' = frag /\ app' = app
    BY <1>12 DEF DnsStep, result
  <2>. QED BY <1>3, <2>3, <2>4
<1>13. CASE DnsReturns
  <2>1. walk # "error"
    BY <1>13 DEF DnsReturns, Clean, ReadsName
  <2>. QED BY <1>3, <1>13, <2>1 DEF DnsReturns
<1>. QED BY <1>1, <1>7, <1>8, <1>9, <1>10, <1>11, <1>12, <1>13 DEF ParseNext

\* What is counted of such a frame is no error.
LEMMA CleanCount == ASSUME IInv, Understands, Clean, Count PROVE Clean'
<1>1. /\ phase = "parsed" /\ phase' = "idle" /\ stage = "frame" /\ file' = file /\ link' = link /\ origin' = origin
      /\ counters' = [c \in Counters |-> counters[c] + (IF c \in Raised THEN 1 ELSE 0)]
  BY DEF Count
<1>2. /\ link = "Ethernet" /\ frame \in Packet /\ frag = [offset |-> 0, more |-> FALSE]
      /\ app # "DnsError"
  BY <1>1 DEF Clean
<1>3. refused = "no" /\ transport # "None"
  <2>1. HeadersAsMeant
    BY <1>1 DEF Understands
  <2>2. /\ Network(frame) = "ipv4" /\ WellFormed(frame) /\ Captured(frame) /\ Meaning(frame) # "None"
    BY <1>2, PacketMeans
  <2>. QED BY <2>1, <2>2 DEF HeadersAsMeant
<1>4. ip # "none"
  BY <1>1, <1>3 DEF IInv, Found
<1>5. \A c \in {"parse_errors", "non_ip", "fragments", "dns_errors"} : c \notin Raised
  <2>1. frag.offset = 0 /\ frag.more = FALSE
    BY <1>2
  <2>. QED BY <1>2, <1>3, <1>4, <2>1 DEF Raised
<1>6. \A c \in {"parse_errors", "non_ip", "fragments", "dns_errors"} : c \in Counters /\ counters[c] = 0
  BY DEF Clean, Counters
<1>7. \A c \in {"parse_errors", "non_ip", "fragments", "dns_errors"} : counters'[c] = 0
  BY <1>1, <1>5, <1>6
<1>. QED BY <1>1, <1>2, <1>7 DEF Clean

\* Whatever numbers it draws, what `netmon gen` writes is read back whole by `netmon replay`,
\* in order and without an error.
THEOREM GeneratedIsReadBack == Spec => []GeneratedReadsBack
<1>. DEFINE Inv == origin # "capture" => Clean
<1>1. Init => Inv
  <2>. SUFFICES ASSUME Init, origin # "capture" PROVE Clean
    OBVIOUS
  <2>1. file \in GeneratedFiles(origin) /\ link = "Ethernet" /\ phase = "idle"
    BY DEF Init, PcapInit, ParserIdle
  <2>2. \A c \in {"parse_errors", "non_ip", "fragments", "dns_errors"} : counters[c] = 0
    BY DEF Init, Counters
  <2>. QED BY <2>1, <2>2 DEF Clean
<1>2. IInv /\ Understands /\ Inv /\ [Next]_vars => Inv'
  <2>. SUFFICES ASSUME IInv, Understands, Inv, [Next]_vars, origin' # "capture" PROVE Clean'
    OBVIOUS
  <2>1. origin' = origin
    BY DEF Next, Reader, NextRecord, Parse, Count, Uncounted, vars
  <2>2. Clean
    BY <2>1
  <2>3. CASE UNCHANGED vars
    <3>1. UNCHANGED <<file, origin, counters, link, phase, frame, frag, app, dnsVars>>
      BY <2>3 DEF vars, pcapVars, parserVars, result
    <3>. QED BY <2>2, <3>1, CleanKept
  <2>. QED BY <2>2, <2>3, CleanReader, CleanRecord, CleanParse, CleanCount DEF Next
<1>3. IInv /\ Inv => GeneratedReadsBack
  BY CleanReadsBack DEF GeneratedReadsBack
<1>. QED BY <1>1, <1>2, <1>3, Inductive, AllMeant, PTL DEF Spec
=============================================================================
