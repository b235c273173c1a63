------------------------------ MODULE PacketPath ------------------------------
(***************************************************************************)
(* What happens to a frame: the library's handle, draining it, decoding    *)
(* the layers of a frame that the snapshot may have cut anywhere, the      *)
(* ring of packets a page reads, and the credentials that a payload shows  *)
(* (packet/libpcap.ts, decode.ts, mapping.ts, plaintext-credentials.ts).   *)
(*                                                                         *)
(* A shape is what a frame really is: its headers and their sizes.  The    *)
(* decoder sees how many bytes of it were captured, and the sizes that     *)
(* those bytes tell.  Addresses, flags and the text dump are left out.     *)
(* Sizes are those of the protocols.  CaptureLifecycle has the starts and  *)
(* stops; here a capture is open or not.                                   *)
(***************************************************************************)
EXTENDS Integers, FiniteSets, Sequences, FiniteSetsExt, SequencesExt

CONSTANTS
    Shapes,                   \* of frames
    PlainShape,                \* the one whose frames arrive more than once
    Messages,                 \* what a TCP payload can say
    FramesPerTick,            \* MAX_FRAMES_PER_TICK
    RingSize,                 \* env.captureBufferSize
    MaxQueued, MaxFramesSent, MaxOpens     \* bounds

ShapeType ==
    [link : {"ETHERNET", "NULL", "RAW", "DLT_105"}, framing : {"II", "SNAP", "LLC"}, tags : 0..5,
     network : {"v4", "v6", "arp", "other"}, options : {0, 4}, transport : {"tcp", "udp", "other"},
     tcpOptions : {0, 4}, payload : Nat, pad : Nat, declared : BOOLEAN]

ASSUME PacketAssumption ==
    /\ Shapes \subseteq ShapeType /\ PlainShape \in Shapes /\ PlainShape.transport = "tcp"
    /\ \A m \in Messages : m.pieces \in Seq(ToSet(m.pieces))
    /\ {FramesPerTick, RingSize, MaxQueued} \subseteq Nat \ {0} /\ {MaxFramesSent, MaxOpens} \subseteq Nat

-----------------------------------------------------------------------------
(* What a frame is. *)

HeaderSize(s) == CASE s.network = "v4" -> 20 + s.options [] s.network = "v6" -> 40 [] s.network = "arp" -> 28 [] OTHER -> 0
TransportSize(s) ==
    IF s.network \in {"arp", "other"} THEN 0
    ELSE CASE s.transport = "tcp" -> 20 + s.tcpOptions [] s.transport = "udp" -> 8 [] OTHER -> 0
NetworkAt(s) ==
    IF s.link # "ETHERNET" THEN (IF s.link = "RAW" THEN 0 ELSE 4)
    ELSE 14 + (CASE s.framing = "SNAP" -> 8 [] s.framing = "LLC" -> 4 [] OTHER -> 0) + 4 * s.tags
PayloadAt(s) == NetworkAt(s) + HeaderSize(s) + TransportSize(s)
DatagramEnd(s) == PayloadAt(s) + s.payload
WireLength(s) == DatagramEnd(s) + s.pad

-----------------------------------------------------------------------------
(* decodePacket: n bytes of a frame were captured. *)

Interval(from, to) == IF from < to THEN from..(to - 1) ELSE {}
NoLayers == [layers |-> {}, payload |-> {}, pad |-> {}]
IsCaptured(offset, size, n) == offset + size <= n

\* decodeTransport, and the bytes after the declared end of the datagram.
DecodeTransport(s, n, offset, declaredEnd) ==
    LET limit == Min({IF declaredEnd > offset THEN declaredEnd ELSE n, n})
        fixed == CASE s.transport = "tcp" -> 20 [] s.transport = "udp" -> 8 [] OTHER -> 0
        start == offset + TransportSize(s)      \* the header's own data offset
    IN IF s.transport = "other" \/ ~IsCaptured(offset, fixed, n) THEN NoLayers
       ELSE [NoLayers EXCEPT !.layers = {s.transport}, !.payload = Interval(start, limit)]
TrailingBytes(declaredEnd, n) == IF declaredEnd <= 0 THEN {} ELSE Interval(declaredEnd, n)

\* totalLength and payloadLength; a card that segments by itself leaves zero.
DeclaredEnd(s, n, at) == at + IF s.declared THEN DatagramEnd(s) - NetworkAt(s) ELSE n - at

\* decodeNetworkLayer
DecodeNetwork(s, n, at) ==
    IF s.network \in {"v4", "v6"} /\ IsCaptured(at, IF s.network = "v4" THEN 20 ELSE 40, n) THEN
        LET end == DeclaredEnd(s, n, at)
            inner == DecodeTransport(s, n, at + HeaderSize(s), end)
        IN [layers |-> inner.layers \cup {s.network}, payload |-> inner.payload, pad |-> TrailingBytes(end, n)]
    ELSE IF s.network = "arp" /\ IsCaptured(at, 28, n)
    THEN [NoLayers EXCEPT !.layers = {"arp"}, !.pad = TrailingBytes(at + 28, n)]
    ELSE NoLayers

\* Ethernet with its tags, of which four are unwrapped, and 802.3; or the version in the
\* first byte after a loopback header.
Decode(s, n) ==
    IF s.link # "ETHERNET" THEN
        IF n <= NetworkAt(s) \/ s.network \notin {"v4", "v6"} THEN NoLayers ELSE DecodeNetwork(s, n, NetworkAt(s))
    ELSE IF n < 14 THEN NoLayers
    ELSE LET link == {"ethernet"} \cup (IF s.framing # "II" /\ IsCaptured(14, IF s.framing = "LLC" THEN 4 ELSE 3, n) THEN {"llc"} ELSE {})
             base == NetworkAt(s) - 4 * s.tags
             tagged == Min({s.tags, 4})
             read == {i \in 1..tagged : IsCaptured(base, 4 * i, n)}     \* tags that were captured
             layers == link \cup (IF read # {} /\ s.framing # "LLC" THEN {"vlan"} ELSE {})
             goesOn == /\ s.framing = "II" \/ (s.framing = "SNAP" /\ IsCaptured(14, 8, n))
                       /\ read = 1..tagged /\ s.tags <= 4
             inner == IF goesOn THEN DecodeNetwork(s, n, NetworkAt(s)) ELSE NoLayers
         IN [inner EXCEPT !.layers = @ \cup layers]

\* SUPPORTED_LINK_TYPES: what can be decoded at all.
Supported(link) == link \in {"ETHERNET", "NULL", "RAW"}

-----------------------------------------------------------------------------
(* PlaintextCredentialDetector *)

\* A message is what one segment carries, which may begin anywhere in a request: pieces
\* in the order they are sent, the ends of lines and the `?` and the blank that end a
\* path and a query among them; and its two ports.  Only the first bytes are looked at.
Secrets == {"basicSecret", "querySecret", "bodySecret", "cookieValue", "ftpSecret", "mailSecret", "smtpSecret"}
HttpPorts == {80, 8080}
CleartextPorts == {21, 23, 25, 110, 143}

SeenText(m, k) == SubSeq(m.pieces, 1, k)
SeenPieces(m, k) == ToSet(SeenText(m, k))
IsOn(m, ports) == {m.from, m.to} \cap ports # {}
LooksHttp(m, k) == k > 0 /\ Head(m.pieces) = "method"

\* The segment's first line, whatever it is, without what lies between its first `?` and
\* the next blank.
IsRedacted(text, i) ==
    /\ \E h \in 1..i : text[h] = "query"
    /\ ~ \E h \in 1..i : text[h] = "query" /\ \E g \in h..i : text[g] = "blank"
FirstLine(text) ==
    {text[i] : i \in {j \in DOMAIN text : ~IsRedacted(text, j) /\ \A h \in 1..j : text[h] # "newline"}}
Quotable(text) == FirstLine(text) \cup (ToSet(text) \cap {"host"})

\* The findings in the first k pieces of a message: what each names in its evidence.
HttpFindings(text) ==
    LET seen == ToSet(text) IN
    (IF "basicSecret" \in seen THEN {[service |-> "basic", evidence |-> Quotable(text) \cup (seen \cap {"basicUser"})]} ELSE {})
    \cup (IF seen \cap {"querySecret", "bodySecret"} # {}
          THEN {[service |-> "form", evidence |-> Quotable(text) \cup (seen \cap {"formUser"})]} ELSE {})
    \cup (IF "cookieValue" \in seen THEN {[service |-> "cookie", evidence |-> Quotable(text)]} ELSE {})
NamesUser(service, any, user, seen) ==
    IF seen \cap any # {} THEN {[service |-> service, evidence |-> seen \cap {user}]} ELSE {}

CredentialFindings(m, k) ==
    LET seen == SeenPieces(m, k) IN
    IF k = 0 \/ ~(LooksHttp(m, k) \/ IsOn(m, CleartextPorts \cup HttpPorts)) THEN {}
    ELSE (IF LooksHttp(m, k) \/ IsOn(m, HttpPorts) THEN HttpFindings(SeenText(m, k)) ELSE {})
         \cup (IF IsOn(m, {21}) THEN NamesUser("ftp", {"ftpUser", "ftpSecret"}, "ftpUser", seen) ELSE {})
         \cup (IF IsOn(m, {23}) THEN {[service |-> "telnet", evidence |-> {}]} ELSE {})
         \cup (IF IsOn(m, {110, 143}) THEN NamesUser("mail", {"mailUser", "mailSecret"}, "mailUser", seen) ELSE {})
         \cup (IF IsOn(m, {25}) THEN NamesUser("smtp", {"smtpUser", "smtpSecret"}, "smtpUser", seen) ELSE {})

-----------------------------------------------------------------------------
VARIABLES
    library,      \* the bindings, or that loading them failed once
    pcap,         \* handles of the library that are not closed; whether one is held, and its link type
    kernel,       \* frames that wait to be read: their shape, how much was captured
    payloads,     \* REDACT_PACKET_PAYLOAD is not set
    ring,         \* the packets kept, and how many were evicted since they were cleared
    \* history
    sent,         \* frames the kernel has buffered
    decoded,      \* what was decoded last
    read, inspected,   \* frames kept since the ring was cleared, and how many were inspected
    opens

packetVars == <<library, pcap, kernel, payloads, ring, sent, decoded, read, inspected, opens>>

NotDecoded == [shape |-> PlainShape, length |-> 0, says |-> [pieces |-> <<>>, from |-> 0, to |-> 0],
               pieces |-> 0, result |-> NoLayers, found |-> {}]
EmptyRing == [packets |-> <<>>, dropped |-> 0]
NoLink == "none"
Links == {s.link : s \in Shapes}

PacketInit ==
    /\ library = "untried" /\ pcap = [native |-> 0, held |-> FALSE, link |-> NoLink] /\ kernel = <<>> /\ payloads \in BOOLEAN
    /\ ring = EmptyRing /\ sent = 0 /\ decoded = NotDecoded /\ read = <<>> /\ inspected = 0 /\ opens = 0

\* load(): the first name that resolves; a failure is remembered until the process ends.
OpenLibrary ==
    /\ library = "untried" /\ library' \in {"loaded", "failed"}
    /\ UNCHANGED <<pcap, kernel, payloads, ring, sent, decoded, read, inspected, opens>>

\* openLive and setFilter: a handle is created, and closed if anything after that fails.
OpenLive ==
    /\ library = "loaded" /\ ~pcap.held /\ opens < MaxOpens /\ opens' = opens + 1
    /\ \E outcome \in {"notCreated", "notActivated", "blocking", "badFilter", "open"}, link \in Links :
        pcap' = IF outcome = "open" THEN [native |-> pcap.native + 1, held |-> TRUE, link |-> link] ELSE pcap
    /\ kernel' = <<>>
    /\ UNCHANGED <<library, payloads, ring, sent, decoded, read, inspected>>

\* The kernel buffers a frame, cut to the snapshot's length, with k pieces of a message.
NoMessage == [pieces |-> <<>>, from |-> 0, to |-> 0]
FrameArrives(s, n, m, k) ==
    /\ pcap.held /\ s.link = pcap.link /\ sent < MaxFramesSent /\ Len(kernel) < MaxQueued /\ n <= WireLength(s)
    /\ sent' = sent + 1
    /\ kernel' = Append(kernel, [shape |-> s, length |-> n, says |-> m, pieces |-> k, number |-> sent'])
    /\ UNCHANGED <<library, pcap, payloads, ring, decoded, read, inspected, opens>>

\* consume(): each frame of a link that can be decoded is, and is kept and inspected, the
\* oldest making room.
Keep(frames) ==
    LET numbers == [i \in DOMAIN frames |-> [number |-> frames[i].number, bytes |-> payloads]]
        all == ring.packets \o numbers
        excess == Max({0, Len(all) - RingSize}) IN
    [packets |-> SubSeq(all, excess + 1, Len(all)), dropped |-> ring.dropped + excess]

Consume(frames) ==
    LET good == IF Supported(pcap.link) THEN frames ELSE <<>>
        last == Last(good)
        result == Decode(last.shape, last.length) IN
    /\ ring' = Keep(good) /\ read' = read \o [i \in DOMAIN good |-> good[i].number]
    /\ inspected' = inspected + Len(good)
    /\ decoded' = IF good = <<>> THEN decoded
                  ELSE [shape |-> last.shape, length |-> last.length, says |-> last.says, pieces |-> last.pieces,
                        result |-> result,
                        found |-> IF "tcp" \in result.layers /\ result.payload # {}
                                  THEN CredentialFindings(last.says, last.pieces) ELSE {}]

\* poll(): what is buffered, a bounded number at a time.
Poll ==
    /\ pcap.held /\ kernel # <<>>
    /\ LET k == Min({FramesPerTick, Len(kernel)}) IN
        Consume(SubSeq(kernel, 1, k)) /\ kernel' = SubSeq(kernel, k + 1, Len(kernel))
    /\ UNCHANGED <<library, pcap, payloads, sent, opens>>

Closed(handle) == [native |-> handle.native - 1, held |-> FALSE, link |-> NoLink]

\* A read error ends the capture, and with it the frames that were read in that tick.
\* A stop reads what is buffered once more.
ReadFails ==
    /\ pcap.held /\ pcap' = Closed(pcap) /\ kernel' = <<>>
    /\ UNCHANGED <<library, payloads, ring, sent, decoded, read, inspected, opens>>
StopAndDrain ==
    /\ pcap.held /\ pcap' = Closed(pcap)
    /\ Consume(SubSeq(kernel, 1, Min({FramesPerTick, Len(kernel)}))) /\ kernel' = <<>>
    /\ UNCHANGED <<library, payloads, sent, opens>>

ClearPackets ==
    /\ ring # EmptyRing /\ ring' = EmptyRing /\ read' = <<>>
    /\ UNCHANGED <<library, pcap, kernel, payloads, sent, decoded, inspected, opens>>

PacketNext ==
    \/ OpenLibrary \/ OpenLive \/ Poll \/ ReadFails \/ StopAndDrain \/ ClearPackets
    \* the first frame of a behaviour is any; what follows it only fills the ring
    \/ sent = 0 /\ \E s \in Shapes : \E n \in 0..WireLength(s) : FrameArrives(s, n, NoMessage, 0)
    \/ sent = 0 /\ \E m \in Messages : \E k \in 0..Len(m.pieces) : FrameArrives(PlainShape, WireLength(PlainShape), m, k)
    \/ sent > 0 /\ FrameArrives(PlainShape, WireLength(PlainShape), NoMessage, 0)

PacketSpec == PacketInit /\ [][PacketNext]_packetVars

\* GET /: the packets, with their bytes for an administrator only.
Answer(role) ==
    [i \in DOMAIN ring.packets |-> [ring.packets[i] EXCEPT !.bytes = @ /\ role = "ADMIN"]]

-----------------------------------------------------------------------------
(* Properties *)

\* The variables keep their types.
PacketTypeOK ==
    /\ library \in {"untried", "loaded", "failed"} /\ pcap.native \in Nat /\ pcap.held \in BOOLEAN
    /\ Len(kernel) <= MaxQueued /\ Len(ring.packets) <= RingSize /\ ring.dropped \in Nat
    /\ decoded.result.layers \subseteq {"ethernet", "llc", "vlan", "v4", "v6", "arp", "tcp", "udp"}
    /\ sent \in 0..MaxFramesSent /\ inspected <= sent /\ opens \in 0..MaxOpens

\* A frame that was cut shows less than the whole frame and nothing else: no layer the
\* whole one does not have, and of the payload and the padding exactly the bytes that
\* were captured.  The whole frame's payload is the datagram's, and its padding is not,
\* unless the datagram does not say how long it is.
DecodeExact ==
    LET s == decoded.shape
        n == decoded.length
        whole == Decode(s, WireLength(s))
        cut == decoded.result
        understood == whole.layers \cap {"tcp", "udp"} # {}
    IN /\ cut.layers \subseteq whole.layers
       /\ cut.layers \cap {"tcp", "udp"} # {} => cut.payload = whole.payload \cap 0..(n - 1)
       /\ s.declared /\ cut.layers \cap {"v4", "v6", "arp"} # {} => cut.pad = whole.pad \cap 0..(n - 1)
       /\ understood /\ s.declared => whole.payload = Interval(PayloadAt(s), DatagramEnd(s))
                                      /\ whole.pad = Interval(DatagramEnd(s), WireLength(s))
       /\ understood /\ ~s.declared => Interval(PayloadAt(s), DatagramEnd(s)) \subseteq whole.payload

\* The library's handles are those a capture holds; the ring holds the newest of the
\* packets read since it was cleared, in their order, and knows how many it has lost;
\* whatever is kept was inspected, whether its bytes are kept or not; and those are in
\* an answer only if the deployment keeps them and an administrator asks.
PacketsExact ==
    /\ pcap.native = IF pcap.held THEN 1 ELSE 0
    /\ LET kept == [i \in DOMAIN ring.packets |-> ring.packets[i].number] IN
       /\ kept = SubSeq(read, Len(read) - Len(kept) + 1, Len(read))
       /\ ring.dropped = Len(read) - Len(kept) /\ (ring.dropped > 0 => Len(kept) = RingSize)
    /\ Len(read) <= inspected
    /\ \A role \in {"ADMIN", "USER"}, i \in DOMAIN ring.packets :
        Answer(role)[i].bytes => payloads /\ role = "ADMIN"

\* However much of a segment was looked at: of one that begins with a request line no
\* finding names a secret; of one that begins elsewhere, on a port of HTTP, a finding
\* quotes the first line, and no other secret; and each secret that could be seen on a
\* port of its service has a finding of that service.
ServiceOf(secret) == CASE secret = "basicSecret" -> "basic" [] secret \in {"querySecret", "bodySecret"} -> "form"
                       [] secret = "cookieValue" -> "cookie" [] secret = "ftpSecret" -> "ftp"
                       [] secret = "mailSecret" -> "mail" [] secret = "smtpSecret" -> "smtp"
PortsOf(service) == CASE service = "ftp" -> {21} [] service = "mail" -> {110, 143} [] service = "smtp" -> {25}
                      [] OTHER -> HttpPorts
\* A request: its secrets are in the query, or on a later line.
IsRequest(text) ==
    /\ text # <<>> /\ Head(text) = "method"
    /\ \A i \in DOMAIN text : text[i] \in Secrets =>
        \E h \in 1..i : text[h] = "newline" \/ (text[h] = "query" /\ \A g \in 1..i : text[g] # "blank")
CredentialsExact ==
    /\ \A f \in decoded.found :
        LET text == SeenText(decoded.says, decoded.pieces)
            named == f.evidence \cap Secrets
        IN /\ IsRequest(text) => named = {}
           /\ named \subseteq FirstLine(text)
           /\ f.service \in {"ftp", "telnet", "mail", "smtp"} => named = {}
    /\ decoded.result.payload # {} =>
        \A secret \in SeenPieces(decoded.says, decoded.pieces) \cap Secrets :
            IsOn(decoded.says, PortsOf(ServiceOf(secret))) => \E f \in decoded.found : f.service = ServiceOf(secret)

PathExact == DecodeExact /\ PacketsExact /\ CredentialsExact

\* What the inductive proof adds: the frames that wait are cut from shapes, and only the
\* plain ones carry a message; what was decoded last is one of them; and position for
\* position, the ring is the end of what was read.
FrameOK(f) ==
    /\ f.shape \in Shapes /\ f.length \in 0..WireLength(f.shape)
    /\ f.says \in Messages \cup {NoMessage} /\ f.pieces \in Nat /\ (f.pieces > 0 => f.shape = PlainShape)
KernelOK == \A i \in DOMAIN kernel : FrameOK(kernel[i]) /\ kernel[i].number \in Nat
DecodedOK ==
    /\ FrameOK(decoded) /\ decoded.result = Decode(decoded.shape, decoded.length)
    /\ decoded.found = IF "tcp" \in decoded.result.layers /\ decoded.result.payload # {}
                       THEN CredentialFindings(decoded.says, decoded.pieces) ELSE {}
RingOK ==
    /\ ring \in [packets : Seq([number : Nat, bytes : {payloads}]), dropped : Nat] /\ read \in Seq(Nat)
    /\ ring.dropped = Len(read) - Len(ring.packets) /\ (ring.dropped > 0 => Len(ring.packets) = RingSize)
    /\ \A i \in DOMAIN ring.packets : ring.packets[i].number = read[ring.dropped + i]
PacketInv ==
    /\ pcap.native = IF pcap.held THEN 1 ELSE 0
    /\ kernel \in Seq(ToSet(kernel)) /\ KernelOK /\ DecodedOK /\ payloads \in BOOLEAN
    /\ RingOK /\ inspected \in Nat /\ Len(read) <= inspected /\ sent \in Nat
==============================================================================
