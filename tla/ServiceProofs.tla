---------------------------- MODULE ServiceProofs ----------------------------
(***************************************************************************)
(* Proofs about captured packets, for every shape, length and message, and *)
(* about the page of findings, for every number of sensors and findings;   *)
(* and about MCServices: a behaviour of the services is a behaviour of     *)
(* each component, so that what is proved of the components is proved of   *)
(* the properties the run checks.                                          *)
(***************************************************************************)
EXTENDS MCServices, AdministrationProofs, PartProofs

-----------------------------------------------------------------------------
(* A captured packet *)

\* The sizes of a frame's parts are numbers.
LEMMA Sizes ==
    ASSUME NEW s \in ShapeType
    PROVE  /\ HeaderSize(s) \in Nat /\ TransportSize(s) \in Nat /\ NetworkAt(s) \in Nat
           /\ PayloadAt(s) \in Nat /\ DatagramEnd(s) \in Nat /\ WireLength(s) \in Nat
           /\ PayloadAt(s) = NetworkAt(s) + HeaderSize(s) + TransportSize(s)
           /\ DatagramEnd(s) = PayloadAt(s) + s.payload /\ WireLength(s) = DatagramEnd(s) + s.pad
           /\ s.payload \in Nat /\ s.pad \in Nat
           /\ s.network = "v4" => HeaderSize(s) >= 20
           /\ s.network = "v6" => HeaderSize(s) >= 40
           /\ s.network = "arp" => HeaderSize(s) = 28 /\ TransportSize(s) = 0
           /\ s.network \in {"v4", "v6"} /\ s.transport = "tcp" => TransportSize(s) >= 20
           /\ s.network \in {"v4", "v6"} /\ s.transport = "udp" => TransportSize(s) = 8
           /\ s.link = "ETHERNET" => NetworkAt(s) >= 14 + 4 * s.tags /\ s.tags \in 0..5
           /\ s.link = "ETHERNET" /\ s.framing = "SNAP" => NetworkAt(s) = 22 + 4 * s.tags
<1>1. /\ s.link \in {"ETHERNET", "NULL", "RAW", "DLT_105"} /\ s.framing \in {"II", "SNAP", "LLC"} /\ s.tags \in 0..5
      /\ s.network \in {"v4", "v6", "arp", "other"} /\ s.options \in {0, 4} /\ s.transport \in {"tcp", "udp", "other"}
      /\ s.tcpOptions \in {0, 4} /\ s.payload \in Nat /\ s.pad \in Nat /\ s.declared \in BOOLEAN
  BY DEF ShapeType
<1>2. /\ HeaderSize(s) \in Nat
      /\ s.network = "v4" => HeaderSize(s) >= 20
      /\ s.network = "v6" => HeaderSize(s) >= 40
      /\ s.network = "arp" => HeaderSize(s) = 28
  BY <1>1 DEF HeaderSize
<1>3. /\ TransportSize(s) \in Nat
      /\ s.network = "arp" => TransportSize(s) = 0
      /\ s.network \in {"v4", "v6"} /\ s.transport = "tcp" => TransportSize(s) >= 20
      /\ s.network \in {"v4", "v6"} /\ s.transport = "udp" => TransportSize(s) = 8
  BY <1>1 DEF TransportSize
<1>4. /\ NetworkAt(s) \in Nat
      /\ s.link = "ETHERNET" => NetworkAt(s) >= 14 + 4 * s.tags
      /\ s.link = "ETHERNET" /\ s.framing = "SNAP" => NetworkAt(s) = 22 + 4 * s.tags
  BY <1>1 DEF NetworkAt
<1>5. PayloadAt(s) = NetworkAt(s) + HeaderSize(s) + TransportSize(s) /\ PayloadAt(s) \in Nat
  BY <1>2, <1>3, <1>4 DEF PayloadAt
<1>6. DatagramEnd(s) = PayloadAt(s) + s.payload /\ DatagramEnd(s) \in Nat
  BY <1>1, <1>5 DEF DatagramEnd
<1>7. WireLength(s) = DatagramEnd(s) + s.pad /\ WireLength(s) \in Nat
  BY <1>1, <1>6 DEF WireLength
<1> QED BY <1>1, <1>2, <1>3, <1>4, <1>5, <1>6, <1>7

\* An interval of offsets, its part that was captured.
LEMMA IntervalIs == ASSUME NEW a \in Int, NEW b \in Int PROVE Interval(a, b) = {x \in Int : a <= x /\ x < b}
BY DEF Interval

\* What was captured of an interval.
LEMMA CutInterval ==
    ASSUME NEW a \in Nat, NEW b \in Int, NEW c \in Int, NEW n \in Nat, c = IF b <= n THEN b ELSE n
    PROVE  Interval(a, c) = Interval(a, b) \cap 0..(n - 1)
BY IntervalIs

-----------------------------------------------------------------------------
(* The layers. *)

\* Whether the fixed part of a transport's header was captured, and up to where its datagram was.
Fixed(s) == IF s.transport = "tcp" THEN 20 ELSE IF s.transport = "udp" THEN 8 ELSE 0
SeesTransport(s, n) ==
    s.transport # "other" /\ IsCaptured(NetworkAt(s) + HeaderSize(s), Fixed(s), n)
EndSeen(s, n) == IF s.declared /\ DatagramEnd(s) <= n THEN DatagramEnd(s) ELSE n
EndTold(s, n) == IF s.declared THEN DatagramEnd(s) ELSE n

\* The end that the decoder goes by.
LEMMA EndToldIs ==
    ASSUME NEW s \in ShapeType, NEW n \in Nat
    PROVE  DeclaredEnd(s, n, NetworkAt(s)) = EndTold(s, n)
BY Sizes DEF DeclaredEnd, EndTold

\* What the decoder makes of a transport.
LEMMA TransportIs ==
    ASSUME NEW s \in ShapeType, NEW n \in Nat, s.network \in {"v4", "v6"}
    PROVE  DecodeTransport(s, n, NetworkAt(s) + HeaderSize(s), EndTold(s, n)) =
             IF SeesTransport(s, n)
             THEN [layers |-> {s.transport}, payload |-> Interval(PayloadAt(s), EndSeen(s, n)), pad |-> {}]
             ELSE NoLayers
<1> DEFINE at == NetworkAt(s) + HeaderSize(s)
           end == EndTold(s, n)
           limit == Min({IF end > at THEN end ELSE n, n})
<1>1. at \in Nat /\ end \in Nat /\ s.transport \in {"tcp", "udp", "other"} /\ at + TransportSize(s) = PayloadAt(s)
  BY Sizes DEF ShapeType, EndTold
<1>2. (CASE s.transport = "tcp" -> 20 [] s.transport = "udp" -> 8 [] OTHER -> 0) = Fixed(s)
  BY <1>1 DEF Fixed
<1>3. ASSUME SeesTransport(s, n) PROVE limit = EndSeen(s, n)
  <2>1. at < n /\ at + TransportSize(s) <= DatagramEnd(s) /\ TransportSize(s) > 0 /\ DatagramEnd(s) \in Nat /\ TransportSize(s) \in Nat
    BY <1>1, <1>3, Sizes DEF SeesTransport, IsCaptured, Fixed
  <2>2. end > at
    BY <1>1, <2>1 DEF EndTold
  <2>3. limit = IF end <= n THEN end ELSE n
    BY <1>1, <2>2, SmallerOfTwo
  <2> QED BY <1>1, <2>1, <2>3 DEF EndSeen, EndTold
<1> SUFFICES DecodeTransport(s, n, at, end) =
                IF SeesTransport(s, n)
                THEN [layers |-> {s.transport}, payload |-> Interval(PayloadAt(s), EndSeen(s, n)), pad |-> {}]
                ELSE NoLayers
  OBVIOUS
<1> HIDE DEF at, end
<1>4. DecodeTransport(s, n, at, end) =
        IF s.transport = "other" \/ ~IsCaptured(at, Fixed(s), n) THEN NoLayers
        ELSE [NoLayers EXCEPT !.layers = {s.transport}, !.payload = Interval(at + TransportSize(s), limit)]
  BY <1>2 DEF DecodeTransport
<1>5. SeesTransport(s, n) <=> ~(s.transport = "other" \/ ~IsCaptured(at, Fixed(s), n))
  BY DEF SeesTransport, at
<1> HIDE DEF limit
<1>6. CASE SeesTransport(s, n)
  <2>1. limit = EndSeen(s, n)
    BY <1>3, <1>6
  <2>2. DecodeTransport(s, n, at, end) =
          [NoLayers EXCEPT !.layers = {s.transport}, !.payload = Interval(PayloadAt(s), EndSeen(s, n))]
    BY <1>1, <1>4, <1>5, <1>6, <2>1
  <2> QED BY <1>6, <2>2 DEF NoLayers
<1>7. CASE ~SeesTransport(s, n)
  BY <1>4, <1>5, <1>7
<1> QED BY <1>6, <1>7

\* A network layer's header was captured.
SeesNetwork(s, n) ==
    s.network # "other"
    /\ IsCaptured(NetworkAt(s), IF s.network = "v4" THEN 20 ELSE IF s.network = "v6" THEN 40 ELSE 28, n)
NetworkLayers(s, n) ==
    {s.network} \cup (IF s.network # "arp" /\ SeesTransport(s, n) THEN {s.transport} ELSE {})
PayloadSeen(s, n) == IF s.network # "arp" /\ SeesTransport(s, n) THEN Interval(PayloadAt(s), EndSeen(s, n)) ELSE {}
PadSeen(s, n) == TrailingBytes(IF s.network = "arp" THEN NetworkAt(s) + 28 ELSE EndTold(s, n), n)

\* What it makes of a network layer.
LEMMA NetworkIs ==
    ASSUME NEW s \in ShapeType, NEW n \in Nat
    PROVE  DecodeNetwork(s, n, NetworkAt(s)) =
             IF SeesNetwork(s, n)
             THEN [layers |-> NetworkLayers(s, n), payload |-> PayloadSeen(s, n), pad |-> PadSeen(s, n)]
             ELSE NoLayers
<1>1. s.network \in {"v4", "v6", "arp", "other"}
  BY DEF ShapeType
<1>2. CASE s.network \in {"v4", "v6"}
  <2> DEFINE inner == DecodeTransport(s, n, NetworkAt(s) + HeaderSize(s), EndTold(s, n))
  <2>1. DecodeNetwork(s, n, NetworkAt(s)) =
          IF SeesNetwork(s, n) THEN [layers |-> inner.layers \cup {s.network}, payload |-> inner.payload, pad |-> TrailingBytes(EndTold(s, n), n)]
          ELSE NoLayers
    BY <1>2, EndToldIs DEF DecodeNetwork, SeesNetwork
  <2>2. inner = IF SeesTransport(s, n)
                THEN [layers |-> {s.transport}, payload |-> Interval(PayloadAt(s), EndSeen(s, n)), pad |-> {}]
                ELSE NoLayers
    BY <1>2, TransportIs
  <2> HIDE DEF inner
  <2>3. CASE SeesTransport(s, n)
    <3>1. [layers |-> inner.layers \cup {s.network}, payload |-> inner.payload, pad |-> TrailingBytes(EndTold(s, n), n)] =
            [layers |-> NetworkLayers(s, n), payload |-> PayloadSeen(s, n), pad |-> PadSeen(s, n)]
      <4>1. inner = [layers |-> {s.transport}, payload |-> PayloadSeen(s, n), pad |-> {}]
        BY <1>2, <2>2, <2>3 DEF PayloadSeen, NoLayers
      <4>2. PadSeen(s, n) = TrailingBytes(EndTold(s, n), n)
        BY <1>2 DEF PadSeen
      <4>3. {s.transport} \cup {s.network} = NetworkLayers(s, n)
        BY <1>2, <2>3 DEF NetworkLayers
      <4> QED BY <4>1, <4>2, <4>3
    <3> QED BY <2>1, <3>1
  <2>4. CASE ~SeesTransport(s, n)
    <3>1. [layers |-> inner.layers \cup {s.network}, payload |-> inner.payload, pad |-> TrailingBytes(EndTold(s, n), n)] =
            [layers |-> NetworkLayers(s, n), payload |-> PayloadSeen(s, n), pad |-> PadSeen(s, n)]
      <4>1. inner = [layers |-> {}, payload |-> PayloadSeen(s, n), pad |-> {}]
        BY <1>2, <2>2, <2>4 DEF PayloadSeen, NoLayers
      <4>2. PadSeen(s, n) = TrailingBytes(EndTold(s, n), n)
        BY <1>2 DEF PadSeen
      <4>3. {} \cup {s.network} = NetworkLayers(s, n)
        BY <1>2, <2>4 DEF NetworkLayers
      <4> QED BY <4>1, <4>2, <4>3
    <3> QED BY <2>1, <3>1
  <2> QED BY <2>3, <2>4
<1>3. CASE s.network = "arp"
  <2>1. DecodeNetwork(s, n, NetworkAt(s)) =
          IF SeesNetwork(s, n)
          THEN [NoLayers EXCEPT !.layers = {"arp"}, !.pad = TrailingBytes(NetworkAt(s) + 28, n)] ELSE NoLayers
    BY <1>3 DEF DecodeNetwork, SeesNetwork
  <2>2. NetworkLayers(s, n) = {"arp"} /\ PayloadSeen(s, n) = {} /\ PadSeen(s, n) = TrailingBytes(NetworkAt(s) + 28, n)
    BY <1>3 DEF NetworkLayers, PayloadSeen, PadSeen
  <2> QED BY <2>1, <2>2 DEF NoLayers
<1>4. CASE s.network = "other"
  BY <1>4 DEF DecodeNetwork, SeesNetwork
<1> QED BY <1>1, <1>2, <1>3, <1>4

\* The tags that were captured, the layers of the link, and whether what follows is read.
TagsOf(s) == 1..Min({s.tags, 4})
TagsSeen(s, n) == {i \in TagsOf(s) : IsCaptured(NetworkAt(s) - 4 * s.tags, 4 * i, n)}
LinkLayers(s, n) ==
    IF s.link # "ETHERNET" \/ n < 14 THEN {}
    ELSE {"ethernet"} \cup (IF s.framing # "II" /\ IsCaptured(14, IF s.framing = "LLC" THEN 4 ELSE 3, n) THEN {"llc"} ELSE {})
                     \cup (IF TagsSeen(s, n) # {} /\ s.framing # "LLC" THEN {"vlan"} ELSE {})
GoesOn(s, n) ==
    IF s.link # "ETHERNET" THEN ~(n <= NetworkAt(s) \/ s.network \notin {"v4", "v6"})
    ELSE /\ ~(n < 14)
         /\ s.framing = "II" \/ (s.framing = "SNAP" /\ IsCaptured(14, 8, n))
         /\ TagsSeen(s, n) = TagsOf(s) /\ s.tags <= 4
SeesDatagram(s, n) == GoesOn(s, n) /\ SeesNetwork(s, n)

\* What it makes of a frame.
LEMMA DecodeIs ==
    ASSUME NEW s \in ShapeType, NEW n \in Nat
    PROVE  /\ Decode(s, n).layers = LinkLayers(s, n) \cup (IF SeesDatagram(s, n) THEN NetworkLayers(s, n) ELSE {})
           /\ Decode(s, n).payload = IF SeesDatagram(s, n) THEN PayloadSeen(s, n) ELSE {}
           /\ Decode(s, n).pad = IF SeesDatagram(s, n) THEN PadSeen(s, n) ELSE {}
<1> DEFINE d == DecodeNetwork(s, n, NetworkAt(s))
           inner == IF GoesOn(s, n) THEN d ELSE NoLayers
<1>1. d = IF SeesNetwork(s, n)
          THEN [layers |-> NetworkLayers(s, n), payload |-> PayloadSeen(s, n), pad |-> PadSeen(s, n)] ELSE NoLayers
  BY NetworkIs
<1>2. /\ inner.layers = IF SeesDatagram(s, n) THEN NetworkLayers(s, n) ELSE {}
      /\ inner.payload = IF SeesDatagram(s, n) THEN PayloadSeen(s, n) ELSE {}
      /\ inner.pad = IF SeesDatagram(s, n) THEN PadSeen(s, n) ELSE {}
      /\ inner = [layers |-> inner.layers, payload |-> inner.payload, pad |-> inner.pad]
  <2> HIDE DEF d
  <2> QED BY <1>1 DEF SeesDatagram, NoLayers
<1>3. CASE s.link # "ETHERNET"
  <2>1. Decode(s, n) = inner
    BY <1>3 DEF Decode, GoesOn
  <2> QED BY <1>2, <1>3, <2>1 DEF LinkLayers
<1>4. CASE s.link = "ETHERNET" /\ n < 14
  <2>1. Decode(s, n) = NoLayers /\ ~SeesDatagram(s, n)
    BY <1>4 DEF Decode, SeesDatagram, GoesOn
  <2> QED BY <1>4, <2>1 DEF LinkLayers, NoLayers
<1>5. CASE s.link = "ETHERNET" /\ ~(n < 14)
  <2> DEFINE link == LinkLayers(s, n)
  <2>1. Decode(s, n) = [inner EXCEPT !.layers = @ \cup link]
    <3> HIDE DEF d
    <3>1. TagsSeen(s, n) = {i \in 1..Min({s.tags, 4}) : IsCaptured(NetworkAt(s) - 4 * s.tags, 4 * i, n)}
      BY DEF TagsSeen, TagsOf
    <3> QED BY <1>5, <3>1 DEF Decode, GoesOn, LinkLayers, TagsOf, d
  <2> HIDE DEF inner, link
  <2>2. [inner EXCEPT !.layers = @ \cup link] = [layers |-> inner.layers \cup link, payload |-> inner.payload, pad |-> inner.pad]
    BY <1>2
  <2> QED BY <1>2, <2>1, <2>2 DEF link
<1> QED BY <1>3, <1>4, <1>5

\* Whoever sees more bytes sees no layer less.
LEMMA SeesMore ==
    ASSUME NEW s \in ShapeType, NEW n \in Nat, NEW m \in Nat, n <= m
    PROVE  /\ LinkLayers(s, n) \subseteq LinkLayers(s, m)
           /\ SeesDatagram(s, n) => SeesDatagram(s, m)
           /\ SeesTransport(s, n) => SeesTransport(s, m)
<1>1. ASSUME NEW place \in Int, NEW size \in Int, IsCaptured(place, size, n) PROVE IsCaptured(place, size, m)
  BY <1>1 DEF IsCaptured
<1>2. NetworkAt(s) \in Nat /\ HeaderSize(s) \in Nat /\ Fixed(s) \in Nat /\ s.tags \in 0..5
  BY Sizes DEF Fixed, ShapeType
<1>3. TagsSeen(s, n) \subseteq TagsSeen(s, m) /\ TagsSeen(s, m) \subseteq TagsOf(s)
  <2>1. Min({s.tags, 4}) \in Int
    BY <1>2, SmallerOfTwo
  <2>2. ASSUME NEW i \in TagsOf(s) PROVE NetworkAt(s) - 4 * s.tags \in Int /\ 4 * i \in Int
    BY <1>2, <2>1 DEF TagsOf
  <2> QED BY <1>1, <2>2 DEF TagsSeen
<1>4. LinkLayers(s, n) \subseteq LinkLayers(s, m)
  <2>1. IsCaptured(14, IF s.framing = "LLC" THEN 4 ELSE 3, n) => IsCaptured(14, IF s.framing = "LLC" THEN 4 ELSE 3, m)
    BY <1>1
  <2>2. ~(n < 14) => ~(m < 14)
    OBVIOUS
  <2> QED BY <1>3, <2>1, <2>2 DEF LinkLayers
<1>5. GoesOn(s, n) => GoesOn(s, m)
  <2>1. IsCaptured(14, 8, n) => IsCaptured(14, 8, m)
    BY <1>1
  <2>2. (~(n < 14) => ~(m < 14)) /\ (~(n <= NetworkAt(s)) => ~(m <= NetworkAt(s)))
    BY <1>2
  <2>3. TagsSeen(s, n) = TagsOf(s) => TagsSeen(s, m) = TagsOf(s)
    BY <1>3
  <2> QED BY <2>1, <2>2, <2>3 DEF GoesOn
<1>6. SeesNetwork(s, n) => SeesNetwork(s, m)
  BY <1>1, <1>2 DEF SeesNetwork
<1>7. SeesTransport(s, n) => SeesTransport(s, m)
  BY <1>1, <1>2 DEF SeesTransport
<1> QED BY <1>4, <1>5, <1>6, <1>7 DEF SeesDatagram

\* Which layers say that a transport or a network was seen.
LEMMA LayersTell ==
    ASSUME NEW s \in ShapeType, NEW n \in Nat
    PROVE  /\ Decode(s, n).layers \cap {"tcp", "udp"} # {} <=>
                SeesDatagram(s, n) /\ s.network # "arp" /\ SeesTransport(s, n)
           /\ Decode(s, n).layers \cap {"v4", "v6", "arp"} # {} => SeesDatagram(s, n)
<1>1. LinkLayers(s, n) \subseteq {"ethernet", "llc", "vlan"}
  BY DEF LinkLayers
<1>2. s.network \in {"v4", "v6", "arp", "other"} /\ s.transport \in {"tcp", "udp", "other"}
  BY DEF ShapeType
<1>3. SeesTransport(s, n) => s.transport \in {"tcp", "udp"}
  BY <1>2 DEF SeesTransport
<1>4. Decode(s, n).layers = LinkLayers(s, n) \cup (IF SeesDatagram(s, n) THEN NetworkLayers(s, n) ELSE {})
  BY DecodeIs
<1>5. NetworkLayers(s, n) \cap {"tcp", "udp"} # {} <=> s.network # "arp" /\ SeesTransport(s, n)
  BY <1>2, <1>3 DEF NetworkLayers
<1> QED BY <1>1, <1>4, <1>5

\* What a frame that was cut shows.
LEMMA CutShows ==
    ASSUME NEW s \in ShapeType, NEW n \in 0..WireLength(s), NEW cut, cut = Decode(s, n),
           NEW whole, whole = Decode(s, WireLength(s))
    PROVE  /\ cut.layers \subseteq whole.layers
           /\ cut.layers \cap {"tcp", "udp"} # {} => cut.payload = whole.payload \cap 0..(n - 1)
           /\ s.declared /\ cut.layers \cap {"v4", "v6", "arp"} # {} => cut.pad = whole.pad \cap 0..(n - 1)
           /\ whole.layers \cap {"tcp", "udp"} # {} /\ s.declared =>
                whole.payload = Interval(PayloadAt(s), DatagramEnd(s)) /\ whole.pad = Interval(DatagramEnd(s), WireLength(s))
           /\ whole.layers \cap {"tcp", "udp"} # {} /\ ~s.declared =>
                Interval(PayloadAt(s), DatagramEnd(s)) \subseteq whole.payload
<1> DEFINE W == WireLength(s)
<1>1. W \in Nat /\ n \in Nat /\ n <= W /\ PayloadAt(s) \in Nat /\ DatagramEnd(s) \in Nat /\ DatagramEnd(s) <= W
        /\ NetworkAt(s) \in Nat
  BY Sizes
<1> HIDE DEF W
<1>w. whole = Decode(s, W)
  BY DEF W
<1>2. /\ LinkLayers(s, n) \subseteq LinkLayers(s, W)
      /\ SeesDatagram(s, n) => SeesDatagram(s, W)
      /\ SeesTransport(s, n) => SeesTransport(s, W)
  BY <1>1, SeesMore
<1>3. NetworkLayers(s, n) \subseteq NetworkLayers(s, W)
  BY <1>2 DEF NetworkLayers
<1>4. cut.layers \subseteq whole.layers
  <2>1. cut.layers = LinkLayers(s, n) \cup (IF SeesDatagram(s, n) THEN NetworkLayers(s, n) ELSE {})
    BY <1>1, DecodeIs
  <2>2. whole.layers = LinkLayers(s, W) \cup (IF SeesDatagram(s, W) THEN NetworkLayers(s, W) ELSE {})
    BY <1>1, <1>w, DecodeIs
  <2> QED BY <1>2, <1>3, <2>1, <2>2
<1>5. EndSeen(s, W) = EndTold(s, W) /\ EndSeen(s, n) = (IF EndTold(s, W) <= n THEN EndTold(s, W) ELSE n) /\ EndTold(s, W) \in Nat
  BY <1>1 DEF EndSeen, EndTold
<1>6. ASSUME SeesTransport(s, n) PROVE PayloadSeen(s, n) = PayloadSeen(s, W) \cap 0..(n - 1)
  <2>1. Interval(PayloadAt(s), EndSeen(s, n)) = Interval(PayloadAt(s), EndSeen(s, W)) \cap 0..(n - 1)
    BY <1>1, <1>5, CutInterval
  <2> QED BY <1>2, <1>6, <2>1 DEF PayloadSeen
<1>7. ASSUME cut.layers \cap {"tcp", "udp"} # {} PROVE cut.payload = whole.payload \cap 0..(n - 1)
  <2>1. SeesDatagram(s, n) /\ SeesTransport(s, n)
    BY <1>1, <1>7, LayersTell
  <2>2. cut.payload = PayloadSeen(s, n) /\ whole.payload = PayloadSeen(s, W)
    BY <1>1, <1>2, <1>w, <2>1, DecodeIs
  <2> QED BY <1>6, <2>1, <2>2
<1>8. ASSUME s.declared, cut.layers \cap {"v4", "v6", "arp"} # {} PROVE cut.pad = whole.pad \cap 0..(n - 1)
  <2>1. SeesDatagram(s, n)
    BY <1>1, <1>8, LayersTell
  <2>2. cut.pad = PadSeen(s, n) /\ whole.pad = PadSeen(s, W)
    BY <1>1, <1>2, <1>w, <2>1, DecodeIs
  <2> DEFINE end == IF s.network = "arp" THEN NetworkAt(s) + 28 ELSE DatagramEnd(s)
  <2>3. PadSeen(s, n) = TrailingBytes(end, n) /\ PadSeen(s, W) = TrailingBytes(end, W) /\ end \in Nat
    BY <1>1, <1>8 DEF PadSeen, EndTold
  <2> HIDE DEF end
  <2>4. TrailingBytes(end, n) = TrailingBytes(end, W) \cap 0..(n - 1)
    <3>1. Interval(end, n) = Interval(end, W) \cap 0..(n - 1)
      BY <1>1, <2>3, IntervalIs
    <3> QED BY <3>1 DEF TrailingBytes
  <2> QED BY <2>2, <2>3, <2>4
<1>9. ASSUME whole.layers \cap {"tcp", "udp"} # {}
      PROVE  /\ s.declared => whole.payload = Interval(PayloadAt(s), DatagramEnd(s)) /\ whole.pad = Interval(DatagramEnd(s), WireLength(s))
             /\ ~s.declared => Interval(PayloadAt(s), DatagramEnd(s)) \subseteq whole.payload
  <2>1. SeesDatagram(s, W) /\ SeesTransport(s, W) /\ s.network # "arp"
    BY <1>1, <1>w, <1>9, LayersTell
  <2>2. whole.payload = PayloadSeen(s, W) /\ whole.pad = PadSeen(s, W)
    BY <1>1, <1>w, <2>1, DecodeIs
  <2>3. whole.payload = Interval(PayloadAt(s), EndTold(s, W)) /\ whole.pad = TrailingBytes(EndTold(s, W), W)
    BY <1>5, <2>1, <2>2 DEF PayloadSeen, PadSeen
  <2>4. DatagramEnd(s) > 0
    <3>1. s.network \in {"v4", "v6"}
      BY <2>1 DEF ShapeType, SeesDatagram, SeesNetwork
    <3> QED BY <3>1, Sizes
  <2>5. ASSUME s.declared
        PROVE  whole.payload = Interval(PayloadAt(s), DatagramEnd(s)) /\ whole.pad = Interval(DatagramEnd(s), WireLength(s))
    <3>1. EndTold(s, W) = DatagramEnd(s) /\ ~(DatagramEnd(s) <= 0)
      BY <1>1, <2>4, <2>5 DEF EndTold
    <3> QED BY <2>3, <3>1 DEF TrailingBytes, W
  <2>6. ASSUME ~s.declared PROVE Interval(PayloadAt(s), DatagramEnd(s)) \subseteq whole.payload
    <3>1. EndTold(s, W) = W
      BY <2>6 DEF EndTold
    <3> QED BY <1>1, <2>3, <3>1, IntervalIs
  <2> QED BY <2>5, <2>6
<1> QED BY <1>4, <1>7, <1>8, <1>9

-----------------------------------------------------------------------------
(* Credentials *)

\* The first pieces of a message are a sequence.
LEMMA TextIs ==
    ASSUME NEW s, s \in Seq(ToSet(s)), NEW k \in Nat
    PROVE  DOMAIN SubSeq(s, 1, k) = 1..Len(SubSeq(s, 1, k)) /\ Len(SubSeq(s, 1, k)) \in Nat
OBVIOUS

\* A request's first line shows no secret.
LEMMA RequestsHide ==
    ASSUME NEW text, DOMAIN text = 1..Len(text), Len(text) \in Nat, IsRequest(text)
    PROVE  FirstLine(text) \cap Secrets = {}
<1>1. ASSUME NEW i \in DOMAIN text, ~IsRedacted(text, i), \A h \in 1..i : text[h] # "newline", text[i] \in Secrets
      PROVE  FALSE
  <2>1. PICK h \in 1..i : text[h] = "newline" \/ (text[h] = "query" /\ \A g \in 1..i : text[g] # "blank")
    BY <1>1 DEF IsRequest
  <2>2. text[h] = "query" /\ \A g \in 1..i : text[g] # "blank"
    BY <1>1, <2>1
  <2>3. PICK q \in 1..i : text[q] = "query" /\ \E g \in q..i : text[g] = "blank"
    BY <1>1, <2>2 DEF IsRedacted
  <2>4. PICK g \in q..i : text[g] = "blank"
    BY <2>3
  <2>5. g \in 1..i
    BY <2>3, <2>4
  <2> QED BY <2>2, <2>4, <2>5
<1> QED BY <1>1 DEF FirstLine

\* The secrets a finding names are of the first line, and only on the ports of HTTP.
LEMMA FindingsHide ==
    ASSUME NEW m, NEW k, NEW f \in CredentialFindings(m, k)
    PROVE  /\ f.evidence \cap Secrets \subseteq FirstLine(SeenText(m, k))
           /\ f.service \in {"ftp", "telnet", "mail", "smtp"} => f.evidence \cap Secrets = {}
<1> DEFINE text == SeenText(m, k)
           seen == SeenPieces(m, k)
<1>1. Quotable(text) \cap Secrets \subseteq FirstLine(text)
  BY DEF Quotable, Secrets
<1>2. \A g \in HttpFindings(text) : /\ g.evidence \cap Secrets \subseteq FirstLine(text)
                                   /\ g.service \in {"basic", "form", "cookie"}
  <2> HIDE DEF text
  <2>1. "basicUser" \notin Secrets /\ "formUser" \notin Secrets
    BY DEF Secrets
  <2> DEFINE all == ToSet(text)
             quoted == Quotable(text)
             basic == [service |-> "basic", evidence |-> quoted \cup (all \cap {"basicUser"})]
             byForm == [service |-> "form", evidence |-> quoted \cup (all \cap {"formUser"})]
             byCookie == [service |-> "cookie", evidence |-> quoted]
  <2>2. HttpFindings(text) \subseteq {basic, byForm, byCookie}
    BY DEF HttpFindings
  <2> HIDE DEF quoted, all
  <2>3. \A g \in {basic, byForm, byCookie} :
           /\ g.evidence \cap Secrets \subseteq quoted \cap Secrets
           /\ g.service \in {"basic", "form", "cookie"}
    BY <2>1
  <2> HIDE DEF basic, byForm, byCookie
  <2> QED BY <1>1, <2>2, <2>3 DEF quoted
<1>3. ASSUME NEW service, NEW any, NEW whose, whose \notin Secrets, NEW g \in NamesUser(service, any, whose, seen)
      PROVE  g.evidence \cap Secrets = {}
  BY <1>3 DEF NamesUser
<1>4. "ftpUser" \notin Secrets /\ "mailUser" \notin Secrets /\ "smtpUser" \notin Secrets
  BY DEF Secrets
<1>5. \/ f \in HttpFindings(text) \/ f \in NamesUser("ftp", {"ftpUser", "ftpSecret"}, "ftpUser", seen)
      \/ f = [service |-> "telnet", evidence |-> {}]
      \/ f \in NamesUser("mail", {"mailUser", "mailSecret"}, "mailUser", seen)
      \/ f \in NamesUser("smtp", {"smtpUser", "smtpSecret"}, "smtpUser", seen)
  BY DEF CredentialFindings
<1> HIDE DEF seen, text
<1>6. CASE f \in HttpFindings(text)
  BY <1>2, <1>6 DEF text
<1>7. CASE f \notin HttpFindings(text)
  <2>1. f.evidence \cap Secrets = {}
    BY <1>3, <1>4, <1>5, <1>7
  <2> QED BY <2>1
<1> QED BY <1>6, <1>7

\* A secret that is seen on a port of its service is found.
LEMMA SecretsAreFound ==
    ASSUME NEW m, NEW k, k # 0, NEW secret \in SeenPieces(m, k) \cap Secrets, IsOn(m, PortsOf(ServiceOf(secret)))
    PROVE  \E f \in CredentialFindings(m, k) : f.service = ServiceOf(secret)
<1> DEFINE text == SeenText(m, k)
           seen == ToSet(text)
           any == LooksHttp(m, k) \/ IsOn(m, CleartextPorts \cup HttpPorts)
<1>0. SeenPieces(m, k) = seen
  BY DEF SeenPieces
<1>1. CredentialFindings(m, k) =
        IF k = 0 \/ ~any THEN {}
        ELSE (IF LooksHttp(m, k) \/ IsOn(m, HttpPorts) THEN HttpFindings(text) ELSE {})
             \cup (IF IsOn(m, {21}) THEN NamesUser("ftp", {"ftpUser", "ftpSecret"}, "ftpUser", seen) ELSE {})
             \cup (IF IsOn(m, {23}) THEN {[service |-> "telnet", evidence |-> {}]} ELSE {})
             \cup (IF IsOn(m, {110, 143}) THEN NamesUser("mail", {"mailUser", "mailSecret"}, "mailUser", seen) ELSE {})
             \cup (IF IsOn(m, {25}) THEN NamesUser("smtp", {"smtpUser", "smtpSecret"}, "smtpUser", seen) ELSE {})
  BY <1>0 DEF CredentialFindings
<1>2. ASSUME NEW ports \in SUBSET (CleartextPorts \cup HttpPorts), IsOn(m, ports) PROVE any
  BY <1>2 DEF IsOn
<1>3. {21} \in SUBSET (CleartextPorts \cup HttpPorts) /\ {110, 143} \in SUBSET (CleartextPorts \cup HttpPorts)
        /\ {25} \in SUBSET (CleartextPorts \cup HttpPorts) /\ HttpPorts \in SUBSET (CleartextPorts \cup HttpPorts)
  BY DEF CleartextPorts, HttpPorts
<1>4. secret \in seen
  BY <1>0
<1> HIDE DEF any, text
<1>5. CASE secret \in {"basicSecret", "querySecret", "bodySecret", "cookieValue"}
  <2>1. ServiceOf(secret) = (IF secret = "basicSecret" THEN "basic" ELSE IF secret = "cookieValue" THEN "cookie" ELSE "form")
    BY <1>5 DEF ServiceOf
  <2>2. PortsOf(ServiceOf(secret)) = HttpPorts
    BY <2>1 DEF PortsOf
  <2>3. any /\ IsOn(m, HttpPorts)
    BY <1>2, <1>3, <2>2
  <2>4. HttpFindings(text) \subseteq CredentialFindings(m, k)
    BY <1>1, <2>3
  <2>5. \E f \in HttpFindings(text) : f.service = ServiceOf(secret)
    <3> DEFINE basic == [service |-> "basic", evidence |-> Quotable(text) \cup (seen \cap {"basicUser"})]
               byForm == [service |-> "form", evidence |-> Quotable(text) \cup (seen \cap {"formUser"})]
               byCookie == [service |-> "cookie", evidence |-> Quotable(text)]
    <3>1. basic.service = "basic" /\ byForm.service = "form" /\ byCookie.service = "cookie"
      OBVIOUS
    <3>2. secret = "basicSecret" => basic \in HttpFindings(text)
      BY <1>4 DEF HttpFindings
    <3>3. secret \in {"querySecret", "bodySecret"} => byForm \in HttpFindings(text)
      BY <1>4 DEF HttpFindings
    <3>4. secret = "cookieValue" => byCookie \in HttpFindings(text)
      BY <1>4 DEF HttpFindings
    <3> HIDE DEF basic, byForm, byCookie
    <3> QED BY <1>5, <2>1, <3>1, <3>2, <3>3, <3>4
  <2> QED BY <2>4, <2>5
<1>6. CASE secret \in {"ftpSecret", "mailSecret", "smtpSecret"}
  <2>1. ServiceOf(secret) = (IF secret = "ftpSecret" THEN "ftp" ELSE IF secret = "mailSecret" THEN "mail" ELSE "smtp")
    BY <1>6 DEF ServiceOf
  <2>2. PortsOf(ServiceOf(secret)) = (IF secret = "ftpSecret" THEN {21} ELSE IF secret = "mailSecret" THEN {110, 143} ELSE {25})
    BY <1>6, <2>1 DEF PortsOf
  <2>3. any
    BY <1>2, <1>3, <2>2
  <2>4. CASE secret = "ftpSecret"
    <3>1. NamesUser("ftp", {"ftpUser", "ftpSecret"}, "ftpUser", seen) \subseteq CredentialFindings(m, k)
      BY <1>1, <2>2, <2>3, <2>4
    <3> QED BY <1>4, <2>1, <2>4, <3>1 DEF NamesUser
  <2>5. CASE secret = "mailSecret"
    <3>1. NamesUser("mail", {"mailUser", "mailSecret"}, "mailUser", seen) \subseteq CredentialFindings(m, k)
      BY <1>1, <2>2, <2>3, <2>5
    <3> QED BY <1>4, <2>1, <2>5, <3>1 DEF NamesUser
  <2>6. CASE secret = "smtpSecret"
    <3>1. NamesUser("smtp", {"smtpUser", "smtpSecret"}, "smtpUser", seen) \subseteq CredentialFindings(m, k)
      BY <1>1, <2>2, <2>3, <2>6
    <3> QED BY <1>4, <2>1, <2>6, <3>1 DEF NamesUser
  <2> QED BY <1>6, <2>4, <2>5, <2>6
<1> QED BY <1>5, <1>6 DEF Secrets

-----------------------------------------------------------------------------
(* The ring *)

\* Of two numbers, the greater.
LEMMA LargerOfTwo == ASSUME NEW a \in Int, NEW b \in Int PROVE Max({a, b}) = IF a <= b THEN b ELSE a
<1>1. CASE a <= b
  BY <1>1 DEF Max
<1>2. CASE ~(a <= b)
  BY <1>2 DEF Max
<1> QED BY <1>1, <1>2

\* u is s and then t; u is what s has after its first e.
IsJoin(u, s, t) ==
    /\ Len(u) = Len(s) + Len(t)
    /\ \A i \in 1..Len(s) : u[i] = s[i]
    /\ \A i \in 1..Len(t) : u[Len(s) + i] = t[i]
IsEnd(u, s, e) == Len(u) = Len(s) - e /\ \A i \in 1..Len(u) : u[i] = s[e + i]

\* What a sequence becomes with another at its end.
LEMMA Joined ==
    ASSUME NEW S, NEW s \in Seq(S), NEW t \in Seq(S)
    PROVE  s \o t \in Seq(S) /\ IsJoin(s \o t, s, t)
<1> DEFINE u == s \o t
<1>1. u \in Seq(S) /\ Len(u) = Len(s) + Len(t) /\ Len(s) \in Nat /\ Len(t) \in Nat
  OBVIOUS
<1>2. /\ \A i \in 1..Len(s) : u[i] = s[i]
      /\ \A i \in 1..Len(t) : u[Len(s) + i] = t[i]
  OBVIOUS
<1> HIDE DEF u
<1>3. IsJoin(u, s, t)
  BY <1>1, <1>2 DEF IsJoin
<1> QED BY <1>1, <1>3 DEF u

\* What is left of it without its first.
LEMMA Ended ==
    ASSUME NEW S, NEW s \in Seq(S), NEW e \in Nat, e <= Len(s)
    PROVE  SubSeq(s, e + 1, Len(s)) \in Seq(S) /\ IsEnd(SubSeq(s, e + 1, Len(s)), s, e)
<1> DEFINE u == SubSeq(s, e + 1, Len(s))
<1>1. u \in Seq(S) /\ Len(u) = Len(s) - e /\ Len(s) \in Nat
  OBVIOUS
<1>2. ASSUME NEW i \in 1..Len(u) PROVE u[i] = s[e + i]
  BY <1>1
<1> HIDE DEF u
<1>3. IsEnd(u, s, e)
  BY <1>1, <1>2 DEF IsEnd
<1> QED BY <1>1, <1>3 DEF u

\* p is the end of r, from which the first d were lost to make room; g has the numbers of n.
IsTail(p, r, size, d) ==
    /\ Len(p) \in Nat /\ Len(r) \in Nat /\ size \in Nat /\ d \in Nat
    /\ d = Len(r) - Len(p) /\ (d > 0 => Len(p) = size)
    /\ \A i \in 1..Len(p) : p[i].number = r[d + i]
AreNumbers(g, n) == Len(n) \in Nat /\ Len(g) = Len(n) /\ \A i \in 1..Len(n) : g[i] = n[i].number
Excess(a, size) == IF Len(a) - size >= 0 THEN Len(a) - size ELSE 0

\* The ring stays the end of what was read.
LEMMA RingKeeps ==
    ASSUME NEW P, NEW N, NEW R, NEW G, NEW A, NEW Q, NEW T, NEW size, NEW d,
           IsTail(P, R, size, d), AreNumbers(G, N), IsJoin(A, P, N), IsJoin(T, R, G), IsEnd(Q, A, Excess(A, size))
    PROVE  IsTail(Q, T, size, d + Excess(A, size))
<1> DEFINE e == Excess(A, size)
<1>a. /\ Len(P) \in Nat /\ Len(R) \in Nat /\ size \in Nat /\ d \in Nat
      /\ d = Len(R) - Len(P) /\ (d > 0 => Len(P) = size)
      /\ \A i \in 1..Len(P) : P[i].number = R[d + i]
  BY DEF IsTail
<1>b. Len(N) \in Nat /\ Len(G) = Len(N) /\ \A i \in 1..Len(N) : G[i] = N[i].number
  BY DEF AreNumbers
<1>c. e = IF Len(A) - size >= 0 THEN Len(A) - size ELSE 0
  BY DEF Excess
<1>d. IsEnd(Q, A, e)
  OBVIOUS
<1> HIDE DEF e
<1>1. /\ Len(A) = Len(P) + Len(N) /\ Len(A) \in Nat
      /\ \A i \in 1..Len(P) : A[i] = P[i]
      /\ \A i \in 1..Len(N) : A[Len(P) + i] = N[i]
  BY <1>a, <1>b DEF IsJoin
<1>2. /\ Len(T) = Len(R) + Len(G) /\ Len(T) \in Nat
      /\ \A i \in 1..Len(R) : T[i] = R[i]
      /\ \A i \in 1..Len(G) : T[Len(R) + i] = G[i]
  BY <1>a, <1>b DEF IsJoin
<1>3. e \in Nat /\ e <= Len(A)
  BY <1>1, <1>a, <1>c
<1>4. Len(Q) = Len(A) - e /\ \A i \in 1..Len(Q) : Q[i] = A[e + i]
  BY <1>1, <1>3, <1>d DEF IsEnd
<1>5. ASSUME NEW i \in 1..Len(Q) PROVE Q[i].number = T[d + e + i]
  <2>1. Q[i] = A[e + i] /\ e + i \in 1..Len(A) /\ i \in Nat
    BY <1>1, <1>3, <1>4
  <2>2. CASE e + i <= Len(P)
    <3> DEFINE k == d + e + i
    <3>1. e + i \in 1..Len(P) /\ d + (e + i) = k /\ k \in 1..Len(R)
      BY <1>a, <1>1, <1>2, <1>3, <2>1, <2>2
    <3> HIDE DEF k
    <3>2. Q[i].number = R[k]
      <4>1. P[e + i].number = R[d + (e + i)]
        BY <1>a, <3>1
      <4>2. Q[i] = P[e + i]
        BY <1>1, <2>1, <3>1
      <4> QED BY ONLY <4>1, <4>2, <3>1
    <3>3. T[k] = R[k]
      BY <1>2, <3>1
    <3>4. Q[i].number = T[k]
      BY ONLY <3>2, <3>3
    <3> QED BY <3>4 DEF k
  <2>3. CASE ~(e + i <= Len(P))
    <3> DEFINE j == e + i - Len(P)
    <3>1. j \in 1..Len(N) /\ e + i = Len(P) + j /\ d + e + i = Len(R) + j
      <4> DEFINE p == Len(P)  n == Len(N)  r == Len(R)  a == Len(A)
      <4>1. /\ p \in Nat /\ n \in Nat /\ r \in Nat /\ e \in Nat /\ d \in Nat /\ i \in Nat
            /\ d = r - p /\ a = p + n /\ e + i <= a /\ ~(e + i <= p)
        BY <1>a, <1>b, <1>1, <1>3, <2>1, <2>3
      <4> HIDE DEF p, n, r, a
      <4>2. e + i - p \in 1..n /\ e + i = p + (e + i - p) /\ d + e + i = r + (e + i - p)
        BY ONLY <4>1
      <4> QED BY <4>2 DEF p, n, r
    <3> HIDE DEF j
    <3>2. A[e + i] = N[j]
      BY <1>1, <3>1
    <3>4. Q[i].number = N[j].number
      BY <2>1, <3>2
    <3>3. T[Len(R) + j] = G[j]
      BY <1>b, <1>2, <3>1
    <3>5. G[j] = N[j].number
      BY <1>b, <3>1
    <3> QED BY <3>1, <3>3, <3>4, <3>5
  <2> QED BY <2>2, <2>3
<1>6. d + e = Len(T) - Len(Q) /\ (d + e > 0 => Len(Q) = size)
  <2> DEFINE p == Len(P)  n == Len(N)  r == Len(R)  a == Len(A)  q == Len(Q)  t == Len(T)
  <2>1. /\ p \in Nat /\ n \in Nat /\ r \in Nat /\ d = r - p /\ (d > 0 => p = size) /\ a = p + n
        /\ e = (IF a - size >= 0 THEN a - size ELSE 0) /\ q = a - e /\ t = r + n
    BY <1>a, <1>b, <1>c, <1>1, <1>2, <1>4
  <2> HIDE DEF p, n, r, a, q, t
  <2>2. d + e = t - q /\ (d + e > 0 => q = size)
    <3>1. size \in Nat /\ d \in Nat
      BY <1>a
    <3>2. CASE a - size >= 0
      BY ONLY <2>1, <3>1, <3>2
    <3>3. CASE ~(a - size >= 0)
      BY ONLY <2>1, <3>1, <3>3
    <3> QED BY <3>2, <3>3
  <2> QED BY <2>2 DEF p, n, r, a, q, t
<1>7. Len(Q) \in Nat /\ d + e \in Nat
  BY <1>a, <1>1, <1>3, <1>4
<1>8. IsTail(Q, T, size, d + e)
  BY <1>a, <1>2, <1>5, <1>6, <1>7 DEF IsTail
<1> QED BY <1>8 DEF e

-----------------------------------------------------------------------------
(* The steps *)

\* The invariant of the capture holds before anything is captured.
LEMMA PacketStarts == PacketInit => PacketInv
<1> SUFFICES ASSUME PacketInit PROVE PacketInv
  OBVIOUS
<1> USE DEF PacketInit
<1>1. PlainShape \in ShapeType
  BY PacketAssumption
<1>2. kernel \in Seq(ToSet(kernel)) /\ KernelOK
  <2>1. kernel = <<>> /\ Len(kernel) = 0
    OBVIOUS
  <2> QED BY <2>1 DEF KernelOK, ToSet
<1>3. DecodedOK
  <2>1. WireLength(PlainShape) \in Nat
    BY <1>1, Sizes
  <2>2. Decode(PlainShape, 0) = NoLayers
    <3>1. 0 <= NetworkAt(PlainShape)
      BY <1>1, Sizes
    <3> QED BY <1>1, <3>1 DEF Decode
  <2>3. CredentialFindings(decoded.says, 0) = {} /\ NoLayers.payload = {}
    BY DEF NoLayers, CredentialFindings
  <2>4. PlainShape \in Shapes
    BY PacketAssumption
  <2> QED BY <2>1, <2>2, <2>3, <2>4 DEF DecodedOK, FrameOK, NotDecoded, NoMessage
<1>4. RingOK
  <2>1. ring = [packets |-> <<>>, dropped |-> 0] /\ read = <<>>
    BY DEF EmptyRing
  <2> QED BY <2>1 DEF RingOK
<1> QED BY <1>2, <1>3, <1>4 DEF PacketInv

\* The invariant reads only these variables.
LEMMA PacketRests ==
    ASSUME PacketInv, UNCHANGED packetVars
    PROVE  PacketInv'
BY DEF PacketInv, KernelOK, DecodedOK, FrameOK, RingOK, packetVars

\* What stays of what waited.
LEMMA KeepsRing ==
    ASSUME PacketInv, NEW batch, batch \in Seq(ToSet(batch)), \A i \in 1..Len(batch) : batch[i].number \in Nat,
           ring' = Keep(batch), read' = read \o [i \in DOMAIN batch |-> batch[i].number], payloads' = payloads
    PROVE  RingOK' /\ Len(read') = Len(read) + Len(batch)
<1> DEFINE S == [number : Nat, bytes : {payloads}]
           N == [i \in DOMAIN batch |-> [number |-> batch[i].number, bytes |-> payloads]]
           G == [i \in DOMAIN batch |-> batch[i].number]
           P == ring.packets
           A == P \o N
           e == Max({0, Len(A) - RingSize})
           Q == SubSeq(A, e + 1, Len(A))
           d == ring.dropped
<1>1. DOMAIN batch = 1..Len(batch) /\ Len(batch) \in Nat
  OBVIOUS
<1>2. N \in Seq(S) /\ Len(N) = Len(batch)
  BY <1>1
<1>3. G \in Seq(Nat) /\ Len(G) = Len(batch)
  BY <1>1
<1>4. \A i \in 1..Len(N) : G[i] = N[i].number
  BY <1>1, <1>2
<1>5. /\ ring \in [packets : Seq(S), dropped : Nat] /\ read \in Seq(Nat) /\ d = Len(read) - Len(P)
      /\ d > 0 => Len(P) = RingSize
      /\ \A i \in DOMAIN P : P[i].number = read[d + i]
  BY DEF PacketInv, RingOK
<1>6. P \in Seq(S) /\ d \in Nat /\ Len(P) \in Nat /\ Len(read) \in Nat /\ \A i \in 1..Len(P) : P[i].number = read[d + i]
  <2>1. P \in Seq(S) /\ d \in Nat
    BY <1>5
  <2>2. Len(P) \in Nat /\ Len(read) \in Nat /\ DOMAIN P = 1..Len(P)
    BY <1>5, <2>1
  <2> QED BY <1>5, <2>1, <2>2
<1>7. ring' = [packets |-> Q, dropped |-> d + e] /\ read' = read \o G
  BY DEF Keep
<1>8. RingSize \in Nat
  BY PacketAssumption
<1> HIDE DEF N, G, S, P, d
<1>9. A \in Seq(S) /\ IsJoin(A, P, N)
  BY <1>2, <1>6, Joined
<1>10. read' \in Seq(Nat) /\ IsJoin(read', read, G)
  BY <1>3, <1>5, <1>7, Joined
<1>11. Len(A) \in Nat
  BY <1>9
<1> HIDE DEF A
<1>12. e = Excess(A, RingSize) /\ e \in Nat /\ e <= Len(A)
  <2>1. Len(A) - RingSize \in Int
    BY <1>8, <1>11
  <2>2. e = IF 0 <= Len(A) - RingSize THEN Len(A) - RingSize ELSE 0
    BY <2>1, LargerOfTwo DEF e
  <2> QED BY <1>8, <1>11, <2>1, <2>2 DEF Excess
<1> HIDE DEF e
<1>13. Q \in Seq(S) /\ IsEnd(Q, A, e)
  BY <1>9, <1>12, Ended
<1> HIDE DEF Q
<1>14. IsTail(Q, read', RingSize, d + e)
  <2>1. AreNumbers(G, N)
    BY <1>1, <1>2, <1>3, <1>4 DEF AreNumbers
  <2>2. IsTail(P, read, RingSize, d)
    BY <1>5, <1>6, <1>8 DEF IsTail
  <2> QED BY <1>9, <1>10, <1>12, <1>13, <2>1, <2>2, RingKeeps
<1>15. DOMAIN Q = 1..Len(Q)
  BY <1>13
<1>16. RingOK'
  <2>1. ring'.packets = Q /\ ring'.dropped = d + e /\ ring' \in [packets : Seq(S), dropped : Nat]
    BY <1>6, <1>7, <1>12, <1>13
  <2>2. S = [number : Nat, bytes : {payloads'}]
    BY DEF S
  <2> QED BY <1>10, <1>14, <1>15, <2>1, <2>2 DEF RingOK, IsTail
<1> QED BY <1>3, <1>10, <1>16 DEF IsJoin

\* Consuming batch that waited.
LEMMA ConsumeKeeps ==
    ASSUME PacketInv, NEW batch, batch \in Seq(ToSet(batch)),
           \A i \in 1..Len(batch) : FrameOK(batch[i]) /\ batch[i].number \in Nat, Consume(batch), payloads' = payloads
    PROVE  RingOK' /\ DecodedOK' /\ inspected' \in Nat /\ Len(read') <= inspected'
<1> DEFINE good == IF Supported(pcap.link) THEN batch ELSE <<>>
           last == Last(good)
           result == Decode(last.shape, last.length)
<1>1. /\ ring' = Keep(good) /\ read' = read \o [i \in DOMAIN good |-> good[i].number]
      /\ inspected' = inspected + Len(good)
      /\ decoded' = IF good = <<>> THEN decoded
                    ELSE [shape |-> last.shape, length |-> last.length, says |-> last.says, pieces |-> last.pieces,
                          result |-> result,
                          found |-> IF "tcp" \in result.layers /\ result.payload # {}
                                    THEN CredentialFindings(last.says, last.pieces) ELSE {}]
  BY DEF Consume
<1>2. good \in Seq(ToSet(good)) /\ \A i \in 1..Len(good) : FrameOK(good[i]) /\ good[i].number \in Nat
  <2>1. CASE Supported(pcap.link)
    <3>1. good = batch
      BY <2>1
    <3> HIDE DEF good
    <3> QED BY <3>1
  <2>2. CASE ~Supported(pcap.link)
    <3>1. good = <<>>
      BY <2>2
    <3> HIDE DEF good
    <3>2. Len(good) = 0 /\ good \in Seq(ToSet(good))
      BY <3>1
    <3> QED BY <3>2
  <2> QED BY <2>1, <2>2
<1> HIDE DEF good
<1>3. RingOK' /\ Len(read') = Len(read) + Len(good)
  BY <1>1, <1>2, KeepsRing
<1>4. inspected' \in Nat /\ Len(read') <= inspected'
  <2>1. Len(good) \in Nat /\ inspected \in Nat /\ Len(read) \in Nat /\ Len(read) <= inspected
    BY <1>2 DEF PacketInv, RingOK
  <2> QED BY <1>1, <1>3, <2>1
<1>5. DecodedOK'
  <2>1. CASE good = <<>>
    BY <1>1, <2>1 DEF PacketInv, DecodedOK, FrameOK
  <2>2. CASE good # <<>>
    <3>1. Len(good) \in 1..Len(good)
      BY <1>2, <2>2
    <3>2. FrameOK(last)
      BY <1>2, <3>1 DEF Last
    <3> HIDE DEF last
    <3>3. /\ decoded'.shape = last.shape /\ decoded'.length = last.length /\ decoded'.says = last.says
          /\ decoded'.pieces = last.pieces /\ decoded'.result = result
          /\ decoded'.found = IF "tcp" \in result.layers /\ result.payload # {}
                              THEN CredentialFindings(last.says, last.pieces) ELSE {}
      <4> HIDE DEF result
      <4> QED BY <1>1, <2>2
    <3>4. FrameOK(decoded')
      BY <3>2, <3>3 DEF FrameOK
    <3> QED BY <3>3, <3>4 DEF DecodedOK
  <2> QED BY <2>1, <2>2
<1> QED BY <1>3, <1>4, <1>5

\* What Poll and StopAndDrain read, and what waits after it.
LEMMA FirstFrames ==
    ASSUME PacketInv, NEW k, k = Min({FramesPerTick, Len(kernel)}), NEW f, f = SubSeq(kernel, 1, k),
           NEW g, g = SubSeq(kernel, k + 1, Len(kernel))
    PROVE  /\ f \in Seq(ToSet(f)) /\ g \in Seq(ToSet(g))
           /\ \A i \in 1..Len(f) : FrameOK(f[i]) /\ f[i].number \in Nat
           /\ \A i \in 1..Len(g) : FrameOK(g[i]) /\ g[i].number \in Nat
<1>1. kernel \in Seq(ToSet(kernel)) /\ Len(kernel) \in Nat
  BY DEF PacketInv
<1>2. \A i \in 1..Len(kernel) : FrameOK(kernel[i]) /\ kernel[i].number \in Nat
  BY <1>1 DEF PacketInv, KernelOK
<1>3. k \in Nat /\ k <= Len(kernel)
  <2>1. FramesPerTick \in Nat
    BY PacketAssumption
  <2> QED BY <1>1, <2>1, SmallerOfTwo
<1>4. /\ f \in Seq(ToSet(kernel)) /\ Len(f) = k
      /\ \A i \in 1..Len(f) : f[i] = kernel[i]
  <2> DEFINE u == SubSeq(kernel, 1, k)
  <2>1. u \in Seq(ToSet(kernel)) /\ Len(u) = k
    BY ONLY <1>1, <1>3
  <2>2. ASSUME NEW i \in 1..Len(u) PROVE u[i] = kernel[i]
    BY ONLY <1>1, <1>3, <2>1, <2>2
  <2> HIDE DEF u
  <2>3. f = u
    BY DEF u
  <2> QED BY <2>1, <2>2, <2>3
<1>5. g \in Seq(ToSet(kernel)) /\ IsEnd(g, kernel, k)
  BY <1>1, <1>3, Ended
<1>6. ASSUME NEW s \in Seq(ToSet(kernel)) PROVE s \in Seq(ToSet(s))
  BY DEF ToSet
<1>7. /\ \A i \in 1..Len(f) : FrameOK(f[i]) /\ f[i].number \in Nat
  BY <1>1, <1>2, <1>3, <1>4
<1>8. \A i \in 1..Len(g) : FrameOK(g[i]) /\ g[i].number \in Nat
  <2>1. Len(g) = Len(kernel) - k /\ \A i \in 1..Len(g) : g[i] = kernel[k + i]
    BY <1>5 DEF IsEnd
  <2>2. ASSUME NEW i \in 1..Len(g) PROVE FrameOK(g[i]) /\ g[i].number \in Nat
    <3>1. k + i \in 1..Len(kernel)
      BY <1>1, <1>3, <2>1
    <3> QED BY <1>2, <2>1, <3>1
  <2> QED BY <2>2
<1>9. f \in Seq(ToSet(f))
  BY <1>4, <1>6
<1>10. g \in Seq(ToSet(g))
  BY <1>5, <1>6
<1> QED BY <1>7, <1>8, <1>9, <1>10

\* A frame that arrives, given that it is one.
LEMMA ArrivalKeeps ==
    ASSUME PacketInv, NEW s \in Shapes, NEW n \in 0..WireLength(s), NEW m \in Messages \cup {NoMessage}, NEW k \in Nat,
           k > 0 => s = PlainShape, FrameArrives(s, n, m, k)
    PROVE  PacketInv'
<1> DEFINE f == [shape |-> s, length |-> n, says |-> m, pieces |-> k, number |-> sent']
<1>1. /\ sent' = sent + 1 /\ kernel' = Append(kernel, f)
      /\ UNCHANGED <<library, pcap, payloads, ring, decoded, read, inspected, opens>>
  BY DEF FrameArrives
<1>2. sent' \in Nat
  BY <1>1 DEF PacketInv
<1>3. FrameOK(f) /\ f.number \in Nat
  BY <1>2 DEF FrameOK
<1> HIDE DEF f
<1>4. kernel \in Seq(ToSet(kernel)) /\ KernelOK
  BY DEF PacketInv
<1>5. kernel' \in Seq(ToSet(kernel) \cup {f}) /\ Len(kernel') = Len(kernel) + 1 /\ Len(kernel) \in Nat
        /\ \A i \in 1..Len(kernel') : kernel'[i] = IF i <= Len(kernel) THEN kernel[i] ELSE f
  BY <1>1, <1>4
<1>6. kernel' \in Seq(ToSet(kernel'))
  BY <1>5 DEF ToSet
<1>7. KernelOK'
  <2>1. DOMAIN kernel' = 1..Len(kernel') /\ DOMAIN kernel = 1..Len(kernel)
    BY <1>4, <1>5
  <2>2. ASSUME NEW i \in DOMAIN kernel' PROVE FrameOK(kernel'[i]) /\ kernel'[i].number \in Nat
    BY <1>3, <1>4, <1>5, <2>1 DEF KernelOK
  <2> QED BY <2>2 DEF KernelOK
<1>8. DecodedOK' /\ RingOK'
  BY <1>1 DEF PacketInv, DecodedOK, RingOK
<1> QED BY <1>1, <1>2, <1>6, <1>7, <1>8 DEF PacketInv

\* Every step keeps the invariant.
LEMMA PacketMoves == ASSUME PacketInv, PacketNext PROVE PacketInv'
<1>0. PlainShape \in Shapes /\ PlainShape \in ShapeType
  BY PacketAssumption
<1>a. ASSUME kernel' = <<>> PROVE kernel' \in Seq(ToSet(kernel')) /\ KernelOK'
  <2>1. DOMAIN kernel' = {}
    BY <1>a
  <2> QED BY <1>a, <2>1 DEF KernelOK
<1>1. ASSUME OpenLibrary PROVE PacketInv'
  BY <1>1 DEF OpenLibrary, PacketInv, KernelOK, DecodedOK, RingOK
<1>2. ASSUME OpenLive PROVE PacketInv'
  <2>1. kernel' = <<>> /\ UNCHANGED <<library, payloads, ring, sent, decoded, read, inspected>> /\ ~pcap.held
    BY <1>2 DEF OpenLive
  <2>2. pcap'.native = IF pcap'.held THEN 1 ELSE 0
    <3>1. pcap.native = 0
      BY <2>1 DEF PacketInv
    <3>2. ASSUME NEW outcome, NEW link, pcap' = IF outcome = "open" THEN [native |-> pcap.native + 1, held |-> TRUE, link |-> link] ELSE pcap
          PROVE  pcap'.native = IF pcap'.held THEN 1 ELSE 0
      BY <2>1, <3>1, <3>2
    <3> QED BY <1>2, <3>2 DEF OpenLive
  <2>3. DecodedOK' /\ RingOK'
    BY <2>1 DEF PacketInv, DecodedOK, RingOK
  <2> QED BY <1>a, <2>1, <2>2, <2>3 DEF PacketInv
<1>3. ASSUME Poll PROVE PacketInv'
  <2> DEFINE k == Min({FramesPerTick, Len(kernel)})
             f == SubSeq(kernel, 1, k)
             g == SubSeq(kernel, k + 1, Len(kernel))
  <2>1. Consume(f) /\ kernel' = g /\ UNCHANGED <<library, pcap, payloads, sent, opens>>
    BY <1>3 DEF Poll
  <2>2. /\ f \in Seq(ToSet(f)) /\ g \in Seq(ToSet(g))
        /\ \A i \in 1..Len(f) : FrameOK(f[i]) /\ f[i].number \in Nat
        /\ \A i \in 1..Len(g) : FrameOK(g[i]) /\ g[i].number \in Nat
    BY FirstFrames
  <2> HIDE DEF f, g
  <2>3. RingOK' /\ DecodedOK' /\ inspected' \in Nat /\ Len(read') <= inspected'
    BY <2>1, <2>2, ConsumeKeeps
  <2>4. KernelOK'
    BY <2>1, <2>2 DEF KernelOK
  <2> QED BY <2>1, <2>2, <2>3, <2>4 DEF PacketInv
<1>4. ASSUME ReadFails PROVE PacketInv'
  <2>1. kernel' = <<>> /\ pcap' = Closed(pcap) /\ pcap.held /\ UNCHANGED <<library, payloads, ring, sent, decoded, read, inspected, opens>>
    BY <1>4 DEF ReadFails
  <2>2. pcap'.native = 0 /\ ~pcap'.held
    BY <2>1 DEF PacketInv, Closed
  <2>3. DecodedOK' /\ RingOK'
    BY <2>1 DEF PacketInv, DecodedOK, RingOK
  <2> QED BY <1>a, <2>1, <2>2, <2>3 DEF PacketInv
<1>5. ASSUME StopAndDrain PROVE PacketInv'
  <2> DEFINE k == Min({FramesPerTick, Len(kernel)})
             f == SubSeq(kernel, 1, k)
  <2>1. Consume(f) /\ kernel' = <<>> /\ pcap' = Closed(pcap) /\ pcap.held /\ UNCHANGED <<library, payloads, sent, opens>>
    BY <1>5 DEF StopAndDrain
  <2>2. /\ f \in Seq(ToSet(f))
        /\ \A i \in 1..Len(f) : FrameOK(f[i]) /\ f[i].number \in Nat
    BY FirstFrames
  <2> HIDE DEF f
  <2>3. RingOK' /\ DecodedOK' /\ inspected' \in Nat /\ Len(read') <= inspected'
    BY <2>1, <2>2, ConsumeKeeps
  <2>4. pcap'.native = 0 /\ ~pcap'.held
    BY <2>1 DEF PacketInv, Closed
  <2> QED BY <1>a, <2>1, <2>3, <2>4 DEF PacketInv
<1>6. ASSUME ClearPackets PROVE PacketInv'
  <2>1. ring' = [packets |-> <<>>, dropped |-> 0] /\ read' = <<>> /\ UNCHANGED <<library, pcap, kernel, payloads, sent, decoded, inspected, opens>>
    BY <1>6 DEF ClearPackets, EmptyRing
  <2>2. RingOK' /\ Len(read') = 0
    BY <2>1 DEF RingOK
  <2>3. DecodedOK' /\ KernelOK'
    BY <2>1 DEF PacketInv, DecodedOK, KernelOK
  <2> QED BY <2>1, <2>2, <2>3 DEF PacketInv
<1>7. ASSUME NEW s \in Shapes, NEW n \in 0..WireLength(s), FrameArrives(s, n, NoMessage, 0) PROVE PacketInv'
  BY <1>7, ArrivalKeeps
<1>8. ASSUME NEW m \in Messages, NEW k \in 0..Len(m.pieces), FrameArrives(PlainShape, WireLength(PlainShape), m, k) PROVE PacketInv'
  <2>1. WireLength(PlainShape) \in 0..WireLength(PlainShape)
    BY <1>0, Sizes
  <2> QED BY <1>0, <1>8, <2>1, ArrivalKeeps
<1>9. ASSUME FrameArrives(PlainShape, WireLength(PlainShape), NoMessage, 0) PROVE PacketInv'
  <2>1. WireLength(PlainShape) \in 0..WireLength(PlainShape)
    BY <1>0, Sizes
  <2> QED BY <1>0, <1>9, <2>1, ArrivalKeeps
<1> QED BY <1>1, <1>2, <1>3, <1>4, <1>5, <1>6, <1>7, <1>8, <1>9 DEF PacketNext

\* It says that what is read of a frame is what it says.
LEMMA PacketShows == PacketInv => PathExact
<1> SUFFICES ASSUME PacketInv PROVE PathExact
  OBVIOUS
<1>1. decoded.shape \in ShapeType /\ decoded.length \in 0..WireLength(decoded.shape) /\ decoded.result = Decode(decoded.shape, decoded.length)
  BY PacketAssumption DEF PacketInv, DecodedOK, FrameOK
<1>2. DecodeExact
  BY <1>1, CutShows DEF DecodeExact
<1>3. PacketsExact
  <2> DEFINE P == ring.packets
             d == ring.dropped
             stays == [i \in DOMAIN P |-> P[i].number]
  <2>1. /\ ring \in [packets : Seq([number : Nat, bytes : {payloads}]), dropped : Nat] /\ read \in Seq(Nat)
        /\ d = Len(read) - Len(P) /\ (d > 0 => Len(P) = RingSize)
        /\ \A i \in DOMAIN P : P[i].number = read[d + i]
    BY DEF PacketInv, RingOK
  <2>2. P \in Seq([number : Nat, bytes : {payloads}]) /\ d \in Nat
    BY <2>1
  <2>3. DOMAIN P = 1..Len(P) /\ Len(P) \in Nat /\ Len(read) \in Nat
    BY <2>1, <2>2
  <2>5. ASSUME NEW i \in DOMAIN P PROVE P[i].number \in Nat /\ P[i] = [number |-> P[i].number, bytes |-> payloads]
    <3> DEFINE S == [number : Nat, bytes : {payloads}]
               p == P
    <3>1. p \in Seq(S) /\ i \in DOMAIN p
      BY <2>2
    <3> HIDE DEF p, S
    <3>2. p[i] \in S
      BY ONLY <3>1
    <3> QED BY <3>2 DEF p, S
  <2>4. stays \in Seq(Nat) /\ Len(stays) = Len(P) /\ DOMAIN stays = 1..Len(P)
    <3>1. \A i \in 1..Len(P) : P[i].number \in Nat
      BY <2>3, <2>5
    <3> QED BY <2>3, <3>1
  <2>9. stays = SubSeq(read, Len(read) - Len(stays) + 1, Len(read))
    <3> DEFINE t == SubSeq(read, d + 1, Len(read))
    <3>1. t \in Seq(Nat) /\ IsEnd(t, read, d)
      BY <2>1, <2>2, <2>3, Ended
    <3> HIDE DEF t
    <3>2. Len(t) = Len(P) /\ \A i \in 1..Len(t) : t[i] = read[d + i]
      BY <2>1, <2>3, <3>1 DEF IsEnd
    <3>3. \A i \in 1..Len(P) : stays[i] = t[i]
      BY <2>1, <2>3, <3>2
    <3>4. DOMAIN t = 1..Len(P) /\ t = [i \in DOMAIN t |-> t[i]]
      BY <3>1, <3>2
    <3>5. stays = [i \in DOMAIN stays |-> stays[i]]
      OBVIOUS
    <3> HIDE DEF stays
    <3>6. stays = t
      BY <2>4, <3>3, <3>4, <3>5
    <3>7. Len(read) - Len(stays) = d
      BY <2>1, <2>3, <2>4
    <3> QED BY <3>6, <3>7 DEF t
  <2>6. ASSUME NEW role \in {"ADMIN", "USER"}, NEW i \in DOMAIN P, Answer(role)[i].bytes PROVE payloads /\ role = "ADMIN"
    <3>1. P[i] = [number |-> P[i].number, bytes |-> payloads]
      BY <2>5
    <3>2. Answer(role)[i] = [P[i] EXCEPT !.bytes = @ /\ role = "ADMIN"]
      BY DEF Answer
    <3>3. Answer(role)[i].bytes = (payloads /\ role = "ADMIN")
      BY <3>1, <3>2
    <3> QED BY <2>6, <3>3
  <2>7. pcap.native = (IF pcap.held THEN 1 ELSE 0) /\ Len(read) <= inspected
    BY DEF PacketInv
  <2>8. ring.dropped = Len(read) - Len(stays) /\ (ring.dropped > 0 => Len(stays) = RingSize)
    BY <2>1, <2>4
  <2> HIDE DEF stays
  <2> QED BY <2>6, <2>7, <2>8, <2>9 DEF PacketsExact, stays
<1>4. CredentialsExact
  <2> DEFINE result == decoded.result
  <2>1. /\ decoded.found = IF "tcp" \in result.layers /\ result.payload # {}
                           THEN CredentialFindings(decoded.says, decoded.pieces) ELSE {}
        /\ decoded.pieces \in Nat /\ (decoded.pieces > 0 => decoded.shape = PlainShape)
        /\ decoded.says \in Messages \cup {NoMessage}
    BY DEF PacketInv, DecodedOK, FrameOK
  <2> DEFINE text == SeenText(decoded.says, decoded.pieces)
  <2>0. decoded.says.pieces \in Seq(ToSet(decoded.says.pieces))
    <3>1. CASE decoded.says = NoMessage
      <4>1. decoded.says.pieces = <<>>
        BY <3>1 DEF NoMessage
      <4> QED BY <4>1
    <3>2. CASE decoded.says \in Messages
      BY <3>2, PacketAssumption
    <3> QED BY <2>1, <3>1, <3>2
  <2>t. DOMAIN text = 1..Len(text) /\ Len(text) \in Nat
    BY <2>0, <2>1, TextIs DEF SeenText
  <2>2. ASSUME NEW f \in decoded.found
        PROVE  /\ IsRequest(text) => f.evidence \cap Secrets = {}
               /\ f.evidence \cap Secrets \subseteq FirstLine(text)
               /\ f.service \in {"ftp", "telnet", "mail", "smtp"} => f.evidence \cap Secrets = {}
    <3>1. f \in CredentialFindings(decoded.says, decoded.pieces)
      BY <2>1, <2>2
    <3>2. /\ f.evidence \cap Secrets \subseteq FirstLine(text)
          /\ f.service \in {"ftp", "telnet", "mail", "smtp"} => f.evidence \cap Secrets = {}
      BY <3>1, FindingsHide
    <3>3. IsRequest(text) => FirstLine(text) \cap Secrets = {}
      BY <2>t, RequestsHide
    <3> HIDE DEF text
    <3> QED BY <3>2, <3>3
  <2>3. ASSUME result.payload # {}, NEW secret \in SeenPieces(decoded.says, decoded.pieces) \cap Secrets,
               IsOn(decoded.says, PortsOf(ServiceOf(secret)))
        PROVE  \E f \in decoded.found : f.service = ServiceOf(secret)
    <3>1. decoded.pieces # 0
      <4>2. SubSeq(decoded.says.pieces, 1, 0) = <<>>
        BY <2>0
      <4> QED BY <2>3, <4>2 DEF SeenPieces, SeenText, ToSet
    <3>2. decoded.shape.transport = "tcp"
      <4>1. decoded.shape = PlainShape
        BY <2>1, <3>1
      <4> QED BY <4>1, PacketAssumption
    <3>3. "tcp" \in result.layers
      <4> DEFINE s == decoded.shape
                 n == decoded.length
      <4>1. s \in ShapeType /\ n \in Nat
        BY <1>1, Sizes
      <4>2. SeesDatagram(s, n) /\ PayloadSeen(s, n) # {}
        BY <1>1, <2>3, <4>1, DecodeIs
      <4>3. s.network # "arp" /\ SeesTransport(s, n)
        BY <4>2 DEF PayloadSeen
      <4>4. "tcp" \in NetworkLayers(s, n)
        BY <3>2, <4>3 DEF NetworkLayers
      <4> QED BY <1>1, <4>1, <4>2, <4>4, DecodeIs
    <3>4. decoded.found = CredentialFindings(decoded.says, decoded.pieces)
      BY <2>1, <2>3, <3>3
    <3> QED BY <2>3, <3>1, <3>4, SecretsAreFound
  <2> QED BY <2>2, <2>3 DEF CredentialsExact
<1> QED BY <1>2, <1>3, <1>4 DEF PathExact

\* Together.
LEMMA PacketStep == PacketInv /\ [PacketNext]_packetVars => PacketInv'
BY PacketMoves, PacketRests DEF packetVars

\* A frame, however it is cut, yields the fields that were captured and no other bytes, a secret
\* that it shows is found and, of a request, never repeated, and the ring holds the newest of what was read:
\* for every shape, length, message and ring.
THEOREM PathCorrect == PacketSpec => []PathExact
BY PacketStarts, PacketStep, PacketShows, PTL DEF PacketSpec

-----------------------------------------------------------------------------
(* The page of findings: its listing *)

\* The rows that a filter leaves are in an order.
LEMMA ListedMatchesOrdered ==
    ASSUME ListedOK, NEW key
    PROVE  IsOrdering(ListedMatches(key), [i \in ListedMatches(key) |-> ListedBefore(key, i)])
<1> DEFINE S == ListedMatches(key)
           b == [i \in S |-> ListedBefore(key, i)]
<1>1. S \subseteq DOMAIN listed /\ S \subseteq Nat /\ IsFiniteSet(S)
  <2>1. S \subseteq DOMAIN listed
    BY DEF ListedMatches
  <2> QED BY <2>1, FS_Subset DEF ListedOK
<1>2. ASSUME NEW i \in S PROVE listed[i].rank \in Nat /\ i \in Nat
  BY <1>1, ListAssumption DEF ListedOK
<1>3. ASSUME NEW i \in S, NEW j \in S
      PROVE  j \in b[i] <=> listed[j].rank < listed[i].rank \/ (listed[j].rank = listed[i].rank /\ j > i)
  <2>1. b[i] = ListedBefore(key, i)
    OBVIOUS
  <2> QED BY <2>1 DEF ListedBefore
<1>4. \A i \in S : b[i] \subseteq S
  BY DEF ListedBefore
<1> HIDE DEF S, b
<1>5. \A i \in S : i \notin b[i]
  BY <1>2, <1>3
<1>6. \A i, j \in S : i # j => i \in b[j] \/ j \in b[i]
  BY <1>2, <1>3
<1>7. ASSUME NEW i \in S, NEW j \in S, j \in b[i], NEW k \in b[j] PROVE k \in b[i]
  <2>1. k \in S
    BY <1>4, <1>7
  <2> QED BY <1>2, <1>3, <1>7, <2>1
<1>8. IsOrdering(S, b)
  BY <1>1, <1>4, <1>5, <1>6, <1>7 DEF IsOrdering
<1> QED BY <1>8 DEF S, b

\* What a listing is: the first of that order.
LEMMA ListingIs ==
    ASSUME ListedOK, NEW key
    PROVE  /\ Listing(key) \in Seq(DOMAIN listed) /\ IsFiniteSet(ToSet(Listing(key)))
           /\ \A i \in ToSet(Listing(key)) : i \in ListedMatches(key)
           /\ \A i \in ListedMatches(key) \ ToSet(Listing(key)) :
                /\ Cardinality(ToSet(Listing(key))) = ListLimit
                /\ \A j \in ToSet(Listing(key)) : j \in ListedBefore(key, i)
<1> DEFINE S == ListedMatches(key)
           b == [i \in S |-> ListedBefore(key, i)]
           c == Cardinality(S)
           s == Lined(S, b)
           l == Listing(key)
           k == Min({ListLimit, c})
<1>1. IsOrdering(S, b)
  BY ListedMatchesOrdered
<1>2. /\ s \in Seq(S) /\ Len(s) = c /\ c \in Nat
      /\ \A n \in 1..Len(s) : s[n] \in S /\ Cardinality(b[s[n]]) = n - 1
      /\ \A i \in S : Cardinality(b[i]) + 1 \in 1..Len(s) /\ s[Cardinality(b[i]) + 1] = i
      /\ \A n, m \in 1..Len(s) : n < m => s[n] \in b[s[m]]
  <2> HIDE DEF s, S, b
  <2> QED BY <1>1, LinedIs DEF s
<1>3. k \in Nat /\ k <= c /\ k <= ListLimit /\ ListLimit \in Nat /\ (k < c => k = ListLimit)
  <2>1. c \in Nat /\ ListLimit \in Nat
    BY <1>2, ListAssumption
  <2> HIDE DEF c
  <2>2. k = IF ListLimit <= c THEN ListLimit ELSE c
    BY <2>1, SmallerOfTwo
  <2> QED BY <2>1, <2>2
<1>4. l = [n \in 1..k |-> s[n]]
  <2>1. ASSUME NEW n \in 1..k PROVE s[n] = CHOOSE i \in S : Cardinality(ListedBefore(key, i)) = n - 1
    <3>1. n \in 1..c
      BY <1>2, <1>3
    <3>2. s[n] = CHOOSE i \in S : Cardinality(b[i]) = n - 1
      BY <3>1 DEF Lined
    <3>3. \A i \in S : b[i] = ListedBefore(key, i)
      OBVIOUS
    <3> HIDE DEF b, s, S
    <3> QED BY <3>2, <3>3
  <2>2. l = [n \in 1..k |-> CHOOSE i \in S : Cardinality(ListedBefore(key, i)) = n - 1]
    BY DEF Listing
  <2> HIDE DEF l, s, S, k
  <2> QED BY <2>1, <2>2
<1>5. S \subseteq DOMAIN listed
  BY DEF ListedMatches
<1>6. \A i \in S : b[i] = ListedBefore(key, i)
  OBVIOUS
<1> HIDE DEF S, b, c, s, l, k
<1>7. l \in Seq(S) /\ Len(l) = k /\ DOMAIN l = 1..k
  <2>1. \A n \in 1..k : s[n] \in S
    BY <1>2, <1>3
  <2> QED BY <1>3, <1>4, <2>1
<1>8. ToSet(l) = {s[n] : n \in 1..k}
  BY <1>4, <1>7 DEF ToSet
<1>9. IsFiniteSet(ToSet(l)) /\ ToSet(l) \subseteq S
  <2>1. IsFiniteSet(S)
    BY <1>1 DEF IsOrdering
  <2>2. ToSet(l) \subseteq S
    BY <1>2, <1>3, <1>8
  <2> QED BY <2>1, <2>2, FS_Subset
<1>10. ASSUME NEW i \in S \ ToSet(l) PROVE k < Cardinality(b[i]) + 1 /\ Cardinality(b[i]) + 1 \in 1..c
  <2>1. Cardinality(b[i]) + 1 \in 1..c /\ s[Cardinality(b[i]) + 1] = i
    BY <1>2
  <2>2. Cardinality(b[i]) + 1 \notin 1..k
    BY <1>8, <2>1
  <2> QED BY <1>2, <1>3, <2>1, <2>2
<1>11. ASSUME NEW i \in S \ ToSet(l), NEW j \in ToSet(l) PROVE j \in b[i]
  <2>1. PICK n \in 1..k : j = s[n]
    BY <1>8
  <2>2. n \in 1..Len(s) /\ Cardinality(b[i]) + 1 \in 1..Len(s) /\ n < Cardinality(b[i]) + 1
    BY <1>2, <1>3, <1>10
  <2>3. s[Cardinality(b[i]) + 1] = i
    BY <1>2
  <2> QED BY <1>2, <2>1, <2>2, <2>3
<1>12. ASSUME NEW i \in S \ ToSet(l) PROVE Cardinality(ToSet(l)) = ListLimit
  <2>1. k = ListLimit
    BY <1>2, <1>3, <1>10
  <2>2. ASSUME NEW n \in 1..k, NEW m \in 1..k, s[n] = s[m] PROVE n = m
    <3>1. n \in 1..Len(s) /\ m \in 1..Len(s)
      BY <1>2, <1>3
    <3>2. n - 1 = m - 1
      BY <1>2, <2>2, <3>1
    <3> QED BY <3>2
  <2> DEFINE g == [n \in 1..k |-> s[n]]
  <2>3. g \in [1..k -> ToSet(l)] /\ \A t \in ToSet(l) : \E n \in 1..k : g[n] = t
    BY <1>8
  <2>4. \A n, m \in 1..k : g[n] = g[m] => n = m
    BY <2>2
  <2> HIDE DEF g
  <2>5. g \in Bijection(1..k, ToSet(l))
    BY <2>3, <2>4, Fun_IsBij
  <2>6. ExistsBijection(1..k, ToSet(l))
    BY <2>5 DEF ExistsBijection
  <2>7. IsFiniteSet(1..k) /\ Cardinality(1..k) = k
    BY <1>3, FS_Interval
  <2> QED BY <2>1, <2>6, <2>7, FS_Bijection
<1>13. l \in Seq(DOMAIN listed)
  BY <1>5, <1>7
<1> QED BY <1>6, <1>9, <1>11, <1>12, <1>13 DEF l, S

\* What a listing cuts off comes after all of it.
LEMMA UrgentIsListed == ASSUME ListedOK PROVE NothingUrgentIsCut
<1> SUFFICES ASSUME NEW k \in ListKeys, NEW i \in DOMAIN listed \ ToSet(Listing(k)),
                    ~(k.sensor \notin {EverySensor, listed[i].sensor} \/ (k.openOnly /\ ~listed[i].open))
             PROVE  /\ Cardinality(ToSet(Listing(k))) = ListLimit
                    /\ \A j \in ToSet(Listing(k)) : listed[j].rank < listed[i].rank \/ (listed[j].rank = listed[i].rank /\ j > i)
  BY DEF NothingUrgentIsCut
<1>1. i \in ListedMatches(k)
  BY DEF ListedMatches
<1>2. /\ Cardinality(ToSet(Listing(k))) = ListLimit
      /\ \A j \in ToSet(Listing(k)) : j \in ListedBefore(k, i)
  BY <1>1, ListingIs
<1> QED BY <1>2 DEF ListedBefore

-----------------------------------------------------------------------------
(* The page of findings: its filter *)

\* The row that the cache keeps of a listing.
LEMMA ListRowsAre ==
    ASSUME ListedOK, NEW key \in ListKeys
    PROVE  RowsFor(key) \in Seq([id : Nat, rank : Ranks, of : {key}]) /\ RowsFor(key) # NoRows
<1> DEFINE l == Listing(key)
           S == [id : Nat, rank : Ranks, of : {key}]
<1>1. l \in Seq(DOMAIN listed)
  BY ListingIs
<1>2. RowsFor(key) = [n \in DOMAIN l |-> ListedRow(l[n], key)]
  BY DEF RowsFor
<1> HIDE DEF l
<1>3. \A n \in DOMAIN l : ListedRow(l[n], key) \in S
  <2>1. \A n \in DOMAIN l : l[n] \in DOMAIN listed
    BY <1>1
  <2> QED BY <2>1 DEF ListedRow, ListedOK
<1>4. DOMAIN l = 1..Len(l) /\ Len(l) \in Nat
  BY <1>1
<1> HIDE DEF S
<1>5. RowsFor(key) \in Seq(S)
  BY <1>2, <1>3, <1>4
<1>6. Seq(S) \subseteq Seq([id : Nat, rank : Ranks, of : ListKeys])
  <2>1. S \subseteq [id : Nat, rank : Ranks, of : ListKeys]
    BY DEF S
  <2> QED BY <2>1, SeqOfMore
<1>7. RowsFor(key) # NoRows
  BY <1>5, <1>6, ListAssumption
<1> QED BY <1>5, <1>7 DEF S

\* A page's filter is a key of the cache, and names a sensor or none.
LEMMA ListKeysAre ==
    ASSUME NEW all \in SUBSET SensorIds, NEW choice \in SensorIds \cup {EverySensor}, NEW open \in BOOLEAN
    PROVE  KeyOf(all, choice, open) \in ListKeys /\ Applied(all, choice) \in SensorIds \cup {EverySensor}
BY DEF KeyOf, Applied, ListKeys

\* The list of sensors has sensors.
LEMMA SensorsAre == ASSUME ListedOK PROVE SensorsNow \in SUBSET SensorIds
BY ListAssumption DEF ListedOK, SensorsNow

\* No two sensors share a summary, whatever they are called.
LEMMA SummaryKeysDiffer ==
    ASSUME NEW s \in SensorIds \cup {EverySensor}, NEW t \in SensorIds \cup {EverySensor}, SummaryKey(s) = SummaryKey(t)
    PROVE  s = t
BY ListAssumption DEF SummaryKey

\* Another filter is applied: its rows are there or asked for.
LEMMA SwitchKeeps ==
    ASSUME ListInv, NEW key \in ListKeys, Switch(key)
    PROVE  /\ DOMAIN lists' = ListKeys /\ lastKey' \in ListKeys
           /\ \A k \in ListKeys :
                /\ lists'[k].rows \in {NoRows} \cup Seq([id : Nat, rank : Ranks, of : {k}])
                /\ lists'[k] = Cached(lists'[k].rows, lists'[k].error, lists'[k].asked)
           /\ lists'[key].asked \/ lists'[key].error \/ lists'[key].rows # NoRows
<1>1. /\ DOMAIN lists = ListKeys /\ lastKey \in ListKeys /\ Key \in ListKeys
      /\ \A k \in ListKeys :
            /\ lists[k].rows \in {NoRows} \cup Seq([id : Nat, rank : Ranks, of : {k}])
            /\ lists[k] = Cached(lists[k].rows, lists[k].error, lists[k].asked)
  BY ListKeysAre DEF ListInv, ListCacheOK, Key
<1>2. lastKey' \in ListKeys
  BY <1>1 DEF Switch
<1>3. CASE lists' = FetchAsked(key)
  <2>1. /\ DOMAIN lists' = ListKeys
        /\ \A k \in ListKeys : lists'[k] = IF k = key THEN Cached(lists[key].rows, lists[key].error, TRUE) ELSE lists[k]
    BY <1>1, <1>3 DEF FetchAsked
  <2>2. \A k \in ListKeys :
            /\ lists'[k].rows \in {NoRows} \cup Seq([id : Nat, rank : Ranks, of : {k}])
            /\ lists'[k] = Cached(lists'[k].rows, lists'[k].error, lists'[k].asked)
    BY <1>1, <2>1 DEF Cached
  <2>3. lists'[key].asked
    BY <2>1 DEF Cached
  <2> QED BY <1>2, <2>1, <2>2, <2>3
<1>4. CASE lists[key].rows # NoRows /\ lists' = lists
  BY <1>1, <1>2, <1>4
<1> QED BY <1>3, <1>4 DEF Switch

\* What is cached of a filter is replaced.
LEMMA CacheKeeps ==
    ASSUME ListInv, NEW key \in ListKeys, NEW rows \in {NoRows} \cup Seq([id : Nat, rank : Ranks, of : {key}]),
           NEW error, NEW asked, error \/ asked \/ rows # NoRows, lists' = [lists EXCEPT ![key] = Cached(rows, error, asked)],
           UNCHANGED <<sensors, selected, openOnly, lastKey>>
    PROVE  ListCacheOK'
<1>1. DOMAIN lists = ListKeys
  BY DEF ListInv, ListCacheOK
<1>2. /\ DOMAIN lists' = ListKeys
      /\ \A k \in ListKeys : lists'[k] = IF k = key THEN Cached(rows, error, asked) ELSE lists[k]
  BY <1>1
<1>3. Key' = Key /\ Key \in ListKeys
  <2>1. Key' = Key
    BY DEF Key
  <2> QED BY <2>1, ListKeysAre DEF ListInv, Key
<1>4. ASSUME NEW k \in ListKeys
      PROVE  /\ lists'[k].rows \in {NoRows} \cup Seq([id : Nat, rank : Ranks, of : {k}])
             /\ lists'[k] = Cached(lists'[k].rows, lists'[k].error, lists'[k].asked)
  <2>1. CASE k = key
    BY <1>2, <2>1 DEF Cached
  <2>2. CASE k # key
    BY <1>2, <2>2 DEF ListInv, ListCacheOK
  <2> QED BY <2>1, <2>2
<1>5. lists'[Key].asked \/ lists'[Key].error \/ lists'[Key].rows # NoRows
  <2>1. CASE Key = key
    BY <1>2, <1>3, <2>1 DEF Cached
  <2>2. CASE Key # key
    BY <1>2, <1>3, <2>2 DEF ListInv, ListCacheOK
  <2> QED BY <2>1, <2>2
<1>6. lastKey' \in ListKeys
  BY DEF ListInv, ListCacheOK
<1> QED BY <1>2, <1>3, <1>4, <1>5, <1>6 DEF ListCacheOK

\* The rows that are shown are a sequence, so that the pager counts them.
LEMMA RowCountIs == ASSUME ListInv PROVE RowCount \in Nat
<1>1. Key \in ListKeys /\ lastKey \in ListKeys
  BY ListKeysAre DEF ListInv, ListCacheOK, Key
<1>2. ASSUME NEW k \in ListKeys PROVE Held(k) \in Seq([id : Nat, rank : Ranks, of : {k}])
  BY <1>2 DEF ListInv, ListCacheOK, Held
<1>3. IsFiniteSet(DOMAIN ShownRows)
  <2>1. ASSUME NEW S, NEW s \in Seq(S) PROVE IsFiniteSet(DOMAIN s)
    <3>1. DOMAIN s = 1..Len(s) /\ Len(s) \in Nat
      OBVIOUS
    <3> QED BY <3>1, FS_Interval
  <2> QED BY <1>1, <1>2, <2>1 DEF ShownRows
<1>4. Filtered \subseteq DOMAIN ShownRows
  BY DEF Filtered
<1> QED BY <1>3, <1>4, FS_Subset, FS_CardinalityType DEF RowCount

\* The rows and the tiles are of the filter that the controls show.
LEMMA FilterShows == ListInv => FilterIsHonest
<1> SUFFICES ASSUME ListInv PROVE FilterIsHonest
  OBVIOUS
<1>k. Key \in ListKeys
  BY ListKeysAre DEF ListInv, Key
<1>1. ~lists[Key].asked => \A n \in DOMAIN ShownRows : ShownRows[n].of = Key
  <2> SUFFICES ASSUME ~lists[Key].asked, NEW n \in DOMAIN ShownRows PROVE ShownRows[n].of = Key
    OBVIOUS
  <2>1. ~IsPlaceholder(Key)
    BY DEF ListInv, ListCacheOK, IsPlaceholder
  <2>2. ShownRows = Held(Key)
    BY <2>1 DEF ShownRows
  <2>3. CASE lists[Key].rows = NoRows
    <3>1. ShownRows = <<>>
      BY <2>2, <2>3 DEF Held
    <3> QED BY <3>1
  <2>4. CASE lists[Key].rows # NoRows
    <3>1. ShownRows = lists[Key].rows
      BY <2>2, <2>4 DEF Held
    <3>2. lists[Key].rows \in Seq([id : Nat, rank : Ranks, of : {Key}])
      BY <1>k, <2>4 DEF ListInv, ListCacheOK
    <3> HIDE DEF Key
    <3> DEFINE RowShape == [id : Nat, rank : Ranks, of : {Key}]
    <3>3. ShownRows \in Seq(RowShape)
      BY <3>1, <3>2
    <3> HIDE DEF RowShape
    <3>4. ShownRows[n] \in RowShape
      BY ONLY <3>3, ElementOf, n \in DOMAIN ShownRows
    <3> QED BY <3>4 DEF RowShape
  <2> QED BY <2>3, <2>4
<1>2. ~lists[Key].asked /\ ~lists[Key].error => lists[Key].rows # NoRows
  BY DEF ListInv, ListCacheOK
<1>3. Applied(sensors, selected) \in SensorIds \cup {EverySensor}
  BY ListKeysAre DEF ListInv
<1>4. tiles[SummaryKey(Applied(sensors, selected))] \in {NoRows, Applied(sensors, selected)}
  BY <1>3 DEF ListInv, TilesOK
<1>5. ASSUME Applied(sensors, selected) # EverySensor
      PROVE  Applied(sensors, selected) \in sensors /\ (~MultiSensor(sensors) => sensors = {Applied(sensors, selected)})
  <2>1. Applied(sensors, selected) \in sensors
    BY <1>5 DEF Applied
  <2>2. ASSUME ~MultiSensor(sensors) PROVE sensors = {Applied(sensors, selected)}
    <3>1. IsFiniteSet(sensors) /\ Cardinality(sensors) \in Nat
      BY ListAssumption, FS_Subset, FS_CardinalityType DEF ListInv
    <3>2. Cardinality(sensors) # 0
      BY <2>1, <3>1, FS_EmptySet
    <3>3. Cardinality(sensors) = 1
      BY <2>2, <3>1, <3>2 DEF MultiSensor
    <3> QED BY <2>1, <3>1, <3>3, FS_Singleton
  <2> QED BY <2>1, <2>2
<1> QED BY <1>1, <1>2, <1>4, <1>5 DEF FilterIsHonest

-----------------------------------------------------------------------------
(* The page of findings: its pager *)

\* Products of natural numbers.
LEMMA ProductGrows ==
    ASSUME NEW a \in Nat, NEW b \in Nat, NEW s \in Nat, a <= b
    PROVE  a * s <= b * s
<1>1. (b - a) * s \in Nat
  <2>1. b - a \in Nat
    OBVIOUS
  <2> QED BY <2>1
<1>2. (b - a) * s = b * s - a * s
  OBVIOUS
<1>3. a * s \in Nat /\ b * s \in Nat
  OBVIOUS
<1> QED BY <1>1, <1>2, <1>3

\* The pages that n rows fill.
LEMMA CeilingIs ==
    ASSUME NEW n \in Nat, NEW s \in Nat \ {0}
    PROVE  CeilingOf(n, s) \in Nat /\ \A k \in Nat : k * s < n <=> k < CeilingOf(n, s)
<1> DEFINE q == CeilingOf(n, s)
<1>1. q \in Nat /\ q * s <= n + s - 1 /\ n + s - 1 < q * s + s
  BY DEF CeilingOf
<1> HIDE DEF q
<1>2. ASSUME NEW k \in Nat PROVE k * s < n <=> k < q
  <2>1. CASE k < q
    <3>1. (k + 1) * s <= q * s
      BY <1>1, <2>1, ProductGrows
    <3>2. (k + 1) * s = k * s + s /\ k * s \in Nat /\ q * s \in Nat
      BY <1>1
    <3> QED BY <1>1, <2>1, <3>1, <3>2
  <2>2. CASE ~(k < q)
    <3>1. q * s <= k * s
      BY <1>1, <2>2, ProductGrows
    <3>2. k * s \in Nat /\ q * s \in Nat
      BY <1>1
    <3> QED BY <1>1, <2>2, <3>1, <3>2
  <2> QED BY <2>1, <2>2
<1> QED BY <1>1, <1>2 DEF q

\* The range under the table is that of the rows above it.
LEMMA PagerShows == ListInv => PagerIsHonest
<1> SUFFICES ASSUME ListInv PROVE PagerIsHonest
  OBVIOUS
<1> DEFINE t == RowCount
           s == pager.size
           i == pager.index
           c == CeilingOf(t, s)
           p == PageOf(t)
<1>1. t \in Nat
  BY RowCountIs
<1>2. s \in Nat \ {0} /\ i \in Nat
  BY ListAssumption DEF ListInv
<1>3. c \in Nat /\ \A k \in Nat : k * s < t <=> k < c
  BY <1>1, <1>2, CeilingIs
<1>4. PageCount(t) = (IF 1 <= c THEN c ELSE 1)
  BY <1>3, GreaterOfTwo DEF PageCount
<1>5. Max({i + 1, 1}) = i + 1
  BY <1>2, GreaterOfTwo
<1>6. p = IF i + 1 <= PageCount(t) THEN i + 1 ELSE PageCount(t)
  <2>1. p = Min({i + 1, PageCount(t)})
    BY <1>5 DEF PageOf
  <2>2. i + 1 \in Int /\ PageCount(t) \in Int
    BY <1>2, <1>3, <1>4
  <2> HIDE DEF t, s, i, c, p
  <2> QED BY <2>1, <2>2, SmallerOfTwo
<1> HIDE DEF t, s, i, c, p
<1>7. p \in Nat /\ p >= 1 /\ p <= PageCount(t)
  BY <1>2, <1>3, <1>4, <1>6
<1>8. p * s \in Nat /\ (p - 1) * s \in Nat /\ p * s = (p - 1) * s + s
  <2>1. p - 1 \in Nat
    BY <1>7
  <2> QED BY <1>2, <1>7, <2>1
<1>9. t > 0 => (p - 1) * s < t
  <2> SUFFICES ASSUME t > 0 PROVE (p - 1) * s < t
    OBVIOUS
  <2>1. 0 * s < t
    BY <1>2
  <2>2. 0 < c
    BY <1>3, <2>1
  <2>3. p - 1 < c /\ p - 1 \in Nat
    BY <1>3, <1>4, <1>7, <2>2
  <2> QED BY <1>3, <2>3
<1>10. LastShown(t) = IF p * s <= t THEN p * s ELSE t
  BY <1>1, <1>8, SmallerOfTwo DEF LastShown, p, s
<1>11. FirstShown(t) = IF t = 0 THEN 0 ELSE (p - 1) * s + 1
  BY DEF FirstShown, p, s
<1>12. FirstShown(t) <= LastShown(t) /\ (t > 0 => FirstShown(t) > 0)
  BY <1>1, <1>2, <1>8, <1>9, <1>10, <1>11
<1>13. ASSUME ~OutOfBounds PROVE Body = {n \in 1..t : FirstShown(t) <= n /\ n <= LastShown(t)}
  <2>1. ~(i > 0 /\ i * s >= t)
    BY <1>13 DEF OutOfBounds, i, s, t
  <2>2. Body = {n \in 1..t : i * s < n /\ n <= (i + 1) * s}
    BY DEF Body, i, s, t
  <2>3. CASE t = 0
    BY <2>2, <2>3
  <2>4. CASE t # 0
    <3>1. i * s < t
      <4>1. i = 0 => i * s = 0
        BY <1>2
      <4>2. i * s \in Nat
        BY <1>2
      <4> QED BY <1>1, <1>2, <2>1, <2>4, <4>1, <4>2
    <3>2. i < c
      BY <1>2, <1>3, <3>1
    <3>3. p = i + 1
      BY <1>2, <1>3, <1>4, <1>6, <3>2
    <3>4. p - 1 = i
      BY <1>2, <3>3
    <3>5. ASSUME NEW n \in 1..t
          PROVE  i * s < n /\ n <= (i + 1) * s <=> FirstShown(t) <= n /\ n <= LastShown(t)
      <4>1. FirstShown(t) = i * s + 1 /\ i * s \in Nat
        BY <1>2, <1>11, <2>4, <3>4
      <4>2. LastShown(t) = (IF (i + 1) * s <= t THEN (i + 1) * s ELSE t) /\ (i + 1) * s \in Nat
        BY <1>8, <1>10, <3>3
      <4> QED BY <1>1, <4>1, <4>2
    <3> QED BY <2>2, <3>5
  <2> QED BY <2>3, <2>4
<1> QED BY <1>12, <1>13 DEF PagerIsHonest, t

-----------------------------------------------------------------------------
(* The page of findings: its steps *)

\* The invariant of the list holds before anything is fetched.
LEMMA FindingsStarts == FindingsInit => ListInv
<1> SUFFICES ASSUME FindingsInit PROVE ListInv
  OBVIOUS
<1> DEFINE RowShape == [sensor : SensorIds, rank : Ranks, open : BOOLEAN]
<1>1. listed \in Seq(RowShape)
  BY ListAssumption DEF FindingsInit
<1>2. DOMAIN listed = 1..Len(listed) /\ Len(listed) \in Nat /\ \A i \in DOMAIN listed : listed[i] \in RowShape
  <2> HIDE DEF RowShape
  <2> QED BY <1>1
<1>3. ListedOK
  <2>1. IsFiniteSet(DOMAIN listed)
    BY <1>2, FS_Interval
  <2>2. DOMAIN listed \subseteq Nat
    BY <1>2
  <2> QED BY <1>2, <2>1, <2>2 DEF FindingsInit, ListedOK
<1>4. sensors \in SUBSET SensorIds /\ selected = EverySensor /\ openOnly = TRUE
  BY <1>3, SensorsAre DEF FindingsInit
<1>5. Key \in ListKeys
  BY <1>4, ListKeysAre DEF Key
<1>6. ListCacheOK
  <2>1. DOMAIN lists = ListKeys /\ \A k \in ListKeys : lists[k] = Cached(NoRows, FALSE, k = Key)
    BY DEF FindingsInit
  <2>2. lastKey \in ListKeys /\ lists[Key].asked
    BY <1>5, <2>1 DEF FindingsInit, Cached
  <2> QED BY <2>1, <2>2 DEF ListCacheOK, Cached
<1>7. TilesOK
  <2>1. tiles = [k \in SensorIds \cup {SummaryKey(EverySensor)} |-> NoRows]
    BY DEF FindingsInit
  <2> QED BY <2>1 DEF TilesOK, SummaryKey
<1>8. pager \in [index : Nat, size : PageSizes, search : BOOLEAN]
  <2>1. \E x \in PageSizes : \A y \in PageSizes : x >= y
    BY ListAssumption, LargestOf
  <2>2. Max(PageSizes) \in PageSizes
    BY <2>1 DEF Max
  <2> QED BY <2>2 DEF FindingsInit
<1> QED BY <1>3, <1>4, <1>6, <1>7, <1>8 DEF ListInv

\* The server's rows change, and the page does not.
LEMMA ListedKeeps ==
    ASSUME ListInv, ListedOK', PageUnchanged
    PROVE  ListInv'
<1>1. Key' = Key
  BY DEF PageUnchanged, Key
<1>2. ListCacheOK' /\ TilesOK'
  BY <1>1 DEF ListInv, ListCacheOK, TilesOK, PageUnchanged
<1> QED BY <1>2 DEF ListInv, PageUnchanged

\* Only the pager changes.
LEMMA PagerKeeps ==
    ASSUME ListInv, UNCHANGED <<serverVars, lists, tiles, sensors, selected, openOnly, lastKey>>,
           pager' \in [index : Nat, size : PageSizes, search : BOOLEAN]
    PROVE  ListInv'
<1>1. UNCHANGED <<listed, rolled, lists, tiles, sensors, selected, openOnly, lastKey>>
  BY DEF serverVars
<1>2. Key' = Key
  BY <1>1 DEF Key
<1>3. ListCacheOK' /\ TilesOK' /\ ListedOK'
  BY <1>1, <1>2 DEF ListInv, ListCacheOK, TilesOK, ListedOK
<1> QED BY <1>1, <1>3 DEF ListInv

\* Every step of the server or the page keeps it.
LEMMA FindingsMove == ASSUME ListInv, FindingsNext PROVE ListInv'
<1> DEFINE RowShape == [sensor : SensorIds, rank : Ranks, open : BOOLEAN]
           Ids == DOMAIN listed
<1>l. /\ Ids \subseteq Nat /\ IsFiniteSet(Ids) /\ rolled \subseteq SensorIds
      /\ \A i \in Ids : listed[i] \in RowShape
  BY DEF ListInv, ListedOK
<1>1. ASSUME NEW s \in SensorIds, NEW r \in Ranks, FindingStored(s, r) PROVE ListInv'
  <2> DEFINE id == 1 + Max({0} \cup DOMAIN listed)
  <2>1. /\ listed' = [i \in DOMAIN listed \cup {id} |->
                        IF i = id THEN [sensor |-> s, rank |-> r, open |-> TRUE] ELSE listed[i]]
        /\ rolled' = rolled /\ PageUnchanged
    BY <1>1 DEF FindingStored
  <2>2. id \in Nat
    <3>1. {0} \cup Ids \in SUBSET Nat /\ IsFiniteSet({0} \cup Ids)
      BY <1>l, FS_AddElement
    <3>2. \E x \in {0} \cup Ids : \A y \in {0} \cup Ids : x >= y
      BY <3>1, LargestOf
    <3>3. Max({0} \cup Ids) \in {0} \cup Ids
      BY <3>2 DEF Max
    <3> QED BY <1>l, <3>3
  <2> HIDE DEF id
  <2>3. DOMAIN listed' = Ids \cup {id}
    BY <2>1
  <2>4. \A i \in DOMAIN listed' : listed'[i] \in RowShape
    BY <1>l, <2>1
  <2>5. IsFiniteSet(DOMAIN listed')
    BY <1>l, <2>3, FS_AddElement
  <2>6. ListedOK'
    BY <1>l, <2>1, <2>2, <2>3, <2>4, <2>5 DEF ListedOK
  <2> QED BY <2>1, <2>6, ListedKeeps
<1>2. ASSUME NEW i \in Ids, FindingAcknowledged(i) PROVE ListInv'
  <2>1. listed' = [listed EXCEPT ![i].open = FALSE] /\ rolled' = rolled /\ PageUnchanged
    BY <1>2 DEF FindingAcknowledged
  <2>2. DOMAIN listed' = Ids
    BY <2>1
  <2>3. ASSUME NEW j \in Ids PROVE listed'[j] \in RowShape
    <3>1. listed[j] \in RowShape
      BY <1>l
    <3>2. CASE j = i
      <4>1. listed'[j] = [listed[j] EXCEPT !.open = FALSE]
        BY <1>2, <2>1, <3>2
      <4> QED BY <3>1, <4>1
    <3>3. CASE j # i
      BY <2>1, <3>1, <3>3
    <3> QED BY <3>2, <3>3
  <2>4. ListedOK'
    BY <1>l, <2>1, <2>2, <2>3 DEF ListedOK
  <2> QED BY <2>1, <2>4, ListedKeeps
<1>3. ASSUME NEW i \in Ids, FindingRolledUp(i) PROVE ListInv'
  <2>1. /\ listed' = [j \in DOMAIN listed \ {i} |-> listed[j]] /\ rolled' = rolled \cup {listed[i].sensor} /\ PageUnchanged
    BY <1>3 DEF FindingRolledUp
  <2>2. DOMAIN listed' = Ids \ {i} /\ \A j \in Ids \ {i} : listed'[j] = listed[j]
    BY <2>1
  <2>3. IsFiniteSet(DOMAIN listed') /\ DOMAIN listed' \subseteq Nat
    BY <1>l, <2>2, FS_Subset
  <2>4. listed[i].sensor \in SensorIds
    BY <1>l
  <2>5. ListedOK'
    BY <1>l, <2>1, <2>2, <2>3, <2>4 DEF ListedOK
  <2> QED BY <2>1, <2>5, ListedKeeps
<1>4. ASSUME NEW s \in SensorIds, SensorRetired(s) PROVE ListInv'
  <2> DEFINE left == {i \in DOMAIN listed : listed[i].sensor # s}
  <2>1. listed' = [j \in left |-> listed[j]] /\ rolled' = rolled \ {s} /\ PageUnchanged
    BY <1>4 DEF SensorRetired
  <2>2. left \subseteq Ids
    OBVIOUS
  <2> HIDE DEF left
  <2>3. DOMAIN listed' = left /\ \A j \in left : listed'[j] = listed[j]
    BY <2>1
  <2>4. IsFiniteSet(left)
    BY <1>l, <2>2, FS_Subset
  <2>5. ListedOK'
    BY <1>l, <2>1, <2>2, <2>3, <2>4 DEF ListedOK
  <2> QED BY <2>1, <2>5, ListedKeeps
<1>s. ASSUME NEW key \in ListKeys, Switch(key), Key' = key, UNCHANGED <<listed, rolled>>, TilesOK',
             sensors' \subseteq SensorIds, selected' \in SensorIds \cup {EverySensor}, openOnly' \in BOOLEAN, pager' = pager
      PROVE  ListInv'
  <2>1. ListCacheOK'
    BY <1>s, SwitchKeeps DEF ListCacheOK
  <2>2. ListedOK'
    BY <1>s DEF ListInv, ListedOK
  <2> QED BY <1>s, <2>1, <2>2 DEF ListInv
<1>t. ASSUME tiles' = tiles PROVE TilesOK'
  BY <1>t DEF ListInv, TilesOK
<1>u. sensors \in SUBSET SensorIds /\ selected \in SensorIds \cup {EverySensor} /\ openOnly \in BOOLEAN
      /\ pager \in [index : Nat, size : PageSizes, search : BOOLEAN] /\ Key \in ListKeys
  BY ListKeysAre DEF ListInv, Key
<1>5. ASSUME NEW s \in SensorIds \cup {EverySensor}, SelectSensor(s) PROVE ListInv'
  <2> DEFINE key == KeyOf(sensors, s, openOnly)
  <2>1. selected' = s /\ Switch(key) /\ UNCHANGED <<listed, rolled, tiles, sensors, openOnly, pager>>
    BY <1>5 DEF SelectSensor, serverVars
  <2>2. key \in ListKeys
    BY <1>u, ListKeysAre
  <2>3. Key' = key
    BY <2>1 DEF Key
  <2> HIDE DEF key
  <2> QED BY <1>s, <1>t, <1>u, <2>1, <2>2, <2>3
<1>6. ASSUME SetOpenOnly PROVE ListInv'
  <2> DEFINE key == KeyOf(sensors, selected, ~openOnly)
  <2>1. openOnly' = ~openOnly /\ Switch(key) /\ UNCHANGED <<listed, rolled, tiles, sensors, selected, pager>>
    BY <1>6 DEF SetOpenOnly, serverVars
  <2>2. key \in ListKeys
    BY <1>u, ListKeysAre
  <2>3. Key' = key
    BY <2>1 DEF Key
  <2> HIDE DEF key
  <2> QED BY <1>s, <1>t, <1>u, <2>1, <2>2, <2>3
<1>c. ASSUME NEW key \in ListKeys, NEW rows \in {NoRows} \cup Seq([id : Nat, rank : Ranks, of : {key}]),
             NEW error, NEW asked, error \/ asked \/ rows # NoRows, lists' = [lists EXCEPT ![key] = Cached(rows, error, asked)],
             UNCHANGED <<listed, rolled, tiles, sensors, selected, openOnly, lastKey, pager>>
      PROVE  ListInv'
  <2>1. ListCacheOK'
    BY <1>c, CacheKeeps
  <2>2. ListedOK'
    BY <1>c DEF ListInv, ListedOK
  <2> QED BY <1>c, <1>t, <2>1, <2>2 DEF ListInv
<1>h. ASSUME NEW key \in ListKeys PROVE lists[key].rows \in {NoRows} \cup Seq([id : Nat, rank : Ranks, of : {key}])
  BY DEF ListInv, ListCacheOK
<1>7. ASSUME RefetchList PROVE ListInv'
  <2>1. /\ lists' = [lists EXCEPT ![Key] = Cached(lists[Key].rows, lists[Key].error, TRUE)]
        /\ UNCHANGED <<listed, rolled, tiles, sensors, selected, openOnly, lastKey, pager>>
    BY <1>7 DEF RefetchList, FetchAsked, serverVars
  <2>2. lists[Key].rows \in {NoRows} \cup Seq([id : Nat, rank : Ranks, of : {Key}])
    BY <1>h, <1>u
  <2> QED BY <1>c, <1>u, <2>1, <2>2
<1>8. ASSUME SensorsArrive PROVE ListInv'
  <2> DEFINE key == KeyOf(SensorsNow, selected, openOnly)
  <2>1. /\ sensors' = SensorsNow /\ UNCHANGED <<listed, rolled, tiles, selected, openOnly, pager>>
        /\ IF key = Key THEN UNCHANGED <<lists, lastKey>> ELSE Switch(key)
    BY <1>8 DEF SensorsArrive, serverVars
  <2>2. SensorsNow \in SUBSET SensorIds
    BY SensorsAre DEF ListInv
  <2>3. key \in ListKeys /\ Key' = key
    BY <1>u, <2>1, <2>2, ListKeysAre DEF Key
  <2> HIDE DEF key
  <2>4. CASE key = Key
    <3>1. ListCacheOK'
      BY <2>1, <2>3, <2>4 DEF ListInv, ListCacheOK
    <3>2. ListedOK'
      BY <2>1 DEF ListInv, ListedOK
    <3> QED BY <1>t, <1>u, <2>1, <2>2, <3>1, <3>2 DEF ListInv
  <2>5. CASE key # Key
    BY <1>s, <1>t, <1>u, <2>1, <2>2, <2>3, <2>5
  <2> QED BY <2>4, <2>5
<1>9. ASSUME TilesArrive PROVE ListInv'
  <2> DEFINE s == Applied(sensors, selected)
  <2>1. tiles' = [tiles EXCEPT ![SummaryKey(s)] = s] /\ UNCHANGED <<listed, rolled, lists, sensors, selected, openOnly, lastKey, pager>>
    BY <1>9 DEF TilesArrive, serverVars
  <2>2. s \in SensorIds \cup {EverySensor}
    BY <1>u, ListKeysAre
  <2> HIDE DEF s
  <2>3. TilesOK'
    <3>1. DOMAIN tiles' = DOMAIN tiles
      BY <2>1
    <3>2. ASSUME NEW u \in SensorIds \cup {EverySensor} PROVE tiles'[SummaryKey(u)] \in {NoRows, u}
      <4>1. SummaryKey(u) \in DOMAIN tiles
        BY DEF ListInv, TilesOK, SummaryKey
      <4>2. CASE SummaryKey(u) = SummaryKey(s)
        <5>1. u = s
          BY <2>2, <4>2, SummaryKeysDiffer
        <5> QED BY <2>1, <4>1, <4>2, <5>1
      <4>3. CASE SummaryKey(u) # SummaryKey(s)
        BY <2>1, <4>1, <4>3 DEF ListInv, TilesOK
      <4> QED BY <4>2, <4>3
    <3> QED BY <3>1, <3>2 DEF ListInv, TilesOK
  <2>4. Key' = Key
    BY <2>1 DEF Key
  <2>5. ListCacheOK' /\ ListedOK'
    BY <2>1, <2>4 DEF ListInv, ListCacheOK, ListedOK
  <2> QED BY <2>1, <2>3, <2>5 DEF ListInv
<1>10. ASSUME NEW k \in ListKeys, FindingsArrive(k) PROVE ListInv'
  <2>1. /\ lists' = [lists EXCEPT ![k] = Cached(RowsFor(k), FALSE, FALSE)]
        /\ UNCHANGED <<listed, rolled, tiles, sensors, selected, openOnly, lastKey, pager>>
    BY <1>10 DEF FindingsArrive, serverVars
  <2>2. RowsFor(k) \in Seq([id : Nat, rank : Ranks, of : {k}]) /\ RowsFor(k) # NoRows
    BY ListRowsAre DEF ListInv
  <2> QED BY <1>c, <2>1, <2>2
<1>11. ASSUME NEW k \in ListKeys, FindingsFail(k) PROVE ListInv'
  <2>1. /\ lists' = [lists EXCEPT ![k] = Cached(lists[k].rows, TRUE, FALSE)]
        /\ UNCHANGED <<listed, rolled, tiles, sensors, selected, openOnly, lastKey, pager>>
    BY <1>11 DEF FindingsFail, serverVars
  <2>2. lists[k].rows \in {NoRows} \cup Seq([id : Nat, rank : Ranks, of : {k}])
    BY <1>h
  <2> QED BY <1>c, <2>1, <2>2
<1>p. PageCount(RowCount) \in Nat /\ PageCount(RowCount) >= 1
  <2>1. RowCount \in Nat /\ pager.size \in Nat \ {0}
    BY <1>u, RowCountIs, ListAssumption
  <2>2. CeilingOf(RowCount, pager.size) \in Nat
    BY <2>1, CeilingIs
  <2> QED BY <2>2, GreaterOfTwo DEF PageCount
<1>12. ASSUME NEW size \in PageSizes, SetPageSize(size) PROVE ListInv'
  BY <1>12, <1>u, PagerKeeps DEF SetPageSize
<1>13. ASSUME NEW page \in 1..(MaxListed + 1), GoToPage(page) PROVE ListInv'
  <2>1. page - 1 \in Nat
    BY ListAssumption
  <2> QED BY <1>13, <1>u, <2>1, PagerKeeps DEF GoToPage
<1>14. ASSUME Search PROVE ListInv'
  BY <1>14, <1>u, PagerKeeps DEF Search
<1>15. ASSUME GridResets PROVE ListInv'
  <2>1. PageCount(RowCount) - 1 \in Nat
    BY <1>p
  <2> QED BY <1>15, <1>u, <2>1, PagerKeeps DEF GridResets
<1> QED BY <1>1, <1>2, <1>3, <1>4, <1>5, <1>6, <1>7, <1>8, <1>9, <1>10, <1>11, <1>12, <1>13, <1>14, <1>15 DEF FindingsNext

\* It reads only the list's variables.
LEMMA FindingsRest == ASSUME ListInv, UNCHANGED listVars PROVE ListInv'
<1>1. Key' = Key
  BY DEF listVars, Key
<1>2. ListCacheOK' /\ TilesOK' /\ ListedOK'
  BY <1>1 DEF ListInv, ListCacheOK, TilesOK, ListedOK, listVars
<1> QED BY <1>2 DEF ListInv, listVars

\* Together.
LEMMA FindingsStep == ListInv /\ [FindingsNext]_listVars => ListInv'
BY FindingsMove, FindingsRest

\* It says that the page shows what was asked for.
LEMMA ListShows == ListInv => ListExact
BY UrgentIsListed, FilterShows, PagerShows DEF ListInv, ListExact

\* The page of findings lists the most urgent, shows the rows and the tiles of the filter that
\* its controls show, and its pager the range of the rows above it: for every set of
\* sensors, findings and page sizes.
THEOREM ListCorrect == FindingsSpec => []ListExact
BY FindingsStarts, FindingsStep, ListShows, PTL DEF FindingsSpec

-----------------------------------------------------------------------------
(* The services *)

\* The services start where every component starts.
LEMMA ServicesStart ==
    ServicesInit => /\ AccountsInit /\ SessionInit /\ FormInit /\ SettingsInit
                    /\ ConsoleInit /\ QueryInit /\ MigrationInit
                    /\ LanInit /\ DeskInit /\ NavigationInit
                    /\ DatagramInit /\ ScanInit /\ CheckInit /\ ScopeInit /\ TrendInit
                    /\ ContactInit /\ IntelInit
                    /\ ValueInit /\ PacketInit /\ FindingsInit /\ TrailInit
BY DEF ServicesInit

\* A step of the services is a step of each component, or leaves the component as it is.
LEMMA ServicesMove ==
    [ServicesNext]_servicesVars =>
        /\ [AccountsNext]_accountVars /\ [SessionNext]_sessionVars /\ [FormNext]_formVars
        /\ [SettingsNext]_settingVars /\ [ConsoleNext]_consoleVars /\ [QueryNext]_queryVars
        /\ [MigrationNext]_migrationVars /\ [LanNext]_lanVars /\ [DeskNext]_deskVars
        /\ [NavigationNext]_navVars /\ [DatagramNext]_datagramVars /\ [ScanNext]_scanVars
        /\ [CheckNext]_checkVars /\ [ScopeNext]_scopeVars /\ [TrendNext]_trendVars
        /\ [ContactNext]_contactVars /\ [IntelNext]_intelVars
        /\ [ValueNext]_valueVars /\ [PacketNext]_packetVars
        /\ [FindingsNext]_listVars /\ [TrailNext]_trailVars
<1>1. ServicesNext => /\ AccountsNext \/ UNCHANGED accountVars
                      /\ SessionNext \/ UNCHANGED sessionVars
                      /\ FormNext \/ UNCHANGED formVars
                      /\ SettingsNext \/ UNCHANGED settingVars
                      /\ ConsoleNext \/ UNCHANGED consoleVars
                      /\ QueryNext \/ UNCHANGED queryVars
                      /\ MigrationNext \/ UNCHANGED migrationVars
                      /\ LanNext \/ UNCHANGED lanVars
                      /\ DeskNext \/ UNCHANGED deskVars
                      /\ NavigationNext \/ UNCHANGED navVars
                      /\ DatagramNext \/ UNCHANGED datagramVars
                      /\ ScanNext \/ UNCHANGED scanVars
                      /\ CheckNext \/ UNCHANGED checkVars
                      /\ ScopeNext \/ UNCHANGED scopeVars
                      /\ TrendNext \/ UNCHANGED trendVars
                      /\ ContactNext \/ UNCHANGED contactVars
                      /\ IntelNext \/ UNCHANGED intelVars
                      /\ ValueNext \/ UNCHANGED valueVars
                      /\ PacketNext \/ UNCHANGED packetVars
                      /\ FindingsNext \/ UNCHANGED listVars
                      /\ TrailNext \/ UNCHANGED trailVars
  BY Zenon DEF ServicesNext
<1>2. UNCHANGED servicesVars => /\ UNCHANGED accountVars /\ UNCHANGED sessionVars
                                /\ UNCHANGED formVars /\ UNCHANGED settingVars
                                /\ UNCHANGED consoleVars /\ UNCHANGED queryVars
                                /\ UNCHANGED migrationVars /\ UNCHANGED lanVars
                                /\ UNCHANGED deskVars /\ UNCHANGED navVars
                                /\ UNCHANGED datagramVars /\ UNCHANGED scanVars
                                /\ UNCHANGED checkVars /\ UNCHANGED scopeVars
                                /\ UNCHANGED trendVars /\ UNCHANGED contactVars
                                /\ UNCHANGED intelVars /\ UNCHANGED valueVars
                                /\ UNCHANGED packetVars /\ UNCHANGED listVars
                                /\ UNCHANGED trailVars
  BY DEF servicesVars
<1> QED BY <1>1, <1>2

\* Nobody becomes an administrator, and no page shows somebody, without a right to: in
\* every state of the services, if the stored token is checked before anybody signs in.
THEOREM AccessCorrect == ASSUME CheckedFirst PROVE ServicesSpec => []AccessExact
<1> DEFINE Inv == AccountsInv /\ SessionInv
<1>1. ServicesInit => Inv
  BY ServicesStart, AccountsInitInv, SessionInitInv
<1>2. Inv /\ [ServicesNext]_servicesVars => Inv'
  BY ServicesMove, AccountsStep, SessionStep
<1>3. Inv => AccessExact
  BY OneBootstrap, SessionInvExact DEF AccessExact
<1> QED BY <1>1, <1>2, <1>3, PTL DEF ServicesSpec

\* A save of a settings form changes only what its user means to change (in the delivery and
\* console forms also a field that was put back, or the secret whose clear button was
\* pressed) and drops no other edit, a retry of the bind aside; and once there is an
\* administrator, only a deletion at the command line leaves none: in every step of the
\* services.
THEOREM AdministrationCorrect == ServicesSpec => AdministrationExact
<1> DEFINE Inv == AccountsInv /\ FormInv
           Kept == (part = "form" => EditsKept) /\ (part = "accounts" => AdministratorStays)
<1>1. ServicesInit => Inv
  BY ServicesStart, AccountsInitInv, FormInitInv
<1>2. Inv /\ [ServicesNext]_servicesVars => Inv'
  BY ServicesMove, AccountsStep, FormStep
<1>3. Inv /\ [ServicesNext]_servicesVars => [Kept]_servicesVars
  BY ServicesMove, AccountsStep, SaveKeeps
<1> QED BY <1>1, <1>2, <1>3, PTL DEF ServicesSpec, AdministrationExact

\* A setting is in force as whoever set it last wrote it, in the layer that decides, and has
\* the value its field was given: in every state and step of the services.
THEOREM SettingsCorrect == ServicesSpec => SettingsExact
<1> DEFINE Inv == LayersInv /\ ValueInv
           Faithful == part = "values" => ValuesExact
           Kept == (part = "settings" => LayersKept) /\ (part = "values" => LineKept)
<1>1. ServicesInit => Inv
  BY ServicesStart, LayersInitInv, ValueStarts
<1>2. Inv /\ [ServicesNext]_servicesVars => Inv'
  BY ServicesMove, LayersStep, ValueStep
<1>3. Inv => Faithful
  BY ValueShows
<1>4. Inv /\ Inv' => [Kept]_servicesVars
  BY LayersAreKept, LinesAreKept
<1> QED BY <1>1, <1>2, <1>3, <1>4, PTL DEF ServicesSpec, SettingsExact

\* Every writing statement of the console is audited first; unless restarts have overlapped,
\* the pool's role alone can log in, but for the roles that a failed start or a failed revoke
\* has left so; and what is changed in the database is what the answers promised, but for a
\* COMMIT whose answer was lost and for a COMMIT chained in the text, which takes effect
\* though it is refused: in every state of the services.
THEOREM ConsoleCorrect == ServicesSpec => []ConsoleExact
<1> DEFINE Inv == ConsoleInv /\ QueryInv
<1>1. ServicesInit => Inv
  BY ServicesStart, ConsoleInitInv, QueryInitInv
<1>2. Inv /\ [ServicesNext]_servicesVars => Inv'
  BY ServicesMove, ConsoleStep, QueryStep
<1>3. Inv => ConsoleExact
  BY ConsoleInvSafety, QueryInvExact DEF ConsoleExact
<1> QED BY <1>1, <1>2, <1>3, PTL DEF ServicesSpec

\* Migrations take effect in the order of their numbers and each once, and a process serves
\* only when every one is recorded: in every state of the services, if a process that finds
\* no row in the table of versions is alone and is not cut short.
THEOREM MigrationsCorrect == ASSUME FirstRunAlone PROVE ServicesSpec => []MigrationsExact
<1>1. ServicesInit => MigrationInv
  BY ServicesStart, MigrationStarts
<1>2. MigrationInv /\ [ServicesNext]_servicesVars => MigrationInv'
  BY ServicesMove, MigrationMoves
<1>3. MigrationInv => MigrationsExact
  BY MigrationShows
<1> QED BY <1>1, <1>2, <1>3, PTL DEF ServicesSpec

\* What arrives from the network is counted, decoded and noticed as it is, in every state of
\* the services.  A device on the network is asked to be written again within the interval,
\* whichever upserts fail or overtake each other, and reported once while the table of
\* devices fits.  No finding names a secret of a segment that begins with a request line;
\* of another segment on a port of HTTP it quotes the first line, whatever is in it.
THEOREM TrafficCorrect == ServicesSpec => []TrafficExact
<1> DEFINE Inv == DatagramInv /\ ScanInv /\ LanInv /\ PacketInv
<1>1. ServicesInit => Inv
  BY ServicesStart, DatagramAssumption, ScanAssumption, DatagramStarts, ScanStarts, LanInitInv,
     PacketStarts
<1>2. Inv /\ [ServicesNext]_servicesVars => Inv'
  BY ServicesMove, DatagramAssumption, ScanAssumption, DatagramStep, ScanStep, LanStep,
     PacketStep
<1>3. Inv => TrafficExact
  BY DatagramShows, ScanAssumption, ScanShows, PacketShows DEF LanInv, LanPictureExact, TrafficExact
<1> QED BY <1>1, <1>2, <1>3, PTL DEF ServicesSpec

\* What several people do to findings at once is in the audit trail as it took effect, each
\* sees the effect of their own, the pages of findings and of the audit trail show what the
\* server holds and was asked for, and the navigation shows where one is: in every state of
\* the services.
THEOREM PagesCorrect == ServicesSpec => []PagesExact
<1> DEFINE Inv == DeskInv /\ NavigationInv /\ ListInv /\ TrailInv
<1>1. ServicesInit => Inv
  BY ServicesStart, DeskInitInv, NavigationInitInv, FindingsStarts, TrailStarts
<1>2. Inv /\ [ServicesNext]_servicesVars => Inv'
  BY ServicesMove, DeskStep, NavigationStep, FindingsStep, TrailStep
<1>3. Inv => PagesExact
  BY DeskShows, NavigationShows, ListShows, TrailShows DEF PagesExact
<1> QED BY <1>1, <1>2, <1>3, PTL DEF ServicesSpec

\* A test of the channels tells what became of it, a save is refused for what is wrong with
\* it, and an open page's list of sensors is recent: in every state of the services.
THEOREM DeliveryCorrect == ServicesSpec => []DeliveryExact
<1> DEFINE Inv == CheckInv /\ ScopeInv
<1>1. ServicesInit => Inv
  BY ServicesStart, SavedAssumption, ScopeAssumption, CheckStarts, ScopeStarts
<1>2. Inv /\ [ServicesNext]_servicesVars => Inv'
  BY ServicesMove, SavedAssumption, ScopeAssumption, CheckStep, ScopeStep
<1>3. Inv => DeliveryExact
  BY CheckShows, ScopeAssumption, ScopeShows DEF DeliveryProved, DeliveryExact
<1> QED BY <1>1, <1>2, <1>3, PTL DEF ServicesSpec

\* No bar of the chart that is drawn is off by more than the findings that were written, or
\* swept into the roll-up, between the two reads of it; what is written and swept before the
\* first or after the second changes nothing; and a section that is opened or closed is the
\* one that was meant: in every step of the services.
THEOREM ScreensCorrect == ServicesSpec => ScreensExact
<1> DEFINE Inv == TrendInv /\ NavigationInv
           Honest == (part = "trend" => TrendShown) /\ (part = "navigation" => HeadersTrue)
<1>1. ServicesInit => Inv
  BY ServicesStart, TrendAssumption, TrendStarts, NavigationInitInv
<1>2. Inv /\ [ServicesNext]_servicesVars => Inv'
  BY ServicesMove, TrendAssumption, TrendStep, NavigationStep
<1>3. Inv /\ Inv' /\ [ServicesNext]_servicesVars => [Honest]_servicesVars
  BY ServicesMove, TrendAssumption, TrendStepShown, HeadersStep
<1> QED BY <1>1, <1>2, <1>3, PTL DEF ServicesSpec, ScreensExact

\* A contact with a listed address leaves each of its pairings with a finding within the
\* pause, or raises one now for another thing that the same contact matches, or is a flow
\* whose target is pausing; a tunnel in the names that are asked for is reported.  A look-up
\* answers as the indicators do that the sources delivered last, whole up to the source that
\* the ceiling cuts, of which a part is in force, and none from a later one: in every step of
\* the services, if INTEL_FEEDS lists no source twice.
THEOREM IntelCorrect == ASSUME SourcesDiffer PROVE ServicesSpec => IntelExact
<1> DEFINE Inv == ContactInv /\ IntelInv
           Told == (part = "intel" => PublishedExactly) /\ (part = "contacts" => ContactReported)
<1>1. ServicesInit => Inv
  BY ServicesStart, ContactAssumption, IntelAssumption, ContactStarts, IntelStarts
<1>2. Inv /\ [ServicesNext]_servicesVars => Inv'
  BY ServicesMove, ContactAssumption, IntelAssumption, ContactStep, IntelStep
<1>3. Inv /\ Inv' => Told
  BY ContactAssumption, IntelAssumption, ContactShows, IntelShows
<1> QED BY <1>1, <1>2, <1>3, PTL DEF ServicesSpec, IntelExact

==============================================================================
