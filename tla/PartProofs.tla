----------------------------- MODULE PartProofs -----------------------------
(***************************************************************************)
(* Proofs about seven of the parts that MCServices puts together: the      *)
(* picture of the local network, for every number of packets, machines and *)
(* addresses; the desk of findings, for every number of analysts, findings *)
(* and presses; the navigation, for every set of pages, sections and       *)
(* search terms; the datagrams of the flow collector, for every number of  *)
(* exporters and sets; the windows of the scan detector, for every number  *)
(* of hosts, ports and probes; contacts with what is listed, for every     *)
(* list, key and pause; and the indicator feeds, for every set of sources, *)
(* ranges and addresses.                                                   *)
(***************************************************************************)
EXTENDS LanDetectors, AlertDesk, Navigation, FlowDatagrams, ScanWindows,
        ContactDetectors, ThreatIntel,
        FiniteSums, FiniteSetTheorems, FunctionTheorems,
        TLAPS

-----------------------------------------------------------------------------
(* The picture of the local network *)

\* A sequence is indexed from one; what it becomes with one more or without its first.
LEMMA Indexed ==
    ASSUME NEW S, NEW s \in Seq(S)
    PROVE  Len(s) \in Nat /\ DOMAIN s = 1..Len(s) /\ \A i \in 1..Len(s) : s[i] \in S
OBVIOUS

LEMMA Longer ==
    ASSUME NEW S, NEW s \in Seq(S), NEW e \in S, NEW t, t = Append(s, e)
    PROVE  /\ t \in Seq(S) /\ Len(t) = Len(s) + 1 /\ t[Len(s) + 1] = e
           /\ \A i \in 1..Len(s) : t[i] = s[i]
OBVIOUS

LEMMA Shorter ==
    ASSUME NEW S, NEW s \in Seq(S), s # <<>>, NEW t, t = Tail(s)
    PROVE  t \in Seq(S) /\ Len(t) = Len(s) - 1 /\ \A i \in 1..Len(t) : t[i] = s[i + 1]
OBVIOUS

\* By how many places what was there moves when one more claim is remembered.
Shift(last) == IF Len(last) = Trusted + 1 THEN 1 ELSE 0

\* The last claims with one more are the claims with one more, or those without the first.
LEMMA RecentIs ==
    ASSUME NEW q \in Seq(Macs), NEW mac \in Macs, Len(q) \in 0..(Trusted + 1),
           NEW r, r = Recent(Append(q, mac))
    PROVE  /\ r \in Seq(Macs) /\ Len(r) = Len(q) + 1 - Shift(q) /\ r[Len(r)] = mac
           /\ \A j \in 1..(Len(r) - 1) : r[j] = q[j + Shift(q)]
<1> DEFINE a == Append(q, mac)
<1>t. Trusted \in Nat /\ Trusted >= 1
  BY LanAssumption
<1>1. a \in Seq(Macs) /\ Len(a) = Len(q) + 1 /\ a[Len(q) + 1] = mac /\ \A i \in 1..Len(q) : a[i] = q[i]
  BY Longer
<1>2. r = IF Len(a) > Trusted + 1 THEN Tail(a) ELSE a
  BY DEF Recent
<1>3. Len(q) \in Nat
  OBVIOUS
<1> HIDE DEF a
<1>4. CASE Len(q) = Trusted + 1
  <2>1. r = Tail(a) /\ a # <<>>
    BY <1>t, <1>1, <1>2, <1>3, <1>4
  <2>2. r \in Seq(Macs) /\ Len(r) = Len(a) - 1 /\ \A i \in 1..Len(r) : r[i] = a[i + 1]
    BY <1>1, <2>1, Shorter
  <2>3. Len(r) = Len(q) + 1 - 1 /\ Len(r) \in 1..Len(r) /\ Len(r) + 1 = Len(q) + 1
    BY <1>t, <1>1, <1>3, <1>4, <2>2
  <2>4. r[Len(r)] = mac
    BY <1>1, <2>2, <2>3
  <2>5. ASSUME NEW j \in 1..(Len(r) - 1) PROVE r[j] = q[j + 1]
    <3>1. j \in 1..Len(r) /\ j + 1 \in 1..Len(q)
      BY <1>3, <2>3
    <3> QED BY <1>1, <2>2, <3>1
  <2>6. Shift(q) = 1
    BY <1>4 DEF Shift
  <2> QED BY <2>2, <2>3, <2>4, <2>5, <2>6
<1>5. CASE Len(q) # Trusted + 1
  <2>1. r = a
    BY <1>t, <1>1, <1>2, <1>3, <1>5
  <2>2. ASSUME NEW j \in 1..(Len(r) - 1) PROVE r[j] = q[j + 0]
    <3>1. j \in 1..Len(q) /\ j + 0 = j
      BY <1>1, <1>3, <2>1
    <3> QED BY <1>1, <2>1, <3>1
  <2>3. Len(r) = Len(q) + 1 - 0
    BY <1>1, <1>3, <2>1
  <2>4. Shift(q) = 0
    BY <1>5 DEF Shift
  <2> QED BY <1>1, <2>1, <2>2, <2>3, <2>4
<1> QED BY <1>4, <1>5

\* The count goes on with the claims: the first one, the same MAC again, and another.
LEMMA FirstCounts ==
    ASSUME NEW ip \in Ips, NEW mac \in Macs, NEW q, q = <<>>, NEW r, r = Recent(Append(q, mac))
    PROVE  Counts(Claim(ip, mac), r) /\ r \in Seq(Macs)
<1>1. q \in Seq(Macs) /\ Len(q) = 0 /\ Trusted \in Nat /\ Trusted >= 1
  BY LanAssumption
<1>2. Len(q) \in 0..(Trusted + 1) /\ Shift(q) = 0
  BY <1>1 DEF Shift
<1>3. r \in Seq(Macs) /\ Len(r) = Len(q) + 1 - Shift(q) /\ r[Len(r)] = mac
  <2>1. q \in Seq(Macs) /\ Len(q) \in 0..(Trusted + 1)
    BY <1>1, <1>2
  <2>2. r \in Seq(Macs)
    BY <2>1, RecentIs
  <2>3. Len(r) = Len(q) + 1 - Shift(q)
    BY <2>1, RecentIs
  <2>4. r[Len(r)] = mac
    BY <2>1, RecentIs
  <2> QED BY <2>2, <2>3, <2>4
<1>4. r \in Seq(Macs) /\ Len(r) = 1 /\ r[1] = mac
  BY <1>1, <1>2, <1>3
<1>5. Claim(ip, mac).observations = 1 /\ Claim(ip, mac).mac = mac
  BY DEF Claim
<1>6. \A j \in (Len(r) - 1 + 1)..Len(r) : r[j] = mac
  BY <1>4
<1>7. Len(r) \in 1..(Trusted + 1)
  BY <1>1, <1>4
<1> HIDE DEF Claim
<1> QED BY <1>4, <1>5, <1>6, <1>7 DEF Counts

LEMMA AgainCounts ==
    ASSUME NEW b \in Binding, NEW q \in Seq(Macs), Counts(b, q), NEW mac \in Macs, mac = b.mac,
           NEW r, r = Recent(Append(q, mac))
    PROVE  /\ Counts(Repeated(b), r) /\ r \in Seq(Macs)
           /\ Len(r) = Trusted + 1 => r[Trusted + 1] = r[Trusted]
<1> DEFINE n == Len(q)
           o == b.observations
           p == Repeated(b).observations
<1>t. Trusted \in Nat /\ Trusted >= 1
  BY LanAssumption
<1>1. n \in 1..(Trusted + 1) /\ o \in 1..Trusted /\ o <= n /\ mac \in Macs
  BY DEF Counts, Binding
<1>2. /\ \A j \in (n - o + 1)..n : q[j] = mac
      /\ o < Trusted => o = n \/ q[n - o] # mac
  BY DEF Counts
<1>3. Repeated(b).mac = mac /\ p = (IF o + 1 < Trusted THEN o + 1 ELSE Trusted)
  BY DEF Repeated, Minimum, Binding
<1>r. /\ r \in Seq(Macs) /\ Len(r) = Len(q) + 1 - Shift(q) /\ r[Len(r)] = mac
      /\ \A j \in 1..(Len(r) - 1) : r[j] = q[j + Shift(q)]
  BY <1>t, <1>1, RecentIs
<1> DEFINE d == Shift(q)
<1>4. /\ d = (IF n = Trusted + 1 THEN 1 ELSE 0) /\ d \in {0, 1}
      /\ r \in Seq(Macs) /\ Len(r) = n + 1 - d /\ r[Len(r)] = mac
      /\ \A j \in 1..(Len(r) - 1) : r[j] = q[j + d]
  BY <1>r DEF Shift
<1> DEFINE k == Len(r)
<1> HIDE DEF n, o, p, k, d
<1>5. k = n + 1 - d /\ r[k] = mac /\ \A j \in 1..(k - 1) : r[j] = q[j + d]
  BY <1>4 DEF k
<1>d. d \in {0, 1} /\ d = (IF n = Trusted + 1 THEN 1 ELSE 0)
  BY <1>4
<1>k. k = n + 1 - d
  BY <1>5
<1>6. k \in 1..(Trusted + 1) /\ p <= k /\ p \in 1..Trusted
  <2>1. p = (IF o + 1 < Trusted THEN o + 1 ELSE Trusted)
    BY <1>3
  <2>2. o \in 1..Trusted /\ o <= n /\ n \in 1..(Trusted + 1)
    BY <1>1
  <2>3. k \in 1..(Trusted + 1)
    BY <1>t, <1>d, <1>k, <2>2
  <2>4. p \in 1..Trusted
    BY <1>t, <2>1, <2>2
  <2>5. p <= k
    BY <1>t, <1>d, <1>k, <2>1, <2>2
  <2> QED BY <2>3, <2>4, <2>5
<1>7. ASSUME NEW j \in (k - p + 1)..k PROVE r[j] = mac
  <2>1. CASE j = k
    BY <1>5, <2>1
  <2>2. CASE j # k
    <3>1. j \in 1..(k - 1) /\ j + d \in (n - o + 1)..n
      <4>1. p <= o + 1
        BY <1>t, <1>1, <1>3
      <4>2. j \in 1..(k - 1) /\ j + d >= n - o + 1 /\ j + d <= n
        BY <1>t, <1>1, <1>d, <1>k, <1>6, <2>2, <4>1
      <4> QED BY <1>1, <1>d, <1>6, <4>2
    <3> QED BY <1>2, <1>5, <3>1
  <2> QED BY <2>1, <2>2
<1>8. ASSUME p < Trusted, p # k PROVE r[k - p] # mac
  <2>1. p = o + 1 /\ o < Trusted
    BY <1>t, <1>1, <1>3, <1>8
  <2>2. o # n /\ k - p \in 1..(k - 1) /\ (k - p) + d = n - o
    BY <1>t, <1>1, <1>4, <1>5, <1>6, <1>8, <2>1
  <2> QED BY <1>2, <1>5, <2>1, <2>2
<1>9. Counts(Repeated(b), r)
  BY <1>3, <1>6, <1>7, <1>8 DEF Counts, k, p
<1>10. ASSUME k = Trusted + 1 PROVE r[Trusted + 1] = r[Trusted]
  <2>1. Trusted \in 1..(k - 1) /\ Trusted + d = n /\ n \in (n - o + 1)..n
    BY <1>t, <1>1, <1>4, <1>5, <1>10
  <2> QED BY <1>2, <1>5, <1>10, <2>1
<1> QED BY <1>4, <1>9, <1>10 DEF k

LEMMA OtherCounts ==
    ASSUME NEW b \in Binding, NEW q \in Seq(Macs), Counts(b, q), NEW mac \in Macs, mac # b.mac,
           NEW r, r = Recent(Append(q, mac))
    PROVE  /\ Counts(Moved(b, mac), r) /\ r \in Seq(Macs)
           /\ b.observations >= Trusted <=>
                /\ Len(r) = Trusted + 1 /\ r[Trusted + 1] # r[Trusted]
                /\ \A i \in 1..Trusted : r[i] = r[1]
<1> DEFINE n == Len(q)
           o == b.observations
           k == Len(r)
<1>t. Trusted \in Nat /\ Trusted >= 1
  BY LanAssumption
<1>1. n \in 1..(Trusted + 1) /\ o \in 1..Trusted /\ o <= n
  BY DEF Counts, Binding
<1>2. /\ \A j \in (n - o + 1)..n : q[j] = b.mac
      /\ o < Trusted => o = n \/ q[n - o] # b.mac
  BY DEF Counts
<1>3. Moved(b, mac).mac = mac /\ Moved(b, mac).observations = 1
  BY DEF Moved, Binding
<1>r. /\ r \in Seq(Macs) /\ Len(r) = Len(q) + 1 - Shift(q) /\ r[Len(r)] = mac
      /\ \A j \in 1..(Len(r) - 1) : r[j] = q[j + Shift(q)]
  BY <1>t, <1>1, RecentIs
<1> DEFINE d == Shift(q)
<1>4. /\ d = (IF n = Trusted + 1 THEN 1 ELSE 0) /\ d \in {0, 1}
      /\ r \in Seq(Macs) /\ Len(r) = n + 1 - d /\ r[Len(r)] = mac
      /\ \A j \in 1..(Len(r) - 1) : r[j] = q[j + d]
  BY <1>r DEF Shift
<1>m. Moved(b, mac).mac = mac /\ Moved(b, mac).observations = 1
  BY <1>3
<1> HIDE DEF n, o, k, d
<1>5. k = n + 1 - d /\ r[k] = mac /\ \A j \in 1..(k - 1) : r[j] = q[j + d]
  BY <1>4 DEF k
<1>6. k \in 2..(Trusted + 1) /\ (k - 1) + d = n /\ k - 1 \in 1..(k - 1)
  BY <1>t, <1>1, <1>4, <1>5
<1>7. r[k - 1] = b.mac
  <2>1. n \in (n - o + 1)..n
    BY <1>1
  <2> QED BY <1>2, <1>5, <1>6, <2>1
<1>8. Counts(Moved(b, mac), r)
  <2>1. \A j \in (k - 1 + 1)..k : r[j] = mac
    BY <1>5, <1>6
  <2>2. 1 <= k /\ k \in 1..(Trusted + 1)
    BY <1>t, <1>6
  <2> QED BY <1>m, <1>7, <2>1, <2>2 DEF Counts, k
<1>9. ASSUME o >= Trusted
      PROVE  k = Trusted + 1 /\ r[Trusted + 1] # r[Trusted] /\ \A i \in 1..Trusted : r[i] = r[1]
  <2>1. k = Trusted + 1 /\ o = Trusted
    BY <1>t, <1>1, <1>4, <1>5, <1>9
  <2>2. \A i \in 1..Trusted : i \in 1..(k - 1) /\ i + d \in (n - o + 1)..n
    BY <1>t, <1>1, <1>4, <1>5, <2>1
  <2>3. \A i \in 1..Trusted : r[i] = b.mac
    BY <1>2, <1>5, <2>2
  <2>4. 1 \in 1..Trusted /\ Trusted \in 1..Trusted
    BY <1>t
  <2> QED BY <1>5, <2>1, <2>3, <2>4
<1>10. ASSUME k = Trusted + 1, \A i \in 1..Trusted : r[i] = r[1] PROVE o >= Trusted
  <2> SUFFICES ASSUME o < Trusted PROVE FALSE
    BY <1>t, <1>1
  <2>1. o # n /\ n - o - d \in 1..Trusted /\ (n - o - d) + d = n - o /\ n - o - d \in 1..(k - 1)
    BY <1>t, <1>1, <1>4, <1>5, <1>10
  <2>2. r[n - o - d] # b.mac
    BY <1>2, <1>5, <2>1
  <2>3. Trusted \in 1..Trusted /\ r[Trusted] = b.mac
    BY <1>t, <1>7, <1>10
  <2> QED BY <1>10, <2>1, <2>2, <2>3
<1> QED BY <1>4, <1>8, <1>9, <1>10 DEF k, o

\* By how many places the rows of a map move when one enters.
Room(map, most) == IF Len(map) < most THEN 0 ELSE 1

\* What a map becomes: rows that were there, in order, and a new one.
HasEntered(S, map, most, new, next) ==
    /\ next \in Seq(S) /\ Len(next) \in 1..(Len(map) + 1) /\ next[Len(next)] = new
    /\ Len(map) <= most => Len(next) <= most
    /\ Room(map, most) \in {0, 1}
    /\ \A i \in 1..(Len(next) - 1) : /\ i + Room(map, most) \in 1..Len(map)
                                      /\ next[i] = map[i + Room(map, most)]
LEMMA EnteredFacts ==
    ASSUME NEW S, NEW map \in Seq(S), NEW most \in Nat, most >= 1, NEW new \in S,
           NEW next, next = Entered(map, most, new)
    PROVE  HasEntered(S, map, most, new, next)
<1> DEFINE left == IF Len(map) < most THEN map ELSE Tail(map)
           d == Room(map, most)
<1>1. Len(map) \in Nat
  OBVIOUS
<1>2. /\ left \in Seq(S) /\ Len(left) = Len(map) - d /\ d \in {0, 1} /\ d <= Len(map)
      /\ \A i \in 1..Len(left) : left[i] = map[i + d]
  <2>1. CASE Len(map) < most
    BY <1>1, <2>1 DEF Room
  <2>2. CASE ~(Len(map) < most)
    <3>1. map # <<>> /\ left = Tail(map) /\ d = 1
      BY <1>1, <2>2 DEF Room
    <3> HIDE DEF left
    <3> QED BY <1>1, <3>1, Shorter
  <2> QED BY <2>1, <2>2
<1>3. next = Append(left, new)
  BY DEF Entered
<1>d. (Len(map) < most => d = 0) /\ (~(Len(map) < most) => d = 1)
  BY DEF Room
<1> HIDE DEF left
<1>4. /\ next \in Seq(S) /\ Len(next) = Len(left) + 1 /\ next[Len(left) + 1] = new
      /\ \A i \in 1..Len(left) : next[i] = left[i]
  BY <1>2, <1>3, Longer
<1>5. \A i \in 1..(Len(next) - 1) : i + d \in 1..Len(map) /\ next[i] = map[i + d]
  <2> SUFFICES ASSUME NEW i \in 1..(Len(next) - 1) PROVE i + d \in 1..Len(map) /\ next[i] = map[i + d]
    OBVIOUS
  <2>1. i \in 1..Len(left) /\ i + d \in 1..Len(map)
    BY <1>1, <1>2, <1>4
  <2> QED BY <1>2, <1>4, <2>1
<1>6. Len(next) \in 1..(Len(map) + 1) /\ next[Len(next)] = new /\ (Len(map) <= most => Len(next) <= most)
  BY <1>1, <1>2, <1>4, <1>d
<1> QED BY <1>2, <1>4, <1>5, <1>6 DEF HasEntered

\* Every row but that of the address that is claimed is one that was there.
LEMMA BoundFacts ==
    ASSUME BindingsCount, NEW ip \in Ips, NEW mac \in Macs
    PROVE  /\ Bound(ip, mac) \in Seq(Binding)
           /\ \A i, j \in DOMAIN Bound(ip, mac) : Bound(ip, mac)[i].ip = Bound(ip, mac)[j].ip => i = j
           /\ \E i \in DOMAIN Bound(ip, mac) : Bound(ip, mac)[i].ip = ip
           /\ \A i \in DOMAIN Bound(ip, mac) :
                IF Bound(ip, mac)[i].ip # ip THEN \E k \in DOMAIN bindings : Bound(ip, mac)[i] = bindings[k]
                ELSE IF Row(bindings, "ip", ip) = {} THEN Bound(ip, mac)[i] = Claim(ip, mac)
                ELSE \E k \in DOMAIN bindings :
                        /\ bindings[k].ip = ip
                        /\ Bound(ip, mac)[i] = IF bindings[k].mac = mac THEN Repeated(bindings[k])
                                               ELSE Moved(bindings[k], mac)
<1> DEFINE B == Bound(ip, mac)
<1>t. Trusted \in Nat /\ Trusted >= 1 /\ Expired \in Nat /\ MaxTrackedIps \in Nat /\ MaxTrackedIps >= 1
  BY LanAssumption DEF Expired
<1>1. /\ bindings \in Seq(Binding) /\ Len(bindings) \in Nat /\ DOMAIN bindings = 1..Len(bindings)
      /\ \A i \in 1..Len(bindings) : bindings[i] \in Binding
      /\ \A i, j \in 1..Len(bindings) : bindings[i].ip = bindings[j].ip => i = j
  BY Indexed DEF BindingsCount
<1>2. CASE Row(bindings, "ip", ip) = {}
  <2>1. Claim(ip, mac) \in Binding /\ Claim(ip, mac).ip = ip
    BY <1>t DEF Claim, Binding
  <2>2. B = Entered(bindings, MaxTrackedIps, Claim(ip, mac))
    BY <1>2 DEF Bound
  <2>3. \A i \in 1..Len(bindings) : bindings[i].ip # ip
    BY <1>1, <1>2 DEF Row
  <2> HIDE DEF B
  <2>4. /\ B \in Seq(Binding) /\ Len(B) \in 1..(Len(bindings) + 1) /\ B[Len(B)] = Claim(ip, mac)
        /\ Room(bindings, MaxTrackedIps) \in {0, 1}
        /\ \A i \in 1..(Len(B) - 1) : /\ i + Room(bindings, MaxTrackedIps) \in 1..Len(bindings)
                                      /\ B[i] = bindings[i + Room(bindings, MaxTrackedIps)]
    <3> HIDE DEF Claim
    <3>1. bindings \in Seq(Binding) /\ MaxTrackedIps \in Nat /\ MaxTrackedIps >= 1 /\ Claim(ip, mac) \in Binding
      BY <1>t, <1>1, <2>1
    <3>2. HasEntered(Binding, bindings, MaxTrackedIps, Claim(ip, mac), B)
      BY <2>2, <3>1, EnteredFacts
    <3> QED BY <3>2 DEF HasEntered
  <2> DEFINE d == Room(bindings, MaxTrackedIps)
  <2> HIDE DEF d
  <2>5. d \in {0, 1} /\ \A i \in 1..(Len(B) - 1) : i + d \in 1..Len(bindings) /\ B[i] = bindings[i + d]
    BY <2>4 DEF d
  <2>6. DOMAIN B = 1..Len(B) /\ Len(B) \in 1..Len(B) /\ \A i \in 1..Len(B) : i = Len(B) \/ i \in 1..(Len(B) - 1)
    BY <1>1, <2>4
  <2>7. \A i \in 1..(Len(B) - 1) : B[i].ip # ip
    BY <2>3, <2>5
  <2>8. \A i, j \in DOMAIN B : B[i].ip = B[j].ip => i = j
    <3> SUFFICES ASSUME NEW i \in 1..Len(B), NEW j \in 1..Len(B), B[i].ip = B[j].ip PROVE i = j
      BY <2>6
    <3>1. CASE i \in 1..(Len(B) - 1) /\ j \in 1..(Len(B) - 1)
      <4>1. i + d = j + d /\ d \in {0, 1}
        BY <1>1, <2>5, <3>1
      <4> QED BY <3>1, <4>1
    <3>2. CASE i = Len(B) \/ j = Len(B)
      BY <2>1, <2>4, <2>6, <2>7, <3>2
    <3> QED BY <2>6, <3>1, <3>2
  <2>9. \A i \in DOMAIN B : IF B[i].ip # ip THEN \E k \in DOMAIN bindings : B[i] = bindings[k]
                            ELSE B[i] = Claim(ip, mac)
    BY <1>1, <2>1, <2>4, <2>5, <2>6, <2>7
  <2> QED BY <1>2, <2>1, <2>4, <2>6, <2>8, <2>9 DEF B
<1>3. CASE Row(bindings, "ip", ip) # {}
  <2> DEFINE New(b) == IF b.ip # ip THEN b ELSE IF b.mac = mac THEN Repeated(b) ELSE Moved(b, mac)
  <2>1. B = [i \in 1..Len(bindings) |-> New(bindings[i])]
    BY <1>1, <1>3 DEF Bound
  <2>2. ASSUME NEW b \in Binding PROVE New(b) \in Binding /\ New(b).ip = b.ip
    <3> DEFINE swept(m) == [b.history EXCEPT ![m] = 0]
    <3>b. /\ b.mac \in Macs /\ b.observations \in 1..Trusted /\ b.flips \in BOOLEAN
          /\ b.history \in [Macs -> 0..Expired]
      BY DEF Binding
    <3>c. \A m \in Macs : swept(m) \in [Macs -> 0..Expired]
      BY <1>t, <3>b
    <3>x. ASSUME NEW n \in 1..Trusted, NEW h \in [Macs -> 0..Expired]
          PROVE  [b EXCEPT !.observations = n, !.history = h] \in Binding
                 /\ [b EXCEPT !.observations = n, !.history = h].ip = b.ip
      BY DEF Binding
    <3> DEFINE f == b.flips \/ b.history[mac] < FlipWindow
    <3>r. Repeated(b) = [b EXCEPT !.observations = Minimum(b.observations + 1, Trusted),
                                  !.history = swept(b.mac)]
      BY DEF Repeated
    <3>m. Moved(b, mac) = [b EXCEPT !.mac = mac, !.observations = 1, !.history = swept(mac),
                                    !.flips = f]
      BY DEF Moved
    <3> HIDE DEF swept
    <3>1. Repeated(b) \in Binding /\ Repeated(b).ip = b.ip
      <4>1. Minimum(b.observations + 1, Trusted) \in 1..Trusted
        BY <1>t, <3>b DEF Minimum
      <4> QED BY <3>b, <3>c, <3>r, <3>x, <4>1
    <3>2. Moved(b, mac) \in Binding /\ Moved(b, mac).ip = b.ip
      <4>1. 1 \in 1..Trusted /\ f \in BOOLEAN
        BY <1>t
      <4> HIDE DEF f
      <4> DEFINE h == swept(mac)
      <4>2. h \in [Macs -> 0..Expired]
        BY <3>c
      <4>3. Moved(b, mac) = [b EXCEPT !.mac = mac, !.observations = 1, !.history = h, !.flips = f]
        BY <3>m
      <4> HIDE DEF h
      <4>4. Moved(b, mac) \in Binding /\ Moved(b, mac).ip = b.ip
        BY <4>1, <4>2, <4>3 DEF Binding
      <4> QED BY <4>4
    <3> QED BY <3>1, <3>2
  <2> HIDE DEF B
  <2>h. \A b : New(b) = IF b.ip # ip THEN b ELSE IF b.mac = mac THEN Repeated(b) ELSE Moved(b, mac)
    OBVIOUS
  <2> HIDE DEF New
  <2>3. DOMAIN B = 1..Len(bindings) /\ \A i \in 1..Len(bindings) : B[i] = New(bindings[i]) /\ B[i] \in Binding
                                                                  /\ B[i].ip = bindings[i].ip
    BY <1>1, <2>1, <2>2
  <2>4. B \in Seq(Binding)
    BY <1>1, <2>1, <2>3
  <2>5. PICK k \in 1..Len(bindings) : bindings[k].ip = ip
    BY <1>1, <1>3 DEF Row
  <2>6. \A i, j \in DOMAIN B : B[i].ip = B[j].ip => i = j
    BY <1>1, <2>3
  <2>7. \A i \in DOMAIN B :
           IF B[i].ip # ip THEN \E j \in DOMAIN bindings : B[i] = bindings[j]
           ELSE \E j \in DOMAIN bindings :
                   /\ bindings[j].ip = ip
                   /\ B[i] = IF bindings[j].mac = mac THEN Repeated(bindings[j]) ELSE Moved(bindings[j], mac)
    BY <1>1, <2>3, <2>h
  <2> QED BY <1>3, <2>3, <2>4, <2>5, <2>6, <2>7 DEF B
<1> QED BY <1>2, <1>3

\* What becomes of the binding of the address that is claimed, and what is raised of it.
LEMMA ClaimCounts ==
    ASSUME BindingsCount, NEW ip \in Ips, NEW mac \in Macs, NEW q, q = claimed[ip],
           NEW r, r = Recent(Append(q, mac))
    PROVE  /\ r \in Seq(Macs)
           /\ \A i \in DOMAIN Bound(ip, mac) : Bound(ip, mac)[i].ip = ip => Counts(Bound(ip, mac)[i], r)
           /\ (\E i \in Row(bindings, "ip", ip) : bindings[i].mac # mac /\ bindings[i].observations >= Trusted)
              <=> /\ Len(r) = Trusted + 1 /\ r[Trusted + 1] # r[Trusted]
                  /\ \A i \in 1..Trusted : r[i] = r[1]
<1>t. Trusted \in Nat /\ Trusted >= 1
  BY LanAssumption
<1>1. /\ Len(bindings) \in Nat /\ DOMAIN bindings = 1..Len(bindings)
      /\ \A i \in 1..Len(bindings) : bindings[i] \in Binding
      /\ \A i, j \in 1..Len(bindings) : bindings[i].ip = bindings[j].ip => i = j
  BY Indexed DEF BindingsCount
<1>2. /\ q \in Seq(Macs) /\ (Row(bindings, "ip", ip) = {} => q = <<>>)
      /\ \A i \in 1..Len(bindings) : bindings[i].ip = ip => Counts(bindings[i], q)
  BY <1>1 DEF BindingsCount
<1>3. \A i \in DOMAIN Bound(ip, mac) : Bound(ip, mac)[i].ip = ip =>
           IF Row(bindings, "ip", ip) = {} THEN Bound(ip, mac)[i] = Claim(ip, mac)
           ELSE \E k \in DOMAIN bindings :
                   /\ bindings[k].ip = ip
                   /\ Bound(ip, mac)[i] = IF bindings[k].mac = mac THEN Repeated(bindings[k])
                                          ELSE Moved(bindings[k], mac)
  BY BoundFacts
<1> HIDE DEF Bound
<1>4. CASE Row(bindings, "ip", ip) = {}
  <2>1. Counts(Claim(ip, mac), r) /\ r \in Seq(Macs)
    BY <1>2, <1>4, FirstCounts
  <2>2. Len(r) = 1
    <3>1. Len(q) = 0 /\ q \in Seq(Macs) /\ Len(q) \in 0..(Trusted + 1) /\ Shift(q) = 0
      BY <1>t, <1>2, <1>4 DEF Shift
    <3>2. Len(r) = Len(q) + 1 - Shift(q)
      BY <3>1, RecentIs
    <3> QED BY <3>1, <3>2
  <2>3. Len(r) # Trusted + 1
    BY <1>t, <2>2
  <2> QED BY <1>3, <1>4, <2>1, <2>3
<1>5. CASE Row(bindings, "ip", ip) # {}
  <2>1. PICK k \in 1..Len(bindings) : bindings[k].ip = ip
    BY <1>1, <1>5 DEF Row
  <2>2. \A i \in 1..Len(bindings) : bindings[i].ip = ip => i = k
    BY <1>1, <2>1
  <2>3. Row(bindings, "ip", ip) = {k}
    BY <1>1, <2>1, <2>2 DEF Row
  <2>4. bindings[k] \in Binding /\ Counts(bindings[k], q)
    BY <1>1, <1>2, <2>1
  <2>5. CASE bindings[k].mac = mac
    <3>1. /\ Counts(Repeated(bindings[k]), r) /\ r \in Seq(Macs)
          /\ Len(r) = Trusted + 1 => r[Trusted + 1] = r[Trusted]
      BY <1>2, <2>4, <2>5, AgainCounts
    <3>2. \A i \in DOMAIN Bound(ip, mac) : Bound(ip, mac)[i].ip = ip =>
             Bound(ip, mac)[i] = Repeated(bindings[k])
      BY <1>1, <1>3, <1>5, <2>2, <2>5
    <3> QED BY <2>3, <2>5, <3>1, <3>2
  <2>6. CASE bindings[k].mac # mac
    <3>1. /\ Counts(Moved(bindings[k], mac), r) /\ r \in Seq(Macs)
          /\ bindings[k].observations >= Trusted <=>
               /\ Len(r) = Trusted + 1 /\ r[Trusted + 1] # r[Trusted]
               /\ \A i \in 1..Trusted : r[i] = r[1]
      BY <1>2, <2>4, <2>6, OtherCounts
    <3>2. \A i \in DOMAIN Bound(ip, mac) : Bound(ip, mac)[i].ip = ip =>
             Bound(ip, mac)[i] = Moved(bindings[k], mac)
      BY <1>1, <1>3, <1>5, <2>2, <2>6
    <3> QED BY <2>3, <2>6, <3>1, <3>2
  <2> QED BY <2>5, <2>6
<1> QED BY <1>4, <1>5

LEMMA ArpBindings ==
    ASSUME BindingsCount, NEW ip \in Ips, NEW mac \in Macs,
           bindings' = Bound(ip, mac), claimed' = ClaimsAfter(ip, mac)
    PROVE  BindingsCount'
<1> DEFINE B == Bound(ip, mac)
           r == Recent(Append(claimed[ip], mac))
<1>1. /\ B \in Seq(Binding)
      /\ \A i, j \in DOMAIN B : B[i].ip = B[j].ip => i = j
      /\ \E i \in DOMAIN B : B[i].ip = ip
      /\ \A i \in DOMAIN B : B[i].ip # ip => \E k \in DOMAIN bindings : B[i] = bindings[k]
  BY BoundFacts
<1>2. r \in Seq(Macs) /\ \A i \in DOMAIN B : B[i].ip = ip => Counts(B[i], r)
  BY ClaimCounts
<1>3. claimed' = [i \in Ips |-> IF i = ip THEN r ELSE IF Row(B, "ip", i) = {} THEN <<>> ELSE claimed[i]]
  BY DEF ClaimsAfter
<1>o. /\ claimed \in [Ips -> Seq(Macs)]
      /\ \A i \in DOMAIN bindings : Counts(bindings[i], claimed[bindings[i].ip])
  BY DEF BindingsCount
<1>p. \A i \in DOMAIN B : B[i].ip \in Ips
  <2> HIDE DEF B
  <2>1. \A i \in DOMAIN B : B[i] \in Binding
    BY <1>1, Indexed
  <2> QED BY <2>1 DEF Binding
<1>b. bindings' = B
  OBVIOUS
<1> HIDE DEF B, r
<1>4. claimed' \in [Ips -> Seq(Macs)]
  BY <1>2, <1>3, <1>o
<1>5. \A i \in DOMAIN B : Counts(B[i], claimed'[B[i].ip])
  <2> SUFFICES ASSUME NEW i \in DOMAIN B PROVE Counts(B[i], claimed'[B[i].ip])
    OBVIOUS
  <2>1. CASE B[i].ip = ip
    BY <1>2, <1>3, <2>1
  <2>2. CASE B[i].ip # ip
    <3>1. PICK k \in DOMAIN bindings : B[i] = bindings[k]
      BY <1>1, <2>2
    <3>2. i \in Row(B, "ip", B[i].ip)
      BY DEF Row
    <3>3. claimed'[B[i].ip] = claimed[B[i].ip]
      BY <1>3, <1>p, <2>2, <3>2
    <3> QED BY <1>o, <3>1, <3>3
  <2> QED BY <2>1, <2>2
<1>6. ASSUME NEW i \in Ips, Row(B, "ip", i) = {} PROVE claimed'[i] = <<>>
  <2>1. i # ip
    BY <1>1, <1>6 DEF Row
  <2> QED BY <1>3, <1>6, <2>1
<1> QED BY <1>1, <1>4, <1>5, <1>6, <1>b DEF BindingsCount

LEMMA ArpTakeover ==
    ASSUME BindingsCount, NEW ip \in Ips, NEW mac \in Macs, ArpFrame(ip, mac)
    PROVE  TakeoverIsReported'
<1> DEFINE r == Recent(Append(claimed[ip], mac))
<1>1. claimed'[ip] = r
  BY DEF ArpFrame, InspectArp, ClaimsAfter
<1>r. r = Recent(Append(claimed[ip], mac))
  OBVIOUS
<1> HIDE DEF r
<1>2. (\E i \in Row(bindings, "ip", ip) : bindings[i].mac # mac /\ bindings[i].observations >= Trusted)
         <=> /\ Len(r) = Trusted + 1 /\ r[Trusted + 1] # r[Trusted]
             /\ \A i \in 1..Trusted : r[i] = r[1]
  BY <1>r, ClaimCounts
<1>3. raised'.ip = ip /\ ("conflict" \in raised'.kinds <=> "conflict" \in ConflictFinding(ip, mac))
  BY DEF ArpFrame, ConfiguredFinding, SprawlFinding, DeviceFinding
<1>4. "conflict" \in ConflictFinding(ip, mac) <=>
        ip \notin Configured /\ \E i \in Row(bindings, "ip", ip) : /\ bindings[i].mac # mac
                                                                    /\ bindings[i].observations >= Trusted
  BY DEF ConflictFinding
<1> QED BY <1>1, <1>2, <1>3, <1>4 DEF TakeoverIsReported

\* What differs is as many as its set has, at most; and if it is as many, it is all of it.
LEMMA NoMoreThan ==
    ASSUME NEW S, IsFiniteSet(S), NEW s, NEW n \in Nat, \A i \in 1..n : s[i].mac \in S,
           \A i, j \in 1..n : s[i].mac = s[j].mac => i = j
    PROVE  n <= Cardinality(S)
<1> DEFINE f == [i \in 1..n |-> s[i].mac]
<1>1. f \in Injection(1..n, S)
  BY DEF Injection, IsInjective
<1>2. Cardinality(1..n) = n
  BY FS_Interval
<1> QED BY <1>1, <1>2, FS_Injection

LEMMA AllTaken ==
    ASSUME NEW S, IsFiniteSet(S), NEW s, NEW n \in Nat, \A i \in 1..n : s[i].mac \in S,
           \A i, j \in 1..n : s[i].mac = s[j].mac => i = j, Cardinality(S) <= n, NEW m \in S
    PROVE  \E i \in 1..n : s[i].mac = m
<1> DEFINE f == [i \in 1..n |-> s[i].mac]
<1>1. f \in Injection(1..n, S)
  BY DEF Injection, IsInjective
<1>2. Cardinality(1..n) = n /\ Cardinality(S) \in Nat
  BY FS_Interval, FS_CardinalityType
<1>3. Cardinality(1..n) <= Cardinality(S) /\ (Cardinality(1..n) = Cardinality(S) <=> f \in Surjection(1..n, S))
  BY <1>1, FS_Injection
<1>4. f \in Surjection(1..n, S)
  BY <1>2, <1>3
<1> HIDE DEF f
<1>5. \E i \in 1..n : f[i] = m
  BY <1>4 DEF Surjection
<1> QED BY <1>5 DEF f

\* A frame of a device: an upsert is asked for now, or was within the interval.
LEMMA DeviceFrame ==
    ASSUME WritesAreFresh, LastSeenIsFresh, NEW mac \in Macs, InspectDevice(mac)
    PROVE  WritesAreFresh' /\ LastSeenIsFresh'
<1> DEFINE Device == [mac : Macs, touched : 0..TouchInterval]
           now == [mac |-> mac, touched |-> 0]
           writes == IsNew(mac) \/ DueForTouch(mac)
<1>t. TouchInterval \in Nat /\ TouchInterval >= 1 /\ MaxTrackedDevices \in Nat /\ MaxTrackedDevices >= 1
  BY LanAssumption
<1>1. /\ devices \in Seq(Device) /\ Len(devices) \in Nat /\ DOMAIN devices = 1..Len(devices)
      /\ \A i \in 1..Len(devices) : devices[i] \in Device
  BY Indexed DEF WritesAreFresh
<1>2. now \in Device /\ now.mac = mac /\ now.touched = 0
  BY <1>t
<1>3. /\ devices' \in Seq(Device)
      /\ \A i \in DOMAIN devices' : (\E k \in 1..Len(devices) : devices'[i] = devices[k]) \/ (writes /\ devices'[i] = now)
  <2>1. CASE IsNew(mac)
    <3>1. devices' = Entered(devices, MaxTrackedDevices, now)
      BY <2>1 DEF InspectDevice
    <3> HIDE DEF now, Device
    <3>2. HasEntered(Device, devices, MaxTrackedDevices, now, devices')
      BY <1>t, <1>1, <1>2, <3>1, EnteredFacts
    <3>3. /\ devices' \in Seq(Device) /\ Len(devices') \in 1..(Len(devices) + 1) /\ devices'[Len(devices')] = now
          /\ \A i \in 1..(Len(devices') - 1) : /\ i + Room(devices, MaxTrackedDevices) \in 1..Len(devices)
                                                /\ devices'[i] = devices[i + Room(devices, MaxTrackedDevices)]
      BY <3>2 DEF HasEntered
    <3>4. DOMAIN devices' = 1..Len(devices') /\ \A i \in 1..Len(devices') : i = Len(devices') \/ i \in 1..(Len(devices') - 1)
      BY <1>1, <3>3
    <3> QED BY <2>1, <3>3, <3>4
  <2>2. CASE ~IsNew(mac) /\ DueForTouch(mac)
    <3>1. devices' = [i \in DOMAIN devices |-> IF devices[i].mac = mac THEN now ELSE devices[i]]
      BY <2>2 DEF InspectDevice
    <3> HIDE DEF now, Device
    <3> QED BY <1>1, <1>2, <2>2, <3>1
  <2>3. CASE ~writes
    <3>1. devices' = devices
      BY <2>3 DEF InspectDevice
    <3> QED BY <1>1, <3>1
  <2> QED BY <2>1, <2>2, <2>3
<1>4. /\ sighted \subseteq Macs /\ DOMAIN stored \subseteq Macs
      /\ \A m \in DOMAIN stored : stored[m] \in 0..TouchInterval
      /\ lastAsked \in [Macs -> 0..TouchInterval] /\ deviceWrites \subseteq [mac : Macs, age : 0..TouchInterval]
      /\ \A i \in 1..Len(devices) : devices[i].touched < TouchInterval => lastAsked[devices[i].mac] <= devices[i].touched
      /\ \A w \in deviceWrites : w.age >= lastAsked[w.mac]
  BY <1>1 DEF WritesAreFresh
<1>c. \A m \in Macs : lastAsked[m] < TouchInterval =>
        \/ m \in lostWrites
        \/ [mac |-> m, age |-> lastAsked[m]] \in deviceWrites
        \/ m \in DOMAIN stored /\ stored[m] = lastAsked[m]
  BY DEF WritesAreFresh, NewestWrite
<1>5. /\ sighted' = sighted \cup {mac} /\ stored' = stored
      /\ writes => /\ deviceWrites' = deviceWrites \cup {[mac |-> mac, age |-> 0]}
                   /\ lastAsked' = [lastAsked EXCEPT ![mac] = 0] /\ lostWrites' = lostWrites \ {mac}
      /\ ~writes => deviceWrites' = deviceWrites /\ lastAsked' = lastAsked /\ lostWrites' = lostWrites
  BY DEF InspectDevice, AsksForWrite
<1>6. ~writes => lastAsked[mac] < TouchInterval
  <2> SUFFICES ASSUME ~writes PROVE lastAsked[mac] < TouchInterval
    OBVIOUS
  <2>1. PICK i \in 1..Len(devices) : devices[i].mac = mac /\ ~(devices[i].touched >= TouchInterval)
    BY <1>1 DEF IsNew, Devices, Row, DueForTouch
  <2>2. devices[i].touched \in Nat /\ devices[i].touched < TouchInterval
    BY <1>1, <1>t, <2>1
  <2> QED BY <1>4, <1>t, <2>1, <2>2
<1> HIDE DEF writes
<1>7. /\ lastAsked' \in [Macs -> 0..TouchInterval]
      /\ \A m \in Macs : lastAsked'[m] <= lastAsked[m] /\ (m # mac => lastAsked'[m] = lastAsked[m])
      /\ writes => lastAsked'[mac] = 0
  <2>1. CASE writes
    BY <1>t, <1>4, <1>5, <2>1
  <2>2. CASE ~writes
    BY <1>t, <1>4, <1>5, <2>2
  <2> QED BY <2>1, <2>2
<1>8. ASSUME NEW i \in DOMAIN devices', devices'[i].touched < TouchInterval
      PROVE  lastAsked'[devices'[i].mac] <= devices'[i].touched
  <2>1. CASE writes /\ devices'[i] = now
    BY <1>2, <1>7, <2>1
  <2>2. ASSUME NEW k \in 1..Len(devices), devices'[i] = devices[k]
        PROVE  lastAsked'[devices'[i].mac] <= devices'[i].touched
    <3>1. lastAsked[devices[k].mac] <= devices[k].touched /\ devices[k].touched \in Nat /\ devices[k].mac \in Macs
      BY <1>1, <1>4, <1>8, <2>2
    <3>2. lastAsked'[devices[k].mac] \in Nat /\ lastAsked[devices[k].mac] \in Nat
      BY <1>4, <1>7, <3>1
    <3> QED BY <1>7, <2>2, <3>1, <3>2
  <2> QED BY <1>3, <2>1, <2>2
<1>9. ASSUME NEW m \in Macs, lastAsked'[m] < TouchInterval
      PROVE  \/ m \in lostWrites'
             \/ [mac |-> m, age |-> lastAsked'[m]] \in deviceWrites'
             \/ m \in DOMAIN stored' /\ stored'[m] = lastAsked'[m]
  <2>1. CASE writes /\ m = mac
    BY <1>5, <1>7, <2>1
  <2>2. CASE writes /\ m # mac
    BY <1>5, <1>7, <1>9, <1>c, <2>2
  <2>3. CASE ~writes
    BY <1>5, <1>9, <1>c, <2>3
  <2> QED BY <2>1, <2>2, <2>3
<1>10. /\ deviceWrites' \subseteq [mac : Macs, age : 0..TouchInterval]
       /\ \A w \in deviceWrites' : w.age >= lastAsked'[w.mac]
  <2>1. ASSUME NEW w \in deviceWrites' PROVE w \in [mac : Macs, age : 0..TouchInterval] /\ w.age >= lastAsked'[w.mac]
    <3>1. CASE w \in deviceWrites
      <4>1. w \in [mac : Macs, age : 0..TouchInterval] /\ w.age >= lastAsked[w.mac]
        BY <1>4, <3>1
      <4>2. w.mac \in Macs /\ w.age \in Nat /\ lastAsked[w.mac] \in Nat /\ lastAsked'[w.mac] \in Nat
        BY <1>4, <1>7, <4>1
      <4> QED BY <1>7, <4>1, <4>2
    <3>2. CASE writes /\ w = [mac |-> mac, age |-> 0]
      BY <1>t, <1>7, <3>2
    <3> QED BY <1>5, <3>1, <3>2
  <2> QED BY <2>1
<1>11. WritesAreFresh'
  <2>1. sighted' \subseteq Macs /\ DOMAIN stored' \subseteq Macs /\ \A m \in DOMAIN stored' : stored'[m] \in 0..TouchInterval
    BY <1>4, <1>5
  <2> QED BY <1>3, <1>7, <1>8, <1>9, <1>10, <2>1 DEF WritesAreFresh, NewestWrite
<1>12. ASSUME NEW m \in sighted'
       PROVE  lastAsked'[m] < TouchInterval
  <2>1. CASE m = mac
    BY <1>t, <1>4, <1>5, <1>6, <1>7, <2>1
  <2>2. CASE m # mac
    <3>1. m \in Macs /\ lastAsked[m] < TouchInterval
      BY <1>4, <1>5, <2>2 DEF LastSeenIsFresh
    <3> QED BY <1>7, <2>2, <3>1
  <2> QED BY <2>1, <2>2
<1>13. LastSeenIsFresh'
  <2> SUFFICES ASSUME NEW m \in sighted'
               PROVE  /\ lastAsked'[m] < TouchInterval
                      /\ \/ m \in lostWrites'
                         \/ [mac |-> m, age |-> lastAsked'[m]] \in deviceWrites'
                         \/ m \in DOMAIN stored' /\ stored'[m] < TouchInterval
    BY DEF LastSeenIsFresh, NewestWrite
  <2>1. m \in Macs /\ lastAsked'[m] < TouchInterval
    BY <1>4, <1>5, <1>12
  <2> QED BY <1>9, <2>1
<1> QED BY <1>11, <1>13

\* While they all fit, a device that the detector does not hold was neither known nor met,
\* and holding it makes no other one leave.
LEMMA FramesHeld ==
    ASSUME AllAreHeld, ReportedOnce, NEW mac \in Macs, InspectDevice(mac), WritesAreFresh
    PROVE  AllAreHeld' /\ ReportedOnce'
<1> DEFINE Device == [mac : Macs, touched : 0..TouchInterval]
           now == [mac |-> mac, touched |-> 0]
           all == seeded \cup met
           few == Cardinality(all) <= MaxTrackedDevices
           fewer == Cardinality(all \cup {mac}) <= MaxTrackedDevices
           n == Len(devices)
<1>t. TouchInterval \in Nat /\ TouchInterval >= 1 /\ MaxTrackedDevices \in Nat /\ MaxTrackedDevices >= 1 /\ IsFiniteSet(Macs)
  BY LanAssumption
<1>1. /\ devices \in Seq(Device) /\ n \in Nat /\ DOMAIN devices = 1..n
      /\ \A i \in 1..n : devices[i] \in Device
  BY Indexed DEF WritesAreFresh
<1>2. now \in Device /\ now.mac = mac
  BY <1>t
<1>3. /\ seeded \subseteq Macs /\ met \subseteq Macs /\ timesReported \in [Macs -> 0..2]
      /\ n <= MaxTrackedDevices
      /\ \A i, j \in 1..n : devices[i].mac = devices[j].mac => i = j
      /\ \A i \in 1..n : devices[i].mac \in all
      /\ few => \A m \in all : \E i \in 1..n : devices[i].mac = m
      /\ \A m \in Macs \ met : timesReported[m] = 0
  BY <1>1 DEF AllAreHeld, Devices, Row
<1>4. /\ met' = met \cup {mac} /\ seeded' = seeded /\ seeded' \cup met' = all \cup {mac}
  BY DEF InspectDevice
<1>5. IsFiniteSet(all) /\ Cardinality(all) \in Nat /\ IsFiniteSet(all \cup {mac})
      /\ Cardinality(all \cup {mac}) = (IF mac \in all THEN Cardinality(all) ELSE Cardinality(all) + 1)
  BY <1>t, <1>3, FS_Subset, FS_AddElement, FS_CardinalityType
<1>6. fewer => few
  BY <1>t, <1>5
<1>7. fewer /\ IsNew(mac) => mac \notin all /\ n < MaxTrackedDevices
  <2> SUFFICES ASSUME fewer, IsNew(mac) PROVE mac \notin all /\ n < MaxTrackedDevices
    OBVIOUS
  <2>1. \A i \in 1..n : devices[i].mac # mac
    BY <1>1 DEF IsNew, Devices, Row
  <2>2. mac \notin all
    BY <1>3, <1>6, <2>1
  <2>3. n <= Cardinality(all)
    BY <1>1, <1>3, <1>5, NoMoreThan
  <2>4. Cardinality(all) + 1 <= MaxTrackedDevices
    BY <1>5, <2>2
  <2> QED BY ONLY <1>t, <1>1, <1>5, <2>2, <2>3, <2>4
<1> DEFINE next == devices'
           k == Len(next)
<1>8. /\ next \in Seq(Device) /\ k <= MaxTrackedDevices /\ DOMAIN next = 1..k
      /\ \A i, j \in 1..k : next[i].mac = next[j].mac => i = j
      /\ \A i \in 1..k : next[i].mac \in all \cup {mac}
      /\ fewer => \A m \in all \cup {mac} : \E i \in 1..k : next[i].mac = m
  <2>1. CASE IsNew(mac)
    <3>0. next = Entered(devices, MaxTrackedDevices, now)
      BY <2>1 DEF InspectDevice
    <3>n. \A i \in 1..n : devices[i].mac # mac
      BY <1>1, <2>1 DEF IsNew, Devices, Row
    <3> DEFINE d == Room(devices, MaxTrackedDevices)
    <3> HIDE DEF now, Device, next, d, n
    <3>1. HasEntered(Device, devices, MaxTrackedDevices, now, next)
      BY <1>t, <1>1, <1>2, <3>0, EnteredFacts
    <3>2. /\ next \in Seq(Device) /\ k \in 1..(n + 1) /\ next[k] = now /\ k <= MaxTrackedDevices /\ d \in {0, 1}
          /\ \A i \in 1..(k - 1) : i + d \in 1..n /\ next[i] = devices[i + d]
      BY <1>3, <3>1 DEF HasEntered, d, n
    <3>3. DOMAIN next = 1..k /\ k \in 1..k /\ \A i \in 1..k : i = k \/ i \in 1..(k - 1)
      BY <1>1, <3>2
    <3>4. \A i \in 1..(k - 1) : next[i].mac # mac /\ next[i].mac \in all
      BY <1>3, <3>2, <3>n
    <3>5. ASSUME NEW i \in 1..k, NEW j \in 1..k, next[i].mac = next[j].mac PROVE i = j
      <4>1. CASE i \in 1..(k - 1) /\ j \in 1..(k - 1)
        <5>1. devices[i + d].mac = devices[j + d].mac /\ i + d \in 1..n /\ j + d \in 1..n
          BY <3>2, <3>5, <4>1
        <5>2. i + d = j + d
          BY <1>3, <5>1
        <5> QED BY <3>2, <4>1, <5>2
      <4>2. CASE i = k \/ j = k
        BY <1>2, <3>2, <3>3, <3>4, <3>5, <4>2
      <4> QED BY <3>3, <4>1, <4>2
    <3>6. ASSUME fewer, NEW m \in all \cup {mac} PROVE \E i \in 1..k : next[i].mac = m
      <4>1. CASE m = mac
        BY <1>2, <3>2, <3>3, <4>1
      <4>2. CASE m # mac
        <5>1. PICK i \in 1..n : devices[i].mac = m
          BY <1>3, <1>6, <3>6, <4>2
        <5>2. d = 0 /\ k = n + 1
          <6>1. Len(devices) < MaxTrackedDevices
            BY <1>7, <2>1, <3>6 DEF n
          <6>2. next = Append(devices, now)
            BY <3>0, <6>1 DEF Entered
          <6> QED BY <1>1, <1>2, <6>1, <6>2, Longer DEF d, Room, n
        <5>3. i \in 1..(k - 1) /\ i + d = i
          BY <1>1, <5>1, <5>2
        <5>4. next[i] = devices[i + d]
          BY <3>2, <5>3
        <5>5. next[i].mac = m
          BY <5>1, <5>3, <5>4
        <5>6. i \in 1..k
          BY <1>1, <5>1, <5>2
        <5> QED BY <5>5, <5>6
      <4> QED BY <4>1, <4>2
    <3>7. \A i \in 1..k : next[i].mac \in all \cup {mac}
      BY <1>2, <3>2, <3>3, <3>4
    <3> QED BY <3>2, <3>3, <3>5, <3>6, <3>7
  <2>2. CASE ~IsNew(mac) /\ DueForTouch(mac)
    <3>1. next = [i \in DOMAIN devices |-> IF devices[i].mac = mac THEN now ELSE devices[i]]
      BY <2>2 DEF InspectDevice
    <3>h. \E i \in 1..n : devices[i].mac = mac
      BY <1>1, <2>2 DEF IsNew, Devices, Row
    <3> HIDE DEF now, Device, next, n
    <3>2. /\ next \in Seq(Device) /\ k = n /\ DOMAIN next = 1..n
          /\ \A i \in 1..n : next[i] = IF devices[i].mac = mac THEN now ELSE devices[i]
      BY <1>1, <1>2, <3>1
    <3>3. \A i \in 1..n : next[i].mac = devices[i].mac
      BY <1>2, <3>2
    <3> QED BY <1>3, <1>6, <3>2, <3>3, <3>h
  <2>3. CASE ~(IsNew(mac) \/ DueForTouch(mac))
    <3>1. next = devices
      BY <2>3 DEF InspectDevice
    <3>h. \E i \in 1..n : devices[i].mac = mac
      BY <1>1, <2>3 DEF IsNew, Devices, Row
    <3> HIDE DEF next
    <3> QED BY <1>1, <1>3, <1>6, <3>1, <3>h
  <2> QED BY <2>1, <2>2, <2>3
<1>9. /\ timesReported' \in [Macs -> 0..2]
      /\ \A m \in Macs \ (met \cup {mac}) : timesReported'[m] = 0
      /\ \A m \in Macs : timesReported'[m] = timesReported[m]
            \/ (m = mac /\ IsNew(mac) /\ timesReported'[m] = Minimum(timesReported[m] + 1, 2))
  <2>1. CASE DeviceFinding(mac) = {}
    <3>1. timesReported' = timesReported
      BY <2>1 DEF InspectDevice
    <3> QED BY <1>3, <3>1
  <2>2. CASE DeviceFinding(mac) # {}
    <3>1. timesReported' = [timesReported EXCEPT ![mac] = Minimum(timesReported[mac] + 1, 2)]
      BY <2>2 DEF InspectDevice
    <3>2. IsNew(mac)
      BY <2>2 DEF DeviceFinding
    <3>3. Minimum(timesReported[mac] + 1, 2) \in 0..2
      BY <1>3 DEF Minimum
    <3> QED BY <1>3, <3>1, <3>2, <3>3
  <2> QED BY <2>1, <2>2
<1>10. AllAreHeld'
  <2>1. seeded' \subseteq Macs /\ met' \subseteq Macs
    BY <1>3, <1>4
  <2>2. fewer => \A m \in all \cup {mac} : Devices(m)' # {}
    BY <1>8 DEF Devices, Row
  <2>3. \A m \in Macs \ met' : timesReported'[m] = 0
    BY <1>4, <1>9
  <2> HIDE DEF all
  <2> QED BY <1>4, <1>8, <1>9, <2>1, <2>2, <2>3 DEF AllAreHeld
<1>11. ASSUME fewer, NEW m \in Macs PROVE timesReported'[m] <= (IF m \in seeded THEN 0 ELSE 1)
  <2>1. timesReported[m] <= (IF m \in seeded THEN 0 ELSE 1) /\ timesReported[m] \in 0..2
    BY <1>3, <1>6, <1>11 DEF ReportedOnce
  <2>2. CASE timesReported'[m] = timesReported[m]
    BY <2>1, <2>2
  <2>3. CASE m = mac /\ IsNew(mac) /\ timesReported'[m] = Minimum(timesReported[m] + 1, 2)
    <3>1. m \notin seeded /\ timesReported[m] = 0
      BY <1>3, <1>7, <1>11, <2>3
    <3> QED BY <2>3, <3>1 DEF Minimum
  <2> QED BY <1>9, <2>2, <2>3
<1>12. ReportedOnce'
  <2> HIDE DEF all
  <2> QED BY <1>4, <1>11 DEF ReportedOnce
<1> QED BY <1>10, <1>12

\* An upsert that comes through, or fails.
LEMMA WriteEndsInv ==
    ASSUME LanInv, NEW w \in deviceWrites, DeviceWritten(w) \/ DeviceWriteFails(w)
    PROVE  LanInv'
<1>t. TouchInterval \in Nat /\ NoIp \notin Ips
  BY LanAssumption
<1>1. /\ sighted \subseteq Macs /\ DOMAIN stored \subseteq Macs
      /\ \A m \in DOMAIN stored : stored[m] \in 0..TouchInterval
      /\ lastAsked \in [Macs -> 0..TouchInterval] /\ deviceWrites \subseteq [mac : Macs, age : 0..TouchInterval]
      /\ \A v \in deviceWrites : v.age >= lastAsked[v.mac]
  BY DEF LanInv, WritesAreFresh
<1>2. \A m \in Macs : lastAsked[m] < TouchInterval =>
        \/ m \in lostWrites
        \/ [mac |-> m, age |-> lastAsked[m]] \in deviceWrites
        \/ m \in DOMAIN stored /\ stored[m] = lastAsked[m]
  BY DEF LanInv, WritesAreFresh, NewestWrite
<1>3. /\ UNCHANGED <<bindings, claims, sprawls, devices, learning, seeded, met, timesReported,
                     lastAsked, claimed, sighted, frames>>
      /\ raised' = None /\ deviceWrites' = deviceWrites \ {w}
  BY DEF DeviceWritten, DeviceWriteFails, lanUnlessWritten
<1>4. w.mac \in Macs /\ w.age \in 0..TouchInterval /\ w.age >= lastAsked[w.mac] /\ lastAsked[w.mac] \in 0..TouchInterval
      /\ w = [mac |-> w.mac, age |-> w.age]
  BY <1>1
<1>5. /\ DOMAIN stored' \subseteq Macs /\ \A m \in DOMAIN stored' : stored'[m] \in 0..TouchInterval
      /\ \A m \in Macs : lastAsked[m] < TouchInterval =>
            \/ m \in lostWrites'
            \/ [mac |-> m, age |-> lastAsked[m]] \in deviceWrites'
            \/ m \in DOMAIN stored' /\ stored'[m] = lastAsked[m]
  <2>1. CASE DeviceWritten(w)
    <3>1. /\ stored' = [m \in DOMAIN stored \cup {w.mac} |-> IF m = w.mac THEN w.age ELSE stored[m]]
          /\ lostWrites' = IF w.age > lastAsked[w.mac] THEN lostWrites \cup {w.mac} ELSE lostWrites \ {w.mac}
      BY <2>1 DEF DeviceWritten
    <3>2. DOMAIN stored' \subseteq Macs /\ \A m \in DOMAIN stored' : stored'[m] \in 0..TouchInterval
      BY <1>1, <1>4, <3>1
    <3>3. ASSUME NEW m \in Macs, lastAsked[m] < TouchInterval, m \notin lostWrites',
                 [mac |-> m, age |-> lastAsked[m]] \notin deviceWrites'
          PROVE  m \in DOMAIN stored' /\ stored'[m] = lastAsked[m]
      <4>1. CASE m = w.mac
        <5>1. w.age = lastAsked[w.mac]
          BY <1>t, <1>4, <3>1, <3>3, <4>1
        <5> QED BY <3>1, <4>1, <5>1
      <4>2. CASE m # w.mac
        <5>1. m \notin lostWrites /\ [mac |-> m, age |-> lastAsked[m]] \notin deviceWrites
          BY <1>3, <1>4, <3>1, <3>3, <4>2
        <5> QED BY <1>2, <3>1, <3>3, <4>2, <5>1
      <4> QED BY <4>1, <4>2
    <3> QED BY <3>2, <3>3
  <2>2. CASE DeviceWriteFails(w)
    <3>1. /\ stored' = stored
          /\ lostWrites' = IF w.age = lastAsked[w.mac] THEN lostWrites \cup {w.mac} ELSE lostWrites
      BY <2>2 DEF DeviceWriteFails
    <3>3. ASSUME NEW m \in Macs, lastAsked[m] < TouchInterval, m \notin lostWrites',
                 [mac |-> m, age |-> lastAsked[m]] \notin deviceWrites'
          PROVE  m \in DOMAIN stored' /\ stored'[m] = lastAsked[m]
      <4>1. [mac |-> m, age |-> lastAsked[m]] # w
        <5> SUFFICES ASSUME [mac |-> m, age |-> lastAsked[m]] = w PROVE FALSE
          OBVIOUS
        <5>1. w.mac = m /\ w.age = lastAsked[m]
          OBVIOUS
        <5> QED BY <3>1, <3>3, <5>1
      <4>2. m \notin lostWrites /\ [mac |-> m, age |-> lastAsked[m]] \notin deviceWrites
        BY <1>3, <3>1, <3>3, <4>1
      <4> QED BY <1>2, <3>1, <3>3, <4>2
    <3> QED BY <1>1, <3>1, <3>3
  <2> QED BY <2>1, <2>2
<1>6. WritesAreFresh'
  BY <1>1, <1>3, <1>5 DEF LanInv, WritesAreFresh, NewestWrite
<1>7. LastSeenIsFresh'
  <2> SUFFICES ASSUME NEW m \in sighted'
               PROVE  /\ lastAsked'[m] < TouchInterval
                      /\ \/ m \in lostWrites'
                         \/ [mac |-> m, age |-> lastAsked'[m]] \in deviceWrites'
                         \/ m \in DOMAIN stored' /\ stored'[m] < TouchInterval
    BY DEF LastSeenIsFresh, NewestWrite
  <2>1. m \in Macs /\ lastAsked[m] < TouchInterval /\ lastAsked' = lastAsked
    BY <1>1, <1>3 DEF LanInv, LastSeenIsFresh
  <2> QED BY <1>5, <2>1
<1>8. BindingsCount'
  BY <1>3 DEF LanInv, BindingsCount
<1>9. TakeoverIsReported'
  BY <1>t, <1>3 DEF None, TakeoverIsReported
<1>10. AllAreHeld' /\ ReportedOnce'
  BY <1>3 DEF LanInv, AllAreHeld, ReportedOnce, Devices
<1> QED BY <1>6, <1>7, <1>8, <1>9, <1>10 DEF LanInv

\* Nothing is seen for long when a capture starts, and all that fit are held.
LEMMA SeedsAreOld ==
    ASSUME NEW known, known \subseteq Macs, NEW d \in Seeds(known)
    PROVE  /\ d \in Seq([mac : Macs, touched : 0..TouchInterval])
           /\ Len(d) <= MaxTrackedDevices
           /\ \A i \in DOMAIN d : d[i].touched = TouchInterval /\ d[i].mac \in known
           /\ \A i, j \in DOMAIN d : d[i].mac = d[j].mac => i = j
           /\ Cardinality(known) <= MaxTrackedDevices => \A m \in known : Row(d, "mac", m) # {}
<1>1. PICK n \in 0..MaxTrackedDevices : d \in [1..n -> [mac : known, touched : {NeverTouched}]]
  BY DEF Seeds
<1>2. n \in Nat /\ TouchInterval \in Nat /\ MaxTrackedDevices \in Nat /\ IsFiniteSet(Macs)
  BY LanAssumption
<1>3. \A i \in 1..n : d[i] \in [mac : Macs, touched : 0..TouchInterval] /\ d[i].touched = TouchInterval /\ d[i].mac \in known
  BY <1>1, <1>2 DEF NeverTouched
<1> DEFINE Device == [mac : Macs, touched : 0..TouchInterval]
<1>4. DOMAIN d = 1..n /\ \A i \in 1..n : d[i] \in Device
  BY <1>1, <1>3
<1> HIDE DEF Device
<1>5. d \in [1..n -> Device]
  BY <1>1, <1>4
<1>6. d \in Seq(Device) /\ Len(d) = n
  BY <1>2, <1>5
<1>7. /\ \A i, j \in DOMAIN d : d[i].mac = d[j].mac => i = j
      /\ Len(d) = MaxTrackedDevices \/ {d[i].mac : i \in DOMAIN d} = known
  BY DEF Seeds
<1>8. ASSUME Cardinality(known) <= MaxTrackedDevices, NEW m \in known PROVE Row(d, "mac", m) # {}
  <2>1. CASE {d[i].mac : i \in DOMAIN d} = known
    BY <2>1 DEF Row
  <2>2. CASE Len(d) = MaxTrackedDevices
    <3>1. IsFiniteSet(known)
      BY <1>2, FS_Subset
    <3>2. \E i \in 1..n : d[i].mac = m
      <4>1. n = MaxTrackedDevices
        BY <1>6, <2>2
      <4>2. Cardinality(known) <= n
        BY <1>8, <4>1
      <4>3. \A i \in 1..n : d[i].mac \in known
        BY <1>3
      <4>4. \A i, j \in 1..n : d[i].mac = d[j].mac => i = j
        BY <1>4, <1>7
      <4> QED BY <1>2, <3>1, <4>2, <4>3, <4>4, AllTaken
    <3> QED BY <1>4, <3>2 DEF Row
  <2> QED BY <1>7, <2>1, <2>2
<1>9. Len(d) <= MaxTrackedDevices
  BY <1>2, <1>6
<1> QED BY <1>3, <1>4, <1>6, <1>7, <1>8, <1>9 DEF Device

LEMMA LanInitInv == LanInit => LanInv
<1> SUFFICES ASSUME LanInit PROVE LanInv
  OBVIOUS
<1>t. TouchInterval \in Nat /\ TouchInterval >= 1 /\ NoIp \notin Ips
  BY LanAssumption
<1>1. BindingsCount
  BY DEF LanInit, BindingsCount
<1>k. /\ DOMAIN stored \subseteq Macs /\ \A m \in DOMAIN stored : stored[m] = TouchInterval
      /\ seeded \subseteq Macs /\ devices \in Seeds(seeded)
  BY DEF LanInit
<1>s. /\ devices \in Seq([mac : Macs, touched : 0..TouchInterval]) /\ Len(devices) <= MaxTrackedDevices
      /\ \A i \in DOMAIN devices : devices[i].touched = TouchInterval /\ devices[i].mac \in seeded
      /\ \A i, j \in DOMAIN devices : devices[i].mac = devices[j].mac => i = j
      /\ Cardinality(seeded) <= MaxTrackedDevices => \A m \in seeded : Row(devices, "mac", m) # {}
  BY <1>k, SeedsAreOld
<1>i. /\ sighted = {} /\ deviceWrites = {} /\ met = {} /\ timesReported = [m \in Macs |-> 0]
      /\ lastAsked = [m \in Macs |-> TouchInterval]
  BY DEF LanInit
<1>2. WritesAreFresh
  BY <1>t, <1>k, <1>s, <1>i DEF WritesAreFresh
<1>3. TakeoverIsReported
  BY <1>t DEF LanInit, None, TakeoverIsReported
<1>4. LastSeenIsFresh
  BY <1>i DEF LastSeenIsFresh
<1>5. AllAreHeld
  <2>1. seeded \cup met = seeded
    BY <1>i
  <2> QED BY <1>k, <1>s, <1>i, <2>1 DEF AllAreHeld, Devices
<1>6. ReportedOnce
  BY <1>i DEF ReportedOnce
<1> QED BY <1>1, <1>2, <1>3, <1>4, <1>5, <1>6 DEF LanInv

LEMMA StartCaptureInv == LanInv /\ StartCapture => LanInv'
<1> SUFFICES ASSUME LanInv, StartCapture PROVE LanInv'
  OBVIOUS
<1>t. TouchInterval \in Nat /\ TouchInterval >= 1 /\ NoIp \notin Ips
  BY LanAssumption
<1>1. BindingsCount'
  BY DEF StartCapture, BindingsCount
<1>k. seeded' \subseteq Macs /\ devices' \in Seeds(seeded')
  BY DEF StartCapture
<1>s. /\ devices' \in Seq([mac : Macs, touched : 0..TouchInterval]) /\ Len(devices') <= MaxTrackedDevices
      /\ \A i \in DOMAIN devices' : devices'[i].touched = TouchInterval /\ devices'[i].mac \in seeded'
      /\ \A i, j \in DOMAIN devices' : devices'[i].mac = devices'[j].mac => i = j
      /\ Cardinality(seeded') <= MaxTrackedDevices => \A m \in seeded' : Row(devices', "mac", m) # {}
  <2> DEFINE known == seeded'
             d == devices'
  <2>1. known \subseteq Macs /\ d \in Seeds(known)
    BY <1>k
  <2> HIDE DEF known, d
  <2>2. /\ d \in Seq([mac : Macs, touched : 0..TouchInterval]) /\ Len(d) <= MaxTrackedDevices
        /\ \A i \in DOMAIN d : d[i].touched = TouchInterval /\ d[i].mac \in known
        /\ \A i, j \in DOMAIN d : d[i].mac = d[j].mac => i = j
        /\ Cardinality(known) <= MaxTrackedDevices => \A m \in known : Row(d, "mac", m) # {}
    BY <2>1, SeedsAreOld
  <2> QED BY <2>2 DEF known, d
<1>i. /\ met' = {} /\ timesReported' = [m \in Macs |-> 0]
      /\ stored' = stored /\ deviceWrites' = deviceWrites /\ lastAsked' = lastAsked
      /\ lostWrites' = lostWrites /\ sighted' = sighted
  BY DEF StartCapture
<1>2. WritesAreFresh'
  BY <1>t, <1>s, <1>i DEF LanInv, WritesAreFresh, NewestWrite
<1>3. TakeoverIsReported'
  BY <1>t DEF StartCapture, None, TakeoverIsReported
<1>4. LastSeenIsFresh'
  BY <1>i DEF LanInv, LastSeenIsFresh, NewestWrite
<1>5. AllAreHeld'
  <2>1. seeded' \cup met' = seeded'
    BY <1>i
  <2> QED BY <1>k, <1>s, <1>i, <2>1 DEF AllAreHeld, Devices
<1>6. ReportedOnce'
  BY <1>i DEF ReportedOnce
<1> QED BY <1>1, <1>2, <1>3, <1>4, <1>5, <1>6 DEF LanInv

LEMMA LanTickInv == LanInv /\ LanTick => LanInv'
<1> SUFFICES ASSUME LanInv, LanTick PROVE LanInv'
  OBVIOUS
<1>t. /\ TouchInterval \in Nat /\ TouchInterval >= 1 /\ NoIp \notin Ips /\ Expired \in Nat
      /\ NeverTouched = TouchInterval
  BY LanAssumption DEF Expired, NeverTouched
<1>1. BindingsCount'
  <2> DEFINE Aged(b) == [b EXCEPT !.history = [m \in Macs |-> Minimum(@[m] + 1, Expired)]]
  <2>1. /\ Len(bindings) \in Nat /\ DOMAIN bindings = 1..Len(bindings)
        /\ \A i \in 1..Len(bindings) : bindings[i] \in Binding
    BY Indexed DEF LanInv, BindingsCount
  <2>2. bindings' = [i \in 1..Len(bindings) |-> Aged(bindings[i])] /\ claimed' = claimed
    BY <2>1 DEF LanTick
  <2>3. ASSUME NEW b \in Binding
        PROVE  Aged(b) \in Binding /\ Aged(b).ip = b.ip /\ Aged(b).mac = b.mac
               /\ Aged(b).observations = b.observations
    <3> DEFINE older == [m \in Macs |-> Minimum(b.history[m] + 1, Expired)]
    <3>1. older \in [Macs -> 0..Expired]
      <4>1. b.history \in [Macs -> 0..Expired]
        BY DEF Binding
      <4> QED BY <1>t, <4>1 DEF Minimum
    <3>2. Aged(b) = [b EXCEPT !.history = older]
      OBVIOUS
    <3> HIDE DEF older, Aged
    <3> QED BY <3>1, <3>2 DEF Binding
  <2> HIDE DEF Aged
  <2>4. DOMAIN bindings' = 1..Len(bindings) /\ bindings' \in Seq(Binding)
    BY <2>1, <2>2, <2>3
  <2>5. \A i \in 1..Len(bindings) : /\ bindings'[i].ip = bindings[i].ip /\ bindings'[i].mac = bindings[i].mac
                                    /\ bindings'[i].observations = bindings[i].observations
    BY <2>1, <2>2, <2>3
  <2>6. \A i \in 1..Len(bindings) : Counts(bindings'[i], claimed'[bindings'[i].ip])
    BY <2>1, <2>2, <2>5 DEF LanInv, BindingsCount, Counts
  <2>7. \A ip \in Ips : Row(bindings', "ip", ip) = Row(bindings, "ip", ip)
    BY <2>1, <2>4, <2>5 DEF Row
  <2>8. \A i, j \in DOMAIN bindings' : bindings'[i].ip = bindings'[j].ip => i = j
    BY <2>1, <2>4, <2>5 DEF LanInv, BindingsCount
  <2>9. \A ip \in Ips : Row(bindings', "ip", ip) = {} => claimed'[ip] = <<>>
    BY <2>2, <2>7 DEF LanInv, BindingsCount
  <2>10. claimed' \in [Ips -> Seq(Macs)]
    BY <2>2 DEF LanInv, BindingsCount
  <2> QED BY <2>4, <2>6, <2>8, <2>9, <2>10 DEF BindingsCount
<1>2. WritesAreFresh'
  <2> DEFINE Device == [mac : Macs, touched : 0..TouchInterval]
             Write == [mac : Macs, age : 0..TouchInterval]
             older(a) == Minimum(a + 1, TouchInterval)
  <2>1. /\ devices \in Seq(Device) /\ Len(devices) \in Nat /\ DOMAIN devices = 1..Len(devices)
        /\ \A i \in 1..Len(devices) : devices[i] \in Device
    BY Indexed DEF LanInv, WritesAreFresh
  <2>2. /\ DOMAIN stored \subseteq Macs /\ \A m \in DOMAIN stored : stored[m] \in 0..TouchInterval
        /\ lastAsked \in [Macs -> 0..TouchInterval] /\ deviceWrites \subseteq Write
        /\ \A i \in DOMAIN devices : devices[i].touched < TouchInterval =>
              lastAsked[devices[i].mac] <= devices[i].touched
        /\ \A w \in deviceWrites : w.age >= lastAsked[w.mac]
    BY DEF LanInv, WritesAreFresh
  <2>c. \A m \in Macs : lastAsked[m] < TouchInterval =>
          \/ m \in lostWrites
          \/ [mac |-> m, age |-> lastAsked[m]] \in deviceWrites
          \/ m \in DOMAIN stored /\ stored[m] = lastAsked[m]
    BY DEF LanInv, WritesAreFresh, NewestWrite
  <2>3. /\ devices' = [i \in DOMAIN devices |-> [devices[i] EXCEPT !.touched = Minimum(@ + 1, TouchInterval)]]
        /\ stored' = [m \in DOMAIN stored |-> Minimum(stored[m] + 1, TouchInterval)]
        /\ lastAsked' = [m \in Macs |-> Minimum(lastAsked[m] + 1, TouchInterval)]
        /\ deviceWrites' = {[w EXCEPT !.age = Minimum(@ + 1, TouchInterval)] : w \in deviceWrites}
        /\ sighted' = {} /\ lostWrites' = lostWrites
    BY <1>t DEF LanTick
  <2>4. \A n \in 0..TouchInterval : /\ Minimum(n + 1, TouchInterval) \in 0..TouchInterval
                                    /\ Minimum(n + 1, TouchInterval) < TouchInterval => Minimum(n + 1, TouchInterval) = n + 1
    BY <1>t DEF Minimum
  <2>5. /\ lastAsked' \in [Macs -> 0..TouchInterval] /\ DOMAIN stored' \subseteq Macs
        /\ \A m \in DOMAIN stored' : stored'[m] \in 0..TouchInterval
    BY <2>2, <2>3, <2>4
  <2>w. \A w \in Write : /\ [w EXCEPT !.age = Minimum(@ + 1, TouchInterval)] = [mac |-> w.mac, age |-> older(w.age)]
                         /\ [w EXCEPT !.age = Minimum(@ + 1, TouchInterval)] \in Write
    BY <2>4
  <2>v. deviceWrites' = {[mac |-> w.mac, age |-> older(w.age)] : w \in deviceWrites} /\ deviceWrites' \subseteq Write
    BY <2>2, <2>3, <2>w
  <2>6. \A i \in 1..Len(devices) :
           /\ devices'[i] = [mac |-> devices[i].mac, touched |-> Minimum(devices[i].touched + 1, TouchInterval)]
           /\ devices'[i] \in Device
    BY <2>1, <2>3, <2>4
  <2>f. \A i \in 1..Len(devices) :
           /\ devices'[i].mac = devices[i].mac
           /\ devices'[i].touched = Minimum(devices[i].touched + 1, TouchInterval)
    <3> SUFFICES ASSUME NEW i \in 1..Len(devices)
                 PROVE  /\ devices'[i].mac = devices[i].mac
                        /\ devices'[i].touched = Minimum(devices[i].touched + 1, TouchInterval)
      OBVIOUS
    <3> DEFINE age == Minimum(devices[i].touched + 1, TouchInterval)
    <3>1. devices'[i] = [mac |-> devices[i].mac, touched |-> age]
      BY <2>6
    <3> HIDE DEF age
    <3>2. devices'[i].mac = devices[i].mac /\ devices'[i].touched = age
      BY <3>1
    <3> QED BY <3>2 DEF age
  <2>7. DOMAIN devices' = 1..Len(devices) /\ devices' \in Seq(Device)
    <3>1. DOMAIN devices' = 1..Len(devices) /\ \A i \in 1..Len(devices) : devices'[i] \in Device
      BY <2>1, <2>3, <2>6
    <3> DEFINE Aged(i) == [devices[i] EXCEPT !.touched = Minimum(@ + 1, TouchInterval)]
    <3>2. devices' = [i \in 1..Len(devices) |-> Aged(i)]
      BY <2>1, <2>3
    <3> HIDE DEF Device, Aged
    <3> QED BY <2>1, <3>1, <3>2
  <2>8. ASSUME NEW i \in DOMAIN devices', devices'[i].touched < TouchInterval
        PROVE  lastAsked'[devices'[i].mac] <= devices'[i].touched
    <3>1. i \in 1..Len(devices) /\ devices[i].touched \in 0..TouchInterval /\ devices[i].mac \in Macs
      BY <2>1, <2>7
    <3>2. devices'[i].mac = devices[i].mac /\ devices'[i].touched = Minimum(devices[i].touched + 1, TouchInterval)
      BY <2>f, <3>1
    <3>3. devices[i].touched < TouchInterval /\ devices'[i].touched = devices[i].touched + 1
      BY <1>t, <2>8, <3>1, <3>2 DEF Minimum
    <3>4. lastAsked[devices[i].mac] <= devices[i].touched /\ lastAsked[devices[i].mac] \in 0..TouchInterval
      BY <2>1, <2>2, <3>1, <3>3
    <3>5. lastAsked'[devices[i].mac] = Minimum(lastAsked[devices[i].mac] + 1, TouchInterval)
      BY <2>3, <3>1
    <3>6. lastAsked'[devices[i].mac] <= devices[i].touched + 1
      BY <1>t, <3>1, <3>4, <3>5 DEF Minimum
    <3> QED BY <3>2, <3>3, <3>6
  <2>9. ASSUME NEW m \in Macs, lastAsked'[m] < TouchInterval
        PROVE  \/ m \in lostWrites'
               \/ [mac |-> m, age |-> lastAsked'[m]] \in deviceWrites'
               \/ m \in DOMAIN stored' /\ stored'[m] = lastAsked'[m]
    <3>1. lastAsked'[m] = older(lastAsked[m]) /\ lastAsked[m] \in 0..TouchInterval
      BY <2>2, <2>3
    <3>2. lastAsked[m] < TouchInterval
      BY <1>t, <2>9, <3>1 DEF Minimum
    <3>3. CASE m \in lostWrites
      BY <2>3, <3>3
    <3>4. CASE [mac |-> m, age |-> lastAsked[m]] \in deviceWrites
      <4> DEFINE w == [mac |-> m, age |-> lastAsked[m]]
      <4>1. w.mac = m /\ w.age = lastAsked[m]
        OBVIOUS
      <4>2. [mac |-> w.mac, age |-> older(w.age)] \in deviceWrites'
        BY <2>v, <3>4
      <4> QED BY <3>1, <4>1, <4>2
    <3>5. CASE m \in DOMAIN stored /\ stored[m] = lastAsked[m]
      BY <2>3, <3>1, <3>5
    <3> QED BY <2>c, <3>2, <3>3, <3>4, <3>5
  <2>10. ASSUME NEW v \in deviceWrites' PROVE v.age >= lastAsked'[v.mac]
    <3>1. PICK w \in deviceWrites : v = [mac |-> w.mac, age |-> older(w.age)]
      BY <2>v
    <3>2. /\ w.mac \in Macs /\ w.age \in 0..TouchInterval /\ w.age >= lastAsked[w.mac]
          /\ lastAsked[w.mac] \in 0..TouchInterval
      BY <2>2
    <3>3. v.mac = w.mac /\ v.age = older(w.age) /\ lastAsked'[w.mac] = older(lastAsked[w.mac])
      BY <2>3, <3>1, <3>2
    <3>4. older(w.age) >= older(lastAsked[w.mac])
      BY <1>t, <3>2 DEF Minimum
    <3> QED BY <3>3, <3>4
  <2> QED BY <2>3, <2>5, <2>7, <2>8, <2>9, <2>10, <2>v DEF WritesAreFresh, NewestWrite
<1>3. TakeoverIsReported'
  BY <1>t DEF LanTick, None, TakeoverIsReported
<1>4. LastSeenIsFresh'
  BY DEF LanTick, LastSeenIsFresh
<1>5. AllAreHeld' /\ ReportedOnce'
  <2> DEFINE Device == [mac : Macs, touched : 0..TouchInterval]
  <2>1. /\ devices \in Seq(Device) /\ Len(devices) \in Nat /\ DOMAIN devices = 1..Len(devices)
        /\ \A i \in 1..Len(devices) : devices[i] \in Device
    BY Indexed DEF LanInv, WritesAreFresh
  <2>2. /\ devices' = [i \in DOMAIN devices |-> [devices[i] EXCEPT !.touched = Minimum(@ + 1, NeverTouched)]]
        /\ seeded' = seeded /\ met' = met /\ timesReported' = timesReported
    BY DEF LanTick
  <2>3. DOMAIN devices' = DOMAIN devices /\ Len(devices') = Len(devices)
        /\ \A i \in DOMAIN devices : devices'[i].mac = devices[i].mac
    BY <2>1, <2>2
  <2>4. \A m \in Macs : Devices(m)' = Devices(m)
    BY <2>3 DEF Devices, Row
  <2>5. /\ seeded \subseteq Macs /\ met \subseteq Macs /\ timesReported \in [Macs -> 0..2]
        /\ Len(devices) <= MaxTrackedDevices
        /\ \A i, j \in DOMAIN devices : devices[i].mac = devices[j].mac => i = j
        /\ \A i \in DOMAIN devices : devices[i].mac \in seeded \cup met
        /\ Cardinality(seeded \cup met) <= MaxTrackedDevices => \A m \in seeded \cup met : Devices(m) # {}
        /\ \A m \in Macs \ met : timesReported[m] = 0
    BY DEF LanInv, AllAreHeld
  <2>6. AllAreHeld'
    BY <2>2, <2>3, <2>4, <2>5 DEF AllAreHeld
  <2>7. ReportedOnce'
    BY <2>2 DEF LanInv, ReportedOnce
  <2> QED BY <2>6, <2>7
<1> QED BY <1>1, <1>2, <1>3, <1>4, <1>5 DEF LanInv

LEMMA FrameInv ==
    ASSUME LanInv, NEW mac \in Macs, OtherFrame(mac) \/ \E ip \in Ips : ArpFrame(ip, mac)
    PROVE  LanInv'
<1>1. WritesAreFresh' /\ LastSeenIsFresh' /\ AllAreHeld' /\ ReportedOnce'
  <2>1. InspectDevice(mac)
    BY DEF OtherFrame, ArpFrame
  <2>2. WritesAreFresh' /\ LastSeenIsFresh'
    BY <2>1, DeviceFrame DEF LanInv
  <2>3. AllAreHeld' /\ ReportedOnce'
    BY <2>1, FramesHeld DEF LanInv
  <2> QED BY <2>2, <2>3
<1>2. CASE OtherFrame(mac)
  <2>1. BindingsCount'
    BY <1>2 DEF OtherFrame, LanInv, BindingsCount
  <2>2. TakeoverIsReported'
    BY <1>2, LanAssumption DEF OtherFrame, TakeoverIsReported
  <2> QED BY <1>1, <2>1, <2>2 DEF LanInv
<1>3. ASSUME NEW ip \in Ips, ArpFrame(ip, mac) PROVE LanInv'
  <2>1. BindingsCount'
    BY <1>3, ArpBindings DEF ArpFrame, InspectArp, LanInv
  <2>2. TakeoverIsReported'
    BY <1>3, ArpTakeover DEF LanInv
  <2> QED BY <1>1, <2>1, <2>2 DEF LanInv
<1> QED BY <1>2, <1>3

LEMMA LanStep == LanInv /\ [LanNext]_lanVars => LanInv'
<1> SUFFICES ASSUME LanInv, [LanNext]_lanVars PROVE LanInv'
  OBVIOUS
<1>1. CASE StartCapture
  BY <1>1, StartCaptureInv
<1>2. CASE LanTick
  BY <1>2, LanTickInv
<1>3. ASSUME NEW mac \in Macs, OtherFrame(mac) \/ \E ip \in Ips : ArpFrame(ip, mac) PROVE LanInv'
  BY <1>3, FrameInv
<1>4. ASSUME NEW w \in deviceWrites, DeviceWritten(w) \/ DeviceWriteFails(w) PROVE LanInv'
  BY <1>4, WriteEndsInv
<1>5. CASE UNCHANGED lanVars
  BY <1>5 DEF lanVars, LanInv, BindingsCount, WritesAreFresh, AllAreHeld, TakeoverIsReported, LastSeenIsFresh,
             ReportedOnce, NewestWrite, Devices
<1> QED BY <1>1, <1>2, <1>3, <1>4, <1>5 DEF LanNext

\* What the picture of the local network rests on holds in every state, whatever upserts of
\* its devices fail or overtake each other.
THEOREM LanInductive == LanSpec => []LanInv
<1>1. LanInit => LanInv
  BY LanInitInv
<1>2. LanInv /\ [LanNext]_lanVars => LanInv'
  BY LanStep
<1> QED BY <1>1, <1>2, PTL DEF LanSpec

\* Who took an address over is reported as the claims say; a device on the network is asked
\* to be written again within the interval, and is stored as lately seen unless its newest
\* upsert is under way, failed or was overtaken; and each is reported as new once, while the
\* table of devices fits.
THEOREM LanCorrect == LanSpec => []LanPictureExact
<1>1. LanInv => LanPictureExact
  BY DEF LanInv, LanPictureExact
<1> QED BY <1>1, LanInductive, PTL

-----------------------------------------------------------------------------
(* The desk of findings *)

\* The rows that a press holds.
Taken(press) == IF press.stage = "running" THEN press.took ELSE {}

LEMMA DeskNumbers == MaxDeskPresses \in Nat /\ Missing # Open /\ Missing \notin Acks /\ Open \notin Acks /\ 0 \in Acks
BY DeskAssumption DEF Missing, Open, Acks

LEMMA PressGoesOn ==
    ASSUME NEW p \in DeskPress, NEW s \in {"none", "sent", "running", "ok", "failed"}, NEW q, q = [p EXCEPT !.stage = s]
    PROVE  q \in DeskPress /\ q.op = p.op /\ q.on = p.on /\ q.stage = s /\ q.was = p.was /\ q.took = p.took
BY DEF DeskPress

\* What becomes of a page with another press.
LEMMA PageWithPress ==
    ASSUME NEW p \in DeskPage, NEW press \in DeskPress, NEW q, q = [p EXCEPT !.press = press]
    PROVE  /\ q \in DeskPage /\ q.press = press /\ q.fetch = p.fetch
           /\ (q.shownFresh <=> p.shownFresh) /\ (q.answerFresh <=> p.answerFresh) /\ (q.complains <=> p.complains)
BY DEF DeskPage

\* A row is changed that no transaction holds.
LEMMA PressKept ==
    ASSUME NEW press, NEW row, NEW next, PressOK(press, row), \A f \in Taken(press) : next[f] = row[f]
    PROVE  PressOK(press, next)
BY DEF PressOK, Taken

\* One page moves.
LEMMA PageMoves ==
    ASSUME DeskInv, NEW a \in Analysts, NEW page \in DeskPage, desk' = [desk EXCEPT ![a] = page],
           PageOK(page), PressOK(page.press, alertRow'),
           \A b \in Analysts \ {a} : /\ \A f \in Locked(b) : alertRow'[f] = alertRow[f]
                                     /\ Taken(page.press) \cap Locked(b) = {}
    PROVE  PressesOK' /\ desk' \in [Analysts -> DeskPage]
<1>1. desk \in [Analysts -> DeskPage]
  BY DEF DeskInv, DeskRows
<1>2. /\ desk' \in [Analysts -> DeskPage] /\ desk'[a] = page
      /\ \A b \in Analysts \ {a} : desk'[b] = desk[b]
  BY <1>1
<1>3. /\ Locked(a)' = Taken(page.press)
      /\ \A b \in Analysts \ {a} : Locked(b)' = Locked(b) /\ Locked(b) = Taken(desk[b].press)
  BY <1>2 DEF Locked, Taken
<1>4. \A b \in Analysts \ {a} : PageOK(desk'[b]) /\ PressOK(desk'[b].press, alertRow')
  <2> SUFFICES ASSUME NEW b \in Analysts \ {a} PROVE PageOK(desk[b]) /\ PressOK(desk[b].press, alertRow')
    BY <1>2
  <2>1. PageOK(desk[b]) /\ PressOK(desk[b].press, alertRow)
    BY DEF DeskInv, PressesOK
  <2> QED BY <1>3, <2>1, PressKept
<1>5. \A b \in Analysts : PageOK(desk'[b]) /\ PressOK(desk'[b].press, alertRow')
  BY <1>2, <1>4
<1>6. ASSUME NEW b \in Analysts, NEW c \in Analysts, b # c PROVE Locked(b)' \cap Locked(c)' = {}
  <2>1. CASE b = a \/ c = a
    BY <1>3, <1>6, <2>1
  <2>2. CASE b # a /\ c # a
    BY <1>3, <1>6, <2>2 DEF DeskInv, PressesOK
  <2> QED BY <2>1, <2>2
<1> QED BY <1>2, <1>5, <1>6 DEF PressesOK

\* Nothing is done that the trail tells of.
LEMMA TrailKept ==
    ASSUME TrailIsExact, UNCHANGED <<deskTrail, cleared, reopened, removed>> PROVE TrailIsExact'
BY DEF TrailIsExact, EntriesOf, RemovedBy

\* A page moves, and no row.
LEMMA PageMovesAlone ==
    ASSUME DeskInv, NEW a \in Analysts, NEW page \in DeskPage, desk' = [desk EXCEPT ![a] = page],
           PageOK(page), PressOK(page.press, alertRow), Taken(page.press) = {} \/ page.press = desk[a].press,
           alertRow' = alertRow, UNCHANGED <<deskTrail, cleared, reopened, removed>>, nextAck' \in Acks
    PROVE  DeskInv'
<1>1. \A b \in Analysts \ {a} : Taken(page.press) \cap Locked(b) = {}
  <2>1. \A b \in Analysts \ {a} : Locked(a) \cap Locked(b) = {}
    BY DEF DeskInv, PressesOK
  <2> QED BY <2>1 DEF Locked, Taken
<1>2. PressesOK' /\ desk' \in [Analysts -> DeskPage]
  BY <1>1, PageMoves
<1>3. TrailIsExact'
  BY TrailKept DEF DeskInv
<1>4. DeskRows'
  BY <1>2 DEF DeskInv, DeskRows
<1> QED BY <1>2, <1>3, <1>4 DEF DeskInv

LEMMA DeskInitInv == DeskInit => DeskInv
<1> SUFFICES ASSUME DeskInit PROVE DeskInv
  OBVIOUS
<1>1. NoDeskPress \in DeskPress /\ NoDeskPress.stage = "none" /\ Taken(NoDeskPress) = {}
  BY DEF NoDeskPress, DeskPress, RowStates, Taken
<1>2. Shown \in [Alerts -> {Missing, Open, 0}]
  BY DEF DeskInit, Shown
<1> DEFINE page == [rows |-> Shown, shownFresh |-> TRUE, press |-> NoDeskPress, fetch |-> "none", answer |-> Shown,
                    answerFresh |-> TRUE, complains |-> FALSE]
<1>3. page \in DeskPage /\ page.press = NoDeskPress /\ PageOK(page)
  BY <1>1, <1>2 DEF DeskPage, PageOK
<1>4. desk = [a \in Analysts |-> page]
  BY DEF DeskInit
<1> HIDE DEF page
<1>5. DeskRows
  BY <1>3, <1>4, DeskNumbers DEF DeskInit, DeskRows, RowStates
<1>6. PressesOK
  BY <1>1, <1>3, <1>4 DEF PressesOK, PressOK, Locked
<1>7. TrailIsExact
  <2>1. EntriesOf("unacknowledge") = {} /\ EntriesOf("delete") = {} /\ RemovedBy("delete") = {} /\ RemovedBy("clear") = {}
    BY DEF DeskInit, EntriesOf, RemovedBy
  <2>2. Cardinality({}) = 0
    BY FS_EmptySet
  <2> QED BY <2>1, <2>2 DEF DeskInit, TrailIsExact
<1> QED BY <1>5, <1>6, <1>7 DEF DeskInv

\* A press is sent.
LEMMA SentInv ==
    ASSUME DeskInv, NEW a \in Analysts, NEW op \in {"acknowledge", "reopen", "delete", "clear"}, NEW on \in SUBSET Alerts,
           op # "clear" => \E f \in Alerts : on = {f}, desk[a].press.stage = "none", Sent(a, op, on), alertRow' = alertRow,
           UNCHANGED <<deskTrail, cleared, reopened, removed>>, nextAck < MaxDeskPresses, nextAck' = nextAck + 1
    PROVE  DeskInv'
<1> DEFINE press == [op |-> op, on |-> on, stage |-> "sent", was |-> Missing, took |-> {}]
           page == [desk[a] EXCEPT !.press = press]
<1>1. press \in DeskPress /\ press.op = op /\ press.on = on /\ press.stage = "sent"
  BY DEF DeskPress, RowStates
<1>2. desk' = [desk EXCEPT ![a] = page]
  BY DEF Sent
<1>3. PressOK(press, alertRow) /\ Taken(press) = {}
  BY <1>1 DEF PressOK, Taken
<1>4. desk[a] \in DeskPage /\ PageOK(desk[a])
  BY DEF DeskInv, DeskRows, PressesOK
<1> HIDE DEF press
<1>5. /\ page \in DeskPage /\ page.press = press /\ page.fetch = desk[a].fetch
      /\ (page.shownFresh <=> desk[a].shownFresh) /\ (page.answerFresh <=> desk[a].answerFresh)
      /\ (page.complains <=> desk[a].complains)
  BY <1>1, <1>4, PageWithPress
<1> HIDE DEF page
<1>6. PageOK(page)
  BY <1>4, <1>5 DEF PageOK
<1>7. nextAck' \in Acks
  BY DeskNumbers DEF DeskInv, DeskRows, Acks
<1> QED BY <1>2, <1>3, <1>5, <1>6, <1>7, PageMovesAlone

\* The page after the change: what it held from before is no longer fresh.
PageAfter(a, outcome) ==
    [desk[a] EXCEPT !.press = [desk[a].press EXCEPT !.stage = outcome],
                    !.shownFresh = IF outcome = "ok" THEN FALSE ELSE @,
                    !.answerFresh = IF outcome = "ok" THEN FALSE ELSE @]

\* A press has ended in the database.
LEMMA CommittedPage ==
    ASSUME DeskInv, NEW a \in Analysts, NEW outcome \in {"ok", "failed"}, Committed(a, outcome),
           desk[a].press.stage \in {"sent", "running"},
           NEW page, page = PageAfter(a, outcome)
    PROVE  /\ page \in DeskPage /\ desk' = [desk EXCEPT ![a] = page] /\ PageOK(page) /\ Taken(page.press) = {}
           /\ \A row : PressOK(page.press, row)
<1>1. desk[a] \in DeskPage /\ PageOK(desk[a]) /\ desk[a].press \in DeskPress /\ PressOK(desk[a].press, alertRow)
  BY DEF DeskInv, DeskRows, PressesOK, DeskPage
<1> DEFINE press == [desk[a].press EXCEPT !.stage = outcome]
           shownFresh == IF outcome = "ok" THEN FALSE ELSE desk[a].shownFresh
           answerFresh == IF outcome = "ok" THEN FALSE ELSE desk[a].answerFresh
<1>2. press \in DeskPress /\ press.op = desk[a].press.op /\ press.on = desk[a].press.on /\ press.stage = outcome
  BY <1>1, PressGoesOn
<1>3. page = [desk[a] EXCEPT !.press = press, !.shownFresh = shownFresh, !.answerFresh = answerFresh]
  BY DEF PageAfter
<1>4. desk' = [desk EXCEPT ![a] = page]
  BY DEF Committed, PageAfter
<1>b. /\ shownFresh \in BOOLEAN /\ answerFresh \in BOOLEAN
      /\ outcome = "failed" => (shownFresh <=> desk[a].shownFresh) /\ (answerFresh <=> desk[a].answerFresh)
  BY <1>1 DEF DeskPage
<1> HIDE DEF press, shownFresh, answerFresh
<1>5. /\ page \in DeskPage /\ page.press = press /\ page.fetch = desk[a].fetch
      /\ (page.shownFresh <=> shownFresh) /\ (page.answerFresh <=> answerFresh)
      /\ (page.complains <=> desk[a].complains)
  BY <1>1, <1>2, <1>3, <1>b DEF DeskPage
<1>6. PageOK(page)
  BY <1>1, <1>2, <1>5, <1>b DEF PageOK
<1>7. \A row : PressOK(press, row)
  BY <1>1, <1>2 DEF PressOK
<1>8. Taken(press) = {}
  BY <1>2 DEF Taken
<1> QED BY <1>4, <1>5, <1>6, <1>7, <1>8

\* A press that changes nothing: it fails, or there is nothing to clear.
LEMMA NothingDone ==
    ASSUME DeskInv, NEW a \in Analysts, NEW outcome, outcome \in {"ok", "failed"}, Committed(a, outcome),
           desk[a].press.stage \in {"sent", "running"}, alertRow' = alertRow,
           UNCHANGED <<deskTrail, cleared, reopened, removed>>, nextAck' = nextAck
    PROVE  DeskInv'
<1> DEFINE page == PageAfter(a, outcome)
<1>1. page = PageAfter(a, outcome)
  OBVIOUS
<1> HIDE DEF page
<1>2. /\ page \in DeskPage /\ desk' = [desk EXCEPT ![a] = page] /\ PageOK(page) /\ Taken(page.press) = {}
      /\ \A row : PressOK(page.press, row)
  BY <1>1, CommittedPage
<1>3. nextAck \in Acks
  BY DEF DeskInv, DeskRows
<1> QED BY <1>2, <1>3, PageMovesAlone

\* A press takes effect on rows that no other transaction holds.
LEMMA RowsDone ==
    ASSUME DeskInv, NEW a \in Analysts, NEW outcome, outcome = "ok", Committed(a, outcome),
           desk[a].press.stage \in {"sent", "running"},
           \A b \in Analysts \ {a} : \A f \in Locked(b) : alertRow'[f] = alertRow[f]
    PROVE  PressesOK' /\ desk' \in [Analysts -> DeskPage]
<1> DEFINE page == PageAfter(a, outcome)
<1>1. page = PageAfter(a, outcome)
  OBVIOUS
<1> HIDE DEF page
<1>2. /\ page \in DeskPage /\ desk' = [desk EXCEPT ![a] = page] /\ PageOK(page) /\ Taken(page.press) = {}
      /\ \A row : PressOK(page.press, row)
  BY <1>1, CommittedPage
<1>3. \A b \in Analysts \ {a} : Taken(page.press) \cap Locked(b) = {}
  BY <1>2
<1> QED BY <1>2, <1>3, PageMoves

\* The finding that a press is about.
LEMMA SubjectIs ==
    ASSUME DeskInv, NEW a \in Analysts, desk[a].press.stage # "none",
           desk[a].press.op \in {"acknowledge", "reopen", "delete"}
    PROVE  Subject(a) \in Alerts /\ desk[a].press.on = {Subject(a)}
<1>1. \E f \in Alerts : desk[a].press.on = {f}
  BY DEF DeskInv, PressesOK, PressOK
<1> QED BY <1>1 DEF Subject

LEMMA FreeOfOthers ==
    ASSUME NEW a \in Analysts, NEW f, IsFree(f, a) PROVE \A b \in Analysts \ {a} : f \notin Locked(b)
BY DEF IsFree

LEMMA PressToggleInv ==
    ASSUME DeskInv, NEW a \in Analysts, NEW f \in Alerts, PressToggle(a, f) PROVE DeskInv'
<1> DEFINE op == IF desk[a].rows[f] = Open THEN "acknowledge" ELSE "reopen"
<1>1. op \in {"acknowledge", "reopen"} /\ Sent(a, op, {f})
  BY DEF PressToggle
<1> HIDE DEF op
<1>2. op \in {"acknowledge", "reopen", "delete", "clear"} /\ {f} \in SUBSET Alerts /\ \E g \in Alerts : {f} = {g}
  BY <1>1
<1> QED BY <1>1, <1>2, SentInv DEF PressToggle

LEMMA PressRemoveInv ==
    ASSUME DeskInv, NEW a \in Analysts, NEW op \in {"delete", "clear"}, NEW on, PressRemove(a, op, on) PROVE DeskInv'
<1>1. on \in SUBSET Alerts /\ (op # "clear" => \E f \in Alerts : on = {f})
  BY DEF PressRemove
<1> QED BY <1>1, SentInv DEF PressRemove

\* The page goes on with the same press.
LEMMA SamePressInv ==
    ASSUME DeskInv, NEW a \in Analysts, NEW page \in DeskPage, desk' = [desk EXCEPT ![a] = page],
           PageOK(page), page.press = desk[a].press,
           UNCHANGED <<alertRow, deskTrail, cleared, reopened, removed, nextAck>>
    PROVE  DeskInv'
<1>1. PressOK(page.press, alertRow) /\ nextAck' \in Acks
  BY DEF DeskInv, DeskRows, PressesOK
<1> QED BY <1>1, PageMovesAlone

LEMMA PageRefetchInv ==
    ASSUME DeskInv, NEW a \in Analysts, PageRefetch(a) PROVE DeskInv'
<1> DEFINE page == [desk[a] EXCEPT !.fetch = "asked"]
<1>1. desk[a] \in DeskPage
  BY DEF DeskInv, DeskRows
<1>2. page \in DeskPage /\ page.fetch = "asked" /\ page.press = desk[a].press /\ desk' = [desk EXCEPT ![a] = page]
  BY <1>1 DEF PageRefetch, DeskPage
<1> HIDE DEF page
<1>3. PageOK(page)
  BY <1>2 DEF PageOK
<1> QED BY <1>2, <1>3, SamePressInv DEF PageRefetch

LEMMA ListServedInv ==
    ASSUME DeskInv, NEW a \in Analysts, ListServed(a) PROVE DeskInv'
<1> DEFINE page == [desk[a] EXCEPT !.fetch = "answered", !.answer = Shown, !.answerFresh = TRUE]
<1>1. desk[a] \in DeskPage
  BY DEF DeskInv, DeskRows
<1>2. Shown \in [Alerts -> {Missing, Open, 0}]
  BY DEF DeskInv, DeskRows, RowStates, Shown
<1>3. desk' = [desk EXCEPT ![a] = page]
  BY DEF ListServed
<1>4. page \in DeskPage /\ page.fetch = "answered" /\ page.press = desk[a].press /\ page.answerFresh
  BY <1>1, <1>2 DEF DeskPage
<1> HIDE DEF page
<1>5. PageOK(page)
  BY <1>4 DEF PageOK
<1> QED BY <1>3, <1>4, <1>5, SamePressInv DEF ListServed

LEMMA ListArrivesInv ==
    ASSUME DeskInv, NEW a \in Analysts, ListArrives(a) PROVE DeskInv'
<1> DEFINE page == [desk[a] EXCEPT !.fetch = "none", !.rows = desk[a].answer, !.shownFresh = desk[a].answerFresh,
                                   !.complains = FALSE]
<1>1. desk[a] \in DeskPage /\ PageOK(desk[a]) /\ desk[a].fetch = "answered"
  BY DEF DeskInv, DeskRows, PressesOK, ListArrives
<1>2. desk' = [desk EXCEPT ![a] = page]
  BY DEF ListArrives
<1>3. /\ page \in DeskPage /\ page.fetch = "none" /\ page.press = desk[a].press
      /\ (page.shownFresh <=> desk[a].answerFresh)
  BY <1>1 DEF DeskPage
<1> HIDE DEF page
<1>4. PageOK(page)
  BY <1>1, <1>3 DEF PageOK
<1> QED BY <1>2, <1>3, <1>4, SamePressInv DEF ListArrives

LEMMA PressEndsInv ==
    ASSUME DeskInv, NEW a \in Analysts, PressEnds(a) PROVE DeskInv'
<1> DEFINE quiet == [desk[a] EXCEPT !.press = NoDeskPress]
           page == IF desk[a].press.stage = "ok" THEN Invalidated(quiet) ELSE quiet
<1>1. desk[a] \in DeskPage /\ PageOK(desk[a]) /\ nextAck \in Acks
  BY DEF DeskInv, DeskRows, PressesOK
<1>2. NoDeskPress \in DeskPress /\ NoDeskPress.stage = "none" /\ Taken(NoDeskPress) = {}
      /\ PressOK(NoDeskPress, alertRow)
  BY DEF NoDeskPress, DeskPress, RowStates, Taken, PressOK
<1>3. desk' = [desk EXCEPT ![a] = page]
  BY DEF PressEnds
<1>4. /\ quiet \in DeskPage /\ quiet.press = NoDeskPress /\ quiet.fetch = desk[a].fetch
      /\ (quiet.shownFresh <=> desk[a].shownFresh) /\ (quiet.answerFresh <=> desk[a].answerFresh)
      /\ (quiet.complains <=> desk[a].complains)
  BY <1>1, <1>2, PageWithPress
<1> HIDE DEF quiet
<1>5. page \in DeskPage /\ page.press = NoDeskPress /\ PageOK(page)
  <2>1. CASE desk[a].press.stage = "ok"
    <3>1. page = [quiet EXCEPT !.fetch = "asked"]
      BY <2>1 DEF Invalidated
    <3>2. page \in DeskPage /\ page.press = NoDeskPress /\ page.fetch = "asked"
      BY <1>4, <3>1 DEF DeskPage
    <3> QED BY <3>2 DEF PageOK
  <2>2. CASE desk[a].press.stage = "failed"
    BY <1>1, <1>4, <2>2 DEF PageOK
  <2> QED BY <2>1, <2>2 DEF PressEnds
<1> HIDE DEF page
<1> QED BY <1>1, <1>2, <1>3, <1>5, PageMovesAlone DEF PressEnds

LEMMA AnswerLostInv ==
    ASSUME DeskInv, NEW a \in Analysts, AnswerLost(a) PROVE DeskInv'
<1>1. desk[a] \in DeskPage /\ PageOK(desk[a]) /\ PressOK(desk[a].press, alertRow) /\ desk[a].press \in DeskPress
      /\ nextAck \in Acks
  BY DEF DeskInv, DeskRows, PressesOK, DeskPage
<1>2. CASE desk' = [desk EXCEPT ![a].fetch = "none", ![a].complains = TRUE]
  <2> DEFINE page == [desk[a] EXCEPT !.fetch = "none", !.complains = TRUE]
  <2>1. desk' = [desk EXCEPT ![a] = page]
    BY <1>2
  <2>2. page \in DeskPage /\ page.fetch = "none" /\ page.press = desk[a].press /\ page.complains
    BY <1>1 DEF DeskPage
  <2> HIDE DEF page
  <2>3. PageOK(page)
    BY <2>2 DEF PageOK
  <2> QED BY <2>1, <2>2, <2>3, SamePressInv DEF AnswerLost
<1>3. CASE /\ desk[a].press.stage = "ok"
           /\ desk' = [desk EXCEPT ![a].press.stage = "failed", ![a].shownFresh = TRUE, ![a].answerFresh = TRUE]
  <2> DEFINE press == [desk[a].press EXCEPT !.stage = "failed"]
             page == [desk[a] EXCEPT !.press = press, !.shownFresh = TRUE, !.answerFresh = TRUE]
  <2>1. desk' = [desk EXCEPT ![a] = page]
    BY <1>3
  <2>2. press \in DeskPress /\ press.op = desk[a].press.op /\ press.on = desk[a].press.on /\ press.stage = "failed"
    BY <1>1, PressGoesOn
  <2> HIDE DEF press
  <2>3. page \in DeskPage /\ page.press = press /\ page.shownFresh /\ page.answerFresh
    BY <1>1, <2>2 DEF DeskPage
  <2> HIDE DEF page
  <2>4. PageOK(page)
    BY <2>3 DEF PageOK
  <2>5. PressOK(press, alertRow) /\ Taken(press) = {}
    BY <1>1, <1>3, <2>2 DEF PressOK, Taken
  <2> QED BY <1>1, <2>1, <2>3, <2>4, <2>5, PageMovesAlone DEF AnswerLost
<1> QED BY <1>2, <1>3 DEF AnswerLost

LEMMA AcknowledgeInv ==
    ASSUME DeskInv, NEW a \in Analysts, Acknowledge(a) PROVE DeskInv'
<1> DEFINE f == Subject(a)
<1>1. desk[a].press.stage = "sent" /\ desk[a].press.op = "acknowledge" /\ IsFree(f, a)
  BY DEF Acknowledge, Serving
<1>2. f \in Alerts
  BY <1>1, SubjectIs
<1>3. CASE alertRow[f] = Missing
  <2>1. Committed(a, "failed") /\ alertRow' = alertRow
    BY <1>3 DEF Acknowledge
  <2> QED BY <1>1, <2>1, NothingDone DEF Acknowledge
<1>4. CASE alertRow[f] # Missing
  <2>1. Committed(a, "ok") /\ alertRow' = [alertRow EXCEPT ![f] = nextAck]
    BY <1>4 DEF Acknowledge
  <2>2. \A b \in Analysts \ {a} : f \notin Locked(b)
    BY <1>1, FreeOfOthers
  <2> HIDE DEF f
  <2>3. /\ alertRow \in [Alerts -> RowStates] /\ nextAck \in Acks
        /\ \A g \in DOMAIN removed : g \in Alerts /\ alertRow[g] = Missing
    BY DEF DeskInv, DeskRows
  <2>4. \A g : g # f => alertRow'[g] = alertRow[g]
    BY <2>1, <2>3
  <2>5. \A b \in Analysts \ {a} : \A g \in Locked(b) : alertRow'[g] = alertRow[g]
    BY <2>2, <2>4
  <2>6. PressesOK' /\ desk' \in [Analysts -> DeskPage]
    BY <1>1, <2>1, <2>5, RowsDone
  <2>7. alertRow' \in [Alerts -> RowStates]
    BY <2>1, <2>3 DEF RowStates
  <2>8. DeskRows'
    BY <1>4, <2>3, <2>4, <2>6, <2>7 DEF DeskRows, Acknowledge
  <2>9. TrailIsExact'
    BY TrailKept DEF Acknowledge, DeskInv
  <2> QED BY <2>6, <2>8, <2>9 DEF DeskInv
<1> QED BY <1>3, <1>4

\* A transaction reads, and takes rows that are there and free.
LEMMA TakesInv ==
    ASSUME DeskInv, NEW a \in Analysts, desk[a].press.stage = "sent",
           NEW press \in DeskPress, press.stage = "running", press.op = desk[a].press.op, press.on = desk[a].press.on,
           desk' = [desk EXCEPT ![a] = [desk[a] EXCEPT !.press = press]], PressOK(press, alertRow),
           \A f \in press.took : IsFree(f, a),
           UNCHANGED <<alertRow, deskTrail, cleared, reopened, removed, nextAck>>
    PROVE  DeskInv'
<1> DEFINE page == [desk[a] EXCEPT !.press = press]
<1>1. desk[a] \in DeskPage /\ PageOK(desk[a])
  BY DEF DeskInv, DeskRows, PressesOK
<1>2. /\ page \in DeskPage /\ page.press = press /\ page.fetch = desk[a].fetch
      /\ (page.shownFresh <=> desk[a].shownFresh) /\ (page.answerFresh <=> desk[a].answerFresh)
      /\ (page.complains <=> desk[a].complains)
  BY <1>1, PageWithPress
<1>3. desk' = [desk EXCEPT ![a] = page]
  OBVIOUS
<1> HIDE DEF page
<1>4. PageOK(page)
  BY <1>1, <1>2 DEF PageOK
<1>5. Taken(page.press) = press.took
  BY <1>2 DEF Taken
<1>6. \A b \in Analysts \ {a} : /\ \A f \in Locked(b) : alertRow'[f] = alertRow[f]
                                /\ Taken(page.press) \cap Locked(b) = {}
  BY <1>5, FreeOfOthers
<1>7. PressOK(page.press, alertRow')
  BY <1>2
<1>8. PressesOK' /\ desk' \in [Analysts -> DeskPage]
  BY <1>2, <1>3, <1>4, <1>6, <1>7, PageMoves
<1>9. DeskRows'
  BY <1>8 DEF DeskInv, DeskRows
<1>10. TrailIsExact'
  BY TrailKept DEF DeskInv
<1> QED BY <1>8, <1>9, <1>10 DEF DeskInv

LEMMA ReopenReadsInv ==
    ASSUME DeskInv, NEW a \in Analysts, ReopenReads(a) PROVE DeskInv'
<1> DEFINE f == Subject(a)
<1>1. desk[a].press.stage = "sent" /\ desk[a].press.op = "reopen" /\ IsFree(f, a)
  BY DEF ReopenReads, Serving
<1>2. f \in Alerts /\ desk[a].press.on = {f}
  BY <1>1, SubjectIs
<1>3. CASE alertRow[f] = Missing
  <2>1. Committed(a, "failed")
    BY <1>3 DEF ReopenReads
  <2> QED BY <1>1, <2>1, NothingDone DEF ReopenReads
<1>4. CASE alertRow[f] # Missing
  <2> DEFINE press == [desk[a].press EXCEPT !.stage = "running", !.was = alertRow[f], !.took = {f}]
  <2>1. desk' = [desk EXCEPT ![a] = [desk[a] EXCEPT !.press = press]]
    BY <1>4 DEF ReopenReads
  <2>2. desk[a].press \in DeskPress /\ alertRow[f] \in RowStates
    BY <1>2 DEF DeskInv, DeskRows, DeskPage
  <2>3. /\ press \in DeskPress /\ press.stage = "running" /\ press.op = "reopen" /\ press.on = {f}
        /\ press.was = alertRow[f] /\ press.took = {f}
    BY <1>1, <1>2, <2>2 DEF DeskPress
  <2> HIDE DEF press, f
  <2>4. PressOK(press, alertRow)
    BY <1>2, <1>4, <2>3 DEF PressOK
  <2> QED BY <1>1, <1>2, <2>1, <2>3, <2>4, TakesInv DEF ReopenReads
<1> QED BY <1>3, <1>4

LEMMA RemoveRunsInv ==
    ASSUME DeskInv, NEW a \in Analysts, RemoveRuns(a) PROVE DeskInv'
<1> DEFINE there == {f \in desk[a].press.on : alertRow[f] # Missing}
<1>1. desk[a].press.stage = "sent" /\ desk[a].press.op \in {"delete", "clear"} /\ \A f \in there : IsFree(f, a)
  BY DEF RemoveRuns, Serving
<1>2. CASE there = {}
  <2>1. \E outcome \in {"ok", "failed"} : Committed(a, outcome)
    BY <1>2 DEF RemoveRuns
  <2> QED BY <1>1, <2>1, NothingDone DEF RemoveRuns
<1>3. CASE there # {}
  <2> DEFINE press == [desk[a].press EXCEPT !.stage = "running", !.took = there]
  <2>1. desk' = [desk EXCEPT ![a] = [desk[a] EXCEPT !.press = press]]
    BY <1>3 DEF RemoveRuns
  <2>2. desk[a].press \in DeskPress /\ desk[a].press.on \in SUBSET Alerts /\ PressOK(desk[a].press, alertRow)
    BY DEF DeskInv, DeskRows, DeskPage, DeskPress, PressesOK
  <2>3. there \in SUBSET Alerts /\ there \subseteq desk[a].press.on /\ \A f \in there : alertRow[f] # Missing
    BY <2>2
  <2> HIDE DEF there
  <2>4. /\ press \in DeskPress /\ press.stage = "running" /\ press.op = desk[a].press.op
        /\ press.on = desk[a].press.on /\ press.took = there
    BY <2>2, <2>3 DEF DeskPress
  <2> HIDE DEF press
  <2>5. PressOK(press, alertRow)
    BY <1>1, <1>3, <2>2, <2>3, <2>4 DEF PressOK
  <2> QED BY <1>1, <2>1, <2>4, <2>5, TakesInv DEF RemoveRuns
<1> QED BY <1>2, <1>3

\* What a transaction holds when it commits.
LEMMA HeldIs ==
    ASSUME DeskInv, NEW a \in Analysts, desk[a].press.stage = "running", NEW took, took = desk[a].press.took
    PROVE  /\ took \in SUBSET Alerts /\ took \subseteq desk[a].press.on /\ took # {}
           /\ \A f \in took : alertRow[f] # Missing /\ f \notin DOMAIN removed
           /\ desk[a].press.op = "reopen" => \A f \in took : alertRow[f] = desk[a].press.was
           /\ \A b \in Analysts \ {a} : took \cap Locked(b) = {}
<1>1. PressOK(desk[a].press, alertRow) /\ desk[a].press \in DeskPress /\ Locked(a) = took
  BY DEF DeskInv, DeskRows, DeskPage, PressesOK, Locked
<1>2. \A b \in Analysts \ {a} : took \cap Locked(b) = {}
  BY <1>1 DEF DeskInv, PressesOK
<1>3. \A f \in DOMAIN removed : alertRow[f] = Missing
  BY DEF DeskInv, DeskRows
<1> QED BY <1>1, <1>2, <1>3 DEF PressOK, DeskPress

LEMMA ReopenCommitsInv ==
    ASSUME DeskInv, NEW a \in Analysts, ReopenCommits(a) PROVE DeskInv'
<1> DEFINE f == Subject(a)
           was == desk[a].press.was
<1>1. /\ desk[a].press.stage = "running" /\ desk[a].press.op = "reopen" /\ Committed(a, "ok")
      /\ alertRow' = [alertRow EXCEPT ![f] = Open]
      /\ reopened' = IF alertRow[f] = Open THEN reopened ELSE reopened \cup {<<a, f, alertRow[f]>>}
      /\ deskTrail' = IF was = Open THEN deskTrail
                      ELSE deskTrail \cup {[actor |-> a, action |-> "unacknowledge", alert |-> f, was |-> was]}
      /\ UNCHANGED <<cleared, removed, nextAck>>
  BY DEF ReopenCommits
<1>2. f \in Alerts /\ desk[a].press.on = {f}
  BY <1>1, SubjectIs
<1>3. /\ desk[a].press.took \subseteq {f} /\ desk[a].press.took # {}
      /\ \A g \in desk[a].press.took : alertRow[g] # Missing /\ alertRow[g] = was /\ g \notin DOMAIN removed
      /\ \A b \in Analysts \ {a} : desk[a].press.took \cap Locked(b) = {}
  BY <1>1, <1>2, HeldIs
<1>4. /\ alertRow[f] # Missing /\ alertRow[f] = was /\ f \notin DOMAIN removed
      /\ \A b \in Analysts \ {a} : f \notin Locked(b)
  BY <1>3
<1> HIDE DEF f, was
<1>5. /\ alertRow \in [Alerts -> RowStates] /\ nextAck \in Acks
      /\ \A g \in DOMAIN removed : g \in Alerts /\ alertRow[g] = Missing
  BY DEF DeskInv, DeskRows
<1>6. \A g : g # f => alertRow'[g] = alertRow[g]
  BY <1>1, <1>5
<1>7. PressesOK' /\ desk' \in [Analysts -> DeskPage]
  <2>1. \A b \in Analysts \ {a} : \A g \in Locked(b) : alertRow'[g] = alertRow[g]
    BY <1>4, <1>6
  <2> QED BY <1>1, <2>1, RowsDone
<1>8. DeskRows'
  <2>1. alertRow' \in [Alerts -> RowStates]
    BY <1>1, <1>5 DEF RowStates
  <2> QED BY <1>1, <1>4, <1>5, <1>6, <1>7, <2>1 DEF DeskRows
<1>9. TrailIsExact'
  <2>1. RemovedBy("delete")' = RemovedBy("delete") /\ RemovedBy("clear")' = RemovedBy("clear")
    BY <1>1 DEF RemovedBy
  <2>2. CASE was = Open
    BY <1>1, <1>4, <2>2, TrailKept DEF DeskInv
  <2>3. CASE was # Open
    <3> DEFINE e == [actor |-> a, action |-> "unacknowledge", alert |-> f, was |-> was]
    <3>1. deskTrail' = deskTrail \cup {e} /\ reopened' = reopened \cup {<<a, f, was>>}
      BY <1>1, <1>4, <2>3
    <3>2. e.action = "unacknowledge" /\ <<e.actor, e.alert, e.was>> = <<a, f, was>>
      OBVIOUS
    <3> HIDE DEF e
    <3>3. EntriesOf("unacknowledge")' = EntriesOf("unacknowledge") \cup {e} /\ EntriesOf("delete")' = EntriesOf("delete")
      BY <3>1, <3>2 DEF EntriesOf
    <3>4. {<<d.actor, d.alert, d.was>> : d \in EntriesOf("unacknowledge")} = reopened
      BY DEF DeskInv, TrailIsExact
    <3>5. {<<d.actor, d.alert, d.was>> : d \in EntriesOf("unacknowledge")'} = reopened'
      BY <3>1, <3>2, <3>3, <3>4
    <3> QED BY <1>1, <2>1, <3>3, <3>5 DEF TrailIsExact, DeskInv
  <2> QED BY <2>2, <2>3
<1> QED BY <1>7, <1>8, <1>9 DEF DeskInv

LEMMA RemoveCommitsInv ==
    ASSUME DeskInv, NEW a \in Analysts, RemoveCommits(a) PROVE DeskInv'
<1> DEFINE took == desk[a].press.took
           op == desk[a].press.op
<1>1. /\ desk[a].press.stage = "running" /\ op \in {"delete", "clear"} /\ Committed(a, "ok")
      /\ alertRow' = [f \in Alerts |-> IF f \in took THEN Missing ELSE alertRow[f]]
      /\ removed' = [f \in DOMAIN removed \cup took |-> IF f \in took THEN op ELSE removed[f]]
      /\ op = "delete" => /\ deskTrail' = deskTrail \cup {[actor |-> a, action |-> "delete", alert |-> Subject(a),
                                                            was |-> Missing]}
                          /\ cleared' = cleared
      /\ op = "clear" => cleared' = cleared + Cardinality(took) /\ deskTrail' = deskTrail
      /\ UNCHANGED <<reopened, nextAck>>
  BY DEF RemoveCommits
<1>2. /\ took \in SUBSET Alerts /\ took \subseteq desk[a].press.on /\ took # {}
      /\ \A f \in took : alertRow[f] # Missing /\ f \notin DOMAIN removed
      /\ \A b \in Analysts \ {a} : took \cap Locked(b) = {}
  BY <1>1, HeldIs
<1>3. op = "delete" => took = {Subject(a)}
  BY <1>1, <1>2, SubjectIs
<1>s. /\ alertRow \in [Alerts -> RowStates] /\ nextAck \in Acks /\ desk \in [Analysts -> DeskPage]
      /\ \A g \in DOMAIN removed : g \in Alerts /\ alertRow[g] = Missing
  BY DEF DeskInv, DeskRows
<1>l. \A b \in Analysts \ {a} : Locked(b) \subseteq Alerts
  BY <1>s DEF Locked, DeskPage, DeskPress
<1> HIDE DEF took, op
<1>4. PressesOK' /\ desk' \in [Analysts -> DeskPage]
  <2>1. \A b \in Analysts \ {a} : \A g \in Locked(b) : alertRow'[g] = alertRow[g]
    BY <1>1, <1>2, <1>l
  <2> QED BY <1>1, <2>1, RowsDone
<1>5. DeskRows'
  <2>1. alertRow' \in [Alerts -> RowStates]
    BY <1>1, <1>s DEF RowStates
  <2>2. DOMAIN removed' = DOMAIN removed \cup took
    BY <1>1
  <2> QED BY <1>1, <1>2, <1>4, <1>s, <2>1, <2>2 DEF DeskRows
<1>6. \A x \in {"delete", "clear"} : RemovedBy(x)' = IF x = op THEN RemovedBy(x) \cup took ELSE RemovedBy(x)
  BY <1>1, <1>2 DEF RemovedBy
<1>7. TrailIsExact'
  <2>o. /\ {<<e.actor, e.alert, e.was>> : e \in EntriesOf("unacknowledge")} = reopened
        /\ {e.alert : e \in EntriesOf("delete")} = RemovedBy("delete")
        /\ cleared = Cardinality(RemovedBy("clear"))
    BY DEF DeskInv, TrailIsExact
  <2>1. CASE op = "delete"
    <3> DEFINE d == [actor |-> a, action |-> "delete", alert |-> Subject(a), was |-> Missing]
    <3>1. deskTrail' = deskTrail \cup {d} /\ cleared' = cleared
      BY <1>1, <2>1
    <3>2. d.action = "delete" /\ {d.alert} = took
      BY <1>3, <2>1
    <3> HIDE DEF d
    <3>3. EntriesOf("unacknowledge")' = EntriesOf("unacknowledge") /\ EntriesOf("delete")' = EntriesOf("delete") \cup {d}
      BY <3>1, <3>2 DEF EntriesOf
    <3>4. {e.alert : e \in EntriesOf("delete")'} = RemovedBy("delete")'
      BY <1>6, <2>1, <2>o, <3>2, <3>3
    <3>5. RemovedBy("clear")' = RemovedBy("clear")
      BY <1>6, <2>1
    <3> QED BY <1>1, <2>o, <3>1, <3>3, <3>4, <3>5 DEF TrailIsExact
  <2>2. CASE op = "clear"
    <3>1. RemovedBy("delete")' = RemovedBy("delete") /\ RemovedBy("clear")' = RemovedBy("clear") \cup took
      BY <1>6, <2>2
    <3>2. RemovedBy("clear") \subseteq Alerts /\ RemovedBy("clear") \cap took = {}
      BY <1>2, <1>s DEF RemovedBy
    <3>3. IsFiniteSet(Alerts)
      BY DeskAssumption
    <3>4. IsFiniteSet(RemovedBy("clear")) /\ IsFiniteSet(took) /\ IsFiniteSet(RemovedBy("clear") \cap took)
      BY <1>2, <3>2, <3>3, FS_Subset
    <3>5. Cardinality(RemovedBy("clear") \cup took)
            = Cardinality(RemovedBy("clear")) + Cardinality(took) - Cardinality(RemovedBy("clear") \cap took)
      BY <3>4, FS_Union
    <3>6. Cardinality(RemovedBy("clear") \cap took) = 0
      BY <3>2, FS_EmptySet
    <3>7. Cardinality(RemovedBy("clear")) \in Nat /\ Cardinality(took) \in Nat
      BY <3>4, FS_CardinalityType
    <3>c. cleared' = cleared + Cardinality(took)
      BY <1>1, <2>2
    <3>8. cleared' = Cardinality(RemovedBy("clear") \cup took)
      BY <2>o, <3>c, <3>5, <3>6, <3>7
    <3>9. EntriesOf("unacknowledge")' = EntriesOf("unacknowledge") /\ EntriesOf("delete")' = EntriesOf("delete")
      BY <1>1, <2>2 DEF EntriesOf
    <3> QED BY <1>1, <2>o, <3>1, <3>8, <3>9 DEF TrailIsExact
  <2> QED BY <1>1, <2>1, <2>2
<1> QED BY <1>4, <1>5, <1>7 DEF DeskInv

LEMMA RolledBackInv ==
    ASSUME DeskInv, NEW a \in Analysts, RolledBack(a) PROVE DeskInv'
BY NothingDone DEF RolledBack

\* Findings come and go where no transaction holds them.
LEMMA RowAlone ==
    ASSUME DeskInv, NEW f \in Alerts, NEW state \in RowStates, alertRow' = [alertRow EXCEPT ![f] = state],
           \A a \in Analysts : f \notin Locked(a), desk' = desk
    PROVE  PressesOK' /\ alertRow' \in [Alerts -> RowStates] /\ \A g : g # f => alertRow'[g] = alertRow[g]
<1>1. alertRow' \in [Alerts -> RowStates] /\ \A g : g # f => alertRow'[g] = alertRow[g]
  BY DEF DeskInv, DeskRows
<1>2. \A a \in Analysts : Locked(a) = Taken(desk[a].press) /\ Locked(a)' = Locked(a)
  BY DEF Locked, Taken
<1>3. \A a \in Analysts : PressOK(desk[a].press, alertRow')
  <2> SUFFICES ASSUME NEW a \in Analysts PROVE PressOK(desk[a].press, alertRow')
    OBVIOUS
  <2>1. PressOK(desk[a].press, alertRow)
    BY DEF DeskInv, PressesOK
  <2>2. \A g \in Taken(desk[a].press) : alertRow'[g] = alertRow[g]
    BY <1>1, <1>2
  <2> QED BY <2>1, <2>2, PressKept
<1> QED BY <1>1, <1>2, <1>3 DEF DeskInv, PressesOK

LEMMA AlertStoredInv ==
    ASSUME DeskInv, NEW f \in Alerts, AlertStored(f) PROVE DeskInv'
<1>1. \A a \in Analysts : f \notin Locked(a)
  <2> SUFFICES ASSUME NEW a \in Analysts, f \in Locked(a) PROVE FALSE
    OBVIOUS
  <2>1. desk[a].press.stage = "running" /\ f \in desk[a].press.took
    BY DEF Locked
  <2> QED BY <2>1, HeldIs DEF AlertStored
<1>2. Open \in RowStates /\ alertRow' = [alertRow EXCEPT ![f] = Open] /\ desk' = desk
  BY DEF RowStates, AlertStored
<1>3. PressesOK' /\ alertRow' \in [Alerts -> RowStates] /\ \A g : g # f => alertRow'[g] = alertRow[g]
  BY <1>1, <1>2, RowAlone
<1>4. DeskRows'
  BY <1>2, <1>3 DEF AlertStored, DeskInv, DeskRows
<1>5. TrailIsExact'
  BY TrailKept DEF AlertStored, DeskInv
<1> QED BY <1>3, <1>4, <1>5 DEF DeskInv

LEMMA AlertExpiresInv ==
    ASSUME DeskInv, NEW f \in Alerts, AlertExpires(f) PROVE DeskInv'
<1>1. /\ Missing \in RowStates /\ alertRow' = [alertRow EXCEPT ![f] = Missing] /\ desk' = desk
      /\ \A a \in Analysts : f \notin Locked(a)
  BY DEF RowStates, AlertExpires
<1>2. PressesOK' /\ alertRow' \in [Alerts -> RowStates] /\ \A g : g # f => alertRow'[g] = alertRow[g]
  BY <1>1, RowAlone
<1>3. /\ removed' = [g \in DOMAIN removed \cup {f} |-> IF g = f THEN "expired" ELSE removed[g]]
      /\ f \notin DOMAIN removed /\ UNCHANGED <<deskTrail, cleared, reopened, nextAck>>
  BY DEF AlertExpires, DeskInv, DeskRows
<1>4. DeskRows'
  <2>1. alertRow'[f] = Missing
    BY <1>1 DEF DeskInv, DeskRows
  <2>2. DOMAIN removed' = DOMAIN removed \cup {f}
    BY <1>3
  <2> QED BY <1>1, <1>2, <1>3, <2>1, <2>2 DEF DeskInv, DeskRows
<1>5. \A x \in {"delete", "clear"} : RemovedBy(x)' = RemovedBy(x)
  BY <1>3 DEF RemovedBy
<1>6. TrailIsExact'
  BY <1>3, <1>5 DEF DeskInv, TrailIsExact, EntriesOf
<1> QED BY <1>2, <1>4, <1>6 DEF DeskInv

LEMMA DeskStep == DeskInv /\ [DeskNext]_deskVars => DeskInv'
<1> SUFFICES ASSUME DeskInv, [DeskNext]_deskVars PROVE DeskInv'
  OBVIOUS
<1>1. ASSUME NEW a \in Analysts,
             \/ \E f \in Alerts : PressToggle(a, f) \/ PressRemove(a, "delete", {f})
             \/ PressRemove(a, "clear", Alerts)
      PROVE  DeskInv'
  BY <1>1, PressToggleInv, PressRemoveInv
<1>2. ASSUME NEW a \in Analysts, PageRefetch(a) \/ PressEnds(a) \/ ListServed(a) \/ ListArrives(a) \/ AnswerLost(a)
      PROVE  DeskInv'
  BY <1>2, PageRefetchInv, PressEndsInv, ListServedInv, ListArrivesInv, AnswerLostInv
<1>3. ASSUME NEW a \in Analysts,
             \/ Acknowledge(a) \/ ReopenReads(a) \/ ReopenCommits(a)
             \/ RemoveRuns(a) \/ RemoveCommits(a) \/ RolledBack(a)
      PROVE  DeskInv'
  BY <1>3, AcknowledgeInv, ReopenReadsInv, ReopenCommitsInv, RemoveRunsInv, RemoveCommitsInv, RolledBackInv
<1>4. ASSUME NEW f \in Alerts, AlertStored(f) \/ AlertExpires(f) PROVE DeskInv'
  BY <1>4, AlertStoredInv, AlertExpiresInv
<1>5. CASE UNCHANGED deskVars
  BY <1>5 DEF deskVars, DeskInv, DeskRows, PressesOK, TrailIsExact, PageOK, PressOK, Locked, EntriesOf, RemovedBy
<1> QED BY <1>1, <1>2, <1>3, <1>4, <1>5 DEF DeskNext

LEMMA DeskShows == DeskInv => DeskExact
BY DEF DeskInv, PressesOK, PageOK, DeskExact, OwnChangesAreShown

THEOREM DeskCorrect == DeskSpec => []DeskExact
<1>1. DeskInit => DeskInv
  BY DeskInitInv
<1>2. DeskInv /\ [DeskNext]_deskVars => DeskInv'
  BY DeskStep
<1>3. DeskInv => DeskExact
  BY DeskShows
<1> QED BY <1>1, <1>2, <1>3, PTL DEF DeskSpec

-----------------------------------------------------------------------------
(* The navigation *)

\* What the fields of a panel are.
PanelIs(p, closed, searchClosed, term) ==
    p \in Panel /\ p.closed = closed /\ p.searchClosed = searchClosed /\ p.term = term

\* What a panel becomes.
LEMMA PanelClears ==
    ASSUME NEW p \in Panel PROVE PanelIs(ClearSearch(p), p.closed, {}, NoTerm)
BY DEF ClearSearch, PanelIs, Panel
LEMMA PanelOpens ==
    ASSUME NEW p \in Panel, NEW page
    PROVE  PanelIs(OpenCurrent(p, page), p.closed \ GroupContaining(page), p.searchClosed \ GroupContaining(page), p.term)
BY DEF OpenCurrent, PanelIs, Panel
LEMMA PanelSearches ==
    ASSUME NEW p \in Panel, NEW t \in Terms \cup {NoTerm, Spaces} PROVE PanelIs(WithTerm(p, t), p.closed, {}, t)
BY DEF WithTerm, PanelIs, Panel
LEMMA PanelToggles ==
    ASSUME NEW p \in Panel, NEW g \in Sections
    PROVE  IF Searching THEN PanelIs(Toggled(p, g), p.closed, Flip(p.searchClosed, g), p.term)
           ELSE PanelIs(Toggled(p, g), Flip(p.closed, g), p.searchClosed, p.term)
<1>1. Flip(p.searchClosed, g) \in SUBSET Sections /\ Flip(p.closed, g) \in SUBSET Sections
  BY DEF Panel, Flip
<1> QED BY <1>1 DEF Toggled, PanelIs, Panel

LEMMA PanelIsNew == PanelIs(FreshPanel, {}, {}, NoTerm)
BY DEF FreshPanel, PanelIs, Panel

LEMMA NavigationInitInv == NavigationInit => NavigationInv
BY PanelIsNew DEF NavigationInit, NavigationInv, PanelOK, PanelIs, IsMounted, IsRail

\* The layout is new, or another width.
LEMMA NewPanelInv ==
    ASSUME NavigationInv, PanelIs(panel', {}, {}, NoTerm), drawerOpen' \in BOOLEAN, compact' \in BOOLEAN,
           collapsed' \in BOOLEAN, remembered' \in BOOLEAN, drawerOpen' => compact'
    PROVE  NavigationInv'
BY DEF NavigationInv, PanelOK, PanelIs

LEMMA FollowRowInv ==
    ASSUME NavigationInv, NEW p \in Pages, FollowRow(p)
    PROVE  NavigationInv'
<1>1. CASE compact
  BY <1>1, NewPanelInv, PanelIsNew DEF FollowRow, OpenPage, NavigationInv
<1>2. CASE ~compact
  <2>1. PanelIs(panel', panel.closed \ GroupContaining(p), {}, NoTerm)
    <3>1. panel' = OpenCurrent(ClearSearch(panel), p)
      BY <1>2 DEF FollowRow
    <3>2. PanelIs(ClearSearch(panel), panel.closed, {}, NoTerm)
      BY PanelClears DEF NavigationInv, PanelOK
    <3> QED BY <3>1, <3>2, PanelOpens DEF PanelIs
  <2>2. path' = p /\ signedIn' = signedIn /\ compact' = compact /\ collapsed' = collapsed /\ drawerOpen' = FALSE
        /\ IsMounted /\ remembered' = remembered
    BY DEF FollowRow, OpenPage, IsUnfolded
  <2>3. GroupContaining(path)' = GroupContaining(p) /\ IsMounted'
    BY <1>2, <2>2 DEF GroupContaining, VisiblePages, IsMounted
  <2> QED BY <1>2, <2>1, <2>2, <2>3 DEF NavigationInv, PanelOK, PanelIs
<1> QED BY <1>1, <1>2

LEMMA ComeOtherwiseInv ==
    ASSUME NavigationInv, NEW p \in Pages, ComeOtherwise(p)
    PROVE  NavigationInv'
<1>1. /\ path' = p /\ signedIn' = signedIn /\ compact' = compact /\ collapsed' = collapsed
      /\ drawerOpen' = drawerOpen /\ remembered' = remembered
  BY DEF ComeOtherwise, OpenPage
<1>2. CASE ~IsMounted
  BY <1>1, <1>2, NewPanelInv DEF ComeOtherwise, NavigationInv, PanelOK, PanelIs
<1>3. CASE IsMounted
  <2>1. PanelIs(panel', panel.closed \ GroupContaining(p), {}, NoTerm)
    <3>1. panel' = OpenCurrent(ClearSearch(panel), p)
      BY <1>3 DEF ComeOtherwise
    <3>2. PanelIs(ClearSearch(panel), panel.closed, {}, NoTerm)
      BY PanelClears DEF NavigationInv, PanelOK
    <3> QED BY <3>1, <3>2, PanelOpens DEF PanelIs
  <2>2. GroupContaining(path)' = GroupContaining(p) /\ IsMounted'
    BY <1>1, <1>3 DEF GroupContaining, VisiblePages, IsMounted
  <2> QED BY <1>1, <2>1, <2>2 DEF NavigationInv, PanelOK, PanelIs
<1> QED BY <1>2, <1>3

\* The panel stays where it is.
LEMMA StayingInv ==
    ASSUME NavigationInv, Stays, IsMounted, collapsed' \in BOOLEAN, remembered' \in BOOLEAN,
           NEW c, NEW s, NEW t, PanelIs(panel', c, s, t),
           undisturbed' => t \in {NoTerm, Spaces} /\ undisturbed /\ c \subseteq panel.closed,
           typed' => s = {},
           ~compact /\ collapsed' => t = NoTerm
    PROVE  NavigationInv' /\ IsMounted'
<1>1. path' = path /\ signedIn' = signedIn /\ compact' = compact /\ drawerOpen' = drawerOpen
  BY DEF Stays
<1>2. GroupContaining(path)' = GroupContaining(path) /\ IsMounted'
  BY <1>1 DEF GroupContaining, VisiblePages, IsMounted
<1> QED BY <1>1, <1>2 DEF NavigationInv, PanelOK, PanelIs, IsRail

LEMMA ToggleSectionInv ==
    ASSUME NavigationInv, NEW s \in Sections, ToggleSection(s)
    PROVE  NavigationInv'
<1>1. \/ PanelIs(panel', panel.closed, Flip(panel.searchClosed, s), panel.term)
      \/ PanelIs(panel', Flip(panel.closed, s), panel.searchClosed, panel.term)
  BY PanelClears, PanelSearches, PanelToggles DEF PanelIs, NavigationInv, PanelOK, ToggleSection
<1>2. /\ Stays /\ IsMounted /\ collapsed' = collapsed /\ undisturbed' = FALSE /\ typed' = FALSE
      /\ collapsed \in BOOLEAN /\ remembered' \in BOOLEAN /\ ~IsRail
  BY DEF ToggleSection, IsUnfolded, NavigationInv
<1> QED BY <1>1, <1>2, StayingInv DEF IsRail

LEMMA ChangeSearchInv ==
    ASSUME NavigationInv, NEW t \in Terms \cup {NoTerm, Spaces}, ChangeSearch(t)
    PROVE  NavigationInv'
<1>1. PanelIs(panel', panel.closed, {}, t)
  BY PanelClears, PanelSearches, PanelToggles DEF PanelIs, NavigationInv, PanelOK, ChangeSearch
<1>2. /\ Stays /\ IsMounted /\ collapsed' = collapsed /\ collapsed \in BOOLEAN /\ remembered' \in BOOLEAN /\ ~IsRail
      /\ undisturbed' => undisturbed /\ t \in {NoTerm, Spaces}
  BY DEF ChangeSearch, IsUnfolded, NavigationInv
<1> QED BY <1>1, <1>2, StayingInv DEF IsRail

LEMMA ToggleCollapsedInv ==
    ASSUME NavigationInv, ToggleCollapsed
    PROVE  NavigationInv'
<1>1. /\ Stays /\ IsMounted /\ ~compact /\ collapsed' \in BOOLEAN /\ typed' = FALSE /\ undisturbed' = undisturbed
      /\ (collapsed' <=> ~collapsed) /\ remembered' \in BOOLEAN
  BY DEF ToggleCollapsed, SetCollapsed, NavigationInv
<1>2. CASE collapsed
  <2>1. PanelIs(panel', panel.closed, panel.searchClosed, panel.term)
    BY <1>2 DEF ToggleCollapsed, NavigationInv, PanelOK, PanelIs
  <2>2. undisturbed => panel.term \in {NoTerm, Spaces}
    BY DEF NavigationInv, PanelOK
  <2> QED BY <1>1, <1>2, <2>1, <2>2, StayingInv
<1>3. CASE ~collapsed
  <2>1. PanelIs(panel', panel.closed, {}, NoTerm)
    BY <1>3, PanelClears, PanelSearches, PanelToggles DEF PanelIs, ToggleCollapsed, NavigationInv, PanelOK
  <2> QED BY <1>1, <2>1, StayingInv
<1> QED BY <1>2, <1>3

\* The section of the icon is open, and nothing is searched for.
LEMMA OpenFromRailInv ==
    ASSUME NavigationInv, NEW s \in Sections, OpenFromRail(s)
    PROVE  NavigationInv' /\ IsUnfolded' /\ IsExpanded(s)'
<1>1. /\ Stays /\ IsMounted /\ IsRail /\ collapsed' = FALSE /\ remembered' \in BOOLEAN /\ typed' = typed /\ undisturbed' = undisturbed
      /\ panel.term = NoTerm /\ ~Searching
  BY DEF OpenFromRail, SetCollapsed, NavigationInv, PanelOK, Searching, EffectiveTerm
<1>2. PICK c : /\ PanelIs(panel', c, panel.searchClosed, panel.term)
               /\ c \subseteq panel.closed /\ s \notin c
  <2>1. CASE IsExpanded(s)
    <3>1. PanelIs(panel', panel.closed, panel.searchClosed, panel.term)
          /\ s \notin panel.closed
      BY <1>1, <2>1 DEF OpenFromRail, IsExpanded, NavigationInv, PanelOK, PanelIs
    <3> QED BY <3>1
  <2>2. CASE ~IsExpanded(s)
    <3>1. PanelIs(panel', Flip(panel.closed, s), panel.searchClosed, panel.term)
          /\ s \in panel.closed
      BY <1>1, <2>2, PanelClears, PanelSearches, PanelToggles DEF PanelIs, OpenFromRail, IsExpanded, NavigationInv, PanelOK
    <3>2. Flip(panel.closed, s) = panel.closed \ {s}
      BY <3>1 DEF Flip
    <3> QED BY <3>1, <3>2
  <2> QED BY <2>1, <2>2
<1>3. (typed => panel.searchClosed = {})
  BY DEF NavigationInv, PanelOK
<1>4. NavigationInv' /\ IsMounted'
  BY <1>1, <1>2, <1>3, StayingInv
<1>5. panel'.term = NoTerm /\ s \notin panel'.closed
  BY <1>1, <1>2 DEF PanelIs
<1> QED BY <1>1, <1>4, <1>5 DEF IsUnfolded, IsRail, IsExpanded, Searching, EffectiveTerm

LEMMA LayoutInv ==
    ASSUME NavigationInv,
           OpenDrawer \/ CloseDrawer \/ Resize \/ SessionEnds \/ (\E role : SignsIn(role)) \/ Reload
    PROVE  NavigationInv'
<1>1. PanelIs(panel', {}, {}, NoTerm)
  <2>1. panel' = FreshPanel \/ panel' = OpenCurrent(FreshPanel, path)
    BY DEF OpenDrawer, CloseDrawer, Resize, SessionEnds, SignsIn, Reload, Mount
  <2> QED BY <2>1, PanelIsNew, PanelOpens DEF PanelIs
<1>2. /\ collapsed' \in BOOLEAN /\ compact' \in BOOLEAN /\ drawerOpen' \in BOOLEAN /\ remembered' \in BOOLEAN
      /\ drawerOpen' => compact'
  <2>1. /\ compact \in BOOLEAN /\ collapsed \in BOOLEAN /\ drawerOpen \in BOOLEAN /\ remembered \in BOOLEAN
        /\ drawerOpen => compact
    BY DEF NavigationInv
  <2>2. CASE OpenDrawer \/ CloseDrawer
    BY <2>1, <2>2 DEF OpenDrawer, CloseDrawer
  <2>3. CASE Resize
    BY <2>1, <2>3 DEF Resize, DrawerAfterResize
  <2>4. CASE SessionEnds \/ (\E role : SignsIn(role)) \/ Reload
    <3>1. drawerOpen' = FALSE /\ compact' = compact /\ collapsed' = remembered /\ remembered' = remembered
      BY <2>4 DEF SessionEnds, SignsIn, Reload, Mount
    <3> QED BY <2>1, <3>1
  <2> QED BY <2>2, <2>3, <2>4
<1> QED BY <1>1, <1>2, NewPanelInv

LEMMA NavigationStep == NavigationInv /\ [NavigationNext]_navVars => NavigationInv'
<1> SUFFICES ASSUME NavigationInv, [NavigationNext]_navVars PROVE NavigationInv'
  OBVIOUS
<1>1. CASE UNCHANGED navVars
  BY <1>1 DEF navVars, NavigationInv, PanelOK, IsMounted, IsRail, GroupContaining, VisiblePages, FreshPanel
<1>2. CASE NavigationNext
  BY <1>2, FollowRowInv, ComeOtherwiseInv, ToggleSectionInv, OpenFromRailInv, ChangeSearchInv, ToggleCollapsedInv,
     LayoutInv DEF NavigationNext
<1> QED BY <1>1, <1>2

LEMMA NavigationShows == NavigationInv => NavigationExact
<1> SUFFICES ASSUME NavigationInv PROVE NavigationExact
  OBVIOUS
<1>1. CurrentIsShown
  <2> SUFFICES ASSUME undisturbed, path \in VisiblePages PROVE path \in RowsShown
    BY DEF CurrentIsShown
  <2>1. ~Searching /\ SectionOf[path] \notin panel.closed
    BY DEF NavigationInv, PanelOK, Searching, EffectiveTerm, GroupContaining
  <2>2. SectionOf[path] \in Groups /\ path \in ShownItems(SectionOf[path])
    BY <2>1 DEF Groups, ShownItems
  <2> QED BY <2>1, <2>2 DEF RowsShown, ShownGroups, IsExpanded
<1>2. MatchesAreShown
  <2> SUFFICES ASSUME typed, Searching, NEW p \in VisiblePages, p \in FoundBy[EffectiveTerm] PROVE p \in RowsShown
    BY DEF MatchesAreShown
  <2>1. panel.searchClosed = {}
    BY DEF NavigationInv, PanelOK
  <2>2. SectionOf[p] \in Groups /\ p \in ShownItems(SectionOf[p])
    BY DEF Groups, ShownItems
  <2> QED BY <2>1, <2>2 DEF RowsShown, ShownGroups, IsExpanded
<1>3. NothingIsLost
  <2>1. ASSUME IsRail PROVE ShownGroups = Groups
    <3>1. ~Searching
      BY <2>1 DEF Searching, EffectiveTerm
    <3>2. ASSUME NEW s \in Groups PROVE ShownItems(s) # {}
      <4>1. PICK p \in VisiblePages : s = SectionOf[p]
        BY DEF Groups
      <4> QED BY <3>1, <4>1 DEF ShownItems
    <3> QED BY <3>2 DEF ShownGroups
  <2> QED BY <2>1 DEF NothingIsLost, NavigationInv
<1> QED BY <1>1, <1>2, <1>3 DEF NavigationExact

LEMMA HeadersStep == NavigationInv /\ [NavigationNext]_navVars => HeadersTrue
<1> SUFFICES ASSUME NavigationInv, [NavigationNext]_navVars PROVE HeadersTrue
  OBVIOUS
<1>1. ASSUME NEW s \in Sections, ToggleSection(s), NEW g
      PROVE  IsExpanded(g)' = (IF g = s THEN ~IsExpanded(g) ELSE IsExpanded(g))
  <2>1. ~IsRail /\ ~IsRail'
    BY <1>1 DEF ToggleSection, IsUnfolded, IsRail, Stays
  <2>2. panel' = Toggled(panel, s) /\ panel'.term = panel.term /\ (Searching' <=> Searching)
    <3>1. panel' = Toggled(panel, s)
      BY <1>1 DEF ToggleSection
    <3>2. panel'.term = panel.term
      BY <3>1, PanelClears, PanelSearches, PanelToggles DEF PanelIs, NavigationInv, PanelOK
    <3> QED BY <2>1, <3>1, <3>2 DEF Searching, EffectiveTerm
  <2>3. CASE Searching
    <3>1. panel'.searchClosed = Flip(panel.searchClosed, s)
      BY <2>2, <2>3, PanelClears, PanelSearches, PanelToggles DEF PanelIs, NavigationInv, PanelOK
    <3> QED BY <2>2, <2>3, <3>1 DEF IsExpanded, Flip
  <2>4. CASE ~Searching
    <3>1. panel'.closed = Flip(panel.closed, s)
      BY <2>2, <2>4, PanelClears, PanelSearches, PanelToggles DEF PanelIs, NavigationInv, PanelOK
    <3> QED BY <2>2, <2>4, <3>1 DEF IsExpanded, Flip
  <2> QED BY <2>3, <2>4
<1>2. ASSUME Searching, path' = path, IsMounted', compact' = compact, ~Reload
      PROVE  panel'.closed = panel.closed
  <2>1. IsMounted /\ ~IsRail /\ signedIn # Nobody
    BY <1>2 DEF NavigationInv, PanelOK, FreshPanel, Searching, EffectiveTerm, IsMounted
  <2>2. ASSUME NEW p \in Pages, FollowRow(p) \/ ComeOtherwise(p) PROVE FALSE
    BY <1>2, <2>2 DEF FollowRow, ComeOtherwise, OpenPage
  <2>3. ASSUME NEW s \in Sections, ToggleSection(s) \/ OpenFromRail(s) PROVE panel'.closed = panel.closed
    <3>1. panel' = Toggled(panel, s)
      BY <2>1, <2>3 DEF ToggleSection, OpenFromRail
    <3>2. PanelIs(panel', panel.closed, Flip(panel.searchClosed, s), panel.term)
      BY <1>2, <3>1, PanelToggles DEF NavigationInv, PanelOK
    <3> QED BY <3>2 DEF PanelIs
  <2>4. ASSUME NEW t \in Terms \cup {NoTerm, Spaces}, ChangeSearch(t) PROVE panel'.closed = panel.closed
    <3>1. PanelIs(panel', panel.closed, {}, t)
      BY <2>4, PanelClears, PanelSearches, PanelToggles DEF PanelIs, ChangeSearch, NavigationInv, PanelOK
    <3> QED BY <3>1 DEF PanelIs
  <2>5. ASSUME ToggleCollapsed PROVE panel'.closed = panel.closed
    <3>1. panel' = panel \/ PanelIs(panel', panel.closed, {}, NoTerm)
      BY <2>5, PanelClears, PanelSearches, PanelToggles DEF PanelIs, ToggleCollapsed, NavigationInv, PanelOK
    <3> QED BY <3>1 DEF PanelIs
  <2>6. ASSUME OpenDrawer \/ CloseDrawer \/ Resize \/ SessionEnds \/ \E role : SignsIn(role) PROVE FALSE
    BY <1>2, <2>1, <2>6 DEF OpenDrawer, CloseDrawer, Resize, SessionEnds, SignsIn, Mount, IsMounted, NavigationInv
  <2>7. CASE UNCHANGED navVars
    BY <2>7 DEF navVars
  <2> QED BY <1>2, <2>2, <2>3, <2>4, <2>5, <2>6, <2>7 DEF NavigationNext
<1>3. ASSUME focused' # focused, focused' # NoSection PROVE IsUnfolded' /\ IsExpanded(focused)'
  <2>1. PICK s \in Sections : OpenFromRail(s)
    BY <1>3 DEF NavigationNext, navVars, FollowRow, ComeOtherwise, OpenPage, ToggleSection, ChangeSearch,
       ToggleCollapsed, OpenDrawer, CloseDrawer, Resize, SessionEnds, SignsIn, Reload, Mount
  <2>2. focused' = s
    BY <2>1 DEF OpenFromRail
  <2>3. IsUnfolded' /\ IsExpanded(s)'
    BY <2>1, OpenFromRailInv
  <2> QED BY <2>2, <2>3 DEF IsExpanded
<1> QED BY <1>1, <1>2, <1>3 DEF HeadersTrue

THEOREM NavigationCorrect == NavigationSpec => []NavigationExact /\ HeadersAreTrue
<1>1. NavigationInit => NavigationInv
  BY NavigationInitInv
<1>2. NavigationInv /\ [NavigationNext]_navVars => NavigationInv'
  BY NavigationStep
<1>3. NavigationInv => NavigationExact
  BY NavigationShows
<1>4. NavigationInv /\ [NavigationNext]_navVars => [HeadersTrue]_navVars
  BY HeadersStep
<1> QED BY <1>1, <1>2, <1>3, <1>4, PTL DEF NavigationSpec, HeadersAreTrue

-----------------------------------------------------------------------------
(* The datagrams of the flow collector *)

\* A step of a fold that is done by an operator, as a fold of a function.
SetReading(sender, sets) == [q \in SoundReads \X DOMAIN sets |-> ReadSet(sender, q[1], sets[q[2]])]
LastOf(S) == [U \in SUBSET S |-> Max(U)]
Readings(sender, sets, g) ==
    g = [U \in SUBSET DOMAIN sets |->
            IF U = {} THEN Begin(newest) ELSE ReadSet(sender, g[U \ {Max(U)}], sets[Max(U)])]

LEMMA ReadSetsUnfold ==
    ASSUME NEW sender, NEW sets
    PROVE  ReadSets(sender, sets) = (CHOOSE g : Readings(sender, sets, g))[DOMAIN sets]
BY DEF ReadSets, FoldLeft, MapThenFoldSet, Readings

\* A sequence with one element in its place, or one more in the place of the oldest.
LEMMA StoredKeeps ==
    ASSUME DatagramAssumption, NEW cache \in Seq([key : Keys, definition : Definitions]),
           Len(cache) <= MaxTemplates, NEW known \in [Keys -> Definitions \cup {Unknown}],
           IsNewest(cache, known), NEW key \in Keys, NEW definition \in Definitions
    PROVE  /\ Stored(cache, key, definition) \in Seq([key : Keys, definition : Definitions])
           /\ Len(Stored(cache, key, definition)) <= MaxTemplates
           /\ IsNewest(Stored(cache, key, definition), [known EXCEPT ![key] = definition])
<1> DEFINE Entries == [key : Keys, definition : Definitions]
           new == [key |-> key, definition |-> definition]
           after == Stored(cache, key, definition)
<1>1. new \in Entries /\ new.key = key /\ new.definition = definition
  OBVIOUS
<1>4. DOMAIN cache = 1..Len(cache) /\ Len(cache) \in Nat /\ \A i \in 1..Len(cache) : cache[i] \in Entries
  <2>1. cache \in Seq(Entries)
    OBVIOUS
  <2> HIDE DEF Entries
  <2> QED BY <2>1
<1>2. CASE Position(cache, key) # {}
  <2>1. after = [i \in DOMAIN cache |-> IF i \in Position(cache, key) THEN new ELSE cache[i]]
    BY <1>2 DEF Stored
  <2>2. DOMAIN cache = 1..Len(cache) /\ Len(cache) \in Nat /\ \A i \in 1..Len(cache) : cache[i] \in Entries
    BY <1>4
  <2> HIDE DEF Entries, new, after
  <2>3. after \in Seq(Entries) /\ Len(after) = Len(cache) /\ DOMAIN after = 1..Len(cache)
    BY <1>1, <2>1, <2>2
  <2>4. ASSUME NEW i \in DOMAIN after PROVE after[i].definition = [known EXCEPT ![key] = definition][after[i].key]
    <3>1. CASE i \in Position(cache, key)
      BY <1>1, <2>1, <2>2, <2>3, <3>1
    <3>2. CASE i \notin Position(cache, key)
      <4>1. after[i] = cache[i] /\ cache[i].key # key /\ i \in DOMAIN cache
        BY <2>1, <2>2, <2>3, <3>2 DEF Position
      <4>2. cache[i].key \in Keys
        BY <2>2, <4>1 DEF Entries
      <4> QED BY <4>1, <4>2 DEF IsNewest
    <3> QED BY <3>1, <3>2
  <2> QED BY <2>3, <2>4 DEF IsNewest, Entries, after
<1>3. CASE Position(cache, key) = {}
  <2> DEFINE room == IF Len(cache) < MaxTemplates THEN cache ELSE Tail(cache)
  <2>1. after = Append(room, new)
    BY <1>3 DEF Stored
  <2>2. room \in Seq(Entries) /\ Len(room) < MaxTemplates
    <3>1. MaxTemplates \in Nat \ {0}
      BY DEF DatagramAssumption
    <3>2. CASE Len(cache) < MaxTemplates
      BY <3>2
    <3>3. CASE ~(Len(cache) < MaxTemplates)
      <4>1. cache # <<>> /\ room = Tail(cache)
        BY <3>1, <3>3
      <4>2. Tail(cache) \in Seq(Entries) /\ Len(Tail(cache)) = Len(cache) - 1
        BY <4>1
      <4> QED BY <3>1, <3>3, <4>1, <4>2
    <3> QED BY <3>2, <3>3
  <2>3. \A i \in DOMAIN room : \E j \in DOMAIN cache : room[i] = cache[j]
    <3>1. CASE Len(cache) < MaxTemplates
      BY <3>1
    <3>2. CASE ~(Len(cache) < MaxTemplates)
      <4>1. MaxTemplates \in Nat \ {0}
        BY DEF DatagramAssumption
      <4>2. cache # <<>> /\ room = Tail(cache)
        BY <3>2, <4>1
      <4>3. \A i \in DOMAIN Tail(cache) : i + 1 \in DOMAIN cache /\ Tail(cache)[i] = cache[i + 1]
        BY <4>2
      <4> QED BY <4>2, <4>3
    <3> QED BY <3>1, <3>2
  <2>4. \A i \in DOMAIN cache : cache[i] \in Entries /\ cache[i].key # key
    <3>1. \A i \in DOMAIN cache : cache[i].key # key
      BY <1>3 DEF Position
    <3> HIDE DEF Entries
    <3> QED BY <1>4, <3>1
  <2> HIDE DEF room, Entries, new, after
  <2>5. after \in Seq(Entries) /\ Len(after) <= MaxTemplates
    BY <1>1, <2>1, <2>2 DEF DatagramAssumption
  <2>6. ASSUME NEW i \in DOMAIN after PROVE after[i].definition = [known EXCEPT ![key] = definition][after[i].key]
    <3>1. (i \in DOMAIN room /\ after[i] = room[i]) \/ after[i] = new
      BY <1>1, <2>1, <2>2
    <3>2. CASE after[i] = new
      BY <1>1, <3>2
    <3>3. CASE i \in DOMAIN room /\ after[i] = room[i]
      <4>1. PICK j \in DOMAIN cache : after[i] = cache[j]
        BY <2>3, <3>3
      <4>2. cache[j].key \in Keys /\ cache[j].key # key
        BY <2>4 DEF Entries
      <4> QED BY <4>1, <4>2 DEF IsNewest
    <3> QED BY <3>1, <3>2, <3>3
  <2> QED BY <2>5, <2>6 DEF IsNewest, Entries, after
<1> QED BY <1>2, <1>3

LEMMA PlusKeeps ==
    ASSUME NEW at \in SoundReads, NEW field \in {"records", "malformed", "pending"}
    PROVE  Plus(at, field) \in SoundReads
<1>1. at \in AllReads
  BY DEF SoundReads
<1>2. [at.result EXCEPT ![field] = @ + 1] \in [records : Nat, malformed : Nat, pending : Nat]
  BY <1>1 DEF AllReads
<1>3. /\ Plus(at, field) \in AllReads /\ Plus(at, field).cache = at.cache
      /\ Plus(at, field).known = at.known /\ Plus(at, field).used = at.used
  <2> DEFINE counted == [at.result EXCEPT ![field] = @ + 1]
  <2>1. Plus(at, field) = [at EXCEPT !.result = counted] /\ counted \in [records : Nat, malformed : Nat, pending : Nat]
    <3>1. counted \in [records : Nat, malformed : Nat, pending : Nat]
      BY <1>2
    <3>2. Plus(at, field) = [at EXCEPT !.result = counted]
      BY DEF Plus
    <3> QED BY <3>1, <3>2
  <2> HIDE DEF counted
  <2> QED BY <1>1, <2>1 DEF AllReads
<1> QED BY <1>3 DEF SoundReads

\* Every set leaves the templates as they should be.
LEMMA ReadSetKeeps ==
    ASSUME DatagramAssumption, NEW sender \in Exporters, NEW at \in SoundReads, NEW set \in Sets
    PROVE  ReadSet(sender, at, set) \in SoundReads
<1>1. /\ at \in AllReads /\ Len(at.cache) <= MaxTemplates /\ IsNewest(at.cache, at.known)
      /\ \A u \in at.used : u[1] = u[2]
  BY DEF SoundReads
<1>2. /\ at.cache \in Seq([key : Keys, definition : Definitions])
      /\ at.known \in [Keys -> Definitions \cup {Unknown}] /\ at.used \subseteq Used
  BY <1>1 DEF AllReads
<1>3. \A field \in {"records", "malformed", "pending"} : Plus(at, field) \in SoundReads
  BY PlusKeeps
<1>4. CASE at.lost \/ set.kind \in {"options", "withdrawal"}
  BY <1>4 DEF ReadSet
<1>5. CASE ~at.lost /\ set.kind = "lost"
  <2>1. ReadSet(sender, at, set) = [Plus(at, "malformed") EXCEPT !.lost = TRUE]
    BY <1>5 DEF ReadSet
  <2> DEFINE next == Plus(at, "malformed")
  <2>2. next \in SoundReads
    BY <1>3
  <2> HIDE DEF next
  <2>3. [next EXCEPT !.lost = TRUE] \in SoundReads
    BY <2>2 DEF SoundReads, AllReads
  <2> QED BY <2>1, <2>3 DEF next
<1>6. CASE ~at.lost /\ set.kind \in {"bad", "truncated"}
  BY <1>3, <1>6 DEF ReadSet
<1>7. CASE ~at.lost /\ set.kind = "template"
  <2> DEFINE key == <<sender, set.id>>
             placed == Stored(at.cache, key, set.definition)
             known == [at.known EXCEPT ![key] = set.definition]
             next == [at EXCEPT !.cache = placed, !.known = known]
  <2>1. key \in Keys /\ set.definition \in Definitions
    BY <1>7 DEF Sets, Keys
  <2>2. /\ placed \in Seq([key : Keys, definition : Definitions])
        /\ Len(placed) <= MaxTemplates /\ IsNewest(placed, known)
    <3> HIDE DEF key
    <3> QED BY <1>1, <1>2, <2>1, StoredKeeps
  <2>3. known \in [Keys -> Definitions \cup {Unknown}]
    BY <1>2, <2>1
  <2>4. ReadSet(sender, at, set) = next
    BY <1>7 DEF ReadSet
  <2> HIDE DEF key, placed, known
  <2>5. next \in AllReads /\ next.cache = placed /\ next.known = known /\ next.used = at.used
    BY <1>1, <2>2, <2>3 DEF AllReads
  <2>6. next \in SoundReads
    BY <1>1, <2>2, <2>5 DEF SoundReads
  <2> QED BY <2>4, <2>6
<1>8. CASE ~at.lost /\ set.kind = "data"
  <2> DEFINE key == <<sender, set.id>>
             i == CHOOSE i \in Position(at.cache, key) : TRUE
             pair == <<at.cache[i].definition, at.known[key]>>
             next == [Plus(at, "records") EXCEPT !.used = @ \cup {pair}]
  <2>1. CASE Position(at.cache, key) = {} \/ ~set.decodable
    BY <1>3, <1>8, <2>1 DEF ReadSet
  <2>2. CASE ~(Position(at.cache, key) = {} \/ ~set.decodable)
    <3>1. ReadSet(sender, at, set) = next
      BY <1>8, <2>2 DEF ReadSet
    <3>2. i \in Position(at.cache, key)
      BY <2>2
    <3>3. key \in Keys /\ i \in DOMAIN at.cache /\ at.cache[i].key = key
      BY <1>8, <3>2 DEF Position, Sets, Keys
    <3>4. at.cache[i].definition = at.known[key] /\ at.known[key] \in Definitions \cup {Unknown}
      <4> HIDE DEF key, i
      <4> QED BY <1>1, <1>2, <3>3 DEF IsNewest
    <3> DEFINE step == Plus(at, "records")
    <3>5. step \in SoundReads
      BY <1>3
    <3> HIDE DEF key, i, step
    <3>6. pair \in Used /\ pair[1] = pair[2]
      BY <3>4 DEF Used
    <3> DEFINE more == [step EXCEPT !.used = @ \cup {pair}]
    <3> HIDE DEF pair
    <3>7. more \in AllReads /\ more.cache = step.cache /\ more.known = step.known /\ more.used = step.used \cup {pair}
      BY <3>5, <3>6 DEF SoundReads, AllReads
    <3>8. more \in SoundReads
      BY <3>5, <3>6, <3>7 DEF SoundReads
    <3> QED BY <3>1, <3>8 DEF step, pair
  <2> QED BY <2>1, <2>2
<1>9. set.kind \in {"template", "withdrawal", "truncated", "data", "options", "bad", "lost"}
  BY DEF Sets
<1> QED BY <1>4, <1>5, <1>6, <1>7, <1>8, <1>9

\* The largest of some indices is one of them.
LEMMA LastIsOne ==
    ASSUME NEW n \in Nat, NEW U \in SUBSET (1..n), U # {}
    PROVE  Max(U) \in U
<1>1. IsFiniteSet(1..n)
  BY FS_Interval
<1>2. U \in SUBSET Nat /\ IsFiniteSet(U)
  <2>1. IsFiniteSet(U)
    BY <1>1, FS_Subset
  <2> QED BY <2>1
<1>3. \E x \in U : \A y \in U : x >= y
  BY <1>2, LargestOf
<1> QED BY <1>3 DEF Max

\* All sets of a datagram together do.
LEMMA ReadSetsKeep ==
    ASSUME DatagramAssumption, NEW sender \in Exporters, NEW sets \in Seq(Sets), Begin(newest) \in SoundReads
    PROVE  ReadSets(sender, sets) \in SoundReads
<1> DEFINE D == DOMAIN sets
           F == SetReading(sender, sets)
           P == LastOf(D)
           base == Begin(newest)
           g == TheFold(F, base, P, D)
<1>1. D = 1..Len(sets) /\ Len(sets) \in Nat /\ \A i \in D : sets[i] \in Sets
  OBVIOUS
<1>2. IsFiniteSet(D)
  BY <1>1, FS_Interval
<1>3. \A U \in SUBSET D : P[U] = Max(U) /\ (U # {} => Max(U) \in U)
  BY <1>1, LastIsOne DEF LastOf
<1>4. FoldOn(F, base, P, D, g)
  <2> HIDE DEF F, P, D, base
  <2> QED BY <1>2, <1>3, FoldExists
<1>5. \A at \in SoundReads, i \in D : F[<<at, i>>] = ReadSet(sender, at, sets[i]) /\ F[<<at, i>>] \in SoundReads
  BY <1>1, ReadSetKeeps DEF SetReading
<1> HIDE DEF F, P, base, g
<1>f. \A U \in SUBSET D : g[U] = IF U = {} THEN base ELSE F[<<g[U \ {P[U]}], P[U]>>]
  <2> HIDE DEF D
  <2> QED BY <1>4, FoldAt
<1>6. ASSUME NEW h, \A U \in SUBSET D : h[U] = IF U = {} THEN base ELSE ReadSet(sender, h[U \ {Max(U)}], sets[Max(U)])
      PROVE  \A U \in SUBSET D : h[U] \in SoundReads
  <2> DEFINE T == {U \in SUBSET D : h[U] \notin SoundReads}
  <2> SUFFICES ASSUME T # {} PROVE FALSE
    OBVIOUS
  <2>t. T \in SUBSET (SUBSET D)
    OBVIOUS
  <2> HIDE DEF T, D
  <2>1. PICK U \in T : \A V \in SUBSET U : V # U => V \notin T
    BY <1>2, <2>t, SmallestSubset
  <2>2. U \in SUBSET D /\ h[U] \notin SoundReads
    BY DEF T
  <2>3. U # {}
    BY <1>6, <2>2 DEF base
  <2>4. Max(U) \in U /\ U \ {Max(U)} \in SUBSET U /\ U \ {Max(U)} # U /\ U \ {Max(U)} \in SUBSET D
    BY <1>3, <2>2, <2>3
  <2>5. h[U \ {Max(U)}] \in SoundReads
    BY <2>1, <2>4 DEF T
  <2>6. h[U] = ReadSet(sender, h[U \ {Max(U)}], sets[Max(U)])
    BY <1>6, <2>2, <2>3
  <2>7. sets[Max(U)] \in Sets
    BY <1>1, <2>2, <2>4
  <2> QED BY <2>2, <2>5, <2>6, <2>7, ReadSetKeeps
<1>7. \A U \in SUBSET D : g[U] \in SoundReads
  <2> DEFINE T == {U \in SUBSET D : g[U] \notin SoundReads}
  <2> SUFFICES ASSUME T # {} PROVE FALSE
    OBVIOUS
  <2>t. T \in SUBSET (SUBSET D)
    OBVIOUS
  <2> HIDE DEF T, D
  <2>1. PICK U \in T : \A V \in SUBSET U : V # U => V \notin T
    BY <1>2, <2>t, SmallestSubset
  <2>2. U \in SUBSET D /\ g[U] \notin SoundReads
    BY DEF T
  <2>8. g[U] = IF U = {} THEN base ELSE F[<<g[U \ {P[U]}], P[U]>>]
    BY <1>f, <2>2
  <2>3. U # {}
    BY <2>2, <2>8 DEF base
  <2>4. Max(U) \in U /\ U \ {Max(U)} \in SUBSET U /\ U \ {Max(U)} # U /\ P[U] = Max(U)
    BY <1>3, <2>2, <2>3
  <2>5. g[U \ {Max(U)}] \in SoundReads
    BY <2>1, <2>2, <2>4 DEF T
  <2>6. Max(U) \in D
    BY <2>2, <2>4
  <2> QED BY <1>5, <2>2, <2>3, <2>4, <2>5, <2>6, <2>8
<1>8. Readings(sender, sets, g)
  <2>1. ASSUME NEW U \in SUBSET D
        PROVE  g[U] = IF U = {} THEN base ELSE ReadSet(sender, g[U \ {Max(U)}], sets[Max(U)])
    <3> HIDE DEF D
    <3>1. g[U] = IF U = {} THEN base ELSE F[<<g[U \ {P[U]}], P[U]>>]
      BY <1>f
    <3>2. CASE U # {}
      <4>1. P[U] = Max(U) /\ Max(U) \in D /\ U \ {Max(U)} \in SUBSET D
        BY <1>3, <3>2
      <4>2. g[U \ {Max(U)}] \in SoundReads
        BY <1>7, <4>1
      <4> QED BY <1>5, <3>1, <3>2, <4>1, <4>2
    <3> QED BY <3>1, <3>2
  <2>2. g = [U \in SUBSET D |-> g[U]]
    BY <1>4 DEF FoldOn
  <2>3. g = [U \in SUBSET D |-> IF U = {} THEN base ELSE ReadSet(sender, g[U \ {Max(U)}], sets[Max(U)])]
    BY <2>1, <2>2
  <2> QED BY <2>3 DEF Readings, base
<1> DEFINE h == CHOOSE f : Readings(sender, sets, f)
<1>9. Readings(sender, sets, h)
  BY <1>8
<1>10. \A U \in SUBSET D : h[U] = IF U = {} THEN base ELSE ReadSet(sender, h[U \ {Max(U)}], sets[Max(U)])
  <2> HIDE DEF h
  <2> QED BY <1>9 DEF Readings, base
<1>11. h[D] \in SoundReads
  <2> HIDE DEF h, D
  <2> QED BY <1>6, <1>10
<1> QED BY <1>11, ReadSetsUnfold

LEMMA BeginSound == DatagramInv => Begin(newest) \in SoundReads
<1> SUFFICES ASSUME DatagramInv PROVE Begin(newest) \in SoundReads
  OBVIOUS
<1>1. Nothing \in [records : Nat, malformed : Nat, pending : Nat]
  BY DEF Nothing
<1>2. /\ Begin(newest) \in AllReads /\ Begin(newest).cache = templates
      /\ Begin(newest).known = newest /\ Begin(newest).used = {}
  BY <1>1 DEF Begin, AllReads, DatagramInv, CacheOK
<1> QED BY <1>2 DEF SoundReads, DatagramInv, CacheOK

LEMMA ParsedSound ==
    ASSUME DatagramAssumption, DatagramInv, NEW sender \in Exporters, NEW d \in Datagrams
    PROVE  Parsed(sender, d) \in SoundReads
<1>1. Begin(newest) \in SoundReads
  BY BeginSound
<1>2. d.sets \in Seq(Sets)
  BY DEF DatagramAssumption
<1>3. ReadSets(sender, d.sets) \in SoundReads
  <2> DEFINE sets == d.sets
  <2>1. sets \in Seq(Sets)
    BY <1>2
  <2> HIDE DEF sets
  <2>2. ReadSets(sender, sets) \in SoundReads
    BY <1>1, <2>1, ReadSetsKeep
  <2> QED BY <2>2 DEF sets
<1>4. Plus(Begin(newest), "records") \in SoundReads /\ Plus(Begin(newest), "malformed") \in SoundReads
  BY <1>1, PlusKeeps
<1> QED BY <1>1, <1>3, <1>4 DEF Parsed

LEMMA DatagramStarts == ASSUME DatagramAssumption PROVE DatagramInit => DatagramInv
<1> SUFFICES ASSUME DatagramInit PROVE DatagramInv
  OBVIOUS
<1>1. count \in [datagrams : Nat, records : Nat, malformed : Nat,
                 notAllowed : Nat, sflow : Nat, unsupportedVersion : Nat]
      /\ count.datagrams = 0 /\ count.notAllowed = 0
  BY DEF DatagramInit, NoCounts
<1>2. templates = <<>> /\ exporters = <<>> /\ DOMAIN templates = {} /\ Len(templates) = 0 /\ Len(exporters) = 0
  BY DEF DatagramInit
<1>3. CacheOK(templates) /\ IsNewest(templates, newest)
  BY <1>2 DEF CacheOK, IsNewest, DatagramAssumption
<1>4. exporters \in Seq(Stats) /\ Len(exporters) <= MaxTracked
  BY <1>2 DEF DatagramAssumption
<1>5. RefusalShareExact
  BY <1>1 DEF DatagramInit, RefusalShareExact
<1> QED BY <1>1, <1>3, <1>4, <1>5 DEF DatagramInit, DatagramInv, DatagramAssumption, DecodedWithNewest

\* What a datagram, or a save, leaves of the templates.
TemplatesOK ==
    /\ CacheOK(templates) /\ newest \in [Keys -> Definitions \cup {Unknown}]
    /\ IsNewest(templates, newest) /\ decodedWith \subseteq Used /\ DecodedWithNewest
CountsOK ==
    /\ count \in [datagrams : Nat, records : Nat, malformed : Nat,
                 notAllowed : Nat, sflow : Nat, unsupportedVersion : Nat]
    /\ changedAt \in Nat /\ refusedSince \in Nat /\ acceptedSince \in Nat /\ RefusalShareExact

LEMMA DatagramParts ==
    DatagramInv <=> /\ TemplatesOK /\ CountsOK
                    /\ exporters \in Seq(Stats) /\ Len(exporters) <= MaxTracked
                    /\ allowed \subseteq Exporters /\ arrived \in 0..MaxDatagrams
BY DEF DatagramInv, TemplatesOK, CountsOK

LEMMA TemplatesSame == TemplatesOK /\ UNCHANGED <<templates, newest, decodedWith>> => TemplatesOK'
BY DEF TemplatesOK, CacheOK, IsNewest, DecodedWithNewest

LEMMA DatagramSaveKeeps ==
    ASSUME DatagramAssumption, DatagramInv, NEW list \in SUBSET Exporters,
           ResetRefusals(list) \/ Rebind(list) \/ RecoverAllowlist(list)
    PROVE  DatagramInv'
<1>1. UNCHANGED <<templates, arrived, newest, decodedWith>> /\ allowed' = list
  BY DEF ResetRefusals, Rebind, RecoverAllowlist
<1>2. TemplatesOK /\ CountsOK /\ exporters \in Seq(Stats) /\ Len(exporters) <= MaxTracked
      /\ arrived \in 0..MaxDatagrams
  BY DatagramParts
<1>3. exporters' \in Seq(Stats) /\ Len(exporters') <= MaxTracked
  <2>1. exporters' = exporters \/ exporters' = <<>>
    BY DEF ResetRefusals, Rebind, RecoverAllowlist, ResetForRebind
  <2>2. <<>> \in Seq(Stats) /\ Len(<<>>) = 0 /\ MaxTracked \in Nat
    BY DEF DatagramAssumption
  <2>3. CASE exporters' = exporters
    BY <1>2, <2>3
  <2>4. CASE exporters' = <<>>
    BY <2>2, <2>4
  <2> QED BY <2>1, <2>3, <2>4
<1>4. CountsOK'
  <2>1. CASE ResetRefusals(list)
    <3>1. /\ count' \in [datagrams : Nat, records : Nat, malformed : Nat,
                        notAllowed : Nat, sflow : Nat, unsupportedVersion : Nat]
          /\ count'.datagrams = count.datagrams /\ count'.notAllowed = 0
      BY <1>2, <2>1 DEF CountsOK, ResetRefusals
    <3>2. changedAt' = count.datagrams /\ refusedSince' = 0 /\ acceptedSince' = 0 /\ count.datagrams \in Nat
      BY <1>2, <2>1 DEF CountsOK, ResetRefusals
    <3> QED BY <3>1, <3>2 DEF CountsOK, RefusalShareExact
  <2>2. CASE Rebind(list)
    <3>1. /\ count' \in [datagrams : Nat, records : Nat, malformed : Nat,
                        notAllowed : Nat, sflow : Nat, unsupportedVersion : Nat]
          /\ count'.datagrams = 0 /\ count'.notAllowed = 0
      BY <2>2 DEF Rebind, ResetForRebind, NoCounts
    <3>2. changedAt' = 0 /\ refusedSince' = 0 /\ acceptedSince' = 0
      BY <2>2 DEF Rebind, ResetForRebind
    <3> QED BY <3>1, <3>2 DEF CountsOK, RefusalShareExact
  <2>3. CASE RecoverAllowlist(list)
    BY <1>2, <2>3 DEF RecoverAllowlist, CountsOK, RefusalShareExact
  <2> QED BY <2>1, <2>2, <2>3
<1>5. TemplatesOK'
  BY <1>1, <1>2, TemplatesSame
<1>6. allowed' \subseteq Exporters /\ arrived' \in 0..MaxDatagrams
  BY <1>1, <1>2
<1> QED BY <1>3, <1>4, <1>5, <1>6 DEF DatagramInv, TemplatesOK, CountsOK

LEMMA RefuseKeeps ==
    ASSUME DatagramAssumption, DatagramInv, NEW sender \in Exporters, Refuse(sender)
    PROVE  DatagramInv'
<1>1. /\ count' \in [datagrams : Nat, records : Nat, malformed : Nat,
                    notAllowed : Nat, sflow : Nat, unsupportedVersion : Nat]
      /\ count'.datagrams = count.datagrams + 1 /\ count'.notAllowed = count.notAllowed + 1
      /\ count.datagrams \in Nat /\ count.notAllowed \in Nat
  <2>1. count \in [datagrams : Nat, records : Nat, malformed : Nat,
                    notAllowed : Nat, sflow : Nat, unsupportedVersion : Nat]
    BY DEF DatagramInv
  <2> DEFINE all == count.datagrams + 1
             refused == count.notAllowed + 1
  <2>2. count' = [count EXCEPT !.datagrams = all, !.notAllowed = refused]
    BY DEF Refuse
  <2>3. all \in Nat /\ refused \in Nat /\ count.datagrams \in Nat /\ count.notAllowed \in Nat
    BY <2>1
  <2> HIDE DEF all, refused
  <2>4. count' \in [datagrams : Nat, records : Nat, malformed : Nat,
                      notAllowed : Nat, sflow : Nat, unsupportedVersion : Nat] /\ count'.datagrams = all /\ count'.notAllowed = refused
    BY <2>1, <2>2, <2>3
  <2> QED BY <2>3, <2>4 DEF all, refused
<1>2. /\ refusedSince' = refusedSince + 1 /\ UNCHANGED <<changedAt, acceptedSince>>
      /\ arrived' \in 0..MaxDatagrams
  BY DEF DatagramInv, Refuse, DatagramAssumption
<1>3. CountsOK'
  <2>1. /\ changedAt \in Nat /\ refusedSince \in Nat /\ acceptedSince \in Nat /\ RefusalShareExact
    BY DEF DatagramInv
  <2>2. RefusalShareExact'
    BY <1>1, <1>2, <2>1 DEF RefusalShareExact
  <2>3. changedAt' \in Nat /\ refusedSince' \in Nat /\ acceptedSince' \in Nat
    BY <1>2, <2>1
  <2> QED BY <1>1, <2>2, <2>3 DEF CountsOK
<1>4. TemplatesOK'
  BY TemplatesSame, DatagramParts DEF Refuse
<1>5. exporters' = exporters /\ allowed' = allowed
  BY DEF Refuse
<1>6. exporters' \in Seq(Stats) /\ Len(exporters') <= MaxTracked /\ allowed' \subseteq Exporters
  BY <1>5 DEF DatagramInv
<1> QED BY <1>2, <1>3, <1>4, <1>6 DEF DatagramInv, TemplatesOK, CountsOK

\* An accepted datagram is counted once.
LEMMA AcceptedCounts ==
    ASSUME DatagramAssumption, DatagramInv, arrived < MaxDatagrams, Accepted,
           count' \in [datagrams : Nat, records : Nat, malformed : Nat,
                      notAllowed : Nat, sflow : Nat, unsupportedVersion : Nat],
           count'.datagrams = count.datagrams + 1, count'.notAllowed = count.notAllowed
    PROVE  CountsOK' /\ allowed' \subseteq Exporters /\ arrived' \in 0..MaxDatagrams
<1>1. /\ changedAt \in Nat /\ refusedSince \in Nat /\ acceptedSince \in Nat /\ RefusalShareExact
      /\ count.datagrams \in Nat /\ count.notAllowed \in Nat /\ allowed \subseteq Exporters
      /\ arrived \in 0..MaxDatagrams /\ MaxDatagrams \in Nat
  BY DEF DatagramInv, DatagramAssumption
<1>2. /\ acceptedSince' = acceptedSince + 1 /\ arrived' = arrived + 1
      /\ allowed' = allowed /\ changedAt' = changedAt /\ refusedSince' = refusedSince
  BY DEF Accepted
<1>3. RefusalShareExact'
  BY <1>1, <1>2 DEF RefusalShareExact
<1>4. changedAt' \in Nat /\ refusedSince' \in Nat /\ acceptedSince' \in Nat
  BY <1>1, <1>2
<1>5. allowed' \subseteq Exporters /\ arrived' \in 0..MaxDatagrams
  BY <1>1, <1>2
<1> QED BY <1>3, <1>4, <1>5 DEF CountsOK

LEMMA IgnoreSflowKeeps ==
    ASSUME DatagramAssumption, DatagramInv, NEW sender \in Exporters, NEW d, IgnoreSflow(sender, d)
    PROVE  DatagramInv'
<1>1. /\ count' \in [datagrams : Nat, records : Nat, malformed : Nat,
                    notAllowed : Nat, sflow : Nat, unsupportedVersion : Nat]
      /\ count'.datagrams = count.datagrams + 1 /\ count'.notAllowed = count.notAllowed
  <2>1. count \in [datagrams : Nat, records : Nat, malformed : Nat,
                    notAllowed : Nat, sflow : Nat, unsupportedVersion : Nat]
    BY DEF DatagramInv
  <2> DEFINE all == count.datagrams + 1
             ignored == count.sflow + 1
  <2>2. count' = [count EXCEPT !.datagrams = all, !.sflow = ignored]
    BY DEF IgnoreSflow
  <2>3. all \in Nat /\ ignored \in Nat
    BY <2>1
  <2> HIDE DEF all, ignored
  <2>4. /\ count' \in [datagrams : Nat, records : Nat, malformed : Nat,
                         notAllowed : Nat, sflow : Nat, unsupportedVersion : Nat]
        /\ count'.datagrams = all /\ count'.notAllowed = count.notAllowed
    BY <2>1, <2>2, <2>3
  <2> QED BY <2>4 DEF all
<1>2. CountsOK' /\ allowed' \subseteq Exporters /\ arrived' \in 0..MaxDatagrams
  BY <1>1, AcceptedCounts DEF IgnoreSflow
<1>3. TemplatesOK'
  BY TemplatesSame, DatagramParts DEF IgnoreSflow
<1>4. exporters' \in Seq(Stats) /\ Len(exporters') <= MaxTracked
  BY DEF DatagramInv, IgnoreSflow
<1> QED BY <1>2, <1>3, <1>4 DEF DatagramInv, TemplatesOK, CountsOK

\* The exporters' counters keep their room.
LEMMA StatsKept ==
    ASSUME DatagramAssumption, DatagramInv, NEW sender \in Exporters, NEW d \in Datagrams,
           NEW result \in [records : Nat, malformed : Nat, pending : Nat]
    PROVE  /\ Counted(StatsFor(sender, d), sender, d, result) \in Seq(Stats)
           /\ Len(Counted(StatsFor(sender, d), sender, d, result)) <= MaxTracked
<1> DEFINE stats == StatsFor(sender, d)
<1>1. Protocol(d) \in {"v5", "templated", Unknown}
  BY DEF Protocol
<1>2. Fresh(sender, d) \in Stats
  BY <1>1 DEF Fresh, Stats
<1>3. MaxTracked \in Nat \ {0} /\ exporters \in Seq(Stats) /\ Len(exporters) <= MaxTracked
  BY DEF DatagramAssumption, DatagramInv
<1>4. stats \in Seq(Stats) /\ Len(stats) <= MaxTracked
  <2>1. CASE Slots(sender) # {}
    BY <1>3, <2>1 DEF StatsFor
  <2>2. CASE Slots(sender) = {}
    <3> DEFINE room == IF Len(exporters) < MaxTracked THEN exporters ELSE Tail(exporters)
    <3>1. room \in Seq(Stats) /\ Len(room) < MaxTracked
      <4>1. CASE Len(exporters) < MaxTracked
        BY <1>3, <4>1
      <4>2. CASE ~(Len(exporters) < MaxTracked)
        <5>1. exporters # <<>> /\ room = Tail(exporters)
          BY <1>3, <4>2
        <5>2. Tail(exporters) \in Seq(Stats) /\ Len(Tail(exporters)) = Len(exporters) - 1
          BY <1>3, <5>1
        <5>3. Len(exporters) \in Nat /\ Len(exporters) <= MaxTracked /\ MaxTracked \in Nat
          BY <1>3
        <5>4. Len(Tail(exporters)) < MaxTracked
          BY <5>2, <5>3
        <5> QED BY <5>1, <5>2, <5>4
      <4> QED BY <4>1, <4>2
    <3>2. stats = Append(room, Fresh(sender, d))
      BY <2>2 DEF StatsFor
    <3> HIDE DEF room, stats
    <3> QED BY <1>2, <1>3, <3>1, <3>2
  <2> QED BY <2>1, <2>2
<1> HIDE DEF stats
<1> DEFINE Told(s) == IF s.exporter # sender THEN s
                      ELSE [s EXCEPT !.datagrams = @ + 1, !.records = @ + result.records,
                                     !.pendingTemplates = @ + result.pending,
                                     !.malformed = @ + result.malformed,
                                     !.protocol = IF Protocol(d) = Unknown THEN @ ELSE Protocol(d)]
<1>5. ASSUME NEW s \in Stats PROVE Told(s) \in Stats
  <2>1. CASE s.exporter = sender
    <3> DEFINE r == result.records
               p == result.pending
               m == result.malformed
               protocol == IF Protocol(d) = Unknown THEN s.protocol ELSE Protocol(d)
    <3>1. r \in Nat /\ p \in Nat /\ m \in Nat
      OBVIOUS
    <3>2. protocol \in {"v5", "templated", Unknown}
      BY <1>1 DEF Stats
    <3> DEFINE all == s.datagrams + 1
               records == s.records + r
               pending == s.pendingTemplates + p
               malformed == s.malformed + m
    <3>3. Told(s) = [s EXCEPT !.datagrams = all, !.records = records, !.pendingTemplates = pending,
                              !.malformed = malformed, !.protocol = protocol]
      BY <2>1
    <3> HIDE DEF r, p, m
    <3>4. all \in Nat /\ records \in Nat /\ pending \in Nat /\ malformed \in Nat
      BY <3>1 DEF Stats
    <3> HIDE DEF protocol, Told, all, records, pending, malformed
    <3> QED BY <3>2, <3>3, <3>4 DEF Stats
  <2>2. CASE s.exporter # sender
    BY <2>2
  <2> QED BY <2>1, <2>2
<1>6. Counted(stats, sender, d, result) = [i \in DOMAIN stats |-> Told(stats[i])]
  BY DEF Counted
<1>7. DOMAIN stats = 1..Len(stats) /\ Len(stats) \in Nat /\ \A i \in 1..Len(stats) : stats[i] \in Stats
  BY <1>4
<1> HIDE DEF Told
<1>8. \A i \in 1..Len(stats) : Told(stats[i]) \in Stats
  BY <1>5, <1>7
<1>9. /\ [i \in DOMAIN stats |-> Told(stats[i])] \in Seq(Stats)
      /\ Len([i \in DOMAIN stats |-> Told(stats[i])]) = Len(stats)
  BY <1>7, <1>8
<1> QED BY <1>3, <1>4, <1>6, <1>9 DEF stats

LEMMA HandleKeeps ==
    ASSUME DatagramAssumption, DatagramInv, NEW sender \in Exporters, NEW d \in Datagrams, Handle(sender, d)
    PROVE  DatagramInv'
<1> DEFINE end == Parsed(sender, d)
<1>1. end \in SoundReads
  BY ParsedSound
<1>2. /\ templates' = end.cache /\ newest' = end.known /\ decodedWith' = decodedWith \cup end.used
      /\ exporters' = Counted(StatsFor(sender, d), sender, d, end.result)
      /\ count' = [count EXCEPT !.datagrams = @ + 1, !.records = @ + end.result.records,
                              !.malformed = @ + end.result.malformed,
                              !.unsupportedVersion = @ + (IF d.kind = "unsupported" THEN 1 ELSE 0)]
      /\ arrived < MaxDatagrams /\ Accepted
  BY DEF Handle
<1> HIDE DEF end
<1>3. /\ end \in AllReads /\ Len(end.cache) <= MaxTemplates /\ IsNewest(end.cache, end.known)
      /\ \A u \in end.used : u[1] = u[2]
  BY <1>1 DEF SoundReads
<1>4. /\ end.result \in [records : Nat, malformed : Nat, pending : Nat]
      /\ end.cache \in Seq([key : Keys, definition : Definitions])
      /\ end.known \in [Keys -> Definitions \cup {Unknown}] /\ end.used \subseteq Used
  BY <1>3 DEF AllReads
<1>5. TemplatesOK'
  <2>1. decodedWith \subseteq Used /\ DecodedWithNewest
    BY DEF DatagramInv
  <2>2. decodedWith' \subseteq Used /\ DecodedWithNewest'
    BY <1>2, <1>3, <1>4, <2>1 DEF DecodedWithNewest
  <2>3. CacheOK(templates)' /\ IsNewest(templates, newest)'
    BY <1>2, <1>3, <1>4 DEF CacheOK, IsNewest
  <2> QED BY <1>2, <1>4, <2>2, <2>3 DEF TemplatesOK
<1>6. exporters' \in Seq(Stats) /\ Len(exporters') <= MaxTracked
  BY <1>2, <1>4, StatsKept
<1>7. /\ count' \in [datagrams : Nat, records : Nat, malformed : Nat,
                    notAllowed : Nat, sflow : Nat, unsupportedVersion : Nat]
      /\ count'.datagrams = count.datagrams + 1 /\ count'.notAllowed = count.notAllowed
  <2> DEFINE r == end.result.records
             m == end.result.malformed
             u == IF d.kind = "unsupported" THEN 1 ELSE 0
             all == count.datagrams + 1
             records == count.records + r
             malformed == count.malformed + m
             unsupported == count.unsupportedVersion + u
  <2>1. r \in Nat /\ m \in Nat /\ u \in Nat
    BY <1>4
  <2>2. count' = [count EXCEPT !.datagrams = all, !.records = records, !.malformed = malformed,
                               !.unsupportedVersion = unsupported]
    BY <1>2
  <2>3. count \in [datagrams : Nat, records : Nat, malformed : Nat,
                    notAllowed : Nat, sflow : Nat, unsupportedVersion : Nat]
    BY DEF DatagramInv
  <2> HIDE DEF r, m, u
  <2>4. all \in Nat /\ records \in Nat /\ malformed \in Nat /\ unsupported \in Nat
    BY <2>1, <2>3
  <2> HIDE DEF all, records, malformed, unsupported
  <2>5. /\ count' \in [datagrams : Nat, records : Nat, malformed : Nat,
                         notAllowed : Nat, sflow : Nat, unsupportedVersion : Nat]
        /\ count'.datagrams = all /\ count'.notAllowed = count.notAllowed
    BY <2>2, <2>3, <2>4
  <2> QED BY <2>5 DEF all
<1>8. CountsOK' /\ allowed' \subseteq Exporters /\ arrived' \in 0..MaxDatagrams
  BY <1>2, <1>7, AcceptedCounts
<1> QED BY <1>5, <1>6, <1>8 DEF DatagramInv, TemplatesOK, CountsOK

LEMMA DatagramStep ==
    ASSUME DatagramAssumption PROVE DatagramInv /\ [DatagramNext]_datagramVars => DatagramInv'
<1> SUFFICES ASSUME DatagramInv, [DatagramNext]_datagramVars PROVE DatagramInv'
  OBVIOUS
<1>1. \A list \in Allowlists : list \in SUBSET Exporters
  BY DEF DatagramAssumption
<1>2. ASSUME NEW list \in Allowlists, ResetRefusals(list) \/ Rebind(list) \/ RecoverAllowlist(list)
      PROVE  DatagramInv'
  BY <1>1, <1>2, DatagramSaveKeeps
<1>3. CASE UNCHANGED datagramVars
  <2>1. TemplatesOK'
    BY <1>3, TemplatesSame, DatagramParts DEF datagramVars
  <2>2. CountsOK'
    BY <1>3 DEF datagramVars, DatagramInv, CountsOK, RefusalShareExact
  <2> QED BY <1>3, <2>1, <2>2 DEF datagramVars, DatagramInv, TemplatesOK, CountsOK
<1> QED BY <1>2, <1>3, RefuseKeeps, IgnoreSflowKeeps, HandleKeeps DEF DatagramNext

LEMMA DatagramShows == DatagramInv => DatagramTypeOK /\ DatagramsExact
<1> SUFFICES ASSUME DatagramInv PROVE DatagramTypeOK /\ DatagramsExact
  OBVIOUS
<1>1. DOMAIN count = DOMAIN NoCounts /\ \A c \in DOMAIN count : count[c] \in Nat
  BY DEF DatagramInv, NoCounts
<1>2. DatagramTypeOK
  BY <1>1 DEF DatagramInv, DatagramTypeOK, CacheOK, Stats
<1> QED BY <1>2 DEF DatagramInv, DatagramsExact

\* What the collector tells of the flows is exact, whatever datagrams arrive and whatever
\* is saved.
THEOREM DatagramsCorrect == ASSUME DatagramAssumption PROVE DatagramSpec => [](DatagramTypeOK /\ DatagramsExact)
<1> QED BY DatagramStarts, DatagramStep, DatagramShows, PTL DEF DatagramSpec

-----------------------------------------------------------------------------
(* The windows of the scan detector *)

\* Counts of the scan detector are totals.
LEMMA TallyIs == ASSUME NEW f, NEW S PROVE Tally(f, S) = Total(f, S)
<1> QED BY DEF Tally, FoldSet, MapThenFoldSet, Total, TheSums, Sums, Next1

\* The names of keys tell what they are for.
LEMMA KeysAre ==
    ASSUME NEW key \in ScanKeys
    PROVE  /\ key[1] \in {"ports", "hosts", "flood"}
           /\ key[1] = "ports" => \E p \in Probes : key = PortKey(p)
           /\ key[1] = "hosts" => \E p \in Probes : key = HostKey(p)
           /\ key[1] = "flood" => (\E p \in Probes : key = FloodKey(p)) /\ key[2] \in Sources
<1> QED BY DEF ScanKeys, PortKey, HostKey, FloodKey, Sources

LEMMA Lengths ==
    ASSUME ScanAssumption, NEW key \in ScanKeys
    PROVE  /\ WindowOfKey(key) \in Nat \ {0} /\ Threshold(key) \in Nat \ {0}
           /\ Longest \in Nat /\ Longest >= WindowOfKey(key) + Cooldown
           /\ Cooldown \in Nat \ {0} /\ Longest >= 1
<1> QED BY DEF ScanAssumption, WindowOfKey, Threshold, Longest

\* A probe is known by its key and its item.
LEMMA ItemTells ==
    ASSUME ScanAssumption, NEW key, key[1] # "flood",
           NEW p \in Probes, NEW q \in Probes, CountedFor(p, key), CountedFor(q, key),
           ItemOf(p, key) = ItemOf(q, key)
    PROVE  p = q
<1>1. /\ p = [source |-> p.source, target |-> p.target, port |-> p.port]
      /\ q = [source |-> q.source, target |-> q.target, port |-> q.port]
  BY DEF ScanAssumption
<1>2. CASE key[1] = "ports"
  <2>1. <<"ports", p.source, p.target>> = <<"ports", q.source, q.target>> /\ p.port = q.port
    BY <1>2 DEF CountedFor, PortKey, ItemOf
  <2>2. p.source = q.source /\ p.target = q.target
    BY <2>1
  <2> QED BY <1>1, <2>1, <2>2
<1>3. CASE key[1] # "ports"
  <2>1. <<"hosts", p.source, p.port>> = <<"hosts", q.source, q.port>> /\ p.target = q.target
    BY <1>3 DEF CountedFor, HostKey, ItemOf
  <2>2. p.source = q.source /\ p.port = q.port
    BY <2>1
  <2> QED BY <1>1, <2>1, <2>2
<1> QED BY <1>2, <1>3

\* There are as many items as probes.
LEMMA ItemsCount ==
    ASSUME ScanAssumption, NEW key, key[1] # "flood", NEW S \in SUBSET Probes,
           \A p \in S : CountedFor(p, key)
    PROVE  /\ IsFiniteSet(S) /\ IsFiniteSet({ItemOf(p, key) : p \in S})
           /\ Cardinality({ItemOf(p, key) : p \in S}) = Cardinality(S) /\ Cardinality(S) \in Nat
<1> DEFINE T == {ItemOf(p, key) : p \in S}
           f == [p \in S |-> ItemOf(p, key)]
<1>1. IsFiniteSet(S)
  BY FS_Subset DEF ScanAssumption
<1>2. f \in Surjection(S, T)
  BY DEF Surjection
<1>3. f \in Injection(S, T)
  <2>1. ASSUME NEW p \in S, NEW q \in S, f[p] = f[q] PROVE p = q
    <3>1. ItemOf(p, key) = ItemOf(q, key)
      BY <2>1
    <3> QED BY <3>1, ItemTells
  <2>2. f \in [S -> T]
    OBVIOUS
  <2> HIDE DEF f, T
  <2> QED BY <2>1, <2>2 DEF Injection, IsInjective
<1> HIDE DEF f, T
<1>4. IsFiniteSet(T) /\ Cardinality(T) = Cardinality(S)
  BY <1>1, <1>2, <1>3, FS_Surjection
<1>5. Cardinality(S) \in Nat
  BY <1>1, FS_CardinalityType
<1> QED BY <1>1, <1>4, <1>5 DEF T

\* A part of the probes is no more than all of them.
LEMMA FewerTold ==
    ASSUME ScanAssumption, NEW S \in SUBSET Probes, NEW R \in SUBSET S
    PROVE  /\ IsFiniteSet(S) /\ IsFiniteSet(R) /\ Cardinality(R) <= Cardinality(S)
           /\ Cardinality(R) \in Nat /\ Cardinality(S) \in Nat
<1>1. IsFiniteSet(S)
  BY FS_Subset DEF ScanAssumption
<1> QED BY <1>1, FS_Subset, FS_CardinalityType

-----------------------------------------------------------------------------
(* Ports and hosts. *)

LEMMA PatternTicks ==
    ASSUME ScanAssumption, NEW key \in ScanKeys, key[1] # "flood",
           NEW ago \in Int, ago >= -1, ago < WindowOfKey(key), NEW items,
           NEW age \in [Probes -> 0..Longest], NEW told \in 0..Longest,
           PatternHolds(key, ago, items, age, told),
           NEW next \in Int, next = (IF ago = -1 \/ ago = WindowOfKey(key) - 1 THEN -1 ELSE ago + 1),
           NEW later \in [Probes -> 0..Longest], \A p \in Probes : later[p] = AtMost(age[p] + 1, Longest),
           NEW since \in 0..Longest, since <= told + 1
    PROVE  PatternHolds(key, next, items, later, since)
<1> DEFINE In == Inside(key, ago, age)
           Out == Earlier(key, ago, age)
           In2 == Inside(key, next, later)
           Out2 == Earlier(key, next, later)
           T == Threshold(key)
<1>t. WindowOfKey(key) = ScanWindow
  BY DEF WindowOfKey
<1>0. /\ ScanWindow \in Nat \ {0} /\ T \in Nat \ {0} /\ Cooldown \in Nat \ {0} /\ Longest \in Nat
      /\ Longest >= ScanWindow + Cooldown
  BY <1>t, Lengths
<1>a. \A p \in Probes : /\ age[p] \in Nat /\ later[p] >= 1 /\ later[p] \in Nat
                        /\ age[p] < ScanWindow => later[p] = age[p] + 1
                        /\ age[p] >= ScanWindow => later[p] >= ScanWindow
  BY <1>0 DEF AtMost
<1>n. told \in Nat /\ since \in Nat
  OBVIOUS
<1>h. ToldOf(In, key, age, told) /\ ToldOf(Out, key, age, told)
  BY DEF PatternHolds
<1>1. next >= 0 => items = {ItemOf(p, key) : p \in In2}
  <2> SUFFICES ASSUME next >= 0 PROVE items = {ItemOf(p, key) : p \in In2}
    OBVIOUS
  <2>1. ago >= 0 /\ next = ago + 1 /\ next < ScanWindow
    BY <1>t, <1>0
  <2>2. \A p \in Probes : later[p] <= next <=> age[p] <= ago
    BY <1>a, <2>1, <1>0
  <2>3. In2 = In
    BY <2>2 DEF Inside
  <2> QED BY <2>1, <2>3 DEF PatternHolds
<1>2. \A p \in Probes : later[p] >= 1
  BY <1>a
<1>3. ToldOf(In2, key, later, since)
  <2>1. CASE next = -1
    <3>1. In2 = {}
      BY <2>1, <1>a DEF Inside
    <3> QED BY <3>1 DEF ToldOf
  <2>2. CASE next # -1
    <3>1. ago >= 0 /\ next = ago + 1 /\ next < ScanWindow
      BY <1>t, <1>0, <2>2
    <3>2. \A p \in Probes : later[p] <= next <=> age[p] <= ago
      BY <1>a, <3>1, <1>0
    <3>3. In2 = In
      BY <3>2 DEF Inside
    <3>4. \A p \in In : p \in Probes /\ age[p] <= ago
      BY DEF Inside
    <3> SUFFICES ASSUME Cardinality(In) >= T, NEW p \in In PROVE since <= Cooldown - 1 + later[p]
      BY <3>3 DEF ToldOf
    <3>5. told <= Cooldown - 1 + age[p]
      BY <1>h DEF ToldOf
    <3>6. later[p] = age[p] + 1
      BY <1>a, <3>1, <3>4, <1>0
    <3> QED BY <3>4, <3>5, <3>6, <1>0, <1>a, <1>n
  <2> QED BY <2>1, <2>2
<1>4. ToldOf(Out2, key, later, since)
  <2>1. \A p \in Out2 : p \in Probes /\ CountedFor(p, key) /\ later[p] > next /\ later[p] < ScanWindow
                        /\ age[p] < ScanWindow /\ later[p] = age[p] + 1
    BY <1>a, <1>0 DEF Earlier
  <2> SUFFICES ASSUME Cardinality(Out2) >= T, NEW p \in Out2 PROVE since <= Cooldown - 1 + later[p]
    BY DEF ToldOf
  <2>2. ASSUME NEW S \in SUBSET Probes, Out2 \subseteq S, ToldOf(S, key, age, told)
        PROVE  since <= Cooldown - 1 + later[p]
    <3>1. Cardinality(Out2) <= Cardinality(S) /\ Cardinality(Out2) \in Nat /\ Cardinality(S) \in Nat
      BY <2>2, FewerTold
    <3>2. told <= Cooldown - 1 + age[p]
      BY <2>2, <3>1, <1>0 DEF ToldOf
    <3>3. p \in Probes /\ later[p] = age[p] + 1
      BY <2>1
    <3> QED BY <3>2, <3>3, <1>0, <1>a, <1>n
  <2>3. CASE ago = ScanWindow - 1
    <3>1. Out2 \subseteq In
      BY <2>1, <2>3, <1>a, <1>0 DEF Inside
    <3>2. In \in SUBSET Probes
      BY DEF Inside
    <3> QED BY <2>2, <3>1, <3>2, <1>h
  <2>4. CASE ago # ScanWindow - 1
    <3>1. next = (IF ago = -1 THEN -1 ELSE ago + 1)
      BY <2>4, <1>t
    <3>2. Out2 \subseteq Out
      BY <2>1, <2>4, <3>1, <1>a, <1>0 DEF Earlier
    <3>3. Out \in SUBSET Probes
      BY DEF Earlier
    <3> QED BY <2>2, <3>2, <3>3, <1>h
  <2> QED BY <2>3, <2>4
<1> QED BY <1>1, <1>2, <1>3, <1>4 DEF PatternHolds

\* The window that an attempt is counted in, and what it then holds.
ProbeAges == [Probes -> 0..Longest]
Started(ago) == IF ago = -1 THEN 0 ELSE ago
WithItem(ago, items, item) == (IF ago = -1 THEN {} ELSE items) \cup {item}
WithOne(ago, total) == (IF ago = -1 THEN 0 ELSE total) + 1
JustMade(age, q) == [age EXCEPT ![q] = 0]
OneLater(counts) == [counts EXCEPT ![0] = AtMost(@ + 1, SynFloodAttempts)]

\* A probe that counts comes into the current window, or into a new one.
LEMMA PatternCounts ==
    ASSUME ScanAssumption, NEW key \in ScanKeys, key[1] # "flood",
           NEW ago \in Int, ago >= -1, ago < WindowOfKey(key), NEW items,
           NEW age \in ProbeAges, NEW told \in 0..Longest,
           PatternHolds(key, ago, items, age, told),
           NEW q \in Probes, CountedFor(q, key),
           NEW next, next = Started(ago), NEW more, more = WithItem(ago, items, ItemOf(q, key)),
           NEW later, later = JustMade(age, q),
           NEW since \in 0..Longest, since <= told,
           Cardinality(more) >= Threshold(key) => since <= Cooldown - 1
    PROVE  /\ PatternHolds(key, next, more, later, since)
           /\ Cardinality(more) = Cardinality(Inside(key, next, later))
<1> USE DEF Started, WithItem, JustMade, ProbeAges
<1> DEFINE In == Inside(key, ago, age)
           Out == Earlier(key, ago, age)
           In2 == Inside(key, next, later)
           Out2 == Earlier(key, next, later)
           T == Threshold(key)
<1>t. WindowOfKey(key) = ScanWindow
  BY DEF WindowOfKey
<1>0. /\ ScanWindow \in Nat \ {0} /\ T \in Nat \ {0} /\ Cooldown \in Nat \ {0} /\ Longest \in Nat
  BY <1>t, Lengths
<1>a. /\ later[q] = 0 /\ \A p \in Probes : p # q => later[p] = age[p]
      /\ \A p \in Probes : later[p] \in Nat /\ age[p] \in Nat
  BY <1>0
<1>n. told \in Nat /\ since \in Nat
  OBVIOUS
<1>h. ToldOf(Out, key, age, told)
  BY DEF PatternHolds
<1>1. In2 = (IF ago = -1 THEN {} ELSE In) \cup {q}
  <2>1. CASE ago = -1
    <3>1. \A p \in Probes : CountedFor(p, key) => age[p] >= 1
      BY <2>1 DEF PatternHolds
    <3> QED BY <2>1, <3>1, <1>a DEF Inside
  <2>2. CASE ago # -1
    <3>1. next = ago /\ ago >= 0
      BY <2>2
    <3>2. \A p \in Probes : p \in In2 <=> p \in In \/ p = q
      BY <3>1, <1>a DEF Inside
    <3>3. In2 \subseteq Probes /\ In \subseteq Probes
      BY DEF Inside
    <3> QED BY <2>2, <3>2, <3>3
  <2> QED BY <2>1, <2>2
<1>2. more = {ItemOf(p, key) : p \in In2}
  <2>1. \A S : {ItemOf(p, key) : p \in S \cup {q}} = {ItemOf(p, key) : p \in S} \cup {ItemOf(q, key)}
    OBVIOUS
  <2>2. ago # -1 => items = {ItemOf(p, key) : p \in In}
    BY DEF PatternHolds
  <2> HIDE DEF In, In2
  <2>3. {ItemOf(p, key) : p \in {}} = {}
    OBVIOUS
  <2>4. CASE ago = -1
    <3>1. In2 = {} \cup {q} /\ more = {} \cup {ItemOf(q, key)}
      BY <1>1, <2>4
    <3>2. {ItemOf(p, key) : p \in {} \cup {q}} = {ItemOf(p, key) : p \in {}} \cup {ItemOf(q, key)}
      BY <2>1
    <3> QED BY <2>3, <3>1, <3>2
  <2>5. CASE ago # -1
    <3>1. In2 = In \cup {q} /\ more = items \cup {ItemOf(q, key)}
      BY <1>1, <2>5
    <3>2. {ItemOf(p, key) : p \in In \cup {q}} = {ItemOf(p, key) : p \in In} \cup {ItemOf(q, key)}
      BY <2>1
    <3> QED BY <2>2, <2>5, <3>1, <3>2
  <2> QED BY <2>4, <2>5
<1>3. In2 \in SUBSET Probes /\ \A p \in In2 : CountedFor(p, key)
  BY DEF Inside
<1>4. Cardinality(more) = Cardinality(In2)
  <2> HIDE DEF In2
  <2>1. Cardinality({ItemOf(p, key) : p \in In2}) = Cardinality(In2)
    BY <1>3, ItemsCount
  <2> QED BY <1>2, <2>1
<1>5. ToldOf(In2, key, later, since)
  <2> SUFFICES ASSUME Cardinality(In2) >= T, NEW p \in In2 PROVE since <= Cooldown - 1 + later[p]
    BY DEF ToldOf
  <2>1. since <= Cooldown - 1
    BY <1>4
  <2>2. later[p] \in Nat
    BY <1>3, <1>a
  <2> QED BY <2>1, <2>2, <1>0, <1>n
<1>6. ToldOf(Out2, key, later, since)
  <2> SUFFICES ASSUME Cardinality(Out2) >= T, NEW p \in Out2 PROVE since <= Cooldown - 1 + later[p]
    BY DEF ToldOf
  <2>1. \A r \in Out2 : r \in Probes /\ r # q /\ CountedFor(r, key) /\ later[r] = age[r] /\ age[r] > ago /\ age[r] < ScanWindow
    BY <1>a DEF Earlier
  <2>2. Out2 \subseteq Out
    BY <2>1 DEF Earlier
  <2>3. Out \in SUBSET Probes
    BY DEF Earlier
  <2>4. Cardinality(Out2) <= Cardinality(Out) /\ Cardinality(Out2) \in Nat /\ Cardinality(Out) \in Nat
    BY <2>2, <2>3, FewerTold
  <2>6. ASSUME NEW S, Out2 \subseteq S, Cardinality(Out2) <= Cardinality(S), Cardinality(S) \in Nat,
               ToldOf(S, key, age, told)
        PROVE  told <= Cooldown - 1 + age[p]
    <3>1. Cardinality(S) >= Threshold(key)
      <4> HIDE DEF Out2
      <4> QED BY <2>6, <2>4, <1>0
    <3>2. p \in S
      BY <2>6
    <3> QED BY <2>6, <3>1, <3>2 DEF ToldOf
  <2>5. told <= Cooldown - 1 + age[p]
    BY <1>h, <2>2, <2>4, <2>6
  <2>7. p \in Probes /\ later[p] = age[p]
    BY <2>1
  <2> QED BY <2>5, <2>7, <1>0, <1>a, <1>n
<1>7. next # -1
  OBVIOUS
<1>8. PatternHolds(key, next, more, later, since)
  BY <1>2, <1>5, <1>6, <1>7 DEF PatternHolds
<1> QED BY <1>4, <1>8

\* A probe of another key makes no difference.
LEMMA PatternKeeps ==
    ASSUME NEW key, NEW ago \in Int, ago >= -1, NEW items, NEW more, ago >= 0 => more = items,
           NEW age, NEW told, PatternHolds(key, ago, items, age, told),
           NEW later, \A p \in Probes : CountedFor(p, key) => later[p] = age[p]
    PROVE  PatternHolds(key, ago, more, later, told)
<1>1. Inside(key, ago, later) = Inside(key, ago, age) /\ Earlier(key, ago, later) = Earlier(key, ago, age)
  BY DEF Inside, Earlier
<1>2. \A S : S \subseteq {p \in Probes : CountedFor(p, key)} /\ ToldOf(S, key, age, told) => ToldOf(S, key, later, told)
  BY DEF ToldOf
<1>3. Inside(key, ago, age) \subseteq {p \in Probes : CountedFor(p, key)} /\ Earlier(key, ago, age) \subseteq {p \in Probes : CountedFor(p, key)}
  BY DEF Inside, Earlier
<1>4. ToldOf(Inside(key, ago, age), key, later, told) /\ ToldOf(Earlier(key, ago, age), key, later, told)
  BY <1>2, <1>3 DEF PatternHolds
<1> QED BY <1>1, <1>4 DEF PatternHolds

\* A key without a window, when no probe is recent.
LEMMA PatternStarts ==
    ASSUME ScanAssumption, NEW key \in ScanKeys, key[1] # "flood", NEW items, NEW told,
           NEW age, age = [p \in Probes |-> Longest]
    PROVE  PatternHolds(key, -1, items, age, told)
<1>1. Longest \in Nat /\ Longest >= 1 /\ Longest >= ScanWindow /\ ScanWindow \in Nat \ {0} /\ Threshold(key) \in Nat \ {0}
  BY Lengths DEF ScanAssumption, WindowOfKey
<1>2. Inside(key, -1, age) = {} /\ Earlier(key, -1, age) = {}
  BY <1>1 DEF Inside, Earlier
<1>3. \A p \in Probes : age[p] >= 1
  BY <1>1
<1> QED BY <1>2, <1>3 DEF PatternHolds, ToldOf

\* What the pattern means: twice the threshold less one within a window was told of.
LEMMA PatternFound ==
    ASSUME ScanAssumption, NEW key \in ScanKeys, key[1] # "flood",
           NEW ago \in Int, ago >= -1, ago < WindowOfKey(key), NEW items,
           NEW age \in [Probes -> 0..Longest], NEW told \in 0..Longest,
           PatternHolds(key, ago, items, age, told),
           Cardinality({p \in Probes : CountedFor(p, key) /\ age[p] < ScanWindow}) >= 2 * Threshold(key) - 1
    PROVE  told <= WindowOfKey(key) + Cooldown - 2
<1> DEFINE In == Inside(key, ago, age)
           Out == Earlier(key, ago, age)
           T == Threshold(key)
           All == {p \in Probes : CountedFor(p, key) /\ age[p] < ScanWindow}
<1>t. WindowOfKey(key) = ScanWindow
  BY DEF WindowOfKey
<1>0. /\ ScanWindow \in Nat \ {0} /\ T \in Nat \ {0} /\ Cooldown \in Nat \ {0} /\ Longest \in Nat
  BY <1>t, Lengths
<1>a. \A p \in Probes : age[p] \in Nat
  OBVIOUS
<1>1. All = In \cup Out /\ In \cap Out = {}
  BY <1>a, <1>t, <1>0 DEF Inside, Earlier
<1>2. In \in SUBSET Probes /\ Out \in SUBSET Probes
  BY DEF Inside, Earlier
<1>3. IsFiniteSet(In) /\ IsFiniteSet(Out) /\ Cardinality(In) \in Nat /\ Cardinality(Out) \in Nat
  BY <1>2, FS_Subset, FS_CardinalityType DEF ScanAssumption
<1>4. Cardinality(All) = Cardinality(In) + Cardinality(Out)
  <2> HIDE DEF In, Out, All
  <2>1. Cardinality(In \cup Out) = Cardinality(In) + Cardinality(Out) - Cardinality(In \cap Out)
    BY <1>3, FS_Union
  <2>2. Cardinality(In \cap Out) = 0
    BY <1>1, FS_EmptySet
  <2>3. Cardinality(In \cup Out) = Cardinality(In) + Cardinality(Out)
    BY <1>3, <2>1, <2>2
  <2> QED BY <1>1, <2>3
<1>5. \A p \in In \cup Out : age[p] <= ScanWindow - 1
  BY <1>1, <1>a, <1>0
<1>6. ASSUME NEW S, S \in {In, Out}, Cardinality(S) >= T PROVE told <= ScanWindow + Cooldown - 2
  <2>1. S # {}
    <3>1. Cardinality({}) = 0
      BY FS_EmptySet
    <3>2. Cardinality(S) # 0
      <4>1. Cardinality(S) \in Nat
        BY <1>3, <1>6
      <4> QED BY <1>6, <1>0, <4>1
    <3> QED BY <3>1, <3>2
  <2>2. PICK p \in S : TRUE
    BY <2>1
  <2>3. told <= Cooldown - 1 + age[p]
    BY <1>6 DEF PatternHolds, ToldOf
  <2>4. p \in Probes /\ age[p] <= ScanWindow - 1
    BY <1>2, <1>5, <1>6
  <2> QED BY <2>3, <2>4, <1>0, <1>a
<1>7. Cardinality(In) >= T \/ Cardinality(Out) >= T
  <2> HIDE DEF In, Out, T
  <2>1. Cardinality(All) >= 2 * T - 1
    BY DEF T
  <2> QED BY <1>3, <1>4, <1>0, <2>1
<1> QED BY <1>6, <1>7, <1>t

-----------------------------------------------------------------------------
(* Floods. *)

\* The attempts of a source, by their age.
Ages == 0..(FloodWindow - 1)
AttemptCounts == [Ages -> 0..SynFloodAttempts]
Aged(counts) == [a \in Ages |-> IF a = 0 THEN 0 ELSE counts[a - 1]]
Youngest(low) == IF low = 0 THEN 0 ELSE low - 1

LEMMA AgesAre ==
    ASSUME ScanAssumption
    PROVE  /\ FloodWindow \in Nat \ {0} /\ SynFloodAttempts \in Nat \ {0} /\ Cooldown \in Nat \ {0}
           /\ Longest \in Nat /\ 0 \in Ages /\ Ages \subseteq Nat
           /\ \A low \in Nat : \A high \in Int : IsFiniteSet(low..high) /\ (high < FloodWindow => low..high \subseteq Ages)
           /\ \A counts \in AttemptCounts : Aged(counts) \in AttemptCounts
           /\ \A counts \in AttemptCounts : \A S \in SUBSET Ages :
                  NatOn(counts, S) /\ IsFiniteSet(S) /\ Total(counts, S) \in Nat
<1>1. /\ FloodWindow \in Nat \ {0} /\ SynFloodAttempts \in Nat \ {0} /\ Cooldown \in Nat \ {0}
      /\ Longest \in Nat
  BY DEF ScanAssumption, Longest
<1>2. 0 \in Ages /\ Ages \subseteq Nat
  BY <1>1 DEF Ages
<1>3. \A low \in Nat : \A high \in Int : IsFiniteSet(low..high)
  BY FS_Interval
<1>4. \A low \in Nat : \A high \in Int : high < FloodWindow => low..high \subseteq Ages
  BY <1>1 DEF Ages
<1>5. \A counts \in AttemptCounts : Aged(counts) \in AttemptCounts
  BY <1>1 DEF Ages, Aged, AttemptCounts
<1>6. ASSUME NEW counts \in AttemptCounts, NEW S \in SUBSET Ages
      PROVE  NatOn(counts, S) /\ IsFiniteSet(S) /\ Total(counts, S) \in Nat
  <2>1. NatOn(counts, S)
    BY <1>1 DEF AttemptCounts, NatOn
  <2>2. IsFiniteSet(Ages)
    <3>1. 0 \in Int /\ FloodWindow - 1 \in Int
      BY <1>1
    <3> QED BY <3>1, FS_Interval DEF Ages
  <2>3. IsFiniteSet(S)
    BY <2>2, FS_Subset
  <2> QED BY <2>1, <2>3, TotalNat
<1> QED BY <1>1, <1>2, <1>3, <1>4, <1>5, <1>6

\* A tick later the attempts of some ages are those of the ages before.
LEMMA AgedTotal ==
    ASSUME ScanAssumption, NEW counts \in AttemptCounts, NEW low \in Nat, NEW high \in Int,
           high < FloodWindow
    PROVE  Total(Aged(counts), low..high) = Total(counts, Youngest(low)..(high - 1))
<1> DEFINE later == Aged(counts)
           h == [a \in Ages |-> a + 1]
<1>0. /\ FloodWindow \in Nat \ {0} /\ later \in AttemptCounts /\ 0 \in Ages /\ Ages \subseteq Nat
      /\ \A a \in Ages : h[a] = a + 1 /\ (a = 0 => later[a] = 0) /\ (a # 0 => later[a] = counts[a - 1])
  BY AgesAre DEF Aged
<1>a. \A m \in Nat : \A n \in Int : IsFiniteSet(m..n) /\ (n < FloodWindow => m..n \subseteq Ages)
  BY AgesAre
<1>b. \A S \in SUBSET Ages : NatOn(counts, S) /\ NatOn(later, S) /\ IsFiniteSet(S) /\ Total(counts, S) \in Nat
  BY <1>0, AgesAre
<1> HIDE DEF later, h
<1>1. ASSUME NEW m \in Nat, m >= 1
      PROVE  Total(later, m..high) = Total(counts, (m - 1)..(high - 1))
  <2> DEFINE S == (m - 1)..(high - 1)
  <2>1. S \subseteq Ages /\ m..high \subseteq Ages
    <3>1. m - 1 \in Nat /\ high - 1 \in Int /\ high - 1 < FloodWindow
      BY <1>0, <1>1
    <3>2. S \subseteq Ages
      BY <1>a, <3>1
    <3>3. m..high \subseteq Ages
      BY <1>a
    <3> QED BY <3>2, <3>3
  <2>2. \A a \in S : h[a] = a + 1 /\ a + 1 \in m..high /\ a + 1 \in Ages /\ a + 1 # 0
    BY <1>0, <1>1, <2>1
  <2>3. \A a \in S : later[h[a]] = counts[a]
    BY <1>0, <2>1, <2>2
  <2>4. {h[a] : a \in S} = m..high
    <3>1. \A b \in m..high : b - 1 \in S /\ h[b - 1] = b
      <4> SUFFICES ASSUME NEW b \in m..high PROVE b - 1 \in S /\ h[b - 1] = b
        OBVIOUS
      <4>1. b - 1 \in S
        BY <1>1
      <4>2. h[b - 1] = (b - 1) + 1
        BY <2>2, <4>1
      <4> QED BY <4>1, <4>2, <1>1
    <3>2. \A a \in S : h[a] \in m..high
      BY <2>2
    <3> HIDE DEF S
    <3> QED BY <3>1, <3>2
  <2>5. \A x \in S : \A y \in S : h[x] = h[y] => x = y
    <3>1. \A x \in S : x \in Int
      OBVIOUS
    <3> QED BY <2>2, <3>1
  <2> HIDE DEF S
  <2>6. Total(later, {h[a] : a \in S}) = Total(counts, S)
    BY <2>1, <2>3, <2>5, <1>b, TotalRenamed
  <2> QED BY <2>4, <2>6 DEF S
<1>2. CASE low # 0
  <2>1. low >= 1 /\ Youngest(low) = low - 1
    BY <1>2 DEF Youngest
  <2>2. Total(later, low..high) = Total(counts, (low - 1)..(high - 1))
    BY <1>1, <2>1
  <2> QED BY <2>1, <2>2 DEF later
<1>3. CASE low = 0
  <2>1. CASE high < 0
    <3>1. low..high = {} /\ 0..(high - 1) = {}
      BY <1>3, <2>1
    <3> QED BY <1>3, <3>1, TotalNone DEF Youngest
  <2>2. CASE high >= 0
    <3>1. 0..high = (1..high) \cup {0} /\ 0 \notin 1..high
      BY <2>2
    <3>2. 0..high \subseteq Ages /\ 1..high \subseteq Ages
      BY <1>a
    <3>3. Total(later, 0..high) = later[0] + Total(later, 1..high)
      BY <1>b, <3>1, <3>2, TotalMore
    <3>4. Total(later, 1..high) = Total(counts, 0..(high - 1))
      <4>1. Total(later, 1..high) = Total(counts, (1 - 1)..(high - 1))
        BY <1>1
      <4> QED BY <4>1
    <3>5. later[0] = 0 /\ Total(later, 1..high) \in Nat
      <4>1. Total(later, 1..high) \in Nat
        BY <1>0, <3>2, AgesAre
      <4> QED BY <1>0, <4>1
    <3>6. Total(later, 0..high) = Total(counts, 0..(high - 1))
      BY <3>3, <3>4, <3>5
    <3>7. Youngest(low) = 0
      BY <1>3 DEF Youngest
    <3> QED BY <1>3, <3>6, <3>7 DEF later
  <2> QED BY <2>1, <2>2
<1> QED BY <1>2, <1>3 DEF later

LEMMA AgedWhole ==
    ASSUME ScanAssumption, NEW counts \in AttemptCounts, NEW high \in Nat, high < FloodWindow
    PROVE  Tally(Aged(counts), 0..high) = Tally(counts, 0..(high - 1))
<1>1. ASSUME NEW low \in Nat, low = 0
      PROVE  Total(Aged(counts), low..high) = Total(counts, low..(high - 1))
  <2>1. Total(Aged(counts), low..high) = Total(counts, Youngest(low)..(high - 1))
    BY AgedTotal
  <2>2. Youngest(low) = low
    BY <1>1 DEF Youngest
  <2> QED BY <2>1, <2>2
<1> QED BY <1>1, TallyIs

LEMMA ToldAges ==
    ASSUME ScanAssumption, NEW counts \in AttemptCounts, NEW low \in Nat, NEW high \in Int,
           high < FloodWindow, NEW R \in SUBSET Ages, Youngest(low)..(high - 1) \subseteq R,
           NEW told \in 0..Longest, NEW since \in 0..Longest, since <= told + 1,
           ToldOfFlood(R, counts, told)
    PROVE  ToldOfFlood(low..high, Aged(counts), since)
<1> DEFINE S == Youngest(low)..(high - 1)
<1>0. /\ FloodWindow \in Nat \ {0} /\ SynFloodAttempts \in Nat \ {0} /\ Cooldown \in Nat \ {0}
      /\ Longest \in Nat /\ Ages \subseteq Nat /\ low..high \subseteq Ages
      /\ NatOn(counts, R) /\ IsFiniteSet(R) /\ Total(counts, R) \in Nat /\ Total(counts, S) \in Nat
  <2>1. S \in SUBSET Ages
    OBVIOUS
  <2> HIDE DEF S
  <2> QED BY <2>1, AgesAre
<1>1. Total(counts, S) <= Total(counts, R)
  <2>1. S \in SUBSET R
    OBVIOUS
  <2> HIDE DEF S
  <2> QED BY <2>1, <1>0, TotalFewer
<1>2. Tally(Aged(counts), low..high) = Total(counts, S)
  BY TallyIs, AgedTotal
<1> SUFFICES ASSUME Tally(Aged(counts), low..high) >= SynFloodAttempts,
                    NEW a \in low..high, Aged(counts)[a] > 0
             PROVE  since <= Cooldown - 1 + a
  BY DEF ToldOfFlood
<1>3. Tally(counts, R) >= SynFloodAttempts
  <2>1. Tally(counts, R) = Total(counts, R)
    BY TallyIs
  <2> HIDE DEF S
  <2> QED BY <1>0, <1>1, <1>2, <2>1
<1>4. a \in Ages /\ a \in Nat /\ a # 0 /\ counts[a - 1] > 0
  <2>1. a \in Ages /\ a \in Nat
    BY <1>0
  <2>2. Aged(counts)[a] = IF a = 0 THEN 0 ELSE counts[a - 1]
    BY <2>1 DEF Aged
  <2> QED BY <2>1, <2>2
<1>5. a - 1 \in R
  <2>1. a <= high /\ a >= low /\ a >= 1
    BY <1>4
  <2>2. Youngest(low) <= a - 1 /\ Youngest(low) \in Nat
    BY <2>1, <1>4 DEF Youngest
  <2>3. a - 1 \in S
    BY <1>4, <2>1, <2>2
  <2> QED BY <2>3
<1>6. told <= Cooldown - 1 + (a - 1)
  BY <1>3, <1>4, <1>5 DEF ToldOfFlood
<1>7. told \in Nat /\ since \in Nat /\ Cooldown \in Nat
  BY <1>0
<1> QED BY <1>4, <1>6, <1>7

LEMMA FloodTicks ==
    ASSUME ScanAssumption, NEW counts \in AttemptCounts,
           NEW ago \in Int, ago >= -1, ago < FloodWindow, NEW total \in Nat, NEW told \in 0..Longest,
           FloodHolds(ago, total, counts, told),
           NEW next \in Int, next = (IF ago = -1 \/ ago = FloodWindow - 1 THEN -1 ELSE ago + 1),
           NEW since \in 0..Longest, since <= told + 1
    PROVE  FloodHolds(next, total, Aged(counts), since)
<1>0. /\ FloodWindow \in Nat \ {0} /\ 0 \in Ages
      /\ \A low \in Nat : \A high \in Int : high < FloodWindow => low..high \subseteq Ages
  BY AgesAre
<1>1. next >= 0 => next = ago + 1 /\ ago >= 0 /\ next < FloodWindow
  BY <1>0
<1>2. next >= 0 => Tally(Aged(counts), 0..next) = Tally(counts, 0..ago)
  <2> SUFFICES ASSUME next >= 0 PROVE Tally(Aged(counts), 0..next) = Tally(counts, 0..ago)
    OBVIOUS
  <2>1. next \in Nat /\ next < FloodWindow /\ next - 1 = ago
    BY <1>1
  <2>2. Tally(Aged(counts), 0..next) = Tally(counts, 0..(next - 1))
    BY <2>1, AgedWhole
  <2> QED BY <2>1, <2>2
<1>3. Aged(counts)[0] = 0
  BY <1>0 DEF Aged
<1>4. ToldOfFlood(0..next, Aged(counts), since)
  <2>1. CASE next = -1
    <3>1. 0..next = {}
      BY <2>1
    <3> QED BY <3>1 DEF ToldOfFlood
  <2>2. CASE next # -1
    <3>1. ago >= 0 /\ next = ago + 1 /\ next < FloodWindow
      BY <2>2, <1>0
    <3>2. 0..ago \in SUBSET Ages /\ Youngest(0)..(next - 1) \subseteq 0..ago
      BY <3>1, <1>0 DEF Youngest
    <3>3. ToldOfFlood(0..ago, counts, told)
      BY DEF FloodHolds
    <3> QED BY <3>1, <3>2, <3>3, ToldAges
  <2> QED BY <2>1, <2>2
<1>5. ToldOfFlood((next + 1)..(FloodWindow - 1), Aged(counts), since)
  <2> DEFINE low == next + 1
             high == FloodWindow - 1
  <2>0. low \in Nat /\ high \in Int /\ high < FloodWindow
    BY <1>0
  <2>1. CASE ago = FloodWindow - 1
    <3>1. 0..ago \in SUBSET Ages /\ Youngest(low)..(high - 1) \subseteq 0..ago
      BY <2>1, <1>0 DEF Youngest
    <3>2. ToldOfFlood(0..ago, counts, told)
      BY DEF FloodHolds
    <3> HIDE DEF low, high
    <3>3. ToldOfFlood(low..high, Aged(counts), since)
      BY <2>0, <3>1, <3>2, ToldAges
    <3> QED BY <3>3 DEF low, high
  <2>2. CASE ago # FloodWindow - 1
    <3> DEFINE R == (ago + 1)..(FloodWindow - 1)
    <3>0. low = (IF ago = -1 THEN 0 ELSE ago + 2)
      BY <2>2
    <3>1. R \in SUBSET Ages
      BY <1>0
    <3>4. Youngest(low)..(high - 1) \subseteq R
      BY <2>2, <3>0, <1>0 DEF Youngest
    <3>2. ToldOfFlood(R, counts, told)
      BY DEF FloodHolds
    <3> HIDE DEF low, high, R
    <3>3. ToldOfFlood(low..high, Aged(counts), since)
      BY <2>0, <3>1, <3>2, <3>4, ToldAges
    <3> QED BY <3>3 DEF low, high
  <2> QED BY <2>1, <2>2
<1>6. next >= 0 => /\ total >= Tally(Aged(counts), 0..next)
                   /\ Tally(Aged(counts), 0..next) = total \/ Tally(Aged(counts), 0..next) >= SynFloodAttempts
  BY <1>1, <1>2 DEF FloodHolds
<1> QED BY <1>3, <1>4, <1>5, <1>6 DEF FloodHolds

LEMMA NoEarlier == ASSUME NEW x \in Nat, NEW y \in Nat, NEW z \in Nat, x <= y - 1 PROVE x <= y - 1 + z
OBVIOUS

\* One attempt more comes into the current window, or into a new one.
LEMMA FloodCounts ==
    ASSUME ScanAssumption, NEW counts \in AttemptCounts,
           NEW ago \in Int, ago >= -1, ago < FloodWindow, NEW total \in Nat, NEW told \in 0..Longest,
           FloodHolds(ago, total, counts, told),
           NEW next, next = Started(ago), NEW more, more = WithOne(ago, total),
           NEW later, later = OneLater(counts),
           NEW since \in 0..Longest, since <= told,
           more >= SynFloodAttempts => since <= Cooldown - 1
    PROVE  FloodHolds(next, more, later, since) /\ later \in AttemptCounts
<1> USE DEF Started, WithOne, OneLater
<1> DEFINE A == SynFloodAttempts
           F == FloodWindow
           rest == Total(counts, 1..next)
<1>0. /\ F \in Nat \ {0} /\ A \in Nat \ {0} /\ Cooldown \in Nat \ {0}
      /\ Longest \in Nat /\ 0 \in Ages /\ Ages \subseteq Nat
      /\ next \in Nat /\ next < F
  BY AgesAre
<1>1. \A low \in Nat : \A high \in Int : IsFiniteSet(low..high) /\ (high < F => low..high \subseteq Ages)
  BY AgesAre
<1>2. later \in AttemptCounts /\ counts[0] \in Nat /\ counts[0] <= A
      /\ later[0] = (IF counts[0] + 1 > A THEN A ELSE counts[0] + 1)
      /\ \A a \in Ages : a # 0 => later[a] = counts[a]
  BY <1>0 DEF AtMost, AttemptCounts
<1>3. \A S \in SUBSET Ages : /\ NatOn(counts, S) /\ NatOn(later, S) /\ IsFiniteSet(S)
                             /\ Total(counts, S) \in Nat /\ Total(later, S) \in Nat
  BY <1>2, AgesAre
<1>4. 0..next = (1..next) \cup {0} /\ 0 \notin 1..next /\ 0..next \subseteq Ages /\ 1..next \subseteq Ages
  <2>1. 0 \in Nat /\ 1 \in Nat /\ next \in Int
    BY <1>0
  <2>2. 0..next \subseteq Ages
    BY <1>0, <1>1, <2>1
  <2>3. 1..next \subseteq Ages
    BY <1>0, <1>1, <2>1
  <2>4. 0..next = (1..next) \cup {0} /\ 0 \notin 1..next
    BY <1>0
  <2> QED BY <2>2, <2>3, <2>4
<1>5. Total(counts, 0..next) = counts[0] + rest
  BY <1>3, <1>4, TotalMore
<1>6. Total(later, 0..next) = later[0] + rest
  <2>1. Total(later, 0..next) = later[0] + Total(later, 1..next)
    <3>1. NatOn(later, 0..next) /\ IsFiniteSet(1..next)
      BY <1>3, <1>4
    <3>2. 0..next = (1..next) \cup {0} /\ 0 \notin 1..next
      BY <1>4
    <3> DEFINE all == 0..next
               some == 1..next
               zero == 0
    <3> HIDE DEF all, some, zero
    <3>3. Total(later, all) = later[zero] + Total(later, some)
      <4>1. NatOn(later, all) /\ IsFiniteSet(some)
        BY <3>1 DEF all, some
      <4>2. all = some \cup {zero} /\ zero \notin some
        BY <3>2 DEF all, some, zero
      <4> QED BY <4>1, <4>2, TotalMore
    <3> QED BY <3>3 DEF all, some, zero
  <2>2. Total(later, 1..next) = Total(counts, 1..next)
    <3> DEFINE S == 1..next
    <3>1. \A a \in S : later[a] = counts[a]
      BY <1>2, <1>4
    <3>2. S \in SUBSET Ages
      BY <1>4
    <3> HIDE DEF S
    <3>3. Total(later, S) = Total(counts, S)
      BY <1>3, <3>1, <3>2, TotalSame
    <3> QED BY <3>3 DEF S
  <2> QED BY <2>1, <2>2
<1>7. rest \in Nat
  BY <1>3, <1>4
<1> DEFINE own == Total(later, 0..next)
<1>8. own <= more /\ (own = more \/ own >= A)
  <2> HIDE DEF rest
  <2>1. CASE ago = -1
    <3>1. 1..next = {}
      BY <2>1
    <3>2. rest = 0
      BY <3>1, TotalNone DEF rest
    <3>3. counts[0] = 0
      BY <2>1 DEF FloodHolds
    <3> QED BY <1>0, <1>2, <1>6, <2>1, <3>2, <3>3
  <2>2. CASE ago # -1
    <3>1. next = ago /\ ago >= 0
      BY <2>2
    <3>2. /\ total >= Tally(counts, 0..next)
          /\ Tally(counts, 0..next) = total \/ Tally(counts, 0..next) >= A
      BY <3>1 DEF FloodHolds
    <3>3. /\ total >= counts[0] + rest
          /\ counts[0] + rest = total \/ counts[0] + rest >= A
      BY <3>2, <1>5, TallyIs
    <3>4. more = total + 1
      BY <2>2
    <3> HIDE DEF own
    <3>5. own = later[0] + rest
      BY <1>6 DEF own
    <3>6. CASE counts[0] + 1 > A
      BY <1>0, <1>2, <1>7, <3>3, <3>4, <3>5, <3>6
    <3>7. CASE ~(counts[0] + 1 > A)
      BY <1>0, <1>2, <1>7, <3>3, <3>4, <3>5, <3>7
    <3> QED BY <3>6, <3>7
  <2> QED BY <2>1, <2>2
<1>9. Tally(later, 0..next) = own
  BY TallyIs
<1>10. ToldOfFlood(0..next, later, since)
  <2> SUFFICES ASSUME Tally(later, 0..next) >= A, NEW a \in 0..next PROVE since <= Cooldown - 1 + a
    BY DEF ToldOfFlood
  <2>1. own \in Nat
    <3>1. 0..next \in SUBSET Ages
      BY <1>4
    <3> QED BY <1>3, <3>1
  <2>3. more \in Nat /\ since \in Nat /\ a \in Nat
    BY <1>0
  <2> HIDE DEF own
  <2>4. own >= A
    BY <1>9
  <2>5. more >= A
    <3>1. \A x \in Nat, y \in Nat, z \in Nat : x <= y /\ x >= z => y >= z
      OBVIOUS
    <3>2. own <= more
      BY <1>8
    <3> QED BY <1>0, <2>1, <2>3, <2>4, <3>1, <3>2
  <2>2. since <= Cooldown - 1
    BY <2>5
  <2>7. Cooldown \in Nat
    BY <1>0
  <2> QED BY <2>2, <2>3, <2>7, NoEarlier
<1>11. ToldOfFlood((next + 1)..(F - 1), later, since)
  <2> DEFINE R == (ago + 1)..(F - 1)
             S == (next + 1)..(F - 1)
  <2>1. S \subseteq R /\ R \subseteq Ages /\ 0 \notin S
    <3>1. 0 \notin S
      BY <1>0
    <3>2. S \subseteq R
      BY <1>0
    <3>3. ago + 1 \in Nat /\ F - 1 \in Int /\ F - 1 < F
      BY <1>0
    <3> QED BY <1>1, <3>1, <3>2, <3>3
  <2>2. ToldOfFlood(R, counts, told)
    BY DEF FloodHolds
  <2>3. \A a \in S : a \in Nat
    BY <1>0
  <2> HIDE DEF R, S
  <2>4. \A a \in S : later[a] = counts[a] /\ a \in R
    BY <1>2, <2>1
  <2>5. Total(later, S) = Total(counts, S)
    BY <1>3, <2>1, <2>4, TotalSame
  <2>6. Total(counts, S) <= Total(counts, R)
    BY <1>3, <2>1, TotalFewer
  <2>7. Total(counts, S) \in Nat /\ Total(counts, R) \in Nat
    BY <1>3, <2>1
  <2>8. ToldOfFlood(S, later, since)
    <3> SUFFICES ASSUME Tally(later, S) >= A, NEW a \in S, later[a] > 0 PROVE since <= Cooldown - 1 + a
      BY DEF ToldOfFlood
    <3>1. Tally(later, S) = Total(later, S) /\ Tally(counts, R) = Total(counts, R)
      BY TallyIs
    <3>2. Tally(counts, R) >= A
      BY <1>0, <2>5, <2>6, <2>7, <3>1
    <3>3. told <= Cooldown - 1 + a
      BY <2>2, <2>4, <3>2 DEF ToldOfFlood
    <3> QED BY <1>0, <2>3, <3>3
  <2> QED BY <2>8 DEF S
<1>12. next # -1
  BY <1>0
<1> HIDE DEF own
<1>13. /\ more >= Tally(later, 0..next)
       /\ Tally(later, 0..next) = more \/ Tally(later, 0..next) >= A
  BY <1>8, <1>9
<1> QED BY <1>2, <1>10, <1>11, <1>12, <1>13 DEF FloodHolds

\* A source without attempts.
LEMMA FloodStarts ==
    ASSUME ScanAssumption, NEW counts, counts = [a \in Ages |-> 0], NEW total, NEW told
    PROVE  FloodHolds(-1, total, counts, told) /\ counts \in AttemptCounts
<1>1. 0 \in Ages /\ SynFloodAttempts \in Nat \ {0} /\ FloodWindow \in Nat \ {0}
  BY AgesAre
<1>2. counts[0] = 0 /\ counts \in AttemptCounts
  BY <1>1 DEF AttemptCounts
<1>3. 0..-1 = {} /\ (-1 + 1)..(FloodWindow - 1) = Ages
  BY <1>1 DEF Ages
<1>4. \A a \in Ages : counts[a] = 0
  OBVIOUS
<1>5. ToldOfFlood({}, counts, told) /\ ToldOfFlood(Ages, counts, told)
  BY <1>4 DEF ToldOfFlood
<1> QED BY <1>2, <1>3, <1>5 DEF FloodHolds

\* What a flood means: twice the threshold less one within a window was told of.
LEMMA FloodFound ==
    ASSUME ScanAssumption, NEW counts \in AttemptCounts,
           NEW ago \in Int, ago >= -1, ago < FloodWindow, NEW total, NEW told \in 0..Longest,
           FloodHolds(ago, total, counts, told)
    PROVE  /\ Tally(counts, Ages) >= 2 * SynFloodAttempts - 1 => told <= FloodWindow + Cooldown - 2
           /\ ago >= 0 /\ total \in Nat /\ total >= SynFloodAttempts => Tally(counts, Ages) >= SynFloodAttempts
<1> DEFINE A == SynFloodAttempts
           In == 0..ago
           Out == (ago + 1)..(FloodWindow - 1)
<1>0. /\ FloodWindow \in Nat \ {0} /\ A \in Nat \ {0} /\ Cooldown \in Nat \ {0}
      /\ Longest \in Nat /\ 0 \in Ages /\ Ages \subseteq Nat
  BY AgesAre
<1>1. \A S \in SUBSET Ages : NatOn(counts, S) /\ IsFiniteSet(S) /\ Total(counts, S) \in Nat
  BY AgesAre
<1>2. In \subseteq Ages /\ Out \subseteq Ages /\ In \cup Out = Ages /\ In \cap Out = {}
  BY <1>0 DEF Ages
<1>3. ToldOfFlood(In, counts, told) /\ ToldOfFlood(Out, counts, told)
  BY DEF FloodHolds
<1>4. \A a \in Ages : a \in Nat /\ a <= FloodWindow - 1
  BY <1>0 DEF Ages
<1>5. ago >= 0 /\ total \in Nat /\ total >= A => Tally(counts, In) >= A
  BY <1>0 DEF FloodHolds
<1> HIDE DEF In, Out
<1>6. Total(counts, Ages) = Total(counts, In) + Total(counts, Out)
  BY <1>1, <1>2, TotalUnion
<1>7. /\ Tally(counts, In) = Total(counts, In) /\ Tally(counts, Out) = Total(counts, Out)
      /\ Tally(counts, Ages) = Total(counts, Ages)
  BY TallyIs
<1>8. Total(counts, In) \in Nat /\ Total(counts, Out) \in Nat
  BY <1>1, <1>2
<1>9. ASSUME NEW S \in SUBSET Ages, ToldOfFlood(S, counts, told), Total(counts, S) >= A
      PROVE  told <= FloodWindow + Cooldown - 2
  <2>1. \E a \in S : counts[a] # 0
    <3> SUFFICES ASSUME \A a \in S : counts[a] = 0 PROVE FALSE
      OBVIOUS
    <3>1. Total(counts, S) = 0
      BY <1>1, TotalOfZeros
    <3> QED BY <1>0, <1>9, <3>1
  <2>2. PICK a \in S : counts[a] # 0
    BY <2>1
  <2>3. counts[a] > 0
    BY <1>1, <2>2 DEF NatOn
  <2>4. Tally(counts, S) >= A
    BY <1>9, TallyIs
  <2>5. told <= Cooldown - 1 + a
    BY <1>9, <2>3, <2>4 DEF ToldOfFlood
  <2> QED BY <1>0, <1>4, <2>5
<1>10. Tally(counts, Ages) >= 2 * A - 1 => told <= FloodWindow + Cooldown - 2
  <2> SUFFICES ASSUME Tally(counts, Ages) >= 2 * A - 1 PROVE told <= FloodWindow + Cooldown - 2
    OBVIOUS
  <2>1. Total(counts, In) >= A \/ Total(counts, Out) >= A
    BY <1>0, <1>6, <1>7, <1>8
  <2> QED BY <1>2, <1>3, <1>9, <2>1
<1>11. ago >= 0 /\ total \in Nat /\ total >= A => Tally(counts, Ages) >= A
  BY <1>0, <1>5, <1>6, <1>7, <1>8
<1> QED BY <1>10, <1>11

-----------------------------------------------------------------------------
(* What one attempt does. *)

\* The key has the item counted once more, in its window or in a new one.
CountedOnce(before, after, key, item) ==
    LET ago == StartedAgo(before, key) IN
    /\ IsCurrent(after, key)
    /\ StartedAgo(after, key) = (IF ago = -1 THEN 0 ELSE ago)
    /\ DOMAIN after[key].items = (IF ago = -1 THEN {} ELSE DOMAIN before[key].items) \cup {item}
    /\ Tally(after[key].items, DOMAIN after[key].items)
         = (IF ago = -1 THEN 0 ELSE Tally(before[key].items, DOMAIN before[key].items)) + 1
Untouched(before, after, key) ==
    /\ key \in DOMAIN after <=> key \in DOMAIN before
    /\ key \in DOMAIN before => after[key] = before[key]

LEMMA AgoIs ==
    ASSUME ScanAssumption, NEW entries, WindowsCount(entries), NEW key \in ScanKeys
    PROVE  /\ StartedAgo(entries, key) \in Int /\ StartedAgo(entries, key) >= -1
           /\ StartedAgo(entries, key) < WindowOfKey(key)
           /\ StartedAgo(entries, key) = -1 <=> ~IsCurrent(entries, key)
           /\ IsCurrent(entries, key) =>
                /\ Tally(entries[key].items, DOMAIN entries[key].items) \in Nat
                /\ IsFiniteSet(DOMAIN entries[key].items)
<1>1. WindowOfKey(key) \in Nat \ {0}
  BY Lengths
<1>2. CASE IsCurrent(entries, key)
  <2>1. /\ key \in DOMAIN entries /\ entries[key].left > 0 /\ entries[key].left \in 0..WindowOfKey(key)
        /\ IsFiniteSet(DOMAIN entries[key].items)
        /\ entries[key].items \in [DOMAIN entries[key].items -> Nat]
    BY <1>2 DEF IsCurrent, WindowsCount
  <2>2. StartedAgo(entries, key) = WindowOfKey(key) - entries[key].left
    BY <1>2 DEF StartedAgo
  <2>3. NatOn(entries[key].items, DOMAIN entries[key].items)
    BY <2>1 DEF NatOn
  <2>4. Total(entries[key].items, DOMAIN entries[key].items) \in Nat
    BY <2>1, <2>3, TotalNat
  <2> QED BY <1>1, <1>2, <2>1, <2>2, <2>4, TallyIs
<1>3. CASE ~IsCurrent(entries, key)
  BY <1>1, <1>3 DEF StartedAgo
<1> QED BY <1>2, <1>3

\* One more of an item is one more in all.
AddsOne(old, D, item, new, R) ==
    /\ R = D \cup {item}
    /\ \A i \in R : new[i] = (IF i \in D THEN old[i] ELSE 0) + (IF i = item THEN 1 ELSE 0)
LEMMA OneMore ==
    ASSUME NEW D, IsFiniteSet(D), NEW old, NatOn(old, D), NEW item, NEW R, NEW new,
           AddsOne(old, D, item, new, R)
    PROVE  /\ IsFiniteSet(R) /\ NatOn(new, R) /\ Total(new, R) = Total(old, D) + 1
<1>0. /\ R = D \cup {item}
      /\ \A i \in R : new[i] = (IF i \in D THEN old[i] ELSE 0) + (IF i = item THEN 1 ELSE 0)
  BY DEF AddsOne
<1>1. IsFiniteSet(R)
  BY <1>0, FS_AddElement
<1>2. NatOn(new, R)
  BY <1>0 DEF NatOn
<1> DEFINE V == R \ {item}
<1>3. IsFiniteSet(V) /\ V \subseteq D /\ V = D \ {item} /\ \A i \in V : new[i] = old[i]
  <2>1. IsFiniteSet(V)
    BY <1>1, FS_RemoveElement
  <2>2. \A i \in V : i \in D /\ i # item /\ i \in R
    BY <1>0
  <2>3. \A i \in V : new[i] = old[i]
    <3> SUFFICES ASSUME NEW i \in V PROVE new[i] = old[i]
      OBVIOUS
    <3>1. new[i] = old[i] + 0 /\ old[i] \in Nat
      BY <1>0, <2>2 DEF NatOn
    <3> QED BY <3>1
  <2> QED BY <1>0, <2>1, <2>2, <2>3
<1>4. Total(new, R) = new[item] + Total(new, V)
  <2>1. item \in R
    BY <1>0
  <2> QED BY <1>1, <1>2, <2>1, TotalApart
<1> HIDE DEF V
<1>5. Total(new, V) = Total(old, V) /\ Total(old, V) \in Nat
  <2>1. NatOn(old, V)
    BY <1>3 DEF NatOn
  <2> QED BY <1>3, <2>1, TotalSame, TotalNat
<1>6. CASE item \in D
  <2>1. Total(old, D) = old[item] + Total(old, D \ {item})
    BY <1>6, TotalApart
  <2>2. new[item] = old[item] + 1 /\ old[item] \in Nat
    BY <1>0, <1>6 DEF NatOn
  <2> QED BY <1>1, <1>2, <1>3, <1>4, <1>5, <2>1, <2>2
<1>7. CASE item \notin D
  <2>1. V = D
    BY <1>3, <1>7
  <2>2. new[item] = 1
    BY <1>0, <1>7
  <2> QED BY <1>1, <1>2, <1>4, <1>5, <2>1, <2>2
<1> QED BY <1>6, <1>7

LEMMA AddCounts ==
    ASSUME ScanAssumption, NEW entries, WindowsCount(entries), NEW key \in ScanKeys, NEW item,
           NEW after, after = Add(entries, key, item)
    PROVE  /\ WindowsCount(after) /\ CountedOnce(entries, after, key, item)
           /\ \A k \in ScanKeys : k # key => Untouched(entries, after, k)
<1> DEFINE current == IsCurrent(entries, key)
           old == IF current THEN entries[key].items ELSE <<>>
           D == DOMAIN old
           R == D \cup {item}
           new == [i \in R |-> (IF i \in D THEN old[i] ELSE 0) + (IF i = item THEN 1 ELSE 0)]
           left == IF current THEN entries[key].left ELSE WindowOfKey(key)
<1>0. WindowOfKey(key) \in Nat \ {0}
  BY Lengths
<1>1. after = [k \in DOMAIN entries \cup {key} |->
                  IF k # key THEN entries[k] ELSE [items |-> new, left |-> left]]
  BY DEF Add, IsCurrent
<1>2. IsFiniteSet(D) /\ NatOn(old, D) /\ left \in 1..WindowOfKey(key)
  <2>1. CASE current
    <3>1. key \in DOMAIN entries /\ entries[key].left > 0
      BY <2>1 DEF IsCurrent
    <3>2. /\ entries[key].left \in 0..WindowOfKey(key) /\ IsFiniteSet(DOMAIN entries[key].items)
          /\ entries[key].items \in [DOMAIN entries[key].items -> Nat]
      BY <3>1 DEF WindowsCount
    <3>3. old = entries[key].items /\ left = entries[key].left
      BY <2>1
    <3> HIDE DEF old, left, current
    <3> QED BY <1>0, <3>1, <3>2, <3>3 DEF NatOn
  <2>2. CASE ~current
    <3>1. D = {} /\ left = WindowOfKey(key)
      BY <2>2
    <3>2. IsFiniteSet({})
      BY FS_EmptySet
    <3> HIDE DEF D, left
    <3> QED BY <1>0, <3>1, <3>2 DEF NatOn
  <2> QED BY <2>1, <2>2
<1>3. IsFiniteSet(R) /\ NatOn(new, R) /\ Total(new, R) = Total(old, D) + 1
  <2>1. \A i \in R : new[i] = (IF i \in D THEN old[i] ELSE 0) + (IF i = item THEN 1 ELSE 0)
    OBVIOUS
  <2>2. R = D \cup {item}
    OBVIOUS
  <2>3. IsFiniteSet(D) /\ NatOn(old, D)
    BY <1>2
  <2> HIDE DEF new, R, D, old
  <2>4. AddsOne(old, D, item, new, R)
    BY <2>1, <2>2 DEF AddsOne
  <2> QED BY <2>3, <2>4, OneMore
<1>4. DOMAIN new = R /\ new \in [R -> Nat]
  <2>1. DOMAIN new = R
    OBVIOUS
  <2>2. new = [i \in R |-> new[i]]
    OBVIOUS
  <2> HIDE DEF new, R
  <2> QED BY <1>3, <2>1, <2>2 DEF NatOn
<1>5. current => old = entries[key].items
  OBVIOUS
<1>6. ~current => D = {}
  OBVIOUS
<1>7. current => left = entries[key].left
  OBVIOUS
<1>8. ~current => left = WindowOfKey(key)
  OBVIOUS
<1>9. D = DOMAIN old /\ R = D \cup {item}
  OBVIOUS
<1> HIDE DEF new, R, D, old, left
<1>10. /\ DOMAIN after = DOMAIN entries \cup {key}
       /\ after[key] = [items |-> new, left |-> left] /\ after[key].items = new /\ after[key].left = left
       /\ \A k \in DOMAIN entries : k # key => after[k] = entries[k]
  BY <1>1
<1>11. WindowsCount(after)
  <2>1. DOMAIN after \subseteq ScanKeys
    BY <1>10 DEF WindowsCount
  <2>2. ASSUME NEW k \in DOMAIN after
        PROVE  /\ after[k] = [items |-> after[k].items, left |-> after[k].left]
               /\ after[k].left \in 0..WindowOfKey(k)
               /\ IsFiniteSet(DOMAIN after[k].items)
               /\ after[k].items \in [DOMAIN after[k].items -> Nat]
    <3>1. CASE k = key
      <4>1. DOMAIN after[k].items = R
        BY <1>4, <1>10, <3>1
      <4>2. left \in 0..WindowOfKey(key)
        BY <1>0, <1>2
      <4> QED BY <1>3, <1>4, <1>10, <3>1, <4>1, <4>2
    <3>2. CASE k # key
      <4>1. k \in DOMAIN entries /\ after[k] = entries[k]
        BY <1>10, <3>2
      <4> QED BY <4>1 DEF WindowsCount
    <3> QED BY <3>1, <3>2
  <2>3. after = [k \in DOMAIN after |-> after[k]]
    BY <1>1
  <2>4. after = [k \in DOMAIN after |-> [items |-> after[k].items, left |-> after[k].left]]
    BY <2>2, <2>3
  <2> QED BY <2>1, <2>2, <2>4 DEF WindowsCount
<1>12. CountedOnce(entries, after, key, item)
  <2>1. IsCurrent(after, key)
    BY <1>2, <1>10, <1>0 DEF IsCurrent
  <2>2. StartedAgo(after, key) = WindowOfKey(key) - left
    BY <1>10, <2>1 DEF StartedAgo
  <2>3. /\ StartedAgo(entries, key) = -1 <=> ~current
        /\ current => StartedAgo(entries, key) = WindowOfKey(key) - entries[key].left
    BY AgoIs DEF StartedAgo
  <2>4. DOMAIN after[key].items = R
    BY <1>4, <1>10
  <2>5. Tally(after[key].items, DOMAIN after[key].items) = Total(old, D) + 1
    BY <1>3, <1>10, <2>4, TallyIs
  <2> HIDE DEF current
  <2>6. CASE current
    <3>1. StartedAgo(entries, key) # -1 /\ StartedAgo(after, key) = StartedAgo(entries, key)
      BY <1>7, <2>2, <2>3, <2>6
    <3>2. D = DOMAIN entries[key].items /\ old = entries[key].items
      BY <1>5, <1>9, <2>6
    <3>3. Total(old, D) = Tally(entries[key].items, DOMAIN entries[key].items)
      BY <3>2, TallyIs
    <3> QED BY <1>9, <2>1, <2>4, <2>5, <3>1, <3>2, <3>3 DEF CountedOnce
  <2>7. CASE ~current
    <3>1. StartedAgo(entries, key) = -1 /\ StartedAgo(after, key) = 0
      BY <1>0, <1>8, <2>2, <2>3, <2>7
    <3>2. D = {}
      BY <1>6, <2>7
    <3>3. Total(old, D) = 0
      BY <3>2, TotalNone
    <3> QED BY <1>9, <2>1, <2>4, <2>5, <3>1, <3>2, <3>3 DEF CountedOnce
  <2> QED BY <2>6, <2>7
<1>13. ASSUME NEW k \in ScanKeys, k # key PROVE Untouched(entries, after, k)
  BY <1>10, <1>13 DEF Untouched
<1> QED BY <1>11, <1>12, <1>13

Logs == {log \in Seq([key : ScanKeys, left : 0..Cooldown]) : Len(log) <= MaxReported}

LEMMA StampedHolds ==
    ASSUME ScanAssumption, NEW log \in Logs, NEW found, NEW key \in ScanKeys, PausesHold(log, found),
           NEW after, after = Stamped(log, key)
    PROVE  after \in Logs /\ PausesHold(after, found \cup {key})
<1> DEFINE Pair == [key : ScanKeys, left : 0..Cooldown]
           stamp == [key |-> key, left |-> Cooldown]
<1>1. Cooldown \in Nat \ {0} /\ MaxReported \in Nat \ {0}
  BY DEF ScanAssumption
<1>2. stamp \in Pair /\ stamp.key = key
  BY <1>1
<1>3. log \in Seq(Pair) /\ Len(log) <= MaxReported
  BY DEF Logs
<1>4. \A i \in DOMAIN log : log[i].left > 0 => log[i].key \in found \/ findingAge[log[i].key] <= Cooldown - log[i].left
  BY DEF PausesHold
<1> HIDE DEF Pair, stamp
<1>5. Len(log) \in Nat /\ DOMAIN log = 1..Len(log) /\ \A i \in DOMAIN log : log[i] \in Pair
  BY <1>3
<1>6. CASE \E i \in DOMAIN log : log[i].key = key
  <2>1. after = [i \in DOMAIN log |-> IF log[i].key = key THEN stamp ELSE log[i]]
    BY <1>6 DEF Stamped, stamp
  <2>2. after \in Seq(Pair) /\ Len(after) = Len(log)
    <3>1. after \in [1..Len(log) -> Pair]
      BY <1>2, <1>5, <2>1
    <3> QED BY <1>5, <3>1
  <2>3. ASSUME NEW i \in DOMAIN after, after[i].left > 0
        PROVE  after[i].key \in found \cup {key} \/ findingAge[after[i].key] <= Cooldown - after[i].left
    <3>1. i \in DOMAIN log /\ after[i] = IF log[i].key = key THEN stamp ELSE log[i]
      BY <2>1
    <3>2. CASE log[i].key = key
      BY <1>2, <3>1, <3>2
    <3>3. CASE log[i].key # key
      BY <1>4, <2>3, <3>1, <3>3
    <3> QED BY <3>2, <3>3
  <2>4. after \in Logs
    BY <1>3, <2>2 DEF Logs, Pair
  <2> QED BY <2>3, <2>4 DEF PausesHold
<1>7. CASE ~\E i \in DOMAIN log : log[i].key = key
  <2> DEFINE rest == IF Len(log) < MaxReported THEN log ELSE Tail(log)
             shift == IF Len(log) < MaxReported THEN 0 ELSE 1
  <2>1. after = Append(rest, stamp)
    BY <1>7 DEF Stamped, stamp
  <2>2. /\ rest \in Seq(Pair) /\ Len(rest) = Len(log) - shift /\ Len(rest) < MaxReported
        /\ \A i \in 1..Len(rest) : i + shift \in DOMAIN log /\ rest[i] = log[i + shift]
    <3>1. CASE Len(log) < MaxReported
      <4>1. rest = log /\ shift = 0
        BY <3>1
      <4> HIDE DEF rest, shift
      <4> QED BY <1>1, <1>3, <1>5, <3>1, <4>1
    <3>2. CASE ~(Len(log) < MaxReported)
      <4>1. rest = Tail(log) /\ shift = 1
        BY <3>2
      <4>2. log # <<>>
        BY <1>1, <1>5, <3>2
      <4>3. /\ Tail(log) \in Seq(Pair) /\ Len(Tail(log)) = Len(log) - 1
            /\ \A i \in 1..Len(Tail(log)) : Tail(log)[i] = log[i + 1]
        BY <1>3, <4>2
      <4> HIDE DEF rest, shift
      <4> QED BY <1>1, <1>3, <1>5, <3>2, <4>1, <4>3
    <3> QED BY <3>1, <3>2
  <2> HIDE DEF rest, shift
  <2>3. Len(rest) \in Nat
    BY <2>2
  <2>4. /\ after \in Seq(Pair) /\ Len(after) = Len(rest) + 1
        /\ \A i \in 1..Len(rest) : after[i] = rest[i]
        /\ after[Len(rest) + 1] = stamp
    BY <1>2, <2>1, <2>2
  <2>5. DOMAIN after = 1..(Len(rest) + 1)
    BY <2>4
  <2>6. ASSUME NEW i \in DOMAIN after, after[i].left > 0
        PROVE  after[i].key \in found \cup {key} \/ findingAge[after[i].key] <= Cooldown - after[i].left
    <3>1. CASE i = Len(rest) + 1
      BY <1>2, <2>4, <3>1
    <3>2. CASE i # Len(rest) + 1
      <4>1. i \in 1..Len(rest)
        BY <2>3, <2>5, <3>2
      <4>2. after[i] = log[i + shift] /\ i + shift \in DOMAIN log
        BY <2>2, <2>4, <4>1
      <4> QED BY <1>4, <2>6, <4>2
    <3> QED BY <3>1, <3>2
  <2>7. after \in Logs
    <3>1. Len(after) <= MaxReported
      BY <1>1, <2>2, <2>3, <2>4
    <3> QED BY <2>4, <3>1 DEF Logs, Pair
  <2> QED BY <2>6, <2>7 DEF PausesHold
<1> QED BY <1>6, <1>7

\* What is due to be found is found, or was within the pause; what is found is due.
DueFound(after, found, key) ==
    Measure(after[key], key) >= Threshold(key) => key \in found \/ findingAge[key] <= Cooldown - 1
Sound(after, found, key) == key \in found => Measure(after[key], key) >= Threshold(key)

InspectionOf(entries, log, found) == [entries |-> entries, log |-> log, found |-> found]

LEMMA ObserveDoes ==
    ASSUME ScanAssumption, NEW entries, WindowsCount(entries), NEW log \in Logs, NEW found,
           PausesHold(log, found), NEW key \in ScanKeys, key \notin found, NEW item,
           findingAge \in [ScanKeys -> 0..Longest],
           NEW at, at = InspectionOf(entries, log, found),
           NEW end, end = Observe(at, key, item)
    PROVE  /\ end = [entries |-> end.entries, log |-> end.log, found |-> end.found]
           /\ end.entries = Add(entries, key, item)
           /\ end.log \in Logs /\ PausesHold(end.log, end.found)
           /\ end.found \in {found, found \cup {key}}
           /\ DueFound(end.entries, end.found, key) /\ Sound(end.entries, end.found, key)
<1> DEFINE more == Add(entries, key, item)
           added == [entries |-> more, log |-> log, found |-> found]
<1>1. [at EXCEPT !.entries = Add(@, key, item)] = added
  BY DEF InspectionOf
<1>2. end = IF Measure(more[key], key) >= Threshold(key) THEN Report(added, key) ELSE added
  BY <1>1 DEF Observe
<1>3. \A i \in DOMAIN log : log[i].left \in 0..Cooldown /\ log[i].key \in ScanKeys
  <2> DEFINE Pair == [key : ScanKeys, left : 0..Cooldown]
  <2>1. log \in Seq(Pair)
    BY DEF Logs
  <2>2. \A pair \in Pair : pair.left \in 0..Cooldown /\ pair.key \in ScanKeys
    OBVIOUS
  <2> HIDE DEF Pair
  <2>3. \A i \in DOMAIN log : log[i] \in Pair
    BY <2>1
  <2> QED BY <2>2, <2>3
<1> HIDE DEF more
<1>4. CASE ~(Measure(more[key], key) >= Threshold(key))
  <2>1. end = added
    BY <1>2, <1>4
  <2>2. end.entries = more /\ end.log = log /\ end.found = found
    BY <2>1
  <2>3. DueFound(end.entries, end.found, key) /\ Sound(end.entries, end.found, key)
    BY <1>4, <2>2 DEF DueFound, Sound
  <2> QED BY <2>1, <2>2, <2>3 DEF more
<1>5. CASE Measure(more[key], key) >= Threshold(key) /\ Pausing(log, key)
  <2>1. end = added
    BY <1>2, <1>5 DEF Report
  <2>2. end.entries = more /\ end.log = log /\ end.found = found
    BY <2>1
  <2>3. findingAge[key] <= Cooldown - 1
    <3>1. PICK i \in DOMAIN log : log[i].key = key /\ log[i].left > 0
      BY <1>5 DEF Pausing
    <3>2. findingAge[key] <= Cooldown - log[i].left
      BY <3>1 DEF PausesHold
    <3>3. log[i].left \in Nat /\ findingAge[key] \in Nat /\ Cooldown \in Nat
      BY <1>3, Lengths DEF ScanAssumption
    <3> QED BY <3>1, <3>2, <3>3
  <2>4. DueFound(end.entries, end.found, key) /\ Sound(end.entries, end.found, key)
    BY <2>2, <2>3 DEF DueFound, Sound
  <2> QED BY <2>1, <2>2, <2>4 DEF more
<1>6. CASE Measure(more[key], key) >= Threshold(key) /\ ~Pausing(log, key)
  <2>1. end = [added EXCEPT !.log = Stamped(@, key), !.found = @ \cup {key}]
    BY <1>2, <1>6 DEF Report
  <2>2. end = [entries |-> more, log |-> Stamped(log, key), found |-> found \cup {key}]
    BY <2>1
  <2>3. end.entries = more /\ end.log = Stamped(log, key) /\ end.found = found \cup {key}
    BY <2>2
  <2>4. end.log \in Logs /\ PausesHold(end.log, end.found)
    BY <2>3, StampedHolds
  <2>5. DueFound(end.entries, end.found, key) /\ Sound(end.entries, end.found, key)
    BY <1>6, <2>3 DEF DueFound, Sound
  <2> QED BY <2>2, <2>3, <2>4, <2>5 DEF more
<1> QED BY <1>4, <1>5, <1>6

KeysOf(p) == {PortKey(p), FloodKey(p)} \cup (IF p.port \in ClientPorts THEN {} ELSE {HostKey(p)})
CountItem(p, key) == IF key[1] = "flood" THEN <<p.target, p.port>> ELSE ItemOf(p, key)

LEMMA UntouchedSame ==
    ASSUME NEW before, NEW after, NEW key, Untouched(before, after, key)
    PROVE  /\ IsCurrent(after, key) <=> IsCurrent(before, key)
           /\ StartedAgo(after, key) = StartedAgo(before, key)
           /\ IsCurrent(before, key) => after[key] = before[key]
<1>1. IsCurrent(after, key) <=> IsCurrent(before, key)
  BY DEF Untouched, IsCurrent
<1>2. IsCurrent(before, key) => after[key] = before[key]
  BY DEF Untouched, IsCurrent
<1>3. StartedAgo(after, key) = StartedAgo(before, key)
  BY <1>1, <1>2 DEF StartedAgo
<1> QED BY <1>1, <1>2, <1>3

\* What holds after the keys K of an attempt were observed.
ObservedSo(at, K, p) ==
    /\ at = [entries |-> at.entries, log |-> at.log, found |-> at.found]
    /\ WindowsCount(at.entries) /\ at.log \in Logs /\ PausesHold(at.log, at.found)
    /\ at.found \subseteq K
    /\ \A k \in K : /\ CountedOnce(windows, at.entries, k, CountItem(p, k))
                    /\ DueFound(at.entries, at.found, k) /\ Sound(at.entries, at.found, k)
    /\ \A k \in ScanKeys \ K : Untouched(windows, at.entries, k)

LEMMA ObserveNext ==
    ASSUME ScanAssumption, findingAge \in [ScanKeys -> 0..Longest], NEW p, NEW K \in SUBSET ScanKeys,
           NEW at, ObservedSo(at, K, p), NEW key \in ScanKeys, key \notin K,
           NEW end, end = Observe(at, key, CountItem(p, key)), NEW all, all = K \cup {key}
    PROVE  ObservedSo(end, all, p)
<1> DEFINE item == CountItem(p, key)
<1>1. /\ at = [entries |-> at.entries, log |-> at.log, found |-> at.found]
      /\ WindowsCount(at.entries) /\ at.log \in Logs /\ PausesHold(at.log, at.found)
      /\ at.found \subseteq K
  BY DEF ObservedSo
<1>2. /\ end = [entries |-> end.entries, log |-> end.log, found |-> end.found]
      /\ end.entries = Add(at.entries, key, item)
      /\ end.log \in Logs /\ PausesHold(end.log, end.found)
      /\ end.found \in {at.found, at.found \cup {key}}
      /\ DueFound(end.entries, end.found, key) /\ Sound(end.entries, end.found, key)
  <2> DEFINE e == at.entries
             l == at.log
             f == at.found
  <2>1. at = InspectionOf(e, l, f) /\ WindowsCount(e) /\ l \in Logs /\ PausesHold(l, f) /\ key \notin f
    BY <1>1 DEF InspectionOf
  <2>2. end = Observe(at, key, item)
    OBVIOUS
  <2> HIDE DEF e, l, f, item
  <2>3. /\ end = [entries |-> end.entries, log |-> end.log, found |-> end.found]
        /\ end.entries = Add(e, key, item)
        /\ end.log \in Logs /\ PausesHold(end.log, end.found)
        /\ end.found \in {f, f \cup {key}}
        /\ DueFound(end.entries, end.found, key) /\ Sound(end.entries, end.found, key)
    BY <2>1, <2>2, ObserveDoes
  <2> QED BY <2>3 DEF e, f
<1> HIDE DEF item
<1>3. /\ WindowsCount(end.entries) /\ CountedOnce(at.entries, end.entries, key, item)
      /\ \A k \in ScanKeys : k # key => Untouched(at.entries, end.entries, k)
  BY <1>1, <1>2, AddCounts
<1>4. CountedOnce(windows, end.entries, key, item)
  <2>1. Untouched(windows, at.entries, key)
    BY DEF ObservedSo
  <2>2. /\ StartedAgo(at.entries, key) = StartedAgo(windows, key)
        /\ IsCurrent(at.entries, key) <=> IsCurrent(windows, key)
        /\ IsCurrent(windows, key) => at.entries[key] = windows[key]
    BY <2>1, UntouchedSame
  <2>3. StartedAgo(at.entries, key) = -1 <=> ~IsCurrent(at.entries, key)
    BY <1>1, AgoIs
  <2>4. CASE IsCurrent(windows, key)
    BY <1>3, <2>2, <2>3, <2>4 DEF CountedOnce
  <2>5. CASE ~IsCurrent(windows, key)
    <3>1. StartedAgo(at.entries, key) = -1 /\ StartedAgo(windows, key) = -1
      BY <2>2, <2>3, <2>5
    <3> QED BY <1>3, <3>1 DEF CountedOnce
  <2> QED BY <2>4, <2>5
<1>5. ASSUME NEW k \in K
      PROVE  /\ CountedOnce(windows, end.entries, k, CountItem(p, k))
             /\ DueFound(end.entries, end.found, k) /\ Sound(end.entries, end.found, k)
  <2>1. /\ CountedOnce(windows, at.entries, k, CountItem(p, k))
        /\ DueFound(at.entries, at.found, k) /\ Sound(at.entries, at.found, k)
    BY DEF ObservedSo
  <2>2. Untouched(at.entries, end.entries, k) /\ k # key
    BY <1>3
  <2>3. IsCurrent(at.entries, k)
    BY <2>1 DEF CountedOnce
  <2>4. /\ IsCurrent(end.entries, k) /\ StartedAgo(end.entries, k) = StartedAgo(at.entries, k)
        /\ end.entries[k] = at.entries[k]
    BY <2>2, <2>3, UntouchedSame
  <2>5. CountedOnce(windows, end.entries, k, CountItem(p, k))
    BY <2>1, <2>4 DEF CountedOnce
  <2>6. k \in end.found <=> k \in at.found
    BY <1>2, <2>2
  <2> QED BY <2>1, <2>4, <2>5, <2>6 DEF DueFound, Sound
<1>6. ASSUME NEW k \in ScanKeys \ all PROVE Untouched(windows, end.entries, k)
  <2>1. Untouched(windows, at.entries, k) /\ Untouched(at.entries, end.entries, k)
    BY <1>3 DEF ObservedSo
  <2> QED BY <2>1 DEF Untouched
<1>7. end.found \subseteq all
  BY <1>1, <1>2
<1>8. \A k \in all : /\ CountedOnce(windows, end.entries, k, CountItem(p, k))
                    /\ DueFound(end.entries, end.found, k) /\ Sound(end.entries, end.found, k)
  BY <1>2, <1>4, <1>5 DEF item
<1>9. /\ end = [entries |-> end.entries, log |-> end.log, found |-> end.found]
      /\ WindowsCount(end.entries) /\ end.log \in Logs /\ PausesHold(end.log, end.found)
  BY <1>2, <1>3
<1>10. \A k \in ScanKeys \ all : Untouched(windows, end.entries, k)
  BY <1>6
<1> QED BY <1>7, <1>8, <1>9, <1>10 DEF ObservedSo

LEMMA KeysDiffer ==
    ASSUME NEW p \in Probes
    PROVE  /\ PortKey(p) # HostKey(p) /\ PortKey(p) # FloodKey(p) /\ HostKey(p) # FloodKey(p)
           /\ {PortKey(p), HostKey(p), FloodKey(p)} \subseteq ScanKeys
           /\ CountItem(p, PortKey(p)) = p.port /\ CountItem(p, HostKey(p)) = p.target
           /\ CountItem(p, FloodKey(p)) = <<p.target, p.port>>
<1>1. PortKey(p)[1] = "ports" /\ HostKey(p)[1] = "hosts" /\ FloodKey(p)[1] = "flood"
  BY DEF PortKey, HostKey, FloodKey
<1>2. {PortKey(p), HostKey(p), FloodKey(p)} \subseteq ScanKeys
  BY DEF ScanKeys
<1>3. /\ CountItem(p, PortKey(p)) = p.port /\ CountItem(p, HostKey(p)) = p.target
      /\ CountItem(p, FloodKey(p)) = <<p.target, p.port>>
  BY <1>1 DEF CountItem, ItemOf
<1> QED BY <1>1, <1>2, <1>3

LEMMA ObservedDoes ==
    ASSUME ScanAssumption, findingAge \in [ScanKeys -> 0..Longest], WindowsCount(windows),
           lastReported \in Logs, PausesHold(lastReported, {}), NEW p \in Probes
    PROVE  ObservedSo(Observed(p), KeysOf(p), p)
<1> DEFINE at == [entries |-> windows, log |-> lastReported, found |-> {}]
           ports == Observe(at, PortKey(p), p.port)
           hosts == IF p.port \in ClientPorts THEN ports ELSE Observe(ports, HostKey(p), p.target)
           end == Observe(hosts, FloodKey(p), <<p.target, p.port>>)
           none == {}
           first == {PortKey(p)}
           second == first \cup (IF p.port \in ClientPorts THEN {} ELSE {HostKey(p)})
<1>1. Observed(p) = end
  BY DEF Observed
<1>2. ObservedSo(at, none, p)
  <2>1. at.entries = windows /\ at.log = lastReported /\ at.found = {}
    OBVIOUS
  <2>2. \A k \in ScanKeys : Untouched(windows, windows, k)
    BY DEF Untouched
  <2> QED BY <2>1, <2>2 DEF ObservedSo
<1>k. /\ PortKey(p) \in ScanKeys /\ HostKey(p) \in ScanKeys /\ FloodKey(p) \in ScanKeys
      /\ PortKey(p) # HostKey(p) /\ PortKey(p) # FloodKey(p) /\ HostKey(p) # FloodKey(p)
      /\ p.port = CountItem(p, PortKey(p)) /\ p.target = CountItem(p, HostKey(p))
      /\ <<p.target, p.port>> = CountItem(p, FloodKey(p))
  BY KeysDiffer
<1>n. none \in SUBSET ScanKeys /\ PortKey(p) \notin none /\ first = none \cup {PortKey(p)}
  OBVIOUS
<1>p. ports = Observe(at, PortKey(p), CountItem(p, PortKey(p)))
  BY <1>k
<1> HIDE DEF at, none
<1>3. ObservedSo(ports, first, p)
  <2> HIDE DEF ports, first
  <2> QED BY <1>2, <1>k, <1>n, <1>p, ObserveNext
<1>4. ObservedSo(hosts, second, p)
  <2>1. CASE p.port \in ClientPorts
    <3>1. hosts = ports /\ second = first
      BY <2>1
    <3> HIDE DEF ports, hosts, first, second
    <3> QED BY <1>3, <3>1
  <2>2. CASE p.port \notin ClientPorts
    <3>1. hosts = Observe(ports, HostKey(p), CountItem(p, HostKey(p))) /\ second = first \cup {HostKey(p)}
      BY <1>k, <2>2
    <3>2. first \in SUBSET ScanKeys /\ HostKey(p) \notin first
      BY <1>k
    <3> HIDE DEF ports, hosts, first, second
    <3> QED BY <1>3, <1>k, <3>1, <3>2, ObserveNext
  <2> QED BY <2>1, <2>2
<1>5. ObservedSo(end, KeysOf(p), p)
  <2>1. second \in SUBSET ScanKeys /\ FloodKey(p) \notin second /\ KeysOf(p) = second \cup {FloodKey(p)}
    BY <1>k DEF KeysOf
  <2>2. end = Observe(hosts, FloodKey(p), CountItem(p, FloodKey(p)))
    BY <1>k
  <2> HIDE DEF hosts, second, end
  <2> QED BY <1>4, <1>k, <2>1, <2>2, ObserveNext
<1> QED BY <1>1, <1>5

-----------------------------------------------------------------------------
(* The steps. *)

LEMMA SweptSame ==
    ASSUME ScanAssumption, NEW entries, WindowsCount(entries), NEW after, after \in {entries, Swept(entries)}
    PROVE  /\ WindowsCount(after)
           /\ \A k \in ScanKeys :
                 /\ IsCurrent(after, k) <=> IsCurrent(entries, k)
                 /\ StartedAgo(after, k) = StartedAgo(entries, k)
                 /\ IsCurrent(entries, k) => after[k] = entries[k]
<1>1. CASE after = entries
  BY <1>1
<1>2. CASE after = Swept(entries)
  <2>1. after = [k \in {k \in DOMAIN entries : entries[k].left > 0} |-> entries[k]]
    BY <1>2 DEF Swept
  <2>2. DOMAIN after \subseteq DOMAIN entries /\ \A k \in DOMAIN after : after[k] = entries[k]
    BY <2>1
  <2>3. WindowsCount(after)
    <3>1. \A k \in DOMAIN after : after[k] = [items |-> after[k].items, left |-> after[k].left]
      <4> SUFFICES ASSUME NEW k \in DOMAIN after
                   PROVE  after[k] = [items |-> after[k].items, left |-> after[k].left]
        OBVIOUS
      <4>1. k \in DOMAIN entries /\ after[k] = entries[k]
        BY <2>2
      <4>2. entries[k] = [items |-> entries[k].items, left |-> entries[k].left]
        BY <4>1 DEF WindowsCount
      <4> QED BY <4>1, <4>2
    <3>2. after = [k \in DOMAIN after |-> after[k]]
      BY <2>1
    <3>3. after = [k \in DOMAIN after |-> [items |-> after[k].items, left |-> after[k].left]]
      BY <3>1, <3>2
    <3>4. DOMAIN after \subseteq ScanKeys
      BY <2>2 DEF WindowsCount
    <3>5. \A k \in DOMAIN after :
             /\ after[k].left \in 0..WindowOfKey(k) /\ IsFiniteSet(DOMAIN after[k].items)
             /\ after[k].items \in [DOMAIN after[k].items -> Nat]
      BY <2>2 DEF WindowsCount
    <3> QED BY <3>3, <3>4, <3>5 DEF WindowsCount
  <2>4. ASSUME NEW k \in ScanKeys
        PROVE  /\ IsCurrent(after, k) <=> IsCurrent(entries, k)
               /\ IsCurrent(entries, k) => after[k] = entries[k]
    BY <2>1 DEF IsCurrent
  <2>5. ASSUME NEW k \in ScanKeys PROVE StartedAgo(after, k) = StartedAgo(entries, k)
    BY <2>4 DEF StartedAgo
  <2> QED BY <2>3, <2>4, <2>5
<1> QED BY <1>1, <1>2

\* The parts of the invariant.
ScanPieces ==
    /\ WindowsCount(windows) /\ lastReported \in Logs /\ PausesHold(lastReported, {})
    /\ findingAge \in [ScanKeys -> 0..Longest] /\ probeAge \in [Probes -> 0..Longest]
    /\ attempts \in [Sources -> AttemptCounts] /\ \A key \in ScanKeys : KeyHolds(key)
    /\ FindingsAreSound /\ sweepLeft \in 0..SweepInterval /\ made \in 0..MaxProbes

LEMMA ScanParts ==
    ASSUME ScanAssumption, ScanInv
    PROVE  /\ WindowsCount(windows) /\ lastReported \in Logs /\ PausesHold(lastReported, {})
           /\ findingAge \in [ScanKeys -> 0..Longest] /\ probeAge \in [Probes -> 0..Longest]
           /\ \A s \in Sources : attempts[s] \in AttemptCounts
           /\ attempts \in [Sources -> AttemptCounts]
           /\ \A key \in ScanKeys : KeyHolds(key)
           /\ FindingsAreSound
           /\ sweepLeft \in 0..SweepInterval /\ made \in 0..MaxProbes
<1> QED BY DEF ScanInv, ScanTypeOK, Logs, AttemptCounts, Ages

LEMMA ScanWhole == ScanPieces => ScanInv
<1> SUFFICES ASSUME ScanPieces PROVE ScanInv
  OBVIOUS
<1>1. \A k \in DOMAIN windows : windows[k].left \in 0..WindowOfKey(k)
  BY DEF ScanPieces, WindowsCount
<1>2. DOMAIN windows \subseteq ScanKeys
  BY DEF ScanPieces, WindowsCount
<1> QED BY <1>1, <1>2 DEF ScanPieces, ScanInv, ScanTypeOK, Logs, AttemptCounts, Ages

LEMMA ScanWholeNext == (ScanPieces => ScanInv)'
BY ScanWhole, PTL

LEMMA KeyFlood ==
    ASSUME NEW key \in ScanKeys, key[1] = "flood"
    PROVE  /\ WindowOfKey(key) = FloodWindow /\ Threshold(key) = SynFloodAttempts /\ key[2] \in Sources
           /\ KeyHolds(key) <=> FloodHolds(StartedAgo(windows, key),
                                          Tally(windows[key].items, DOMAIN windows[key].items),
                                          attempts[key[2]], findingAge[key])
           /\ Seen(key) = Tally(attempts[key[2]], Ages)
           /\ \A entry : Measure(entry, key) = Tally(entry.items, DOMAIN entry.items)
           /\ \A p \in Probes : key \in KeysOf(p) <=> p.source = key[2]
<1>1. key[2] \in Sources
  BY KeysAre
<1>2. \A p \in Probes : key \in KeysOf(p) <=> p.source = key[2]
  <2> SUFFICES ASSUME NEW p \in Probes PROVE key \in KeysOf(p) <=> p.source = key[2]
    OBVIOUS
  <2>1. PICK q \in Probes : key = FloodKey(q)
    BY KeysAre
  <2>2. key = <<"flood", q.source, q.source>> /\ key[2] = q.source
    BY <2>1 DEF FloodKey
  <2>3. key # PortKey(p) /\ key # HostKey(p)
    BY <2>2 DEF PortKey, HostKey
  <2>4. key = FloodKey(p) <=> p.source = q.source
    BY <2>2 DEF FloodKey
  <2> QED BY <2>2, <2>3, <2>4 DEF KeysOf
<1>3. WindowOfKey(key) = FloodWindow /\ Threshold(key) = SynFloodAttempts
  BY DEF WindowOfKey, Threshold
<1>4. KeyHolds(key) <=> FloodHolds(StartedAgo(windows, key),
                                 Tally(windows[key].items, DOMAIN windows[key].items),
                                 attempts[key[2]], findingAge[key])
  BY Zenon DEF KeyHolds
<1>5. Seen(key) = Tally(attempts[key[2]], Ages)
  BY Zenon DEF Seen, Ages
<1>6. \A entry : Measure(entry, key) = Tally(entry.items, DOMAIN entry.items)
  BY DEF Measure
<1> QED BY <1>1, <1>2, <1>3, <1>4, <1>5, <1>6

LEMMA KeyPattern ==
    ASSUME NEW key \in ScanKeys, key[1] # "flood"
    PROVE  /\ WindowOfKey(key) = ScanWindow
           /\ KeyHolds(key) <=> PatternHolds(key, StartedAgo(windows, key), DOMAIN windows[key].items,
                                            probeAge, findingAge[key])
           /\ Seen(key) = Cardinality({p \in Probes : CountedFor(p, key) /\ probeAge[p] < ScanWindow})
           /\ \A entry : Measure(entry, key) = Cardinality(DOMAIN entry.items)
           /\ \A p \in Probes : /\ key \in KeysOf(p) <=> CountedFor(p, key)
                               /\ CountItem(p, key) = ItemOf(p, key)
<1>1. ASSUME NEW p \in Probes PROVE key \in KeysOf(p) <=> CountedFor(p, key)
  <2>1. key # FloodKey(p)
    BY DEF FloodKey
  <2>2. CASE key[1] = "ports"
    <3>1. key # HostKey(p)
      BY <2>2 DEF HostKey
    <3> QED BY <2>1, <2>2, <3>1 DEF KeysOf, CountedFor
  <2>3. CASE key[1] # "ports"
    <3>1. key # PortKey(p)
      BY <2>3 DEF PortKey
    <3> QED BY <2>1, <2>3, <3>1 DEF KeysOf, CountedFor
  <2> QED BY <2>2, <2>3
<1>2. \A p \in Probes : CountItem(p, key) = ItemOf(p, key)
  BY DEF CountItem
<1>3. WindowOfKey(key) = ScanWindow /\ \A entry : Measure(entry, key) = Cardinality(DOMAIN entry.items)
  BY DEF WindowOfKey, Measure
<1>4. KeyHolds(key) <=> PatternHolds(key, StartedAgo(windows, key), DOMAIN windows[key].items,
                                   probeAge, findingAge[key])
  BY Zenon DEF KeyHolds
<1>5. Seen(key) = Cardinality({p \in Probes : CountedFor(p, key) /\ probeAge[p] < ScanWindow})
  BY Zenon DEF Seen
<1> QED BY <1>1, <1>2, <1>3, <1>4, <1>5

\* What the invariant says of a key after a step.
LEMMA KeyNext ==
    ASSUME NEW key \in ScanKeys
    PROVE  /\ key[1] = "flood" =>
                (KeyHolds(key)' <=> FloodHolds(StartedAgo(windows', key),
                                               Tally(windows'[key].items, DOMAIN windows'[key].items),
                                               attempts'[key[2]], findingAge'[key]))
           /\ key[1] # "flood" =>
                (KeyHolds(key)' <=> PatternHolds(key, StartedAgo(windows', key), DOMAIN windows'[key].items,
                                                 probeAge', findingAge'[key]))
<1>1. ASSUME key[1] = "flood"
      PROVE  KeyHolds(key)' <=> FloodHolds(StartedAgo(windows', key),
                                           Tally(windows'[key].items, DOMAIN windows'[key].items),
                                           attempts'[key[2]], findingAge'[key])
  BY <1>1, Zenon DEF KeyHolds
<1>2. ASSUME key[1] # "flood"
      PROVE  KeyHolds(key)' <=> PatternHolds(key, StartedAgo(windows', key), DOMAIN windows'[key].items,
                                             probeAge', findingAge'[key])
  BY <1>2, Zenon DEF KeyHolds
<1> QED BY <1>1, <1>2

\* A key of the invariant means what the property says.
LEMMA KeyFound ==
    ASSUME ScanAssumption, ScanInv, NEW key \in ScanKeys, Seen(key) >= 2 * Threshold(key) - 1
    PROVE  findingAge[key] <= WindowOfKey(key) + Cooldown - 2
<1>1. /\ WindowsCount(windows) /\ findingAge[key] \in 0..Longest /\ probeAge \in [Probes -> 0..Longest]
      /\ attempts \in [Sources -> AttemptCounts] /\ KeyHolds(key)
  BY ScanParts
<1> DEFINE ago == StartedAgo(windows, key)
           told == findingAge[key]
<1>2. ago \in Int /\ ago >= -1 /\ ago < WindowOfKey(key) /\ told \in 0..Longest
  BY <1>1, AgoIs
<1>3. CASE key[1] = "flood"
  <2> DEFINE total == Tally(windows[key].items, DOMAIN windows[key].items)
             counts == attempts[key[2]]
  <2>1. FloodHolds(ago, total, counts, told) /\ Tally(counts, Ages) >= 2 * SynFloodAttempts - 1
        /\ WindowOfKey(key) = FloodWindow
    BY <1>1, <1>3, KeyFlood
  <2>2. counts \in AttemptCounts
    BY <1>1, <1>3, KeyFlood
  <2> HIDE DEF ago, told, total, counts
  <2>3. told <= FloodWindow + Cooldown - 2
    BY <1>2, <2>1, <2>2, FloodFound
  <2> QED BY <2>1, <2>3 DEF told
<1>4. CASE key[1] # "flood"
  <2> DEFINE items == DOMAIN windows[key].items
  <2>1. /\ PatternHolds(key, ago, items, probeAge, told)
        /\ Cardinality({p \in Probes : CountedFor(p, key) /\ probeAge[p] < ScanWindow}) >= 2 * Threshold(key) - 1
    BY <1>1, <1>4, KeyPattern
  <2> HIDE DEF ago, told, items
  <2>2. told <= WindowOfKey(key) + Cooldown - 2
    BY <1>1, <1>2, <1>4, <2>1, PatternFound
  <2> QED BY <2>2 DEF told
<1> QED BY <1>3, <1>4

LEMMA ScanShows == ASSUME ScanAssumption, ScanInv PROVE ScanTypeOK /\ ScanFindingsExact
<1>1. WideScanIsFound
  BY KeyFound DEF WideScanIsFound
<1>2. FindingsAreSound /\ ScanTypeOK
  BY DEF ScanInv
<1> QED BY <1>1, <1>2 DEF ScanFindingsExact

\* Where there is no window and nothing was seen.
NothingSeen ==
    /\ windows = <<>> /\ lastReported = <<>> /\ sweepLeft = 0
    /\ probeAge = [p \in Probes |-> Longest] /\ findingAge = [k \in ScanKeys |-> Longest]
    /\ attempts = [s \in Sources |-> [a \in Ages |-> 0]]

LEMMA NothingHolds == ScanAssumption /\ NothingSeen /\ made \in 0..MaxProbes => ScanInv
<1> SUFFICES ASSUME ScanAssumption, NothingSeen, made \in 0..MaxProbes PROVE ScanInv
  OBVIOUS
<1>0. Longest \in Nat /\ Longest >= 1 /\ MaxReported \in Nat /\ SweepInterval \in Nat /\ Cooldown \in Nat
  BY DEF Longest, ScanAssumption
<1>1. WindowsCount(windows) /\ \A key \in ScanKeys : ~IsCurrent(windows, key)
  BY DEF NothingSeen, WindowsCount, IsCurrent
<1>2. lastReported \in Logs /\ PausesHold(lastReported, {})
  BY <1>0 DEF NothingSeen, Logs, PausesHold
<1>3. findingAge \in [ScanKeys -> 0..Longest] /\ probeAge \in [Probes -> 0..Longest] /\ sweepLeft \in 0..SweepInterval
  BY <1>0 DEF NothingSeen
<1>4. \A s \in Sources : attempts[s] = [a \in Ages |-> 0] /\ attempts[s] \in AttemptCounts
  <2> SUFFICES ASSUME NEW s \in Sources PROVE attempts[s] = [a \in Ages |-> 0] /\ attempts[s] \in AttemptCounts
    OBVIOUS
  <2>1. attempts[s] = [a \in Ages |-> 0]
    BY DEF NothingSeen
  <2> QED BY <2>1, AgesAre DEF AttemptCounts
<1>5. attempts \in [Sources -> AttemptCounts]
  BY <1>4 DEF NothingSeen
<1>6. ASSUME NEW key \in ScanKeys PROVE KeyHolds(key)
  <2>1. StartedAgo(windows, key) = -1
    BY <1>1 DEF StartedAgo
  <2>2. CASE key[1] = "flood"
    <3> DEFINE total == Tally(windows[key].items, DOMAIN windows[key].items)
               counts == attempts[key[2]]
               told == findingAge[key]
    <3>1. counts = [a \in Ages |-> 0]
      BY <1>4, <2>2, KeyFlood
    <3> HIDE DEF total, counts, told
    <3>2. FloodHolds(-1, total, counts, told)
      BY <3>1, FloodStarts
    <3>3. KeyHolds(key) <=> FloodHolds(StartedAgo(windows, key), total, counts, told)
      BY <2>2, KeyFlood DEF total, counts, told
    <3> QED BY <2>1, <3>2, <3>3
  <2>3. CASE key[1] # "flood"
    <3> DEFINE items == DOMAIN windows[key].items
               told == findingAge[key]
    <3> HIDE DEF items, told
    <3>1. probeAge = [p \in Probes |-> Longest]
      BY DEF NothingSeen
    <3>2. PatternHolds(key, -1, items, probeAge, told)
      BY <2>3, <3>1, PatternStarts
    <3>3. KeyHolds(key) <=> PatternHolds(key, StartedAgo(windows, key), items, probeAge, told)
      BY <2>3, KeyPattern DEF items, told
    <3> QED BY <2>1, <3>2, <3>3
  <2> QED BY <2>2, <2>3
<1>7. FindingsAreSound
  BY <1>0 DEF NothingSeen, FindingsAreSound
<1>8. sweepLeft \in 0..SweepInterval
  BY <1>3
<1> QED BY <1>1, <1>2, <1>3, <1>5, <1>6, <1>7, <1>8, ScanWhole DEF ScanPieces

LEMMA NothingNext == (ScanAssumption /\ NothingSeen /\ made \in 0..MaxProbes => ScanInv)'
BY NothingHolds, PTL

LEMMA ScanStarts == ASSUME ScanAssumption PROVE ScanInit => ScanInv
<1> SUFFICES ASSUME ScanInit PROVE ScanInv
  OBVIOUS
<1>1. NothingSeen
  BY DEF ScanInit, NothingSeen, Ages
<1>2. made \in 0..MaxProbes
  BY DEF ScanInit, ScanAssumption
<1> QED BY <1>1, <1>2, NothingHolds

LEMMA ScanResets == ASSUME ScanAssumption, ScanInv, ResetEngine PROVE ScanInv'
<1>1. NothingSeen'
  BY DEF ResetEngine, NothingSeen, Ages
<1>2. (made \in 0..MaxProbes)'
  BY ScanParts DEF ResetEngine
<1> QED BY <1>1, <1>2, NothingNext

LEMMA ScanTicks == ASSUME ScanAssumption, ScanInv, ScanTick PROVE ScanInv'
<1>0. /\ WindowsCount(windows) /\ lastReported \in Logs /\ PausesHold(lastReported, {})
      /\ findingAge \in [ScanKeys -> 0..Longest] /\ probeAge \in [Probes -> 0..Longest]
      /\ attempts \in [Sources -> AttemptCounts]
      /\ \A key \in ScanKeys : KeyHolds(key)
      /\ sweepLeft \in 0..SweepInterval /\ made \in 0..MaxProbes
  BY ScanParts
<1>a. Longest \in Nat /\ Longest >= 1 /\ Cooldown \in Nat /\ SweepInterval \in Nat
  BY DEF Longest, ScanAssumption
<1>1. /\ windows' = [k \in DOMAIN windows |-> [windows[k] EXCEPT !.left = Left(@)]]
      /\ lastReported' = [i \in DOMAIN lastReported |-> [lastReported[i] EXCEPT !.left = Left(@)]]
      /\ probeAge' = [p \in Probes |-> AtMost(probeAge[p] + 1, Longest)]
      /\ findingAge' = [k \in ScanKeys |-> AtMost(findingAge[k] + 1, Longest)]
  BY DEF ScanTick
<1>2. /\ WindowsCount(windows)'
      /\ DOMAIN windows' = DOMAIN windows
      /\ \A k \in DOMAIN windows : /\ windows'[k].items = windows[k].items
                                  /\ windows'[k].left = Left(windows[k].left)
  <2>1. ASSUME NEW k \in DOMAIN windows
        PROVE  windows'[k] = [items |-> windows[k].items, left |-> Left(windows[k].left)]
    <3>1. windows[k] = [items |-> windows[k].items, left |-> windows[k].left]
      BY <1>0 DEF WindowsCount
    <3> DEFINE i == windows[k].items
               l == windows[k].left
    <3>2. windows'[k] = [windows[k] EXCEPT !.left = Left(windows[k].left)]
      BY <1>1
    <3> HIDE DEF i, l
    <3>3. windows[k] = [items |-> i, left |-> l]
      BY <3>1 DEF i, l
    <3>4. [windows[k] EXCEPT !.left = Left(windows[k].left)] = [items |-> i, left |-> Left(windows[k].left)]
      BY <3>3
    <3> QED BY <3>2, <3>4 DEF i
  <2>2. DOMAIN windows' = DOMAIN windows
    BY <1>1
  <2>3. ASSUME NEW k \in DOMAIN windows
        PROVE  windows'[k].items = windows[k].items /\ windows'[k].left = Left(windows[k].left)
    <3> DEFINE i == windows[k].items
               l == Left(windows[k].left)
    <3>1. windows'[k] = [items |-> i, left |-> l]
      BY <2>1
    <3> HIDE DEF i, l
    <3>2. windows'[k].items = i /\ windows'[k].left = l
      BY <3>1
    <3> QED BY <3>2 DEF i, l
  <2>4. windows' = [k \in DOMAIN windows' |-> [items |-> windows'[k].items, left |-> windows'[k].left]]
    <3>1. windows' = [k \in DOMAIN windows' |-> windows'[k]]
      BY <1>1
    <3>2. \A k \in DOMAIN windows' : windows'[k] = [items |-> windows'[k].items, left |-> windows'[k].left]
      BY <2>1, <2>2, <2>3
    <3> QED BY <3>1, <3>2
  <2>5. DOMAIN windows' \subseteq ScanKeys
    BY <1>0, <2>2 DEF WindowsCount
  <2>6. ASSUME NEW k \in DOMAIN windows'
        PROVE  /\ windows'[k].left \in 0..WindowOfKey(k) /\ IsFiniteSet(DOMAIN windows'[k].items)
               /\ windows'[k].items \in [DOMAIN windows'[k].items -> Nat]
    <3>1. /\ windows[k].left \in 0..WindowOfKey(k) /\ IsFiniteSet(DOMAIN windows[k].items)
          /\ windows[k].items \in [DOMAIN windows[k].items -> Nat] /\ k \in ScanKeys
      BY <1>0, <2>2 DEF WindowsCount
    <3>2. WindowOfKey(k) \in Nat
      BY <3>1, Lengths
    <3>3. Left(windows[k].left) \in 0..WindowOfKey(k)
      BY <3>1, <3>2 DEF Left
    <3>4. windows'[k].items = windows[k].items /\ windows'[k].left = Left(windows[k].left)
      BY <2>2, <2>3
    <3> QED BY <3>1, <3>3, <3>4
  <2> QED BY <2>2, <2>3, <2>4, <2>5, <2>6 DEF WindowsCount
<1>3. /\ findingAge' \in [ScanKeys -> 0..Longest] /\ probeAge' \in [Probes -> 0..Longest]
      /\ \A k \in ScanKeys : findingAge'[k] <= findingAge[k] + 1 /\ findingAge'[k] # 0
      /\ \A p \in Probes : probeAge'[p] = AtMost(probeAge[p] + 1, Longest)
  <2>1. \A n \in 0..Longest : AtMost(n + 1, Longest) \in 0..Longest /\ AtMost(n + 1, Longest) <= n + 1 /\ AtMost(n + 1, Longest) # 0
    BY <1>a DEF AtMost
  <2>2. findingAge' \in [ScanKeys -> 0..Longest] /\ probeAge' \in [Probes -> 0..Longest]
    BY <1>0, <1>1, <2>1
  <2>3. \A k \in ScanKeys : findingAge'[k] = AtMost(findingAge[k] + 1, Longest) /\ findingAge[k] \in 0..Longest
    BY <1>0, <1>1
  <2> QED BY <1>1, <2>1, <2>2, <2>3
<1>4. lastReported' \in Logs /\ PausesHold(lastReported, {})'
  <2> DEFINE Pair == [key : ScanKeys, left : 0..Cooldown]
  <2>1. lastReported \in Seq(Pair) /\ Len(lastReported) <= MaxReported
    BY <1>0 DEF Logs
  <2>2. \A pair \in Pair : /\ [pair EXCEPT !.left = Left(pair.left)] \in Pair
                          /\ [pair EXCEPT !.left = Left(pair.left)].key = pair.key
                          /\ [pair EXCEPT !.left = Left(pair.left)].left = Left(pair.left)
                          /\ pair.left \in 0..Cooldown /\ pair.key \in ScanKeys
    BY <1>a DEF Left
  <2> HIDE DEF Pair
  <2>3. /\ Len(lastReported) \in Nat /\ DOMAIN lastReported = 1..Len(lastReported)
        /\ \A i \in DOMAIN lastReported : lastReported[i] \in Pair
    BY <2>1
  <2>4. /\ DOMAIN lastReported' = DOMAIN lastReported
        /\ \A i \in DOMAIN lastReported : lastReported'[i] = [lastReported[i] EXCEPT !.left = Left(lastReported[i].left)]
    BY <1>1
  <2>5. \A i \in DOMAIN lastReported : lastReported'[i] \in Pair
    BY <2>2, <2>3, <2>4
  <2>6. lastReported' \in Seq(Pair) /\ Len(lastReported') = Len(lastReported)
    <3>1. lastReported' \in [1..Len(lastReported) -> Pair]
      BY <1>1, <2>3, <2>4, <2>5
    <3> QED BY <2>3, <3>1
  <2>7. ASSUME NEW i \in DOMAIN lastReported', lastReported'[i].left > 0
        PROVE  findingAge'[lastReported'[i].key] <= Cooldown - lastReported'[i].left
    <3>1. /\ i \in DOMAIN lastReported /\ lastReported[i] \in Pair
          /\ lastReported'[i].key = lastReported[i].key /\ lastReported'[i].left = Left(lastReported[i].left)
          /\ lastReported[i].left \in 0..Cooldown /\ lastReported[i].key \in ScanKeys
      BY <2>2, <2>3, <2>4
    <3>2. lastReported[i].left > 0 /\ lastReported'[i].left = lastReported[i].left - 1
      BY <1>a, <2>7, <3>1 DEF Left
    <3>3. findingAge[lastReported[i].key] <= Cooldown - lastReported[i].left
      BY <1>0, <3>1, <3>2 DEF PausesHold
    <3>4. findingAge'[lastReported[i].key] <= findingAge[lastReported[i].key] + 1
      BY <1>3, <3>1
    <3>5. findingAge'[lastReported[i].key] \in 0..Longest /\ findingAge[lastReported[i].key] \in 0..Longest
      BY <1>0, <1>3, <3>1
    <3> QED BY <1>a, <3>1, <3>2, <3>3, <3>4, <3>5
  <2>8. lastReported' \in Logs
    BY <2>1, <2>6 DEF Logs, Pair
  <2>9. PausesHold(lastReported, {})'
    BY <2>7 DEF PausesHold
  <2> QED BY <2>8, <2>9
<1>5. \A s \in Sources : attempts'[s] = Aged(attempts[s]) /\ attempts[s] \in AttemptCounts
  <2>1. attempts' = [s \in Sources |-> [a \in Ages |-> IF a = 0 THEN 0 ELSE attempts[s][a - 1]]]
    BY DEF ScanTick, Ages
  <2> QED BY <1>0, <2>1 DEF Aged
<1>6. attempts' \in [Sources -> AttemptCounts]
  <2>1. \A s \in Sources : attempts'[s] \in AttemptCounts
    BY <1>5, AgesAre
  <2>2. attempts' = [s \in Sources |-> attempts'[s]]
    BY DEF ScanTick
  <2> QED BY <2>1, <2>2
<1>7. ASSUME NEW key \in ScanKeys
      PROVE  /\ StartedAgo(windows, key) \in Int /\ StartedAgo(windows, key) >= -1
             /\ StartedAgo(windows, key) < WindowOfKey(key)
             /\ StartedAgo(windows, key)' = (IF StartedAgo(windows, key) = -1 \/ StartedAgo(windows, key) = WindowOfKey(key) - 1
                                            THEN -1 ELSE StartedAgo(windows, key) + 1)
             /\ StartedAgo(windows, key) >= 0 => windows'[key].items = windows[key].items
  <2>1. WindowOfKey(key) \in Nat \ {0}
    BY Lengths
  <2>2. /\ StartedAgo(windows, key) \in Int /\ StartedAgo(windows, key) >= -1
        /\ StartedAgo(windows, key) < WindowOfKey(key)
        /\ StartedAgo(windows, key) = -1 <=> ~IsCurrent(windows, key)
    BY <1>0, AgoIs
  <2>3. CASE IsCurrent(windows, key)
    <3>1. key \in DOMAIN windows /\ windows[key].left > 0 /\ windows[key].left \in 0..WindowOfKey(key)
      BY <1>0, <2>3 DEF IsCurrent, WindowsCount
    <3>2. key \in DOMAIN windows' /\ windows'[key].left = windows[key].left - 1 /\ windows'[key].items = windows[key].items
      BY <1>2, <3>1 DEF Left
    <3>3. StartedAgo(windows, key) = WindowOfKey(key) - windows[key].left
      BY <2>3 DEF StartedAgo
    <3>4. CASE windows[key].left = 1
      <4>1. StartedAgo(windows, key)' = -1
        BY <3>2, <3>4 DEF StartedAgo, IsCurrent
      <4> QED BY <2>1, <2>2, <3>2, <3>3, <3>4, <4>1
    <3>5. CASE windows[key].left # 1
      <4>1. windows'[key].left > 0
        BY <2>1, <3>1, <3>2, <3>5
      <4>2. StartedAgo(windows, key)' = WindowOfKey(key) - windows'[key].left
        BY <3>2, <4>1 DEF StartedAgo, IsCurrent
      <4>3. StartedAgo(windows, key)' = StartedAgo(windows, key) + 1
        BY <2>1, <3>1, <3>2, <3>3, <4>2
      <4>4. StartedAgo(windows, key) # -1 /\ StartedAgo(windows, key) # WindowOfKey(key) - 1
        BY <2>1, <3>1, <3>3, <3>5
      <4> QED BY <2>2, <3>2, <4>3, <4>4
    <3> QED BY <3>4, <3>5
  <2>4. CASE ~IsCurrent(windows, key)
    <3>1. ~IsCurrent(windows, key)'
      <4> SUFFICES ASSUME key \in DOMAIN windows', windows'[key].left > 0 PROVE FALSE
        BY DEF IsCurrent
      <4>0. key \in DOMAIN windows
        BY <1>2
      <4>1. windows'[key].left = Left(windows[key].left) /\ windows[key].left \in 0..WindowOfKey(key)
        <5>1. windows'[key].left = Left(windows[key].left)
          BY <1>2, <4>0
        <5>2. windows[key].left \in 0..WindowOfKey(key)
          BY <1>0, <4>0 DEF WindowsCount
        <5> QED BY <5>1, <5>2
      <4>2. ~(windows[key].left > 0)
        BY <2>4, <4>0, <4>1 DEF IsCurrent
      <4> QED BY <2>1, <4>1, <4>2 DEF Left
    <3>2. StartedAgo(windows, key)' = -1 /\ StartedAgo(windows, key) = -1
      BY <2>4, <3>1 DEF StartedAgo
    <3> QED BY <2>2, <3>2
  <2> QED BY <2>3, <2>4
<1>8. ASSUME NEW key \in ScanKeys PROVE KeyHolds(key)'
  <2> DEFINE ago == StartedAgo(windows, key)
             told == findingAge[key]
             next == StartedAgo(windows, key)'
             since == findingAge'[key]
  <2>1. /\ ago \in Int /\ ago >= -1 /\ ago < WindowOfKey(key)
        /\ next = (IF ago = -1 \/ ago = WindowOfKey(key) - 1 THEN -1 ELSE ago + 1)
        /\ ago >= 0 => windows'[key].items = windows[key].items
    BY <1>7
  <2>2. told \in 0..Longest /\ since \in 0..Longest /\ since <= told + 1
    BY <1>0, <1>3
  <2>3. next \in Int /\ (next >= 0 => ago >= 0)
    BY <2>1, Lengths
  <2>4. CASE key[1] = "flood"
    <3> DEFINE total == Tally(windows[key].items, DOMAIN windows[key].items)
               total2 == Tally(windows'[key].items, DOMAIN windows'[key].items)
               counts == attempts[key[2]]
    <3>1. /\ FloodHolds(ago, total, counts, told) /\ WindowOfKey(key) = FloodWindow /\ key[2] \in Sources
      BY <1>0, <2>4, KeyFlood
    <3>2. counts \in AttemptCounts /\ attempts'[key[2]] = Aged(counts)
      BY <1>5, <3>1
    <3>3. next >= 0 => total2 = total
      BY <2>1, <2>3
    <3>4. ago >= 0 => total \in Nat
      BY <1>0, <2>1, AgoIs
    <3>5. KeyHolds(key)' <=> FloodHolds(next, total2, attempts'[key[2]], since)
      BY <2>4, KeyNext
    <3>6. WindowOfKey(key) = FloodWindow
      BY <3>1
    <3> HIDE DEF ago, told, next, since, total, total2, counts
    <3>7. ASSUME NEW n \in Nat, ago >= 0 => n = total
          PROVE  FloodHolds(next, n, Aged(counts), since)
      <4>1. FloodHolds(ago, n, counts, told)
        BY <3>1, <3>7 DEF FloodHolds
      <4>2. next = (IF ago = -1 \/ ago = FloodWindow - 1 THEN -1 ELSE ago + 1) /\ ago < FloodWindow
        BY <2>1, <3>6
      <4> QED BY <2>1, <2>2, <2>3, <3>2, <4>1, <4>2, FloodTicks
    <3>8. FloodHolds(next, total2, Aged(counts), since)
      <4>1. CASE ago >= 0
        <5>1. FloodHolds(next, total, Aged(counts), since)
          BY <3>4, <3>7, <4>1
        <5> QED BY <3>3, <5>1 DEF FloodHolds
      <4>2. CASE ~(ago >= 0)
        <5>1. FloodHolds(next, 0, Aged(counts), since)
          BY <3>7, <4>2
        <5>2. ~(next >= 0)
          BY <2>3, <4>2
        <5> QED BY <5>1, <5>2 DEF FloodHolds
      <4> QED BY <4>1, <4>2
    <3> QED BY <3>2, <3>5, <3>8
  <2>5. CASE key[1] # "flood"
    <3> DEFINE items == DOMAIN windows[key].items
               items2 == DOMAIN windows'[key].items
    <3>1. PatternHolds(key, ago, items, probeAge, told)
      BY <1>0, <2>5, KeyPattern
    <3>2. KeyHolds(key)' <=> PatternHolds(key, next, items2, probeAge', since)
      BY <2>5, KeyNext
    <3>3. next >= 0 => items2 = items
      BY <2>1, <2>3
    <3> HIDE DEF ago, told, next, since, items, items2
    <3>4. PatternHolds(key, next, items, probeAge', since)
      BY <1>0, <1>3, <2>1, <2>2, <2>3, <2>5, <3>1, PatternTicks
    <3>5. PatternHolds(key, next, items2, probeAge', since)
      BY <3>3, <3>4 DEF PatternHolds
    <3> QED BY <3>2, <3>5
  <2> QED BY <2>4, <2>5
<1>9. FindingsAreSound'
  BY <1>3 DEF FindingsAreSound
<1>10. (sweepLeft \in 0..SweepInterval)' /\ (made \in 0..MaxProbes)'
  BY <1>0, <1>a DEF ScanTick, Left
<1> QED BY <1>2, <1>3, <1>4, <1>6, <1>8, <1>9, <1>10, ScanWholeNext DEF ScanPieces

\* What an inspection does to every key.
InspectedSo(p) ==
    /\ WindowsCount(windows')
    /\ \A k \in KeysOf(p) :
          /\ CountedOnce(windows, windows', k, CountItem(p, k))
          /\ Measure(windows'[k], k) >= Threshold(k) => findingAge'[k] <= Cooldown - 1
          /\ findingAge'[k] = findingAge[k] \/ Measure(windows'[k], k) >= Threshold(k)
    /\ \A k \in ScanKeys \ KeysOf(p) :
          /\ StartedAgo(windows', k) = StartedAgo(windows, k)
          /\ IsCurrent(windows, k) => windows'[k] = windows[k]
          /\ findingAge'[k] = findingAge[k]
    /\ \A k \in ScanKeys : findingAge'[k] \in 0..Longest /\ findingAge'[k] <= findingAge[k]

LEMMA InspectDoes ==
    ASSUME ScanAssumption, ScanInv, NEW p \in Probes, Inspect(p)
    PROVE  /\ InspectedSo(p)
           /\ lastReported' \in Logs /\ PausesHold(lastReported, {})'
           /\ findingAge' \in [ScanKeys -> 0..Longest]
<1> DEFINE end == Observed(p)
           K == KeysOf(p)
<1>0. /\ WindowsCount(windows) /\ lastReported \in Logs /\ PausesHold(lastReported, {})
      /\ findingAge \in [ScanKeys -> 0..Longest]
  BY ScanParts
<1>a. Longest \in Nat /\ Cooldown \in Nat \ {0}
  BY DEF Longest, ScanAssumption
<1>1. ObservedSo(end, K, p)
  BY <1>0, ObservedDoes
<1>2. /\ lastReported' = end.log /\ windows' \in {end.entries, Swept(end.entries)}
      /\ findingAge' = [k \in ScanKeys |-> IF k \in end.found THEN 0 ELSE findingAge[k]]
  BY DEF Inspect
<1> HIDE DEF end, K
<1>3. /\ WindowsCount(end.entries) /\ end.log \in Logs /\ PausesHold(end.log, end.found)
      /\ end.found \subseteq K
      /\ \A k \in K : /\ CountedOnce(windows, end.entries, k, CountItem(p, k))
                      /\ DueFound(end.entries, end.found, k) /\ Sound(end.entries, end.found, k)
      /\ \A k \in ScanKeys \ K : Untouched(windows, end.entries, k)
  BY <1>1 DEF ObservedSo
<1>4. /\ WindowsCount(windows')
      /\ \A k \in ScanKeys :
            /\ IsCurrent(windows', k) <=> IsCurrent(end.entries, k)
            /\ StartedAgo(windows', k) = StartedAgo(end.entries, k)
            /\ IsCurrent(end.entries, k) => windows'[k] = end.entries[k]
  BY <1>2, <1>3, SweptSame
<1>5. \A k \in ScanKeys : /\ findingAge[k] \in 0..Longest
                          /\ findingAge'[k] = (IF k \in end.found THEN 0 ELSE findingAge[k])
  BY <1>0, <1>2
<1>6. /\ findingAge' \in [ScanKeys -> 0..Longest]
      /\ \A k \in ScanKeys : findingAge'[k] \in 0..Longest /\ findingAge'[k] <= findingAge[k]
  <2>1. \A k \in ScanKeys : findingAge'[k] \in 0..Longest /\ findingAge'[k] <= findingAge[k]
    BY <1>5, <1>a
  <2>2. findingAge' = [k \in ScanKeys |-> findingAge'[k]]
    BY <1>2
  <2> QED BY <2>1, <2>2
<1>7. K \subseteq ScanKeys
  BY KeysDiffer DEF K, KeysOf
<1>8. ASSUME NEW k \in K
      PROVE  /\ CountedOnce(windows, windows', k, CountItem(p, k))
             /\ Measure(windows'[k], k) >= Threshold(k) => findingAge'[k] <= Cooldown - 1
             /\ findingAge'[k] = findingAge[k] \/ Measure(windows'[k], k) >= Threshold(k)
  <2>1. k \in ScanKeys
    BY <1>7
  <2>2. CountedOnce(windows, end.entries, k, CountItem(p, k))
    BY <1>3
  <2>3. IsCurrent(end.entries, k)
    BY <2>2 DEF CountedOnce
  <2>4. /\ windows'[k] = end.entries[k] /\ IsCurrent(windows', k)
        /\ StartedAgo(windows', k) = StartedAgo(end.entries, k)
    BY <1>4, <2>1, <2>3
  <2>5. CountedOnce(windows, windows', k, CountItem(p, k))
    BY <2>2, <2>3, <2>4 DEF CountedOnce
  <2>6. Measure(windows'[k], k) >= Threshold(k) => findingAge'[k] <= Cooldown - 1
    <3>1. Measure(windows'[k], k) >= Threshold(k) => k \in end.found \/ findingAge[k] <= Cooldown - 1
      BY <1>3, <2>4 DEF DueFound
    <3> QED BY <1>5, <1>a, <2>1, <3>1
  <2>7. findingAge'[k] = findingAge[k] \/ Measure(windows'[k], k) >= Threshold(k)
    <3>1. k \in end.found => Measure(windows'[k], k) >= Threshold(k)
      BY <1>3, <2>4 DEF Sound
    <3> QED BY <1>5, <2>1, <3>1
  <2> QED BY <2>5, <2>6, <2>7
<1>9. ASSUME NEW k \in ScanKeys \ K
      PROVE  /\ StartedAgo(windows', k) = StartedAgo(windows, k)
             /\ IsCurrent(windows, k) => windows'[k] = windows[k]
             /\ findingAge'[k] = findingAge[k]
  <2>1. Untouched(windows, end.entries, k)
    BY <1>3
  <2>2. /\ IsCurrent(end.entries, k) <=> IsCurrent(windows, k)
        /\ StartedAgo(end.entries, k) = StartedAgo(windows, k)
        /\ IsCurrent(windows, k) => end.entries[k] = windows[k]
    BY <2>1, UntouchedSame
  <2>3. k \notin end.found
    BY <1>3
  <2> QED BY <1>4, <1>5, <2>2, <2>3
<1>10. InspectedSo(p)
  BY <1>4, <1>6, <1>8, <1>9 DEF InspectedSo, K
<1>11. ASSUME NEW i \in DOMAIN lastReported', lastReported'[i].left > 0
       PROVE  findingAge'[lastReported'[i].key] <= Cooldown - lastReported'[i].left
  <2>1. end.log[i].key \in end.found \/ findingAge[end.log[i].key] <= Cooldown - end.log[i].left
    BY <1>2, <1>3, <1>11 DEF PausesHold
  <2>2. end.log[i].key \in ScanKeys /\ end.log[i].left \in 0..Cooldown
    <3> DEFINE Pair == [key : ScanKeys, left : 0..Cooldown]
    <3>1. end.log \in Seq(Pair) /\ i \in DOMAIN end.log
      BY <1>2, <1>3 DEF Logs
    <3>2. \A pair \in Pair : pair.key \in ScanKeys /\ pair.left \in 0..Cooldown
      OBVIOUS
    <3> HIDE DEF Pair
    <3>3. end.log[i] \in Pair
      BY <3>1
    <3> QED BY <3>2, <3>3
  <2> QED BY <1>2, <1>5, <1>a, <2>1, <2>2
<1>12. PausesHold(lastReported, {})'
  BY <1>11 DEF PausesHold
<1> QED BY <1>2, <1>3, <1>6, <1>10, <1>12

\* What a key saw after a step.
LEMMA SeenNext ==
    ASSUME NEW key \in ScanKeys
    PROVE  /\ key[1] = "flood" => Seen(key)' = Tally(attempts'[key[2]], Ages)
           /\ key[1] # "flood" =>
                Seen(key)' = Cardinality({p \in Probes : CountedFor(p, key) /\ probeAge'[p] < ScanWindow})
<1>1. ASSUME key[1] = "flood" PROVE Seen(key)' = Tally(attempts'[key[2]], Ages)
  BY <1>1, Zenon DEF Seen, Ages
<1>2. ASSUME key[1] # "flood"
      PROVE  Seen(key)' = Cardinality({p \in Probes : CountedFor(p, key) /\ probeAge'[p] < ScanWindow})
  BY <1>2, Zenon DEF Seen
<1> QED BY <1>1, <1>2

\* A key of ports or hosts.
LEMMA PatternInspected ==
    ASSUME ScanAssumption, ScanInv, NEW p \in Probes, InspectedSo(p),
           probeAge' = [probeAge EXCEPT ![p] = 0], NEW key \in ScanKeys, key[1] # "flood"
    PROVE  /\ KeyHolds(key)'
           /\ findingAge'[key] = 0 => Seen(key)' >= Threshold(key)
<1> DEFINE ago == StartedAgo(windows, key)
           next == StartedAgo(windows', key)
           items == DOMAIN windows[key].items
           items2 == DOMAIN windows'[key].items
           age == probeAge
           later == probeAge'
           told == findingAge[key]
           since == findingAge'[key]
           seen == {q \in Probes : CountedFor(q, key) /\ age[q] < ScanWindow}
           seen2 == {q \in Probes : CountedFor(q, key) /\ later[q] < ScanWindow}
<1>0. /\ WindowsCount(windows) /\ findingAge \in [ScanKeys -> 0..Longest] /\ probeAge \in [Probes -> 0..Longest]
      /\ KeyHolds(key) /\ FindingsAreSound
  BY ScanParts
<1>a. /\ WindowOfKey(key) = ScanWindow /\ WindowOfKey(key) \in Nat \ {0}
      /\ Threshold(key) \in Nat \ {0} /\ Longest \in Nat
  BY Lengths, KeyPattern
<1>1. ago \in Int /\ ago >= -1 /\ ago < WindowOfKey(key) /\ (ago = -1 <=> ~IsCurrent(windows, key))
  BY <1>0, AgoIs
<1>2. /\ PatternHolds(key, ago, items, age, told)
      /\ Seen(key) = Cardinality(seen)
      /\ \A entry : Measure(entry, key) = Cardinality(DOMAIN entry.items)
      /\ key \in KeysOf(p) <=> CountedFor(p, key)
      /\ CountItem(p, key) = ItemOf(p, key)
  BY <1>0, KeyPattern
<1>3. /\ KeyHolds(key)' <=> PatternHolds(key, next, items2, later, since)
      /\ Seen(key)' = Cardinality(seen2)
  BY KeyNext, SeenNext
<1>4. told \in 0..Longest /\ since \in 0..Longest /\ since <= told
  BY <1>0 DEF InspectedSo
<1>5. told = 0 => Seen(key) >= Threshold(key)
  BY <1>0 DEF FindingsAreSound
<1>6. /\ later = [age EXCEPT ![p] = 0] /\ later \in [Probes -> 0..Longest]
      /\ \A q \in Probes : later[q] = (IF q = p THEN 0 ELSE age[q])
  BY <1>0, <1>a
<1>7. Cardinality(seen2) >= Cardinality(seen) /\ Cardinality(seen) \in Nat /\ Cardinality(seen2) \in Nat
  <2>1. seen \in SUBSET seen2 /\ seen2 \in SUBSET Probes
    BY <1>0, <1>6, <1>a
  <2> HIDE DEF seen, seen2
  <2> QED BY <2>1, FewerTold
<1>8. CASE key \in KeysOf(p)
  <2>1. /\ next = (IF ago = -1 THEN 0 ELSE ago)
        /\ items2 = (IF ago = -1 THEN {} ELSE items) \cup {ItemOf(p, key)}
    BY <1>2, <1>8 DEF InspectedSo, CountedOnce
  <2>2. /\ Cardinality(items2) >= Threshold(key) => since <= Cooldown - 1
        /\ since = told \/ Cardinality(items2) >= Threshold(key)
    <3>1. Measure(windows'[key], key) = Cardinality(items2)
      BY <1>2
    <3> QED BY <1>8, <3>1 DEF InspectedSo
  <2>3. CountedFor(p, key) /\ age \in [Probes -> 0..Longest]
    BY <1>0, <1>2, <1>8
  <2>4. /\ PatternHolds(key, next, items2, later, since)
        /\ Cardinality(items2) = Cardinality(Inside(key, next, later))
    <3> HIDE DEF ago, next, items, items2, age, later, told, since
    <3>1. /\ ago \in Int /\ ago >= -1 /\ ago < WindowOfKey(key)
          /\ age \in ProbeAges /\ told \in 0..Longest /\ since \in 0..Longest
          /\ PatternHolds(key, ago, items, age, told)
      BY <1>1, <1>2, <1>4, <2>3 DEF ProbeAges
    <3>2. CountedFor(p, key) /\ since <= told
      BY <1>4, <2>3
    <3>3. next = Started(ago) /\ items2 = WithItem(ago, items, ItemOf(p, key))
      BY <2>1 DEF Started, WithItem
    <3>4. later = JustMade(age, p) /\ (Cardinality(items2) >= Threshold(key) => since <= Cooldown - 1)
      BY <1>6, <2>2 DEF JustMade
    <3>5. PatternHolds(key, next, items2, later, since)
      BY <3>1, <3>2, <3>3, <3>4, PatternCounts
    <3>6. Cardinality(items2) = Cardinality(Inside(key, next, later))
      BY <3>1, <3>2, <3>3, <3>4, PatternCounts
    <3> QED BY <3>5, <3>6
  <2>5. Cardinality(seen2) >= Cardinality(items2)
    <3>1. next \in Int /\ next < ScanWindow
      BY <1>1, <1>a, <2>1
    <3>2. Inside(key, next, later) \in SUBSET seen2 /\ seen2 \in SUBSET Probes
      <4> HIDE DEF next, later
      <4> QED BY <1>6, <1>a, <3>1 DEF Inside
    <3> DEFINE inside == Inside(key, next, later)
    <3>3. Cardinality(items2) = Cardinality(inside) /\ inside \in SUBSET seen2 /\ seen2 \in SUBSET Probes
      BY <2>4, <3>2
    <3> HIDE DEF seen2, inside, items2
    <3>4. Cardinality(inside) <= Cardinality(seen2)
      BY <3>3, FewerTold
    <3> QED BY <3>3, <3>4
  <2>6. since = 0 => Seen(key)' >= Threshold(key)
    <3>1. CASE since = told
      <4> HIDE DEF told, since, seen, seen2
      <4> QED BY <1>2, <1>3, <1>5, <1>7, <1>a, <3>1
    <3>2. CASE Cardinality(items2) >= Threshold(key)
      <4>1. Cardinality(items2) \in Nat
        <5>1. Inside(key, next, later) \in SUBSET Probes
          BY DEF Inside
        <5> DEFINE inside == Inside(key, next, later)
        <5> HIDE DEF inside
        <5>2. Cardinality(inside) \in Nat
          BY <5>1, FewerTold DEF inside
        <5> QED BY <2>4, <5>2 DEF inside
      <4> HIDE DEF items2, seen2, since
      <4> QED BY <1>3, <1>7, <1>a, <2>5, <3>2, <4>1
    <3> QED BY <2>2, <3>1, <3>2
  <2> QED BY <1>3, <2>4, <2>6
<1>9. CASE key \notin KeysOf(p)
  <2>1. /\ next = ago /\ (IsCurrent(windows, key) => windows'[key] = windows[key]) /\ since = told
    BY <1>9 DEF InspectedSo
  <2>2. ago >= 0 => items2 = items
    <3>1. ago >= 0 => IsCurrent(windows, key)
      BY <1>1
    <3> QED BY <2>1, <3>1
  <2>3. \A q \in Probes : CountedFor(q, key) => later[q] = age[q]
    BY <1>2, <1>6, <1>9
  <2>4. PatternHolds(key, ago, items2, later, told)
    <3> HIDE DEF ago, next, items, items2, age, later, told, since
    <3> QED BY <1>1, <1>2, <2>2, <2>3, PatternKeeps
  <2>5. PatternHolds(key, next, items2, later, since)
    BY <2>1, <2>4
  <2>6. since = 0 => Seen(key)' >= Threshold(key)
    <3> HIDE DEF told, since, seen, seen2
    <3> QED BY <1>2, <1>3, <1>5, <1>7, <1>a, <2>1
  <2> QED BY <1>3, <2>5, <2>6
<1> QED BY <1>8, <1>9

\* A key of attempts.
LEMMA FloodInspected ==
    ASSUME ScanAssumption, ScanInv, NEW p \in Probes, InspectedSo(p),
           attempts' = [attempts EXCEPT ![p.source][0] = AtMost(@ + 1, SynFloodAttempts)],
           NEW key \in ScanKeys, key[1] = "flood"
    PROVE  /\ KeyHolds(key)'
           /\ findingAge'[key] = 0 => Seen(key)' >= Threshold(key)
           /\ attempts'[key[2]] \in AttemptCounts
<1> DEFINE ago == StartedAgo(windows, key)
           next == StartedAgo(windows', key)
           total == Tally(windows[key].items, DOMAIN windows[key].items)
           total2 == Tally(windows'[key].items, DOMAIN windows'[key].items)
           sum == IF ago = -1 THEN 0 ELSE total
           counts == attempts[key[2]]
           later == attempts'[key[2]]
           told == findingAge[key]
           since == findingAge'[key]
<1>0. /\ WindowsCount(windows) /\ findingAge \in [ScanKeys -> 0..Longest]
      /\ attempts \in [Sources -> AttemptCounts] /\ KeyHolds(key) /\ FindingsAreSound
  BY ScanParts
<1>a. SynFloodAttempts \in Nat \ {0} /\ Longest \in Nat /\ Cooldown \in Nat \ {0} /\ 0 \in Ages
  BY AgesAre
<1>1. ago \in Int /\ ago >= -1 /\ ago < WindowOfKey(key) /\ (ago = -1 <=> ~IsCurrent(windows, key))
  BY <1>0, AgoIs
<1>2. /\ FloodHolds(ago, total, counts, told) /\ Seen(key) = Tally(counts, Ages)
      /\ WindowOfKey(key) = FloodWindow /\ Threshold(key) = SynFloodAttempts /\ key[2] \in Sources
      /\ \A entry : Measure(entry, key) = Tally(entry.items, DOMAIN entry.items)
      /\ key \in KeysOf(p) <=> p.source = key[2]
  BY <1>0, KeyFlood
<1>3. /\ KeyHolds(key)' <=> FloodHolds(next, total2, later, since)
      /\ Seen(key)' = Tally(later, Ages)
  BY KeyNext, SeenNext
<1>4. told \in 0..Longest /\ since \in 0..Longest /\ since <= told
  BY <1>0 DEF InspectedSo
<1>5. told = 0 => Seen(key) >= Threshold(key)
  BY <1>0 DEF FindingsAreSound
<1>6. counts \in AttemptCounts
  BY <1>0, <1>2
<1>7. sum \in Nat /\ FloodHolds(ago, sum, counts, told)
  <2>1. CASE ago = -1
    <3>1. sum = 0
      BY <2>1
    <3> HIDE DEF ago, total, sum, counts, told
    <3> QED BY <1>2, <2>1, <3>1 DEF FloodHolds
  <2>2. CASE ago # -1
    <3>1. sum = total
      BY <2>2
    <3>2. total \in Nat
      BY <1>0, <1>1, <2>2, AgoIs
    <3> HIDE DEF ago, total, sum, counts, told
    <3> QED BY <1>2, <3>1, <3>2
  <2> QED BY <2>1, <2>2
<1>8. CASE key \in KeysOf(p)
  <2>1. /\ next = (IF ago = -1 THEN 0 ELSE ago) /\ total2 = sum + 1
    BY <1>8 DEF InspectedSo, CountedOnce
  <2>2. /\ total2 >= SynFloodAttempts => since <= Cooldown - 1
        /\ since = told \/ total2 >= SynFloodAttempts
    <3>1. Measure(windows'[key], key) = total2
      BY <1>2
    <3> QED BY <1>2, <1>8, <3>1 DEF InspectedSo
  <2>3. later = [counts EXCEPT ![0] = AtMost(@ + 1, SynFloodAttempts)]
    <3>1. p.source = key[2]
      BY <1>2, <1>8
    <3> QED BY <1>0, <1>2, <3>1
  <2>4. FloodHolds(next, total2, later, since) /\ later \in AttemptCounts
    <3>1. next = Started(ago) /\ total2 = WithOne(ago, sum) /\ ago < FloodWindow
      BY <1>1, <1>2, <2>1 DEF Started, WithOne
    <3> HIDE DEF ago, next, total, total2, sum, counts, later, told, since
    <3>2. /\ counts \in AttemptCounts /\ ago \in Int /\ ago >= -1 /\ sum \in Nat
          /\ told \in 0..Longest /\ since \in 0..Longest /\ since <= told
          /\ FloodHolds(ago, sum, counts, told)
      BY <1>1, <1>4, <1>6, <1>7
    <3>3. later = OneLater(counts) /\ (total2 >= SynFloodAttempts => since <= Cooldown - 1)
      BY <2>2, <2>3 DEF OneLater
    <3> QED BY <3>1, <3>2, <3>3, FloodCounts
  <2>5. Tally(later, Ages) >= Tally(counts, Ages) /\ Tally(counts, Ages) \in Nat /\ Tally(later, Ages) \in Nat
    <3>1. \A a \in Ages : counts[a] \in 0..SynFloodAttempts /\ counts[a] <= later[a]
      <4> HIDE DEF counts, later
      <4> QED BY <1>6, <1>a, <2>3 DEF AttemptCounts, AtMost
    <3>2. NatOn(counts, Ages) /\ NatOn(later, Ages) /\ IsFiniteSet(Ages)
          /\ Total(counts, Ages) \in Nat /\ Total(later, Ages) \in Nat
      <4> HIDE DEF counts, later
      <4> QED BY <1>6, <2>4, AgesAre
    <3> HIDE DEF counts, later
    <3>3. Total(counts, Ages) <= Total(later, Ages)
      BY <3>1, <3>2, TotalLess
    <3> QED BY <3>2, <3>3, TallyIs
  <2>6. since = 0 => Seen(key)' >= Threshold(key)
    <3>1. CASE since = told
      <4> HIDE DEF told, since, counts, later
      <4> QED BY <1>2, <1>3, <1>5, <1>a, <2>5, <3>1
    <3>2. CASE total2 >= SynFloodAttempts
      <4>1. next \in Int /\ next >= 0 /\ next < FloodWindow /\ total2 \in Nat
        <5> HIDE DEF ago, next, total2, sum
        <5>1. FloodWindow \in Nat \ {0}
          BY AgesAre
        <5> QED BY <1>1, <1>2, <1>7, <2>1, <5>1
      <4>2. Tally(later, Ages) >= SynFloodAttempts
        <5> HIDE DEF next, total2, later, since
        <5> QED BY <1>4, <2>4, <3>2, <4>1, FloodFound
      <4> QED BY <1>2, <1>3, <4>2
    <3> QED BY <2>2, <3>1, <3>2
  <2> QED BY <1>3, <2>4, <2>6
<1>9. CASE key \notin KeysOf(p)
  <2>1. /\ next = ago /\ (IsCurrent(windows, key) => windows'[key] = windows[key]) /\ since = told
    BY <1>9 DEF InspectedSo
  <2>2. ago >= 0 => total2 = total
    <3>1. ago >= 0 => IsCurrent(windows, key)
      BY <1>1
    <3> QED BY <2>1, <3>1
  <2>3. later = counts
    <3>1. p.source # key[2]
      BY <1>2, <1>9
    <3> QED BY <1>0, <1>2, <3>1
  <2>4. FloodHolds(next, total2, later, since)
    <3> HIDE DEF ago, next, total, total2, sum, counts, later, told, since
    <3> QED BY <1>2, <2>1, <2>2, <2>3 DEF FloodHolds
  <2>6. since = 0 => Seen(key)' >= Threshold(key)
    <3> HIDE DEF told, since, counts, later
    <3> QED BY <1>2, <1>3, <1>5, <2>1, <2>3
  <2> QED BY <1>3, <1>6, <2>3, <2>4, <2>6
<1> QED BY <1>8, <1>9

LEMMA ScanInspects == ASSUME ScanAssumption, ScanInv, NEW p \in Probes, Inspect(p) PROVE ScanInv'
<1>0. /\ attempts \in [Sources -> AttemptCounts] /\ probeAge \in [Probes -> 0..Longest]
      /\ sweepLeft \in 0..SweepInterval /\ made \in 0..MaxProbes
  BY ScanParts
<1>1. /\ InspectedSo(p) /\ lastReported' \in Logs /\ PausesHold(lastReported, {})'
      /\ findingAge' \in [ScanKeys -> 0..Longest]
  BY InspectDoes
<1>2. /\ probeAge' = [probeAge EXCEPT ![p] = 0]
      /\ attempts' = [attempts EXCEPT ![p.source][0] = AtMost(@ + 1, SynFloodAttempts)]
  BY DEF Inspect
<1>3. WindowsCount(windows)'
  BY <1>1 DEF InspectedSo
<1>4. probeAge' \in [Probes -> 0..Longest]
  <2>1. 0 \in 0..Longest
    BY AgesAre
  <2> QED BY <1>0, <1>2, <2>1
<1>5. \A key \in ScanKeys : KeyHolds(key)' /\ (findingAge'[key] = 0 => Seen(key)' >= Threshold(key))
  <2> SUFFICES ASSUME NEW key \in ScanKeys
               PROVE  KeyHolds(key)' /\ (findingAge'[key] = 0 => Seen(key)' >= Threshold(key))
    OBVIOUS
  <2>1. CASE key[1] = "flood"
    BY <1>1, <1>2, <2>1, FloodInspected
  <2>2. CASE key[1] # "flood"
    BY <1>1, <1>2, <2>2, PatternInspected
  <2> QED BY <2>1, <2>2
<1>6. attempts' \in [Sources -> AttemptCounts]
  <2>1. FloodKey(p) \in ScanKeys /\ FloodKey(p)[1] = "flood" /\ FloodKey(p)[2] = p.source /\ p.source \in Sources
    BY KeysDiffer DEF FloodKey, Sources
  <2> DEFINE key == FloodKey(p)
  <2>2. key \in ScanKeys /\ key[1] = "flood" /\ key[2] = p.source
    BY <2>1
  <2> HIDE DEF key
  <2>3. attempts'[p.source] \in AttemptCounts
    BY <1>1, <1>2, <2>2, FloodInspected
  <2>4. \A s \in Sources : s # p.source => attempts'[s] = attempts[s]
    BY <1>0, <1>2
  <2>5. attempts' = [s \in Sources |-> attempts'[s]]
    BY <1>0, <1>2
  <2>6. \A s \in Sources : attempts'[s] \in AttemptCounts
    BY <1>0, <2>3, <2>4
  <2> QED BY <2>5, <2>6
<1>7. FindingsAreSound'
  BY <1>5 DEF FindingsAreSound
<1>8. sweepLeft' \in 0..SweepInterval /\ made' \in 0..MaxProbes
  <2>1. SweepInterval \in Nat /\ MaxProbes \in Nat
    BY DEF ScanAssumption
  <2> QED BY <1>0, <2>1 DEF Inspect
<1> QED BY <1>1, <1>3, <1>4, <1>5, <1>6, <1>7, <1>8, ScanWholeNext DEF ScanPieces

LEMMA ScanStep == ASSUME ScanAssumption PROVE ScanInv /\ [ScanNext]_scanVars => ScanInv'
<1> SUFFICES ASSUME ScanInv, [ScanNext]_scanVars PROVE ScanInv'
  OBVIOUS
<1>1. ASSUME NEW p \in Probes, Inspect(p) PROVE ScanInv'
  BY <1>1, ScanInspects
<1>2. CASE ResetEngine
  BY <1>2, ScanResets
<1>3. CASE ScanTick
  BY <1>3, ScanTicks
<1>4. CASE UNCHANGED scanVars
  <2>1. ScanPieces
    BY ScanParts DEF ScanPieces
  <2>2. ScanPieces'
    <3>1. /\ windows' = windows /\ lastReported' = lastReported /\ sweepLeft' = sweepLeft
          /\ probeAge' = probeAge /\ attempts' = attempts /\ findingAge' = findingAge /\ made' = made
      BY <1>4 DEF scanVars
    <3>2. \A key \in ScanKeys : KeyHolds(key)'
      <4> SUFFICES ASSUME NEW key \in ScanKeys PROVE KeyHolds(key)'
        OBVIOUS
      <4>1. KeyHolds(key)
        BY <2>1 DEF ScanPieces
      <4> QED BY <3>1, <4>1, KeyNext, KeyFlood, KeyPattern
    <3>3. FindingsAreSound'
      <4> SUFFICES ASSUME NEW key \in ScanKeys, findingAge'[key] = 0 PROVE Seen(key)' >= Threshold(key)
        BY DEF FindingsAreSound
      <4>1. Seen(key) >= Threshold(key)
        BY <2>1, <3>1 DEF ScanPieces, FindingsAreSound
      <4> QED BY <3>1, <4>1, SeenNext, KeyFlood, KeyPattern
    <3>4. PausesHold(lastReported, {})'
      BY <2>1, <3>1 DEF ScanPieces, PausesHold
    <3> QED BY <2>1, <3>1, <3>2, <3>3, <3>4 DEF ScanPieces
  <2> QED BY <2>2, ScanWholeNext
<1> QED BY <1>1, <1>2, <1>3, <1>4 DEF ScanNext

-----------------------------------------------------------------------------
(* Contacts *)

\* What a contact matches is a sequence.
LEMMA MatchesAre ==
    ASSUME NEW c
    PROVE  /\ Matches(c) \in Seq({DomainKey(c), AddressKey(c, c.target), AddressKey(c, c.source)})
           /\ DOMAIN Matches(c) = 1..Len(Matches(c)) /\ Len(Matches(c)) \in Nat
<1> DEFINE K == {DomainKey(c), AddressKey(c, c.target), AddressKey(c, c.source)}
           p == IF c.via = "query" /\ c.question # NoQuestion /\ IsListed(c.question) THEN <<DomainKey(c)>> ELSE <<>>
           q == IF IsListed(c.target) THEN <<AddressKey(c, c.target)>> ELSE <<>>
           r == IF IsListed(c.source) THEN <<AddressKey(c, c.source)>> ELSE <<>>
<1>1. p \in Seq(K) /\ q \in Seq(K) /\ r \in Seq(K)
  <2> DEFINE a == DomainKey(c)
             b == AddressKey(c, c.target)
             d == AddressKey(c, c.source)
  <2>1. a \in K /\ b \in K /\ d \in K
    OBVIOUS
  <2>2. p \in {<<a>>, <<>>} /\ q \in {<<b>>, <<>>} /\ r \in {<<d>>, <<>>}
    OBVIOUS
  <2> HIDE DEF K, a, b, d, p, q, r
  <2>3. <<a>> \in Seq(K) /\ <<b>> \in Seq(K) /\ <<d>> \in Seq(K) /\ <<>> \in Seq(K)
    BY <2>1
  <2> QED BY <2>2, <2>3
<1>2. Matches(c) = p \o q \o r
  BY DEF Matches
<1> HIDE DEF K, p, q, r
<1>3. Matches(c) \in Seq(K)
  BY <1>1, <1>2
<1>4. DOMAIN Matches(c) = 1..Len(Matches(c)) /\ Len(Matches(c)) \in Nat
  BY <1>3
<1> QED BY <1>3, <1>4 DEF K

\* The least of some positions in a sequence.
LEMMA LeastPosition ==
    ASSUME NEW n \in Nat, NEW S \in SUBSET (1..n), S # {}
    PROVE  Min(S) \in S
<1> DEFINE T == {n - x : x \in S}
<1>1. T \in SUBSET (0..n) /\ T # {}
  <2>1. \A x \in S : x \in Nat /\ 1 <= x /\ x <= n
    OBVIOUS
  <2>2. \A x \in S : n - x \in 0..n
    BY <2>1
  <2> QED BY <2>2
<1>2. IsFiniteSet(T)
  <2>1. IsFiniteSet(0..n)
    BY FS_Interval
  <2> HIDE DEF T
  <2> QED BY <1>1, <2>1, FS_Subset
<1>3. \E y \in T : \A z \in T : y >= z
  <2> HIDE DEF T
  <2>1. T \in SUBSET Nat
    BY <1>1
  <2> QED BY <1>1, <1>2, <2>1, LargestOf
<1>4. PICK x \in S : \A y \in S : n - x >= n - y
  BY <1>3
<1>5. \A y \in S : x <= y
  BY <1>4
<1>6. \E z \in S : \A y \in S : z <= y
  BY <1>5
<1> QED BY <1>6 DEF Min

\* What is raised was not pausing; and of a table that raises nothing, why.
LEMMA RaisedAre ==
    ASSUME NEW c, NEW t \in Tables
    PROVE  /\ Raised(c)[t] = <<>> \/ Raised(c)[t] = <<Head(Raised(c)[t])>>
           /\ Raised(c)[t] # <<>> => ~IsPausing(t, Head(Raised(c)[t]))
           /\ t = "packet" /\ c.via # "flow" /\ Raised(c)[t] = <<>> =>
                \A i \in DOMAIN Matches(c) : IsPausing("packet", Matches(c)[i])
           /\ t = "flow" /\ c.via = "flow" /\ Raised(c)[t] = <<>> =>
                Matches(c) = <<>> \/ IsPausing("flow", Head(Matches(c)))
           /\ t = "tunnel" => (Raised(c)[t] # <<>> <=> TunnelRaises(c))
           /\ t = "tunnel" /\ Raised(c)[t] # <<>> => Head(Raised(c)[t]) = TunnelKey(c)
<1>1. CASE t = "packet"
  <2> DEFINE ended == {i \in DOMAIN Matches(c) : ~IsPausing("packet", Matches(c)[i])}
  <2>1. Raised(c)[t] = IF c.via = "flow" \/ ended = {} THEN <<>> ELSE <<Matches(c)[Min(ended)]>>
    BY <1>1 DEF Raised, PacketRaises
  <2>2. ended # {} => Min(ended) \in ended
    BY MatchesAre, LeastPosition
  <2> QED BY <1>1, <2>1, <2>2
<1>2. CASE t = "flow"
  <2>1. Raised(c)[t] = IF c.via = "flow" THEN FlowRaises(c) ELSE <<>>
    BY <1>2 DEF Raised
  <2> QED BY <1>2, <2>1 DEF FlowRaises
<1>3. CASE t = "tunnel"
  <2>1. Raised(c)[t] = IF TunnelRaises(c) THEN <<TunnelKey(c)>> ELSE <<>>
    BY <1>3 DEF Raised
  <2> QED BY <1>3, <2>1 DEF TunnelRaises
<1> QED BY <1>1, <1>2, <1>3 DEF Tables

\* The stamps of a table.
LEMMA PausesAre ==
    ASSUME ContactAssumption, NEW t \in Tables
    PROVE  /\ Pause(t) \in Nat \ {0} /\ Cap(t) \in Nat /\ Pause(t) <= Cap(t) /\ MaxPairings \in Nat \ {0}
           /\ ContactPause \in Nat \ {0} /\ TunnelPause \in Nat \ {0} /\ TunnelWindow \in Nat \ {0}
           /\ Cap("tunnel") = TunnelPause + TunnelWindow /\ Pause("tunnel") = TunnelPause
<1>1. /\ ContactPause \in Nat \ {0} /\ TunnelPause \in Nat \ {0} /\ TunnelWindow \in Nat \ {0}
      /\ MaxPairings \in Nat \ {0}
  BY DEF ContactAssumption
<1>2. Pause(t) \in {ContactPause, TunnelPause} /\ Cap(t) \in {Pause(t), Pause(t) + TunnelWindow}
  BY DEF Pause, Cap
<1>3. Cap("tunnel") = TunnelPause + TunnelWindow /\ Pause("tunnel") = TunnelPause
  BY <1>1 DEF Pause, Cap
<1> QED BY <1>1, <1>2, <1>3

\* The stamps that are kept are indexed from one, and each has its key and what is left.
LEMMA LogIndexed ==
    ASSUME NEW t \in Tables, NEW log, NEW ages, StampsKept(t, log, ages)
    PROVE  /\ Len(log) \in Nat /\ DOMAIN log = 1..Len(log)
           /\ \A i \in DOMAIN log : /\ log[i] = [key |-> log[i].key, left |-> log[i].left]
                                    /\ log[i].key \in DOMAIN ages /\ log[i].left \in 0..Pause(t)
<1> DEFINE R == [key : DOMAIN ages, left : 0..Pause(t)]
<1>1. log \in Seq(R)
  BY DEF StampsKept
<1> HIDE DEF R
<1>2. Len(log) \in Nat /\ DOMAIN log = 1..Len(log) /\ \A i \in DOMAIN log : log[i] \in R
  BY <1>1
<1> QED BY <1>2 DEF R

\* As many silences as stamps.
LEMMA LogFits ==
    ASSUME NEW t \in Tables, NEW log, NEW ages, StampsKept(t, log, ages)
    PROVE  Len(log) <= Cardinality(DOMAIN ages) /\ Cardinality(DOMAIN ages) \in Nat
<1> DEFINE n == Len(log)
           f == [i \in 1..n |-> log[i].key]
           D == DOMAIN ages
<1>1. n \in Nat /\ DOMAIN log = 1..n /\ \A i \in 1..n : log[i].key \in D
  BY LogIndexed
<1>2. IsFiniteSet(D) /\ \A i, j \in 1..n : log[i].key = log[j].key => i = j
  BY <1>1 DEF StampsKept
<1>3. f \in Injection(1..n, D)
  BY <1>1, <1>2 DEF Injection, IsInjective
<1>4. Cardinality(1..n) = n /\ IsFiniteSet(1..n)
  BY <1>1, FS_Interval
<1> HIDE DEF f, D
<1>5. Cardinality(1..n) <= Cardinality(D)
  BY <1>2, <1>3, FS_Injection
<1> QED BY <1>2, <1>4, <1>5, FS_CardinalityType DEF D

\* A stamp that is put down now is kept as one more key that was raised no time ago.
LEMMA StampAdded ==
    ASSUME ContactAssumption, NEW t \in Tables, StampsHold(t), NEW k, NEW one, one = <<k>>
    PROVE  StampsKept(t, WithStamp(t, k), Struck(silence[t], one))
<1> DEFINE log == tables[t]
           ages == silence[t]
           more == Struck(ages, one)
           stamp == [key |-> k, left |-> Pause(t)]
           new == WithStamp(t, k)
           P == Pause(t)
           R == [key : DOMAIN ages, left : 0..P]
           Q == [key : DOMAIN more, left : 0..P]
<1>1. StampsKept(t, log, ages)
  BY DEF StampsHold
<1>2. /\ Len(log) \in Nat /\ DOMAIN log = 1..Len(log) /\ Len(log) <= MaxPairings /\ log \in Seq(R)
      /\ \A i \in DOMAIN log : log[i].key \in DOMAIN ages
  BY <1>1, LogIndexed DEF StampsKept
<1>3. P \in Nat \ {0} /\ Cap(t) \in Nat /\ P <= Cap(t) /\ MaxPairings \in Nat \ {0}
  BY PausesAre
<1>4. /\ DOMAIN more = DOMAIN ages \cup {k} /\ more[k] = 0
      /\ \A x \in DOMAIN ages : x # k => more[x] = ages[x]
      /\ more \in [DOMAIN more -> 0..Cap(t)] /\ IsFiniteSet(DOMAIN more)
  <2>1. ages \in [DOMAIN ages -> 0..Cap(t)] /\ IsFiniteSet(DOMAIN ages)
    BY <1>1 DEF StampsKept
  <2>2. more = [x \in DOMAIN ages \cup {k} |-> IF x = k THEN 0 ELSE ages[x]]
    BY DEF Struck
  <2> HIDE DEF more
  <2>3. IsFiniteSet(DOMAIN ages \cup {k})
    BY <2>1, FS_AddElement
  <2> QED BY <1>3, <2>1, <2>2, <2>3
<1>5. R \subseteq Q /\ stamp \in Q
  BY <1>3, <1>4
<1>6. new = IF \E i \in DOMAIN log : log[i].key = k
            THEN [i \in DOMAIN log |-> IF log[i].key = k THEN stamp ELSE log[i]]
            ELSE Append(IF Len(log) < MaxPairings THEN log ELSE Tail(log), stamp)
  BY DEF WithStamp
<1>7. \A i \in DOMAIN log : log[i].left = IF ages[log[i].key] < P THEN P - ages[log[i].key] ELSE 0
  BY <1>1 DEF StampsKept
<1>8. \A i, j \in DOMAIN log : log[i].key = log[j].key => i = j
  BY <1>1 DEF StampsKept
<1>9. Cardinality(DOMAIN ages) <= MaxPairings => \A x \in DOMAIN ages : \E i \in DOMAIN log : log[i].key = x
  BY <1>1 DEF StampsKept
<1>10. Len(log) <= Cardinality(DOMAIN ages) /\ Cardinality(DOMAIN ages) \in Nat
  BY <1>1, LogFits
<1>s. stamp.key = k /\ stamp.left = P
  OBVIOUS
<1>a. log \in Seq(Q)
  <2> HIDE DEF R, Q, log
  <2> QED BY <1>2, <1>5
<1> HIDE DEF log, ages, more, stamp, new, P, R, Q
<1>11. CASE \E i \in DOMAIN log : log[i].key = k
  <2>1. new = [i \in 1..Len(log) |-> IF log[i].key = k THEN stamp ELSE log[i]]
    BY <1>2, <1>6, <1>11
  <2>2. \A i \in 1..Len(log) : log[i] \in Q
    BY <1>a, <1>2
  <2>3. new \in Seq(Q) /\ Len(new) = Len(log) /\ DOMAIN new = DOMAIN log
    BY <1>2, <1>5, <2>1, <2>2
  <2>4. \A i \in DOMAIN new : new[i].key = log[i].key
    BY <1>2, <1>s, <2>1
  <2>5. \A i \in DOMAIN new : new[i].left = IF more[new[i].key] < P THEN P - more[new[i].key] ELSE 0
    <3> SUFFICES ASSUME NEW i \in DOMAIN log
                 PROVE  new[i].left = IF more[log[i].key] < P THEN P - more[log[i].key] ELSE 0
      BY <2>3, <2>4
    <3>1. CASE log[i].key = k
      BY <1>2, <1>3, <1>4, <1>s, <2>1, <3>1
    <3>2. CASE log[i].key # k
      BY <1>2, <1>4, <1>7, <2>1, <3>2
    <3> QED BY <3>1, <3>2
  <2>6. DOMAIN more = DOMAIN ages
    BY <1>2, <1>4, <1>11
  <2>7. Cardinality(DOMAIN more) <= MaxPairings => \A x \in DOMAIN more : \E i \in DOMAIN new : new[i].key = x
    BY <1>9, <2>3, <2>4, <2>6
  <2>8. \A i, j \in DOMAIN new : new[i].key = new[j].key => i = j
    BY <1>8, <2>3, <2>4
  <2> QED BY <1>2, <1>4, <2>3, <2>5, <2>7, <2>8 DEF StampsKept, P, Q, new, more, ages
<1>12. CASE ~\E i \in DOMAIN log : log[i].key = k
  <2> DEFINE base == IF Len(log) < MaxPairings THEN log ELSE Tail(log)
             shift == IF Len(log) < MaxPairings THEN 0 ELSE 1
             n == Len(base)
  <2>1. new = Append(base, stamp)
    BY <1>6, <1>12
  <2>2. base \in Seq(Q) /\ n \in Nat /\ n < MaxPairings /\ DOMAIN base = 1..n
        /\ \A i \in 1..n : base[i] = log[i + shift] /\ i + shift \in DOMAIN log
    <3>1. CASE Len(log) < MaxPairings
      BY <1>2, <1>a, <3>1
    <3>2. CASE ~(Len(log) < MaxPairings)
      <4>1. log # <<>>
        BY <1>2, <1>3, <3>2
      <4>2. Tail(log) \in Seq(Q) /\ Len(Tail(log)) = Len(log) - 1 /\ \A i \in 1..(Len(log) - 1) : Tail(log)[i] = log[i + 1]
        BY <1>2, <1>a, <4>1
      <4> QED BY <1>2, <1>3, <3>2, <4>2
    <3> QED BY <3>1, <3>2
  <2>3. shift \in {0, 1} /\ (shift = 0 <=> Len(log) < MaxPairings) /\ (shift = 0 => base = log)
    OBVIOUS
  <2> HIDE DEF base, shift
  <2>4. /\ new \in Seq(Q) /\ Len(new) = n + 1 /\ DOMAIN new = 1..(n + 1)
        /\ new[n + 1] = stamp /\ \A i \in 1..n : new[i] = base[i]
    <3> HIDE DEF n
    <3>1. Len(base) = n
      BY DEF n
    <3> QED BY <1>5, <2>1, <2>2, <3>1
  <2> HIDE DEF n
  <2>5. \A i \in DOMAIN new : (i = n + 1 /\ new[i] = stamp) \/ (i \in 1..n /\ i + shift \in DOMAIN log /\ new[i] = log[i + shift])
    BY <2>2, <2>4
  <2>6. \A i \in DOMAIN new : new[i].left = IF more[new[i].key] < P THEN P - more[new[i].key] ELSE 0
    <3> SUFFICES ASSUME NEW i \in DOMAIN new
                 PROVE  new[i].left = IF more[new[i].key] < P THEN P - more[new[i].key] ELSE 0
      OBVIOUS
    <3>1. CASE new[i] = stamp
      BY <1>3, <1>4, <1>s, <3>1
    <3>2. CASE i + shift \in DOMAIN log /\ new[i] = log[i + shift]
      BY <1>2, <1>4, <1>7, <1>12, <3>2
    <3> QED BY <2>5, <3>1, <3>2
  <2>7. \A i, j \in DOMAIN new : new[i].key = new[j].key => i = j
    <3> SUFFICES ASSUME NEW i \in DOMAIN new, NEW j \in DOMAIN new, new[i].key = new[j].key PROVE i = j
      OBVIOUS
    <3>1. CASE new[i] = stamp /\ i = n + 1
      <4>1. ~(j \in 1..n /\ j + shift \in DOMAIN log /\ new[j] = log[j + shift])
        BY <1>12, <1>s, <3>1
      <4> QED BY <2>5, <3>1, <4>1
    <3>2. CASE i \in 1..n /\ i + shift \in DOMAIN log /\ new[i] = log[i + shift]
      <4>1. ~(new[j] = stamp)
        BY <1>12, <1>s, <3>2
      <4>2. j \in 1..n /\ j + shift \in DOMAIN log /\ new[j] = log[j + shift]
        BY <2>5, <4>1
      <4>3. i + shift = j + shift
        BY <1>8, <3>2, <4>2
      <4> QED BY <2>2, <2>3, <3>2, <4>2, <4>3
    <3> QED BY <2>5, <3>1, <3>2
  <2>8. Cardinality(DOMAIN more) <= MaxPairings => \A x \in DOMAIN more : \E i \in DOMAIN new : new[i].key = x
    <3> SUFFICES ASSUME Cardinality(DOMAIN more) <= MaxPairings, NEW x \in DOMAIN more PROVE \E i \in DOMAIN new : new[i].key = x
      OBVIOUS
    <3>1. k \notin DOMAIN ages /\ Len(log) < MaxPairings /\ \A y \in DOMAIN ages : \E i \in DOMAIN log : log[i].key = y
      <4>1. Cardinality(DOMAIN ages) <= Cardinality(DOMAIN more) /\ Cardinality(DOMAIN more) \in Nat
        BY <1>4, FS_Subset, FS_CardinalityType
      <4>2. \A y \in DOMAIN ages : \E i \in DOMAIN log : log[i].key = y
        BY <1>3, <1>9, <1>10, <4>1
      <4>3. k \notin DOMAIN ages
        BY <1>12, <4>2
      <4>4. Cardinality(DOMAIN more) = Cardinality(DOMAIN ages) + 1
        BY <1>1, <1>4, <4>3, FS_AddElement DEF StampsKept
      <4>5. Len(log) < MaxPairings
        BY <1>2, <1>3, <1>10, <4>1, <4>4
      <4> QED BY <4>2, <4>3, <4>5
    <3>2. shift = 0 /\ base = log
      BY <2>3, <3>1
    <3>3. CASE x = k
      <4>1. n + 1 \in DOMAIN new /\ new[n + 1] = stamp
        BY <2>2, <2>4
      <4> QED BY <1>s, <3>3, <4>1
    <3>4. CASE x # k
      <4>1. PICK i \in DOMAIN log : log[i].key = x
        BY <1>4, <3>1, <3>4
      <4>2. i \in 1..n
        BY <2>2, <3>2
      <4> QED BY <2>2, <2>4, <3>2, <4>1, <4>2
    <3> QED BY <3>3, <3>4
  <2>9. Len(new) <= MaxPairings
    BY <1>3, <2>2, <2>4
  <2> QED BY <1>4, <2>4, <2>6, <2>7, <2>8, <2>9 DEF StampsKept, P, Q, new, more, ages
<1> QED BY <1>11, <1>12

\* Nothing was stamped, and nothing was raised.
LEMMA NothingStamped ==
    ASSUME ContactAssumption, NEW t \in Tables
    PROVE  StampsKept(t, <<>>, <<>>)
<1>1. DOMAIN <<>> = {} /\ Len(<<>>) = 0 /\ Cardinality({}) = 0 /\ IsFiniteSet({})
  BY FS_EmptySet
<1>2. 0 <= MaxPairings
  BY PausesAre
<1>3. <<>> \in Seq([key : DOMAIN <<>>, left : 0..Pause(t)])
  <2> DEFINE R == [key : DOMAIN <<>>, left : 0..Pause(t)]
  <2> HIDE DEF R
  <2>1. <<>> \in Seq(R)
    OBVIOUS
  <2> QED BY <2>1 DEF R
<1>4. <<>> \in [DOMAIN <<>> -> 0..Cap(t)]
  BY <1>1
<1> QED BY <1>1, <1>2, <1>3, <1>4 DEF StampsKept

\* One tick later.
LEMMA StampsAge ==
    ASSUME ContactAssumption, NEW t \in Tables, NEW log, NEW ages, StampsKept(t, log, ages)
    PROVE  StampsKept(t, RunDown(log), Older(t, ages))
<1> DEFINE P == Pause(t)
           C == Cap(t)
           D == DOMAIN ages
           new == RunDown(log)
           later == Older(t, ages)
           Q == [key : DOMAIN later, left : 0..P]
<1>2. /\ Len(log) \in Nat /\ DOMAIN log = 1..Len(log)
      /\ \A i \in DOMAIN log : /\ log[i] = [key |-> log[i].key, left |-> log[i].left]
                               /\ log[i].key \in D /\ log[i].left \in 0..P
  BY LogIndexed
<1>3. P \in Nat \ {0} /\ C \in Nat /\ P <= C
  BY PausesAre
<1>4. ages \in [D -> 0..C]
  BY DEF StampsKept
<1>5. DOMAIN later = D /\ \A k \in D : later[k] = IF ages[k] < C THEN ages[k] + 1 ELSE C
  BY DEF Older, Later
<1>k. later \in [D -> 0..C]
  <2>1. later = [k \in D |-> later[k]]
    BY DEF Older
  <2>2. \A k \in D : later[k] \in 0..C
    BY <1>3, <1>4, <1>5
  <2> HIDE DEF later, D, C
  <2> QED BY <2>1, <2>2
<1>6. DOMAIN new = DOMAIN log /\ \A i \in DOMAIN log : new[i] = [log[i] EXCEPT !.left = Sooner(@)]
  BY DEF RunDown
<1>a. \A i \in DOMAIN log : new[i] = [key |-> log[i].key, left |-> Sooner(log[i].left)]
  <2> SUFFICES ASSUME NEW i \in DOMAIN log PROVE new[i] = [key |-> log[i].key, left |-> Sooner(log[i].left)]
    OBVIOUS
  <2> DEFINE a == log[i].key
             b == log[i].left
  <2>1. new[i] = [[key |-> a, left |-> b] EXCEPT !.left = Sooner(@)]
    BY <1>2, <1>6
  <2> HIDE DEF a, b
  <2>2. new[i] = [key |-> a, left |-> Sooner(b)]
    BY <2>1
  <2> QED BY <2>2 DEF a, b
<1> HIDE DEF new, later, D
<1>b. \A i \in DOMAIN log : /\ new[i].key = log[i].key
                            /\ new[i].left = (IF log[i].left = 0 THEN 0 ELSE log[i].left - 1)
                            /\ new[i] = [key |-> new[i].key, left |-> new[i].left]
  <2> SUFFICES ASSUME NEW i \in DOMAIN log
               PROVE  /\ new[i].key = log[i].key
                      /\ new[i].left = (IF log[i].left = 0 THEN 0 ELSE log[i].left - 1)
                      /\ new[i] = [key |-> new[i].key, left |-> new[i].left]
    OBVIOUS
  <2> DEFINE a == log[i].key
             b == Sooner(log[i].left)
             r == new[i]
  <2>1. r = [key |-> a, left |-> b]
    BY <1>a
  <2> HIDE DEF a, b, r
  <2>2. r.key = a /\ r.left = b /\ r = [key |-> r.key, left |-> r.left]
    BY <2>1
  <2> QED BY <2>2 DEF a, b, r, Sooner
<1>7. \A i \in DOMAIN log : new[i] \in Q
  <2> SUFFICES ASSUME NEW i \in DOMAIN log PROVE new[i] \in Q
    OBVIOUS
  <2> DEFINE a == new[i].key
             b == new[i].left
             r == new[i]
  <2>1. a \in DOMAIN later
    BY <1>2, <1>5, <1>b
  <2>2. b \in 0..P
    <3>1. log[i].left \in 0..P
      BY <1>2
    <3>2. b = (IF log[i].left = 0 THEN 0 ELSE log[i].left - 1)
      BY <1>b
    <3> HIDE DEF b, P
    <3> QED BY <1>3, <3>1, <3>2
  <2>3. r = [key |-> a, left |-> b]
    BY <1>b
  <2> HIDE DEF a, b, r, P
  <2> QED BY <2>1, <2>2, <2>3 DEF r, P
<1>n. new = [i \in 1..Len(log) |-> new[i]]
  BY <1>2, <1>6 DEF new, RunDown
<1> HIDE DEF Q
<1>8. new \in Seq(Q) /\ Len(new) = Len(log)
  BY <1>2, <1>7, <1>n
<1>9. \A i \in DOMAIN log : log[i].left = IF ages[log[i].key] < P THEN P - ages[log[i].key] ELSE 0
  BY DEF StampsKept
<1>10. \A i \in DOMAIN new : new[i].left = IF later[new[i].key] < P THEN P - later[new[i].key] ELSE 0
  <2> SUFFICES ASSUME NEW i \in DOMAIN log PROVE new[i].left = IF later[log[i].key] < P THEN P - later[log[i].key] ELSE 0
    BY <1>6, <1>b
  <2> DEFINE a == ages[log[i].key]
             b == later[log[i].key]
             l == log[i].left
             m == new[i].left
  <2>1. a \in Nat /\ a <= C
    BY <1>2, <1>3, <1>4
  <2>2. b = IF a < C THEN a + 1 ELSE C
    BY <1>2, <1>5
  <2>3. l = IF a < P THEN P - a ELSE 0
    BY <1>9
  <2>4. m = IF l = 0 THEN 0 ELSE l - 1
    BY <1>b
  <2> HIDE DEF a, b, l, m, P, C
  <2>5. m = IF b < P THEN P - b ELSE 0
    BY <1>3, <2>1, <2>2, <2>3, <2>4
  <2> QED BY <2>5 DEF b, m
<1>11. \A i, j \in DOMAIN new : new[i].key = new[j].key => i = j
  BY <1>6, <1>b DEF StampsKept, D
<1>12. Cardinality(D) <= MaxPairings => \A k \in D : \E i \in DOMAIN new : new[i].key = k
  BY <1>6, <1>b DEF StampsKept, D
<1>13. Len(log) <= MaxPairings /\ IsFiniteSet(D)
  BY DEF StampsKept, D
<1> QED BY <1>5, <1>k, <1>8, <1>10, <1>11, <1>12, <1>13 DEF StampsKept, Q, new, later

\* A key that is pausing was raised less than a pause ago; one that is not, no sooner, while
\* there is room.
LEMMA PausingIs ==
    ASSUME ContactAssumption, NEW t \in Tables, StampsHold(t), NEW k
    PROVE  /\ IsPausing(t, k) => k \in DOMAIN silence[t] /\ silence[t][k] < Pause(t)
           /\ ~IsPausing(t, k) /\ Cardinality(DOMAIN silence[t]) <= MaxPairings => SilentFor(t, k) >= Pause(t)
<1> DEFINE log == tables[t]
           ages == silence[t]
           P == Pause(t)
<1>1. StampsKept(t, log, ages)
  BY DEF StampsHold
<1>2. \A i \in DOMAIN log : /\ log[i].key \in DOMAIN ages
                            /\ log[i].left = IF ages[log[i].key] < P THEN P - ages[log[i].key] ELSE 0
  BY <1>1, LogIndexed DEF StampsKept
<1>3. P \in Nat \ {0} /\ Cap(t) \in Nat /\ P <= Cap(t) /\ ages \in [DOMAIN ages -> 0..Cap(t)]
  BY <1>1, PausesAre DEF StampsKept
<1>4. ASSUME IsPausing(t, k) PROVE k \in DOMAIN ages /\ ages[k] < P
  <2>1. PICK i \in DOMAIN log : log[i].key = k /\ log[i].left > 0
    BY <1>4 DEF IsPausing
  <2> QED BY <1>2, <1>3, <2>1
<1>5. ASSUME ~IsPausing(t, k), Cardinality(DOMAIN ages) <= MaxPairings PROVE SilentFor(t, k) >= P
  <2>1. CASE k \in DOMAIN ages
    <3>1. PICK i \in DOMAIN log : log[i].key = k
      BY <1>1, <1>5, <2>1 DEF StampsKept
    <3>2. ~(log[i].left > 0)
      BY <1>5, <3>1 DEF IsPausing
    <3>3. ages[k] \in Nat
      BY <1>3, <2>1
    <3>4. ages[k] >= P
      BY <1>2, <1>3, <3>1, <3>2, <3>3
    <3> QED BY <2>1, <3>4 DEF SilentFor
  <2>2. CASE k \notin DOMAIN ages
    BY <1>3, <2>2 DEF SilentFor
  <2> QED BY <2>1, <2>2
<1> QED BY <1>4, <1>5

\* Who asks, and for what.
LEMMA AskerIs ==
    ASSUME ContactAssumption, NEW a \in Askers
    PROVE  a = <<a[1], a[2]>> /\ a[2] \in DOMAIN Questions
<1>1. PICK c \in Contacts : c.question # NoQuestion /\ a = <<c.source, c.question>>
  BY DEF Askers
<1>2. c.question \in DOMAIN Questions
  BY <1>1 DEF ContactAssumption
<1> QED BY <1>1, <1>2
\* A question names its asker, and is counted under the name above the one that is asked.
LEMMA QuestionIs ==
    ASSUME ContactAssumption, NEW c \in Contacts, IsQuestion(c)
    PROVE  /\ <<c.source, c.question>> \in Askers /\ AskerKey(<<c.source, c.question>>) = TunnelKey(c)
           /\ c.question \in DOMAIN Questions /\ TunnelKey(c)[1] = c.source
<1>1. c.question \in DOMAIN Questions /\ <<c.source, c.question>> \in Askers
  BY DEF ContactAssumption, IsQuestion, Askers
<1> QED BY <1>1 DEF AskerKey, TunnelKey

\* What is in a window was asked within it, so there is an end of it; and there are as many
\* names as were asked for.
LEMMA WindowsFinite ==
    ContactAssumption /\ WindowsHold =>
        \A k :
            /\ IsFiniteSet(InWindow(k)) /\ IsFiniteSet(BeforeWindow(k))
            /\ InWindow(k) \subseteq {a \in Askers : askedAgo[a] < TunnelWindow}
            /\ BeforeWindow(k) \subseteq {a \in Askers : askedAgo[a] < TunnelWindow}
<1> SUFFICES ASSUME ContactAssumption, WindowsHold, NEW k
             PROVE  /\ IsFiniteSet(InWindow(k)) /\ IsFiniteSet(BeforeWindow(k))
                    /\ InWindow(k) \subseteq {a \in Askers : askedAgo[a] < TunnelWindow}
                    /\ BeforeWindow(k) \subseteq {a \in Askers : askedAgo[a] < TunnelWindow}
  OBVIOUS
<1> DEFINE F == {a \in Askers : askedAgo[a] < TunnelWindow}
<1>1. IsFiniteSet(F) /\ TunnelWindow \in Nat \ {0}
  BY DEF WindowsHold, ContactAssumption
<1>2. \A a \in Askers : IsHeld(a) => askedAgo[a] < TunnelWindow
  <2> SUFFICES ASSUME NEW a \in Askers, IsHeld(a) PROVE askedAgo[a] < TunnelWindow
    OBVIOUS
  <2>1. AskerKey(a) \in DOMAIN names /\ names[AskerKey(a)].left \in 1..TunnelWindow
    BY DEF IsHeld, WindowsHold
  <2>2. askedAgo[a] \in 0..TunnelWindow /\ askedAgo[a] <= TunnelWindow - names[AskerKey(a)].left
    BY <2>1 DEF WindowsHold
  <2> QED BY <1>1, <2>1, <2>2
<1>3. InWindow(k) \subseteq F /\ BeforeWindow(k) \subseteq F
  BY <1>2 DEF InWindow, BeforeWindow, Signed
<1> HIDE DEF F
<1>4. IsFiniteSet(InWindow(k)) /\ IsFiniteSet(BeforeWindow(k))
  BY <1>1, <1>3, FS_Subset
<1> QED BY <1>3, <1>4 DEF F
\* The same after a step.
LEMMA WindowsFiniteNext ==
    (ContactAssumption /\ WindowsHold =>
        \A k :
            /\ IsFiniteSet(InWindow(k)) /\ IsFiniteSet(BeforeWindow(k))
            /\ InWindow(k) \subseteq {a \in Askers : askedAgo[a] < TunnelWindow}
            /\ BeforeWindow(k) \subseteq {a \in Askers : askedAgo[a] < TunnelWindow})'
BY WindowsFinite, PTL

\* The names a window holds are finitely many.
LEMMA ItemsFinite ==
    ContactAssumption /\ WindowsHold =>
        \A k \in DOMAIN names :
            /\ IsFiniteSet(names[k].items) /\ Cardinality(names[k].items) \in Nat
            /\ Cardinality(InWindow(k)) <= Cardinality(names[k].items)
            /\ \A q \in names[k].items : /\ <<k[1], q>> \in Askers /\ AskerKey(<<k[1], q>>) = k
                                         /\ askedAgo[<<k[1], q>>] < TunnelWindow
<1> SUFFICES ASSUME ContactAssumption, WindowsHold, NEW k \in DOMAIN names
             PROVE  /\ IsFiniteSet(names[k].items) /\ Cardinality(names[k].items) \in Nat
                    /\ Cardinality(InWindow(k)) <= Cardinality(names[k].items)
                    /\ \A q \in names[k].items : /\ <<k[1], q>> \in Askers /\ AskerKey(<<k[1], q>>) = k
                                                 /\ askedAgo[<<k[1], q>>] < TunnelWindow
  OBVIOUS
<1> DEFINE I == names[k].items
           F == {a \in Askers : askedAgo[a] < TunnelWindow}
           J == {<<k[1], q>> : q \in I}
           f == [q \in I |-> <<k[1], q>>]
           g == [a \in J |-> a[2]]
<1>1. IsFiniteSet(F) /\ TunnelWindow \in Nat \ {0} /\ names[k].left \in 1..TunnelWindow
  BY DEF WindowsHold, ContactAssumption
<1>2. \A q \in I : <<k[1], q>> \in Askers /\ AskerKey(<<k[1], q>>) = k
  BY DEF WindowsHold
<1>3. \A q \in I : askedAgo[<<k[1], q>>] < TunnelWindow
  <2> SUFFICES ASSUME NEW q \in I PROVE askedAgo[<<k[1], q>>] < TunnelWindow
    OBVIOUS
  <2> DEFINE a == <<k[1], q>>
  <2>1. a \in Askers /\ AskerKey(a) = k /\ a[2] = q
    BY <1>2
  <2> HIDE DEF a
  <2>2. IsHeld(a)
    BY <2>1 DEF IsHeld
  <2>3. askedAgo[a] \in 0..TunnelWindow /\ askedAgo[a] <= TunnelWindow - names[k].left
    BY <2>1, <2>2 DEF WindowsHold
  <2>4. askedAgo[a] < TunnelWindow
    BY <1>1, <2>3
  <2> QED BY <2>4 DEF a
<1>4. J \subseteq F
  BY <1>2, <1>3
<1>5. g \in Surjection(J, I)
  <2>1. \A a \in J : g[a] \in I
    OBVIOUS
  <2>2. \A q \in I : <<k[1], q>> \in J /\ g[<<k[1], q>>] = q
    OBVIOUS
  <2> QED BY <2>1, <2>2 DEF Surjection
<1>6. f \in Surjection(I, J)
  BY DEF Surjection
<1>7. InWindow(k) \subseteq J
  <2> SUFFICES ASSUME NEW a \in InWindow(k) PROVE a \in J
    OBVIOUS
  <2>1. a \in Askers /\ AskerKey(a) = k /\ a[2] \in I
    BY DEF InWindow, Signed, IsHeld
  <2>2. a = <<a[1], a[2]>> /\ k[1] = a[1]
    BY <2>1, AskerIs DEF AskerKey
  <2> QED BY <2>1, <2>2
<1> HIDE DEF I, F, J, f, g
<1>8. IsFiniteSet(J)
  BY <1>1, <1>4, FS_Subset
<1>9. IsFiniteSet(I)
  BY <1>5, <1>8, FS_Surjection
<1>10. Cardinality(J) <= Cardinality(I)
  BY <1>6, <1>9, FS_Surjection
<1>11. Cardinality(InWindow(k)) <= Cardinality(J) /\ IsFiniteSet(InWindow(k))
  BY <1>7, <1>8, FS_Subset
<1>12. Cardinality(I) \in Nat /\ Cardinality(J) \in Nat /\ Cardinality(InWindow(k)) \in Nat
  BY <1>8, <1>9, <1>11, FS_CardinalityType
<1>13. Cardinality(InWindow(k)) <= Cardinality(I)
  BY <1>10, <1>11, <1>12
<1> QED BY <1>2, <1>3, <1>9, <1>12, <1>13 DEF I
\* The same after a step.
LEMMA ItemsFiniteNext ==
    (ContactAssumption /\ WindowsHold =>
        \A k \in DOMAIN names :
            /\ IsFiniteSet(names[k].items) /\ Cardinality(names[k].items) \in Nat
            /\ Cardinality(InWindow(k)) <= Cardinality(names[k].items)
            /\ \A q \in names[k].items : /\ <<k[1], q>> \in Askers /\ AskerKey(<<k[1], q>>) = k
                                         /\ askedAgo[<<k[1], q>>] < TunnelWindow)'
BY ItemsFinite, PTL

\* Fewer names, each asked for no sooner: they were told of as well.
LEMMA StillToldOf ==
    ASSUME NEW k, NEW S, NEW T \in SUBSET S, IsFiniteSet(S), DistinctNames \in Nat,
           NEW ages, NEW asked, NEW older, NEW since, WasToldOf(k, S, ages, asked),
           k \in DOMAIN ages => k \in DOMAIN older /\ \A a \in T : older[k] - since[a] <= ages[k] - asked[a],
           k \in DOMAIN ages => ages[k] \in Int /\ older[k] \in Int,
           \A a \in T : asked[a] \in Int /\ since[a] \in Int, TunnelPause \in Int
    PROVE  WasToldOf(k, T, older, since)
<1> SUFFICES ASSUME Cardinality(T) >= DistinctNames
             PROVE  k \in DOMAIN older /\ \A a \in T : older[k] < TunnelPause + since[a]
  BY DEF WasToldOf
<1>1. Cardinality(T) \in Nat /\ Cardinality(S) \in Nat /\ Cardinality(T) <= Cardinality(S)
  BY FS_Subset, FS_CardinalityType
<1>2. Cardinality(S) >= DistinctNames
  BY <1>1
<1>3. k \in DOMAIN ages /\ \A a \in S : ages[k] < TunnelPause + asked[a]
  BY <1>2 DEF WasToldOf
<1>4. ASSUME NEW a \in T PROVE older[k] < TunnelPause + since[a]
  <2> DEFINE p == ages[k]
             q == older[k]
             r == asked[a]
             s == since[a]
  <2>1. p \in Int /\ q \in Int /\ r \in Int /\ s \in Int /\ p < TunnelPause + r /\ q - s <= p - r
    BY <1>3
  <2> HIDE DEF p, q, r, s
  <2>2. q < TunnelPause + s
    BY <2>1
  <2> QED BY <2>2 DEF q, s
<1> QED BY <1>3, <1>4
\* None of few.
LEMMA NoneToldOf ==
    ASSUME ContactAssumption, NEW k, NEW ages, NEW asked
    PROVE  WasToldOf(k, {}, ages, asked)
BY FS_EmptySet DEF WasToldOf, ContactAssumption

\* Where nothing was asked.
LEMMA NothingAsked ==
    ContactAssumption /\ names = <<>> /\ askedAgo = [a \in Askers |-> TunnelWindow] =>
        WindowsHold /\ \A k : ToldFor(k)
<1> SUFFICES ASSUME ContactAssumption, names = <<>>, askedAgo = [a \in Askers |-> TunnelWindow]
             PROVE  WindowsHold /\ \A k : ToldFor(k)
  OBVIOUS
<1>1. TunnelWindow \in Nat \ {0} /\ DOMAIN names = {}
  BY DEF ContactAssumption
<1>2. {a \in Askers : askedAgo[a] < TunnelWindow} = {}
  BY <1>1
<1>3. askedAgo \in [Askers -> 0..TunnelWindow]
  BY <1>1
<1>4. names \in [DOMAIN names -> [items : SUBSET DOMAIN Questions, left : 1..TunnelWindow]]
  BY <1>1
<1>5. WindowsHold
  BY <1>1, <1>2, <1>3, <1>4, FS_EmptySet DEF WindowsHold
<1>6. \A k : InWindow(k) = {} /\ BeforeWindow(k) = {}
  BY <1>1, <1>2 DEF InWindow, BeforeWindow, Signed, IsHeld
<1> QED BY <1>5, <1>6, NoneToldOf DEF ToldFor
\* The same after a step.
LEMMA NothingAskedNext ==
    (ContactAssumption /\ names = <<>> /\ askedAgo = [a \in Askers |-> TunnelWindow] =>
        WindowsHold /\ \A k : ToldFor(k))'
BY NothingAsked, PTL

\* Of a window: the tables of reports are another matter.
LEMMA ContactStarts == ASSUME ContactAssumption, ContactInit PROVE ContactInv
<1>1. loaded \subseteq {Indicator[x] : x \in DOMAIN Indicator}
  BY DEF ContactInit
<1>2. observed \in 0..MaxContacts /\ listChanges \in 0..MaxListChanges
  BY DEF ContactInit, ContactAssumption
<1>3. DOMAIN tables = Tables /\ DOMAIN silence = Tables /\ \A t \in Tables : tables[t] = <<>> /\ silence[t] = <<>>
  BY DEF ContactInit
<1>4. \A t \in Tables : StampsHold(t)
  BY <1>3, NothingStamped DEF StampsHold
<1>5. WindowsHold /\ \A k : ToldFor(k)
  BY NothingAsked DEF ContactInit
<1> QED BY <1>1, <1>2, <1>3, <1>4, <1>5 DEF ContactInv

\* The detectors start afresh.
LEMMA ResetInv == ASSUME ContactAssumption, ContactInv, ResetPacketDetectors PROVE ContactInv'
<1>1. loaded' = loaded /\ observed' = observed /\ listChanges' = listChanges
  BY DEF ResetPacketDetectors
<1>2. DOMAIN tables = Tables /\ DOMAIN silence = Tables /\ \A t \in Tables : StampsKept(t, tables[t], silence[t])
  BY DEF ContactInv, StampsHold
<1>3. /\ DOMAIN tables' = Tables /\ DOMAIN silence' = Tables
      /\ \A t \in Tables : \/ tables'[t] = tables[t] /\ silence'[t] = silence[t]
                           \/ tables'[t] = <<>> /\ silence'[t] = <<>>
  BY <1>2 DEF ResetPacketDetectors, Tables
<1>4. \A t \in Tables : StampsKept(t, tables'[t], silence'[t])
  BY <1>2, <1>3, NothingStamped
<1>5. (WindowsHold /\ \A k : ToldFor(k))'
  BY NothingAskedNext DEF ResetPacketDetectors
<1> QED BY <1>1, <1>3, <1>4, <1>5 DEF ContactInv, StampsHold

\* The list of indicators changes.
LEMMA ListChangesInv == ASSUME ContactAssumption, ContactInv, ListChanges PROVE ContactInv'
<1>1. UNCHANGED <<names, tables, askedAgo, silence, observed>>
  BY DEF ListChanges
<1>2. loaded' \subseteq {Indicator[x] : x \in DOMAIN Indicator}
  BY DEF ListChanges
<1>3. listChanges' \in 0..MaxListChanges
  BY DEF ListChanges, ContactInv, ContactAssumption
<1>4. (\A t \in Tables : StampsHold(t)) => (\A t \in Tables : StampsHold(t))'
  BY <1>1 DEF StampsHold
<1>5. WindowsHold => WindowsHold'
  BY <1>1 DEF WindowsHold, IsHeld
<1>6. (\A b \in Askers : ToldFor(AskerKey(b))) => (\A b \in Askers : ToldFor(AskerKey(b)))'
  BY <1>1 DEF ToldFor, InWindow, BeforeWindow, Signed, IsHeld
<1> QED BY <1>1, <1>2, <1>3, <1>4, <1>5, <1>6 DEF ContactInv

-----------------------------------------------------------------------------
(* A tick *)

\* The windows of names, when time passes: every entry is a tick older, and one that is old enough is gone.
LEMMA WindowsAge ==
    ASSUME ContactAssumption, WindowsHold, ContactTick
    PROVE  /\ WindowsHold'
           /\ \A a \in Askers : /\ askedAgo[a] \in 0..TunnelWindow /\ askedAgo'[a] \in 0..TunnelWindow
                                /\ askedAgo'[a] < TunnelWindow => askedAgo'[a] = askedAgo[a] + 1
           /\ \A k : \/ InWindow(k)' \subseteq InWindow(k) /\ BeforeWindow(k)' \subseteq BeforeWindow(k)
                     \/ InWindow(k)' = {} /\ BeforeWindow(k)' \subseteq InWindow(k)
<1> DEFINE W == TunnelWindow
           stays == {k \in DOMAIN names : names[k].left > 1}
<1>1. W \in Nat \ {0}
  BY DEF ContactAssumption
<1>2. askedAgo \in [Askers -> 0..W]
  BY DEF WindowsHold
<1>3. \A a \in Askers : askedAgo[a] \in 0..W /\ askedAgo'[a] = IF askedAgo[a] < W THEN askedAgo[a] + 1 ELSE W
  BY <1>2 DEF ContactTick, Later
<1>4. askedAgo' \in [Askers -> 0..W] /\ \A a \in Askers : askedAgo'[a] \in 0..W
  <2>1. \A a \in Askers : askedAgo'[a] \in 0..W
    BY <1>1, <1>3
  <2>2. askedAgo' = [a \in Askers |-> askedAgo'[a]]
    BY DEF ContactTick
  <2> QED BY <2>1, <2>2
<1>5. \A k \in DOMAIN names : /\ names[k].items \in SUBSET DOMAIN Questions /\ names[k].left \in 1..W
                              /\ names[k] = [items |-> names[k].items, left |-> names[k].left]
  BY DEF WindowsHold
<1>6. DOMAIN names' = stays /\ \A k \in stays : names'[k] = [names[k] EXCEPT !.left = @ - 1]
  BY DEF ContactTick
<1>7. \A k \in stays : /\ names'[k].items = names[k].items /\ names'[k].left = names[k].left - 1
                      /\ names'[k] = [items |-> names'[k].items, left |-> names'[k].left]
  <2> SUFFICES ASSUME NEW k \in stays
               PROVE  /\ names'[k].items = names[k].items /\ names'[k].left = names[k].left - 1
                      /\ names'[k] = [items |-> names'[k].items, left |-> names'[k].left]
    OBVIOUS
  <2> DEFINE a == names[k].items
             b == names[k].left
             r == names'[k]
  <2>1. r = [[items |-> a, left |-> b] EXCEPT !.left = @ - 1]
    BY <1>5, <1>6
  <2> HIDE DEF a, b, r
  <2>2. r = [items |-> a, left |-> b - 1]
    BY <2>1
  <2>3. r.items = a /\ r.left = b - 1 /\ r = [items |-> r.items, left |-> r.left]
    BY <2>2
  <2> QED BY <2>3 DEF a, b, r
<1>8. names' = [k \in DOMAIN names' |-> names'[k]]
  BY DEF ContactTick
<1>9. \A k \in stays : k \in DOMAIN names /\ names[k].left \in 2..W
  BY <1>1, <1>5
<1> HIDE DEF stays
<1>10. names' \in [DOMAIN names' -> [items : SUBSET DOMAIN Questions, left : 1..W]]
  <2> SUFFICES ASSUME NEW k \in DOMAIN names' PROVE names'[k] \in [items : SUBSET DOMAIN Questions, left : 1..W]
    BY <1>8
  <2> DEFINE a == names'[k].items
             b == names'[k].left
  <2>1. a \in SUBSET DOMAIN Questions
    BY <1>5, <1>6, <1>7, <1>9
  <2>2. b \in 1..W
    BY <1>1, <1>6, <1>7, <1>9
  <2>3. names'[k] = [items |-> a, left |-> b]
    BY <1>6, <1>7
  <2> HIDE DEF a, b
  <2> QED BY <2>1, <2>2, <2>3
<1>11. IsFiniteSet({a \in Askers : askedAgo'[a] < W})
  <2> DEFINE F == {a \in Askers : askedAgo[a] < W}
             G == {a \in Askers : askedAgo'[a] < W}
  <2>1. IsFiniteSet(F)
    BY DEF WindowsHold
  <2>2. G \subseteq F
    BY <1>1, <1>3
  <2> HIDE DEF F, G
  <2>3. IsFiniteSet(G)
    BY <2>1, <2>2, FS_Subset
  <2> QED BY <2>3 DEF G
<1>12. \A k \in DOMAIN names' : \A q \in names'[k].items : <<k[1], q>> \in Askers /\ AskerKey(<<k[1], q>>) = k
  BY <1>6, <1>7, <1>9 DEF WindowsHold
<1>13. \A a \in Askers : IsHeld(a)' <=> IsHeld(a) /\ AskerKey(a) \in stays
  BY <1>6, <1>7, <1>9 DEF IsHeld, AskerKey
<1>14. ASSUME NEW a \in Askers, AskerKey(a) \in DOMAIN names
       PROVE  IF IsHeld(a) THEN askedAgo[a] <= W - names[AskerKey(a)].left
              ELSE askedAgo[a] >= W - names[AskerKey(a)].left
  BY <1>14 DEF WindowsHold
<1>15. ASSUME NEW a \in Askers, AskerKey(a) \in stays
       PROVE  IF IsHeld(a)' THEN askedAgo'[a] <= W - names'[AskerKey(a)].left
              ELSE askedAgo'[a] >= W - names'[AskerKey(a)].left
  <2> DEFINE l == names[AskerKey(a)].left
             m == names'[AskerKey(a)].left
             x == askedAgo[a]
             y == askedAgo'[a]
  <2>1. l \in 2..W /\ m = l - 1 /\ x \in 0..W /\ y = (IF x < W THEN x + 1 ELSE W)
    BY <1>3, <1>7, <1>9, <1>15
  <2>2. (IsHeld(a)' <=> IsHeld(a)) /\ IF IsHeld(a) THEN x <= W - l ELSE x >= W - l
    BY <1>9, <1>13, <1>14, <1>15
  <2> HIDE DEF l, m, x, y, W
  <2>3. x <= W - l => y <= W - m
    BY <1>1, <2>1
  <2>4. x >= W - l => y >= W - m
    BY <1>1, <2>1
  <2> QED BY <2>2, <2>3, <2>4 DEF m, y
<1>16. WindowsHold'
  <2>1. \A a \in Askers : AskerKey(a) \in DOMAIN names' =>
            IF IsHeld(a)' THEN askedAgo'[a] <= W - names'[AskerKey(a)].left
            ELSE askedAgo'[a] >= W - names'[AskerKey(a)].left
    BY <1>6, <1>15
  <2>2. \A a \in Askers : AskerKey(a)' = AskerKey(a)
    BY DEF AskerKey
  <2> QED BY <1>4, <1>10, <1>11, <1>12, <2>1, <2>2 DEF WindowsHold
<1>17. ASSUME NEW k
       PROVE  \/ InWindow(k)' \subseteq InWindow(k) /\ BeforeWindow(k)' \subseteq BeforeWindow(k)
              \/ InWindow(k)' = {} /\ BeforeWindow(k)' \subseteq InWindow(k)
  <2>1. \A a \in InWindow(k)' : a \in Signed(k) /\ AskerKey(a) = k /\ IsHeld(a) /\ k \in stays
    BY <1>13 DEF InWindow, Signed
  <2>2. \A a \in BeforeWindow(k)' : /\ a \in Signed(k) /\ AskerKey(a) = k /\ a \in Askers /\ ~(IsHeld(a)')
                                    /\ askedAgo'[a] < W
    BY DEF BeforeWindow, Signed
  <2>3. \A a \in BeforeWindow(k)' : askedAgo[a] < W
    BY <1>1, <1>3, <2>2
  <2>4. CASE k \in DOMAIN names /\ k \notin stays
    <3>1. InWindow(k)' = {}
      BY <2>1, <2>4
    <3>2. names[k].left = 1
      BY <1>1, <1>5, <2>4 DEF stays
    <3>3. \A a \in BeforeWindow(k)' : IsHeld(a)
      <4> SUFFICES ASSUME NEW a \in BeforeWindow(k)', ~IsHeld(a) PROVE FALSE
        OBVIOUS
      <4>1. askedAgo[a] >= W - 1
        BY <1>14, <2>2, <2>4, <3>2
      <4> QED BY <1>1, <1>3, <2>2, <4>1
    <3> QED BY <2>2, <3>1, <3>3 DEF InWindow
  <2>5. CASE ~(k \in DOMAIN names /\ k \notin stays)
    <3>1. \A a \in BeforeWindow(k)' : ~IsHeld(a)
      BY <1>13, <2>2, <2>5 DEF IsHeld
    <3> QED BY <2>1, <2>2, <2>3, <3>1 DEF InWindow, BeforeWindow
  <2> QED BY <2>4, <2>5
<1>18. \A a \in Askers : askedAgo'[a] < W => askedAgo'[a] = askedAgo[a] + 1
  BY <1>1, <1>3
<1> QED BY <1>3, <1>4, <1>16, <1>17, <1>18

\* Time passes.
LEMMA ContactTickInv == ASSUME ContactAssumption, ContactInv, ContactTick PROVE ContactInv'
<1>1. loaded' = loaded /\ observed' = observed /\ listChanges' = listChanges
  BY DEF ContactTick
<1>2. WindowsHold
  BY DEF ContactInv
<1>3. DOMAIN tables' = Tables /\ DOMAIN silence' = Tables
  BY DEF ContactTick
<1>4. \A t \in Tables : /\ tables'[t] = RunDown(tables[t]) /\ silence'[t] = Older(t, silence[t])
                        /\ StampsKept(t, tables[t], silence[t])
  BY DEF ContactTick, ContactInv, StampsHold
<1>5. \A t \in Tables : StampsKept(t, tables'[t], silence'[t])
  BY <1>4, StampsAge
<1> DEFINE ages == silence["tunnel"]
           older == silence'["tunnel"]
<1>6. older = Older("tunnel", ages) /\ ages \in [DOMAIN ages -> 0..Cap("tunnel")]
  BY <1>4 DEF Tables, StampsKept
<1>7. /\ TunnelPause \in Nat \ {0} /\ TunnelWindow \in Nat \ {0} /\ Cap("tunnel") \in Nat
  BY PausesAre DEF Tables
<1>8. DOMAIN older = DOMAIN ages /\ \A k \in DOMAIN ages : ages[k] \in Nat /\ older[k] \in Nat /\ older[k] <= ages[k] + 1
  <2> HIDE DEF ages, older
  <2>1. DOMAIN older = DOMAIN ages /\ \A k \in DOMAIN ages : older[k] = IF ages[k] < Cap("tunnel") THEN ages[k] + 1 ELSE Cap("tunnel")
    BY <1>6 DEF Older, Later
  <2>2. \A k \in DOMAIN ages : ages[k] \in 0..Cap("tunnel")
    BY <1>6
  <2> QED BY <1>7, <2>1, <2>2
<1> HIDE DEF ages, older
<1>9. ASSUME NEW k, NEW S, NEW T \in SUBSET S, S \subseteq Askers, IsFiniteSet(S), WasToldOf(k, S, ages, askedAgo),
             \A a \in T : askedAgo'[a] < TunnelWindow
      PROVE  WasToldOf(k, T, older, askedAgo')
  <2>1. \A a \in T : askedAgo[a] \in Nat /\ askedAgo'[a] \in Nat /\ askedAgo'[a] = askedAgo[a] + 1
    BY <1>2, <1>7, <1>9, WindowsAge
  <2>2. k \in DOMAIN ages => k \in DOMAIN older /\ \A a \in T : older[k] - askedAgo'[a] <= ages[k] - askedAgo[a]
    BY <1>8, <2>1
  <2>3. DistinctNames \in Nat
    BY DEF ContactAssumption
  <2>4. k \in DOMAIN ages => ages[k] \in Int /\ older[k] \in Int
    BY <1>8
  <2>5. \A a \in T : askedAgo[a] \in Int /\ askedAgo'[a] \in Int
    BY <2>1
  <2> QED BY <1>7, <1>9, <2>2, <2>3, <2>4, <2>5, StillToldOf
<1>10. ASSUME NEW b \in Askers PROVE ToldFor(AskerKey(b))'
  <2> DEFINE k == AskerKey(b)
  <2>1. WasToldOf(k, InWindow(k), ages, askedAgo) /\ WasToldOf(k, BeforeWindow(k), ages, askedAgo)
    BY DEF ContactInv, ToldFor, ages
  <2>2. /\ IsFiniteSet(InWindow(k)) /\ InWindow(k) \subseteq Askers
        /\ IsFiniteSet(BeforeWindow(k)) /\ BeforeWindow(k) \subseteq Askers
    BY <1>2, WindowsFinite
  <2>3. WindowsHold'
    BY <1>2, WindowsAge
  <2>4. /\ \A a \in InWindow(k)' : askedAgo'[a] < TunnelWindow
        /\ \A a \in BeforeWindow(k)' : askedAgo'[a] < TunnelWindow
    BY <2>3, WindowsFiniteNext
  <2>5. \/ InWindow(k)' \subseteq InWindow(k) /\ BeforeWindow(k)' \subseteq BeforeWindow(k)
        \/ InWindow(k)' = {} /\ BeforeWindow(k)' \subseteq InWindow(k)
    BY <1>2, WindowsAge
  <2>6. WasToldOf(k, InWindow(k)', older, askedAgo')
    BY <1>9, <2>1, <2>2, <2>4, <2>5, NoneToldOf
  <2>7. WasToldOf(k, BeforeWindow(k)', older, askedAgo')
    BY <1>9, <2>1, <2>2, <2>4, <2>5
  <2> QED BY <2>6, <2>7 DEF ToldFor, WasToldOf, older, AskerKey
<1>11. loaded \subseteq {Indicator[x] : x \in DOMAIN Indicator} /\ observed \in 0..MaxContacts /\ listChanges \in 0..MaxListChanges
  BY DEF ContactInv
<1> QED BY <1>1, <1>2, <1>3, <1>5, <1>10, <1>11, WindowsAge DEF ContactInv, StampsHold

-----------------------------------------------------------------------------
(* A contact *)

\* What a contact leaves of the tables.
LEMMA StampsAfter ==
    ASSUME ContactAssumption, NEW c, ContactInv, ObserveContact(c)
    PROVE  /\ DOMAIN tables' = Tables /\ DOMAIN silence' = Tables
           /\ \A t \in Tables : StampsKept(t, tables'[t], silence'[t])
           /\ \A t \in Tables : Raised(c)[t] = <<>> => silence'[t] = silence[t]
           /\ \A t \in Tables : Raised(c)[t] # <<>> =>
                /\ DOMAIN silence'[t] = DOMAIN silence[t] \cup {Head(Raised(c)[t])}
                /\ silence'[t][Head(Raised(c)[t])] = 0
                /\ \A k \in DOMAIN silence[t] : k # Head(Raised(c)[t]) => silence'[t][k] = silence[t][k]
<1>1. DOMAIN tables' = Tables /\ DOMAIN silence' = Tables
  BY DEF ObserveContact
<1>2. \A t \in Tables : /\ silence'[t] = Struck(silence[t], Raised(c)[t])
                        /\ tables'[t] = IF Raised(c)[t] = <<>> THEN tables[t] ELSE WithStamp(t, Head(Raised(c)[t]))
  BY DEF ObserveContact
<1>3. \A t \in Tables : StampsHold(t)
  BY DEF ContactInv
<1>4. ASSUME NEW t \in Tables
      PROVE  /\ StampsKept(t, tables'[t], silence'[t])
             /\ Raised(c)[t] = <<>> => silence'[t] = silence[t]
             /\ Raised(c)[t] # <<>> =>
                /\ DOMAIN silence'[t] = DOMAIN silence[t] \cup {Head(Raised(c)[t])}
                /\ silence'[t][Head(Raised(c)[t])] = 0
                /\ \A k \in DOMAIN silence[t] : k # Head(Raised(c)[t]) => silence'[t][k] = silence[t][k]
  <2> DEFINE r == Raised(c)[t]
             h == Head(Raised(c)[t])
             ages == silence[t]
  <2>1. r = <<>> \/ r = <<h>>
    BY RaisedAre
  <2>2. StampsHold(t) /\ silence'[t] = Struck(ages, r) /\ tables'[t] = IF r = <<>> THEN tables[t] ELSE WithStamp(t, h)
    BY <1>2, <1>3
  <2> HIDE DEF r, h
  <2>3. CASE r = <<>>
    <3>1. silence'[t] = ages /\ tables'[t] = tables[t]
      BY <2>2, <2>3 DEF Struck
    <3> QED BY <2>2, <2>3, <3>1 DEF StampsHold, r
  <2>4. CASE r = <<h>>
    <3>1. r # <<>> /\ Head(r) = h
      BY <2>4
    <3>2. silence'[t] = [k \in DOMAIN ages \cup {h} |-> IF k = h THEN 0 ELSE ages[k]]
      BY <2>2, <3>1 DEF Struck
    <3>3. StampsKept(t, WithStamp(t, h), Struck(silence[t], r))
      BY <2>2, <2>4, StampAdded
    <3>4. StampsKept(t, tables'[t], silence'[t])
      BY <2>2, <3>1, <3>3
    <3>5. /\ DOMAIN silence'[t] = DOMAIN ages \cup {h} /\ silence'[t][h] = 0
          /\ \A k \in DOMAIN ages : k # h => silence'[t][k] = ages[k]
      BY <3>2
    <3> QED BY <3>1, <3>4, <3>5 DEF r, h
  <2> QED BY <2>1, <2>3, <2>4
<1> QED BY <1>1, <1>4

\* A question goes into its window, and leaves the others as they are.
LEMMA WindowsAfter ==
    ASSUME ContactAssumption, WindowsHold, NEW c \in Contacts, ObserveContact(c), IsQuestion(c)
    PROVE  /\ WindowsHold' /\ TunnelKey(c) \in DOMAIN names'
           /\ names'[TunnelKey(c)].items = NamesWith(c)[TunnelKey(c)].items
           /\ askedAgo'[<<c.source, c.question>>] = 0 /\ IsHeld(<<c.source, c.question>>)'
           /\ \A a \in Askers : a # <<c.source, c.question>> => askedAgo'[a] = askedAgo[a]
           /\ \A a \in Askers : a # <<c.source, c.question>> => (IsHeld(a)' <=> IsHeld(a))
<1> DEFINE A == <<c.source, c.question>>
           K == TunnelKey(c)
           W == TunnelWindow
           q == c.question
           cur == K \in DOMAIN names
           its == (IF cur THEN names[K].items ELSE {}) \cup {q}
           lft == IF cur THEN names[K].left ELSE W
<1>1. A \in Askers /\ AskerKey(A) = K /\ q \in DOMAIN Questions /\ K[1] = c.source /\ A = <<K[1], q>>
  BY QuestionIs
<1>2. W \in Nat \ {0}
  BY DEF ContactAssumption
<1>3. \A k \in DOMAIN names : /\ names[k].items \in SUBSET DOMAIN Questions /\ names[k].left \in 1..W
                              /\ names[k] \in [items : SUBSET DOMAIN Questions, left : 1..W]
  BY DEF WindowsHold
<1>4. names' = [k \in DOMAIN names \cup {K} |-> IF k # K THEN names[k] ELSE [items |-> its, left |-> lft]]
  <2>1. names' = NamesWith(c)
    BY DEF ObserveContact
  <2>2. (K \in DOMAIN names /\ names[K].left > 0) <=> cur
    BY <1>2, <1>3
  <2> QED BY <2>1, <2>2 DEF NamesWith
<1>5. names' = NamesWith(c) /\ askedAgo' = [askedAgo EXCEPT ![A] = 0]
  BY DEF ObserveContact
<1>6. askedAgo \in [Askers -> 0..W]
  BY DEF WindowsHold
<1>7. askedAgo'[A] = 0 /\ \A a \in Askers : a # A => askedAgo'[a] = askedAgo[a]
  BY <1>1, <1>5, <1>6
<1>8. askedAgo' \in [Askers -> 0..W]
  BY <1>1, <1>2, <1>5, <1>6
<1>9. its \in SUBSET DOMAIN Questions /\ lft \in 1..W
  BY <1>1, <1>2, <1>3
<1>10. /\ DOMAIN names' = DOMAIN names \cup {K} /\ K \in DOMAIN names'
       /\ names'[K].items = its /\ names'[K].left = lft /\ names'[K] = [items |-> its, left |-> lft]
       /\ \A k \in DOMAIN names : k # K => names'[k] = names[k]
  <2> HIDE DEF K, its, lft
  <2> QED BY <1>4
<1>11. (cur => its = names[K].items \cup {q} /\ lft = names[K].left) /\ (~cur => its = {q} /\ lft = W)
  OBVIOUS
<1> HIDE DEF K, its, lft, A
<1>12. names' \in [DOMAIN names' -> [items : SUBSET DOMAIN Questions, left : 1..W]]
  <2>1. \A k \in DOMAIN names' : names'[k] \in [items : SUBSET DOMAIN Questions, left : 1..W]
    BY <1>3, <1>9, <1>10
  <2>2. names' = [k \in DOMAIN names' |-> names'[k]]
    BY <1>4
  <2> QED BY <2>1, <2>2
<1>13. IsFiniteSet({a \in Askers : askedAgo'[a] < W})
  <2> DEFINE F == {a \in Askers : askedAgo[a] < W}
             G == {a \in Askers : askedAgo'[a] < W}
  <2>1. IsFiniteSet(F)
    BY DEF WindowsHold
  <2>2. G \subseteq F \cup {A}
    BY <1>7
  <2> HIDE DEF F, G
  <2>3. IsFiniteSet(F \cup {A})
    BY <2>1, FS_AddElement
  <2>4. IsFiniteSet(G)
    BY <2>2, <2>3, FS_Subset
  <2> QED BY <2>4 DEF G
<1>14. \A k \in DOMAIN names : \A x \in names[k].items : <<k[1], x>> \in Askers /\ AskerKey(<<k[1], x>>) = k
  BY DEF WindowsHold
<1>15. \A k \in DOMAIN names' : \A x \in names'[k].items : <<k[1], x>> \in Askers /\ AskerKey(<<k[1], x>>) = k
  BY <1>1, <1>10, <1>11, <1>14
<1>16. \A a \in Askers : a # A /\ AskerKey(a) = K => a[2] # q
  <2> SUFFICES ASSUME NEW a \in Askers, AskerKey(a) = K, a[2] = q PROVE a = A
    OBVIOUS
  <2>1. a = <<a[1], a[2]>> /\ AskerKey(a)[1] = a[1]
    BY AskerIs DEF AskerKey
  <2> QED BY <1>1, <2>1
<1>17. \A a \in Askers : AskerKey(a)' = AskerKey(a)
  BY DEF AskerKey
<1>18. \A a \in Askers : IsHeld(a)' <=> AskerKey(a) \in DOMAIN names' /\ a[2] \in names'[AskerKey(a)].items
  BY <1>17 DEF IsHeld
<1>19. \A a \in Askers : IsHeld(a) <=> AskerKey(a) \in DOMAIN names /\ a[2] \in names[AskerKey(a)].items
  BY DEF IsHeld
<1>20. A[2] = q
  BY DEF A
<1>21. IsHeld(A)'
  BY <1>1, <1>10, <1>11, <1>18, <1>20
<1>22. \A a \in Askers : a # A => (IsHeld(a)' <=> IsHeld(a))
  <2> SUFFICES ASSUME NEW a \in Askers, a # A PROVE IsHeld(a)' <=> IsHeld(a)
    OBVIOUS
  <2>1. CASE AskerKey(a) # K
    BY <1>10, <1>18, <1>19, <2>1
  <2>2. CASE AskerKey(a) = K
    BY <1>10, <1>11, <1>16, <1>18, <1>19, <2>2
  <2> QED BY <2>1, <2>2
<1>23. \A a \in Askers : AskerKey(a) \in DOMAIN names =>
            IF IsHeld(a) THEN askedAgo[a] <= W - names[AskerKey(a)].left
            ELSE askedAgo[a] >= W - names[AskerKey(a)].left
  BY DEF WindowsHold
<1>24. ASSUME NEW a \in Askers, AskerKey(a) \in DOMAIN names'
       PROVE  IF IsHeld(a)' THEN askedAgo'[a] <= W - names'[AskerKey(a)].left
              ELSE askedAgo'[a] >= W - names'[AskerKey(a)].left
  <2>1. CASE a = A
    <3>1. W - lft >= 0
      BY <1>2, <1>9
    <3> QED BY <1>1, <1>7, <1>10, <1>21, <2>1, <3>1
  <2>2. CASE a # A /\ AskerKey(a) # K
    BY <1>7, <1>10, <1>22, <1>23, <1>24, <2>2
  <2>3. CASE a # A /\ AskerKey(a) = K /\ cur
    BY <1>7, <1>10, <1>11, <1>22, <1>23, <2>3
  <2>4. CASE a # A /\ AskerKey(a) = K /\ ~cur
    <3>1. ~IsHeld(a)
      BY <2>4 DEF IsHeld
    <3>2. askedAgo[a] >= 0 /\ W - W = 0
      BY <1>2, <1>6
    <3> QED BY <1>7, <1>10, <1>11, <1>22, <2>4, <3>1, <3>2
  <2> QED BY <2>1, <2>2, <2>3, <2>4
<1>25. WindowsHold'
  BY <1>8, <1>12, <1>13, <1>15, <1>17, <1>24 DEF WindowsHold
<1>26. names'[K].items = NamesWith(c)[K].items
  BY <1>5
<1> QED BY <1>7, <1>10, <1>21, <1>22, <1>25, <1>26 DEF A, K

\* How many signs a question has.
LEMMA SignsAre == ASSUME NEW x PROVE Signs(x) \in 0..2
<1> DEFINE S == {sign \in {"long", "encoded"} : Questions[x][sign]}
           T == {"long", "encoded"}
<1>1. IsFiniteSet(T) /\ Cardinality(T) <= 2
  <2>1. IsFiniteSet({"long"}) /\ Cardinality({"long"}) <= 1
    <3>1. {"long"} = {} \cup {"long"}
      OBVIOUS
    <3> QED BY <3>1, FS_EmptySet, FS_AddElement
  <2>2. {"long", "encoded"} = {"long"} \cup {"encoded"} /\ Cardinality({"long"}) \in Nat
    BY <2>1, FS_CardinalityType
  <2> QED BY <2>1, <2>2, FS_AddElement
<1>2. S \in SUBSET T /\ Signs(x) = Cardinality(S)
  BY DEF Signs
<1> HIDE DEF S, T
<1>3. IsFiniteSet(S) /\ Cardinality(S) <= Cardinality(T) /\ Cardinality(S) \in Nat /\ Cardinality(T) \in Nat
  BY <1>1, <1>2, FS_Subset, FS_CardinalityType
<1> QED BY <1>1, <1>2, <1>3

\* A contact that raises nothing although it has two reasons meets a pause.
LEMMA TunnelSilence ==
    ASSUME ContactAssumption, ContactInv, NEW c \in Contacts, ObserveContact(c), IsQuestion(c)
    PROVE  /\ Reasons(c, Cardinality(NamesWith(c)[TunnelKey(c)].items)) >= 2 =>
                TunnelKey(c) \in DOMAIN silence'["tunnel"] /\ silence'["tunnel"][TunnelKey(c)] < TunnelPause
           /\ TunnelRaises(c) => TunnelKey(c) \in DOMAIN silence'["tunnel"] /\ silence'["tunnel"][TunnelKey(c)] = 0
           /\ ~TunnelRaises(c) => silence'["tunnel"] = silence["tunnel"]
           /\ DOMAIN silence["tunnel"] \subseteq DOMAIN silence'["tunnel"]
           /\ \A k \in DOMAIN silence["tunnel"] : k # TunnelKey(c) => silence'["tunnel"][k] = silence["tunnel"][k]
<1>1. "tunnel" \in Tables /\ TunnelPause \in Nat \ {0} /\ Pause("tunnel") = TunnelPause
  BY DEF Tables, ContactAssumption, Pause
<1>2. (Raised(c)["tunnel"] # <<>> <=> TunnelRaises(c)) /\ (Raised(c)["tunnel"] # <<>> => Head(Raised(c)["tunnel"]) = TunnelKey(c))
  BY <1>1, RaisedAre
<1>3. TunnelRaises(c) => /\ DOMAIN silence'["tunnel"] = DOMAIN silence["tunnel"] \cup {TunnelKey(c)}
                         /\ silence'["tunnel"][TunnelKey(c)] = 0
                         /\ \A k \in DOMAIN silence["tunnel"] : k # TunnelKey(c) => silence'["tunnel"][k] = silence["tunnel"][k]
  BY <1>1, <1>2, StampsAfter
<1>4. ~TunnelRaises(c) => silence'["tunnel"] = silence["tunnel"]
  BY <1>1, <1>2, StampsAfter
<1>5. ASSUME Reasons(c, Cardinality(NamesWith(c)[TunnelKey(c)].items)) >= 2, ~TunnelRaises(c)
      PROVE  TunnelKey(c) \in DOMAIN silence["tunnel"] /\ silence["tunnel"][TunnelKey(c)] < TunnelPause
  <2>1. IsPausing("tunnel", TunnelKey(c)) /\ StampsHold("tunnel")
    BY <1>1, <1>5 DEF TunnelRaises, ContactInv
  <2> QED BY <1>1, <2>1, PausingIs
<1> QED BY <1>1, <1>3, <1>4, <1>5

\* The names of a key that were asked for as often as before, and no later, were told of.
LEMMA ToldAsBefore ==
    ASSUME ContactAssumption, ContactInv, NEW c \in Contacts, ObserveContact(c), IsQuestion(c),
           NEW k, NEW S, S \subseteq Askers, IsFiniteSet(S), NEW T \in SUBSET S,
           <<c.source, c.question>> \notin T,
           k # TunnelKey(c) \/ ~TunnelRaises(c),
           WasToldOf(k, S, silence["tunnel"], askedAgo)
    PROVE  WasToldOf(k, T, silence'["tunnel"], askedAgo')
<1> DEFINE ages == silence["tunnel"]
           older == silence'["tunnel"]
<1>1. WindowsHold /\ StampsKept("tunnel", ages, ages) \in BOOLEAN
  BY DEF ContactInv, StampsKept
<1>2. "tunnel" \in Tables /\ StampsKept("tunnel", tables["tunnel"], ages) /\ TunnelPause \in Int /\ DistinctNames \in Nat
      /\ Cap("tunnel") \in Nat
  BY PausesAre DEF ContactInv, StampsHold, Tables, ContactAssumption
<1>3. ages \in [DOMAIN ages -> 0..Cap("tunnel")]
  BY <1>2 DEF StampsKept
<1>4. k \in DOMAIN ages => ages[k] \in Int
  BY <1>2, <1>3
<1>5. k \in DOMAIN ages => k \in DOMAIN older /\ older[k] = ages[k]
  BY TunnelSilence
<1>6. \A a \in T : askedAgo'[a] = askedAgo[a]
  BY <1>1, WindowsAfter
<1>7. \A a \in Askers : askedAgo[a] \in Int
  <2>1. askedAgo \in [Askers -> 0..TunnelWindow]
    BY <1>1 DEF WindowsHold
  <2> QED BY <2>1 DEF ContactAssumption
<1> HIDE DEF ages, older
<1>8. \A a \in T : askedAgo[a] \in Int /\ askedAgo'[a] \in Int
  BY <1>6, <1>7
<1>9. k \in DOMAIN ages => ages[k] \in Int /\ older[k] \in Int
  BY <1>4, <1>5
<1>10. k \in DOMAIN ages => k \in DOMAIN older /\ \A a \in T : older[k] - askedAgo'[a] <= ages[k] - askedAgo[a]
  <2> SUFFICES ASSUME k \in DOMAIN ages, NEW a \in T PROVE older[k] - askedAgo'[a] <= ages[k] - askedAgo[a]
    BY <1>5
  <2>1. older[k] = ages[k] /\ askedAgo'[a] = askedAgo[a] /\ ages[k] \in Int /\ askedAgo[a] \in Int
    BY <1>4, <1>5, <1>6, <1>8
  <2> QED BY <2>1
<1>11. WasToldOf(k, S, ages, askedAgo)
  BY DEF ages
<1>12. WasToldOf(k, T, older, askedAgo')
  BY <1>2, <1>8, <1>9, <1>10, <1>11, StillToldOf
<1> QED BY <1>12 DEF older

\* Where the silence is new, and where it is shorter than a pause, all were told of.
LEMMA JustToldOf ==
    ASSUME NEW k, NEW T, NEW ages, NEW asked, TunnelPause \in Nat, k \in DOMAIN ages,
           ages[k] \in Nat, ages[k] < TunnelPause, \A a \in T : asked[a] \in Nat
    PROVE  WasToldOf(k, T, ages, asked)
<1>1. ASSUME NEW a \in T PROVE ages[k] < TunnelPause + asked[a]
  BY <1>1
<1> QED BY <1>1 DEF WasToldOf

\* Whoever was due to be told of is told of still, or was just now.
LEMMA ToldAfter ==
    ASSUME ContactAssumption, ContactInv, NEW c \in Contacts, ObserveContact(c), IsQuestion(c),
           NEW b \in Askers
    PROVE  ToldFor(AskerKey(b))'
<1> DEFINE A == <<c.source, c.question>>
           K == TunnelKey(c)
           k == AskerKey(b)
           ages == silence'["tunnel"]
           asked == askedAgo'
<1>1. WindowsHold /\ ToldFor(k)
  BY DEF ContactInv
<1>2. WindowsHold' /\ (\A a \in Askers : a # A => asked[a] = askedAgo[a]) /\ IsHeld(A)'
      /\ (\A a \in Askers : a # A => (IsHeld(a)' <=> IsHeld(a)))
  BY <1>1, WindowsAfter
<1>3. A \in Askers /\ AskerKey(A) = K
  BY QuestionIs
<1>4. \A a \in Askers : asked[a] \in Nat
  <2>1. asked \in [Askers -> 0..TunnelWindow]
    BY <1>2 DEF WindowsHold
  <2> QED BY <2>1 DEF ContactAssumption
<1>5. TunnelPause \in Nat \ {0} /\ StampsKept("tunnel", tables'["tunnel"], ages) /\ Cap("tunnel") \in Nat
  BY StampsAfter, PausesAre DEF Tables
<1>6. \A x \in DOMAIN ages : ages[x] \in Nat
  <2>1. ages \in [DOMAIN ages -> 0..Cap("tunnel")]
    BY <1>5 DEF StampsKept
  <2> QED BY <1>5, <2>1
<1>7. /\ WasToldOf(k, InWindow(k), silence["tunnel"], askedAgo) /\ IsFiniteSet(InWindow(k)) /\ InWindow(k) \subseteq Askers
      /\ WasToldOf(k, BeforeWindow(k), silence["tunnel"], askedAgo) /\ IsFiniteSet(BeforeWindow(k))
      /\ BeforeWindow(k) \subseteq Askers
  BY <1>1, WindowsFinite DEF ToldFor
<1>8. InWindow(k)' \subseteq Askers /\ BeforeWindow(k)' \subseteq Askers
  BY DEF InWindow, BeforeWindow, Signed
<1>s. Signed(k)' = Signed(k) /\ \A a \in Signed(k) : a \in Askers
  BY DEF Signed, AskerKey, Signs
<1>9. A \notin BeforeWindow(k)' /\ BeforeWindow(k)' \subseteq BeforeWindow(k)
  <2>1. \A a \in BeforeWindow(k)' : a \in Signed(k) /\ ~IsHeld(a)' /\ asked[a] < TunnelWindow
    BY <1>s DEF BeforeWindow
  <2>2. A \notin BeforeWindow(k)'
    BY <1>2, <2>1
  <2> HIDE DEF A, asked
  <2>3. ASSUME NEW a \in BeforeWindow(k)' PROVE a \in BeforeWindow(k)
    BY <1>2, <1>s, <2>1, <2>2, <2>3 DEF BeforeWindow
  <2> QED BY <2>2, <2>3
<1>10. ASSUME NEW a \in InWindow(k)', a # A PROVE a \in InWindow(k)
  <2>1. a \in Signed(k) /\ IsHeld(a)'
    BY <1>s, <1>10 DEF InWindow
  <2> HIDE DEF A
  <2> QED BY <1>2, <1>s, <1>10, <2>1 DEF InWindow
<1> HIDE DEF A, K, k
<1>11. CASE K \in DOMAIN ages /\ ages[K] < TunnelPause /\ k = K
  <2>1. WasToldOf(k, InWindow(k)', ages, asked)
    BY <1>4, <1>5, <1>6, <1>8, <1>11, JustToldOf
  <2>2. WasToldOf(k, BeforeWindow(k)', ages, asked)
    BY <1>4, <1>5, <1>6, <1>8, <1>11, JustToldOf
  <2> QED BY <2>1, <2>2 DEF ToldFor, k, AskerKey
<1>12. CASE ~(K \in DOMAIN ages /\ ages[K] < TunnelPause /\ k = K)
  <2>1. k # K \/ ~TunnelRaises(c)
    BY <1>5, <1>12, TunnelSilence DEF K
  <2>2. WasToldOf(k, BeforeWindow(k)', ages, asked)
    BY <1>7, <1>9, <2>1, ToldAsBefore DEF A, K
  <2>3. WasToldOf(k, InWindow(k)', ages, asked)
    <3>1. CASE A \notin InWindow(k)'
      <4>1. InWindow(k)' \subseteq InWindow(k)
        BY <1>10, <3>1
      <4> QED BY <1>7, <2>1, <3>1, <4>1, ToldAsBefore DEF A, K
    <3>2. CASE A \in InWindow(k)'
      <4>1. k = K /\ Signs(c.question) >= 1
        BY <1>3, <1>s, <3>2 DEF InWindow, Signed, A
      <4>2. /\ K \in DOMAIN names' /\ names'[K].items = NamesWith(c)[K].items
        BY <1>1, WindowsAfter DEF K
      <4>3. Cardinality(InWindow(k)') <= Cardinality(names'[K].items) /\ Cardinality(names'[K].items) \in Nat
        BY <1>2, <4>1, <4>2, ItemsFiniteNext
      <4>4. Cardinality(InWindow(k)') \in Nat
        BY <1>2, WindowsFiniteNext, FS_CardinalityType
      <4>5. Signs(c.question) \in 0..2 /\ DistinctNames \in Nat
        BY SignsAre DEF ContactAssumption
      <4>6. ~(Cardinality(InWindow(k)') >= DistinctNames)
        <5> SUFFICES ASSUME Cardinality(InWindow(k)') >= DistinctNames PROVE FALSE
          OBVIOUS
        <5>1. Cardinality(names'[K].items) >= DistinctNames
          BY <4>3, <4>4, <4>5
        <5>2. Reasons(c, Cardinality(NamesWith(c)[K].items)) >= 2
          BY <4>1, <4>2, <4>5, <5>1 DEF Reasons
        <5>3. K \in DOMAIN ages /\ ages[K] < TunnelPause
          BY <5>2, TunnelSilence DEF K
        <5> QED BY <1>12, <4>1, <5>3
      <4> QED BY <4>6 DEF WasToldOf
    <3> QED BY <3>1, <3>2
  <2> QED BY <2>2, <2>3 DEF ToldFor, k, AskerKey
<1> QED BY <1>11, <1>12

\* A contact is observed.
LEMMA ObserveContactInv ==
    ASSUME ContactAssumption, ContactInv, NEW c \in Contacts, ObserveContact(c)
    PROVE  ContactInv'
<1>1. loaded' = loaded /\ listChanges' = listChanges /\ observed < MaxContacts /\ observed' = observed + 1
  BY DEF ObserveContact
<1>2. loaded \subseteq {Indicator[x] : x \in DOMAIN Indicator} /\ observed \in 0..MaxContacts /\ listChanges \in 0..MaxListChanges
  BY DEF ContactInv
<1>3. observed' \in 0..MaxContacts
  BY <1>1, <1>2 DEF ContactAssumption
<1>4. DOMAIN tables' = Tables /\ DOMAIN silence' = Tables /\ \A t \in Tables : StampsKept(t, tables'[t], silence'[t])
  BY StampsAfter
<1>5. (WindowsHold /\ \A b \in Askers : ToldFor(AskerKey(b)))'
  <2>1. CASE IsQuestion(c)
    <3>1. WindowsHold'
      BY <2>1, WindowsAfter DEF ContactInv
    <3>2. \A b \in Askers : ToldFor(AskerKey(b))'
      BY <2>1, ToldAfter
    <3> QED BY <3>1, <3>2
  <2>2. CASE ~IsQuestion(c)
    <3>1. names' = names /\ askedAgo' = askedAgo
      BY <2>2 DEF ObserveContact
    <3>2. silence'["tunnel"] = silence["tunnel"]
      BY <2>2, StampsAfter, RaisedAre DEF TunnelRaises, Tables
    <3>3. WindowsHold => WindowsHold'
      BY <3>1 DEF WindowsHold, IsHeld
    <3>4. (\A b \in Askers : ToldFor(AskerKey(b))) => (\A b \in Askers : ToldFor(AskerKey(b)))'
      BY <3>1, <3>2 DEF ToldFor, InWindow, BeforeWindow, Signed, IsHeld
    <3> QED BY <3>3, <3>4 DEF ContactInv
  <2> QED BY <2>1, <2>2
<1> QED BY <1>1, <1>2, <1>3, <1>4, <1>5 DEF ContactInv, StampsHold

\* Every step keeps the invariant.
LEMMA ContactStep == ASSUME ContactAssumption PROVE ContactInv /\ [ContactNext]_contactVars => ContactInv'
<1> SUFFICES ASSUME ContactInv, [ContactNext]_contactVars PROVE ContactInv'
  OBVIOUS
<1>1. ASSUME NEW c \in Contacts, ObserveContact(c) PROVE ContactInv'
  BY <1>1, ObserveContactInv
<1>2. CASE ListChanges
  BY <1>2, ListChangesInv
<1>3. CASE ResetPacketDetectors
  BY <1>3, ResetInv
<1>4. CASE ContactTick
  BY <1>4, ContactTickInv
<1>5. CASE UNCHANGED contactVars
  <2>1. UNCHANGED <<loaded, names, tables, askedAgo, silence, observed, listChanges>>
    BY <1>5 DEF contactVars
  <2>2. (\A t \in Tables : StampsHold(t)) => (\A t \in Tables : StampsHold(t))'
    BY <2>1 DEF StampsHold
  <2>3. WindowsHold => WindowsHold'
    BY <2>1 DEF WindowsHold, IsHeld
  <2>4. (\A b \in Askers : ToldFor(AskerKey(b))) => (\A b \in Askers : ToldFor(AskerKey(b)))'
    BY <2>1 DEF ToldFor, InWindow, BeforeWindow, Signed, IsHeld
  <2> QED BY <2>1, <2>2, <2>3, <2>4 DEF ContactInv
<1> QED BY <1>1, <1>2, <1>3, <1>4, <1>5 DEF ContactNext

\* A contact that is observed is reported, unless its key is pausing.
LEMMA ContactsAreReportedThen ==
    ASSUME ContactAssumption, ContactInv, NEW c \in Contacts, ObserveContact(c)
    PROVE  ContactsAreReported(c)
<1> DEFINE t == IF c.via = "flow" THEN "flow" ELSE "packet"
           matches == Matches(c)
<1>1. matches' = matches
  BY DEF ObserveContact, Matches, IsListed
<1>2. t \in Tables /\ Pause(t) = ContactPause
  BY DEF Tables, Pause
<1>3. /\ t = "packet" /\ Raised(c)[t] = <<>> => \A i \in DOMAIN matches : IsPausing("packet", matches[i])
      /\ t = "flow" /\ Raised(c)[t] = <<>> => matches = <<>> \/ IsPausing("flow", Head(matches))
  BY RaisedAre DEF Tables
<1>4. Raised(c)[t] = <<>> => silence'[t] = silence[t]
  BY <1>2, StampsAfter
<1>5. StampsHold(t)
  BY <1>2 DEF ContactInv
<1> HIDE DEF matches
<1>6. ASSUME NEW i \in DOMAIN matches
      PROVE  \/ SilentFor(t, matches[i])' < ContactPause
             \/ Raised(c)[t] # <<>>
             \/ t = "flow" /\ IsPausing("flow", Head(matches))
  <2>1. CASE Raised(c)[t] = <<>> /\ t = "packet"
    <3>1. matches[i] \in DOMAIN silence[t] /\ silence[t][matches[i]] < ContactPause
      BY <1>2, <1>3, <1>5, <1>6, <2>1, PausingIs
    <3>2. SilentFor(t, matches[i])' = silence[t][matches[i]]
      BY <1>1, <1>4, <2>1, <3>1 DEF SilentFor
    <3> QED BY <3>1, <3>2
  <2>2. CASE Raised(c)[t] = <<>> /\ t = "flow"
    <3>1. matches # <<>>
      BY <1>6
    <3> QED BY <1>3, <2>2, <3>1
  <2> QED BY <2>1, <2>2
<1> QED BY <1>6 DEF ContactsAreReported, matches

\* A question that makes a tunnel is reported, unless its name is pausing.
LEMMA TunnelsAreReportedThen ==
    ASSUME ContactAssumption, ContactInv, ContactInv', NEW c \in Contacts, ObserveContact(c)
    PROVE  TunnelsAreReported(c)
<1> SUFFICES ASSUME IsQuestion(c)
             PROVE  /\ Signs(c.question) = 2 => SilentFor("tunnel", TunnelKey(c))' < TunnelPause
                    /\ Cardinality(WithSign(NamesAsked(c))) >= 2 * DistinctNames - 1
                          => SilentFor("tunnel", TunnelKey(c))' <= TunnelWindow + TunnelPause - 2
                    /\ TunnelRaises(c) => Reasons(c, Cardinality(NamesAsked(c))) >= 2
  BY DEF TunnelsAreReported
<1> DEFINE A == <<c.source, c.question>>
           K == TunnelKey(c)
           W == TunnelWindow
           D == DistinctNames
           I == names'[K].items
           N == NamesAsked(c)
           F == {a \in Askers : askedAgo'[a] < W}
           ages == silence'["tunnel"]
<1>1. WindowsHold /\ WindowsHold' /\ ToldFor(K)'
  <2>1. A \in Askers /\ AskerKey(A) = K
    BY QuestionIs
  <2> QED BY <2>1 DEF ContactInv, AskerKey
<1>2. A \in Askers /\ AskerKey(A) = K /\ K = <<c.source, Questions[c.question].parent>>
  BY QuestionIs DEF TunnelKey
<1>3. /\ K \in DOMAIN names' /\ I = NamesWith(c)[K].items
  BY <1>1, WindowsAfter
<1>4. W \in Nat \ {0} /\ D \in Nat \ {0} /\ TunnelPause \in Nat \ {0}
  BY DEF ContactAssumption
<1>5. K \in DOMAIN ages => SilentFor("tunnel", K)' = ages[K]
  BY DEF SilentFor, TunnelKey
<1>6. \A x \in DOMAIN ages : ages[x] \in Nat
  <2>1. StampsKept("tunnel", tables'["tunnel"], ages) /\ Cap("tunnel") \in Nat
    BY PausesAre DEF ContactInv, StampsHold, Tables
  <2>2. ages \in [DOMAIN ages -> 0..Cap("tunnel")]
    BY <2>1 DEF StampsKept
  <2> QED BY <2>1, <2>2
<1>7. /\ IsFiniteSet(InWindow(K)') /\ InWindow(K)' \subseteq F /\ IsFiniteSet(BeforeWindow(K)') /\ BeforeWindow(K)' \subseteq F
      /\ \A q \in I : <<K[1], q>> \in Askers /\ AskerKey(<<K[1], q>>) = K /\ askedAgo'[<<K[1], q>>] < W
      /\ IsFiniteSet(I) /\ Cardinality(I) \in Nat
  BY <1>1, <1>3, WindowsFiniteNext, ItemsFiniteNext DEF AskerKey
<1>8. IsFiniteSet(F)
  BY <1>1 DEF WindowsHold
<1>n. \A q : q \in N <=> /\ q \in DOMAIN Questions /\ <<c.source, q>> \in Askers /\ askedAgo'[<<c.source, q>>] < W
                         /\ Questions[q].parent = Questions[c.question].parent
  BY DEF NamesAsked
<1>9. IsFiniteSet(N) /\ Cardinality(N) \in Nat
  <2> DEFINE h == [a \in F |-> a[2]]
             M == {h[a] : a \in F}
  <2>1. \A q \in N : <<c.source, q>> \in F /\ h[<<c.source, q>>] = q
    BY <1>n
  <2>2. N \subseteq M
    BY <2>1
  <2> HIDE DEF N, F, h
  <2>3. IsFiniteSet(M)
    BY <1>8, ImageFinite
  <2> HIDE DEF M
  <2> QED BY <2>2, <2>3, FS_Subset, FS_CardinalityType
<1>10. I \subseteq N
  <2> SUFFICES ASSUME NEW q \in I PROVE q \in N
    OBVIOUS
  <2>1. <<c.source, q>> \in Askers /\ AskerKey(<<c.source, q>>) = K /\ askedAgo'[<<c.source, q>>] < W
    BY <1>2, <1>7
  <2>2. Questions[q].parent = Questions[c.question].parent
    BY <1>2, <2>1 DEF AskerKey
  <2>3. q \in DOMAIN Questions
    BY <2>1, AskerIs
  <2> QED BY <1>n, <2>1, <2>2, <2>3
<1>11. Signs(c.question) = 2 => SilentFor("tunnel", K)' < TunnelPause
  <2> SUFFICES ASSUME Signs(c.question) = 2 PROVE SilentFor("tunnel", K)' < TunnelPause
    OBVIOUS
  <2>1. Reasons(c, Cardinality(NamesWith(c)[K].items)) >= 2
    BY DEF Reasons
  <2>2. K \in DOMAIN ages /\ ages[K] < TunnelPause
    BY <2>1, TunnelSilence
  <2> QED BY <1>5, <2>2
<1>12. TunnelRaises(c) => Reasons(c, Cardinality(N)) >= 2
  <2> SUFFICES ASSUME TunnelRaises(c) PROVE Reasons(c, Cardinality(N)) >= 2
    OBVIOUS
  <2>1. Reasons(c, Cardinality(I)) >= 2
    BY <1>3 DEF TunnelRaises
  <2>2. Cardinality(I) <= Cardinality(N)
    BY <1>9, <1>10, FS_Subset
  <2>3. Signs(c.question) \in 0..2
    BY SignsAre
  <2> HIDE DEF I, N
  <2> QED BY <1>4, <1>7, <1>9, <2>1, <2>2, <2>3 DEF Reasons
<1>13. Cardinality(WithSign(N)) >= 2 * D - 1 => SilentFor("tunnel", K)' <= W + TunnelPause - 2
  <2> SUFFICES ASSUME Cardinality(WithSign(N)) >= 2 * D - 1 PROVE SilentFor("tunnel", K)' <= W + TunnelPause - 2
    OBVIOUS
  <2> DEFINE S == InWindow(K)'
             T == BeforeWindow(K)'
             U == S \cup T
             X == WithSign(N)
             h == [a \in U |-> a[2]]
             M == {h[a] : a \in U}
  <2>1. \A q \in X : <<c.source, q>> \in U /\ h[<<c.source, q>>] = q
    <3> SUFFICES ASSUME NEW q \in X PROVE <<c.source, q>> \in U
      OBVIOUS
    <3> DEFINE a == <<c.source, q>>
    <3>1. q \in N /\ Signs(q) >= 1
      BY DEF WithSign
    <3>2. a \in Askers /\ askedAgo'[a] < W /\ AskerKey(a) = K /\ a[2] = q
      BY <1>2, <1>n, <3>1 DEF AskerKey
    <3> HIDE DEF a
    <3>3. a \in Signed(K)'
      BY <3>1, <3>2 DEF Signed, AskerKey, Signs
    <3>4. a \in InWindow(K)' \/ a \in BeforeWindow(K)'
      BY <3>2, <3>3 DEF InWindow, BeforeWindow
    <3> QED BY <3>4 DEF a
  <2>2. X \subseteq M
    BY <2>1
  <2> HIDE DEF X, U, h, S, T
  <2>3. IsFiniteSet(S) /\ IsFiniteSet(T) /\ Cardinality(S) \in Nat /\ Cardinality(T) \in Nat
    BY <1>7, FS_CardinalityType DEF S, T
  <2>4. IsFiniteSet(U) /\ Cardinality(U) <= Cardinality(S) + Cardinality(T) /\ Cardinality(U) \in Nat
    <3>1. IsFiniteSet(S \cap T)
      BY <2>3, FS_Subset
    <3>2. IsFiniteSet(S \cup T) /\ Cardinality(S \cup T) = Cardinality(S) + Cardinality(T) - Cardinality(S \cap T)
      BY <2>3, FS_Union
    <3>3. Cardinality(S \cap T) \in Nat /\ Cardinality(S \cup T) \in Nat
      BY <3>1, <3>2, FS_CardinalityType
    <3> QED BY <2>3, <3>2, <3>3 DEF U
  <2>5. IsFiniteSet(M) /\ Cardinality(M) <= Cardinality(U)
    BY <2>4, ImageFinite
  <2> HIDE DEF M
  <2>6. Cardinality(X) <= Cardinality(M) /\ Cardinality(X) \in Nat /\ Cardinality(M) \in Nat
    BY <2>2, <2>5, FS_Subset, FS_CardinalityType
  <2>7. Cardinality(X) >= 2 * D - 1
    BY DEF X
  <2>8. Cardinality(S) >= D \/ Cardinality(T) >= D
    <3> DEFINE x == Cardinality(X)
               s == Cardinality(S)
               p == Cardinality(T)
    <3>1. x \in Nat /\ s \in Nat /\ p \in Nat /\ x <= s + p /\ x >= 2 * D - 1
      BY <2>3, <2>4, <2>5, <2>6, <2>7
    <3> HIDE DEF x, s, p, D
    <3>2. s >= D \/ p >= D
      BY <1>4, <3>1
    <3> QED BY <3>2 DEF s, p
  <2>9. WasToldOf(K, S, ages, askedAgo') /\ WasToldOf(K, T, ages, askedAgo')
    BY <1>1 DEF ToldFor, WasToldOf, TunnelKey, S, T
  <2>10. PICK G : G \in {S, T} /\ Cardinality(G) >= D /\ WasToldOf(K, G, ages, askedAgo')
    BY <2>8, <2>9
  <2>11. G # {}
    <3> SUFFICES ASSUME G = {} PROVE FALSE
      OBVIOUS
    <3>1. Cardinality(G) = 0
      BY FS_EmptySet
    <3>2. Cardinality(G) >= D
      BY <2>10
    <3> QED BY <1>4, <3>1, <3>2
  <2>12. PICK a \in G : TRUE
    BY <2>11
  <2>13. K \in DOMAIN ages /\ ages[K] < TunnelPause + askedAgo'[a]
    BY <2>10, <2>12 DEF WasToldOf
  <2>14. askedAgo'[a] < W /\ askedAgo'[a] \in Nat
    <3>1. a \in F
      BY <1>7, <2>10, <2>12 DEF S, T
    <3>2. askedAgo' \in [Askers -> 0..W]
      BY <1>1 DEF WindowsHold
    <3> QED BY <1>4, <3>1, <3>2
  <2>15. ages[K] <= W + TunnelPause - 2
    BY <1>4, <1>6, <2>13, <2>14
  <2> QED BY <1>5, <2>13, <2>15
<1> QED BY <1>11, <1>12, <1>13

\* No key is raised twice within a pause.
LEMMA PausesAreKeptThen ==
    ASSUME ContactAssumption, ContactInv, NEW c \in Contacts, ObserveContact(c)
    PROVE  PausesAreKept(c)
<1> SUFFICES ASSUME NEW t \in Tables, Raised(c)[t] # <<>>, Cardinality(DOMAIN silence'[t]) <= MaxPairings
             PROVE  SilentFor(t, Head(Raised(c)[t])) >= Pause(t)
  BY DEF PausesAreKept
<1> DEFINE D == DOMAIN silence[t]
           E == DOMAIN silence'[t]
<1>1. D \subseteq E
  BY StampsAfter
<1>2. StampsKept(t, tables'[t], silence'[t]) /\ StampsHold(t)
  BY StampsAfter DEF ContactInv
<1>3. IsFiniteSet(E)
  BY <1>2 DEF StampsKept
<1>4. Cardinality(E) <= MaxPairings /\ MaxPairings \in Nat
  BY DEF ContactAssumption
<1> HIDE DEF D, E
<1>5. Cardinality(D) <= Cardinality(E) /\ Cardinality(E) \in Nat /\ Cardinality(D) \in Nat
  BY <1>1, <1>3, FS_Subset, FS_CardinalityType
<1>6. Cardinality(D) <= MaxPairings
  BY <1>4, <1>5
<1>7. ~IsPausing(t, Head(Raised(c)[t]))
  BY RaisedAre
<1> QED BY <1>2, <1>6, <1>7, PausingIs DEF D

\* Together.
LEMMA ContactShows ==
    ASSUME ContactAssumption PROVE ContactInv /\ ContactInv' => ContactReported
BY ContactsAreReportedThen, TunnelsAreReportedThen, PausesAreKeptThen DEF ContactReported

\* Contacts are reported once in a pause and never missed for one, however many are made, of
\* whom, while whatever is listed.
THEOREM ContactsCorrect == ContactSpec => ContactFindingsExact
<1>1. ContactInit => ContactInv
  BY ContactAssumption, ContactStarts
<1>2. ContactInv /\ [ContactNext]_contactVars => ContactInv'
  BY ContactAssumption, ContactStep
<1>3. ContactInv /\ ContactInv' => [ContactReported]_contactVars
  BY ContactAssumption, ContactShows
<1> QED BY <1>1, <1>2, <1>3, PTL DEF ContactSpec, ContactFindingsExact

-----------------------------------------------------------------------------
(* The indicator feeds *)

\* A range runs from one address to another.
LEMMA RangeIs ==
    ASSUME IntelAssumption, NEW r \in Ranges
    PROVE  /\ r.start \in Nat /\ r.end \in Nat /\ r.start <= r.end
           /\ r.start \in Addresses /\ r.end \in Addresses /\ r = [start |-> r.start, end |-> r.end]
BY DEF Ranges, IntelAssumption

\* The ranges are finitely many.
LEMMA RangesFinite == ASSUME IntelAssumption PROVE IsFiniteSet(Ranges)
<1> DEFINE f == [p \in Addresses \X Addresses |-> [start |-> p[1], end |-> p[2]]]
           B == [start : Addresses, end : Addresses]
<1>1. IsFiniteSet(Addresses \X Addresses)
  BY FS_Product DEF IntelAssumption
<1>2. f \in [Addresses \X Addresses -> B]
  OBVIOUS
<1>3. \A r \in B : \E p \in Addresses \X Addresses : f[p] = r
  <2>1. ASSUME NEW r \in B PROVE \E p \in Addresses \X Addresses : f[p] = r
    <3>1. <<r.start, r.end>> \in Addresses \X Addresses /\ f[<<r.start, r.end>>] = r
      OBVIOUS
    <3> QED BY <3>1
  <2> QED BY <2>1
<1> HIDE DEF f, B
<1>4. f \in Surjection(Addresses \X Addresses, B)
  BY <1>2, <1>3 DEF Surjection
<1>5. IsFiniteSet(B)
  BY <1>1, <1>4, FS_Surjection
<1>6. Ranges \subseteq B
  BY DEF Ranges, B
<1> QED BY <1>5, <1>6, FS_Subset

\* Every set of ranges has one that is taken last.
LEMMA LatestIs ==
    ASSUME IntelAssumption, NEW U \in SUBSET Ranges, U # {}
    PROVE  /\ Latest(U) \in U
           /\ \A s \in U : s.start <= Latest(U).start
<1>1. IsFiniteSet(U)
  BY RangesFinite, FS_Subset
<1> DEFINE firsts == {s.start : s \in U}
<1>2. IsFiniteSet(firsts)
  <2> DEFINE h == [s \in U |-> s.start]
  <2>1. firsts = {h[s] : s \in U}
    OBVIOUS
  <2> HIDE DEF h, firsts
  <2> QED BY <1>1, <2>1, ImageFinite
<1>3. PICK m \in firsts : \A n \in firsts : m >= n
  <2>1. firsts \in SUBSET Nat /\ firsts # {}
    BY RangeIs
  <2> HIDE DEF firsts
  <2> QED BY <1>2, <2>1, LargestOf
<1> DEFINE late == {s \in U : s.start = m}
           ends == {s.end : s \in late}
<1>4. IsFiniteSet(late) /\ late # {}
  BY <1>1, <1>3, FS_Subset
<1>5. IsFiniteSet(ends)
  <2> DEFINE h == [s \in late |-> s.end]
  <2>1. ends = {h[s] : s \in late}
    OBVIOUS
  <2> HIDE DEF h, late, ends
  <2> QED BY <1>4, <2>1, ImageFinite
<1>6. PICK e \in ends : \A n \in ends : e >= n
  <2>1. ends \in SUBSET Nat /\ ends # {}
    BY <1>4, RangeIs
  <2> HIDE DEF ends
  <2> QED BY <1>5, <2>1, LargestOf
<1>7. PICK r \in late : r.end = e
  BY <1>6
<1>8. \A s \in U : s.start < r.start \/ (s.start = r.start /\ s.end <= r.end)
  <2>1. ASSUME NEW s \in U PROVE s.start < r.start \/ (s.start = r.start /\ s.end <= r.end)
    <3>1. r.start = m /\ m \in Nat /\ s.start \in Nat /\ s.end \in Nat /\ r.end \in Nat
      BY <1>7, RangeIs
    <3>2. m >= s.start
      BY <1>3
    <3>3. CASE s.start = m
      <4>1. s.end \in ends
        BY <3>3
      <4> QED BY <1>6, <1>7, <3>1, <3>3, <4>1
    <3> QED BY <3>1, <3>2, <3>3
  <2> QED BY <2>1
<1>9. r \in U
  BY <1>7
<1> HIDE DEF late
<1> DEFINE x == Latest(U)
<1>10. x \in U /\ \A s \in U : s.start < x.start \/ (s.start = x.start /\ s.end <= x.end)
  BY <1>8, <1>9 DEF Latest
<1> HIDE DEF x
<1>11. \A s \in U : s.start \in Nat /\ x.start \in Nat
  BY <1>10, RangeIs
<1>12. \A s \in U : s.start <= x.start
  BY <1>10, <1>11
<1> QED BY <1>10, <1>12 DEF x

\* What merging has made of the ranges of U: they lie apart, in order, cover what U
\* covers, and none starts where no range of U does.
Merged(U, m) ==
    /\ m \in Seq(Ranges)
    /\ \A i, j \in 1..Len(m) : i < j => m[i].end < m[j].start
    /\ \A i \in 1..Len(m) : \E r \in U : m[i].start = r.start
    /\ \A a \in Nat : (\E i \in 1..Len(m) : Covers(m[i], a)) <=> (\E r \in U : Covers(r, a))

\* A range that takes in one which touches or overlaps it covers what both did.
LEMMA ExtendedIs ==
    ASSUME IntelAssumption, NEW r \in Ranges, NEW last \in Ranges,
           last.start <= r.start, r.start <= last.end + 1
    PROVE  /\ Extended(last, r) \in Ranges
           /\ Extended(last, r).start = last.start
           /\ \A a \in Nat : Covers(Extended(last, r), a) <=> Covers(last, a) \/ Covers(r, a)
<1> DEFINE e == Extended(last, r)
           high == IF r.end > last.end THEN r.end ELSE last.end
<1>1. e = [start |-> last.start, end |-> high]
  BY RangeIs DEF Extended
<1>2. high \in Addresses /\ high \in Nat /\ high >= last.end /\ high >= r.end /\ (high = last.end \/ high = r.end)
  BY RangeIs
<1> HIDE DEF high
<1>3. e.start = last.start /\ e.end = high
  BY <1>1
<1>4. last.start \in Addresses /\ last.start \in Nat /\ last.end \in Nat /\ last.start <= last.end
  BY RangeIs
<1>5. r.start \in Nat /\ r.end \in Nat /\ r.start <= r.end
  BY RangeIs
<1>6. e \in Ranges
  BY <1>1, <1>2, <1>4 DEF Ranges
<1> HIDE DEF e
<1>7. ASSUME NEW a \in Nat PROVE Covers(e, a) <=> Covers(last, a) \/ Covers(r, a)
  BY <1>2, <1>3, <1>4, <1>5 DEF Covers
<1> QED BY <1>3, <1>6, <1>7 DEF e

\* One more range, which starts no earlier than the others.
LEMMA MergeKeeps ==
    ASSUME IntelAssumption, NEW V \in SUBSET Ranges, NEW r \in Ranges, \A s \in V : s.start <= r.start,
           NEW m, Merged(V, m)
    PROVE  Merged(V \cup {r}, Merge(r, m))
<1> DEFINE n == Len(m)
           last == m[n]
           result == Merge(r, m)
<1>1. m \in Seq(Ranges) /\ n \in Nat /\ \A i \in 1..n : m[i] \in Ranges
  BY DEF Merged
<1>2. r.start \in Nat /\ r.end \in Nat /\ r.start <= r.end
  BY RangeIs
<1>3. \A i \in 1..n : m[i].start \in Nat /\ m[i].end \in Nat /\ m[i].start <= m[i].end /\ m[i].start <= r.start
  <2>1. \A i \in 1..n : \E s \in V : m[i].start = s.start
    BY DEF Merged
  <2>2. \A i \in 1..n : m[i].start <= r.start
    BY <2>1
  <2> QED BY <1>1, <2>2, RangeIs
<1>4. \A i, j \in 1..n : i < j => m[i].end < m[j].start
  BY DEF Merged
<1>5. Covers(r, r.start)
  BY <1>2 DEF Covers
<1>6. CASE m # <<>> /\ r.start <= last.end + 1
  <2>1. n >= 1 /\ n \in 1..n /\ Last(m) = last /\ last \in Ranges
    <3>1. n # 0
      BY <1>1, <1>6
    <3> QED BY <1>1, <3>1 DEF Last
  <2>2. result = [m EXCEPT ![n] = Extended(last, r)]
    BY <1>6, <2>1 DEF Merge
  <2>3. last.start <= r.start
    BY <1>3, <2>1
  <2> DEFINE e == Extended(last, r)
  <2> HIDE DEF last
  <2>4. /\ e \in Ranges /\ e.start = last.start
        /\ \A a \in Nat : Covers(e, a) <=> Covers(last, a) \/ Covers(r, a)
    BY <1>6, <2>1, <2>3, ExtendedIs
  <2> HIDE DEF e, result
  <2>5. result \in Seq(Ranges) /\ Len(result) = n /\ result[n] = e /\ \A i \in 1..n : i # n => result[i] = m[i]
    BY <1>1, <2>1, <2>2, <2>4 DEF e
  <2>6. \A i, j \in 1..n : i < j => result[i].end < result[j].start
    <3>1. ASSUME NEW i \in 1..n, NEW j \in 1..n, i < j PROVE result[i].end < result[j].start
      <4>1. i # n /\ result[i] = m[i] /\ m[i].end < m[j].start
        BY <1>1, <1>4, <2>5, <3>1
      <4>2. result[j].start = m[j].start
        BY <2>4, <2>5 DEF last
      <4> QED BY <4>1, <4>2
    <3> QED BY <3>1
  <2>7. \A i \in 1..n : \E s \in V \cup {r} : result[i].start = s.start
    <3>1. \A i \in 1..n : result[i].start = m[i].start
      BY <2>4, <2>5 DEF last
    <3>2. \A i \in 1..n : \E s \in V : m[i].start = s.start
      BY DEF Merged
    <3> QED BY <3>1, <3>2
  <2>8. ASSUME NEW a \in Nat
        PROVE  (\E i \in 1..n : Covers(result[i], a)) <=> (\E s \in V \cup {r} : Covers(s, a))
    <3>1. (\E i \in 1..n : Covers(m[i], a)) <=> (\E s \in V : Covers(s, a))
      BY DEF Merged
    <3>2. (\E i \in 1..n : Covers(result[i], a)) <=> (\E i \in 1..n : Covers(m[i], a)) \/ Covers(r, a)
      <4>1. Covers(e, a) <=> Covers(m[n], a) \/ Covers(r, a)
        BY <2>4 DEF last
      <4>2. ASSUME NEW i \in 1..n, Covers(result[i], a) PROVE (\E k \in 1..n : Covers(m[k], a)) \/ Covers(r, a)
        BY <2>5, <4>1, <4>2
      <4>3. ASSUME NEW i \in 1..n, Covers(m[i], a) PROVE \E k \in 1..n : Covers(result[k], a)
        BY <2>1, <2>5, <4>1, <4>3
      <4>4. ASSUME Covers(r, a) PROVE \E k \in 1..n : Covers(result[k], a)
        BY <2>1, <2>5, <4>1, <4>4
      <4> QED BY <4>2, <4>3, <4>4
    <3> QED BY <3>1, <3>2
  <2> HIDE DEF n
  <2>9. Merged(V \cup {r}, result)
    BY <2>5, <2>6, <2>7, <2>8 DEF Merged
  <2> QED BY <2>9 DEF result
<1>7. CASE ~(m # <<>> /\ r.start <= last.end + 1)
  <2>1. result = Append(m, r)
    <3>1. CASE m = <<>>
      BY <3>1 DEF Merge
    <3>2. CASE m # <<>>
      <4>1. Last(m) = last
        BY <1>1 DEF Last
      <4> QED BY <1>7, <3>2, <4>1 DEF Merge
    <3> QED BY <3>1, <3>2
  <2>2. \A i \in 1..n : m[i].end < r.start
    <3>1. ASSUME NEW i \in 1..n PROVE m[i].end < r.start
      <4>1. m # <<>> /\ n \in 1..n
        BY <1>1
      <4>2. ~(r.start <= last.end + 1) /\ last.start \in Nat /\ last.end \in Nat /\ last.start <= last.end
        BY <1>3, <1>7, <4>1
      <4>3. CASE i = n
        BY <1>2, <4>2, <4>3
      <4>4. CASE i # n
        <5>1. i < n
          BY <1>1, <4>4
        <5>2. m[i].end < last.start
          BY <1>4, <4>1, <5>1
        <5>3. m[i].end \in Nat
          BY <1>3
        <5> HIDE DEF last
        <5> QED BY <1>2, <4>2, <5>2, <5>3
      <4> QED BY <4>3, <4>4
    <3> QED BY <3>1
  <2> HIDE DEF last, result
  <2>3. result \in Seq(Ranges) /\ Len(result) = n + 1 /\ result[n + 1] = r /\ \A i \in 1..n : result[i] = m[i]
    BY <1>1, <2>1
  <2>4. 1..(n + 1) = (1..n) \cup {n + 1}
    BY <1>1
  <2>5. \A i, j \in 1..(n + 1) : i < j => result[i].end < result[j].start
    <3>1. ASSUME NEW i \in 1..(n + 1), NEW j \in 1..(n + 1), i < j PROVE result[i].end < result[j].start
      <4>1. i \in 1..n /\ i \in Nat /\ j \in Nat
        BY <1>1, <3>1
      <4>2. CASE j \in 1..n
        BY <1>4, <2>3, <3>1, <4>1, <4>2
      <4>3. CASE j = n + 1
        BY <2>2, <2>3, <4>1, <4>3
      <4> QED BY <2>4, <4>2, <4>3
    <3> QED BY <3>1
  <2>6. \A i \in 1..(n + 1) : \E s \in V \cup {r} : result[i].start = s.start
    <3>1. \A i \in 1..n : \E s \in V : m[i].start = s.start
      BY DEF Merged
    <3> QED BY <2>3, <2>4, <3>1
  <2>7. ASSUME NEW a \in Nat
        PROVE  (\E i \in 1..(n + 1) : Covers(result[i], a)) <=> (\E s \in V \cup {r} : Covers(s, a))
    <3>1. (\E i \in 1..n : Covers(m[i], a)) <=> (\E s \in V : Covers(s, a))
      BY DEF Merged
    <3>2. (\E i \in 1..(n + 1) : Covers(result[i], a)) <=> (\E i \in 1..n : Covers(m[i], a)) \/ Covers(r, a)
      <4> HIDE DEF n
      <4> QED BY <2>3, <2>4
    <3> QED BY <3>1, <3>2
  <2>8. Merged(V \cup {r}, result)
    BY <2>3, <2>5, <2>6, <2>7 DEF Merged
  <2> QED BY <2>8 DEF result
<1> QED BY <1>6, <1>7

\* seal() as the fold of a function: the element that is merged last, and the step.
LatestOf(S) == [U \in SUBSET S |-> Latest(U)]
Merging(S) == [q \in Seq(Ranges) \X S |-> Merge(q[2], q[1])]
Sealings(S, g) ==
    g = [U \in SUBSET S |-> IF U = {} THEN <<>> ELSE Merge(Latest(U), g[U \ {Latest(U)}])]

\* seal() is a function that obeys the recursion, at all the ranges.
LEMMA SealUnfold ==
    ASSUME NEW S
    PROVE  Seal(S) = (CHOOSE g : Sealings(S, g))[S]
BY DEF Seal, MapThenFoldSet, Sealings

\* Whatever obeys the recursion of seal() gives what merging promises.
LEMMA SealingsMerge ==
    ASSUME IntelAssumption, NEW S \in SUBSET Ranges, NEW g,
           \A U \in SUBSET S : g[U] = IF U = {} THEN <<>> ELSE Merge(Latest(U), g[U \ {Latest(U)}])
    PROVE  \A U \in SUBSET S : Merged(U, g[U])
<1> DEFINE T == {U \in SUBSET S : ~Merged(U, g[U])}
<1> SUFFICES ASSUME T # {} PROVE FALSE
  OBVIOUS
<1>t. T \in SUBSET (SUBSET S)
  OBVIOUS
<1> HIDE DEF T
<1>1. IsFiniteSet(S)
  BY RangesFinite, FS_Subset
<1>2. PICK U \in T : \A V \in SUBSET U : V # U => V \notin T
  BY <1>1, <1>t, SmallestSubset
<1>3. U \in SUBSET S /\ U \in SUBSET Ranges /\ ~Merged(U, g[U])
  BY DEF T
<1>4. CASE U = {}
  <2>1. g[U] = <<>>
    BY <1>3, <1>4
  <2>2. Merged(U, <<>>)
    BY <1>4 DEF Merged
  <2> QED BY <1>3, <2>1, <2>2
<1>5. CASE U # {}
  <2> DEFINE r == Latest(U)
             V == U \ {r}
  <2>1. r \in U /\ \A s \in U : s.start <= r.start
    BY <1>3, <1>5, LatestIs
  <2>2. g[U] = Merge(r, g[V])
    BY <1>3, <1>5
  <2> HIDE DEF r
  <2>3. V \in SUBSET U /\ V # U /\ V \in SUBSET S /\ V \in SUBSET Ranges /\ V \cup {r} = U /\ r \in Ranges
    BY <1>3, <2>1
  <2>4. Merged(V, g[V])
    BY <1>2, <2>3 DEF T
  <2>5. \A s \in V : s.start <= r.start
    BY <2>1
  <2> HIDE DEF V
  <2>6. Merged(V \cup {r}, Merge(r, g[V]))
    BY <2>3, <2>4, <2>5, MergeKeeps
  <2> QED BY <1>3, <2>2, <2>3, <2>6
<1> QED BY <1>4, <1>5

\* seal() gives what merging promises.
LEMMA SealMerges ==
    ASSUME IntelAssumption, NEW S \in SUBSET Ranges
    PROVE  Merged(S, Seal(S))
<1> DEFINE F == Merging(S)
           P == LatestOf(S)
           base == <<>>
           g == TheFold(F, base, P, S)
<1>1. IsFiniteSet(S)
  BY RangesFinite, FS_Subset
<1>2. \A U \in SUBSET S : P[U] = Latest(U) /\ (U # {} => Latest(U) \in U)
  BY LatestIs DEF LatestOf
<1>3. FoldOn(F, base, P, S, g)
  <2> HIDE DEF F, P, base
  <2> QED BY <1>1, <1>2, FoldExists
<1>4. \A m \in Seq(Ranges), r \in S : F[<<m, r>>] = Merge(r, m)
  BY DEF Merging
<1> HIDE DEF F, P, g
<1>5. \A U \in SUBSET S : g[U] = IF U = {} THEN base ELSE F[<<g[U \ {P[U]}], P[U]>>]
  <2> HIDE DEF base
  <2> QED BY <1>3, FoldAt
<1>6. \A U \in SUBSET S : g[U] \in Seq(Ranges) /\ Merged(U, g[U])
  <2> DEFINE T == {U \in SUBSET S : ~(g[U] \in Seq(Ranges) /\ Merged(U, g[U]))}
  <2> SUFFICES ASSUME T # {} PROVE FALSE
    OBVIOUS
  <2>t. T \in SUBSET (SUBSET S)
    OBVIOUS
  <2> HIDE DEF T
  <2>1. PICK U \in T : \A V \in SUBSET U : V # U => V \notin T
    BY <1>1, <2>t, SmallestSubset
  <2>2. U \in SUBSET S /\ U \in SUBSET Ranges /\ ~(g[U] \in Seq(Ranges) /\ Merged(U, g[U]))
    BY DEF T
  <2>3. CASE U = {}
    <3>1. g[U] = <<>>
      BY <1>5, <2>2, <2>3
    <3>2. Merged(U, <<>>) /\ <<>> \in Seq(Ranges)
      BY <2>3 DEF Merged
    <3> QED BY <2>2, <3>1, <3>2
  <2>4. CASE U # {}
    <3> DEFINE r == Latest(U)
               V == U \ {r}
    <3>1. r \in U /\ \A s \in U : s.start <= r.start
      BY <2>2, <2>4, LatestIs
    <3>2. P[U] = r
      BY <1>2, <2>2
    <3>3. g[U] = F[<<g[V], r>>]
      BY <1>5, <2>2, <2>4, <3>2
    <3> HIDE DEF r
    <3>4. V \in SUBSET U /\ V # U /\ V \in SUBSET S /\ V \in SUBSET Ranges /\ V \cup {r} = U /\ r \in Ranges /\ r \in S
      BY <2>2, <3>1
    <3>5. g[V] \in Seq(Ranges) /\ Merged(V, g[V])
      BY <2>1, <3>4 DEF T
    <3>6. \A s \in V : s.start <= r.start
      BY <3>1
    <3> HIDE DEF V
    <3>7. Merged(V \cup {r}, Merge(r, g[V]))
      BY <3>4, <3>5, <3>6, MergeKeeps
    <3>8. g[U] = Merge(r, g[V])
      BY <1>4, <3>3, <3>4, <3>5
    <3>9. Merged(U, g[U])
      BY <3>4, <3>7, <3>8
    <3> QED BY <2>2, <3>9 DEF Merged
  <2> QED BY <2>3, <2>4
<1>7. Sealings(S, g)
  <2>1. ASSUME NEW U \in SUBSET S
        PROVE  g[U] = IF U = {} THEN <<>> ELSE Merge(Latest(U), g[U \ {Latest(U)}])
    <3>1. CASE U # {}
      <4>1. P[U] = Latest(U) /\ Latest(U) \in S /\ U \ {Latest(U)} \in SUBSET S
        BY <1>2, <3>1
      <4>2. g[U \ {Latest(U)}] \in Seq(Ranges)
        BY <1>6, <4>1
      <4>3. g[U] = F[<<g[U \ {Latest(U)}], Latest(U)>>]
        BY <1>5, <3>1, <4>1
      <4> QED BY <1>4, <3>1, <4>1, <4>2, <4>3
    <3>2. CASE U = {}
      BY <1>5, <3>2
    <3> QED BY <3>1, <3>2
  <2>2. g = [U \in SUBSET S |-> g[U]]
    BY <1>3 DEF FoldOn
  <2>3. g = [U \in SUBSET S |-> IF U = {} THEN <<>> ELSE Merge(Latest(U), g[U \ {Latest(U)}])]
    BY <2>1, <2>2
  <2> QED BY <2>3 DEF Sealings
<1> DEFINE h == CHOOSE f : Sealings(S, f)
<1>8. Sealings(S, h)
  BY <1>7
<1>9. \A U \in SUBSET S : h[U] = IF U = {} THEN <<>> ELSE Merge(Latest(U), h[U \ {Latest(U)}])
  <2> HIDE DEF h
  <2> QED BY <1>8 DEF Sealings
<1>10. Merged(S, h[S])
  <2> HIDE DEF h
  <2> QED BY <1>9, SealingsMerge
<1> QED BY <1>10, SealUnfold

\* A look-up in merged ranges finds what covers the address.
LEMMA MatchIs ==
    ASSUME IntelAssumption, NEW U \in SUBSET Ranges, NEW set, Merged(U, set.ranges), NEW a \in Addresses
    PROVE  MatchIp(set, a) = (a \in set.exact \/ \E r \in U : Covers(r, a))
<1> DEFINE m == set.ranges
           n == Len(m)
           below == {i \in DOMAIN m : m[i].start <= a}
           top == Max(below)
<1>1. m \in Seq(Ranges) /\ n \in Nat /\ DOMAIN m = 1..n /\ a \in Nat
  BY DEF Merged, IntelAssumption
<1>2. \A i \in 1..n : m[i].start \in Nat /\ m[i].end \in Nat /\ m[i].start <= m[i].end
  <2>1. \A i \in 1..n : m[i] \in Ranges
    BY <1>1
  <2> QED BY <2>1, RangeIs
<1>3. \A i, j \in 1..n : i < j => m[i].end < m[j].start
  BY DEF Merged
<1>4. (\E i \in 1..n : Covers(m[i], a)) <=> (\E r \in U : Covers(r, a))
  BY <1>1 DEF Merged
<1>5. MatchIp(set, a) <=> a \in set.exact \/ (below # {} /\ a <= m[top].end)
  BY DEF MatchIp
<1>6. below # {} => top \in below /\ \A i \in below : top >= i
  <2>1. below \in SUBSET Nat /\ IsFiniteSet(below)
    <3>1. below \in SUBSET (1..n) /\ IsFiniteSet(1..n)
      BY <1>1, FS_Interval
    <3> HIDE DEF below
    <3>2. IsFiniteSet(below)
      BY <3>1, FS_Subset
    <3> QED BY <3>1, <3>2
  <2> HIDE DEF below
  <2>2. ASSUME below # {} PROVE \E x \in below : \A y \in below : x >= y
    BY <2>1, <2>2, LargestOf
  <2> QED BY <2>2 DEF Max
<1> HIDE DEF top
<1>7. (below # {} /\ a <= m[top].end) <=> \E i \in 1..n : Covers(m[i], a)
  <2>1. ASSUME below # {}, a <= m[top].end PROVE \E i \in 1..n : Covers(m[i], a)
    <3>1. top \in 1..n /\ m[top].start <= a
      BY <1>1, <1>6, <2>1
    <3> QED BY <2>1, <3>1 DEF Covers
  <2>2. ASSUME NEW i \in 1..n, Covers(m[i], a) PROVE below # {} /\ a <= m[top].end
    <3>1. i \in below /\ m[i].start <= a /\ a <= m[i].end
      BY <1>1, <2>2 DEF Covers
    <3>2. top \in 1..n /\ m[top].start <= a /\ top >= i
      BY <1>1, <1>6, <3>1
    <3>3. CASE top = i
      BY <3>1, <3>3
    <3>4. CASE top # i
      <4>1. i < top
        BY <3>2, <3>4
      <4>2. m[i].end < m[top].start
        BY <1>3, <3>2, <4>1
      <4> HIDE DEF m, below
      <4>3. m[i].end \in Nat /\ m[top].start \in Nat
        BY <1>2, <3>2
      <4> QED BY <1>1, <3>1, <3>2, <4>2, <4>3
    <3> QED BY <3>1, <3>3, <3>4
  <2> QED BY <2>1, <2>2
<1>8. MatchIp(set, a) \in BOOLEAN
  BY DEF MatchIp
<1> QED BY <1>4, <1>5, <1>7, <1>8

\* What a source lists is ranges.
LEMMA ListedRanges ==
    ASSUME IntelAssumption, lastBody \in [FeedNames -> Bodies \cup {NoBody}], NEW f \in FeedNames
    PROVE  Listed(f) \in SUBSET Ranges
BY DEF Listed, IndicatorsIn, IntelAssumption

\* The single addresses and the prefixes of some ranges.
LEMMA SinglesAre == ASSUME NEW U, NEW a PROVE a \in SinglesIn(U) <=> \E r \in U : Single(r) /\ a = r.start
BY DEF SinglesIn
LEMMA PrefixesAre == ASSUME NEW U, NEW r PROVE r \in PrefixesIn(U) <=> r \in U /\ ~Single(r)
BY DEF PrefixesIn

\* Those of two sets of ranges together, and of none.
LEMMA PartsOfUnion ==
    ASSUME NEW U, NEW V
    PROVE  /\ SinglesIn(U \cup V) = SinglesIn(U) \cup SinglesIn(V)
           /\ PrefixesIn(U \cup V) = PrefixesIn(U) \cup PrefixesIn(V)
           /\ SinglesIn({}) = {} /\ PrefixesIn({}) = {}
BY DEF SinglesIn, PrefixesIn

\* The first sources, by their places.
LEMMA FirstFeedsAre ==
    ASSUME IntelAssumption, NEW n \in 0..Len(Feeds)
    PROVE  FirstFeeds(n) = {Feeds[i] : i \in 1..n}
<1>1. {j \in DOMAIN Feeds : j <= n} = 1..n
  BY DEF IntelAssumption
<1> QED BY <1>1 DEF FirstFeeds

\* The sources a reload has behind it, when it takes the next one.
LEMMA NextFeedIs ==
    ASSUME IntelAssumption, SourcesDiffer, loading.left \in Seq(FeedNames), IsRestOfFeeds(loading.left),
           loading.left # <<>>,
           loading'.left = Tail(loading.left)
    PROVE  /\ NextFeed \in FeedNames /\ NextFeed \notin ReadSoFar
           /\ loading'.left \in Seq(FeedNames) /\ IsRestOfFeeds(loading'.left)
           /\ ReadSoFar' = ReadSoFar \cup {NextFeed}
           /\ ReadSoFar \subseteq FeedNames
           /\ SourcesRead \in Nat /\ SourcesRead < Len(Feeds) /\ SourcesRead' = SourcesRead + 1
           /\ \A i \in 1..(SourcesRead + 1) : FirstFeeds(i - 1) \subseteq ReadSoFar
           /\ \A i \in 1..SourcesRead : FirstFeeds(i) \subseteq ReadSoFar
<1> DEFINE left == loading.left
           n == Len(Feeds)
           k == Len(left)
           d == n - k
<1>1. Feeds \in Seq(FeedNames) /\ n \in Nat /\ \A i \in 1..n : Feeds[i] \in FeedNames
  BY DEF IntelAssumption, FeedNames
<1>2. left \in Seq(FeedNames) /\ k \in Nat /\ k >= 1 /\ k <= n /\ d \in Nat /\ d + 1 \in 1..n
  BY <1>1 DEF IsRestOfFeeds
<1>3. NextFeed = Feeds[d + 1]
  <2>1. NextFeed = left[1]
    BY <1>2 DEF NextFeed
  <2>2. \A i \in 1..k : left[i] = Feeds[d + i]
    BY DEF IsRestOfFeeds
  <2>3. 1 \in 1..k
    BY <1>2
  <2>4. left[1] = Feeds[d + 1]
    BY <2>2, <2>3
  <2> QED BY <2>1, <2>4
<1>4. NextFeed \in FeedNames
  BY <1>1, <1>2, <1>3
<1>5. ReadSoFar = {Feeds[i] : i \in 1..d}
  <2>1. SourcesRead = d
    BY DEF SourcesRead
  <2>2. d \in 0..n
    <3> HIDE DEF d
    <3> QED BY <1>1, <1>2
  <2> HIDE DEF d
  <2>3. FirstFeeds(d) = {Feeds[i] : i \in 1..d}
    BY <2>2, FirstFeedsAre
  <2> QED BY <2>1, <2>3 DEF ReadSoFar
<1>6. NextFeed \notin ReadSoFar
  <2>1. ASSUME NEW i \in 1..d PROVE Feeds[i] # NextFeed
    <3>d. d \in Nat /\ d <= n /\ d + 1 \in 1..n /\ DOMAIN Feeds = 1..n
      BY <1>1, <1>2
    <3> HIDE DEF d, n
    <3>1. i \in DOMAIN Feeds /\ d + 1 \in DOMAIN Feeds /\ i # d + 1
      BY <1>1, <3>d
    <3> QED BY <1>3, <3>1 DEF SourcesDiffer, IsInjective
  <2> QED BY <1>5, <2>1
<1> DEFINE rest == Tail(left)
<1>7. rest \in Seq(FeedNames) /\ Len(rest) = k - 1 /\ \A i \in 1..(k - 1) : rest[i] = left[i + 1]
  BY <1>2
<1>d. d = n - k
  OBVIOUS
<1>8. n - Len(rest) = d + 1
  <2> HIDE DEF d, n, k, rest
  <2> QED BY <1>1, <1>2, <1>7, <1>d
<1>9. IsRestOfFeeds(rest)
  <2>1. ASSUME NEW i \in 1..Len(rest) PROVE rest[i] = Feeds[n - Len(rest) + i]
    <3>1. rest[i] = left[i + 1] /\ i + 1 \in 1..k
      BY <1>2, <1>7
    <3>2. left[i + 1] = Feeds[n - k + (i + 1)]
      BY <3>1 DEF IsRestOfFeeds
    <3>3. n - k + (i + 1) = n - Len(rest) + i
      <4>1. i \in Nat
        BY <1>7, <2>1, <1>2
      <4> HIDE DEF d, n, k, rest
      <4> QED BY <1>1, <1>2, <1>7, <4>1
    <3> QED BY <3>1, <3>2, <3>3
  <2>2. Len(rest) <= n
    BY <1>1, <1>2, <1>7
  <2> HIDE DEF rest, n
  <2> QED BY <1>7, <2>1, <2>2 DEF IsRestOfFeeds, n
<1>10. ReadSoFar' = {Feeds[i] : i \in 1..(d + 1)}
  <2>1. SourcesRead' = d + 1
    BY <1>8 DEF SourcesRead
  <2>2. d + 1 \in 0..n
    BY <1>1, <1>2
  <2> HIDE DEF d
  <2>3. FirstFeeds(d + 1) = {Feeds[i] : i \in 1..(d + 1)}
    BY <2>2, FirstFeedsAre
  <2> QED BY <2>1, <2>3 DEF ReadSoFar
<1>11. 1..(d + 1) = (1..d) \cup {d + 1}
  <2> HIDE DEF d
  <2> QED BY <1>2
<1>12. ReadSoFar' = ReadSoFar \cup {NextFeed}
  <2> HIDE DEF d
  <2> QED BY <1>3, <1>5, <1>10, <1>11
<1>13. ReadSoFar \subseteq FeedNames
  <2>1. \A i \in 1..d : i \in 1..n
    BY <1>1, <1>2
  <2> QED BY <1>1, <1>5, <2>1
<1>14. SourcesRead = d /\ SourcesRead' = d + 1
  BY <1>8 DEF SourcesRead
<1>15. d \in Nat /\ d < n
  BY <1>1, <1>2
<1>16. \A i \in 1..(d + 1) : FirstFeeds(i - 1) \subseteq ReadSoFar
  <2> HIDE DEF d
  <2>1. \A i \in 1..(d + 1) : i - 1 <= d
    BY <1>15
  <2> QED BY <1>14, <1>15, <2>1 DEF ReadSoFar, FirstFeeds
<1>17. \A i \in 1..d : FirstFeeds(i) \subseteq ReadSoFar
  <2> HIDE DEF d
  <2> QED BY <1>14, <1>15 DEF ReadSoFar, FirstFeeds
<1> QED BY <1>4, <1>6, <1>7, <1>9, <1>12, <1>13, <1>14, <1>15, <1>16, <1>17


\* The sets a reload can hold, and the counts of them.
LEMMA HeldFinite ==
    ASSUME IntelAssumption, NEW A \in SUBSET Addresses, NEW R \in SUBSET Ranges
    PROVE  /\ IsFiniteSet(A) /\ Cardinality(A) \in Nat
           /\ IsFiniteSet(R) /\ Cardinality(R) \in Nat
<1>1. IsFiniteSet(A) /\ IsFiniteSet(R)
  BY RangesFinite, FS_Subset DEF IntelAssumption
<1> QED BY <1>1, FS_CardinalityType

\* The indicators of a body, and their parts.
LEMMA PartsAre ==
    ASSUME IntelAssumption, NEW body \in Bodies, NEW kept \in SUBSET IndicatorsIn(body)
    PROVE  SinglesIn(kept) \in SUBSET Addresses /\ PrefixesIn(kept) \in SUBSET Ranges
<1>1. kept \in SUBSET Ranges
  BY DEF IndicatorsIn, IntelAssumption
<1>2. ASSUME NEW a \in SinglesIn(kept) PROVE a \in Addresses
  BY <1>1, <1>2, SinglesAre, RangeIs
<1>3. ASSUME NEW r \in PrefixesIn(kept) PROVE r \in Ranges
  BY <1>1, <1>3, PrefixesAre
<1> QED BY <1>2, <1>3

\* What the sources list, when the next one is taken and the others keep their bodies.
LEMMA GatheredIs ==
    ASSUME NEW f, f \notin ReadSoFar, ReadSoFar' = ReadSoFar \cup {f},
           \A g \in ReadSoFar : Listed(g)' = Listed(g)
    PROVE  /\ Gathered' = Gathered \cup Listed(f)'
           /\ \A feeds \in SUBSET ReadSoFar : AllListed(feeds)' = AllListed(feeds)
BY DEF Gathered, AllListed

\* The state of a reload that has a source to read.
LEMMA LoadingIs ==
    ASSUME LoadingOK, Reading
    PROVE  /\ loading.running
           /\ loading.left \in Seq(FeedNames) /\ loading.left # <<>>
           /\ loading.exact \in SUBSET Addresses /\ loading.pending \in SUBSET Ranges
           /\ loading.pushed \in Nat /\ loading.cut \in 1..Uncut
           /\ loading.from \in [FeedNames -> Bodies \cup {NoBody}]
BY DEF LoadingOK, Reading

\* The fields of a reload that gives a source up.
LEMMA SkippedIs ==
    ASSUME LoadingOK, Reading, NEW after, after = [loading EXCEPT !.left = Tail(@)]
    PROVE  after = [running |-> loading.running, left |-> Tail(loading.left), exact |-> loading.exact,
                    pending |-> loading.pending, pushed |-> loading.pushed, from |-> loading.from,
                    cut |-> loading.cut]
<1> DEFINE rest == Tail(loading.left)
<1>1. after = [loading EXCEPT !.left = rest]
  BY Z3
<1>2. loading = [running |-> loading.running, left |-> loading.left, exact |-> loading.exact,
                 pending |-> loading.pending, pushed |-> loading.pushed, from |-> loading.from,
                 cut |-> loading.cut]
  BY DEF LoadingOK
<1> HIDE DEF rest
<1>3. after = [running |-> loading.running, left |-> rest, exact |-> loading.exact,
               pending |-> loading.pending, pushed |-> loading.pushed, from |-> loading.from,
               cut |-> loading.cut]
  BY <1>1, <1>2
<1> QED BY <1>3 DEF rest

\* The registry starts with nothing read.
LEMMA IntelStarts == ASSUME IntelAssumption PROVE IntelInit => IntelInv
<1> SUFFICES ASSUME IntelInit PROVE IntelInv
  OBVIOUS
<1>1. loading = NotLoading /\ Uncut \in 1..Uncut
  BY DEF IntelInit, Uncut, IntelAssumption
<1>2. LoadingOK /\ ~loading.running /\ loading.pushed = 0
  BY <1>1 DEF NotLoading, LoadingOK
<1> QED BY <1>2 DEF IntelInit, IntelInv, CopiesAreLast, IntelAssumption, FeedNames

\* A set that is full takes nothing it does not hold.
LEMMA FullStays ==
    ASSUME IntelAssumption, LoadingOK, SizeOf(loading) = MaxIndicators, NEW body \in Bodies,
           NEW kept \in SUBSET IndicatorsIn(body), SizeOf(LoadingWith(body, kept)) <= MaxIndicators
    PROVE  /\ loading.exact \cup SinglesIn(kept) = loading.exact
           /\ PrefixesIn(kept) = {}
           /\ Cardinality(PrefixesIn(kept)) = 0
           /\ SizeOf(LoadingWith(body, kept)) = MaxIndicators
<1> DEFINE exact == loading.exact
           more == exact \cup SinglesIn(kept)
           prefixes == PrefixesIn(kept)
           a == Cardinality(exact)
           b == Cardinality(more)
           c == Cardinality(prefixes)
           d == loading.pushed
<1>1. exact \in SUBSET Addresses /\ d \in Nat
  BY DEF LoadingOK
<1>2. more \in SUBSET Addresses /\ prefixes \in SUBSET Ranges
  BY <1>1, PartsAre
<1>3. exact \in SUBSET more
  OBVIOUS
<1>4. SizeOf(loading) = a + d
  BY DEF SizeOf
<1>5. SizeOf(LoadingWith(body, kept)) = b + (d + c)
  BY DEF SizeOf, LoadingWith
<1> HIDE DEF more, exact, prefixes
<1>6. IsFiniteSet(more) /\ b \in Nat /\ IsFiniteSet(prefixes) /\ c \in Nat /\ a \in Nat
  BY <1>1, <1>2, HeldFinite
<1>7. a <= b /\ (b = a => more = exact)
  BY <1>3, <1>6, FS_Subset
<1>8. c = 0 <=> prefixes = {}
  BY <1>6, FS_EmptySet
<1>9. MaxIndicators \in Nat
  BY DEF IntelAssumption
<1> HIDE DEF a, b, c, d
<1>10. c = 0 /\ b = a
  <2>1. a + d = MaxIndicators /\ b + (d + c) <= MaxIndicators
    BY <1>4, <1>5
  <2> QED BY <1>1, <1>6, <1>7, <1>9, <2>1
<1>11. b + (d + c) = MaxIndicators
  BY <1>1, <1>4, <1>6, <1>10
<1> QED BY <1>5, <1>7, <1>8, <1>10, <1>11 DEF more, exact, prefixes, c

\* A source is read: it delivered the body now, or it is the copy on disk.
LEMMA ReadsInv ==
    ASSUME IntelAssumption, SourcesDiffer, IntelInv, Reading, NEW body \in Bodies, Reads(body),
           lastBody' \in [FeedNames -> Bodies \cup {NoBody}],
           \A f \in FeedNames : f # NextFeed => lastBody'[f] = lastBody[f],
           ~uncached' => ~uncached /\ lastBody'[NextFeed] = body
    PROVE  /\ LoadingOK' /\ IsRestOfFeeds(loading.left)'
           /\ (loading.pending = {} => loading.pushed = 0)'
           /\ ~uncached' => Gathers'
<1> DEFINE good == IndicatorsIn(body)
           at == [loading.from EXCEPT ![NextFeed] = body]
<1>1. /\ loading.running
      /\ loading.left \in Seq(FeedNames) /\ loading.left # <<>>
      /\ loading.exact \in SUBSET Addresses /\ loading.pending \in SUBSET Ranges
      /\ loading.pushed \in Nat /\ loading.cut \in 1..Uncut
      /\ loading.from \in [FeedNames -> Bodies \cup {NoBody}]
  BY LoadingIs DEF IntelInv
<1>2. PICK kept \in SUBSET good :
        /\ SizeOf(LoadingWith(body, kept)) <= MaxIndicators
        /\ kept # good => SizeOf(LoadingWith(body, kept)) = MaxIndicators
        /\ loading' = LoadingWith(body, kept)
  BY DEF Reads
<1> DEFINE singles == SinglesIn(kept)
           prefixes == PrefixesIn(kept)
<1>3. singles \in SUBSET Addresses /\ prefixes \in SUBSET Ranges
  BY <1>2, PartsAre
<1>4. /\ loading'.running = TRUE /\ loading'.left = Tail(loading.left)
      /\ loading'.exact = loading.exact \cup singles /\ loading'.pending = loading.pending \cup prefixes
      /\ loading'.pushed = loading.pushed + Cardinality(prefixes)
      /\ loading'.cut = IF kept = good \/ loading.cut # Uncut THEN loading.cut ELSE SourcesRead + 1
  BY <1>2 DEF LoadingWith
<1>5. /\ NextFeed \in FeedNames /\ NextFeed \notin ReadSoFar
      /\ loading'.left \in Seq(FeedNames) /\ IsRestOfFeeds(loading'.left)
      /\ ReadSoFar' = ReadSoFar \cup {NextFeed}
      /\ ReadSoFar \subseteq FeedNames
      /\ SourcesRead \in Nat /\ SourcesRead < Len(Feeds) /\ SourcesRead' = SourcesRead + 1
      /\ \A i \in 1..(SourcesRead + 1) : FirstFeeds(i - 1) \subseteq ReadSoFar
      /\ \A i \in 1..SourcesRead : FirstFeeds(i) \subseteq ReadSoFar
  <2>1. IsRestOfFeeds(loading.left)
    BY DEF IntelInv, Reading
  <2> QED BY <1>1, <1>4, <2>1, NextFeedIs
<1>f. PICK f \in FeedNames : f = NextFeed
  BY <1>5
<1>6. /\ f \in FeedNames /\ f \notin ReadSoFar
      /\ ReadSoFar' = ReadSoFar \cup {f}
  BY <1>5, <1>f
<1>n. Len(Feeds) \in Nat /\ Uncut = Len(Feeds) + 1
  BY DEF IntelAssumption, Uncut
<1>m. PICK n \in Nat : n = SourcesRead
  BY <1>5
<1>7. n \in Nat /\ n + 1 \in 1..Uncut /\ n + 1 # Uncut /\ n \notin 1..0
  BY <1>5, <1>n, <1>m
<1>8. IsFiniteSet(prefixes) /\ Cardinality(prefixes) \in Nat
  BY <1>3, HeldFinite
<1>9. LoadingOK'
  <2>1. at \in [FeedNames -> Bodies \cup {NoBody}]
    BY <1>1
  <2>2. loading'.cut \in 1..Uncut
    BY <1>1, <1>4, <1>7, <1>m
  <2>3. loading'.pushed \in Nat
    BY <1>1, <1>4, <1>8
  <2>4. loading'.exact \in SUBSET Addresses /\ loading'.pending \in SUBSET Ranges
    BY <1>1, <1>3, <1>4
  <2>5. loading' = [running |-> TRUE, left |-> loading'.left, exact |-> loading'.exact,
                    pending |-> loading'.pending, pushed |-> loading'.pushed, from |-> at, cut |-> loading'.cut]
    BY <1>2 DEF LoadingWith
  <2>6. PICK run \in BOOLEAN : run = TRUE
    OBVIOUS
  <2>7. loading' = [running |-> run, left |-> loading'.left, exact |-> loading'.exact,
                    pending |-> loading'.pending, pushed |-> loading'.pushed, from |-> at, cut |-> loading'.cut]
    BY ONLY <2>5, <2>6
  <2> HIDE DEF at
  <2> QED BY <1>5, <2>1, <2>2, <2>3, <2>4, <2>7 DEF LoadingOK
<1>10. IsRestOfFeeds(loading.left)'
  BY <1>5 DEF IsRestOfFeeds
<1>11. (loading.pending = {} => loading.pushed = 0)'
  <2>1. ASSUME loading'.pending = {} PROVE loading'.pushed = 0
    <3>1. loading.pending = {} /\ prefixes = {}
      BY <1>4, <2>1
    <3>2. loading.pushed = 0
      BY <3>1 DEF IntelInv
    <3>3. Cardinality(prefixes) = 0
      BY <3>1, FS_EmptySet
    <3> QED BY <1>4, <3>2, <3>3
  <2> QED BY <2>1
<1>12. ASSUME ~uncached' PROVE Gathers'
  <2>1. lastBody'[f] = body /\ ~uncached
    BY <1>12, <1>f
  <2>2. Listed(f)' = good
    <3>1. body # NoBody
      BY DEF IntelAssumption
    <3> QED BY <2>1, <3>1 DEF Listed
  <2>3. \A g \in ReadSoFar : Listed(g)' = Listed(g)
    <3>1. ASSUME NEW g \in ReadSoFar PROVE Listed(g)' = Listed(g)
      <4>1. g \in FeedNames /\ g # NextFeed
        BY <1>5, <3>1
      <4>2. lastBody'[g] = lastBody[g]
        BY <4>1
      <4> QED BY <4>2 DEF Listed
    <3> QED BY <3>1
  <2>4. /\ Gathered' = Gathered \cup good
        /\ \A feeds \in SUBSET ReadSoFar : AllListed(feeds)' = AllListed(feeds)
    BY <1>6, <2>2, <2>3, GatheredIs
  <2>5. Gathers
    BY <2>1 DEF IntelInv, Reading
  <2>k. PICK k \in 1..Uncut : k = loading.cut
    BY <1>1
  <2>6. CASE k = Uncut /\ HoldsJust(Gathered)
    <3>1. loading.exact = SinglesIn(Gathered) /\ loading.pending = PrefixesIn(Gathered)
      BY <2>6 DEF HoldsJust
    <3>2. CASE kept = good
      <4>1. loading'.cut = Uncut
        BY <1>4, <2>6, <2>k, <3>2
      <4>2. loading'.exact = SinglesIn(Gathered') /\ loading'.pending = PrefixesIn(Gathered')
        <5>1. /\ SinglesIn(Gathered \cup good) = SinglesIn(Gathered) \cup SinglesIn(good)
              /\ PrefixesIn(Gathered \cup good) = PrefixesIn(Gathered) \cup PrefixesIn(good)
          BY PartsOfUnion
        <5> QED BY <1>4, <2>4, <3>1, <3>2, <5>1
      <4> QED BY <4>1, <4>2 DEF Gathers, HoldsJust, Uncut
    <3>3. CASE kept # good
      <4>1. loading'.cut = n + 1
        BY <1>4, <1>m, <2>6, <2>k, <3>3
      <4>2. SizeOf(loading') = MaxIndicators
        BY <1>2, <3>3
      <4>3. AllListed(FirstFeeds(n))' = Gathered
        BY <1>7, <1>m, <2>4 DEF Gathered, ReadSoFar
      <4>4. AllListed(FirstFeeds(n + 1))' = Gathered \cup good
        BY <1>5, <1>m, <2>4 DEF Gathered, ReadSoFar
      <4>5. SinglesIn(Gathered) \subseteq loading'.exact /\ PrefixesIn(Gathered) \subseteq loading'.pending
        BY <1>4, <3>1
      <4>6. loading'.exact \subseteq SinglesIn(Gathered \cup good) /\ loading'.pending \subseteq PrefixesIn(Gathered \cup good)
        <5>1. singles \subseteq SinglesIn(good) /\ prefixes \subseteq PrefixesIn(good)
          BY <1>2, SinglesAre, PrefixesAre
        <5>2. /\ SinglesIn(Gathered \cup good) = SinglesIn(Gathered) \cup SinglesIn(good)
              /\ PrefixesIn(Gathered \cup good) = PrefixesIn(Gathered) \cup PrefixesIn(good)
          BY PartsOfUnion
        <5> HIDE DEF good, singles, prefixes
        <5> QED BY <1>4, <3>1, <5>1, <5>2
      <4>7. (n + 1) - 1 = n /\ n + 1 \in 1..(n + 1)
        BY <1>7
      <4>8. HoldsAllOf(AllListed(FirstFeeds(loading.cut - 1)))'
        BY <4>1, <4>3, <4>5, <4>7 DEF HoldsAllOf
      <4>9. HoldsNoMoreThan(AllListed(FirstFeeds(loading.cut)))'
        BY <4>1, <4>4, <4>6 DEF HoldsNoMoreThan
      <4>10. (loading.cut \in 1..SourcesRead /\ SizeOf(loading) = MaxIndicators)'
        BY <1>5, <1>m, <4>1, <4>2, <4>7 DEF SizeOf
      <4> QED BY <4>8, <4>9, <4>10 DEF Gathers
    <3> QED BY <3>2, <3>3
  <2>7. CASE /\ k \in 1..n /\ SizeOf(loading) = MaxIndicators
             /\ HoldsAllOf(AllListed(FirstFeeds(k - 1)))
             /\ HoldsNoMoreThan(AllListed(FirstFeeds(k)))
    <3>1. /\ loading.exact \cup singles = loading.exact /\ prefixes = {}
          /\ SizeOf(LoadingWith(body, kept)) = MaxIndicators
      BY <1>2, <2>7, <2>k, FullStays DEF IntelInv
    <3>2. k # Uncut /\ k \in 1..(n + 1)
      BY <1>5, <1>n, <1>m, <2>7
    <3>3. loading'.exact = loading.exact /\ loading'.pending = loading.pending /\ loading'.cut = k
      BY <1>4, <2>k, <3>1, <3>2
    <3>4. FirstFeeds(k - 1) \subseteq ReadSoFar /\ FirstFeeds(k) \subseteq ReadSoFar
      BY <1>5, <1>m, <2>7, <3>2
    <3>5. /\ AllListed(FirstFeeds(loading.cut - 1))' = AllListed(FirstFeeds(k - 1))
          /\ AllListed(FirstFeeds(loading.cut))' = AllListed(FirstFeeds(k))
      <4>1. AllListed(FirstFeeds(k - 1))' = AllListed(FirstFeeds(k - 1)) /\ AllListed(FirstFeeds(k))' = AllListed(FirstFeeds(k))
        BY <2>4, <3>4
      <4> QED BY <3>3, <4>1
    <3>6. HoldsAllOf(AllListed(FirstFeeds(loading.cut - 1)))' /\ HoldsNoMoreThan(AllListed(FirstFeeds(loading.cut)))'
      BY <2>7, <3>3, <3>5 DEF HoldsAllOf, HoldsNoMoreThan
    <3>7. (loading.cut \in 1..SourcesRead /\ SizeOf(loading) = MaxIndicators)'
      <4>1. k \in 1..(n + 1) /\ SourcesRead' = n + 1
        BY <1>5, <1>m, <3>2
      <4> QED BY <1>2, <3>1, <3>3, <4>1 DEF SizeOf
    <3> QED BY <3>6, <3>7 DEF Gathers
  <2> QED BY <2>5, <2>6, <2>7, <2>k, <1>m DEF Gathers
<1> QED BY <1>9, <1>10, <1>11, <1>12

\* A source gives nothing, and has nothing on disk either.
LEMMA SkipsInv ==
    ASSUME IntelAssumption, SourcesDiffer, IntelInv, Reading,
           loading' = [loading EXCEPT !.left = Tail(@)],
           lastBody' \in [FeedNames -> Bodies \cup {NoBody}],
           \A f \in FeedNames : f # NextFeed => lastBody'[f] = lastBody[f],
           ~uncached' => ~uncached /\ lastBody'[NextFeed] = NoBody
    PROVE  /\ LoadingOK' /\ IsRestOfFeeds(loading.left)'
           /\ (loading.pending = {} => loading.pushed = 0)'
           /\ ~uncached' => Gathers'
<1>1. /\ loading.running
      /\ loading.left \in Seq(FeedNames) /\ loading.left # <<>>
      /\ loading.exact \in SUBSET Addresses /\ loading.pending \in SUBSET Ranges
      /\ loading.pushed \in Nat /\ loading.cut \in 1..Uncut
      /\ loading.from \in [FeedNames -> Bodies \cup {NoBody}]
  BY LoadingIs DEF IntelInv
<1>4. loading' = [running |-> loading.running, left |-> Tail(loading.left), exact |-> loading.exact,
                  pending |-> loading.pending, pushed |-> loading.pushed, from |-> loading.from,
                  cut |-> loading.cut]
  BY SkippedIs DEF IntelInv
<1>4a. loading'.left = Tail(loading.left)
  BY <1>4
<1>5. /\ NextFeed \in FeedNames /\ NextFeed \notin ReadSoFar
      /\ loading'.left \in Seq(FeedNames) /\ IsRestOfFeeds(loading'.left)
      /\ ReadSoFar' = ReadSoFar \cup {NextFeed}
      /\ ReadSoFar \subseteq FeedNames
      /\ SourcesRead \in Nat /\ SourcesRead < Len(Feeds) /\ SourcesRead' = SourcesRead + 1
      /\ \A i \in 1..(SourcesRead + 1) : FirstFeeds(i - 1) \subseteq ReadSoFar
      /\ \A i \in 1..SourcesRead : FirstFeeds(i) \subseteq ReadSoFar
  <2>1. IsRestOfFeeds(loading.left)
    BY DEF IntelInv, Reading
  <2> QED BY <1>1, <1>4a, <2>1, NextFeedIs
<1>f. PICK f \in FeedNames : f = NextFeed
  BY <1>5
<1>6. f \in FeedNames /\ f \notin ReadSoFar /\ ReadSoFar' = ReadSoFar \cup {f}
  BY <1>5, <1>f
<1>7. LoadingOK'
  <2>1. Tail(loading.left) \in Seq(FeedNames)
    BY <1>4a, <1>5
  <2> QED BY <1>1, <1>4, <2>1 DEF LoadingOK
<1>8. IsRestOfFeeds(loading.left)'
  BY <1>5 DEF IsRestOfFeeds
<1>9. loading'.exact = loading.exact /\ loading'.pending = loading.pending /\ loading'.pushed = loading.pushed /\ loading'.cut = loading.cut
  BY <1>4
<1>10. (loading.pending = {} => loading.pushed = 0)'
  BY <1>9 DEF IntelInv
<1>11. ASSUME ~uncached' PROVE Gathers'
  <2>1. lastBody'[f] = NoBody /\ ~uncached
    BY <1>11, <1>f
  <2>2. Listed(f)' = {}
    BY <2>1 DEF Listed
  <2>3. \A g \in ReadSoFar : Listed(g)' = Listed(g)
    <3>1. ASSUME NEW g \in ReadSoFar PROVE Listed(g)' = Listed(g)
      <4>1. g \in FeedNames /\ g # NextFeed
        BY <1>5, <3>1
      <4>2. lastBody'[g] = lastBody[g]
        BY <4>1
      <4> QED BY <4>2 DEF Listed
    <3> QED BY <3>1
  <2>4. /\ Gathered' = Gathered
        /\ \A feeds \in SUBSET ReadSoFar : AllListed(feeds)' = AllListed(feeds)
    <3>1. Gathered' = Gathered \cup Listed(f)' /\ \A feeds \in SUBSET ReadSoFar : AllListed(feeds)' = AllListed(feeds)
      BY <1>6, <2>3, GatheredIs
    <3> QED BY <2>2, <3>1
  <2>5. Gathers
    BY <2>1 DEF IntelInv, Reading
  <2>6. CASE loading.cut = Uncut /\ HoldsJust(Gathered)
    <3>1. (loading.cut = Uncut /\ HoldsJust(Gathered))'
      BY <1>9, <2>4, <2>6 DEF HoldsJust, Uncut
    <3> QED BY <3>1 DEF Gathers
  <2>k. PICK k \in 1..Uncut : k = loading.cut
    BY <1>1
  <2>n. PICK n \in Nat : n = SourcesRead
    BY <1>5
  <2>7. CASE /\ k \in 1..n /\ SizeOf(loading) = MaxIndicators
             /\ HoldsAllOf(AllListed(FirstFeeds(k - 1)))
             /\ HoldsNoMoreThan(AllListed(FirstFeeds(k)))
    <3>2. k \in 1..(n + 1)
      BY <2>7
    <3>4. FirstFeeds(k - 1) \subseteq ReadSoFar /\ FirstFeeds(k) \subseteq ReadSoFar
      BY <1>5, <2>n, <2>7, <3>2
    <3>5. /\ AllListed(FirstFeeds(loading.cut - 1))' = AllListed(FirstFeeds(k - 1))
          /\ AllListed(FirstFeeds(loading.cut))' = AllListed(FirstFeeds(k))
      BY <1>9, <2>4, <2>k, <3>4
    <3>6. HoldsAllOf(AllListed(FirstFeeds(loading.cut - 1)))' /\ HoldsNoMoreThan(AllListed(FirstFeeds(loading.cut)))'
      BY <1>9, <2>7, <2>k, <3>5 DEF HoldsAllOf, HoldsNoMoreThan
    <3>7. (loading.cut \in 1..SourcesRead /\ SizeOf(loading) = MaxIndicators)'
      BY <1>5, <1>9, <2>7, <2>k, <2>n, <3>2 DEF SizeOf
    <3> QED BY <3>6, <3>7 DEF Gathers
  <2> QED BY <2>5, <2>6, <2>7, <2>k, <2>n DEF Gathers
<1> QED BY <1>7, <1>8, <1>10, <1>11

\* A reload starts with nothing gathered.
LEMMA BeginReloadInv ==
    ASSUME IntelAssumption, IntelInv, BeginReload
    PROVE  IntelInv'
<1>1. loading' = [running |-> TRUE, left |-> Feeds, exact |-> {}, pending |-> {}, pushed |-> 0,
                  from |-> [f \in FeedNames |-> NoBody], cut |-> Uncut]
  BY DEF BeginReload, NotLoading
<1>2. LoadingOK'
  <2>1. Uncut \in 1..Uncut
    BY DEF Uncut, IntelAssumption
  <2> QED BY <1>1, <2>1 DEF LoadingOK, IntelAssumption, FeedNames
<1>3. Feeds \in Seq(FeedNames) /\ loading'.left = Feeds
  BY <1>1 DEF IntelAssumption, FeedNames
<1>4. IsRestOfFeeds(loading.left)'
  BY <1>3 DEF IsRestOfFeeds
<1>5. Gathers'
  <2>1. ReadSoFar' = {}
    <3>1. SourcesRead' = 0
      BY <1>3 DEF SourcesRead, IntelAssumption
    <3>2. FirstFeeds(0) = {}
      BY FirstFeedsAre DEF IntelAssumption
    <3> QED BY <3>1, <3>2 DEF ReadSoFar
  <2>2. Gathered' = {}
    BY <2>1 DEF Gathered, AllListed
  <2>3. (loading.cut = Uncut /\ HoldsJust(Gathered))'
    BY <1>1, <2>2, PartsOfUnion DEF HoldsJust, Uncut
  <2> QED BY <2>3 DEF Gathers
<1>6. (loading.pending = {} => loading.pushed = 0)'
  BY <1>1
<1> QED BY <1>2, <1>4, <1>5, <1>6 DEF IntelInv, BeginReload, CopiesAreLast

\* A download arrives.
LEMMA FetchSucceedsInv ==
    ASSUME IntelAssumption, SourcesDiffer, IntelInv, NEW body \in Bodies, FetchSucceeds(body)
    PROVE  IntelInv'
<1>1. lastBody' = [lastBody EXCEPT ![NextFeed] = body] /\ NextFeed \in Downloads /\ NextFeed \in FeedNames
  BY DEF FetchSucceeds, IntelAssumption, FeedNames
<1>2. lastBody' \in [FeedNames -> Bodies \cup {NoBody}] /\ lastBody'[NextFeed] = body
  BY <1>1 DEF IntelInv
<1>3. \A f \in FeedNames : f # NextFeed => lastBody'[f] = lastBody[f]
  BY <1>1 DEF IntelInv
<1>4. ~uncached' => ~uncached /\ cacheFile' = [cacheFile EXCEPT ![NextFeed] = body]
  BY DEF FetchSucceeds
<1>5. LoadingOK' /\ IsRestOfFeeds(loading.left)' /\ (loading.pending = {} => loading.pushed = 0)' /\ (~uncached' => Gathers')
  <2>1. Reading /\ Reads(body)
    BY DEF FetchSucceeds
  <2> QED BY <1>2, <1>3, <1>4, <2>1, ReadsInv
<1>6. cacheFile' \in [Downloads -> Bodies \cup {NoBody}]
  BY <1>1 DEF FetchSucceeds, IntelInv
<1>7. ASSUME ~uncached' PROVE CopiesAreLast'
  <2>1. CopiesAreLast
    BY <1>4, <1>7 DEF IntelInv
  <2>2. ASSUME NEW f \in Downloads PROVE cacheFile'[f] = lastBody'[f]
    <3>1. f \in FeedNames
      BY DEF IntelAssumption, FeedNames
    <3> QED BY <1>2, <1>3, <1>4, <1>7, <2>1, <3>1 DEF CopiesAreLast, IntelInv
  <2> QED BY <2>2 DEF CopiesAreLast
<1> QED BY <1>2, <1>5, <1>6, <1>7 DEF IntelInv

\* A download fails, and its copy on disk stands in for it.
LEMMA FetchFailsInv ==
    ASSUME IntelAssumption, SourcesDiffer, IntelInv, FetchFails
    PROVE  IntelInv'
<1>1. UNCHANGED <<lastBody, cacheFile, uncached>> /\ Reading /\ NextFeed \in Downloads
  BY DEF FetchFails
<1>2. lastBody' \in [FeedNames -> Bodies \cup {NoBody}] /\ \A f \in FeedNames : f # NextFeed => lastBody'[f] = lastBody[f]
  BY <1>1 DEF IntelInv
<1>3. ~uncached' => ~uncached /\ lastBody'[NextFeed] = cacheFile[NextFeed]
  BY <1>1 DEF IntelInv, CopiesAreLast
<1>4. LoadingOK' /\ IsRestOfFeeds(loading.left)' /\ (loading.pending = {} => loading.pushed = 0)' /\ (~uncached' => Gathers')
  <2>1. CASE cacheFile[NextFeed] # NoBody
    <3>1. cacheFile[NextFeed] \in Bodies /\ Reads(cacheFile[NextFeed])
      BY <1>1, <2>1 DEF FetchFails, IntelInv
    <3> QED BY <1>1, <1>2, <1>3, <3>1, ReadsInv
  <2>2. CASE cacheFile[NextFeed] = NoBody
    <3>1. loading' = [loading EXCEPT !.left = Tail(@)]
      BY <2>2 DEF FetchFails
    <3>2. ~uncached' => ~uncached /\ lastBody'[NextFeed] = NoBody
      BY <1>3, <2>2
    <3> QED BY <1>1, <1>2, <3>1, <3>2, SkipsInv
  <2> QED BY <2>1, <2>2
<1> QED BY <1>1, <1>4 DEF IntelInv, CopiesAreLast

\* A file is read, or is gone.
LEMMA FileInv ==
    ASSUME IntelAssumption, SourcesDiffer, IntelInv, FileIsMissing \/ \E body \in Bodies : ReadsFile(body)
    PROVE  IntelInv'
<1>1. UNCHANGED <<cacheFile, uncached>> /\ Reading /\ NextFeed \notin Downloads
  BY DEF FileIsMissing, ReadsFile
<1>2. PICK b \in Bodies \cup {NoBody} : lastBody' = [lastBody EXCEPT ![NextFeed] = b]
  BY DEF FileIsMissing, ReadsFile
<1>3. lastBody' \in [FeedNames -> Bodies \cup {NoBody}] /\ \A f \in FeedNames : f # NextFeed => lastBody'[f] = lastBody[f]
  BY <1>2 DEF IntelInv
<1>4. NextFeed \in FeedNames
  <2>1. loading.left \in Seq(FeedNames) /\ loading.left # <<>>
    BY <1>1, LoadingIs DEF IntelInv
  <2> QED BY <2>1 DEF NextFeed
<1>5. LoadingOK' /\ IsRestOfFeeds(loading.left)' /\ (loading.pending = {} => loading.pushed = 0)' /\ (~uncached' => Gathers')
  <2>1. CASE FileIsMissing
    <3>1. loading' = [loading EXCEPT !.left = Tail(@)] /\ lastBody' = [lastBody EXCEPT ![NextFeed] = NoBody]
      BY <2>1 DEF FileIsMissing
    <3>2. ~uncached' => ~uncached /\ lastBody'[NextFeed] = NoBody
      BY <1>1, <1>4, <3>1 DEF IntelInv
    <3> QED BY <1>1, <1>3, <3>1, <3>2, SkipsInv
  <2>2. CASE \E body \in Bodies : ReadsFile(body)
    <3>1. PICK body \in Bodies : ReadsFile(body)
      BY <2>2
    <3>2. ~uncached' => ~uncached /\ lastBody'[NextFeed] = body
      BY <1>1, <1>4, <3>1 DEF IntelInv, ReadsFile
    <3>3. Reads(body)
      BY <3>1 DEF ReadsFile
    <3> QED BY <1>1, <1>3, <3>2, <3>3, ReadsInv
  <2> QED BY <2>1, <2>2
<1>6. CopiesAreLast => CopiesAreLast'
  <2>1. \A f \in Downloads : f \in FeedNames /\ f # NextFeed
    BY <1>1 DEF IntelAssumption, FeedNames
  <2> QED BY <1>1, <1>3, <2>1 DEF CopiesAreLast
<1> QED BY <1>1, <1>3, <1>5, <1>6 DEF IntelInv

\* The reload is over, or the process is.
LEMMA LoadingEndsInv ==
    ASSUME IntelAssumption, IntelInv, SealAndPublish \/ IntelCrash
    PROVE  IntelInv'
<1>1. loading' = NotLoading /\ UNCHANGED <<cacheFile, uncached>>
  BY DEF SealAndPublish, IntelCrash
<1>2. LoadingOK' /\ ~loading'.running /\ (loading.pending = {} => loading.pushed = 0)'
  <2>1. Uncut \in 1..Uncut
    BY DEF Uncut, IntelAssumption
  <2> QED BY <1>1, <2>1 DEF LoadingOK, NotLoading
<1>3. lastBody' \in [FeedNames -> Bodies \cup {NoBody}] /\ \A f \in Downloads : lastBody'[f] = lastBody[f]
  BY DEF SealAndPublish, IntelCrash, IntelInv, IntelAssumption, FeedNames
<1>4. CopiesAreLast => CopiesAreLast'
  BY <1>1, <1>3 DEF CopiesAreLast
<1> QED BY <1>1, <1>2, <1>3, <1>4 DEF IntelInv

\* Every step keeps the invariant.
LEMMA IntelStep ==
    ASSUME IntelAssumption, SourcesDiffer
    PROVE  IntelInv /\ [IntelNext]_intelVars => IntelInv'
<1> SUFFICES ASSUME IntelInv, [IntelNext]_intelVars PROVE IntelInv'
  OBVIOUS
<1>1. CASE BeginReload
  BY <1>1, BeginReloadInv
<1>2. CASE \E body \in Bodies : FetchSucceeds(body)
  BY <1>2, FetchSucceedsInv
<1>3. CASE FetchFails
  BY <1>3, FetchFailsInv
<1>4. CASE FileIsMissing \/ \E body \in Bodies : ReadsFile(body)
  BY <1>4, FileInv
<1>5. CASE SealAndPublish \/ IntelCrash
  BY <1>5, LoadingEndsInv
<1>6. CASE UNCHANGED intelVars
  <2>1. UNCHANGED <<loading, cacheFile, lastBody, uncached>>
    BY <1>6 DEF intelVars
  <2>2. LoadingOK' /\ (CopiesAreLast => CopiesAreLast') /\ (IsRestOfFeeds(loading.left) => IsRestOfFeeds(loading.left)')
    BY <2>1 DEF IntelInv, LoadingOK, CopiesAreLast, IsRestOfFeeds
  <2>3. SourcesRead' = SourcesRead
    BY <2>1 DEF SourcesRead
  <2>5. AllListed(FirstFeeds(loading.cut))' = AllListed(FirstFeeds(loading.cut))
    BY <2>1 DEF AllListed, FirstFeeds, Listed
  <2>6. AllListed(FirstFeeds(loading.cut - 1))' = AllListed(FirstFeeds(loading.cut - 1))
    BY <2>1 DEF AllListed, FirstFeeds, Listed
  <2>7. Gathered' = Gathered
    BY <2>1, <2>3 DEF Gathered, ReadSoFar, FirstFeeds, AllListed, Listed
  <2>4. Gathers => Gathers'
    <3>1. loading.cut = Uncut /\ HoldsJust(Gathered) => (loading.cut = Uncut /\ HoldsJust(Gathered))'
      BY <2>1, <2>7 DEF HoldsJust
    <3>2. HoldsAllOf(AllListed(FirstFeeds(loading.cut - 1))) => HoldsAllOf(AllListed(FirstFeeds(loading.cut - 1)))'
      BY <2>1, <2>6 DEF HoldsAllOf
    <3>3. HoldsNoMoreThan(AllListed(FirstFeeds(loading.cut))) => HoldsNoMoreThan(AllListed(FirstFeeds(loading.cut)))'
      BY <2>1, <2>5 DEF HoldsNoMoreThan
    <3>4. loading.cut \in 1..SourcesRead /\ SizeOf(loading) = MaxIndicators =>
            (loading.cut \in 1..SourcesRead /\ SizeOf(loading) = MaxIndicators)'
      BY <2>1, <2>3 DEF SizeOf
    <3> QED BY <3>1, <3>2, <3>3, <3>4 DEF Gathers
  <2> QED BY <2>1, <2>2, <2>4 DEF IntelInv
<1> QED BY <1>1, <1>2, <1>3, <1>4, <1>5, <1>6 DEF IntelNext

\* A set whose singles and prefixes are some of those of U, and what it answers.
LEMMA AnswerIs ==
    ASSUME IntelAssumption, NEW U \in SUBSET Ranges, NEW a \in Addresses
    PROVE  (\E r \in U : Covers(r, a)) <=> (a \in SinglesIn(U) \/ \E r \in PrefixesIn(U) : Covers(r, a))
<1>1. ASSUME NEW r \in U, Single(r) PROVE Covers(r, a) <=> a = r.start
  <2>1. r.start \in Nat /\ a \in Nat /\ r.start = r.end
    BY <1>1, RangeIs DEF Single, IntelAssumption
  <2> QED BY <2>1 DEF Covers
<1>2. a \in SinglesIn(U) <=> \E r \in U : Single(r) /\ Covers(r, a)
  BY <1>1, SinglesAre
<1> QED BY <1>2, PrefixesAre

\* What a reload publishes answers every look-up as the sources behind it do.
LEMMA IntelShows ==
    ASSUME IntelAssumption
    PROVE  IntelInv => PublishedExactly
<1> SUFFICES ASSUME IntelInv, SealAndPublish, ~uncached
             PROVE  \/ AllListed(FeedNames) = {}
                    \/ /\ loading.cut # Uncut => SizeOf(loading) = MaxIndicators
                       /\ \A a \in Addresses :
                            /\ CoveredBy(FirstFeeds(loading.cut - 1), a) => MatchIp(published', a)
                            /\ MatchIp(published', a) => CoveredBy(FirstFeeds(loading.cut), a)
  BY DEF PublishedExactly
<1> DEFINE built == [exact |-> loading.exact, ranges |-> Seal(loading.pending)]
           low == AllListed(FirstFeeds(loading.cut - 1))
           high == AllListed(FirstFeeds(loading.cut))
<1>1. /\ loading.left = <<>> /\ Gathers /\ loading.pending \in SUBSET Ranges /\ loading.exact \in SUBSET Addresses
      /\ loading.cut \in 1..Uncut
  BY DEF SealAndPublish, IntelInv, LoadingOK
<1>2. /\ Len(Feeds) \in Nat /\ Uncut = Len(Feeds) + 1 /\ DOMAIN Feeds = 1..Len(Feeds)
      /\ SourcesRead = Len(Feeds)
  BY <1>1 DEF IntelAssumption, Uncut, SourcesRead
<1>3. /\ FirstFeeds(Len(Feeds)) = FeedNames /\ FirstFeeds(Len(Feeds) + 1) = FeedNames
      /\ ReadSoFar = FeedNames
  <2>1. \A n \in {Len(Feeds), Len(Feeds) + 1} : {j \in DOMAIN Feeds : j <= n} = DOMAIN Feeds
    BY <1>2
  <2>2. FeedNames = {Feeds[i] : i \in DOMAIN Feeds}
    BY DEF FeedNames, ToSet
  <2>3. FirstFeeds(Len(Feeds)) = FeedNames /\ FirstFeeds(Len(Feeds) + 1) = FeedNames
    BY <2>1, <2>2 DEF FirstFeeds
  <2> QED BY <1>2, <2>3 DEF ReadSoFar
<1>4. \A n \in Nat : FirstFeeds(n) \subseteq FeedNames
  BY DEF FirstFeeds, FeedNames, ToSet
<1>5. \A f \in FeedNames : Listed(f) \in SUBSET Ranges
  BY ListedRanges DEF IntelInv
<1>6. low \in SUBSET Ranges /\ high \in SUBSET Ranges
  <2>1. loading.cut - 1 \in Nat /\ loading.cut \in Nat
    BY <1>1, <1>2
  <2> QED BY <1>4, <1>5, <2>1 DEF AllListed
<1>7. /\ SinglesIn(low) \subseteq loading.exact /\ PrefixesIn(low) \subseteq loading.pending
      /\ loading.exact \subseteq SinglesIn(high) /\ loading.pending \subseteq PrefixesIn(high)
      /\ loading.cut # Uncut => SizeOf(loading) = MaxIndicators
  <2>1. CASE loading.cut = Uncut /\ HoldsJust(Gathered)
    <3>1. low = Gathered
      BY <1>2, <1>3, <2>1 DEF Gathered
    <3>2. high = Gathered
      BY <1>2, <1>3, <2>1 DEF Gathered
    <3> QED BY <2>1, <3>1, <3>2 DEF HoldsJust
  <2>2. CASE loading.cut \in 1..SourcesRead /\ SizeOf(loading) = MaxIndicators /\ HoldsAllOf(low) /\ HoldsNoMoreThan(high)
    BY <2>2 DEF HoldsAllOf, HoldsNoMoreThan
  <2> QED BY <1>1, <2>1, <2>2 DEF Gathers
<1> HIDE DEF low, high
<1>8. Merged(loading.pending, Seal(loading.pending))
  BY <1>1, SealMerges
<1>9. CASE built = EmptySet /\ published # EmptySet
  <2>1. loading.exact = {} /\ Seal(loading.pending) = <<>>
    BY <1>9 DEF EmptySet
  <2>2. loading.pending = {}
    <3>1. ASSUME NEW r \in loading.pending PROVE FALSE
      <4>1. r.start \in Nat /\ Covers(r, r.start)
        BY <1>1, <3>1, RangeIs DEF Covers
      <4>2. \E i \in 1..Len(Seal(loading.pending)) : TRUE
        BY <1>8, <4>1 DEF Merged
      <4> QED BY <2>1, <4>2
    <3> QED BY <3>1
  <2>3. loading.pushed = 0
    BY <2>2 DEF IntelInv
  <2>4. SizeOf(loading) = 0
    BY <2>1, <2>3, FS_EmptySet DEF SizeOf
  <2>5. loading.cut = Uncut
    BY <1>7, <2>4 DEF IntelAssumption
  <2>6. low = AllListed(FeedNames)
    BY <1>2, <1>3, <2>5 DEF low
  <2>7. \A r \in low : FALSE
    <3>1. ASSUME NEW r \in low PROVE FALSE
      <4>1. CASE Single(r)
        <5>1. r.start \in SinglesIn(low)
          BY <3>1, <4>1, SinglesAre
        <5> QED BY <1>7, <2>1, <5>1
      <4>2. CASE ~Single(r)
        BY <1>7, <2>2, <4>2, PrefixesAre
      <4> QED BY <4>1, <4>2
    <3> QED BY <3>1
  <2> QED BY <2>6, <2>7
<1>10. CASE ~(built = EmptySet /\ published # EmptySet)
  <2>1. published' = built
    BY <1>10 DEF SealAndPublish
  <2>2. ASSUME NEW a \in Addresses
        PROVE  /\ (\E r \in low : Covers(r, a)) => MatchIp(published', a)
               /\ MatchIp(published', a) => \E r \in high : Covers(r, a)
    <3>1. MatchIp(built, a) = (a \in built.exact \/ \E r \in loading.pending : Covers(r, a))
      <4>1. built.ranges = Seal(loading.pending)
        OBVIOUS
      <4> HIDE DEF built
      <4> QED BY <1>1, <1>8, <4>1, MatchIs
    <3>2. built.exact = loading.exact
      OBVIOUS
    <3>3. /\ (\E r \in low : Covers(r, a)) <=> (a \in SinglesIn(low) \/ \E r \in PrefixesIn(low) : Covers(r, a))
          /\ (\E r \in high : Covers(r, a)) <=> (a \in SinglesIn(high) \/ \E r \in PrefixesIn(high) : Covers(r, a))
      BY <1>6, AnswerIs
    <3> HIDE DEF built
    <3> QED BY <1>7, <2>1, <3>1, <3>2, <3>3
  <2> QED BY <1>7, <2>2 DEF CoveredBy, low, high
<1> QED BY <1>9, <1>10

\* However downloads fail and the process restarts, a look-up answers as the indicators do
\* that the sources delivered last, for any feeds that name no source twice, up to the source
\* the ceiling cuts.
THEOREM LookupsCorrect == ASSUME IntelAssumption, SourcesDiffer PROVE IntelSpec => LookupExact
<1>1. IntelInit => IntelInv
  BY IntelStarts
<1>2. IntelInv /\ [IntelNext]_intelVars => IntelInv'
  BY IntelStep
<1>3. IntelInv => PublishedExactly
  BY IntelShows
<1> QED BY <1>1, <1>2, <1>3, PTL DEF IntelSpec, LookupExact

==============================================================================
