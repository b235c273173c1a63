---------------------------- MODULE LanDetectors -----------------------------
(***************************************************************************)
(* The detectors that learn the local network from a capture: the bindings *)
(* of addresses to MACs that ARP claims, and the devices seen.             *)
(*                                                                         *)
(* Devices are compared with what known_devices holds: boot and retention  *)
(* aside, a capture is all that writes it here.  Nobody waits for a write: *)
(* it takes its time from the clock when it is asked for, and then it may  *)
(* fail, with no more than a warning, or be overtaken on another           *)
(* connection of the pool.                                                 *)
(*                                                                         *)
(* A frame is its source MAC and, when it is ARP, the address it claims;   *)
(* the sender in the ARP body is the source of the frame.  Times are ages  *)
(* in ticks, capped where the code no longer tells them apart; so are      *)
(* observations, at the number from which a binding is trusted.            *)
(***************************************************************************)
EXTENDS Integers, Sequences, FiniteSets

CONSTANTS
    Macs, Ips,
    Configured,        \* addresses in ARP_TRUSTED_MAPPINGS
    RightMac,          \* the MAC they are mapped to
    NoIp,              \* the frame is not ARP
    Trusted,           \* OBSERVATIONS_BEFORE_TRUSTED
    MaxIpsPerMac,      \* MAX_IPS_PER_MAC
    FlipWindow,        \* FLIP_WINDOW_MS in ticks
    LearningPeriod,    \* deviceLearningPeriodMs in ticks
    TouchInterval,     \* TOUCH_INTERVAL_MS in ticks
    MaxTrackedIps, MaxTrackedMacs, MaxTrackedDevices,
    MaxFrames          \* frames in one behaviour

ASSUME LanAssumption ==
    /\ IsFiniteSet(Macs) /\ Configured \subseteq Ips /\ RightMac \in Macs /\ NoIp \notin Ips
    /\ Trusted \in Nat \ {0} /\ MaxIpsPerMac \in Nat /\ FlipWindow \in Nat
    /\ LearningPeriod \in Nat /\ TouchInterval \in Nat \ {0} /\ MaxFrames \in Nat
    /\ MaxTrackedIps \in Nat \ {0} /\ MaxTrackedMacs \in Nat \ {0} /\ MaxTrackedDevices \in Nat \ {0}

VARIABLES
    bindings,      \* BoundedMap: [ip, mac, observations, history, flips], in order of insertion
    claims,        \* ipsPerMac, a BoundedMap: [mac, ips]
    sprawls,       \* reportedMacSprawl
    devices,       \* seen, a BoundedMap: [mac, touched], touched an age
    learning,      \* ticks until learningUntil; LearningPeriod + 1 before the first frame
    stored,        \* known_devices: age of last_seen, a partial function
    deviceWrites,  \* the upserts under way: [mac, age], age that of the last_seen it brings
    raised,        \* what the last frame raised
    \* history
    seeded,        \* the devices this capture began with
    met,           \* the devices this capture has had a frame of
    timesReported,     \* how often it has reported each of them as new, 2 if more often
    lastAsked,     \* age of the newest upsert asked for, of each device
    lostWrites,    \* devices whose newest upsert failed, or was overwritten by an older one
    claimed,       \* the last claims of each address since it entered the table
    sighted,       \* the devices that have had a frame in this tick
    frames         \* bound

lanVars == <<bindings, claims, sprawls, devices, learning, stored, deviceWrites, raised,
             seeded, met, timesReported, lastAsked, lostWrites, claimed, sighted, frames>>

Expired == FlipWindow               \* not seen, or not within the window
NeverTouched == TouchInterval       \* touchedAt = 0, or due again
None == [ip |-> NoIp, kinds |-> {}]

LanTypeOK ==
    /\ bindings \in Seq([ip : Ips, mac : Macs, observations : 1..Trusted,
                         history : [Macs -> 0..Expired], flips : BOOLEAN])
    /\ Len(bindings) <= MaxTrackedIps
    /\ claims \in Seq([mac : Macs, ips : SUBSET Ips]) /\ Len(claims) <= MaxTrackedMacs
    /\ sprawls \subseteq Macs
    /\ devices \in Seq([mac : Macs, touched : 0..NeverTouched]) /\ Len(devices) <= MaxTrackedDevices
    /\ learning \in 0..(LearningPeriod + 1)
    /\ DOMAIN stored \subseteq Macs /\ \A m \in DOMAIN stored : stored[m] \in 0..TouchInterval
    /\ deviceWrites \subseteq [mac : Macs, age : 0..TouchInterval]
    /\ seeded \subseteq Macs /\ met \subseteq Macs /\ timesReported \in [Macs -> 0..2]
    /\ lastAsked \in [Macs -> 0..TouchInterval] /\ lostWrites \subseteq Macs
    /\ raised.kinds \subseteq {"configured", "conflict", "flipping", "sprawl", "new_device"}
    /\ claimed \in [Ips -> Seq(Macs)] /\ sighted \subseteq Macs /\ frames \in 0..MaxFrames

\* Devices of earlier captures, seeded in the order the database returns them,
\* the last of them if there are too many.
Seeds(known) ==
    {d \in UNION {[1..n -> [mac : known, touched : {NeverTouched}]] : n \in 0..MaxTrackedDevices} :
        /\ \A i, j \in DOMAIN d : d[i].mac = d[j].mac => i = j
        /\ Len(d) = MaxTrackedDevices \/ {d[i].mac : i \in DOMAIN d} = known}

\* What loadKnownMacAddresses finds, or nothing, if it fails.
Loads(known) == known \in {DOMAIN stored, {}}

\* A capture has just started, with any devices known and none seen for long.
LanInit ==
    /\ bindings = <<>> /\ claims = <<>> /\ sprawls = {}
    /\ \E known \in SUBSET Macs : stored = [m \in known |-> TouchInterval]
    /\ seeded \in SUBSET Macs /\ Loads(seeded) /\ devices \in Seeds(seeded)
    /\ learning = LearningPeriod + 1 /\ raised = None
    /\ deviceWrites = {} /\ met = {} /\ timesReported = [m \in Macs |-> 0]
    /\ lastAsked = [m \in Macs |-> TouchInterval] /\ lostWrites = {}
    /\ claimed = [ip \in Ips |-> <<>>] /\ sighted = {} /\ frames = 0

-----------------------------------------------------------------------------
(* ArpSpoofDetector *)

Row(map, f, x) == {i \in DOMAIN map : map[i][f] = x}
\* BoundedMap.set of a key that is not in the map: the first one makes room.
Entered(map, most, new) == Append(IF Len(map) < most THEN map ELSE Tail(map), new)
Minimum(a, b) == IF a < b THEN a ELSE b
Claim(ip, mac) == [ip |-> ip, mac |-> mac, observations |-> 1,
                   history |-> [m \in Macs |-> IF m = mac THEN 0 ELSE Expired], flips |-> FALSE]

Repeated(b) == [b EXCEPT !.observations = Minimum(@ + 1, Trusted), !.history = [@ EXCEPT ![b.mac] = 0]]
\* The binding moves over, and has to settle again.
Moved(b, mac) ==
    [b EXCEPT !.mac = mac, !.observations = 1, !.history = [@ EXCEPT ![mac] = 0],
              !.flips = @ \/ b.history[mac] < FlipWindow]

Bound(ip, mac) ==
    IF Row(bindings, "ip", ip) = {} THEN Entered(bindings, MaxTrackedIps, Claim(ip, mac))
    ELSE [i \in DOMAIN bindings |->
            IF bindings[i].ip # ip THEN bindings[i]
            ELSE IF bindings[i].mac = mac THEN Repeated(bindings[i]) ELSE Moved(bindings[i], mac)]

ConfiguredFinding(ip, mac) == IF ip \in Configured /\ mac # RightMac THEN {"configured"} ELSE {}
ConflictFinding(ip, mac) ==
    IF \E i \in Row(bindings, "ip", ip) :
          /\ bindings[i].mac # mac /\ bindings[i].observations >= Trusted /\ ip \notin Configured
    THEN {"conflict"} \cup (IF \E i \in Row(Bound(ip, mac), "ip", ip) : Bound(ip, mac)[i].flips
                            THEN {"flipping"} ELSE {})
    ELSE {}

Claimed(ip, mac) ==
    IF Row(claims, "mac", mac) = {} THEN Entered(claims, MaxTrackedMacs, [mac |-> mac, ips |-> {ip}])
    ELSE [i \in DOMAIN claims |-> IF claims[i].mac = mac
                                  THEN [claims[i] EXCEPT !.ips = @ \cup {ip}] ELSE claims[i]]
Sprawling(ip, mac) ==
    \E i \in Row(Claimed(ip, mac), "mac", mac) : Cardinality(Claimed(ip, mac)[i].ips) > MaxIpsPerMac
SprawlFinding(ip, mac) == IF Sprawling(ip, mac) /\ mac \notin sprawls THEN {"sprawl"} ELSE {}

\* History: the last claims, forgotten when the address leaves the table.
Recent(q) == IF Len(q) > Trusted + 1 THEN Tail(q) ELSE q
ClaimsAfter(ip, mac) ==
    [i \in Ips |-> IF i = ip THEN Recent(Append(claimed[i], mac))
                   ELSE IF Row(Bound(ip, mac), "ip", i) = {} THEN <<>> ELSE claimed[i]]

InspectArp(ip, mac) ==
    /\ bindings' = Bound(ip, mac) /\ claims' = Claimed(ip, mac) /\ claimed' = ClaimsAfter(ip, mac)
    /\ sprawls' = IF Sprawling(ip, mac) THEN sprawls \cup {mac} ELSE sprawls

-----------------------------------------------------------------------------
(* NewDeviceDetector *)

\* The period begins with the first frame.
LearningAfter == Minimum(learning, LearningPeriod)
Devices(mac) == Row(devices, "mac", mac)
IsNew(mac) == Devices(mac) = {}
DueForTouch(mac) == \E i \in Devices(mac) : devices[i].touched >= TouchInterval
DeviceFinding(mac) == IF IsNew(mac) /\ LearningAfter = 0 THEN {"new_device"} ELSE {}

\* recordDevice, which onDiscovered and onSeen both call without waiting for it.
AsksForWrite(mac) ==
    /\ deviceWrites' = deviceWrites \cup {[mac |-> mac, age |-> 0]}
    /\ lastAsked' = [lastAsked EXCEPT ![mac] = 0] /\ lostWrites' = lostWrites \ {mac}

InspectDevice(mac) ==
    /\ learning' = LearningAfter
    /\ devices' = IF IsNew(mac) THEN Entered(devices, MaxTrackedDevices, [mac |-> mac, touched |-> 0])
                  ELSE IF DueForTouch(mac)
                  THEN [i \in DOMAIN devices |-> IF devices[i].mac = mac
                                                 THEN [mac |-> mac, touched |-> 0] ELSE devices[i]]
                  ELSE devices
    /\ IF IsNew(mac) \/ DueForTouch(mac) THEN AsksForWrite(mac)
       ELSE UNCHANGED <<deviceWrites, lastAsked, lostWrites>>
    /\ met' = met \cup {mac}
    /\ timesReported' = IF DeviceFinding(mac) = {} THEN timesReported
                    ELSE [timesReported EXCEPT ![mac] = Minimum(@ + 1, 2)]
    /\ sighted' = sighted \cup {mac}
    /\ UNCHANGED <<stored, seeded>>

\* An upsert comes through, whatever a later one has written before it; or it fails.
\* Two of one device in one tick bring the same and count as one.
lanUnlessWritten == UNCHANGED <<bindings, claims, sprawls, devices, learning, seeded, met, timesReported,
                                lastAsked, claimed, sighted, frames>>
DeviceWritten(w) ==
    /\ deviceWrites' = deviceWrites \ {w}
    /\ stored' = [m \in DOMAIN stored \cup {w.mac} |-> IF m = w.mac THEN w.age ELSE stored[m]]
    /\ lostWrites' = IF w.age > lastAsked[w.mac] THEN lostWrites \cup {w.mac} ELSE lostWrites \ {w.mac}
    /\ raised' = None /\ lanUnlessWritten
DeviceWriteFails(w) ==
    /\ deviceWrites' = deviceWrites \ {w}
    /\ lostWrites' = IF w.age = lastAsked[w.mac] THEN lostWrites \cup {w.mac} ELSE lostWrites
    /\ raised' = None /\ UNCHANGED stored /\ lanUnlessWritten

-----------------------------------------------------------------------------
ArpFrame(ip, mac) ==
    /\ frames < MaxFrames /\ frames' = frames + 1
    /\ InspectArp(ip, mac) /\ InspectDevice(mac)
    /\ raised' = [ip |-> ip, kinds |-> ConfiguredFinding(ip, mac) \cup ConflictFinding(ip, mac)
                                       \cup SprawlFinding(ip, mac) \cup DeviceFinding(mac)]

OtherFrame(mac) ==
    /\ frames < MaxFrames /\ frames' = frames + 1
    /\ InspectDevice(mac)
    /\ raised' = [ip |-> NoIp, kinds |-> DeviceFinding(mac)]
    /\ UNCHANGED <<bindings, claims, sprawls, claimed>>

\* The next capture has an engine of its own, seeded with what is stored, or with
\* nothing.  What the last one asked for is still under way.
StartCapture ==
    /\ frames < MaxFrames /\ frames' = frames + 1
    /\ bindings' = <<>> /\ claims' = <<>> /\ sprawls' = {}
    /\ \E known \in SUBSET Macs : Loads(known) /\ devices' \in Seeds(known) /\ seeded' = known
    /\ met' = {} /\ timesReported' = [m \in Macs |-> 0]
    /\ learning' = LearningPeriod + 1 /\ raised' = None
    /\ claimed' = [ip \in Ips |-> <<>>] /\ UNCHANGED <<stored, deviceWrites, lastAsked, lostWrites, sighted>>

LanTick ==
    /\ bindings' = [i \in DOMAIN bindings |->
                      [bindings[i] EXCEPT !.history = [m \in Macs |-> Minimum(@[m] + 1, Expired)]]]
    /\ devices' = [i \in DOMAIN devices |-> [devices[i] EXCEPT !.touched = Minimum(@ + 1, NeverTouched)]]
    /\ learning' = IF learning \in 1..LearningPeriod THEN learning - 1 ELSE learning
    /\ stored' = [m \in DOMAIN stored |-> Minimum(stored[m] + 1, TouchInterval)]
    /\ deviceWrites' = {[w EXCEPT !.age = Minimum(@ + 1, TouchInterval)] : w \in deviceWrites}
    /\ lastAsked' = [m \in Macs |-> Minimum(lastAsked[m] + 1, TouchInterval)]
    /\ sighted' = {}
    /\ raised' = None
    /\ UNCHANGED <<claims, sprawls, seeded, met, timesReported, lostWrites, claimed, frames>>

LanNext ==
    \/ \E mac \in Macs : OtherFrame(mac) \/ \E ip \in Ips : ArpFrame(ip, mac)
    \/ \E w \in deviceWrites : DeviceWritten(w) \/ DeviceWriteFails(w)
    \/ StartCapture \/ LanTick

LanSpec == LanInit /\ [][LanNext]_lanVars

-----------------------------------------------------------------------------
(* Properties *)

\* A conflict is raised exactly when an address that one MAC has claimed as often
\* as it takes to be trusted is claimed by another one, whatever moved, flipped
\* or fell out of the table before.
TakeoverIsReported ==
    \A ip \in Ips : raised.ip = ip =>
        LET last == claimed[ip] IN
        ("conflict" \in raised.kinds) <=>
            /\ ip \notin Configured /\ Len(last) = Trusted + 1
            /\ last[Trusted + 1] # last[Trusted] /\ \A i \in 1..Trusted : last[i] = last[1]

\* A device on the network is asked to be written again within an interval, whatever
\* became of the upserts before, and is stored as no longer unseen than that unless the
\* newest of them is under way, failed, or was overwritten by an older one.
NewestWrite(m) == [mac |-> m, age |-> lastAsked[m]]
LastSeenIsFresh ==
    \A m \in sighted :
        /\ lastAsked[m] < TouchInterval
        /\ \/ m \in lostWrites
           \/ NewestWrite(m) \in deviceWrites
           \/ m \in DOMAIN stored /\ stored[m] < TouchInterval

\* A capture reports a device as new once, and one that was known when it began never,
\* as long as there are no more of them than the detector can hold.
ReportedOnce ==
    Cardinality(seeded \cup met) <= MaxTrackedDevices =>
        \A m \in Macs : timesReported[m] <= (IF m \in seeded THEN 0 ELSE 1)

\* What the engine says of the hosts of the network is exact: who took an address
\* over, who is new, and when each was last there.
LanPictureExact == TakeoverIsReported /\ LastSeenIsFresh /\ ReportedOnce
-----------------------------------------------------------------------------
(* What the proofs rest on *)

\* A binding counts how often its MAC was the last to claim the address.
Counts(b, last) ==
    LET n == Len(last) IN
    /\ n \in 1..(Trusted + 1) /\ b.observations <= n
    /\ \A j \in (n - b.observations + 1)..n : last[j] = b.mac
    /\ b.observations < Trusted => b.observations = n \/ last[n - b.observations] # b.mac

Binding == [ip : Ips, mac : Macs, observations : 1..Trusted, history : [Macs -> 0..Expired], flips : BOOLEAN]
BindingsCount ==
    /\ bindings \in Seq(Binding) /\ claimed \in [Ips -> Seq(Macs)]
    /\ \A i, j \in DOMAIN bindings : bindings[i].ip = bindings[j].ip => i = j
    /\ \A i \in DOMAIN bindings : Counts(bindings[i], claimed[bindings[i].ip])
    /\ \A ip \in Ips : Row(bindings, "ip", ip) = {} => claimed[ip] = <<>>

\* What the detector holds of a device is no fresher than the newest upsert asked for,
\* and that is what is stored, unless it is under way or lost.
WritesAreFresh ==
    /\ devices \in Seq([mac : Macs, touched : 0..TouchInterval]) /\ sighted \subseteq Macs
    /\ lastAsked \in [Macs -> 0..TouchInterval] /\ deviceWrites \subseteq [mac : Macs, age : 0..TouchInterval]
    /\ DOMAIN stored \subseteq Macs /\ \A m \in DOMAIN stored : stored[m] \in 0..TouchInterval
    /\ \A i \in DOMAIN devices : devices[i].touched < TouchInterval =>
          lastAsked[devices[i].mac] <= devices[i].touched
    /\ \A m \in Macs : lastAsked[m] < TouchInterval =>
          \/ m \in lostWrites
          \/ NewestWrite(m) \in deviceWrites
          \/ m \in DOMAIN stored /\ stored[m] = lastAsked[m]
    /\ \A w \in deviceWrites : w.age >= lastAsked[w.mac]

\* While they all fit, the detector holds every device it began with or met.
AllAreHeld ==
    /\ seeded \subseteq Macs /\ met \subseteq Macs /\ timesReported \in [Macs -> 0..2]
    /\ Len(devices) <= MaxTrackedDevices
    /\ \A i, j \in DOMAIN devices : devices[i].mac = devices[j].mac => i = j
    /\ \A i \in DOMAIN devices : devices[i].mac \in seeded \cup met
    /\ Cardinality(seeded \cup met) <= MaxTrackedDevices => \A m \in seeded \cup met : Devices(m) # {}
    /\ \A m \in Macs \ met : timesReported[m] = 0

LanInv == BindingsCount /\ WritesAreFresh /\ AllAreHeld /\ TakeoverIsReported /\ LastSeenIsFresh /\ ReportedOnce
==============================================================================
