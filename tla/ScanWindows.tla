----------------------------- MODULE ScanWindows -----------------------------
(***************************************************************************)
(* The scan detector, of packets and of flow records: ports per target,    *)
(* hosts per port and attempts per source, each counted in a window that   *)
(* starts with the first attempt and ends a fixed time later, and reported *)
(* with a pause between findings of one key.                               *)
(*                                                                         *)
(* Time is relative and in ticks: what is left of a window or of a pause,  *)
(* the age of an attempt or of a finding.  The clock of the records is     *)
(* taken not to run backwards.  A probe is an unanswered attempt; what is  *)
(* not one leaves no trace in the detector.                                *)
(***************************************************************************)
EXTENDS Integers, Sequences, FiniteSets, FiniteSetsExt

CONSTANTS
    Probes,            \* [source, target, port] of the attempts that are made
    ClientPorts,       \* CLIENT_TRAFFIC_PORTS
    ScanWindow, FloodWindow, Cooldown, SweepInterval,      \* in ticks
    PortScanPorts, HostSweepHosts, SynFloodAttempts,       \* thresholds
    MaxReported,       \* MAX_TRACKED_SOURCES, MAX_TRACKED_KEYS
    MaxProbes          \* probes in one behaviour

ASSUME ScanAssumption ==
    /\ ScanWindow \in Nat \ {0} /\ FloodWindow \in Nat \ {0}
    /\ Cooldown \in Nat \ {0} /\ SweepInterval \in Nat
    /\ PortScanPorts \in Nat \ {0} /\ HostSweepHosts \in Nat \ {0}
    /\ SynFloodAttempts \in Nat \ {0} /\ MaxReported \in Nat \ {0}
    /\ MaxProbes \in Nat
    /\ IsFiniteSet(Probes)
    /\ \A p \in Probes : p = [source |-> p.source, target |-> p.target, port |-> p.port]

VARIABLES
    windows,       \* SlidingWindow.entries: key -> [items, left]
    lastReported,  \* BoundedMap: [key, left of the pause], in order of insertion
    sweepLeft,     \* ticks until the engine sweeps
    \* history
    probeAge,      \* ticks since each probe was last made, capped
    attempts,      \* attempts of each source by age
    findingAge,    \* ticks since the last finding of each key, capped
    made           \* bound

scanVars == <<windows, lastReported, sweepLeft, probeAge, attempts, findingAge, made>>

\* The three patterns a probe counts for.
PortKey(p) == <<"ports", p.source, p.target>>
HostKey(p) == <<"hosts", p.source, p.port>>
FloodKey(p) == <<"flood", p.source, p.source>>
ScanKeys == {PortKey(p) : p \in Probes} \cup {HostKey(p) : p \in Probes} \cup {FloodKey(p) : p \in Probes}
Sources == {p.source : p \in Probes}
WindowOfKey(key) == IF key[1] = "flood" THEN FloodWindow ELSE ScanWindow
Threshold(key) ==
    IF key[1] = "ports" THEN PortScanPorts
    ELSE IF key[1] = "hosts" THEN HostSweepHosts ELSE SynFloodAttempts

Longest == (IF ScanWindow > FloodWindow THEN ScanWindow ELSE FloodWindow) + Cooldown

ScanTypeOK ==
    /\ DOMAIN windows \subseteq ScanKeys
    /\ \A k \in DOMAIN windows : windows[k].left \in 0..WindowOfKey(k)
    /\ lastReported \in Seq([key : ScanKeys, left : 0..Cooldown]) /\ Len(lastReported) <= MaxReported
    /\ sweepLeft \in 0..SweepInterval
    /\ probeAge \in [Probes -> 0..Longest] /\ findingAge \in [ScanKeys -> 0..Longest]
    /\ made \in 0..MaxProbes
    /\ attempts \in [Sources -> [0..(FloodWindow - 1) -> 0..SynFloodAttempts]]

ScanInit ==
    /\ windows = <<>> /\ lastReported = <<>> /\ sweepLeft = 0 /\ made = 0
    /\ probeAge = [p \in Probes |-> Longest] /\ findingAge = [k \in ScanKeys |-> Longest]
    /\ attempts = [s \in Sources |-> [a \in 0..(FloodWindow - 1) |-> 0]]

\* What is counted, added up.
Tally(counts, of) == FoldSet(LAMBDA i, sum : counts[i] + sum, 0, of)

-----------------------------------------------------------------------------
(* SlidingWindow *)

\* add(): into the current window of the key, or into a new one.
Add(entries, key, item) ==
    LET current == key \in DOMAIN entries /\ entries[key].left > 0
        old == IF current THEN entries[key].items ELSE <<>> IN
    [k \in DOMAIN entries \cup {key} |->
        IF k # key THEN entries[k]
        ELSE [items |-> [i \in DOMAIN old \cup {item} |->
                            (IF i \in DOMAIN old THEN old[i] ELSE 0) + (IF i = item THEN 1 ELSE 0)],
              left |-> IF current THEN entries[key].left ELSE WindowOfKey(key)]]

\* The return value of add() for the scans, total() for the flood.
Measure(entry, key) ==
    IF key[1] = "flood" THEN Tally(entry.items, DOMAIN entry.items)
    ELSE Cardinality(DOMAIN entry.items)

\* The engine's sweep drops the keys whose window has ended.
Swept(entries) == [k \in {k \in DOMAIN entries : entries[k].left > 0} |-> entries[k]]

-----------------------------------------------------------------------------
(* shouldReport *)

Stamped(log, key) ==
    IF \E i \in DOMAIN log : log[i].key = key
    THEN [i \in DOMAIN log |-> IF log[i].key = key THEN [key |-> key, left |-> Cooldown] ELSE log[i]]
    ELSE Append(IF Len(log) < MaxReported THEN log ELSE Tail(log), [key |-> key, left |-> Cooldown])

Pausing(log, key) == \E i \in DOMAIN log : log[i].key = key /\ log[i].left > 0

Report(at, key) ==
    IF Pausing(at.log, key) THEN at
    ELSE [at EXCEPT !.log = Stamped(@, key), !.found = @ \cup {key}]

-----------------------------------------------------------------------------
Observe(at, key, item) ==
    LET added == [at EXCEPT !.entries = Add(@, key, item)] IN
    IF Measure(added.entries[key], key) >= Threshold(key) THEN Report(added, key) ELSE added

\* The patterns in the order of the code; many hosts on a client port mean nothing.
Observed(p) ==
    LET ports == Observe([entries |-> windows, log |-> lastReported, found |-> {}], PortKey(p), p.port)
        hosts == IF p.port \in ClientPorts THEN ports ELSE Observe(ports, HostKey(p), p.target)
    IN Observe(hosts, FloodKey(p), <<p.target, p.port>>)

AtMost(n, most) == IF n > most THEN most ELSE n

\* inspect() of the detector, then the engine's sweep when it is due.
Inspect(p) ==
    LET end == Observed(p) IN
    /\ made < MaxProbes /\ made' = made + 1
    /\ lastReported' = end.log
    /\ IF sweepLeft = 0 THEN windows' = Swept(end.entries) /\ sweepLeft' = SweepInterval
       ELSE windows' = end.entries /\ UNCHANGED sweepLeft
    /\ probeAge' = [probeAge EXCEPT ![p] = 0]
    /\ attempts' = [attempts EXCEPT ![p.source][0] = AtMost(@ + 1, SynFloodAttempts)]
    /\ findingAge' = [k \in ScanKeys |-> IF k \in end.found THEN 0 ELSE findingAge[k]]

\* A capture, or a new binding of the flow collector, begins with nothing; what
\* was seen before it does not count any more.
ResetEngine ==
    /\ windows # <<>> /\ windows' = <<>>
    /\ lastReported' = <<>> /\ sweepLeft' = 0 /\ UNCHANGED made
    /\ probeAge' = [p \in Probes |-> Longest] /\ findingAge' = [k \in ScanKeys |-> Longest]
    /\ attempts' = [s \in Sources |-> [a \in 0..(FloodWindow - 1) |-> 0]]

Left(n) == IF n = 0 THEN 0 ELSE n - 1
ScanTick ==
    /\ windows' = [k \in DOMAIN windows |-> [windows[k] EXCEPT !.left = Left(@)]]
    /\ lastReported' = [i \in DOMAIN lastReported |-> [lastReported[i] EXCEPT !.left = Left(@)]]
    /\ sweepLeft' = Left(sweepLeft) /\ UNCHANGED made
    /\ probeAge' = [p \in Probes |-> AtMost(probeAge[p] + 1, Longest)]
    /\ findingAge' = [k \in ScanKeys |-> AtMost(findingAge[k] + 1, Longest)]
    /\ attempts' = [s \in Sources |->
                       [a \in 0..(FloodWindow - 1) |-> IF a = 0 THEN 0 ELSE attempts[s][a - 1]]]

ScanNext == (\E p \in Probes : Inspect(p)) \/ ResetEngine \/ ScanTick

ScanSpec == ScanInit /\ [][ScanNext]_scanVars

-----------------------------------------------------------------------------
(* Properties *)

CountedFor(p, key) ==
    IF key[1] = "ports" THEN PortKey(p) = key ELSE HostKey(p) = key /\ p.port \notin ClientPorts

\* What a key really saw in the last window: distinct items, or attempts.
Seen(key) ==
    IF key[1] = "flood" THEN Tally(attempts[key[2]], 0..(FloodWindow - 1))
    ELSE Cardinality({p \in Probes : CountedFor(p, key) /\ probeAge[p] < ScanWindow})

FindingsAreSound == \A k \in ScanKeys : findingAge[k] = 0 => Seen(k) >= Threshold(k)
WideScanIsFound ==
    \A k \in ScanKeys :
        Seen(k) >= 2 * Threshold(k) - 1 => findingAge[k] <= WindowOfKey(k) + Cooldown - 2

\* A finding is raised only for what happened within one window of its length, and
\* a scan with twice the threshold less one within that length is found, or was, no
\* longer ago than the window and the pause: however windows end, are swept, are
\* reset and start again.
ScanFindingsExact == FindingsAreSound /\ WideScanIsFound

-----------------------------------------------------------------------------
(* The invariants that the proofs rest on *)

\* How long ago the current window of a key started; -1 if it has none.
IsCurrent(entries, key) == key \in DOMAIN entries /\ entries[key].left > 0
StartedAgo(entries, key) ==
    IF IsCurrent(entries, key) THEN WindowOfKey(key) - entries[key].left ELSE -1

\* The probes of a key in its current window, and those of a whole window before that.
ItemOf(p, key) == IF key[1] = "ports" THEN p.port ELSE p.target
Inside(key, ago, age) == {p \in Probes : CountedFor(p, key) /\ age[p] <= ago}
Earlier(key, ago, age) == {p \in Probes : CountedFor(p, key) /\ ago < age[p] /\ age[p] < ScanWindow}

\* Either of them that reaches the threshold was told of, no longer after the last of its
\* probes than a pause takes.
ToldOf(probes, key, age, told) ==
    Cardinality(probes) >= Threshold(key) => \A p \in probes : told <= Cooldown - 1 + age[p]

\* Ports and hosts: a window holds the items of the probes since it started.
PatternHolds(key, ago, items, age, told) ==
    /\ ago >= 0 => items = {ItemOf(p, key) : p \in Inside(key, ago, age)}
    /\ ago = -1 => \A p \in Probes : CountedFor(p, key) => age[p] >= 1
    /\ ToldOf(Inside(key, ago, age), key, age, told) /\ ToldOf(Earlier(key, ago, age), key, age, told)

\* A flood: a window counts the attempts since it started, as far as the threshold.
ToldOfFlood(ages, counts, told) ==
    Tally(counts, ages) >= SynFloodAttempts => \A a \in ages : counts[a] > 0 => told <= Cooldown - 1 + a
FloodHolds(ago, total, counts, told) ==
    /\ ago >= 0 => /\ total >= Tally(counts, 0..ago)
                   /\ Tally(counts, 0..ago) = total \/ Tally(counts, 0..ago) >= SynFloodAttempts
    /\ ago = -1 => counts[0] = 0
    /\ ToldOfFlood(0..ago, counts, told) /\ ToldOfFlood((ago + 1)..(FloodWindow - 1), counts, told)

KeyHolds(key) ==
    LET ago == StartedAgo(windows, key) IN
    IF key[1] = "flood"
    THEN FloodHolds(ago, Tally(windows[key].items, DOMAIN windows[key].items), attempts[key[2]], findingAge[key])
    ELSE PatternHolds(key, ago, DOMAIN windows[key].items, probeAge, findingAge[key])

\* A window is a record of counts, and a pause is no shorter than its finding is recent.
WindowsCount(entries) ==
    /\ entries = [k \in DOMAIN entries |-> [items |-> entries[k].items, left |-> entries[k].left]]
    /\ DOMAIN entries \subseteq ScanKeys
    /\ \A k \in DOMAIN entries :
          /\ entries[k].left \in 0..WindowOfKey(k)
          /\ IsFiniteSet(DOMAIN entries[k].items)
          /\ entries[k].items \in [DOMAIN entries[k].items -> Nat]
PausesHold(log, found) ==
    \A i \in DOMAIN log :
        log[i].left > 0 => log[i].key \in found \/ findingAge[log[i].key] <= Cooldown - log[i].left

ScanInv ==
    /\ ScanTypeOK /\ WindowsCount(windows) /\ PausesHold(lastReported, {})
    /\ \A key \in ScanKeys : KeyHolds(key)
    /\ FindingsAreSound
==============================================================================
