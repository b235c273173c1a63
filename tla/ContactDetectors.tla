--------------------------- MODULE ContactDetectors ---------------------------
(***************************************************************************)
(* The detectors that judge a contact by who or what is contacted: threat  *)
(* intelligence over packets and over flow records, and the names asked    *)
(* for in DNS (packet/detect/threat-intel.ts, flow/detect.ts, intel/       *)
(* assess.ts, packet/detect/dns-tunneling.ts).                             *)
(*                                                                         *)
(* Time is in ticks and the clock of the records does not run backwards.   *)
(* An address is listed if a loaded feed covers it; one indicator may      *)
(* cover several.  A question is long or not and has a label that looks    *)
(* encoded or not.                                                         *)
(***************************************************************************)
EXTENDS Integers, Sequences, FiniteSets, FiniteSetsExt

CONSTANTS
    Contacts,          \* [via, source, target, question], what is observed
    LocalHosts,        \* isPrivateAddress
    Questions,         \* name -> [parent, long, encoded]
    NoQuestion,
    Indicator,         \* address or name -> the indicator that covers it
    ContactPause, TunnelPause,    \* INTEL_COOLDOWN_MS, REPORT_COOLDOWN_MS
    TunnelWindow,                 \* five scan windows
    DistinctNames,                \* dnsDistinctSubdomains
    MaxPairings,                  \* MAX_TRACKED_PAIRS, MAX_TRACKED_DOMAINS
    MaxContacts, MaxListChanges   \* bounds

Vias == {"query", "answer", "packet", "flow"}
Tables == {"packet", "flow", "tunnel"}

ASSUME ContactAssumption ==
    /\ {ContactPause, TunnelPause, TunnelWindow, DistinctNames, MaxPairings} \subseteq Nat \ {0}
    /\ {MaxContacts, MaxListChanges} \subseteq Nat
    /\ \A c \in Contacts : /\ DOMAIN c = {"via", "source", "target", "question"} /\ c.via \in Vias
                           /\ c.question \in DOMAIN Questions \cup {NoQuestion}

VARIABLES loaded,      \* the indicators of the set in force
          names,       \* subdomainsPerDomain: <<source, parent>> -> [items, left]
          tables,      \* the BoundedMaps of the last reports: sequences of [key, left]
          \* history
          askedAgo,       \* ticks since each source asked for each name, capped
          silence,     \* ticks since the last finding of each key, capped; keys once raised
          observed, listChanges

contactVars == <<loaded, names, tables, askedAgo, silence, observed, listChanges>>

Askers == {<<c.source, c.question>> : c \in {c \in Contacts : c.question # NoQuestion}}

ContactInit ==
    /\ loaded \in {{}, {Indicator[x] : x \in DOMAIN Indicator}}
    /\ names = <<>> /\ tables = [t \in Tables |-> <<>>]
    /\ askedAgo = [a \in Askers |-> TunnelWindow] /\ silence = [t \in Tables |-> <<>>]
    /\ observed = 0 /\ listChanges = 0

-----------------------------------------------------------------------------
(* Who is contacted. *)

IsListed(x) == x \in DOMAIN Indicator /\ Indicator[x] \in loaded

Direction(c) ==
    IF c.source \in LocalHosts
    THEN IF c.target \in LocalHosts THEN "internal" ELSE "outbound"
    ELSE IF c.target \in LocalHosts THEN "inbound" ELSE "unknown"

\* The key of a finding: an outbound or inbound contact is told apart by the end that
\* is not listed, any other by both ends.
DomainKey(c) == <<"domain", Indicator[c.question], c.source>>
AddressKey(c, listed) ==
    LET peer == IF listed = c.target THEN c.source ELSE c.target IN
    IF Direction(c) \in {"outbound", "inbound"}
    THEN <<Direction(c), Indicator[listed], peer>>
    ELSE <<"other", Indicator[listed], peer, listed>>

\* What a contact matches, in the order it is looked at: the name that is asked for,
\* the target, the source.
Matches(c) ==
    (IF c.via = "query" /\ c.question # NoQuestion /\ IsListed(c.question) THEN <<DomainKey(c)>> ELSE <<>>)
    \o (IF IsListed(c.target) THEN <<AddressKey(c, c.target)>> ELSE <<>>)
    \o (IF IsListed(c.source) THEN <<AddressKey(c, c.source)>> ELSE <<>>)

-----------------------------------------------------------------------------
(* shouldReport *)

Pause(table) == IF table = "tunnel" THEN TunnelPause ELSE ContactPause
IsPausing(table, key) ==
    \E i \in DOMAIN tables[table] : tables[table][i].key = key /\ tables[table][i].left > 0

\* A finding stamps its key; a new key drops the oldest of a full table.
WithStamp(table, key) ==
    LET log == tables[table]
        stamp == [key |-> key, left |-> Pause(table)] IN
    IF \E i \in DOMAIN log : log[i].key = key
    THEN [i \in DOMAIN log |-> IF log[i].key = key THEN stamp ELSE log[i]]
    ELSE Append(IF Len(log) < MaxPairings THEN log ELSE Tail(log), stamp)

-----------------------------------------------------------------------------
(* One finding at most of a contact. *)

\* Of a packet, the first match that is not pausing.
PacketRaises(c) ==
    LET due == {i \in DOMAIN Matches(c) : ~IsPausing("packet", Matches(c)[i])} IN
    IF due = {} THEN <<>> ELSE <<Matches(c)[Min(due)]>>

\* Of a flow, the first match unless it is pausing.
FlowRaises(c) ==
    IF Matches(c) # <<>> /\ ~IsPausing("flow", Head(Matches(c))) THEN <<Head(Matches(c))>> ELSE <<>>

-----------------------------------------------------------------------------
(* Names that carry data. *)

IsQuestion(c) == c.via \in {"query", "answer"} /\ c.question # NoQuestion
TunnelKey(c) == <<c.source, Questions[c.question].parent>>

\* The window of a source and a parent domain, with the name added.
NamesWith(c) ==
    LET key == TunnelKey(c)
        isCurrent == key \in DOMAIN names /\ names[key].left > 0 IN
    [k \in DOMAIN names \cup {key} |->
        IF k # key THEN names[k]
        ELSE [items |-> (IF isCurrent THEN names[k].items ELSE {}) \cup {c.question},
              left |-> IF isCurrent THEN names[k].left ELSE TunnelWindow]]

Signs(question) == Cardinality({sign \in {"long", "encoded"} : Questions[question][sign]})
Reasons(c, distinct) == Signs(c.question) + (IF distinct >= DistinctNames THEN 1 ELSE 0)

\* Two reasons make a finding.  An answer carries its question back, from the resolver.
TunnelRaises(c) ==
    /\ IsQuestion(c)
    /\ Reasons(c, Cardinality(NamesWith(c)[TunnelKey(c)].items)) >= 2
    /\ ~IsPausing("tunnel", TunnelKey(c))

-----------------------------------------------------------------------------
\* What is found in a packet, by two detectors of the engine, and in a flow, by its own.
Raised(c) ==
    [packet |-> IF c.via = "flow" THEN <<>> ELSE PacketRaises(c),
     flow |-> IF c.via = "flow" THEN FlowRaises(c) ELSE <<>>,
     tunnel |-> IF TunnelRaises(c) THEN <<TunnelKey(c)>> ELSE <<>>]

\* The history of a table: what is raised has just been raised.
Struck(ages, raised) ==
    IF raised = <<>> THEN ages
    ELSE [k \in DOMAIN ages \cup {Head(raised)} |-> IF k = Head(raised) THEN 0 ELSE ages[k]]

ObserveContact(c) ==
    /\ observed < MaxContacts /\ observed' = observed + 1
    /\ tables' = [t \in Tables |-> IF Raised(c)[t] = <<>> THEN tables[t] ELSE WithStamp(t, Head(Raised(c)[t]))]
    /\ silence' = [t \in Tables |-> Struck(silence[t], Raised(c)[t])]
    /\ IF IsQuestion(c)
       THEN names' = NamesWith(c) /\ askedAgo' = [askedAgo EXCEPT ![<<c.source, c.question>>] = 0]
       ELSE UNCHANGED <<names, askedAgo>>
    /\ UNCHANGED <<loaded, listChanges>>

\* A load of the feeds publishes another set.
ListChanges ==
    /\ listChanges < MaxListChanges /\ listChanges' = listChanges + 1
    /\ loaded' \in SUBSET {Indicator[x] : x \in DOMAIN Indicator} \ {loaded}
    /\ UNCHANGED <<names, tables, askedAgo, silence, observed>>

\* A capture begins with nothing.
ResetPacketDetectors ==
    /\ names # <<>> \/ tables["packet"] # <<>>
    /\ names' = <<>> /\ askedAgo' = [a \in Askers |-> TunnelWindow]
    /\ tables' = [tables EXCEPT !["packet"] = <<>>, !["tunnel"] = <<>>]
    /\ silence' = [silence EXCEPT !["packet"] = <<>>, !["tunnel"] = <<>>]
    /\ UNCHANGED <<loaded, observed, listChanges>>

\* How long a silence is told apart.
Cap(table) == Pause(table) + (IF table = "tunnel" THEN TunnelWindow ELSE 0)
Sooner(n) == IF n = 0 THEN 0 ELSE n - 1
Later(n, most) == IF n < most THEN n + 1 ELSE most

RunDown(log) == [i \in DOMAIN log |-> [log[i] EXCEPT !.left = Sooner(@)]]
Older(t, ages) == [k \in DOMAIN ages |-> Later(ages[k], Cap(t))]

\* Time passes; the engine's sweep drops windows that have ended now and then, which
\* makes no difference to what they hold.
ContactTick ==
    /\ names' = [k \in {k \in DOMAIN names : names[k].left > 1} |-> [names[k] EXCEPT !.left = @ - 1]]
    /\ tables' = [t \in Tables |-> RunDown(tables[t])]
    /\ askedAgo' = [a \in Askers |-> Later(askedAgo[a], TunnelWindow)]
    /\ silence' = [t \in Tables |-> Older(t, silence[t])]
    /\ UNCHANGED <<loaded, observed, listChanges>>

ContactNext ==
    \/ \E c \in Contacts : ObserveContact(c)
    \/ ListChanges \/ ResetPacketDetectors \/ ContactTick

ContactSpec == ContactInit /\ [][ContactNext]_contactVars

-----------------------------------------------------------------------------
\* The variables keep their types.
ContactTypeOK ==
    /\ loaded \subseteq {Indicator[x] : x \in DOMAIN Indicator}
    /\ \A k \in DOMAIN names : names[k].items \subseteq DOMAIN Questions /\ names[k].left \in 1..TunnelWindow
    /\ \A t \in Tables : /\ Len(tables[t]) <= MaxPairings
                         /\ \A i \in DOMAIN tables[t] : /\ tables[t][i].key \in DOMAIN silence[t]
                                                        /\ tables[t][i].left \in 0..Pause(t)
                         /\ silence[t] \in [DOMAIN silence[t] -> 0..Cap(t)]
    /\ askedAgo \in [Askers -> 0..TunnelWindow]
    /\ observed \in 0..MaxContacts /\ listChanges \in 0..MaxListChanges

SilentFor(table, key) == IF key \in DOMAIN silence[table] THEN silence[table][key] ELSE Cap(table)

\* Every contact with something listed has a finding no older than the pause, of its own
\* pairing or, just now, of another thing the same contact matches; a flow goes by its
\* target alone while that one is pausing.
ContactsAreReported(c) ==
    LET table == IF c.via = "flow" THEN "flow" ELSE "packet" IN
    \A i \in DOMAIN Matches(c) :
        \/ SilentFor(table, Matches(c)[i])' < ContactPause
        \/ Raised(c)[table] # <<>>
        \/ table = "flow" /\ IsPausing("flow", Head(Matches(c)))

\* The names of its parent that a source asked for within the window, and of those the
\* ones that carry a sign.
NamesAsked(c) ==
    {q \in DOMAIN Questions : /\ <<c.source, q>> \in Askers /\ askedAgo'[<<c.source, q>>] < TunnelWindow
                              /\ Questions[q].parent = Questions[c.question].parent}
WithSign(questions) == {q \in questions : Signs(q) >= 1}

\* A name with two signs, and so many names with one that a window must have reached
\* the threshold with them, have a finding that is recent; and no finding has fewer than
\* two reasons in what was asked within the window.
TunnelsAreReported(c) ==
    IsQuestion(c) =>
        /\ Signs(c.question) = 2 => SilentFor("tunnel", TunnelKey(c))' < TunnelPause
        /\ Cardinality(WithSign(NamesAsked(c))) >= 2 * DistinctNames - 1
              => SilentFor("tunnel", TunnelKey(c))' <= TunnelWindow + TunnelPause - 2
        /\ TunnelRaises(c) => Reasons(c, Cardinality(NamesAsked(c))) >= 2

\* Nothing is reported twice within the pause while the table has room for all.
PausesAreKept(c) ==
    \A t \in Tables : Raised(c)[t] # <<>> /\ Cardinality(DOMAIN silence[t]') <= MaxPairings =>
        SilentFor(t, Head(Raised(c)[t])) >= Pause(t)

\* Contacts are reported once in a pause, and never missed for one.
ContactReported ==
    \A c \in Contacts : ObserveContact(c) =>
        ContactsAreReported(c) /\ TunnelsAreReported(c) /\ PausesAreKept(c)
ContactFindingsExact == [][ContactReported]_contactVars

-----------------------------------------------------------------------------
(* The invariant that the proofs rest on *)

\* Of each table: a stamp runs out when its key's silence is as long as the pause, no key
\* has two, and while there is room every key that was raised has one.
StampsKept(t, log, ages) ==
    /\ ages \in [DOMAIN ages -> 0..Cap(t)] /\ IsFiniteSet(DOMAIN ages)
    /\ log \in Seq([key : DOMAIN ages, left : 0..Pause(t)]) /\ Len(log) <= MaxPairings
    /\ \A i, j \in DOMAIN log : log[i].key = log[j].key => i = j
    /\ \A i \in DOMAIN log : log[i].left = IF ages[log[i].key] < Pause(t) THEN Pause(t) - ages[log[i].key] ELSE 0
    /\ Cardinality(DOMAIN ages) <= MaxPairings => \A k \in DOMAIN ages : \E i \in DOMAIN log : log[i].key = k
StampsHold(t) == StampsKept(t, tables[t], silence[t])

\* The window a name falls in, by who asked for it; and how long ago that was.
AskerKey(asker) == <<asker[1], Questions[asker[2]].parent>>
IsHeld(asker) == AskerKey(asker) \in DOMAIN names /\ asker[2] \in names[AskerKey(asker)].items

\* A window holds what was asked since it began, and nothing else was asked since.
WindowsHold ==
    /\ names \in [DOMAIN names -> [items : SUBSET DOMAIN Questions, left : 1..TunnelWindow]]
    /\ askedAgo \in [Askers -> 0..TunnelWindow] /\ IsFiniteSet({a \in Askers : askedAgo[a] < TunnelWindow})
    /\ \A k \in DOMAIN names : \A q \in names[k].items : <<k[1], q>> \in Askers /\ AskerKey(<<k[1], q>>) = k
    /\ \A a \in Askers : AskerKey(a) \in DOMAIN names =>
        IF IsHeld(a) THEN askedAgo[a] <= TunnelWindow - names[AskerKey(a)].left
        ELSE askedAgo[a] >= TunnelWindow - names[AskerKey(a)].left

\* The names with a sign that are in the window of a key, and those of the window before.
Signed(k) == {a \in Askers : AskerKey(a) = k /\ Signs(a[2]) >= 1}
InWindow(k) == {a \in Signed(k) : IsHeld(a)}
BeforeWindow(k) == {a \in Signed(k) : ~IsHeld(a) /\ askedAgo[a] < TunnelWindow}

\* So many of one window that it reached the threshold with them were told of: less than a
\* pause before the last of them.
WasToldOf(k, askers, ages, asked) ==
    Cardinality(askers) >= DistinctNames =>
        k \in DOMAIN ages /\ \A a \in askers : ages[k] < TunnelPause + asked[a]
ToldFor(k) ==
    /\ WasToldOf(k, InWindow(k), silence["tunnel"], askedAgo)
    /\ WasToldOf(k, BeforeWindow(k), silence["tunnel"], askedAgo)

ContactInv ==
    /\ loaded \subseteq {Indicator[x] : x \in DOMAIN Indicator}
    /\ observed \in 0..MaxContacts /\ listChanges \in 0..MaxListChanges
    /\ DOMAIN tables = Tables /\ DOMAIN silence = Tables /\ \A t \in Tables : StampsHold(t)
    /\ WindowsHold
    /\ \A b \in Askers : ToldFor(AskerKey(b))
==============================================================================
