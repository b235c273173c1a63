---------------------------- MODULE FlowDatagrams ----------------------------
(***************************************************************************)
(* What the flow collector does with the datagrams of its socket: the      *)
(* allowlist, the templates learned from exporters, and the counters that  *)
(* the status shows.                                                       *)
(*                                                                         *)
(* A datagram is its kind and, for NetFlow v9 and IPFIX, its sets.  A      *)
(* definition of a template is a model value; a data set holds one record  *)
(* per entry of `records', decodable or not with whatever definition the   *)
(* cache holds.  Observation domain and template id are one value.         *)
(***************************************************************************)
EXTENDS Integers, Sequences, SequencesExt

CONSTANTS
    Exporters,         \* source addresses
    TemplateIds,       \* observation domain and template id
    Definitions,       \* field layouts
    Datagrams,         \* the datagrams that exporters send
    Allowlists,        \* what FLOW_EXPORTERS may be saved as; {} accepts any
    MaxTemplates,      \* DEFAULT_MAX_TEMPLATES
    MaxTracked,        \* MAX_TRACKED_EXPORTERS
    MaxDatagrams       \* datagrams in one behaviour

\* The sets of a templated datagram.  "bad" is a set of a reserved id, "lost" one
\* whose length cannot be right.
Sets == [kind : {"template"}, id : TemplateIds, definition : Definitions]
        \cup [kind : {"withdrawal", "truncated"}, id : TemplateIds]
        \cup [kind : {"data"}, id : TemplateIds, decodable : BOOLEAN]
        \cup [kind : {"options", "bad", "lost"}]

ASSUME DatagramAssumption ==
    /\ \A d \in Datagrams :
        /\ d.kind \in {"sflow", "short", "unknown", "unsupported", "v5", "templated"}
        /\ d.sets \in Seq(Sets) /\ (d.sets # <<>> => d.kind = "templated")
    /\ Allowlists \subseteq SUBSET Exporters
    /\ MaxTemplates \in Nat \ {0} /\ MaxTracked \in Nat \ {0} /\ MaxDatagrams \in Nat

VARIABLES
    allowed,       \* currentAllowedExporters
    templates,     \* TemplateCache: [key, definition], in order of insertion
    exporters,     \* per-exporter counters, in order of insertion
    count,         \* the collector's counters
    changedAt,     \* allowlistChangedAt
    \* history
    arrived,       \* datagrams since the start of the process
    newest,        \* the definition that arrived last, per template
    decodedWith,   \* <<definition used, definition that was the newest>>
    refusedSince, acceptedSince     \* since the refusals were last forgotten

filterVars == <<allowed, changedAt, refusedSince, acceptedSince>>
datagramVars == <<allowed, templates, exporters, count, changedAt, arrived, newest,
                  decodedWith, refusedSince, acceptedSince>>

Keys == Exporters \X TemplateIds
Unknown == "unknown"
NoCounts == [datagrams |-> 0, records |-> 0, malformed |-> 0,
             notAllowed |-> 0, sflow |-> 0, unsupportedVersion |-> 0]

DatagramTypeOK ==
    /\ allowed \subseteq Exporters
    /\ templates \in Seq([key : Keys, definition : Definitions])
    /\ Len(templates) <= MaxTemplates
    /\ exporters \in Seq([exporter : Exporters, protocol : {"v5", "templated", Unknown},
                          datagrams : Nat, records : Nat, pendingTemplates : Nat, malformed : Nat])
    /\ Len(exporters) <= MaxTracked
    /\ DOMAIN count = DOMAIN NoCounts /\ \A c \in DOMAIN count : count[c] \in Nat
    /\ changedAt \in Nat /\ arrived \in 0..MaxDatagrams
    /\ newest \in [Keys -> Definitions \cup {Unknown}]
    /\ refusedSince \in Nat /\ acceptedSince \in Nat

DatagramInit ==
    /\ allowed \in Allowlists
    /\ templates = <<>> /\ exporters = <<>> /\ count = NoCounts /\ changedAt = 0
    /\ arrived = 0 /\ newest = [k \in Keys |-> Unknown] /\ decodedWith = {}
    /\ refusedSince = 0 /\ acceptedSince = 0

-----------------------------------------------------------------------------
(* TemplateCache *)

Position(cache, key) == {i \in DOMAIN cache : cache[i].key = key}

\* set(): a known template is redefined in its place; a new one takes the place
\* of the first when the cache is full.
MutantStored(cache, key, definition) ==
    IF Position(cache, key) # {} THEN cache
    ELSE Append(IF Len(cache) < MaxTemplates THEN cache ELSE Tail(cache),
                [key |-> key, definition |-> definition])
Stored(cache, key, definition) ==
    IF Position(cache, key) # {}
    THEN [i \in DOMAIN cache |-> IF i \in Position(cache, key)
                                 THEN [key |-> key, definition |-> definition] ELSE cache[i]]
    ELSE Append(IF Len(cache) < MaxTemplates THEN cache ELSE Tail(cache),
                [key |-> key, definition |-> definition])

-----------------------------------------------------------------------------
(* parseTemplated: the sets of a datagram, one after the other *)

Nothing == [records |-> 0, malformed |-> 0, pending |-> 0]
Begin(known) == [cache |-> templates, known |-> known, result |-> Nothing, used |-> {}, lost |-> FALSE]

Plus(at, field) == [at EXCEPT !.result[field] = @ + 1]

\* A withdrawal leaves the template in the cache, an options template means nothing.
ReadSet(from, at, set) ==
    IF at.lost \/ set.kind = "options" THEN at
    ELSE IF set.kind = "lost" THEN [Plus(at, "malformed") EXCEPT !.lost = TRUE]
    ELSE IF set.kind \in {"bad", "truncated"} THEN Plus(at, "malformed")
    ELSE IF set.kind = "withdrawal" THEN at
    ELSE LET key == <<from, set.id>> IN
         IF set.kind = "template"
         THEN [at EXCEPT !.cache = Stored(@, key, set.definition),
                         !.known = [@ EXCEPT ![key] = set.definition]]
         ELSE IF Position(at.cache, key) = {} THEN Plus(at, "pending")
         ELSE IF ~set.decodable THEN Plus(at, "malformed")
         ELSE LET i == CHOOSE i \in Position(at.cache, key) : TRUE IN
              [Plus(at, "records") EXCEPT
                  !.used = @ \cup {<<at.cache[i].definition, at.known[key]>>}]

ReadSets(from, sets) ==
    FoldLeft(LAMBDA at, set : ReadSet(from, at, set), Begin(newest), sets)

\* parseFlowDatagram
Parsed(from, d) ==
    IF d.kind = "templated" THEN ReadSets(from, d.sets)
    ELSE IF d.kind = "v5" THEN Plus(Begin(newest), "records")
    ELSE IF d.kind \in {"short", "unknown"} THEN Plus(Begin(newest), "malformed")
    ELSE Begin(newest)

-----------------------------------------------------------------------------
(* statsFor: an exporter keeps its slot, a new one takes the place of the first. *)

Slots(from) == {i \in DOMAIN exporters : exporters[i].exporter = from}
Protocol(d) == IF d.kind \in {"v5", "templated"} THEN d.kind ELSE Unknown
Fresh(from, d) == [exporter |-> from, protocol |-> Protocol(d), datagrams |-> 0, records |-> 0,
                   pendingTemplates |-> 0, malformed |-> 0]
\* Nothing makes room for a new exporter.
MutantStatsFor(from, d) ==
    IF Slots(from) # {} THEN exporters ELSE Append(exporters, Fresh(from, d))
StatsFor(from, d) ==
    IF Slots(from) # {} THEN exporters
    ELSE Append(IF Len(exporters) < MaxTracked THEN exporters ELSE Tail(exporters), Fresh(from, d))

Counted(stats, from, d, result) ==
    [i \in DOMAIN stats |->
        IF stats[i].exporter # from THEN stats[i]
        ELSE [stats[i] EXCEPT !.datagrams = @ + 1, !.records = @ + result.records,
                              !.pendingTemplates = @ + result.pending,
                              !.malformed = @ + result.malformed,
                              !.protocol = IF Protocol(d) = Unknown THEN @ ELSE Protocol(d)]]

-----------------------------------------------------------------------------
(* handleDatagram *)

IsAllowed(from) == allowed = {} \/ from \in allowed

\* An exporter that is not listed costs nothing but the count.
Refuse(from) ==
    /\ arrived < MaxDatagrams /\ ~IsAllowed(from)
    /\ count' = [count EXCEPT !.datagrams = @ + 1, !.notAllowed = @ + 1]
    /\ refusedSince' = refusedSince + 1 /\ arrived' = arrived + 1
    /\ UNCHANGED <<allowed, changedAt, acceptedSince, templates, exporters, newest, decodedWith>>

Accepted == acceptedSince' = acceptedSince + 1 /\ arrived' = arrived + 1 /\ UNCHANGED <<allowed, changedAt, refusedSince>>

IgnoreSflow(from, d) ==
    /\ arrived < MaxDatagrams /\ IsAllowed(from) /\ d.kind = "sflow"
    /\ count' = [count EXCEPT !.datagrams = @ + 1, !.sflow = @ + 1]
    /\ Accepted
    /\ UNCHANGED <<templates, exporters, newest, decodedWith>>

Handle(from, d) ==
    LET end == Parsed(from, d) IN
    /\ arrived < MaxDatagrams /\ IsAllowed(from) /\ d.kind # "sflow"
    /\ templates' = end.cache /\ newest' = end.known
    /\ decodedWith' = decodedWith \cup end.used
    /\ exporters' = Counted(StatsFor(from, d), from, d, end.result)
    /\ count' = [count EXCEPT !.datagrams = @ + 1, !.records = @ + end.result.records,
                              !.malformed = @ + end.result.malformed,
                              !.unsupportedVersion = @ + (IF d.kind = "unsupported" THEN 1 ELSE 0)]
    /\ Accepted

-----------------------------------------------------------------------------
(* Saves: the allowlist is read for each datagram and applies at once. *)

\* A save that moves only the allowlist forgets the refusals.
ResetRefusals(list) ==
    /\ list # allowed /\ allowed' = list
    /\ count' = [count EXCEPT !.notAllowed = 0] /\ changedAt' = count.datagrams
    /\ refusedSince' = 0 /\ acceptedSince' = 0
    /\ UNCHANGED <<templates, exporters, arrived, newest, decodedWith>>

\* A new binding has counters of its own, but keeps the templates.
ResetForRebind ==
    /\ count' = NoCounts /\ exporters' = <<>> /\ changedAt' = 0
Rebind(list) ==
    /\ ResetForRebind /\ allowed' = list
    /\ refusedSince' = 0 /\ acceptedSince' = 0
    /\ UNCHANGED <<templates, arrived, newest, decodedWith>>

\* A GET that recovers the settings replaces the list and resets nothing.
RecoverAllowlist(list) ==
    /\ list # allowed /\ allowed' = list
    /\ UNCHANGED <<templates, exporters, count, changedAt, arrived, newest, decodedWith,
                   refusedSince, acceptedSince>>

DatagramNext ==
    \/ \E from \in Exporters : Refuse(from)
    \/ \E from \in Exporters, d \in Datagrams : IgnoreSflow(from, d) \/ Handle(from, d)
    \/ \E list \in Allowlists : ResetRefusals(list) \/ Rebind(list) \/ RecoverAllowlist(list)

DatagramSpec == DatagramInit /\ [][DatagramNext]_datagramVars

-----------------------------------------------------------------------------
(* Properties *)

\* Whatever is redefined, evicted, learned again or kept across rebinds, a record
\* is decoded with the definition of its template that arrived last.
DecodedWithNewest == \A used \in decodedWith : used[1] = used[2]

\* The refusals and the datagrams they are compared with cover the same span, so
\* the share of refused datagrams is exact after any order of saves and rebinds.
RefusalShareExact ==
    /\ count.notAllowed = refusedSince
    /\ count.datagrams - changedAt = refusedSince + acceptedSince

\* What the collector tells of the flows is exact: what they carry and how many it
\* refused.
DatagramsExact == DecodedWithNewest /\ RefusalShareExact

-----------------------------------------------------------------------------
(* The invariant that the proofs rest on. *)

CacheOK(cache) == cache \in Seq([key : Keys, definition : Definitions]) /\ Len(cache) <= MaxTemplates
Used == (Definitions \cup {Unknown}) \X (Definitions \cup {Unknown})
\* What is cached of a template is its newest definition.
IsNewest(cache, known) == \A i \in DOMAIN cache : cache[i].definition = known[cache[i].key]

\* Where the sets of a datagram may have led to.
AllReads == [cache : Seq([key : Keys, definition : Definitions]),
          known : [Keys -> Definitions \cup {Unknown}],
          result : [records : Nat, malformed : Nat, pending : Nat],
          used : SUBSET Used, lost : BOOLEAN]
SoundReads == {at \in AllReads : /\ Len(at.cache) <= MaxTemplates /\ IsNewest(at.cache, at.known)
                              /\ \A u \in at.used : u[1] = u[2]}

Stats == [exporter : Exporters, protocol : {"v5", "templated", Unknown},
          datagrams : Nat, records : Nat, pendingTemplates : Nat, malformed : Nat]
DatagramInv ==
    /\ CacheOK(templates) /\ newest \in [Keys -> Definitions \cup {Unknown}]
    /\ IsNewest(templates, newest)
    /\ decodedWith \subseteq Used /\ DecodedWithNewest
    /\ exporters \in Seq(Stats) /\ Len(exporters) <= MaxTracked
    /\ count \in [datagrams : Nat, records : Nat, malformed : Nat,
                 notAllowed : Nat, sflow : Nat, unsupportedVersion : Nat]
    /\ allowed \subseteq Exporters /\ changedAt \in Nat /\ arrived \in 0..MaxDatagrams
    /\ refusedSince \in Nat /\ acceptedSince \in Nat /\ RefusalShareExact
==============================================================================
