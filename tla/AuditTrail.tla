------------------------------ MODULE AuditTrail -------------------------------
(***************************************************************************)
(* The record of who did what: entries appended in the transactions of the *)
(* acts they record, and the pages of them that somebody walks through     *)
(* while the trail grows (services/audit.service.ts, audit.routes.ts,      *)
(* hooks/useAudit.ts, pages/AuditPage.tsx, V9).                            *)
(*                                                                         *)
(* An id is taken when a row is inserted, and the row is there when its    *)
(* transaction commits: ids appear in another order than they were taken,  *)
(* and those of transactions that were rolled back never.                  *)
(***************************************************************************)
EXTENDS Integers, FiniteSets, Sequences, FiniteSetsExt, SequencesExt

CONSTANTS
    Actions,              \* AUDIT_ACTION_LABELS: those written, and those retired
    Written,              \* AUDIT_ACTIONS
    AllActions,           \* the filter that is none
    PageLimit,            \* limit: 50 on the page
    MaxEntries, MaxTrailActs     \* bounds

ASSUME TrailAssumption ==
    /\ Written \subseteq Actions /\ AllActions \notin Actions
    /\ PageLimit \in Nat \ {0} /\ {MaxEntries, MaxTrailActs} \subseteq Nat

Filters == Actions \cup {AllActions}
First == MaxEntries + 1        \* the cursor that is none: below it are all ids

VARIABLES
    entries,     \* id -> action, and whether it is in flight, committed or rolled back
    acts,        \* the changes that are recorded: id -> they are in force
    walk,        \* what the cache has for a filter: its pages, and whether the last try failed
    pageFetch,       \* the request under way
    filter,
    trailActs

trailVars == <<entries, acts, walk, pageFetch, filter, trailActs>>

Walked(pages, failed) == [pages |-> pages, failed |-> failed]
PageFetch(kind, of, due) == [kind |-> kind, of |-> of, pages |-> <<>>, due |-> due]
NoPageFetch == PageFetch("none", AllActions, 0)
\* A page is what listAuditEvents answers, and, as history, the entries it could see.
PageOfTrail(ids, next, seen) == [ids |-> ids, next |-> next, seen |-> seen]
NoMore == 0

\* The trail is as old as the database, with entries of actions that nothing writes any more.
TrailInit ==
    /\ \E n \in 0..(MaxEntries - 1) : \E a \in [1..n -> Actions] :
        entries = [i \in 1..n |-> [action |-> a[i], state |-> "committed"]]
    /\ acts = [i \in DOMAIN entries |-> TRUE]
    /\ walk = [f \in Filters |-> Walked(<<>>, FALSE)]
    /\ filter = AllActions /\ pageFetch = PageFetch("refetch", AllActions, 1)
    /\ trailActs = 0

-----------------------------------------------------------------------------
(* recordAudit, in the transaction of what it records. *)

Acting == trailActs < MaxTrailActs /\ trailActs' = trailActs + 1
ReaderUnchanged == UNCHANGED <<walk, pageFetch, filter>>

Inserted == "inFlight"
Record(action) ==
    /\ Acting /\ Len(entries) < MaxEntries
    /\ entries' = Append(entries, [action |-> action, state |-> Inserted])
    /\ acts' = Append(acts, FALSE) /\ ReaderUnchanged
CommitAct(i) ==
    /\ ~acts[i] /\ entries[i].state # "rolledBack" /\ entries' = [entries EXCEPT ![i].state = "committed"]
    /\ acts' = [acts EXCEPT ![i] = TRUE] /\ ReaderUnchanged /\ UNCHANGED trailActs
\* Any statement of the transaction fails, or its process dies.
RollBackAct(i) ==
    /\ entries[i].state = "inFlight" /\ entries' = [entries EXCEPT ![i].state = "rolledBack"]
    /\ ReaderUnchanged /\ UNCHANGED <<acts, trailActs>>

-----------------------------------------------------------------------------
(* listAuditEvents *)

CommittedEntries == {i \in DOMAIN entries : entries[i].state = "committed"}
Matching(f) == {i \in CommittedEntries : f \in {AllActions, entries[i].action}}

\* The n-th is the one that n - 1 are newer than.
NewestFirst(asked) ==
    [n \in 1..Cardinality(asked) |-> CHOOSE i \in asked : Cardinality({j \in asked : j > i}) = n - 1]
\* nextBefore: the oldest row returned.
NextBefore(rows) == rows[PageLimit]
ListAuditEvents(f, before) ==
    LET rows == NewestFirst({i \in Matching(f) : i < before}) IN
    PageOfTrail(SubSeq(rows, 1, Min({PageLimit, Len(rows)})),
                IF Len(rows) > PageLimit THEN NextBefore(rows) ELSE NoMore, CommittedEntries)

-----------------------------------------------------------------------------
(* useAuditEvents: an infinite query for every filter. *)

EntriesIn(pages) == UNION {ToSet(pages[n].ids) : n \in DOMAIN pages}
ShownEntries == EntriesIn(walk[filter].pages)
HasNextPage == walk[filter].pages # <<>> /\ Last(walk[filter].pages).next # NoMore

Start(f) == PageFetch("refetch", f, Max({1, Len(walk[f].pages)}))

\* Another filter, with pages of its own; what is fetched for the one before is still cached.
SetFilter(f) ==
    /\ Acting /\ f # filter /\ pageFetch.kind = "none" /\ filter' = f
    /\ pageFetch' \in {Start(f)} \cup (IF walk[f].pages # <<>> THEN {NoPageFetch} ELSE {})
    /\ UNCHANGED <<entries, acts, walk>>
\* The page is opened again, or its tab: every page there is, one after the other.
Refetch ==
    /\ Acting /\ pageFetch.kind = "none" /\ pageFetch' = Start(filter)
    /\ UNCHANGED <<entries, acts, walk, filter>>
\* The button is not there while it fetches a page; a refetch it takes the place of.
LoadOlder ==
    /\ Acting /\ HasNextPage /\ pageFetch.kind # "next"
    /\ pageFetch' = PageFetch("next", filter, 0)
    /\ UNCHANGED <<entries, acts, walk, filter>>

\* The cursor of the page that is fetched now, out of the page before it.
Cursor(pages) == IF pages = <<>> THEN First ELSE Last(pages).next
PageArrives ==
    /\ pageFetch.kind = "next"
    /\ LET pages == walk[pageFetch.of].pages IN
       walk' = [walk EXCEPT ![pageFetch.of] =
                    Walked(Append(pages, ListAuditEvents(pageFetch.of, Cursor(pages))), FALSE)]
    /\ pageFetch' = NoPageFetch /\ UNCHANGED <<entries, acts, filter, trailActs>>
RefetchedPageArrives ==
    /\ pageFetch.kind = "refetch"
    /\ LET pages == Append(pageFetch.pages, ListAuditEvents(pageFetch.of, Cursor(pageFetch.pages))) IN
       IF Len(pages) = pageFetch.due \/ Last(pages).next = NoMore
       THEN pageFetch' = NoPageFetch /\ walk' = [walk EXCEPT ![pageFetch.of] = Walked(pages, FALSE)]
       ELSE pageFetch' = [pageFetch EXCEPT !.pages = pages] /\ UNCHANGED walk
    /\ UNCHANGED <<entries, acts, filter, trailActs>>
TrailFetchFails ==
    /\ Acting /\ pageFetch.kind # "none"
    /\ pageFetch' = NoPageFetch
    /\ walk' = [walk EXCEPT ![pageFetch.of] = Walked(walk[pageFetch.of].pages, TRUE)]
    /\ UNCHANGED <<entries, acts, filter>>

TrailNext ==
    \/ \E a \in Written : Record(a)
    \/ \E i \in DOMAIN entries : CommitAct(i) \/ RollBackAct(i)
    \/ \E f \in Filters : SetFilter(f)
    \/ Refetch \/ LoadOlder \/ PageArrives \/ RefetchedPageArrives \/ TrailFetchFails

TrailSpec == TrailInit /\ [][TrailNext]_trailVars

\* emptyMessage
EmptyMessage == IF ShownEntries # {} \/ (walk[filter].pages = <<>> /\ ~walk[filter].failed) THEN "-"
        ELSE IF walk[filter].failed THEN "couldNotBeRead" ELSE "nothingHasHappened"

-----------------------------------------------------------------------------
(* Properties *)

\* The variables keep their types.
TrailTypeOK ==
    /\ entries \in Seq([action : Actions, state : {"inFlight", "committed", "rolledBack"}])
    /\ acts \in Seq(BOOLEAN) /\ Len(acts) = Len(entries) /\ Len(entries) <= MaxEntries
    /\ filter \in Filters /\ pageFetch.kind \in {"none", "refetch", "next"} /\ pageFetch.of \in Filters
    /\ \A f \in Filters : walk[f].failed \in BOOLEAN
    /\ trailActs \in 0..MaxTrailActs

\* What is in force is recorded, and what is recorded is in force.
RecordedIffDone == \A i \in DOMAIN entries : acts[i] <=> entries[i].state = "committed"

AreNewestFirst(pages) ==
    \A n, m \in DOMAIN pages : \A k \in DOMAIN pages[n].ids, l \in DOMAIN pages[m].ids :
        n < m \/ (n = m /\ k < l) => pages[n].ids[k] > pages[m].ids[l]

\* However the trail grew while its pages were fetched, refetched and failed to arrive: the
\* entries are shown newest first and none twice; none is left out that was committed when
\* the first page was read and is newer than the last entry shown, and none at all when
\* there is no older page; and only a trail that was read is said to be empty.
WalkIsWhole ==
    LET pages == walk[filter].pages
        there == {i \in pages[1].seen : filter \in {AllActions, entries[i].action}}
    IN /\ AreNewestFirst(pages) /\ ShownEntries \subseteq Matching(filter)
       /\ pages # <<>> =>
            \A i \in there : (~HasNextPage \/ \E j \in ShownEntries : i > j) => i \in ShownEntries
       /\ EmptyMessage = "nothingHasHappened" => there = {}

TrailExact == RecordedIffDone /\ WalkIsWhole

\* What the inductive proof adds, of every chain of pages, cached or being fetched: it has what
\* was there when it was begun, down to the entry at which it is to be continued.
TrailEntry == [action : Actions, state : {"inFlight", "committed", "rolledBack"}]
EntriesOK ==
    /\ entries \in Seq(TrailEntry) /\ Len(entries) <= MaxEntries
    /\ acts \in Seq(BOOLEAN) /\ Len(acts) = Len(entries) /\ RecordedIffDone
TrailPage == [ids : Seq(Nat), next : Nat, seen : SUBSET Nat]
IsChain(pages, matching, committed) ==
    /\ pages \in Seq(TrailPage) /\ EntriesIn(pages) \subseteq matching /\ AreNewestFirst(pages)
    /\ pages # <<>> =>
        /\ pages[1].seen \subseteq committed
        /\ Last(pages).next \in EntriesIn(pages) \cup {NoMore}
        /\ \A i \in EntriesIn(pages) : i >= Last(pages).next
        /\ \A i \in pages[1].seen \cap matching :
                i \in EntriesIn(pages) \/ (Last(pages).next # NoMore /\ i < Last(pages).next)
ChainOK(f, pages) == IsChain(pages, Matching(f), CommittedEntries)
Continues(pages) == pages # <<>> => Last(pages).next # NoMore
WalkOK ==
    /\ DOMAIN walk = Filters
    /\ \A f \in Filters : walk[f] \in [pages : Seq(TrailPage), failed : BOOLEAN] /\ ChainOK(f, walk[f].pages)
FetchOK ==
    /\ pageFetch \in [kind : {"none", "refetch", "next"}, of : Filters, pages : Seq(TrailPage), due : Nat]
    /\ ChainOK(pageFetch.of, pageFetch.pages) /\ Continues(pageFetch.pages)
    /\ pageFetch.kind = "next" => Continues(walk[pageFetch.of].pages)
TrailInv == EntriesOK /\ WalkOK /\ FetchOK /\ filter \in Filters
==============================================================================
