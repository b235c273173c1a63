----------------------------- MODULE FindingsList ------------------------------
(***************************************************************************)
(* The list of findings as a page shows it: the queries behind it, the     *)
(* cache that keeps an answer for every filter, the filter by sensor that  *)
(* outlives its sensor, and the pager under the table                      *)
(* (services/alert.service.ts, pages/AlertsPage.tsx, hooks/useAlerts.ts,   *)
(* components/GridPagination.tsx, DataGrid.tsx).                           *)
(*                                                                         *)
(* Of the filters there are the sensor, which is data, and open only,      *)
(* which stands for those with a fixed vocabulary.  Findings are numbered  *)
(* in the order of their last sighting.  What people do to the rows is in  *)
(* AlertDesk.                                                              *)
(***************************************************************************)
EXTENDS Integers, FiniteSets, Sequences, FiniteSetsExt, SequencesExt

CONSTANTS
    SensorIds, Self,          \* names of sensors, and of the one that serves the page
    EverySensor,              \* no filter: the empty string, and no name of a sensor
    Ranks,                    \* SEVERITY_RANK: 0 is critical
    ListLimit,                \* limit: 500
    PageSizes,                \* ROWS_PER_PAGE_OPTIONS
    Listings,                 \* of findings that are there at the start
    NoRows,                   \* the cache has no rows for a filter
    MaxListed, MaxListEvents, MaxPageActs      \* bounds

ListKeys == [sensor : SensorIds \cup {EverySensor}, openOnly : BOOLEAN]

ASSUME ListAssumption ==
    /\ Self \in SensorIds /\ EverySensor \notin SensorIds \cup {"*"} /\ "*" \notin SensorIds
    /\ IsFiniteSet(SensorIds) /\ Ranks \subseteq Nat /\ ListLimit \in Nat \ {0}
    /\ PageSizes \subseteq Nat \ {0} /\ PageSizes # {} /\ IsFiniteSet(PageSizes)
    /\ \A l \in Listings : l \in Seq([sensor : SensorIds, rank : Ranks, open : BOOLEAN])
    /\ NoRows \notin Seq([id : Nat, rank : Ranks, of : ListKeys])
    /\ {MaxListed, MaxListEvents, MaxPageActs} \subseteq Nat

VARIABLES
    listed,       \* the rows: id -> sensor, rank, open
    rolled,       \* sensors with devices or rolled-up days, but maybe no findings
    lists,        \* the cache: key -> rows, error, and whether they are being fetched
    tiles,        \* the cached summaries: key -> whose findings were counted
    sensors,      \* the cached list of sensors
    selected,       \* the sensor that was selected
    openOnly,
    lastKey,      \* of the rows that stay while others load
    pager,        \* pageIndex, pageSize, and whether the search box holds a text
    listEvents, pageActs

listVars == <<listed, rolled, lists, tiles, sensors, selected, openOnly, lastKey, pager, listEvents, pageActs>>
serverVars == <<listed, rolled, listEvents>>

-----------------------------------------------------------------------------
(* The queries. *)

\* listAlerts: most urgent first, then most recent; at most limit of them.  The n-th is the
\* one that n - 1 come before.
ListedMatches(key) == {i \in DOMAIN listed : /\ key.sensor \in {EverySensor, listed[i].sensor}
                                             /\ key.openOnly => listed[i].open}
ListedBefore(key, i) == {j \in ListedMatches(key) : \/ listed[j].rank < listed[i].rank
                                                    \/ (listed[j].rank = listed[i].rank /\ j > i)}
Listing(key) ==
    [n \in 1..Min({ListLimit, Cardinality(ListedMatches(key))}) |->
        CHOOSE i \in ListedMatches(key) : Cardinality(ListedBefore(key, i)) = n - 1]
ListedRow(i, key) == [id |-> i, rank |-> listed[i].rank, of |-> key]
RowsFor(key) == [n \in DOMAIN Listing(key) |-> ListedRow(Listing(key)[n], key)]

\* listSensors: of the three tables, and this one whether it has rows or not.
SensorsNow == {Self} \cup rolled \cup {listed[i].sensor : i \in DOMAIN listed}

-----------------------------------------------------------------------------
(* The page's state. *)

\* appliedSensor: the selection, but only while it names a sensor that exists.
Applied(all, choice) == IF choice \in all THEN choice ELSE EverySensor
MultiSensor(all) == Cardinality(all) > 1
KeyOf(all, choice, open) == [sensor |-> Applied(all, choice), openOnly |-> open]
Key == KeyOf(sensors, selected, openOnly)

\* queryKeys.alertSummary: ALL_SENSORS stands for every sensor.
SummaryKey(sensor) == IF sensor = EverySensor THEN "*" ELSE sensor

Cached(rows, error, asked) == [rows |-> rows, error |-> error, asked |-> asked]

\* placeholderData: rows of the last filter that had any stay until the query ends.
IsPlaceholder(key) == lists[key].rows = NoRows /\ ~lists[key].error
Held(key) == IF lists[key].rows = NoRows THEN <<>> ELSE lists[key].rows
ShownRows == IF IsPlaceholder(Key) THEN Held(lastKey) ELSE Held(Key)
IsLoading == IsPlaceholder(Key) /\ lists[lastKey].rows = NoRows
\* The pager's: the rows that the search box leaves, and their number.
Filtered == {n \in DOMAIN ShownRows : pager.search => ShownRows[n].rank = 0}
RowCount == Cardinality(Filtered)

FetchAsked(key) == [lists EXCEPT ![key] = Cached(lists[key].rows, lists[key].error, TRUE)]
\* Another filter: fetched, unless what is cached for it is not stale yet.
Switch(key) ==
    /\ \/ lists' = FetchAsked(key)
       \/ lists[key].rows # NoRows /\ lists' = lists
    /\ lastKey' = IF lists[Key].rows # NoRows THEN Key ELSE lastKey

FindingsInit ==
    /\ listed \in Listings /\ rolled \in SUBSET (SensorIds \ {Self})
    /\ sensors = SensorsNow
    /\ selected = EverySensor /\ openOnly = TRUE /\ lastKey = Key
    /\ lists = [k \in ListKeys |-> Cached(NoRows, FALSE, k = Key)]
    /\ tiles = [k \in SensorIds \cup {SummaryKey(EverySensor)} |-> NoRows]
    /\ pager = [index |-> 0, size |-> Max(PageSizes), search |-> FALSE]
    /\ listEvents = 0 /\ pageActs = 0

-----------------------------------------------------------------------------
(* What happens to the rows meanwhile. *)

ServerStep == listEvents < MaxListEvents /\ listEvents' = listEvents + 1
PageUnchanged == UNCHANGED <<lists, tiles, sensors, selected, openOnly, lastKey, pager, pageActs>>

FindingStored(sensor, rank) ==
    /\ ServerStep /\ Cardinality(DOMAIN listed) < MaxListed
    /\ LET id == 1 + Max({0} \cup DOMAIN listed) IN
       listed' = [i \in DOMAIN listed \cup {id} |->
                    IF i = id THEN [sensor |-> sensor, rank |-> rank, open |-> TRUE] ELSE listed[i]]
    /\ UNCHANGED rolled /\ PageUnchanged
FindingAcknowledged(i) ==
    /\ ServerStep /\ listed[i].open /\ listed' = [listed EXCEPT ![i].open = FALSE]
    /\ UNCHANGED rolled /\ PageUnchanged
\* Retention rolls a day up, and the sensor stays in the list.
FindingRolledUp(i) ==
    /\ ServerStep /\ listed' = [j \in DOMAIN listed \ {i} |-> listed[j]]
    /\ rolled' = rolled \cup {listed[i].sensor} /\ PageUnchanged
\* A decommissioned sensor leaves nothing.
SensorRetired(s) ==
    /\ ServerStep /\ s # Self /\ s \in SensorsNow
    /\ listed' = [j \in {i \in DOMAIN listed : listed[i].sensor # s} |-> listed[j]]
    /\ rolled' = rolled \ {s} /\ PageUnchanged

-----------------------------------------------------------------------------
(* The page. *)

Act == pageActs < MaxPageActs /\ pageActs' = pageActs + 1

\* The control is there once a second sensor has written something.
SelectSensor(s) ==
    /\ Act /\ MultiSensor(sensors) /\ s \in sensors \cup {EverySensor} /\ s # Applied(sensors, selected)
    /\ selected' = s /\ Switch(KeyOf(sensors, s, openOnly))
    /\ UNCHANGED <<serverVars, tiles, sensors, openOnly, pager>>
SetOpenOnly ==
    /\ Act /\ openOnly' = ~openOnly /\ Switch(KeyOf(sensors, selected, ~openOnly))
    /\ UNCHANGED <<serverVars, tiles, sensors, selected, pager>>

\* load(), another tab, or what a change invalidates.
RefetchList ==
    /\ Act /\ ~lists[Key].asked /\ lists' = FetchAsked(Key)
    /\ UNCHANGED <<serverVars, tiles, sensors, selected, openOnly, lastKey, pager>>

\* useSensors: the list changes under the selection, and the filter with it.
SensorsArrive ==
    /\ sensors # SensorsNow /\ sensors' = SensorsNow
    /\ IF KeyOf(SensorsNow, selected, openOnly) = Key THEN UNCHANGED <<lists, lastKey>>
       ELSE Switch(KeyOf(SensorsNow, selected, openOnly))
    /\ UNCHANGED <<serverVars, tiles, selected, openOnly, pager, pageActs>>

\* useAlertSummary, of the sensor that is applied; its counts are not needed.
TilesArrive ==
    /\ LET s == Applied(sensors, selected) IN
       tiles[SummaryKey(s)] # s /\ tiles' = [tiles EXCEPT ![SummaryKey(s)] = s]
    /\ UNCHANGED <<serverVars, lists, sensors, selected, openOnly, lastKey, pager, pageActs>>

\* An answer that is late is one that was read early.
FindingsArrive(key) ==
    /\ lists[key].asked /\ lists' = [lists EXCEPT ![key] = Cached(RowsFor(key), FALSE, FALSE)]
    /\ UNCHANGED <<serverVars, tiles, sensors, selected, openOnly, lastKey, pager, pageActs>>
\* After the last retry: the rows that are there stay.
FindingsFail(key) ==
    /\ Act /\ lists[key].asked
    /\ lists' = [lists EXCEPT ![key] = Cached(lists[key].rows, TRUE, FALSE)]
    /\ UNCHANGED <<serverVars, tiles, sensors, selected, openOnly, lastKey, pager>>

-----------------------------------------------------------------------------
(* GridPagination *)

CeilingOf(n, size) == (n + size - 1) \div size
\* pageFactsOf: 1-indexed and clamped.
PageCount(total) == Max({1, CeilingOf(total, pager.size)})
PageOf(total) == Min({Max({pager.index + 1, 1}), PageCount(total)})
\* describePageRange
FirstShown(total) == IF total = 0 THEN 0 ELSE (PageOf(total) - 1) * pager.size + 1
LastShown(total) == Min({PageOf(total) * pager.size, total})
\* The rows of the table: as its own index has it.
Body == {n \in 1..RowCount : pager.index * pager.size < n /\ n <= (pager.index + 1) * pager.size}

SetPageSize(size) ==
    /\ Act /\ size # pager.size /\ pager' = [pager EXCEPT !.size = size, !.index = 0]
    /\ UNCHANGED <<serverVars, lists, tiles, sensors, selected, openOnly, lastKey>>
GoToPage(page) ==
    /\ Act /\ page \in 1..PageCount(RowCount) /\ page # PageOf(RowCount)
    /\ pager' = [pager EXCEPT !.index = page - 1]
    /\ UNCHANGED <<serverVars, lists, tiles, sensors, selected, openOnly, lastKey>>
Search ==
    /\ Act /\ pager' = [pager EXCEPT !.search = ~@]
    /\ UNCHANGED <<serverVars, lists, tiles, sensors, selected, openOnly, lastKey>>
\* The table notices that its page is past the end, and goes to the last one.
OutOfBounds == pager.index > 0 /\ pager.index * pager.size >= RowCount
GridResets ==
    /\ OutOfBounds /\ pager' = [pager EXCEPT !.index = PageCount(RowCount) - 1]
    /\ UNCHANGED <<serverVars, lists, tiles, sensors, selected, openOnly, lastKey, pageActs>>

FindingsNext ==
    \/ \E s \in SensorIds, r \in Ranks : FindingStored(s, r)
    \/ \E i \in DOMAIN listed : FindingAcknowledged(i) \/ FindingRolledUp(i)
    \/ \E s \in SensorIds : SensorRetired(s)
    \/ \E s \in SensorIds \cup {EverySensor} : SelectSensor(s)
    \/ SetOpenOnly \/ RefetchList \/ SensorsArrive \/ TilesArrive
    \/ \E k \in ListKeys : FindingsArrive(k) \/ FindingsFail(k)
    \/ \E size \in PageSizes : SetPageSize(size)
    \/ \E page \in 1..(MaxListed + 1) : GoToPage(page)
    \/ Search \/ GridResets

FindingsSpec == FindingsInit /\ [][FindingsNext]_listVars

-----------------------------------------------------------------------------
(* Properties *)

\* The variables keep their types.
FindingsTypeOK ==
    /\ \A i \in DOMAIN listed : listed[i] \in [sensor : SensorIds, rank : Ranks, open : BOOLEAN]
    /\ rolled \subseteq SensorIds /\ sensors \subseteq SensorIds
    /\ \A k \in ListKeys : {lists[k].asked, lists[k].error} \subseteq BOOLEAN
    /\ selected \in SensorIds \cup {EverySensor} /\ openOnly \in BOOLEAN /\ lastKey \in ListKeys
    /\ pager.index \in 0..MaxListed /\ pager.size \in PageSizes /\ pager.search \in BOOLEAN
    /\ listEvents \in 0..MaxListEvents /\ pageActs \in 0..MaxPageActs

\* What is cut off is never more urgent than what is listed, and of the same urgency never
\* more recent.
NothingUrgentIsCut ==
    \A k \in ListKeys : LET got == ToSet(Listing(k)) IN
        \A i \in DOMAIN listed \ got :
            \/ k.sensor \notin {EverySensor, listed[i].sensor} \/ (k.openOnly /\ ~listed[i].open)
            \/ /\ Cardinality(got) = ListLimit
               /\ \A j \in got : listed[j].rank < listed[i].rank \/ (listed[j].rank = listed[i].rank /\ j > i)

\* Whatever was fetched, cached, retired or failed in which order: once its queries have
\* ended, the page shows the rows of the filter its controls show, an empty table without
\* an error only if the filter matched nothing; the tiles count the same sensor's
\* findings; and where there is no control, there is no sensor that the filter hides.
FilterIsHonest ==
    /\ ~lists[Key].asked => \A n \in DOMAIN ShownRows : ShownRows[n].of = Key
    /\ ~lists[Key].asked /\ ~lists[Key].error => lists[Key].rows # NoRows
    /\ LET s == Applied(sensors, selected) IN tiles[SummaryKey(s)] \in {NoRows, s}
    /\ Applied(sensors, selected) # EverySensor =>
        Applied(sensors, selected) \in sensors /\ (~MultiSensor(sensors) => sensors = {Applied(sensors, selected)})

\* The pager never shows an inverted range, and once the table has noticed that its page is
\* gone, the range is that of the rows above it.
PagerIsHonest ==
    /\ FirstShown(RowCount) <= LastShown(RowCount) /\ (RowCount > 0 => FirstShown(RowCount) > 0)
    /\ ~OutOfBounds => Body = {n \in 1..RowCount : FirstShown(RowCount) <= n /\ n <= LastShown(RowCount)}

ListExact == NothingUrgentIsCut /\ FilterIsHonest /\ PagerIsHonest

\* What the inductive proof adds: whatever the cache holds for a filter are rows of it, of the
\* one that is applied something is held, asked for or known to have failed, and the tiles of
\* a sensor count its own.
ListedOK ==
    /\ DOMAIN listed \subseteq Nat /\ IsFiniteSet(DOMAIN listed)
    /\ \A i \in DOMAIN listed : listed[i] \in [sensor : SensorIds, rank : Ranks, open : BOOLEAN]
    /\ rolled \subseteq SensorIds
ListCacheOK ==
    /\ DOMAIN lists = ListKeys /\ \A k \in ListKeys :
        /\ lists[k].rows \in {NoRows} \cup Seq([id : Nat, rank : Ranks, of : {k}])
        /\ lists[k] = Cached(lists[k].rows, lists[k].error, lists[k].asked)
    /\ lastKey \in ListKeys /\ (lists[Key].asked \/ lists[Key].error \/ lists[Key].rows # NoRows)
TilesOK ==
    /\ DOMAIN tiles = SensorIds \cup {SummaryKey(EverySensor)}
    /\ \A s \in SensorIds \cup {EverySensor} : tiles[SummaryKey(s)] \in {NoRows, s}
ListInv ==
    /\ ListedOK /\ ListCacheOK /\ TilesOK
    /\ sensors \subseteq SensorIds /\ selected \in SensorIds \cup {EverySensor} /\ openOnly \in BOOLEAN
    /\ pager \in [index : Nat, size : PageSizes, search : BOOLEAN]
==============================================================================
