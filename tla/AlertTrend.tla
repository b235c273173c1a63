------------------------------ MODULE AlertTrend ------------------------------
(***************************************************************************)
(* The dashboard's trend: the findings that are stored and the counts that *)
(* retention left of older ones, read by queries of one request that share *)
(* no transaction and merged into one series (services/alert.service.ts,   *)
(* services/alert-buckets.ts).                                             *)
(*                                                                         *)
(* Instants are numbers; a bucket is named by the instant it starts at.    *)
(* The month has the rules of the week and is left out, as are severities  *)
(* and the filter by sensor, which both queries apply alike.               *)
(***************************************************************************)
EXTENDS Integers, FiniteSets, FiniteSetsExt

CONSTANTS
    Width,         \* the length of an hour, a day and a week
    Windows,       \* how far back a request may ask
    KeptFor,       \* ALERT_RETENTION_DAYS
    LastInstant, MaxStored     \* bounds: the clock, findings in one behaviour

ASSUME TrendAssumption ==
    /\ DOMAIN Width = {"hour", "day", "week"} /\ \A u \in DOMAIN Width : Width[u] \in Nat \ {0}
    /\ Width["day"] % Width["hour"] = 0 /\ Width["week"] % Width["day"] = 0
    /\ Windows \subseteq Nat \ {0} /\ {KeptFor, LastInstant, MaxStored} \subseteq Nat

Instants == 0..LastInstant
Units == DOMAIN Width

\* TREND_BUCKETS; the start of the bucket an instant falls in, in the database and here.
StartOfBucket(unit, t) == (t \div Width[unit]) * Width[unit]
DayOf(t) == StartOfBucket("day", t)
Days == {DayOf(t) : t \in Instants}
NoDay == -1

VARIABLES trendClock,
          kept,     \* rows of alerts, by their last_seen
          rollup,     \* rows of alert_rollup_daily
          trendRequest,    \* the request in progress, and its answer
          \* history
          expired,    \* what was rolled up, by its last_seen
          sweptSince, writtenSince     \* since the request's first query

trendVars == <<trendClock, kept, rollup, trendRequest, expired, sweptSince, writtenSince>>

NoneOf == [t \in Instants |-> 0]
CountOver(counts, S) == FoldSet(LAMBDA t, n : counts[t] + n, 0, S)

NoTrendRequest == [stage |-> "none", unit |-> "day", since |-> 0, toRead |-> {},
              rows |-> NoneOf, days |-> [d \in Days |-> 0]]

TrendInit ==
    /\ trendClock = 0 /\ kept = NoneOf /\ rollup = [d \in Days |-> 0] /\ trendRequest = NoTrendRequest
    /\ expired = NoneOf /\ sweptSince = NoneOf /\ writtenSince = NoneOf

-----------------------------------------------------------------------------
(* dashboardData *)

\* An hour cannot be made of days.
FoldsRollup(unit) == unit # "hour"

\* firstWholeUtcDay
FirstWholeDay(since) == IF DayOf(since) = since THEN since ELSE DayOf(since) + Width["day"]

\* A request for a window, in the unit the server chooses or the caller names.
Ask(window, unit) ==
    /\ trendRequest.stage # "asking" /\ window <= trendClock
    /\ trendRequest' = [stage |-> "asking", unit |-> unit, since |-> trendClock - window,
                   toRead |-> IF FoldsRollup(unit) THEN {"rows", "days"} ELSE {"rows"},
                   rows |-> NoneOf, days |-> [d \in Days |-> 0]]
    /\ sweptSince' = NoneOf /\ writtenSince' = NoneOf
    /\ UNCHANGED <<trendClock, kept, rollup, expired>>

\* The queries run on connections of their own, each on what is committed by then.
QueryAnswered(query, result) ==
    [trendRequest EXCEPT !.toRead = @ \ {query}, ![query] = result,
                    !.stage = IF trendRequest.toRead = {query} THEN "answered" ELSE "asking"]
FirstQuery == FoldsRollup(trendRequest.unit) => trendRequest.toRead = {"rows", "days"}
Observing == IF FirstQuery THEN sweptSince' = NoneOf /\ writtenSince' = NoneOf
             ELSE UNCHANGED <<sweptSince, writtenSince>>

\* A mutant: of every row, and not only of those in the window.
MutantReadRows ==
    /\ trendRequest.stage = "asking" /\ "rows" \in trendRequest.toRead
    /\ trendRequest' = QueryAnswered("rows", kept)
    /\ Observing /\ UNCHANGED <<trendClock, kept, rollup, expired>>

ReadRows ==
    /\ trendRequest.stage = "asking" /\ "rows" \in trendRequest.toRead
    /\ trendRequest' = QueryAnswered("rows", [t \in Instants |-> IF t >= trendRequest.since THEN kept[t] ELSE 0])
    /\ Observing /\ UNCHANGED <<trendClock, kept, rollup, expired>>

ReadDays ==
    /\ trendRequest.stage = "asking" /\ "days" \in trendRequest.toRead
    /\ trendRequest' = QueryAnswered("days", [d \in Days |-> IF d >= FirstWholeDay(trendRequest.since) THEN rollup[d] ELSE 0])
    /\ Observing /\ UNCHANGED <<trendClock, kept, rollup, expired>>

\* A leading bucket that may miss days of its own is not shown: of those wider than a day.
IsShown(bucket) == trendRequest.unit = "week" => bucket >= trendRequest.since

InBucket(S, bucket) == {t \in S : StartOfBucket(trendRequest.unit, t) = bucket}
Bar(bucket) ==
    IF IsShown(bucket) THEN CountOver(trendRequest.rows, InBucket(Instants, bucket)) + CountOver(trendRequest.days, InBucket(Days, bucket))
    ELSE 0

\* The end of the newest day that was folded in.
RolledUpBefore ==
    LET folded == {d \in Days : trendRequest.days[d] > 0} IN
    IF folded = {} THEN NoDay ELSE Max(folded) + Width["day"]

-----------------------------------------------------------------------------
(* What else changes the two tables. *)

\* The sink writes a finding of now, or a late one.
StoreFinding(t) ==
    /\ t <= trendClock /\ CountOver(kept, Instants) + CountOver(expired, Instants) < MaxStored
    /\ kept' = [kept EXCEPT ![t] = @ + 1] /\ writtenSince' = [writtenSince EXCEPT ![t] = @ + 1]
    /\ UNCHANGED <<trendClock, rollup, trendRequest, expired, sweptSince>>

\* Retention moves what is expired of a day, in one transaction.
RollUp(day) ==
    LET gone == {t \in Instants : DayOf(t) = day /\ t < trendClock - KeptFor} IN
    /\ CountOver(kept, gone) > 0
    /\ rollup' = [rollup EXCEPT ![day] = @ + CountOver(kept, gone)]
    /\ kept' = [t \in Instants |-> IF t \in gone THEN 0 ELSE kept[t]]
    /\ expired' = [t \in Instants |-> IF t \in gone THEN expired[t] + kept[t] ELSE expired[t]]
    /\ sweptSince' = [t \in Instants |-> IF t \in gone THEN sweptSince[t] + kept[t] ELSE sweptSince[t]]
    /\ UNCHANGED <<trendClock, trendRequest, writtenSince>>

TrendTick ==
    /\ trendClock < LastInstant /\ trendClock' = trendClock + 1
    /\ UNCHANGED <<kept, rollup, trendRequest, expired, sweptSince, writtenSince>>

TrendNext ==
    \/ \E window \in Windows, unit \in Units : Ask(window, unit)
    \/ ReadRows \/ ReadDays \/ TrendTick
    \/ \E t \in Instants : StoreFinding(t)
    \/ \E day \in Days : RollUp(day)

TrendSpec == TrendInit /\ [][TrendNext]_trendVars

-----------------------------------------------------------------------------
\* The variables keep their types.
TrendTypeOK ==
    /\ trendClock \in Instants /\ rollup \in [Days -> 0..MaxStored]
    /\ {kept, expired, sweptSince, writtenSince} \subseteq [Instants -> 0..MaxStored]
    /\ trendRequest.stage \in {"none", "asking", "answered"} /\ trendRequest.toRead \subseteq {"rows", "days"}

\* What a bar has to count: all that is or was stored, and for hours what still is.
Countable == [t \in Instants |-> kept[t] + IF FoldsRollup(trendRequest.unit) THEN expired[t] ELSE 0]
Within(bucket) == {t \in InBucket(Instants, bucket) : t >= trendRequest.since}

\* The trend, at the instant its last query has been answered: no bar counts anything
\* from before the window; a bar whose bucket lies in the window counts every finding of
\* it, once; both but for what was written, and what retention moved, between the two
\* queries, so that a finding swept between them may be counted twice or not at all.
\* Nothing that was folded in is as late as the marker.
TrendShown ==
    trendRequest.stage = "asking" /\ trendRequest'.stage = "answered" =>
        /\ \A bucket \in {StartOfBucket(trendRequest.unit, t) : t \in Instants} :
            LET all == CountOver(Countable, Within(bucket))
                swept == CountOver(sweptSince', Within(bucket)) IN
            /\ Bar(bucket)' <= all + swept
            /\ bucket >= trendRequest.since => Bar(bucket)' >= all - swept - CountOver(writtenSince', Within(bucket))
        /\ sweptSince' = NoneOf /\ FoldsRollup(trendRequest.unit) =>
            \A t \in Instants : t >= FirstWholeDay(trendRequest.since) /\ expired[t] > 0 => t < RolledUpBefore'
TrendExact == [][TrendShown]_trendVars

-----------------------------------------------------------------------------
(* The invariant that the proofs rest on *)

OfDay(d) == {t \in Instants : DayOf(t) = d}
TrendRequests == [stage : {"none", "asking", "answered"}, unit : Units, since : Instants,
                  toRead : SUBSET {"rows", "days"}, rows : [Instants -> Nat], days : [Days -> Nat]]

\* No finding is lost: what was rolled up is what expired, and what is kept, swept and
\* written adds up.
CountsHold ==
    /\ \A d \in Days : rollup[d] = CountOver(expired, OfDay(d))
    /\ CountOver(kept, Instants) + CountOver(expired, Instants) <= MaxStored
    /\ \A t \in Instants : sweptSince[t] <= expired[t] /\ writtenSince[t] <= kept[t] + expired[t]

\* Of a request between its two queries: what the first one answered is what is there
\* now, but for what was swept and written since.
RowsHold(request) ==
    \A t \in Instants :
        IF t >= request.since THEN request.rows[t] + writtenSince[t] = kept[t] + sweptSince[t]
        ELSE request.rows[t] = 0
DaysHold(request) ==
    \A d \in Days :
        IF d >= FirstWholeDay(request.since) THEN request.days[d] + CountOver(sweptSince, OfDay(d)) = rollup[d]
        ELSE request.days[d] = 0
RequestHolds(request) ==
    request.stage = "asking" =>
        /\ request.toRead # {} /\ (request.unit = "hour" => request.toRead = {"rows"})
        /\ request.unit = "hour" => \A d \in Days : request.days[d] = 0
        /\ request.toRead = {"days"} => RowsHold(request)
        /\ request.toRead = {"rows"} /\ request.unit # "hour" => DaysHold(request)

TrendInv ==
    /\ trendClock \in Instants /\ rollup \in [Days -> Nat] /\ trendRequest \in TrendRequests
    /\ kept \in [Instants -> Nat] /\ expired \in [Instants -> Nat]
    /\ sweptSince \in [Instants -> Nat] /\ writtenSince \in [Instants -> Nat]
    /\ CountsHold /\ RequestHolds(trendRequest)
==============================================================================
