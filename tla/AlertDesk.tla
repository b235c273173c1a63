------------------------------ MODULE AlertDesk -------------------------------
(***************************************************************************)
(* Findings acknowledged, reopened and deleted by several people, each at  *)
(* a page of cached rows, and the audit entries that are written with it   *)
(* (services/alert.service.ts, hooks/useAlerts.ts, pages/AlertsPage.tsx).  *)
(*                                                                         *)
(* A row holds the number of its acknowledgement, which stands for who     *)
(* made it and when.  A row that recurs keeps it: the sink's upsert does   *)
(* not touch it.  The ids of deleted rows are not used again.  A page      *)
(* waits for the answer to one press before the next.                      *)
(***************************************************************************)
EXTENDS Integers, FiniteSets

CONSTANTS
    Alerts,            \* ids
    Analysts,          \* people, each with a page
    MaxDeskPresses, MaxDeskEvents     \* bounds: of presses; of refetches unasked for, faults,
                                      \* findings stored and findings that expire

ASSUME DeskAssumption ==
    {MaxDeskPresses, MaxDeskEvents} \subseteq Nat /\ IsFiniteSet(Alerts) /\ IsFiniteSet(Analysts)

Missing == -2
Open == -1
Acks == 0..MaxDeskPresses     \* 0: made earlier
RowStates == {Missing, Open} \cup Acks

VARIABLES alertRow,    \* the committed rows: missing, open, or acknowledged
          deskTrail,       \* audit entries of reopened and deleted findings
          cleared,     \* what the entries of bulk clears add up to
          desk,        \* each page: its rows, its press and its fetch
          \* history
          reopened,    \* who really removed which acknowledgement
          removed,     \* finding -> how it went, of those that are gone
          nextAck, deskEvents

deskVars == <<alertRow, deskTrail, cleared, desk, reopened, removed, nextAck, deskEvents>>

NoDeskPress == [op |-> "none", on |-> {}, stage |-> "none", was |-> Missing, took |-> {}]

\* What a page needs of the rows: whether they are there and acknowledged.
Shown == [f \in Alerts |-> IF alertRow[f] \in Acks THEN 0 ELSE alertRow[f]]

\* rows: what the page shows; fetch: none, asked, or the rows on their way; fresh: whether
\* what is shown, or on its way, was read after the page's last change was committed.
DeskInit ==
    /\ alertRow \in [Alerts -> {Missing, Open, 0}]
    /\ deskTrail = {} /\ cleared = 0
    /\ desk = [a \in Analysts |-> [rows |-> Shown, shownFresh |-> TRUE, press |-> NoDeskPress,
                                   fetch |-> "none", answer |-> Shown, answerFresh |-> TRUE, complains |-> FALSE]]
    /\ reopened = {} /\ removed = [f \in {} |-> ""] /\ nextAck = 0 /\ deskEvents = 0

-----------------------------------------------------------------------------
(* The page. *)

Sent(a, op, on) ==
    desk' = [desk EXCEPT ![a].press = [op |-> op, on |-> on, stage |-> "sent", was |-> Missing, took |-> {}]]

\* useAcknowledgeAlert: the cached row decides whether the press acknowledges or reopens.
PressToggle(a, f) ==
    /\ desk[a].press.stage = "none" /\ desk[a].rows[f] # Missing /\ nextAck < MaxDeskPresses
    /\ nextAck' = nextAck + 1
    /\ Sent(a, IF desk[a].rows[f] = Open THEN "acknowledge" ELSE "reopen", {f})
    /\ UNCHANGED <<alertRow, deskTrail, cleared, reopened, removed, deskEvents>>

\* useDeleteAlert; and a clear, which no page offers, by whoever may.
PressRemove(a, op, on) ==
    /\ desk[a].press.stage = "none" /\ nextAck < MaxDeskPresses
    /\ IF op = "delete" THEN \E f \in Alerts : on = {f} /\ desk[a].rows[f] # Missing ELSE on = Alerts
    /\ nextAck' = nextAck + 1 /\ Sent(a, op, on)
    /\ UNCHANGED <<alertRow, deskTrail, cleared, reopened, removed, deskEvents>>

\* Another tab was in front, or the refresh button: one fetch at a time.
PageRefetch(a) ==
    /\ desk[a].fetch = "none" /\ deskEvents < MaxDeskEvents /\ deskEvents' = deskEvents + 1
    /\ desk' = [desk EXCEPT ![a].fetch = "asked"]
    /\ UNCHANGED <<alertRow, deskTrail, cleared, reopened, removed, nextAck>>

\* invalidateQueries starts anew a fetch that is under way.
Invalidated(page) == [page EXCEPT !.fetch = "asked"]

\* The answer of a press: success invalidates everything under `alerts', after a failure the rows stay.
PressEnds(a) ==
    /\ desk[a].press.stage \in {"ok", "failed"}
    /\ LET page == [desk[a] EXCEPT !.press = NoDeskPress] IN
       desk' = [desk EXCEPT ![a] = IF desk[a].press.stage = "ok" THEN Invalidated(page)
                                   ELSE page]
    /\ UNCHANGED <<alertRow, deskTrail, cleared, reopened, removed, nextAck, deskEvents>>

ListServed(a) ==
    /\ desk[a].fetch = "asked"
    /\ desk' = [desk EXCEPT ![a].fetch = "answered", ![a].answer = Shown, ![a].answerFresh = TRUE]
    /\ UNCHANGED <<alertRow, deskTrail, cleared, reopened, removed, nextAck, deskEvents>>

ListArrives(a) ==
    /\ desk[a].fetch = "answered"
    /\ desk' = [desk EXCEPT ![a].fetch = "none", ![a].rows = desk[a].answer,
                            ![a].shownFresh = desk[a].answerFresh, ![a].complains = FALSE]
    /\ UNCHANGED <<alertRow, deskTrail, cleared, reopened, removed, nextAck, deskEvents>>

\* A fetch, or the answer to a press, is lost; the page is not told of such a press, nothing
\* refetches for it, and no freshness is claimed.
AnswerLost(a) ==
    /\ deskEvents < MaxDeskEvents /\ deskEvents' = deskEvents + 1
    /\ \/ desk[a].fetch # "none" /\ desk' = [desk EXCEPT ![a].fetch = "none", ![a].complains = TRUE]
       \/ /\ desk[a].press.stage = "ok"
          /\ desk' = [desk EXCEPT ![a].press.stage = "failed", ![a].shownFresh = TRUE,
                                  ![a].answerFresh = TRUE]
    /\ UNCHANGED <<alertRow, deskTrail, cleared, reopened, removed, nextAck>>

-----------------------------------------------------------------------------
(* The service. *)

\* A mutant: the row is read without FOR UPDATE, and nothing is held.
MutantLocked(a) == {}
\* The rows that the transaction of a request holds.
Locked(a) == IF desk[a].press.stage = "running" THEN desk[a].press.took ELSE {}
IsFree(f, a) == \A b \in Analysts \ {a} : f \notin Locked(b)

Serving(a, op) == desk[a].press.stage = "sent" /\ desk[a].press.op = op
Subject(a) == CHOOSE f \in Alerts : f \in desk[a].press.on

\* A change of the database by a request: what pages hold from before is no longer fresh
\* for the page that made it.
Committed(a, outcome) ==
    desk' = [desk EXCEPT ![a].press.stage = outcome,
                         ![a].shownFresh = IF outcome = "ok" THEN FALSE ELSE @,
                         ![a].answerFresh = IF outcome = "ok" THEN FALSE ELSE @]

\* acknowledgeAlert: one statement, and the last one counts.
Acknowledge(a) ==
    /\ Serving(a, "acknowledge") /\ IsFree(Subject(a), a)
    /\ LET f == Subject(a) IN
       IF alertRow[f] = Missing THEN Committed(a, "failed") /\ UNCHANGED alertRow
       ELSE Committed(a, "ok") /\ alertRow' = [alertRow EXCEPT ![f] = nextAck]
    /\ UNCHANGED <<deskTrail, cleared, reopened, removed, nextAck, deskEvents>>

\* unacknowledgeAlert: SELECT ... FOR UPDATE.
ReopenReads(a) ==
    /\ Serving(a, "reopen") /\ IsFree(Subject(a), a)
    /\ LET f == Subject(a) IN
       IF alertRow[f] = Missing THEN Committed(a, "failed")
       ELSE desk' = [desk EXCEPT ![a].press = [@ EXCEPT !.stage = "running", !.was = alertRow[f], !.took = {f}]]
    /\ UNCHANGED <<alertRow, deskTrail, cleared, reopened, removed, nextAck, deskEvents>>

\* The UPDATE, the entry when something was cleared, and the COMMIT.
ReopenCommits(a) ==
    /\ desk[a].press.stage = "running" /\ desk[a].press.op = "reopen"
    /\ alertRow[Subject(a)] # Missing /\ IsFree(Subject(a), a)
    /\ LET f == Subject(a) IN
       /\ alertRow' = [alertRow EXCEPT ![f] = Open]
       /\ reopened' = IF alertRow[f] = Open THEN reopened ELSE reopened \cup {<<a, f, alertRow[f]>>}
       /\ deskTrail' = IF desk[a].press.was = Open THEN deskTrail
                       ELSE deskTrail \cup {[actor |-> a, action |-> "unacknowledge", alert |-> f,
                                             was |-> desk[a].press.was]}
    /\ Committed(a, "ok") /\ UNCHANGED <<cleared, removed, nextAck, deskEvents>>

\* deleteAlert and deleteAllAlerts: the DELETE takes what is there and free to take.
RemoveRuns(a) ==
    /\ \E op \in {"delete", "clear"} : Serving(a, op)
    /\ LET there == {f \in desk[a].press.on : alertRow[f] # Missing} IN
       /\ \A f \in there : IsFree(f, a)
       /\ IF there = {} THEN Committed(a, IF desk[a].press.op = "delete" THEN "failed" ELSE "ok")
          ELSE desk' = [desk EXCEPT ![a].press = [@ EXCEPT !.stage = "running", !.took = there]]
    /\ UNCHANGED <<alertRow, deskTrail, cleared, reopened, removed, nextAck, deskEvents>>

\* The entry, from what the DELETE returned, and the COMMIT.
RemoveCommits(a) ==
    /\ desk[a].press.stage = "running" /\ desk[a].press.op \in {"delete", "clear"}
    /\ LET took == desk[a].press.took IN
       /\ alertRow' = [f \in Alerts |-> IF f \in took THEN Missing ELSE alertRow[f]]
       /\ removed' = [f \in DOMAIN removed \cup took |-> IF f \in took THEN desk[a].press.op ELSE removed[f]]
       /\ IF desk[a].press.op = "delete"
          THEN /\ deskTrail' = deskTrail \cup {[actor |-> a, action |-> "delete", alert |-> Subject(a),
                                                 was |-> Missing]}
               /\ UNCHANGED cleared
          ELSE cleared' = cleared + Cardinality(took) /\ UNCHANGED deskTrail
    /\ Committed(a, "ok") /\ UNCHANGED <<reopened, nextAck, deskEvents>>

\* The entry cannot be written, or the connection breaks: all of it is undone.
RolledBack(a) ==
    /\ desk[a].press.stage = "running" /\ deskEvents < MaxDeskEvents /\ deskEvents' = deskEvents + 1
    /\ Committed(a, "failed")
    /\ UNCHANGED <<alertRow, deskTrail, cleared, reopened, removed, nextAck>>

\* The sink writes a finding for the first time; retention removes one.
AlertStored(f) ==
    /\ alertRow[f] = Missing /\ f \notin DOMAIN removed
    /\ deskEvents < MaxDeskEvents /\ deskEvents' = deskEvents + 1
    /\ alertRow' = [alertRow EXCEPT ![f] = Open]
    /\ UNCHANGED <<deskTrail, cleared, desk, reopened, removed, nextAck>>
AlertExpires(f) ==
    /\ alertRow[f] # Missing /\ \A a \in Analysts : f \notin Locked(a)
    /\ deskEvents < MaxDeskEvents /\ deskEvents' = deskEvents + 1
    /\ alertRow' = [alertRow EXCEPT ![f] = Missing]
    /\ removed' = [g \in DOMAIN removed \cup {f} |-> IF g = f THEN "expired" ELSE removed[g]]
    /\ UNCHANGED <<deskTrail, cleared, desk, reopened, nextAck>>

DeskNext ==
    \/ \E a \in Analysts :
        \/ \E f \in Alerts : PressToggle(a, f) \/ PressRemove(a, "delete", {f})
        \/ PressRemove(a, "clear", Alerts)
        \/ PageRefetch(a) \/ PressEnds(a) \/ ListServed(a) \/ ListArrives(a) \/ AnswerLost(a)
        \/ Acknowledge(a) \/ ReopenReads(a) \/ ReopenCommits(a)
        \/ RemoveRuns(a) \/ RemoveCommits(a) \/ RolledBack(a)
    \/ \E f \in Alerts : AlertStored(f) \/ AlertExpires(f)

DeskSpec == DeskInit /\ [][DeskNext]_deskVars

-----------------------------------------------------------------------------
\* The variables keep their types.
DeskTypeOK ==
    /\ alertRow \in [Alerts -> RowStates] /\ cleared \in 0..Cardinality(Alerts)
    /\ deskTrail \subseteq [actor : Analysts, action : {"unacknowledge", "delete"},
                            alert : Alerts, was : RowStates]
    /\ \A a \in Analysts :
        /\ {desk[a].rows, desk[a].answer} \subseteq [Alerts -> {Missing, Open, 0}]
        /\ desk[a].press.op \in {"none", "acknowledge", "reopen", "delete", "clear"}
        /\ desk[a].press.stage \in {"none", "sent", "running", "ok", "failed"}
        /\ desk[a].fetch \in {"none", "asked", "answered"}
        /\ {desk[a].shownFresh, desk[a].answerFresh, desk[a].complains} \subseteq BOOLEAN
    /\ reopened \subseteq Analysts \X Alerts \X Acks
    /\ nextAck \in 0..MaxDeskPresses /\ deskEvents \in 0..MaxDeskEvents

EntriesOf(action) == {e \in deskTrail : e.action = action}
RemovedBy(op) == {f \in DOMAIN removed : removed[f] = op}

\* The trail names every acknowledgement that a reopening removed, who did it, and no other;
\* it names every finding that was deleted, and counts what was cleared, whoever else was at it.
TrailIsExact ==
    /\ {<<e.actor, e.alert, e.was>> : e \in EntriesOf("unacknowledge")} = reopened
    /\ {e.alert : e \in EntriesOf("delete")} = RemovedBy("delete")
    /\ cleared = Cardinality(RemovedBy("clear"))

\* A page on which nothing is under way, and whose last refetch did not fail, shows what it changed.
OwnChangesAreShown ==
    \A a \in Analysts :
        desk[a].press.stage = "none" /\ desk[a].fetch = "none" /\ ~desk[a].complains => desk[a].shownFresh

\* What people do to findings is accounted for and shown to them.
DeskExact == TrailIsExact /\ OwnChangesAreShown
-----------------------------------------------------------------------------
(* What the proofs rest on *)

DeskPress == [op : {"none", "acknowledge", "reopen", "delete", "clear"}, on : SUBSET Alerts,
              stage : {"none", "sent", "running", "ok", "failed"}, was : RowStates, took : SUBSET Alerts]
DeskPage == [rows : [Alerts -> {Missing, Open, 0}], shownFresh : BOOLEAN, press : DeskPress,
             fetch : {"none", "asked", "answered"}, answer : [Alerts -> {Missing, Open, 0}],
             answerFresh : BOOLEAN, complains : BOOLEAN]

\* What a page shows, or has on its way, misses its last change only until it refetches.
PageOK(page) ==
    /\ page.shownFresh \/ page.press.stage = "ok" \/ page.fetch # "none" \/ page.complains
    /\ page.fetch = "answered" => page.answerFresh \/ page.press.stage = "ok"

\* What a transaction has read is there as it was read until it ends.
PressOK(press, row) ==
    /\ press.stage # "none" /\ press.op \in {"acknowledge", "reopen", "delete"} => \E f \in Alerts : press.on = {f}
    /\ press.stage = "running" =>
        /\ press.op \in {"reopen", "delete", "clear"} /\ press.took \subseteq press.on /\ press.took # {}
        /\ \A f \in press.took : row[f] # Missing
        /\ press.op = "reopen" => \A f \in press.took : row[f] = press.was

DeskRows ==
    /\ alertRow \in [Alerts -> RowStates] /\ desk \in [Analysts -> DeskPage] /\ nextAck \in Acks
    /\ \A f \in DOMAIN removed : f \in Alerts /\ alertRow[f] = Missing

PressesOK ==
    /\ \A a \in Analysts : PageOK(desk[a]) /\ PressOK(desk[a].press, alertRow)
    /\ \A a, b \in Analysts : a # b => Locked(a) \cap Locked(b) = {}

DeskInv == DeskRows /\ PressesOK /\ TrailIsExact
==============================================================================
