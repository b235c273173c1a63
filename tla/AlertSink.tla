------------------------------ MODULE AlertSink ------------------------------
(***************************************************************************)
(* From a detector's finding to a row of the alerts table.                 *)
(*                                                                         *)
(* Each capture and each flow collector owns an AlertSink, which merges    *)
(* repeats of a finding in memory and writes them out on a timer.  All     *)
(* sinks of the process share the table and the buffer of suppression      *)
(* counts.  A sink that has been closed is not used again: the next        *)
(* capture makes a new one, so Sinks are all the sinks of one process.     *)
(*                                                                         *)
(* A finding is its dedup key and its timestamp.  Which rule suppresses it *)
(* is left out: a finding is suppressed or it is not, and one rule stands  *)
(* for all, their counters being independent.                              *)
(* The batch of a flush is written in any order: its statements touch      *)
(* different rows.  A statement is executed and answered in one step.      *)
(***************************************************************************)
EXTENDS Naturals, FiniteSets, Functions, FiniteSetsExt

CONSTANTS
    Sinks,          \* the AlertSink objects of the process
    DedupKeys,      \* Finding.dedupKey
    AlertWindow,    \* env.detection.alertWindowMs
    MaxPending,     \* MAX_PENDING
    MaxTime,        \* findings are stamped 0..MaxTime
    MaxFindings,    \* findings in one behaviour
    MaxDbFailures   \* statements answered by an error in one behaviour

ASSUME ConstantsAssumption ==
    /\ IsFiniteSet(Sinks)
    /\ AlertWindow \in Nat \ {0}
    /\ MaxPending \in Nat /\ MaxTime \in Nat
    /\ MaxFindings \in Nat /\ MaxDbFailures \in Nat

VARIABLES
    pending,      \* this.pending of each sink, by windowed key
    timer,        \* this.timer is set
    phase,        \* where the flush of each sink is, "idle" when not this.flushing
    batch,        \* what that flush has taken and not yet written
    closing,      \* where close() of each sink is
    counts,       \* pendingCounts, shared by all sinks
    countBatch,   \* the counts each flush has drained and not yet written
    row,          \* the alerts table, by windowed key
    matchCount,   \* alert_suppressions.match_count
    dbFailures,   \* bound
    \* history, by sink and key
    recorded, stored, notified, dropped, failed,
    suppressed, countsLost

sinkVars == <<pending, timer, phase, batch>>
countVars == <<counts, countBatch, matchCount, suppressed, countsLost>>
history == <<recorded, stored, notified, dropped, failed>>
vars == <<pending, timer, phase, batch, closing, counts, countBatch, row,
          matchCount, dbFailures, recorded, stored, notified, dropped, failed,
          suppressed, countsLost>>

Times == 0..MaxTime
\* windowedKey: a repeat in a later window is a different key.
WindowedKey(dedupKey, time) == <<dedupKey, time \div AlertWindow>>
Keys == {WindowedKey(d, t) : d \in DedupKeys, t \in Times}

\* A buffered or stored alert; `times' is history: the findings it stands for.
Entries == [occurrences : Nat, firstSeen : Times, lastSeen : Times,
            times : SUBSET Times]
NoEntry == [occurrences |-> 0, firstSeen |-> 0, lastSeen |-> 0, times |-> {}]
NoEntries == [k \in Keys |-> NoEntry]

TypeOK ==
    /\ pending \in [Sinks -> [Keys -> Entries]]
    /\ timer \in [Sinks -> BOOLEAN]
    /\ phase \in [Sinks -> {"idle", "alerts", "counts"}]
    /\ batch \in [Sinks -> [Keys -> Entries]]
    /\ closing \in [Sinks -> {"open", "flushing", "notifying", "closed"}]
    /\ counts \in Nat /\ countBatch \in [Sinks -> Nat]
    /\ row \in [Keys -> Entries]
    /\ matchCount \in Nat /\ dbFailures \in Nat
    /\ recorded \in [Sinks -> [Keys -> Nat]] /\ stored \in [Sinks -> [Keys -> Nat]]
    /\ notified \in [Sinks -> [Keys -> Nat]] /\ dropped \in [Sinks -> [Keys -> Nat]]
    /\ failed \in [Sinks -> [Keys -> Nat]]
    /\ suppressed \in Nat /\ countsLost \in Nat

None == [s \in Sinks |-> [k \in Keys |-> 0]]

Init ==
    /\ pending = [s \in Sinks |-> NoEntries] /\ batch = [s \in Sinks |-> NoEntries]
    /\ timer = [s \in Sinks |-> FALSE] /\ phase = [s \in Sinks |-> "idle"]
    /\ closing = [s \in Sinks |-> "open"]
    /\ counts = 0 /\ countBatch = [s \in Sinks |-> 0]
    /\ row = NoEntries /\ matchCount = 0 /\ dbFailures = 0
    /\ recorded = None /\ stored = None /\ notified = None
    /\ dropped = None /\ failed = None
    /\ suppressed = 0 /\ countsLost = 0

-----------------------------------------------------------------------------
(* record *)

Smaller(a, b) == IF a < b THEN a ELSE b
Larger(a, b) == IF a > b THEN a ELSE b

Fresh(time) == [occurrences |-> 1, firstSeen |-> time, lastSeen |-> time, times |-> {time}]

\* A repeat of a buffered finding, which may be older than what is buffered.
MutantRepeat(entry, time) ==
    [occurrences |-> entry.occurrences + 1, firstSeen |-> entry.firstSeen,
     lastSeen |-> time, times |-> entry.times \cup {time}]
Repeat(entry, time) ==
    [occurrences |-> entry.occurrences + 1,
     firstSeen |-> Smaller(time, entry.firstSeen),
     lastSeen |-> Larger(time, entry.lastSeen),
     times |-> entry.times \cup {time}]

Buffered(s) == {k \in Keys : pending[s][k].occurrences > 0}

\* Findings recorded so far, the suppressed ones included.
Findings == SumFunction([s \in Sinks |-> SumFunction(recorded[s])]) + suppressed

Record(s, dedupKey, time) ==
    LET k == WindowedKey(dedupKey, time)
        existing == pending[s][k]
        full == existing.occurrences = 0 /\ Cardinality(Buffered(s)) >= MaxPending
    IN
    /\ closing[s] = "open"
    /\ Findings < MaxFindings
    /\ recorded' = [recorded EXCEPT ![s][k] = @ + 1]
    /\ IF full
         THEN /\ dropped' = [dropped EXCEPT ![s][k] = @ + 1]
              /\ UNCHANGED pending
         ELSE /\ pending' = [pending EXCEPT ![s][k] =
                    IF existing.occurrences = 0 THEN Fresh(time) ELSE Repeat(existing, time)]
              /\ UNCHANGED dropped
    \* scheduleFlush; a full buffer is not empty
    /\ timer' = [timer EXCEPT ![s] = @ \/ ~full \/ Buffered(s) # {} \/ counts > 0]
    /\ UNCHANGED <<phase, batch, closing, row, dbFailures, stored, notified, failed,
                   countVars>>

\* A finding that a rule matches leaves nothing but a count.
SuppressTimer(s) == timer' = [timer EXCEPT ![s] = TRUE]

Suppress(s) ==
    /\ closing[s] = "open"
    /\ Findings < MaxFindings
    /\ suppressed' = suppressed + 1
    /\ counts' = counts + 1
    /\ SuppressTimer(s)
    /\ UNCHANGED <<pending, phase, batch, closing, row, countBatch, matchCount,
                   countsLost, dbFailures, history>>

-----------------------------------------------------------------------------
(* flush *)

\* The buffer is emptied in the stretch of code that copies it.
MutantEmptied(s) == pending
Emptied(s) == [pending EXCEPT ![s] = NoEntries]

\* The two early returns of flush.
NeedsFlush(s) == phase[s] = "idle" /\ (Buffered(s) # {} \/ counts > 0)

BeginFlush(s) ==
    IF NeedsFlush(s)
      THEN /\ phase' = [phase EXCEPT ![s] = "alerts"]
           /\ batch' = [batch EXCEPT ![s] = pending[s]]
           /\ pending' = Emptied(s)
      ELSE UNCHANGED <<phase, batch, pending>>

TimerFires(s) ==
    /\ timer[s]
    /\ timer' = [timer EXCEPT ![s] = FALSE]
    /\ BeginFlush(s)
    /\ UNCHANGED <<closing, row, dbFailures, countVars, history>>

\* The conflict clause of upsertAlert.
Upserted(old, entry) ==
    [occurrences |-> old.occurrences + entry.occurrences,
     firstSeen |-> Smaller(old.firstSeen, entry.firstSeen),
     lastSeen |-> Larger(old.lastSeen, entry.lastSeen),
     times |-> old.times \cup entry.times]

\* upsertAlert, executed.
Store(s, k) ==
    /\ row' = [row EXCEPT ![k] =
          IF @.occurrences = 0 THEN batch[s][k] ELSE Upserted(@, batch[s][k])]
    /\ stored' = [stored EXCEPT ![s][k] = @ + batch[s][k].occurrences]

\* notify: offered only once the row is stored.
MutantOffer(s, k, answered) ==
    notified' = [notified EXCEPT ![s][k] = @ + batch[s][k].occurrences]
Offer(s, k, answered) ==
    notified' = IF answered
                  THEN [notified EXCEPT ![s][k] = @ + batch[s][k].occurrences]
                  ELSE notified

\* One entry of the batch: it is stored and offered to the notifier, or an error
\* comes back, of a statement that was not executed or whose answer was lost.
Upsert(s, k) ==
    /\ phase[s] = "alerts" /\ batch[s][k].occurrences > 0
    /\ batch' = [batch EXCEPT ![s][k] = NoEntry]
    /\ \/ Store(s, k) /\ Offer(s, k, TRUE) /\ UNCHANGED <<failed, dbFailures>>
       \/ /\ dbFailures < MaxDbFailures
          /\ dbFailures' = dbFailures + 1
          /\ Offer(s, k, FALSE)
          /\ \/ /\ failed' = [failed EXCEPT ![s][k] = @ + batch[s][k].occurrences]
                /\ UNCHANGED <<row, stored>>
             \/ Store(s, k) /\ UNCHANGED failed
    /\ UNCHANGED <<pending, timer, phase, closing, countVars, recorded, dropped>>

\* flushSuppressionCounters drains the shared buffer before it awaits.
MutantDrained == counts
Drained == 0

DrainCounts(s) ==
    /\ phase[s] = "alerts" /\ \A k \in Keys : batch[s][k].occurrences = 0
    /\ phase' = [phase EXCEPT ![s] = "counts"]
    /\ countBatch' = [countBatch EXCEPT ![s] = counts]
    /\ counts' = Drained
    /\ UNCHANGED <<pending, timer, batch, closing, row, matchCount, dbFailures,
                   history, suppressed, countsLost>>

\* The `finally' of flush: what was recorded meanwhile needs its own flush.
MutantReschedule(s) == UNCHANGED timer
Reschedule(s) ==
    timer' = [timer EXCEPT ![s] = @ \/ Buffered(s) # {} \/ counts > 0]

\* The counts are written, or lost, and the flush is over; a close() that waits
\* for it goes on.
EndFlush(s) ==
    /\ phase[s] = "counts"
    /\ countBatch' = [countBatch EXCEPT ![s] = 0]
    /\ \/ /\ matchCount' = matchCount + countBatch[s]
          /\ UNCHANGED <<countsLost, dbFailures>>
       \/ /\ countBatch[s] > 0 /\ dbFailures < MaxDbFailures
          /\ dbFailures' = dbFailures + 1
          /\ countsLost' = countsLost + countBatch[s]
          /\ UNCHANGED matchCount
    /\ phase' = [phase EXCEPT ![s] = "idle"]
    /\ closing' = [closing EXCEPT ![s] = IF @ = "flushing" THEN "notifying" ELSE @]
    /\ Reschedule(s)
    /\ UNCHANGED <<pending, batch, counts, row, history, suppressed>>

-----------------------------------------------------------------------------
(* close *)

\* close() waits for the flush it begins.  A flush that is already running makes
\* its own return at once, and close() waits for nothing.
Close(s) ==
    /\ closing[s] = "open"
    /\ timer' = [timer EXCEPT ![s] = FALSE]
    /\ BeginFlush(s)
    /\ closing' = [closing EXCEPT ![s] = IF NeedsFlush(s) THEN "flushing" ELSE "notifying"]
    /\ UNCHANGED <<row, dbFailures, countVars, history>>

\* notifier().flush() is over (Notifier models it).
CloseReturn(s) ==
    /\ closing[s] = "notifying"
    /\ closing' = [closing EXCEPT ![s] = "closed"]
    /\ UNCHANGED <<sinkVars, row, dbFailures, countVars, history>>

Flush(s) == (\E k \in Keys : Upsert(s, k)) \/ DrainCounts(s) \/ EndFlush(s)

Next ==
    \E s \in Sinks :
        \/ \E d \in DedupKeys, t \in Times : Record(s, d, t)
        \/ Suppress(s)
        \/ TimerFires(s)
        \/ Flush(s)
        \/ Close(s)
        \/ CloseReturn(s)

Spec == Init /\ [][Next]_vars

\* Timers fire and the database answers; findings and stops are the world's.
Fairness == \A s \in Sinks : /\ WF_vars(TimerFires(s)) /\ WF_vars(Flush(s))
                             /\ WF_vars(CloseReturn(s))

FairSpec == Spec /\ Fairness

-----------------------------------------------------------------------------
(* Correctness *)

\* Every recorded occurrence is in exactly one place: buffered, taken by a flush,
\* stored, dropped at the limit, or reported as failed.  No interleaving of
\* record, timer, flush and close counts one twice or lets one vanish.
Conserved ==
    \A s \in Sinks, k \in Keys :
        recorded[s][k] = pending[s][k].occurrences + batch[s][k].occurrences
                           + stored[s][k] + dropped[s][k] + failed[s][k]

\* firstSeen and lastSeen are those of the findings an alert stands for, however
\* out of order they were recorded and flushed, and all lie in one window.
SpanOK(entry) ==
    entry.occurrences > 0 =>
        /\ entry.firstSeen \in entry.times /\ entry.lastSeen \in entry.times
        /\ \A t \in entry.times : entry.firstSeen <= t /\ t <= entry.lastSeen

SpansExact ==
    /\ \A k \in Keys : SpanOK(row[k])
    /\ \A s \in Sinks, k \in Keys : SpanOK(pending[s][k]) /\ SpanOK(batch[s][k])

\* The notifier is offered only what the table holds.
NotifiedIsStored ==
    \A s \in Sinks, k \in Keys : notified[s][k] <= stored[s][k]

\* What is buffered has a flush to come: a timer is set or a flush is running that
\* will set one, after any interleaving of timers, flushes and close.
NoneStranded ==
    /\ \A s \in Sinks : Buffered(s) # {} => timer[s] \/ phase[s] # "idle"
    /\ counts > 0 => \E s \in Sinks : timer[s] \/ phase[s] # "idle"

\* Two sinks that flush at once do not write one suppression count twice, and
\* none is lost but by a failing statement.
CountsConserved ==
    suppressed = matchCount + counts + SumFunction(countBatch) + countsLost

\* Only a running flush holds a batch.
BatchHeldByFlush ==
    \A s \in Sinks : phase[s] # "alerts" => \A k \in Keys : batch[s][k].occurrences = 0

\* Only a flush that is writing them holds drained counts.
CountsHeldByFlush == \A s \in Sinks : phase[s] # "counts" => countBatch[s] = 0

\* The inductive invariants, of the alerts and of the suppression counts.
CountsInv == CountsHeldByFlush /\ CountsConserved
IndInv == TypeOK /\ BatchHeldByFlush /\ Conserved /\ SpansExact
            /\ NotifiedIsStored /\ NoneStranded

\* Comment on close(), `Flushes and stops the timer': nothing is left behind in a
\* sink whose close() has returned.
ClosedIsFlushed ==
    \A s \in Sinks : closing[s] = "closed" =>
        \A k \in Keys : pending[s][k].occurrences = 0 /\ batch[s][k].occurrences = 0

\* While the process runs, whatever is buffered is written, dropped or failed, and
\* every suppression count is written or failed.
EventuallyWritten ==
    /\ \A s \in Sinks : Buffered(s) # {} ~> Buffered(s) = {}
    /\ counts > 0 ~> counts = 0

=============================================================================
