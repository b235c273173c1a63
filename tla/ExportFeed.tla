----------------------------- MODULE ExportFeed -----------------------------
(***************************************************************************)
(* The complete stream of findings that one Notifier sends to a SIEM.      *)
(*                                                                         *)
(* consider() queues every finding it is offered.  The queue goes out as   *)
(* one batch when it is long enough, when the coalescing timer fires or    *)
(* when the notifier is flushed; the batches are sent one after the other  *)
(* along the promise chain exportInFlight.  Each call of flushExports()    *)
(* adds a link to the chain, numbered here in the order of the calls; a    *)
(* link that finds the queue empty ends at once.                           *)
(*                                                                         *)
(* Findings are numbered as they are offered.  A send that fails is over   *)
(* like one that succeeds: nothing retries.  What a resolved promise       *)
(* continues runs before the next event: those ask for FeedTurn.           *)
(***************************************************************************)
EXTENDS Naturals, Sequences, Functions

CONSTANTS
    Drainers,        \* calls of Notifier.flush(), one each
    MaxExportBatch,  \* MAX_EXPORT_BATCH
    MaxExportQueue,  \* MAX_EXPORT_QUEUE
    MaxExported      \* bound on findings offered

ASSUME FeedAssumption ==
    /\ MaxExportBatch \in Nat \ {0} /\ MaxExportQueue \in Nat \ {0}
    /\ MaxExportBatch <= MaxExportQueue /\ MaxExported \in Nat

VARIABLES
    exportQueue,
    exportTimer,    \* this.exportTimer is set
    asked, done,    \* links added to the chain, links that have ended
    busy, inFlight, \* whether a link is sending, and what
    exportDropped,
    drain,          \* where each flush() is, and the link it awaits
    \* history
    offered,        \* findings offered so far
    dropped,        \* those the full queue refused
    attempted       \* those whose send is over, in the order they were sent

feedVars == <<exportQueue, exportTimer, asked, done, busy, inFlight, exportDropped, drain,
          offered, dropped, attempted>>

Exportable == 1..MaxExported
NoDrain == [stage |-> "idle", link |-> 0, due |-> {}]

FeedTypeOK ==
    /\ exportQueue \in Seq(Exportable) /\ inFlight \in Seq(Exportable)
    /\ attempted \in Seq(Exportable)
    /\ exportTimer \in BOOLEAN /\ busy \in BOOLEAN
    /\ asked \in Nat /\ done \in Nat /\ exportDropped \in Nat
    /\ drain \in [Drainers -> [stage : {"idle", "first", "second", "done"},
                               link : Nat, due : SUBSET Exportable]]
    /\ offered \in 0..MaxExported /\ dropped \subseteq 1..offered

FeedInit ==
    /\ exportQueue = <<>> /\ inFlight = <<>> /\ attempted = <<>>
    /\ exportTimer = FALSE /\ busy = FALSE
    /\ asked = 0 /\ done = 0 /\ exportDropped = 0
    /\ drain = [f \in Drainers |-> NoDrain]
    /\ offered = 0 /\ dropped = {}

\* The links that have not begun, and whether the next one may.
Waiting == asked - done - (IF busy THEN 1 ELSE 0)
MutantCanRun == Waiting > 0
CanRun == Waiting > 0 /\ ~busy

\* The promise a flush awaits has been resolved.
Resolved(f) == drain[f].stage \in {"first", "second"} /\ done >= drain[f].link

FeedTurn == ~(Waiting > 0 /\ ~busy) /\ \A f \in Drainers : ~Resolved(f)

-----------------------------------------------------------------------------

\* enqueueExport, for the next finding
Enqueue ==
    LET finding == offered + 1 IN
    /\ FeedTurn
    /\ offered < MaxExported
    /\ offered' = finding
    /\ IF Len(exportQueue) >= MaxExportQueue
         THEN /\ exportDropped' = exportDropped + 1
              /\ dropped' = dropped \cup {finding}
              /\ UNCHANGED <<exportQueue, exportTimer, asked>>
         ELSE /\ exportQueue' = Append(exportQueue, finding)
              /\ IF Len(exportQueue) + 1 >= MaxExportBatch
                   THEN asked' = asked + 1 /\ UNCHANGED exportTimer
                   ELSE exportTimer' = TRUE /\ UNCHANGED asked
              /\ UNCHANGED <<exportDropped, dropped>>
    /\ UNCHANGED <<done, busy, inFlight, drain, attempted>>

\* Whether the timer adds a link: always, a send that is running took its batch.
TimerAsks == TRUE

ExportTimerFires ==
    /\ FeedTurn
    /\ exportTimer
    /\ exportTimer' = FALSE
    /\ asked' = IF TimerAsks THEN asked + 1 ELSE asked
    /\ UNCHANGED <<exportQueue, done, busy, inFlight, exportDropped, drain, offered, dropped,
                   attempted>>

\* sendExportBatch: up to its await, which an empty queue never reaches
BeginLink ==
    /\ CanRun
    /\ exportTimer' = FALSE
    /\ IF exportQueue = <<>>
         THEN done' = done + 1 /\ UNCHANGED <<exportQueue, busy, inFlight, exportDropped>>
         ELSE /\ busy' = TRUE
              /\ inFlight' = exportQueue
              /\ exportQueue' = <<>>
              /\ exportDropped' = 0
              /\ UNCHANGED done
    /\ UNCHANGED <<asked, drain, offered, dropped, attempted>>

\* Every exporter has answered, failed or timed out.
SendEnds ==
    /\ FeedTurn
    /\ busy
    /\ busy' = FALSE
    /\ done' = done + 1
    /\ attempted' = attempted \o inFlight
    /\ inFlight' = <<>>
    /\ UNCHANGED <<exportQueue, exportTimer, asked, exportDropped, drain, offered, dropped>>

-----------------------------------------------------------------------------
(* flush(), as far as the exports go *)

\* The findings the feed has taken and not given up.
Kept == (1..offered) \ dropped

BeginFlush(f) ==
    /\ FeedTurn
    /\ drain[f].stage = "idle"
    /\ asked' = asked + 1
    /\ drain' = [drain EXCEPT ![f] = [stage |-> "first", link |-> asked + 1, due |-> {}]]
    /\ UNCHANGED <<exportQueue, exportTimer, done, busy, inFlight, exportDropped, offered,
                   dropped, attempted>>

\* The link the second await is for.
SecondLink == asked + 1

\* "Twice, deliberately": for what arrived while the first was running.
FlushAgain(f) ==
    /\ drain[f].stage = "first"
    /\ Resolved(f)
    /\ asked' = SecondLink
    /\ drain' = [drain EXCEPT ![f] = [stage |-> "second", link |-> SecondLink, due |-> Kept]]
    /\ UNCHANGED <<exportQueue, exportTimer, done, busy, inFlight, exportDropped, offered,
                   dropped, attempted>>

EndFlush(f) ==
    /\ drain[f].stage = "second"
    /\ Resolved(f)
    /\ drain' = [drain EXCEPT ![f].stage = "done"]
    /\ UNCHANGED <<exportQueue, exportTimer, asked, done, busy, inFlight, exportDropped, offered,
                   dropped, attempted>>

FeedNext ==
    \/ Enqueue \/ ExportTimerFires \/ BeginLink \/ SendEnds
    \/ \E f \in Drainers : BeginFlush(f) \/ FlushAgain(f) \/ EndFlush(f)

FeedSpec == FeedInit /\ [][FeedNext]_feedVars

\* Timers fire, sends end (a channel has a timeout) and continuations run.
FeedFairness ==
    /\ WF_feedVars(ExportTimerFires) /\ WF_feedVars(BeginLink) /\ WF_feedVars(SendEnds)
    /\ \A f \in Drainers : WF_feedVars(FlushAgain(f)) /\ WF_feedVars(EndFlush(f))

-----------------------------------------------------------------------------
(* Properties *)

\* Every finding the queue took is sent once and in the order they were offered,
\* whatever the timer, the length of the queue and the flushes start.
Feed == (attempted \o inFlight) \o exportQueue
OnceAndInOrder ==
    /\ Range(Feed) = Kept
    /\ \A i, j \in DOMAIN Feed : i < j => Feed[i] < Feed[j]

\* A queued finding always has a timer or a link of the chain that will take it.
QueueHasSender == exportQueue # <<>> => exportTimer \/ Waiting > 0

\* When flush() goes on from the exports, the send of everything offered before
\* its second await is over, with any number of flushes and a send in progress.
FlushCovers == \A f \in Drainers : drain[f].stage = "done" => drain[f].due \subseteq Range(attempted)

\* A finding goes out once, in order, and before the flush that came after it is over.
FeedSafety == OnceAndInOrder /\ FlushCovers

\* What always comes again: every queued finding has been sent and every flush that
\* was called has ended.
FeedAtRest == exportQueue = <<>> /\ ~busy /\ \A f \in Drainers : drain[f].stage \in {"idle", "done"}

-----------------------------------------------------------------------------
(* What the proofs rest on *)

LinksOK ==
    /\ done + (IF busy THEN 1 ELSE 0) <= asked
    /\ ~busy => inFlight = <<>>
    /\ \A f \in Drainers : drain[f].link <= asked

\* What a flush has to see sent lies ahead of the link it awaits.
CoverOK ==
    \A f \in Drainers : drain[f].stage \in {"second", "done"} =>
        /\ drain[f].due \subseteq Range(attempted) \cup Range(inFlight) \cup Range(exportQueue)
        /\ done >= drain[f].link => drain[f].due \subseteq Range(attempted)
        /\ busy /\ done + 1 >= drain[f].link =>
             drain[f].due \subseteq Range(attempted) \cup Range(inFlight)
        /\ drain[f].stage = "done" => done >= drain[f].link

FeedInv == FeedTypeOK /\ LinksOK /\ CoverOK /\ OnceAndInOrder /\ QueueHasSender
==============================================================================
