--------------------------- MODULE CaptureLifecycle ---------------------------
(***************************************************************************)
(* One PacketCaptureService and the capture_session row it owns.           *)
(*                                                                         *)
(* The service is one JavaScript object: its fields change only inside     *)
(* code that runs between two awaits, so each such stretch of code is one  *)
(* action here, and everything another request handler, timer or database  *)
(* reply may do happens between two actions.  Statements sent to Postgres  *)
(* take effect in actions of their own (InsertCommit, ReportRead, ...),    *)
(* because the pool gives every statement its own connection.              *)
(*                                                                         *)
(* A capture session is named by the number of its start.  The code names  *)
(* it by `startedAt', which is different for every start; numbers keep     *)
(* that, and the order.  Sink and engine are created together and given up *)
(* together, so they are one variable, `detection'.  `starting' and        *)
(* `startInFlight' are set and cleared together, so they are one variable  *)
(* too.  A start refused before its first await (unknown interface, bad    *)
(* filter, pcap error) leaves the service as it was; it is a step only for *)
(* the automatic resume, whose turn it uses up.                            *)
(***************************************************************************)
EXTENDS Naturals

CONSTANTS
    MaxSessions,    \* starts in one behaviour
    MaxCrashes,     \* process deaths in one behaviour
    MaxDbFailures,  \* statements that fail in one behaviour
    Calls,          \* stopCapture invocations that may be running at once
    ResumeOnStart,  \* env.captureResumeOnStart
    ReorderWrites   \* may two INSERTs on two pooled connections commit out of order?

ASSUME ConstantsAssumption ==
    /\ MaxSessions \in Nat
    /\ MaxCrashes \in Nat
    /\ MaxDbFailures \in Nat
    /\ ResumeOnStart \in BOOLEAN
    /\ ReorderWrites \in BOOLEAN

VARIABLES
    \* the process
    up,              \* is a process running?
    boot,            \* where index.ts has got to in its start-up sequence
    found,           \* the session findInterruptedCapture returned to it
    shuttingDown,    \* the SIGTERM handler has begun
    \* the fields of the service
    capturing,       \* this.capturing
    startInFlight,   \* this.startInFlight / this.starting: the start being opened
    handle,          \* this.handle
    detection,       \* this.sink and this.engine
    session,         \* this.session
    sessionWrite,    \* this.sessionWrite: whose INSERT the promise stands for
    interrupted,     \* this.interrupted
    call,            \* the running stopCapture invocations
    \* outside the process
    openHandles,     \* pcap handles the process holds open
    writes,          \* INSERTs sent and not yet executed
    rowSession,      \* capture_session: which start the row describes
    rowOpen,         \* capture_session: stopped_at IS NULL
    \* bounds
    nextSession, crashes, dbFailures,
    \* history
    acked,           \* sessions an operator's stop has stamped finished
    reported         \* sessions a process that goes on running has shown as interrupted

bootVars == <<up, boot, found, shuttingDown>>
dbVars == <<writes, rowSession, rowOpen>>
vars == <<up, boot, found, shuttingDown, capturing, startInFlight, handle,
          detection, session, sessionWrite, interrupted, call,
          openHandles, writes, rowSession, rowOpen, nextSession, crashes,
          dbFailures, acked, reported>>

NoSession == 0
Sessions == 1..MaxSessions
SessionOrNone == 0..MaxSessions
Reasons == {"operator", "shutdown", "read-error"}
BootSteps == {"report", "reading", "read", "stamping", "loading", "resuming", "up"}
StopSteps == {"idle", "waitStart", "waitWrite", "stamping", "closing"}

\* The idle slot of a stopCapture invocation.
NoCall == [pc |-> "idle", reason |-> "operator", was |-> FALSE,
           sess |-> NoSession, pend |-> NoSession, target |-> NoSession]

TypeOK ==
    /\ up \in BOOLEAN /\ boot \in BootSteps /\ found \in SessionOrNone
    /\ shuttingDown \in BOOLEAN /\ capturing \in BOOLEAN
    /\ startInFlight \in SessionOrNone /\ handle \in SessionOrNone
    /\ detection \in SessionOrNone /\ session \in SessionOrNone
    /\ sessionWrite \in SessionOrNone /\ interrupted \in SessionOrNone
    /\ call \in [Calls -> [pc : StopSteps, reason : Reasons, was : BOOLEAN,
                           sess : SessionOrNone, pend : SessionOrNone,
                           target : SessionOrNone]]
    /\ openHandles \subseteq Sessions /\ writes \subseteq Sessions
    /\ rowSession \in SessionOrNone /\ rowOpen \in BOOLEAN
    /\ nextSession \in 1..(MaxSessions + 1)
    /\ crashes \in Nat /\ dbFailures \in Nat
    /\ acked \subseteq Sessions /\ reported \subseteq Sessions

Init ==
    /\ up = TRUE /\ boot = "report" /\ found = NoSession /\ shuttingDown = FALSE
    /\ capturing = FALSE /\ startInFlight = NoSession /\ handle = NoSession
    /\ detection = NoSession /\ session = NoSession /\ sessionWrite = NoSession
    /\ interrupted = NoSession
    /\ call = [c \in Calls |-> NoCall]
    /\ openHandles = {} /\ writes = {}
    /\ rowSession = NoSession /\ rowOpen = FALSE
    /\ nextSession = 1 /\ crashes = 0 /\ dbFailures = 0
    /\ acked = {} /\ reported = {}

(***************************************************************************)
(* The continuation of a settled promise runs before the next request or   *)
(* timer: a stop that waited for a start goes on as soon as it is over.    *)
(***************************************************************************)
MicrotasksDrained ==
    \A c \in Calls : call[c].pc = "waitStart" => call[c].target = startInFlight

\* A statement may fail while the failure budget lasts; it then changes nothing.
StatementFails ==
    /\ dbFailures < MaxDbFailures
    /\ dbFailures' = dbFailures + 1

-----------------------------------------------------------------------------
(* Starting a capture *)

\* The two early returns of startCapture: 'running' and 'starting'.
MutantCanClaim == ~capturing
CanClaim == ~capturing /\ startInFlight = NoSession

\* startCapture claims the instance and openCapture opens the handle, then
\* awaits loadKnownMacAddresses.
ClaimAndOpen ==
    /\ CanClaim
    /\ nextSession <= MaxSessions
    /\ startInFlight' = nextSession
    /\ openHandles' = openHandles \cup {nextSession}
    /\ nextSession' = nextSession + 1

\* POST /start.
StartRequest ==
    /\ up /\ MicrotasksDrained
    /\ ClaimAndOpen
    /\ UNCHANGED <<bootVars, capturing, handle, detection, session, sessionWrite,
                   interrupted, call, dbVars, crashes,
                   dbFailures, acked, reported>>

\* The `finally' of startCapture.
ReleaseStart == startInFlight' = NoSession

\* A running capture answers the interruption notice.
ClearNotice == interrupted' = NoSession

\* The known devices have been read, or could not be: the capture goes live and
\* its INSERT is sent.  If this was the automatic resume, boot goes on.
OpenFinish ==
    /\ startInFlight # NoSession
    /\ detection' = startInFlight
    /\ handle' = startInFlight
    /\ capturing' = TRUE
    /\ ClearNotice
    /\ session' = startInFlight
    /\ sessionWrite' = startInFlight
    /\ writes' = writes \cup {startInFlight}
    /\ ReleaseStart
    /\ boot' = IF boot = "resuming" THEN "up" ELSE boot
    /\ UNCHANGED <<up, found, shuttingDown, call, openHandles,
                   rowSession, rowOpen, nextSession, crashes, dbFailures, acked,
                   reported>>

\* The upsert of recordCaptureStarted: the row now describes session n.
InsertCommit(n) ==
    /\ n \in writes
    /\ ReorderWrites \/ \A m \in writes : n <= m
    /\ writes' = writes \ {n}
    /\ \/ rowSession' = n /\ rowOpen' = TRUE /\ UNCHANGED dbFailures
       \/ StatementFails /\ UNCHANGED <<rowSession, rowOpen>>
    /\ UNCHANGED <<bootVars, capturing, startInFlight, handle, detection, session,
                   sessionWrite, interrupted, call, openHandles,
                   nextSession, crashes, acked, reported>>

-----------------------------------------------------------------------------
(* Stopping a capture *)

\* this.session and this.capturing are given up in one synchronous stretch.
GiveUp == session' = NoSession /\ capturing' = FALSE

\* The synchronous teardown of stopCapture: everything this stop is responsible
\* for is detached before it yields.
Detach(c, reason, target) ==
    /\ handle' = NoSession
    /\ openHandles' = openHandles \ {handle}
    /\ GiveUp
    /\ detection' = NoSession
    /\ call' = [call EXCEPT ![c] =
                  [pc |-> "waitWrite", reason |-> reason, was |-> capturing,
                   sess |-> session, pend |-> sessionWrite, target |-> target]]

\* The start that this stop has to wait for, if any: `if (this.startInFlight) await'.
MutantStartToAwait == NoSession
StartToAwait == startInFlight

\* What stopCapture is about to end: the running capture, or the one being opened.
CaptureToStop == IF startInFlight = NoSession THEN session ELSE startInFlight

\* stopCapture is entered by POST /stop, by poll() after a read error, or by
\* stopAllCaptures(); a start in flight is waited for.
StopEnter(c, reason) ==
    /\ up /\ MicrotasksDrained
    /\ call[c].pc = "idle"
    /\ reason = "read-error" => handle # NoSession
    /\ reason = "shutdown" => boot = "up" /\ ~shuttingDown
    /\ shuttingDown' = (shuttingDown \/ reason = "shutdown")
    /\ IF StartToAwait # NoSession
         THEN /\ call' = [call EXCEPT ![c] =
                            [pc |-> "waitStart", reason |-> reason, was |-> FALSE,
                             sess |-> NoSession, pend |-> NoSession,
                             target |-> CaptureToStop]]
              /\ UNCHANGED <<handle, openHandles, session, capturing, detection>>
         ELSE Detach(c, reason, CaptureToStop)
    /\ UNCHANGED <<up, boot, found, startInFlight, sessionWrite, interrupted,
                   dbVars, nextSession, crashes, dbFailures,
                   acked, reported>>

\* The awaited start is over.
StopAfterStart(c) ==
    /\ call[c].pc = "waitStart"
    /\ startInFlight # call[c].target
    /\ Detach(c, call[c].reason, call[c].target)
    /\ UNCHANGED <<bootVars, startInFlight, sessionWrite, interrupted,
                   dbVars, nextSession, crashes, dbFailures,
                   acked, reported>>

\* this.sessionWrite once this stop's own wait is over: only the promise that
\* was awaited is retired.
MutantRetire(pending) == NoSession
Retire(pending) == IF sessionWrite = pending THEN NoSession ELSE sessionWrite

\* Only an operator's stop stamps the row.
StampsRow(stop) == stop.was /\ stop.reason = "operator"

\* A stop nobody asked for puts up the notice, unless a start has taken over.
ShowsNotice(stop) ==
    stop.was /\ stop.reason # "operator" /\ stop.sess # NoSession /\ ~capturing

\* The awaited INSERT, if there is one, has been answered.  An operator's stop goes on to stamp
\* the row; any other leaves it open and puts the notice up, unless a start has
\* taken over.
StopAfterWrite(c) ==
    LET stop == call[c] IN
    /\ stop.pc = "waitWrite"
    /\ stop.pend \notin writes
    /\ sessionWrite' = Retire(stop.pend)
    /\ call' = [call EXCEPT ![c].pc = IF StampsRow(stop) THEN "stamping" ELSE "closing"]
    /\ IF ShowsNotice(stop)
         THEN /\ interrupted' = stop.sess
              /\ reported' = IF stop.reason = "read-error"
                               THEN reported \cup {stop.sess} ELSE reported
         ELSE UNCHANGED <<interrupted, reported>>
    /\ UNCHANGED <<bootVars, capturing, startInFlight, handle, detection, session,
                   openHandles, dbVars, nextSession, crashes,
                   dbFailures, acked>>

\* The UPDATE of recordCaptureStopped, scoped to a session when there is one.
MutantStamp(n) == rowOpen' = FALSE
Stamp(n) ==
    rowOpen' = (rowOpen /\ n # NoSession /\ rowSession # n)

StopStamp(c) ==
    /\ call[c].pc = "stamping"
    /\ call' = [call EXCEPT ![c].pc = "closing"]
    /\ \/ /\ Stamp(call[c].sess)
          /\ acked' = IF call[c].reason = "operator"
                          THEN acked \cup ({call[c].sess} \ {NoSession}) ELSE acked
          /\ UNCHANGED dbFailures
       \/ StatementFails /\ UNCHANGED <<rowOpen, acked>>
    /\ UNCHANGED <<bootVars, capturing, startInFlight, handle, detection, session,
                   sessionWrite, interrupted, openHandles, writes,
                   rowSession, nextSession, crashes, reported>>

\* As it was before the sink was detached with everything else.
MutantStopReturn(c) ==
    /\ call[c].pc = "closing"
    /\ call' = [call EXCEPT ![c] = NoCall]
    /\ detection' = NoSession
    /\ UNCHANGED <<bootVars, capturing, startInFlight, handle, session,
                   sessionWrite, interrupted, openHandles, dbVars,
                   nextSession, crashes, dbFailures, acked, reported>>

\* The sink has been closed (AlertSink models that) and the call returns.
StopReturn(c) ==
    /\ call[c].pc = "closing"
    /\ call' = [call EXCEPT ![c] = NoCall]
    /\ UNCHANGED <<bootVars, capturing, startInFlight, handle, detection, session,
                   sessionWrite, interrupted, openHandles, dbVars,
                   nextSession, crashes, dbFailures, acked, reported>>

-----------------------------------------------------------------------------
(* Boot: report what the last process left, and resume it when asked to *)

\* reportInterruptedCapture, up to its query.
ReportBegin ==
    /\ up /\ boot = "report"
    /\ boot' = IF capturing THEN "loading" ELSE "reading"
    /\ UNCHANGED <<up, found, shuttingDown, capturing, startInFlight, handle,
                   detection, session, sessionWrite, interrupted,
                   call, openHandles, dbVars, nextSession, crashes, dbFailures,
                   acked, reported>>

\* The row findInterruptedCapture selects, if it is one to report.
MutantOpenRow == IF rowOpen THEN NoSession ELSE rowSession
OpenRow == IF rowOpen THEN rowSession ELSE NoSession

\* findInterruptedCapture: a closed row, no row and an unreadable row are all
\* "nothing to report".
ReportRead ==
    /\ boot = "reading"
    /\ boot' = "read"
    /\ \/ found' = OpenRow /\ UNCHANGED dbFailures
       \/ found' = NoSession /\ StatementFails
    /\ UNCHANGED <<up, shuttingDown, capturing, startInFlight, handle, detection,
                   session, sessionWrite, interrupted, call,
                   openHandles, dbVars, nextSession, crashes, acked, reported>>

\* this.capturing, checked again once the answer has arrived.
TakenOver == capturing

ReportDecide ==
    /\ boot = "read" /\ MicrotasksDrained
    /\ IF found = NoSession \/ TakenOver
         THEN boot' = "loading" /\ UNCHANGED <<interrupted, reported>>
         ELSE /\ interrupted' = found
              /\ reported' = reported \cup {found}
              /\ boot' = IF ResumeOnStart THEN "loading" ELSE "stamping"
    /\ UNCHANGED <<up, found, shuttingDown, capturing, startInFlight, handle,
                   detection, session, sessionWrite, call,
                   openHandles, dbVars, nextSession, crashes, dbFailures, acked>>

\* With resuming off, the row that was read is stamped.
ReportStamp ==
    /\ boot = "stamping"
    /\ boot' = "loading"
    /\ \/ Stamp(found) /\ UNCHANGED dbFailures
       \/ StatementFails /\ UNCHANGED rowOpen
    /\ UNCHANGED <<up, found, shuttingDown, capturing, startInFlight, handle,
                   detection, session, sessionWrite, interrupted,
                   call, openHandles, writes, rowSession, nextSession, crashes,
                   acked, reported>>

\* resumeInterruptedCapture, once suppression rules and feeds are loaded.
ResumeWanted == interrupted # NoSession /\ ResumeOnStart /\ ~capturing

ResumeSkip ==
    /\ boot = "loading" /\ MicrotasksDrained
    /\ ~ResumeWanted
    /\ boot' = "up"
    /\ UNCHANGED <<up, found, shuttingDown, capturing, startInFlight, handle,
                   detection, session, sessionWrite, interrupted,
                   call, openHandles, dbVars, nextSession, crashes, dbFailures,
                   acked, reported>>

ResumeBegin ==
    /\ boot = "loading" /\ MicrotasksDrained
    /\ ResumeWanted
    /\ \/ ClaimAndOpen /\ boot' = "resuming"
       \* startCapture declined or could not open the interface
       \/ boot' = "up" /\ UNCHANGED <<startInFlight, openHandles, nextSession>>
    /\ UNCHANGED <<up, found, shuttingDown, capturing, handle, detection, session,
                   sessionWrite, interrupted, call, dbVars, crashes, dbFailures,
                   acked, reported>>

-----------------------------------------------------------------------------
(* Death and birth of the process *)

\* SIGKILL, a power cut, or the exit that ends a shutdown.  Statements that have
\* not been executed by now never are.
Crash ==
    /\ up /\ crashes < MaxCrashes
    /\ crashes' = crashes + 1
    /\ up' = FALSE /\ boot' = "report" /\ found' = NoSession /\ shuttingDown' = FALSE
    /\ capturing' = FALSE /\ startInFlight' = NoSession /\ handle' = NoSession
    /\ detection' = NoSession /\ session' = NoSession /\ sessionWrite' = NoSession
    /\ interrupted' = NoSession
    /\ call' = [c \in Calls |-> NoCall]
    /\ openHandles' = {} /\ writes' = {}
    /\ UNCHANGED <<rowSession, rowOpen, nextSession, dbFailures, acked, reported>>

BootUp ==
    /\ ~up
    /\ up' = TRUE
    /\ UNCHANGED <<boot, found, shuttingDown, capturing, startInFlight, handle,
                   detection, session, sessionWrite, interrupted,
                   call, openHandles, dbVars, nextSession, crashes, dbFailures,
                   acked, reported>>

Boot == ReportBegin \/ ReportRead \/ ReportDecide \/ ReportStamp
          \/ ResumeSkip \/ ResumeBegin

Stop(c) == StopAfterStart(c) \/ StopAfterWrite(c) \/ StopStamp(c) \/ StopReturn(c)

Next ==
    \/ StartRequest
    \/ OpenFinish
    \/ \E n \in Sessions : InsertCommit(n)
    \/ \E c \in Calls, reason \in Reasons : StopEnter(c, reason)
    \/ \E c \in Calls : Stop(c)
    \/ Boot
    \/ Crash
    \/ BootUp

Spec == Init /\ [][Next]_vars

(***************************************************************************)
(* Promises settle, the database answers, and the supervisor restarts the  *)
(* process.  Requests, read errors, signals and crashes are the world's.   *)
(***************************************************************************)
Fairness ==
    /\ WF_vars(OpenFinish) /\ WF_vars(\E n \in Sessions : InsertCommit(n))
    /\ \A c \in Calls : WF_vars(Stop(c))
    /\ WF_vars(Boot) /\ WF_vars(BootUp)

FairSpec == Spec /\ Fairness

-----------------------------------------------------------------------------
(* Correctness *)

\* A service holds at most one pcap handle open, and a capture that runs reads
\* from it: no interleaving of starts and stops leaks a handle that nothing can
\* close any more.
OneHandle ==
    /\ \A a, b \in openHandles : a = b
    /\ openHandles \subseteq {handle, startInFlight}

\* A running capture has its own detection: a stop that is still waiting never
\* takes away the sink and engine of the capture that replaced the one it ends.
DetectionAttached ==
    capturing => handle # NoSession /\ detection = handle /\ session = handle

\* The interruption notice and a running capture exclude each other, whichever of
\* boot, read error and operator gets there last.
NoticeMeansIdle == capturing => interrupted = NoSession

\* A stop that has torn the capture down and then waits or stamps can find
\* another capture in place, never the one it was asked to end.
StopIsEffective ==
    \A c \in Calls :
        call[c].pc \in {"waitWrite", "stamping", "closing"} /\ call[c].target # NoSession
            => call[c].target \notin {session, startInFlight, handle, detection}

\* A capture is ended by one stop only, and that stop knows which one it ended:
\* the unscoped UPDATE of recordCaptureStopped is never reached by two stops in a row.
OneStopPerCapture ==
    /\ \A c \in Calls : call[c].was => call[c].sess # NoSession
    /\ \A c, d \in Calls : call[c].was /\ call[d].was /\ c # d
                               => call[c].sess # call[d].sess

\* Once an operator's stop has stamped a capture finished, no late INSERT and no
\* other writer opens its row again: the next boot does not report it.
AckedStopStaysClosed == rowOpen => rowSession \notin acked

\* A row is only closed for a capture that an operator stopped or that some
\* process has shown as interrupted: a capture that died is never silently forgotten.
ClosedRowExplained ==
    ~rowOpen /\ rowSession # NoSession => rowSession \in acked \cup reported

\* When no statement fails and INSERTs commit in the order they were sent, a
\* running capture has an open row of its own as soon as its INSERT is executed,
\* so the next boot can report it.
RunningIsRecorded ==
    capturing /\ session \notin writes => rowSession = session /\ rowOpen

\* The stop of a running capture can wait for its INSERT, and no INSERT is left
\* that nobody would wait for: `sessionWrite' is never retired by another stop.
WriteIsAwaitable ==
    /\ session # NoSession => sessionWrite = session
    /\ \A n \in writes : n = sessionWrite \/ \E c \in Calls :
           call[c].pc = "waitWrite" /\ call[c].pend = n

(***************************************************************************)
(* The inductive invariant behind the safety properties.  Every number the *)
(* system knows is older than the start being opened; what a stop tears    *)
(* down was in place together; and an INSERT that has not been executed    *)
(* belongs to the running capture or has a stop waiting for it.            *)
(***************************************************************************)
Frontier == IF startInFlight = NoSession THEN nextSession ELSE startInFlight

OlderThanFrontier ==
    /\ startInFlight # NoSession => nextSession = startInFlight + 1
    /\ session < Frontier /\ sessionWrite < Frontier /\ rowSession < Frontier
    /\ found < Frontier /\ \A n \in writes \cup acked : n < Frontier
    /\ \A c \in Calls : call[c].sess < Frontier /\ call[c].pend < Frontier
    /\ \A c \in Calls : call[c].target < nextSession
    /\ \A c \in Calls : call[c].pc # "waitStart" => call[c].target < Frontier

AttachedTogether ==
    /\ capturing = (session # NoSession)
    /\ handle = session /\ detection = session
    /\ openHandles = {session, startInFlight} \ {NoSession}
    /\ session # NoSession => startInFlight = NoSession /\ sessionWrite = session

StopsConsistent ==
    \A c \in Calls :
        /\ call[c].pc \in {"idle", "waitStart"} => ~call[c].was
        /\ call[c].pc \in {"waitWrite", "stamping", "closing"} =>
               call[c].target = NoSession \/ call[c].target # session
        /\ call[c].pc = "waitWrite" => call[c].pend # session \/ session = NoSession
        /\ call[c].was => call[c].sess # NoSession /\ call[c].sess # session
        /\ call[c].pc = "waitWrite" /\ call[c].was => call[c].pend = call[c].sess
        /\ call[c].pc = "stamping" =>
               call[c].was /\ call[c].reason = "operator" /\ call[c].sess \notin writes

WritesAccounted ==
    \A n \in writes : n = session \/ \E c \in Calls :
        call[c].pc = "waitWrite" /\ call[c].pend = n

AckedIsOver ==
    /\ acked \cap writes = {} /\ session \notin acked
    /\ NoSession \notin writes

IndInv ==
    /\ TypeOK
    /\ OlderThanFrontier /\ AttachedTogether /\ StopsConsistent
    /\ WritesAccounted /\ AckedIsOver
    /\ NoticeMeansIdle /\ OneStopPerCapture
    /\ AckedStopStaysClosed /\ ClosedRowExplained
    /\ boot = "stamping" => found \in reported

\* Test `says nothing when the operator was the one who stopped it': a capture an
\* operator's stop has ended is not put up as interrupted.
StoppedIsNotInterrupted == interrupted \notin acked

\* A capture that a dead process left open is reported by a later one, unless a
\* new capture has replaced the row or the report could not be read.
InterruptionIsReported ==
    \A n \in Sessions :
        (~up /\ rowOpen /\ rowSession = n) ~> (n \in reported \/ rowSession # n)

\* Every stop returns, unless the process dies first: none waits on a start or on
\* an INSERT that waits on it.
StopReturns == \A c \in Calls : call[c].pc # "idle" ~> call[c].pc = "idle"

\* Both: what a dead process left open is reported, and every stop returns.
CaptureProgress == InterruptionIsReported /\ StopReturns

=============================================================================
