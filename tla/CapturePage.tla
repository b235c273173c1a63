------------------------------ MODULE CapturePage ------------------------------
(***************************************************************************)
(* What a capture page shows of the capture it is about: the page's        *)
(* queries and mutations (hooks/usePacketCapture.ts), the server's status  *)
(* and boot sequence with CAPTURE_RESUME_ON_START set                      *)
(* (services/packet-capture.service.ts, index.ts).                         *)
(*                                                                         *)
(* The page asks again only while the last status it was given says that   *)
(* something moves.  A request fails when the process is not there; an     *)
(* answer takes its time and may be overtaken.  CaptureLifecycle has the   *)
(* capture itself in detail; here it is a flag that other administrators,  *)
(* a read error and a restart change as well.                              *)
(***************************************************************************)
EXTENDS Integers

CONSTANTS MaxPresses, MaxOthers, MaxDeaths, MaxReadErrors   \* bounds: how often each happens

VARIABLES server,   \* the process; see PageTypeOK
          openRow,  \* the last session of capture_session is not stamped stopped
          shown,    \* the status the page shows
          fetch,    \* the status query: whether a request is out, and its answer
          press,    \* the start or stop the page waits for
          expected,     \* the page has shown that this process will resume a capture
          spent     \* how often each bounded event happened

pageVars == <<server, openRow, shown, fetch, press, expected, spent>>

StatusOf == [capturing : BOOLEAN, pending : BOOLEAN]
IdleStatus == [capturing |-> FALSE, pending |-> FALSE]
Starters == {"nobody", "page", "other", "resume"}

-----------------------------------------------------------------------------
\* getStatus
CurrentStatus ==
    [capturing |-> server.capturing, pending |-> server.interrupted /\ ~server.attempted]

\* keepPolling
KeepPolling(status) == status.capturing \/ status.pending

NoFetch == [stage |-> "none", answer |-> IdleStatus]
Asked == [stage |-> "asked", answer |-> IdleStatus]
NoPress == [kind |-> "none", stage |-> "none", answer |-> IdleStatus]

May(event, bound) == spent[event] < bound /\ spent' = [spent EXCEPT ![event] = @ + 1]

\* A page opened while a capture runs, or while none does.
PageInit ==
    /\ \E running \in BOOLEAN :
        /\ server = [up |-> TRUE, boot |-> "done", capturing |-> running, starting |-> "nobody",
                     startedBy |-> IF running THEN "other" ELSE "nobody",
                     interrupted |-> FALSE, attempted |-> FALSE]
        /\ openRow = running
    /\ shown = IdleStatus /\ fetch = Asked /\ press = NoPress /\ expected = FALSE
    /\ spent = [event \in {"press", "other", "death", "readError"} |-> 0]

-----------------------------------------------------------------------------
(* The page. *)

\* One request at a time; the next is asked for when one is due.
PagePoll ==
    /\ fetch.stage = "none" /\ KeepPolling(shown)
    /\ fetch' = Asked
    /\ UNCHANGED <<server, openRow, shown, press, expected, spent>>

\* Coming back to the window asks too.
PageFocus ==
    /\ fetch.stage = "none"
    /\ fetch' = Asked
    /\ UNCHANGED <<server, openRow, shown, press, expected, spent>>

\* An answer is shown; a failure leaves the last one.
FetchArrives ==
    /\ fetch.stage \in {"answered", "failed"}
    /\ IF fetch.stage = "answered"
       THEN shown' = fetch.answer /\ expected' = (expected \/ fetch.answer.pending)
       ELSE UNCHANGED <<shown, expected>>
    /\ fetch' = NoFetch
    /\ UNCHANGED <<server, openRow, press, spent>>

\* Start is offered on an idle page, stop on a capturing one, one at a time.
PagePress ==
    /\ press.kind = "none" /\ May("press", MaxPresses)
    /\ press' = [kind |-> IF shown.capturing THEN "stop" ELSE "start", stage |-> "asked",
                 answer |-> IdleStatus]
    /\ UNCHANGED <<server, openRow, shown, fetch, expected>>

\* refreshAll: what comes back after an action is older than it, and is dropped.
RefreshAll == fetch' = Asked

\* The action's own status is shown and the query asked again; an error changes
\* neither.
PressArrives ==
    /\ press.stage \in {"answered", "refused"}
    /\ IF press.stage = "answered"
       THEN shown' = press.answer /\ expected' = (expected \/ press.answer.pending) /\ RefreshAll
       ELSE UNCHANGED <<shown, expected, fetch>>
    /\ press' = NoPress
    /\ UNCHANGED <<server, openRow, spent>>

-----------------------------------------------------------------------------
(* The server. *)

FetchServed ==
    /\ fetch.stage = "asked"
    /\ fetch' = IF server.up THEN [stage |-> "answered", answer |-> CurrentStatus]
                ELSE [Asked EXCEPT !.stage = "failed"]
    /\ UNCHANGED <<server, openRow, shown, press, expected, spent>>

\* POST /start: a running capture is answered for, a start under way refuses.
StartServed ==
    /\ press.kind = "start" /\ press.stage = "asked"
    /\ IF ~server.up \/ server.starting # "nobody"
       THEN press' = [press EXCEPT !.stage = "refused"] /\ UNCHANGED server
       ELSE IF server.capturing
       THEN press' = [press EXCEPT !.stage = "handled"] /\ UNCHANGED server
       ELSE /\ server' = [server EXCEPT !.starting = "page"]
            /\ press' = [press EXCEPT !.stage = "starting"]
    /\ UNCHANGED <<openRow, shown, fetch, expected, spent>>

\* POST /stop waits for a start under way.
StopServed ==
    /\ press.kind = "stop" /\ press.stage = "asked"
    /\ IF server.up
       THEN /\ server.starting = "nobody"
            /\ server' = [server EXCEPT !.capturing = FALSE, !.startedBy = "nobody"]
            /\ openRow' = (openRow /\ ~server.capturing)
            /\ press' = [press EXCEPT !.stage = "handled"]
       ELSE press' = [press EXCEPT !.stage = "refused"] /\ UNCHANGED <<server, openRow>>
    /\ UNCHANGED <<shown, fetch, expected, spent>>

\* The answer is the status once the audit trail has been written.
PressReplied ==
    /\ press.stage = "handled"
    /\ press' = [press EXCEPT !.stage = "answered", !.answer = CurrentStatus]
    /\ UNCHANGED <<server, openRow, shown, fetch, expected, spent>>

\* The interface is opened and the known devices loaded; only then is it capturing.
StartEnds ==
    /\ server.starting # "nobody"
    /\ \E opened \in BOOLEAN :
        /\ server' = IF opened
                     THEN [server EXCEPT !.capturing = TRUE, !.startedBy = server.starting,
                                         !.starting = "nobody", !.interrupted = FALSE]
                     ELSE [server EXCEPT !.starting = "nobody"]
        /\ openRow' = (openRow \/ opened)
        /\ press' = IF press.stage # "starting" THEN press
                    ELSE [press EXCEPT !.stage = IF opened THEN "handled" ELSE "refused"]
    /\ UNCHANGED <<shown, fetch, expected, spent>>

\* Another administrator starts or stops.
OtherPresses ==
    /\ server.up /\ server.starting = "nobody" /\ May("other", MaxOthers)
    /\ IF server.capturing
       THEN /\ server' = [server EXCEPT !.capturing = FALSE, !.startedBy = "nobody"]
            /\ openRow' = FALSE
       ELSE server' = [server EXCEPT !.starting = "other"] /\ UNCHANGED openRow
    /\ UNCHANGED <<shown, fetch, press, expected>>

\* The capture dies under the process, which reports it and leaves the row open.
ReadError ==
    /\ server.capturing /\ May("readError", MaxReadErrors)
    /\ server' = [server EXCEPT !.capturing = FALSE, !.startedBy = "nobody", !.interrupted = TRUE]
    /\ UNCHANGED <<openRow, shown, fetch, press, expected>>

-----------------------------------------------------------------------------
(* A restart. *)

\* Requests under way fail; answers on their way arrive.
ServerDies ==
    /\ server.up /\ May("death", MaxDeaths)
    /\ server' = [server EXCEPT !.up = FALSE, !.capturing = FALSE, !.starting = "nobody",
                                !.startedBy = "nobody"]
    /\ press' = IF press.stage \in {"starting", "handled"}
                THEN [press EXCEPT !.stage = "refused"] ELSE press
    /\ expected' = FALSE
    /\ UNCHANGED <<openRow, shown, fetch>>

\* It listens before it has read what the last process left.
ServerListens ==
    /\ ~server.up
    /\ server' = [server EXCEPT !.up = TRUE, !.boot = "listening", !.interrupted = FALSE,
                                !.attempted = FALSE]
    /\ UNCHANGED <<openRow, shown, fetch, press, expected, spent>>

ReportInterrupted ==
    /\ server.up /\ server.boot = "listening"
    /\ server' = [server EXCEPT !.boot = "reported",
                                !.interrupted = @ \/ (openRow /\ ~server.capturing)]
    /\ UNCHANGED <<openRow, shown, fetch, press, expected, spent>>

\* The attempt is noted, then made, unless someone else's start is under way.
ResumeInterrupted ==
    /\ server.up /\ server.boot = "reported"
    /\ server' =
        IF server.interrupted /\ ~server.capturing
        THEN [server EXCEPT !.boot = "done", !.attempted = TRUE,
                            !.starting = IF @ = "nobody" THEN "resume" ELSE @]
        ELSE [server EXCEPT !.boot = "done"]
    /\ UNCHANGED <<openRow, shown, fetch, press, expected, spent>>

-----------------------------------------------------------------------------
PageNext ==
    \/ PagePoll \/ PageFocus \/ FetchArrives \/ PagePress \/ PressArrives
    \/ FetchServed \/ StartServed \/ StopServed \/ PressReplied \/ StartEnds
    \/ OtherPresses \/ ReadError
    \/ ServerDies \/ ServerListens \/ ReportInterrupted \/ ResumeInterrupted

\* A due request is made, requests and starts end, and a process that died is started
\* again and boots.  Nobody need come back to the window.
PageFairness ==
    /\ WF_pageVars(PagePoll \/ FetchServed \/ FetchArrives)
    /\ WF_pageVars(StartServed \/ StopServed \/ PressReplied \/ PressArrives)
    /\ WF_pageVars(StartEnds)
    /\ WF_pageVars(ServerListens \/ ReportInterrupted \/ ResumeInterrupted)

PageSpec == PageInit /\ [][PageNext]_pageVars /\ PageFairness

-----------------------------------------------------------------------------
\* The variables keep their types.
PageTypeOK ==
    /\ server \in [up : BOOLEAN, boot : {"listening", "reported", "done"}, capturing : BOOLEAN,
                   starting : Starters, startedBy : Starters,
                   interrupted : BOOLEAN, attempted : BOOLEAN]
    /\ shown \in StatusOf /\ openRow \in BOOLEAN /\ expected \in BOOLEAN
    /\ fetch \in [stage : {"none", "asked", "answered", "failed"}, answer : StatusOf]
    /\ press \in [kind : {"none", "start", "stop"},
                  stage : {"none", "asked", "starting", "handled", "answered", "refused"},
                  answer : StatusOf]
    /\ spent \in [{"press", "other", "death", "readError"} -> Nat]

\* A capture the page shows as running, or as about to resume, is what the server
\* says; and a capture this page started, and nobody ended, is shown.
PageAtRest ==
    /\ shown.capturing \/ shown.pending => shown = CurrentStatus
    /\ server.capturing /\ server.startedBy = "page" => shown.capturing

\* A page that was expected that a resume is coming shows the resumed capture in the end,
\* and does not stay on Idle "while the capture was in fact running".
ResumeShown ==
    []<>(expected /\ server.capturing /\ server.startedBy = "resume" => shown.capturing)
==============================================================================
