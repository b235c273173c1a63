---------------------------- MODULE FlowCollector ----------------------------
(***************************************************************************)
(* The flow collector's socket and the settings that decide whether and    *)
(* where it listens: saves, the recovery of settings that could not be     *)
(* read, the chain of restarts, and boot's first bind.                     *)
(*                                                                         *)
(* A binding is a port and an address; an address may be a host name, so   *)
(* that binding takes time.  Closing a socket does not: its callback runs  *)
(* before the next event, and what remains of a stop is the flush of its   *)
(* sink.  No setting is pinned by the environment here, see SettingsLayers *)
(* for the layers; the counters and the allowlist are in FlowDatagrams.    *)
(***************************************************************************)
EXTENDS Naturals, Sequences, FiniteSets

CONSTANTS
    Clients,           \* requests that run at a time
    Bindings,          \* port and bindAddress
    DefaultBinding,    \* FLOW_DEFAULTS
    BootMayOverlap,    \* requests may arrive while boot is binding
    MaxPuts,           \* saves in one behaviour
    MaxReadFailures,   \* reads of the row that fail in one behaviour
    MaxSocketErrors,   \* socket errors and failed binds in one behaviour
    Closed             \* no socket, or no bind under way

ASSUME FlowAssumption ==
    /\ DefaultBinding \in Bindings /\ Closed \notin Bindings /\ "boot" \notin Clients
    /\ BootMayOverlap \in BOOLEAN
    /\ MaxPuts \in Nat /\ MaxReadFailures \in Nat /\ MaxSocketErrors \in Nat

VARIABLES
    flowRow,       \* the row of flow_settings
    flowCached,    \* `settings': the resolution in memory
    stale,         \* the last read is known to have failed
    socket,        \* binding of this.socket, which boundTo remembers
    orphans,       \* sockets that are open and not this.socket
    binding,       \* start() awaiting its bind: boot's, and that of a rebind
    chain,         \* restartInFlight: requests whose rebind runs or waits
    stopping,      \* requests whose rebind is flushing the old sink
    request,       \* each client's request
    recovered,     \* history: the cache was last replaced by a GET
    puts, readFailures, socketErrors    \* bounds

bounds == <<puts, readFailures, socketErrors>>
settingsVars == <<flowRow, flowCached, stale, recovered>>
socketVars == <<socket, orphans, binding, chain, stopping>>
flowVars == <<flowRow, flowCached, stale, socket, orphans, binding, chain, stopping,
              request, recovered, puts, readFailures, socketErrors>>

FlowSettings == [enabled : BOOLEAN, at : Bindings]
Defaults == [enabled |-> FALSE, at |-> DefaultBinding]
\* Bodies of PUT: the fields that were edited; the retry button sends none.
PutBodies == {<<>>} \cup [{"enabled"} -> BOOLEAN] \cup [{"at"} -> Bindings]
Patched(settings, body) ==
    [f \in DOMAIN settings |-> IF f \in DOMAIN body THEN body[f] ELSE settings[f]]

Quiet == [stage |-> "idle", before |-> Defaults, body |-> <<>>, saw |-> Defaults, wrote |-> FALSE]
Starts == Clients \cup {"boot"}

FlowTypeOK ==
    /\ flowRow \in FlowSettings /\ flowCached \in FlowSettings /\ stale \in BOOLEAN
    /\ socket \in Bindings \cup {Closed} /\ orphans \in Nat
    /\ binding \in [Starts -> Bindings \cup {Closed}]
    /\ chain \in Seq(Clients) /\ stopping \subseteq Clients
    /\ request \in [Clients -> [stage : {"idle", "saving", "reading", "read", "rebinding",
                                         "recovering", "recovery"},
                                before : FlowSettings, body : PutBodies,
                                saw : FlowSettings, wrote : BOOLEAN]]
    /\ recovered \in BOOLEAN /\ bounds \in Nat \X Nat \X Nat

\* Boot has read the row, or could not and runs on the defaults; the collector
\* is bound accordingly, or its bind has failed, or is still under way.
FlowInit ==
    /\ flowRow \in FlowSettings
    /\ \/ flowCached = flowRow /\ stale = FALSE /\ readFailures = 0
       \/ flowCached = Defaults /\ stale = TRUE /\ readFailures = 1
    /\ \/ /\ flowCached.enabled /\ BootMayOverlap /\ socket = Closed
          /\ binding = [s \in Starts |-> IF s = "boot" THEN flowCached.at ELSE Closed]
          /\ socketErrors = 0
       \/ /\ flowCached.enabled /\ socket = flowCached.at
          /\ binding = [s \in Starts |-> Closed] /\ socketErrors = 0
       \/ /\ socket = Closed /\ binding = [s \in Starts |-> Closed]
          /\ socketErrors = IF flowCached.enabled THEN 1 ELSE 0
    /\ orphans = 0 /\ chain = <<>> /\ stopping = {}
    /\ request = [c \in Clients |-> Quiet]
    /\ recovered = FALSE /\ puts = 0

-----------------------------------------------------------------------------
(* The socket *)

\* start(): nothing if there is a socket; otherwise the settings are read and
\* the bind is awaited.
StartAs(s) ==
    IF socket = Closed THEN binding' = [binding EXCEPT ![s] = flowCached.at]
    ELSE UNCHANGED binding

\* The rebind that has ended answers its request; the next one begins with
\* stop(), which closes whatever socket there is, here `left'.
EndLink(c, left) ==
    LET waiting == IF chain # <<>> /\ c = Head(chain) THEN Tail(chain) ELSE chain IN
    /\ chain' = waiting
    /\ request' = [request EXCEPT ![c] = Quiet]
    /\ IF waiting = <<>> THEN stopping' = stopping \ {c} /\ socket' = left
       ELSE stopping' = (stopping \ {c}) \cup {Head(waiting)} /\ socket' = Closed

\* The start that has ended is that of a rebind, or boot's.
EndStart(s, left) ==
    IF s \in Clients THEN EndLink(s, left)
    ELSE socket' = left /\ UNCHANGED <<chain, request, stopping>>

\* The old sink is flushed: start on what the settings now say, unless off.
StopEnds(c) ==
    /\ c \in stopping
    /\ IF flowCached.enabled /\ socket = Closed
       THEN StartAs(c) /\ stopping' = stopping \ {c} /\ UNCHANGED <<socket, chain, request>>
       ELSE EndLink(c, socket) /\ UNCHANGED binding
    /\ UNCHANGED <<settingsVars, orphans, bounds>>

\* The bind's continuation assigns this.socket, whatever it holds.
BindSucceeds(s) ==
    /\ binding[s] # Closed
    /\ binding' = [binding EXCEPT ![s] = Closed]
    /\ orphans' = orphans + (IF socket = Closed THEN 0 ELSE 1)
    /\ EndStart(s, binding[s])
    /\ UNCHANGED <<settingsVars, bounds>>

\* The port is taken: the new socket is closed and the error is logged.
BindFails(s) ==
    /\ binding[s] # Closed /\ socketErrors < MaxSocketErrors
    /\ socketErrors' = socketErrors + 1
    /\ binding' = [binding EXCEPT ![s] = Closed]
    /\ EndStart(s, socket)
    /\ UNCHANGED <<settingsVars, orphans, puts, readFailures>>

\* An error on the live socket stops the collector.
SocketError ==
    /\ socket # Closed /\ socketErrors < MaxSocketErrors
    /\ socketErrors' = socketErrors + 1 /\ socket' = Closed
    /\ UNCHANGED <<settingsVars, orphans, binding, chain, stopping, request, puts, readFailures>>

\* restartFlowCollector: behind the restarts that run or wait, or at once.
MutantRestart(c) ==
    /\ stopping' = stopping \cup {c} /\ socket' = Closed /\ UNCHANGED chain
Restart(c) ==
    /\ chain' = Append(chain, c)
    /\ IF chain = <<>> THEN stopping' = {c} /\ socket' = Closed
       ELSE UNCHANGED <<stopping, socket>>

-----------------------------------------------------------------------------
(* PUT /settings *)

BeginPut(c, body) ==
    /\ request[c].stage = "idle" /\ puts < MaxPuts
    /\ puts' = puts + 1
    /\ request' = [request EXCEPT ![c] = [Quiet EXCEPT !.stage = "saving", !.body = body,
                                                       !.before = flowCached]]
    /\ UNCHANGED <<settingsVars, socketVars, readFailures, socketErrors>>

\* The transaction of saveFlowSettings writes the fields that differ.
SaveCommits(c) ==
    LET saved == Patched(flowRow, request[c].body) IN
    /\ request[c].stage = "saving"
    /\ flowRow' = saved
    /\ request' = [request EXCEPT ![c].stage = "reading", ![c].wrote = (saved # flowRow)]
    /\ UNCHANGED <<flowCached, stale, recovered, socketVars, bounds>>

\* The database executes the SELECT of refreshFlowSettings, or of a recovery.
RowIsRead(c) ==
    /\ request[c].stage \in {"reading", "recovering"}
    /\ request' = [request EXCEPT ![c].saw = flowRow,
         ![c].stage = IF request[c].stage = "reading" THEN "read" ELSE "recovery"]
    /\ UNCHANGED <<settingsVars, socketVars, bounds>>

MutantBindingOutOfDate == FALSE
BindingOutOfDate == socket # Closed /\ socket # flowCached'.at
Stalled == flowCached'.enabled /\ socket = Closed

\* The rest of the route: restart if a field of the socket has moved, or if the
\* socket is not where the settings say.
Apply(c) ==
    IF request[c].before # flowCached' \/ Stalled \/ BindingOutOfDate
    THEN /\ Restart(c)
         /\ request' = [request EXCEPT ![c] = [Quiet EXCEPT !.stage = "rebinding"]]
         /\ UNCHANGED <<orphans, binding>>
    ELSE /\ request' = [request EXCEPT ![c] = Quiet]
         /\ UNCHANGED socketVars

\* The reply to the SELECT arrives: the cache is replaced.
RereadSucceeds(c) ==
    /\ request[c].stage = "read"
    /\ flowCached' = request[c].saw /\ stale' = FALSE /\ recovered' = FALSE
    /\ Apply(c)
    /\ UNCHANGED <<flowRow, bounds>>

\* After a write that is a 500; without one the route goes on with what it has.
RereadFails(c) ==
    /\ request[c].stage \in {"reading", "read"} /\ readFailures < MaxReadFailures
    /\ readFailures' = readFailures + 1
    /\ stale' = TRUE /\ UNCHANGED flowCached
    /\ IF request[c].wrote
       THEN request' = [request EXCEPT ![c] = Quiet] /\ UNCHANGED <<socketVars, recovered>>
       ELSE Apply(c) /\ recovered' = FALSE
    /\ UNCHANGED <<flowRow, puts, socketErrors>>

-----------------------------------------------------------------------------
(* GET /settings: flowResolutionWithRecovery *)

BeginRecovery(c) ==
    /\ request[c].stage = "idle" /\ stale
    /\ request' = [request EXCEPT ![c].stage = "recovering"]
    /\ UNCHANGED <<settingsVars, socketVars, bounds>>

RecoverySucceeds(c) ==
    /\ request[c].stage = "recovery"
    /\ flowCached' = request[c].saw /\ stale' = FALSE /\ recovered' = TRUE
    /\ request' = [request EXCEPT ![c] = Quiet]
    /\ UNCHANGED <<flowRow, socketVars, bounds>>

RecoveryFails(c) ==
    /\ request[c].stage \in {"recovering", "recovery"} /\ readFailures < MaxReadFailures
    /\ readFailures' = readFailures + 1
    /\ request' = [request EXCEPT ![c] = Quiet]
    /\ UNCHANGED <<settingsVars, socketVars, puts, socketErrors>>

-----------------------------------------------------------------------------
ClientStep(c) ==
    \/ \E body \in PutBodies : BeginPut(c, body)
    \/ SaveCommits(c) \/ RowIsRead(c) \/ RereadSucceeds(c) \/ RereadFails(c)
    \/ BeginRecovery(c) \/ RecoverySucceeds(c) \/ RecoveryFails(c)

FlowNext ==
    \/ SocketError
    \/ \E s \in Starts : BindSucceeds(s) \/ BindFails(s)
    \/ \E c \in Clients : StopEnds(c) \/ ClientStep(c)

FlowSpec == FlowInit /\ [][FlowNext]_flowVars

-----------------------------------------------------------------------------
(* Properties *)

\* Restarts that overlap, with each other and with socket errors, never leave a
\* socket open that nobody will close.
OneSocket == orphans = 0

Calm ==
    /\ \A c \in Clients : request[c].stage = "idle"
    /\ chain = <<>> /\ \A s \in Starts : binding[s] = Closed

\* A save ends: it was restarting, or its re-read needed no restart.
PutAnswered ==
    \E c \in Clients :
        /\ \/ request[c].stage = "rebinding"
           \/ request[c].stage \in {"reading", "read"} /\ (~stale' \/ ~request[c].wrote)
        /\ request'[c].stage = "idle"

\* When a save has been answered, nothing else goes on and the settings in
\* memory say enabled, the collector listens where they say, or this save's bind
\* has just failed.
SaveSettles ==
    [][PutAnswered /\ Calm' /\ ~recovered' /\ flowCached'.enabled =>
         socket' = flowCached'.at
         \/ (socket' = Closed /\ \E c \in Clients : binding[c] # Closed)]_flowVars

\* What flow.routes.ts says of any save, the empty one of the retry button too:
\* it puts the socket back where the settings say it should be.
SavePutsSocketRight ==
    [][PutAnswered /\ Calm' /\ ~recovered' /\ socket' # Closed =>
         flowCached'.enabled /\ socket' = flowCached'.at]_flowVars

\* Statements are answered, sinks flushed and binds end.
FlowFairness ==
    /\ \A c \in Clients : WF_flowVars(StopEnds(c) \/ BindSucceeds(c) \/ BindFails(c))
    /\ \A c \in Clients : WF_flowVars(SaveCommits(c) \/ RowIsRead(c)
                                      \/ RereadSucceeds(c) \/ RereadFails(c))

\* What always comes again: every save has been answered.
FlowAtRest == \A c \in Clients : request[c].stage \notin {"saving", "reading", "read", "rebinding"}
-----------------------------------------------------------------------------
(* What the proofs rest on *)

\* Restarts take turns: the first of the chain alone stops and starts, and while there is
\* one nothing is bound.
RestartsOK ==
    /\ \A i, j \in DOMAIN chain : chain[i] = chain[j] => i = j
    /\ \A i \in DOMAIN chain : request[chain[i]].stage = "rebinding"
    /\ chain # <<>> => socket = Closed
    /\ \A c \in Clients :
        c \in stopping \/ binding[c] # Closed => chain # <<>> /\ c = Head(chain)
    /\ \A c \in stopping : binding[c] = Closed
    /\ binding["boot"] = Closed

\* The last restart binds where the settings are, those of a recovery left aside.
BindOK ==
    \A c \in Clients :
        binding[c] # Closed /\ Len(chain) = 1 /\ ~recovered /\ flowCached.enabled
            => binding[c] = flowCached.at

FlowInv == FlowTypeOK /\ RestartsOK /\ BindOK /\ OneSocket
==============================================================================
