---------------------------- MODULE AdhocConsole -----------------------------
(***************************************************************************)
(* The query console: its settings, the pool it runs on, the two database  *)
(* roles it may log in as, and the audit entries of its statements.        *)
(*                                                                         *)
(* A role's login is the password it was given, or NoPassword.  What a     *)
(* statement does is left out; it matters only whether it ran as the role  *)
(* that may write.  Requests of one process interleave at their awaits;    *)
(* saves and rechecks are not serialised with one another.                 *)
(***************************************************************************)
EXTENDS Naturals, FiniteSets

CONSTANTS
    Callers,           \* requests that run at a time
    Passwords,         \* values of dbPassword
    NoPassword,        \* the empty one
    ConsolePatches,    \* bodies of PUT /settings
    MaxCalls,          \* requests in one behaviour
    MaxFaults          \* statements of the console that fail in one behaviour

Modes == {"read", "write"}
ConsoleSettings == [enabled : BOOLEAN, writeEnabled : BOOLEAN, audit : {"off", "refused", "all"},
                    dbPassword : Passwords \cup {NoPassword}]

ASSUME ConsoleAssumption ==
    /\ NoPassword \notin Passwords
    /\ \A p \in ConsolePatches : \E s \in ConsoleSettings : \A f \in DOMAIN p : f \in DOMAIN s
    /\ MaxCalls \in Nat /\ MaxFaults \in Nat

VARIABLES
    consoleRow,    \* the row of adhoc_settings
    consoleCached, \* the resolved settings
    console,       \* pool: the role and password it was opened with
    activeMode,
    offReason,     \* why the last start left it off
    login,         \* password each role can log in with
    call,          \* each caller's request
    \* history
    unaudited,     \* statements run as the writing role without an earlier entry
    overlapped,    \* two starts or stops have run at the same time
    leftBehind,    \* roles whose login a failed start or a failed revoke has left
    calls, faults  \* bounds

NoPool == [mode |-> "read", password |-> NoPassword]
ConsoleDefaults == [enabled |-> FALSE, writeEnabled |-> FALSE, audit |-> "all", dbPassword |-> NoPassword]
NoConsoleCall == [stage |-> "idle", patch |-> <<>>, before |-> ConsoleDefaults, saw |-> ConsoleDefaults,
           mode |-> "read", password |-> NoPassword, audited |-> FALSE]

consoleVars == <<consoleRow, consoleCached, console, activeMode, offReason, login, call, unaudited,
                 overlapped, leftBehind, calls, faults>>

Other(mode) == IF mode = "write" THEN "read" ELSE "write"
Restarting == {"ending", "looking", "granting", "proving", "revokingIdle", "undoing",
               "revokingRead", "revokingWrite"}

ConsoleTypeOK ==
    /\ consoleRow \in ConsoleSettings /\ consoleCached \in ConsoleSettings
    /\ console \in [mode : Modes, password : Passwords \cup {NoPassword}]
    /\ activeMode \in Modes /\ offReason \in {"none", "disabled", "no-password", "sandbox-failed"}
    /\ login \in [Modes -> Passwords \cup {NoPassword}]
    /\ \A c \in Callers :
        /\ call[c].stage \in Restarting \cup {"idle", "saving", "changed", "reloading", "reloaded",
                                              "recording", "running", "recordingRefusal"}
        /\ call[c].before \in ConsoleSettings /\ call[c].saw \in ConsoleSettings
        /\ call[c].mode \in Modes /\ call[c].audited \in BOOLEAN
    /\ unaudited \in Nat /\ overlapped \in BOOLEAN /\ leftBehind \subseteq Modes
    /\ calls \in 0..MaxCalls /\ faults \in 0..MaxFaults

Running == console # NoPool
\* write mode forces the audit of every statement: effectiveAdhocSettings
Effective(s) == [s EXCEPT !.audit = IF s.writeEnabled THEN "all" ELSE @]
OpenFor(s) == IF s.enabled /\ s.dbPassword # NoPassword
              THEN [mode |-> IF s.writeEnabled THEN "write" ELSE "read", password |-> s.dbPassword]
              ELSE NoPool
OffReasonFor(s) == CASE ~s.enabled -> "disabled"
                     [] s.enabled /\ s.dbPassword = NoPassword -> "no-password"
                     [] OTHER -> "none"
IsPools(mode) == Running /\ console.mode = mode
\* Of the roles that are not the pool's, boot's own revokes may have left some a login.
LoginFor(left, password) ==
    [m \in Modes |-> IF IsPools(m) THEN console.password ELSE IF m \in left THEN password ELSE NoPassword]

\* Boot has read the row and has started the console, if it is to run.
ConsoleInit ==
    /\ consoleRow \in ConsoleSettings /\ consoleCached = Effective(consoleRow)
    /\ console = OpenFor(consoleRow)
    /\ activeMode = (IF Running THEN console.mode ELSE "read")
    /\ offReason = OffReasonFor(consoleRow)
    /\ leftBehind \in SUBSET {m \in Modes : ~IsPools(m)}
    /\ faults = (IF leftBehind = {} THEN 0 ELSE 1) /\ faults <= MaxFaults
    /\ \E password \in Passwords : login = LoginFor(leftBehind, password)
    /\ call = [c \in Callers |-> NoConsoleCall]
    /\ unaudited = 0 /\ overlapped = FALSE /\ calls = 0

-----------------------------------------------------------------------------
At(c, stage) == call[c].stage = stage
Goes(c, stage) == call' = [call EXCEPT ![c].stage = stage]
Returns(c) == call' = [call EXCEPT ![c] = NoConsoleCall]
Arrives(c) == At(c, "idle") /\ calls < MaxCalls /\ calls' = calls + 1
Fault == faults < MaxFaults /\ faults' = faults + 1
loginUnchanged == UNCHANGED <<login, leftBehind>>
settingsUnchanged == UNCHANGED <<consoleRow, consoleCached>>
poolUnchanged == UNCHANGED <<console, activeMode, offReason>>
boundsUnchanged == UNCHANGED <<unaudited, overlapped, calls, faults>>

\* startAdhoc up to its first await; `to' is the request as it was.
Entering(c, to) ==
    LET off == OffReasonFor(consoleCached) IN
    IF off = "none"
    THEN call' = [call EXCEPT ![c] = [to EXCEPT !.stage = "looking", !.password = consoleCached.dbPassword]]
         /\ UNCHANGED offReason
    ELSE call' = [call EXCEPT ![c] = [to EXCEPT !.stage = "revokingRead"]] /\ offReason' = off

\* Somebody else is between the first and the last step of a stop or a start.
Overlaps(c) == overlapped' = (overlapped \/ \E d \in Callers \ {c} : call[d].stage \in Restarting)

-----------------------------------------------------------------------------
(* startAdhoc *)

\* The name of the database has arrived; the mode is read only now.
LookUp(c) ==
    /\ At(c, "looking")
    /\ call' = [call EXCEPT ![c].stage = "granting",
                            ![c].mode = IF consoleCached.writeEnabled THEN "write" ELSE "read"]
    /\ settingsUnchanged /\ poolUnchanged /\ boundsUnchanged /\ loginUnchanged

\* ALTER ROLE ... LOGIN PASSWORD, once the role is known not to be a superuser.
Grant(c) ==
    /\ At(c, "granting")
    /\ login' = [login EXCEPT ![call[c].mode] = call[c].password]
    /\ leftBehind' = leftBehind \ {call[c].mode}
    /\ Goes(c, "proving")
    /\ settingsUnchanged /\ poolUnchanged /\ boundsUnchanged

\* The candidate connects, proves its sandbox, and becomes the pool.
Prove(c) ==
    /\ At(c, "proving") /\ login[call[c].mode] = call[c].password
    /\ console' = [mode |-> call[c].mode, password |-> call[c].password]
    /\ activeMode' = call[c].mode
    /\ Goes(c, "revokingIdle")
    /\ settingsUnchanged /\ boundsUnchanged /\ loginUnchanged /\ UNCHANGED offReason

\* Those of some roles that can log in.
CanLogIn(modes) == {m \in modes : login[m] # NoPassword}

\* A step failed: no pool, and what was granted is taken back.  What the roles could do
\* before this start, they still can.
StartFails(c) ==
    /\ \/ call[c].stage \in {"looking", "granting", "proving"} /\ Fault
       \/ At(c, "proving") /\ login[call[c].mode] # call[c].password /\ UNCHANGED faults
    /\ console' = NoPool /\ offReason' = "sandbox-failed"
    /\ IF At(c, "proving")
       THEN Goes(c, "undoing") /\ leftBehind' = leftBehind \cup CanLogIn({Other(call[c].mode)})
       ELSE Returns(c) /\ leftBehind' = leftBehind \cup CanLogIn(Modes)
    /\ settingsUnchanged /\ UNCHANGED <<activeMode, login, unaudited, overlapped, calls>>

\* revokeLogin is best effort: a statement of it may fail, and the login stays.
Revoked(mode) ==
    /\ login' = [login EXCEPT ![mode] = NoPassword] /\ leftBehind' = leftBehind \ {mode}
    /\ UNCHANGED faults
RevokesNone(modes) == Fault /\ leftBehind' = leftBehind \cup CanLogIn(modes) /\ UNCHANGED login
Revokes(mode) == Revoked(mode) \/ RevokesNone({mode})
revokeUnchanged == settingsUnchanged /\ UNCHANGED <<unaudited, overlapped, calls>>

\* The role of the other mode loses its login.
RevokeIdle(c) ==
    /\ At(c, "revokingIdle")
    /\ Revokes(Other(call[c].mode)) /\ Returns(c) /\ offReason' = "none"
    /\ revokeUnchanged /\ UNCHANGED <<console, activeMode>>

Undo(c) ==
    /\ At(c, "undoing")
    /\ Revokes(call[c].mode) /\ Returns(c)
    /\ revokeUnchanged /\ poolUnchanged

\* revokeAdhocLogin: both roles, one after the other, unless its own look-up of the
\* database fails.
RevokeRead(c) ==
    /\ At(c, "revokingRead")
    /\ Revokes("read") /\ Goes(c, "revokingWrite")
    /\ revokeUnchanged /\ poolUnchanged
RevokeNeither(c) ==
    /\ At(c, "revokingRead")
    /\ RevokesNone(Modes) /\ Returns(c)
    /\ revokeUnchanged /\ poolUnchanged
RevokeWrite(c) ==
    /\ At(c, "revokingWrite")
    /\ Revokes("write") /\ Returns(c)
    /\ revokeUnchanged /\ poolUnchanged

-----------------------------------------------------------------------------
(* PUT /settings *)

BeginConsolePut(c, patch) ==
    /\ Arrives(c)
    /\ call' = [call EXCEPT ![c] = [NoConsoleCall EXCEPT !.stage = "saving", !.patch = patch,
                                                         !.before = consoleCached]]
    /\ settingsUnchanged /\ poolUnchanged /\ UNCHANGED <<login, leftBehind, unaudited, overlapped, faults>>

\* The transaction reads the row and keeps the fields that differ.
Differing(patch) == [f \in {f \in DOMAIN patch : patch[f] # consoleRow[f]} |-> patch[f]]
SaveSelects(c) ==
    /\ At(c, "saving")
    /\ call' = [call EXCEPT ![c].stage = IF DOMAIN Differing(call[c].patch) = {} THEN "reloading" ELSE "changed",
                            ![c].patch = Differing(@)]
    /\ settingsUnchanged /\ poolUnchanged /\ boundsUnchanged /\ loginUnchanged

\* Upsert, audit entry, COMMIT.
SaveUpserts(c) ==
    /\ At(c, "changed")
    /\ consoleRow' = [f \in DOMAIN consoleRow |->
                        IF f \in DOMAIN call[c].patch THEN call[c].patch[f] ELSE consoleRow[f]]
    /\ Goes(c, "reloading")
    /\ poolUnchanged /\ boundsUnchanged /\ UNCHANGED <<consoleCached, login, leftBehind>>

LoadSelects(c) ==
    /\ At(c, "reloading")
    /\ call' = [call EXCEPT ![c].stage = "reloaded", ![c].saw = consoleRow]
    /\ settingsUnchanged /\ poolUnchanged /\ boundsUnchanged /\ loginUnchanged

\* stopAdhoc, up to the end of the old pool, if what the console is has changed.
StopOrReturn(c) ==
    IF \E f \in {"enabled", "writeEnabled", "dbPassword"} : call[c].before[f] # consoleCached'[f]
    THEN /\ console' = NoPool /\ activeMode' = "read" /\ UNCHANGED offReason
         /\ call' = [call EXCEPT ![c] = [NoConsoleCall EXCEPT !.stage = "ending"]]
         /\ Overlaps(c)
    ELSE Returns(c) /\ poolUnchanged /\ UNCHANGED overlapped

Load(c) ==
    /\ At(c, "reloaded")
    /\ consoleCached' = Effective(call[c].saw)
    /\ StopOrReturn(c)
    /\ UNCHANGED <<consoleRow, login, leftBehind, unaudited, calls, faults>>

\* A row that cannot be read counts as the environment and the defaults.
LoadFallsBack(c) ==
    /\ call[c].stage \in {"reloading", "reloaded"} /\ Fault
    /\ consoleCached' = ConsoleDefaults
    /\ StopOrReturn(c)
    /\ UNCHANGED <<consoleRow, login, leftBehind, unaudited, calls>>

\* The old pool has ended, with the statements that ran on it.
OldPoolEnds(c) ==
    /\ At(c, "ending")
    /\ Entering(c, call[c])
    /\ settingsUnchanged /\ boundsUnchanged /\ UNCHANGED <<console, activeMode, login, leftBehind>>

\* POST /recheck, which leaves a running console alone.
Recheck(c) ==
    /\ Arrives(c) /\ ~Running
    /\ Entering(c, NoConsoleCall) /\ Overlaps(c)
    /\ settingsUnchanged /\ UNCHANGED <<console, activeMode, login, leftBehind, unaudited, faults>>

-----------------------------------------------------------------------------
(* POST /query *)

\* What is recorded is judged by what the writing role forces, not only by what was saved.
CurrentAuditMode == IF Running /\ activeMode = "write" THEN "all" ELSE consoleCached.audit

\* runAdhocQuery up to its first await: pool and mode are read together.
RunStatement(c, audited) ==
    /\ call' = [call EXCEPT ![c] = IF Running
                                   THEN [NoConsoleCall EXCEPT !.stage = "running", !.audited = audited]
                                   ELSE NoConsoleCall]
    /\ unaudited' = unaudited + (IF Running /\ console.mode = "write" /\ activeMode = "write" /\ ~audited
                                 THEN 1 ELSE 0)

\* The entry is awaited before the statement runs, or the statement runs at once.
Query(c) ==
    /\ Arrives(c) /\ Running
    /\ IF CurrentAuditMode = "all" THEN Goes(c, "recording") /\ UNCHANGED unaudited
       ELSE RunStatement(c, FALSE)
    /\ settingsUnchanged /\ poolUnchanged /\ UNCHANGED <<login, leftBehind, overlapped, faults>>

Recorded(c) ==
    /\ At(c, "recording")
    /\ RunStatement(c, TRUE)
    /\ settingsUnchanged /\ poolUnchanged /\ UNCHANGED <<login, leftBehind, overlapped, calls, faults>>

\* Without the entry there is no statement.
RecordFails(c) ==
    /\ call[c].stage \in {"recording", "recordingRefusal"} /\ Fault
    /\ Returns(c)
    /\ settingsUnchanged /\ poolUnchanged /\ UNCHANGED <<login, leftBehind, unaudited, overlapped, calls>>

StatementEnds(c) ==
    /\ At(c, "running")
    /\ \/ Returns(c)
       \/ CurrentAuditMode = "refused" /\ Goes(c, "recordingRefusal")
    /\ settingsUnchanged /\ poolUnchanged /\ boundsUnchanged /\ loginUnchanged

RefusalRecorded(c) ==
    /\ At(c, "recordingRefusal") /\ Returns(c)
    /\ settingsUnchanged /\ poolUnchanged /\ boundsUnchanged /\ loginUnchanged

-----------------------------------------------------------------------------
CallerStep(c) ==
    \/ LookUp(c) \/ Grant(c) \/ Prove(c) \/ StartFails(c)
    \/ RevokeIdle(c) \/ Undo(c) \/ RevokeRead(c) \/ RevokeNeither(c) \/ RevokeWrite(c)
    \/ \E patch \in ConsolePatches : BeginConsolePut(c, patch)
    \/ SaveSelects(c) \/ SaveUpserts(c) \/ LoadSelects(c) \/ Load(c) \/ LoadFallsBack(c)
    \/ OldPoolEnds(c) \/ Recheck(c)
    \/ Query(c) \/ Recorded(c) \/ RecordFails(c) \/ StatementEnds(c) \/ RefusalRecorded(c)

ConsoleNext == \E c \in Callers : CallerStep(c)

ConsoleSpec == ConsoleInit /\ [][ConsoleNext]_consoleVars

-----------------------------------------------------------------------------
(* Properties *)

\* A statement that runs as the writing role has its audit entry first, however
\* saves loosen the audit and move the pool in the meantime.
WritesAudited == unaudited = 0

\* Unless restarts have overlapped: once no restart is in progress the pool's role has
\* its password, and any other role that can log in was left so by a start that failed
\* or a revoke that did, at boot or later, and by nothing else.
LoginFollowsConsole ==
    (~overlapped /\ \A c \in Callers : call[c].stage \notin Restarting) =>
        \A m \in Modes : IF IsPools(m) THEN login[m] = console.password
                         ELSE login[m] # NoPassword => m \in leftBehind

\* Whoever may use the console, with which role, and what is written down first.
ConsoleSafety == WritesAudited /\ LoginFollowsConsole
-----------------------------------------------------------------------------
(* What the proofs rest on *)

IsRestarting(c) == call[c].stage \in Restarting

CallsOK ==
    /\ DOMAIN call = Callers
    /\ \A c \in Callers : {"stage", "mode", "password"} \subseteq DOMAIN call[c] /\ call[c].mode \in Modes
    /\ login = [m \in Modes |-> login[m]]

\* Where no two restarts overlapped there is one at most, and nobody else touches the pool
\* and the roles; by its last step they agree.
LeftOrNone(mode) == login[mode] # NoPassword => mode \in leftBehind
OneRestartAtATime ==
    ~overlapped =>
        /\ \A c, d \in Callers : IsRestarting(c) /\ IsRestarting(d) => c = d
        /\ (\A c \in Callers : ~IsRestarting(c)) =>
            \A m \in Modes : IF IsPools(m) THEN login[m] = console.password ELSE LeftOrNone(m)
        /\ \A c \in Callers :
            /\ IsRestarting(c) /\ ~At(c, "revokingIdle") => console = NoPool
            /\ At(c, "revokingIdle") => /\ console = [mode |-> call[c].mode, password |-> call[c].password]
                                       /\ login[call[c].mode] = call[c].password
            /\ At(c, "revokingWrite") => LeftOrNone("read")
            /\ At(c, "undoing") => LeftOrNone(Other(call[c].mode))

ConsoleInv == CallsOK /\ WritesAudited /\ OneRestartAtATime
==============================================================================
