----------------------------- MODULE Retention -----------------------------
(***************************************************************************)
(* How findings and devices leave the database: the retention sweep        *)
(* (retention.service.ts), retiring a sensor (sensor.service.ts) and the   *)
(* operator's deletions (alert.service.ts), run by several API processes   *)
(* that share the database and serialise on one advisory lock.             *)
(*                                                                         *)
(* The database is at READ COMMITTED: each statement of a transaction is   *)
(* an action that reads what is committed when it runs, the effects become *)
(* visible at COMMIT, and a statement that needs a row which an open       *)
(* transaction has deleted waits for it.                                   *)
(*                                                                         *)
(* An alert row is a sensor and an alert window: the key of the upsert.    *)
(* `rollup' keeps, for each of them, the occurrences that have been folded *)
(* into the daily buckets of that sensor; a bucket is a sum of those.      *)
(* Times count from some moment.  Left out: severities and kinds, and the  *)
(* capture_session row, which a decommission deletes along with the rest.  *)
(***************************************************************************)
EXTENDS Integers, FiniteSets

CONSTANTS
    Processes, Sensors, Devices,
    Own,            \* SENSOR_ID of each process
    Learned,        \* devices known at time 0, each with its sensor
    NoOne,          \* the lock is free
    Retain,         \* ALERT_RETENTION_DAYS
    DeviceRetain,   \* DEVICE_RETENTION_DAYS
    DayLength,      \* one UTC day
    AlertWindow,    \* DETECT_ALERT_WINDOW_MS
    ActiveWindow,   \* ACTIVE_WINDOW_MS
    MaxLag,         \* how old the time of a finding may be when its row is written
    MaxClock,       \* bound on time
    MaxFindings, MaxSightings, \* bounds on what the sensors write
    MaxIncidents    \* bound on failing statements, restarts and decommissions together

ASSUME ConstantsAssumption ==
    /\ Own \in [Processes -> Sensors] /\ Learned \subseteq Sensors \X Devices
    /\ Retain \in Nat /\ DeviceRetain \in Nat /\ MaxLag \in Nat /\ MaxClock \in Nat
    /\ DayLength \in Nat \ {0} /\ AlertWindow \in Nat \ {0}
    /\ ActiveWindow \in 0..Retain
    /\ MaxFindings \in Nat /\ MaxSightings \in Nat /\ MaxIncidents \in Nat
    /\ NoOne \notin {"sweep", "request"} \X Processes

VARIABLES
    clock,
    alerts, rollup,  \* rows and occurrences already folded, by alert
    devices,         \* last_seen of each device of each sensor
    lock,            \* who holds ALERT_ROLLUP_LOCK_KEY
    sweep,           \* the sweep of each process
    request,         \* the decommission each process is serving
    phase, timers,   \* of each process: where shutdown is, and what is scheduled
    budget,          \* what has been used of each bound
    \* history
    recorded,        \* occurrences written, by alert
    dismissed,       \* occurrences an operator deleted
    status           \* whether a sensor has been retired and has written nothing since

dbVars == <<alerts, rollup, devices>>
history == <<recorded, dismissed, status>>
vars == <<clock, dbVars, lock, sweep, request, phase, timers, budget, history>>

Times == 0..MaxClock
WindowOf(t) == t \div AlertWindow
DayOf(t) == t \div DayLength
Keys == Sensors \X {WindowOf(t) : t \in Times}
Absent == -1

NoRow == [occurrences |-> 0, lastSeen |-> 0]
NoSweep == [stage |-> "idle", cutoff |-> 0, days |-> {}, taken |-> [k \in Keys |-> 0], gone |-> {}]
NoRequest(s) == [step |-> "idle", sensor |-> s, alerts |-> {}, devices |-> {}, buckets |-> {}]

Locked == {"list", "aggregate", "delete", "commit", "devices", "unlock"}
Holders == {"sweep", "request"} \X Processes

Rows == [occurrences : Nat, lastSeen : Times]
Sweeps == [stage : Locked \cup {"idle", "lock"}, cutoff : Int, days : SUBSET Int,
           taken : [Keys -> Nat], gone : SUBSET Keys]
Requests == [step : {"idle", "check", "alerts", "devices", "rollup", "commit"}, sensor : Sensors,
             alerts : SUBSET Keys, devices : SUBSET Devices, buckets : SUBSET Keys]

TypeOK ==
    /\ clock \in Times
    /\ alerts \in [Keys -> Rows]
    /\ rollup \in [Keys -> Nat]
    /\ devices \in [Sensors -> [Devices -> Times \cup {Absent}]]
    /\ lock \in Holders \cup {NoOne}
    /\ sweep \in [Processes -> Sweeps]
    /\ request \in [Processes -> Requests]
    /\ phase \in [Processes -> {"up", "stopping", "draining", "down"}]
    /\ timers \in [Processes -> SUBSET {"interval", "first"}]
    /\ budget \in [findings : Nat, sightings : Nat, incidents : Nat]
    /\ recorded \in [Keys -> Nat] /\ dismissed \in [Keys -> Nat]
    /\ status \in [Sensors -> {"live", "retiring", "retired"}]

Init ==
    /\ clock = 0
    /\ alerts = [k \in Keys |-> NoRow] /\ rollup = [k \in Keys |-> 0]
    /\ devices = [s \in Sensors |-> [d \in Devices |-> IF <<s, d>> \in Learned THEN 0 ELSE Absent]]
    /\ lock = NoOne
    /\ sweep = [p \in Processes |-> NoSweep]
    /\ request = [p \in Processes |-> NoRequest(Own[p])]
    /\ phase = [p \in Processes |-> "up"]
    /\ timers = [p \in Processes |-> {"interval", "first"}]
    /\ budget = [findings |-> 0, sightings |-> 0, incidents |-> 0]
    /\ recorded = [k \in Keys |-> 0] /\ dismissed = [k \in Keys |-> 0]
    /\ status = [s \in Sensors |-> "live"]

Tick ==
    /\ clock < MaxClock
    /\ clock' = clock + 1
    /\ UNCHANGED <<dbVars, lock, sweep, request, phase, timers, budget, history>>

Spend(what, limit) ==
    /\ budget[what] < limit
    /\ budget' = [budget EXCEPT ![what] = @ + 1]

-----------------------------------------------------------------------------
(* What the sensors and the operators write *)

Stored == {k \in Keys : alerts[k].occurrences > 0}

\* Rows that an open transaction has deleted: whoever needs one waits.
Held == UNION {sweep[p].gone \cup request[p].alerts : p \in Processes}

\* A sink writes a finding of time t: a new row, or one more occurrence.
RecordFinding(s, t) ==
    LET k == <<s, WindowOf(t)>>
        row == alerts[k]
    IN /\ t <= clock /\ clock - t <= MaxLag
       /\ k \notin Held
       /\ Spend("findings", MaxFindings)
       /\ alerts' = [alerts EXCEPT ![k] =
            [occurrences |-> row.occurrences + 1,
             lastSeen |-> IF row.occurrences > 0 /\ row.lastSeen > t THEN row.lastSeen ELSE t]]
       /\ recorded' = [recorded EXCEPT ![k] = @ + 1]
       /\ status' = [status EXCEPT ![s] = "live"]
       /\ UNCHANGED <<clock, rollup, devices, lock, sweep, request, phase, timers, dismissed>>

RecordDevice(s, d) ==
    /\ \A p \in Processes : request[p].sensor = s => d \notin request[p].devices
    /\ Spend("sightings", MaxSightings)
    /\ devices' = [devices EXCEPT ![s][d] = clock]
    /\ status' = [status EXCEPT ![s] = "live"]
    /\ UNCHANGED <<clock, alerts, rollup, lock, sweep, request, phase, timers, recorded, dismissed>>

\* An operator deletes one finding, or all of them.
DeleteAlerts(K) ==
    /\ K # {} /\ K \cap Held = {}
    /\ alerts' = [k \in Keys |-> IF k \in K THEN NoRow ELSE alerts[k]]
    /\ dismissed' = [k \in Keys |->
                       IF k \in K THEN dismissed[k] + alerts[k].occurrences ELSE dismissed[k]]
    /\ UNCHANGED <<clock, rollup, devices, lock, sweep, request, phase, timers, budget, recorded,
                   status>>

DeleteAlert == \E k \in Stored : DeleteAlerts({k})
DeleteAllAlerts == DeleteAlerts(Stored)

-----------------------------------------------------------------------------
(* The retention sweep *)

\* sweepRetention(): nothing happens when this process is sweeping already.
SweepRetention(p) ==
    sweep' = IF sweep[p].stage = "idle"
               THEN [sweep EXCEPT ![p].stage = "lock", ![p].cutoff = clock - Retain]
               ELSE sweep

\* The interval is an hour at least, the first sweep comes after a minute.
IntervalFires(p) ==
    /\ timers[p] = {"interval"} /\ sweep[p].stage = "idle"
    /\ SweepRetention(p)
    /\ UNCHANGED <<clock, dbVars, lock, request, phase, timers, budget, history>>

FirstSweepFires(p) ==
    /\ "first" \in timers[p]
    /\ timers' = [timers EXCEPT ![p] = @ \ {"first"}]
    /\ SweepRetention(p)
    /\ UNCHANGED <<clock, dbVars, lock, request, phase, budget, history>>

\* pg_try_advisory_lock: a sweep that does not get it gives up.
TryLock(p) ==
    /\ sweep[p].stage = "lock"
    /\ \/ /\ lock = NoOne
          /\ lock' = <<"sweep", p>>
          /\ sweep' = [sweep EXCEPT ![p].stage = "list"]
       \/ /\ lock # NoOne
          /\ sweep' = [sweep EXCEPT ![p] = NoSweep]
          /\ UNCHANGED lock
    /\ UNCHANGED <<clock, dbVars, request, phase, timers, budget, history>>

Expired(p) == {k \in Stored : alerts[k].lastSeen < sweep[p].cutoff}
NextStage(days) == IF days = {} THEN "devices" ELSE "aggregate"

ExpiredDays(p) ==
    LET days == {DayOf(alerts[k].lastSeen) : k \in Expired(p)}
    IN /\ sweep[p].stage = "list"
       /\ sweep' = [sweep EXCEPT ![p].days = days, ![p].stage = NextStage(days)]
       /\ UNCHANGED <<clock, dbVars, lock, request, phase, timers, budget, history>>

\* The day being worked on, oldest first, and its rows as they are committed now.
IsCurrent(p, d) == d \in sweep[p].days /\ \A e \in sweep[p].days : d <= e
DayRows(p, d) == {k \in Expired(p) : DayOf(alerts[k].lastSeen) = d}

AggregateDay(p) ==
    \E d \in sweep[p].days :
       /\ sweep[p].stage = "aggregate" /\ IsCurrent(p, d)
       /\ sweep' = [sweep EXCEPT ![p].stage = "delete",
                      ![p].taken = [k \in Keys |->
                         IF k \in DayRows(p, d) THEN alerts[k].occurrences ELSE 0]]
       /\ UNCHANGED <<clock, dbVars, lock, request, phase, timers, budget, history>>

DeleteDay(p) ==
    \E d \in sweep[p].days :
       /\ sweep[p].stage = "delete" /\ IsCurrent(p, d)
       /\ DayRows(p, d) \cap Held = {}
       /\ sweep' = [sweep EXCEPT ![p].stage = "commit", ![p].gone = DayRows(p, d)]
       /\ UNCHANGED <<clock, dbVars, lock, request, phase, timers, budget, history>>

\* The loop goes on with the next day.
AfterDay(p, d) ==
    [NoSweep EXCEPT !.stage = NextStage(sweep[p].days \ {d}), !.cutoff = sweep[p].cutoff,
                    !.days = sweep[p].days \ {d}]

CommitDay(p) ==
    \E d \in sweep[p].days :
       /\ sweep[p].stage = "commit" /\ IsCurrent(p, d)
       /\ rollup' = [k \in Keys |-> rollup[k] + sweep[p].taken[k]]
       /\ alerts' = [k \in Keys |-> IF k \in sweep[p].gone THEN NoRow ELSE alerts[k]]
       /\ sweep' = [sweep EXCEPT ![p] = AfterDay(p, d)]
       /\ UNCHANGED <<clock, devices, lock, request, phase, timers, budget, history>>

\* (mutant: the buckets are not written in the day's transaction)
MutantDayFails(p) ==
    \E d \in sweep[p].days :
       /\ sweep[p].stage \in {"delete", "commit"} /\ IsCurrent(p, d)
       /\ Spend("incidents", MaxIncidents)
       /\ rollup' = [k \in Keys |-> rollup[k] + sweep[p].taken[k]]
       /\ sweep' = [sweep EXCEPT ![p] = AfterDay(p, d)]
       /\ UNCHANGED <<clock, alerts, devices, lock, request, phase, timers, history>>

\* One statement of the day fails: it is rolled back, and the others go on.
DayFails(p) ==
    \E d \in sweep[p].days :
       /\ sweep[p].stage \in {"aggregate", "delete", "commit"} /\ IsCurrent(p, d)
       /\ Spend("incidents", MaxIncidents)
       /\ sweep' = [sweep EXCEPT ![p] = AfterDay(p, d)]
       /\ UNCHANGED <<clock, dbVars, lock, request, phase, timers, history>>

Known(s) == {d \in Devices : devices[s][d] # Absent}

\* (mutant: the window counted from the wall clock)
MutantStale(s) == {d \in Known(s) : devices[s][d] < clock - DeviceRetain}

\* Older than the window, counted from the newest sighting of the same sensor.
Stale(s) == {d \in Known(s) : \E e \in Known(s) : devices[s][d] < devices[s][e] - DeviceRetain}

ForgetStaleDevices(p) ==
    /\ sweep[p].stage = "devices"
    /\ devices' = [s \in Sensors |->
                     [d \in Devices |-> IF d \in Stale(s) THEN Absent ELSE devices[s][d]]]
    /\ sweep' = [sweep EXCEPT ![p].stage = "unlock"]
    /\ UNCHANGED <<clock, alerts, rollup, lock, request, phase, timers, budget, history>>

\* A statement outside the days fails: the sweep ends.
SweepFails(p) ==
    /\ sweep[p].stage \in {"lock", "list", "devices"}
    /\ Spend("incidents", MaxIncidents)
    /\ sweep' = [sweep EXCEPT ![p] =
                   IF @.stage = "lock" THEN NoSweep ELSE [NoSweep EXCEPT !.stage = "unlock"]]
    /\ UNCHANGED <<clock, dbVars, lock, request, phase, timers, history>>

\* Should the unlock fail, the session keeps the lock until its connection is closed.
Unlock(p) ==
    /\ sweep[p].stage = "unlock"
    /\ \/ lock' = NoOne /\ UNCHANGED budget
       \/ Spend("incidents", MaxIncidents) /\ UNCHANGED lock
    /\ sweep' = [sweep EXCEPT ![p] = NoSweep]
    /\ UNCHANGED <<clock, dbVars, request, phase, timers, history>>

ConnectionClosed(p) ==
    /\ lock = <<"sweep", p>> /\ sweep[p].stage \in {"idle", "lock"}
    /\ lock' = NoOne
    /\ UNCHANGED <<clock, dbVars, sweep, request, phase, timers, budget, history>>

-----------------------------------------------------------------------------
(* Retiring a sensor: one transaction *)

\* pg_try_advisory_xact_lock; refused for the process's own sensor.
BeginDecommission(p, s) ==
    /\ phase[p] \in {"up", "stopping"} /\ request[p].step = "idle"
    /\ s # Own[p]
    /\ lock = NoOne
    /\ Spend("incidents", MaxIncidents)
    /\ lock' = <<"request", p>>
    /\ request' = [request EXCEPT ![p] = [NoRequest(s) EXCEPT !.step = "check"]]
    /\ UNCHANGED <<clock, dbVars, sweep, phase, timers, history>>

\* Written recently.  What was rolled up is older than Retain.
Active(s) ==
    \/ \E k \in Stored : k[1] = s /\ clock - alerts[k].lastSeen < ActiveWindow
    \/ \E d \in Known(s) : clock - devices[s][d] < ActiveWindow

EndRequest(p) ==
    /\ lock' = NoOne
    /\ request' = [request EXCEPT ![p] = NoRequest(Own[p])]

CheckActive(p) ==
    LET s == request[p].sensor
    IN /\ request[p].step = "check"
       /\ \/ Active(s) /\ EndRequest(p) /\ UNCHANGED status
          \/ /\ ~Active(s)
             /\ request' = [request EXCEPT ![p].step = "alerts"]
             /\ status' = [status EXCEPT ![s] = "retiring"]
             /\ UNCHANGED lock
       /\ UNCHANGED <<clock, dbVars, sweep, phase, timers, budget, recorded, dismissed>>

DeleteSensorAlerts(p) ==
    LET rows == {k \in Stored : k[1] = request[p].sensor}
    IN /\ request[p].step = "alerts"
       /\ rows \cap Held = {}
       /\ request' = [request EXCEPT ![p].step = "devices", ![p].alerts = rows]
       /\ UNCHANGED <<clock, dbVars, lock, sweep, phase, timers, budget, history>>

\* (mutant: only the devices that have gone stale)
MutantDeleteSensorDevices(p) ==
    /\ request[p].step = "devices"
    /\ request' = [request EXCEPT ![p].step = "rollup", ![p].devices = Stale(request[p].sensor)]
    /\ UNCHANGED <<clock, dbVars, lock, sweep, phase, timers, budget, history>>

DeleteSensorDevices(p) ==
    /\ request[p].step = "devices"
    /\ request' = [request EXCEPT ![p].step = "rollup", ![p].devices = Known(request[p].sensor)]
    /\ UNCHANGED <<clock, dbVars, lock, sweep, phase, timers, budget, history>>

DeleteSensorBuckets(p) ==
    /\ request[p].step = "rollup"
    /\ request' = [request EXCEPT ![p].step = "commit",
                     ![p].buckets = {k \in Keys : k[1] = request[p].sensor /\ rollup[k] > 0}]
    /\ UNCHANGED <<clock, dbVars, lock, sweep, phase, timers, budget, history>>

\* COMMIT, which also releases the lock.  The accounts of the sensor start again.
CommitDecommission(p) ==
    LET s == request[p].sensor
    IN /\ request[p].step = "commit"
       /\ alerts' = [k \in Keys |-> IF k \in request[p].alerts THEN NoRow ELSE alerts[k]]
       /\ rollup' = [k \in Keys |-> IF k \in request[p].buckets THEN 0 ELSE rollup[k]]
       /\ devices' = [devices EXCEPT ![s] = [d \in Devices |->
                                IF d \in request[p].devices THEN Absent ELSE devices[s][d]]]
       /\ recorded' = [k \in Keys |-> IF k[1] = s THEN alerts'[k].occurrences + rollup'[k]
                                                  ELSE recorded[k]]
       /\ dismissed' = [k \in Keys |-> IF k[1] = s THEN 0 ELSE dismissed[k]]
       /\ status' = [status EXCEPT ![s] = IF @ = "retiring" THEN "retired" ELSE @]
       /\ EndRequest(p)
       /\ UNCHANGED <<clock, sweep, phase, timers, budget>>

RequestFails(p) ==
    /\ request[p].step # "idle"
    /\ EndRequest(p)
    /\ UNCHANGED <<clock, dbVars, sweep, phase, timers, budget, history>>

Decommission(p) ==
    \/ CheckActive(p) \/ DeleteSensorAlerts(p) \/ DeleteSensorDevices(p)
    \/ DeleteSensorBuckets(p) \/ CommitDecommission(p)

-----------------------------------------------------------------------------
(* The life of a process *)

\* The end of a process closes its connections: transactions and locks go.
Released(p) == IF lock \in {"sweep", "request"} \X {p} THEN NoOne ELSE lock

Crash(p) ==
    /\ phase[p] # "down"
    /\ Spend("incidents", MaxIncidents)
    /\ phase' = [phase EXCEPT ![p] = "down"]
    /\ timers' = [timers EXCEPT ![p] = {}]
    /\ sweep' = [sweep EXCEPT ![p] = NoSweep]
    /\ request' = [request EXCEPT ![p] = NoRequest(Own[p])]
    /\ lock' = Released(p)
    /\ UNCHANGED <<clock, dbVars, history>>

\* What stopRetention() leaves scheduled.
LeftScheduled(p) == {}

StopRetention(p) ==
    /\ phase[p] = "up"
    /\ Spend("incidents", MaxIncidents)
    /\ phase' = [phase EXCEPT ![p] = "stopping"]
    /\ timers' = [timers EXCEPT ![p] = LeftScheduled(p)]
    /\ UNCHANGED <<clock, dbVars, lock, sweep, request, history>>

\* shutdown() awaits retentionIdle(), then the server's open requests, then closeDb().
RetentionIdle(p) ==
    /\ phase[p] = "stopping" /\ sweep[p].stage = "idle"
    /\ phase' = [phase EXCEPT ![p] = "draining"]
    /\ UNCHANGED <<clock, dbVars, lock, sweep, request, timers, budget, history>>

CloseDb(p) ==
    /\ phase[p] = "draining" /\ request[p].step = "idle"
    /\ phase' = [phase EXCEPT ![p] = "down"]
    /\ lock' = Released(p)
    /\ UNCHANGED <<clock, dbVars, sweep, request, timers, budget, history>>

StartRetention(p) ==
    /\ phase[p] = "down"
    /\ phase' = [phase EXCEPT ![p] = "up"]
    /\ timers' = [timers EXCEPT ![p] = {"interval", "first"}]
    /\ UNCHANGED <<clock, dbVars, lock, sweep, request, budget, history>>

-----------------------------------------------------------------------------
SweepStep(p) ==
    \/ TryLock(p) \/ ExpiredDays(p) \/ AggregateDay(p) \/ DeleteDay(p) \/ CommitDay(p)
    \/ ForgetStaleDevices(p) \/ Unlock(p)

Next ==
    \/ Tick
    \/ \E s \in Sensors : (\E t \in Times : RecordFinding(s, t)) \/ (\E d \in Devices : RecordDevice(s, d))
    \/ DeleteAlert \/ DeleteAllAlerts
    \/ \E p \in Processes :
         \/ IntervalFires(p) \/ FirstSweepFires(p) \/ SweepStep(p)
         \/ DayFails(p) \/ SweepFails(p) \/ ConnectionClosed(p)
         \/ \E s \in Sensors : BeginDecommission(p, s)
         \/ Decommission(p) \/ RequestFails(p)
         \/ Crash(p) \/ StopRetention(p) \/ RetentionIdle(p) \/ CloseDb(p) \/ StartRetention(p)

Spec == Init /\ [][Next]_vars

-----------------------------------------------------------------------------
(* Properties *)

\* Findings are written in time: nothing is stamped so late that its row may be expiring.
InTime == MaxLag + AlertWindow <= Retain

\* Aggregating, deleting, failing half way and retrying, in several processes, neither
\* loses nor repeats an occurrence: what was recorded is stored, rolled up or was deleted
\* by an operator, and what is rolled up or stored was recorded once.
Exact ==
    \A k \in Keys :
       /\ rollup[k] + alerts[k].occurrences <= recorded[k]
       /\ recorded[k] <= rollup[k] + alerts[k].occurrences + dismissed[k]

\* A sweep deletes no finding that is still inside the retention window.
RecentIsKept ==
    \A p \in Processes : \A k \in sweep[p].gone : alerts[k].lastSeen < clock - Retain

\* A retired sensor has nothing left in any table until it writes again; a sweep in another
\* process does not bring its buckets back.
DecommissionIsWhole ==
    \A s \in Sensors : status[s] = "retired" =>
       /\ Known(s) = {}
       /\ \A k \in Keys : k[1] = s => alerts[k].occurrences = 0 /\ rollup[k] = 0

\* Once shutdown has gone past retentionIdle() no sweep runs on the pool it closes.
NoSweepAfterClose ==
    \A p \in Processes : phase[p] = "draining" => sweep[p].stage = "idle"

\* A sweep forgets some devices of a sensor, never all of them, however long the sensor
\* has been silent and whatever the others have seen meanwhile.
DevicesSurvive ==
    [][(\E p \in Processes : ForgetStaleDevices(p)) =>
         \A s \in Sensors : Known(s) # {} => Known(s)' # {}]_vars

-----------------------------------------------------------------------------
(* What the proofs rest on *)

\* Whoever is past its try holds the lock.
LockOK(p) ==
    /\ sweep[p].stage \in Locked => lock = <<"sweep", p>>
    /\ request[p].step # "idle" => lock = <<"request", p>>

PhaseOK(p) ==
    /\ phase[p] # "up" => timers[p] = {}
    /\ phase[p] \in {"draining", "down"} => sweep[p].stage = "idle"
    /\ phase[p] = "down" => request[p].step = "idle"

CutoffOK(p) == sweep[p].stage \notin {"idle", "unlock"} => sweep[p].cutoff <= clock - Retain

\* What a sweep has aggregated is in no bucket yet, is stored unchanged unless an operator
\* has deleted it, and belongs to a window no finding in time can reach.
TakenOK(p) ==
    \A k \in Keys : sweep[p].taken[k] > 0 =>
       /\ sweep[p].stage \in {"delete", "commit"}
       /\ rollup[k] + sweep[p].taken[k] <= recorded[k]
       /\ alerts[k].occurrences \in {0, sweep[p].taken[k]}
       /\ \E t \in Times : t < sweep[p].cutoff /\ WindowOf(t) = k[2]

\* Until the DELETE runs, it would find exactly the aggregated rows that are still there.
CurrentOK(p) ==
    \A d \in sweep[p].days :
       (sweep[p].stage = "delete" /\ IsCurrent(p, d)) =>
          DayRows(p, d) = {k \in Stored : sweep[p].taken[k] > 0}

GoneOK(p) ==
    /\ sweep[p].stage = "commit" => sweep[p].gone = {k \in Stored : sweep[p].taken[k] > 0}
    /\ sweep[p].stage # "commit" => sweep[p].gone = {}
    /\ sweep[p].gone \subseteq Expired(p)

SweepOK(p) == CutoffOK(p) /\ TakenOK(p) /\ CurrentOK(p) /\ GoneOK(p)

\* What a decommission has deleted so far is all there is, unless the sensor is writing.
RequestOK(p) ==
    LET s == request[p].sensor
    IN /\ \A k \in request[p].alerts \cup request[p].buckets : k[1] = s
       /\ status[s] = "retiring" =>
            /\ request[p].step \in {"devices", "rollup", "commit"} =>
                 \A k \in Stored : k[1] = s => k \in request[p].alerts
            /\ request[p].step \in {"rollup", "commit"} => Known(s) \subseteq request[p].devices
            /\ request[p].step = "commit" =>
                 \A k \in Keys : k[1] = s /\ rollup[k] > 0 => k \in request[p].buckets

RowsOK == \A k \in Stored : WindowOf(alerts[k].lastSeen) = k[2]
RetiredOK == \A k \in Keys : status[k[1]] = "retired" => recorded[k] = 0

IndInv ==
    /\ TypeOK
    /\ \A p \in Processes : LockOK(p) /\ PhaseOK(p) /\ SweepOK(p) /\ RequestOK(p)
    /\ RowsOK /\ RetiredOK /\ Exact /\ DecommissionIsWhole
=============================================================================
