-------------------------- MODULE RetentionProofs --------------------------
(***************************************************************************)
(* Proofs about Retention, for every number of processes, sensors and      *)
(* devices, every window and every bound, when findings are written in     *)
(* time.                                                                   *)
(***************************************************************************)
EXTENDS Retention, FiniteSetTheorems, TLAPS

\* Two moments of one alert window are less than its length apart.
LEMMA SameWindow ==
    ASSUME NEW a \in Nat, NEW b \in Nat, WindowOf(a) = WindowOf(b)
    PROVE  a - b < AlertWindow
BY ConstantsAssumption, SMT DEF WindowOf

LEMMA Records ==
    /\ NoRow \in Rows /\ NoSweep \in Sweeps
    /\ \A s \in Sensors : NoRequest(s) \in Requests
    /\ \A k \in Keys : k[1] \in Sensors
<1>1. NoRow \in Rows
  BY ConstantsAssumption DEF NoRow, Rows, Times
<1>2. NoSweep \in Sweeps
  BY DEF NoSweep, Sweeps
<1>3. \A s \in Sensors : NoRequest(s) \in Requests
  BY DEF NoRequest, Requests
<1>4. \A k \in Keys : k[1] \in Sensors
  BY DEF Keys
<1> QED BY <1>1, <1>2, <1>3, <1>4

-----------------------------------------------------------------------------
(* What a step of others leaves of a sweep and of a decommission *)

\* Nothing is aggregated or deleted outside two stages.
LEMMA QuietSweep ==
    ASSUME TypeOK, NEW p \in Processes, SweepOK(p), sweep[p].stage \notin {"delete", "commit"}
    PROVE  sweep[p].gone = {} /\ \A k \in Keys : sweep[p].taken[k] = 0
<1>1. \A k \in Keys : sweep[p].taken[k] \in Nat
  BY DEF TypeOK, Sweeps
<1> QED BY <1>1 DEF SweepOK, TakenOK, GoneOK

LEMMA SweepStaysQuiet ==
    ASSUME NEW p \in Processes, sweep'[p].stage \notin {"delete", "commit"},
           sweep'[p].gone = {}, \A k \in Keys : sweep'[p].taken[k] = 0, CutoffOK(p)'
    PROVE  SweepOK(p)'
BY DEF SweepOK, TakenOK, CurrentOK, GoneOK

\* A step that changes no table and not this sweep.
LEMMA SweepKept ==
    ASSUME TypeOK, NEW p \in Processes, SweepOK(p), sweep'[p] = sweep[p],
           alerts' = alerts, rollup' = rollup, recorded' = recorded, clock' \in {clock, clock + 1}
    PROVE  SweepOK(p)'
<1>1. CutoffOK(p)'
  <2>1. sweep[p].cutoff \in Int /\ clock \in Nat /\ Retain \in Nat
    BY ConstantsAssumption DEF TypeOK, Sweeps, Times
  <2> QED BY <2>1 DEF SweepOK, CutoffOK
<1>2. TakenOK(p)'
  BY DEF SweepOK, TakenOK
<1>3. CurrentOK(p)'
  BY DEF SweepOK, CurrentOK, IsCurrent, DayRows, Expired, Stored
<1>4. GoneOK(p)'
  BY DEF SweepOK, GoneOK, Expired, Stored
<1> QED BY <1>1, <1>2, <1>3, <1>4 DEF SweepOK

\* A step that changes the tables while this sweep has no transaction open.
LEMMA SweepKeptQuiet ==
    ASSUME TypeOK, NEW p \in Processes, SweepOK(p), sweep'[p] = sweep[p], clock' = clock,
           sweep[p].stage \notin {"delete", "commit"}
    PROVE  SweepOK(p)'
<1>1. CutoffOK(p)'
  BY DEF SweepOK, CutoffOK
<1> QED BY <1>1, QuietSweep, SweepStaysQuiet

LEMMA RequestKept ==
    ASSUME NEW p \in Processes, RequestOK(p), request'[p] = request[p], alerts' = alerts,
           rollup' = rollup, status' = status, \A s \in Sensors : Known(s)' \subseteq Known(s),
           request[p].sensor \in Sensors
    PROVE  RequestOK(p)'
BY DEF RequestOK, Stored

LEMMA NoRequestOK ==
    ASSUME NEW p \in Processes, NEW s \in Sensors, request'[p] = NoRequest(s)
    PROVE  RequestOK(p)'
BY DEF RequestOK, NoRequest

\* At most one process is past its try, and nobody is while the lock is free.
LEMMA OneHolder ==
    ASSUME \A p \in Processes : LockOK(p), NEW p \in Processes, NEW q \in Processes, p # q
    PROVE  /\ sweep[p].stage \in Locked => sweep[q].stage \notin Locked
           /\ request[p].step # "idle" =>
                sweep[p].stage \notin Locked /\ sweep[q].stage \notin Locked
           /\ sweep[p].stage \in Locked => request[p].step = "idle" /\ request[q].step = "idle"
           /\ request[p].step # "idle" => request[q].step = "idle"
BY DEF LockOK

-----------------------------------------------------------------------------
(* The sweep *)

\* A step of one sweep that changes no table: what is left to show of it.
LEMMA SweepStep1 ==
    ASSUME IndInv, NEW p \in Processes, NEW r \in Sweeps, sweep' = [sweep EXCEPT ![p] = r],
           UNCHANGED <<clock, dbVars, request, phase, history>>,
           timers' \in [Processes -> SUBSET {"interval", "first"}],
           \A q \in Processes : timers'[q] \subseteq timers[q],
           budget' = budget \/ Spend("incidents", MaxIncidents),
           lock' \in {lock, NoOne, <<"sweep", p>>},
           \A q \in Processes : LockOK(q)', phase[p] \in {"up", "stopping"} \/ r.stage = "idle",
           SweepOK(p)'
    PROVE  IndInv'
<1>1. TypeOK'
  <2>1. lock' \in Holders \cup {NoOne}
    BY DEF IndInv, TypeOK, Holders
  <2>2. budget' \in [findings : Nat, sightings : Nat, incidents : Nat]
    BY DEF IndInv, TypeOK, Spend
  <2> QED BY <2>1, <2>2 DEF IndInv, TypeOK, dbVars, history
<1>2. \A q \in Processes : sweep'[q] = IF q = p THEN r ELSE sweep[q]
  BY DEF IndInv, TypeOK
<1>3. ASSUME NEW q \in Processes PROVE PhaseOK(q)' /\ SweepOK(q)' /\ RequestOK(q)'
  <2>1. SweepOK(q)'
    BY <1>2, SweepKept DEF IndInv, dbVars, history
  <2>2. PhaseOK(q)'
    BY <1>2 DEF IndInv, PhaseOK, TypeOK
  <2>3. RequestOK(q)'
    BY DEF IndInv, RequestOK, dbVars, history, Known, Stored
  <2> QED BY <2>1, <2>2, <2>3
<1>4. RowsOK' /\ RetiredOK' /\ Exact' /\ DecommissionIsWhole'
  BY DEF IndInv, RowsOK, RetiredOK, Exact, DecommissionIsWhole, dbVars, history, Known, Stored
<1> QED BY <1>1, <1>3, <1>4 DEF IndInv

LEMMA StartsSweep ==
    ASSUME IndInv, NEW p \in Processes, SweepRetention(p), phase[p] = "up",
           UNCHANGED <<clock, dbVars, lock, request, phase, budget, history>>,
           timers' \in [Processes -> SUBSET {"interval", "first"}],
           \A q \in Processes : timers'[q] \subseteq timers[q]
    PROVE  IndInv'
<1> DEFINE r == IF sweep[p].stage = "idle"
                  THEN [sweep[p] EXCEPT !.stage = "lock", !.cutoff = clock - Retain] ELSE sweep[p]
<1>1. sweep[p] \in Sweeps /\ sweep \in [Processes -> Sweeps]
  BY DEF IndInv, TypeOK
<1>2. clock - Retain \in Int
  BY ConstantsAssumption DEF IndInv, TypeOK, Times
<1>3. r \in Sweeps /\ sweep' = [sweep EXCEPT ![p] = r]
  BY <1>1, <1>2 DEF SweepRetention, Sweeps
<1>4. SweepOK(p)'
  <2>1. CASE sweep[p].stage = "idle"
    <3>1. sweep'[p].stage = "lock" /\ sweep'[p].cutoff = clock - Retain
          /\ sweep'[p].gone = sweep[p].gone /\ sweep'[p].taken = sweep[p].taken
      BY <1>1, <1>3, <2>1 DEF Sweeps
    <3>2. sweep[p].gone = {} /\ \A k \in Keys : sweep[p].taken[k] = 0
      BY <2>1, QuietSweep DEF IndInv
    <3>3. CutoffOK(p)'
      BY <1>2, <3>1 DEF CutoffOK, SweepRetention
    <3>4. sweep'[p].gone = {} /\ \A k \in Keys : sweep'[p].taken[k] = 0
      BY <3>1, <3>2
    <3> QED BY <3>1, <3>3, <3>4, SweepStaysQuiet
  <2>2. CASE sweep[p].stage # "idle"
    BY <1>1, <1>3, <2>2, SweepKept DEF IndInv, dbVars, history
  <2> QED BY <2>1, <2>2
<1>5. \A q \in Processes : LockOK(q)'
  BY <1>1, <1>3 DEF IndInv, LockOK, Locked, Sweeps
<1> HIDE DEF r
<1> QED BY <1>3, <1>4, <1>5, SweepStep1

LEMMA IntervalFiresInv ==
    ASSUME IndInv, NEW p \in Processes, IntervalFires(p)
    PROVE  IndInv'
BY StartsSweep DEF IntervalFires, IndInv, PhaseOK, TypeOK

LEMMA FirstSweepFiresInv ==
    ASSUME IndInv, NEW p \in Processes, FirstSweepFires(p)
    PROVE  IndInv'
<1>1. phase[p] = "up"
  BY DEF FirstSweepFires, IndInv, PhaseOK
<1>2. timers \in [Processes -> SUBSET {"interval", "first"}]
  BY DEF IndInv, TypeOK
<1>3. /\ timers' \in [Processes -> SUBSET {"interval", "first"}]
      /\ \A q \in Processes : timers'[q] \subseteq timers[q]
  BY <1>2 DEF FirstSweepFires
<1> QED BY <1>1, <1>3, StartsSweep DEF FirstSweepFires

\* A step that ends the sweep's transaction, if any, and goes on to a later stage.
LEMMA SweepMovesOn ==
    ASSUME IndInv, NEW p \in Processes, NEW r \in Sweeps, sweep' = [sweep EXCEPT ![p] = r],
           UNCHANGED <<clock, dbVars, request, phase, timers, history>>,
           budget' = budget \/ Spend("incidents", MaxIncidents),
           lock' \in {lock, NoOne, <<"sweep", p>>}, \A q \in Processes : LockOK(q)',
           sweep[p].stage # "idle",
           r.stage \notin {"delete", "commit"}, r.gone = {}, \A k \in Keys : r.taken[k] = 0,
           \/ r.stage \in {"idle", "unlock"}
           \/ r.cutoff = sweep[p].cutoff /\ sweep[p].stage # "unlock"
    PROVE  IndInv'
<1>1. sweep'[p] = r
  BY DEF IndInv, TypeOK
<1>2. CutoffOK(p)'
  BY <1>1 DEF IndInv, SweepOK, CutoffOK
<1>3. SweepOK(p)'
  BY <1>1, <1>2, SweepStaysQuiet
<1>4. phase[p] \in {"up", "stopping"}
  BY DEF IndInv, PhaseOK, TypeOK
<1>5. timers' \in [Processes -> SUBSET {"interval", "first"}]
  BY DEF IndInv, TypeOK
<1> QED BY <1>3, <1>4, <1>5, SweepStep1

LEMMA TryLockInv ==
    ASSUME IndInv, NEW p \in Processes, TryLock(p)
    PROVE  IndInv'
<1>1. sweep[p] \in Sweeps /\ sweep \in [Processes -> Sweeps]
  BY DEF IndInv, TypeOK
<1>2. sweep[p].gone = {} /\ \A k \in Keys : sweep[p].taken[k] = 0
  BY QuietSweep DEF IndInv, TryLock
<1>3. CASE lock = NoOne
  <2> DEFINE r == [sweep[p] EXCEPT !.stage = "list"]
  <2>1. /\ r \in Sweeps /\ r.stage = "list" /\ r.cutoff = sweep[p].cutoff
        /\ r.gone = sweep[p].gone /\ r.taken = sweep[p].taken
    BY <1>1 DEF Sweeps, Locked
  <2>2. sweep' = [sweep EXCEPT ![p] = r] /\ lock' = <<"sweep", p>>
    BY <1>3 DEF TryLock
  <2>3. \A q \in Processes : LockOK(q)'
    BY <1>1, <1>3, <2>1, <2>2, ConstantsAssumption DEF IndInv, LockOK, TryLock
  <2>4. sweep[p].stage = "lock" /\ UNCHANGED <<clock, dbVars, request, phase, timers, budget, history>>
    BY DEF TryLock
  <2>5. r.gone = {} /\ \A k \in Keys : r.taken[k] = 0
    BY <1>2, <2>1
  <2> HIDE DEF r
  <2> QED BY <2>1, <2>2, <2>3, <2>4, <2>5, SweepMovesOn
<1>4. CASE lock # NoOne
  <2>1. sweep' = [sweep EXCEPT ![p] = NoSweep] /\ lock' = lock
    BY <1>4 DEF TryLock
  <2>2. NoSweep.stage = "idle" /\ NoSweep.gone = {} /\ \A k \in Keys : NoSweep.taken[k] = 0
    BY DEF NoSweep
  <2>3. \A q \in Processes : LockOK(q)'
    BY <1>1, <2>1, <2>2 DEF IndInv, LockOK, TryLock, Locked
  <2> QED BY <2>1, <2>2, <2>3, Records, SweepMovesOn DEF TryLock
<1> QED BY <1>3, <1>4

LEMMA SweepType ==
    ASSUME IndInv, NEW p \in Processes
    PROVE  /\ sweep \in [Processes -> Sweeps] /\ sweep[p] \in Sweeps
           /\ sweep[p].stage \in Locked \cup {"idle", "lock"} /\ sweep[p].cutoff \in Int
           /\ sweep[p].days \subseteq Int /\ sweep[p].taken \in [Keys -> Nat]
           /\ sweep[p].gone \subseteq Keys
BY DEF IndInv, TypeOK, Sweeps

\* The locks are not affected when a sweep goes on from one locked stage to the next.
LEMMA StillLocked ==
    ASSUME IndInv, NEW p \in Processes, NEW r \in Sweeps, sweep' = [sweep EXCEPT ![p] = r],
           lock' = lock, request' = request, r.stage \in Locked => sweep[p].stage \in Locked
    PROVE  \A q \in Processes : LockOK(q)'
BY SweepType DEF IndInv, LockOK

LEMMA ExpiredDaysInv ==
    ASSUME IndInv, NEW p \in Processes, ExpiredDays(p)
    PROVE  IndInv'
<1> DEFINE days == {DayOf(alerts[k].lastSeen) : k \in Expired(p)}
           r == [sweep[p] EXCEPT !.days = days, !.stage = NextStage(days)]
<1>1. days \subseteq Int
  <2>1. \A k \in Expired(p) : alerts[k].lastSeen \in Nat
    BY ConstantsAssumption DEF Expired, Stored, IndInv, TypeOK, Rows, Times
  <2>2. \A t \in Nat : DayOf(t) \in Int
    BY ConstantsAssumption DEF DayOf
  <2> QED BY <2>1, <2>2
<1> HIDE DEF days
<1>2. NextStage(days) \in {"devices", "aggregate"}
  BY DEF NextStage
<1>3. /\ r \in Sweeps /\ r.stage = NextStage(days) /\ r.cutoff = sweep[p].cutoff
      /\ r.gone = sweep[p].gone /\ r.taken = sweep[p].taken
  BY <1>1, <1>2, SweepType DEF Sweeps, Locked
<1>4. /\ sweep' = [sweep EXCEPT ![p] = r] /\ sweep[p].stage = "list"
      /\ UNCHANGED <<clock, dbVars, lock, request, phase, timers, budget, history>>
  BY DEF ExpiredDays, days
<1>5. r.gone = {} /\ \A k \in Keys : r.taken[k] = 0
  BY <1>3, <1>4, QuietSweep DEF IndInv
<1> HIDE DEF r
<1>6. \A q \in Processes : LockOK(q)'
  BY <1>3, <1>4, StillLocked DEF Locked
<1> QED BY <1>2, <1>3, <1>4, <1>5, <1>6, SweepMovesOn

\* The oldest day is one.
LEMMA OneCurrent ==
    ASSUME IndInv, NEW p \in Processes, NEW d \in sweep[p].days, NEW e \in sweep[p].days,
           IsCurrent(p, d), IsCurrent(p, e)
    PROVE  d = e
BY SweepType DEF IsCurrent

LEMMA AggregateDayInv ==
    ASSUME IndInv, NEW p \in Processes, AggregateDay(p)
    PROVE  IndInv'
<1>1. PICK d \in sweep[p].days :
        /\ sweep[p].stage = "aggregate" /\ IsCurrent(p, d)
        /\ sweep' = [sweep EXCEPT ![p].stage = "delete",
                      ![p].taken = [k \in Keys |->
                         IF k \in DayRows(p, d) THEN alerts[k].occurrences ELSE 0]]
        /\ UNCHANGED <<clock, dbVars, lock, request, phase, timers, budget, history>>
  BY DEF AggregateDay
<1> DEFINE T == [k \in Keys |-> IF k \in DayRows(p, d) THEN alerts[k].occurrences ELSE 0]
           r == [sweep[p] EXCEPT !.stage = "delete", !.taken = T]
<1>2. \A k \in Keys : alerts[k].occurrences \in Nat /\ alerts[k].lastSeen \in Times
  BY DEF IndInv, TypeOK, Rows
<1>3. T \in [Keys -> Nat] /\ \A k \in Keys : T[k] > 0 <=> k \in DayRows(p, d)
  BY <1>2 DEF DayRows, Expired, Stored
<1>4. \A k \in DayRows(p, d) : T[k] = alerts[k].occurrences
  BY DEF DayRows, Expired, Stored
<1> HIDE DEF T
<1>5. /\ r \in Sweeps /\ r.stage = "delete" /\ r.taken = T
      /\ r.cutoff = sweep[p].cutoff /\ r.gone = sweep[p].gone /\ r.days = sweep[p].days
  BY <1>3, SweepType DEF Sweeps, Locked
<1>6. sweep' = [sweep EXCEPT ![p] = r]
  BY <1>1 DEF T
<1> HIDE DEF r
<1>7. sweep'[p] = r
  BY <1>6, SweepType
<1>8. SweepOK(p)'
  <2>1. CutoffOK(p)'
    BY <1>1, <1>5, <1>7 DEF IndInv, SweepOK, CutoffOK
  <2>2. TakenOK(p)'
    <3> SUFFICES ASSUME NEW k \in DayRows(p, d)
                 PROVE  /\ rollup[k] + T[k] <= recorded[k]
                        /\ \E t \in Times : t < sweep[p].cutoff /\ WindowOf(t) = k[2]
      BY <1>1, <1>3, <1>4, <1>5, <1>7 DEF TakenOK, dbVars, history, DayRows, Expired, Stored
    <3>1. k \in Keys /\ k \in Stored /\ alerts[k].lastSeen < sweep[p].cutoff
      BY DEF DayRows, Expired, Stored
    <3>2. rollup[k] + T[k] <= recorded[k]
      BY <1>4, <3>1 DEF IndInv, Exact
    <3>3. alerts[k].lastSeen \in Times /\ WindowOf(alerts[k].lastSeen) = k[2]
      BY <1>2, <3>1 DEF IndInv, RowsOK
    <3> QED BY <3>1, <3>2, <3>3
  <2>3. CurrentOK(p)'
    <3>1. DayRows(p, d) = {k \in Stored : T[k] > 0}
      BY <1>3 DEF DayRows, Expired, Stored
    <3>2. ASSUME NEW e \in sweep'[p].days, IsCurrent(p, e)' PROVE e = d
      BY <1>1, <1>5, <1>7, <3>2, OneCurrent DEF IsCurrent
    <3>3. DayRows(p, d)' = DayRows(p, d) /\ Stored' = Stored
      BY <1>1, <1>5, <1>7 DEF DayRows, Expired, Stored, dbVars
    <3> QED BY <1>5, <1>7, <3>1, <3>2, <3>3 DEF CurrentOK
  <2>4. GoneOK(p)'
    BY <1>1, <1>5, <1>7 DEF IndInv, SweepOK, GoneOK
  <2> QED BY <2>1, <2>2, <2>3, <2>4 DEF SweepOK
<1>9. \A q \in Processes : LockOK(q)'
  BY <1>1, <1>5, <1>6, StillLocked DEF Locked
<1>10. phase[p] \in {"up", "stopping"}
  BY <1>1 DEF IndInv, PhaseOK, TypeOK
<1>11. timers' \in [Processes -> SUBSET {"interval", "first"}]
  BY <1>1 DEF IndInv, TypeOK
<1> QED BY <1>1, <1>5, <1>6, <1>8, <1>9, <1>10, <1>11, SweepStep1

LEMMA DeleteDayInv ==
    ASSUME IndInv, NEW p \in Processes, DeleteDay(p)
    PROVE  IndInv'
<1>1. PICK d \in sweep[p].days :
        /\ sweep[p].stage = "delete" /\ IsCurrent(p, d)
        /\ sweep' = [sweep EXCEPT ![p].stage = "commit", ![p].gone = DayRows(p, d)]
        /\ UNCHANGED <<clock, dbVars, lock, request, phase, timers, budget, history>>
  BY DEF DeleteDay
<1> DEFINE r == [sweep[p] EXCEPT !.stage = "commit", !.gone = DayRows(p, d)]
<1>2. DayRows(p, d) \subseteq Keys
  BY DEF DayRows, Expired, Stored
<1>3. /\ r \in Sweeps /\ r.stage = "commit" /\ r.gone = DayRows(p, d)
      /\ r.cutoff = sweep[p].cutoff /\ r.taken = sweep[p].taken
  BY <1>2, SweepType DEF Sweeps, Locked
<1>4. sweep' = [sweep EXCEPT ![p] = r]
  BY <1>1
<1> HIDE DEF r
<1>5. sweep'[p] = r
  BY <1>4, SweepType
<1>6. SweepOK(p)'
  <2>1. CutoffOK(p)'
    BY <1>1, <1>3, <1>5 DEF IndInv, SweepOK, CutoffOK
  <2>2. TakenOK(p)'
    BY <1>1, <1>3, <1>5 DEF IndInv, SweepOK, TakenOK, dbVars, history
  <2>3. CurrentOK(p)'
    BY <1>3, <1>5 DEF CurrentOK
  <2>4. DayRows(p, d) = {k \in Stored : sweep[p].taken[k] > 0}
    BY <1>1 DEF IndInv, SweepOK, CurrentOK
  <2>5. GoneOK(p)'
    BY <1>1, <1>3, <1>5, <2>4 DEF GoneOK, DayRows, Expired, Stored, dbVars
  <2> QED BY <2>1, <2>2, <2>3, <2>5 DEF SweepOK
<1>7. \A q \in Processes : LockOK(q)'
  BY <1>1, <1>3, <1>4, StillLocked DEF Locked
<1>8. phase[p] \in {"up", "stopping"}
  BY <1>1 DEF IndInv, PhaseOK, TypeOK
<1>9. timers' \in [Processes -> SUBSET {"interval", "first"}]
  BY <1>1 DEF IndInv, TypeOK
<1> QED BY <1>1, <1>3, <1>4, <1>6, <1>7, <1>8, <1>9, SweepStep1

LEMMA AfterDayFacts ==
    ASSUME IndInv, NEW p \in Processes, NEW d \in sweep[p].days
    PROVE  /\ AfterDay(p, d) \in Sweeps /\ AfterDay(p, d).stage \in {"devices", "aggregate"}
           /\ AfterDay(p, d).cutoff = sweep[p].cutoff /\ AfterDay(p, d).gone = {}
           /\ \A k \in Keys : AfterDay(p, d).taken[k] = 0
<1>1. NextStage(sweep[p].days \ {d}) \in {"devices", "aggregate"}
  BY DEF NextStage
<1> QED BY <1>1, Records, SweepType DEF AfterDay, NoSweep, Sweeps, Locked

LEMMA CommitDayInv ==
    ASSUME IndInv, NEW p \in Processes, CommitDay(p)
    PROVE  IndInv'
<1>1. PICK d \in sweep[p].days :
        /\ sweep[p].stage = "commit" /\ IsCurrent(p, d)
        /\ rollup' = [k \in Keys |-> rollup[k] + sweep[p].taken[k]]
        /\ alerts' = [k \in Keys |-> IF k \in sweep[p].gone THEN NoRow ELSE alerts[k]]
        /\ sweep' = [sweep EXCEPT ![p] = AfterDay(p, d)]
        /\ UNCHANGED <<clock, devices, lock, request, phase, timers, budget, history>>
  BY DEF CommitDay
<1>2. sweep'[p] = AfterDay(p, d) /\ \A q \in Processes \ {p} : sweep'[q] = sweep[q]
  BY <1>1, SweepType
<1>3. \A k \in Keys :
        /\ rollup[k] \in Nat /\ recorded[k] \in Nat /\ dismissed[k] \in Nat
        /\ sweep[p].taken[k] \in Nat /\ alerts[k] \in Rows /\ alerts[k].occurrences \in Nat
  BY SweepType DEF IndInv, TypeOK, Rows
<1>4. \A k \in Keys :
        /\ rollup'[k] = rollup[k] + sweep[p].taken[k]
        /\ k \in sweep[p].gone => alerts'[k] = NoRow /\ alerts[k].occurrences = sweep[p].taken[k]
        /\ k \notin sweep[p].gone =>
             alerts'[k] = alerts[k] /\ (sweep[p].taken[k] = 0 \/ alerts[k].occurrences = 0)
        /\ sweep[p].taken[k] > 0 => rollup[k] + sweep[p].taken[k] <= recorded[k]
  BY <1>1, <1>3 DEF IndInv, SweepOK, TakenOK, GoneOK, Stored
<1>5. TypeOK'
  <2>1. rollup' \in [Keys -> Nat] /\ alerts' \in [Keys -> Rows]
    BY <1>1, <1>3, Records
  <2>2. sweep' \in [Processes -> Sweeps]
    BY <1>1, SweepType, AfterDayFacts
  <2> QED BY <1>1, <2>1, <2>2 DEF IndInv, TypeOK, history
<1>6. \A q \in Processes : LockOK(q)'
  BY <1>1, AfterDayFacts, StillLocked DEF Locked
<1>7. ASSUME NEW q \in Processes PROVE PhaseOK(q)' /\ SweepOK(q)' /\ RequestOK(q)'
  <2>1. PhaseOK(q)'
    BY <1>1, <1>2 DEF IndInv, PhaseOK
  <2>2. SweepOK(q)'
    <3>1. CASE q = p
      <4>1. CutoffOK(p)'
        BY <1>1, <1>2, AfterDayFacts DEF IndInv, SweepOK, CutoffOK
      <4> QED BY <1>2, <3>1, <4>1, AfterDayFacts, SweepStaysQuiet
    <3>2. CASE q # p
      <4>1. sweep[q].stage \notin {"delete", "commit"}
        BY <1>1, <3>2, OneHolder DEF IndInv, Locked
      <4> QED BY <1>1, <1>2, <3>2, <4>1, SweepKeptQuiet DEF IndInv
    <3> QED BY <3>1, <3>2
  <2>3. RequestOK(q)'
    <3>1. request[q].step = "idle"
      BY <1>1, OneHolder DEF IndInv, LockOK, Locked
    <3> QED BY <1>1, <3>1 DEF IndInv, RequestOK
  <2> QED BY <2>1, <2>2, <2>3
<1>8. RowsOK'
  BY <1>3, <1>4 DEF IndInv, RowsOK, Stored, NoRow
<1>9. RetiredOK'
  BY <1>1 DEF IndInv, RetiredOK, history
<1>10. Exact'
  <2> SUFFICES ASSUME NEW k \in Keys
               PROVE  /\ rollup'[k] + alerts'[k].occurrences <= recorded[k]
                      /\ recorded[k] <= rollup'[k] + alerts'[k].occurrences + dismissed[k]
    BY <1>1 DEF Exact, history
  <2>1. /\ rollup[k] + alerts[k].occurrences <= recorded[k]
        /\ recorded[k] <= rollup[k] + alerts[k].occurrences + dismissed[k]
    BY DEF IndInv, Exact
  <2> QED BY <1>3, <1>4, <2>1 DEF NoRow
<1>11. DecommissionIsWhole'
  BY <1>1, <1>3, <1>4, Records DEF IndInv, RetiredOK, DecommissionIsWhole, history, NoRow, Known
<1> QED BY <1>5, <1>6, <1>7, <1>8, <1>9, <1>10, <1>11 DEF IndInv

LEMMA DayFailsInv ==
    ASSUME IndInv, NEW p \in Processes, DayFails(p)
    PROVE  IndInv'
<1>1. PICK d \in sweep[p].days :
        /\ sweep[p].stage \in {"aggregate", "delete", "commit"}
        /\ Spend("incidents", MaxIncidents)
        /\ sweep' = [sweep EXCEPT ![p] = AfterDay(p, d)]
        /\ UNCHANGED <<clock, dbVars, lock, request, phase, timers, history>>
  BY DEF DayFails
<1>2. \A q \in Processes : LockOK(q)'
  BY <1>1, AfterDayFacts, StillLocked DEF Locked
<1> QED BY <1>1, <1>2, AfterDayFacts, SweepMovesOn

\* The device sweep takes devices away and gives none.
LEMMA ForgetStaleDevicesInv ==
    ASSUME IndInv, NEW p \in Processes, ForgetStaleDevices(p)
    PROVE  IndInv'
<1> DEFINE r == [sweep[p] EXCEPT !.stage = "unlock"]
<1>1. r \in Sweeps /\ r.stage = "unlock" /\ r.gone = sweep[p].gone /\ r.taken = sweep[p].taken
  BY SweepType DEF Sweeps, Locked
<1>2. /\ sweep[p].stage = "devices" /\ sweep' = [sweep EXCEPT ![p] = r]
      /\ devices' = [s \in Sensors |->
                       [d \in Devices |-> IF d \in Stale(s) THEN Absent ELSE devices[s][d]]]
      /\ UNCHANGED <<clock, alerts, rollup, lock, request, phase, timers, budget, history>>
  BY DEF ForgetStaleDevices
<1> HIDE DEF r
<1>3. sweep'[p] = r /\ \A q \in Processes \ {p} : sweep'[q] = sweep[q]
  BY <1>2, SweepType
<1>4. TypeOK'
  <2>1. devices' \in [Sensors -> [Devices -> Times \cup {Absent}]]
    BY <1>2 DEF IndInv, TypeOK
  <2>2. sweep' \in [Processes -> Sweeps]
    BY <1>1, <1>2, SweepType
  <2> QED BY <1>2, <2>1, <2>2 DEF IndInv, TypeOK, history
<1>5. \A s \in Sensors : Known(s)' \subseteq Known(s)
  BY <1>2 DEF Known
<1>6. \A q \in Processes : LockOK(q)'
  BY <1>1, <1>2, StillLocked DEF Locked
<1>7. ASSUME NEW q \in Processes PROVE PhaseOK(q)' /\ SweepOK(q)' /\ RequestOK(q)'
  <2>1. PhaseOK(q)'
    BY <1>2, <1>3 DEF IndInv, PhaseOK
  <2>2. SweepOK(q)'
    <3>1. CASE q = p
      <4>1. sweep[p].gone = {} /\ \A k \in Keys : sweep[p].taken[k] = 0
        BY <1>2, QuietSweep DEF IndInv
      <4>2. CutoffOK(p)'
        BY <1>1, <1>3 DEF CutoffOK
      <4> QED BY <1>1, <1>3, <3>1, <4>1, <4>2, SweepStaysQuiet
    <3>2. CASE q # p
      BY <1>2, <1>3, <3>2, SweepKept DEF IndInv, history
    <3> QED BY <3>1, <3>2
  <2>3. RequestOK(q)'
    <3>1. request[q].sensor \in Sensors
      BY DEF IndInv, TypeOK, Requests
    <3> QED BY <1>2, <1>5, <3>1, RequestKept DEF IndInv, history
  <2> QED BY <2>1, <2>2, <2>3
<1>8. RowsOK' /\ RetiredOK' /\ Exact'
  BY <1>2 DEF IndInv, RowsOK, RetiredOK, Exact, Stored, history
<1>9. DecommissionIsWhole'
  BY <1>2, <1>5 DEF IndInv, DecommissionIsWhole, history
<1> QED BY <1>4, <1>6, <1>7, <1>8, <1>9 DEF IndInv

\* A sweep that ends or is about to.
LEMMA SweepFailsInv ==
    ASSUME IndInv, NEW p \in Processes, SweepFails(p)
    PROVE  IndInv'
<1> DEFINE r == IF sweep[p].stage = "lock" THEN NoSweep ELSE [NoSweep EXCEPT !.stage = "unlock"]
<1>1. /\ r \in Sweeps /\ r.stage \in {"idle", "unlock"} /\ r.gone = {}
      /\ \A k \in Keys : r.taken[k] = 0
      /\ r.stage = "unlock" => sweep[p].stage \in Locked
  BY Records DEF NoSweep, Sweeps, Locked, SweepFails
<1>2. /\ sweep' = [sweep EXCEPT ![p] = r] /\ sweep[p].stage # "idle"
      /\ Spend("incidents", MaxIncidents)
      /\ UNCHANGED <<clock, dbVars, lock, request, phase, timers, history>>
  BY SweepType DEF SweepFails
<1> HIDE DEF r
<1>3. \A q \in Processes : LockOK(q)'
  BY <1>1, <1>2, StillLocked DEF Locked
<1>4. r.stage \notin {"delete", "commit"}
  BY <1>1
<1> QED BY <1>1, <1>2, <1>3, <1>4, SweepMovesOn

LEMMA UnlockInv ==
    ASSUME IndInv, NEW p \in Processes, Unlock(p)
    PROVE  IndInv'
<1>1. /\ NoSweep \in Sweeps /\ NoSweep.stage = "idle" /\ NoSweep.gone = {}
      /\ \A k \in Keys : NoSweep.taken[k] = 0
  BY Records DEF NoSweep
<1>2. \A q \in Processes : LockOK(q)'
  <2>1. lock = <<"sweep", p>>
    BY DEF Unlock, IndInv, LockOK, Locked
  <2> QED BY <1>1, <2>1, SweepType DEF Unlock, IndInv, LockOK, Locked
<1>3. NoSweep.stage \notin {"delete", "commit"} /\ NoSweep.stage \in {"idle", "unlock"}
  BY <1>1
<1>4. /\ sweep' = [sweep EXCEPT ![p] = NoSweep] /\ sweep[p].stage # "idle"
      /\ UNCHANGED <<clock, dbVars, request, phase, timers, history>>
  BY DEF Unlock
<1>5. budget' = budget \/ Spend("incidents", MaxIncidents)
  BY DEF Unlock
<1>6. lock' \in {lock, NoOne, <<"sweep", p>>}
  BY DEF Unlock
<1> QED BY <1>1, <1>2, <1>3, <1>4, <1>5, <1>6, SweepMovesOn

LEMMA ConnectionClosedInv ==
    ASSUME IndInv, NEW p \in Processes, ConnectionClosed(p)
    PROVE  IndInv'
<1>1. sweep' = [sweep EXCEPT ![p] = sweep[p]]
  BY SweepType DEF ConnectionClosed
<1>2. \A q \in Processes : LockOK(q)'
  BY DEF ConnectionClosed, IndInv, LockOK, Locked
<1>3. SweepOK(p)'
  BY SweepKept DEF ConnectionClosed, IndInv, dbVars, history
<1>4. phase[p] \in {"up", "stopping"} \/ sweep[p].stage = "idle"
  BY DEF IndInv, PhaseOK, TypeOK
<1>5. timers' \in [Processes -> SUBSET {"interval", "first"}]
  BY DEF IndInv, TypeOK, ConnectionClosed
<1> QED BY <1>1, <1>2, <1>3, <1>4, <1>5, SweepType, SweepStep1 DEF ConnectionClosed

-----------------------------------------------------------------------------
(* Time, the sensors and the operators *)

LEMMA TickInv ==
    ASSUME IndInv, Tick
    PROVE  IndInv'
<1>1. TypeOK'
  BY ConstantsAssumption DEF Tick, IndInv, TypeOK, Times, dbVars, history
<1>2. ASSUME NEW p \in Processes PROVE LockOK(p)' /\ PhaseOK(p)' /\ SweepOK(p)' /\ RequestOK(p)'
  <2>1. SweepOK(p)'
    BY SweepKept DEF Tick, IndInv, dbVars, history
  <2>2. LockOK(p)' /\ PhaseOK(p)' /\ RequestOK(p)'
    BY DEF Tick, IndInv, LockOK, PhaseOK, RequestOK, Stored, Known, dbVars, history
  <2> QED BY <2>1, <2>2
<1>3. RowsOK' /\ RetiredOK' /\ Exact' /\ DecommissionIsWhole'
  BY DEF Tick, IndInv, RowsOK, RetiredOK, Exact, DecommissionIsWhole, Stored, Known, dbVars, history
<1> QED BY <1>1, <1>2, <1>3 DEF IndInv

\* A finding in time is newer than every cutoff and in no window that has expired.
LEMMA InTimeFacts ==
    ASSUME IndInv, InTime, NEW p \in Processes, sweep[p].stage \in {"delete", "commit"},
           NEW t \in Times, clock - t <= MaxLag
    PROVE  /\ sweep[p].cutoff < t
           /\ \A u \in Times : u < sweep[p].cutoff => WindowOf(u) # WindowOf(t)
<1>1. sweep[p].cutoff <= clock - Retain /\ sweep[p].cutoff \in Int /\ clock \in Nat
  BY SweepType DEF IndInv, SweepOK, CutoffOK, TypeOK, Times
<1>2. sweep[p].cutoff + AlertWindow <= t
  BY <1>1, ConstantsAssumption DEF InTime, Times
<1> QED BY <1>1, <1>2, SameWindow, ConstantsAssumption DEF Times

LEMMA RecordFindingInv ==
    ASSUME IndInv, InTime, NEW s \in Sensors, NEW t \in Times, RecordFinding(s, t)
    PROVE  IndInv'
<1> DEFINE k0 == <<s, WindowOf(t)>>
           old == alerts[k0]
           row == [occurrences |-> old.occurrences + 1,
                   lastSeen |-> IF old.occurrences > 0 /\ old.lastSeen > t THEN old.lastSeen ELSE t]
<1>1. /\ t <= clock /\ clock - t <= MaxLag /\ k0 \notin Held
      /\ alerts' = [alerts EXCEPT ![k0] = row]
      /\ recorded' = [recorded EXCEPT ![k0] = @ + 1]
      /\ status' = [status EXCEPT ![s] = "live"]
      /\ Spend("findings", MaxFindings)
      /\ UNCHANGED <<clock, rollup, devices, lock, sweep, request, phase, timers, dismissed>>
  BY DEF RecordFinding
<1>2. k0 \in Keys /\ k0[1] = s /\ k0[2] = WindowOf(t)
  BY DEF Keys
<1>3. \A k \in Keys :
        /\ rollup[k] \in Nat /\ recorded[k] \in Nat /\ dismissed[k] \in Nat
        /\ alerts[k] \in Rows /\ alerts[k].occurrences \in Nat /\ alerts[k].lastSeen \in Times
  BY DEF IndInv, TypeOK, Rows
<1>4. /\ row \in Rows /\ row.occurrences = old.occurrences + 1 /\ row.occurrences > 0
      /\ row.lastSeen \in Times /\ t <= row.lastSeen
      /\ row.lastSeen \in {t, old.lastSeen} /\ (row.lastSeen = t \/ old.occurrences > 0)
  BY <1>2, <1>3, ConstantsAssumption DEF Rows, Times
<1> HIDE DEF row
<1>5. \A k \in Keys : /\ alerts'[k] = IF k = k0 THEN row ELSE alerts[k]
                      /\ recorded'[k] = IF k = k0 THEN recorded[k] + 1 ELSE recorded[k]
  BY <1>1 DEF IndInv, TypeOK
<1>6. status'[s] = "live" /\ \A x \in Sensors \ {s} : status'[x] = status[x]
  BY <1>1 DEF IndInv, TypeOK
<1> HIDE DEF k0
<1>7. TypeOK'
  <2>1. alerts' \in [Keys -> Rows] /\ recorded' \in [Keys -> Nat]
    BY <1>1, <1>2, <1>3, <1>4 DEF IndInv, TypeOK
  <2>2. budget' \in [findings : Nat, sightings : Nat, incidents : Nat]
    BY <1>1 DEF IndInv, TypeOK, Spend
  <2> QED BY <1>1, <2>1, <2>2 DEF IndInv, TypeOK
<1>8. Stored' = Stored \cup {k0}
  BY <1>2, <1>3, <1>4, <1>5 DEF Stored
<1>9. ASSUME NEW p \in Processes PROVE LockOK(p)' /\ PhaseOK(p)' /\ SweepOK(p)' /\ RequestOK(p)'
  <2>1. LockOK(p)' /\ PhaseOK(p)'
    BY <1>1 DEF IndInv, LockOK, PhaseOK
  <2>2. SweepOK(p)'
    <3>a. CASE sweep[p].stage \notin {"delete", "commit"}
      BY <1>1, <3>a, SweepKeptQuiet DEF IndInv
    <3>b. CASE sweep[p].stage \in {"delete", "commit"}
      <4>1. sweep[p].cutoff < t /\ \A u \in Times : u < sweep[p].cutoff => WindowOf(u) # k0[2]
        BY <1>1, <1>2, <3>b, InTimeFacts
      <4>2. sweep[p].taken[k0] = 0
        BY <1>2, <4>1, SweepType DEF IndInv, SweepOK, TakenOK
      <4>3. k0 \notin Expired(p)'
        BY <1>1, <1>2, <1>4, <1>5, <4>1, SweepType, ConstantsAssumption DEF Expired, Times
      <4>4. k0 \notin Expired(p)
        <5>1. CASE old.occurrences > 0
          <6>1. old.lastSeen \in Times /\ WindowOf(old.lastSeen) = k0[2]
            BY <1>2, <1>3, <5>1 DEF IndInv, RowsOK, Stored
          <6> QED BY <4>1, <6>1 DEF Expired
        <5>2. CASE ~(old.occurrences > 0)
          BY <5>2 DEF Expired, Stored
        <5> QED BY <5>1, <5>2
      <4>5. Expired(p)' = Expired(p) /\ \A d : DayRows(p, d)' = DayRows(p, d)
        BY <1>1, <1>5, <1>8, <4>3, <4>4 DEF Expired, DayRows, Stored
      <4>6. {k \in Stored : sweep[p].taken[k] > 0}' = {k \in Stored : sweep[p].taken[k] > 0}
        BY <1>1, <1>8, <4>2
      <4>7. CutoffOK(p)'
        BY <1>1 DEF IndInv, SweepOK, CutoffOK
      <4>8. TakenOK(p)'
        BY <1>1, <1>3, <1>5, <4>2 DEF IndInv, SweepOK, TakenOK
      <4>9. CurrentOK(p)'
        BY <1>1, <4>5, <4>6 DEF IndInv, SweepOK, CurrentOK, IsCurrent
      <4>10. GoneOK(p)'
        BY <1>1, <4>5, <4>6 DEF IndInv, SweepOK, GoneOK
      <4> QED BY <4>7, <4>8, <4>9, <4>10 DEF SweepOK
    <3> QED BY <3>a, <3>b
  <2>4. RequestOK(p)'
    <3>1. request[p].sensor \in Sensors
      BY DEF IndInv, TypeOK, Requests
    <3>2. CASE request[p].sensor = s
      BY <1>1, <1>6, <3>2 DEF IndInv, RequestOK
    <3>3. CASE request[p].sensor # s
      BY <1>1, <1>2, <1>6, <1>8, <3>1, <3>3 DEF IndInv, RequestOK, Known
    <3> QED BY <3>2, <3>3
  <2> QED BY <2>1, <2>2, <2>4
<1>10. RowsOK'
  BY <1>2, <1>4, <1>5, <1>8 DEF IndInv, RowsOK, Stored
<1>11. RetiredOK'
  BY <1>2, <1>5, <1>6, Records DEF IndInv, RetiredOK
<1>12. Exact'
  BY <1>1, <1>3, <1>4, <1>5 DEF IndInv, Exact
<1>13. DecommissionIsWhole'
  BY <1>1, <1>2, <1>5, <1>6 DEF IndInv, DecommissionIsWhole, Known
<1> QED BY <1>7, <1>9, <1>10, <1>11, <1>12, <1>13 DEF IndInv

LEMMA RecordDeviceInv ==
    ASSUME IndInv, NEW s \in Sensors, NEW d \in Devices, RecordDevice(s, d)
    PROVE  IndInv'
<1>1. /\ devices' = [devices EXCEPT ![s][d] = clock]
      /\ status' = [status EXCEPT ![s] = "live"]
      /\ Spend("sightings", MaxSightings)
      /\ UNCHANGED <<clock, alerts, rollup, lock, sweep, request, phase, timers, recorded, dismissed>>
  BY DEF RecordDevice
<1>2. status'[s] = "live" /\ \A x \in Sensors \ {s} : status'[x] = status[x]
  BY <1>1 DEF IndInv, TypeOK
<1>3. \A x \in Sensors \ {s} : Known(x)' = Known(x)
  BY <1>1 DEF Known, IndInv, TypeOK
<1>4. TypeOK'
  <2>1. budget' \in [findings : Nat, sightings : Nat, incidents : Nat]
    BY <1>1 DEF IndInv, TypeOK, Spend
  <2>2. devices' \in [Sensors -> [Devices -> Times \cup {Absent}]]
    BY <1>1 DEF IndInv, TypeOK
  <2> QED BY <1>1, <2>1, <2>2 DEF IndInv, TypeOK
<1>5. ASSUME NEW p \in Processes PROVE LockOK(p)' /\ PhaseOK(p)' /\ SweepOK(p)' /\ RequestOK(p)'
  <2>1. LockOK(p)' /\ PhaseOK(p)'
    BY <1>1 DEF IndInv, LockOK, PhaseOK
  <2>2. SweepOK(p)'
    BY <1>1, SweepKept DEF IndInv
  <2>3. RequestOK(p)'
    <3>1. request[p].sensor \in Sensors
      BY DEF IndInv, TypeOK, Requests
    <3> QED BY <1>1, <1>2, <1>3, <3>1 DEF IndInv, RequestOK, Stored
  <2> QED BY <2>1, <2>2, <2>3
<1>6. RowsOK' /\ Exact'
  BY <1>1 DEF IndInv, RowsOK, Exact, Stored
<1>7. RetiredOK'
  BY <1>1, <1>2, Records DEF IndInv, RetiredOK
<1>8. DecommissionIsWhole'
  BY <1>1, <1>2, <1>3 DEF IndInv, DecommissionIsWhole
<1> QED BY <1>4, <1>5, <1>6, <1>7, <1>8 DEF IndInv

LEMMA DeleteAlertsInv ==
    ASSUME IndInv, NEW K \in SUBSET Stored, DeleteAlerts(K)
    PROVE  IndInv'
<1>1. /\ K \cap Held = {}
      /\ alerts' = [k \in Keys |-> IF k \in K THEN NoRow ELSE alerts[k]]
      /\ dismissed' = [k \in Keys |->
                         IF k \in K THEN dismissed[k] + alerts[k].occurrences ELSE dismissed[k]]
      /\ UNCHANGED <<clock, rollup, devices, lock, sweep, request, phase, timers, budget, recorded,
                     status>>
  BY DEF DeleteAlerts
<1>2. \A k \in Keys :
        /\ rollup[k] \in Nat /\ recorded[k] \in Nat /\ dismissed[k] \in Nat
        /\ alerts[k] \in Rows /\ alerts[k].occurrences \in Nat
  BY DEF IndInv, TypeOK, Rows
<1>3. TypeOK'
  <2>1. alerts' \in [Keys -> Rows] /\ dismissed' \in [Keys -> Nat]
    BY <1>1, <1>2, Records
  <2> QED BY <1>1, <2>1 DEF IndInv, TypeOK
<1>4. Stored' = Stored \ K /\ \A k \in Stored' : alerts'[k] = alerts[k]
  BY <1>1, <1>2 DEF Stored, NoRow
<1>5. ASSUME NEW p \in Processes PROVE LockOK(p)' /\ PhaseOK(p)' /\ SweepOK(p)' /\ RequestOK(p)'
  <2>1. LockOK(p)' /\ PhaseOK(p)'
    BY <1>1 DEF IndInv, LockOK, PhaseOK
  <2>2. SweepOK(p)'
    <3>1. sweep[p].gone \cap K = {}
      BY <1>1 DEF Held
    <3>2. Expired(p)' = Expired(p) \ K /\ \A d : DayRows(p, d)' = DayRows(p, d) \ K
      BY <1>1, <1>4 DEF Expired, DayRows
    <3>3. {k \in Stored : sweep[p].taken[k] > 0}' = {k \in Stored : sweep[p].taken[k] > 0} \ K
      BY <1>1, <1>4
    <3>4. CutoffOK(p)'
      BY <1>1 DEF IndInv, SweepOK, CutoffOK
    <3>5. TakenOK(p)'
      BY <1>1, <1>2 DEF IndInv, SweepOK, TakenOK, NoRow
    <3>6. CurrentOK(p)'
      BY <1>1, <3>2, <3>3 DEF IndInv, SweepOK, CurrentOK, IsCurrent
    <3>7. GoneOK(p)'
      BY <1>1, <3>1, <3>2, <3>3 DEF IndInv, SweepOK, GoneOK
    <3> QED BY <3>4, <3>5, <3>6, <3>7 DEF SweepOK
  <2>3. RequestOK(p)'
    BY <1>1, <1>4 DEF IndInv, RequestOK, Known
  <2> QED BY <2>1, <2>2, <2>3
<1>6. RowsOK'
  BY <1>4 DEF IndInv, RowsOK
<1>7. RetiredOK'
  BY <1>1 DEF IndInv, RetiredOK
<1>8. Exact' /\ DecommissionIsWhole'
  BY <1>1, <1>2 DEF IndInv, Exact, DecommissionIsWhole, NoRow, Known
<1> QED BY <1>3, <1>5, <1>6, <1>7, <1>8 DEF IndInv

-----------------------------------------------------------------------------
(* Retiring a sensor *)

\* A step of a decommission that changes no table: what is left to show of it.
LEMMA RequestStep ==
    ASSUME IndInv, NEW p \in Processes, NEW r \in Requests, request' = [request EXCEPT ![p] = r],
           UNCHANGED <<clock, dbVars, sweep, phase, timers, recorded, dismissed>>,
           budget' = budget \/ Spend("incidents", MaxIncidents),
           lock' \in {lock, NoOne, <<"request", p>>},
           \A q \in Processes : LockOK(q)', phase[p] # "down" \/ r.step = "idle",
           status' = status \/ request[p].step # "idle",
           status' \in [Sensors -> {"live", "retiring", "retired"}],
           \A s \in Sensors : status'[s] = "retired" => status[s] = "retired",
           RequestOK(p)'
    PROVE  IndInv'
<1>1. TypeOK'
  <2>1. lock' \in Holders \cup {NoOne}
    BY DEF IndInv, TypeOK, Holders
  <2>2. budget' \in [findings : Nat, sightings : Nat, incidents : Nat]
    BY DEF IndInv, TypeOK, Spend
  <2> QED BY <2>1, <2>2 DEF IndInv, TypeOK, dbVars
<1>2. \A q \in Processes : request'[q] = IF q = p THEN r ELSE request[q]
  BY DEF IndInv, TypeOK
<1>3. ASSUME NEW q \in Processes PROVE PhaseOK(q)' /\ SweepOK(q)' /\ RequestOK(q)'
  <2>1. SweepOK(q)'
    BY SweepKept DEF IndInv, dbVars
  <2>2. PhaseOK(q)'
    BY <1>2 DEF IndInv, PhaseOK
  <2>3. RequestOK(q)'
    <3>1. CASE q = p
      BY <3>1
    <3>2. CASE q # p /\ request[p].step = "idle"
      <4>1. request[q].sensor \in Sensors
        BY DEF IndInv, TypeOK, Requests
      <4> QED BY <1>2, <3>2, <4>1, RequestKept DEF IndInv, dbVars, Known
    <3>3. CASE q # p /\ request[p].step # "idle"
      <4>1. request[q].step = "idle"
        BY <3>3, OneHolder DEF IndInv
      <4> QED BY <1>2, <3>3, <4>1 DEF IndInv, RequestOK
    <3> QED BY <3>1, <3>2, <3>3
  <2> QED BY <2>1, <2>2, <2>3
<1>4. RowsOK' /\ Exact'
  BY DEF IndInv, RowsOK, Exact, dbVars, Stored
<1>5. RetiredOK'
  BY Records DEF IndInv, RetiredOK
<1>6. DecommissionIsWhole'
  BY DEF IndInv, DecommissionIsWhole, dbVars, Known
<1> QED BY <1>1, <1>3, <1>4, <1>5, <1>6 DEF IndInv

LEMMA RequestType ==
    ASSUME IndInv, NEW p \in Processes
    PROVE  /\ request \in [Processes -> Requests] /\ request[p] \in Requests
           /\ request[p].sensor \in Sensors /\ request[p].alerts \subseteq Keys
           /\ request[p].devices \subseteq Devices /\ request[p].buckets \subseteq Keys
<1>1. request \in [Processes -> Requests]
  BY DEF IndInv, TypeOK
<1>2. request[p] \in Requests
  BY <1>1
<1> QED BY <1>1, <1>2 DEF Requests

LEMMA BeginDecommissionInv ==
    ASSUME IndInv, NEW p \in Processes, NEW s \in Sensors, BeginDecommission(p, s)
    PROVE  IndInv'
<1> DEFINE r == [NoRequest(s) EXCEPT !.step = "check"]
<1>1. /\ r \in Requests /\ r.step = "check" /\ r.alerts = {} /\ r.buckets = {}
  BY DEF NoRequest, Requests
<1>2. /\ phase[p] \in {"up", "stopping"} /\ lock = NoOne /\ lock' = <<"request", p>>
      /\ request' = [request EXCEPT ![p] = r] /\ Spend("incidents", MaxIncidents)
      /\ UNCHANGED <<clock, dbVars, sweep, phase, timers, history>>
  BY DEF BeginDecommission
<1> HIDE DEF r
<1>3. request'[p] = r /\ \A q \in Processes \ {p} : request'[q] = request[q]
  BY <1>2, RequestType
<1>4. \A q \in Processes : LockOK(q)'
  <2>1. \A q \in Processes : sweep[q].stage \notin Locked /\ request[q].step = "idle"
    BY <1>2, ConstantsAssumption DEF IndInv, LockOK
  <2> QED BY <1>2, <1>3, <2>1 DEF LockOK
<1>5. RequestOK(p)'
  BY <1>1, <1>3 DEF RequestOK
<1>6. status' \in [Sensors -> {"live", "retiring", "retired"}]
  BY <1>2 DEF IndInv, TypeOK, history
<1> QED BY <1>1, <1>2, <1>4, <1>5, <1>6, RequestStep DEF history

\* The request is over, with or without its effects: the lock is free again.
LEMMA EndRequestFacts ==
    ASSUME IndInv, NEW p \in Processes, request[p].step # "idle", EndRequest(p), sweep' = sweep
    PROVE  /\ NoRequest(Own[p]) \in Requests /\ NoRequest(Own[p]).step = "idle"
           /\ lock' = NoOne /\ request' = [request EXCEPT ![p] = NoRequest(Own[p])]
           /\ \A q \in Processes : LockOK(q)' /\ sweep[q].stage \notin Locked
           /\ RequestOK(p)'
           /\ \A q \in Processes \ {p} : request'[q] = request[q] /\ request[q].step = "idle"
<1>1. Own[p] \in Sensors
  BY ConstantsAssumption
<1>2. lock' = NoOne /\ request' = [request EXCEPT ![p] = NoRequest(Own[p])]
  BY DEF EndRequest
<1>3. NoRequest(Own[p]) \in Requests /\ NoRequest(Own[p]).step = "idle"
  BY <1>1, Records DEF NoRequest
<1>4. request'[p] = NoRequest(Own[p]) /\ \A q \in Processes \ {p} : request'[q] = request[q]
  BY <1>2, RequestType
<1>5. \A q \in Processes : sweep[q].stage \notin Locked
  BY DEF IndInv, LockOK
<1>6. \A q \in Processes \ {p} : request[q].step = "idle"
  BY OneHolder DEF IndInv
<1>7. \A q \in Processes : LockOK(q)'
  BY <1>3, <1>4, <1>5, <1>6 DEF LockOK
<1>8. RequestOK(p)'
  BY <1>1, <1>4, NoRequestOK
<1> QED BY <1>2, <1>3, <1>4, <1>5, <1>6, <1>7, <1>8

LEMMA RequestFailsInv ==
    ASSUME IndInv, NEW p \in Processes, RequestFails(p)
    PROVE  IndInv'
<1>1. /\ request[p].step # "idle" /\ EndRequest(p)
      /\ UNCHANGED <<clock, dbVars, sweep, phase, timers, budget, history>>
  BY DEF RequestFails
<1>2. status' \in [Sensors -> {"live", "retiring", "retired"}] /\ status' = status
  BY <1>1 DEF IndInv, TypeOK, history
<1> QED BY <1>1, <1>2, EndRequestFacts, RequestStep DEF history

LEMMA CheckActiveInv ==
    ASSUME IndInv, NEW p \in Processes, CheckActive(p)
    PROVE  IndInv'
<1> DEFINE s == request[p].sensor
           r == [request[p] EXCEPT !.step = "alerts"]
<1>1. /\ request[p].step = "check"
      /\ UNCHANGED <<clock, dbVars, sweep, phase, timers, budget, recorded, dismissed>>
  BY DEF CheckActive
<1>2. CASE EndRequest(p) /\ UNCHANGED status
  <2>1. status' \in [Sensors -> {"live", "retiring", "retired"}] /\ status' = status
    BY <1>2 DEF IndInv, TypeOK
  <2> QED BY <1>1, <1>2, <2>1, EndRequestFacts, RequestStep
<1>3. CASE /\ request' = [request EXCEPT ![p].step = "alerts"]
           /\ status' = [status EXCEPT ![s] = "retiring"] /\ UNCHANGED lock
  <2>1. /\ r \in Requests /\ r.step = "alerts" /\ r.sensor = s
        /\ r.alerts = request[p].alerts /\ r.buckets = request[p].buckets
    BY RequestType DEF Requests
  <2>2. request' = [request EXCEPT ![p] = r]
    BY <1>3, RequestType
  <2> HIDE DEF r
  <2>3. request'[p] = r /\ \A q \in Processes \ {p} : request'[q] = request[q]
    BY <2>2, RequestType
  <2>4. \A q \in Processes : LockOK(q)'
    BY <1>1, <1>3, <2>1, <2>3 DEF IndInv, LockOK
  <2>5. RequestOK(p)'
    BY <2>1, <2>3 DEF IndInv, RequestOK
  <2>6. /\ status' \in [Sensors -> {"live", "retiring", "retired"}]
        /\ \A x \in Sensors : status'[x] = "retired" => status[x] = "retired"
    BY <1>3, RequestType DEF IndInv, TypeOK
  <2>7. phase[p] # "down"
    BY <1>1 DEF IndInv, PhaseOK
  <2> QED BY <1>1, <1>3, <2>1, <2>2, <2>4, <2>5, <2>6, <2>7, RequestStep
<1> QED BY <1>2, <1>3 DEF CheckActive

\* What one statement of the transaction deletes is what the statement sees.
LEMMA DeleteStepFacts ==
    ASSUME IndInv, NEW p \in Processes, NEW r \in Requests, request[p].step # "idle",
           r.step # "idle", request' = [request EXCEPT ![p] = r], lock' = lock, sweep' = sweep
    PROVE  /\ \A q \in Processes : LockOK(q)'
           /\ phase[p] # "down"
           /\ request'[p] = r /\ \A q \in Processes \ {p} : request'[q] = request[q]
<1>1. request'[p] = r /\ \A q \in Processes \ {p} : request'[q] = request[q]
  BY RequestType
<1>2. \A q \in Processes : LockOK(q)'
  BY <1>1 DEF IndInv, LockOK
<1>3. phase[p] # "down"
  BY DEF IndInv, PhaseOK
<1> QED BY <1>1, <1>2, <1>3

LEMMA DeleteSensorAlertsInv ==
    ASSUME IndInv, NEW p \in Processes, DeleteSensorAlerts(p)
    PROVE  IndInv'
<1> DEFINE K == {k \in Stored : k[1] = request[p].sensor}
           r == [request[p] EXCEPT !.step = "devices", !.alerts = K]
<1>1. /\ request[p].step = "alerts" /\ request' = [request EXCEPT ![p] = r]
      /\ UNCHANGED <<clock, dbVars, lock, sweep, phase, timers, budget, history>>
  BY RequestType DEF DeleteSensorAlerts
<1>2. /\ r \in Requests /\ r.step = "devices" /\ r.sensor = request[p].sensor
      /\ r.alerts = K /\ r.buckets = request[p].buckets
  BY RequestType DEF Requests, Stored
<1> HIDE DEF r
<1>3. RequestOK(p)'
  BY <1>1, <1>2, RequestType DEF IndInv, RequestOK, Stored, dbVars
<1>4. status' \in [Sensors -> {"live", "retiring", "retired"}] /\ status' = status
  BY <1>1 DEF IndInv, TypeOK, history
<1> QED BY <1>1, <1>2, <1>3, <1>4, DeleteStepFacts, RequestStep DEF history

LEMMA DeleteSensorDevicesInv ==
    ASSUME IndInv, NEW p \in Processes, DeleteSensorDevices(p)
    PROVE  IndInv'
<1> DEFINE r == [request[p] EXCEPT !.step = "rollup", !.devices = Known(request[p].sensor)]
<1>1. /\ request[p].step = "devices" /\ request' = [request EXCEPT ![p] = r]
      /\ UNCHANGED <<clock, dbVars, lock, sweep, phase, timers, budget, history>>
  BY RequestType DEF DeleteSensorDevices
<1>2. /\ r \in Requests /\ r.step = "rollup" /\ r.sensor = request[p].sensor
      /\ r.alerts = request[p].alerts /\ r.buckets = request[p].buckets
      /\ r.devices = Known(request[p].sensor)
  BY RequestType DEF Requests, Known
<1> HIDE DEF r
<1>3. RequestOK(p)'
  BY <1>1, <1>2, RequestType DEF IndInv, RequestOK, Stored, Known, dbVars, history
<1>4. status' \in [Sensors -> {"live", "retiring", "retired"}] /\ status' = status
  BY <1>1 DEF IndInv, TypeOK, history
<1> QED BY <1>1, <1>2, <1>3, <1>4, DeleteStepFacts, RequestStep DEF history

LEMMA DeleteSensorBucketsInv ==
    ASSUME IndInv, NEW p \in Processes, DeleteSensorBuckets(p)
    PROVE  IndInv'
<1> DEFINE K == {k \in Keys : k[1] = request[p].sensor /\ rollup[k] > 0}
           r == [request[p] EXCEPT !.step = "commit", !.buckets = K]
<1>1. /\ request[p].step = "rollup" /\ request' = [request EXCEPT ![p] = r]
      /\ UNCHANGED <<clock, dbVars, lock, sweep, phase, timers, budget, history>>
  BY RequestType DEF DeleteSensorBuckets
<1>2. /\ r \in Requests /\ r.step = "commit" /\ r.sensor = request[p].sensor
      /\ r.alerts = request[p].alerts /\ r.devices = request[p].devices /\ r.buckets = K
  BY RequestType DEF Requests
<1> HIDE DEF r
<1>3. RequestOK(p)'
  BY <1>1, <1>2, RequestType DEF IndInv, RequestOK, Stored, Known, dbVars, history
<1>4. status' \in [Sensors -> {"live", "retiring", "retired"}] /\ status' = status
  BY <1>1 DEF IndInv, TypeOK, history
<1> QED BY <1>1, <1>2, <1>3, <1>4, DeleteStepFacts, RequestStep DEF history

LEMMA CommitDecommissionInv ==
    ASSUME IndInv, NEW p \in Processes, CommitDecommission(p)
    PROVE  IndInv'
<1> DEFINE r == request[p]
<1>a. PICK s \in Sensors : s = request[p].sensor
  BY RequestType
<1>1. /\ request[p].step = "commit" /\ EndRequest(p)
      /\ alerts' = [k \in Keys |-> IF k \in r.alerts THEN NoRow ELSE alerts[k]]
      /\ rollup' = [k \in Keys |-> IF k \in r.buckets THEN 0 ELSE rollup[k]]
      /\ devices' = [devices EXCEPT ![s] = [d \in Devices |->
                               IF d \in r.devices THEN Absent ELSE devices[s][d]]]
      /\ recorded' = [k \in Keys |-> IF k[1] = s THEN alerts'[k].occurrences + rollup'[k]
                                                 ELSE recorded[k]]
      /\ dismissed' = [k \in Keys |-> IF k[1] = s THEN 0 ELSE dismissed[k]]
      /\ status' = [status EXCEPT ![s] = IF @ = "retiring" THEN "retired" ELSE @]
      /\ UNCHANGED <<clock, sweep, phase, timers, budget>>
  BY <1>a DEF CommitDecommission
<1>2. s \in Sensors /\ \A k \in r.alerts \cup r.buckets : k[1] = s
  BY <1>a DEF IndInv, RequestOK
<1>3. \A k \in Keys :
        /\ rollup[k] \in Nat /\ recorded[k] \in Nat /\ dismissed[k] \in Nat
        /\ alerts[k] \in Rows /\ alerts[k].occurrences \in Nat
  BY DEF IndInv, TypeOK, Rows
<1>4. \A k \in Keys :
        /\ alerts'[k] = IF k \in r.alerts THEN NoRow ELSE alerts[k]
        /\ rollup'[k] = IF k \in r.buckets THEN 0 ELSE rollup[k]
        /\ recorded'[k] = IF k[1] = s THEN alerts'[k].occurrences + rollup'[k] ELSE recorded[k]
        /\ dismissed'[k] = IF k[1] = s THEN 0 ELSE dismissed[k]
  BY <1>1
<1>5. \A k \in Keys : /\ alerts'[k] \in Rows /\ alerts'[k].occurrences \in Nat
                      /\ alerts'[k].occurrences > 0 => alerts'[k] = alerts[k]
                      /\ rollup'[k] \in Nat /\ recorded'[k] \in Nat /\ dismissed'[k] \in Nat
                      /\ k[1] # s => alerts'[k] = alerts[k] /\ rollup'[k] = rollup[k]
  BY <1>2, <1>3, <1>4, Records DEF NoRow
<1> HIDE DEF r
<1>6. /\ \A x \in Sensors \ {s} : status'[x] = status[x]
      /\ status'[s] = IF status[s] = "retiring" THEN "retired" ELSE status[s]
      /\ status' \in [Sensors -> {"live", "retiring", "retired"}]
  <2>1. status \in [Sensors -> {"live", "retiring", "retired"}]
    BY DEF IndInv, TypeOK
  <2> QED BY <1>1, <1>2, <2>1
<1>7. /\ \A x \in Sensors \ {s} : Known(x)' = Known(x)
      /\ Known(s)' = Known(s) \ r.devices
      /\ devices' \in [Sensors -> [Devices -> Times \cup {Absent}]]
  <2>1. devices \in [Sensors -> [Devices -> Times \cup {Absent}]]
    BY DEF IndInv, TypeOK
  <2>2. /\ \A x \in Sensors \ {s} : devices'[x] = devices[x]
        /\ devices'[s] = [d \in Devices |-> IF d \in r.devices THEN Absent ELSE devices[s][d]]
    BY <1>1, <1>2, <2>1
  <2>3. devices' \in [Sensors -> [Devices -> Times \cup {Absent}]]
    BY <1>1, <1>2, <2>1, <2>2
  <2>4. \A x \in Sensors \ {s} : Known(x)' = Known(x)
    BY <2>2 DEF Known
  <2>5. ASSUME NEW d \in Devices
        PROVE  devices'[s][d] # Absent <=> devices[s][d] # Absent /\ d \notin r.devices
    BY <2>2
  <2>6. Known(s)' = Known(s) \ r.devices
    BY <2>5 DEF Known
  <2> QED BY <2>3, <2>4, <2>6
<1>8. /\ NoRequest(Own[p]) \in Requests /\ request' = [request EXCEPT ![p] = NoRequest(Own[p])]
      /\ lock' = NoOne /\ RequestOK(p)'
      /\ \A q \in Processes : LockOK(q)' /\ sweep[q].stage \notin Locked
      /\ \A q \in Processes \ {p} : request'[q] = request[q] /\ request[q].step = "idle"
  BY <1>1, EndRequestFacts
<1>9. TypeOK'
  <2>1. request' \in [Processes -> Requests]
    BY <1>8, RequestType
  <2>2. /\ alerts' \in [Keys -> Rows] /\ rollup' \in [Keys -> Nat]
        /\ recorded' \in [Keys -> Nat] /\ dismissed' \in [Keys -> Nat]
    <3>1. /\ alerts' \in [Keys -> Rows] /\ rollup' \in [Keys -> Nat]
      BY <1>1, <1>3, Records
    <3>2. recorded' \in [Keys -> Nat]
      BY <1>1, <1>4, <1>5
    <3>3. dismissed' \in [Keys -> Nat]
      BY <1>1, <1>3
    <3> QED BY <3>1, <3>2, <3>3
  <2> QED BY <1>1, <1>6, <1>7, <1>8, <2>1, <2>2 DEF IndInv, TypeOK
<1>10. ASSUME NEW q \in Processes PROVE PhaseOK(q)' /\ SweepOK(q)' /\ RequestOK(q)'
  <2>1. PhaseOK(q)'
    BY <1>1, <1>8 DEF IndInv, PhaseOK, NoRequest
  <2>2. SweepOK(q)'
    <3>1. sweep[q].stage \notin {"delete", "commit"}
      BY <1>8 DEF Locked
    <3> QED BY <1>1, <3>1, SweepKeptQuiet DEF IndInv
  <2>3. RequestOK(q)'
    <3>1. CASE q = p
      BY <1>8, <3>1
    <3>2. CASE q # p
      BY <1>8, <3>2 DEF IndInv, RequestOK
    <3> QED BY <3>1, <3>2
  <2> QED BY <2>1, <2>2, <2>3
<1>11. RowsOK'
  BY <1>5 DEF IndInv, RowsOK, Stored
\* A sensor that has not written since the check: nothing of it is left.
<1>12. ASSUME status[s] = "retiring"
       PROVE  /\ Known(s)' = {}
              /\ \A k \in Keys : k[1] = s => alerts'[k].occurrences = 0 /\ rollup'[k] = 0
  <2>1. /\ \A k \in Stored : k[1] = s => k \in r.alerts
        /\ Known(s) \subseteq r.devices
        /\ \A k \in Keys : k[1] = s /\ rollup[k] > 0 => k \in r.buckets
    BY <1>1, <1>a, <1>12 DEF IndInv, RequestOK, r
  <2> QED BY <1>3, <1>4, <1>7, <2>1 DEF NoRow, Stored
<1>13. DecommissionIsWhole'
  <2>1. ASSUME NEW x \in Sensors, status'[x] = "retired", x # s
        PROVE  /\ Known(x)' = {}
               /\ \A k \in Keys : k[1] = x => alerts'[k].occurrences = 0 /\ rollup'[k] = 0
    BY <1>5, <1>6, <1>7, <2>1 DEF IndInv, DecommissionIsWhole
  <2>2. ASSUME status'[s] = "retired"
        PROVE  /\ Known(s)' = {}
               /\ \A k \in Keys : k[1] = s => alerts'[k].occurrences = 0 /\ rollup'[k] = 0
    <3>1. CASE status[s] = "retiring"
      BY <1>12, <3>1
    <3>2. CASE status[s] # "retiring"
      <4>1. /\ Known(s) = {}
            /\ \A k \in Keys : k[1] = s => alerts[k].occurrences = 0 /\ rollup[k] = 0
        BY <1>2, <1>6, <2>2, <3>2 DEF IndInv, DecommissionIsWhole
      <4> QED BY <1>4, <1>7, <4>1 DEF NoRow
    <3> QED BY <3>1, <3>2
  <2>3. ASSUME NEW x \in Sensors, status'[x] = "retired"
        PROVE  /\ Known(x)' = {}
               /\ \A k \in Keys : k[1] = x => alerts'[k].occurrences = 0 /\ rollup'[k] = 0
    <3>1. CASE x = s
      BY <2>2, <2>3, <3>1
    <3>2. CASE x # s
      BY <2>1, <2>3, <3>2
    <3> QED BY <3>1, <3>2
  <2> QED BY <2>3 DEF DecommissionIsWhole
<1>14. RetiredOK'
  <2>1. ASSUME NEW k \in Keys, status'[k[1]] = "retired" PROVE recorded'[k] = 0
    <3>1. CASE k[1] = s
      BY <1>2, <1>4, <1>13, <2>1, <3>1 DEF DecommissionIsWhole
    <3>2. CASE k[1] # s
      BY <1>4, <1>6, <2>1, <3>2, Records DEF IndInv, RetiredOK
    <3> QED BY <3>1, <3>2
  <2> QED BY <2>1 DEF RetiredOK
<1>15. Exact'
  <2>1. ASSUME NEW k \in Keys
        PROVE  /\ rollup'[k] + alerts'[k].occurrences <= recorded'[k]
               /\ recorded'[k] <= rollup'[k] + alerts'[k].occurrences + dismissed'[k]
    <3>1. CASE k[1] = s
      BY <1>4, <1>5, <3>1
    <3>2. CASE k[1] # s
      BY <1>4, <1>5, <3>2 DEF IndInv, Exact
    <3> QED BY <3>1, <3>2
  <2> QED BY <2>1 DEF Exact
<1> QED BY <1>8, <1>9, <1>10, <1>11, <1>13, <1>14, <1>15 DEF IndInv

-----------------------------------------------------------------------------
(* The life of a process *)

\* A step of one process that touches neither a table nor another process.
LEMMA ProcessStep ==
    ASSUME IndInv, NEW p \in Processes, NEW f \in {"up", "stopping", "draining", "down"},
           NEW T \in SUBSET {"interval", "first"}, NEW r \in Sweeps, NEW d \in Requests,
           phase' = [phase EXCEPT ![p] = f], timers' = [timers EXCEPT ![p] = T],
           sweep' = [sweep EXCEPT ![p] = r], request' = [request EXCEPT ![p] = d],
           UNCHANGED <<clock, dbVars, history>>,
           budget' = budget \/ Spend("incidents", MaxIncidents),
           lock' \in {lock, NoOne}, \A q \in Processes : LockOK(q)',
           r \in {sweep[p], NoSweep}, d \in {request[p], NoRequest(Own[p])},
           f # "up" => T = {}, f \in {"draining", "down"} => r.stage = "idle",
           f = "down" => d.step = "idle"
    PROVE  IndInv'
<1>1. TypeOK'
  <2>1. budget' \in [findings : Nat, sightings : Nat, incidents : Nat]
    BY DEF IndInv, TypeOK, Spend
  <2> QED BY <2>1 DEF IndInv, TypeOK, dbVars, history
<1>2. /\ sweep'[p] = r /\ request'[p] = d /\ phase'[p] = f /\ timers'[p] = T
      /\ \A q \in Processes \ {p} : /\ sweep'[q] = sweep[q] /\ request'[q] = request[q]
                                    /\ phase'[q] = phase[q] /\ timers'[q] = timers[q]
  BY DEF IndInv, TypeOK
<1>3. ASSUME NEW q \in Processes PROVE PhaseOK(q)' /\ SweepOK(q)' /\ RequestOK(q)'
  <2>1. PhaseOK(q)'
    BY <1>2 DEF IndInv, PhaseOK
  <2>2. SweepOK(q)'
    <3>1. CASE sweep'[q] = sweep[q]
      BY <3>1, SweepKept DEF IndInv, dbVars, history
    <3>2. CASE sweep'[q] = NoSweep
      BY <3>2, SweepStaysQuiet DEF NoSweep, CutoffOK
    <3> QED BY <1>2, <3>1, <3>2
  <2>3. RequestOK(q)'
    <3>1. CASE request'[q] = request[q]
      <4>1. request[q].sensor \in Sensors
        BY RequestType
      <4> QED BY <3>1, <4>1, RequestKept DEF IndInv, dbVars, history, Known
    <3>2. CASE request'[q] = NoRequest(Own[q])
      BY <3>2, NoRequestOK, ConstantsAssumption
    <3> QED BY <1>2, <3>1, <3>2
  <2> QED BY <2>1, <2>2, <2>3
<1>4. RowsOK' /\ RetiredOK' /\ Exact' /\ DecommissionIsWhole'
  BY DEF IndInv, RowsOK, RetiredOK, Exact, DecommissionIsWhole, dbVars, history, Known, Stored
<1> QED BY <1>1, <1>3, <1>4 DEF IndInv

LEMMA CrashInv ==
    ASSUME IndInv, NEW p \in Processes, Crash(p)
    PROVE  IndInv'
<1>1. /\ phase' = [phase EXCEPT ![p] = "down"] /\ timers' = [timers EXCEPT ![p] = {}]
      /\ sweep' = [sweep EXCEPT ![p] = NoSweep]
      /\ request' = [request EXCEPT ![p] = NoRequest(Own[p])]
      /\ lock' = Released(p) /\ Spend("incidents", MaxIncidents)
      /\ UNCHANGED <<clock, dbVars, history>>
  BY DEF Crash
<1>2. /\ NoSweep \in Sweeps /\ NoSweep.stage = "idle"
      /\ NoRequest(Own[p]) \in Requests /\ NoRequest(Own[p]).step = "idle"
  BY Records, ConstantsAssumption DEF NoSweep, NoRequest
<1>3. lock' \in {lock, NoOne} /\ (lock' = lock \/ lock \in {<<"sweep", p>>, <<"request", p>>})
  BY <1>1 DEF Released
<1>4. ASSUME NEW q \in Processes PROVE LockOK(q)'
  <2>1. CASE q = p
    <3>1. sweep'[p] = NoSweep /\ request'[p] = NoRequest(Own[p])
      BY <1>1, SweepType, RequestType
    <3> QED BY <1>2, <2>1, <3>1 DEF LockOK, Locked
  <2>2. CASE q # p
    <3>1. sweep'[q] = sweep[q] /\ request'[q] = request[q]
      BY <1>1, <2>2, SweepType, RequestType
    <3> QED BY <1>3, <2>2, <3>1 DEF IndInv, LockOK
  <2> QED BY <2>1, <2>2
<1> QED BY <1>1, <1>2, <1>3, <1>4, ProcessStep

\* What the steps of an orderly stop and of a start have in common.
LEMMA PhaseStep ==
    ASSUME IndInv, NEW p \in Processes, NEW f \in {"up", "stopping", "draining", "down"},
           NEW T \in SUBSET {"interval", "first"},
           phase' = [phase EXCEPT ![p] = f], timers' = [timers EXCEPT ![p] = T],
           UNCHANGED <<clock, dbVars, sweep, request, history>>,
           budget' = budget \/ Spend("incidents", MaxIncidents),
           lock' = lock \/ (lock' = Released(p) /\ sweep[p].stage = "idle"
                             /\ request[p].step = "idle"),
           f # "up" => T = {}, f \in {"draining", "down"} => sweep[p].stage = "idle",
           f = "down" => request[p].step = "idle"
    PROVE  IndInv'
<1>1. /\ sweep' = [sweep EXCEPT ![p] = sweep[p]] /\ request' = [request EXCEPT ![p] = request[p]]
      /\ sweep[p] \in Sweeps /\ request[p] \in Requests
  BY SweepType, RequestType
<1>2. lock' \in {lock, NoOne} /\ (lock' = lock \/ lock \in {<<"sweep", p>>, <<"request", p>>})
  BY DEF Released
<1>3. ASSUME NEW q \in Processes PROVE LockOK(q)'
  <2>1. CASE lock' = lock
    BY <2>1 DEF IndInv, LockOK
  <2>2. CASE lock' # lock
    BY <1>2, <2>2 DEF IndInv, LockOK, Locked
  <2> QED BY <2>1, <2>2
<1>4. lock' \in {lock, NoOne} /\ UNCHANGED <<clock, dbVars, history>>
  BY <1>2
<1>5. PICK r \in Sweeps : r = sweep[p]
  BY <1>1
<1>6. PICK d \in Requests : d = request[p]
  BY <1>1
<1>7. /\ sweep' = [sweep EXCEPT ![p] = r] /\ request' = [request EXCEPT ![p] = d]
      /\ f \in {"draining", "down"} => r.stage = "idle"
      /\ f = "down" => d.step = "idle"
      /\ r \in {sweep[p], NoSweep} /\ d \in {request[p], NoRequest(Own[p])}
  BY <1>1, <1>5, <1>6
<1> QED BY <1>3, <1>4, <1>7, ProcessStep

LEMMA StopRetentionInv ==
    ASSUME IndInv, NEW p \in Processes, StopRetention(p)
    PROVE  IndInv'
<1>1. /\ phase' = [phase EXCEPT ![p] = "stopping"] /\ timers' = [timers EXCEPT ![p] = {}]
      /\ Spend("incidents", MaxIncidents)
      /\ UNCHANGED <<clock, dbVars, lock, sweep, request, history>>
  BY DEF StopRetention, LeftScheduled
<1> QED BY <1>1, PhaseStep

LEMMA RetentionIdleInv ==
    ASSUME IndInv, NEW p \in Processes, RetentionIdle(p)
    PROVE  IndInv'
<1>1. /\ phase[p] = "stopping" /\ sweep[p].stage = "idle"
      /\ phase' = [phase EXCEPT ![p] = "draining"]
      /\ UNCHANGED <<clock, dbVars, lock, sweep, request, timers, budget, history>>
  BY DEF RetentionIdle
<1>2. timers[p] = {} /\ timers' = [timers EXCEPT ![p] = {}]
  BY <1>1 DEF IndInv, PhaseOK, TypeOK
<1> QED BY <1>1, <1>2, PhaseStep

LEMMA CloseDbInv ==
    ASSUME IndInv, NEW p \in Processes, CloseDb(p)
    PROVE  IndInv'
<1>1. /\ phase[p] = "draining" /\ request[p].step = "idle"
      /\ phase' = [phase EXCEPT ![p] = "down"] /\ lock' = Released(p)
      /\ UNCHANGED <<clock, dbVars, sweep, request, timers, budget, history>>
  BY DEF CloseDb
<1>2. timers[p] = {} /\ timers' = [timers EXCEPT ![p] = {}] /\ sweep[p].stage = "idle"
  BY <1>1 DEF IndInv, PhaseOK, TypeOK
<1> QED BY <1>1, <1>2, PhaseStep

LEMMA StartRetentionInv ==
    ASSUME IndInv, NEW p \in Processes, StartRetention(p)
    PROVE  IndInv'
<1>1. /\ phase' = [phase EXCEPT ![p] = "up"]
      /\ timers' = [timers EXCEPT ![p] = {"interval", "first"}]
      /\ UNCHANGED <<clock, dbVars, lock, sweep, request, budget, history>>
  BY DEF StartRetention
<1> QED BY <1>1, PhaseStep

-----------------------------------------------------------------------------
(* The theorems *)

LEMMA InitInv == Init => IndInv
<1> SUFFICES ASSUME Init PROVE IndInv
  OBVIOUS
<1>1. 0 \in Times
  BY ConstantsAssumption DEF Times
<1>2. TypeOK
  BY <1>1, Records, ConstantsAssumption DEF Init, TypeOK
<1>3. \A k \in Keys : alerts[k].occurrences = 0 /\ rollup[k] = 0 /\ recorded[k] = 0 /\ dismissed[k] = 0
  BY DEF Init, NoRow
<1>4. ASSUME NEW p \in Processes PROVE LockOK(p) /\ PhaseOK(p) /\ SweepOK(p) /\ RequestOK(p)
  <2>1. sweep[p] = NoSweep /\ request[p] = NoRequest(Own[p]) /\ phase[p] = "up"
    BY DEF Init
  <2>2. LockOK(p) /\ PhaseOK(p) /\ RequestOK(p)
    BY <2>1 DEF LockOK, PhaseOK, RequestOK, Locked, NoSweep, NoRequest
  <2>3. SweepOK(p)
    BY <2>1 DEF SweepOK, CutoffOK, TakenOK, CurrentOK, GoneOK, NoSweep
  <2> QED BY <2>2, <2>3
<1>5. RowsOK /\ RetiredOK /\ Exact
  BY <1>3 DEF RowsOK, RetiredOK, Exact, Stored
<1>6. DecommissionIsWhole
  BY DEF Init, DecommissionIsWhole
<1> QED BY <1>2, <1>4, <1>5, <1>6 DEF IndInv

LEMMA SweepingInv ==
    ASSUME IndInv, NEW p \in Processes,
           \/ IntervalFires(p) \/ FirstSweepFires(p) \/ SweepStep(p)
           \/ DayFails(p) \/ SweepFails(p) \/ ConnectionClosed(p)
    PROVE  IndInv'
BY IntervalFiresInv, FirstSweepFiresInv, TryLockInv, ExpiredDaysInv, AggregateDayInv,
   DeleteDayInv, CommitDayInv, ForgetStaleDevicesInv, UnlockInv, DayFailsInv, SweepFailsInv,
   ConnectionClosedInv DEF SweepStep

LEMMA ServingInv ==
    ASSUME IndInv, NEW p \in Processes,
           \/ \E s \in Sensors : BeginDecommission(p, s)
           \/ Decommission(p) \/ RequestFails(p)
           \/ Crash(p) \/ StopRetention(p) \/ RetentionIdle(p) \/ CloseDb(p) \/ StartRetention(p)
    PROVE  IndInv'
BY BeginDecommissionInv, CheckActiveInv, DeleteSensorAlertsInv, DeleteSensorDevicesInv,
   DeleteSensorBucketsInv, CommitDecommissionInv, RequestFailsInv, CrashInv, StopRetentionInv,
   RetentionIdleInv, CloseDbInv, StartRetentionInv DEF Decommission

\* Every reachable state satisfies the inductive invariant when findings are written in time.
THEOREM Inductive ==
    ASSUME InTime
    PROVE  Spec => []IndInv
<1>1. IndInv /\ [Next]_vars => IndInv'
  <2> SUFFICES ASSUME IndInv, [Next]_vars PROVE IndInv'
    OBVIOUS
  <2>1. CASE Tick
    BY <2>1, TickInv
  <2>2. ASSUME NEW s \in Sensors, NEW t \in Times, RecordFinding(s, t) PROVE IndInv'
    BY <2>2, RecordFindingInv
  <2>3. ASSUME NEW s \in Sensors, NEW d \in Devices, RecordDevice(s, d) PROVE IndInv'
    BY <2>3, RecordDeviceInv
  <2>4. CASE DeleteAlert \/ DeleteAllAlerts
    <3>1. ASSUME NEW k \in Stored, DeleteAlerts({k}) PROVE IndInv'
      BY <3>1, DeleteAlertsInv
    <3> QED BY <2>4, <3>1, DeleteAlertsInv DEF DeleteAlert, DeleteAllAlerts
  <2>5. ASSUME NEW p \in Processes,
               \/ IntervalFires(p) \/ FirstSweepFires(p) \/ SweepStep(p)
               \/ DayFails(p) \/ SweepFails(p) \/ ConnectionClosed(p)
        PROVE  IndInv'
    BY <2>5, SweepingInv
  <2>6. ASSUME NEW p \in Processes,
               \/ \E s \in Sensors : BeginDecommission(p, s)
               \/ Decommission(p) \/ RequestFails(p)
               \/ Crash(p) \/ StopRetention(p) \/ RetentionIdle(p) \/ CloseDb(p)
               \/ StartRetention(p)
        PROVE  IndInv'
    BY <2>6, ServingInv
  <2>7. CASE UNCHANGED vars
    <3> USE <2>7 DEF vars, dbVars, history
    <3>1. TypeOK' /\ RowsOK' /\ RetiredOK' /\ Exact' /\ DecommissionIsWhole'
      BY DEF IndInv, TypeOK, RowsOK, RetiredOK, Exact, DecommissionIsWhole, Stored, Known
    <3>2. ASSUME NEW p \in Processes
          PROVE  LockOK(p)' /\ PhaseOK(p)' /\ SweepOK(p)' /\ RequestOK(p)'
      <4>1. SweepOK(p)'
        BY SweepKept DEF IndInv
      <4>2. LockOK(p)' /\ PhaseOK(p)' /\ RequestOK(p)'
        BY DEF IndInv, LockOK, PhaseOK, RequestOK, Stored, Known
      <4> QED BY <4>1, <4>2
    <3> QED BY <3>1, <3>2 DEF IndInv
  <2> QED BY <2>1, <2>2, <2>3, <2>4, <2>5, <2>6, <2>7 DEF Next
<1> QED BY <1>1, InitInv, PTL DEF Spec

\* No occurrence is lost or repeated by any number of sweeps, failures and crashes.
THEOREM ExactCorrect ==
    ASSUME InTime
    PROVE  Spec => []Exact
<1>1. IndInv => Exact
  BY DEF IndInv
<1> QED BY <1>1, Inductive, PTL

\* A retired sensor has nothing left, however sweeps and its own writes interleave with it.
THEOREM DecommissionCorrect ==
    ASSUME InTime
    PROVE  Spec => []DecommissionIsWhole
<1>1. IndInv => DecommissionIsWhole
  BY DEF IndInv
<1> QED BY <1>1, Inductive, PTL

\* What a sweep deletes is outside the retention window.
THEOREM RecentIsKeptCorrect ==
    ASSUME InTime
    PROVE  Spec => []RecentIsKept
<1>1. IndInv => RecentIsKept
  <2> SUFFICES ASSUME IndInv, NEW p \in Processes, NEW k \in sweep[p].gone
               PROVE  alerts[k].lastSeen < clock - Retain
    BY DEF RecentIsKept
  <2>1. sweep[p].stage = "commit" /\ alerts[k].lastSeen < sweep[p].cutoff /\ k \in Keys
    BY SweepType DEF IndInv, SweepOK, GoneOK, Expired
  <2>2. sweep[p].cutoff <= clock - Retain
    BY <2>1 DEF IndInv, SweepOK, CutoffOK
  <2>3. /\ alerts[k].lastSeen \in Int /\ clock \in Int /\ Retain \in Int
        /\ sweep[p].cutoff \in Int
    BY <2>1, SweepType, ConstantsAssumption DEF IndInv, TypeOK, Rows, Times
  <2> QED BY <2>1, <2>2, <2>3
<1> QED BY <1>1, Inductive, PTL

\* Shutdown closes no pool that a sweep is using.
THEOREM NoSweepAfterCloseCorrect ==
    ASSUME InTime
    PROVE  Spec => []NoSweepAfterClose
<1>1. IndInv => NoSweepAfterClose
  BY DEF IndInv, PhaseOK, NoSweepAfterClose
<1> QED BY <1>1, Inductive, PTL

\* A set of naturals that is not empty has a smallest one.
LEMMA LeastOf ==
    ASSUME NEW T \in SUBSET Nat, T # {}
    PROVE  \E n \in T : \A m \in T : n <= m
<1>1. PICK B : B = {0..n : n \in T}
  OBVIOUS
<1>2. \A n \in T : 0..n \in SUBSET Nat /\ IsFiniteSet(0..n)
  BY FS_Interval
<1>3. B \subseteq FiniteSubsetsOf(Nat) /\ B # {}
  BY <1>1, <1>2 DEF FiniteSubsetsOf
<1>4. IsWellFoundedOn(StrictSubsetOrdering(Nat), FiniteSubsetsOf(Nat))
  BY FS_StrictSubsetOrderingWellFounded
<1>5. PICK U \in B : \A V \in B : <<V, U>> \notin StrictSubsetOrdering(Nat)
  BY <1>3, <1>4, WFMin
<1>6. PICK n \in T : U = 0..n
  BY <1>1, <1>5
<1>7. ASSUME NEW m \in T, m < n PROVE FALSE
  <2>1. 0..m \in B
    BY <1>1
  <2>2. n \in 0..n /\ n \notin 0..m /\ 0..m \subseteq 0..n /\ 0..m \subseteq Nat /\ 0..n \subseteq Nat
    BY <1>7
  <2>3. <<0..m, 0..n>> \in StrictSubsetOrdering(Nat)
    BY <2>2 DEF StrictSubsetOrdering
  <2> QED BY <2>1, <2>3, <1>5, <1>6
<1> QED BY <1>7

\* Of the devices that a sensor knows, one has been seen last, and it is not stale.
LEMMA LastSeenIsKept ==
    ASSUME TypeOK, NEW s \in Sensors, Known(s) # {}
    PROVE  \E d \in Known(s) : d \notin Stale(s)
<1>1. MaxClock \in Nat /\ DeviceRetain \in Nat
  BY ConstantsAssumption
<1>2. \A d \in Known(s) : devices[s][d] \in 0..MaxClock
  BY DEF TypeOK, Known, Times, Absent
<1>3. PICK ages : ages = {MaxClock - devices[s][d] : d \in Known(s)}
  OBVIOUS
<1>4. ages # {} /\ ages \in SUBSET Nat
  <2>1. \A d \in Known(s) : MaxClock - devices[s][d] \in Nat
    BY <1>1, <1>2
  <2> QED BY <2>1, <1>3
<1>5. PICK n \in ages : \A m \in ages : n <= m
  BY <1>4, LeastOf
<1>6. PICK d \in Known(s) : n = MaxClock - devices[s][d]
  BY <1>3, <1>5
<1>7. ASSUME NEW e \in Known(s) PROVE ~(devices[s][d] < devices[s][e] - DeviceRetain)
  <2>1. MaxClock - devices[s][d] <= MaxClock - devices[s][e]
    BY <1>3, <1>5, <1>6
  <2> HIDE DEF Known
  <2> QED BY <2>1, <1>1, <1>2, <1>6
<1> QED BY <1>6, <1>7 DEF Stale

\* However many sweeps run, a sensor that has known a device still knows one.
THEOREM DevicesSurviveCorrect ==
    ASSUME InTime
    PROVE  Spec => DevicesSurvive
<1>1. IndInv /\ [Next]_vars =>
        [(\E p \in Processes : ForgetStaleDevices(p)) =>
            \A s \in Sensors : Known(s) # {} => Known(s)' # {}]_vars
  <2> SUFFICES ASSUME TypeOK, NEW p \in Processes, ForgetStaleDevices(p),
                      NEW s \in Sensors, Known(s) # {}
               PROVE  Known(s)' # {}
    BY DEF IndInv
  <2>1. PICK d \in Known(s) : d \notin Stale(s)
    BY LastSeenIsKept
  <2>2. d \in Devices /\ devices[s][d] # Absent
    BY DEF Known
  <2>3. devices'[s][d] = devices[s][d]
    BY <2>1, <2>2 DEF ForgetStaleDevices
  <2> QED BY <2>2, <2>3 DEF Known
<1> QED BY <1>1, Inductive, PTL DEF Spec, DevicesSurvive
=============================================================================
