------------------------------ MODULE Notifier ------------------------------
(***************************************************************************)
(* Which stored alerts become a message to a person, and when.             *)
(*                                                                         *)
(* notifier() is one per process.  consider() accepts a finding unless it  *)
(* is below the threshold, throttled or over the hourly ceiling, and puts  *)
(* it in the digest that the next dispatch() sends.  A sink that is closed *)
(* flushes the notifier; saving the delivery settings flushes it, replaces *)
(* it and closes it.  Both run while findings arrive and digests are sent. *)
(*                                                                         *)
(* A finding is its dedup key; the keys that pass the severity threshold   *)
(* are part of the settings, none of them when notification is off.  The   *)
(* continuation of an await that has been resolved runs before any timer,  *)
(* request or answer is looked at: those steps ask for EventLoopTurn.      *)
(* A delivery that fails is over like one that succeeds: nothing retries.  *)
(* Waiting for the exports in flush() is one step; ExportFeed details it.  *)
(***************************************************************************)
EXTENDS Naturals, FiniteSets, Sequences, Functions, FiniteSetsExt

CONSTANTS
    Keys,             \* Finding.dedupKey
    Closers,          \* AlertSinks that may be closed
    Savers,           \* requests that may save the delivery settings
    Settings,         \* what may be saved
    FirstSettings,    \* in force at the start
    Hour,             \* the window of the ceiling
    MaxQueued,        \* MAX_QUEUED
    MaxThrottleKeys,  \* MAX_THROTTLE_KEYS
    MaxTime,          \* bound on the clock
    MaxFindings,      \* bound on findings accepted
    MaxSaves          \* bound on saves

Notifiers == 1..(MaxSaves + 1)
Flushers == Closers \cup Savers

ASSUME ConstantsAssumption ==
    /\ Hour \in Nat /\ MaxTime \in Nat /\ MaxFindings \in Nat /\ MaxSaves \in Nat
    /\ MaxQueued \in Nat \ {0} /\ MaxThrottleKeys \in Nat \ {0}
    /\ FirstSettings \in Settings
    /\ \A s \in Settings : /\ s.notifies \subseteq Keys
                           /\ s.throttle \in Nat /\ s.maxPerHour \in Nat
    /\ Closers \cap Savers = {}

VARIABLES
    now,             \* Date.now()
    cached,          \* the delivery settings in force
    saves,           \* bound
    instance,        \* the notifier of the process, 0 for null
    made,            \* notifiers constructed so far
    settings,        \* this.settings of each notifier
    closed,          \* the notifiers whose channels reloadNotifier has closed
    lastNotifiedAt,  \* the throttle's map, oldest insertion first
    sentTimestamps,  \* the digests it counts, as positions in sends
    queue,           \* the findings in this.queue
    omitted,
    digestTimer,     \* this.digestTimer is set
    sending,
    batch,           \* the digest that is being sent
    batchOmitted,
    flush,           \* where the flush() of each caller is
    \* history
    accepted,        \* the findings consider() has answered 'queued' to
    sends,           \* the digests handed to the channels
    lineage,         \* the notifiers whose history each one was built with
    delivered, told  \* findings and omitted counts whose delivery is over

limits == <<lastNotifiedAt, sentTimestamps, sends>>
digest == <<queue, omitted, sending, batch, batchOmitted>>
history == <<accepted, lineage, delivered, told>>
identity == <<instance, made, settings, lineage>>
vars == <<now, cached, saves, instance, made, settings, closed, lastNotifiedAt,
          sentTimestamps, queue, omitted, digestTimer, sending, batch,
          batchOmitted, flush, accepted, sends, lineage, delivered, told>>

Stages == {"idle", "exports", "waiting", "ready", "sending", "check", "done"}
Times == 0..MaxTime
Findings == 1..MaxFindings

TypeOK ==
    /\ now \in Times /\ cached \in Settings /\ saves \in 0..MaxSaves
    /\ instance \in 0..(MaxSaves + 1) /\ made \in 0..(MaxSaves + 1)
    /\ settings \in [Notifiers -> Settings] /\ closed \subseteq Notifiers
    /\ lastNotifiedAt \in [Notifiers -> Seq([key : Keys, at : Times])]
    /\ sentTimestamps \in [Notifiers -> SUBSET DOMAIN sends]
    /\ queue \in [Notifiers -> SUBSET Findings] /\ omitted \in [Notifiers -> Nat]
    /\ digestTimer \in [Notifiers -> BOOLEAN] /\ sending \in [Notifiers -> BOOLEAN]
    /\ batch \in [Notifiers -> SUBSET Findings] /\ batchOmitted \in [Notifiers -> Nat]
    /\ flush \in [Flushers -> [stage : Stages, on : Notifiers, round : 1..2,
                               due : SUBSET Findings]]
    /\ accepted \in Seq([key : Keys, at : Times, by : Notifiers])
    /\ sends \in Seq([at : Times, by : Notifiers])
    /\ lineage \in [Notifiers -> SUBSET Notifiers]
    /\ delivered \subseteq Findings /\ told \in Nat

NoFlush == [stage |-> "idle", on |-> 1, round |-> 1, due |-> {}]

Init ==
    /\ now = 0 /\ cached = FirstSettings /\ saves = 0
    /\ instance = 0 /\ made = 0 /\ closed = {}
    /\ settings = [n \in Notifiers |-> FirstSettings]
    /\ lineage = [n \in Notifiers |-> {n}]
    /\ lastNotifiedAt = [n \in Notifiers |-> <<>>]
    /\ sentTimestamps = [n \in Notifiers |-> {}]
    /\ queue = [n \in Notifiers |-> {}] /\ omitted = [n \in Notifiers |-> 0]
    /\ digestTimer = [n \in Notifiers |-> FALSE]
    /\ sending = [n \in Notifiers |-> FALSE]
    /\ batch = [n \in Notifiers |-> {}] /\ batchOmitted = [n \in Notifiers |-> 0]
    /\ flush = [a \in Flushers |-> NoFlush]
    /\ accepted = <<>> /\ sends = <<>> /\ delivered = {} /\ told = 0

\* No continuation is waiting for its microtask.
EventLoopTurn == \A a \in Flushers : flush[a].stage \notin {"ready", "check", "done"}

Tick ==
    /\ EventLoopTurn
    /\ now < MaxTime
    /\ now' = now + 1
    /\ UNCHANGED <<cached, saves, closed, digestTimer, flush, identity, limits, digest,
                   accepted, delivered, told>>

-----------------------------------------------------------------------------
(* notifier() and consider() *)

\* The notifier a caller gets, which is made on the spot when there is none.
Obtained == IF instance = 0 THEN made + 1 ELSE instance
ObtainedSettings == IF instance = 0 THEN cached ELSE settings[instance]

Obtain ==
    /\ instance' = Obtained
    /\ made' = IF instance = 0 THEN made + 1 ELSE made
    /\ settings' = [settings EXCEPT ![Obtained] = ObtainedSettings]
    /\ UNCHANGED lineage

\* hourlyCountAt: what an hour ago is still in the window is kept.
MutantRecent(timestamps) == {i \in timestamps : sends[i].at >= now}
Recent(timestamps) == {i \in timestamps : sends[i].at + Hour >= now}

\* stats(), for the status page
Status ==
    /\ EventLoopTurn
    /\ Obtain
    /\ sentTimestamps' = [sentTimestamps EXCEPT ![Obtained] = Recent(@)]
    /\ UNCHANGED <<now, cached, saves, closed, digestTimer, flush, digest, accepted,
                   delivered, told, lastNotifiedAt, sends>>

\* BoundedMap: a key that is set again keeps its place, the first is evicted.
Remember(map, key) ==
    IF \E i \in DOMAIN map : map[i].key = key
      THEN [i \in DOMAIN map |->
              IF map[i].key = key THEN [key |-> key, at |-> now] ELSE map[i]]
      ELSE Append(IF Len(map) >= MaxThrottleKeys THEN Tail(map) ELSE map,
                  [key |-> key, at |-> now])

Throttled(map, key, throttle) ==
    \E i \in DOMAIN map : map[i].key = key /\ now < map[i].at + throttle

Passes(key) ==
    /\ key \in ObtainedSettings.notifies
    /\ ~Throttled(lastNotifiedAt[Obtained], key, ObtainedSettings.throttle)

\* 'disabled', 'below-threshold' or 'throttled'
Refuse(key) ==
    /\ EventLoopTurn
    /\ ~Passes(key)
    /\ Obtain
    /\ UNCHANGED <<now, cached, saves, closed, digestTimer, flush, limits, digest,
                   accepted, delivered, told>>

\* 'rate-limited'
RateLimit(key) ==
    /\ EventLoopTurn
    /\ Passes(key)
    /\ Cardinality(Recent(sentTimestamps[Obtained])) >= ObtainedSettings.maxPerHour
    /\ Obtain
    /\ sentTimestamps' = [sentTimestamps EXCEPT ![Obtained] = Recent(@)]
    /\ UNCHANGED <<now, cached, saves, closed, digestTimer, flush, digest, accepted,
                   delivered, told, lastNotifiedAt, sends>>

\* 'queued', though a full queue keeps only a count of it
Accept(key) ==
    LET id == Len(accepted) + 1 IN
    /\ EventLoopTurn
    /\ Len(accepted) < MaxFindings
    /\ Passes(key)
    /\ Cardinality(Recent(sentTimestamps[Obtained])) < ObtainedSettings.maxPerHour
    /\ Obtain
    /\ sentTimestamps' = [sentTimestamps EXCEPT ![Obtained] = Recent(@)]
    /\ lastNotifiedAt' = [lastNotifiedAt EXCEPT ![Obtained] = Remember(@, key)]
    /\ IF Cardinality(queue[Obtained]) >= MaxQueued
         THEN omitted' = [omitted EXCEPT ![Obtained] = @ + 1] /\ UNCHANGED queue
         ELSE queue' = [queue EXCEPT ![Obtained] = @ \cup {id}] /\ UNCHANGED omitted
    /\ digestTimer' = [digestTimer EXCEPT ![Obtained] = TRUE]
    /\ accepted' = Append(accepted, [key |-> key, at |-> now, by |-> Obtained])
    /\ UNCHANGED <<now, cached, saves, closed, flush, sending, batch, batchOmitted,
                   sends, delivered, told>>

-----------------------------------------------------------------------------
(* dispatch() *)

CanDispatch(n) == ~sending[n] /\ queue[n] # {}

\* What is left of the omitted count once the digest has taken it.
MutantOmittedAfter(n) == omitted[n]
OmittedAfter(n) == 0

StartSend(n) ==
    /\ sending' = [sending EXCEPT ![n] = TRUE]
    /\ batch' = [batch EXCEPT ![n] = queue[n]]
    /\ batchOmitted' = [batchOmitted EXCEPT ![n] = omitted[n]]
    /\ queue' = [queue EXCEPT ![n] = {}]
    /\ omitted' = [omitted EXCEPT ![n] = OmittedAfter(n)]
    /\ sentTimestamps' = [sentTimestamps EXCEPT ![n] = @ \cup {Len(sends) + 1}]
    /\ sends' = Append(sends, [at |-> now, by |-> n])

NoSend == UNCHANGED <<digest, sentTimestamps, sends>>

DigestTimerFires(n) ==
    /\ EventLoopTurn
    /\ digestTimer[n]
    /\ digestTimer' = [digestTimer EXCEPT ![n] = FALSE]
    /\ IF CanDispatch(n) THEN StartSend(n) ELSE NoSend
    /\ UNCHANGED <<now, cached, saves, closed, flush, identity, lastNotifiedAt,
                   accepted, delivered, told>>

\* Where a flush is once the digest in flight is settled: the one that sent
\* it goes on, the others were only waiting for it.
Awake(f) ==
    [f EXCEPT !.stage = CASE @ = "waiting" -> "ready"
                          [] @ = "sending" -> IF f.round = 1 THEN "check" ELSE "done"
                          [] OTHER -> @]

\* Whether the end of a delivery arms the timer for what arrived meanwhile.
Rearmed(n) == digestTimer[n] \/ queue[n] # {}

\* The last channel answers or times out: the finally of dispatch().
Settle(n) ==
    /\ EventLoopTurn
    /\ sending[n]
    /\ sending' = [sending EXCEPT ![n] = FALSE]
    /\ batch' = [batch EXCEPT ![n] = {}]
    /\ batchOmitted' = [batchOmitted EXCEPT ![n] = 0]
    /\ delivered' = delivered \cup batch[n]
    /\ told' = told + batchOmitted[n]
    /\ digestTimer' = [digestTimer EXCEPT ![n] = Rearmed(n)]
    /\ flush' = [a \in Flushers |-> IF flush[a].on = n THEN Awake(flush[a]) ELSE flush[a]]
    /\ UNCHANGED <<now, cached, saves, closed, identity, limits, queue, omitted, accepted>>

-----------------------------------------------------------------------------
(* flush(), by the close() of a sink or by reloadNotifier() *)

FlushBegun(a, n) ==
    [flush EXCEPT ![a] = [stage |-> "exports", on |-> n, round |-> 1,
                          due |-> queue[n] \cup batch[n]]]

CloseSink(a) ==
    /\ EventLoopTurn
    /\ flush[a].stage = "idle"
    /\ Obtain
    /\ flush' = FlushBegun(a, Obtained)
    /\ digestTimer' = [digestTimer EXCEPT ![Obtained] = FALSE]
    /\ UNCHANGED <<now, cached, saves, closed, limits, digest, accepted, delivered, told>>

\* Whether flush() has to wait for inFlight before it goes on.
AfterExports(n) == IF sending[n] THEN "waiting" ELSE "ready"

ExportsDone(a) ==
    LET n == flush[a].on IN
    /\ EventLoopTurn
    /\ flush[a].stage = "exports"
    /\ flush' = [flush EXCEPT ![a].stage = AfterExports(n)]
    /\ UNCHANGED <<now, cached, saves, closed, digestTimer, identity, limits, digest,
                   accepted, delivered, told>>

\* dispatch() answers at once when there is nothing to send or a send is running.
FlushDispatch(a) ==
    LET n == flush[a].on IN
    /\ flush[a].stage = "ready"
    /\ IF CanDispatch(n)
         THEN StartSend(n) /\ flush' = [flush EXCEPT ![a].stage = "sending"]
         ELSE /\ NoSend
              /\ flush' = [flush EXCEPT ![a].stage =
                             IF flush[a].round = 1 THEN "check" ELSE "done"]
    /\ UNCHANGED <<now, cached, saves, closed, digestTimer, identity, lastNotifiedAt,
                   accepted, delivered, told>>

\* "A send that was in progress may have queued more while it ran."
FlushCheck(a) ==
    LET n == flush[a].on IN
    /\ flush[a].stage = "check"
    /\ flush' = IF queue[n] = {}
                  THEN [flush EXCEPT ![a].stage = "done"]
                  ELSE [flush EXCEPT ![a].round = 2,
                                     ![a].stage = IF sending[n] THEN "waiting" ELSE "ready"]
    /\ UNCHANGED <<now, cached, saves, closed, digestTimer, identity, limits, digest,
                   accepted, delivered, told>>

SinkClosed(a) ==
    /\ flush[a].stage = "done"
    /\ flush' = [flush EXCEPT ![a] = NoFlush]
    /\ UNCHANGED <<now, cached, saves, closed, digestTimer, identity, limits, digest,
                   accepted, delivered, told>>

-----------------------------------------------------------------------------
(* saveDeliverySettings() and reloadNotifier() *)

\* The row is stored and read back, and the reload begins in the same turn.
Save(a, new) ==
    /\ EventLoopTurn
    /\ flush[a].stage = "idle"
    /\ saves < MaxSaves
    /\ saves' = saves + 1
    /\ cached' = new
    /\ IF instance = 0
         THEN UNCHANGED <<instance, digestTimer, flush>>
         ELSE /\ instance' = 0
              /\ flush' = FlushBegun(a, instance)
              /\ digestTimer' = [digestTimer EXCEPT ![instance] = FALSE]
    /\ UNCHANGED <<now, closed, made, settings, lineage, limits, digest, accepted,
                   delivered, told>>

MutantReplacementSettings(previous) == settings[previous]
ReplacementSettings(previous) == cached

\* The throttle and ceiling history the replacement starts with.
MutantCarried(map, previous) == <<>>
Carried(map, previous) == map[previous]

Replace(a) ==
    LET previous == flush[a].on
        n == made + 1 IN
    /\ flush[a].stage = "done"
    /\ flush' = [flush EXCEPT ![a] = NoFlush]
    /\ closed' = closed \cup {previous}
    /\ IF instance # 0
         THEN UNCHANGED <<identity, lastNotifiedAt, sentTimestamps>>
         ELSE /\ instance' = n /\ made' = n
              /\ settings' = [settings EXCEPT ![n] = ReplacementSettings(previous)]
              /\ lineage' = [lineage EXCEPT ![n] = {n} \cup lineage[previous]]
              /\ lastNotifiedAt' =
                   [lastNotifiedAt EXCEPT ![n] = Carried(lastNotifiedAt, previous)]
              /\ sentTimestamps' =
                   [sentTimestamps EXCEPT ![n] = sentTimestamps[previous]]
    /\ UNCHANGED <<now, cached, saves, digestTimer, digest, sends, accepted, delivered,
                   told>>

-----------------------------------------------------------------------------

Consider(key) == Refuse(key) \/ RateLimit(key) \/ Accept(key)
FlushStep(a) == ExportsDone(a) \/ FlushDispatch(a) \/ FlushCheck(a)

Next ==
    \/ Tick \/ Status
    \/ \E k \in Keys : Consider(k)
    \/ \E n \in Notifiers : DigestTimerFires(n) \/ Settle(n)
    \/ \E a \in Flushers : FlushStep(a)
    \/ \E a \in Closers : CloseSink(a) \/ SinkClosed(a)
    \/ \E a \in Savers, new \in Settings : Save(a, new)
    \/ \E a \in Savers : Replace(a)

Spec == Init /\ [][Next]_vars

Continue ==
    \/ \E a \in Flushers : FlushDispatch(a) \/ FlushCheck(a)
    \/ \E a \in Closers : SinkClosed(a)
    \/ \E a \in Savers : Replace(a)

\* Timers fire, channels answer or time out, and continuations run.  Strong for
\* what needs a turn of the event loop: it is offered between any two rounds of
\* continuations, never continuously.  One timer, send or save does not hold up another
\* for ever: there are finitely many findings and saves.
Fairness ==
    /\ SF_vars(\E n \in Notifiers : DigestTimerFires(n) \/ Settle(n))
    /\ \A a \in Closers : SF_vars(ExportsDone(a))
    /\ SF_vars(\E a \in Savers : ExportsDone(a))
    /\ WF_vars(Continue)

-----------------------------------------------------------------------------
(* Properties *)

\* What a notifier has yet to deliver, and how much it owes with what it left out.
Held(n) == queue[n] \cup batch[n]
Owed(n) == Cardinality(queue[n]) + omitted[n] + Cardinality(batch[n]) + batchOmitted[n]

\* A finding that consider() accepted is in the queue, in the digest being
\* sent, delivered, or in exactly one of the counts of what was left out.
Conserved ==
    /\ Len(accepted) =
         Cardinality(delivered) + told
         + SumFunction([n \in Notifiers |-> Owed(n)])
    /\ \A n \in Notifiers : queue[n] \cap batch[n] = {} /\ Held(n) \cap delivered = {}

\* The hourly ceiling is a hard backstop: no digest goes out as one too many of
\* the hour that ends with it, counting those of the notifiers whose history its
\* sender was built with (hourlyCountAt, reloadNotifier).
CeilingHolds ==
    \A i \in DOMAIN sends :
        LET n == sends[i].by IN
        Cardinality({j \in 1..i : sends[j].by \in lineage[n]
                                  /\ sends[j].at + Hour >= sends[i].at})
          <= settings[n].maxPerHour

\* After finding i and no later than finding `last', another key came to a full map.
KeysUpTo(m) == {accepted[l].key : l \in 1..m}
Evicted(i, last) ==
    \E m \in (i + 1)..last : /\ accepted[m].key # accepted[i].key
                             /\ Cardinality(KeysUpTo(m)) > MaxThrottleKeys

\* A finding is accepted again within the throttle period only when the map was
\* full and another key has been put into it in between (BoundedMap).
ThrottleHolds ==
    \A i, j \in DOMAIN accepted :
        LET n == accepted[j].by IN
        ( /\ i < j /\ accepted[i].key = accepted[j].key
          /\ accepted[i].by \in lineage[n]
          /\ accepted[j].at < accepted[i].at + settings[n].throttle )
        => Evicted(i, j - 1)

\* A queued finding is never left without something that will send it: the timer,
\* the end of the running send, or a flush that has yet to dispatch.
QueueIsTimed ==
    \A n \in Notifiers : queue[n] # {} =>
        \/ digestTimer[n] \/ sending[n]
        \/ \E a \in Flushers : /\ flush[a].on = n /\ flush[a].round = 1
                               /\ flush[a].stage \in {"exports", "ready"}

\* A flush returns only once everything that was waiting when it was called has
\* been handed to the channels, whatever else is flushing or sending.
FlushSends ==
    \A a \in Flushers : flush[a].stage = "done" => flush[a].due \cap queue[flush[a].on] = {}

\* A notifier that has been replaced and closed has nothing left to send: saving
\* the form is never why an alert did not arrive.
RetiredIsEmpty == \A n \in closed : queue[n] = {} /\ omitted[n] = 0 /\ instance # n

\* The notifier of the process was built from the settings in force, however many
\* saves overlap: a save that finds a reload under way relies on what it builds.
SettingsInForce == instance # 0 => settings[instance] = cached

\* A flush returns only once everything that was waiting when it was called has
\* been delivered: dispatch() answers at once while a send is running, and the
\* doc of flush() says that is why it waits for inFlight.
FlushDrains ==
    \A a \in Flushers : flush[a].stage = "done" =>
        flush[a].due \cap (queue[flush[a].on] \cup batch[flush[a].on]) = {}

\* Once findings and saves stop coming, everything accepted has been delivered, and
\* every save that flushes ends.
EventuallyDelivered == []<>(\A n \in Notifiers : queue[n] = {} /\ batch[n] = {})
SavesEnd == []<>(\A a \in Savers : flush[a].stage = "idle")
-----------------------------------------------------------------------------
(* What the proofs rest on *)

\* A notifier is made by the first call after a start or a save.
MadeOK ==
    /\ made <= saves + (IF instance = 0 THEN 0 ELSE 1) /\ instance <= made
    /\ closed \subseteq 1..made
    /\ \A n \in Notifiers : queue[n] # {} => n <= made
    /\ \A j \in DOMAIN sends : sends[j].by <= made /\ sends[j].at <= now
    /\ \A a \in Flushers : flush[a].stage # "idle" => flush[a].on <= made

IdsOK ==
    /\ \A n \in Notifiers : queue[n] \subseteq 1..Len(accepted)
    /\ \A n \in Notifiers : batch[n] \subseteq 1..Len(accepted)
    /\ \A a \in Flushers : flush[a].due \subseteq 1..Len(accepted)
    /\ \A n \in Notifiers : omitted[n] > 0 => queue[n] # {}

\* Where a flush is once its first dispatch has had its chance.
Offered(a) ==
    \/ flush[a].stage \in {"sending", "check", "done"}
    \/ flush[a].round = 2
    \/ flush[a].stage = "ready" /\ sending[flush[a].on]

FlushOK ==
    \A a \in Flushers :
        /\ flush[a].stage \in {"idle", "exports"} => flush[a].round = 1
        /\ Offered(a) => flush[a].due \cap queue[flush[a].on] = {}

\* A notifier that is being replaced takes no new findings.
RetiringOK ==
    \A a \in Savers : flush[a].stage # "idle" =>
        /\ instance # flush[a].on
        /\ queue[flush[a].on] \subseteq flush[a].due

LineageOK ==
    \A n \in Notifiers : /\ n \in lineage[n]
                         /\ lineage[n] \ {n} \subseteq closed
                         /\ n > made => lineage[n] = {n}

\* The timestamps a notifier holds include all that its lineage sent this hour.
WindowOK ==
    \A n \in Notifiers : \A j \in DOMAIN sends :
        sends[j].by \in lineage[n] /\ sends[j].at + Hour >= now => j \in sentTimestamps[n]

\* What is queued was accepted under the ceiling and nothing was sent since.
RoomOK ==
    \A n \in Notifiers :
        queue[n] # {} => Cardinality(Recent(sentTimestamps[n])) < settings[n].maxPerHour

\* No finding is held twice, and a notifier that sends nothing has no digest.
HeldApart ==
    /\ \A n \in Notifiers :
         /\ ~sending[n] => batch[n] = {} /\ batchOmitted[n] = 0
         /\ \A m \in Notifiers : m # n => Held(m) \cap Held(n) = {}
    /\ delivered \subseteq 1..Len(accepted)

\* A notifier's map holds every finding of its lineage, at its time or a later one, unless
\* its key was evicted since.
Remembered(n, i) ==
    \/ \E p \in DOMAIN lastNotifiedAt[n] :
         /\ lastNotifiedAt[n][p].key = accepted[i].key
         /\ lastNotifiedAt[n][p].at >= accepted[i].at
    \/ Evicted(i, Len(accepted))
MapsOK ==
    /\ \A j \in DOMAIN accepted : accepted[j].by <= made /\ accepted[j].at <= now
    /\ \A n \in Notifiers : \A p \in DOMAIN lastNotifiedAt[n] :
         /\ lastNotifiedAt[n][p].key \in KeysUpTo(Len(accepted))
         /\ \A q \in DOMAIN lastNotifiedAt[n] :
              lastNotifiedAt[n][p].key = lastNotifiedAt[n][q].key => p = q
    /\ \A n \in Notifiers : \A i \in DOMAIN accepted :
         accepted[i].by \in lineage[n] => Remembered(n, i)

IndInv ==
    /\ TypeOK /\ MadeOK /\ IdsOK /\ FlushOK /\ RetiringOK /\ LineageOK /\ WindowOK
    /\ RoomOK /\ QueueIsTimed /\ RetiredIsEmpty /\ SettingsInForce /\ CeilingHolds
==============================================================================
