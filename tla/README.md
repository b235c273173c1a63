# Network Monitor: a TLA+ verification project

Network Monitor is a packet-capture and flow-collection sensor with a web interface. Detectors turn packets
and NetFlow/IPFIX records into *findings*; findings become rows of the `alerts` table, notifications to
people and a feed to a SIEM; a retention sweep folds old rows into daily buckets. Several sensors may share
one PostgreSQL database. The API is a Node.js process (`src/api`), the interface a React application
(`src/network-monitoring-ui`).

The project models the parts whose correctness depends on the order of events (what happens between two
`await`s, what two requests, a timer and a database answer do to the same state, what a crash leaves behind)
and the computations that decide something (decoding, detection, matching, layering, rendering).
Paths below are relative to `src/api/src/`, those of the interface (`ui/`) to `src/network-monitoring-ui/src/`.

- [The system](#the-system): the inventory of components
- [Modules](#modules): how each module corresponds to the code
- [Runs](#runs): what TLC checks, with which bounds and which fairness
- [Proofs](#proofs): what TLAPS proves, from which assumptions and along which argument
- [Where code and documentation disagree](#where-code-and-documentation-disagree)
- [Not modelled](#not-modelled)
- [Plan](#plan)

## The system

One API process is one JavaScript event loop. Fields of an object change only in the code between two awaits,
so such a stretch is atomic; everything else (requests, timers, read errors, signals, replies of the
database) may come between two stretches. Statements travel on pooled connections, each on its own, so two
statements that nothing awaits in between may be executed in either order. Processes share nothing but
the database. A browser tab is another event loop; its requests take time, are answered in any order, and their
answers apply to whatever the page is doing by then.

| Component | State | Operations | Interacts with | Hard behaviour | What makes it correct |
| --- | --- | --- | --- | --- | --- |
| Packet capture lifecycle (`services/packet-capture.service.ts`, `capture-session.service.ts`) | `capturing`, `starting`/`startInFlight`, `handle`, `sink`, `engine`, `session`, `sessionWrite`, `interrupted`; the row `capture_session` | start, stop (operator, shutdown, read error), boot report, automatic resume | alert sink, detectors, libpcap, database, boot (`index.ts`), the capture page | starts and stops overlapping across awaits; a stop during a start; fire-and-forget INSERT against UPDATE; crash at any point | one handle; a stop ends the capture it was asked to end and no other; the row says what the next boot must report |
| Packet decoding and libpcap (`packet/*.ts`) | library, handle, ring of packets | open, drain, decode, close | capture | frames cut by the snapshot; a read error in a tick | what is decoded is in the bytes that were captured |
| Packet and flow detectors (`packet/detect/*`, `flow/detect.ts`) | bounded maps, windows, pauses | process, sweep, reset | capture, collector, sink, feeds | windows that begin with the first attempt, eviction | a scan that is wide enough is found, and found once in a pause; nothing else is |
| Alert sink and alert storage (`services/alert.service.ts`) | `pending`, `timer`, `flushing`; the rows of `alerts` | record, flush, close, upsert; acknowledge, reopen, delete, list, trend | detectors, suppression, notifier, database, the pages | records during a flush, two sinks and one table, out-of-order timestamps, failing statements; two people at one row | every occurrence counted once; spans exact; a press does what it says |
| Suppression (`services/suppression.service.ts`, `suppression-rules.ts`, `net/prefix.ts`) | compiled set, chain of loads, retry state, match counts; the rules | match, refresh, reload after a write, flush counters, create/update/delete | alert sink, routes, database | a load in flight when a rule is written; retries after failures; two administrators at one rule | a rule is in force when its request is answered; no edit is lost; a rule hides what it says |
| Notifier (`notify/notifier.ts`) | queue, `omitted`, throttle map, hour's timestamps, timer, `sending`, `inFlight`; the process-wide instance | consider, dispatch, flush, stats, reload | alert sink, delivery settings, channels | flush and timer against a running send; replacement while it is in use | ceiling and throttle hold; nothing accepted is lost; the instance follows the settings |
| Export feed (same file) | `exportQueue`, `exportTimer`, promise chain, `exportDropped` | enqueue, batch, flush | notifier, webhook and syslog channels | batches started from three places | once and in order; a flush covers what was offered before it |
| Channels and text (`notify/webhook.ts`, `syslog.ts`, `email.ts`, `format.ts`, `cef.ts`, `sensor-scope.ts`) | sockets, attempts, a cached count of sensors | send, render, test | notifier, delivery page | timeouts, lost answers, errors before and after a write | "ok" only for what was taken; a message says what its findings say |
| Settings (`notify/settings.service.ts`, `services/flow-settings.service.ts`, `adhoc-settings.service.ts`, their parsers, `config/env.ts`) | a row each and its cache; the environment | seed, load, recover, save | boots, forms | several processes seeding one row; a read that fails after a save | the value in force is the one the deciding layer has; what is accepted reads back |
| Flow collector (`flow/collector.ts`, `flow/netflow-v5.ts`, `netflow-v9.ts`, `templates.ts`, `fields.ts`) | socket, chain of restarts, templates, allowlist, counters | start, stop, rebind, datagram, decode | flow settings, detectors, sink | restart overlapping restarts and errors; templates that change or are evicted | one live socket; settings in force; every flow has what its record says |
| Retention and sensors (`services/retention.service.ts`, `sensor.service.ts`, `device.service.ts`) | timers, `sweeping`/`inFlight`; advisory lock; `alerts`, `alert_rollup_daily`, `known_devices` | sweep, start, stop, decommission, record, forget | every sensor's rows, shutdown | several processes, one transaction per day, failure half way, shutdown during a sweep | no occurrence lost or counted twice; nothing recent deleted; no query on a closed pool |
| Ad hoc console (`services/adhoc.service.ts`) | two database roles, a pool, the mode, settings | start, stop, save, recheck, statement | PostgreSQL, audit trail | disabling during statements; a restart that fails half way | who is answered was let in and audited; the answer tells what the statement did |
| Accounts and sessions (`services/user.service.ts`, `middleware/auth.ts`, `cli/manage-user.ts`, `ui/contexts/AuthContext.tsx`) | users, the bootstrap lock; token and cookie of a tab | sign-up, roles, command line; sign-in, renewal, sign-out | database, pages | two first sign-ups, two demotions, late answers | one bootstrap account; an administrator always remains; a tab shows whom its token names |
| Audit trail (`services/audit.service.ts`) | append-only table | record, list in pages | every audited act | ids committed out of order under a walk | an act and its entry commit together; a walk repeats nothing |
| Threat intelligence (`intel/*`) | feeds, sealed set, copies on disk, timer | reload, publish, look up | detectors | a source that fails half way | what is published is what was read; the old set serves until the new one is complete |
| Migrations (`db/migrate.ts`) | history table, schema | adopt, apply | everything | crashes and overlapping boots | each applied once and in order |
| Web interface | query caches, drafts, navigation, language | forms, lists, polling | the API | stale answers, other administrators, other tabs | what is shown is true of something the server said; nothing typed is lost or reverted |
| HTTP, look-ups, scripts | none that decides anything | dispatch | all | none | tests |

Boot (`index.ts:28-203`) migrates, listens, starts the flow collector, seeds and loads the delivery settings, rebuilds the
notifier, reports an interrupted capture, loads the suppression rules and the feeds, resumes the capture, starts
retention and the console: everything after the second step meets requests. Shutdown (`index.ts:207-252`) stops captures and the collector, flushes the
suppression counts, stops retention and waits for a running sweep, closes the server and ends the pool, under a
deadline after which the process exits anyway.

## Modules

A definition named `Mutant...` stands just before the one it spoils and is used by nothing: it is the plausible mistake
against which a property is tried. `MC*` modules give constants to TLC, `*Proofs` modules hold the theorems.
Inductive invariants (`IndInv`, `CacheInv`, `FlowInv`, `AccountsInv`, ...) stand in the module they are about, under "What the proofs rest on", so that TLC can
check them.

### From a frame to an alert

- **CaptureLifecycle**: one `PacketCaptureService` and its row. Each action is the code from one await to the next: `StartRequest` claims
  (`startCapture`, 267), opens the handle and awaits the known devices; `OpenFinish` is the rest of `openCapture`,
  which sends the INSERT without awaiting it; `InsertCommit` is the database executing it; `StopEnter`, `StopAfterStart`,
  `StopAfterWrite`, `StopStamp` and `StopReturn` are the five stretches of `stopCapture`; `ReportBegin`, `ReportRead`,
  `ReportDecide`, `ReportStamp`, `ResumeSkip` and `ResumeBegin` are boot's report and resume; `Crash` and `BootUp` are
  the process's death, in order or not, and the next one. A session is numbered by its start, where the code uses
  `startedAt`. `MicrotasksDrained` says that what a settled promise continues runs before the next event.
  `ReorderWrites` lets INSERTs that travel on two connections be executed in either order.
- **PacketPath**: the library's handle (`OpenLibrary`, `OpenLive`, `Poll`, `ReadFails`, `StopAndDrain`), a frame of any shape cut
  at any length, its decoding layer by layer, the ring, and the credentials a payload shows. A text is a sequence of pieces, secrets among
  them; a segment may begin in the middle of a request, and its first line is then quoted as it is.
- **ScanWindows**, **LanDetectors**, **ContactDetectors**: the detectors with their windows, maps and pauses. Time is
  relative (what is left, how long ago), so a window is exact at its edges. History variables say what was really
  probed, claimed or asked for, and the properties compare findings with that. The upserts of `known_devices` are sent without being
  awaited: `DeviceWritten` and `DeviceWriteFails` end each at any later time and in any order.
- **ThreatIntel**: a reload as the code runs it, source by source, into a set that is sealed and published; `lookup` over exact
  addresses and merged ranges. At the ceiling (`MaxIndicators`) the surplus of a source is refused and the rest is published.
- **AlertSink**: the sinks of a process, the table they share and the buffer of suppression counts. `Record` merges, buffers or drops;
  `BeginFlush` takes the buffer; `Upsert` is one row written, or failed before or after the database executed it;
  `DrainCounts` and `EndFlush` are `flushSuppressionCounters`; `Close` and `CloseReturn` are `close()`. An entry carries, as history,
  the set of times it stands for, so that `SpansExact` can say that first and last seen are right.
- **SuppressionCache**: the table's version and one rule, the chain behind `loading`, the prompt retries and the pause, and the
  administrators' writes with `FOR UPDATE`, audit entry and awaited reload. **FreshRegister** is its abstract
  specification; `Register` in `SuppressionCache` is the refinement mapping.
- **AlertDesk**, **AlertTrend**: acknowledging, reopening and deleting at cached pages; the dashboard's series from two
  queries that share no transaction.
- **Retention**: processes, each with its timers, its sweep and one decommission request, over the tables and the advisory lock. The
  database is at READ COMMITTED, so each statement is an action that sees what is committed when it runs: `TryLock`,
  `ExpiredDays`, `AggregateDay`, `DeleteDay`, `CommitDay`, `ForgetStaleDevices`, `Unlock`; `CheckActive`, `DeleteSensorAlerts`, `DeleteSensorDevices`,
  `DeleteSensorBuckets`, `CommitDecommission`. The effects of a transaction appear at its commit; whoever needs a row that an open
  transaction has deleted waits (`Held`). Failures, crashes and an orderly shutdown are actions too.
  `rollup` keeps apart what each alert has contributed to the buckets, whose rows are sums of it. All processes read the same clock.

### From an alert to a reader

- **Notifier**: every notifier the process ever constructs, numbered; `instance` is the one in use. `Consider` is `Refuse`, `RateLimit` or
  `Accept`; `DigestTimerFires` and `Settle` begin and end a send; `FlushBegun`, `ExportsDone`, `FlushDispatch` and
  `FlushCheck` are the stretches of `flush()`; `Save` and `Replace` are a saved form and `reloadNotifier()`. The throttle is the
  code's `BoundedMap`, a sequence in insertion order. `lineage` is history: whose limits a notifier took over.
- **ExportFeed**: the chain of promises `exportInFlight`: `asked` links have been added, `done` have ended, and only the oldest may be
  sending. `Notifier` sees this as one wait; a finding takes either path independently of the other, which is why the
  two are not composed.
- **DeliveryChannels**: one send: a webhook with retries, syslog over UDP and TCP with every order of callbacks and errors.
- **MessageText**: the digest and its seven renderings, CEF and the syslog frame, written as the code computes them and read back by
  a definition of what a reader of the format sees.
- **DeliveryPage**: the page that tests the channels, the mail transport's refusals, and the sensor's scope with its timer.
- **Locales**: languages, catalogues, and how a key with parameters, a finding or a failure becomes a sentence.
- **FindingsList**, **SuppressionPage**, **AuditTrail**, **Navigation**, **CapturePage**, **BrowserSession**, **SettingsForm**: the pages, each
  with the server as far as it concerns them, answers in flight, other people's acts, and restarts.

### Flows, settings and access

- **FlowCollector**: the socket, `start()` awaiting its bind, the chain `restartInFlight` (`chain`, the running restart first), saves
  (`SaveCommits`, `RowIsRead`, `RereadSucceeds`/`RereadFails`), recovery on GET, the retry by an empty save, socket errors.
- **FlowDatagrams**: the allowlist, the templates (in insertion order, as in the `Map`) and the counters, per datagram.
  **FlowRecords**: how a data set is cut into records and fields, and what a time or a number becomes.
- **SettingsLayers**: one setting in its three layers, seeded by boots of several processes in the services' two ways.
  **SettingValues**: what each door of a setting (environment line, PUT body, column) accepts and makes of it.
- **AdhocConsole**: the roles' logins, the pool, saves with their restart, recheck, and who runs as what. A revoke is best effort and may fail, at boot too.
  **ConsoleQuery**: a statement from the request to the answer: two connections, the cursor and its retry, COMMIT, and texts that chain a COMMIT of
  their own.
- **Accounts**: sign-up with the bootstrap lock, role changes as transactions of two locking SELECTs, the command line.
- **Migrations**: the adoption of a Flyway history, the order of files, each statement outside a transaction by itself.

### Sums of modules

**MCProgress** has the six parts that owe somebody an end (`notifier`, `feed`, `cache`, `flow`, `page`, `channel`) and,
since its nested patterns are RECURSIVE operators, which no module with a theorem may reach, the part `words` (`Locales`);
**MCServices** has the twenty-four others that share no state. One behaviour is a behaviour of one part, chosen by the variable
`part`; the others stay in one initial state. The state space is the sum and not the product, and a conjunction such as
`PagesExact` states one property per part. The notifier's part has two scenarios with bounds of their own: `reload`
(overlapping saves and a closing sink) and `limits` (the ceiling and the throttle over time).

## Runs

| Run | Configuration | Question |
| --- | --- | --- |
| `capture_safe` | `CaptureSafe.cfg` | Do three starts, an automatic resume, two stops at a time, a crash, a failing statement and reordered INSERTs ever leak a handle, stop the wrong capture or reopen a finished one? |
| `capture_live` | `CaptureLive.cfg` | When statements succeed and commit in order: has a running capture an open row, is a dead one reported, does every stop return? |
| `sink` | `AlertSink.cfg` | Do two sinks lose, repeat or strand findings or counts? |
| `retention` | `Retention.cfg` | Do two replicas' sweeps, a decommission, deletions, failures, crashes and shutdown keep the books exact? |
| `progress` | `Progress.cfg` | The parts that owe somebody an end: do they keep what they promise, and do they get there? And what do the words say? |
| `services` | `Services.cfg` | The twenty-four other parts: does every order of their steps, failures and other people's acts keep what each promises? |
| `capture_late_report` | `CaptureLateReport.cfg` | Can boot show a capture as interrupted that the operator stopped? (It can.) |
| `sink_close` | `AlertSinkClose.cfg` | Is a closed sink flushed? (Not if the timer's flush was running.) |
| `notifier_two_flushes` | `NotifierTwoFlushes.cfg` | Does a flush return only when its findings are delivered? (Not the second of two.) |
| `retention_late` | `RetentionLate.cfg` | And when findings arrive with an expired time? (They can vanish uncounted.) |
| `flow_switch_off` | `FlowSwitchOff.cfg` | Does any save put the socket where the settings say? (Not the retry after a switch-off whose re-read failed.) |
| `page_resume` | `PageResume.cfg` | Does a page that was told a resume is coming show it? (Not if it polls in between.) |

What the conjunctions of `progress` and `services` say, part by part, is in the comments above them. Those that carry most:
`DueIsDone` (liveness of six parts), `InForceWhenAnswered` (the refinement of `FreshRegister`), `AccessExact`,
`AdministrationExact`, `SettingsExact`, `MigrationsExact`, `TrafficExact`, `IntelExact`.

**Bounds.** Every bound is a constant named `Max...` and appears in the guard of the action it limits. They are chosen so
that each hazard can occur, and each property has a mutant that TLC refutes under the same bounds.

- *Capture*: three sessions let a stop that waits meet a successor and the successor's successor; two calls are the
  smallest number of stops that race; one crash and one failure suffice for the report, two crashes for a report that
  is itself interrupted.
- *Sink*: two sinks share one key; three findings over two windows give an out-of-order repeat, a drop at a limit of
  one and a second window; one failure.
- *Retention*: two replicas of one sensor and another sensor to retire; a retention of one tick and a day of two make a day that is
  half expired; two findings, one sighting, one incident (a failure, a crash, a stop or a decommission). With a lag of
  zero and windows of one tick, `InTime` holds.
- *Progress* (about 304,000 states): two saves give three notifiers in a line and a queue of one overflows at the second finding; for
  the limits two keys in a map of one and a clock of three ticks around a two-tick hour; a batch of two and a queue of
  three with five findings pass every threshold of the feed; two administrators and two failed loads, one more than the
  prompt retries; two clients, one failed read and one socket error; three attempts of a webhook.
- *Services* (about 626,000 states): two of whoever races (callers, requests, processes, runners, analysts, pages); limits of one or two so
  that they are reached; address spaces of two bits and octets of four values, in which every prefix and every
  overflow still occurs; a table of one device for two, a ceiling of three
  indicators that the feeds exceed, three frames on the local network; one fault, crash or foreign edit per part. `FirstRunAlone` says that the first boot of a database
  does not overlap another: see below for what happens otherwise. `BootMayOverlap = FALSE` says that no request comes
  before boot's first bind has ended: likewise.

**Fairness.** Timers that are set fire, promises settle, the database answers, sockets tell their end and the supervisor restarts the process:
weak fairness of the corresponding actions. Requests, signals, findings, read errors and crashes have none. In
`Notifier` the end of a send and of an export needs a turn of the event loop, which continuations interrupt again and
again, so these have strong fairness: Node runs timers and I/O between any two rounds of continuations. Channels have timeouts
(`notify/*.ts`), which is why a send ends. Of the suppression cache the reads are fair too: without findings no read
starts a load. `Retention` states no liveness: whether a sweep gets the lock depends on the
others, and the code only promises to try again. The parts of `MCServices` state none either: each of their requests is
answered or fails by itself.

**Deadlock** is checked where the system always has something to do (captures, retention). The other configurations
turn it off: when the bounded events are used up and everything is answered, those components rest.

## Proofs

The theorems hold for every number of processes, sinks, keys, calls, requests and sessions and for every value of the bounds. Each
proof module has the same shape: one lemma per action saying that it preserves the inductive invariant, a theorem that
combines them with the initial states, and a corollary per property.

| Module | Theorems | What the invariant adds and why |
| --- | --- | --- |
| `ProgressProofs`, the captures | `CaptureInductive`, `TypeCorrect`, `HandlesCorrect`, `DetectionCorrect`, `NoticeCorrect`, `StopCorrect`, `StopsCorrect`, `AckedCorrect`, `ClosedCorrect`, `WritesCorrect`, `RecordedCorrect` | Sessions grow: everything the system remembers is older than the start being opened (`OlderThanFrontier`), so a stop can never confuse a capture with its successor. What a stop tears down was put up together (`AttachedTogether`). Every INSERT not yet executed is the running capture's or has a stop that waits for it (`WritesAccounted`): that is why an acknowledged stop is never undone, even if INSERTs overtake each other. |
| `AlertSinkProofs` | `ConservedCorrect`, `SpansCorrect`, `NotifiedCorrect`, `NoneStrandedCorrect`, `CountsCorrect` | Only a running flush holds a batch (`BatchHeldByFlush`), so the buffer can be taken and refilled without an occurrence being in two places. The counts are a sum over the sinks whose flush carries some, hence `FiniteSums`. |
| `NotifierProofs` | `TypeCorrect`, `CeilingCorrect`, `QueueIsTimedCorrect`, `FlushSendsCorrect`, `RetiredCorrect`, `SettingsCorrect`, `ConservedCorrect`, `ThrottleCorrect` | A notifier's timestamps contain all that its lineage sent in the hour (`WindowOK`), and a finding is only queued while there is room (`RoomOK`): hence the ceiling across reloads. A notifier that is being replaced gets nothing new (`RetiringOK`), and a flush that has had its chance to dispatch leaves nothing of what it found in the queue (`FlushOK`). What is held, by whom, is disjoint (`HeldApart`), so that what was accepted is a sum of what is held, sent and left out. A key of the map was accepted last when the map says (`MapsOK`, `Remembered`), and whatever it no longer has was evicted by enough other keys (`Evicted`). |
| `ProgressProofs`, the feed | `OnceAndInOrderCorrect`, `QueueHasSenderCorrect`, `FlushCoversCorrect`, `FeedSafetyCorrect` | At most one link sends and none has ended before its turn (`LinksOK`); what a flush must see sent lies ahead of the link it awaits (`CoverOK`). |
| `RetentionProofs` | `ExactCorrect`, `RecentIsKeptCorrect`, `DecommissionCorrect`, `NoSweepAfterCloseCorrect`, `DevicesSurviveCorrect` | Whoever is past its try holds the lock (`LockOK`), so at most one sweep or decommission is at work. What a sweep has aggregated is in no bucket yet and is still stored unchanged unless an operator deleted it (`TakenOK`), and the DELETE will find exactly that (`CurrentOK`, `GoneOK`). What a decommission has deleted is all there is, unless the sensor is writing (`RequestOK`). The device a sensor has seen last is never stale. |
| `ProgressProofs`, the cache | `CacheInductive`, `CacheSafetyCorrect`, `CacheIsFreshRegister` | Whoever holds the row lock saw the row as it is (`LockHeld`), so the entry that is written continues the trail (`TrailEnd`, `RowEndsTrail`). Every request that waits for a load has one in the chain that started after its commit (`ChainOK`), so what it finds in force is its version or a later one (`VersionsOK`); `RetriesOK` counts the loads of an outage. The refinement theorem then maps each step of the cache to a step of `FreshRegister` or to none. |
| `ProgressProofs`, the collector and the channels | `FlowInductive`, `OneSocketCorrect`, `SaveSettlesCorrect`, `ChannelInductive`, `ResultsCorrect` | Restarts take turns: the first of the chain alone stops and starts, and while there is one nothing is bound (`RestartsOK`); the last restart binds where the settings are (`BindOK`). A channel has its result only when nothing of the send is left (`WebhookOK`, `UdpOK`, `TcpOK`). |
| `AdministrationProofs`, accounts and sessions | `OneBootstrapCorrect`, `AdministratorCorrect`, `SessionCorrect` | Only the holder of the advisory lock is about to insert a first account (`BootstrapOK`). Row locks are disjoint, and who counted two administrators holds both rows until it commits (`LocksOK`): two demotions cannot each spare the other's. A browser's cookie is renewed before it runs out because every mint that was answered reached to `GuideLife` after its start (`SignedInOK`); after a sign-out the cookie has run out or a close is on its way (`SignedOutOK`). |
| `AdministrationProofs`, settings | `EditsCorrect`, `LayersCorrect` | What a save carries is what the draft said or was agreed upon (`DraftsOK`, `SaveOK`), and what the page thinks is pinned is (`PinsOK`). While no two processes boot at a time, nobody has yet to seed what somebody saved (`OneBootAtATime`); the secrets' lines read back as they were written (`LinesAreKept`). |
| `AdministrationProofs`, the value of a setting | `ValuesCorrect` | What is stored is what the schema left of some body (`ValueInv`), and a reply says what became of it (`ReplyOK`). The rest is a comparison of three parsers, field by field, for every number a field may hold (`ParseIs`, `CleanedIs`). |
| `AdministrationProofs`, the console | `ConsoleSwitchCorrect`, `QueryCorrect` | One caller at a time restarts the pool, and from where it stands follow the pool, the reason it is off and the login's password (`OneRestartAtATime`); a role that can log in besides was left so by a revoke or a start that failed (`leftBehind`). What the table changed by is what was promised, what nobody was told of, what a chained COMMIT kept (`escaped`) and what is still owed, the last a sum over the callers (`Owed`). |
| `AdministrationProofs`, the migrations | `MigrationsInOrder` | What took effect is everything there is up to some version (`HistoryOK`). A runner that adopts a history is alone and its rows complete the record; whatever a runner has left contains all that is not recorded (`RunnerOK`, `Apart`). The order of versions is that of one number (`NumberTells`), and inserting keeps a sequence in that order (`InOrder`). |
| `AdministrationProofs`, the audit trail | `TrailCorrect` | A chain of pages, cached or being fetched, holds exactly what its first page could see down to the entry where it goes on (`IsChain`): what commits later, or is rolled back, has no place in it and opens no gap. What a listing is, is proved of every finite set in an order (`LinedIs`). |
| `AdministrationProofs`, delivery and the trend | `DeliveryCorrect` and `ScreensCorrect` of the services | Of each destination of a test there is one result or a send that has yet to end (`Accounted`), and what the test reads is what was saved when it asked (`TestOK`); an answer about the sensors is as old as its timer says (`AnswerOK`). The trend is a sum over days of sums over findings: a day is in the buckets or in the rows and never in both, whichever of the two reads a sweep overtakes. |
| `PartProofs`, the local network | `LanInductive`, `LanCorrect` | A binding counts how often its MAC was the last to claim its address (`Counts`), for each address there is one binding at most (`BindingsCount`), and while all devices fit, each that was seen is held (`AllAreHeld`). Of a device that was asked to be written within the interval the newest upsert is under way, was executed last, or was lost (`WritesAreFresh`), and memory never counts a device as touched later than it was asked to be written. |
| `PartProofs`, the desk | `DeskCorrect` | A row a transaction holds is as it read it and no other changes it (`PressesOK`); a page that shows something old has a fetch out, or says that one failed, or has its own press still to see to (`PageOK`); the trail is what took effect (`TrailIsExact`, with cardinalities of disjoint sets). |
| `PartProofs`, the navigation | `NavigationCorrect` | What a panel remembers was remembered for the term in its field and of sections that are shown (`PanelOK`), on the rail, in the drawer and across a change of width. |
| `PartProofs`, the datagrams | `DatagramsCorrect` | The cache of templates holds what was announced last of each key unless it was evicted (`CacheOK`, `IsNewest`), and an exporter's statistics are the sums of what its datagrams were (`Stats`). |
| `PartProofs`, the scan detector | `TrafficCorrect` of the services | A window holds what it was given since it began (`IsCurrent`, `ItemOf`); what reached the threshold was told of less than a pause ago (`ToldOf`, and `ToldOfFlood` for floods, where the tally counts). A scan can straddle two windows: of twice the threshold less one, one of the two holds enough. |
| `PartProofs`, the contacts | `ContactsCorrect` | A stamp runs out exactly when its key has been silent for the pause (`StampsKept`), also when the oldest key was evicted for room, and a tunnel's names are in its window or in the one before (`WindowsHold`, `ToldFor`), with cardinalities of both. |
| `PartProofs`, the indicator feeds | `LookupsCorrect` | A copy on disk is what its source delivered last, and a reload under way holds what the sources behind it list and nothing else (`IntelInv`): all of it up to the source at which the ceiling was met, a part of that one, nothing of the later ones (`HoldsJust`, `HoldsNoMoreThan`). That the sealed ranges cover what the pending ones covered, in order and apart, is an induction over a fold that takes the latest range off a finite set: it is done by the smallest counterexample (`FoldExists`, `LargestOf` of `FiniteSums`), and the binary search then finds the range an address is in. |
| `ServiceProofs`, captured packets | `PathCorrect` | Every frame that waits is cut from some shape (`KernelOK`), and position for position the ring is the end of what was read (`RingOK`). What the decoder reads lies within what was captured and within the datagram, for every length of headers, options, payload and padding (`DecodeIs`). What a finding quotes of a text is its first line up to the query, and for a text that begins with a request line no secret stands there. |
| `ServiceProofs`, the page of findings | `ListCorrect` | What the cache holds for a filter are rows of it, and of the filter that is applied something is held, asked for or known to have failed (`ListCacheOK`); the tiles of a sensor count its own (`TilesOK`). |
| `ServiceProofs` | `AccessCorrect`, `AdministrationCorrect`, `SettingsCorrect`, `ConsoleCorrect`, `MigrationsCorrect`, `TrafficCorrect`, `PagesCorrect`, `DeliveryCorrect`, `ScreensCorrect`, `IntelCorrect` | None: a step of the services is a step of one part and leaves the others alone (`ServicesMove`), so a behaviour of the services is one of each part, and the conjunctions follow. |
| `FiniteSums` | `SumChanged`, `SumZero`, `FoldExists`, `LargestOf` and the lemmas before them | What a sum over a finite set becomes when one value changes. `SumFunction` is a fold over an arbitrary order, so this needs an induction over finite sets: a set of counterexamples has a smallest member under inclusion, and there is none. |

**Assumptions.** `RecordedCorrect` assumes no failing statement and INSERTs in order. The theorems about retention assume `InTime`: a finding is
written before its window can have expired, `MaxLag + AlertWindow <= Retain`; `retention_late` shows that it is needed.
The theorems about the collector assume `~BootMayOverlap`: boot's first `start()` is not in the chain of restarts
(`index.ts`, `flow/collector.ts`), and a save that arrives while it binds can open a second socket; TLC shows that with
`BootMayOverlap = TRUE`, and the theorems say that this is the only way. `AccessCorrect` and `SessionCorrect` assume `CheckedFirst`: nobody submits the sign-in form before the stored token is checked. The code does
not prevent it: `LoginPage.tsx` shows its form while `loading` is set, and a refused sign-in clears the token whose
check is still out, so that the check's answer shows a user without a token. TLC shows that with `CheckedFirst = FALSE`. `MigrationsCorrect` assumes `FirstRunAlone`. `IntelCorrect` and `LookupsCorrect` assume `SourcesDiffer`: an entry that `INTEL_FEEDS` lists twice is
read twice, and its two readings may differ, so that no single content is what the source delivered. Everything else rests on the named assumptions of the
modules' constants, which TLC evaluates on every run: among them that the guide's cookie outlives two renewals (`GuideLife > 2 * RenewInterval`), that
the callers of the console are finitely many, and that versions have one or two components below 1000 (`MigrationsAssumption`).

**Model-checked only.** All liveness (`CaptureProgress`, `EventuallyWritten`, `DueIsDone`), since the prover has neither ENABLED nor
fairness; the type invariants of the two sums; and `ReadingsExact`, `SavedExact` and `WordsExact`. The parts of these compute: they
cut a data set into records, render a digest, match an address bit by bit. They rest on what a recursive definition returns for every input, an
induction over data whose theorem takes an operator as its parameter, which the provers cannot instantiate, or on powers of two
that no prover computes with. (Where such an induction could be replaced by a smallest counterexample, it was: `FiniteSums`,
`InOrder`, `LinedIs`, the sealed ranges.) Of `WordsExact` the nested patterns are RECURSIVE operators besides.


## Where code and documentation disagree

Shown by a run, which TLC ends with a counterexample:

- **A stopped capture can be reported as interrupted** (`capture_late_report`). `stopCapture` clears `capturing` before it stamps the row. A
  boot report that reads the row in between passes its checks (`packet-capture.service.ts:717-732`) and puts up the
  notice; with automatic resume the capture starts again. The test at `services/capture-lifecycle.test.ts:687` says it
  `says nothing when the operator was the one who stopped it`.
- **`close()` does not flush while a flush runs** (`sink_close`). `alert.service.ts:155` returns at once, against the comment at 203.
- **The second of two flushes resolves early** (`notifier_two_flushes`). Both await the same send; the first dispatches, the second finds `sending`
  set and an empty queue. The comment at `notifier.ts:446-453` describes this failure as excluded.
- **A finding dated in an expired day can vanish** (`retention_late`). Aggregation and deletion are two statements at READ
  COMMITTED; what arrives in between is deleted uncounted, against `retention.service.ts:232-235` and 284-286. Flow records
  carry the exporter's clock.
- **A switched-off collector may keep listening** (`flow_switch_off`). After a save whose re-read failed, the retry button's empty save compares
  addresses and never asks whether flow is enabled (`flow/collector.ts:390`), against `routes/flow.routes.ts:173`.
- **A page told that a resume is coming may stop asking** (`page_resume`). The status has neither `capturing` nor `resumePending` while
  `startCapture` awaits (`packet-capture.service.ts:780`), so a poll in between is the last (`ui/hooks/usePacketCapture.ts:81-88`).

Read in the code while modelling, with no run of their own:

*Capture and packets.* `StopsCorrect` proves that the unscoped UPDATE of `recordCaptureStopped` is unreachable, while comments at
`packet-capture.service.ts:453-456` and `capture-audit.ts:106-112` treat it as reachable. `resumePending` stays true after a read
error once boot is over (671, against 70-71). If INSERTs of two captures are executed out of order, a running capture may have no open row
(`capture-session.service.ts:77`); `RunningIsRecorded` is stated for INSERTs in order. Frames read before an error in the same tick are lost. A failed
load of the library is remembered until restart. A segment that begins inside a request is searched for credentials too, and its first line is
quoted up to a `?` (`plaintext-credentials.ts:353-356`): if a header or the body's fields stand there, so does the secret, against 12-17.
`CredentialsExact` therefore says "no secret" of segments that begin with a request line, and of others "no more than the first line". `decodeTransport` ignores the fragment offset, and the extension headers of IPv6 are not walked. A
link of type LOOP is supported but never named so.

*Detectors.* "Sliding window" (`types.ts:106`, `scan.ts:12`) is a tumbling one. Rapid alternation, which `arp-spoof.ts:17-19` calls the
signature, sets the observations back to one. The flow engine returns at a first match that pauses (`flow/detect.ts:309`) where the packet
detector goes on. DNS answers carry the question, so a resolver counts as a source. A finding about a server's reply names the client's
ephemeral port (`plaintext-credentials.ts:295`). The upsert of a device is not awaited (`packet-capture.service.ts:356-369`), but the detector counts it as
written (`new-device.ts:98-107`): after a failure, or when an older upsert overtakes it, `last_seen` is stale for up to an interval more. Above the ceiling a feed's surplus is refused
(`match.ts:232-235`) and the rest published, so what a later source lists does not match.

*Flow.* With `BootMayOverlap` a second socket is possible. Re-read replies that overtake each other can leave the cache older than the row and not
marked stale. An evicted template is the one first inserted, not the one "not redefined in longest time" (`templates.ts:51-53`). A recovery on
GET replaces the allowlist without forgetting its refusals. A template whose fields are all of length zero yields one record before the
guard counts it malformed (`netflow-v9.ts:249-254`). Uptimes wrap after 49.7 days and date what began before in the future.

*Alerts.* The trend's two queries share no transaction, so a retention commit in between double-counts or drops a day (comment
532-540); `TrendShown` allows for what moved between them and for nothing else. Acknowledging what is acknowledged overwrites who did it, without an audit entry. A press that fails does not
refresh the list. `AlertsPage.tsx:132-137` says that the sensor list is read from the alerts, but `listSensors` unites three tables; a failed first load shows the
empty state under the error; rows of the previous filter stay unmarked while the new one loads.

*Notifier and channels.* `exportDropped` is reset before the send, whatever its outcome (`notifier.ts:369`, against 122). A
notifier obtained during a reload starts without its predecessor's throttle and ceiling; the comment at `notifier.ts:741-746` accepts this, and the
properties follow `lineage`. A webhook whose answers are lost may deliver a finding once per attempt; "ok" over UDP means handed to the kernel. CEF
cuts evidence after escaping it; Discord and the connector card list no "and N more"; JSON over UDP may be cut to something
that is not JSON. When every channel fails, the test answers 502 without a code and the page shows no reason, against `notify.api.ts:10-18`.

*Settings.* Two processes that seed the delivery row read and then update without a guard. Seeding remembers the first boot's line
only. `z.coerce.number()` makes 0 of an empty string and 1 of `true`; `int()` takes "12abc", which the resolvers reject;
`adhoc-settings.ts:339-341` says a word for a timeout "still lands here", but `env.ts:510` throws first. An
interval above 596 hours overflows the timer (`env.ts:311`, `registry.ts:68`). The flow form's retry wipes unsaved edits
(`FlowSettings.tsx:134`); the other two forms keep a field that was put back, so a later save reverts another administrator's change, which `FlowSettings.tsx:205-219`
avoids for itself.

*Console.* Two overlapping saves' re-reads refute "cannot go stale within one process" (`adhoc-settings.service.ts:23-27`). A restart whose
start fails leaves the other role's login in place (comment 356-379), and so does a revoke that fails, which is only logged (`adhoc.service.ts:386`, 396, 550,
779-809): `LoginFollowsConsole` names both. In write mode a text such as `SELECT 1; COMMIT; DELETE ...` takes effect up to its COMMIT before the answer refuses it (954-961, 1057-1060); when reading, the
role has nothing to change with. A WITH that modifies data gets 0A000 and not 42601 from DECLARE, so it cannot
run in write mode; a SET outlives its statement on the pooled connection; a lost COMMIT answer is told as a failure.

*Accounts and sessions.* A promotion committed meanwhile is not in the snapshot, so a demotion can be refused in vain
(`user.service.ts:165-172`). The guide's cookie is renewed every eight hours and not every four, since the answer's time is stamped and the
tick in between declines (`AuthContext.tsx:39-40`). A late answer to an old token ends the new session.

*Other pages.* The suppression page sorts by text under the comment "Oldest first, matching the order the server evaluates them in"; its dialog sends the whole draft and so
reverts another administrator's change; a lost answer to a create invites a second rule. A deletion at the command line may remove the last administrator
(`cli/manage-user.ts`), which `AdministratorStays` exempts. An audit entry whose transaction commits
late is never shown by a walk that has passed its place (`audit.service.ts:175-185`). A known code whose pattern needs a parameter that a newer
server no longer sends is shown as the bare key (`client.ts`, describeError). The draggable dialog clamps against a stale rectangle between two renders.

*Retention, devices, boots.* A sensor is active for 15 minutes after its last write (`sensor.service.ts:83`), and a known device is refreshed at
most every 15 minutes (`packet/detect/new-device.ts:34`), not on every sighting as `sensor.service.ts:64` says. A forgotten device is silently learned
again by the running capture. A crash in the middle of a baseline, or two first boots that overlap, re-run or skip migrations, against
`migrate.ts:185-188` (`FirstRunAlone = FALSE` shows it). Of a prefix the feeds test only the ends for private space (`match.ts:73`).

## Not modelled

Of each component what `PROJECT.json` names in its note; in general:

- Outside services and libraries (PostgreSQL, libpcap, SMTP, React, i18next) appear as what the code relies on.
- The dispatch of HTTP requests, network look-ups, scripts and packaging decide nothing that another step could disturb. Password hashing and
  token signing are taken as given; the mail transport's pool is not modelled (a send after `close()` would create a pool that nobody closes).
- The entries of a capture in the audit trail: a stop behind another one leaves an entry without a subject, and a failed append is only a warning.
- The loss of the advisory lock's connection is modelled as the end of its process, because an error on a client that is checked out is not
  handled; the moments in between, in which a sweep goes on without its lock, are not. The lock is re-entrant within a session: a pooled session
  that kept it after a failed unlock might be given to the next sweep of the same process, which the model does not let have it.
- The packet table, the dashboard's other panels, wording and layout. The formats of the feeds, and of a template's own octets.
- The race of shutdown with a sweep that starts after `close()` (`index.ts:234`) is not listed as a hazard any more:
  `NoSweepAfterCloseCorrect` proves that it cannot happen.

## Plan

What is left, in this order:

1. `RecordsExact`, `MessagesExact` and `RulesAreTrue`, the parts of `ReadingsExact`, rest on recursions over data and on powers of two,
   which the provers do not reach; a record's fields could be proved about one by one, for a template of one field.
2. The type invariants of the two sums, part by part: each proved part has its own already.
