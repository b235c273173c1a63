-------------------------- MODULE SuppressionCache --------------------------
(***************************************************************************)
(* The suppression rules: their table, the audit trail of their edits, and *)
(* the compiled set that one process keeps in memory for its sinks.        *)
(*                                                                         *)
(* The table is its version, the number of commits that wrote it, and one  *)
(* of its rules: which of that rule's criteria are set.  A created rule is *)
(* another rule and counts as a version only.  Time is relative: the age   *)
(* of the set in force and the wait until reads may load again, in ticks.  *)
(* Boot's refreshSuppressions is the load that the first read would start: *)
(* loadedAt = 0 counts as stale.                                           *)
(***************************************************************************)
EXTENDS Naturals, Sequences, FiniteSets

CONSTANTS
    Admins,            \* requests that run at a time
    Criteria,          \* kind, sourceCidr, targetCidr, port
    Patches,           \* bodies of PATCH: the criteria each sets and clears
    Refresh,           \* REFRESH_INTERVAL_MS in ticks
    PromptRetries,     \* PROMPT_RETRIES
    Backoff,           \* BACKOFF_INTERVAL_MS in ticks
    MaxVersion,        \* writes in one behaviour, from version 1
    MaxLoadFailures,   \* loads that fail in one behaviour
    Nobody             \* holds the row's lock when nobody else does

Reader == "read"

ASSUME CacheAssumption ==
    /\ Refresh \in Nat /\ PromptRetries \in Nat /\ Backoff \in Nat \ {0}
    /\ MaxVersion \in Nat \ {0} /\ MaxLoadFailures \in Nat
    /\ IsFiniteSet(Admins) /\ Nobody \notin Admins /\ Reader \notin Admins
    /\ Criteria # {}
    /\ Patches \subseteq [set : SUBSET Criteria, clear : SUBSET Criteria]
    /\ \A p \in Patches : p.set \cap p.clear = {}

VARIABLES
    rule,          \* the rule's row, as a set: its criteria, nothing once it is deleted
    version,       \* version of the table
    rowLock,       \* who holds FOR UPDATE on the rule's row
    edit,          \* each request: its stage, its patch, the row it locked, the
                   \* version it has committed
    loads,         \* the chain behind `loading', the running load first
    served,        \* version of `current', 0 for NO_SUPPRESSIONS
    age,           \* ticks since loadedAt
    wait,          \* ticks until nextAttemptAt
    failures,      \* consecutiveFailures
    loadFailures,  \* bound
    \* history
    trail,         \* audit entries of the rule: criteria set before and after
    informed,      \* newest version whose writer was answered after its load
    burst,         \* loads started by reads without a pause or a success
    pause          \* ticks since a read last started a load

tableVars == <<rule, version, rowLock, trail>>
clockVars == <<age, wait, pause>>
loadVars == <<loads, served, failures, loadFailures, burst, informed>>
cacheVars == <<rule, version, rowLock, edit, loads, served, age, wait,
               failures, loadFailures, trail, informed, burst, pause>>

Unread == 0                        \* a load whose SELECT has not been executed
Rows == SUBSET Criteria
NoPatch == [set |-> {}, clear |-> {}]
Idle == [stage |-> "idle", patch |-> NoPatch, before |-> {}, wrote |-> 0]

CacheTypeOK ==
    /\ rule \in SUBSET Rows /\ Cardinality(rule) <= 1 /\ version \in 1..MaxVersion
    /\ rowLock \in Admins \cup {Nobody}
    /\ edit \in [Admins -> [stage : {"idle", "locking", "merging", "committed", "reloading"},
                            patch : Patches \cup {NoPatch}, before : Rows,
                            wrote : 0..MaxVersion]]
    /\ loads \in Seq([by : Admins \cup {Reader}, saw : 0..MaxVersion])
    /\ served \in 0..MaxVersion /\ age \in 0..(Refresh + 1) /\ wait \in 0..Backoff
    /\ failures \in 0..MaxLoadFailures /\ loadFailures \in 0..MaxLoadFailures
    /\ trail \in Seq(Rows \X Rows) /\ informed \in 0..MaxVersion
    /\ burst \in Nat /\ pause \in 0..Backoff

CacheInit ==
    /\ rule = {Criteria} /\ version = 1 /\ rowLock = Nobody
    /\ edit = [a \in Admins |-> Idle]
    /\ loads = <<>> /\ served = 0 /\ age = Refresh + 1 /\ wait = 0
    /\ failures = 0 /\ loadFailures = 0
    /\ trail = <<>> /\ informed = 0 /\ burst = 0 /\ pause = Backoff

-----------------------------------------------------------------------------
(* The chain of loads *)

\* A load starts only when its predecessor has ended.
MutantEnqueueLoad(by) ==
    loads' = IF loads = <<>> THEN <<[by |-> by, saw |-> Unread]>>
             ELSE Append(loads, [by |-> by, saw |-> Head(loads).saw])
EnqueueLoad(by) == loads' = Append(loads, [by |-> by, saw |-> Unread])

\* A read that gives up once the prompt retries are spent.
MutantReadStarts ==
    /\ age > Refresh /\ wait = 0 /\ loads = <<>> /\ failures <= PromptRetries
    /\ EnqueueLoad(Reader)
    /\ burst' = IF pause = Backoff THEN 1 ELSE burst + 1
    /\ pause' = 0
    /\ UNCHANGED <<tableVars, edit, served, age, wait, failures, loadFailures, informed>>
\* suppressions(), for a batch of findings: only a stale set is reloaded.
ReadStarts ==
    /\ age > Refresh /\ wait = 0 /\ loads = <<>>
    /\ EnqueueLoad(Reader)
    /\ burst' = IF pause = Backoff THEN 1 ELSE burst + 1
    /\ pause' = 0
    /\ UNCHANGED <<tableVars, edit, served, age, wait, failures, loadFailures, informed>>

\* The database executes the running load's SELECT.
LoadReads ==
    /\ loads # <<>> /\ Head(loads).saw = Unread
    /\ loads' = [loads EXCEPT ![1].saw = version]
    /\ UNCHANGED <<tableVars, edit, served, clockVars, failures, loadFailures, informed, burst>>

\* The request whose load has ended is answered.
Answered(by) ==
    edit' = IF by = Reader THEN edit ELSE [edit EXCEPT ![by] = Idle]

LoadPublishes ==
    LET load == Head(loads) IN
    /\ loads # <<>> /\ load.saw # Unread
    /\ served' = load.saw /\ age' = 0 /\ wait' = 0 /\ failures' = 0
    /\ loads' = Tail(loads)
    /\ Answered(load.by)
    /\ informed' = IF load.by # Reader /\ edit[load.by].wrote > informed THEN edit[load.by].wrote ELSE informed
    /\ burst' = 0
    /\ UNCHANGED <<tableVars, loadFailures, pause>>

\* noteLoadFailure: the previous set stays in force; the first failures are
\* retried at once, later ones after a pause.
NextAttempt(count) == IF count <= PromptRetries THEN 0 ELSE Backoff
LoadFails ==
    /\ loads # <<>> /\ loadFailures < MaxLoadFailures
    /\ loadFailures' = loadFailures + 1
    /\ failures' = failures + 1 /\ wait' = NextAttempt(failures + 1)
    /\ loads' = Tail(loads)
    /\ Answered(Head(loads).by)
    /\ UNCHANGED <<tableVars, served, age, informed, burst, pause>>

Less(n) == IF n = 0 THEN 0 ELSE n - 1
More(n, most) == IF n = most THEN most ELSE n + 1
CacheTick ==
    /\ age' = More(age, Refresh + 1) /\ wait' = Less(wait) /\ pause' = More(pause, Backoff)
    /\ UNCHANGED <<tableVars, edit, loadVars>>

-----------------------------------------------------------------------------
(* Writes *)

\* Commits still possible: every request under way may commit once.
Pending == {a \in Admins : edit[a].stage \in {"locking", "merging"}}
CommitLeft == version + Cardinality(Pending) < MaxVersion

BeginUpdate(a, patch) ==
    /\ edit[a].stage = "idle" /\ CommitLeft
    /\ edit' = [edit EXCEPT ![a].stage = "locking", ![a].patch = patch]
    /\ UNCHANGED <<tableVars, loadVars, clockVars>>

\* A plain SELECT takes no lock.
MutantLockRow(a) ==
    /\ edit[a].stage = "locking"
    /\ \E row \in rule : edit' = [edit EXCEPT ![a].stage = "merging", ![a].before = row]
    /\ rowLock' = a
    /\ UNCHANGED <<rule, version, trail, loadVars, clockVars>>
\* SELECT ... FOR UPDATE, which waits for the lock.  A deleted rule is a 404.
LockRow(a) ==
    /\ edit[a].stage = "locking" /\ rowLock = Nobody
    /\ \/ \E row \in rule :
             /\ edit' = [edit EXCEPT ![a].stage = "merging", ![a].before = row]
             /\ rowLock' = a
       \/ /\ rule = {}
          /\ edit' = [edit EXCEPT ![a] = Idle]
          /\ UNCHANGED rowLock
    /\ UNCHANGED <<rule, version, trail, loadVars, clockVars>>

\* mergeSuppressionPatch
Merged(before, patch) == (before \ patch.clear) \cup patch.set

\* hasSuppressionCriterion of the merged row
IsUsable(a) == Merged(edit[a].before, edit[a].patch) # {}

\* A merged row without a criterion is a 400 and nothing is written.
RefuseUpdate(a) ==
    /\ edit[a].stage = "merging" /\ ~IsUsable(a)
    /\ rowLock' = Nobody
    /\ edit' = [edit EXCEPT ![a] = Idle]
    /\ UNCHANGED <<rule, version, trail, loadVars, clockVars>>

\* UPDATE, audit entry if anything changed, COMMIT.
CommitUpdate(a) ==
    LET merged == Merged(edit[a].before, edit[a].patch) IN
    /\ edit[a].stage = "merging" /\ IsUsable(a)
    /\ rule' = {merged} /\ version' = version + 1 /\ rowLock' = Nobody
    /\ trail' = IF merged = edit[a].before THEN trail
                ELSE Append(trail, <<edit[a].before, merged>>)
    /\ edit' = [edit EXCEPT ![a] = [Idle EXCEPT !.stage = "committed", !.wrote = version']]
    /\ UNCHANGED <<loadVars, clockVars>>

\* The transaction of create or delete, which waits for the row's lock, or an
\* INSERT of another rule; either with its audit entry.
CommitOther(a) ==
    /\ edit[a].stage = "idle" /\ CommitLeft
    /\ rule' \in IF rowLock = Nobody THEN {rule, {}} ELSE {rule}
    /\ version' = version + 1
    /\ edit' = [edit EXCEPT ![a] = [Idle EXCEPT !.stage = "committed", !.wrote = version']]
    /\ UNCHANGED <<rowLock, trail, loadVars, clockVars>>

\* A statement of the transaction fails: it is rolled back, the answer is a 500.
UpdateFails(a) ==
    /\ edit[a].stage \in {"locking", "merging"}
    /\ edit' = [edit EXCEPT ![a] = Idle]
    /\ rowLock' = IF rowLock = a THEN Nobody ELSE rowLock
    /\ UNCHANGED <<rule, version, trail, loadVars, clockVars>>

\* reloadAfterWrite, once the reply to the COMMIT has arrived.
ReloadAfterWrite(a) ==
    /\ edit[a].stage = "committed"
    /\ EnqueueLoad(a)
    /\ edit' = [edit EXCEPT ![a].stage = "reloading"]
    /\ UNCHANGED <<tableVars, served, clockVars, failures, loadFailures, informed, burst>>

\* Another process, or somebody with psql, changes another rule.
ForeignWrite ==
    /\ CommitLeft
    /\ version' = version + 1
    /\ UNCHANGED <<rule, rowLock, trail, edit, loadVars, clockVars>>

-----------------------------------------------------------------------------
AdminStep(a) ==
    \/ \E patch \in Patches : BeginUpdate(a, patch)
    \/ LockRow(a) \/ RefuseUpdate(a) \/ CommitUpdate(a)
    \/ CommitOther(a) \/ UpdateFails(a) \/ ReloadAfterWrite(a)

CacheNext ==
    \/ ReadStarts \/ LoadReads \/ LoadPublishes \/ LoadFails
    \/ \E a \in Admins : AdminStep(a)
    \/ ForeignWrite \/ CacheTick

CacheSpec == CacheInit /\ [][CacheNext]_cacheVars

-----------------------------------------------------------------------------
(* Properties *)

\* A reload that follows a write never serves readers an older set than before,
\* and a writer answered after its load finds its version in force, however
\* loads, writes and failures overlap: the cache is a fresh register.
Register == INSTANCE FreshRegister WITH latest <- version, visible <- served, promised <- informed
InForceWhenAnswered == Register!RegisterSpec

\* The audit trail of a rule is one unbroken history: every update starts where
\* the one before it ended, and the last one left the row as it is.
TrailIsComplete ==
    /\ \A i \in DOMAIN trail : trail[i][1] = IF i = 1 THEN Criteria ELSE trail[i - 1][2]
    /\ trail # <<>> => rule \subseteq {trail[Len(trail)][2]}

\* During an outage, findings start no more than the prompt retries and one more
\* load before reads pause, however many batches arrive.
OutageIsQuiet == burst <= PromptRetries + 1

\* The rules' own history and the retries of their cache: no edit is lost between
\* two administrators, and an outage of the database is met quietly.
CacheSafety == TrailIsComplete /\ OutageIsQuiet

\* What always comes again, with findings arriving: the version of the table, a
\* foreign one too, is the one that is served; retries never stop.
CacheAtRest == served = version

\* The database answers, time passes and findings keep arriving.
CacheFairness ==
    /\ WF_cacheVars(ReadStarts) /\ WF_cacheVars(LoadReads)
    /\ WF_cacheVars(LoadPublishes \/ LoadFails) /\ WF_cacheVars(CacheTick)
-----------------------------------------------------------------------------
(* What the proofs rest on *)

\* Whoever merges holds the lock, and the row is still the one it has read.
LockHeld ==
    \A a \in Admins : /\ edit[a].stage = "merging" <=> rowLock = a
                      /\ rowLock = a => rule = {edit[a].before}

\* The row, unless it was deleted, is where its history ends.
TrailEnd == IF trail = <<>> THEN Criteria ELSE trail[Len(trail)][2]
RowEndsTrail == rule \subseteq {TrailEnd}

VersionsOK ==
    /\ served <= version /\ informed <= served
    /\ \A a \in Admins : edit[a].wrote <= version
    /\ version + Cardinality(Pending) <= MaxVersion

\* Only the running load has read, and a request has one load in the chain, which it
\* waits for.  What was read covers what is served and what the request wrote.
ChainOK ==
    \A i \in DOMAIN loads :
        /\ i > 1 => loads[i].saw = Unread /\ loads[i].by # Reader
        /\ loads[i].by # Reader => edit[loads[i].by].stage = "reloading"
        /\ \A j \in DOMAIN loads : loads[i].by = loads[j].by => i = j
        /\ loads[i].saw # Unread =>
             /\ served <= loads[i].saw /\ loads[i].saw <= version
             /\ loads[i].by # Reader => edit[loads[i].by].wrote <= loads[i].saw

\* Every load that a read started and that is over has failed, or the count is back at 0;
\* after too many failures, no read has started a load within the pause.
Reading == \E i \in DOMAIN loads : loads[i].by = Reader
RetriesOK ==
    /\ failures <= loadFailures
    /\ burst <= failures + (IF Reading THEN 1 ELSE 0)
    /\ ~Reading /\ failures > PromptRetries => wait + pause >= Backoff

CacheInv ==
    /\ CacheTypeOK /\ LockHeld /\ RowEndsTrail /\ VersionsOK /\ ChainOK /\ RetriesOK
    /\ TrailIsComplete /\ OutageIsQuiet
==============================================================================
