------------------------------ MODULE Migrations ------------------------------
(***************************************************************************)
(* The schema migrations every process runs before it listens              *)
(* (db/migrate.ts).  Each statement outside a migration's transaction      *)
(* commits by itself, no lock keeps two processes apart, and a process may *)
(* stop between any two of them.                                           *)
(*                                                                         *)
(* A file is its version, a sequence of numbers.  The SQL of a migration   *)
(* is one effect that fails when it is there already: the files create     *)
(* tables, add columns and insert unique rows, none of it conditional      *)
(* where it matters.                                                       *)
(***************************************************************************)
EXTENDS Integers, Sequences, FiniteSets, Functions

CONSTANTS Runners,        \* processes that share the database
          Directories,    \* sets of versions the directory of migrations may hold
          FirstRunAlone,  \* a process that finds no row is alone and is not cut short
          MaxStarts       \* bound: starts of a process

\* The files are numbered with one component or two, as Flyway writes them.
ASSUME MigrationsAssumption ==
    /\ FirstRunAlone \in BOOLEAN /\ MaxStarts \in Nat
    /\ \A versions \in Directories :
        /\ IsFiniteSet(versions)
        /\ \A v \in versions : v \in Seq(0..999) /\ Len(v) \in 1..2

VARIABLES files,     \* the versions of the files
          flyway,    \* the versions flyway_schema_history lists; {} for no such table
          performed, \* the versions whose SQL took effect, in that order
          recorded,  \* the rows of schema_migrations
          runner,    \* [stage, left] of each process
          starts

migrationVars == <<files, flyway, performed, recorded, runner, starts>>

Stages == {"off", "count", "look", "adopting", "read", "running", "applying", "up", "failed"}

-----------------------------------------------------------------------------
\* A missing component counts as 0.
Part(version, i) == IF i \in DOMAIN version THEN version[i] ELSE 0

\* compareVersions: the first component that differs decides.
Before(a, b) ==
    \E i \in DOMAIN a \cup DOMAIN b :
        /\ Part(a, i) < Part(b, i)
        /\ \A j \in 1..(i - 1) : Part(a, j) = Part(b, j)

\* One key per class of versions that compare equal: trailing zeros dropped.
SortKey(version) ==
    LET kept == {i \in DOMAIN version : i = 1 \/ \E j \in i..Len(version) : version[j] # 0}
    IN [i \in kept |-> version[i]]

\* Two files that claim one version, which refuses the whole directory.
Collide(versions) == \E a, b \in versions : a # b /\ SortKey(a) = SortKey(b)

\* The ways to list versions, each once.
Orders(versions) == Bijection(1..Cardinality(versions), versions)

\* The one that the comparison sorts them into.
Ordered(versions) ==
    CHOOSE s \in Orders(versions) : \A i, j \in DOMAIN s : i < j => Before(s[i], s[j])

\* A mutant: only the rows are asked whether the database is new.
MutantUsersExist == recorded # {}

\* V1 creates the table of users.
UsersExist == performed # <<>>

Settled == {"off", "up", "failed"}
Baselining == {"count", "look", "adopting"}

-----------------------------------------------------------------------------
\* The databases a process may meet: an empty one, one an earlier version of this
\* runner migrated, one with a history of Flyway's, and one with all the tables and
\* no history.  (One with some of the tables and no history is taken for complete.)
MigrationInit ==
    /\ files \in Directories
    /\ \E done \in IF Collide(files) THEN {<<>>}
                   ELSE {SubSeq(Ordered(files), 1, k) : k \in 0..Cardinality(files)} :
        /\ performed = done
        /\ \E kind \in {"migrated", "flyway", "bare"} :
            /\ recorded = IF kind = "migrated" THEN Range(done) ELSE {}
            /\ flyway = IF kind = "flyway" THEN Range(done) ELSE {}
            /\ kind = "bare" => done = <<>> \/ Range(done) = files
    /\ runner = [p \in Runners |-> [stage |-> "off", left |-> <<>>]]
    /\ starts = 0

\* The files are ordered, or refused, and the table of rows is there from now on.
MigrationStart(p) ==
    /\ runner[p].stage \in Settled /\ starts < MaxStarts
    /\ FirstRunAlone => \/ \A q \in Runners : runner[q].stage \in Settled
                        \/ recorded # {} /\ \A q \in Runners : runner[q].stage \notin Baselining
    /\ runner' = [runner EXCEPT ![p] = [stage |-> IF Collide(files) THEN "failed" ELSE "count",
                                        left |-> <<>>]]
    /\ starts' = starts + 1
    /\ UNCHANGED <<files, flyway, performed, recorded>>

\* Any row at all means that there is nothing to adopt.
CountRows(p) ==
    /\ runner[p].stage = "count"
    /\ runner' = [runner EXCEPT ![p].stage = IF recorded = {} THEN "look" ELSE "read"]
    /\ UNCHANGED <<files, flyway, performed, recorded, starts>>

\* Flyway's successful versions, in no stated order; without its table, every file if
\* there are users.
LookForHistory(p) ==
    /\ runner[p].stage = "look"
    /\ \E adopted \in IF flyway # {} THEN Orders(flyway)
                      ELSE {IF UsersExist THEN Ordered(files) ELSE <<>>} :
           runner' = [runner EXCEPT ![p] = [stage |-> "adopting", left |-> adopted]]
    /\ UNCHANGED <<files, flyway, performed, recorded, starts>>

\* One row at a time, each committed by itself; a row that is there is left alone.
Adopt(p) ==
    /\ runner[p].stage = "adopting"
    /\ IF runner[p].left = <<>>
       THEN runner' = [runner EXCEPT ![p].stage = "read"] /\ UNCHANGED recorded
       ELSE /\ recorded' = recorded \cup {Head(runner[p].left)}
            /\ runner' = [runner EXCEPT ![p].left = Tail(@)]
    /\ UNCHANGED <<files, flyway, performed, starts>>

\* What is left is decided once, from the rows as they are now.
ReadApplied(p) ==
    /\ runner[p].stage = "read"
    /\ runner' = [runner EXCEPT ![p] = [stage |-> "running",
                                        left |-> Ordered(files \ recorded)]]
    /\ UNCHANGED <<files, flyway, performed, recorded, starts>>

BeginNext(p) ==
    /\ runner[p].stage = "running"
    /\ runner' = [runner EXCEPT ![p].stage = IF runner[p].left = <<>> THEN "up" ELSE "applying"]
    /\ UNCHANGED <<files, flyway, performed, recorded, starts>>

\* The migration and its row are one transaction: the SQL has to be new and the row too.
Commit(p) ==
    /\ runner[p].stage = "applying"
    /\ LET version == Head(runner[p].left)
       IN /\ version \notin Range(performed) /\ version \notin recorded
          /\ performed' = Append(performed, version)
          /\ recorded' = recorded \cup {version}
    /\ runner' = [runner EXCEPT ![p] = [stage |-> "running", left |-> Tail(@.left)]]
    /\ UNCHANGED <<files, flyway, starts>>

\* Any error rolls the transaction back and ends the process.
Rollback(p) ==
    /\ runner[p].stage = "applying"
    /\ runner' = [runner EXCEPT ![p].stage = "failed"]
    /\ UNCHANGED <<files, flyway, performed, recorded, starts>>

\* The process is stopped anywhere; what it had not committed is gone.
MigrationCrash(p) ==
    /\ runner[p].stage \notin Settled
    /\ FirstRunAlone => runner[p].stage # "adopting"
    /\ runner' = [runner EXCEPT ![p] = [stage |-> "off", left |-> <<>>]]
    /\ UNCHANGED <<files, flyway, performed, recorded, starts>>

MigrationNext ==
    \E p \in Runners :
        \/ MigrationStart(p) \/ CountRows(p) \/ LookForHistory(p) \/ Adopt(p)
        \/ ReadApplied(p) \/ BeginNext(p) \/ Commit(p) \/ Rollback(p) \/ MigrationCrash(p)

MigrationSpec == MigrationInit /\ [][MigrationNext]_migrationVars

-----------------------------------------------------------------------------
\* The variables keep their types.
MigrationTypeOK ==
    /\ files \in Directories /\ flyway \subseteq files
    /\ performed \in Seq(files) /\ recorded \subseteq files
    /\ runner \in [Runners -> [stage : Stages, left : Seq(files)]]
    /\ starts \in 0..MaxStarts

\* When a process reads which migrations to leave out, every one whose tables are
\* there already is recorded, so that it never runs a CREATE TABLE again.
NeverRunAgain ==
    \A p \in Runners : runner[p].stage = "read" => Range(performed) \subseteq recorded

\* A reference order: the version read as one number, for components below 1000.
Number(version) == Part(version, 1) * 1000 + Part(version, 2)

\* Whatever the processes do, migrations take effect in the order of their numbers,
\* which are never equal, and each once; a recorded version has taken effect; and a
\* process that goes on to serve finds every version recorded.
MigrationsExact ==
    /\ \A i, j \in DOMAIN performed : i < j => Number(performed[i]) < Number(performed[j])
    /\ recorded \subseteq Range(performed)
    /\ NeverRunAgain
    /\ \A p \in Runners : runner[p].stage = "up" => recorded = files
-----------------------------------------------------------------------------
(* What the proofs rest on *)

Increasing(versions) ==
    \A i, j \in DOMAIN versions : i < j => Number(versions[i]) < Number(versions[j])

\* What took effect is all there is up to some version; before the first row is written,
\* the histories the database came with tell what that is.
HistoryOK ==
    /\ Increasing(performed) /\ recorded \subseteq Range(performed)
    /\ performed # <<>> => ~Collide(files)
    /\ \A v \in files, w \in Range(performed) : Number(v) < Number(w) => v \in Range(performed)
    /\ recorded = {} => IF flyway # {} THEN Range(performed) = flyway
                        ELSE performed = <<>> \/ Range(performed) = files

\* One who adopts has no company; two who read the history have a row to go by.
Apart(one, other) ==
    /\ one.stage \in Baselining => other.stage \notin Baselining
    /\ one.stage \in Baselining /\ (recorded = {} \/ one.stage = "adopting") => other.stage \in Settled

\* The rows of one who adopts complete the record, and what is left to one who runs
\* is everything that is not recorded.
RunnerOK(one) ==
    /\ one.stage \notin Settled => ~Collide(files)
    /\ one.stage = "look" => recorded = {}
    /\ one.stage = "adopting" => Range(performed) = recorded \cup Range(one.left)
    /\ one.stage \in {"read", "running", "applying"} => recorded = Range(performed)
    /\ one.stage \in {"running", "applying"} =>
          Increasing(one.left) /\ files \ recorded \subseteq Range(one.left)
    /\ one.stage = "applying" => one.left # <<>>
    /\ one.stage = "up" => recorded = files

RunnersOK ==
    /\ recorded # {} /\ (\A p \in Runners : runner[p].stage # "adopting") => recorded = Range(performed)
    /\ \A p \in Runners : RunnerOK(runner[p])
    /\ \A p, q \in Runners : p # q => Apart(runner[p], runner[q])

MigrationInv == MigrationTypeOK /\ HistoryOK /\ RunnersOK
==============================================================================
