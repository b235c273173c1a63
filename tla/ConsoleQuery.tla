---------------------------- MODULE ConsoleQuery -----------------------------
(***************************************************************************)
(* A statement of the query console from the request to the answer: the    *)
(* two connections of its pool, the transaction, the cursor and its retry  *)
(* without one, COMMIT, and the row cap (services/adhoc.service.ts); and   *)
(* before that the proof of the sandbox on which the pool is opened.       *)
(*                                                                         *)
(* A statement is a kind: what PostgreSQL says to a cursor over it, whether *)
(* it is one statement, how many rows it changes, how many it returns.     *)
(* Who may open the console, and as which role, is AdhocConsole's.         *)
(***************************************************************************)
EXTENDS Naturals, FiniteSets, Functions

CONSTANTS QueryCallers,    \* requests at a time
          MaxClients,      \* max of the pool
          RowCaps,         \* values of maxRows
          MaxQueries       \* bound: statements in one behaviour

ASSUME QueryAssumption ==
    /\ IsFiniteSet(QueryCallers) /\ MaxClients \in Nat /\ RowCaps \subseteq Nat \ {0} /\ MaxQueries \in Nat

\* cursor: what DECLARE answers; unwrapped: EXPLAIN and SHOW, which get none.
Kind(cursor, statements, changes, rows) ==
    [cursor |-> cursor, statements |-> statements, changes |-> changes, rows |-> rows]
StatementKinds ==
    [select    |-> Kind("taken", 1, 0, 3),      insert   |-> Kind("42601", 1, 2, 0),
     returning |-> Kind("42601", 1, 2, 2),      withInsert |-> Kind("0A000", 1, 2, 2),
     explain   |-> Kind("unwrapped", 1, 0, 2),  analyzeInsert |-> Kind("unwrapped", 1, 2, 2),
     wrong     |-> Kind("42601", 0, 0, 0),      twoSelects |-> Kind("taken", 2, 0, 2),
     twoInserts |-> Kind("42601", 2, 4, 0),     selectInsert |-> Kind("taken", 2, 2, 1),
     showInsert |-> Kind("unwrapped", 2, 2, 1),
     selectCommitInsert |-> Kind("taken", 3, 2, 1), insertCommit |-> Kind("42601", 2, 2, 0),
     showCommitInsert |-> Kind("unwrapped", 3, 2, 1)]
CountsRows == {"insert", "returning"}
\* A COMMIT among several statements ends the transaction; what follows it commits alone.
HoldsCommit == {"selectCommitInsert", "insertCommit", "showCommitInsert"}

\* What the role of the pool may do, as the database was left by the migrations and
\* by whoever granted anything since.
Grants == [superuser : BOOLEAN, named : BOOLEAN, inserts : BOOLEAN, deletesAudit : BOOLEAN,
           readsPasswords : BOOLEAN]

VARIABLES grants, writing,   \* the role and the mode, fixed at the start
          opened,            \* pool # null
          cap,               \* maxRows now
          query,             \* each caller's request
          \* history
          changed,           \* rows changed by committed transactions
          promised,          \* rows changed according to the answers
          unsure,            \* rows of a COMMIT whose answer was lost
          escaped,           \* rows that a COMMIT in the statement itself has committed
          queries            \* bound

queryVars == <<grants, writing, opened, cap, query, changed, promised, unsure, escaped, queries>>

NoAnswerYet == [is |-> "none", rows |-> 0, truncated |-> FALSE, affected |-> 0]
NoQuery == [stage |-> "idle", kind |-> "wrong", cap |-> 1, pending |-> 0, rows |-> 0, answer |-> NoAnswerYet]

QueryTypeOK ==
    /\ grants \in Grants /\ writing \in BOOLEAN /\ opened \in BOOLEAN /\ cap \in RowCaps
    /\ \A c \in QueryCallers :
          /\ query[c].stage \in {"idle", "connecting", "begun", "retried", "ran", "failed", "committed"}
          /\ query[c].kind \in DOMAIN StatementKinds /\ query[c].pending \in Nat
    /\ changed \in Nat /\ promised \in Nat /\ unsure \in Nat /\ escaped \in Nat /\ queries \in 0..MaxQueries

-----------------------------------------------------------------------------
(* proveSandbox: each attempt is rolled back, whatever comes of it. *)

MustBeRefused(may) == ~may
MustSucceed(may) == may

Proves(role, mode) ==
    /\ role.named /\ ~role.superuser
    /\ IF mode = "write"
       THEN MustSucceed(role.inserts) /\ MustBeRefused(role.deletesAudit)
       ELSE MustBeRefused(role.inserts)
    /\ MustBeRefused(role.readsPasswords)

QueryInit ==
    /\ grants \in Grants /\ writing \in BOOLEAN
    /\ opened = Proves(grants, IF writing THEN "write" ELSE "read")
    /\ cap \in RowCaps
    /\ query = [c \in QueryCallers |-> NoQuery]
    /\ changed = 0 /\ promised = 0 /\ unsure = 0 /\ escaped = 0 /\ queries = 0

-----------------------------------------------------------------------------
KindOf(c) == StatementKinds[query[c].kind]
AtStep(c, stage) == query[c].stage = stage
OnClient == {c \in QueryCallers : query[c].stage \notin {"idle", "connecting"}}
fixedInQuery == UNCHANGED <<grants, writing, opened>>

\* runAdhocQuery up to its first await: the settings are read once, here.
Asks(c, kind) ==
    /\ opened /\ AtStep(c, "idle") /\ queries < MaxQueries /\ queries' = queries + 1
    /\ query' = [query EXCEPT ![c] = [NoQuery EXCEPT !.stage = "connecting", !.kind = kind, !.cap = cap]]
    /\ fixedInQuery /\ UNCHANGED <<cap, changed, promised, unsure, escaped>>

\* A connection; BEGIN (READ ONLY, when reading) and the two timeouts.
Connects(c) ==
    /\ AtStep(c, "connecting") /\ Cardinality(OnClient) < MaxClients
    /\ query' = [query EXCEPT ![c].stage = "begun"]
    /\ fixedInQuery /\ UNCHANGED <<cap, changed, promised, unsure, escaped, queries>>

AnswersWith(c, answer) == [query[c] EXCEPT !.stage = "idle", !.pending = 0, !.answer = answer]
RefusedAs(key) == [NoAnswerYet EXCEPT !.is = key]

\* error.adhoc_busy: both connections stayed taken for connectionTimeoutMillis.
ConnectTimesOut(c) ==
    /\ AtStep(c, "connecting") /\ Cardinality(OnClient) = MaxClients
    /\ query' = [query EXCEPT ![c] = AnswersWith(c, RefusedAs("busy"))]
    /\ fixedInQuery /\ UNCHANGED <<cap, changed, promised, unsure, escaped, queries>>

\* A transaction that is READ ONLY changes nothing; past a COMMIT there is only what
\* the role may do.
MayChange(c) == IF query[c].kind \in HoldsCommit THEN grants.inserts ELSE writing

\* What comes back as an array is taken for the result of the last statement.
MutantRuns(c, rows) ==
    IF (KindOf(c).changes > 0 /\ ~MayChange(c)) \/ KindOf(c).statements = 0
    THEN [query[c] EXCEPT !.stage = "failed"]
    ELSE [query[c] EXCEPT !.stage = "ran", !.rows = rows,
                          !.pending = IF query[c].kind \in HoldsCommit THEN 0 ELSE KindOf(c).changes]
\* The statement as it stands has run: more than one comes back as an array, which is
\* refused, with what they did to the transaction still to be rolled back.
Runs(c, rows) ==
    IF (KindOf(c).changes > 0 /\ ~MayChange(c)) \/ KindOf(c).statements = 0
    THEN [query[c] EXCEPT !.stage = "failed"]           \* 25006, 42501, or 42601 of its own
    ELSE [query[c] EXCEPT !.stage = IF KindOf(c).statements = 1 THEN "ran" ELSE "failed",
                          !.pending = IF query[c].kind \in HoldsCommit THEN 0 ELSE KindOf(c).changes,
                          !.rows = rows]
\* What a COMMIT of its own has made of it by then.
CommitsItself(c) ==
    LET rows == IF query[c].kind \in HoldsCommit /\ MayChange(c) THEN KindOf(c).changes ELSE 0 IN
    changed' = changed + rows /\ escaped' = escaped + rows

\* FETCH takes one row more than the cap.
Fetched(c) == IF KindOf(c).rows > query[c].cap THEN query[c].cap + 1 ELSE KindOf(c).rows

\* DECLARE and FETCH, behind a savepoint if the mode is write, or no cursor at all.
Declares(c) ==
    /\ AtStep(c, "begun")
    /\ query' = [query EXCEPT ![c] =
           CASE KindOf(c).cursor = "taken" -> Runs(c, Fetched(c))
             [] KindOf(c).cursor = "unwrapped" -> Runs(c, KindOf(c).rows)
             [] KindOf(c).cursor = "42601" /\ writing -> [query[c] EXCEPT !.stage = "retried"]
             [] OTHER -> [query[c] EXCEPT !.stage = "failed"]]
    /\ IF KindOf(c).cursor \in {"taken", "unwrapped"} THEN CommitsItself(c) ELSE UNCHANGED <<changed, escaped>>
    /\ fixedInQuery /\ UNCHANGED <<cap, promised, unsure, queries>>

\* ROLLBACK TO SAVEPOINT, and the statement without the cursor.
RetriesWithout(c) ==
    /\ AtStep(c, "retried")
    /\ query' = [query EXCEPT ![c] = Runs(c, KindOf(c).rows)]
    /\ CommitsItself(c)
    /\ fixedInQuery /\ UNCHANGED <<cap, promised, unsure, queries>>

\* The statement timeout, a lock that was not had in a second, a lost connection.
Aborts(c) ==
    /\ query[c].stage \in {"begun", "retried", "ran"}
    /\ query' = [query EXCEPT ![c].stage = "failed"]
    /\ fixedInQuery /\ UNCHANGED <<cap, changed, promised, unsure, escaped, queries>>

\* COMMIT in write mode.  If its answer is lost the request fails all the same.
Commits(c, answered) ==
    /\ AtStep(c, "ran") /\ writing
    /\ changed' = changed + query[c].pending
    /\ unsure' = IF answered THEN unsure ELSE unsure + query[c].pending
    /\ query' = [query EXCEPT ![c].stage = IF answered THEN "committed" ELSE "failed", ![c].pending = 0]
    /\ fixedInQuery /\ UNCHANGED <<cap, promised, escaped, queries>>

\* The finally of a request that threw: ROLLBACK, and the connection goes back.
Refuses(c) ==
    /\ AtStep(c, "failed")
    /\ query' = [query EXCEPT ![c] = AnswersWith(c, RefusedAs("refused"))]
    /\ fixedInQuery /\ UNCHANGED <<cap, changed, promised, unsure, escaped, queries>>

\* Rows beyond the cap are cut; ROLLBACK ends a reading transaction.
CapOf(c) == query[c].cap
Result(c) ==
    LET truncated == query[c].rows > CapOf(c) IN
    [is |-> "ok", rows |-> IF truncated THEN CapOf(c) ELSE query[c].rows, truncated |-> truncated,
     affected |-> IF query[c].kind \in CountsRows THEN KindOf(c).changes ELSE 0]
Succeeds(c) ==
    /\ AtStep(c, IF writing THEN "committed" ELSE "ran")
    /\ query' = [query EXCEPT ![c] = AnswersWith(c, Result(c))]
    /\ promised' = promised + IF query[c].kind \in CountsRows \cup {"analyzeInsert"} THEN KindOf(c).changes ELSE 0
    /\ fixedInQuery /\ UNCHANGED <<cap, changed, unsure, escaped, queries>>

\* A save of the settings, which a statement under way does not see.
SavesCap ==
    /\ opened /\ queries > 0 /\ cap' \in RowCaps \ {cap}
    /\ fixedInQuery /\ UNCHANGED <<query, changed, promised, unsure, escaped, queries>>

QueryNext ==
    \/ SavesCap
    \/ \E c \in QueryCallers :
          \/ \E kind \in DOMAIN StatementKinds : Asks(c, kind)
          \/ Connects(c) \/ ConnectTimesOut(c) \/ Declares(c) \/ RetriesWithout(c) \/ Aborts(c)
          \/ \E answered \in BOOLEAN : Commits(c, answered)
          \/ Refuses(c) \/ Succeeds(c)

QuerySpec == QueryInit /\ [][QueryNext]_queryVars

-----------------------------------------------------------------------------
(* Properties *)

NoneOnClient == OnClient = {}

\* The answers tell what happened.  Once no statement is on a connection, what is
\* changed in the database is what the answers promised, but for a COMMIT whose
\* answer was lost and for statements that chain a COMMIT of their own, which are
\* refused when they have taken effect: any other that was refused (a second one
\* chained to it, a cursor it cannot have, a timeout after it ran) left nothing
\* behind, and one that was retried without its cursor ran once.  Reading changes
\* nothing, with a COMMIT of its own or without.
AnswersTell ==
    /\ NoneOnClient => changed = promised + unsure + escaped
    /\ ~writing => changed = 0

\* The rows of an answer are those of the statement up to the cap, and it says
\* truncated if and only if there were more, judged by one cap from the first step
\* to the last, whatever was saved meanwhile.
CutIsTold ==
    \A c \in QueryCallers : query[c].answer.is = "ok" =>
        LET answer == query[c].answer IN
        /\ answer.truncated <=> KindOf(c).rows > query[c].cap
        /\ answer.rows = IF answer.truncated THEN query[c].cap ELSE KindOf(c).rows

\* No more statements on connections than the pool has, and none on a role that
\* could read a password, clear the audit trail, or write while reading.
RunsCaged ==
    /\ Cardinality(OnClient) <= MaxClients
    /\ OnClient # {} => /\ ~grants.superuser /\ ~grants.readsPasswords
                        /\ IF writing THEN ~grants.deletesAudit ELSE ~grants.inserts

QueryExact == AnswersTell /\ CutIsTold /\ RunsCaged
-----------------------------------------------------------------------------
(* What the proofs rest on *)

Answered == [is : {"none", "busy", "refused", "ok"}, rows : Nat, truncated : BOOLEAN, affected : Nat]
QueryRecord ==
    [stage : {"idle", "connecting", "begun", "retried", "ran", "failed", "committed"},
     kind : DOMAIN StatementKinds, cap : Nat \ {0}, pending : Nat, rows : Nat, answer : Answered]

\* What an answer has yet to promise of what was committed.
Owing(q) ==
    IF q.stage = "committed" /\ q.kind \in CountsRows \cup {"analyzeInsert"} THEN StatementKinds[q.kind].changes ELSE 0
Owed == [c \in QueryCallers |-> Owing(query[c])]

\* One statement: what ran is one statement with all of its rows up to the cap.
StatementOK(q) ==
    LET kind == StatementKinds[q.kind] IN
    /\ q.stage # "idle" => opened
    /\ q.stage = "retried" => kind.cursor = "42601"
    /\ q.stage \in {"ran", "committed"} =>
        /\ kind.statements = 1 /\ kind.cursor # "0A000"
        /\ IF q.rows > q.cap THEN kind.rows > q.cap ELSE kind.rows = q.rows
    /\ q.stage = "ran" => q.pending = kind.changes /\ (~writing => kind.changes = 0)
    /\ q.stage = "committed" => writing
    /\ q.answer.is = "ok" =>
        /\ q.answer.truncated <=> kind.rows > q.cap
        /\ q.answer.rows = IF q.answer.truncated THEN q.cap ELSE kind.rows

QueryInv ==
    /\ query \in [QueryCallers -> QueryRecord] /\ cap \in Nat \ {0} /\ writing \in BOOLEAN
    /\ changed \in Nat /\ promised \in Nat /\ unsure \in Nat /\ escaped \in Nat
    /\ opened => Proves(grants, IF writing THEN "write" ELSE "read")
    /\ \A c \in QueryCallers : StatementOK(query[c])
    /\ changed = promised + unsure + escaped + SumFunction(Owed)
    /\ ~writing => changed = 0
    /\ Cardinality(OnClient) <= MaxClients
==============================================================================
