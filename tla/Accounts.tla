------------------------------ MODULE Accounts ------------------------------
(***************************************************************************)
(* The accounts: sign-up, the change of a role, and the command line.      *)
(*                                                                         *)
(* users holds the committed rows by id.  A role change is a transaction   *)
(* of two SELECT ... FOR UPDATE: a statement takes its snapshot when it    *)
(* starts and waits for one row after the other, each read again once its  *)
(* lock is free (READ COMMITTED).  Whether somebody is an administrator is *)
(* decided without regard to the case of the stored role.                  *)
(***************************************************************************)
EXTENDS Naturals, FiniteSets

CONSTANTS
    Requests,        \* API requests that run at a time
    Emails,
    SeededUsers,     \* the rows found at boot: {} on a new installation
    AllowOpenSignup, \* ALLOW_OPEN_SIGNUP
    MaxAccounts,     \* ids handed out in one behaviour
    MaxRequests      \* requests in one behaviour

Roles == {"ADMIN", "Admin", "USER"}
AdminRoles == {"ADMIN", "Admin"}
Accounts == 1..MaxAccounts
UserRow == [email : Emails, role : Roles, via : {"seed", "cli", "admin", "bootstrap", "open-signup"}]

ASSUME AccountsAssumption ==
    /\ AllowOpenSignup \in BOOLEAN /\ MaxAccounts \in Nat /\ MaxRequests \in Nat
    /\ IsFiniteSet(SeededUsers) /\ SeededUsers \subseteq UserRow
    /\ Cardinality(SeededUsers) <= MaxAccounts
    /\ \A u, v \in SeededUsers : u.email = v.email => u = v
    /\ \A u \in SeededUsers : u.via = "seed"
    /\ Emails # {}

VARIABLES
    users,
    nextUser,    \* the sequence behind users.id
    bootstrapLock, \* who holds the advisory lock
    apiRequest,    \* each request
    requests     \* bound

accountVars == <<users, nextUser, bootstrapLock, apiRequest, requests>>

NoHolder == {}
NoRequest == [stage |-> "idle", row |-> [email |-> CHOOSE e \in Emails : TRUE, role |-> "USER", via |-> "seed"],
              target |-> 0, role |-> "USER", pending |-> {}, locked |-> {}, counted |-> {}]

AccountsTypeOK ==
    /\ DOMAIN users \subseteq Accounts /\ \A id \in DOMAIN users : users[id] \in UserRow
    /\ nextUser \in 1..(MaxAccounts + 1)
    /\ bootstrapLock \subseteq Requests
    /\ \A r \in Requests :
        /\ apiRequest[r].stage \in {"idle", "checking", "existing", "locking", "inserting", "inserted",
                                 "admins", "waiting", "target", "updating"}
        /\ apiRequest[r].row \in UserRow /\ apiRequest[r].target \in 0..MaxAccounts
        /\ apiRequest[r].pending \subseteq Accounts /\ apiRequest[r].locked \subseteq Accounts
    /\ requests \in 0..MaxRequests

IsAdmin(u) == u.role \in AdminRoles
Administrators == {id \in DOMAIN users : IsAdmin(users[id])}
ExistsByEmail(e) == \E id \in DOMAIN users : users[id].email = e
RowWith(f, id, row) == [i \in DOMAIN f \cup {id} |-> IF i = id THEN row ELSE f[i]]

AccountsInit ==
    /\ users \in {f \in [1..Cardinality(SeededUsers) -> SeededUsers] :
                    \A u \in SeededUsers : \E id \in DOMAIN f : f[id] = u}
    /\ nextUser = Cardinality(SeededUsers) + 1
    /\ bootstrapLock = NoHolder
    /\ apiRequest = [r \in Requests |-> NoRequest]
    /\ requests = 0

-----------------------------------------------------------------------------
InStage(r, stage) == apiRequest[r].stage = stage
Enters(r, stage) == apiRequest' = [apiRequest EXCEPT ![r].stage = stage]
Answers(r) == apiRequest' = [apiRequest EXCEPT ![r] = NoRequest]
Opens(r) == InStage(r, "idle") /\ requests < MaxRequests /\ requests' = requests + 1
LockedBy(id) == {r \in Requests : id \in apiRequest[r].locked}

\* authorizeSignup and decideSignup.  An actor is the row a token's address names.
SignUp(r, email, asked) ==
    /\ Opens(r)
    /\ \E via \in {"admin", "bootstrap", "open-signup"} :
        /\ CASE via = "admin" -> Administrators # {}
             [] via = "bootstrap" -> DOMAIN users = {}
             [] via = "open-signup" -> DOMAIN users # {} /\ AllowOpenSignup
        /\ LET role == CASE via = "admin" -> asked [] via = "bootstrap" -> "ADMIN" [] OTHER -> "USER" IN
           apiRequest' = [apiRequest EXCEPT ![r].stage = "checking",
                                      ![r].row = [email |-> email, role |-> role, via |-> via]]
    /\ UNCHANGED <<users, nextUser, bootstrapLock>>

\* existsByEmail, in the route, and again in saveUser.
CheckEmail(r) ==
    /\ InStage(r, "checking")
    /\ IF ExistsByEmail(apiRequest[r].row.email) THEN Answers(r)
       ELSE Enters(r, IF apiRequest[r].row.via = "bootstrap" THEN "locking" ELSE "existing")
    /\ UNCHANGED <<users, nextUser, bootstrapLock, requests>>
CheckAgain(r) ==
    /\ InStage(r, "existing")
    /\ IF ExistsByEmail(apiRequest[r].row.email) THEN Answers(r) ELSE Enters(r, "inserting")
    /\ UNCHANGED <<users, nextUser, bootstrapLock, requests>>

\* Another transaction has written the address and has not ended: an insert waits.
AddressPending(r) ==
    \E s \in Requests \ {r} : InStage(s, "inserted") /\ apiRequest[s].row.email = apiRequest[r].row.email

Insert(r) == users' = RowWith(users, nextUser, apiRequest[r].row) /\ nextUser' = nextUser + 1

\* saveUser's INSERT, in a transaction of its own; the address is UNIQUE.
SaveUser(r) ==
    /\ InStage(r, "inserting") /\ apiRequest[r].row.via # "bootstrap" /\ ~AddressPending(r)
    /\ IF ExistsByEmail(apiRequest[r].row.email) THEN UNCHANGED <<users, nextUser>>
       ELSE nextUser <= MaxAccounts /\ Insert(r)
    /\ Answers(r) /\ UNCHANGED <<bootstrapLock, requests>>

\* saveFirstUser: pg_advisory_xact_lock, INSERT ... WHERE NOT EXISTS, COMMIT.
TakeBootstrapLock(r) ==
    /\ InStage(r, "locking") /\ bootstrapLock = NoHolder
    /\ bootstrapLock' = {r}
    /\ Enters(r, "inserting") /\ UNCHANGED <<users, nextUser, requests>>

InsertFirst(r) ==
    /\ InStage(r, "inserting") /\ apiRequest[r].row.via = "bootstrap" /\ ~AddressPending(r)
    /\ IF DOMAIN users = {}
       THEN Enters(r, "inserted") /\ UNCHANGED bootstrapLock
       ELSE Answers(r) /\ bootstrapLock' = bootstrapLock \ {r}
    /\ UNCHANGED <<users, nextUser, requests>>

CommitFirst(r) ==
    /\ InStage(r, "inserted") /\ nextUser <= MaxAccounts
    /\ Insert(r)
    /\ bootstrapLock' = bootstrapLock \ {r} /\ Answers(r) /\ UNCHANGED requests

-----------------------------------------------------------------------------
(* PATCH /users/:id/role and setUserRole *)

\* requireRole reads the actor's row; nobody demotes themselves.
ChangeRole(r, actor, id, role) ==
    /\ Opens(r) /\ actor \in Administrators
    /\ actor = id => role = "ADMIN"
    /\ apiRequest' = [apiRequest EXCEPT ![r].stage = "admins", ![r].target = id, ![r].role = role]
    /\ UNCHANGED <<users, nextUser, bootstrapLock>>

\* Without FOR UPDATE the count is of the snapshot.
SelectAdmins(r) ==
    /\ InStage(r, "admins")
    /\ apiRequest' = [apiRequest EXCEPT ![r].stage = "waiting", ![r].pending = Administrators]
    /\ UNCHANGED <<users, nextUser, bootstrapLock, requests>>

\* One row of the snapshot is free: it is locked if it still names an administrator.
LockAdmin(r, id) ==
    /\ InStage(r, "waiting") /\ id \in apiRequest[r].pending /\ LockedBy(id) \subseteq {r}
    /\ LET still == {id} \cap Administrators IN
       apiRequest' = [apiRequest EXCEPT ![r].pending = @ \ {id}, ![r].locked = @ \cup still,
                                  ![r].counted = @ \cup still]
    /\ UNCHANGED <<users, nextUser, bootstrapLock, requests>>

AdminsLocked(r) ==
    /\ InStage(r, "waiting") /\ apiRequest[r].pending = {}
    /\ Enters(r, "target") /\ UNCHANGED <<users, nextUser, bootstrapLock, requests>>

\* The second SELECT FOR UPDATE, and the decision.
DecideRole(r) ==
    LET id == apiRequest[r].target IN
    /\ InStage(r, "target") /\ LockedBy(id) \subseteq {r}
    /\ IF \/ id \notin DOMAIN users
          \/ IsAdmin(users[id]) = (apiRequest[r].role = "ADMIN")
          \/ IsAdmin(users[id]) /\ Cardinality(apiRequest[r].counted) <= 1
       THEN Answers(r)
       ELSE apiRequest' = [apiRequest EXCEPT ![r].stage = "updating", ![r].locked = @ \cup {id}]
    /\ UNCHANGED <<users, nextUser, bootstrapLock, requests>>

\* UPDATE, audit entry, COMMIT: the locks are released.
UpdateRole(r) ==
    /\ InStage(r, "updating")
    /\ users' = [users EXCEPT ![apiRequest[r].target].role = apiRequest[r].role]
    /\ Answers(r) /\ UNCHANGED <<nextUser, bootstrapLock, requests>>

\* A transaction may end before its COMMIT: a lost connection, or a deadlock found.
RollBack(r) ==
    /\ apiRequest[r].stage \in {"inserting", "inserted", "waiting", "target", "updating"}
    /\ bootstrapLock' = bootstrapLock \ {r}
    /\ Answers(r) /\ UNCHANGED <<users, nextUser, requests>>

-----------------------------------------------------------------------------
(* manage-user.ts, a process of its own *)

CliCreate(email, role) ==
    /\ ~ExistsByEmail(email) /\ nextUser <= MaxAccounts
    /\ \A r \in Requests : ~(InStage(r, "inserted") /\ apiRequest[r].row.email = email)
    /\ users' = RowWith(users, nextUser, [email |-> email, role |-> role, via |-> "cli"])
    /\ nextUser' = nextUser + 1
    /\ UNCHANGED <<bootstrapLock, apiRequest, requests>>

CliDelete(id) ==
    /\ id \in DOMAIN users /\ LockedBy(id) = {}
    /\ users' = [i \in DOMAIN users \ {id} |-> users[i]]
    /\ UNCHANGED <<nextUser, bootstrapLock, apiRequest, requests>>

-----------------------------------------------------------------------------
RequestStep(r) ==
    \/ \E email \in Emails, asked \in {"ADMIN", "USER"} : SignUp(r, email, asked)
    \/ CheckEmail(r) \/ CheckAgain(r) \/ SaveUser(r)
    \/ TakeBootstrapLock(r) \/ InsertFirst(r) \/ CommitFirst(r)
    \/ \E actor \in Administrators, id \in Accounts, role \in {"ADMIN", "USER"} : ChangeRole(r, actor, id, role)
    \/ SelectAdmins(r) \/ (\E id \in Accounts : LockAdmin(r, id)) \/ AdminsLocked(r)
    \/ DecideRole(r) \/ UpdateRole(r) \/ RollBack(r)

AccountsNext ==
    \/ \E r \in Requests : RequestStep(r)
    \/ \E email \in Emails, role \in {"ADMIN", "USER"} : CliCreate(email, role)
    \/ \E id \in Accounts : CliDelete(id)

AccountsSpec == AccountsInit /\ [][AccountsNext]_accountVars

-----------------------------------------------------------------------------
(* Properties *)

\* However role changes, sign-ups and the command line interleave, only a
\* deletion at the command line leaves an installation without an administrator.
AdministratorStays == Administrators # {} /\ Administrators' = {} => DOMAIN users' # DOMAIN users
AdministratorRemains == [][AdministratorStays]_accountVars

\* Anonymous requests racing on a new installation create at most one account,
\* also when the first is deleted while the others are still on their way.
OneBootstrapAccount == Cardinality({id \in DOMAIN users : users[id].via = "bootstrap"}) <= 1
-----------------------------------------------------------------------------
(* What the proofs rest on *)

AccountRequest ==
    [stage : {"idle", "checking", "existing", "locking", "inserting", "inserted",
              "admins", "waiting", "target", "updating"},
     row : UserRow, target : Nat, role : Roles,
     pending : SUBSET Nat, locked : SUBSET Nat, counted : SUBSET Nat]

\* Ids are new; only the holder of the lock inserts a first account, and until it has
\* committed there is none.
BootstrapOK ==
    /\ nextUser \in Nat \ {0} /\ DOMAIN users \subseteq 1..(nextUser - 1)
    /\ \A id \in DOMAIN users : users[id] \in UserRow
    /\ apiRequest \in [Requests -> AccountRequest]
    /\ \A r, s \in bootstrapLock : r = s
    /\ \A r \in Requests :
        /\ InStage(r, "existing") => apiRequest[r].row.via # "bootstrap"
        /\ InStage(r, "inserting") /\ apiRequest[r].row.via = "bootstrap" => r \in bootstrapLock
        /\ InStage(r, "inserted") =>
              r \in bootstrapLock /\ \A id \in DOMAIN users : users[id].via # "bootstrap"
    /\ \A i, j \in DOMAIN users : users[i].via = "bootstrap" /\ users[j].via = "bootstrap" => i = j

\* Nobody else touches a row that is locked; who was counted is still an administrator.
LocksOK ==
    /\ \A r, s \in Requests : r # s => apiRequest[r].locked \cap apiRequest[s].locked = {}
    /\ \A r \in Requests :
        /\ apiRequest[r].locked \subseteq DOMAIN users
        /\ apiRequest[r].counted \subseteq apiRequest[r].locked \cap Administrators
        /\ InStage(r, "updating") =>
              /\ apiRequest[r].target \in apiRequest[r].locked
              /\ apiRequest[r].role # "ADMIN" => Cardinality(apiRequest[r].counted) > 1

AccountsInv == BootstrapOK /\ LocksOK
==============================================================================
