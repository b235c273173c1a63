------------------------- MODULE AdministrationProofs -------------------------
(***************************************************************************)
(* Proofs about what administrators and users do and see: accounts and     *)
(* roles, the browser's session, the settings form, the layers and the     *)
(* values of a setting, the ad hoc console's switch and statements, the    *)
(* delivery page's test send, the dashboard's trend, the audit trail, and  *)
(* the migrations of the schema.  Each holds for every number of users,    *)
(* requests, tabs' answers, fields, boots, callers, statements, channels,  *)
(* entries, instants, processes and files, and for every bound.            *)
(***************************************************************************)
EXTENDS Accounts, BrowserSession, SettingsForm, SettingsLayers, SettingValues, AdhocConsole,
        ConsoleQuery, DeliveryPage, AlertTrend, FindingsList, AuditTrail, Migrations, FiniteSums, FiniteSetTheorems,
        FunctionTheorems, TLAPS

-----------------------------------------------------------------------------
(* Accounts and roles *)

LEMMA NoRequestType == NoRequest \in AccountRequest
<1>1. (CHOOSE e \in Emails : TRUE) \in Emails
  BY AccountsAssumption
<1> QED BY <1>1 DEF NoRequest, AccountRequest, UserRow, Roles

LEMMA AccountsInitInv == AccountsInit => AccountsInv
<1> SUFFICES ASSUME AccountsInit PROVE AccountsInv
  OBVIOUS
<1>1. Cardinality(SeededUsers) \in Nat
  BY FS_CardinalityType, AccountsAssumption
<1>2. /\ DOMAIN users = 1..Cardinality(SeededUsers)
      /\ \A id \in DOMAIN users : users[id].via = "seed" /\ users[id] \in UserRow
  BY AccountsAssumption DEF AccountsInit
<1>3. \A r \in Requests : apiRequest[r] = NoRequest
  BY DEF AccountsInit
<1>4. apiRequest \in [Requests -> AccountRequest]
  BY NoRequestType DEF AccountsInit
<1>5. BootstrapOK
  BY <1>1, <1>2, <1>3, <1>4 DEF AccountsInit, BootstrapOK, InStage, NoHolder, NoRequest
<1>6. /\ NoRequest.locked = {} /\ NoRequest.counted = {} /\ NoRequest.stage = "idle"
  BY DEF NoRequest
<1>7. LocksOK
  BY <1>3, <1>6 DEF LocksOK, InStage
<1> QED BY <1>5, <1>7 DEF AccountsInv

\* Only the request r has changed.
Moves(r) ==
    /\ apiRequest' \in [Requests -> AccountRequest]
    /\ \A s \in Requests \ {r} : apiRequest'[s] = apiRequest[s]

\* A step that leaves the accounts alone and keeps what its request has locked.
LEMMA RequestMoves ==
    ASSUME AccountsInv, NEW r \in Requests, Moves(r), UNCHANGED <<users, nextUser>>,
           \/ bootstrapLock' = bootstrapLock
           \/ bootstrapLock' = bootstrapLock \ {r}
           \/ bootstrapLock = {} /\ bootstrapLock' = {r},
           InStage(r, "existing")' => apiRequest'[r].row.via # "bootstrap",
           InStage(r, "inserting")' /\ apiRequest'[r].row.via = "bootstrap" => r \in bootstrapLock',
           InStage(r, "inserted")' => r \in bootstrapLock' /\ \A id \in DOMAIN users : users[id].via # "bootstrap",
           \A s \in Requests \ {r} : apiRequest'[r].locked \cap apiRequest[s].locked = {},
           apiRequest'[r].locked \subseteq DOMAIN users,
           apiRequest'[r].counted \subseteq apiRequest'[r].locked \cap Administrators,
           InStage(r, "updating")' =>
              /\ apiRequest'[r].target \in apiRequest'[r].locked
              /\ apiRequest'[r].role # "ADMIN" => Cardinality(apiRequest'[r].counted) > 1
    PROVE  AccountsInv'
<1>1. apiRequest' \in [Requests -> AccountRequest]
      /\ \A s \in Requests \ {r} : apiRequest'[s] = apiRequest[s]
  BY DEF Moves
<1>2. Administrators' = Administrators
  BY DEF Administrators, IsAdmin
<1>3. BootstrapOK'
  <2>1. \A s, t \in bootstrapLock' : s = t
    BY DEF AccountsInv, BootstrapOK
  <2>2. \A s \in Requests \ {r} : s \in bootstrapLock => s \in bootstrapLock'
    OBVIOUS
  <2>3. ASSUME NEW s \in Requests
        PROVE  /\ InStage(s, "existing")' => apiRequest'[s].row.via # "bootstrap"
               /\ InStage(s, "inserting")' /\ apiRequest'[s].row.via = "bootstrap" => s \in bootstrapLock'
               /\ InStage(s, "inserted")' =>
                     s \in bootstrapLock' /\ \A id \in DOMAIN users' : users'[id].via # "bootstrap"
    <3>1. CASE s = r
      BY <3>1, <1>1 DEF InStage
    <3>2. CASE s # r
      BY <3>2, <1>1, <2>2 DEF InStage, AccountsInv, BootstrapOK
    <3> QED BY <3>1, <3>2
  <2> QED BY <1>1, <2>1, <2>3 DEF AccountsInv, BootstrapOK
<1>4. LocksOK'
  <2>1. ASSUME NEW s \in Requests, NEW t \in Requests, s # t
        PROVE  apiRequest'[s].locked \cap apiRequest'[t].locked = {}
    BY <2>1, <1>1 DEF AccountsInv, LocksOK
  <2>2. ASSUME NEW s \in Requests
        PROVE  /\ apiRequest'[s].locked \subseteq DOMAIN users'
               /\ apiRequest'[s].counted \subseteq apiRequest'[s].locked \cap Administrators'
               /\ InStage(s, "updating")' =>
                     /\ apiRequest'[s].target \in apiRequest'[s].locked
                     /\ apiRequest'[s].role # "ADMIN" => Cardinality(apiRequest'[s].counted) > 1
    <3>1. CASE s = r
      BY <3>1, <1>1, <1>2 DEF InStage
    <3>2. CASE s # r
      BY <3>2, <1>1, <1>2 DEF InStage, AccountsInv, LocksOK
    <3> QED BY <3>1, <3>2
  <2> QED BY <2>1, <2>2 DEF LocksOK
<1> QED BY <1>3, <1>4 DEF AccountsInv

LEMMA RowAdded ==
    ASSUME AccountsInv, NEW newRow \in UserRow,
           users' = RowWith(users, nextUser, newRow), nextUser' = nextUser + 1
    PROVE  /\ nextUser \notin DOMAIN users /\ DOMAIN users' = DOMAIN users \cup {nextUser}
           /\ \A id \in DOMAIN users : users'[id] = users[id]
           /\ users'[nextUser] = newRow
           /\ nextUser' \in Nat \ {0} /\ DOMAIN users' \subseteq 1..(nextUser' - 1)
           /\ \A id \in DOMAIN users' : users'[id] \in UserRow
           /\ Administrators \subseteq Administrators'
<1>1. nextUser \in Nat \ {0} /\ DOMAIN users \subseteq 1..(nextUser - 1)
  BY DEF AccountsInv, BootstrapOK
<1>2. nextUser \notin DOMAIN users
  BY <1>1
<1>3. /\ DOMAIN users' = DOMAIN users \cup {nextUser}
      /\ \A id \in DOMAIN users' : users'[id] = IF id = nextUser THEN newRow ELSE users[id]
  BY DEF RowWith
<1>4. DOMAIN users' \subseteq 1..(nextUser' - 1) /\ nextUser' \in Nat \ {0}
  BY <1>1, <1>3
<1>5. \A id \in DOMAIN users' : users'[id] \in UserRow
  BY <1>3 DEF AccountsInv, BootstrapOK
<1>6. Administrators \subseteq Administrators'
  BY <1>2, <1>3 DEF Administrators
<1> QED BY <1>2, <1>3, <1>4, <1>5, <1>6

\* A newRow is added, and at most one request has been answered by it.
LEMMA RowAddedInv ==
    ASSUME AccountsInv, NEW newRow \in UserRow, NEW R \in SUBSET Requests,
           users' = RowWith(users, nextUser, newRow), nextUser' = nextUser + 1,
           apiRequest' \in [Requests -> AccountRequest],
           \A s \in R : apiRequest'[s] = NoRequest,
           \A s \in Requests \ R : apiRequest'[s] = apiRequest[s],
           bootstrapLock \ R \subseteq bootstrapLock', bootstrapLock' \subseteq bootstrapLock,
           newRow.via = "bootstrap" => \E r \in R : InStage(r, "inserted")
    PROVE  AccountsInv'
<1>1. /\ nextUser \notin DOMAIN users /\ DOMAIN users' = DOMAIN users \cup {nextUser}
      /\ \A id \in DOMAIN users : users'[id] = users[id]
      /\ users'[nextUser] = newRow
      /\ nextUser' \in Nat \ {0} /\ DOMAIN users' \subseteq 1..(nextUser' - 1)
      /\ \A id \in DOMAIN users' : users'[id] \in UserRow
      /\ Administrators \subseteq Administrators'
  BY RowAdded
<1>2. /\ NoRequest.locked = {} /\ NoRequest.counted = {} /\ NoRequest.stage = "idle"
  BY DEF NoRequest
<1>3. BootstrapOK'
  <2>1. \A s, t \in bootstrapLock' : s = t
    BY DEF AccountsInv, BootstrapOK
  <2>2. CASE newRow.via # "bootstrap"
    <3>1. ASSUME NEW s \in Requests
          PROVE  /\ InStage(s, "existing")' => apiRequest'[s].row.via # "bootstrap"
                 /\ InStage(s, "inserting")' /\ apiRequest'[s].row.via = "bootstrap" => s \in bootstrapLock'
                 /\ InStage(s, "inserted")' =>
                       s \in bootstrapLock' /\ \A id \in DOMAIN users' : users'[id].via # "bootstrap"
      <4>1. CASE s \in R
        BY <4>1, <1>2 DEF InStage
      <4>2. CASE s \notin R
        BY <4>2, <1>1, <2>2 DEF InStage, AccountsInv, BootstrapOK
      <4> QED BY <4>1, <4>2
    <3>2. \A i, j \in DOMAIN users' : users'[i].via = "bootstrap" /\ users'[j].via = "bootstrap" => i = j
      BY <1>1, <2>2 DEF AccountsInv, BootstrapOK
    <3> QED BY <1>1, <2>1, <3>1, <3>2 DEF BootstrapOK
  <2>3. CASE newRow.via = "bootstrap"
    <3>0. PICK r \in R : InStage(r, "inserted")
      BY <2>3
    <3>1. r \in bootstrapLock /\ \A id \in DOMAIN users : users[id].via # "bootstrap"
      BY <3>0 DEF AccountsInv, BootstrapOK
    <3>2. ASSUME NEW s \in Requests
          PROVE  /\ InStage(s, "existing")' => apiRequest'[s].row.via # "bootstrap"
                 /\ InStage(s, "inserting")' /\ apiRequest'[s].row.via = "bootstrap" => s \in bootstrapLock'
                 /\ ~InStage(s, "inserted")'
      <4>1. CASE s \in R
        BY <4>1, <1>2 DEF InStage
      <4>2. CASE s \notin R
        BY <4>2, <3>0, <3>1 DEF InStage, AccountsInv, BootstrapOK
      <4> QED BY <4>1, <4>2
    <3>3. \A i, j \in DOMAIN users' : users'[i].via = "bootstrap" /\ users'[j].via = "bootstrap" => i = j
      BY <1>1, <3>1
    <3> QED BY <1>1, <2>1, <3>2, <3>3 DEF BootstrapOK
  <2> QED BY <2>2, <2>3
<1>4. LocksOK'
  <2>1. ASSUME NEW s \in Requests, NEW t \in Requests, s # t
        PROVE  apiRequest'[s].locked \cap apiRequest'[t].locked = {}
    BY <2>1, <1>2 DEF AccountsInv, LocksOK
  <2>2. ASSUME NEW s \in Requests
        PROVE  /\ apiRequest'[s].locked \subseteq DOMAIN users'
               /\ apiRequest'[s].counted \subseteq apiRequest'[s].locked \cap Administrators'
               /\ InStage(s, "updating")' =>
                     /\ apiRequest'[s].target \in apiRequest'[s].locked
                     /\ apiRequest'[s].role # "ADMIN" => Cardinality(apiRequest'[s].counted) > 1
    <3>1. CASE s \in R
      BY <3>1, <1>2 DEF InStage
    <3>2. CASE s \notin R
      BY <3>2, <1>1 DEF InStage, AccountsInv, LocksOK
    <3> QED BY <3>1, <3>2
  <2> QED BY <2>1, <2>2 DEF LocksOK
<1> QED BY <1>3, <1>4 DEF AccountsInv

\* ... by the request that is answered with it.
LEMMA RowSaved ==
    ASSUME AccountsInv, NEW r \in Requests, apiRequest[r].row \in UserRow,
           users' = RowWith(users, nextUser, apiRequest[r].row), nextUser' = nextUser + 1, Answers(r),
           \/ apiRequest[r].row.via # "bootstrap" /\ bootstrapLock' = bootstrapLock
           \/ InStage(r, "inserted") /\ bootstrapLock' = bootstrapLock \ {r}
    PROVE  AccountsInv'
<1> DEFINE newRow == apiRequest[r].row
           R == {r}
<1>1. apiRequest' \in [Requests -> AccountRequest] /\ apiRequest'[r] = NoRequest
      /\ \A s \in Requests \ R : apiRequest'[s] = apiRequest[s]
  BY NoRequestType DEF Answers, AccountsInv, BootstrapOK
<1>2. bootstrapLock \ R \subseteq bootstrapLock' /\ bootstrapLock' \subseteq bootstrapLock
  OBVIOUS
<1>3. newRow.via = "bootstrap" => \E s \in R : InStage(s, "inserted")
  OBVIOUS
<1>4. users' = RowWith(users, nextUser, newRow) /\ newRow \in UserRow /\ R \in SUBSET Requests
      /\ \A s \in R : apiRequest'[s] = NoRequest
  BY <1>1
<1> HIDE DEF newRow, R
<1> QED BY <1>1, <1>2, <1>3, <1>4, RowAddedInv

LEMMA FewAdministrators == AccountsInv => IsFiniteSet(Administrators)
<1> SUFFICES ASSUME AccountsInv PROVE IsFiniteSet(Administrators)
  OBVIOUS
<1>1. nextUser - 1 \in Int /\ Administrators \subseteq 1..(nextUser - 1)
  BY DEF AccountsInv, BootstrapOK, Administrators
<1>2. IsFiniteSet(1..(nextUser - 1))
  BY <1>1, FS_Interval
<1> QED BY <1>1, <1>2, FS_Subset

LEMMA UpdateRoleInv ==
    ASSUME AccountsInv, NEW r \in Requests, UpdateRole(r)
    PROVE  AccountsInv' /\ AdministratorStays
<1> DEFINE t == apiRequest[r].target
<1>1. /\ t \in DOMAIN users /\ t \in apiRequest[r].locked
      /\ apiRequest[r] \in AccountRequest
      /\ apiRequest[r].role # "ADMIN" => Cardinality(apiRequest[r].counted) > 1
      /\ apiRequest[r].counted \subseteq Administrators
  BY DEF UpdateRole, AccountsInv, BootstrapOK, LocksOK
<1>2. /\ DOMAIN users' = DOMAIN users
      /\ \A id \in DOMAIN users : id # t => users'[id] = users[id]
      /\ users'[t] = [users[t] EXCEPT !.role = apiRequest[r].role]
      /\ users[t] \in UserRow
  BY <1>1 DEF UpdateRole, AccountsInv, BootstrapOK
<1>3. /\ users'[t] \in UserRow /\ users'[t].via = users[t].via
      /\ users'[t].role = apiRequest[r].role
  BY <1>1, <1>2 DEF UserRow, AccountRequest
<1>4. \A id \in DOMAIN users : users'[id] \in UserRow /\ users'[id].via = users[id].via
  BY <1>2, <1>3 DEF AccountsInv, BootstrapOK
<1>5. /\ apiRequest' \in [Requests -> AccountRequest] /\ apiRequest'[r] = NoRequest
      /\ \A s \in Requests \ {r} : apiRequest'[s] = apiRequest[s]
      /\ UNCHANGED <<nextUser, bootstrapLock>>
  BY NoRequestType DEF UpdateRole, Answers, AccountsInv, BootstrapOK
<1>6. /\ NoRequest.locked = {} /\ NoRequest.counted = {} /\ NoRequest.stage = "idle"
  BY DEF NoRequest
<1>7. Administrators \ {t} \subseteq Administrators'
  BY <1>2 DEF Administrators
<1>8. BootstrapOK'
  <2>1. ASSUME NEW s \in Requests
        PROVE  /\ InStage(s, "existing")' => apiRequest'[s].row.via # "bootstrap"
               /\ InStage(s, "inserting")' /\ apiRequest'[s].row.via = "bootstrap" => s \in bootstrapLock'
               /\ InStage(s, "inserted")' =>
                     s \in bootstrapLock' /\ \A id \in DOMAIN users' : users'[id].via # "bootstrap"
    <3>1. CASE s = r
      BY <3>1, <1>5, <1>6 DEF InStage
    <3>2. CASE s # r
      BY <3>2, <1>2, <1>4, <1>5 DEF InStage, AccountsInv, BootstrapOK
    <3> QED BY <3>1, <3>2
  <2> QED BY <1>2, <1>4, <1>5, <2>1 DEF AccountsInv, BootstrapOK
<1>9. LocksOK'
  <2>1. ASSUME NEW s \in Requests, NEW u \in Requests, s # u
        PROVE  apiRequest'[s].locked \cap apiRequest'[u].locked = {}
    BY <2>1, <1>5, <1>6 DEF AccountsInv, LocksOK
  <2>2. ASSUME NEW s \in Requests
        PROVE  /\ apiRequest'[s].locked \subseteq DOMAIN users'
               /\ apiRequest'[s].counted \subseteq apiRequest'[s].locked \cap Administrators'
               /\ InStage(s, "updating")' =>
                     /\ apiRequest'[s].target \in apiRequest'[s].locked
                     /\ apiRequest'[s].role # "ADMIN" => Cardinality(apiRequest'[s].counted) > 1
    <3>1. CASE s = r
      BY <3>1, <1>5, <1>6 DEF InStage
    <3>2. CASE s # r
      <4>1. t \notin apiRequest[s].locked
        BY <3>2, <1>1 DEF AccountsInv, LocksOK
      <4> QED BY <3>2, <4>1, <1>2, <1>5, <1>7 DEF InStage, AccountsInv, LocksOK
    <3> QED BY <3>1, <3>2
  <2> QED BY <2>1, <2>2 DEF LocksOK
<1>10. AdministratorStays
  <2>1. CASE apiRequest[r].role = "ADMIN"
    BY <2>1, <1>1, <1>2, <1>3 DEF AdministratorStays, Administrators, IsAdmin, AdminRoles
  <2>2. CASE apiRequest[r].role # "ADMIN"
    <3>1. IsFiniteSet(apiRequest[r].counted)
      BY <1>1, FewAdministrators, FS_Subset
    <3>2. apiRequest[r].counted \ {t} # {}
      <4>1. SUFFICES ASSUME apiRequest[r].counted \subseteq {t} PROVE FALSE
        OBVIOUS
      <4>2. Cardinality({t}) = 1 /\ IsFiniteSet({t})
        BY FS_Singleton
      <4>3. Cardinality(apiRequest[r].counted) <= 1
        BY <4>1, <4>2, FS_Subset
      <4>4. Cardinality(apiRequest[r].counted) \in Nat
        BY <3>1, FS_CardinalityType
      <4> QED BY <4>3, <4>4, <1>1, <2>2
    <3> QED BY <3>2, <1>1, <1>7 DEF AdministratorStays
  <2> QED BY <2>1, <2>2
<1> QED BY <1>8, <1>9, <1>10 DEF AccountsInv

LEMMA CliDeleteInv ==
    ASSUME AccountsInv, NEW id \in Accounts, CliDelete(id)
    PROVE  AccountsInv' /\ AdministratorStays
<1>1. /\ DOMAIN users' = DOMAIN users \ {id} /\ id \in DOMAIN users
      /\ \A i \in DOMAIN users' : users'[i] = users[i]
      /\ UNCHANGED <<nextUser, bootstrapLock, apiRequest>>
      /\ \A s \in Requests : id \notin apiRequest[s].locked
  BY DEF CliDelete, LockedBy
<1>2. Administrators' = Administrators \ {id}
  BY <1>1 DEF Administrators
<1>3. BootstrapOK'
  BY <1>1 DEF AccountsInv, BootstrapOK, InStage
<1>4. LocksOK'
  BY <1>1, <1>2 DEF AccountsInv, LocksOK, InStage
<1> QED BY <1>1, <1>3, <1>4 DEF AccountsInv, AdministratorStays

LEMMA AdministratorsKept == Administrators \subseteq Administrators' => AdministratorStays
BY DEF AdministratorStays

\* What every request's record allows.
LEMMA RequestFacts ==
    ASSUME AccountsInv, NEW r \in Requests
    PROVE  /\ apiRequest[r] \in AccountRequest
           /\ apiRequest[r].locked \subseteq DOMAIN users
           /\ apiRequest[r].counted \subseteq apiRequest[r].locked \cap Administrators
           /\ \A s \in Requests \ {r} : apiRequest[r].locked \cap apiRequest[s].locked = {}
           /\ DOMAIN users \subseteq Nat /\ Administrators \subseteq Nat
           /\ \A s \in bootstrapLock : \A u \in bootstrapLock : s = u
BY DEF AccountsInv, BootstrapOK, LocksOK, Administrators

\* A request that is answered, without a newRow.
LEMMA RequestAnswered ==
    ASSUME AccountsInv, NEW r \in Requests, Answers(r), UNCHANGED <<users, nextUser>>,
           bootstrapLock' = bootstrapLock \ {r} \/ bootstrapLock' = bootstrapLock
    PROVE  AccountsInv'
<1>1. /\ NoRequest.locked = {} /\ NoRequest.counted = {} /\ NoRequest.stage = "idle"
  BY DEF NoRequest
<1>2. Moves(r) /\ apiRequest'[r] = NoRequest
  BY NoRequestType DEF Answers, Moves, AccountsInv, BootstrapOK
<1> QED BY <1>1, <1>2, RequestMoves DEF InStage

\* A request that locks and counts nothing more.
LEMMA RequestGoesOn ==
    ASSUME AccountsInv, NEW r \in Requests, Moves(r), UNCHANGED <<users, nextUser, bootstrapLock>>,
           apiRequest'[r].locked = apiRequest[r].locked, apiRequest'[r].counted = apiRequest[r].counted,
           ~InStage(r, "updating")',
           InStage(r, "existing")' => apiRequest'[r].row.via # "bootstrap",
           InStage(r, "inserting")' /\ apiRequest'[r].row.via = "bootstrap" => r \in bootstrapLock,
           InStage(r, "inserted")' => r \in bootstrapLock /\ DOMAIN users = {}
    PROVE  AccountsInv'
<1>1. \A s \in Requests \ {r} : apiRequest'[r].locked \cap apiRequest[s].locked = {}
  BY RequestFacts
<1>2. /\ apiRequest'[r].locked \subseteq DOMAIN users
      /\ apiRequest'[r].counted \subseteq apiRequest'[r].locked \cap Administrators
  BY RequestFacts
<1> QED BY <1>1, <1>2, RequestMoves

LEMMA MovesTo ==
    ASSUME AccountsInv, NEW r \in Requests, NEW q \in AccountRequest, apiRequest' = [apiRequest EXCEPT ![r] = q]
    PROVE  Moves(r) /\ apiRequest'[r] = q
BY DEF Moves, AccountsInv, BootstrapOK

\* A request that has only come to its next next.
LEMMA RequestEnters ==
    ASSUME AccountsInv, NEW r \in Requests, UNCHANGED <<users, nextUser, bootstrapLock>>,
           NEW next \in {"existing", "locking", "inserting", "target"}, Enters(r, next),
           next \in {"existing", "inserting"} => apiRequest[r].row.via # "bootstrap"
    PROVE  AccountsInv'
<1> DEFINE q == [apiRequest[r] EXCEPT !.stage = next]
<1>1. /\ q \in AccountRequest /\ q.stage = next
      /\ q.row = apiRequest[r].row /\ q.locked = apiRequest[r].locked /\ q.counted = apiRequest[r].counted
  BY RequestFacts DEF AccountRequest
<1>2. apiRequest' = [apiRequest EXCEPT ![r] = q]
  BY DEF Enters
<1> HIDE DEF q
<1>3. Moves(r) /\ apiRequest'[r] = q
  BY <1>1, <1>2, MovesTo
<1> QED BY <1>1, <1>3, RequestGoesOn DEF InStage

LEMMA SignUpInv ==
    ASSUME AccountsInv, NEW r \in Requests, NEW email \in Emails, NEW asked \in {"ADMIN", "USER"},
           SignUp(r, email, asked)
    PROVE  AccountsInv'
<1>1. PICK via \in {"admin", "bootstrap", "open-signup"}, role \in {"ADMIN", "USER"} :
         apiRequest' = [apiRequest EXCEPT ![r].stage = "checking",
                                          ![r].row = [email |-> email, role |-> role, via |-> via]]
  BY DEF SignUp
<1> DEFINE newRow == [email |-> email, role |-> role, via |-> via]
           q == [apiRequest[r] EXCEPT !.stage = "checking", !.row = newRow]
<1>2. newRow \in UserRow
  BY DEF UserRow, Roles
<1>3. apiRequest' = [apiRequest EXCEPT ![r] = q]
  BY <1>1
<1> HIDE DEF newRow
<1>4. /\ q \in AccountRequest /\ q.stage = "checking"
      /\ q.locked = apiRequest[r].locked /\ q.counted = apiRequest[r].counted
  BY <1>2, RequestFacts DEF AccountRequest
<1> HIDE DEF q
<1>5. Moves(r) /\ apiRequest'[r] = q
  BY <1>3, <1>4, MovesTo
<1>6. UNCHANGED <<users, nextUser, bootstrapLock>>
  BY DEF SignUp
<1> QED BY <1>4, <1>5, <1>6, RequestGoesOn DEF InStage

LEMMA TakeBootstrapLockInv ==
    ASSUME AccountsInv, NEW r \in Requests, TakeBootstrapLock(r)
    PROVE  AccountsInv'
<1> DEFINE q == [apiRequest[r] EXCEPT !.stage = "inserting"]
<1>1. /\ q \in AccountRequest /\ q.stage = "inserting"
      /\ q.locked = apiRequest[r].locked /\ q.counted = apiRequest[r].counted
  BY RequestFacts DEF AccountRequest
<1>2. /\ apiRequest' = [apiRequest EXCEPT ![r] = q] /\ UNCHANGED <<users, nextUser>>
      /\ bootstrapLock = {} /\ bootstrapLock' = {r}
  BY DEF TakeBootstrapLock, Enters, NoHolder
<1> HIDE DEF q
<1>3. Moves(r) /\ apiRequest'[r] = q
  BY <1>1, <1>2, MovesTo
<1>4. \A s \in Requests \ {r} : q.locked \cap apiRequest[s].locked = {}
  BY <1>1, RequestFacts
<1>5. q.locked \subseteq DOMAIN users /\ q.counted \subseteq q.locked \cap Administrators
  BY <1>1, RequestFacts
<1> QED BY <1>1, <1>2, <1>3, <1>4, <1>5, RequestMoves DEF InStage

LEMMA InsertFirstInv ==
    ASSUME AccountsInv, NEW r \in Requests, InsertFirst(r)
    PROVE  AccountsInv'
<1>1. CASE DOMAIN users = {}
  <2> DEFINE q == [apiRequest[r] EXCEPT !.stage = "inserted"]
  <2>1. /\ q \in AccountRequest /\ q.stage = "inserted"
        /\ q.locked = apiRequest[r].locked /\ q.counted = apiRequest[r].counted
    BY RequestFacts DEF AccountRequest
  <2>2. /\ apiRequest' = [apiRequest EXCEPT ![r] = q] /\ UNCHANGED <<users, nextUser, bootstrapLock>>
        /\ r \in bootstrapLock
    BY <1>1 DEF InsertFirst, Enters, AccountsInv, BootstrapOK
  <2> HIDE DEF q
  <2>3. Moves(r) /\ apiRequest'[r] = q
    BY <2>1, <2>2, MovesTo
  <2> QED BY <1>1, <2>1, <2>2, <2>3, RequestGoesOn DEF InStage
<1>2. CASE DOMAIN users # {}
  BY <1>2, RequestAnswered DEF InsertFirst
<1> QED BY <1>1, <1>2

LEMMA ChangeRoleInv ==
    ASSUME AccountsInv, NEW r \in Requests, NEW id \in Accounts, NEW role \in {"ADMIN", "USER"},
           NEW actor, ChangeRole(r, actor, id, role)
    PROVE  AccountsInv'
<1> DEFINE q == [apiRequest[r] EXCEPT !.stage = "admins", !.target = id, !.role = role]
<1>1. id \in Nat /\ role \in Roles
  BY AccountsAssumption DEF Accounts, Roles
<1>2. /\ q \in AccountRequest /\ q.stage = "admins"
      /\ q.locked = apiRequest[r].locked /\ q.counted = apiRequest[r].counted
  BY <1>1, RequestFacts DEF AccountRequest
<1>3. apiRequest' = [apiRequest EXCEPT ![r] = q] /\ UNCHANGED <<users, nextUser, bootstrapLock>>
  BY DEF ChangeRole
<1> HIDE DEF q
<1>4. Moves(r) /\ apiRequest'[r] = q
  BY <1>2, <1>3, MovesTo
<1> QED BY <1>2, <1>3, <1>4, RequestGoesOn DEF InStage

LEMMA SelectAdminsInv ==
    ASSUME AccountsInv, NEW r \in Requests, SelectAdmins(r)
    PROVE  AccountsInv'
<1> DEFINE q == [apiRequest[r] EXCEPT !.stage = "waiting", !.pending = Administrators]
<1>1. /\ q \in AccountRequest /\ q.stage = "waiting"
      /\ q.locked = apiRequest[r].locked /\ q.counted = apiRequest[r].counted
  BY RequestFacts DEF AccountRequest
<1>2. apiRequest' = [apiRequest EXCEPT ![r] = q] /\ UNCHANGED <<users, nextUser, bootstrapLock>>
  BY DEF SelectAdmins
<1> HIDE DEF q
<1>3. Moves(r) /\ apiRequest'[r] = q
  BY <1>1, <1>2, MovesTo
<1> QED BY <1>1, <1>2, <1>3, RequestGoesOn DEF InStage

LEMMA LockAdminInv ==
    ASSUME AccountsInv, NEW r \in Requests, NEW id \in Accounts, LockAdmin(r, id)
    PROVE  AccountsInv'
<1> DEFINE still == {id} \cap Administrators
           old == apiRequest[r]
           q == [old EXCEPT !.pending = old.pending \ {id}, !.locked = old.locked \cup still,
                            !.counted = old.counted \cup still]
<1>1. apiRequest' = [apiRequest EXCEPT ![r] = q] /\ UNCHANGED <<users, nextUser, bootstrapLock>>
  BY DEF LockAdmin
<1>2. /\ old.stage = "waiting"
      /\ \A s \in Requests \ {r} : id \notin apiRequest[s].locked
  BY DEF LockAdmin, LockedBy, InStage
<1>3. still \subseteq Administrators /\ still \subseteq {id} /\ still \subseteq DOMAIN users /\ still \subseteq Nat
  BY RequestFacts DEF Administrators
<1>4. old \in AccountRequest
  BY RequestFacts
<1>5. old.pending \ {id} \in SUBSET Nat /\ old.locked \cup still \in SUBSET Nat /\ old.counted \cup still \in SUBSET Nat
  BY <1>3, <1>4 DEF AccountRequest
<1> HIDE DEF still, old
<1>6. /\ q \in AccountRequest /\ q.stage = "waiting"
      /\ q.locked = old.locked \cup still /\ q.counted = old.counted \cup still
  BY <1>2, <1>4, <1>5 DEF AccountRequest
<1> HIDE DEF q
<1>7. Moves(r) /\ apiRequest'[r] = q
  BY <1>1, <1>6, MovesTo
<1>8. \A s \in Requests \ {r} : q.locked \cap apiRequest[s].locked = {}
  BY <1>2, <1>3, <1>6, RequestFacts DEF old
<1>9. q.locked \subseteq DOMAIN users /\ q.counted \subseteq q.locked \cap Administrators
  BY <1>3, <1>6, RequestFacts DEF old
<1> QED BY <1>1, <1>6, <1>7, <1>8, <1>9, RequestMoves DEF InStage

LEMMA DecideRoleInv ==
    ASSUME AccountsInv, NEW r \in Requests, DecideRole(r)
    PROVE  AccountsInv'
<1> DEFINE old == apiRequest[r]
           id == old.target
           q == [old EXCEPT !.stage = "updating", !.locked = old.locked \cup {id}]
<1>1. CASE Answers(r)
  BY <1>1, RequestAnswered DEF DecideRole
<1>2. CASE /\ id \in DOMAIN users
           /\ IsAdmin(users[id]) # (old.role = "ADMIN")
           /\ ~(IsAdmin(users[id]) /\ Cardinality(old.counted) <= 1)
           /\ apiRequest' = [apiRequest EXCEPT ![r].stage = "updating", ![r].locked = @ \cup {id}]
  <2>1. apiRequest' = [apiRequest EXCEPT ![r] = q] /\ UNCHANGED <<users, nextUser, bootstrapLock>>
    BY <1>2 DEF DecideRole
  <2>2. \A s \in Requests \ {r} : id \notin apiRequest[s].locked
    BY DEF DecideRole, LockedBy
  <2>3. old \in AccountRequest /\ old.locked \cup {id} \in SUBSET Nat
    BY <1>2, RequestFacts DEF AccountRequest
  <2>4. IsFiniteSet(old.counted)
    BY RequestFacts, FewAdministrators, FS_Subset
  <2>5. Cardinality(old.counted) \in Nat
    BY <2>4, FS_CardinalityType
  <2>6. old.role # "ADMIN" => Cardinality(old.counted) > 1
    BY <2>5, <1>2 DEF IsAdmin
  <2> HIDE DEF old
  <2>7. /\ q \in AccountRequest /\ q.stage = "updating" /\ q.target = id /\ q.role = old.role
        /\ q.locked = old.locked \cup {id} /\ q.counted = old.counted
    BY <2>3 DEF AccountRequest
  <2> HIDE DEF q, id
  <2>8. Moves(r) /\ apiRequest'[r] = q
    BY <2>1, <2>7, MovesTo
  <2>9. \A s \in Requests \ {r} : q.locked \cap apiRequest[s].locked = {}
    BY <2>2, <2>7, RequestFacts DEF old
  <2>10. q.locked \subseteq DOMAIN users /\ q.counted \subseteq q.locked \cap Administrators
    BY <1>2, <2>7, RequestFacts DEF old
  <2> QED BY <2>1, <2>6, <2>7, <2>8, <2>9, <2>10, RequestMoves DEF InStage
<1> QED BY <1>1, <1>2 DEF DecideRole

LEMMA RequestStepInv ==
    ASSUME AccountsInv, NEW r \in Requests, RequestStep(r)
    PROVE  AccountsInv' /\ AdministratorStays
<1>a. users' = users => AdministratorStays
  BY AdministratorsKept DEF Administrators
<1>b. CheckEmail(r) \/ CheckAgain(r) \/ TakeBootstrapLock(r) \/ InsertFirst(r) \/ SelectAdmins(r)
      \/ AdminsLocked(r) \/ DecideRole(r) \/ RollBack(r) => users' = users /\ nextUser' = nextUser
  BY DEF CheckEmail, CheckAgain, TakeBootstrapLock, InsertFirst, SelectAdmins, AdminsLocked, DecideRole, RollBack
<1>1. ASSUME NEW email \in Emails, NEW asked \in {"ADMIN", "USER"}, SignUp(r, email, asked)
      PROVE  AccountsInv' /\ users' = users
  BY <1>1, SignUpInv DEF SignUp
<1>2. CASE CheckEmail(r)
  <2>1. CASE Answers(r)
    BY <1>a, <1>b, <1>2, <2>1, RequestAnswered DEF CheckEmail
  <2>2. CASE ~Answers(r)
    <3>1. CASE apiRequest[r].row.via = "bootstrap"
      <4>1. Enters(r, "locking")
        BY <1>2, <2>2, <3>1 DEF CheckEmail
      <4> QED BY <1>a, <1>b, <1>2, <4>1, RequestEnters DEF CheckEmail
    <3>2. CASE apiRequest[r].row.via # "bootstrap"
      <4>1. Enters(r, "existing")
        BY <1>2, <2>2, <3>2 DEF CheckEmail
      <4> QED BY <1>a, <1>b, <1>2, <3>2, <4>1, RequestEnters DEF CheckEmail
    <3> QED BY <3>1, <3>2
  <2> QED BY <2>1, <2>2
<1>3. CASE CheckAgain(r)
  <2>1. CASE Answers(r)
    BY <1>a, <1>b, <1>3, <2>1, RequestAnswered DEF CheckAgain
  <2>2. CASE Enters(r, "inserting")
    <3>1. apiRequest[r].row.via # "bootstrap"
      BY <1>3 DEF CheckAgain, AccountsInv, BootstrapOK
    <3> QED BY <1>a, <1>b, <1>3, <2>2, <3>1, RequestEnters DEF CheckAgain
  <2> QED BY <1>3, <2>1, <2>2 DEF CheckAgain
<1>4. CASE SaveUser(r)
  <2>1. CASE UNCHANGED <<users, nextUser>>
    BY <1>4, <2>1, RequestAnswered, AdministratorsKept DEF SaveUser, Administrators
  <2>2. CASE Insert(r)
    <3>1. apiRequest[r].row \in UserRow /\ apiRequest[r].row.via # "bootstrap"
      BY <1>4, RequestFacts DEF SaveUser, AccountRequest
    <3>2. r \notin bootstrapLock \/ r \in bootstrapLock
      OBVIOUS
    <3>3. /\ users' = RowWith(users, nextUser, apiRequest[r].row) /\ nextUser' = nextUser + 1
          /\ Answers(r) /\ bootstrapLock' = bootstrapLock
      BY <1>4, <2>2 DEF SaveUser, Insert
    <3>4. AccountsInv'
      BY <3>1, <3>3, RowSaved
    <3> QED BY <3>1, <3>3, <3>4, RowAdded, AdministratorsKept
  <2> QED BY <1>4, <2>1, <2>2 DEF SaveUser
<1>5. CASE TakeBootstrapLock(r)
  BY <1>a, <1>b, <1>5, TakeBootstrapLockInv
<1>6. CASE InsertFirst(r)
  BY <1>a, <1>b, <1>6, InsertFirstInv
<1>7. CASE CommitFirst(r)
  <2>1. apiRequest[r].row \in UserRow /\ InStage(r, "inserted")
    BY <1>7, RequestFacts DEF CommitFirst, AccountRequest
  <2>2. /\ users' = RowWith(users, nextUser, apiRequest[r].row) /\ nextUser' = nextUser + 1
        /\ Answers(r) /\ bootstrapLock' = bootstrapLock \ {r}
    BY <1>7 DEF CommitFirst, Insert
  <2>3. AccountsInv'
    BY <2>1, <2>2, RowSaved
  <2> QED BY <2>1, <2>2, <2>3, RowAdded, AdministratorsKept
<1>8. ASSUME NEW actor \in Administrators, NEW id \in Accounts, NEW role \in {"ADMIN", "USER"},
             ChangeRole(r, actor, id, role)
      PROVE  AccountsInv' /\ users' = users
  BY <1>8, ChangeRoleInv DEF ChangeRole
<1>9. CASE SelectAdmins(r)
  BY <1>a, <1>b, <1>9, SelectAdminsInv
<1>10. ASSUME NEW id \in Accounts, LockAdmin(r, id)
       PROVE  AccountsInv' /\ users' = users
  BY <1>10, LockAdminInv DEF LockAdmin
<1>11. CASE AdminsLocked(r)
  BY <1>a, <1>b, <1>11, RequestEnters DEF AdminsLocked
<1>12. CASE DecideRole(r)
  BY <1>a, <1>b, <1>12, DecideRoleInv
<1>13. CASE UpdateRole(r)
  BY <1>13, UpdateRoleInv
<1>14. CASE RollBack(r)
  BY <1>a, <1>b, <1>14, RequestAnswered DEF RollBack
<1> QED
  BY <1>1, <1>2, <1>3, <1>4, <1>5, <1>6, <1>7, <1>8, <1>9, <1>10, <1>11, <1>12, <1>13, <1>14, <1>a
  DEF RequestStep

LEMMA AccountsStep == AccountsInv /\ [AccountsNext]_accountVars => AccountsInv' /\ AdministratorStays
<1> SUFFICES ASSUME AccountsInv, [AccountsNext]_accountVars
             PROVE  AccountsInv' /\ AdministratorStays
  OBVIOUS
<1>1. ASSUME NEW r \in Requests, RequestStep(r)
      PROVE  AccountsInv' /\ AdministratorStays
  BY <1>1, RequestStepInv
<1>2. ASSUME NEW email \in Emails, NEW role \in {"ADMIN", "USER"}, CliCreate(email, role)
      PROVE  AccountsInv' /\ AdministratorStays
  <2> DEFINE newRow == [email |-> email, role |-> role, via |-> "cli"]
  <2>1. newRow \in UserRow /\ newRow.via # "bootstrap"
    BY DEF UserRow, Roles
  <2>2. /\ users' = RowWith(users, nextUser, newRow) /\ nextUser' = nextUser + 1
        /\ UNCHANGED <<bootstrapLock, apiRequest>>
    BY <1>2 DEF CliCreate
  <2>3. apiRequest' \in [Requests -> AccountRequest]
    BY <2>2 DEF AccountsInv, BootstrapOK
  <2> HIDE DEF newRow
  <2> DEFINE R == {}
  <2>5. /\ bootstrapLock \ R \subseteq bootstrapLock' /\ bootstrapLock' \subseteq bootstrapLock
        /\ \A s \in R : apiRequest'[s] = NoRequest
        /\ \A s \in Requests \ R : apiRequest'[s] = apiRequest[s]
        /\ R \in SUBSET Requests
    BY <2>2
  <2> HIDE DEF R
  <2>4. AccountsInv'
    BY <2>1, <2>2, <2>3, <2>5, RowAddedInv
  <2> QED BY <2>1, <2>2, <2>4, RowAdded, AdministratorsKept
<1>3. ASSUME NEW id \in Accounts, CliDelete(id)
      PROVE  AccountsInv' /\ AdministratorStays
  BY <1>3, CliDeleteInv
<1>4. CASE UNCHANGED accountVars
  BY <1>4 DEF accountVars, AccountsInv, BootstrapOK, LocksOK, InStage, Administrators, AdministratorStays
<1> QED BY <1>1, <1>2, <1>3, <1>4 DEF AccountsNext

\* One bootstrap account follows from the invariant.
LEMMA OneBootstrap == AccountsInv => OneBootstrapAccount
<1> SUFFICES ASSUME AccountsInv PROVE OneBootstrapAccount
  OBVIOUS
<1> DEFINE B == {id \in DOMAIN users : users[id].via = "bootstrap"}
<1>1. \A i, j \in B : i = j
  BY DEF AccountsInv, BootstrapOK
<1>2. B = {} \/ \E i \in B : B = {i}
  BY <1>1
<1> HIDE DEF B
<1>3. B = {} => Cardinality(B) = 0
  BY FS_EmptySet
<1>4. ASSUME NEW i, B = {i} PROVE Cardinality(B) = 1
  BY <1>4, FS_Singleton
<1>5. Cardinality(B) <= 1
  BY <1>2, <1>3, <1>4
<1> QED BY <1>5 DEF OneBootstrapAccount, B

\* What the accounts rest on holds in every state.
THEOREM AccountsInductive == AccountsSpec => []AccountsInv
<1>1. AccountsInit => AccountsInv
  BY AccountsInitInv
<1>2. AccountsInv /\ [AccountsNext]_accountVars => AccountsInv'
  BY AccountsStep
<1> QED BY <1>1, <1>2, PTL DEF AccountsSpec

\* Anonymous sign-ups that race on a new installation create at most one account.
THEOREM OneBootstrapCorrect == AccountsSpec => []OneBootstrapAccount
<1>1. AccountsInv => OneBootstrapAccount
  BY OneBootstrap
<1> QED BY <1>1, AccountsInductive, PTL

\* Role changes and sign-ups, in any order, leave an administrator if there was one.
THEOREM AdministratorCorrect == AccountsSpec => AdministratorRemains
<1>1. AccountsInv /\ [AccountsNext]_accountVars => [AdministratorStays]_accountVars
  BY AccountsStep
<1> QED BY <1>1, AccountsInductive, PTL DEF AccountsSpec, AdministratorRemains

-----------------------------------------------------------------------------
(* The browser's session *)

LEMMA NoCredentialType == NoCredential \in SomeCredential /\ NoCredential.user = NoUser /\ NoCredential.until = 0
BY DEF NoCredential, SomeCredential

LEMMA LeastIs ==
    ASSUME NEW a \in Int, NEW b \in Int
    PROVE  Least(a, b) \in {a, b} /\ Least(a, b) <= a /\ Least(a, b) <= b
BY DEF Least

LEMMA SessionConstants ==
    /\ TokenLife \in Nat /\ GuideLife \in Nat /\ RenewInterval \in Nat /\ MaxTime \in Nat
    /\ RenewInterval > 0 /\ GuideLife > 2 * RenewInterval /\ NoUser \notin Users
BY SessionAssumption

\* A new request, sent now.
LEMMA RequestSent ==
    ASSUME clock \in Nat, NEW kind \in {"me", "login", "data", "mint", "close"}, NEW with \in SomeCredential
    PROVE  /\ Request(kind, with) \in SessionRequest
           /\ Request(kind, with).kind = kind /\ Request(kind, with).with = with
           /\ Request(kind, with).sent = clock /\ Request(kind, with).status = "out"
BY DEF Request, SessionRequest

LEMMA SessionInitInv == SessionInit => SessionInv
<1> SUFFICES ASSUME SessionInit PROVE SessionInv
  OBVIOUS
<1>1. token \in SomeCredential /\ (token # NoCredential => token.user \in Users)
  BY SessionAssumption, NoCredentialType DEF SessionInit, SomeCredential
<1>2. clock \in Nat /\ clock = 0 /\ RenewInterval \in Nat /\ GuideLife \in Nat
  BY SessionConstants DEF SessionInit
<1> DEFINE q == Request("me", token)
<1>10. /\ q \in SessionRequest /\ q.kind = "me" /\ q.with = token /\ q.sent = clock /\ q.status = "out"
  BY <1>1, <1>2, RequestSent
<1>11. /\ checking = (token # NoCredential)
       /\ out = {} \/ (token # NoCredential /\ out = {q})
       /\ token # NoCredential => out = {q}
  BY DEF SessionInit
<1> HIDE DEF q
<1>3. \A r \in out : /\ r \in SessionRequest /\ r.kind = "me" /\ r.with = token /\ r.sent = clock /\ r.status = "out"
                     /\ token # NoCredential /\ out = {r} /\ checking
  BY <1>10, <1>11
<1>4. checking => \E r \in out : TRUE
  BY <1>11
<1>5. /\ cookie = NoCredential /\ user = NoUser /\ lastMint \in Int /\ nextTick \in Int /\ misses = 0
      /\ checking \in BOOLEAN /\ crossed \in BOOLEAN
  <2>1. /\ cookie = NoCredential /\ user = NoUser /\ misses = 0 /\ nextTick = 0 /\ lastMint = 0 - RenewInterval
        /\ checking \in BOOLEAN /\ crossed \in BOOLEAN
    BY DEF SessionInit
  <2> QED BY <1>2, <2>1
<1>6. RequestsOK
  BY <1>1, <1>2, <1>3, <1>5, NoCredentialType DEF RequestsOK
<1>7. CheckOK
  BY <1>3, <1>4, <1>5 DEF CheckOK
<1>8. SignedInOK
  BY <1>5 DEF SignedInOK
<1>9. SignedOutOK
  BY <1>2, <1>3, <1>5, NoCredentialType DEF SignedOutOK
<1> QED BY <1>6, <1>7, <1>8, <1>9 DEF SessionInv

LEMMA SignInInv ==
    ASSUME CheckedFirst, SessionInv, NEW u \in Users, SignIn(u)
    PROVE  SessionInv'
<1> DEFINE new == [user |-> u, until |-> 0]
           q == Request("login", new)
<1>1. new \in SomeCredential /\ new.user = u
  BY DEF SomeCredential
<1> HIDE DEF new
<1>2. /\ q \in SessionRequest /\ q.kind = "login" /\ q.with = new /\ q.sent = clock /\ q.status = "out"
  BY <1>1, RequestSent DEF SessionInv, RequestsOK
<1>3. /\ user = NoUser /\ ~checking /\ \A r \in out : r.kind # "login"
      /\ out' = out \cup {q}
      /\ UNCHANGED <<clock, token, user, checking, lastMint, nextTick, cookie, misses, crossed>>
  BY DEF SignIn, new
<1> HIDE DEF q
<1>4. RequestsOK'
  BY <1>1, <1>2, <1>3 DEF SessionInv, RequestsOK
<1>5. CheckOK'
  BY <1>2, <1>3 DEF SessionInv, CheckOK
<1>6. SignedInOK'
  BY <1>3 DEF SignedInOK
<1>7. SignedOutOK'
  BY <1>2, <1>3 DEF SessionInv, SignedOutOK
<1> QED BY <1>4, <1>5, <1>6, <1>7 DEF SessionInv

LEMMA SignOutInv ==
    ASSUME SessionInv, SignOut
    PROVE  SessionInv'
<1> DEFINE q == CloseGuide
<1>1. token \in SomeCredential /\ clock \in Nat
  BY DEF SessionInv, RequestsOK
<1>2. q \in SessionRequest /\ q.kind = "close" /\ q.with = token /\ q.sent = clock /\ q.status = "out"
  BY <1>1, RequestSent DEF CloseGuide
<1>3. /\ user # NoUser /\ out' = out \cup {q} /\ token' = NoCredential /\ user' = NoUser
      /\ crossed' = (crossed \/ \E r \in out : r.kind = "mint")
      /\ UNCHANGED <<clock, checking, lastMint, nextTick, cookie, misses>>
  BY DEF SignOut
<1> HIDE DEF q
<1>4. ~checking
  BY <1>3 DEF SessionInv, CheckOK
<1>5. RequestsOK'
  BY <1>2, <1>3, NoCredentialType DEF SessionInv, RequestsOK
<1>6. CheckOK'
  BY <1>2, <1>3, <1>4 DEF SessionInv, CheckOK
<1>7. SignedInOK'
  BY <1>3 DEF SignedInOK
<1>8. SignedOutOK'
  <2>1. ASSUME ~crossed' PROVE cookie.until <= token.until \/ cookie.until <= clock
    BY <2>1, <1>3 DEF SessionInv, SignedInOK, RequestsOK
  <2> QED BY <2>1, <1>2, <1>3 DEF SignedOutOK
<1> QED BY <1>5, <1>6, <1>7, <1>8 DEF SessionInv

LEMMA AskForDataInv ==
    ASSUME SessionInv, AskForData
    PROVE  SessionInv'
<1> DEFINE q == Request("data", token)
<1>1. token \in SomeCredential /\ clock \in Nat
  BY DEF SessionInv, RequestsOK
<1>2. q \in SessionRequest /\ q.kind = "data" /\ q.with = token /\ q.sent = clock /\ q.status = "out"
  BY <1>1, RequestSent
<1>3. /\ user # NoUser /\ out' = out \cup {q}
      /\ UNCHANGED <<clock, token, user, checking, lastMint, nextTick, cookie, misses, crossed>>
  BY DEF AskForData
<1> HIDE DEF q
<1>4. ~checking /\ token.until \in Nat
  BY <1>1, <1>3 DEF SessionInv, CheckOK, SomeCredential
<1>5. RequestsOK'
  BY <1>2, <1>3 DEF SessionInv, RequestsOK
<1>6. CheckOK'
  BY <1>2, <1>3, <1>4 DEF SessionInv, CheckOK
<1>7. SignedInOK'
  BY <1>2, <1>3, <1>4 DEF SessionInv, SignedInOK
<1>8. SignedOutOK'
  BY <1>3 DEF SignedOutOK
<1> QED BY <1>5, <1>6, <1>7, <1>8 DEF SessionInv

\* A renewal, by the timer or because somebody comes back.
LEMMA RenewalInv ==
    ASSUME SessionInv, user # NoUser, out' = out \cup Renewal,
           UNCHANGED <<clock, token, user, checking, lastMint, cookie, misses, crossed>>,
           \/ clock = nextTick /\ nextTick' = clock + RenewInterval
           \/ Renewal # {} /\ nextTick' = nextTick
    PROVE  SessionInv'
<1> DEFINE q == OpenGuide(token)
<1>1. token \in SomeCredential /\ clock \in Nat /\ token.until \in Nat
  BY DEF SessionInv, RequestsOK, SomeCredential
<1>2. q \in SessionRequest /\ q.kind = "mint" /\ q.with = token /\ q.sent = clock /\ q.status = "out"
  BY <1>1, RequestSent DEF OpenGuide
<1>3. Renewal = {q} \/ (Renewal = {} /\ clock - lastMint < RenewInterval)
  BY DEF Renewal
<1> HIDE DEF q
<1>4. ~checking /\ RenewInterval \in Nat /\ lastMint \in Int /\ nextTick \in Int /\ nextTick' \in Int /\ clock <= nextTick'
      /\ nextTick' <= clock + RenewInterval
  <2>1. RenewInterval \in Nat
    BY SessionConstants
  <2>2. lastMint \in Int /\ nextTick \in Int
    BY DEF SessionInv, RequestsOK
  <2>3. clock <= nextTick /\ nextTick <= clock + RenewInterval
    BY DEF SessionInv, SignedInOK
  <2>4. ~checking
    BY DEF SessionInv, CheckOK
  <2> QED BY <1>1, <2>1, <2>2, <2>3, <2>4
<1>5. RequestsOK'
  <2>1. \A r \in out' : r \in out \/ r = q
    BY <1>3
  <2> QED BY <1>2, <1>4, <2>1 DEF SessionInv, RequestsOK
<1>6. CheckOK'
  BY <1>2, <1>3, <1>4 DEF SessionInv, CheckOK
<1>7. SignedInOK'
  <2>1. CASE Renewal = {q}
    BY <1>1, <1>2, <1>4, <2>1 DEF SessionInv, SignedInOK
  <2>2. CASE Renewal = {} /\ clock - lastMint < RenewInterval
    <3>1. out' = out /\ nextTick' = clock + RenewInterval
      BY <2>2
    <3>2. nextTick' < lastMint + 2 * RenewInterval
      BY <3>1, <2>2, <1>1, <1>4
    <3> QED BY <3>1, <3>2, <1>4 DEF SessionInv, SignedInOK
  <2> QED BY <1>3, <2>1, <2>2
<1>8. SignedOutOK'
  BY DEF SignedOutOK
<1> QED BY <1>5, <1>6, <1>7, <1>8 DEF SessionInv

LEMMA SessionTimeInv ==
    ASSUME SessionInv, SessionTime
    PROVE  SessionInv'
<1>1. /\ clock' = clock + 1 /\ clock \in Nat /\ nextTick \in Int
      /\ user # NoUser => nextTick > clock
      /\ \A r \in out : r.sent = clock
      /\ UNCHANGED <<token, user, checking, lastMint, nextTick, cookie, out, misses, crossed>>
  BY DEF SessionTime, SessionInv, RequestsOK
<1>2. /\ \A r \in out : r.with.until \in Nat
      /\ cookie.until \in Nat /\ token.until \in Nat
  BY DEF SessionInv, RequestsOK, SessionRequest, SomeCredential
<1>3. RequestsOK'
  BY <1>1, <1>2 DEF SessionInv, RequestsOK
<1>4. CheckOK'
  BY <1>1 DEF SessionInv, CheckOK
<1>5. SignedInOK'
  BY <1>1, <1>2, SessionConstants DEF SessionInv, SignedInOK
<1>6. SignedOutOK'
  BY <1>1, <1>2 DEF SessionInv, SignedOutOK
<1> QED BY <1>3, <1>4, <1>5, <1>6 DEF SessionInv

LEMMA SameRequest ==
    ASSUME NEW p \in SessionRequest, NEW q \in SessionRequest,
           p.kind = q.kind, p.with = q.with, p.sent = q.sent, p.status = q.status
    PROVE  p = q
BY DEF SessionRequest

\* What the server makes of a request.
LEMMA ServedRequest ==
    ASSUME SessionInv, NEW r \in out, ServeRequest(r)
    PROVE  \E q \in SessionRequest :
        /\ out' = (out \ {r}) \cup {q}
        /\ q.kind = r.kind /\ q.sent = r.sent /\ q.with.user = r.with.user
        /\ q.status \in {"ok", "denied", "lost"} /\ r.status = "out"
        /\ r.kind \notin {"login", "mint"} => q.with = r.with
        /\ r.kind = "mint" => q.with.until <= r.with.until
        /\ r.kind = "mint" /\ q.status = "ok" => q.with.until = Least(clock + GuideLife, r.with.until)
        /\ q.status = "denied" /\ r.kind # "login" => r.with.until <= clock /\ q.with = r.with
        /\ misses' = misses \/ (q.status = "lost" /\ misses' = misses + 1)
        /\ q.status = "lost" => misses' = misses + 1
<1>1. /\ r \in SessionRequest /\ clock \in Nat /\ r.with \in SomeCredential /\ r.with.until \in Nat
      /\ GuideLife \in Nat /\ TokenLife \in Nat /\ r.status = "out"
      /\ r.kind \in {"me", "login", "data", "mint", "close"} /\ r.with.user \in Users \cup {NoUser} /\ r.sent \in Nat
  BY SessionConstants DEF SessionInv, RequestsOK, SessionRequest, SomeCredential, ServeRequest
<1>4. /\ Granted(r) \in SomeCredential /\ Granted(r).user = r.with.user
      /\ r.kind \notin {"login", "mint"} => Granted(r) = r.with
      /\ r.kind = "mint" => /\ Granted(r).until = Least(clock + GuideLife, r.with.until)
                            /\ Granted(r).until <= r.with.until
  BY <1>1 DEF Granted, SomeCredential, Least
<1> DEFINE ServedAs(what, with) == [kind |-> r.kind, with |-> with, sent |-> r.sent, status |-> what]
<1>2. ASSUME NEW what \in {"ok", "denied", "lost"}, NEW with \in SomeCredential
      PROVE  /\ ServedAs(what, with) \in SessionRequest
             /\ ServedAs(what, with).kind = r.kind /\ ServedAs(what, with).with = with
             /\ ServedAs(what, with).sent = r.sent /\ ServedAs(what, with).status = what
  BY <1>1 DEF SessionRequest
<1>3. /\ [r EXCEPT !.status = "ok", !.with = Granted(r)] = ServedAs("ok", Granted(r))
      /\ [r EXCEPT !.status = "denied"] = ServedAs("denied", r.with)
      /\ [r EXCEPT !.status = "lost"] = ServedAs("lost", r.with)
  <2>1. r = [kind |-> r.kind, with |-> r.with, sent |-> r.sent, status |-> r.status]
    BY <1>1 DEF SessionRequest
  <2>2. [r EXCEPT !.status = "ok", !.with = Granted(r)] = ServedAs("ok", Granted(r))
    <3> DEFINE q == [r EXCEPT !.status = "ok", !.with = Granted(r)]
    <3>1. /\ q.kind = r.kind /\ q.with = Granted(r) /\ q.sent = r.sent /\ q.status = "ok"
      BY <2>1
    <3>2. q \in SessionRequest
      BY <1>1, <1>4 DEF SessionRequest
    <3>3. ServedAs("ok", Granted(r)) \in SessionRequest
      BY <1>1, <1>4 DEF SessionRequest
    <3> QED BY <3>1, <3>2, <3>3, SameRequest
  <2>3. [r EXCEPT !.status = "denied"] = ServedAs("denied", r.with)
    BY <2>1
  <2>4. [r EXCEPT !.status = "lost"] = ServedAs("lost", r.with)
    BY <2>1
  <2> QED BY <2>2, <2>3, <2>4
<1> HIDE DEF ServedAs
<1>5. CASE /\ r.kind = "login" \/ Alive(r.with)
           /\ out' = (out \ {r}) \cup {[r EXCEPT !.status = "ok", !.with = Granted(r)]}
           /\ UNCHANGED misses
  <2> DEFINE q == ServedAs("ok", Granted(r))
  <2>1. q \in SessionRequest /\ q.kind = r.kind /\ q.with = Granted(r) /\ q.sent = r.sent /\ q.status = "ok"
    BY <1>2, <1>4
  <2>2. out' = (out \ {r}) \cup {q} /\ misses' = misses
    BY <1>3, <1>5
  <2> HIDE DEF q
  <2> QED BY <1>1, <1>4, <2>1, <2>2
<1>6. CASE /\ r.kind = "login" \/ ~Alive(r.with)
           /\ out' = (out \ {r}) \cup {[r EXCEPT !.status = "denied"]}
           /\ UNCHANGED misses
  <2> DEFINE q == ServedAs("denied", r.with)
  <2>1. q \in SessionRequest /\ q.kind = r.kind /\ q.with = r.with /\ q.sent = r.sent /\ q.status = "denied"
    BY <1>1, <1>2
  <2>2. out' = (out \ {r}) \cup {q} /\ misses' = misses
    BY <1>3, <1>6
  <2>3. r.kind # "login" => r.with.until <= clock
    BY <1>1, <1>6 DEF Alive
  <2> HIDE DEF q
  <2> QED BY <1>1, <2>1, <2>2, <2>3
<1>7. CASE /\ r.kind \in {"me", "mint", "close"} /\ misses < MaxMisses
           /\ out' = (out \ {r}) \cup {[r EXCEPT !.status = "lost"]}
           /\ misses' = misses + 1
  <2> DEFINE q == ServedAs("lost", r.with)
  <2>1. q \in SessionRequest /\ q.kind = r.kind /\ q.with = r.with /\ q.sent = r.sent /\ q.status = "lost"
    BY <1>1, <1>2
  <2>2. out' = (out \ {r}) \cup {q} /\ misses' = misses + 1
    BY <1>3, <1>7
  <2> HIDE DEF q
  <2> QED BY <1>1, <2>1, <2>2
<1> QED BY <1>5, <1>6, <1>7 DEF ServeRequest

LEMMA ServeRequestInv ==
    ASSUME SessionInv, NEW r \in out, ServeRequest(r)
    PROVE  SessionInv'
<1>1. PICK q \in SessionRequest :
        /\ out' = (out \ {r}) \cup {q}
        /\ q.kind = r.kind /\ q.sent = r.sent /\ q.with.user = r.with.user
        /\ q.status \in {"ok", "denied", "lost"} /\ r.status = "out"
        /\ r.kind \notin {"login", "mint"} => q.with = r.with
        /\ r.kind = "mint" => q.with.until <= r.with.until
        /\ r.kind = "mint" /\ q.status = "ok" => q.with.until = Least(clock + GuideLife, r.with.until)
        /\ q.status = "denied" /\ r.kind # "login" => r.with.until <= clock /\ q.with = r.with
        /\ misses' = misses \/ (q.status = "lost" /\ misses' = misses + 1)
        /\ q.status = "lost" => misses' = misses + 1
  BY ServedRequest
<1>2. UNCHANGED <<clock, token, user, checking, lastMint, nextTick, cookie, crossed>>
  BY DEF ServeRequest
<1>3. \A s \in out' : (s \in out /\ s # r) \/ s = q
  BY <1>1
<1>4. /\ clock \in Nat /\ misses \in Nat /\ misses' \in Nat /\ (q.status = "lost" => misses' # 0)
      /\ GuideLife \in Nat /\ token.until \in Nat /\ r.with.until \in Nat /\ q.with.until \in Nat /\ r.sent \in Nat
      /\ r.sent <= clock /\ clock <= r.sent + 1 /\ r.status = "out"
      /\ misses' = 0 => misses = 0
  BY <1>1, SessionConstants DEF SessionInv, RequestsOK, SessionRequest, SomeCredential
<1>5. RequestsOK'
  <2>1. out' \subseteq SessionRequest
    BY <1>1 DEF SessionInv, RequestsOK
  <2>2. \A s \in out' :
          /\ s.sent <= clock /\ clock <= s.sent + 1
          /\ s.status = "denied" /\ s.kind # "login" => s.with.until <= clock
          /\ s.kind \in {"login", "me"} => s.with.user \in Users
          /\ s.kind = "login" => user = NoUser
    BY <1>1, <1>3, <1>4 DEF SessionInv, RequestsOK
  <2>3. \A s, t \in out' : s.kind = "login" /\ t.kind = "login" => s = t
    BY <1>1, <1>3 DEF SessionInv, RequestsOK
  <2> QED BY <1>2, <1>4, <2>1, <2>2, <2>3 DEF SessionInv, RequestsOK
<1>6. CheckOK'
  <2>1. ASSUME checking PROVE out' = {q} /\ q.kind = "me" /\ q.with = token
    BY <2>1, <1>1 DEF SessionInv, CheckOK
  <2> QED BY <1>1, <1>2, <1>3, <2>1 DEF SessionInv, CheckOK
<1>7. SignedInOK'
  <2>1. SUFFICES ASSUME user # NoUser, ~crossed
        PROVE  /\ \A s \in out' :
                    /\ s.kind \in {"mint", "data"} /\ s.with.until <= token.until
                    /\ s.status = "out" => s.with = token
                    /\ s.status = "denied" => token.until <= clock
                    /\ s.kind = "mint" /\ s.status = "ok" => Least(s.sent + GuideLife, token.until) <= s.with.until
               /\ misses' = 0 /\ (\A s \in out' : s.kind = "mint" => s.status = "lost") =>
                    misses = 0 /\ (\A s \in out : s.kind = "mint" => s.status = "lost")
    BY <1>2 DEF SessionInv, SignedInOK
  <2>2. r.kind \in {"mint", "data"} /\ r.with = token
    BY <1>1, <2>1 DEF SessionInv, SignedInOK
  <2>3. q.kind = "mint" /\ q.status = "ok" => Least(q.sent + GuideLife, token.until) <= q.with.until
    BY <1>1, <1>4, <2>2 DEF Least
  <2>4. q.with.until <= token.until /\ (q.status = "denied" => token.until <= clock) /\ q.status # "out"
    BY <1>1, <1>4, <2>2
  <2>5. ASSUME NEW s \in out'
        PROVE  /\ s.kind \in {"mint", "data"} /\ s.with.until <= token.until
               /\ s.status = "out" => s.with = token
               /\ s.status = "denied" => token.until <= clock
               /\ s.kind = "mint" /\ s.status = "ok" => Least(s.sent + GuideLife, token.until) <= s.with.until
    <3>1. CASE s \in out
      BY <2>1, <3>1 DEF SessionInv, SignedInOK
    <3>2. CASE s = q
      BY <1>1, <2>2, <2>3, <2>4, <3>2
    <3> QED BY <1>3, <3>1, <3>2
  <2>6. ASSUME misses' = 0, \A s \in out' : s.kind = "mint" => s.status = "lost"
        PROVE  misses = 0 /\ (\A s \in out : s.kind = "mint" => s.status = "lost")
    <3>1. r.kind # "mint"
      BY <1>1, <1>4, <2>6
    <3> QED BY <1>1, <1>4, <2>6, <3>1
  <2> QED BY <2>5, <2>6
<1>8. SignedOutOK'
  <2>1. SUFFICES ASSUME user = NoUser, ~crossed
        PROVE  /\ \A s \in out' : s.kind = "mint" => s.with.until <= clock
               /\ \/ cookie.until <= clock
                  \/ \E s \in out' : s.kind = "close" /\ cookie.until <= s.with.until
    BY <1>2 DEF SignedOutOK
  <2>2. r.kind = "mint" => r.with.until <= clock
    BY <2>1 DEF SessionInv, SignedOutOK
  <2>3. \A s \in out' : s.kind = "mint" => s.with.until <= clock
    BY <1>1, <1>3, <1>4, <2>1, <2>2 DEF SessionInv, SignedOutOK
  <2>4. \/ cookie.until <= clock
        \/ \E s \in out' : s.kind = "close" /\ cookie.until <= s.with.until
    BY <1>1, <2>1 DEF SessionInv, SignedOutOK
  <2> QED BY <2>3, <2>4
<1> QED BY <1>5, <1>6, <1>7, <1>8 DEF SessionInv

\* A refusal ends the session.
LEMMA DeniedInv ==
    ASSUME SessionInv, NEW r \in out, Denied(r), UNCHANGED clock
    PROVE  SessionInv'
<1>1. /\ r.status = "denied" \/ (r.status = "lost" /\ r.kind = "me")
      /\ token' = NoCredential /\ user' = NoUser /\ checking' = (checking /\ r.kind # "me")
      /\ out' = out \ {r}
      /\ UNCHANGED <<lastMint, nextTick, cookie, misses, crossed, clock>>
  BY DEF Denied
<1>2. /\ clock \in Nat /\ r.with.until \in Nat /\ token.until \in Nat /\ cookie.until \in Nat
      /\ \A s \in out : s.with.until \in Nat
  BY DEF SessionInv, RequestsOK, SessionRequest, SomeCredential
<1>3. RequestsOK'
  BY <1>1, NoCredentialType DEF SessionInv, RequestsOK
<1>4. CheckOK'
  BY <1>1 DEF SessionInv, CheckOK
<1>5. SignedInOK'
  BY <1>1 DEF SignedInOK
<1>6. SignedOutOK'
  <2>1. CASE user # NoUser /\ ~crossed
    <3>1. token.until <= clock
      BY <1>1, <2>1 DEF SessionInv, SignedInOK
    <3> QED BY <1>1, <1>2, <2>1, <3>1 DEF SessionInv, SignedInOK, SignedOutOK
  <2>2. CASE user = NoUser /\ ~crossed
    <3>1. r.kind = "close" => r.with.until <= clock
      BY <1>1 DEF SessionInv, RequestsOK
    <3> QED BY <1>1, <1>2, <2>2, <3>1 DEF SessionInv, SignedOutOK
  <2> QED BY <1>1, <2>1, <2>2 DEF SignedOutOK
<1> QED BY <1>3, <1>4, <1>5, <1>6 DEF SessionInv

LEMMA MeArrivesInv ==
    ASSUME SessionInv, NEW r \in out, MeArrives(r), UNCHANGED clock
    PROVE  SessionInv'
<1> DEFINE q == OpenGuide(token)
<1>1. token \in SomeCredential /\ clock \in Nat /\ token.until \in Nat
  BY DEF SessionInv, RequestsOK, SomeCredential
<1>2. q \in SessionRequest /\ q.kind = "mint" /\ q.with = token /\ q.sent = clock /\ q.status = "out"
  BY <1>1, RequestSent DEF OpenGuide
<1>3. /\ r.kind = "me" /\ user' = r.with.user /\ nextTick' = clock + RenewInterval /\ checking' = FALSE
      /\ out' = (out \ {r}) \cup {q}
      /\ UNCHANGED <<token, lastMint, cookie, misses, crossed, clock>>
  BY DEF MeArrives, SetUser
<1> HIDE DEF q
<1>4. /\ out = {r} /\ r.with = token /\ cookie = NoCredential
  BY <1>3 DEF SessionInv, CheckOK
<1>5. /\ user' \in Users /\ out' = {q} /\ nextTick' \in Int /\ clock <= nextTick' /\ nextTick' <= clock + RenewInterval
      /\ token.user = user' /\ cookie.until = 0
  BY <1>1, <1>3, <1>4, SessionConstants, NoCredentialType DEF SessionInv, RequestsOK
<1>6. RequestsOK'
  <2>1. /\ cookie \in SomeCredential /\ lastMint \in Int /\ misses \in Nat /\ crossed \in BOOLEAN
    BY DEF SessionInv, RequestsOK
  <2>2. \A s \in out' : s = q
    BY <1>5
  <2>3. /\ out' \subseteq SessionRequest
        /\ \A s \in out' : /\ s.sent <= clock /\ clock <= s.sent + 1
                          /\ s.status = "out" /\ s.kind = "mint"
        /\ \A s, t \in out' : s = t
    BY <1>1, <1>2, <2>2
  <2>4. /\ clock' \in Nat /\ token' \in SomeCredential /\ cookie' \in SomeCredential /\ user' \in Users \cup {NoUser}
        /\ lastMint' \in Int /\ nextTick' \in Int /\ misses' \in Nat /\ checking' \in BOOLEAN /\ crossed' \in BOOLEAN
    BY <1>1, <1>3, <1>5, <2>1
  <2> QED BY <1>3, <2>3, <2>4 DEF RequestsOK
<1>7. CheckOK'
  BY <1>2, <1>3, <1>5 DEF CheckOK
<1>8. SignedInOK'
  BY <1>1, <1>2, <1>3, <1>5 DEF SignedInOK
<1>9. SignedOutOK'
  BY <1>5, SessionConstants DEF SignedOutOK
<1> QED BY <1>6, <1>7, <1>8, <1>9 DEF SessionInv

LEMMA LoginArrivesInv ==
    ASSUME SessionInv, NEW r \in out, LoginArrives(r), UNCHANGED clock
    PROVE  SessionInv'
<1> DEFINE q == OpenGuide(r.with)
<1>1. r.with \in SomeCredential /\ clock \in Nat /\ r.with.until \in Nat /\ cookie.until \in Nat
  BY DEF SessionInv, RequestsOK, SomeCredential, SessionRequest
<1>2. q \in SessionRequest /\ q.kind = "mint" /\ q.with = r.with /\ q.sent = clock /\ q.status = "out"
  BY <1>1, RequestSent DEF OpenGuide
<1>3. /\ r.kind = "login" /\ token' = r.with /\ user' = r.with.user /\ nextTick' = clock + RenewInterval
      /\ out' = (out \ {r}) \cup {q}
      /\ crossed' = (crossed \/ out # {r})
      /\ UNCHANGED <<checking, lastMint, cookie, misses, clock>>
  BY DEF LoginArrives, SetUser
<1> HIDE DEF q
<1>4. /\ ~checking /\ user = NoUser /\ r.with.user \in Users
      /\ \A s \in out : s.kind = "login" => s = r
  BY <1>3 DEF SessionInv, CheckOK, RequestsOK
<1>5. nextTick' \in Int /\ clock <= nextTick' /\ nextTick' <= clock + RenewInterval
  BY <1>1, <1>3, SessionConstants
<1>6. \A s \in out' : (s \in out /\ s.kind # "login") \/ s = q
  BY <1>3, <1>4
<1>7. RequestsOK'
  BY <1>1, <1>2, <1>3, <1>4, <1>5, <1>6 DEF SessionInv, RequestsOK
<1>8. CheckOK'
  BY <1>2, <1>3, <1>4, <1>6 DEF SessionInv, CheckOK
<1>9. SignedInOK'
  <2>1. ASSUME ~crossed' PROVE out' = {q} /\ cookie.until <= clock
    BY <2>1, <1>3, <1>4 DEF SessionInv, SignedOutOK
  <2> QED BY <1>1, <1>2, <1>3, <1>5, <2>1 DEF SignedInOK
<1>10. SignedOutOK'
  BY <1>3, <1>4, SessionConstants DEF SignedOutOK
<1> QED BY <1>7, <1>8, <1>9, <1>10 DEF SessionInv

LEMMA MintArrivesInv ==
    ASSUME SessionInv, NEW r \in out, MintArrives(r), UNCHANGED clock
    PROVE  SessionInv'
<1>1. /\ r.kind = "mint" /\ r.status = "ok" /\ cookie' = r.with /\ lastMint' = clock /\ misses' = 0
      /\ out' = out \ {r}
      /\ UNCHANGED <<token, user, checking, nextTick, crossed, clock>>
  BY DEF MintArrives
<1>2. /\ r.with \in SomeCredential /\ clock \in Nat /\ r.with.until \in Nat /\ token.until \in Nat /\ nextTick \in Int
      /\ r.sent \in Nat /\ clock <= r.sent + 1 /\ GuideLife \in Nat /\ RenewInterval \in Nat /\ RenewInterval > 0
  BY SessionConstants DEF SessionInv, RequestsOK, SessionRequest, SomeCredential
<1>3. ~checking
  BY <1>1 DEF SessionInv, CheckOK
<1>4. RequestsOK'
  BY <1>1, <1>2 DEF SessionInv, RequestsOK
<1>5. CheckOK'
  BY <1>1, <1>3 DEF SessionInv, CheckOK
<1>6. SignedInOK'
  <2>1. ASSUME user # NoUser, ~crossed
        PROVE  r.with.until <= token.until /\ Least(clock - 1 + GuideLife, token.until) <= r.with.until
    <3>1. r.with.until <= token.until /\ Least(r.sent + GuideLife, token.until) <= r.with.until
      BY <1>1, <2>1 DEF SessionInv, SignedInOK
    <3> QED BY <1>2, <3>1 DEF Least
  <2>2. user # NoUser => nextTick < clock + 2 * RenewInterval
    BY <1>2 DEF SessionInv, SignedInOK
  <2> QED BY <1>1, <1>2, <2>1, <2>2 DEF SessionInv, SignedInOK
<1>7. SignedOutOK'
  BY <1>1 DEF SessionInv, SignedOutOK
<1> QED BY <1>4, <1>5, <1>6, <1>7 DEF SessionInv

LEMMA CloseArrivesInv ==
    ASSUME SessionInv, NEW r \in out, CloseArrives(r), UNCHANGED clock
    PROVE  SessionInv'
<1>1. /\ r.kind = "close" /\ cookie' = NoCredential /\ out' = out \ {r}
      /\ UNCHANGED <<token, user, checking, lastMint, nextTick, misses, crossed, clock>>
  BY DEF CloseArrives
<1>2. ~checking /\ (user = NoUser \/ crossed) /\ clock \in Nat
  BY <1>1 DEF SessionInv, CheckOK, SignedInOK, RequestsOK
<1>3. RequestsOK'
  BY <1>1, NoCredentialType DEF SessionInv, RequestsOK
<1>4. CheckOK'
  BY <1>1, <1>2 DEF SessionInv, CheckOK
<1>5. SignedInOK'
  BY <1>1, <1>2 DEF SessionInv, SignedInOK
<1>6. SignedOutOK'
  BY <1>1, <1>2, NoCredentialType DEF SessionInv, SignedOutOK
<1> QED BY <1>3, <1>4, <1>5, <1>6 DEF SessionInv

LEMMA OtherArrivesInv ==
    ASSUME SessionInv, NEW r \in out, OtherArrives(r), UNCHANGED clock
    PROVE  SessionInv'
<1>1. /\ (r.status = "lost" /\ r.kind # "me") \/ (r.status = "ok" /\ r.kind = "data")
      /\ crossed' = (crossed \/ (r.status = "lost" /\ r.kind = "close"))
      /\ out' = out \ {r}
      /\ UNCHANGED <<token, user, checking, lastMint, nextTick, cookie, misses, clock>>
  BY DEF OtherArrives
<1>2. ~checking
  BY <1>1 DEF SessionInv, CheckOK
<1>3. RequestsOK'
  BY <1>1 DEF SessionInv, RequestsOK
<1>4. CheckOK'
  BY <1>1, <1>2 DEF SessionInv, CheckOK
<1>5. SignedInOK'
  BY <1>1 DEF SessionInv, SignedInOK
<1>6. SignedOutOK'
  BY <1>1 DEF SessionInv, SignedOutOK
<1> QED BY <1>3, <1>4, <1>5, <1>6 DEF SessionInv

LEMMA SessionStep ==
    ASSUME CheckedFirst, SessionInv, [SessionNext]_sessionVars
    PROVE  SessionInv'
<1>1. ASSUME NEW u \in Users, SignIn(u) PROVE SessionInv'
  BY <1>1, SignInInv
<1>2. CASE SignOut
  BY <1>2, SignOutInv
<1>3. CASE AskForData
  BY <1>3, AskForDataInv
<1>4. CASE RenewalTick
  BY <1>4, RenewalInv DEF RenewalTick
<1>5. CASE BackToTab
  BY <1>5, RenewalInv DEF BackToTab
<1>6. ASSUME NEW r \in out, ServeRequest(r) PROVE SessionInv'
  BY <1>6, ServeRequestInv
<1>7. ASSUME NEW r \in out, AnswerArrives(r) PROVE SessionInv'
  BY <1>7, DeniedInv, MeArrivesInv, LoginArrivesInv, MintArrivesInv, CloseArrivesInv, OtherArrivesInv DEF AnswerArrives
<1>8. CASE SessionTime
  BY <1>8, SessionTimeInv
<1>9. CASE UNCHANGED sessionVars
  BY <1>9 DEF SessionInv, RequestsOK, CheckOK, SignedInOK, SignedOutOK, sessionVars
<1> QED BY <1>1, <1>2, <1>3, <1>4, <1>5, <1>6, <1>7, <1>8, <1>9 DEF SessionNext

LEMMA SessionInvExact == SessionInv => SessionExact
<1> SUFFICES ASSUME SessionInv PROVE SessionExact
  OBVIOUS
<1>1. /\ clock \in Nat /\ token.until \in Nat /\ cookie.until \in Nat /\ lastMint \in Int /\ nextTick \in Int
      /\ GuideLife \in Nat /\ RenewInterval \in Nat /\ GuideLife > 2 * RenewInterval
  BY SessionConstants DEF SessionInv, RequestsOK, SomeCredential
<1>2. ASSUME GuideIsDue, misses = 0, ~crossed PROVE Alive(cookie)
  <2>1. /\ Least(lastMint - 1 + GuideLife, token.until) <= cookie.until
        /\ nextTick < lastMint + 2 * RenewInterval /\ clock <= nextTick /\ clock < token.until
    BY <1>2 DEF SessionInv, SignedInOK, GuideIsDue, Alive
  <2> QED BY <1>1, <2>1 DEF Least, Alive
<1>3. user = NoUser /\ out = {} /\ ~crossed => ~Alive(cookie)
  BY <1>1 DEF SessionInv, SignedOutOK, Alive
<1> QED BY <1>2, <1>3 DEF SessionInv, SignedInOK, SessionExact

\* What the browser's session rests on holds in every state.
THEOREM SessionInductive == ASSUME CheckedFirst PROVE SessionSpec => []SessionInv
<1>1. SessionInit => SessionInv
  BY SessionInitInv
<1>2. SessionInv /\ [SessionNext]_sessionVars => SessionInv'
  BY SessionStep
<1> QED BY <1>1, <1>2, PTL DEF SessionSpec

\* A tab shows the user its token is for, and has a good guide cookie as long as the token
\* is good, or none that works when it is signed out.
THEOREM SessionCorrect == ASSUME CheckedFirst PROVE SessionSpec => []SessionExact
<1>1. SessionInv => SessionExact
  BY SessionInvExact
<1>2. SessionSpec => []SessionInv
  BY SessionInductive
<1> QED BY <1>1, <1>2, PTL

-----------------------------------------------------------------------------
(* The settings form *)

LEMMA NothingDrafted == DOMAIN <<>> = {}
OBVIOUS

LEMMA FormInitInv == FormInit => FormInv
BY NothingDrafted DEF FormInit, FormInv, DraftsOK, SaveOK, PinsOK, NoSave, NoRefetch, AnswerFor

\* A save keeps what the user means.
LEMMA SaveKeeps ==
    ASSUME FormInv
    PROVE  EditsKept
<1>1. ASSUME SaveServed, NEW f \in Fields, row'[f] # row[f]
      PROVE  \/ f \in DOMAIN meant /\ row'[f] = StoredAs(meant[f])
             \/ form # "flow" /\ f \in DOMAIN draft \ DOMAIN meant
             \/ form = "delivery" /\ save.patch = ClearedSecret
  <2>1. save.stage # "idle" /\ f \in DOMAIN save.patch /\ row'[f] = StoredAs(save.patch[f])
    BY <1>1 DEF SaveServed
  <2>2. save.patch # <<>>
    BY <2>1, NothingDrafted
  <2> QED BY <2>1, <2>2 DEF FormInv, SaveOK, DraftsOK, SentFields
<1>2. ASSUME SaveArrives, save.patch # <<>>, NEW f \in DOMAIN meant \ DOMAIN draft'
      PROVE  f \in DOMAIN save.patch \cup save.agreed \cup view.pinned
  <2>1. f \in DOMAIN draft
    BY DEF FormInv, DraftsOK
  <2>2. save.stage # "idle" /\ draft' = AfterSave
    BY <1>2 DEF SaveArrives
  <2>3. CASE form = "delivery"
    BY <2>1, <2>2, <2>3 DEF AfterSave, Restrict
  <2>4. CASE form # "delivery"
    BY <1>2, <2>1, <2>2, <2>4 DEF FormInv, SaveOK, SentFields
  <2> QED BY <2>3, <2>4
<1> QED BY <1>1, <1>2 DEF EditsKept

\* An edit changes the draft and what is meant alike.
LEMMA EditInv ==
    ASSUME FormInv, NEW f \in Fields, NEW value, Edit(f, value)
    PROVE  FormInv'
<1>1. /\ save.stage = "idle" /\ draft' = Drafted(f, value)
      /\ meant' = IF value = SavedValue(f) THEN Restrict(meant, DOMAIN meant \ {f})
                  ELSE TypedInto(meant, f, value)
      /\ UNCHANGED <<form, row, pins, view, refetch, save>>
  BY DEF Edit, CanType
<1>2. DraftsOK'
  <2>1. CASE value = SavedValue(f) /\ form = "flow"
    <3>1. /\ draft' = Restrict(draft, DOMAIN draft \ {f}) /\ meant' = Restrict(meant, DOMAIN meant \ {f})
      BY <1>1, <2>1 DEF Drafted
    <3>2. /\ DOMAIN draft' = DOMAIN draft \ {f} /\ \A x \in DOMAIN draft \ {f} : draft'[x] = draft[x]
          /\ DOMAIN meant' = DOMAIN meant \ {f} /\ \A x \in DOMAIN meant \ {f} : meant'[x] = meant[x]
      BY <3>1 DEF Restrict
    <3> QED BY <1>1, <3>2 DEF FormInv, DraftsOK
  <2>2. CASE value = SavedValue(f) /\ form # "flow"
    <3>1. /\ draft' = TypedInto(draft, f, value) /\ meant' = Restrict(meant, DOMAIN meant \ {f}) /\ form' # "flow"
      BY <1>1, <2>2 DEF Drafted
    <3>2. /\ DOMAIN draft' = {f} \cup DOMAIN draft /\ \A x \in DOMAIN draft : x # f => draft'[x] = draft[x]
      BY <3>1 DEF TypedInto
    <3>3. /\ DOMAIN meant' = DOMAIN meant \ {f} /\ \A x \in DOMAIN meant \ {f} : meant'[x] = meant[x]
      BY <3>1 DEF Restrict
    <3> QED BY <3>1, <3>2, <3>3 DEF FormInv, DraftsOK
  <2>3. CASE value # SavedValue(f)
    <3>1. draft' = TypedInto(draft, f, value) /\ meant' = TypedInto(meant, f, value) /\ form' = form
      BY <1>1, <2>3 DEF Drafted
    <3>2. /\ DOMAIN draft' = {f} \cup DOMAIN draft /\ \A x \in DOMAIN draft : x # f => draft'[x] = draft[x]
          /\ DOMAIN meant' = {f} \cup DOMAIN meant /\ \A x \in DOMAIN meant : x # f => meant'[x] = meant[x]
          /\ draft'[f] = meant'[f]
      BY <3>1 DEF TypedInto
    <3> QED BY <3>1, <3>2 DEF FormInv, DraftsOK
  <2> QED BY <2>1, <2>2, <2>3
<1>3. SaveOK' /\ PinsOK'
  BY <1>1 DEF FormInv, SaveOK, PinsOK, SentFields
<1> QED BY <1>2, <1>3 DEF FormInv

LEMMA ClearSecretInv ==
    ASSUME FormInv, ClearSecret
    PROVE  FormInv'
<1>1. /\ form # "flow" /\ save.stage = "idle" /\ UNCHANGED <<form, row, pins, view, refetch>>
      /\ \/ /\ draft' = TypedInto(draft, "secret", Clear) /\ meant' = TypedInto(meant, "secret", Clear)
            /\ save' = save
         \/ /\ save' = [NoSave EXCEPT !.stage = "asked", !.patch = ClearedSecret] /\ form # "console"
            /\ UNCHANGED <<draft, meant>>
  BY DEF ClearSecret, CanType
<1>2. DraftsOK'
  <2>1. ASSUME draft' = TypedInto(draft, "secret", Clear), meant' = TypedInto(meant, "secret", Clear) PROVE DraftsOK'
    <3>2. /\ DOMAIN draft' = {"secret"} \cup DOMAIN draft
          /\ \A x \in DOMAIN draft : x # "secret" => draft'[x] = draft[x]
          /\ DOMAIN meant' = {"secret"} \cup DOMAIN meant
          /\ \A x \in DOMAIN meant : x # "secret" => meant'[x] = meant[x]
          /\ draft'["secret"] = meant'["secret"]
      BY <2>1 DEF TypedInto
    <3> QED BY <1>1, <3>2 DEF FormInv, DraftsOK
  <2> QED BY <1>1, <2>1 DEF FormInv, DraftsOK
<1>3. SaveOK'
  <2>1. CASE save' = save
    BY <1>1, <2>1 DEF FormInv, SaveOK
  <2>2. CASE save' = [NoSave EXCEPT !.stage = "asked", !.patch = ClearedSecret] /\ form # "console"
    <3>1. /\ save' = [stage |-> save'.stage, patch |-> save'.patch, agreed |-> save'.agreed, answer |-> save'.answer]
          /\ save'.patch = ClearedSecret
      BY <2>2 DEF NoSave
    <3>2. form' = "delivery"
      BY <1>1, <2>2 DEF FormInv, PinsOK
    <3> QED BY <3>1, <3>2 DEF SaveOK
  <2> QED BY <1>1, <2>1, <2>2
<1>4. PinsOK'
  BY <1>1 DEF FormInv, PinsOK
<1> QED BY <1>2, <1>3, <1>4 DEF FormInv

\* A save takes every edit that is shown, differs and may be changed.
LEMMA SubmitInv ==
    ASSUME FormInv, Submit
    PROVE  FormInv'
<1>1. /\ UNCHANGED <<form, row, pins, view, refetch, draft, meant>>
      /\ save' = [NoSave EXCEPT !.stage = "asked", !.patch = Patch,
                           !.agreed = {f \in DOMAIN draft : ~DiffersFromStored(f)}]
  BY DEF Submit
<1>2. /\ save'.stage = "asked" /\ save'.patch = Patch
      /\ save'.agreed = {f \in DOMAIN draft : ~DiffersFromStored(f)}
      /\ save' = [stage |-> save'.stage, patch |-> save'.patch, agreed |-> save'.agreed, answer |-> save'.answer]
  BY <1>1 DEF NoSave
<1>3. /\ DOMAIN Patch = Changed \ view.pinned /\ Changed \subseteq DOMAIN draft
      /\ \A f \in DOMAIN Patch : Patch[f] = draft[f]
      /\ form # "delivery" => \A f \in DOMAIN draft : f \in Changed \/ ~DiffersFromStored(f)
  BY DEF Patch, Restrict, Changed, IsVisible
<1>4. SentFields(save.patch)'
  BY <1>1, <1>2, <1>3 DEF SentFields
<1>5. DraftsOK' /\ PinsOK'
  BY <1>1 DEF FormInv, DraftsOK, PinsOK
<1> QED BY <1>2, <1>4, <1>5 DEF FormInv, SaveOK

LEMMA SaveArrivesInv ==
    ASSUME FormInv, SaveArrives
    PROVE  FormInv'
<1>1. /\ meant' = Restrict(meant, DOMAIN meant \cap DOMAIN draft') /\ draft' = AfterSave
      /\ form # "delivery" => UNCHANGED view /\ refetch' = [NoRefetch EXCEPT !.stage = "asked"]
      /\ form = "delivery" => UNCHANGED refetch
      /\ save' = NoSave
      /\ UNCHANGED <<form, row, pins>>
  BY DEF SaveArrives
<1>2. DraftsOK'
  <2>1. CASE form = "delivery"
    BY <1>1, <2>1 DEF FormInv, DraftsOK, AfterSave, Restrict
  <2>2. CASE form # "delivery"
    BY <1>1, <2>2, NothingDrafted DEF DraftsOK, AfterSave, Restrict
  <2> QED BY <2>1, <2>2
<1>3. SaveOK'
  BY <1>1 DEF SaveOK, NoSave
<1>4. PinsOK'
  BY <1>1 DEF FormInv, PinsOK, NoRefetch
<1> QED BY <1>2, <1>3, <1>4 DEF FormInv

LEMMA FormStep ==
    ASSUME FormInv, [FormNext]_formVars
    PROVE  FormInv'
<1>1. ASSUME NEW f \in Fields, NEW value \in Typed, Edit(f, value) PROVE FormInv'
  BY <1>1, EditInv
<1>2. ASSUME NEW f \in Fields, NEW value \in Typed, OtherSaves(f, value) PROVE FormInv'
  BY <1>2 DEF OtherSaves, FormInv, DraftsOK, SaveOK, SentFields, PinsOK
<1>3. ASSUME NEW f \in Fields, Pin(f) PROVE FormInv'
  BY <1>3 DEF Pin, FormInv, DraftsOK, SaveOK, SentFields, PinsOK
<1>4. CASE ClearSecret
  BY <1>4, ClearSecretInv
<1>5. CASE Discard
  BY <1>5, NothingDrafted DEF Discard, CanType, FormInv, DraftsOK, SaveOK, PinsOK
<1>6. CASE Submit
  BY <1>6, SubmitInv
<1>7. CASE RetryBind
  BY <1>7 DEF RetryBind, FormInv, DraftsOK, SaveOK, PinsOK, NoSave
<1>8. CASE SaveServed
  <2>1. /\ save.stage = "asked" /\ save'.patch = save.patch /\ save'.agreed = save.agreed
        /\ save' = [stage |-> save'.stage, patch |-> save'.patch, agreed |-> save'.agreed, answer |-> save'.answer]
        /\ UNCHANGED <<form, pins, view, refetch, draft, meant>>
    BY <1>8 DEF SaveServed, FormInv, SaveOK
  <2> QED BY <2>1 DEF FormInv, DraftsOK, SaveOK, SentFields, PinsOK
<1>9. CASE SaveIsLost
  <2>1. /\ save.stage # "idle" /\ save'.patch = save.patch /\ save'.agreed = save.agreed
        /\ save' = [stage |-> save'.stage, patch |-> save'.patch, agreed |-> save'.agreed, answer |-> save'.answer]
        /\ UNCHANGED <<form, pins, view, refetch, draft, meant>>
    BY <1>9 DEF SaveIsLost, FormInv, SaveOK
  <2> QED BY <2>1 DEF FormInv, DraftsOK, SaveOK, SentFields, PinsOK
<1>10. CASE RefetchServed
  BY <1>10 DEF RefetchServed, AnswerFor, FormInv, DraftsOK, SaveOK, SentFields, PinsOK
<1>11. CASE WindowFocus
  BY <1>11 DEF WindowFocus, NoRefetch, FormInv, DraftsOK, SaveOK, SentFields, PinsOK
<1>12. CASE RefetchArrives
  <2>1. /\ refetch.stage = "answered" /\ view' = refetch.answer /\ refetch' = NoRefetch
        /\ UNCHANGED <<form, pins, draft, save, meant>>
    BY <1>12 DEF RefetchArrives
  <2>2. DraftsOK' /\ PinsOK'
    BY <2>1 DEF NoRefetch, FormInv, DraftsOK, PinsOK
  <2>3. SentFields(save.patch) => SentFields(save.patch)'
    BY <2>1 DEF FormInv, PinsOK, SentFields
  <2> QED BY <2>1, <2>2, <2>3 DEF FormInv, SaveOK
<1>13. CASE SaveArrives
  BY <1>13, SaveArrivesInv
<1>14. CASE RefusalArrives
  BY <1>14 DEF RefusalArrives, NoSave, FormInv, DraftsOK, SaveOK, PinsOK
<1>15. CASE UNCHANGED formVars
  BY <1>15 DEF formVars, FormInv, DraftsOK, SaveOK, SentFields, PinsOK
<1> QED BY <1>1, <1>2, <1>3, <1>4, <1>5, <1>6, <1>7, <1>8, <1>9, <1>10, <1>11, <1>12, <1>13, <1>14, <1>15
     DEF FormNext

\* What the settings form rests on holds in every state.
THEOREM FormInductive == FormSpec => []FormInv
<1>1. FormInit => FormInv
  BY FormInitInv
<1>2. FormInv /\ [FormNext]_formVars => FormInv'
  BY FormStep
<1> QED BY <1>1, <1>2, PTL DEF FormSpec

\* A save of a settings form changes only the fields that its user has edited: what the user
\* means to change and, in the delivery and console forms, a field that was put back or the
\* secret whose clear button was pressed.  An edit leaves the form on a save only when it was
\* sent, a retry of the bind aside, which sends nothing.
THEOREM EditsCorrect == FormSpec => [][EditsKept]_formVars
<1>1. FormInv => [EditsKept]_formVars
  BY SaveKeeps
<1> QED BY <1>1, FormInductive, PTL

-----------------------------------------------------------------------------
(* The layers of a setting *)

\* The values are told apart.
LEMMA LayerValues ==
    /\ Unset \notin Values /\ Legacy \notin Values /\ Default \notin Values /\ Unset # Default /\ Legacy # Unset
    /\ Unset \in Lines /\ Values \subseteq Lines /\ Lines = Values \cup {Unset, Legacy}
BY SettingsAssumption DEF Lines

LEMMA LayersInitInv == SettingsInit => LayersInv
<1> SUFFICES ASSUME SettingsInit PROVE LayersInv
  OBVIOUS
<1>1. LayersTypeOK
  BY LayerValues DEF SettingsInit, LayersTypeOK, Down, ProcessStage
<1>2. \A p \in Instances : process[p].stage = "down"
  BY DEF SettingsInit, Down
<1>3. ChoiceKept /\ OneBootAtATime
  BY <1>2 DEF SettingsInit, ChoiceKept, SavedSurvives, OneBootAtATime, Booting, AtStage, YetToWrite
<1> QED BY <1>1, <1>3 DEF LayersInv

\* One process goes on to another next, with another value in force.
LEMMA ProcessMoves ==
    ASSUME LayersTypeOK, NEW p \in Instances, NEW next \in ProcessStage,
           \/ GoesTo(p, next)
           \/ \E value \in Lines \cup {Default} : process' = [process EXCEPT ![p].stage = next, ![p].inForce = value]
    PROVE  /\ process' \in [Instances -> [stage : ProcessStage, line : Lines, inForce : Lines \cup {Default}]]
           /\ process'[p].stage = next /\ process'[p].line = process[p].line
           /\ \A q \in Instances : q # p => process'[q] = process[q]
BY DEF LayersTypeOK, GoesTo

\* A process that boots, or ends.
LEMMA ProcessBecomes ==
    ASSUME LayersTypeOK, NEW p \in Instances,
           NEW r \in [stage : ProcessStage, line : Lines, inForce : Lines \cup {Default}],
           process' = [process EXCEPT ![p] = r]
    PROVE  /\ process' \in [Instances -> [stage : ProcessStage, line : Lines, inForce : Lines \cup {Default}]]
           /\ process'[p] = r
           /\ \A q \in Instances : q # p => process'[q] = process[q]
BY DEF LayersTypeOK

LEMMA BootsWithInv ==
    ASSUME LayersInv, NEW p \in Instances, NEW l \in Lines, BootsWith(p, l)
    PROVE  LayersInv'
<1> DEFINE r == [stage |-> "reading", line |-> l, inForce |-> Resolve(l, Unset)]
<1>1. r \in [stage : ProcessStage, line : Lines, inForce : Lines \cup {Default}] /\ r.stage = "reading" /\ r.line = l
  BY LayerValues DEF Resolve, ProcessStage
<1>2. /\ AtStage(p, "down") /\ process' = [process EXCEPT ![p] = r]
      /\ running' = IF column = Unset /\ l \in Values THEN l ELSE running
      /\ raced' = (raced \/ Booting # {})
      /\ UNCHANGED <<settingKind, column, chosen>>
  BY DEF BootsWith
<1> HIDE DEF r
<1>3. /\ process' \in [Instances -> [stage : ProcessStage, line : Lines, inForce : Lines \cup {Default}]]
      /\ process'[p] = r /\ \A q \in Instances : q # p => process'[q] = process[q]
  BY <1>1, <1>2, ProcessBecomes DEF LayersInv
<1>4. LayersTypeOK'
  BY <1>2, <1>3 DEF LayersInv, LayersTypeOK
<1>5. ChoiceKept'
  BY <1>1, <1>2, <1>3 DEF LayersInv, ChoiceKept, SavedSurvives, AtStage
<1>6. ASSUME ~raced' PROVE Booting = {} /\ ~raced /\ \A q \in Instances : q # p => process'[q].stage \notin {"reading", "seeding", "loading"}
  BY <1>2, <1>3, <1>6 DEF Booting
<1>7. OneBootAtATime'
  <2>1. SUFFICES ASSUME ~raced' PROVE OneBootAtATime'
    BY DEF OneBootAtATime
  <2>2. chosen = Unset /\ settingKind # "flow enabled" => column = running
    BY <1>6, <2>1 DEF LayersInv, OneBootAtATime, YetToWrite, Booting
  <2>3. \A q \in Instances : YetToWrite(q)' => q = p
    BY <1>6, <2>1 DEF YetToWrite
  <2>4. YetToWrite(p)' <=> l \in Values /\ column = Unset
    BY <1>1, <1>2, <1>3 DEF YetToWrite
  <2>5. \A q \in Instances : YetToWrite(q)' => running' = process'[q].line
    BY <1>1, <1>2, <1>3, <2>3, <2>4
  <2>6. \A q \in Instances : process'[q].stage # "seeding"
    BY <1>1, <1>3, <1>6, <2>1
  <2>7. \A q, s \in Booting' : q = s
    BY <1>6, <2>1 DEF Booting
  <2>8. (chosen = Unset /\ settingKind # "flow enabled")' => column' = running' \/ \E q \in Instances : YetToWrite(q)'
    BY <1>2, <2>2, <2>4
  <2> QED BY <2>5, <2>6, <2>7, <2>8 DEF OneBootAtATime, AtStage
<1> QED BY <1>4, <1>5, <1>7 DEF LayersInv

LEMMA SeedReadsInv ==
    ASSUME LayersInv, NEW p \in Instances, SeedReadsRow(p)
    PROVE  LayersInv'
<1> DEFINE next == IF Seedable(p) /\ (settingKind = "delivery" => column = Unset) THEN "seeding" ELSE "loading"
<1>1. /\ AtStage(p, "reading") /\ GoesTo(p, next) /\ next \in ProcessStage
      /\ UNCHANGED <<settingKind, column, chosen, running, raced>>
  BY DEF SeedReadsRow, ProcessStage
<1>2. /\ process' \in [Instances -> [stage : ProcessStage, line : Lines, inForce : Lines \cup {Default}]]
      /\ process'[p].stage = next /\ process'[p].line = process[p].line
      /\ \A q \in Instances : q # p => process'[q] = process[q]
  BY <1>1, ProcessMoves DEF LayersInv
<1>3. LayersTypeOK' /\ ChoiceKept'
  BY <1>1, <1>2 DEF LayersInv, LayersTypeOK, ChoiceKept, SavedSurvives, AtStage, Seedable
<1>4. Booting' = Booting
  BY <1>1, <1>2 DEF Booting, AtStage
<1>5. next = "seeding" => settingKind # "flow enabled" /\ (settingKind = "delivery" => column = Unset)
  BY DEF Seedable
<1>6. \A q \in Instances : YetToWrite(q)' => YetToWrite(q) /\ process'[q].line = process[q].line
  BY <1>1, <1>2 DEF YetToWrite, AtStage
<1>7. settingKind # "flow enabled" => \A q \in Instances : YetToWrite(q) => YetToWrite(q)'
  BY <1>1, <1>2, LayerValues DEF YetToWrite, Seedable
<1>8. OneBootAtATime'
  BY <1>1, <1>2, <1>4, <1>5, <1>6, <1>7 DEF LayersInv, OneBootAtATime, AtStage
<1> QED BY <1>3, <1>8 DEF LayersInv

LEMMA SeedWritesInv ==
    ASSUME LayersInv, NEW p \in Instances, SeedWrites(p)
    PROVE  LayersInv'
<1>1. /\ AtStage(p, "seeding") /\ GoesTo(p, "loading")
      /\ column' = IF SeedApplies(p) THEN process[p].line ELSE column
      /\ UNCHANGED <<settingKind, chosen, running, raced>>
  BY DEF SeedWrites
<1>2. /\ process' \in [Instances -> [stage : ProcessStage, line : Lines, inForce : Lines \cup {Default}]]
      /\ process'[p].stage = "loading" /\ process'[p].line = process[p].line
      /\ \A q \in Instances : q # p => process'[q] = process[q]
  BY <1>1, ProcessMoves DEF LayersInv, ProcessStage
<1>3. LayersTypeOK'
  BY <1>1, <1>2 DEF LayersInv, LayersTypeOK, SeedApplies
<1>7. settingKind # "flow enabled" /\ \A q \in Instances : AtStage(q, "seeding")' => AtStage(q, "seeding")
  BY <1>1, <1>2 DEF LayersInv, ChoiceKept, AtStage
<1>4. ~raced => /\ (settingKind = "delivery" => column = Unset)
                /\ \A q \in Instances : q # p => process[q].stage \notin {"reading", "seeding", "loading"}
  BY <1>1 DEF LayersInv, OneBootAtATime, AtStage, Booting
<1>5. ChoiceKept'
  BY <1>1, <1>4, <1>7, LayerValues DEF LayersInv, ChoiceKept, SavedSurvives, SeedApplies
<1>6. OneBootAtATime'
  <2>1. SUFFICES ASSUME ~raced PROVE OneBootAtATime'
    BY <1>1 DEF OneBootAtATime
  <2>2. \A q \in Instances : process'[q].stage \notin {"reading", "seeding"}
    BY <1>2, <1>4, <2>1
  <2>3. \A q, s \in Booting' : q = s
    BY <1>2, <1>4, <2>1 DEF Booting
  <2>4. ASSUME chosen = Unset PROVE column' = running
    <3>1. CASE SeedApplies(p)
      <4>1. process[p].line \in Values /\ column = Unset
        BY <1>4, <2>1, <3>1 DEF SeedApplies
      <4>2. running = process[p].line
        BY <1>1, <2>1, <4>1 DEF LayersInv, OneBootAtATime, YetToWrite, AtStage
      <4> QED BY <1>1, <3>1, <4>2
    <3>2. CASE ~SeedApplies(p)
      <4>1. \A q \in Instances : YetToWrite(q) => q = p
        BY <1>4, <2>1 DEF YetToWrite
      <4>2. ~YetToWrite(p)
        BY <3>2 DEF YetToWrite, SeedApplies
      <4> QED BY <1>1, <1>7, <2>1, <2>4, <3>2, <4>1, <4>2 DEF LayersInv, OneBootAtATime
    <3> QED BY <3>1, <3>2
  <2> QED BY <1>1, <2>2, <2>3, <2>4 DEF OneBootAtATime, AtStage, YetToWrite
<1> QED BY <1>3, <1>5, <1>6 DEF LayersInv

\* A process loads the row or fails to, or ends up where it was before.
LEMMA SettledInv ==
    ASSUME LayersInv, NEW p \in Instances, process[p].stage \in {"loading", "reloading"},
           /\ process' \in [Instances -> [stage : ProcessStage, line : Lines, inForce : Lines \cup {Default}]]
           /\ process'[p].stage = "up" /\ process'[p].line = process[p].line
           /\ \A q \in Instances : q # p => process'[q] = process[q],
           UNCHANGED <<settingKind, column, chosen, running, raced>>
    PROVE  LayersInv'
<1>1. LayersTypeOK' /\ ChoiceKept'
  BY DEF LayersInv, LayersTypeOK, ChoiceKept, SavedSurvives, AtStage
<1>2. Booting' \subseteq Booting
  BY DEF Booting
<1>3. \A q \in Instances : YetToWrite(q)' <=> YetToWrite(q)
  BY DEF YetToWrite
<1>4. \A q \in Instances : YetToWrite(q) => process'[q].line = process[q].line
  BY DEF YetToWrite
<1>5. \A q \in Instances : AtStage(q, "seeding")' => AtStage(q, "seeding")
  BY DEF AtStage
<1>6. OneBootAtATime'
  BY <1>2, <1>3, <1>4, <1>5 DEF LayersInv, OneBootAtATime
<1> QED BY <1>1, <1>6 DEF LayersInv

LEMMA SaveSettingInv ==
    ASSUME LayersInv, NEW p \in Instances, NEW value \in Values \cup {Unset}, SaveSetting(p, value)
    PROVE  LayersInv'
<1>1. /\ AtStage(p, "up") /\ GoesTo(p, "reloading") /\ column' = value /\ chosen' = value /\ running' = Unset
      /\ raced' = (raced \/ Booting # {}) /\ settingKind' = settingKind
  BY DEF SaveSetting
<1>2. /\ process' \in [Instances -> [stage : ProcessStage, line : Lines, inForce : Lines \cup {Default}]]
      /\ process'[p].stage = "reloading" /\ process'[p].line = process[p].line
      /\ \A q \in Instances : q # p => process'[q] = process[q]
  BY <1>1, ProcessMoves DEF LayersInv, ProcessStage
<1>3. LayersTypeOK' /\ ChoiceKept'
  BY <1>1, <1>2 DEF LayersInv, LayersTypeOK, ChoiceKept, SavedSurvives, AtStage
<1>4. ASSUME ~raced' PROVE \A q \in Instances : process'[q].stage \notin {"reading", "seeding", "loading"}
  BY <1>1, <1>2, <1>4 DEF Booting
<1>5. OneBootAtATime'
  BY <1>1, <1>4 DEF OneBootAtATime, Booting, AtStage, YetToWrite
<1> QED BY <1>3, <1>5 DEF LayersInv

LEMMA EndsInv ==
    ASSUME LayersInv, NEW p \in Instances, Ends(p)
    PROVE  LayersInv'
<1>1. Down \in [stage : ProcessStage, line : Lines, inForce : Lines \cup {Default}] /\ Down.stage = "down"
  BY LayerValues DEF Down, ProcessStage
<1>2. /\ process' = [process EXCEPT ![p] = Down] /\ raced' = (raced \/ p \in Booting)
      /\ UNCHANGED <<settingKind, column, chosen, running>>
  BY DEF Ends
<1>3. /\ process' \in [Instances -> [stage : ProcessStage, line : Lines, inForce : Lines \cup {Default}]]
      /\ process'[p] = Down /\ \A q \in Instances : q # p => process'[q] = process[q]
  BY <1>1, <1>2, ProcessBecomes DEF LayersInv
<1>4. LayersTypeOK' /\ ChoiceKept'
  BY <1>1, <1>2, <1>3 DEF LayersInv, LayersTypeOK, ChoiceKept, SavedSurvives, AtStage
<1>5. Booting' \subseteq Booting
  BY <1>1, <1>3 DEF Booting
<1>6. ASSUME ~raced' PROVE \A q \in Instances : YetToWrite(q)' <=> YetToWrite(q)
  BY <1>1, <1>2, <1>3, <1>6 DEF YetToWrite, Booting
<1>7. \A q \in Instances : /\ YetToWrite(q)' => process'[q].line = process[q].line
                           /\ AtStage(q, "seeding")' => AtStage(q, "seeding")
  BY <1>1, <1>3 DEF YetToWrite, AtStage
<1>8. OneBootAtATime'
  BY <1>2, <1>5, <1>6, <1>7 DEF LayersInv, OneBootAtATime
<1> QED BY <1>4, <1>8 DEF LayersInv

LEMMA LayersStep ==
    ASSUME LayersInv, [SettingsNext]_settingVars
    PROVE  LayersInv'
<1>1. ASSUME NEW p \in Instances, NEW l \in Lines, BootsWith(p, l) PROVE LayersInv'
  BY <1>1, BootsWithInv
<1>2. ASSUME NEW p \in Instances, SeedReadsRow(p) PROVE LayersInv'
  BY <1>2, SeedReadsInv
<1>3. ASSUME NEW p \in Instances, SeedWrites(p) PROVE LayersInv'
  BY <1>3, SeedWritesInv
<1>4. ASSUME NEW p \in Instances, SeedFails(p) PROVE LayersInv'
  <2>1. /\ GoesTo(p, "loading") /\ raced' = TRUE /\ UNCHANGED <<settingKind, column, chosen, running>>
    BY <1>4 DEF SeedFails
  <2>2. /\ process' \in [Instances -> [stage : ProcessStage, line : Lines, inForce : Lines \cup {Default}]]
        /\ process'[p].stage = "loading" /\ \A q \in Instances : q # p => process'[q] = process[q]
    BY <2>1, ProcessMoves DEF LayersInv, ProcessStage
  <2> QED BY <2>1, <2>2 DEF LayersInv, LayersTypeOK, ChoiceKept, SavedSurvives, OneBootAtATime, AtStage
<1>5. ASSUME NEW p \in Instances, LoadsRow(p) PROVE LayersInv'
  <2>1. Resolve(process[p].line, column) \in Lines \cup {Default}
    BY LayerValues DEF LayersInv, LayersTypeOK, Resolve
  <2>2. /\ process' \in [Instances -> [stage : ProcessStage, line : Lines, inForce : Lines \cup {Default}]]
        /\ process'[p].stage = "up" /\ process'[p].line = process[p].line
        /\ \A q \in Instances : q # p => process'[q] = process[q]
    BY <1>5, <2>1, ProcessMoves DEF LoadsRow, LayersInv, ProcessStage
  <2> QED BY <1>5, <2>2, SettledInv DEF LoadsRow
<1>6. ASSUME NEW p \in Instances, LoadsNothing(p) PROVE LayersInv'
  <2>2. /\ process' \in [Instances -> [stage : ProcessStage, line : Lines, inForce : Lines \cup {Default}]]
        /\ process'[p].stage = "up" /\ process'[p].line = process[p].line
        /\ \A q \in Instances : q # p => process'[q] = process[q]
    BY <1>6, ProcessMoves DEF LoadsNothing, LayersInv, ProcessStage
  <2> QED BY <1>6, <2>2, SettledInv DEF LoadsNothing
<1>7. ASSUME NEW p \in Instances, NEW value \in Values \cup {Unset}, SaveSetting(p, value) PROVE LayersInv'
  BY <1>7, SaveSettingInv
<1>8. ASSUME NEW p \in Instances, Ends(p) PROVE LayersInv'
  BY <1>8, EndsInv
<1>9. CASE UNCHANGED settingVars
  BY <1>9 DEF settingVars, LayersInv, LayersTypeOK, ChoiceKept, SavedSurvives, OneBootAtATime, Booting, AtStage, YetToWrite
<1> QED BY <1>1, <1>2, <1>3, <1>4, <1>5, <1>6, <1>7, <1>8, <1>9 DEF SettingsNext

LEMMA LayersAreKept ==
    ASSUME LayersInv, LayersInv'
    PROVE  LayersKept
<1>1. SavedSurvives'
  BY DEF LayersInv, ChoiceKept
<1>2. ASSUME NEW p \in Instances, LoadsRow(p), AtStage(p, "loading"), ~raced, process[p].line = Unset, chosen = Unset
      PROVE  process'[p].inForce = IF settingKind = "flow enabled" \/ running = Unset THEN Default ELSE running
  <2>1. process'[p].inForce = Resolve(Unset, column)
    BY <1>2 DEF LoadsRow, LayersInv, LayersTypeOK
  <2>2. \A q \in Instances : q # p => process[q].stage \notin {"reading", "seeding", "loading"}
    BY <1>2 DEF LayersInv, OneBootAtATime, Booting, AtStage
  <2>3. \A q \in Instances : ~YetToWrite(q)
    BY <1>2, <2>2 DEF YetToWrite, AtStage
  <2>4. settingKind # "flow enabled" => column = running
    BY <1>2, <2>3 DEF LayersInv, OneBootAtATime
  <2>5. settingKind = "flow enabled" => column = Unset
    BY <1>2 DEF LayersInv, ChoiceKept
  <2> QED BY <2>1, <2>4, <2>5 DEF Resolve
<1> QED BY <1>1, <1>2 DEF LayersKept, RemovedLineIsRemembered

\* What the layers of a setting rest on holds in every state.
THEOREM LayersInductive == SettingsSpec => []LayersInv
<1>1. SettingsInit => LayersInv
  BY LayersInitInv
<1>2. LayersInv /\ [SettingsNext]_settingVars => LayersInv'
  BY LayersStep
<1> QED BY <1>1, <1>2, PTL DEF SettingsSpec

\* A value saved through the interface survives every later boot, and a line that is removed
\* is remembered.
THEOREM LayersCorrect == SettingsSpec => LayersHold
<1>1. LayersInv /\ LayersInv' => [LayersKept]_settingVars
  BY LayersAreKept
<1> QED BY <1>1, LayersInductive, PTL DEF LayersHold

-----------------------------------------------------------------------------
(* The line of a setting *)

\* A field's class decides how it is parsed.
LEMMA FieldClasses ==
    /\ DOMAIN IntegerFields = {"digestSeconds", "maxPerHour", "syslogPort", "syslogFacility", "port", "timeoutMs", "maxRows"}
    /\ Flags \cap DOMAIN IntegerFields = {} /\ Flags \cap ChoiceFields = {}
    /\ DOMAIN IntegerFields \cap ChoiceFields = {}
    /\ {"emailTo", "emailOauthTokenUrl", "dbPassword", "exporters"} \cap (Flags \cup DOMAIN IntegerFields \cup ChoiceFields) = {}
    /\ IsDelivery("emailTo") /\ ~IsDelivery("exporters") /\ ~IsDelivery("dbPassword")
BY DEF IntegerFields, Flags, ChoiceFields, IsDelivery, FlowFields, ConsoleFields

Read(f, text) == text = NoValue \/ (text = BlankText /\ ~IsDelivery(f))

LEMMA ParseOfEach ==
    ASSUME NEW f, NEW text
    PROVE  /\ Read(f, text) => Parse(f, text) = NoValue
           /\ ~Read(f, text) =>
                /\ f \in Flags => Parse(f, text) =
                      IF IsDelivery(f) \/ SaysOn(text) \/ SaysOff(text) THEN Flag(SaysOn(text)) ELSE NoValue
                /\ f \in DOMAIN IntegerFields => Parse(f, text) \in {text, NoValue}
                /\ f \in ChoiceFields => Parse(f, text) \in {Raw("option"), NoValue}
                /\ f \in ChoiceFields /\ text = Raw("option") => Parse(f, text) = text
                /\ f = "emailTo" => Parse(f, text) = ListOf(text)
                /\ f = "emailOauthTokenUrl" => Parse(f, text) \in {text, NoValue}
                /\ f = "dbPassword" => Parse(f, text) = text
                /\ f \notin Flags \cup DOMAIN IntegerFields \cup ChoiceFields
                       \cup {"emailTo", "emailOauthTokenUrl", "dbPassword"} => Parse(f, text) = Trimmed(text)
<1>1. Read(f, text) => Parse(f, text) = NoValue
  BY DEF Parse, Read
<1> SUFFICES ASSUME ~Read(f, text)
             PROVE  /\ f \in Flags => Parse(f, text) =
                          IF IsDelivery(f) \/ SaysOn(text) \/ SaysOff(text) THEN Flag(SaysOn(text)) ELSE NoValue
                    /\ f \in DOMAIN IntegerFields => Parse(f, text) \in {text, NoValue}
                    /\ f \in ChoiceFields => Parse(f, text) \in {Raw("option"), NoValue}
                    /\ f \in ChoiceFields /\ text = Raw("option") => Parse(f, text) = text
                    /\ f = "emailTo" => Parse(f, text) = ListOf(text)
                    /\ f = "emailOauthTokenUrl" => Parse(f, text) \in {text, NoValue}
                    /\ f = "dbPassword" => Parse(f, text) = text
                    /\ f \notin Flags \cup DOMAIN IntegerFields \cup ChoiceFields
                           \cup {"emailTo", "emailOauthTokenUrl", "dbPassword"} => Parse(f, text) = Trimmed(text)
  BY <1>1
<1>2. f \in Flags => Parse(f, text) =
          IF IsDelivery(f) \/ SaysOn(text) \/ SaysOff(text) THEN Flag(SaysOn(text)) ELSE NoValue
  BY FieldClasses DEF Parse, Read
<1>3. f \in DOMAIN IntegerFields => Parse(f, text) \in {text, NoValue}
  BY FieldClasses DEF Parse, Read
<1>4. /\ f \in ChoiceFields => Parse(f, text) \in {Raw("option"), NoValue}
      /\ f \in ChoiceFields /\ text = Raw("option") => Parse(f, text) = text
  BY FieldClasses DEF Parse, Read, Raw
<1>5. /\ f = "emailTo" => Parse(f, text) = ListOf(text)
      /\ f = "emailOauthTokenUrl" => Parse(f, text) \in {text, NoValue}
      /\ f = "dbPassword" => Parse(f, text) = text
  BY FieldClasses DEF Parse, Read
<1>6. f \notin Flags \cup DOMAIN IntegerFields \cup ChoiceFields
          \cup {"emailTo", "emailOauthTokenUrl", "dbPassword"} => Parse(f, text) = Trimmed(text)
  BY FieldClasses DEF Parse, Read
<1> QED BY <1>2, <1>3, <1>4, <1>5, <1>6

\* What was parsed reads back as it is.
LEMMA ParsedReadsBack ==
    ASSUME NEW f, NEW text, text = [form |-> text.form, number |-> text.number], Parse(f, text) # NoValue
    PROVE  FromRow(f, Parse(f, text)) = Parse(f, text)
<1> DEFINE v == Parse(f, text)
<1>1. ~Read(f, text)
  BY ParseOfEach
<1>2. Trimmed(Trimmed(text)) = Trimmed(text) /\ (Trimmed(text) = BlankText => text = BlankText)
  BY DEF Trimmed, Raw, BlankText
<1>3. CASE f = "exporters"
  BY <1>1, <1>2, <1>3, ParseOfEach, FieldClasses DEF FromRow
<1>4. CASE f \in Flags
  <2>1. v \in {Flag(TRUE), Flag(FALSE)}
    BY <1>1, <1>4, ParseOfEach DEF Flag
  <2>2. /\ ~Read(f, v)
        /\ v = Flag(TRUE) => SaysOn(v)
        /\ v = Flag(FALSE) => ~SaysOn(v) /\ SaysOff(v)
    BY <2>1 DEF Read, Flag, Raw, NoValue, BlankText, SaysOn, SaysOff, Numeral
  <2>3. Parse(f, v) = v
    BY <1>4, <2>1, <2>2, ParseOfEach DEF Flag
  <2> QED BY <1>4, <2>3, FieldClasses DEF FromRow
<1>5. CASE f \in DOMAIN IntegerFields \cup {"emailOauthTokenUrl", "dbPassword"}
  BY <1>1, <1>5, ParseOfEach, FieldClasses DEF FromRow
<1>6. CASE f \in ChoiceFields
  <2>1. v = Raw("option") /\ ~Read(f, v)
    BY <1>1, <1>6, ParseOfEach DEF Read, Raw, NoValue, BlankText
  <2> QED BY <1>6, <2>1, ParseOfEach, FieldClasses DEF FromRow
<1>7. CASE f = "emailTo"
  <2>1. v = ListOf(text)
    BY <1>1, <1>7, ParseOfEach
  <2>3. ListOf(NoOne) = NoOne /\ ListOf(Raw("listed")) = Raw("listed") /\ ListOf(Raw("word")) = Raw("word")
    BY DEF ListOf, Trimmed, Raw, BlankText, NoOne
  <2>4. v \in {NoOne, Raw("listed"), Raw("word")} \/ (v = text /\ ListOf(text) = text)
    BY <2>1 DEF ListOf, Trimmed
  <2>2. ListOf(v) = v /\ ~Read(f, v)
    BY <1>7, <2>3, <2>4, FieldClasses DEF Read
  <2> QED BY <1>7, <2>2, ParseOfEach DEF FromRow
<1>8. CASE f \notin Flags \cup DOMAIN IntegerFields \cup ChoiceFields
               \cup {"emailTo", "emailOauthTokenUrl", "dbPassword", "exporters"}
  <2>1. v = Trimmed(text) /\ ~Read(f, v)
    BY <1>1, <1>2, <1>8, ParseOfEach DEF Read
  <2> QED BY <1>2, <1>8, <2>1, ParseOfEach DEF FromRow
<1> QED BY <1>3, <1>4, <1>5, <1>6, <1>7, <1>8

LEMMA RawLines ==
    ASSUME NEW f, NEW l \in LinesFor(f)
    PROVE  l = [form |-> l.form, number |-> l.number]
BY DEF LinesFor, NoValue, Raw, NumeralsOf, Numeral

LEMMA LinesAreKept == LineKept
<1> SUFFICES ASSUME NEW l \in LinesFor(field), BootsReading(l), up', cell = NoValue, IsPinned(field, l),
                    field # "flowEnabled", Holds(field, Parse(field, l))
             PROVE  Decided(field, NoValue, cell').value = Decided(field, l, cell').value
  BY DEF LineKept
<1> DEFINE v == Parse(field, l)
<1>1. FromLine(field, l) = v /\ v # NoValue
  BY DEF IsPinned, Decided, FromLine
<1>2. cell' = v
  BY <1>1 DEF BootsReading, SeededFrom
<1>3. FromRow(field, v) = v
  BY <1>1, ParsedReadsBack, RawLines
<1>4. FromLine(field, NoValue) = NoValue
  BY DEF FromLine, IsSetLine
<1>5. Decided(field, NoValue, v).value = v
  BY <1>1, <1>3, <1>4 DEF Decided
<1>6. Decided(field, l, v).value = v
  BY <1>1 DEF Decided
<1> QED BY <1>2, <1>5, <1>6

-----------------------------------------------------------------------------
(* The value of a setting *)

\* A numeral is its number, and no other raw value has a number.
LEMMA Numerals ==
    ASSUME NEW f \in SettingFields, NEW raw \in BodiesFor(f)
    PROVE  /\ raw = [form |-> raw.form, number |-> raw.number] /\ raw.number \in Int
           /\ raw.form \in {"number"} \cup TextForms \cup JsonForms
           /\ raw.form # "number" => raw.number = 0
<1>1. raw \in {NoValue} \cup {Raw(t) : t \in TextForms \cup JsonForms} \cup NumeralsOf(f)
  BY DEF BodiesFor, LinesFor
<1>2. CASE raw \in {NoValue} \cup {Raw(t) : t \in TextForms \cup JsonForms}
  BY <1>2 DEF Raw, NoValue, TextForms, JsonForms
<1>3. CASE raw \in NumeralsOf(f)
  <2>1. CASE f \notin DOMAIN IntegerFields
    BY <1>3, <2>1 DEF NumeralsOf, Numeral
  <2>2. CASE f \in DOMAIN IntegerFields
    <3>1. IntegerFields[f].accepts[1] \in Int /\ IntegerFields[f].accepts[2] \in Int
      BY <2>2 DEF IntegerFields
    <3> QED BY <1>3, <2>2, <3>1 DEF NumeralsOf, Numeral
  <2> QED BY <2>1, <2>2
<1> QED BY <1>1, <1>2, <1>3

OtherFields == {"minSeverity", "audit", "enabled", "flowEnabled", "writeEnabled", "bindAddress", "exporters", "dbPassword",
                "dashboardUrl", "webhookUrl", "emailFrom", "emailTo", "emailPassword", "emailOauthTokenUrl"}
IntegerNames == {"digestSeconds", "maxPerHour", "syslogPort", "syslogFacility", "port", "timeoutMs", "maxRows"}

\* The fields are those with a number and the others.
LEMMA FieldsAre ==
    /\ SettingFields = IntegerNames \cup OtherFields /\ DOMAIN IntegerFields = IntegerNames
    /\ Flags \subseteq OtherFields /\ ChoiceFields \subseteq OtherFields /\ IntegerNames \cap OtherFields = {}
<1>1. DOMAIN IntegerFields = IntegerNames
  BY DEF IntegerFields, IntegerNames
<1>2. SettingFields = IntegerNames \cup OtherFields
  BY <1>1 DEF SettingFields, FlowFields, ConsoleFields, IntegerNames, OtherFields
<1> QED BY <1>1, <1>2 DEF Flags, ChoiceFields, IntegerNames, OtherFields

\* Of an integer, what the schema accepts the column holds and the parser reads.
LEMMA IntegerBounds ==
    ASSUME NEW f \in IntegerNames, NEW k \in Int, WithinBounds(k, IntegerFields[f].accepts)
    PROVE  WithinBounds(k, IntegerFields[f].holds) /\ WithinBounds(k, IntegerFields[f].says)
BY DEF IntegerFields, IntegerNames, WithinBounds, AnyValue

\* What each schema accepts, and what it makes of it.
OrRefused(holds, value) == IF holds THEN value ELSE Refused
TextFields == {"exporters", "dashboardUrl", "emailPassword"}

\* No field has two of these kinds.
LEMMA FieldsApart ==
    /\ \A f \in Flags : f \notin IntegerNames \cup ChoiceFields \cup TextFields
    /\ \A f \in ChoiceFields : f \notin IntegerNames \cup Flags \cup TextFields
    /\ \A f \in IntegerNames : f \notin Flags \cup ChoiceFields \cup TextFields
BY DEF Flags, ChoiceFields, IntegerNames, TextFields

\* What the schema makes of a body, field by field.
LEMMA CleanedIs ==
    ASSUME NEW f \in SettingFields, NEW body, body # NoValue
    PROVE  /\ f \in Flags => Cleaned(f, body) = OrRefused(body.form \in {"true", "false"}, body)
           /\ f \in IntegerNames =>
                Cleaned(f, body) = OrRefused(/\ Coerced(body).form = "number"
                                        /\ WithinBounds(Coerced(body).number, IntegerFields[f].accepts), Coerced(body))
           /\ f \in ChoiceFields => Cleaned(f, body) = OrRefused(body.form = "option", body)
           /\ f = "webhookUrl" => Cleaned(f, body) = OrRefused(body.form \in {"http", "https"}, body)
           /\ f = "emailOauthTokenUrl" => Cleaned(f, body) = OrRefused(body.form = "https", body)
           /\ f = "emailFrom" => Cleaned(f, body) = OrRefused(body.form = "address", body)
           /\ f = "emailTo" => Cleaned(f, body) = OrRefused(body.form \in {"blank", "emptyList", "list", "address"}, ListOf(body))
           /\ f = "bindAddress" => Cleaned(f, body) = OrRefused(IsAddress(body), Trimmed(body))
           /\ f = "dbPassword" => Cleaned(f, body) = OrRefused(IsText(body) /\ body.form # "long", body)
           /\ f \in TextFields => Cleaned(f, body) = OrRefused(IsText(body) /\ body.form # "long", Trimmed(body))
<1>i. DOMAIN IntegerFields = IntegerNames
  BY FieldsAre
<1>1. ASSUME f \in Flags PROVE Cleaned(f, body) = OrRefused(body.form \in {"true", "false"}, body)
  <2>1. f \notin IntegerNames /\ f \notin ChoiceFields
    BY <1>1, FieldsApart
  <2>2. f \in {"enabled", "flowEnabled", "writeEnabled"}
    BY <1>1 DEF Flags
  <2> QED BY <1>1, <1>i, <2>1, <2>2 DEF Cleaned, OrRefused
<1>2. ASSUME f \in IntegerNames
      PROVE  Cleaned(f, body) = OrRefused(/\ Coerced(body).form = "number"
                                     /\ WithinBounds(Coerced(body).number, IntegerFields[f].accepts), Coerced(body))
  <2>1. f \notin Flags /\ f \notin ChoiceFields
    BY <1>2, FieldsApart
  <2>2. f \in {"digestSeconds", "maxPerHour", "syslogPort", "syslogFacility", "port", "timeoutMs", "maxRows"}
    BY <1>2 DEF IntegerNames
  <2> QED BY <1>2, <1>i, <2>1, <2>2 DEF Cleaned, OrRefused
<1>3. ASSUME f \in ChoiceFields PROVE Cleaned(f, body) = OrRefused(body.form = "option", body)
  <2>1. f \notin IntegerNames /\ f \notin Flags
    BY <1>3, FieldsApart
  <2>2. f \in {"minSeverity", "audit"}
    BY <1>3 DEF ChoiceFields
  <2> QED BY <1>3, <1>i, <2>1, <2>2 DEF Cleaned, OrRefused
<1>4. ASSUME f \in TextFields \cup {"webhookUrl", "emailOauthTokenUrl", "emailFrom", "emailTo", "bindAddress", "dbPassword"}
      PROVE  f \notin Flags /\ f \notin DOMAIN IntegerFields /\ f \notin ChoiceFields
  BY <1>4, <1>i DEF TextFields, IntegerNames, Flags, ChoiceFields
<1>5. f = "webhookUrl" => Cleaned(f, body) = OrRefused(body.form \in {"http", "https"}, body)
  BY <1>4 DEF Cleaned, OrRefused
<1>6. f = "emailOauthTokenUrl" => Cleaned(f, body) = OrRefused(body.form = "https", body)
  BY <1>4 DEF Cleaned, OrRefused
<1>7. f = "emailFrom" => Cleaned(f, body) = OrRefused(body.form = "address", body)
  BY <1>4 DEF Cleaned, OrRefused
<1>8. f = "emailTo" => Cleaned(f, body) = OrRefused(body.form \in {"blank", "emptyList", "list", "address"}, ListOf(body))
  BY <1>4 DEF Cleaned, OrRefused
<1>9. f = "bindAddress" => Cleaned(f, body) = OrRefused(IsAddress(body), Trimmed(body))
  BY <1>4 DEF Cleaned, OrRefused
<1>10. f = "dbPassword" => Cleaned(f, body) = OrRefused(IsText(body) /\ body.form # "long", body)
  BY <1>4 DEF Cleaned, OrRefused
<1>11. f \in TextFields => Cleaned(f, body) = OrRefused(IsText(body) /\ body.form # "long", Trimmed(body))
  BY <1>4 DEF Cleaned, OrRefused, TextFields
<1> QED BY <1>1, <1>2, <1>3, <1>5, <1>6, <1>7, <1>8, <1>9, <1>10, <1>11

\* What the parser reads in each.
HasOpinion(f, raw) == raw # NoValue /\ (raw = BlankText => IsDelivery(f))

\* What the parser makes of a line, field by field.
LEMMA ParseIs ==
    ASSUME NEW f \in SettingFields, NEW raw, HasOpinion(f, raw)
    PROVE  /\ f \in Flags => Parse(f, raw) = IF IsDelivery(f) \/ SaysOn(raw) \/ SaysOff(raw) THEN Flag(SaysOn(raw)) ELSE NoValue
           /\ f \in IntegerNames =>
                Parse(f, raw) = IF raw.form = "number" /\ WithinBounds(raw.number, IntegerFields[f].says) THEN raw ELSE NoValue
           /\ f \in ChoiceFields => Parse(f, raw) = IF raw.form \in {"option", "Option"} THEN Raw("option") ELSE NoValue
           /\ f = "emailTo" => Parse(f, raw) = ListOf(raw)
           /\ f = "emailOauthTokenUrl" => Parse(f, raw) = IF raw.form \in {"blank", "https"} THEN raw ELSE NoValue
           /\ f = "dbPassword" => Parse(f, raw) = raw
           /\ f \in TextFields \cup {"webhookUrl", "emailFrom", "bindAddress"} => Parse(f, raw) = Trimmed(raw)
<1>i. DOMAIN IntegerFields = IntegerNames
  BY FieldsAre
<1>o. raw # NoValue /\ ~(raw = BlankText /\ ~IsDelivery(f))
  BY DEF HasOpinion
<1>1. ASSUME f \in Flags
      PROVE  Parse(f, raw) = IF IsDelivery(f) \/ SaysOn(raw) \/ SaysOff(raw) THEN Flag(SaysOn(raw)) ELSE NoValue
  <2>1. f \notin IntegerNames /\ f \notin ChoiceFields
    BY <1>1, FieldsApart
  <2>2. f \in {"enabled", "flowEnabled", "writeEnabled"}
    BY <1>1 DEF Flags
  <2> QED BY <1>1, <1>i, <1>o, <2>1, <2>2 DEF Parse
<1>2. ASSUME f \in IntegerNames
      PROVE  Parse(f, raw) = IF raw.form = "number" /\ WithinBounds(raw.number, IntegerFields[f].says) THEN raw ELSE NoValue
  <2>1. f \notin Flags /\ f \notin ChoiceFields
    BY <1>2, FieldsApart
  <2>2. f \in {"digestSeconds", "maxPerHour", "syslogPort", "syslogFacility", "port", "timeoutMs", "maxRows"}
    BY <1>2 DEF IntegerNames
  <2> QED BY <1>2, <1>i, <1>o, <2>1, <2>2 DEF Parse
<1>3. ASSUME f \in ChoiceFields PROVE Parse(f, raw) = IF raw.form \in {"option", "Option"} THEN Raw("option") ELSE NoValue
  <2>1. f \notin IntegerNames /\ f \notin Flags
    BY <1>3, FieldsApart
  <2>2. f \in {"minSeverity", "audit"}
    BY <1>3 DEF ChoiceFields
  <2> QED BY <1>3, <1>i, <1>o, <2>1, <2>2 DEF Parse
<1>4. ASSUME f \in TextFields \cup {"webhookUrl", "emailOauthTokenUrl", "emailFrom", "emailTo", "bindAddress", "dbPassword"}
      PROVE  f \notin Flags /\ f \notin DOMAIN IntegerFields /\ f \notin ChoiceFields
  BY <1>4, <1>i DEF TextFields, IntegerNames, Flags, ChoiceFields
<1>5. f = "emailTo" => Parse(f, raw) = ListOf(raw)
  BY <1>4, <1>o DEF Parse
<1>6. f = "emailOauthTokenUrl" => Parse(f, raw) = IF raw.form \in {"blank", "https"} THEN raw ELSE NoValue
  BY <1>4, <1>o DEF Parse
<1>7. f = "dbPassword" => Parse(f, raw) = raw
  BY <1>4, <1>o DEF Parse
<1>8. f \in TextFields \cup {"webhookUrl", "emailFrom", "bindAddress"} => Parse(f, raw) = Trimmed(raw)
  BY <1>4, <1>o DEF Parse, TextFields
<1> QED BY <1>1, <1>2, <1>3, <1>5, <1>6, <1>7, <1>8

\* The classes of fields; those whose text is only trimmed.
LEMMA Classes ==
    ASSUME NEW f \in SettingFields
    PROVE  \/ f \in Flags \/ f \in IntegerNames \/ f \in ChoiceFields
           \/ f \in TextFields \cup {"webhookUrl", "emailFrom", "bindAddress"}
           \/ f = "emailTo" \/ f = "emailOauthTokenUrl" \/ f = "dbPassword"
BY FieldsAre DEF OtherFields, Flags, ChoiceFields, TextFields

\* What is left of a number is within the schema's bounds.
LEMMA IntegerCleaned ==
    ASSUME NEW f \in IntegerNames, NEW body \in BodiesFor(f), body # NoValue, Cleaned(f, body) # Refused
    PROVE  /\ Cleaned(f, body).form = "number" /\ Cleaned(f, body).number \in Int
           /\ WithinBounds(Cleaned(f, body).number, IntegerFields[f].accepts)
<1>1. f \in SettingFields
  BY FieldsAre
<1>2. Cleaned(f, body) = Coerced(body) /\ Coerced(body).form = "number"
        /\ WithinBounds(Coerced(body).number, IntegerFields[f].accepts)
  BY <1>1, CleanedIs DEF OrRefused
<1>3. Coerced(body).number \in Int
  <2>1. body.number \in Int /\ Numeral(0).number \in Int /\ Numeral(1).number \in Int
    BY <1>1, Numerals DEF Numeral
  <2> QED BY <2>1 DEF Coerced
<1> QED BY <1>2, <1>3

\* What a schema accepts the table holds.
LEMMA AcceptedHolds ==
    ASSUME NEW f \in SettingFields, NEW body \in BodiesFor(f), Cleaned(f, body) # Refused
    PROVE  Holds(f, Cleaned(f, body))
<1> DEFINE v == Cleaned(f, body)
<1>i. DOMAIN IntegerFields = IntegerNames
  BY FieldsAre
<1>1. CASE body = NoValue
  BY <1>1 DEF Cleaned, Holds
<1>2. CASE body # NoValue /\ f \in IntegerNames
  <2>1. WithinBounds(v.number, IntegerFields[f].holds)
    BY <1>2, IntegerCleaned, IntegerBounds
  <2> QED BY <1>i, <1>2, <2>1 DEF Holds
<1>3. CASE body # NoValue /\ f \notin IntegerNames
  <2>1. v.form # "long" \/ f \in {"exporters", "dbPassword", "emailTo"}
    <3>1. CASE f \in Flags \cup ChoiceFields \cup {"webhookUrl", "emailOauthTokenUrl", "emailFrom"}
      BY <1>3, <3>1, CleanedIs DEF OrRefused
    <3>2. CASE f \in TextFields \cup {"bindAddress"}
      <4>1. v = Trimmed(body) /\ body.form # "long"
        BY <1>3, <3>2, CleanedIs DEF OrRefused, IsAddress
      <4> QED BY <4>1 DEF Trimmed, Raw
    <3> QED BY <1>3, <3>1, <3>2, Classes
  <2> QED BY <1>i, <1>3, <2>1 DEF Holds
<1> QED BY <1>1, <1>2, <1>3

\* What a schema accepts the reader gives back.
LEMMA AcceptedReadsBack ==
    ASSUME NEW f \in SettingFields, NEW body \in BodiesFor(f), Cleaned(f, body) \notin {Refused, NoValue, NoOne},
           f = "dbPassword" => Cleaned(f, body) # BlankText
    PROVE  FromRow(f, Cleaned(f, body)) = Cleaned(f, body)
<1> DEFINE v == Cleaned(f, body)
<1>i. DOMAIN IntegerFields = IntegerNames
  BY FieldsAre
<1>1. body # NoValue
  BY DEF Cleaned
<1>2. CASE f = "exporters"
  <2>1. v = Trimmed(body)
    BY <1>1, <1>2, CleanedIs DEF OrRefused, TextFields
  <2> QED BY <1>2, <2>1 DEF FromRow, Trimmed, Raw
<1>3. CASE f # "exporters"
  <2>1. FromRow(f, v) = Parse(f, v)
    BY <1>3 DEF FromRow
  <2>b. body \in {Raw("true"), Raw("false")} \/ body.form \notin {"true", "false"}
    BY Numerals DEF Raw
  <2>2. CASE f \in Flags
    <3>1. v \in {Raw("true"), Raw("false")}
      BY <1>1, <2>2, <2>b, CleanedIs DEF OrRefused
    <3>2. HasOpinion(f, v)
      BY <3>1 DEF HasOpinion, NoValue, BlankText, Raw
    <3>3. v = IF IsDelivery(f) \/ SaysOn(v) \/ SaysOff(v) THEN Flag(SaysOn(v)) ELSE NoValue
      BY <3>1 DEF SaysOn, SaysOff, Flag, Raw, Numeral
    <3> QED BY <2>1, <2>2, <3>2, <3>3, ParseIs
  <2>3. CASE f \in IntegerNames
    <3>1. v.form = "number" /\ WithinBounds(v.number, IntegerFields[f].says)
      BY <1>1, <2>3, IntegerCleaned, IntegerBounds
    <3>2. HasOpinion(f, v)
      BY <3>1 DEF HasOpinion, NoValue, BlankText, Raw
    <3> QED BY <2>1, <2>3, <3>1, <3>2, ParseIs
  <2>4. CASE f \in ChoiceFields
    <3>1. v = body /\ v.form = "option"
      BY <1>1, <2>4, CleanedIs DEF OrRefused
    <3>2. HasOpinion(f, v) /\ v = Raw("option")
      BY <3>1, Numerals DEF HasOpinion, NoValue, BlankText, Raw
    <3> QED BY <2>1, <2>4, <3>1, <3>2, ParseIs
  <2>5. CASE f \in {"webhookUrl", "emailFrom", "emailOauthTokenUrl"}
    <3>1. v = body /\ v.form \in {"http", "https", "address"} /\ (f = "emailOauthTokenUrl" => v.form = "https")
      BY <1>1, <2>5, CleanedIs DEF OrRefused
    <3>2. HasOpinion(f, v) /\ Trimmed(v) = v
      BY <3>1 DEF HasOpinion, NoValue, BlankText, Raw, Trimmed
    <3> QED BY <2>1, <2>5, <3>1, <3>2, ParseIs
  <2>6. CASE f = "emailTo"
    <3>1. v = Raw("listed")
      <4>1. v = ListOf(body) /\ body.form \in {"blank", "emptyList", "list", "address"}
        BY <1>1, <2>6, CleanedIs DEF OrRefused
      <4>2. body = Raw(body.form)
        BY <4>1, Numerals DEF Raw
      <4> QED BY <4>1, <4>2 DEF ListOf, NoOne, BlankText, Raw
    <3>2. HasOpinion(f, v) /\ ListOf(v) = v
      BY <3>1 DEF HasOpinion, NoValue, BlankText, Raw, Trimmed, ListOf, NoOne
    <3> QED BY <2>1, <2>6, <3>1, <3>2, ParseIs
  <2>7. CASE f \in {"bindAddress", "dashboardUrl", "emailPassword"}
    <3>1. v = Trimmed(body) /\ (f = "bindAddress" => body # BlankText)
      BY <1>1, <2>7, CleanedIs DEF OrRefused, TextFields, IsAddress, BlankText, Raw
    <3>2. Trimmed(v) = v /\ (body # BlankText => v # BlankText)
      BY <3>1 DEF Trimmed, Raw, BlankText
    <3>3. HasOpinion(f, v)
      BY <2>7, <3>1, <3>2 DEF HasOpinion, IsDelivery, FlowFields, ConsoleFields
    <3> QED BY <2>1, <2>7, <3>2, <3>3, ParseIs DEF TextFields
  <2>8. CASE f = "dbPassword"
    BY <2>1, <2>8, ParseIs DEF HasOpinion
  <2> QED BY <1>3, <2>2, <2>3, <2>4, <2>5, <2>6, <2>7, <2>8, Classes DEF TextFields
<1> QED BY <1>2, <1>3

\* A line pins a setting exactly if it decides it.
LEMMA Pins == ASSUME NEW f, NEW l PROVE IsPinned(f, l) <=> FromLine(f, l) # NoValue
BY DEF IsPinned, Decided, FromRow, Parse

\* The invariant of a setting's value holds before anybody saves.
LEMMA ValueStarts == ValueInit => ValueInv
BY DEF ValueInit, ValueInv, ReplyOK

\* Booting and saving keep it.
LEMMA ValueStep == ValueInv /\ [ValueNext]_valueVars => ValueInv'
<1> SUFFICES ASSUME ValueInv, [ValueNext]_valueVars PROVE ValueInv'
  OBVIOUS
<1>1. ASSUME NEW l \in LinesFor(field), BootsReading(l) PROVE ValueInv'
  BY <1>1 DEF BootsReading, ValueInv, ReplyOK
<1>2. ASSUME NEW body \in BodiesFor(field), PutsValue(body) PROVE ValueInv'
  <2> DEFINE v == Cleaned(field, body)
  <2>1. field' = field /\ line' = line /\ field \in SettingFields
    BY <1>2 DEF PutsValue, ValueInv
  <2>2. reply' = CASE v = Refused -> "400"
                   [] v # Refused /\ IsPinned(field, line) -> "409"
                   [] OTHER -> IF Holds(field, v) THEN "saved" ELSE "500"
    BY <1>2 DEF PutsValue
  <2>3. v = Refused \/ Holds(field, v)
    BY <2>1, AcceptedHolds
  <2>4. CASE v # Refused /\ ~IsPinned(field, line)
    <3>1. reply' = "saved"
      BY <2>2, <2>3, <2>4
    <3>2. sentBody' = v /\ cell' = IF ~IsUnchanged(field, cell, v) THEN v ELSE cell
      BY <1>2, <3>1 DEF PutsValue
    <3>3. cell' = v \/ (field = "emailTo" /\ {cell', v} \subseteq {NoValue, NoOne})
      BY <3>2 DEF IsUnchanged
    <3> HIDE DEF v
    <3>4. FromLine(field, line) = NoValue
      BY <2>4, Pins
    <3>5. ReplyOK'
      BY <2>1, <2>4, <3>2, <3>3, <3>4 DEF ReplyOK, v
    <3> QED BY <2>1, <3>1, <3>5 DEF ValueInv
  <2>5. CASE v = Refused \/ IsPinned(field, line)
    <3>1. reply' \in {"400", "409"}
      BY <2>2, <2>5
    <3> QED BY <2>1, <3>1 DEF ValueInv, ReplyOK
  <2> QED BY <2>4, <2>5
<1>3. CASE UNCHANGED valueVars
  BY <1>3 DEF valueVars, ValueInv, ReplyOK
<1> QED BY <1>1, <1>2, <1>3 DEF ValueNext

\* It says that a setting's doors agree.
LEMMA ValueShows == ValueInv => ValuesExact
<1> SUFFICES ASSUME ValueInv PROVE ValuesExact
  OBVIOUS
<1>f. field \in SettingFields
  BY DEF ValueInv
<1>1. SavedReadsBack
  <2> SUFFICES ASSUME reply = "saved", sentBody \notin {NoValue, NoOne}, ~(field = "dbPassword" /\ sentBody = BlankText)
               PROVE  Here = [value |-> sentBody, source |-> "database"]
    BY DEF SavedReadsBack
  <2>1. FromLine(field, line) = NoValue /\ cell = sentBody
    BY DEF ValueInv, ReplyOK
  <2>2. PICK body \in BodiesFor(field) : sentBody = Cleaned(field, body) /\ sentBody # Refused
    BY DEF ValueInv, ReplyOK
  <2>3. FromRow(field, sentBody) = sentBody
    BY <1>f, <2>2, AcceptedReadsBack
  <2> QED BY <2>1, <2>3 DEF Here, Decided
<1>2. reply = "saved" /\ sentBody = NoValue => Here.source = "default" \/ cell = NoOne
  <2> SUFFICES ASSUME reply = "saved", sentBody = NoValue, cell # NoOne PROVE Here.source = "default"
    OBVIOUS
  <2>1. FromLine(field, line) = NoValue /\ cell = NoValue
    BY DEF ValueInv, ReplyOK
  <2>2. FromRow(field, cell) = NoValue
    BY <2>1 DEF FromRow, Parse
  <2> QED BY <2>1, <2>2 DEF Here, Decided
<1>3. IsSetLine(line) => (IsInvalidLine(field, line) <=> Here.source # "environment")
  BY DEF IsInvalidLine, Here, Decided, FromLine
<1>4. ASSUME field \in SecretFields, NEW other \in LinesFor(field) \ {NoValue, BlankText}
      PROVE  LET another == [Here EXCEPT !.value = other]
             IN  /\ Here.value \notin {BlankText, Raw("default")} => ShownOf(field, Here) = ShownOf(field, another)
                 /\ cell \notin {NoValue, BlankText} => AuditedOf(field, cell) = AuditedOf(field, other)
  <2> DEFINE another == [Here EXCEPT !.value = other]
  <2>1. other # Raw("default")
    <3>1. other \in BodiesFor(field)
      BY DEF BodiesFor
    <3> QED BY <1>f, <3>1, Numerals DEF Raw, TextForms, JsonForms
  <2>2. another.source = Here.source /\ another.value = other
    BY DEF Here, Decided
  <2>3. Here.value \notin {BlankText, Raw("default")} => ShownOf(field, Here) = ShownOf(field, another)
    <3> HIDE DEF another
    <3> QED BY <1>4, <2>1, <2>2 DEF ShownOf
  <2>4. cell \notin {NoValue, BlankText} => AuditedOf(field, cell) = AuditedOf(field, other)
    BY <1>4 DEF AuditedOf, IsDelivery, SecretFields, FlowFields, ConsoleFields
  <2> QED BY <2>3, <2>4
<1>5. reply # "500"
  BY DEF ValueInv
<1> QED BY <1>1, <1>2, <1>3, <1>4, <1>5 DEF ValuesExact

\* A setting's three doors agree: what a schema accepts the table holds and the reader gives
\* back as saved, for every field, line, body and number.
THEOREM ValuesCorrect == ValueSpec => []ValuesExact
BY ValueStarts, ValueStep, ValueShows, PTL DEF ValueSpec

-----------------------------------------------------------------------------
(* The ad hoc console: its switch and settings *)

LEMMA ConsoleInitInv == ConsoleInit => ConsoleInv
<1> SUFFICES ASSUME ConsoleInit PROVE ConsoleInv
  OBVIOUS
<1>1. \A c \in Callers : call[c] = NoConsoleCall
  BY DEF ConsoleInit
<1>2. NoConsoleCall.stage = "idle" /\ NoConsoleCall.mode \in Modes /\ {"stage", "mode", "password"} \subseteq DOMAIN NoConsoleCall
  BY DEF NoConsoleCall, Modes
<1>3. CallsOK
  BY <1>1, <1>2 DEF ConsoleInit, CallsOK, LoginFor
<1>4. \A c \in Callers : ~IsRestarting(c) /\ At(c, "idle")
  BY <1>1, <1>2 DEF IsRestarting, Restarting, At
<1>5. \A m \in Modes : IF IsPools(m) THEN login[m] = console.password ELSE LeftOrNone(m)
  BY DEF ConsoleInit, LoginFor, LeftOrNone
<1>6. OneRestartAtATime
  BY <1>4, <1>5 DEF OneRestartAtATime, At
<1> QED BY <1>3, <1>6 DEF ConsoleInit, ConsoleInv, WritesAudited

\* A step of one caller: it is at another next, and the others are where they were.
CallMoves(c, next) ==
    /\ DOMAIN call' = Callers
    /\ {"stage", "mode", "password"} \subseteq DOMAIN call'[c] /\ call'[c].mode \in Modes
    /\ call'[c].stage = next
    /\ \A d \in Callers \ {c} : call'[d] = call[d]

LEMMA CallGoes ==
    ASSUME CallsOK, NEW c \in Callers, NEW next, Goes(c, next)
    PROVE  CallMoves(c, next) /\ call'[c].mode = call[c].mode /\ call'[c].password = call[c].password
BY DEF CallsOK, Goes, CallMoves

LEMMA CallReturns ==
    ASSUME CallsOK, NEW c \in Callers, Returns(c)
    PROVE  CallMoves(c, "idle")
BY DEF CallsOK, Returns, CallMoves, NoConsoleCall, Modes

LEMMA CallBecomes ==
    ASSUME CallsOK, NEW c \in Callers, NEW r, call' = [call EXCEPT ![c] = r],
           {"stage", "mode", "password"} \subseteq DOMAIN r, r.mode \in Modes
    PROVE  CallMoves(c, r.stage)
BY DEF CallsOK, CallMoves

\* The steps that are no part of a restart.
LEMMA QuietInv ==
    ASSUME ConsoleInv, NEW c \in Callers, NEW next, CallMoves(c, next), next \notin Restarting, ~IsRestarting(c),
           UNCHANGED <<console, login, leftBehind, overlapped>>, unaudited' = 0
    PROVE  ConsoleInv'
<1>1. CallsOK'
  BY DEF ConsoleInv, CallsOK, CallMoves
<1>2. \A d \in Callers : IsRestarting(d)' <=> IsRestarting(d)
  BY DEF IsRestarting, CallMoves
<1>3. \A d \in Callers : IsRestarting(d) => call'[d] = call[d]
  BY DEF CallMoves
<1>4. \A d \in Callers : (At(d, "revokingIdle") \/ At(d, "revokingWrite") \/ At(d, "undoing"))' => IsRestarting(d)
  BY DEF At, CallMoves, IsRestarting, Restarting
<1>5. OneRestartAtATime'
  BY <1>2, <1>3, <1>4 DEF ConsoleInv, OneRestartAtATime, At, IsPools, Running, LeftOrNone
<1> QED BY <1>1, <1>5 DEF ConsoleInv, WritesAudited

\* A step of the one restart there is: what holds at the next it comes to.
LEMMA RestartInv ==
    ASSUME ConsoleInv, NEW c \in Callers, NEW next, CallMoves(c, next),
           login' = [m \in Modes |-> login'[m]], unaudited' = 0,
           ~overlapped' => ~overlapped /\ \A d \in Callers \ {c} : ~IsRestarting(d),
           ~overlapped' =>
              /\ next \notin Restarting =>
                    \A m \in Modes : IF IsPools(m)' THEN login'[m] = console'.password ELSE LeftOrNone(m)'
              /\ next \in Restarting \ {"revokingIdle"} => console' = NoPool
              /\ next = "revokingIdle" => /\ console' = [mode |-> call'[c].mode, password |-> call'[c].password]
                                           /\ login'[call'[c].mode] = call'[c].password
              /\ next = "revokingWrite" => LeftOrNone("read")'
              /\ next = "undoing" => LeftOrNone(Other(call[c].mode))'
    PROVE  ConsoleInv'
<1>1. CallsOK'
  BY DEF ConsoleInv, CallsOK, CallMoves
<1>2. ASSUME ~overlapped' PROVE \A d \in Callers : IsRestarting(d)' => d = c
  BY <1>2 DEF IsRestarting, CallMoves
<1>3. \A d \in Callers : (At(d, "revokingIdle") \/ At(d, "revokingWrite") \/ At(d, "undoing"))' => IsRestarting(d)'
  BY DEF At, IsRestarting, Restarting
<1>4. call'[c].stage = next
  BY DEF CallMoves
<1>5. OneRestartAtATime'
  <2>1. SUFFICES ASSUME ~overlapped' PROVE OneRestartAtATime'
    BY DEF OneRestartAtATime
  <2>2. \A d, e \in Callers : IsRestarting(d)' /\ IsRestarting(e)' => d = e
    BY <1>2, <2>1
  <2>3. (\A d \in Callers : ~IsRestarting(d)') =>
            \A m \in Modes : IF IsPools(m)' THEN login'[m] = console'.password ELSE LeftOrNone(m)'
    BY <1>4, <2>1 DEF IsRestarting
  <2>4. ASSUME NEW d \in Callers, IsRestarting(d)'
        PROVE  /\ ~At(d, "revokingIdle")' => console' = NoPool
               /\ At(d, "revokingIdle")' => /\ console' = [mode |-> call'[d].mode, password |-> call'[d].password]
                                            /\ login'[call'[d].mode] = call'[d].password
               /\ At(d, "revokingWrite")' => LeftOrNone("read")'
               /\ At(d, "undoing")' => LeftOrNone(Other(call[d].mode))'
    <3>1. d = c /\ next \in Restarting
      BY <1>2, <1>4, <2>1, <2>4 DEF IsRestarting
    <3> QED BY <1>4, <2>1, <3>1 DEF At
  <2> QED BY <1>3, <2>2, <2>3, <2>4 DEF OneRestartAtATime
<1> QED BY <1>1, <1>5 DEF ConsoleInv, WritesAudited

LEMMA EnteringMoves ==
    ASSUME CallsOK, NEW c \in Callers, NEW to, Entering(c, to),
           {"stage", "mode", "password"} \subseteq DOMAIN to, to.mode \in Modes
    PROVE  \E next \in {"looking", "revokingRead"} : CallMoves(c, next)
BY DEF CallsOK, Entering, CallMoves

\* A revoke that is carried out, or that fails and is written down.
LEMMA RevokesTell ==
    ASSUME NEW mode \in Modes, Revokes(mode), login = [m \in Modes |-> login[m]]
    PROVE  /\ login' = [m \in Modes |-> login'[m]] /\ LeftOrNone(mode)'
           /\ \A m \in Modes : m # mode /\ LeftOrNone(m) => LeftOrNone(m)'
           /\ \A m \in Modes : m # mode => login'[m] = login[m]
<1>1. CASE Revoked(mode)
  BY <1>1 DEF Revoked, LeftOrNone
<1>2. CASE RevokesNone({mode})
  BY <1>2 DEF RevokesNone, CanLogIn, LeftOrNone
<1> QED BY <1>1, <1>2 DEF Revokes

LEMMA NoneRevoked ==
    ASSUME RevokesNone(Modes)
    PROVE  login' = login /\ \A m \in Modes : LeftOrNone(m)'
BY DEF RevokesNone, CanLogIn, LeftOrNone

LEMMA TwoModes == \A m, n \in Modes : Other(m) \in Modes /\ Other(m) # m /\ (n = m \/ n = Other(m))
BY DEF Modes, Other

\* Without a pool it is no role's.
LEMMA NobodysPool ==
    ASSUME console' = NoPool
    PROVE  \A m \in Modes : ~IsPools(m)'
BY DEF IsPools, Running, NoPool

\* The steps of a restart, one after the other.
LEMMA RestartStepInv ==
    ASSUME ConsoleInv, NEW c \in Callers,
           \/ LookUp(c) \/ Grant(c) \/ Prove(c) \/ StartFails(c) \/ RevokeIdle(c) \/ Undo(c)
           \/ RevokeRead(c) \/ RevokeNeither(c) \/ RevokeWrite(c) \/ OldPoolEnds(c)
    PROVE  ConsoleInv'
<1>1. /\ IsRestarting(c) /\ UNCHANGED <<overlapped, unaudited>> /\ unaudited = 0
  BY DEF LookUp, Grant, Prove, StartFails, RevokeIdle, Undo, RevokeRead, RevokeNeither, RevokeWrite, OldPoolEnds, At,
         IsRestarting, Restarting, boundsUnchanged, revokeUnchanged, ConsoleInv, WritesAudited
<1>2. ~overlapped' => ~overlapped /\ \A d \in Callers \ {c} : ~IsRestarting(d)
  BY <1>1 DEF ConsoleInv, OneRestartAtATime
<1>3. CallsOK /\ login = [m \in Modes |-> login[m]] /\ call[c].mode \in Modes
  BY DEF ConsoleInv, CallsOK
<1>4. ~overlapped =>
        /\ ~At(c, "revokingIdle") => console = NoPool
        /\ At(c, "revokingIdle") => /\ console = [mode |-> call[c].mode, password |-> call[c].password]
                                   /\ login[call[c].mode] = call[c].password
        /\ At(c, "revokingWrite") => LeftOrNone("read")
        /\ At(c, "undoing") => LeftOrNone(Other(call[c].mode))
  BY <1>1 DEF ConsoleInv, OneRestartAtATime
<1>5. CASE LookUp(c)
  <2>1. CallMoves(c, "granting") /\ UNCHANGED <<console, login>>
    BY <1>3, <1>5 DEF LookUp, CallMoves, CallsOK, Modes, poolUnchanged, loginUnchanged
  <2>2. At(c, "looking")
    BY <1>5 DEF LookUp
  <2> QED BY <1>1, <1>2, <1>3, <1>4, <2>1, <2>2, RestartInv DEF At, Restarting
<1>6. CASE Grant(c)
  <2>1. At(c, "granting") /\ CallMoves(c, "proving") /\ console' = console /\ login' = [m \in Modes |-> login'[m]]
    BY <1>3, <1>6, CallGoes DEF Grant, poolUnchanged
  <2> QED BY <1>1, <1>2, <1>4, <2>1, RestartInv DEF At, Restarting
<1>7. CASE Prove(c)
  <2>1. /\ CallMoves(c, "revokingIdle") /\ call'[c].mode = call[c].mode /\ call'[c].password = call[c].password
        /\ console' = [mode |-> call[c].mode, password |-> call[c].password] /\ login' = login
        /\ login[call[c].mode] = call[c].password
    BY <1>3, <1>7, CallGoes DEF Prove, loginUnchanged
  <2> QED BY <1>1, <1>2, <1>3, <2>1, RestartInv DEF Restarting
<1>8. CASE StartFails(c)
  <2>1. console' = NoPool /\ login' = login
    BY <1>8 DEF StartFails
  <2>2. CASE At(c, "proving")
    <3>1. CallMoves(c, "undoing") /\ call'[c].mode = call[c].mode
          /\ leftBehind' = leftBehind \cup CanLogIn({Other(call[c].mode)})
      BY <1>3, <1>8, <2>2, CallGoes DEF StartFails
    <3>2. LeftOrNone(Other(call[c].mode))'
      BY <2>1, <3>1 DEF LeftOrNone, CanLogIn
    <3> QED BY <1>1, <1>2, <1>3, <2>1, <3>1, <3>2, RestartInv DEF Restarting
  <2>3. CASE ~At(c, "proving")
    <3>1. CallMoves(c, "idle") /\ leftBehind' = leftBehind \cup CanLogIn(Modes)
      BY <1>3, <1>8, <2>3, CallReturns DEF StartFails
    <3>2. \A m \in Modes : LeftOrNone(m)'
      BY <2>1, <3>1 DEF LeftOrNone, CanLogIn
    <3> QED BY <1>1, <1>2, <1>3, <2>1, <3>1, <3>2, NobodysPool, RestartInv DEF Restarting
  <2> QED BY <2>2, <2>3
<1>9. CASE RevokeIdle(c)
  <2>5. PICK mode \in Modes : mode = call[c].mode
    BY <1>3
  <2>6. PICK idle \in Modes : idle = Other(mode)
    BY TwoModes
  <2>1. CallMoves(c, "idle") /\ Revokes(idle) /\ console' = console /\ At(c, "revokingIdle")
    BY <1>3, <1>9, <2>5, <2>6, CallReturns DEF RevokeIdle
  <2>2. mode \in Modes /\ idle \in Modes /\ mode # idle /\ \A m \in Modes : m = mode \/ m = idle
    BY <2>6, TwoModes
  <2>3. /\ login' = [m \in Modes |-> login'[m]] /\ LeftOrNone(idle)' /\ login'[mode] = login[mode]
    BY <1>3, <2>1, <2>2, RevokesTell
  <2>4. ASSUME ~overlapped PROVE \A m \in Modes : IF IsPools(m)' THEN login'[m] = console'.password ELSE LeftOrNone(m)'
    <3>1. console = [mode |-> mode, password |-> call[c].password] /\ login[mode] = call[c].password
      BY <1>4, <2>1, <2>4, <2>5
    <3>2. ~IsPools(idle)'
      BY <2>1, <2>2, <3>1 DEF IsPools
    <3>3. IF IsPools(mode)' THEN login'[mode] = console'.password ELSE LeftOrNone(mode)'
      BY <2>1, <2>3, <3>1 DEF IsPools, Running, NoPool, LeftOrNone
    <3> QED BY <2>2, <2>3, <3>2, <3>3
  <2> QED BY <1>1, <1>2, <2>1, <2>3, <2>4, RestartInv DEF Restarting
<1>10. CASE Undo(c)
  <2>5. PICK mode \in Modes : mode = call[c].mode
    BY <1>3
  <2>6. PICK idle \in Modes : idle = Other(mode)
    BY TwoModes
  <2>1. CallMoves(c, "idle") /\ Revokes(mode) /\ console' = console /\ At(c, "undoing")
    BY <1>3, <1>10, <2>5, CallReturns DEF Undo, poolUnchanged
  <2>2. mode \in Modes /\ idle \in Modes /\ mode # idle /\ \A m \in Modes : m = mode \/ m = idle
    BY <2>6, TwoModes
  <2>3. login' = [m \in Modes |-> login'[m]] /\ LeftOrNone(mode)' /\ (LeftOrNone(idle) => LeftOrNone(idle)')
    BY <1>3, <2>1, <2>2, RevokesTell
  <2>4. ~overlapped => console' = NoPool /\ LeftOrNone(idle)
    BY <1>4, <2>1, <2>5, <2>6 DEF At
  <2> QED BY <1>1, <1>2, <2>1, <2>2, <2>3, <2>4, NobodysPool, RestartInv DEF Restarting
<1>11. CASE RevokeRead(c)
  <2>1. /\ At(c, "revokingRead") /\ CallMoves(c, "revokingWrite") /\ console' = console /\ Revokes("read")
    BY <1>3, <1>11, CallGoes DEF RevokeRead, poolUnchanged
  <2>2. login' = [m \in Modes |-> login'[m]] /\ LeftOrNone("read")'
    BY <1>3, <2>1, RevokesTell DEF Modes
  <2> QED BY <1>1, <1>2, <1>4, <2>1, <2>2, RestartInv DEF At, Restarting
<1>14. CASE RevokeNeither(c)
  <2>1. /\ At(c, "revokingRead") /\ CallMoves(c, "idle") /\ console' = console /\ RevokesNone(Modes)
    BY <1>3, <1>14, CallReturns DEF RevokeNeither, poolUnchanged
  <2>2. login' = login /\ \A m \in Modes : LeftOrNone(m)'
    BY <2>1, NoneRevoked
  <2>3. ~overlapped => console' = NoPool
    BY <1>4, <2>1 DEF At
  <2> QED BY <1>1, <1>2, <1>3, <2>1, <2>2, <2>3, NobodysPool, RestartInv DEF Restarting
<1>12. CASE RevokeWrite(c)
  <2>1. /\ At(c, "revokingWrite") /\ CallMoves(c, "idle") /\ console' = console /\ Revokes("write")
    BY <1>3, <1>12, CallReturns DEF RevokeWrite, poolUnchanged
  <2>2. login' = [m \in Modes |-> login'[m]] /\ LeftOrNone("write")' /\ (LeftOrNone("read") => LeftOrNone("read")')
    BY <1>3, <2>1, RevokesTell DEF Modes
  <2>3. ~overlapped => console' = NoPool /\ LeftOrNone("read")
    BY <1>4, <2>1 DEF At
  <2>4. ~overlapped => \A m \in Modes : LeftOrNone(m)'
    BY <2>2, <2>3 DEF Modes
  <2> QED BY <1>1, <1>2, <2>1, <2>2, <2>3, <2>4, NobodysPool, RestartInv DEF Restarting
<1>13. CASE OldPoolEnds(c)
  <2>1. /\ At(c, "ending") /\ UNCHANGED <<console, login>>
        /\ \E next \in {"looking", "revokingRead"} : CallMoves(c, next)
    BY <1>3, <1>13, EnteringMoves DEF OldPoolEnds, CallsOK
  <2> QED BY <1>1, <1>2, <1>3, <1>4, <2>1, RestartInv DEF At, Restarting
<1> QED BY <1>5, <1>6, <1>7, <1>8, <1>9, <1>10, <1>11, <1>12, <1>13, <1>14

\* A restart begins; whether another is going on is written down.
LEMMA OverlapsTells ==
    ASSUME NEW c \in Callers, Overlaps(c)
    PROVE  ~overlapped' => ~overlapped /\ \A d \in Callers \ {c} : ~IsRestarting(d)
BY DEF Overlaps, IsRestarting

LEMMA StopOrReturnInv ==
    ASSUME ConsoleInv, NEW c \in Callers, ~IsRestarting(c), StopOrReturn(c),
           UNCHANGED <<login, leftBehind, unaudited>>
    PROVE  ConsoleInv'
<1>1. CallsOK /\ login = [m \in Modes |-> login[m]] /\ unaudited = 0
  BY DEF ConsoleInv, CallsOK, WritesAudited
<1>2. CASE /\ console' = NoPool
           /\ call' = [call EXCEPT ![c] = [NoConsoleCall EXCEPT !.stage = "ending"]]
           /\ Overlaps(c)
  <2>1. CallMoves(c, "ending")
    BY <1>1, <1>2 DEF CallsOK, CallMoves, NoConsoleCall, Modes
  <2> QED BY <1>1, <1>2, <2>1, OverlapsTells, RestartInv DEF Restarting
<1>3. CASE Returns(c) /\ poolUnchanged /\ UNCHANGED overlapped
  BY <1>1, <1>3, CallReturns, QuietInv DEF poolUnchanged, Restarting
<1> QED BY <1>2, <1>3 DEF StopOrReturn

LEMMA RecheckInv ==
    ASSUME ConsoleInv, NEW c \in Callers, Recheck(c)
    PROVE  ConsoleInv'
<1>1. CallsOK /\ login = [m \in Modes |-> login[m]] /\ unaudited = 0
  BY DEF ConsoleInv, CallsOK, WritesAudited
<1>2. /\ console = NoPool /\ Entering(c, NoConsoleCall) /\ Overlaps(c) /\ UNCHANGED <<console, login, unaudited>>
  BY DEF Recheck, Running
<1>3. \E next \in {"looking", "revokingRead"} : CallMoves(c, next)
  BY <1>1, <1>2, EnteringMoves DEF NoConsoleCall, Modes
<1> QED BY <1>1, <1>2, <1>3, OverlapsTells, RestartInv DEF Restarting

\* A statement is run unrecorded by the reading role alone.
LEMMA RunStatementInv ==
    ASSUME ConsoleInv, NEW c \in Callers, NEW audited \in BOOLEAN, ~IsRestarting(c), RunStatement(c, audited),
           audited \/ ~(Running /\ activeMode = "write"),
           UNCHANGED <<console, login, leftBehind, overlapped>>
    PROVE  ConsoleInv'
<1>1. CallsOK /\ unaudited = 0
  BY DEF ConsoleInv, WritesAudited
<1>2. unaudited' = 0
  BY <1>1 DEF RunStatement
<1>3. \E next \in {"running", "idle"} : CallMoves(c, next)
  BY <1>1 DEF RunStatement, CallsOK, CallMoves, NoConsoleCall, Modes
<1> QED BY <1>2, <1>3, QuietInv DEF Restarting

LEMMA QuietStepInv ==
    ASSUME ConsoleInv, NEW c \in Callers,
           \/ \E patch \in ConsolePatches : BeginConsolePut(c, patch)
           \/ SaveSelects(c) \/ SaveUpserts(c) \/ LoadSelects(c) \/ RecordFails(c)
           \/ StatementEnds(c) \/ RefusalRecorded(c)
           \/ Query(c) /\ CurrentAuditMode = "all"
    PROVE  ConsoleInv'
<1>1. CallsOK /\ unaudited = 0
  BY DEF ConsoleInv, WritesAudited
<1>2. /\ UNCHANGED <<console, login, leftBehind, overlapped, unaudited>> /\ ~IsRestarting(c)
  BY DEF BeginConsolePut, SaveSelects, SaveUpserts, LoadSelects, RecordFails, StatementEnds, RefusalRecorded, Query,
         poolUnchanged, boundsUnchanged, loginUnchanged, IsRestarting, Restarting, At, Arrives
<1>3. \E next \in {"saving", "reloading", "changed", "reloaded", "idle", "recordingRefusal", "recording"} : CallMoves(c, next)
  <2>1. ASSUME NEW patch \in ConsolePatches, BeginConsolePut(c, patch) PROVE CallMoves(c, "saving")
    BY <1>1, <2>1 DEF BeginConsolePut, CallsOK, CallMoves, NoConsoleCall, Modes
  <2>2. CASE SaveSelects(c)
    BY <1>1, <2>2 DEF SaveSelects, CallsOK, CallMoves
  <2>3. CASE SaveUpserts(c)
    BY <1>1, <2>3, CallGoes DEF SaveUpserts
  <2>4. CASE LoadSelects(c)
    BY <1>1, <2>4 DEF LoadSelects, CallsOK, CallMoves
  <2>5. CASE RecordFails(c)
    BY <1>1, <2>5, CallReturns DEF RecordFails
  <2>6. CASE StatementEnds(c)
    BY <1>1, <2>6, CallReturns, CallGoes DEF StatementEnds
  <2>7. CASE RefusalRecorded(c)
    BY <1>1, <2>7, CallReturns DEF RefusalRecorded
  <2>8. CASE Query(c) /\ CurrentAuditMode = "all"
    BY <1>1, <2>8, CallGoes DEF Query
  <2> QED BY <2>1, <2>2, <2>3, <2>4, <2>5, <2>6, <2>7, <2>8
<1> QED BY <1>1, <1>2, <1>3, QuietInv DEF Restarting

LEMMA ConsoleStep ==
    ASSUME ConsoleInv, [ConsoleNext]_consoleVars
    PROVE  ConsoleInv'
<1>1. ASSUME NEW c \in Callers, CallerStep(c) PROVE ConsoleInv'
  <2>1. CASE \/ LookUp(c) \/ Grant(c) \/ Prove(c) \/ StartFails(c) \/ RevokeIdle(c) \/ Undo(c)
             \/ RevokeRead(c) \/ RevokeNeither(c) \/ RevokeWrite(c) \/ OldPoolEnds(c)
    BY <2>1, RestartStepInv
  <2>2. CASE \/ \E patch \in ConsolePatches : BeginConsolePut(c, patch)
             \/ SaveSelects(c) \/ SaveUpserts(c) \/ LoadSelects(c) \/ RecordFails(c)
             \/ StatementEnds(c) \/ RefusalRecorded(c)
    BY <2>2, QuietStepInv
  <2>3. CASE Load(c) \/ LoadFallsBack(c)
    BY <2>3, StopOrReturnInv DEF Load, LoadFallsBack, At, IsRestarting, Restarting
  <2>4. CASE Recheck(c)
    BY <2>4, RecheckInv
  <2>5. CASE Query(c)
    <3>1. CASE CurrentAuditMode = "all"
      BY <2>5, <3>1, QuietStepInv
    <3>2. CASE CurrentAuditMode # "all"
      BY <2>5, <3>2, RunStatementInv DEF Query, CurrentAuditMode, Arrives, At, IsRestarting, Restarting, poolUnchanged
    <3> QED BY <3>1, <3>2
  <2>6. CASE Recorded(c)
    BY <2>6, RunStatementInv DEF Recorded, At, IsRestarting, Restarting, poolUnchanged
  <2> QED BY <1>1, <2>1, <2>2, <2>3, <2>4, <2>5, <2>6 DEF CallerStep
<1>2. CASE UNCHANGED consoleVars
  BY <1>2 DEF consoleVars, ConsoleInv, CallsOK, WritesAudited, OneRestartAtATime, IsRestarting, At, IsPools, Running,
              LeftOrNone
<1> QED BY <1>1, <1>2 DEF ConsoleNext

LEMMA ConsoleInvSafety == ConsoleInv => ConsoleSafety
BY DEF ConsoleInv, OneRestartAtATime, ConsoleSafety, LoginFollowsConsole, IsRestarting, LeftOrNone

\* What the console's switch rests on holds in every state.
THEOREM ConsoleInductive == ConsoleSpec => []ConsoleInv
<1>1. ConsoleInit => ConsoleInv
  BY ConsoleInitInv
<1>2. ConsoleInv /\ [ConsoleNext]_consoleVars => ConsoleInv'
  BY ConsoleStep
<1> QED BY <1>1, <1>2, PTL DEF ConsoleSpec

\* Every statement that may write is in the audit trail first.  Unless restarts have
\* overlapped, the pool's role has the pool's password once no restart is in progress, and
\* another role can log in only where a start that failed, or a best-effort revoke that did,
\* at boot or later, has left it so.
THEOREM ConsoleSwitchCorrect == ConsoleSpec => []ConsoleSafety
<1>1. ConsoleInv => ConsoleSafety
  BY ConsoleInvSafety
<1> QED BY <1>1, ConsoleInductive, PTL

-----------------------------------------------------------------------------
(* The ad hoc console: its statements *)

\* The kinds of statements: one that ran promises what it changes.
LEMMA KindFacts ==
    ASSUME NEW k \in DOMAIN StatementKinds
    PROVE  /\ StatementKinds[k].changes \in Nat /\ StatementKinds[k].rows \in Nat /\ StatementKinds[k].statements \in Nat
           /\ StatementKinds[k].statements = 1 /\ StatementKinds[k].cursor # "0A000" =>
                StatementKinds[k].changes = 0 \/ k \in CountsRows \cup {"analyzeInsert"}
           /\ StatementKinds[k].statements = 1 => k \notin HoldsCommit
BY DEF StatementKinds, Kind, CountsRows, HoldsCommit

LEMMA NoQueryOK ==
    /\ NoQuery \in QueryRecord /\ NoQuery.stage = "idle" /\ StatementOK(NoQuery) /\ NoQuery.answer.is = "none"
<1>1. "wrong" \in DOMAIN StatementKinds
  BY DEF StatementKinds
<1>2. NoAnswerYet \in Answered /\ NoAnswerYet.is = "none"
  BY DEF NoAnswerYet, Answered
<1>3. NoQuery \in QueryRecord /\ NoQuery.stage = "idle" /\ NoQuery.answer = NoAnswerYet
  BY <1>1, <1>2 DEF NoQuery, QueryRecord
<1> QED BY <1>2, <1>3 DEF StatementOK

LEMMA OwingNat ==
    ASSUME NEW q \in QueryRecord
    PROVE  Owing(q) \in Nat /\ (q.stage # "committed" => Owing(q) = 0)
<1>1. q.kind \in DOMAIN StatementKinds
  BY DEF QueryRecord
<1> QED BY <1>1, KindFacts DEF Owing

LEMMA QueryInitInv == QueryInit => QueryInv
<1> SUFFICES ASSUME QueryInit PROVE QueryInv
  OBVIOUS
<1>1. \A c \in QueryCallers : query[c] = NoQuery
  BY DEF QueryInit
<1>2. query \in [QueryCallers -> QueryRecord] /\ \A c \in QueryCallers : StatementOK(query[c])
  BY <1>1, NoQueryOK DEF QueryInit
<1>3. SumFunction(Owed) = 0
  <2>1. Owed = [c \in QueryCallers |-> 0]
    BY <1>1, NoQueryOK, OwingNat DEF Owed
  <2> QED BY <2>1, SumZero, QueryAssumption
<1>4. Cardinality(OnClient) <= MaxClients
  <2>1. OnClient = {}
    BY <1>1, NoQueryOK DEF OnClient
  <2> QED BY <2>1, FS_EmptySet, QueryAssumption
<1>5. /\ cap \in Nat \ {0} /\ writing \in BOOLEAN /\ changed = 0 /\ promised = 0 /\ unsure = 0 /\ escaped = 0
      /\ opened => Proves(grants, IF writing THEN "write" ELSE "read")
  BY QueryAssumption DEF QueryInit
<1> QED BY <1>2, <1>3, <1>4, <1>5 DEF QueryInv

\* One request goes on; what is changed is answered for or still owed.
LEMMA QueryMoves ==
    ASSUME QueryInv, NEW c \in QueryCallers, NEW q \in QueryRecord, query' = [query EXCEPT ![c] = q],
           StatementOK(q), UNCHANGED <<grants, writing, opened, cap>>,
           changed' \in Nat, promised' \in Nat, unsure' \in Nat, escaped' \in Nat,
           changed' + promised + unsure + escaped + Owing(query[c])
             = changed + promised' + unsure' + escaped' + Owing(q),
           ~writing => changed' = changed,
           \/ q.stage \in {"idle", "connecting"} \/ query[c].stage \notin {"idle", "connecting"}
           \/ Cardinality(OnClient) < MaxClients
    PROVE  QueryInv'
<1>1. query' \in [QueryCallers -> QueryRecord] /\ query'[c] = q /\ \A d \in QueryCallers : d # c => query'[d] = query[d]
  BY DEF QueryInv
<1>2. \A d \in QueryCallers : StatementOK(query[d])'
  <2>1. ASSUME NEW d \in QueryCallers PROVE StatementOK(query[d])'
    <3>1. CASE d = c
      BY <1>1, <3>1 DEF StatementOK
    <3>2. CASE d # c
      <4>1. StatementOK(query[d]) /\ query'[d] = query[d]
        BY <1>1, <3>2 DEF QueryInv
      <4> QED BY <4>1 DEF StatementOK
    <3> QED BY <3>1, <3>2
  <2> QED BY <2>1
<1>3. changed' = promised' + unsure' + escaped' + SumFunction(Owed')
  <2>1. Owed \in [QueryCallers -> Nat] /\ Owed' \in [QueryCallers -> Nat]
    BY <1>1, OwingNat DEF Owed, QueryInv
  <2>2. /\ Owed[c] = Owing(query[c]) /\ Owed'[c] = Owing(q)
        /\ \A d \in QueryCallers : d # c => Owed'[d] = Owed[d]
    BY <1>1 DEF Owed
  <2>3. /\ SumFunction(Owed) \in Nat /\ SumFunction(Owed') \in Nat
        /\ SumFunction(Owed') = (SumFunction(Owed) - Owed[c]) + Owed'[c]
    <3> DEFINE before == Owed
               after == Owed'
    <3>1. /\ before \in [QueryCallers -> Nat] /\ after \in [QueryCallers -> Nat] /\ IsFiniteSet(QueryCallers)
          /\ \A d \in QueryCallers : d # c => after[d] = before[d]
      BY <2>1, <2>2, QueryAssumption
    <3> HIDE DEF before, after
    <3>2. /\ SumFunction(before) \in Nat /\ SumFunction(after) \in Nat
          /\ SumFunction(after) = (SumFunction(before) - before[c]) + after[c]
      BY <3>1, SumChanged
    <3> QED BY <3>2 DEF before, after
  <2>4. /\ changed = promised + unsure + escaped + SumFunction(Owed)
        /\ changed \in Nat /\ promised \in Nat /\ unsure \in Nat /\ escaped \in Nat
    BY DEF QueryInv
  <2>5. Owing(query[c]) \in Nat /\ Owing(q) \in Nat
    BY OwingNat DEF QueryInv
  <2> DEFINE before == SumFunction(Owed)
             after == SumFunction(Owed')
             was == Owing(query[c])
             is == Owing(q)
  <2>6. /\ before \in Nat /\ after \in Nat /\ was \in Nat /\ is \in Nat /\ after = (before - was) + is
        /\ changed = promised + unsure + escaped + before
        /\ changed' + promised + unsure + escaped + was = changed + promised' + unsure' + escaped' + is
        /\ changed' \in Nat /\ promised' \in Nat /\ unsure' \in Nat /\ escaped' \in Nat
        /\ changed \in Nat /\ promised \in Nat /\ unsure \in Nat /\ escaped \in Nat
    BY <2>2, <2>3, <2>4, <2>5
  <2> HIDE DEF before, after, was, is
  <2>7. changed' = promised' + unsure' + escaped' + after
    <3>1. PICK a2 \in Nat, p2 \in Nat, u2 \in Nat, e2 \in Nat :
             a2 = changed' /\ p2 = promised' /\ u2 = unsure' /\ e2 = escaped'
      BY ONLY <2>6
    <3>2. /\ after = (before - was) + is /\ changed = promised + unsure + escaped + before
          /\ a2 + promised + unsure + escaped + was = changed + p2 + u2 + e2 + is
          /\ a2 \in Nat /\ p2 \in Nat /\ u2 \in Nat /\ e2 \in Nat
          /\ changed \in Nat /\ promised \in Nat /\ unsure \in Nat /\ escaped \in Nat
          /\ before \in Nat /\ after \in Nat /\ was \in Nat /\ is \in Nat
      BY ONLY <2>6, <3>1
    <3>3. a2 = p2 + u2 + e2 + after
      BY ONLY <3>2
    <3> QED BY ONLY <3>1, <3>3
  <2> QED BY <2>7 DEF after
<1>4. Cardinality(OnClient') <= MaxClients
  <2>1. IsFiniteSet(OnClient) /\ Cardinality(OnClient) <= MaxClients /\ MaxClients \in Nat
    BY QueryAssumption, FS_Subset DEF OnClient, QueryInv
  <2>2. CASE q.stage \in {"idle", "connecting"} \/ query[c].stage \notin {"idle", "connecting"}
    <3>1. OnClient' \subseteq OnClient
      BY <1>1, <2>2 DEF OnClient
    <3>2. Cardinality(OnClient') <= Cardinality(OnClient) /\ Cardinality(OnClient') \in Nat /\ Cardinality(OnClient) \in Nat
      BY <2>1, <3>1, FS_Subset, FS_CardinalityType
    <3> QED BY <2>1, <3>2
  <2>3. CASE Cardinality(OnClient) < MaxClients
    <3>1. OnClient' \subseteq OnClient \cup {c}
      BY <1>1 DEF OnClient
    <3>2. /\ IsFiniteSet(OnClient \cup {c}) /\ Cardinality(OnClient) \in Nat
          /\ Cardinality(OnClient \cup {c}) <= Cardinality(OnClient) + 1
      <4>1. Cardinality(OnClient) \in Nat
        BY <2>1, FS_CardinalityType
      <4>2. CASE c \in OnClient
        <5>1. OnClient \cup {c} = OnClient
          BY <4>2
        <5> QED BY <2>1, <4>1, <5>1
      <4>3. CASE c \notin OnClient
        <5>1. IsFiniteSet(OnClient \cup {c}) /\ Cardinality(OnClient \cup {c}) = Cardinality(OnClient) + 1
          BY <2>1, <4>3, FS_AddElement
        <5> QED BY <4>1, <5>1
      <4> QED BY <4>2, <4>3
    <3>3. /\ Cardinality(OnClient') <= Cardinality(OnClient \cup {c}) /\ Cardinality(OnClient') \in Nat
          /\ Cardinality(OnClient \cup {c}) \in Nat
      BY <3>1, <3>2, FS_Subset, FS_CardinalityType
    <3> QED BY <2>1, <2>3, <3>2, <3>3
  <2> QED BY <2>2, <2>3
<1>5. opened' => Proves(grants', IF writing' THEN "write" ELSE "read")
  BY DEF QueryInv
<1>6. cap' \in Nat \ {0} /\ writing' \in BOOLEAN /\ (~writing' => changed' = 0)
  BY DEF QueryInv
<1> QED BY <1>1, <1>2, <1>3, <1>4, <1>5, <1>6 DEF QueryInv

\* A request that neither commits nor succeeds, whatever a COMMIT of its own has done.
LEMMA QueryEscapes ==
    ASSUME QueryInv, NEW c \in QueryCallers, NEW q \in QueryRecord, query' = [query EXCEPT ![c] = q],
           StatementOK(q), UNCHANGED <<grants, writing, opened, cap, promised, unsure>>,
           NEW more \in Nat, changed' = changed + more, escaped' = escaped + more, ~writing => more = 0,
           q.stage # "committed", query[c].stage # "committed",
           \/ q.stage \in {"idle", "connecting"} \/ query[c].stage \notin {"idle", "connecting"}
           \/ Cardinality(OnClient) < MaxClients
    PROVE  QueryInv'
<1>1. /\ Owing(q) = 0 /\ Owing(query[c]) = 0
      /\ changed \in Nat /\ promised \in Nat /\ unsure \in Nat /\ escaped \in Nat
  BY OwingNat DEF QueryInv
<1>2. /\ changed' + promised + unsure + escaped + Owing(query[c])
           = changed + promised' + unsure' + escaped' + Owing(q)
      /\ changed' \in Nat /\ promised' \in Nat /\ unsure' \in Nat /\ escaped' \in Nat
      /\ ~writing => changed' = changed
  BY <1>1
<1> QED BY <1>1, <1>2, QueryMoves

LEMMA QueryGoesOn ==
    ASSUME QueryInv, NEW c \in QueryCallers, NEW q \in QueryRecord, query' = [query EXCEPT ![c] = q],
           StatementOK(q), UNCHANGED <<grants, writing, opened, cap, changed, promised, unsure, escaped>>,
           q.stage # "committed", query[c].stage # "committed",
           \/ q.stage \in {"idle", "connecting"} \/ query[c].stage \notin {"idle", "connecting"}
           \/ Cardinality(OnClient) < MaxClients
    PROVE  QueryInv'
<1>1. 0 \in Nat /\ changed' = changed + 0 /\ escaped' = escaped + 0
  BY DEF QueryInv
<1> QED BY <1>1, QueryEscapes

\* What a caller's request is.
LEMMA RequestAt ==
    ASSUME QueryInv, NEW c \in QueryCallers
    PROVE  /\ query[c] \in QueryRecord /\ StatementOK(query[c]) /\ query[c].kind \in DOMAIN StatementKinds
           /\ query[c].cap \in Nat \ {0} /\ query[c].rows \in Nat /\ query[c].pending \in Nat /\ query[c].answer \in Answered
           /\ KindOf(c) = StatementKinds[query[c].kind]
           /\ KindOf(c).changes \in Nat /\ KindOf(c).rows \in Nat /\ KindOf(c).statements \in Nat
BY KindFacts DEF QueryInv, QueryRecord, KindOf

LEMMA AsksInv ==
    ASSUME QueryInv, NEW c \in QueryCallers, NEW kind \in DOMAIN StatementKinds, Asks(c, kind)
    PROVE  QueryInv'
<1> DEFINE q == [NoQuery EXCEPT !.stage = "connecting", !.kind = kind, !.cap = cap]
<1>1. q \in QueryRecord /\ q.stage = "connecting" /\ q.kind = kind /\ q.answer.is = "none"
  <2>1. NoAnswerYet \in Answered /\ NoAnswerYet.is = "none"
    BY DEF NoAnswerYet, Answered
  <2> QED BY <2>1 DEF NoQuery, QueryRecord, QueryInv
<1>2. /\ opened /\ query[c].stage = "idle" /\ query' = [query EXCEPT ![c] = q]
      /\ UNCHANGED <<grants, writing, opened, cap, changed, promised, unsure, escaped>>
  BY DEF Asks, AtStep, fixedInQuery
<1> HIDE DEF q
<1>3. StatementOK(q)
  BY <1>1, <1>2 DEF StatementOK
<1> QED BY <1>1, <1>2, <1>3, QueryGoesOn

\* Connects, and every way to fail.
LEMMA SimplyMoves ==
    ASSUME QueryInv, NEW c \in QueryCallers, NEW next \in {"begun", "retried", "failed"}, opened,
           query' = [query EXCEPT ![c] = [query[c] EXCEPT !.stage = next]],
           UNCHANGED <<grants, writing, opened, cap, changed, promised, unsure, escaped>>,
           next = "retried" => KindOf(c).cursor = "42601", query[c].stage # "committed",
           query[c].stage \notin {"idle", "connecting"} \/ Cardinality(OnClient) < MaxClients
    PROVE  QueryInv'
<1> DEFINE q == [query[c] EXCEPT !.stage = next]
<1>1. /\ q \in QueryRecord /\ q.stage = next /\ q.kind = query[c].kind /\ q.cap = query[c].cap
      /\ q.answer = query[c].answer
  BY RequestAt DEF QueryRecord
<1>2. query' = [query EXCEPT ![c] = q]
  OBVIOUS
<1> HIDE DEF q
<1>3. StatementOK(q)
  BY <1>1, RequestAt DEF StatementOK
<1> QED BY <1>1, <1>2, <1>3, QueryGoesOn

\* The statement as it stands has run; what it has committed itself has escaped.
LEMMA RunsInv ==
    ASSUME QueryInv, NEW c \in QueryCallers, NEW rows \in Nat, query[c].stage \in {"begun", "retried"},
           query' = [query EXCEPT ![c] = Runs(c, rows)], CommitsItself(c),
           UNCHANGED <<grants, writing, opened, cap, promised, unsure>>,
           KindOf(c).cursor # "0A000",
           IF rows > query[c].cap THEN KindOf(c).rows > query[c].cap ELSE KindOf(c).rows = rows
    PROVE  QueryInv'
<1> DEFINE more == IF query[c].kind \in HoldsCommit /\ MayChange(c) THEN KindOf(c).changes ELSE 0
<1>1. opened /\ more \in Nat /\ changed' = changed + more /\ escaped' = escaped + more
  BY RequestAt DEF StatementOK, CommitsItself
<1>2. ~writing => more = 0
  BY <1>1 DEF MayChange, QueryInv, Proves, MustBeRefused
<1> HIDE DEF more
<1>3. CASE (KindOf(c).changes > 0 /\ ~MayChange(c)) \/ KindOf(c).statements = 0
  <2> DEFINE q == [query[c] EXCEPT !.stage = "failed"]
  <2>1. /\ q \in QueryRecord /\ q.stage = "failed" /\ q.kind = query[c].kind /\ q.cap = query[c].cap
        /\ q.answer = query[c].answer
    BY RequestAt DEF QueryRecord
  <2>2. query' = [query EXCEPT ![c] = q]
    BY <1>3 DEF Runs
  <2> HIDE DEF q
  <2>3. StatementOK(q)
    BY <1>1, <2>1, RequestAt DEF StatementOK
  <2> QED BY <1>1, <1>2, <2>1, <2>2, <2>3, QueryEscapes
<1>4. CASE ~((KindOf(c).changes > 0 /\ ~MayChange(c)) \/ KindOf(c).statements = 0)
  <2> DEFINE next == IF KindOf(c).statements = 1 THEN "ran" ELSE "failed"
             held == IF query[c].kind \in HoldsCommit THEN 0 ELSE KindOf(c).changes
             q == [query[c] EXCEPT !.stage = next, !.pending = held, !.rows = rows]
  <2>4. held \in Nat /\ next \in {"ran", "failed"}
    BY RequestAt
  <2>5. next = "ran" => /\ KindOf(c).statements = 1 /\ held = KindOf(c).changes
                        /\ ~writing => KindOf(c).changes = 0
    BY <1>4, RequestAt, KindFacts DEF MayChange
  <2> HIDE DEF next, held
  <2>1. /\ q \in QueryRecord /\ q.stage = next /\ q.kind = query[c].kind /\ q.cap = query[c].cap
        /\ q.answer = query[c].answer /\ q.pending = held /\ q.rows = rows
    BY <2>4, RequestAt DEF QueryRecord
  <2>2. query' = [query EXCEPT ![c] = q]
    BY <1>4 DEF Runs, next, held
  <2> HIDE DEF q
  <2>3. StatementOK(q)
    BY <1>1, <2>1, <2>4, <2>5, RequestAt DEF StatementOK
  <2> QED BY <1>1, <1>2, <2>1, <2>2, <2>3, <2>4, QueryEscapes
<1> QED BY <1>3, <1>4

\* A request is answered without a result.
LEMMA RefusedInv ==
    ASSUME QueryInv, NEW c \in QueryCallers, NEW key \in {"busy", "refused"}, query[c].stage # "committed",
           query' = [query EXCEPT ![c] = AnswersWith(c, RefusedAs(key))],
           UNCHANGED <<grants, writing, opened, cap, changed, promised, unsure, escaped>>
    PROVE  QueryInv'
<1> DEFINE q == AnswersWith(c, RefusedAs(key))
<1>1. RefusedAs(key) \in Answered /\ RefusedAs(key).is = key
  BY DEF RefusedAs, NoAnswerYet, Answered
<1>2. q \in QueryRecord /\ q.stage = "idle" /\ q.answer = RefusedAs(key)
  BY <1>1, RequestAt DEF AnswersWith, QueryRecord
<1> HIDE DEF q
<1>3. StatementOK(q)
  BY <1>1, <1>2 DEF StatementOK
<1>4. query' = [query EXCEPT ![c] = q]
  BY DEF q
<1> QED BY <1>2, <1>3, <1>4, QueryGoesOn

LEMMA CommitsInv ==
    ASSUME QueryInv, NEW c \in QueryCallers, NEW answered \in BOOLEAN, Commits(c, answered)
    PROVE  QueryInv'
<1> DEFINE next == IF answered THEN "committed" ELSE "failed"
           q == [query[c] EXCEPT !.stage = next, !.pending = 0]
<1>8. next \in {"committed", "failed"} /\ (answered => next = "committed") /\ (~answered => next = "failed")
  OBVIOUS
<1>1. /\ q \in QueryRecord /\ q.stage = next /\ q.kind = query[c].kind /\ q.cap = query[c].cap
      /\ q.answer = query[c].answer /\ q.rows = query[c].rows
  BY <1>8, RequestAt DEF QueryRecord
<1>2. /\ query[c].stage = "ran" /\ writing /\ query' = [query EXCEPT ![c] = q]
      /\ changed' = changed + query[c].pending
      /\ unsure' = IF answered THEN unsure ELSE unsure + query[c].pending
      /\ UNCHANGED <<grants, writing, opened, cap, promised, escaped>>
  <2>1. [query EXCEPT ![c].stage = next, ![c].pending = 0] = [query EXCEPT ![c] = q]
    BY DEF QueryInv
  <2> QED BY <2>1 DEF Commits, AtStep, fixedInQuery
<1> HIDE DEF q, next
<1>3. StatementOK(q)
  BY <1>1, <1>2, <1>8, RequestAt DEF StatementOK
<1>4. query[c].pending = KindOf(c).changes /\ KindOf(c).statements = 1 /\ KindOf(c).cursor # "0A000"
  BY <1>2, RequestAt DEF StatementOK
<1>5. Owing(query[c]) = 0 /\ (next = "committed" => Owing(q) = query[c].pending) /\ (next = "failed" => Owing(q) = 0)
  <2>1. Owing(query[c]) = 0
    BY <1>2 DEF Owing
  <2>2. KindOf(c).changes = 0 \/ query[c].kind \in CountsRows \cup {"analyzeInsert"}
    BY <1>4, RequestAt, KindFacts
  <2>3. CASE next = "committed"
    BY <1>1, <1>4, <2>1, <2>2, <2>3, RequestAt DEF Owing
  <2>4. CASE next = "failed"
    BY <1>1, <2>1, <2>4 DEF Owing
  <2> QED BY <1>8, <2>1, <2>3, <2>4
<1>6. changed \in Nat /\ promised \in Nat /\ unsure \in Nat /\ escaped \in Nat /\ query[c].pending \in Nat
  BY RequestAt DEF QueryInv
<1>7. /\ changed' + promised + unsure + escaped + Owing(query[c])
           = changed + promised' + unsure' + escaped' + Owing(q)
      /\ changed' \in Nat /\ promised' \in Nat /\ unsure' \in Nat /\ escaped' \in Nat
  <2>1. CASE answered
    BY <1>2, <1>5, <1>6, <1>8, <2>1
  <2>2. CASE ~answered
    BY <1>2, <1>5, <1>6, <1>8, <2>2
  <2> QED BY <2>1, <2>2
<1>9. UNCHANGED <<grants, writing, opened, cap, escaped>> /\ writing /\ query[c].stage \notin {"idle", "connecting"}
  BY <1>2
<1> QED BY <1>1, <1>2, <1>3, <1>7, <1>9, QueryMoves

LEMMA SucceedsInv ==
    ASSUME QueryInv, NEW c \in QueryCallers, Succeeds(c)
    PROVE  QueryInv'
<1> DEFINE q == AnswersWith(c, Result(c))
           told == IF query[c].kind \in CountsRows \cup {"analyzeInsert"} THEN KindOf(c).changes ELSE 0
<1>1. /\ query[c].stage = IF writing THEN "committed" ELSE "ran"
      /\ query' = [query EXCEPT ![c] = q] /\ promised' = promised + told
      /\ UNCHANGED <<grants, writing, opened, cap, changed, unsure, escaped>>
  BY DEF Succeeds, AtStep, fixedInQuery
<1>2. /\ Result(c) \in Answered /\ (Result(c).truncated <=> query[c].rows > query[c].cap)
      /\ Result(c).rows = IF query[c].rows > query[c].cap THEN query[c].cap ELSE query[c].rows
  <2> DEFINE n == IF query[c].kind \in CountsRows THEN KindOf(c).changes ELSE 0
  <2>1. n \in Nat
    BY RequestAt
  <2>2. CASE query[c].rows > query[c].cap
    <3>1. (query[c].rows > query[c].cap) = TRUE
      BY <2>2
    <3>2. Result(c) = [is |-> "ok", rows |-> query[c].cap, truncated |-> TRUE, affected |-> n]
      BY <3>1 DEF Result, CapOf
    <3> HIDE DEF n
    <3> QED BY <2>1, <2>2, <3>2, RequestAt DEF Answered
  <2>3. CASE ~(query[c].rows > query[c].cap)
    <3>1. (query[c].rows > query[c].cap) = FALSE
      BY <2>3
    <3>2. Result(c) = [is |-> "ok", rows |-> query[c].rows, truncated |-> FALSE, affected |-> n]
      BY <3>1 DEF Result, CapOf
    <3> HIDE DEF n
    <3> QED BY <2>1, <2>3, <3>2, RequestAt DEF Answered
  <2> QED BY <2>2, <2>3
<1>3. q \in QueryRecord /\ q.stage = "idle" /\ q.answer = Result(c) /\ q.kind = query[c].kind /\ q.cap = query[c].cap
  BY <1>2, RequestAt DEF AnswersWith, QueryRecord
<1> HIDE DEF q
<1>7. /\ KindOf(c).rows \in Nat /\ query[c].cap \in Nat /\ query[c].rows \in Nat
      /\ IF query[c].rows > query[c].cap THEN KindOf(c).rows > query[c].cap ELSE KindOf(c).rows = query[c].rows
  BY <1>1, RequestAt DEF StatementOK
<1>8. /\ q.answer.truncated <=> KindOf(c).rows > q.cap
      /\ q.answer.rows = IF KindOf(c).rows > q.cap THEN q.cap ELSE KindOf(c).rows
  BY <1>2, <1>3, <1>7
<1>4. StatementOK(q)
  BY <1>3, <1>8, RequestAt DEF StatementOK
<1>5. Owing(q) = 0 /\ Owing(query[c]) = told /\ told \in Nat
  <2>1. Owing(q) = 0
    BY <1>3 DEF Owing
  <2>2. CASE writing
    BY <1>1, <2>1, <2>2, RequestAt DEF Owing
  <2>3. CASE ~writing
    <3>1. query[c].stage = "ran" /\ KindOf(c).changes = 0
      BY <1>1, <2>3, RequestAt DEF StatementOK
    <3> QED BY <2>1, <3>1 DEF Owing
  <2> QED BY <2>2, <2>3
<1> HIDE DEF told
<1>6. changed \in Nat /\ promised \in Nat /\ unsure \in Nat /\ escaped \in Nat
  BY DEF QueryInv
<1>9. /\ changed' + promised + unsure + escaped + Owing(query[c])
           = changed + promised' + unsure' + escaped' + Owing(q)
      /\ changed' \in Nat /\ promised' \in Nat /\ unsure' \in Nat /\ escaped' \in Nat
  BY <1>1, <1>5, <1>6
<1> QED BY <1>1, <1>3, <1>4, <1>9, QueryMoves

LEMMA QueryStep ==
    ASSUME QueryInv, [QueryNext]_queryVars
    PROVE  QueryInv'
<1>1. CASE SavesCap
  <2>1. cap' \in Nat \ {0} /\ UNCHANGED <<grants, writing, opened, query, changed, promised, unsure, escaped>>
    BY <1>1, QueryAssumption DEF SavesCap, fixedInQuery
  <2> QED BY <2>1 DEF QueryInv, StatementOK, Owed, OnClient
<1>2. ASSUME NEW c \in QueryCallers, NEW kind \in DOMAIN StatementKinds, Asks(c, kind) PROVE QueryInv'
  BY <1>2, AsksInv
<1>3. ASSUME NEW c \in QueryCallers, Connects(c) PROVE QueryInv'
  <2>1. /\ query' = [query EXCEPT ![c] = [query[c] EXCEPT !.stage = "begun"]] /\ opened
        /\ query[c].stage = "connecting" /\ Cardinality(OnClient) < MaxClients
        /\ UNCHANGED <<grants, writing, opened, cap, changed, promised, unsure, escaped>>
    BY <1>3, RequestAt DEF Connects, AtStep, fixedInQuery, StatementOK
  <2> QED BY <2>1, SimplyMoves
<1>4. ASSUME NEW c \in QueryCallers, ConnectTimesOut(c) PROVE QueryInv'
  BY <1>4, RefusedInv DEF ConnectTimesOut, AtStep, fixedInQuery
<1>5. ASSUME NEW c \in QueryCallers, Declares(c) PROVE QueryInv'
  <2>1. /\ query[c].stage = "begun" /\ opened
        /\ UNCHANGED <<grants, writing, opened, cap, promised, unsure>>
        /\ IF KindOf(c).cursor \in {"taken", "unwrapped"} THEN CommitsItself(c) ELSE UNCHANGED <<changed, escaped>>
    BY <1>5, RequestAt DEF Declares, AtStep, fixedInQuery, StatementOK
  <2>2. CASE KindOf(c).cursor = "taken"
    <3>1. query' = [query EXCEPT ![c] = Runs(c, Fetched(c))]
      BY <1>5, <2>2 DEF Declares
    <3>2. /\ Fetched(c) \in Nat
          /\ IF Fetched(c) > query[c].cap THEN KindOf(c).rows > query[c].cap ELSE KindOf(c).rows = Fetched(c)
      BY RequestAt DEF Fetched
    <3> QED BY <2>1, <2>2, <3>1, <3>2, RunsInv
  <2>3. CASE KindOf(c).cursor = "unwrapped"
    <3>1. query' = [query EXCEPT ![c] = Runs(c, KindOf(c).rows)]
      BY <1>5, <2>3 DEF Declares
    <3> QED BY <2>1, <2>3, <3>1, RequestAt, RunsInv
  <2>4. CASE KindOf(c).cursor = "42601" /\ writing
    <3>1. query' = [query EXCEPT ![c] = [query[c] EXCEPT !.stage = "retried"]]
      BY <1>5, <2>4 DEF Declares
    <3>2. UNCHANGED <<changed, escaped>>
      BY <2>1, <2>4
    <3> QED BY <2>1, <2>4, <3>1, <3>2, SimplyMoves
  <2>5. CASE KindOf(c).cursor \notin {"taken", "unwrapped"} /\ ~(KindOf(c).cursor = "42601" /\ writing)
    <3>1. query' = [query EXCEPT ![c] = [query[c] EXCEPT !.stage = "failed"]]
      BY <1>5, <2>5 DEF Declares
    <3>2. UNCHANGED <<changed, escaped>>
      BY <2>1, <2>5
    <3> QED BY <2>1, <3>1, <3>2, SimplyMoves
  <2> QED BY <2>2, <2>3, <2>4, <2>5
<1>6. ASSUME NEW c \in QueryCallers, RetriesWithout(c) PROVE QueryInv'
  <2>1. /\ query[c].stage = "retried" /\ KindOf(c).cursor = "42601"
        /\ query' = [query EXCEPT ![c] = Runs(c, KindOf(c).rows)] /\ CommitsItself(c)
        /\ UNCHANGED <<grants, writing, opened, cap, promised, unsure>>
    BY <1>6, RequestAt DEF RetriesWithout, AtStep, fixedInQuery, StatementOK
  <2> QED BY <2>1, RequestAt, RunsInv
<1>7. ASSUME NEW c \in QueryCallers, Aborts(c) PROVE QueryInv'
  <2>1. /\ query[c].stage \in {"begun", "retried", "ran"} /\ opened
        /\ query' = [query EXCEPT ![c] = [query[c] EXCEPT !.stage = "failed"]]
        /\ UNCHANGED <<grants, writing, opened, cap, changed, promised, unsure, escaped>>
    BY <1>7, RequestAt DEF Aborts, fixedInQuery, StatementOK
  <2> QED BY <2>1, SimplyMoves
<1>8. ASSUME NEW c \in QueryCallers, NEW answered \in BOOLEAN, Commits(c, answered) PROVE QueryInv'
  BY <1>8, CommitsInv
<1>9. ASSUME NEW c \in QueryCallers, Refuses(c) PROVE QueryInv'
  BY <1>9, RefusedInv DEF Refuses, AtStep, fixedInQuery
<1>10. ASSUME NEW c \in QueryCallers, Succeeds(c) PROVE QueryInv'
  BY <1>10, SucceedsInv
<1>11. CASE UNCHANGED queryVars
  BY <1>11 DEF queryVars, QueryInv, StatementOK, Owed, OnClient
<1> QED BY <1>1, <1>2, <1>3, <1>4, <1>5, <1>6, <1>7, <1>8, <1>9, <1>10, <1>11 DEF QueryNext

LEMMA QueryInvExact == QueryInv => QueryExact
<1> SUFFICES ASSUME QueryInv PROVE QueryExact
  OBVIOUS
<1>1. AnswersTell
  <2>1. ASSUME NoneOnClient PROVE changed = promised + unsure + escaped
    <3>1. \A c \in QueryCallers : query[c].stage # "committed"
      BY <2>1 DEF NoneOnClient, OnClient
    <3>2. Owed = [c \in QueryCallers |-> 0]
      BY <3>1 DEF Owed, Owing
    <3>3. SumFunction(Owed) = 0
      BY <3>2, SumZero, QueryAssumption
    <3> QED BY <3>3 DEF QueryInv
  <2> QED BY <2>1 DEF AnswersTell, QueryInv
<1>2. CutIsTold
  BY RequestAt DEF CutIsTold, StatementOK
<1>3. RunsCaged
  <2>1. ASSUME OnClient # {} PROVE opened
    BY <2>1, RequestAt DEF OnClient, StatementOK
  <2>2. opened => /\ ~grants.superuser /\ ~grants.readsPasswords
                  /\ IF writing THEN ~grants.deletesAudit ELSE ~grants.inserts
    BY DEF QueryInv, Proves, MustBeRefused, MustSucceed
  <2> QED BY <2>1, <2>2 DEF RunsCaged, QueryInv
<1> QED BY <1>1, <1>2, <1>3 DEF QueryExact

\* What the console's statements rest on holds in every state.
THEOREM QueryInductive == QuerySpec => []QueryInv
<1>1. QueryInit => QueryInv
  BY QueryInitInv
<1>2. QueryInv /\ [QueryNext]_queryVars => QueryInv'
  BY QueryStep
<1> QED BY <1>1, <1>2, PTL DEF QuerySpec

\* What is changed in the database is what the answers promised, but for a COMMIT whose
\* answer was lost and for a text that chains a COMMIT of its own, which takes effect though
\* the answer refuses it; a connection that reads changes nothing either way; and no
\* statement runs outside the pool and the role it is meant to.
THEOREM QueryCorrect == QuerySpec => []QueryExact
<1>1. QueryInv => QueryExact
  BY QueryInvExact
<1> QED BY <1>1, QueryInductive, PTL

-----------------------------------------------------------------------------
(* The delivery page's test send *)

\* What is said of a mail blames the provider just when it issued no token, and a
\* credential just when the server refused it.
LEMMA MailBlames ==
    ASSUME NEW m \in {"password", "oauth2"}, NEW say \in MailSays(m)
    PROVE  /\ say.ok \in BOOLEAN
           /\ say.blames \in {NoStage, "provider", "mailbox", "credentials", "the error itself"}
           /\ say.by \in {"nobody", "network", "server", "provider"}
           /\ say.blames = "provider" <=> say.by = "provider"
           /\ say.blames \in {"mailbox", "credentials"} <=> say.by = "server"
<1> DEFINE Of(by) == IF by = "nobody" THEN {[ok |-> TRUE, blames |-> NoStage, by |-> by]}
                     ELSE {[ok |-> FALSE, blames |-> Describe(e, m), by |-> by] : e \in ErrorsOf(by)}
<1>1. PICK by \in Refusers(m) : say \in Of(by)
  BY DEF MailSays
<1>2. CASE by = "nobody"
  <2>1. say = [ok |-> TRUE, blames |-> NoStage, by |-> by]
    BY <1>1, <1>2
  <2>2. say.ok = TRUE /\ say.blames = NoStage /\ say.by = "nobody"
    BY <2>1, <1>2
  <2> QED BY <2>2 DEF NoStage
<1>3. CASE by # "nobody"
  <2>1. PICK e \in ErrorsOf(by) : say = [ok |-> FALSE, blames |-> Describe(e, m), by |-> by]
    BY <1>1, <1>3
  <2>2. say.ok = FALSE /\ say.blames = Describe(e, m) /\ say.by = by
    BY <2>1
  <2>3. CASE by = "provider"
    <3>1. m = "oauth2" /\ NeverReached(e)
      BY <1>1, <2>3 DEF Refusers, ErrorsOf, NeverReached
    <3> QED BY <2>2, <2>3, <3>1 DEF Describe
  <2>4. CASE by = "server"
    <3>1. ~NeverReached(e) /\ (e.code = "EAUTH" \/ e.response \in {534, 535})
      BY <2>4 DEF ErrorsOf, NeverReached
    <3>2. Describe(e, m) = IF m = "oauth2" THEN "mailbox" ELSE "credentials"
      BY <3>1 DEF Describe
    <3> QED BY <2>2, <2>4, <3>2
  <2>5. CASE by = "network"
    <3>1. ~NeverReached(e) /\ e.code # "EAUTH" /\ e.response \notin {534, 535}
      BY <2>5 DEF ErrorsOf, NeverReached
    <3>2. Describe(e, m) = "the error itself"
      BY <3>1 DEF Describe
    <3> QED BY <2>2, <2>5, <3>2
  <2> QED BY <1>1, <1>3, <2>3, <2>4, <2>5 DEF Refusers
<1> QED BY <1>2, <1>3

\* The same of a channel of either kind, with the channel that says it.
LEMMA ChannelBlames ==
    ASSUME SavedAssumption, NEW s \in SavedSettings, NEW c \in ChannelsOf(s), NEW say \in SaysOf(c, s)
    PROVE  /\ say.ok \in BOOLEAN
           /\ say.blames \in {NoStage, "provider", "mailbox", "credentials", "the error itself"}
           /\ say.by \in {"nobody", "network", "server", "provider"}
           /\ say.blames = "provider" <=> say.by = "provider"
           /\ say.blames \in {"mailbox", "credentials"} <=> say.by = "server"
<1>1. CASE c = "email"
  <2>1. s.mail \in {"password", "oauth2"}
    BY <1>1 DEF SavedAssumption, ChannelsOf, Others, Mails, IsMailConfigured, IsPointedSomewhere, IsIncomplete
  <2>2. say \in MailSays(s.mail)
    BY <1>1 DEF SaysOf
  <2> DEFINE m == s.mail
  <2>3. m \in {"password", "oauth2"} /\ say \in MailSays(m)
    BY <2>1, <2>2
  <2> HIDE DEF m
  <2> QED BY <2>3, MailBlames
<1>2. CASE c # "email"
  <2>1. say \in OtherSays
    BY <1>2 DEF SaysOf
  <2>2. \/ say.ok = TRUE /\ say.blames = NoStage /\ say.by = "nobody"
        \/ say.ok = FALSE /\ say.blames = "the error itself" /\ say.by = "network"
    <3>1. \/ say = [ok |-> TRUE, blames |-> NoStage, by |-> "nobody"]
          \/ say = [ok |-> FALSE, blames |-> "the error itself", by |-> "network"]
      BY <2>1, Zenon DEF OtherSays
    <3>2. CASE say = [ok |-> TRUE, blames |-> NoStage, by |-> "nobody"]
      BY <3>2
    <3>3. CASE say = [ok |-> FALSE, blames |-> "the error itself", by |-> "network"]
      BY <3>3
    <3> QED BY <3>1, <3>2, <3>3
  <2> QED BY <2>2 DEF NoStage
<1> QED BY <1>1, <1>2

\* A destination is a channel, or mail whose settings are incomplete.
LEMMA DestinationsAre ==
    ASSUME SavedAssumption, NEW s \in SavedSettings
    PROVE  /\ ChannelsOf(s) \subseteq Others \cup {"email"}
           /\ Blocked(s) => "email" \notin ChannelsOf(s)
           /\ Destinations(s) = ChannelsOf(s) \cup (IF Blocked(s) THEN {"email"} ELSE {})
BY DEF SavedAssumption, ChannelsOf, Destinations, Blocked, IsMailConfigured, IsPointedSomewhere,
       IsIncomplete, Others

\* There is one notifier, built from what is in force.
LEMMA NotifierIsNew ==
    ASSUME instance \subseteq {settings} PROVE InUse = settings
BY DEF InUse

LEMMA NoTestOK == TestOK(NoTest)
BY DEF TestOK, NoTest, Tests, NoStage

LEMMA CheckStarts == ASSUME SavedAssumption PROVE CheckInit => CheckInv
<1> SUFFICES ASSUME CheckInit PROVE CheckInv
  OBVIOUS
<1>1. TestOK(NoTest) /\ NoTest \in Tests /\ NoTest.stage = NoStage
  BY NoTestOK DEF TestOK, NoTest
<1>2. notice.about = NoTest /\ notice.severity = NoStage /\ notice.tells = {}
  BY DEF CheckInit, NoNotice
<1>3. notice \in [about : Tests, severity : {NoStage, "success", "error"}, tells : SUBSET Results]
  BY <1>1 DEF CheckInit, NoNotice
<1> QED BY <1>1, <1>2, <1>3 DEF CheckInit, CheckInv, RefusalsExact, NoStage

\* The notices and tests do not change.
LEMMA CheckSame ==
    ASSUME CheckInv, UNCHANGED <<test, notice>>, settings' \in SavedSettings, instance' \subseteq {settings'}
    PROVE  CheckInv'
BY DEF CheckInv, TestOK, RefusalsExact, Accounted

\* The results of a test.
ResultsOf(says, skipped) ==
    {[channel |-> c, ok |-> says[c].ok, blames |-> says[c].blames, by |-> says[c].by] : c \in DOMAIN says}
        \cup (IF skipped THEN {Skipped} ELSE {})

LEMMA ResultsAccount ==
    ASSUME SavedAssumption, NEW s \in SavedSettings, NEW skipped \in BOOLEAN, skipped <=> Blocked(s),
           NEW says, DOMAIN says = ChannelsOf(s), \A c \in ChannelsOf(s) : says[c] \in SaysOf(c, s),
           NEW t, t.sentWith = s, t.says = ResultsOf(says, skipped)
    PROVE  t.says \subseteq Results /\ Accounted(t)
<1> DEFINE OneOf(c) == [channel |-> c, ok |-> says[c].ok, blames |-> says[c].blames, by |-> says[c].by]
<1>1. /\ ChannelsOf(s) \subseteq Others \cup {"email"}
      /\ Blocked(s) => "email" \notin ChannelsOf(s)
      /\ Destinations(s) = ChannelsOf(s) \cup (IF Blocked(s) THEN {"email"} ELSE {})
  BY DestinationsAre
<1>2. \A c \in ChannelsOf(s) : /\ OneOf(c) \in Results
                               /\ OneOf(c).channel = c
                               /\ OneOf(c).blames = "provider" <=> OneOf(c).by = "provider"
                               /\ OneOf(c).blames \in {"mailbox", "credentials"} <=> OneOf(c).by = "server"
  <2> TAKE c \in ChannelsOf(s)
  <2> DEFINE say == says[c]
  <2>1. say \in SaysOf(c, s)
    OBVIOUS
  <2>2. /\ say.ok \in BOOLEAN
        /\ say.blames \in {NoStage, "provider", "mailbox", "credentials", "the error itself"}
        /\ say.by \in {"nobody", "network", "server", "provider"}
        /\ say.blames = "provider" <=> say.by = "provider"
        /\ say.blames \in {"mailbox", "credentials"} <=> say.by = "server"
    <3> HIDE DEF say
    <3> QED BY <2>1, ChannelBlames
  <2> QED BY <1>1, <2>2 DEF Results
<1>3. /\ Skipped \in Results /\ Skipped.channel = "email" /\ Skipped.blames = "incomplete"
      /\ Skipped.by = "nobody"
  BY DEF Skipped, Results
<1>4. \A r \in t.says : (\E c \in ChannelsOf(s) : r = OneOf(c)) \/ (Blocked(s) /\ r = Skipped)
  BY DEF ResultsOf
<1>5. /\ \A c \in ChannelsOf(s) : OneOf(c) \in t.says
      /\ Blocked(s) => Skipped \in t.says
  BY DEF ResultsOf
<1> HIDE DEF OneOf
<1>6. t.says \subseteq Results
  BY <1>2, <1>3, <1>4
<1>7. \A d \in Destinations(s) : \E r \in t.says : r.channel = d
  BY <1>1, <1>2, <1>3, <1>5
<1>8. \A q \in t.says, r \in t.says : q.channel = r.channel => q = r
  <2> TAKE q \in t.says, r \in t.says
  <2>3. (\E c \in ChannelsOf(s) : q = OneOf(c)) \/ (Blocked(s) /\ q = Skipped)
    BY <1>4
  <2> HAVE q.channel = r.channel
  <2>1. CASE \E c \in ChannelsOf(s) : q = OneOf(c)
    <3>1. PICK c \in ChannelsOf(s) : q = OneOf(c)
      BY <2>1
    <3>2. q.channel = c /\ r.channel = c
      BY <3>1, <1>2
    <3>3. ~(Blocked(s) /\ r = Skipped)
      BY <3>2, <1>1, <1>3
    <3>4. PICK e \in ChannelsOf(s) : r = OneOf(e)
      BY <3>3, <1>4
    <3>5. e = c
      BY <3>2, <3>4, <1>2
    <3> QED BY <3>1, <3>4, <3>5
  <2>2. CASE Blocked(s) /\ q = Skipped
    <3>1. \A c \in ChannelsOf(s) : OneOf(c).channel # "email"
      BY <2>2, <1>1, <1>2
    <3>2. r = Skipped
      BY <2>2, <3>1, <1>3, <1>4
    <3> QED BY <2>2, <3>2
  <2> QED BY <2>1, <2>2, <2>3
<1>9. \A r \in t.says : /\ r.channel \in Destinations(s)
                        /\ r.blames = "provider" <=> r.by = "provider"
                        /\ r.blames \in {"mailbox", "credentials"} <=> r.by = "server"
  <2> TAKE r \in t.says
  <2>1. CASE \E c \in ChannelsOf(s) : r = OneOf(c)
    BY <2>1, <1>1, <1>2
  <2>2. CASE Blocked(s) /\ r = Skipped
    BY <2>2, <1>1, <1>3
  <2> QED BY <2>1, <2>2, <1>4
<1>11. t.sentWith = s
  OBVIOUS
<1>10. Accounted(t)
  BY <1>7, <1>8, <1>9, <1>11 DEF Accounted
<1> QED BY <1>6, <1>10

LEMMA PressTestInv == CheckInv /\ PressTest => CheckInv'
<1> SUFFICES ASSUME CheckInv, PressTest PROVE CheckInv'
  OBVIOUS
<1>1. TestOK(NoTest) /\ NoTest \in Tests /\ NoTest.says = {}
  BY NoTestOK DEF TestOK, NoTest
<1>2. test' \in Tests /\ test'.stage = "asked" /\ test'.says = {}
  BY <1>1 DEF PressTest, Tests
<1>3. TestOK(test)' /\ RefusalsExact'
  BY <1>2 DEF TestOK, RefusalsExact, NoStage
<1>4. TestOK(notice.about)'
  BY DEF CheckInv, PressTest, TestOK, Accounted
<1> QED BY <1>3, <1>4 DEF CheckInv, PressTest

LEMMA TestServedInv == ASSUME SavedAssumption PROVE CheckInv /\ TestServed => CheckInv'
<1> SUFFICES ASSUME CheckInv, TestServed PROVE CheckInv'
  OBVIOUS
<1>1. InUse = settings /\ settings \in SavedSettings /\ settings' = settings /\ instance' \subseteq {settings'}
  BY NotifierIsNew DEF CheckInv, TestServed, AskNotifier
<1>2. test \in Tests /\ test.says = {} /\ Blocked(settings) \in BOOLEAN
  BY DEF CheckInv, TestServed, TestOK, Blocked
<1>3. TestOK(test)' /\ RefusalsExact'
  <2>1. CASE ChannelsOf(settings) = {}
    <3>1. test' = [test EXCEPT !.sentWith = settings,
                              !.stage = IF Blocked(settings) THEN "mailbox incomplete" ELSE "no channel"]
      BY <1>1, <2>1 DEF TestServed
    <3>2. /\ test' \in Tests /\ test'.sentWith = settings
          /\ test'.stage = IF Blocked(settings) THEN "mailbox incomplete" ELSE "no channel"
      BY <1>1, <1>2, <3>1 DEF Tests
    <3>3. Blocked(settings) => settings.mail = "incomplete" /\ settings.others = {}
      BY <2>1 DEF Blocked, IsIncomplete, ChannelsOf
    <3>4. ~Blocked(settings) => Destinations(settings) = {}
      BY <1>1, <2>1, DestinationsAre
    <3>5. TestOK(test)'
      BY <3>2 DEF TestOK, NoStage
    <3> QED BY <3>2, <3>3, <3>4, <3>5 DEF RefusalsExact
  <2>2. CASE ChannelsOf(settings) # {}
    <3>1. test' = [test EXCEPT !.stage = "sending", !.sentWith = settings, !.skipped = SkippedMail(settings)]
      BY <1>1, <2>2 DEF TestServed
    <3>2. /\ test' \in Tests /\ test'.sentWith = settings /\ test'.stage = "sending" /\ test'.says = {}
          /\ test'.skipped = Blocked(settings)
      BY <1>1, <1>2, <3>1 DEF Tests, SkippedMail
    <3> QED BY <1>1, <3>2 DEF TestOK, RefusalsExact, NoStage
  <2> QED BY <2>1, <2>2
<1>4. TestOK(notice.about)'
  BY DEF CheckInv, TestServed, TestOK, Accounted
<1> QED BY <1>1, <1>3, <1>4 DEF CheckInv, TestServed

LEMMA TestSettlesInv == ASSUME SavedAssumption PROVE CheckInv /\ TestSettles => CheckInv'
<1> SUFFICES ASSUME CheckInv, TestSettles PROVE CheckInv'
  OBVIOUS
<1>1. PICK says \in [ChannelsOf(test.sentWith) -> MailSays("oauth2") \cup MailSays("password")] :
          /\ \A c \in DOMAIN says : says[c] \in SaysOf(c, test.sentWith)
          /\ test' = [test EXCEPT !.says = ResultsOf(says, test.skipped),
                        !.stage = IF \E r \in ResultsOf(says, test.skipped) : r.ok THEN "delivered" ELSE "502"]
  BY DEF TestSettles, ResultsOf
<1> DEFINE s == test.sentWith
<1>2. test \in Tests /\ (test.skipped <=> Blocked(s)) /\ test.skipped \in BOOLEAN
  BY DEF CheckInv, TestSettles, TestOK, Tests
<1>3. s \in SavedSettings /\ DOMAIN says = ChannelsOf(s)
  BY <1>1 DEF CheckInv, TestSettles, TestOK
<1>4. /\ test'.sentWith = s /\ test'.says = ResultsOf(says, test.skipped)
      /\ test'.stage \in {"delivered", "502"} /\ test'.skipped = test.skipped
  BY <1>1, <1>2 DEF Tests
<1>5. test'.says \subseteq Results /\ Accounted(test')
  <2> DEFINE t == test'
             skipped == test.skipped
  <2>1. /\ skipped \in BOOLEAN /\ (skipped <=> Blocked(s))
        /\ t.sentWith = s /\ t.says = ResultsOf(says, skipped)
        /\ \A c \in ChannelsOf(s) : says[c] \in SaysOf(c, s)
    BY <1>1, <1>2, <1>3, <1>4
  <2> HIDE DEF t, s, skipped
  <2>2. t.says \subseteq Results /\ Accounted(t)
    BY <1>3, <2>1, ResultsAccount
  <2> QED BY <2>2 DEF t
<1>6. test' \in Tests
  BY <1>1, <1>2, <1>4, <1>5 DEF Tests
<1>7. TestOK(test)' /\ RefusalsExact'
  BY <1>4, <1>5, <1>6 DEF TestOK, RefusalsExact, NoStage
<1>8. TestOK(notice.about)'
  BY DEF CheckInv, TestSettles, TestOK, Accounted
<1> QED BY <1>7, <1>8 DEF CheckInv, TestSettles

LEMMA TestArrivesInv == CheckInv /\ TestArrives => CheckInv'
<1> SUFFICES ASSUME CheckInv, TestArrives PROVE CheckInv'
  OBVIOUS
<1> DEFINE failed == {r \in test.says : ~r.ok}
           all == test.stage = "delivered" /\ failed = {}
<1>1. settings' = settings /\ settings' \in SavedSettings /\ instance' \subseteq {settings'}
  BY NotifierIsNew DEF CheckInv, TestArrives, AskNotifier
<1>2. TestOK(NoTest) /\ test' = NoTest /\ NoTest.stage = NoStage
  BY NoTestOK DEF TestArrives, NoTest
<1>3. TestOK(test)' /\ RefusalsExact'
  BY <1>2 DEF RefusalsExact, NoStage
<1>4. TestOK(test) /\ test \in Tests
  BY DEF CheckInv, TestOK
<1>5. notice' = [about |-> test, severity |-> IF all THEN "success" ELSE "error",
                 tells |-> IF test.stage = "delivered" THEN failed ELSE {}]
  BY DEF TestArrives
<1>6. failed \subseteq Results
  BY <1>4 DEF Tests
<1>7. /\ notice'.about = test /\ notice'.severity = (IF all THEN "success" ELSE "error")
      /\ notice' \in [about : Tests, severity : {NoStage, "success", "error"}, tells : SUBSET Results]
  <2> HIDE DEF failed, all
  <2> QED BY <1>4, <1>5, <1>6
<1>8. TestOK(notice.about)'
  BY <1>4, <1>7
<1>9. notice'.severity = "success" => all
  BY <1>7
<1> QED BY <1>1, <1>3, <1>7, <1>8, <1>9 DEF CheckInv

LEMMA TestLostInv == CheckInv /\ (TestLost \/ DismissNotice) => CheckInv'
<1> SUFFICES ASSUME CheckInv, TestLost \/ DismissNotice PROVE CheckInv'
  OBVIOUS
<1>1. TestOK(NoTest) /\ NoTest \in Tests /\ NoTest.stage = NoStage /\ NoTest.says = {}
  BY NoTestOK DEF TestOK, NoTest
<1>2. \/ test' = NoTest /\ notice' = [NoNotice EXCEPT !.severity = "error"]
      \/ test' = test /\ notice' = NoNotice
  BY DEF TestLost, DismissNotice
<1>3. settings' = settings /\ instance' = instance
  BY DEF TestLost, DismissNotice
<1>4. /\ notice'.about = NoTest /\ notice'.severity # "success"
      /\ notice' \in [about : Tests, severity : {NoStage, "success", "error"}, tells : SUBSET Results]
  BY <1>1, <1>2 DEF NoNotice, NoStage
<1>5. test' = NoTest => TestOK(test)' /\ RefusalsExact'
  BY <1>1 DEF RefusalsExact, NoStage
<1>6. test' = test => TestOK(test)' /\ RefusalsExact'
  BY DEF CheckInv, RefusalsExact, TestOK, Accounted
<1>7. TestOK(notice.about)'
  BY <1>1, <1>4
<1> QED BY <1>2, <1>3, <1>4, <1>5, <1>6, <1>7 DEF CheckInv

LEMMA CheckStep == ASSUME SavedAssumption PROVE CheckInv /\ [CheckNext]_checkVars => CheckInv'
<1> SUFFICES ASSUME CheckInv, [CheckNext]_checkVars PROVE CheckInv'
  OBVIOUS
<1>1. ASSUME NEW s \in SavedSettings, DeliverySaved(s) PROVE CheckInv'
  BY <1>1, CheckSame DEF DeliverySaved, LetGo, CheckInv
<1>2. ASSUME NEW s \in SavedSettings, Reloaded(s) PROVE CheckInv'
  BY <1>2, CheckSame, NotifierIsNew DEF Reloaded, AskNotifier, CheckInv
<1>3. CASE StatusAsked
  BY <1>3, CheckSame, NotifierIsNew DEF StatusAsked, AskNotifier, CheckInv
<1>4. CASE StatusArrives \/ StatusFails
  BY <1>4, CheckSame DEF StatusArrives, StatusFails, CheckInv
<1>5. CASE UNCHANGED checkVars
  BY <1>5, CheckSame DEF checkVars, CheckInv
<1> QED BY <1>1, <1>2, <1>3, <1>4, <1>5, PressTestInv, TestServedInv, TestSettlesInv, TestArrivesInv,
           TestLostInv DEF CheckNext

\* A test that is accounted for has one result for each destination.
LEMMA AccountedOnce ==
    ASSUME NEW t, Accounted(t), NEW d \in Destinations(t.sentWith)
    PROVE  Cardinality({r \in t.says : r.channel = d}) = 1
<1>1. PICK r \in t.says : r.channel = d
  BY DEF Accounted
<1>2. {q \in t.says : q.channel = d} = {r}
  BY <1>1 DEF Accounted
<1> QED BY <1>2, FS_Singleton

LEMMA CheckShows == CheckInv => TestAccounts /\ RefusalsExact
<1> SUFFICES ASSUME CheckInv PROVE TestAccounts
  BY DEF CheckInv
<1>1. ASSUME NEW t \in {test, notice.about}, t.stage \in {"delivered", "502"}
      PROVE  /\ \A d \in Destinations(t.sentWith) : Cardinality({r \in t.says : r.channel = d}) = 1
             /\ \A r \in t.says : /\ r.channel \in Destinations(t.sentWith)
                                 /\ (r.blames = "provider" <=> r.by = "provider")
                                 /\ (r.blames \in {"mailbox", "credentials"} <=> r.by = "server")
  <2>1. Accounted(t)
    BY <1>1 DEF CheckInv, TestOK
  <2>2. \A d \in Destinations(t.sentWith) : Cardinality({r \in t.says : r.channel = d}) = 1
    BY <2>1, AccountedOnce
  <2>3. \A r \in t.says : /\ r.channel \in Destinations(t.sentWith)
                          /\ (r.blames = "provider" <=> r.by = "provider")
                          /\ (r.blames \in {"mailbox", "credentials"} <=> r.by = "server")
    BY <2>1 DEF Accounted
  <2> QED BY <2>2, <2>3
<1>2. ASSUME notice.severity = "success", NEW d \in Destinations(notice.about.sentWith)
      PROVE  \E r \in notice.about.says : r.channel = d /\ r.ok
  <2>1. Accounted(notice.about) /\ \A r \in notice.about.says : r.ok
    BY <1>2 DEF CheckInv, TestOK
  <2> QED BY <2>1 DEF Accounted
<1> QED BY <1>1, <1>2 DEF TestAccounts

-----------------------------------------------------------------------------
(* Whether mails name their sensor *)

LEMMA ScopeStarts == ASSUME ScopeAssumption PROVE ScopeInit => ScopeInv
<1> SUFFICES ASSUME ScopeInit PROVE ScopeInv
  OBVIOUS
<1>1. /\ look \in [out : BOOLEAN, read : SUBSET (Sensors \cup {"own"}), changed : BOOLEAN]
      /\ look.out /\ look.read = {}
  BY DEF ScopeInit, NoLook
<1>2. AnswerOK
  BY DEF ScopeInit, AnswerOK
<1>3. /\ scopeClock \in Nat /\ due = 0 /\ checkedAt = scopeClock /\ lookEnded = scopeClock
      /\ scopeClock > ScopeTTL /\ due <= scopeClock + ScopeRefresh
  BY DEF ScopeAssumption, ScopeInit, Never
<1>4. present \subseteq Sensors /\ outdated \in BOOLEAN /\ lookFailed \in BOOLEAN
  BY DEF ScopeInit
<1> QED BY <1>1, <1>2, <1>3, <1>4 DEF ScopeInv, Never

LEMMA ScopeStep == ASSUME ScopeAssumption PROVE ScopeInv /\ [ScopeNext]_scopeVars => ScopeInv'
<1> SUFFICES ASSUME ScopeInv, [ScopeNext]_scopeVars PROVE ScopeInv'
  OBVIOUS
<1> USE DEF ScopeAssumption
<1>8. AnswerOK /\ (UNCHANGED <<outdated, several, present>> \/ outdated') => AnswerOK'
  BY DEF AnswerOK
<1>9. AnswerOK
  BY DEF ScopeInv
<1>1. CASE SensorsChange
  <2>1. present' \subseteq Sensors
    BY <1>1 DEF ScopeInv, SensorsChange
  <2>2. /\ look' \in [out : BOOLEAN, read : SUBSET (Sensors \cup {"own"}), changed : BOOLEAN]
        /\ look'.out = look.out /\ look'.read = look.read /\ look'.changed = look.out
    BY <1>1 DEF ScopeInv, SensorsChange
  <2> QED BY <1>1, <1>8, <1>9, <2>1, <2>2 DEF ScopeInv, SensorsChange
<1>2. CASE ScopeTimePasses
  BY <1>2, <1>8, <1>9 DEF ScopeInv, ScopeTimePasses
<1>3. CASE RefreshScope
  <2>1. CASE scopeClock - checkedAt < ScopeTTL
    <3>1. UNCHANGED <<checkedAt, look>>
      BY <1>3, <2>1 DEF RefreshScope
    <3>2. ~look.out => ~lookFailed /\ scopeClock < lookEnded + ScopeTTL
      BY <2>1 DEF ScopeInv, Never
    <3> QED BY <1>3, <1>8, <1>9, <3>1, <3>2 DEF ScopeInv, RefreshScope
  <2>2. CASE ~(scopeClock - checkedAt < ScopeTTL)
    <3>1. checkedAt' = scopeClock /\ look' = IF look.out THEN look ELSE [NoLook EXCEPT !.out = TRUE]
      BY <1>3, <2>2 DEF RefreshScope
    <3>2. /\ look' \in [out : BOOLEAN, read : SUBSET (Sensors \cup {"own"}), changed : BOOLEAN]
          /\ look'.out
          /\ look'.read # {} => look'.read = look.read /\ look'.changed = look.changed
      BY <3>1 DEF ScopeInv, NoLook
    <3> QED BY <1>3, <1>8, <1>9, <3>1, <3>2 DEF ScopeInv, RefreshScope
  <2> QED BY <2>1, <2>2
<1>4. CASE QueryReads
  <2>1. /\ look' \in [out : BOOLEAN, read : SUBSET (Sensors \cup {"own"}), changed : BOOLEAN]
        /\ look'.out /\ look.out /\ look'.read = present \cup {"own"}
    BY <1>4 DEF ScopeInv, QueryReads
  <2> QED BY <1>4, <1>8, <1>9, <2>1 DEF ScopeInv, QueryReads
<1>5. CASE QueryReturns
  <2>1. look' = NoLook /\ ~look'.out /\ look'.read = {}
        /\ look' \in [out : BOOLEAN, read : SUBSET (Sensors \cup {"own"}), changed : BOOLEAN]
    BY <1>5 DEF QueryReturns, LookEnds, NoLook
  <2>2. /\ due' \in Nat /\ due' <= scopeClock + ScopeRefresh
        /\ due' # Never => scopeClock <= due' + TimerLate
    BY <1>5 DEF ScopeInv, QueryReturns, LookEnds, Never
  <2>3. AnswerOK'
    <3>1. look.changed \/ look.read = present \cup {"own"}
      BY <1>5 DEF ScopeInv, QueryReturns
    <3> QED BY <1>5, <3>1 DEF AnswerOK, QueryReturns, LookEnds
  <2>4. outdated' \in BOOLEAN
    BY <1>5 DEF ScopeInv, QueryReturns
  <2>5. /\ UNCHANGED <<present, scopeClock, checkedAt>>
        /\ lookEnded' = scopeClock /\ lookFailed' = FALSE /\ checkedAt <= scopeClock
    BY <1>5 DEF ScopeInv, QueryReturns, LookEnds
  <2>6. /\ present \subseteq Sensors /\ scopeClock \in Nat /\ checkedAt \in Nat
        /\ scopeClock > ScopeTTL
    BY DEF ScopeInv
  <2>7. ~look'.out => /\ IF lookFailed' THEN checkedAt' = Never ELSE checkedAt' <= lookEnded'
                      /\ due' <= lookEnded' + ScopeRefresh + (IF lookFailed' THEN 0 ELSE ScopeTTL)
    BY <2>2, <2>5, <2>6
  <2>8. /\ look'.read # {} => look'.out /\ (look'.changed \/ look'.read = present' \cup {"own"})
        /\ present' \subseteq Sensors /\ lookFailed' \in BOOLEAN
        /\ scopeClock' \in Nat /\ checkedAt' \in Nat /\ lookEnded' \in Nat
        /\ scopeClock' > ScopeTTL /\ checkedAt' <= scopeClock' /\ lookEnded' <= scopeClock'
        /\ due' <= scopeClock' + ScopeRefresh /\ (due' # Never => scopeClock' <= due' + TimerLate)
    <3>1. look'.read # {} => look'.out /\ (look'.changed \/ look'.read = present' \cup {"own"})
      BY <2>1
    <3>2. present' \subseteq Sensors /\ lookFailed' \in BOOLEAN
      BY <2>5, <2>6
    <3>3. /\ scopeClock' \in Nat /\ checkedAt' \in Nat /\ lookEnded' \in Nat
          /\ scopeClock' > ScopeTTL /\ checkedAt' <= scopeClock' /\ lookEnded' <= scopeClock'
      BY <2>5, <2>6
    <3>4. due' <= scopeClock' + ScopeRefresh /\ (due' # Never => scopeClock' <= due' + TimerLate)
      BY <2>2, <2>5
    <3> QED BY <3>1, <3>2, <3>3, <3>4
  <2> HIDE DEF ScopeAssumption
  <2> QED BY <2>1, <2>2, <2>3, <2>4, <2>7, <2>8 DEF ScopeInv
<1>6. CASE QueryFails
  <2>1. look' = NoLook /\ ~look'.out /\ look'.read = {}
        /\ look' \in [out : BOOLEAN, read : SUBSET (Sensors \cup {"own"}), changed : BOOLEAN]
    BY <1>6 DEF QueryFails, LookEnds, NoLook
  <2>2. /\ due' \in Nat /\ due' <= scopeClock + ScopeRefresh
        /\ due' # Never => scopeClock <= due' + TimerLate
    BY <1>6 DEF ScopeInv, QueryFails, LookEnds, Never
  <2> QED BY <1>6, <1>8, <1>9, <2>1, <2>2 DEF ScopeInv, QueryFails, LookEnds, AfterFailure, Never
<1>7. CASE UNCHANGED scopeVars
  BY <1>7, <1>8, <1>9 DEF ScopeInv, scopeVars
<1> QED BY <1>1, <1>2, <1>3, <1>4, <1>5, <1>6, <1>7 DEF ScopeNext

LEMMA ScopeShows == ASSUME ScopeAssumption PROVE ScopeInv => ScopeIsRecent
<1> SUFFICES ASSUME ScopeInv PROVE ScopeIsRecent
  OBVIOUS
<1>1. ~outdated => several = (Cardinality(present \cup {"own"}) > 1)
  BY DEF ScopeInv, AnswerOK
<1>2. due # Never /\ ~look.out =>
        scopeClock <= lookEnded + ScopeRefresh + TimerLate + (IF lookFailed THEN 0 ELSE ScopeTTL)
  BY DEF ScopeInv, ScopeAssumption
<1> QED BY <1>1, <1>2 DEF ScopeIsRecent

-----------------------------------------------------------------------------
(* The trend of the dashboard *)

\* Whole lengths of time in a time.
LEMMA WholeLengths ==
    ASSUME NEW w \in Nat \ {0}, NEW t \in Nat
    PROVE  /\ t \div w \in Nat /\ (t \div w) * w \in Nat
           /\ (t \div w) * w <= t /\ t < (t \div w) * w + w
OBVIOUS
LEMMA LengthsBelow ==
    ASSUME NEW w \in Nat \ {0}, NEW t \in Nat, NEW q \in Nat, q * w <= t
    PROVE  q <= t \div w /\ q * w <= (t \div w) * w
OBVIOUS
LEMMA LengthsAre ==
    ASSUME NEW w \in Nat \ {0}, NEW t \in Nat, NEW q \in Nat, q * w <= t, t < q * w + w
    PROVE  t \div w = q
OBVIOUS
LEMMA LengthsApart ==
    ASSUME NEW w \in Nat \ {0}, NEW a \in Nat, NEW b \in Nat, a * w < b * w
    PROVE  a * w + w <= b * w
<1>1. a < b
  <2> SUFFICES ASSUME b <= a PROVE FALSE
    OBVIOUS
  <2>1. b * w <= a * w
    OBVIOUS
  <2> QED BY <2>1
<1>2. a + 1 <= b
  BY <1>1
<1>3. (a + 1) * w <= b * w
  BY <1>2
<1>4. (a + 1) * w = a * w + w
  OBVIOUS
<1> QED BY <1>3, <1>4
LEMMA LengthsOfLengths ==
    ASSUME NEW w \in Nat \ {0}, NEW d \in Nat \ {0}, w % d = 0
    PROVE  \E k \in Nat \ {0} : w = k * d
<1>1. w = (w \div d) * d /\ w \div d \in Nat
  OBVIOUS
<1>2. w \div d # 0
  <2> SUFFICES ASSUME w \div d = 0 PROVE FALSE
    OBVIOUS
  <2>1. w = 0 * d
    BY <1>1
  <2> QED BY <2>1
<1> QED BY <1>1, <1>2

LEMMA UnitsAre ==
    ASSUME TrendAssumption
    PROVE  /\ Units = {"hour", "day", "week"}
           /\ \A u \in Units : Width[u] \in Nat \ {0}
           /\ Instants \subseteq Nat /\ IsFiniteSet(Instants) /\ MaxStored \in Nat /\ LastInstant \in Nat
<1>1. Units = {"hour", "day", "week"} /\ LastInstant \in Nat /\ MaxStored \in Nat
  BY DEF TrendAssumption, Units
<1>2. \A u \in Units : Width[u] \in Nat \ {0}
  BY DEF TrendAssumption, Units
<1>3. Instants \subseteq Nat /\ IsFiniteSet(Instants)
  BY <1>1, FS_Interval DEF Instants
<1> QED BY <1>1, <1>2, <1>3

\* A bucket starts no later than what falls in it, and ends after it.
LEMMA BucketsHold ==
    ASSUME TrendAssumption, NEW unit \in Units, NEW t \in Nat
    PROVE  /\ StartOfBucket(unit, t) \in Nat
           /\ StartOfBucket(unit, t) <= t /\ t < StartOfBucket(unit, t) + Width[unit]
<1>1. Width[unit] \in Nat \ {0}
  BY UnitsAre
<1> QED BY <1>1, WholeLengths DEF StartOfBucket

\* The first whole day is one that starts no earlier than the window, and the first one.
LEMMA WholeDays ==
    ASSUME TrendAssumption, NEW since \in Nat
    PROVE  /\ FirstWholeDay(since) \in Nat /\ FirstWholeDay(since) >= since
           /\ \A t \in Nat : DayOf(t) \in Nat /\ DayOf(t) <= t /\ t < DayOf(t) + Width["day"]
           /\ Width["day"] \in Nat \ {0}
           /\ \A t \in Nat : DayOf(t) >= since <=> DayOf(t) >= FirstWholeDay(since)
           /\ \A t \in Nat : t >= FirstWholeDay(since) => DayOf(t) >= FirstWholeDay(since)
<1> DEFINE w == Width["day"]
           q == since \div w
           F == FirstWholeDay(since)
<1>1. w \in Nat \ {0}
  BY UnitsAre
<1>2. \A t \in Nat : /\ DayOf(t) = (t \div w) * w /\ t \div w \in Nat
                     /\ DayOf(t) \in Nat /\ DayOf(t) <= t /\ t < DayOf(t) + w
  BY <1>1, WholeLengths DEF DayOf, StartOfBucket
<1>3. q \in Nat /\ DayOf(since) = q * w
  BY <1>2
<1>4. F = (IF DayOf(since) = since THEN since ELSE DayOf(since) + w)
  BY DEF FirstWholeDay
<1> HIDE DEF w, F
<1>5. F \in Nat /\ F >= since /\ \E m \in Nat : F = m * w
  <2>1. CASE DayOf(since) = since
    BY <1>3, <1>4, <2>1
  <2>2. CASE DayOf(since) # since
    <3>1. F = q * w + w /\ q * w + w = (q + 1) * w
      BY <1>1, <1>3, <1>4, <2>2
    <3>2. q + 1 \in Nat /\ F \in Nat
      BY <1>1, <1>2, <1>3, <3>1
    <3>3. since < q * w + w
      BY <1>2, <1>3
    <3>4. F >= since
      BY <3>1, <3>2, <3>3
    <3>5. F = (q + 1) * w
      BY <3>1
    <3>6. \E m \in Nat : F = m * w
      BY <3>2, <3>5
    <3> QED BY <3>2, <3>4, <3>6
  <2> QED BY <2>1, <2>2
<1>6. ASSUME NEW t \in Nat PROVE DayOf(t) >= since <=> DayOf(t) >= F
  <2>1. DayOf(t) = (t \div w) * w /\ t \div w \in Nat /\ DayOf(t) \in Nat
    BY <1>2
  <2>2. CASE DayOf(since) = since
    BY <1>4, <2>2
  <2>3. CASE DayOf(since) # since
    <3>1. F = q * w + w /\ q * w \in Nat /\ q * w <= since /\ q * w # since
      BY <1>2, <1>3, <1>4, <2>3
    <3>2. ASSUME DayOf(t) >= since PROVE DayOf(t) >= F
      <4>1. q * w < (t \div w) * w
        BY <2>1, <3>1, <3>2
      <4>2. q * w + w <= (t \div w) * w
        BY <1>1, <1>3, <2>1, <4>1, LengthsApart
      <4> QED BY <2>1, <3>1, <4>2
    <3> QED BY <1>5, <2>1, <3>2
  <2> QED BY <2>2, <2>3
<1>7. ASSUME NEW t \in Nat, t >= F PROVE DayOf(t) >= F
  <2>1. PICK m \in Nat : F = m * w
    BY <1>5
  <2>2. m * w <= t
    BY <1>5, <1>7, <2>1
  <2>3. m * w <= (t \div w) * w
    BY <1>1, <2>2, LengthsBelow
  <2> QED BY <1>2, <2>1, <2>3
<1>8. \A t \in Nat : DayOf(t) >= since <=> DayOf(t) >= F
  BY <1>6
<1>9. \A t \in Nat : t >= F => DayOf(t) >= F
  BY <1>7
<1> QED BY <1>1, <1>2, <1>5, <1>8, <1>9 DEF w, F

\* A day falls in the day or the week that its instants fall in, and each of them starts with a day.
LEMMA DaysInBuckets ==
    ASSUME TrendAssumption, NEW unit \in {"day", "week"}, NEW t \in Nat
    PROVE  /\ StartOfBucket(unit, DayOf(t)) = StartOfBucket(unit, t)
           /\ DayOf(StartOfBucket(unit, t)) = StartOfBucket(unit, t)
<1> DEFINE d == Width["day"]
           w == Width[unit]
           q == t \div w
           p == t \div d
<1>1. d \in Nat \ {0} /\ w \in Nat \ {0}
  BY UnitsAre
<1>2. \E k \in Nat \ {0} : w = k * d
  <2>1. CASE unit = "day"
    <3>1. w = 1 * d /\ 1 \in Nat \ {0}
      BY <1>1, <2>1
    <3> HIDE DEF w, d
    <3> QED BY <3>1
  <2>2. CASE unit = "week"
    <3>1. w % d = 0
      BY <2>2 DEF TrendAssumption
    <3> QED BY <1>1, <3>1, LengthsOfLengths
  <2> QED BY <2>1, <2>2
<1>3. PICK k \in Nat \ {0} : w = k * d
  BY <1>2
<1>4. /\ q \in Nat /\ p \in Nat /\ q * w \in Nat /\ p * d \in Nat
      /\ q * w <= t /\ t < q * w + w /\ p * d <= t /\ t < p * d + d
  BY <1>1, WholeLengths
<1>5. DayOf(t) = p * d /\ StartOfBucket(unit, t) = q * w
  BY DEF DayOf, StartOfBucket
<1>6. StartOfBucket(unit, DayOf(t)) = ((p * d) \div w) * w /\ DayOf(StartOfBucket(unit, t)) = ((q * w) \div d) * d
  BY <1>5 DEF DayOf, StartOfBucket
<1> HIDE DEF d, w, q, p
<1>7. q * w = (q * k) * d /\ q * k \in Nat
  BY <1>1, <1>3, <1>4
<1>8. q * w <= p * d
  <2>1. (q * k) * d <= t
    BY <1>4, <1>7
  <2>2. (q * k) * d <= (t \div d) * d
    BY <1>1, <1>7, <2>1, LengthsBelow
  <2> QED BY <1>7, <2>2 DEF p
<1>9. (p * d) \div w = q
  <2>1. p * d < q * w + w
    BY <1>1, <1>4
  <2> QED BY <1>1, <1>4, <1>8, <2>1, LengthsAre
<1>10. (q * w) \div d = q * k
  <2>1. (q * k) * d <= q * w /\ q * w < (q * k) * d + d
    BY <1>1, <1>4, <1>7
  <2> QED BY <1>1, <1>4, <1>7, <2>1, LengthsAre
<1> QED BY <1>5, <1>6, <1>7, <1>9, <1>10

LEMMA SumIs == ASSUME NEW f, NEW S PROVE CountOver(f, S) = Total(f, S)
<1> QED BY DEF CountOver, FoldSet, MapThenFoldSet, Total, TheSums, Sums, Next1

\* The days of the instants, and the instants of a day.
LEMMA DaysAre ==
    ASSUME TrendAssumption
    PROVE  /\ IsFiniteSet(Days) /\ Days \subseteq Nat
           /\ \A t \in Instants : DayOf(t) \in Days
           /\ \A d \in Days : d = DayOf(d) /\ OfDay(d) \subseteq Instants
<1>1. IsFiniteSet(Instants) /\ Instants \subseteq Nat
  BY UnitsAre
<1> DEFINE h == [t \in Instants |-> DayOf(t)]
<1>2. Days = {h[t] : t \in Instants}
  BY DEF Days
<1>3. IsFiniteSet(Days)
  <2> HIDE DEF h
  <2> QED BY <1>1, <1>2, ImageFinite
<1>4. \A t \in Nat : DayOf(t) \in Nat /\ DayOf(DayOf(t)) = DayOf(t)
  <2> SUFFICES ASSUME NEW t \in Nat PROVE DayOf(t) \in Nat /\ DayOf(DayOf(t)) = DayOf(t)
    OBVIOUS
  <2>1. DayOf(t) \in Nat
    BY WholeDays
  <2>2. StartOfBucket("day", DayOf(t)) = StartOfBucket("day", t)
    BY DaysInBuckets
  <2> QED BY <2>1, <2>2 DEF DayOf
<1>5. Days \subseteq Nat /\ \A d \in Days : d = DayOf(d)
  BY <1>1, <1>4 DEF Days
<1> QED BY <1>3, <1>5 DEF Days, OfDay

\* The instants of a bucket, those of them in the window, and the days of a bucket.
Whole(unit, bucket) == {t \in Instants : StartOfBucket(unit, t) = bucket}
PartOfBucket(unit, bucket, since) == {t \in Whole(unit, bucket) : t >= since}
DaysIn(unit, bucket) == {d \in Days : StartOfBucket(unit, d) = bucket}
Folded(unit, bucket, since) == {d \in DaysIn(unit, bucket) : d >= FirstWholeDay(since)}
ByDay(f) == [d \in Days |-> Total(f, OfDay(d))]

LEMMA PartsFinite ==
    ASSUME TrendAssumption, NEW unit, NEW bucket, NEW since
    PROVE  /\ IsFiniteSet(Whole(unit, bucket)) /\ Whole(unit, bucket) \subseteq Instants
           /\ IsFiniteSet(PartOfBucket(unit, bucket, since)) /\ PartOfBucket(unit, bucket, since) \subseteq Whole(unit, bucket)
           /\ IsFiniteSet(DaysIn(unit, bucket)) /\ DaysIn(unit, bucket) \subseteq Days
           /\ IsFiniteSet(Folded(unit, bucket, since)) /\ Folded(unit, bucket, since) \subseteq DaysIn(unit, bucket)
           /\ \A d : IsFiniteSet(OfDay(d)) /\ OfDay(d) \subseteq Instants
<1>1. IsFiniteSet(Instants) /\ IsFiniteSet(Days)
  BY UnitsAre, DaysAre
<1>2. /\ Whole(unit, bucket) \subseteq Instants /\ PartOfBucket(unit, bucket, since) \subseteq Whole(unit, bucket)
      /\ DaysIn(unit, bucket) \subseteq Days /\ Folded(unit, bucket, since) \subseteq DaysIn(unit, bucket)
      /\ \A d : OfDay(d) \subseteq Instants
  BY DEF Whole, PartOfBucket, DaysIn, Folded, OfDay
<1> QED BY <1>1, <1>2, FS_Subset

\* What is counted by whole days of a bucket is counted of instants in the window, and of
\* all of them if the bucket starts in the window.
LEMMA DaysCounted ==
    ASSUME TrendAssumption, NEW unit \in {"day", "week"}, NEW bucket, NEW since \in Nat,
           NEW f \in [Instants -> Nat], NEW x \in Instants, bucket = StartOfBucket(unit, x),
           NEW sum, sum = Total(ByDay(f), Folded(unit, bucket, since))
    PROVE  /\ sum \in Nat /\ sum <= Total(f, PartOfBucket(unit, bucket, since))
           /\ bucket >= since => sum = Total(f, PartOfBucket(unit, bucket, since))
<1> DEFINE P == Folded(unit, bucket, since)
           W == PartOfBucket(unit, bucket, since)
           h == [t \in Instants |-> DayOf(t)]
           E == PartsOf(h, Instants, P)
           g == ByDay(f)
<1>0. Instants \subseteq Nat /\ IsFiniteSet(Instants) /\ NatOn(f, Instants)
  BY UnitsAre DEF NatOn
<1>1. IsFiniteSet(P) /\ P \subseteq Days /\ IsFiniteSet(W) /\ W \subseteq Instants
  BY PartsFinite
<1>2. \A p \in P : g[p] = Total(f, PartOf(h, Instants, p))
  <2> SUFFICES ASSUME NEW p \in P PROVE g[p] = Total(f, PartOf(h, Instants, p))
    OBVIOUS
  <2>1. g[p] = Total(f, OfDay(p))
    BY <1>1 DEF ByDay
  <2>2. OfDay(p) = PartOf(h, Instants, p)
    BY DEF OfDay, PartOf
  <2> QED BY <2>1, <2>2
<1>3. Total(g, P) = Total(f, E)
  <2> HIDE DEF P, h, g
  <2> QED BY <1>0, <1>1, <1>2, TotalByParts
<1>e. \A t \in Instants : t \in E <=> DayOf(t) \in P
  BY DEF PartsOf
<1>f. E \subseteq Instants
  BY DEF PartsOf
<1> HIDE DEF E, g, h
<1>4. \A t \in Instants : /\ DayOf(t) \in Days /\ StartOfBucket(unit, DayOf(t)) = StartOfBucket(unit, t)
                          /\ DayOf(t) <= t /\ DayOf(t) \in Nat
                          /\ t \in E <=> StartOfBucket(unit, t) = bucket /\ DayOf(t) >= FirstWholeDay(since)
  <2> SUFFICES ASSUME NEW t \in Instants
               PROVE  /\ DayOf(t) \in Days /\ StartOfBucket(unit, DayOf(t)) = StartOfBucket(unit, t)
                      /\ DayOf(t) <= t /\ DayOf(t) \in Nat
                      /\ t \in E <=> StartOfBucket(unit, t) = bucket /\ DayOf(t) >= FirstWholeDay(since)
    OBVIOUS
  <2>1. DayOf(t) \in Days /\ StartOfBucket(unit, DayOf(t)) = StartOfBucket(unit, t)
    BY <1>0, DaysAre, DaysInBuckets
  <2>2. DayOf(t) <= t /\ DayOf(t) \in Nat
    BY <1>0, WholeDays
  <2>3. t \in E <=> DayOf(t) \in P
    BY <1>e
  <2> QED BY <2>1, <2>2, <2>3 DEF Folded, DaysIn
<1>5. E \subseteq W
  <2> SUFFICES ASSUME NEW t \in E PROVE t \in W
    OBVIOUS
  <2>0. t \in Instants
    BY <1>f
  <2> HIDE DEF P, W
  <2>1. t \in Instants /\ StartOfBucket(unit, t) = bucket /\ DayOf(t) >= FirstWholeDay(since)
    BY <1>4, <2>0
  <2>2. DayOf(t) >= since /\ DayOf(t) <= t /\ t \in Nat /\ DayOf(t) \in Nat
    BY <1>0, <2>1, WholeDays
  <2>3. t >= since
    BY <2>2
  <2> QED BY <2>1, <2>3 DEF W, PartOfBucket, Whole
<1>6. bucket >= since => W \subseteq E
  <2> SUFFICES ASSUME bucket >= since, NEW t \in W PROVE t \in E
    OBVIOUS
  <2>1. t \in Instants /\ StartOfBucket(unit, t) = bucket /\ t \in Nat
    BY <1>0 DEF PartOfBucket, Whole
  <2>2. DayOf(bucket) = bucket /\ bucket \in Nat /\ bucket <= t
    <3>1. unit \in Units
      BY UnitsAre
    <3>2. bucket \in Nat /\ bucket <= t
      BY <2>1, <3>1, BucketsHold
    <3>3. DayOf(StartOfBucket(unit, t)) = StartOfBucket(unit, t)
      BY <2>1, DaysInBuckets
    <3> QED BY <2>1, <3>2, <3>3
  <2>3. bucket >= FirstWholeDay(since)
    BY <2>2, WholeDays
  <2>4. t >= FirstWholeDay(since) /\ FirstWholeDay(since) \in Nat
    BY <2>1, <2>2, <2>3, WholeDays
  <2>5. DayOf(t) >= FirstWholeDay(since)
    BY <2>1, <2>4, WholeDays
  <2> QED BY <1>4, <2>1, <2>5
<1>7. NatOn(f, W)
  BY <1>0, <1>1 DEF NatOn
<1> HIDE DEF W, P
<1>8. Total(f, W) \in Nat /\ Total(f, E) <= Total(f, W)
  BY <1>1, <1>5, <1>7, TotalNat, TotalFewer
<1>9. Total(f, E) \in Nat
  <2>1. IsFiniteSet(E) /\ NatOn(f, E)
    BY <1>1, <1>5, <1>7, FS_Subset DEF NatOn
  <2> QED BY <2>1, TotalNat
<1>10. bucket >= since => E = W
  BY <1>5, <1>6
<1>11. sum = Total(f, E)
  BY <1>3 DEF g, P
<1> QED BY <1>8, <1>9, <1>10, <1>11 DEF W

WholeDaysCounted(f, unit, bucket, since) ==
    LET sum == Total(ByDay(f), Folded(unit, bucket, since))
        all == Total(f, PartOfBucket(unit, bucket, since)) IN
    /\ sum \in Nat /\ sum <= all
    /\ bucket >= since => sum = all
LEMMA DaysCount ==
    ASSUME TrendAssumption, NEW unit \in {"day", "week"}, NEW since \in Nat, NEW x \in Instants
    PROVE  \A f \in [Instants -> Nat] : WholeDaysCounted(f, unit, StartOfBucket(unit, x), since)
<1> TAKE f \in [Instants -> Nat]
<1> DEFINE bucket == StartOfBucket(unit, x)
           sum == Total(ByDay(f), Folded(unit, bucket, since))
<1>1. /\ sum \in Nat /\ sum <= Total(f, PartOfBucket(unit, bucket, since))
      /\ bucket >= since => sum = Total(f, PartOfBucket(unit, bucket, since))
  <2>1. sum = Total(ByDay(f), Folded(unit, bucket, since)) /\ bucket = StartOfBucket(unit, x)
    OBVIOUS
  <2> HIDE DEF sum, bucket
  <2> QED BY <2>1, DaysCounted
<1> QED BY <1>1 DEF WholeDaysCounted

\* Where nothing is counted adds nothing.
LEMMA TotalOutside ==
    ASSUME NEW S, IsFiniteSet(S), NEW f, NatOn(f, S), NEW R \in SUBSET S, \A x \in S \ R : f[x] = 0
    PROVE  Total(f, S) = Total(f, R)
<1> DEFINE Q == S \ R
<1>1. IsFiniteSet(R) /\ IsFiniteSet(Q) /\ R \cap Q = {} /\ S = R \cup Q /\ \A x \in Q : f[x] = 0
  BY FS_Subset
<1> HIDE DEF Q
<1>2. Total(f, R \cup Q) = Total(f, R) + Total(f, Q)
  <2>1. NatOn(f, R \cup Q)
    BY <1>1
  <2> QED BY <1>1, <2>1, TotalUnion
<1>3. Total(f, Q) = 0
  BY <1>1, TotalOfZeros
<1>4. Total(f, R) \in Nat
  BY <1>1, TotalNat DEF NatOn
<1> QED BY <1>1, <1>2, <1>3, <1>4

\* Of four totals, two of which add up to the other two.
LEMMA TotalsBalance ==
    ASSUME NEW S, IsFiniteSet(S), NEW a, NEW b, NEW c, NEW d,
           NatOn(a, S), NatOn(b, S), NatOn(c, S), NatOn(d, S), \A x \in S : a[x] + b[x] = c[x] + d[x]
    PROVE  Total(a, S) + Total(b, S) = Total(c, S) + Total(d, S)
<1> DEFINE e == [x \in S |-> a[x] + b[x]]
<1>1. \A x \in S : e[x] = a[x] + b[x] /\ e[x] = c[x] + d[x]
  OBVIOUS
<1> HIDE DEF e
<1>2. Total(e, S) = Total(a, S) + Total(b, S)
  BY <1>1, TotalAdded
<1>3. Total(e, S) = Total(c, S) + Total(d, S)
  BY <1>1, TotalAdded
<1> QED BY <1>2, <1>3

\* The arithmetic of a bar, of what is kept and has expired (k, e), of the rows and the
\* days that were read (r, d), of what was written and swept in between (v of w, a and b
\* of s), and of the whole days of both (x of b, y of e).
LEMMA BarAddsUp ==
    ASSUME NEW k \in Nat, NEW e \in Nat, NEW w \in Nat, NEW s \in Nat, NEW r \in Nat, NEW d \in Nat,
           NEW v \in Nat, NEW a \in Nat, NEW b \in Nat, NEW x \in Nat, NEW y \in Nat,
           v <= w, a <= s, b <= s, r + v = k + a, d + x = y, x <= b, y <= e, NEW whole \in BOOLEAN,
           whole => x = b /\ y = e
    PROVE  r + d <= k + e + s /\ (whole => r + d + s + w >= k + e)
OBVIOUS

\* The sums of a bar, when rows and days were read at two instants: within what was
\* swept and written between them.
Below(f, g) == \A t \in Instants : f[t] <= g[t]
RowsAre(r, v, k, a, since) ==
    \A t \in Instants : IF t >= since THEN r[t] + v[t] = k[t] + a[t] ELSE r[t] = 0
DaysAreOf(d, b, e, since) ==
    \A day \in Days : IF day >= FirstWholeDay(since) THEN d[day] + ByDay(b)[day] = ByDay(e)[day] ELSE d[day] = 0

ReadBetween(k, e, s, w, r, d, v, a, b, since) ==
    /\ {k, e, s, w, r, v, a, b} \subseteq [Instants -> Nat] /\ d \in [Days -> Nat]
    /\ Below(v, w) /\ Below(a, s) /\ Below(b, s)
    /\ RowsAre(r, v, k, a, since) /\ DaysAreOf(d, b, e, since)

LEMMA BarCounts ==
    ASSUME TrendAssumption, NEW unit \in {"day", "week"}, NEW since \in Nat,
           NEW x \in Instants, NEW bucket, bucket = StartOfBucket(unit, x),
           NEW k, NEW e, NEW s, NEW w, NEW r, NEW d, NEW v, NEW a, NEW b,
           ReadBetween(k, e, s, w, r, d, v, a, b, since),
           NEW W, W = PartOfBucket(unit, bucket, since),
           NEW bar, bar = Total(r, Whole(unit, bucket)) + Total(d, DaysIn(unit, bucket))
    PROVE  /\ bar <= Total(k, W) + Total(e, W) + Total(s, W)
           /\ bucket >= since => bar + Total(s, W) + Total(w, W) >= Total(k, W) + Total(e, W)
           /\ bar \in Nat
<1>0. /\ k \in [Instants -> Nat] /\ e \in [Instants -> Nat] /\ s \in [Instants -> Nat]
      /\ w \in [Instants -> Nat] /\ r \in [Instants -> Nat] /\ v \in [Instants -> Nat]
      /\ a \in [Instants -> Nat] /\ b \in [Instants -> Nat] /\ d \in [Days -> Nat]
      /\ Below(v, w) /\ Below(a, s) /\ Below(b, s)
      /\ RowsAre(r, v, k, a, since) /\ DaysAreOf(d, b, e, since)
  BY DEF ReadBetween
<1> USE <1>0
<1> DEFINE H == Whole(unit, bucket)
           D == DaysIn(unit, bucket)
           P == Folded(unit, bucket, since)
<1>1. /\ IsFiniteSet(H) /\ H \subseteq Instants /\ IsFiniteSet(W) /\ W \subseteq H
      /\ IsFiniteSet(D) /\ D \subseteq Days /\ IsFiniteSet(P) /\ P \subseteq D
  BY PartsFinite
<1>2. \A t \in H \ W : t \in Instants /\ ~(t >= since)
  BY DEF Whole, PartOfBucket
<1>3. \A t \in W : t \in Instants /\ t >= since
  BY DEF PartOfBucket, Whole
<1>4. (\A day \in D \ P : day \in Days /\ ~(day >= FirstWholeDay(since))) /\ \A day \in P : day \in Days /\ day >= FirstWholeDay(since)
  BY DEF DaysIn, Folded
<1>n. /\ NatOn(k, W) /\ NatOn(e, W) /\ NatOn(r, W) /\ NatOn(w, W) /\ NatOn(s, W) /\ NatOn(v, W)
      /\ NatOn(a, W) /\ NatOn(b, W) /\ NatOn(r, H) /\ NatOn(d, D)
  BY <1>1 DEF NatOn
<1>b. \A f \in [Instants -> Nat] : NatOn(ByDay(f), P)
  <2> SUFFICES ASSUME NEW f \in [Instants -> Nat], NEW day \in P PROVE ByDay(f)[day] \in Nat
    BY DEF NatOn
  <2>1. ByDay(f)[day] = Total(f, OfDay(day))
    BY <1>1 DEF ByDay
  <2>2. IsFiniteSet(OfDay(day)) /\ NatOn(f, OfDay(day))
    BY PartsFinite DEF NatOn
  <2> QED BY <2>1, <2>2, TotalNat
<1>d. NatOn(d, P)
  BY <1>1, <1>n DEF NatOn
<1> DEFINE X == Total(ByDay(b), P)
           Y == Total(ByDay(e), P)
<1>5. X \in Nat /\ X <= Total(b, W) /\ (bucket >= since => X = Total(b, W))
  <2>1. WholeDaysCounted(b, unit, bucket, since)
    BY DaysCount
  <2> QED BY <2>1 DEF WholeDaysCounted
<1>6. Y \in Nat /\ Y <= Total(e, W) /\ (bucket >= since => Y = Total(e, W))
  <2>1. WholeDaysCounted(e, unit, bucket, since)
    BY DaysCount
  <2> QED BY <2>1 DEF WholeDaysCounted
<1>7. Total(r, H) = Total(r, W)
  <2>1. \A t \in H \ W : r[t] = 0
    BY <1>2 DEF RowsAre
  <2> HIDE DEF H
  <2> QED BY <1>1, <1>n, <2>1, TotalOutside
<1>8. Total(d, D) = Total(d, P)
  <2>1. \A day \in D \ P : d[day] = 0
    BY <1>4 DEF DaysAreOf
  <2> HIDE DEF D, P
  <2> QED BY <1>1, <1>n, <2>1, TotalOutside
<1>9. Total(r, W) + Total(v, W) = Total(k, W) + Total(a, W)
  <2>1. \A t \in W : r[t] + v[t] = k[t] + a[t]
    BY <1>3 DEF RowsAre
  <2> QED BY <1>1, <1>n, <2>1, TotalsBalance
<1>10. Total(d, P) + X = Y
  <2> DEFINE f == ByDay(b)
             g == ByDay(e)
  <2>1. \A day \in P : g[day] = d[day] + f[day]
    BY <1>4 DEF DaysAreOf
  <2>2. NatOn(f, P) /\ NatOn(g, P)
    BY <1>b
  <2> HIDE DEF f, g, P
  <2>3. Total(g, P) = Total(d, P) + Total(f, P)
    BY <1>1, <1>d, <2>1, <2>2, TotalAdded
  <2> QED BY <2>3 DEF f, g, P
<1>11. Total(v, W) <= Total(w, W)
  BY <1>1, <1>3, <1>n, TotalLess DEF Below
<1>12. Total(a, W) <= Total(s, W)
  BY <1>1, <1>3, <1>n, TotalLess DEF Below
<1>13. Total(b, W) <= Total(s, W)
  BY <1>1, <1>3, <1>n, TotalLess DEF Below
<1>14. /\ Total(k, W) \in Nat /\ Total(e, W) \in Nat /\ Total(r, W) \in Nat /\ Total(w, W) \in Nat
       /\ Total(s, W) \in Nat /\ Total(v, W) \in Nat /\ Total(a, W) \in Nat /\ Total(b, W) \in Nat
  BY <1>1, <1>n, TotalNat
<1>15. Total(d, P) \in Nat
  BY <1>1, <1>d, TotalNat
<1> DEFINE T(f) == Total(f, W)
           n == Total(d, P)
           whole == bucket >= since
<1>16. bar = T(r) + n
  BY <1>7, <1>8
<1>17. whole \in BOOLEAN
  OBVIOUS
<1>18. /\ T(v) <= T(w) /\ T(a) <= T(s) /\ T(b) <= T(s) /\ T(r) + T(v) = T(k) + T(a) /\ n + X = Y
       /\ X <= T(b) /\ Y <= T(e) /\ (whole => X = T(b) /\ Y = T(e))
       /\ X \in Nat /\ Y \in Nat /\ n \in Nat
       /\ T(k) \in Nat /\ T(e) \in Nat /\ T(r) \in Nat /\ T(w) \in Nat
       /\ T(s) \in Nat /\ T(v) \in Nat /\ T(a) \in Nat /\ T(b) \in Nat
  BY <1>5, <1>6, <1>9, <1>10, <1>11, <1>12, <1>13, <1>14, <1>15
<1>19. /\ bar <= T(k) + T(e) + T(s) /\ (whole => bar + T(s) + T(w) >= T(k) + T(e)) /\ bar \in Nat
  <2> HIDE DEF T, n, X, Y, whole
  <2>1. T(r) + n <= T(k) + T(e) + T(s) /\ (whole => T(r) + n + T(s) + T(w) >= T(k) + T(e))
    BY <1>17, <1>18, BarAddsUp
  <2>2. T(r) + n \in Nat
    BY <1>18
  <2> QED BY <1>16, <2>1, <2>2
<1> QED BY <1>19

\* An answer whose rows and days were read at two instants; the bars it is shown as.
AnswerHolds(q, k, e, s, w) ==
    \E v, a, b \in [Instants -> Nat] :
        /\ Below(v, w) /\ Below(a, s) /\ Below(b, s)
        /\ RowsAre(q.rows, v, k, a, q.since) /\ DaysAreOf(q.days, b, e, q.since)
BarOf(q, bucket) ==
    IF q.unit = "week" => bucket >= q.since
    THEN CountOver(q.rows, Whole(q.unit, bucket)) + CountOver(q.days, DaysIn(q.unit, bucket)) ELSE 0
BarHolds(q, k, e, s, w, bucket) ==
    LET W == PartOfBucket(q.unit, bucket, q.since) IN
    /\ BarOf(q, bucket) <= Total(k, W) + Total(e, W) + Total(s, W)
    /\ bucket >= q.since => BarOf(q, bucket) >= Total(k, W) + Total(e, W) - Total(s, W) - Total(w, W)
Buckets(unit) == {StartOfBucket(unit, t) : t \in Instants}

LEMMA BarsHold ==
    ASSUME TrendAssumption, NEW q \in TrendRequests, q.unit # "hour",
           NEW k \in [Instants -> Nat], NEW e \in [Instants -> Nat],
           NEW s \in [Instants -> Nat], NEW w \in [Instants -> Nat],
           AnswerHolds(q, k, e, s, w), NEW bucket \in Buckets(q.unit)
    PROVE  BarHolds(q, k, e, s, w, bucket)
<1> DEFINE unit == q.unit
           since == q.since
           r == q.rows
           d == q.days
           W == PartOfBucket(unit, bucket, since)
           bar == Total(r, Whole(unit, bucket)) + Total(d, DaysIn(unit, bucket))
<1>1. /\ unit \in {"day", "week"} /\ since \in Nat /\ r \in [Instants -> Nat] /\ d \in [Days -> Nat]
  BY UnitsAre DEF TrendRequests
<1>2. PICK v \in [Instants -> Nat], a \in [Instants -> Nat], b \in [Instants -> Nat] :
        /\ Below(v, w) /\ Below(a, s) /\ Below(b, s)
        /\ RowsAre(r, v, k, a, since) /\ DaysAreOf(d, b, e, since)
  BY DEF AnswerHolds
<1>b. ReadBetween(k, e, s, w, r, d, v, a, b, since)
  BY <1>1, <1>2 DEF ReadBetween
<1>3. PICK x \in Instants : bucket = StartOfBucket(unit, x)
  BY DEF Buckets
<1>n. \A f \in [Instants -> Nat] : Total(f, W) \in Nat
  <2> SUFFICES ASSUME NEW f \in [Instants -> Nat] PROVE Total(f, W) \in Nat
    OBVIOUS
  <2>1. IsFiniteSet(W) /\ NatOn(f, W)
    BY PartsFinite DEF NatOn
  <2> QED BY <2>1, TotalNat
<1>o. BarOf(q, bucket) = IF unit = "week" => bucket >= since THEN bar ELSE 0
  BY SumIs DEF BarOf
<1>4. W = PartOfBucket(unit, bucket, since) /\ bar = Total(r, Whole(unit, bucket)) + Total(d, DaysIn(unit, bucket))
  OBVIOUS
<1> HIDE DEF unit, since, r, d, W, bar
<1>5. /\ bar <= Total(k, W) + Total(e, W) + Total(s, W)
      /\ bucket >= since => bar + Total(s, W) + Total(w, W) >= Total(k, W) + Total(e, W)
      /\ bar \in Nat
  BY <1>1, <1>b, <1>3, <1>4, BarCounts
<1> DEFINE K == Total(k, W)
           E == Total(e, W)
           S == Total(s, W)
           V == Total(w, W)
           B == BarOf(q, bucket)
<1>6. K \in Nat /\ E \in Nat /\ S \in Nat /\ V \in Nat
  BY <1>n
<1>7. B <= K + E + S /\ (bucket >= since => B >= K + E - S - V)
  <2>1. bar <= K + E + S /\ (bucket >= since => bar + S + V >= K + E) /\ bar \in Nat
    BY <1>5
  <2> HIDE DEF K, E, S, V, B
  <2>2. B = bar \/ (B = 0 /\ ~(bucket >= since))
    BY <1>o DEF B
  <2> QED BY <1>6, <2>1, <2>2
<1> QED BY <1>7, <1>4 DEF BarHolds, unit, since

\* An hour is made of the rows alone, read by one query.
LEMMA HoursHold ==
    ASSUME TrendAssumption, NEW q \in TrendRequests, q.unit = "hour",
           NEW k \in [Instants -> Nat], NEW bucket,
           \A t \in Instants : q.rows[t] = IF t >= q.since THEN k[t] ELSE 0,
           \A d \in Days : q.days[d] = 0
    PROVE  BarOf(q, bucket) = Total(k, PartOfBucket(q.unit, bucket, q.since))
<1> DEFINE H == Whole(q.unit, bucket)
           W == PartOfBucket(q.unit, bucket, q.since)
           D == DaysIn(q.unit, bucket)
           r == q.rows
           y == q.days
<1>1. /\ IsFiniteSet(H) /\ H \subseteq Instants /\ IsFiniteSet(W) /\ W \subseteq H
      /\ IsFiniteSet(D) /\ D \subseteq Days
  BY PartsFinite
<1>2. NatOn(r, H) /\ NatOn(k, W)
  BY <1>1 DEF NatOn, TrendRequests
<1>3. (\A t \in H \ W : r[t] = 0) /\ \A t \in W : r[t] = k[t]
  BY DEF PartOfBucket, Whole
<1>4. \A t \in D : y[t] = 0
  BY <1>1
<1>5. BarOf(q, bucket) = Total(r, H) + Total(y, D)
  BY SumIs DEF BarOf
<1>6. W = PartOfBucket(q.unit, bucket, q.since)
  OBVIOUS
<1> HIDE DEF H, W, D, r, y
<1>7. Total(r, H) = Total(r, W) /\ Total(y, D) = 0
  BY <1>1, <1>2, <1>3, <1>4, TotalOutside, TotalOfZeros
<1>8. Total(r, W) = Total(k, W)
  BY <1>1, <1>3, TotalSame
<1>9. Total(k, W) \in Nat
  BY <1>1, <1>2, TotalNat
<1> QED BY <1>5, <1>6, <1>7, <1>8, <1>9

\* The marker lies after every instant of a day that was folded in.
LEMMA MarkerIsLater ==
    ASSUME TrendAssumption, NEW q \in TrendRequests, NEW e \in [Instants -> Nat],
           \A d \in Days : q.days[d] = IF d >= FirstWholeDay(q.since) THEN ByDay(e)[d] ELSE 0,
           NEW folded, folded = {d \in Days : q.days[d] > 0},
           NEW t \in Instants, t >= FirstWholeDay(q.since), e[t] > 0
    PROVE  folded # {} /\ t < Max(folded) + Width["day"]
<1> DEFINE d == DayOf(t)
<1>1. d \in Days /\ t \in Nat /\ t < d + Width["day"] /\ d >= FirstWholeDay(q.since) /\ Width["day"] \in Nat /\ d \in Nat
  <2>1. t \in Nat /\ q.since \in Nat
    BY UnitsAre DEF TrendRequests
  <2>2. d \in Days
    BY DaysAre
  <2> QED BY <2>1, <2>2, WholeDays
<1>2. q.days[d] = Total(e, OfDay(d))
  BY <1>1 DEF ByDay
<1>3. Total(e, OfDay(d)) = e[t] + Total(e, OfDay(d) \ {t}) /\ Total(e, OfDay(d) \ {t}) \in Nat
  <2> DEFINE S == OfDay(d)
             R == S \ {t}
  <2>1. IsFiniteSet(S) /\ NatOn(e, S) /\ t \in S
    BY PartsFinite DEF NatOn, OfDay
  <2>2. IsFiniteSet(R) /\ NatOn(e, R)
    BY <2>1, FS_Subset DEF NatOn
  <2> HIDE DEF S
  <2>3. Total(e, S) = e[t] + Total(e, R)
    BY <2>1, TotalApart
  <2> HIDE DEF R
  <2>4. Total(e, R) \in Nat
    BY <2>2, TotalNat
  <2> QED BY <2>3, <2>4 DEF S, R
<1>4. d \in folded
  <2>1. e[t] \in Nat
    OBVIOUS
  <2>2. q.days[d] > 0
    BY <1>2, <1>3, <2>1
  <2> QED BY <1>1, <2>2
<1>5. folded \in SUBSET Nat /\ IsFiniteSet(folded) /\ folded # {}
  BY <1>4, DaysAre, FS_Subset
<1>6. Max(folded) \in folded /\ Max(folded) >= d
  <2>1. \E x \in folded : \A y \in folded : x >= y
    BY <1>5, LargestOf
  <2> QED BY <1>4, <2>1 DEF Max
<1> HIDE DEF d
<1>7. Max(folded) \in Nat
  BY <1>5, <1>6
<1>8. t < Max(folded) + Width["day"]
  BY <1>1, <1>6, <1>7
<1> QED BY <1>5, <1>8

\* What retention moves of one day is counted by that day.
Adds(f, m, g) == \A t \in Instants : g[t] = f[t] + m[t]
MovesOf(m, k, gone) == \A t \in Instants : m[t] = IF t \in gone THEN k[t] ELSE 0
LEMMA MovedOfDay ==
    ASSUME TrendAssumption, NEW day \in Days, NEW gone \in SUBSET OfDay(day), NEW k \in [Instants -> Nat],
           NEW m \in [Instants -> Nat], MovesOf(m, k, gone), NEW d \in Days
    PROVE  Total(m, OfDay(d)) = IF d = day THEN Total(k, gone) ELSE 0
<1> USE DEF MovesOf
<1>1. IsFiniteSet(OfDay(d)) /\ OfDay(d) \subseteq Instants /\ IsFiniteSet(OfDay(day)) /\ OfDay(day) \subseteq Instants
  BY PartsFinite
<1>2. CASE d = day
  <2>1. NatOn(m, OfDay(day)) /\ \A t \in OfDay(day) \ gone : m[t] = 0
    BY <1>1 DEF NatOn
  <2>2. Total(m, OfDay(day)) = Total(m, gone)
    BY <1>1, <2>1, TotalOutside
  <2>3. IsFiniteSet(gone) /\ \A t \in gone : m[t] = k[t]
    BY <1>1, FS_Subset
  <2>4. Total(m, gone) = Total(k, gone)
    BY <2>3, TotalSame
  <2> QED BY <1>2, <2>2, <2>4
<1>3. CASE d # day
  <2>1. \A t \in OfDay(d) : t \in Instants /\ t \notin gone
    BY <1>3 DEF OfDay
  <2>2. \A t \in OfDay(d) : m[t] = 0
    BY <2>1
  <2>3. Total(m, OfDay(d)) = 0
    BY <1>1, <2>2, TotalOfZeros
  <2> QED BY <1>3, <2>3
<1> QED BY <1>2, <1>3

LEMMA AddedOfDay ==
    ASSUME TrendAssumption, NEW f \in [Instants -> Nat], NEW m \in [Instants -> Nat], NEW g, Adds(f, m, g), NEW d
    PROVE  Total(g, OfDay(d)) = Total(f, OfDay(d)) + Total(m, OfDay(d))
<1>1. IsFiniteSet(OfDay(d)) /\ OfDay(d) \subseteq Instants
  BY PartsFinite
<1>2. NatOn(f, OfDay(d)) /\ NatOn(m, OfDay(d)) /\ \A t \in OfDay(d) : g[t] = f[t] + m[t]
  BY <1>1 DEF NatOn, Adds
<1> QED BY <1>1, <1>2, TotalAdded

LEMMA TotalsOfDays ==
    ASSUME TrendAssumption
    PROVE  \A f \in [Instants -> Nat] : \A d : Total(f, OfDay(d)) \in Nat /\ Total(f, Instants) \in Nat
<1> SUFFICES ASSUME NEW f \in [Instants -> Nat], NEW d PROVE Total(f, OfDay(d)) \in Nat /\ Total(f, Instants) \in Nat
  OBVIOUS
<1>1. IsFiniteSet(OfDay(d)) /\ IsFiniteSet(Instants) /\ NatOn(f, OfDay(d)) /\ NatOn(f, Instants)
  BY PartsFinite, UnitsAre DEF NatOn
<1> QED BY <1>1, TotalNat

LEMMA NothingCounted ==
    ASSUME TrendAssumption
    PROVE  /\ NoneOf \in [Instants -> Nat] /\ \A t \in Instants : NoneOf[t] = 0
           /\ \A d : Total(NoneOf, OfDay(d)) = 0
           /\ Total(NoneOf, Instants) = 0
<1>1. NoneOf \in [Instants -> Nat] /\ \A t \in Instants : NoneOf[t] = 0
  BY DEF NoneOf
<1>2. \A d : IsFiniteSet(OfDay(d)) /\ OfDay(d) \subseteq Instants
  BY PartsFinite
<1>3. IsFiniteSet(Instants)
  BY UnitsAre
<1>4. \A d : Total(NoneOf, OfDay(d)) = 0
  <2> SUFFICES ASSUME NEW d PROVE Total(NoneOf, OfDay(d)) = 0
    OBVIOUS
  <2>1. \A t \in OfDay(d) : NoneOf[t] = 0
    BY <1>1, <1>2
  <2> QED BY <1>2, <2>1, TotalOfZeros
<1>5. Total(NoneOf, Instants) = 0
  BY <1>1, <1>3, TotalOfZeros
<1> QED BY <1>1, <1>4, <1>5

LEMMA TrendStarts == ASSUME TrendAssumption, TrendInit PROVE TrendInv
<1>1. 0 \in Instants /\ "day" \in Units /\ MaxStored \in Nat
  BY UnitsAre DEF Instants
<1>2. NoTrendRequest \in TrendRequests
  BY <1>1, NothingCounted DEF NoTrendRequest, TrendRequests
<1>3. CountsHold
  <2>1. \A d \in Days : rollup[d] = CountOver(expired, OfDay(d))
    BY NothingCounted, SumIs DEF TrendInit
  <2>2. CountOver(kept, Instants) + CountOver(expired, Instants) <= MaxStored
    BY <1>1, NothingCounted, SumIs DEF TrendInit
  <2>3. \A t \in Instants : sweptSince[t] <= expired[t] /\ writtenSince[t] <= kept[t] + expired[t]
    BY NothingCounted DEF TrendInit
  <2> QED BY <2>1, <2>2, <2>3 DEF CountsHold
<1>4. RequestHolds(trendRequest)
  BY DEF TrendInit, RequestHolds, NoTrendRequest
<1>5. /\ trendClock \in Instants /\ rollup \in [Days -> Nat]
      /\ kept \in [Instants -> Nat] /\ expired \in [Instants -> Nat]
      /\ sweptSince \in [Instants -> Nat] /\ writtenSince \in [Instants -> Nat]
  BY <1>1, NothingCounted DEF TrendInit
<1> QED BY <1>2, <1>3, <1>4, <1>5 DEF TrendInv, TrendInit

LEMMA TrendAsks ==
    ASSUME TrendAssumption, TrendInv, NEW window \in Windows, NEW unit \in Units, Ask(window, unit)
    PROVE  TrendInv'
<1>1. trendClock - window \in Instants
  <2>1. LastInstant \in Nat /\ window \in Nat /\ window <= trendClock
    BY UnitsAre DEF TrendAssumption, Ask
  <2>2. trendClock \in Nat /\ trendClock <= LastInstant
    BY <2>1 DEF TrendInv, Instants
  <2> QED BY <2>1, <2>2 DEF Instants
<1> DEFINE request == [stage |-> "asking", unit |-> unit, since |-> trendClock - window,
                   toRead |-> IF FoldsRollup(unit) THEN {"rows", "days"} ELSE {"rows"},
                   rows |-> NoneOf, days |-> [d \in Days |-> 0]]
<1>2. trendRequest' = request
  BY DEF Ask
<1>3. request \in TrendRequests
  BY <1>1, NothingCounted DEF TrendRequests
<1>4. /\ request.unit = unit /\ request.days = [d \in Days |-> 0]
      /\ request.toRead = IF unit # "hour" THEN {"rows", "days"} ELSE {"rows"}
  BY DEF FoldsRollup
<1> HIDE DEF request
<1>5. RequestHolds(trendRequest)'
  <2>1. request.toRead # {} /\ request.toRead # {"days"}
    BY <1>4
  <2>2. IF unit = "hour" THEN request.toRead = {"rows"} ELSE request.toRead # {"rows"}
    BY <1>4
  <2>3. \A d \in Days : request.days[d] = 0
    BY <1>4
  <2> QED BY <1>2, <1>4, <2>1, <2>2, <2>3 DEF RequestHolds
<1>6. CountsHold'
  BY NothingCounted DEF Ask, TrendInv, CountsHold
<1>7. sweptSince' \in [Instants -> Nat] /\ writtenSince' \in [Instants -> Nat]
  BY NothingCounted DEF Ask
<1> QED BY <1>2, <1>3, <1>5, <1>6, <1>7 DEF TrendInv, Ask

LEMMA TrendTicks ==
    ASSUME TrendAssumption, TrendInv, TrendTick PROVE TrendInv'
<1>1. trendClock' \in Instants
  BY UnitsAre DEF TrendTick, TrendInv, Instants
<1>2. UNCHANGED <<kept, rollup, trendRequest, expired, sweptSince, writtenSince>>
  BY DEF TrendTick
<1>3. CountsHold'
  BY <1>2 DEF TrendInv, CountsHold
<1>4. RequestHolds(trendRequest)'
  BY <1>2 DEF TrendInv, RequestHolds, RowsHold, DaysHold
<1> QED BY <1>1, <1>2, <1>3, <1>4 DEF TrendInv

\* The first of two queries finds nothing swept or written since; a request is answered
\* by its last query.
LEMMA TrendReads ==
    ASSUME TrendAssumption, TrendInv, ReadRows \/ ReadDays PROVE TrendInv'
<1> DEFINE q == trendRequest
           rows == [t \in Instants |-> IF t >= q.since THEN kept[t] ELSE 0]
           days == [d \in Days |-> IF d >= FirstWholeDay(q.since) THEN rollup[d] ELSE 0]
<1>1. /\ q \in TrendRequests /\ q.stage = "asking" /\ RequestHolds(q)
      /\ UNCHANGED <<trendClock, kept, rollup, expired>> /\ Observing
  BY DEF ReadRows, ReadDays, TrendInv
<1>2. /\ sweptSince' \in [Instants -> Nat] /\ writtenSince' \in [Instants -> Nat]
      /\ FirstQuery => sweptSince' = NoneOf /\ writtenSince' = NoneOf
      /\ ~FirstQuery => sweptSince' = sweptSince /\ writtenSince' = writtenSince
  BY <1>1, NothingCounted DEF Observing, TrendInv
<1>3. CountsHold'
  <2>1. \A t \in Instants : /\ sweptSince'[t] <= expired[t]
                            /\ writtenSince'[t] <= kept[t] + expired[t]
    BY <1>2, NothingCounted DEF TrendInv, CountsHold
  <2> QED BY <1>1, <2>1 DEF TrendInv, CountsHold
<1>4. rows \in [Instants -> Nat] /\ days \in [Days -> Nat]
  BY DEF TrendInv
<1>5. trendRequest' \in TrendRequests
  <2>1. CASE ReadRows
    <3>1. trendRequest' = QueryAnswered("rows", rows)
      BY <2>1 DEF ReadRows
    <3> HIDE DEF rows
    <3> QED BY <1>1, <1>4, <3>1 DEF QueryAnswered, TrendRequests
  <2>2. CASE ReadDays
    <3>1. trendRequest' = QueryAnswered("days", days)
      BY <2>2 DEF ReadDays
    <3> HIDE DEF days
    <3> QED BY <1>1, <1>4, <3>1 DEF QueryAnswered, TrendRequests
  <2> QED BY <2>1, <2>2
<1>6. RequestHolds(trendRequest)'
  <2>1. CASE ReadRows
    <3>1. trendRequest' = QueryAnswered("rows", rows)
      BY <2>1 DEF ReadRows
    <3> SUFFICES ASSUME trendRequest'.stage = "asking" PROVE RequestHolds(trendRequest)'
      BY DEF RequestHolds
    <3> HIDE DEF rows
    <3>2. /\ trendRequest'.rows = rows /\ trendRequest'.toRead = q.toRead \ {"rows"}
          /\ trendRequest'.since = q.since /\ trendRequest'.unit = q.unit /\ q.toRead # {"rows"}
      BY <1>1, <3>1 DEF QueryAnswered, TrendRequests
    <3>3. q.toRead = {"rows", "days"} /\ q.unit # "hour" /\ trendRequest'.toRead = {"days"}
      BY <1>1, <2>1, <3>2 DEF TrendRequests, RequestHolds, ReadRows
    <3>4. sweptSince' = NoneOf /\ writtenSince' = NoneOf
      BY <1>2, <3>3 DEF FirstQuery
    <3>5. RowsHold(trendRequest)'
      <4>1. \A t \in Instants : IF t >= q.since THEN rows[t] + NoneOf[t] = kept[t] + NoneOf[t] ELSE rows[t] = 0
        BY <1>4, NothingCounted DEF rows, TrendInv
      <4> QED BY <1>1, <3>2, <3>4, <4>1 DEF RowsHold
    <3> QED BY <3>2, <3>3, <3>5 DEF RequestHolds
  <2>2. CASE ReadDays
    <3>1. trendRequest' = QueryAnswered("days", days)
      BY <2>2 DEF ReadDays
    <3> SUFFICES ASSUME trendRequest'.stage = "asking" PROVE RequestHolds(trendRequest)'
      BY DEF RequestHolds
    <3> HIDE DEF days
    <3>2. /\ trendRequest'.days = days /\ trendRequest'.toRead = q.toRead \ {"days"}
          /\ trendRequest'.since = q.since /\ trendRequest'.unit = q.unit /\ q.toRead # {"days"}
      BY <1>1, <3>1 DEF QueryAnswered, TrendRequests
    <3>3. q.toRead = {"rows", "days"} /\ q.unit # "hour" /\ trendRequest'.toRead = {"rows"}
      BY <1>1, <2>2, <3>2 DEF TrendRequests, RequestHolds, ReadDays
    <3>4. sweptSince' = NoneOf /\ writtenSince' = NoneOf
      BY <1>2, <3>3 DEF FirstQuery
    <3>5. DaysHold(trendRequest)'
      <4>1. \A d \in Days : IF d >= FirstWholeDay(q.since) THEN days[d] + CountOver(NoneOf, OfDay(d)) = rollup[d] ELSE days[d] = 0
        BY <1>4, NothingCounted, SumIs DEF days, TrendInv
      <4> QED BY <1>1, <3>2, <3>4, <4>1 DEF DaysHold
    <3> QED BY <3>2, <3>3, <3>5 DEF RequestHolds
  <2> QED BY <2>1, <2>2
<1> QED BY <1>1, <1>2, <1>3, <1>5, <1>6 DEF TrendInv

LEMMA TrendStores ==
    ASSUME TrendAssumption, TrendInv, NEW t \in Instants, StoreFinding(t)
    PROVE  TrendInv'
<1>1. /\ kept' = [kept EXCEPT ![t] = @ + 1] /\ writtenSince' = [writtenSince EXCEPT ![t] = @ + 1]
      /\ UNCHANGED <<trendClock, rollup, trendRequest, expired, sweptSince>>
      /\ Total(kept, Instants) + Total(expired, Instants) < MaxStored
  BY SumIs DEF StoreFinding
<1>2. /\ kept \in [Instants -> Nat] /\ kept' \in [Instants -> Nat] /\ expired \in [Instants -> Nat]
      /\ writtenSince \in [Instants -> Nat] /\ writtenSince' \in [Instants -> Nat] /\ sweptSince \in [Instants -> Nat]
  BY <1>1 DEF TrendInv
<1>3. /\ kept'[t] = kept[t] + 1 /\ writtenSince'[t] = writtenSince[t] + 1
      /\ \A u \in Instants \ {t} : kept'[u] = kept[u] /\ writtenSince'[u] = writtenSince[u]
  BY <1>1, <1>2
<1>4. Total(kept', Instants) = Total(kept, Instants) + 1
  <2> DEFINE k == kept
             l == kept'
             I == Instants
             R == I \ {t}
  <2>1. IsFiniteSet(I) /\ NatOn(k, I) /\ NatOn(l, I) /\ IsFiniteSet(R) /\ NatOn(k, R)
    BY <1>2, UnitsAre, FS_Subset DEF NatOn
  <2>2. l[t] = k[t] + 1 /\ k[t] \in Nat /\ \A u \in R : l[u] = k[u]
    BY <1>2, <1>3
  <2> HIDE DEF k, l
  <2>3. Total(k, I) = k[t] + Total(k, R) /\ Total(l, I) = l[t] + Total(l, R)
    BY <2>1, TotalApart
  <2> HIDE DEF R
  <2>4. Total(l, R) = Total(k, R) /\ Total(k, R) \in Nat
    BY <2>1, <2>2, TotalSame, TotalNat
  <2>5. Total(l, I) = Total(k, I) + 1
    BY <2>2, <2>3, <2>4
  <2> QED BY <2>5 DEF k, l
<1>5. CountsHold'
  <2>1. Total(kept', Instants) + Total(expired, Instants) <= MaxStored
    <3> DEFINE K == Total(kept, Instants)
               E == Total(expired, Instants)
    <3>1. K \in Nat /\ E \in Nat /\ MaxStored \in Nat /\ K + E < MaxStored
      BY <1>1, <1>2, TotalsOfDays, UnitsAre
    <3> HIDE DEF K, E
    <3>2. K + 1 + E <= MaxStored
      BY <3>1
    <3> QED BY <1>4, <3>2 DEF K, E
  <2>2. \A u \in Instants : sweptSince[u] <= expired[u] /\ writtenSince[u] <= kept[u] + expired[u]
    BY DEF TrendInv, CountsHold
  <2>3. \A u \in Instants : writtenSince'[u] <= kept'[u] + expired[u]
    <3> SUFFICES ASSUME NEW u \in Instants PROVE writtenSince'[u] <= kept'[u] + expired[u]
      OBVIOUS
    <3>1. (writtenSince'[u] = writtenSince[u] + 1 /\ kept'[u] = kept[u] + 1) \/ (writtenSince'[u] = writtenSince[u] /\ kept'[u] = kept[u])
      BY <1>3
    <3>2. writtenSince[u] \in Nat /\ kept[u] \in Nat /\ expired[u] \in Nat
      BY <1>2
    <3> QED BY <2>2, <3>1, <3>2
  <2>4. \A d \in Days : rollup[d] = CountOver(expired, OfDay(d))
    BY DEF TrendInv, CountsHold
  <2>5. CountOver(kept, Instants)' + CountOver(expired, Instants) <= MaxStored
    BY <2>1, SumIs
  <2> QED BY <1>1, <2>2, <2>3, <2>4, <2>5 DEF CountsHold
<1>6. RequestHolds(trendRequest)'
  <2>1. RequestHolds(trendRequest)
    BY DEF TrendInv
  <2>2. RowsHold(trendRequest) => RowsHold(trendRequest)'
    <3> SUFFICES ASSUME RowsHold(trendRequest), NEW u \in Instants
                 PROVE  IF u >= trendRequest.since THEN trendRequest.rows[u] + writtenSince'[u] = kept'[u] + sweptSince[u]
                        ELSE trendRequest.rows[u] = 0
      BY <1>1 DEF RowsHold
    <3>1. (writtenSince'[u] = writtenSince[u] + 1 /\ kept'[u] = kept[u] + 1) \/ (writtenSince'[u] = writtenSince[u] /\ kept'[u] = kept[u])
      BY <1>3
    <3>2. writtenSince[u] \in Nat /\ kept[u] \in Nat /\ sweptSince[u] \in Nat /\ trendRequest.rows[u] \in Nat
      BY <1>2 DEF TrendInv, TrendRequests
    <3>3. IF u >= trendRequest.since THEN trendRequest.rows[u] + writtenSince[u] = kept[u] + sweptSince[u]
          ELSE trendRequest.rows[u] = 0
      BY DEF RowsHold
    <3> QED BY <3>1, <3>2, <3>3
  <2>3. DaysHold(trendRequest) => DaysHold(trendRequest)'
    BY <1>1 DEF DaysHold
  <2>4. trendRequest' = trendRequest
    BY <1>1
  <2> QED BY <2>1, <2>2, <2>3, <2>4 DEF RequestHolds
<1> QED BY <1>1, <1>2, <1>5, <1>6 DEF TrendInv

LEMMA TrendRollsUp ==
    ASSUME TrendAssumption, TrendInv, NEW day \in Days, RollUp(day)
    PROVE  TrendInv'
<1> DEFINE gone == {t \in Instants : DayOf(t) = day /\ t < trendClock - KeptFor}
           m == [t \in Instants |-> IF t \in gone THEN kept[t] ELSE 0]
           moved == Total(kept, gone)
<1>1. /\ rollup' = [rollup EXCEPT ![day] = @ + moved]
      /\ kept' = [t \in Instants |-> IF t \in gone THEN 0 ELSE kept[t]]
      /\ expired' = [t \in Instants |-> IF t \in gone THEN expired[t] + kept[t] ELSE expired[t]]
      /\ sweptSince' = [t \in Instants |-> IF t \in gone THEN sweptSince[t] + kept[t] ELSE sweptSince[t]]
      /\ UNCHANGED <<trendClock, trendRequest, writtenSince>>
  BY SumIs DEF RollUp
<1>2. /\ kept \in [Instants -> Nat] /\ expired \in [Instants -> Nat] /\ sweptSince \in [Instants -> Nat]
      /\ rollup \in [Days -> Nat] /\ writtenSince \in [Instants -> Nat]
  BY DEF TrendInv
<1>3. m \in [Instants -> Nat] /\ \A t \in Instants : m[t] = IF t \in gone THEN kept[t] ELSE 0
  BY <1>2
<1>4. gone \in SUBSET OfDay(day) /\ gone \subseteq Instants
  BY DEF OfDay
<1>5. moved \in Nat
  <2>1. IsFiniteSet(gone) /\ NatOn(kept, gone)
    BY <1>2, <1>4, UnitsAre, FS_Subset DEF NatOn
  <2> HIDE DEF gone
  <2> QED BY <2>1, TotalNat
<1> HIDE DEF gone, moved
<1>6. /\ kept' \in [Instants -> Nat] /\ expired' \in [Instants -> Nat] /\ sweptSince' \in [Instants -> Nat]
      /\ rollup' \in [Days -> Nat]
  BY <1>1, <1>2, <1>5
<1>7. \A t \in Instants : /\ expired'[t] = expired[t] + m[t] /\ sweptSince'[t] = sweptSince[t] + m[t]
                          /\ kept'[t] + m[t] = kept[t] /\ m[t] \in Nat
  BY <1>1, <1>2, <1>3
<1>8. \A d \in Days : Total(m, OfDay(d)) = IF d = day THEN moved ELSE 0
  <2> HIDE DEF m
  <2>1. MovesOf(m, kept, gone)
    BY <1>3 DEF MovesOf
  <2> QED BY <1>2, <1>3, <1>4, <2>1, MovedOfDay DEF moved
<1> HIDE DEF m
<1>9. Adds(expired, m, expired') /\ Adds(sweptSince, m, sweptSince')
  BY <1>7 DEF Adds
<1>10. \A d \in Days : /\ Total(expired', OfDay(d)) = Total(expired, OfDay(d)) + Total(m, OfDay(d))
                       /\ Total(sweptSince', OfDay(d)) = Total(sweptSince, OfDay(d)) + Total(m, OfDay(d))
  BY <1>2, <1>3, <1>9, AddedOfDay
<1>11. \A d \in Days : rollup'[d] = rollup[d] + Total(m, OfDay(d))
  BY <1>1, <1>2, <1>8
<1>12. \A d \in Days : /\ Total(m, OfDay(d)) \in Nat /\ Total(expired, OfDay(d)) \in Nat
                       /\ Total(sweptSince, OfDay(d)) \in Nat
  BY <1>2, <1>3, TotalsOfDays
<1>13. CountsHold'
  <2>1. \A d \in Days : rollup'[d] = CountOver(expired', OfDay(d))
    <3> SUFFICES ASSUME NEW d \in Days PROVE rollup'[d] = Total(expired', OfDay(d))
      BY SumIs
    <3>1. rollup[d] = Total(expired, OfDay(d))
      BY SumIs DEF TrendInv, CountsHold
    <3> QED BY <1>10, <1>11, <3>1
  <2>2. CountOver(kept', Instants) + CountOver(expired', Instants) <= MaxStored
    <3> DEFINE I == Instants
               a == kept'
               b == expired'
    <3>1. IsFiniteSet(I) /\ NatOn(kept, I) /\ NatOn(expired, I) /\ NatOn(a, I) /\ NatOn(b, I)
      BY <1>2, <1>6, UnitsAre DEF NatOn
    <3>2. \A t \in I : a[t] + b[t] = kept[t] + expired[t]
      BY <1>2, <1>6, <1>7
    <3> HIDE DEF I, a, b
    <3>3. Total(a, I) + Total(b, I) = Total(kept, I) + Total(expired, I)
      BY <3>1, <3>2, TotalsBalance
    <3>4. Total(kept, I) + Total(expired, I) <= MaxStored
      BY SumIs DEF TrendInv, CountsHold, I
    <3> QED BY <3>3, <3>4, SumIs DEF I, a, b
  <2>3. \A t \in Instants : sweptSince'[t] <= expired'[t] /\ writtenSince[t] <= kept'[t] + expired'[t]
    <3> SUFFICES ASSUME NEW t \in Instants
                 PROVE  sweptSince'[t] <= expired'[t] /\ writtenSince[t] <= kept'[t] + expired'[t]
      OBVIOUS
    <3>1. sweptSince[t] <= expired[t] /\ writtenSince[t] <= kept[t] + expired[t]
      BY DEF TrendInv, CountsHold
    <3>2. /\ sweptSince[t] \in Nat /\ expired[t] \in Nat /\ kept[t] \in Nat /\ writtenSince[t] \in Nat
          /\ kept'[t] \in Nat /\ m[t] \in Nat
      BY <1>2, <1>6, <1>7
    <3> QED BY <1>7, <3>1, <3>2
  <2>4. writtenSince' = writtenSince
    BY <1>1
  <2> QED BY <2>1, <2>2, <2>3, <2>4 DEF CountsHold
<1>14. RequestHolds(trendRequest)'
  <2>1. RequestHolds(trendRequest) /\ trendRequest \in TrendRequests
    BY DEF TrendInv
  <2>2. RowsHold(trendRequest) => RowsHold(trendRequest)'
    <3> SUFFICES ASSUME RowsHold(trendRequest), NEW t \in Instants
                 PROVE  IF t >= trendRequest.since THEN trendRequest.rows[t] + writtenSince[t] = kept'[t] + sweptSince'[t]
                        ELSE trendRequest.rows[t] = 0
      BY <1>1 DEF RowsHold
    <3>1. IF t >= trendRequest.since THEN trendRequest.rows[t] + writtenSince[t] = kept[t] + sweptSince[t]
          ELSE trendRequest.rows[t] = 0
      BY DEF RowsHold
    <3>2. kept'[t] + sweptSince'[t] = kept[t] + sweptSince[t]
      <4>1. sweptSince[t] \in Nat /\ kept[t] \in Nat /\ kept'[t] \in Nat /\ m[t] \in Nat
        BY <1>2, <1>6, <1>7
      <4> QED BY <1>7, <4>1
    <3> QED BY <3>1, <3>2
  <2>3. DaysHold(trendRequest) => DaysHold(trendRequest)'
    <3> SUFFICES ASSUME DaysHold(trendRequest), NEW d \in Days
                 PROVE  IF d >= FirstWholeDay(trendRequest.since)
                        THEN trendRequest.days[d] + Total(sweptSince', OfDay(d)) = rollup'[d]
                        ELSE trendRequest.days[d] = 0
      BY <1>1, SumIs DEF DaysHold
    <3>1. IF d >= FirstWholeDay(trendRequest.since) THEN trendRequest.days[d] + Total(sweptSince, OfDay(d)) = rollup[d]
          ELSE trendRequest.days[d] = 0
      BY SumIs DEF DaysHold
    <3>2. /\ trendRequest.days[d] \in Nat /\ rollup[d] \in Nat
          /\ Total(m, OfDay(d)) \in Nat /\ Total(sweptSince, OfDay(d)) \in Nat
      BY <1>2, <1>12, <2>1 DEF TrendRequests
    <3>3. /\ Total(sweptSince', OfDay(d)) = Total(sweptSince, OfDay(d)) + Total(m, OfDay(d))
          /\ rollup'[d] = rollup[d] + Total(m, OfDay(d))
      BY <1>10, <1>11
    <3> QED BY <3>1, <3>2, <3>3
  <2>4. trendRequest' = trendRequest
    BY <1>1
  <2> QED BY <2>1, <2>2, <2>3, <2>4 DEF RequestHolds
<1> QED BY <1>1, <1>2, <1>6, <1>13, <1>14 DEF TrendInv

LEMMA TrendStep == ASSUME TrendAssumption PROVE TrendInv /\ [TrendNext]_trendVars => TrendInv'
<1> SUFFICES ASSUME TrendInv, [TrendNext]_trendVars PROVE TrendInv'
  OBVIOUS
<1>1. ASSUME NEW window \in Windows, NEW unit \in Units, Ask(window, unit) PROVE TrendInv'
  BY <1>1, TrendAsks
<1>2. CASE ReadRows \/ ReadDays
  BY <1>2, TrendReads
<1>3. CASE TrendTick
  BY <1>3, TrendTicks
<1>4. ASSUME NEW t \in Instants, StoreFinding(t) PROVE TrendInv'
  BY <1>4, TrendStores
<1>5. ASSUME NEW day \in Days, RollUp(day) PROVE TrendInv'
  BY <1>5, TrendRollsUp
<1>6. CASE UNCHANGED trendVars
  BY <1>6 DEF TrendInv, trendVars, CountsHold, RequestHolds, RowsHold, DaysHold
<1> QED BY <1>1, <1>2, <1>3, <1>4, <1>5, <1>6 DEF TrendNext

\* No count exceeds what was stored.
LEMMA TrendTyped == ASSUME TrendAssumption, TrendInv PROVE TrendTypeOK
<1>1. \A f \in [Instants -> Nat], t \in Instants : f[t] <= Total(f, Instants) /\ Total(f, Instants) \in Nat
  <2> SUFFICES ASSUME NEW f \in [Instants -> Nat], NEW t \in Instants
               PROVE  f[t] <= Total(f, Instants) /\ Total(f, Instants) \in Nat
    OBVIOUS
  <2> DEFINE I == Instants
             R == I \ {t}
  <2>1. IsFiniteSet(I) /\ NatOn(f, I) /\ IsFiniteSet(R) /\ NatOn(f, R) /\ f[t] \in Nat
    BY UnitsAre, FS_Subset DEF NatOn
  <2> HIDE DEF I
  <2>2. Total(f, I) = f[t] + Total(f, R)
    BY <2>1, TotalApart DEF I
  <2> HIDE DEF R
  <2>3. Total(f, R) \in Nat
    BY <2>1, TotalNat
  <2>4. f[t] <= Total(f, I) /\ Total(f, I) \in Nat
    BY <2>1, <2>2, <2>3
  <2> QED BY <2>4 DEF I
<1>2. /\ kept \in [Instants -> Nat] /\ expired \in [Instants -> Nat] /\ rollup \in [Days -> Nat]
      /\ sweptSince \in [Instants -> Nat] /\ writtenSince \in [Instants -> Nat] /\ MaxStored \in Nat
  BY UnitsAre DEF TrendInv
<1>3. Total(kept, Instants) + Total(expired, Instants) <= MaxStored
  BY SumIs DEF TrendInv, CountsHold
<1>4. \A t \in Instants : kept[t] + expired[t] <= MaxStored
  <2> SUFFICES ASSUME NEW t \in Instants PROVE kept[t] + expired[t] <= MaxStored
    OBVIOUS
  <2> DEFINE K == Total(kept, Instants)
             E == Total(expired, Instants)
  <2>1. kept[t] <= K /\ expired[t] <= E /\ K \in Nat /\ E \in Nat /\ K + E <= MaxStored
    BY <1>1, <1>2, <1>3
  <2>2. kept[t] \in Nat /\ expired[t] \in Nat
    BY <1>2
  <2> HIDE DEF K, E
  <2> QED BY <1>2, <2>1, <2>2
<1>5. \A t \in Instants : sweptSince[t] <= expired[t] /\ writtenSince[t] <= kept[t] + expired[t]
  BY DEF TrendInv, CountsHold
<1>6. \A t \in Instants : /\ kept[t] \in 0..MaxStored /\ expired[t] \in 0..MaxStored
                          /\ sweptSince[t] \in 0..MaxStored /\ writtenSince[t] \in 0..MaxStored
  <2> SUFFICES ASSUME NEW t \in Instants
               PROVE  /\ kept[t] \in 0..MaxStored /\ expired[t] \in 0..MaxStored
                      /\ sweptSince[t] \in 0..MaxStored /\ writtenSince[t] \in 0..MaxStored
    OBVIOUS
  <2>1. kept[t] \in Nat /\ expired[t] \in Nat /\ sweptSince[t] \in Nat /\ writtenSince[t] \in Nat
    BY <1>2
  <2> QED BY <1>2, <1>4, <1>5, <2>1
<1>7. {kept, expired, sweptSince, writtenSince} \subseteq [Instants -> 0..MaxStored]
  BY <1>2, <1>6
<1>8. rollup \in [Days -> 0..MaxStored]
  <2> SUFFICES ASSUME NEW d \in Days PROVE rollup[d] \in 0..MaxStored
    BY <1>2
  <2>1. rollup[d] = Total(expired, OfDay(d))
    BY SumIs DEF TrendInv, CountsHold
  <2>2. Total(expired, OfDay(d)) <= Total(expired, Instants)
    <3>1. IsFiniteSet(Instants) /\ NatOn(expired, Instants) /\ OfDay(d) \in SUBSET Instants
      BY <1>2, UnitsAre DEF NatOn, OfDay
    <3> QED BY <3>1, TotalFewer
  <2>3. Total(kept, Instants) \in Nat /\ Total(expired, Instants) \in Nat /\ rollup[d] \in Nat
    BY <1>2, TotalsOfDays
  <2> QED BY <1>2, <1>3, <2>1, <2>2, <2>3
<1>9. trendRequest.stage \in {"none", "asking", "answered"} /\ trendRequest.toRead \subseteq {"rows", "days"}
  BY DEF TrendInv, TrendRequests
<1> QED BY <1>7, <1>8, <1>9 DEF TrendTypeOK, TrendInv

\* The answer that the last query completes.
LEMMA TrendShows ==
    ASSUME TrendAssumption, TrendInv, TrendInv', [TrendNext]_trendVars,
           trendRequest.stage = "asking", trendRequest'.stage = "answered"
    PROVE  /\ ReadRows \/ ReadDays
           /\ trendRequest' \in TrendRequests /\ trendRequest'.unit = trendRequest.unit
           /\ trendRequest'.since = trendRequest.since
           /\ trendRequest.unit = "hour" =>
                /\ \A t \in Instants : trendRequest'.rows[t] = IF t >= trendRequest.since THEN kept[t] ELSE 0
                /\ \A d \in Days : trendRequest'.days[d] = 0
           /\ trendRequest.unit # "hour" =>
                /\ AnswerHolds(trendRequest', kept, expired, sweptSince', writtenSince')
                /\ sweptSince' = NoneOf =>
                    \A d \in Days : trendRequest'.days[d] = IF d >= FirstWholeDay(trendRequest.since) THEN ByDay(expired)[d] ELSE 0
<1> DEFINE q == trendRequest
           p == trendRequest'
           rows == [t \in Instants |-> IF t >= q.since THEN kept[t] ELSE 0]
           days == [d \in Days |-> IF d >= FirstWholeDay(q.since) THEN rollup[d] ELSE 0]
<1>1. ReadRows \/ ReadDays
  BY DEF TrendNext, Ask, TrendTick, StoreFinding, RollUp, trendVars
<1>2. /\ q \in TrendRequests /\ p \in TrendRequests /\ RequestHolds(q)
      /\ kept \in [Instants -> Nat] /\ expired \in [Instants -> Nat]
      /\ sweptSince \in [Instants -> Nat] /\ writtenSince \in [Instants -> Nat] /\ rollup \in [Days -> Nat]
  BY DEF TrendInv
<1>3. \A d \in Days : rollup[d] = ByDay(expired)[d]
  BY SumIs DEF TrendInv, CountsHold, ByDay
<1>4. \A t \in Instants : rows[t] = IF t >= q.since THEN kept[t] ELSE 0
  OBVIOUS
<1>5. \A d \in Days : days[d] = IF d >= FirstWholeDay(q.since) THEN ByDay(expired)[d] ELSE 0
  BY <1>3
<1>n. /\ NoneOf \in [Instants -> Nat] /\ \A t \in Instants : NoneOf[t] = 0
      /\ \A d \in Days : ByDay(NoneOf)[d] = 0
  BY NothingCounted DEF ByDay
<1>r. rows \in [Instants -> Nat] /\ days \in [Days -> Nat]
  BY <1>2
<1> HIDE DEF rows, days
<1>f. q.unit # "hour" /\ q.toRead # {"rows", "days"} => sweptSince' = sweptSince /\ writtenSince' = writtenSince
  BY <1>1 DEF ReadRows, ReadDays, Observing, FirstQuery, FoldsRollup
<1>b. /\ \A f \in [Instants -> Nat] : Below(NoneOf, f) /\ Below(f, f)
  BY <1>n DEF Below
<1>6. CASE ReadRows
  <2>1. p = QueryAnswered("rows", rows) /\ "rows" \in q.toRead
    BY <1>6 DEF ReadRows, rows
  <2>2. q.toRead = {"rows"}
    BY <1>2, <2>1 DEF QueryAnswered, TrendRequests
  <2>3. p.rows = rows /\ p.days = q.days /\ p.unit = q.unit /\ p.since = q.since
    BY <1>2, <2>1 DEF QueryAnswered, TrendRequests
  <2>4. ASSUME q.unit = "hour"
        PROVE  /\ \A t \in Instants : p.rows[t] = IF t >= q.since THEN kept[t] ELSE 0
               /\ \A d \in Days : p.days[d] = 0
    BY <1>2, <1>4, <2>3, <2>4 DEF RequestHolds
  <2>5. ASSUME q.unit # "hour"
        PROVE  /\ AnswerHolds(p, kept, expired, sweptSince', writtenSince')
               /\ sweptSince' = NoneOf =>
                    \A d \in Days : p.days[d] = IF d >= FirstWholeDay(q.since) THEN ByDay(expired)[d] ELSE 0
    <3>1. sweptSince' = sweptSince /\ writtenSince' = writtenSince
      BY <1>f, <2>2, <2>5
    <3>2. DaysHold(q)
      BY <1>2, <2>2, <2>5 DEF RequestHolds
    <3>3. \A d \in Days : IF d >= FirstWholeDay(q.since) THEN q.days[d] + ByDay(sweptSince)[d] = ByDay(expired)[d] ELSE q.days[d] = 0
      BY <1>3, <3>2, SumIs DEF DaysHold, ByDay
    <3>4. DaysAreOf(p.days, sweptSince, expired, p.since)
      BY <2>3, <3>3 DEF DaysAreOf
    <3>5. RowsAre(p.rows, NoneOf, kept, NoneOf, p.since)
      <4>1. \A t \in Instants : IF t >= q.since THEN rows[t] + NoneOf[t] = kept[t] + NoneOf[t] ELSE rows[t] = 0
        BY <1>4, <1>n
      <4> QED BY <2>3, <4>1 DEF RowsAre
    <3>6. Below(NoneOf, writtenSince') /\ Below(NoneOf, sweptSince') /\ Below(sweptSince, sweptSince')
      BY <1>2, <1>b, <3>1
    <3>7. AnswerHolds(p, kept, expired, sweptSince', writtenSince')
      BY <1>2, <1>n, <3>4, <3>5, <3>6 DEF AnswerHolds
    <3>8. ASSUME sweptSince' = NoneOf, NEW d \in Days
          PROVE  p.days[d] = IF d >= FirstWholeDay(q.since) THEN ByDay(expired)[d] ELSE 0
      <4>1. ByDay(sweptSince)[d] = 0
        BY <1>n, <3>1, <3>8
      <4>2. q.days[d] \in Nat
        BY <1>2 DEF TrendRequests
      <4> QED BY <2>3, <3>3, <4>1, <4>2
    <3> QED BY <3>7, <3>8
  <2> QED BY <1>1, <1>2, <2>3, <2>4, <2>5
<1>7. CASE ReadDays
  <2>1. p = QueryAnswered("days", days) /\ "days" \in q.toRead
    BY <1>7 DEF ReadDays, days
  <2>2. q.toRead = {"days"}
    BY <1>2, <2>1 DEF QueryAnswered, TrendRequests
  <2>3. p.rows = q.rows /\ p.days = days /\ p.unit = q.unit /\ p.since = q.since
    BY <1>2, <2>1 DEF QueryAnswered, TrendRequests
  <2>4. q.unit # "hour"
    BY <1>2, <2>2 DEF RequestHolds, ReadDays, ReadRows
  <2>5. AnswerHolds(p, kept, expired, sweptSince', writtenSince')
    <3>1. sweptSince' = sweptSince /\ writtenSince' = writtenSince
      BY <1>f, <2>2, <2>4
    <3>2. RowsHold(q)
      BY <1>2, <2>2 DEF RequestHolds, ReadDays, ReadRows
    <3>3. RowsAre(p.rows, writtenSince, kept, sweptSince, p.since)
      BY <2>3, <3>2 DEF RowsHold, RowsAre
    <3>4. DaysAreOf(p.days, NoneOf, expired, p.since)
      <4>1. \A d \in Days : IF d >= FirstWholeDay(q.since) THEN days[d] + ByDay(NoneOf)[d] = ByDay(expired)[d] ELSE days[d] = 0
        BY <1>5, <1>n, <1>r
      <4> QED BY <2>3, <4>1 DEF DaysAreOf
    <3>5. Below(writtenSince, writtenSince') /\ Below(sweptSince, sweptSince') /\ Below(NoneOf, sweptSince')
      BY <1>2, <1>b, <3>1
    <3> QED BY <1>2, <1>n, <3>3, <3>4, <3>5 DEF AnswerHolds
  <2>6. \A d \in Days : p.days[d] = IF d >= FirstWholeDay(q.since) THEN ByDay(expired)[d] ELSE 0
    BY <1>5, <2>3
  <2> QED BY <1>1, <1>2, <2>3, <2>4, <2>5, <2>6
<1> QED BY <1>1, <1>6, <1>7

\* The whole of an answer.
LEMMA TrendStepShown == ASSUME TrendAssumption PROVE TrendInv /\ TrendInv' /\ [TrendNext]_trendVars => TrendShown
<1> SUFFICES ASSUME TrendInv, TrendInv', [TrendNext]_trendVars,
                    trendRequest.stage = "asking", trendRequest'.stage = "answered"
             PROVE  TrendShown
  BY DEF TrendShown
<1> DEFINE q == trendRequest
           p == trendRequest'
           k == kept
           e == expired
           s == sweptSince'
           w == writtenSince'
           c == Countable
<1>1. /\ ReadRows \/ ReadDays
      /\ p \in TrendRequests /\ p.unit = q.unit /\ p.since = q.since
      /\ q.unit = "hour" => /\ \A t \in Instants : p.rows[t] = IF t >= q.since THEN k[t] ELSE 0
                            /\ \A d \in Days : p.days[d] = 0
      /\ q.unit # "hour" => AnswerHolds(p, k, e, s, w)
      /\ q.unit # "hour" /\ s = NoneOf =>
            \A d \in Days : p.days[d] = IF d >= FirstWholeDay(q.since) THEN ByDay(e)[d] ELSE 0
  BY TrendShows
<1>2. /\ k \in [Instants -> Nat] /\ e \in [Instants -> Nat] /\ s \in [Instants -> Nat] /\ w \in [Instants -> Nat]
  BY DEF TrendInv
<1>3. \A bucket : Within(bucket) = PartOfBucket(q.unit, bucket, q.since)
  BY DEF Within, InBucket, PartOfBucket, Whole
<1>4. \A bucket : Bar(bucket)' = BarOf(p, bucket)
  BY DEF Bar, IsShown, InBucket, BarOf, Whole, DaysIn
<1>5. ASSUME NEW bucket \in Buckets(q.unit)
      PROVE  LET W == Within(bucket)
                 all == CountOver(c, W)
                 swept == CountOver(s, W) IN
             /\ Bar(bucket)' <= all + swept
             /\ bucket >= q.since => Bar(bucket)' >= all - swept - CountOver(w, W)
  <2> DEFINE W == PartOfBucket(q.unit, bucket, q.since)
             B == BarOf(p, bucket)
             S == Total(s, W)
             V == Total(w, W)
             C == Total(c, W)
             K == Total(k, W)
             E == Total(e, W)
  <2>1. IsFiniteSet(W) /\ W \subseteq Instants
    BY PartsFinite
  <2>2. K \in Nat /\ E \in Nat /\ S \in Nat /\ V \in Nat
    <3>1. NatOn(k, W) /\ NatOn(e, W) /\ NatOn(s, W) /\ NatOn(w, W)
      BY <1>2, <2>1 DEF NatOn
    <3> HIDE DEF W, k, e, s, w
    <3> QED BY <2>1, <3>1, TotalNat
  <2>3. B <= C + S /\ (bucket >= q.since => B >= C - S - V)
    <3>1. CASE q.unit = "hour"
      <4>1. \A t \in Instants : c[t] = k[t] + 0
        BY <3>1 DEF Countable, FoldsRollup
      <4>2. \A t \in W : c[t] = k[t]
        BY <1>2, <2>1, <4>1
      <4>3. C = K
        <5> HIDE DEF W, c, k
        <5> QED BY <2>1, <4>2, TotalSame
      <4>4. B = K
        <5>1. \A t \in Instants : p.rows[t] = IF t >= p.since THEN k[t] ELSE 0
          BY <1>1, <3>1
        <5>2. p.unit = "hour" /\ \A d \in Days : p.days[d] = 0
          BY <1>1, <3>1
        <5>3. W = PartOfBucket(p.unit, bucket, p.since)
          BY <1>1
        <5> HIDE DEF p, k, W
        <5> QED BY <1>1, <1>2, <5>1, <5>2, <5>3, HoursHold
      <4> HIDE DEF B, C, K, S, V
      <4> QED BY <2>2, <4>3, <4>4
    <3>2. CASE q.unit # "hour"
      <4>1. \A t \in W : c[t] = k[t] + e[t]
        BY <2>1, <3>2 DEF Countable, FoldsRollup
      <4>2. C = K + E
        <5>1. NatOn(k, W) /\ NatOn(e, W)
          BY <1>2, <2>1 DEF NatOn
        <5> HIDE DEF W, c, k, e
        <5> QED BY <2>1, <4>1, <5>1, TotalAdded
      <4>3. BarHolds(p, k, e, s, w, bucket)
        <5>1. p.unit # "hour" /\ AnswerHolds(p, k, e, s, w) /\ bucket \in Buckets(p.unit)
          BY <1>1, <3>2
        <5> HIDE DEF p, k, e, s, w
        <5> QED BY <1>1, <1>2, <5>1, BarsHold
      <4>4. W = PartOfBucket(p.unit, bucket, p.since)
        BY <1>1
      <4>5. B <= K + E + S /\ (bucket >= q.since => B >= K + E - S - V)
        BY <1>1, <4>3, <4>4 DEF BarHolds
      <4> HIDE DEF B, C, K, S, V, E
      <4> QED BY <2>2, <4>2, <4>5
    <3> QED BY <3>1, <3>2
  <2>4. Bar(bucket)' = B /\ CountOver(c, Within(bucket)) = C /\ CountOver(s, Within(bucket)) = S /\ CountOver(w, Within(bucket)) = V
    BY <1>3, <1>4, SumIs
  <2> HIDE DEF B, C, S, V, c, s, w
  <2> QED BY <2>3, <2>4
<1>6. ASSUME s = NoneOf, q.unit # "hour", NEW t \in Instants, t >= FirstWholeDay(q.since), e[t] > 0
      PROVE  t < RolledUpBefore'
  <2> DEFINE folded == {d \in Days : p.days[d] > 0}
  <2>1. \A d \in Days : p.days[d] = IF d >= FirstWholeDay(p.since) THEN ByDay(e)[d] ELSE 0
    BY <1>1, <1>6
  <2>2. t >= FirstWholeDay(p.since)
    BY <1>1, <1>6
  <2>3. folded = {d \in Days : p.days[d] > 0}
    OBVIOUS
  <2>4. RolledUpBefore' = IF folded = {} THEN NoDay ELSE Max(folded) + Width["day"]
    BY DEF RolledUpBefore
  <2> HIDE DEF folded, p, e
  <2>5. folded # {} /\ t < Max(folded) + Width["day"]
    BY <1>1, <1>2, <1>6, <2>1, <2>2, <2>3, MarkerIsLater
  <2> QED BY <2>4, <2>5
<1> QED BY <1>5, <1>6 DEF TrendShown, Buckets, FoldsRollup

-----------------------------------------------------------------------------
(* The migrations of the schema *)

Versions == {v \in Seq(0..999) : Len(v) \in 1..2}

\* A sequence is indexed from one and holds what it is a sequence of.
LEMMA SequencesIndexed ==
    ASSUME NEW S, NEW s \in Seq(S)
    PROVE  DOMAIN s = 1..Len(s) /\ \A i \in 1..Len(s) : s[i] \in S
OBVIOUS

\* The number of a version orders versions as the code does, and versions of one number collide.
LEMMA NumberTells ==
    ASSUME NEW v \in Versions, NEW w \in Versions
    PROVE  /\ Number(v) \in Nat
           /\ Before(v, w) <=> Number(v) < Number(w)
           /\ Number(v) = Number(w) => SortKey(v) = SortKey(w)
<1>1. ASSUME NEW u \in Versions
      PROVE  /\ Part(u, 1) \in 0..999 /\ Part(u, 2) \in 0..999
             /\ DOMAIN u \in {{1}, {1, 2}} /\ Len(u) \in 1..2 /\ DOMAIN u = 1..Len(u)
             /\ DOMAIN u = {1} => Part(u, 2) = 0
  <2>1. /\ u \in Seq(0..999) /\ Len(u) \in {1, 2} /\ DOMAIN u = 1..Len(u)
        /\ \A i \in 1..Len(u) : u[i] \in 0..999
    <3>1. u \in Seq(0..999) /\ Len(u) \in 1..2
      BY DEF Versions
    <3> DEFINE R == 0..999
    <3>3. u \in Seq(R)
      BY <3>1
    <3> HIDE DEF R
    <3>4. DOMAIN u = 1..Len(u)
      BY <3>3, SequencesIndexed
    <3>5. \A i \in 1..Len(u) : u[i] \in R
      BY <3>3, SequencesIndexed
    <3>2. DOMAIN u = 1..Len(u) /\ \A i \in 1..Len(u) : u[i] \in 0..999
      BY <3>4, <3>5 DEF R
    <3> QED BY <3>1, <3>2
  <2>2. 1..1 = {1} /\ 1..2 = {1, 2}
    OBVIOUS
  <2>3. CASE Len(u) = 1
    <3>1. DOMAIN u = 1..1
      BY <2>1, <2>3
    <3>2. DOMAIN u = {1}
      BY <3>1, <2>2
    <3>3. u[1] \in 0..999
      BY <2>1, <2>3
    <3> QED BY <2>1, <2>3, <3>2, <3>3 DEF Part
  <2>4. CASE Len(u) = 2
    <3>1. DOMAIN u = 1..2
      BY <2>1, <2>4
    <3>2. DOMAIN u = {1, 2}
      BY <3>1, <2>2
    <3>3. u[1] \in 0..999 /\ u[2] \in 0..999
      BY <2>1, <2>4
    <3>4. DOMAIN u # {1}
      BY <3>2
    <3> QED BY <2>1, <2>4, <3>2, <3>3, <3>4 DEF Part
  <2> QED BY <2>1, <2>3, <2>4
<1>d. /\ Part(v, 1) * 1000 + Part(v, 2) \in Nat /\ Part(w, 1) * 1000 + Part(w, 2) \in Nat
      /\ Part(v, 1) * 1000 + Part(v, 2) < Part(w, 1) * 1000 + Part(w, 2) <=>
            Part(v, 1) < Part(w, 1) \/ (Part(v, 1) = Part(w, 1) /\ Part(v, 2) < Part(w, 2))
      /\ Part(v, 1) * 1000 + Part(v, 2) = Part(w, 1) * 1000 + Part(w, 2) =>
            Part(v, 1) = Part(w, 1) /\ Part(v, 2) = Part(w, 2)
  <2>1. Part(v, 1) \in 0..999 /\ Part(v, 2) \in 0..999 /\ Part(w, 1) \in 0..999 /\ Part(w, 2) \in 0..999
    BY <1>1
  <2> DEFINE a == Part(v, 1)
             b == Part(v, 2)
             c == Part(w, 1)
             d == Part(w, 2)
  <2>2. a \in 0..999 /\ b \in 0..999 /\ c \in 0..999 /\ d \in 0..999
    BY <2>1
  <2> HIDE DEF a, b, c, d
  <2>3. a * 1000 + b \in Nat
    BY <2>2
  <2>4. c * 1000 + d \in Nat
    BY <2>2
  <2>5. a * 1000 + b < c * 1000 + d <=> a < c \/ (a = c /\ b < d)
    BY <2>2
  <2>7. c * 1000 + d < a * 1000 + b <=> c < a \/ (c = a /\ d < b)
    BY <2>2
  <2>6. ASSUME a * 1000 + b = c * 1000 + d PROVE a = c /\ b = d
    <3>1. ~(a * 1000 + b < c * 1000 + d) /\ ~(c * 1000 + d < a * 1000 + b)
      BY <2>6, <2>4
    <3>2. ~(a < c) /\ ~(c < a)
      BY <3>1, <2>5, <2>7
    <3>3. a = c
      BY <2>2, <3>2
    <3> QED BY <2>2, <2>5, <2>7, <3>1, <3>3
  <2> QED BY <2>3, <2>4, <2>5, <2>6 DEF a, b, c, d
<1>2. Number(v) \in Nat /\ Number(w) \in Nat
  BY <1>d DEF Number
<1>3. Before(v, w) <=> Part(v, 1) < Part(w, 1) \/ (Part(v, 1) = Part(w, 1) /\ Part(v, 2) < Part(w, 2))
  <2>1. DOMAIN v \cup DOMAIN w \in {{1}, {1, 2}}
    BY <1>1
  <2>2. ASSUME DOMAIN v \cup DOMAIN w = {1} PROVE Part(v, 2) = 0 /\ Part(w, 2) = 0
    <3>1. 2 \notin DOMAIN v /\ 2 \notin DOMAIN w
      BY <2>2
    <3> QED BY <3>1 DEF Part
  <2>3. \A i \in {1} : 1..(i - 1) = {}
    OBVIOUS
  <2>4. \A i \in {2} : 1..(i - 1) = {1}
    OBVIOUS
  <2>5. CASE DOMAIN v \cup DOMAIN w = {1}
    BY <1>1, <2>2, <2>3, <2>5 DEF Before
  <2>6. CASE DOMAIN v \cup DOMAIN w = {1, 2}
    <3>1. Before(v, w) <=> \/ Part(v, 1) < Part(w, 1)
                           \/ Part(v, 2) < Part(w, 2) /\ \A j \in {1} : Part(v, j) = Part(w, j)
      BY <2>3, <2>4, <2>6 DEF Before
    <3> QED BY <1>1, <3>1
  <2> QED BY <2>1, <2>5, <2>6
<1>4. Before(v, w) <=> Number(v) < Number(w)
  BY <1>d, <1>3 DEF Number
<1>5. ASSUME NEW u \in Versions
      PROVE  SortKey(u) = IF Part(u, 2) = 0 THEN [i \in {1} |-> Part(u, 1)]
                          ELSE [i \in {1, 2} |-> IF i = 1 THEN Part(u, 1) ELSE Part(u, 2)]
  <2> DEFINE held == {i \in DOMAIN u : i = 1 \/ \E j \in i..Len(u) : u[j] # 0}
  <2>1. CASE Part(u, 2) = 0
    <3>1. held = {1}
      BY <1>1, <2>1 DEF Part
    <3> QED BY <1>1, <2>1, <3>1 DEF SortKey, Part
  <2>2. CASE Part(u, 2) # 0
    <3>1. held = {1, 2}
      BY <1>1, <2>2 DEF Part
    <3> QED BY <1>1, <2>2, <3>1 DEF SortKey, Part
  <2> QED BY <2>1, <2>2
<1>6. Number(v) = Number(w) => Part(v, 1) = Part(w, 1) /\ Part(v, 2) = Part(w, 2)
  BY <1>d DEF Number
<1> QED BY <1>2, <1>4, <1>5, <1>6

\* A finite set is counted in the order of any numbering that tells its members apart.
LEMMA CountedInOrder ==
    ASSUME NEW S, IsFiniteSet(S), NEW num \in [S -> Nat], \A x, y \in S : num[x] = num[y] => x = y
    PROVE  \E s \in [1..Cardinality(S) -> S] :
              /\ \A i, j \in 1..Cardinality(S) : i < j => num[s[i]] < num[s[j]]
              /\ \A x \in S : \E i \in 1..Cardinality(S) : s[i] = x
<1> DEFINE n == Cardinality(S)
           Upto(x) == {y \in S : num[y] <= num[x]}
           rank == [x \in S |-> Cardinality(Upto(x))]
<1>1. n \in Nat
  BY FS_CardinalityType
<1>2. \A x \in S : Upto(x) \in SUBSET S /\ IsFiniteSet(Upto(x)) /\ rank[x] \in 1..n
  <2> SUFFICES ASSUME NEW x \in S PROVE Upto(x) \in SUBSET S /\ IsFiniteSet(Upto(x)) /\ rank[x] \in 1..n
    OBVIOUS
  <2>1. IsFiniteSet(Upto(x)) /\ Cardinality(Upto(x)) <= n
    BY FS_Subset
  <2>2. Cardinality(Upto(x)) \in Nat
    BY <2>1, FS_CardinalityType
  <2>3. x \in Upto(x)
    OBVIOUS
  <2>4. Cardinality(Upto(x)) # 0
    BY <2>1, <2>3, FS_EmptySet
  <2> QED BY <1>1, <2>1, <2>2, <2>4
<1>3. \A x, y \in S : num[x] < num[y] => rank[x] < rank[y]
  <2> SUFFICES ASSUME NEW x \in S, NEW y \in S, num[x] < num[y] PROVE rank[x] < rank[y]
    OBVIOUS
  <2>1. Upto(x) \in SUBSET Upto(y) /\ y \in Upto(y) /\ y \notin Upto(x)
    OBVIOUS
  <2>2. IsFiniteSet(Upto(y)) /\ rank[x] = Cardinality(Upto(x)) /\ rank[y] = Cardinality(Upto(y))
    BY <1>2
  <2> HIDE DEF Upto, rank
  <2>3. Cardinality(Upto(x)) <= Cardinality(Upto(y)) /\ Cardinality(Upto(x)) # Cardinality(Upto(y))
    BY <2>1, <2>2, FS_Subset
  <2> QED BY <1>1, <1>2, <2>2, <2>3
<1> HIDE DEF Upto
<1>4. rank \in [S -> 1..n]
  BY <1>2
<1> HIDE DEF rank
<1>5. \A x, y \in S : rank[x] = rank[y] => x = y
  BY <1>1, <1>3, <1>4
<1>6. rank \in Injection(S, 1..n)
  BY <1>4, <1>5, Fun_IsInj
<1>7. IsFiniteSet(1..n) /\ Cardinality(1..n) = n
  BY <1>1, FS_Interval
<1>8. rank \in Surjection(S, 1..n)
  BY <1>6, <1>7, FS_Injection
<1>9. \A i \in 1..n : \E x \in S : rank[x] = i
  BY <1>8, Fun_SurjectionProperties
<1> DEFINE s == [i \in 1..n |-> CHOOSE x \in S : rank[x] = i]
<1>10. \A i \in 1..n : s[i] \in S /\ rank[s[i]] = i
  BY <1>9
<1> HIDE DEF s
<1>11. s \in [1..n -> S]
  BY <1>10 DEF s
<1>12. \A i, j \in 1..n : i < j => num[s[i]] < num[s[j]]
  BY <1>1, <1>3, <1>4, <1>10
<1>13. \A x \in S : s[rank[x]] = x
  BY <1>4, <1>5, <1>10
<1> QED BY <1>4, <1>11, <1>12, <1>13

\* Files of different numbers have their order, which is that of the numbers.
LEMMA OrderedFacts ==
    ASSUME NEW S, IsFiniteSet(S), S \subseteq Versions, ~Collide(S)
    PROVE  Ordered(S) \in Seq(S) /\ Range(Ordered(S)) = S /\ Increasing(Ordered(S)) /\ Len(Ordered(S)) = Cardinality(S)
<1> DEFINE num == [v \in S |-> Number(v)]
           n == Cardinality(S)
           Right(s) == s \in Orders(S) /\ \A i, j \in DOMAIN s : i < j => Before(s[i], s[j])
<1>n. n \in Nat
  BY FS_CardinalityType
<1>1. \A x, y \in S : Number(x) = Number(y) => x = y
  BY NumberTells DEF Collide
<1>2. num \in [S -> Nat] /\ \A x, y \in S : num[x] = num[y] => x = y
  BY <1>1, NumberTells
<1>3. PICK s \in [1..n -> S] :
          /\ \A i, j \in 1..n : i < j => num[s[i]] < num[s[j]]
          /\ \A x \in S : \E i \in 1..n : s[i] = x
  <2> HIDE DEF num
  <2> QED BY <1>2, CountedInOrder
<1>4. \A i, j \in 1..n : i < j => Number(s[i]) < Number(s[j])
  BY <1>3
<1>5. \A i, j \in 1..n : i # j => s[i] # s[j]
  BY <1>n, <1>4, NumberTells
<1>6. Right(s)
  <2>1. \A i, j \in 1..n : i < j => Before(s[i], s[j])
    BY <1>3, <1>4, NumberTells
  <2> QED BY <1>3, <1>5, <2>1 DEF Orders, Bijection, Injection, Surjection, IsInjective
<1>7. Right(Ordered(S))
  <2> HIDE DEF num, n
  <2> QED BY <1>6 DEF Ordered
<1> DEFINE o == Ordered(S)
<1>8. o \in [1..n -> S] /\ \A i, j \in 1..n : i # j => o[i] # o[j]
  BY <1>7 DEF Orders, Bijection, Injection, Surjection, IsInjective
<1>9. o \in Seq(S) /\ Len(o) = n /\ DOMAIN o = 1..n
  BY <1>8, <1>n
<1>10. \A i, j \in DOMAIN o : i < j => Before(o[i], o[j])
  BY <1>7
<1> HIDE DEF o, n, Right
<1>11. Increasing(o)
  BY <1>8, <1>9, <1>10, NumberTells DEF Increasing
<1>12. o \in Injection(1..n, S)
  BY <1>8, Fun_IsInj
<1>13. Cardinality(1..n) = n
  BY <1>n, FS_Interval
<1>14. o \in Surjection(1..n, S)
  BY <1>12, <1>13, FS_Injection DEF n
<1>15. \A x \in S : \E i \in 1..n : o[i] = x
  <2> DEFINE D == 1..n
  <2>1. o \in Surjection(D, S)
    BY <1>14
  <2> HIDE DEF D
  <2>2. \A x \in S : \E i \in D : o[i] = x
    BY <2>1, Fun_SurjectionProperties
  <2> QED BY <2>2 DEF D
<1>16. Range(o) = S
  BY <1>8, <1>9, <1>15 DEF Range
<1> QED BY <1>9, <1>11, <1>16 DEF o, n

\* Appending and taking off the front, on sets of members and on order.
LEMMA Members ==
    ASSUME NEW S, NEW s \in Seq(S)
    PROVE  /\ Range(s) \subseteq S
           /\ s = <<>> => Range(s) = {}
           /\ s # <<>> => Range(s) # {} /\ Head(s) \in S /\ Tail(s) \in Seq(S)
                           /\ Range(s) = {Head(s)} \cup Range(Tail(s))
           /\ \A e \in S : Append(s, e) \in Seq(S) /\ Range(Append(s, e)) = Range(s) \cup {e}
<1>1. Range(s) = {s[i] : i \in 1..Len(s)} /\ Len(s) \in Nat
  BY DEF Range
<1>2. Range(s) \subseteq S
  BY <1>1
<1>3. s = <<>> => Range(s) = {}
  BY <1>1
<1>4. ASSUME s # <<>>
      PROVE  Range(s) # {} /\ Head(s) \in S /\ Tail(s) \in Seq(S) /\ Range(s) = {Head(s)} \cup Range(Tail(s))
  <2>1. Head(s) = s[1] /\ Head(s) \in S /\ Tail(s) \in Seq(S) /\ Len(s) > 0 /\ Len(Tail(s)) = Len(s) - 1
    BY <1>4
  <2>2. \A i \in 1..(Len(s) - 1) : Tail(s)[i] = s[i + 1]
    BY <1>4
  <2>3. Range(Tail(s)) = {s[i + 1] : i \in 1..(Len(s) - 1)}
    <3> DEFINE t == Tail(s)
               D == 1..(Len(s) - 1)
    <3>1. DOMAIN t = D
      BY <2>1
    <3>2. \A i \in D : t[i] = s[i + 1]
      BY <2>2
    <3> HIDE DEF t, D
    <3>3. Range(t) = {s[i + 1] : i \in D}
      BY <3>1, <3>2 DEF Range
    <3> QED BY <3>3 DEF t, D
  <2>4. \A i \in 1..Len(s) : i = 1 \/ (i - 1 \in 1..(Len(s) - 1) /\ (i - 1) + 1 = i)
    BY <1>1
  <2>5. \A i \in 1..(Len(s) - 1) : i + 1 \in 1..Len(s)
    BY <1>1
  <2>6. 1 \in 1..Len(s)
    BY <1>1, <2>1
  <2>7. Range(s) = {s[1]} \cup {s[i + 1] : i \in 1..(Len(s) - 1)}
    <3>1. ASSUME NEW x \in Range(s) PROVE x \in {s[1]} \cup {s[i + 1] : i \in 1..(Len(s) - 1)}
      <4>1. PICK i \in 1..Len(s) : x = s[i]
        BY <1>1
      <4>2. CASE i = 1
        BY <4>1, <4>2
      <4>3. CASE i - 1 \in 1..(Len(s) - 1) /\ (i - 1) + 1 = i
        BY <4>1, <4>3
      <4> QED BY <2>4, <4>2, <4>3
    <3>2. {s[i + 1] : i \in 1..(Len(s) - 1)} \subseteq Range(s)
      BY <1>1, <2>5
    <3>3. s[1] \in Range(s)
      BY <1>1, <2>6
    <3> QED BY <3>1, <3>2, <3>3
  <2> QED BY <2>1, <2>3, <2>7
<1>5. ASSUME NEW e \in S PROVE Append(s, e) \in Seq(S) /\ Range(Append(s, e)) = Range(s) \cup {e}
  <2> DEFINE t == Append(s, e)
  <2>1. t \in Seq(S) /\ Len(t) = Len(s) + 1 /\ t[Len(s) + 1] = e
    OBVIOUS
  <2>2. \A i \in 1..Len(s) : t[i] = s[i]
    OBVIOUS
  <2> HIDE DEF t
  <2>3. Range(t) = {t[i] : i \in 1..(Len(s) + 1)}
    BY <2>1 DEF Range
  <2>4. 1..(Len(s) + 1) = 1..Len(s) \cup {Len(s) + 1}
    BY <1>1
  <2>5. Range(t) = Range(s) \cup {e}
    BY <1>1, <2>1, <2>2, <2>3, <2>4
  <2> QED BY <2>1, <2>5 DEF t
<1> QED BY <1>2, <1>3, <1>4, <1>5

LEMMA InOrder ==
    ASSUME NEW S, S \subseteq Versions, NEW s \in Seq(S), Increasing(s)
    PROVE  /\ s # <<>> => /\ Increasing(Tail(s))
                           /\ \A x \in Range(Tail(s)) : Number(Head(s)) < Number(x)
           /\ \A e \in S : (\A x \in Range(s) : Number(x) < Number(e)) => Increasing(Append(s, e))
<1>1. \A i, j \in 1..Len(s) : i < j => Number(s[i]) < Number(s[j])
  BY DEF Increasing
<1>2. Len(s) \in Nat
  OBVIOUS
<1>3. ASSUME s # <<>>
      PROVE  Increasing(Tail(s)) /\ \A x \in Range(Tail(s)) : Number(Head(s)) < Number(x)
  <2> DEFINE t == Tail(s)
  <2>1. /\ t \in Seq(S) /\ DOMAIN t = 1..(Len(s) - 1) /\ Head(s) = s[1] /\ Len(s) > 0
    BY <1>3
  <2>2. \A i \in 1..(Len(s) - 1) : t[i] = s[i + 1]
    BY <1>3
  <2> HIDE DEF t
  <2>3. \A i \in 1..(Len(s) - 1) : i + 1 \in 1..Len(s) /\ 1 < i + 1
    BY <1>2
  <2>4. \A i, j \in 1..(Len(s) - 1) : i < j => i + 1 < j + 1
    BY <1>2
  <2>5. 1 \in 1..Len(s)
    BY <1>2, <2>1
  <2>6. \A i, j \in 1..(Len(s) - 1) : i < j => Number(t[i]) < Number(t[j])
    BY <1>1, <2>2, <2>3, <2>4
  <2>7. \A i \in 1..(Len(s) - 1) : Number(Head(s)) < Number(t[i])
    BY <1>1, <2>1, <2>2, <2>3, <2>5
  <2>8. Increasing(t)
    BY <2>1, <2>6 DEF Increasing
  <2>9. \A x \in Range(t) : Number(Head(s)) < Number(x)
    BY <2>1, <2>7 DEF Range
  <2> QED BY <2>8, <2>9 DEF t
<1>4. ASSUME NEW e \in S, \A x \in Range(s) : Number(x) < Number(e) PROVE Increasing(Append(s, e))
  <2> DEFINE t == Append(s, e)
             n == Len(s)
  <2>1. DOMAIN t = 1..(n + 1) /\ t[n + 1] = e
    OBVIOUS
  <2>2. \A i \in 1..n : t[i] = s[i]
    OBVIOUS
  <2>3. \A i \in 1..n : Number(s[i]) < Number(e)
    BY <1>4 DEF Range
  <2> HIDE DEF t
  <2>4. \A i, j \in 1..(n + 1) : i < j => i \in 1..n /\ (j \in 1..n \/ j = n + 1)
    BY <1>2
  <2>5. \A i, j \in 1..(n + 1) : i < j => Number(t[i]) < Number(t[j])
    <3> HIDE DEF n
    <3> SUFFICES ASSUME NEW i \in 1..(n + 1), NEW j \in 1..(n + 1), i < j PROVE Number(t[i]) < Number(t[j])
      OBVIOUS
    <3>1. CASE j \in 1..n
      BY <1>1, <2>2, <2>4, <3>1 DEF n
    <3>2. CASE j = n + 1
      BY <2>1, <2>2, <2>3, <2>4, <3>2 DEF n
    <3> QED BY <2>4, <3>1, <3>2
  <2>6. Increasing(t)
    BY <2>1, <2>5 DEF Increasing
  <2> QED BY <2>6 DEF t
<1> QED BY <1>3, <1>4

-----------------------------------------------------------------------------
LEMMA FilesAre ==
    ASSUME files \in Directories
    PROVE  IsFiniteSet(files) /\ files \subseteq Versions
BY MigrationsAssumption DEF Versions

\* The sequences of all members of a set, each once.
LEMMA Sequenced ==
    ASSUME NEW S, IsFiniteSet(S), NEW s \in Orders(S)
    PROVE  s \in Seq(S) /\ Range(s) = S
<1> DEFINE D == 1..Cardinality(S)
<1>1. Cardinality(S) \in Nat
  BY FS_CardinalityType
<1>2. s \in [D -> S] /\ \A i, j \in D : i # j => s[i] # s[j]
  BY DEF Orders, Bijection, Injection, Surjection, IsInjective
<1>3. s \in Seq(S)
  BY <1>1, <1>2
<1>4. IsFiniteSet(D) /\ Cardinality(D) = Cardinality(S)
  BY <1>1, FS_Interval
<1> HIDE DEF D
<1>5. s \in Injection(D, S)
  BY <1>2, Fun_IsInj
<1>6. s \in Surjection(D, S)
  BY <1>4, <1>5, FS_Injection
<1>7. \A x \in S : \E i \in D : s[i] = x
  BY <1>6, Fun_SurjectionProperties
<1>8. DOMAIN s = D
  BY <1>2
<1> QED BY <1>2, <1>3, <1>7, <1>8 DEF Range

\* The versions up to some one, in order, are all there is below it.
LEMMA TakenInOrder ==
    ASSUME NEW S, S \subseteq Versions, NEW s \in Seq(S), Range(s) = S, Increasing(s),
           NEW k \in 0..Len(s), NEW t, t = SubSeq(s, 1, k)
    PROVE  /\ t \in Seq(S) /\ Increasing(t)
           /\ \A v \in S, w \in Range(t) : Number(v) < Number(w) => v \in Range(t)
<1> DEFINE n == Len(s)
<1>1. t \in Seq(S) /\ DOMAIN t = 1..k /\ n \in Nat /\ k \in Nat /\ k <= n
  OBVIOUS
<1>2. \A i \in 1..k : t[i] = s[i]
  OBVIOUS
<1>4. \A i, j \in 1..n : i < j => Number(s[i]) < Number(s[j])
  BY DEF Increasing
<1>5. \A i \in 1..n : s[i] \in S
  OBVIOUS
<1>6. S = {s[i] : i \in 1..n}
  BY DEF Range
<1> HIDE DEF n
<1>7. \A i \in 1..k : i \in 1..n
  BY <1>1
<1>8. Increasing(t)
  BY <1>1, <1>2, <1>4, <1>7 DEF Increasing
<1>9. Range(t) = {s[i] : i \in 1..k}
  BY <1>1, <1>2 DEF Range
<1>10. \A v \in S, w \in Range(t) : Number(v) < Number(w) => v \in Range(t)
  <2> SUFFICES ASSUME NEW v \in S, NEW w \in Range(t), Number(v) < Number(w) PROVE v \in Range(t)
    OBVIOUS
  <2>1. PICK i \in 1..n : v = s[i]
    BY <1>6
  <2>2. PICK j \in 1..k : w = s[j]
    BY <1>9
  <2>3. Number(v) \in Nat /\ Number(w) \in Nat
    BY <1>5, <1>7, <2>2, NumberTells
  <2>4. ~(j < i)
    BY <1>4, <1>7, <2>1, <2>2, <2>3
  <2>5. i \in 1..k
    BY <1>1, <2>4
  <2> QED BY <1>9, <2>1, <2>5
<1>11. t \in Seq(S)
  BY <1>1
<1> QED BY <1>8, <1>10, <1>11

LEMMA MigrationStarts == MigrationInit => MigrationInv
<1> SUFFICES ASSUME MigrationInit PROVE MigrationInv
  OBVIOUS
<1>1. files \in Directories /\ IsFiniteSet(files) /\ files \subseteq Versions
  BY FilesAre DEF MigrationInit
<1>2. /\ starts = 0 /\ runner = [p \in Runners |-> [stage |-> "off", left |-> <<>>]]
  BY DEF MigrationInit
<1>3. PICK done \in IF Collide(files) THEN {<<>>}
                   ELSE {SubSeq(Ordered(files), 1, k) : k \in 0..Cardinality(files)},
           kind \in {"migrated", "flyway", "bare"} :
          /\ performed = done
          /\ recorded = IF kind = "migrated" THEN Range(done) ELSE {}
          /\ flyway = IF kind = "flyway" THEN Range(done) ELSE {}
          /\ kind = "bare" => done = <<>> \/ Range(done) = files
  BY DEF MigrationInit
<1>4. /\ performed \in Seq(files) /\ Increasing(performed)
      /\ performed # <<>> => ~Collide(files)
      /\ \A v \in files, w \in Range(performed) : Number(v) < Number(w) => v \in Range(performed)
  <2>1. CASE Collide(files)
    <3>1. performed = <<>>
      BY <1>3, <2>1
    <3>2. Range(<<>>) = {} /\ Increasing(<<>>) /\ <<>> \in Seq(files)
      BY DEF Range, Increasing
    <3> QED BY <3>1, <3>2
  <2>2. CASE ~Collide(files)
    <3>1. PICK k \in 0..Cardinality(files) : performed = SubSeq(Ordered(files), 1, k)
      BY <1>3, <2>2
    <3>2. /\ Ordered(files) \in Seq(files) /\ Range(Ordered(files)) = files /\ Increasing(Ordered(files))
          /\ k \in 0..Len(Ordered(files))
      BY <1>1, <2>2, OrderedFacts
    <3> DEFINE o == Ordered(files)
    <3>3. o \in Seq(files) /\ Range(o) = files /\ Increasing(o) /\ k \in 0..Len(o) /\ performed = SubSeq(o, 1, k)
      BY <3>1, <3>2
    <3> HIDE DEF o
    <3>4. /\ performed \in Seq(files) /\ Increasing(performed)
          /\ \A v \in files, w \in Range(performed) : Number(v) < Number(w) => v \in Range(performed)
      <4> DEFINE t == performed
      <4>1. t = SubSeq(o, 1, k)
        BY <3>3
      <4> HIDE DEF t
      <4>2. /\ t \in Seq(files) /\ Increasing(t)
            /\ \A v \in files, w \in Range(t) : Number(v) < Number(w) => v \in Range(t)
        BY <1>1, <3>3, <4>1, TakenInOrder
      <4> QED BY <4>2 DEF t
    <3> QED BY <2>2, <3>4
  <2> QED BY <2>1, <2>2
<1>5. Range(performed) \subseteq files /\ (performed = <<>> => Range(performed) = {}) /\ (Range(performed) = {} => performed = <<>>)
  BY <1>4, Members
<1>6. /\ recorded \subseteq Range(performed) /\ flyway \subseteq Range(performed)
      /\ recorded # {} => recorded = Range(performed)
      /\ recorded = {} => IF flyway # {} THEN Range(performed) = flyway
                          ELSE performed = <<>> \/ Range(performed) = files
  BY <1>3, <1>5
<1>7. HistoryOK
  BY <1>4, <1>6 DEF HistoryOK
<1>8. runner \in [Runners -> [stage : Stages, left : Seq(files)]] /\ starts \in 0..MaxStarts
  <2>1. [stage |-> "off", left |-> <<>>] \in [stage : Stages, left : Seq(files)]
    BY DEF Stages
  <2> QED BY <1>2, <2>1, MigrationsAssumption
<1>9. MigrationTypeOK
  BY <1>1, <1>4, <1>5, <1>6, <1>8 DEF MigrationTypeOK
<1>10. \A p \in Runners : runner[p].stage = "off"
  BY <1>2
<1>11. RunnersOK
  BY <1>6, <1>10 DEF RunnersOK, RunnerOK, Apart, Settled, Baselining
<1> QED BY <1>7, <1>9, <1>11 DEF MigrationInv

\* A step of one process that leaves the database alone.
LEMMA OneMoves ==
    ASSUME MigrationInv, NEW p \in Runners, NEW one \in [stage : Stages, left : Seq(files)],
           runner' = [runner EXCEPT ![p] = one], UNCHANGED <<files, flyway, performed, recorded>>,
           starts' \in 0..MaxStarts, RunnerOK(one),
           \A q \in Runners : q # p => Apart(one, runner[q]) /\ Apart(runner[q], one),
           runner[p].stage = "adopting" /\ one.stage # "adopting" => recorded = Range(performed)
    PROVE  MigrationInv'
<1>1. /\ runner' \in [Runners -> [stage : Stages, left : Seq(files)]] /\ runner'[p] = one
      /\ \A q \in Runners : q # p => runner'[q] = runner[q]
  BY DEF MigrationInv, MigrationTypeOK
<1>2. MigrationTypeOK'
  BY <1>1 DEF MigrationInv, MigrationTypeOK
<1>3. HistoryOK'
  BY DEF MigrationInv, HistoryOK
<1>4. \A q \in Runners : RunnerOK(runner'[q])
  BY <1>1 DEF MigrationInv, RunnersOK
<1>5. \A q, r \in Runners : q # r => Apart(runner'[q], runner'[r])
  BY <1>1 DEF MigrationInv, RunnersOK
<1>6. recorded # {} /\ (\A q \in Runners : runner'[q].stage # "adopting") => recorded = Range(performed)
  BY <1>1 DEF MigrationInv, RunnersOK
<1>7. RunnersOK'
  BY <1>4, <1>5, <1>6 DEF RunnersOK, RunnerOK, Apart
<1> QED BY <1>2, <1>3, <1>7 DEF MigrationInv

LEMMA StartingKeeps ==
    ASSUME MigrationInv, FirstRunAlone, NEW p \in Runners, MigrationStart(p)
    PROVE  MigrationInv'
<1> DEFINE one == [stage |-> IF Collide(files) THEN "failed" ELSE "count", left |-> <<>>]
<1>1. one \in [stage : Stages, left : Seq(files)] /\ starts' \in 0..MaxStarts
  BY MigrationsAssumption DEF Stages, MigrationStart, MigrationInv, MigrationTypeOK
<1>2. /\ one.stage \in {"failed", "count"} /\ (one.stage # "failed" => ~Collide(files))
      /\ one.stage # "adopting" /\ one.stage \notin {"look", "read", "running", "applying", "up"}
  OBVIOUS
<1>3. /\ runner' = [runner EXCEPT ![p] = one] /\ runner[p].stage \in Settled
      /\ UNCHANGED <<files, flyway, performed, recorded>>
      /\ \/ \A q \in Runners : runner[q].stage \in Settled
         \/ recorded # {} /\ \A q \in Runners : runner[q].stage \notin Baselining
  BY DEF MigrationStart
<1> HIDE DEF one
<1>4. RunnerOK(one)
  BY <1>2 DEF RunnerOK, Settled
<1>5. \A q \in Runners : q # p => Apart(one, runner[q]) /\ Apart(runner[q], one)
  BY <1>2, <1>3 DEF Apart, Settled, Baselining
<1>6. runner[p].stage # "adopting"
  BY <1>3 DEF Settled
<1> QED BY <1>1, <1>3, <1>4, <1>5, <1>6, OneMoves

LEMMA CountingKeeps ==
    ASSUME MigrationInv, NEW p \in Runners, CountRows(p)
    PROVE  MigrationInv'
<1> DEFINE one == [runner[p] EXCEPT !.stage = IF recorded = {} THEN "look" ELSE "read"]
<1>1. runner[p] \in [stage : Stages, left : Seq(files)] /\ runner[p].stage = "count"
  BY DEF CountRows, MigrationInv, MigrationTypeOK
<1>2. /\ one \in [stage : Stages, left : Seq(files)]
      /\ one.stage = IF recorded = {} THEN "look" ELSE "read"
  BY <1>1 DEF Stages
<1>3. /\ runner' = [runner EXCEPT ![p] = one] /\ UNCHANGED <<files, flyway, performed, recorded, starts>>
  BY DEF CountRows
<1>4. \A q \in Runners : q # p =>
          /\ runner[q].stage \notin Baselining
          /\ recorded = {} => runner[q].stage \in Settled
  BY <1>1 DEF MigrationInv, RunnersOK, Apart, Baselining
<1> HIDE DEF one
<1>5. recorded # {} => recorded = Range(performed)
  BY <1>1, <1>4 DEF MigrationInv, RunnersOK, Baselining
<1>6. ~Collide(files)
  BY <1>1 DEF MigrationInv, RunnersOK, RunnerOK, Settled
<1>7. RunnerOK(one)
  BY <1>2, <1>5, <1>6 DEF RunnerOK, Settled
<1>8. \A q \in Runners : q # p => Apart(one, runner[q]) /\ Apart(runner[q], one)
  BY <1>2, <1>4 DEF Apart, Settled, Baselining
<1>9. starts' \in 0..MaxStarts
  BY <1>3 DEF MigrationInv, MigrationTypeOK
<1> QED BY <1>1, <1>2, <1>3, <1>7, <1>8, <1>9, OneMoves

LEMMA LookingKeeps ==
    ASSUME MigrationInv, NEW p \in Runners, LookForHistory(p)
    PROVE  MigrationInv'
<1>1. /\ runner[p].stage = "look" /\ recorded = {} /\ ~Collide(files)
      /\ \A q \in Runners : q # p => runner[q].stage \in Settled
  BY DEF LookForHistory, MigrationInv, RunnersOK, RunnerOK, Apart, Settled, Baselining
<1>2. PICK adopted \in IF flyway # {} THEN Orders(flyway)
                       ELSE {IF UsersExist THEN Ordered(files) ELSE <<>>} :
          runner' = [runner EXCEPT ![p] = [stage |-> "adopting", left |-> adopted]]
  BY DEF LookForHistory
<1>3. UNCHANGED <<files, flyway, performed, recorded, starts>>
  BY DEF LookForHistory
<1>4. IsFiniteSet(files) /\ files \subseteq Versions /\ flyway \subseteq files /\ performed \in Seq(files)
  BY FilesAre DEF MigrationInv, MigrationTypeOK
<1>5. IF flyway # {} THEN Range(performed) = flyway ELSE performed = <<>> \/ Range(performed) = files
  BY <1>1 DEF MigrationInv, HistoryOK
<1>6. adopted \in Seq(files) /\ Range(performed) = Range(adopted)
  <2>1. CASE flyway # {}
    <3>1. IsFiniteSet(flyway) /\ adopted \in Orders(flyway)
      BY <1>2, <1>4, <2>1, FS_Subset
    <3>2. adopted \in Seq(flyway) /\ Range(adopted) = flyway
      BY <3>1, Sequenced
    <3> QED BY <1>4, <1>5, <2>1, <3>2
  <2>2. CASE flyway = {} /\ performed # <<>>
    <3>1. adopted = Ordered(files) /\ Range(performed) = files
      BY <1>2, <1>5, <2>2 DEF UsersExist
    <3> QED BY <1>1, <1>4, <3>1, OrderedFacts
  <2>3. CASE flyway = {} /\ performed = <<>>
    <3>1. adopted = <<>>
      BY <1>2, <2>3 DEF UsersExist
    <3> QED BY <2>3, <3>1
  <2> QED BY <2>1, <2>2, <2>3
<1> DEFINE one == [stage |-> "adopting", left |-> adopted]
<1>7. one \in [stage : Stages, left : Seq(files)] /\ one.stage = "adopting" /\ one.left = adopted
  BY <1>6 DEF Stages
<1>8. runner' = [runner EXCEPT ![p] = one]
  BY <1>2
<1> HIDE DEF one
<1>9. RunnerOK(one)
  BY <1>1, <1>6, <1>7 DEF RunnerOK, Settled
<1>10. \A q \in Runners : q # p => Apart(one, runner[q]) /\ Apart(runner[q], one)
  BY <1>1, <1>7 DEF Apart, Settled, Baselining
<1>11. starts' \in 0..MaxStarts
  BY <1>3 DEF MigrationInv, MigrationTypeOK
<1> QED BY <1>1, <1>3, <1>7, <1>8, <1>9, <1>10, <1>11, OneMoves

\* Reading, running, giving up and being cut short, away from the adoption.
LEMMA ReadingKeeps ==
    ASSUME MigrationInv, NEW p \in Runners, ReadApplied(p)
    PROVE  MigrationInv'
<1>1. runner[p].stage = "read" /\ ~Collide(files) /\ recorded = Range(performed)
  BY DEF ReadApplied, MigrationInv, RunnersOK, RunnerOK, Settled
<1>2. \A q \in Runners : q # p =>
          ~(runner[q].stage \in Baselining /\ (recorded = {} \/ runner[q].stage = "adopting"))
  BY <1>1 DEF MigrationInv, RunnersOK, Apart, Settled
<1> DEFINE rest == files \ recorded
           one == [stage |-> "running", left |-> Ordered(rest)]
<1>3. /\ runner' = [runner EXCEPT ![p] = one] /\ UNCHANGED <<files, flyway, performed, recorded, starts>>
  BY DEF ReadApplied
<1>4. IsFiniteSet(files) /\ files \subseteq Versions
  BY FilesAre DEF MigrationInv, MigrationTypeOK
<1>5. IsFiniteSet(rest) /\ rest \subseteq Versions /\ ~Collide(rest) /\ rest \subseteq files
  BY <1>1, <1>4, FS_Subset DEF Collide
<1>r. rest = files \ recorded
  OBVIOUS
<1> HIDE DEF rest
<1>6. Ordered(rest) \in Seq(rest) /\ Range(Ordered(rest)) = rest /\ Increasing(Ordered(rest))
  BY <1>5, OrderedFacts
<1>7. one \in [stage : Stages, left : Seq(files)] /\ one.stage = "running" /\ one.left = Ordered(rest)
  BY <1>5, <1>6 DEF Stages
<1> HIDE DEF one
<1>8. RunnerOK(one)
  BY <1>1, <1>6, <1>7, <1>r DEF RunnerOK, Settled
<1>9. \A q \in Runners : q # p => Apart(one, runner[q]) /\ Apart(runner[q], one)
  BY <1>2, <1>7 DEF Apart, Settled, Baselining
<1>10. starts' \in 0..MaxStarts
  BY <1>3 DEF MigrationInv, MigrationTypeOK
<1> QED BY <1>1, <1>3, <1>7, <1>8, <1>9, <1>10, OneMoves

LEMMA BeginningKeeps ==
    ASSUME MigrationInv, NEW p \in Runners, BeginNext(p)
    PROVE  MigrationInv'
<1> DEFINE one == [runner[p] EXCEPT !.stage = IF runner[p].left = <<>> THEN "up" ELSE "applying"]
<1>1. /\ runner[p] \in [stage : Stages, left : Seq(files)] /\ runner[p].stage = "running"
      /\ recorded \subseteq files
  BY DEF BeginNext, MigrationInv, MigrationTypeOK
<1>2. /\ one \in [stage : Stages, left : Seq(files)] /\ one.left = runner[p].left
      /\ one.stage = IF runner[p].left = <<>> THEN "up" ELSE "applying"
  BY <1>1 DEF Stages
<1>3. /\ runner' = [runner EXCEPT ![p] = one] /\ UNCHANGED <<files, flyway, performed, recorded, starts>>
  BY DEF BeginNext
<1> HIDE DEF one
<1>4. \A q \in Runners : q # p =>
          ~(runner[q].stage \in Baselining /\ (recorded = {} \/ runner[q].stage = "adopting"))
  BY <1>1 DEF MigrationInv, RunnersOK, Apart, Settled
<1>5. /\ ~Collide(files) /\ recorded = Range(performed) /\ Increasing(runner[p].left)
      /\ files \ recorded \subseteq Range(runner[p].left)
  BY <1>1 DEF MigrationInv, RunnersOK, RunnerOK, Settled
<1>6. runner[p].left = <<>> => Range(runner[p].left) = {}
  BY <1>1, Members
<1>7. RunnerOK(one)
  BY <1>1, <1>2, <1>5, <1>6 DEF RunnerOK, Settled
<1>8. \A q \in Runners : q # p => Apart(one, runner[q]) /\ Apart(runner[q], one)
  BY <1>2, <1>4 DEF Apart, Settled, Baselining
<1>9. starts' \in 0..MaxStarts
  BY <1>3 DEF MigrationInv, MigrationTypeOK
<1> QED BY <1>1, <1>2, <1>3, <1>7, <1>8, <1>9, OneMoves

LEMMA EndingKeeps ==
    ASSUME MigrationInv, FirstRunAlone, NEW p \in Runners, Rollback(p) \/ MigrationCrash(p)
    PROVE  MigrationInv'
<1>1. PICK one \in [stage : Stages, left : Seq(files)] :
          one.stage \in {"failed", "off"} /\ runner' = [runner EXCEPT ![p] = one]
  <2>1. CASE Rollback(p)
    <3> DEFINE one == [runner[p] EXCEPT !.stage = "failed"]
    <3>1. one \in [stage : Stages, left : Seq(files)] /\ one.stage = "failed"
      BY DEF MigrationInv, MigrationTypeOK, Stages
    <3>2. runner' = [runner EXCEPT ![p] = one]
      BY <2>1 DEF Rollback
    <3> HIDE DEF one
    <3> QED BY <3>1, <3>2
  <2>2. CASE MigrationCrash(p)
    <3> DEFINE one == [stage |-> "off", left |-> <<>>]
    <3>1. one \in [stage : Stages, left : Seq(files)] /\ one.stage = "off"
      BY DEF Stages
    <3>2. runner' = [runner EXCEPT ![p] = one]
      BY <2>2 DEF MigrationCrash
    <3> HIDE DEF one
    <3> QED BY <3>1, <3>2
  <2> QED BY <2>1, <2>2
<1>2. runner[p].stage # "adopting" /\ UNCHANGED <<files, flyway, performed, recorded, starts>>
  BY DEF Rollback, MigrationCrash
<1>3. RunnerOK(one)
  BY <1>1 DEF RunnerOK, Settled
<1>4. \A q \in Runners : q # p => Apart(one, runner[q]) /\ Apart(runner[q], one)
  BY <1>1 DEF Apart, Settled, Baselining
<1>5. starts' \in 0..MaxStarts
  BY <1>2 DEF MigrationInv, MigrationTypeOK
<1> QED BY <1>1, <1>2, <1>3, <1>4, <1>5, OneMoves

LEMMA AdoptingKeeps ==
    ASSUME MigrationInv, NEW p \in Runners, Adopt(p)
    PROVE  MigrationInv'
<1>1. /\ runner[p] \in [stage : Stages, left : Seq(files)] /\ runner[p].stage = "adopting"
      /\ recorded \subseteq files /\ performed \in Seq(files)
      /\ UNCHANGED <<files, flyway, performed, starts>> /\ starts \in 0..MaxStarts
  BY DEF Adopt, MigrationInv, MigrationTypeOK
<1>2. ~Collide(files) /\ Range(performed) = recorded \cup Range(runner[p].left)
  BY <1>1 DEF MigrationInv, RunnersOK, RunnerOK, Settled
<1>3. \A q \in Runners : q # p => runner[q].stage \in Settled
  BY <1>1 DEF MigrationInv, RunnersOK, Apart, Baselining
<1>4. CASE runner[p].left = <<>>
  <2> DEFINE one == [runner[p] EXCEPT !.stage = "read"]
  <2>1. one \in [stage : Stages, left : Seq(files)] /\ one.stage = "read"
    BY <1>1 DEF Stages
  <2>2. runner' = [runner EXCEPT ![p] = one] /\ UNCHANGED recorded
    BY <1>4 DEF Adopt
  <2> HIDE DEF one
  <2>3. recorded = Range(performed)
    BY <1>1, <1>2, <1>4, Members
  <2>4. RunnerOK(one)
    BY <1>2, <2>1, <2>3 DEF RunnerOK, Settled
  <2>5. \A q \in Runners : q # p => Apart(one, runner[q]) /\ Apart(runner[q], one)
    BY <1>3, <2>1 DEF Apart, Settled, Baselining
  <2> QED BY <1>1, <2>1, <2>2, <2>3, <2>4, <2>5, OneMoves
<1>5. CASE runner[p].left # <<>>
  <2> DEFINE one == [runner[p] EXCEPT !.left = Tail(@)]
             version == Head(runner[p].left)
             left == runner[p].left
  <2>1. /\ left \in Seq(files) /\ version \in files /\ Tail(left) \in Seq(files)
        /\ Range(left) = {version} \cup Range(Tail(left))
    BY <1>1, <1>5, Members
  <2>2. /\ one \in [stage : Stages, left : Seq(files)] /\ one.stage = "adopting" /\ one.left = Tail(left)
    BY <1>1, <2>1
  <2>3. runner' = [runner EXCEPT ![p] = one] /\ recorded' = recorded \cup {version}
    BY <1>5 DEF Adopt
  <2> HIDE DEF one, version
  <2>4. /\ runner' \in [Runners -> [stage : Stages, left : Seq(files)]] /\ runner'[p] = one
        /\ \A q \in Runners : q # p => runner'[q] = runner[q]
    BY <2>2, <2>3 DEF MigrationInv, MigrationTypeOK
  <2>5. MigrationTypeOK'
    BY <1>1, <2>1, <2>3, <2>4 DEF MigrationInv, MigrationTypeOK
  <2>6. HistoryOK'
    <3>1. recorded' \subseteq Range(performed) /\ recorded' # {}
      BY <1>2, <2>1, <2>3
    <3> QED BY <1>1, <3>1 DEF MigrationInv, HistoryOK
  <2>7. Range(performed) = recorded' \cup Range(Tail(left))
    BY <1>2, <2>1, <2>3
  <2>9. ASSUME NEW q \in Runners, q # p PROVE RunnerOK(runner[q])'
    <3>1. runner[q].stage \in Settled /\ RunnerOK(runner[q]) /\ runner'[q] = runner[q]
      BY <1>3, <2>4, <2>9 DEF MigrationInv, RunnersOK
    <3>2. recorded = files => recorded' = files
      BY <2>1, <2>3
    <3> QED BY <1>1, <3>1, <3>2 DEF RunnerOK, Settled
  <2>10. \A q \in Runners : RunnerOK(runner[q])'
    <3>2. \A q \in Runners : q = p \/ q # p
      OBVIOUS
    <3>3. RunnerOK(runner[p])'
      BY <1>1, <1>2, <2>2, <2>4, <2>7 DEF RunnerOK, Settled
    <3> QED BY <2>9, <3>2, <3>3
  <2>11. \A q, r \in Runners : q # r => Apart(runner[q], runner[r])'
    <3>1. \A q \in Runners : q # p => runner'[q].stage \in Settled
      BY <1>3, <2>4
    <3> QED BY <3>1 DEF Apart, Settled, Baselining
  <2>12. RunnersOK'
    BY <2>2, <2>4, <2>10, <2>11 DEF RunnersOK
  <2> QED BY <2>5, <2>6, <2>12 DEF MigrationInv
<1> QED BY <1>4, <1>5

LEMMA CommittingKeeps ==
    ASSUME MigrationInv, NEW p \in Runners, Commit(p)
    PROVE  MigrationInv'
<1> DEFINE left == runner[p].left
           v == Head(left)
           one == [stage |-> "running", left |-> Tail(left)]
<1>1. /\ runner[p] \in [stage : Stages, left : Seq(files)] /\ runner[p].stage = "applying"
      /\ recorded \subseteq files /\ performed \in Seq(files)
      /\ UNCHANGED <<files, flyway, starts>> /\ starts \in 0..MaxStarts
  BY DEF Commit, MigrationInv, MigrationTypeOK
<1>2. /\ ~Collide(files) /\ recorded = Range(performed) /\ Increasing(left) /\ left # <<>>
      /\ files \ recorded \subseteq Range(left)
  BY <1>1 DEF MigrationInv, RunnersOK, RunnerOK, Settled
<1>3. files \subseteq Versions
  BY FilesAre DEF MigrationInv, MigrationTypeOK
<1>4. /\ left \in Seq(files) /\ v \in files /\ Tail(left) \in Seq(files)
      /\ Range(left) = {v} \cup Range(Tail(left))
  BY <1>1, <1>2, Members
<1>5. Increasing(Tail(left)) /\ \A x \in Range(Tail(left)) : Number(v) < Number(x)
  BY <1>2, <1>3, <1>4, InOrder
<1>6. /\ v \notin Range(performed) /\ v \notin recorded
      /\ performed' = Append(performed, v) /\ recorded' = recorded \cup {v}
      /\ runner' = [runner EXCEPT ![p] = one]
  BY DEF Commit
<1>7. one \in [stage : Stages, left : Seq(files)] /\ one.stage = "running" /\ one.left = Tail(left)
  BY <1>4 DEF Stages
<1> HIDE DEF left, v, one
<1>8. performed' \in Seq(files) /\ Range(performed') = Range(performed) \cup {v}
  BY <1>1, <1>4, <1>6, Members
<1>9. recorded' = Range(performed') /\ recorded' \subseteq files /\ recorded' # {} /\ performed' # <<>>
  <2>1. Range(<<>>) = {}
    BY DEF Range
  <2> QED BY <1>1, <1>2, <1>4, <1>6, <1>8, <2>1
<1>10. /\ runner' \in [Runners -> [stage : Stages, left : Seq(files)]] /\ runner'[p] = one
       /\ \A q \in Runners : q # p => runner'[q] = runner[q]
  BY <1>6, <1>7 DEF MigrationInv, MigrationTypeOK
<1>11. MigrationTypeOK'
  BY <1>1, <1>8, <1>9, <1>10 DEF MigrationInv, MigrationTypeOK
<1>12. \A x, y \in files : Number(x) \in Nat /\ (x = y \/ Number(x) < Number(y) \/ Number(y) < Number(x))
  <2> SUFFICES ASSUME NEW x \in files, NEW y \in files
               PROVE  Number(x) \in Nat /\ (x = y \/ Number(x) < Number(y) \/ Number(y) < Number(x))
    OBVIOUS
  <2>1. x \in Versions /\ y \in Versions
    BY <1>3
  <2>2. Number(x) \in Nat /\ Number(y) \in Nat /\ (Number(x) = Number(y) => SortKey(x) = SortKey(y))
    BY <2>1, NumberTells
  <2>3. Number(x) = Number(y) => x = y
    BY <1>2, <2>2 DEF Collide
  <2> QED BY <2>2, <2>3
<1>13. Range(performed) \subseteq files /\ \A x \in files, w \in Range(performed) :
           Number(x) < Number(w) => x \in Range(performed)
  BY <1>1, Members DEF MigrationInv, HistoryOK
<1>14. \A w \in Range(performed) : Number(w) < Number(v)
  BY <1>4, <1>6, <1>12, <1>13
<1>15. Increasing(performed')
  <2>1. Increasing(performed)
    BY DEF MigrationInv, HistoryOK
  <2> QED BY <1>1, <1>3, <1>4, <1>6, <1>14, <2>1, InOrder
<1>16. \A x \in files : Number(x) < Number(v) => x \in Range(performed)
  <2> SUFFICES ASSUME NEW x \in files, Number(x) < Number(v), x \notin recorded PROVE FALSE
    BY <1>2
  <2>1. x = v \/ x \in Range(Tail(left))
    BY <1>2, <1>4
  <2>2. Number(x) \in Nat /\ Number(v) \in Nat
    BY <1>4, <1>12
  <2> QED BY <1>5, <2>1, <2>2
<1>17. \A x \in files, w \in Range(performed') : Number(x) < Number(w) => x \in Range(performed')
  BY <1>8, <1>13, <1>16
<1>18. HistoryOK'
  BY <1>1, <1>2, <1>9, <1>15, <1>17 DEF HistoryOK, Collide
<1>19. \A q \in Runners :
           ~(runner[q].stage \in Baselining /\ (recorded = {} \/ runner[q].stage = "adopting"))
  BY <1>1 DEF MigrationInv, RunnersOK, Apart, Settled, Baselining
<1>20. RunnerOK(runner[p])'
  <2>1. files \ recorded' \subseteq Range(Tail(left))
    BY <1>2, <1>4, <1>6
  <2> QED BY <1>1, <1>2, <1>5, <1>7, <1>9, <1>10, <2>1 DEF RunnerOK, Settled, Increasing, Collide
<1>21. ASSUME NEW q \in Runners, q # p PROVE RunnerOK(runner[q])'
  <2>1. RunnerOK(runner[q]) /\ runner'[q] = runner[q]
    BY <1>10, <1>21 DEF MigrationInv, RunnersOK
  <2>2. runner[q].stage \notin {"look", "adopting"}
    BY <1>19, <2>1 DEF RunnerOK, Baselining
  <2>3. recorded # files
    BY <1>4, <1>6
  <2>4. files \ recorded' \subseteq files \ recorded
    BY <1>6
  <2> QED BY <1>1, <1>9, <2>1, <2>2, <2>3, <2>4 DEF RunnerOK, Settled, Increasing, Collide
<1>22. \A q \in Runners : RunnerOK(runner[q])'
  BY <1>20, <1>21
<1>23. \A q, r \in Runners : q # r => Apart(runner[q], runner[r])'
  <2> SUFFICES ASSUME NEW q \in Runners, NEW r \in Runners, q # r PROVE Apart(runner[q], runner[r])'
    OBVIOUS
  <2>1. Apart(runner[q], runner[r]) /\ runner[q].stage # "adopting"
    BY <1>19 DEF MigrationInv, RunnersOK, Baselining
  <2>2. runner'[p].stage = "running"
    BY <1>7, <1>10
  <2>3. CASE q = p
    BY <2>2, <2>3 DEF Apart, Baselining
  <2>4. CASE q # p
    <3>1. runner'[q] = runner[q] /\ runner'[r].stage \in {runner[r].stage, "running"}
      BY <1>10, <2>2, <2>4
    <3> QED BY <1>9, <2>1, <3>1 DEF Apart, Baselining
  <2> QED BY <2>3, <2>4
<1>24. RunnersOK'
  BY <1>9, <1>22, <1>23 DEF RunnersOK
<1> QED BY <1>11, <1>18, <1>24 DEF MigrationInv

LEMMA MigrationMoves ==
    ASSUME FirstRunAlone, MigrationInv, [MigrationNext]_migrationVars
    PROVE  MigrationInv'
<1>1. CASE MigrationNext
  <2>1. PICK p \in Runners :
            \/ MigrationStart(p) \/ CountRows(p) \/ LookForHistory(p) \/ Adopt(p)
            \/ ReadApplied(p) \/ BeginNext(p) \/ Commit(p) \/ Rollback(p) \/ MigrationCrash(p)
    BY <1>1 DEF MigrationNext
  <2> QED BY <2>1, StartingKeeps, CountingKeeps, LookingKeeps, AdoptingKeeps, ReadingKeeps, BeginningKeeps,
             CommittingKeeps, EndingKeeps
<1>2. CASE UNCHANGED migrationVars
  BY <1>2 DEF migrationVars, MigrationInv, MigrationTypeOK, HistoryOK, RunnersOK, RunnerOK, Apart, Increasing, Collide
<1> QED BY <1>1, <1>2

LEMMA MigrationShows == MigrationInv => MigrationsExact
BY DEF MigrationInv, HistoryOK, RunnersOK, RunnerOK, Increasing, MigrationsExact, NeverRunAgain

\* What the order of the migrations rests on holds in every state, if a process that finds
\* no row in the table of versions is alone and is not cut short.
THEOREM MigrationsInductive ==
    ASSUME FirstRunAlone PROVE MigrationSpec => []MigrationInv
<1>1. MigrationInit => MigrationInv
  BY MigrationStarts
<1>2. MigrationInv /\ [MigrationNext]_migrationVars => MigrationInv'
  BY MigrationMoves
<1> QED BY <1>1, <1>2, PTL DEF MigrationSpec

\* Under the same condition migrations take effect in the order of their numbers and each
\* once, and a process serves only when every one is recorded.
THEOREM MigrationsInOrder ==
    ASSUME FirstRunAlone PROVE MigrationSpec => []MigrationsExact
<1>1. MigrationInv => MigrationsExact
  BY MigrationShows
<1> QED BY <1>1, MigrationsInductive, PTL

-----------------------------------------------------------------------------
(* Numbers, sequences, and finite sets in an order *)

\* Of two numbers, the smaller and the greater.
LEMMA SmallerOfTwo == ASSUME NEW a \in Int, NEW b \in Int PROVE Min({a, b}) = IF a <= b THEN a ELSE b
<1>1. CASE a <= b
  BY <1>1 DEF Min
<1>2. CASE ~(a <= b)
  BY <1>2 DEF Min
<1> QED BY <1>1, <1>2

LEMMA GreaterOfTwo == ASSUME NEW a \in Int, NEW b \in Int PROVE Max({a, b}) = IF a <= b THEN b ELSE a
<1>1. CASE a <= b
  BY <1>1 DEF Max
<1>2. CASE ~(a <= b)
  BY <1>2 DEF Max
<1> QED BY <1>1, <1>2

\* Sequences over a part of a set, and the elements of a sequence.
LEMMA SeqOfMore == ASSUME NEW S, NEW T, S \subseteq T, NEW s \in Seq(S) PROVE s \in Seq(T)
<1>1. s = [n \in 1..Len(s) |-> s[n]] /\ Len(s) \in Nat /\ \A n \in 1..Len(s) : s[n] \in S
  OBVIOUS
<1>2. \A n \in 1..Len(s) : s[n] \in T
  BY <1>1
<1> QED BY <1>1, <1>2

LEMMA ElementOf == ASSUME NEW S, NEW s \in Seq(S), NEW n \in DOMAIN s PROVE s[n] \in S
OBVIOUS

\* The elements of S, each with as many before it as its place says.
Lined(S, before) == [n \in 1..Cardinality(S) |-> CHOOSE i \in S : Cardinality(before[i]) = n - 1]

\* The elements of a finite set, each after those that come before it: of two, one comes before
\* the other, and so does all that comes before the first.
IsOrdering(S, before) ==
    /\ IsFiniteSet(S) /\ \A i \in S : before[i] \subseteq S /\ i \notin before[i]
    /\ \A i, j \in S : i # j => i \in before[j] \/ j \in before[i]
    /\ \A i, j \in S : j \in before[i] => before[j] \subseteq before[i]

\* Fewer come before whatever comes before.
LEMMA EarlierIsLess ==
    ASSUME NEW S, NEW before, IsOrdering(S, before), NEW i \in S, NEW j \in S, j \in before[i]
    PROVE  Cardinality(before[j]) < Cardinality(before[i])
<1>1. IsFiniteSet(before[i]) /\ IsFiniteSet(before[j])
  BY FS_Subset DEF IsOrdering
<1>2. before[j] \subseteq before[i] /\ before[j] # before[i]
  BY DEF IsOrdering
<1>3. Cardinality(before[i]) \in Nat /\ Cardinality(before[j]) \in Nat
  BY <1>1, FS_CardinalityType
<1>4. Cardinality(before[j]) <= Cardinality(before[i]) /\ (Cardinality(before[i]) = Cardinality(before[j]) => before[i] = before[j])
  BY <1>1, <1>2, FS_Subset
<1> QED BY <1>2, <1>3, <1>4

\* Every place is taken.
LEMMA Places ==
    ASSUME NEW S, NEW before, IsOrdering(S, before)
    PROVE  /\ Cardinality(S) \in Nat
           /\ \A i \in S : Cardinality(before[i]) \in 0..(Cardinality(S) - 1)
           /\ \A n \in 0..(Cardinality(S) - 1) : \E i \in S : Cardinality(before[i]) = n
<1> DEFINE c == Cardinality(S)
           place == [i \in S |-> Cardinality(before[i])]
           T == 0..(c - 1)
<1>1. c \in Nat /\ IsFiniteSet(S)
  BY FS_CardinalityType DEF IsOrdering
<1>2. ASSUME NEW i \in S PROVE Cardinality(before[i]) \in T
  <2>1. before[i] \subseteq S \ {i}
    BY DEF IsOrdering
  <2>2. IsFiniteSet(S \ {i}) /\ Cardinality(S \ {i}) = c - 1
    BY <1>1, FS_RemoveElement
  <2>3. IsFiniteSet(before[i]) /\ Cardinality(before[i]) <= c - 1
    BY <2>1, <2>2, FS_Subset
  <2>4. Cardinality(before[i]) \in Nat
    BY <2>3, FS_CardinalityType
  <2> QED BY <1>1, <2>3, <2>4
<1>3. place \in Injection(S, T)
  <2>1. ASSUME NEW i \in S, NEW j \in S, i # j PROVE place[i] # place[j]
    <3>1. i \in before[j] \/ j \in before[i]
      BY <2>1 DEF IsOrdering
    <3>2. place[i] < place[j] \/ place[j] < place[i]
      BY <3>1, EarlierIsLess
    <3>3. place[i] \in T /\ place[j] \in T
      BY <1>2
    <3> QED BY <3>2, <3>3
  <2>2. place \in [S -> T]
    BY <1>2
  <2> QED BY <2>1, <2>2, Fun_IsInj
<1>4. IsFiniteSet(T) /\ Cardinality(T) = c
  BY <1>1, FS_Interval
<1>5. place \in Surjection(S, T)
  BY <1>1, <1>3, <1>4, FS_Injection
<1>6. \A n \in T : \E i \in S : place[i] = n
  BY <1>5 DEF Surjection
<1> QED BY <1>1, <1>2, <1>6

\* The sequence has each of them at its place.
LEMMA LinedIs ==
    ASSUME NEW S, NEW before, IsOrdering(S, before), NEW s, s = Lined(S, before)
    PROVE  /\ s \in Seq(S) /\ Len(s) = Cardinality(S) /\ Cardinality(S) \in Nat
           /\ \A n \in 1..Len(s) : s[n] \in S /\ Cardinality(before[s[n]]) = n - 1
           /\ \A i \in S : Cardinality(before[i]) + 1 \in 1..Len(s) /\ s[Cardinality(before[i]) + 1] = i
           /\ \A n, m \in 1..Len(s) : n < m => s[n] \in before[s[m]]
<1> DEFINE c == Cardinality(S)
<1>0. c \in Nat
  BY Places
<1>1. ASSUME NEW n \in 1..c PROVE s[n] \in S /\ Cardinality(before[s[n]]) = n - 1
  <2>1. s[n] = CHOOSE i \in S : Cardinality(before[i]) = n - 1
    BY DEF Lined
  <2>2. n - 1 \in 0..(c - 1)
    BY <1>0
  <2>3. \E i \in S : Cardinality(before[i]) = n - 1
    BY <2>2, Places
  <2> QED BY <2>1, <2>3
<1>2. s \in Seq(S) /\ Len(s) = c
  <2>1. s = [n \in 1..c |-> s[n]]
    BY DEF Lined
  <2> HIDE DEF c
  <2> QED BY <1>0, <1>1, <2>1
<1>3. ASSUME NEW i \in S, NEW j \in S, Cardinality(before[i]) = Cardinality(before[j]) PROVE i = j
  <2>1. Cardinality(before[i]) \in 0..(c - 1) /\ Cardinality(before[j]) \in 0..(c - 1)
    BY Places
  <2>2. CASE i # j
    <3>1. i \in before[j] \/ j \in before[i]
      BY <2>2 DEF IsOrdering
    <3> QED BY <1>0, <1>3, <2>1, <3>1, EarlierIsLess
  <2> QED BY <2>2
<1>4. ASSUME NEW i \in S PROVE Cardinality(before[i]) + 1 \in 1..c /\ s[Cardinality(before[i]) + 1] = i
  <2>1. Cardinality(before[i]) \in 0..(c - 1)
    BY Places
  <2>2. Cardinality(before[i]) + 1 \in 1..c /\ (Cardinality(before[i]) + 1) - 1 = Cardinality(before[i])
    BY <1>0, <2>1
  <2> QED BY <1>1, <1>3, <2>2
<1>5. ASSUME NEW n \in 1..c, NEW m \in 1..c, n < m PROVE s[n] \in before[s[m]]
  <2>1. s[n] \in S /\ s[m] \in S /\ Cardinality(before[s[n]]) = n - 1 /\ Cardinality(before[s[m]]) = m - 1
    BY <1>1
  <2>2. s[n] # s[m]
    BY <1>0, <1>5, <2>1
  <2>3. s[n] \in before[s[m]] \/ s[m] \in before[s[n]]
    BY <2>1, <2>2 DEF IsOrdering
  <2>4. ~(s[m] \in before[s[n]])
    <3> SUFFICES ASSUME s[m] \in before[s[n]] PROVE FALSE
      OBVIOUS
    <3>1. Cardinality(before[s[m]]) < Cardinality(before[s[n]])
      BY <2>1, EarlierIsLess
    <3> QED BY <1>0, <1>5, <2>1, <3>1
  <2> QED BY <2>3, <2>4
<1> QED BY <1>0, <1>1, <1>2, <1>4, <1>5

-----------------------------------------------------------------------------
(* The audit trail and its pages *)

\* What a query for entries asks for, in its order.
TrailAsked(f, before) == {i \in Matching(f) : i < before}

\* Entries newest first are all of them in a descending sequence.
LEMMA NewestFirstIs ==
    ASSUME NEW asked, asked \in SUBSET Nat, IsFiniteSet(asked), NEW s, s = NewestFirst(asked)
    PROVE  /\ s \in Seq(asked) /\ Len(s) = Cardinality(asked) /\ Cardinality(asked) \in Nat
           /\ \A n \in 1..Len(s) : s[n] \in asked
           /\ \A i \in asked : \E n \in 1..Len(s) : s[n] = i
           /\ \A n, m \in 1..Len(s) : n < m => s[n] > s[m]
<1> DEFINE b == [i \in asked |-> {j \in asked : j > i}]
<1>1. IsOrdering(asked, b)
  <2>1. \A i \in asked : b[i] \subseteq asked /\ i \notin b[i]
    OBVIOUS
  <2>2. \A i, j \in asked : i # j => i \in b[j] \/ j \in b[i]
    OBVIOUS
  <2>3. \A i, j \in asked : j \in b[i] => b[j] \subseteq b[i]
    <3> SUFFICES ASSUME NEW i \in asked, NEW j \in asked, j \in b[i], NEW k \in b[j] PROVE k \in b[i]
      OBVIOUS
    <3>1. k \in asked /\ k > j /\ j > i /\ i \in Nat /\ j \in Nat /\ k \in Nat
      OBVIOUS
    <3> QED BY <3>1
  <2> HIDE DEF b
  <2> QED BY <2>1, <2>2, <2>3 DEF IsOrdering
<1>2. s = Lined(asked, b)
  <2>1. ASSUME NEW n \in 1..Cardinality(asked)
        PROVE  (CHOOSE i \in asked : Cardinality({j \in asked : j > i}) = n - 1) = (CHOOSE i \in asked : Cardinality(b[i]) = n - 1)
    <3>1. \A i \in asked : b[i] = {j \in asked : j > i}
      OBVIOUS
    <3> HIDE DEF b
    <3>2. \A i \in asked : (Cardinality({j \in asked : j > i}) = n - 1) <=> (Cardinality(b[i]) = n - 1)
      BY <3>1
    <3> QED BY <3>2
  <2> DEFINE Chosen(n) == CHOOSE i \in asked : Cardinality({j \in asked : j > i}) = n - 1
             Given(n) == CHOOSE i \in asked : Cardinality(b[i]) = n - 1
             c == Cardinality(asked)
  <2>2. s = [n \in 1..c |-> Chosen(n)] /\ Lined(asked, b) = [n \in 1..c |-> Given(n)]
    BY DEF NewestFirst, Lined
  <2>3. \A n \in 1..c : Chosen(n) = Given(n)
    BY <2>1
  <2> HIDE DEF b, Chosen, Given, c
  <2> QED BY <2>2, <2>3
<1>3. \A n, m \in 1..Len(s) : s[n] \in b[s[m]] /\ s[m] \in asked => s[n] > s[m]
  OBVIOUS
<1> HIDE DEF b
<1>4. /\ s \in Seq(asked) /\ Len(s) = Cardinality(asked) /\ Cardinality(asked) \in Nat
      /\ \A n \in 1..Len(s) : s[n] \in asked /\ Cardinality(b[s[n]]) = n - 1
      /\ \A i \in asked : Cardinality(b[i]) + 1 \in 1..Len(s) /\ s[Cardinality(b[i]) + 1] = i
      /\ \A n, m \in 1..Len(s) : n < m => s[n] \in b[s[m]]
  BY <1>1, <1>2, LinedIs
<1> QED BY <1>3, <1>4

\* A page has the newest of what was asked for, and says where the next one begins.
LEMMA PageIs ==
    ASSUME EntriesOK, NEW f, NEW before \in Nat, NEW p, p = ListAuditEvents(f, before)
    PROVE  /\ p \in TrailPage /\ p.seen = CommittedEntries
           /\ \A k \in DOMAIN p.ids : p.ids[k] \in TrailAsked(f, before) /\ p.ids[k] >= p.next
           /\ \A k, l \in DOMAIN p.ids : k < l => p.ids[k] > p.ids[l]
           /\ p.next = NoMore \/ \E k \in DOMAIN p.ids : p.ids[k] = p.next
           /\ \A i \in TrailAsked(f, before) :
                (\E k \in DOMAIN p.ids : p.ids[k] = i) \/ (p.next # NoMore /\ i < p.next)
<1> DEFINE A == TrailAsked(f, before)
           s == NewestFirst(A)
           c == Cardinality(A)
           k == Min({PageLimit, Len(s)})
           t == SubSeq(s, 1, k)
<1>1. A \in SUBSET Nat /\ IsFiniteSet(A) /\ A \subseteq DOMAIN entries /\ CommittedEntries \subseteq Nat
  <2>1. DOMAIN entries = 1..Len(entries) /\ Len(entries) \in Nat
    BY DEF EntriesOK
  <2>2. A \subseteq DOMAIN entries /\ CommittedEntries \subseteq DOMAIN entries
    BY DEF TrailAsked, Matching, CommittedEntries
  <2>3. IsFiniteSet(DOMAIN entries)
    BY <2>1, FS_Interval
  <2> QED BY <2>1, <2>2, <2>3, FS_Subset
<1>2. p = PageOfTrail(t, IF Len(s) > PageLimit THEN NextBefore(s) ELSE NoMore, CommittedEntries)
  BY DEF ListAuditEvents, TrailAsked
<1> HIDE DEF A, s
<1>3. /\ s \in Seq(A) /\ Len(s) \in Nat /\ \A n \in 1..Len(s) : s[n] \in A
      /\ \A i \in A : \E n \in 1..Len(s) : s[n] = i
      /\ \A n, m \in 1..Len(s) : n < m => s[n] > s[m]
  <2>1. s = NewestFirst(A)
    BY DEF s
  <2>2. Len(s) = Cardinality(A) /\ Cardinality(A) \in Nat
    BY ONLY <1>1, <2>1, NewestFirstIs
  <2> QED BY ONLY <1>1, <2>1, <2>2, NewestFirstIs
<1>4. /\ PageLimit \in Nat \ {0} /\ k = IF PageLimit <= Len(s) THEN PageLimit ELSE Len(s)
      /\ k \in Nat /\ k <= Len(s)
  <2>1. PageLimit \in Nat \ {0} /\ Len(s) \in Nat
    BY <1>3, TrailAssumption
  <2>2. k = IF PageLimit <= Len(s) THEN PageLimit ELSE Len(s)
    BY <2>1, SmallerOfTwo
  <2> QED BY <2>1, <2>2
<1> HIDE DEF k
<1>5. t \in Seq(A) /\ Len(t) = k /\ DOMAIN t = 1..k /\ \A n \in 1..k : t[n] = s[n]
  BY <1>3, <1>4
<1> HIDE DEF t
<1>6. p.ids = t /\ p.seen = CommittedEntries /\ p.next = (IF Len(s) > PageLimit THEN s[PageLimit] ELSE NoMore)
      /\ p = [ids |-> p.ids, next |-> p.next, seen |-> p.seen]
  BY <1>2 DEF PageOfTrail, NextBefore
<1>7. p \in TrailPage
  <2>1. t \in Seq(Nat)
    BY <1>1, <1>5, SeqOfMore
  <2>2. p.next \in Nat
    BY <1>1, <1>3, <1>4, <1>6 DEF NoMore
  <2> QED BY <1>1, <1>6, <2>1, <2>2 DEF TrailPage
<1>8. /\ \A n \in 1..Len(s) : s[n] \in Nat
      /\ \A n \in 1..k : n \in 1..Len(s) /\ t[n] \in A /\ t[n] \in Nat /\ t[n] = s[n]
  <2>1. \A n \in 1..Len(s) : s[n] \in A /\ s[n] \in Nat
    BY <1>1, <1>3
  <2>2. \A n \in 1..k : n \in 1..Len(s)
    BY <1>3, <1>4
  <2> QED BY <1>5, <2>1, <2>2
<1>9. CASE Len(s) > PageLimit
  <2>1. k = PageLimit /\ p.next = s[k] /\ k \in 1..Len(s) /\ k \in 1..k
    BY <1>3, <1>4, <1>6, <1>9
  <2>2. ASSUME NEW n \in 1..k PROVE t[n] >= p.next
    <3>1. t[n] = s[n] /\ s[n] \in Nat /\ n \in 1..Len(s)
      BY <1>8
    <3>2. CASE n = k
      BY <2>1, <3>1, <3>2
    <3>3. CASE n < k
      <4>1. s[n] > s[k]
        BY <1>3, <2>1, <3>1, <3>3
      <4>2. s[k] \in Nat
        BY <1>8, <2>1
      <4> QED BY <2>1, <3>1, <4>1, <4>2
    <3>4. n = k \/ n < k
      BY <1>4
    <3> QED BY <3>2, <3>3, <3>4
  <2>3. \A n, m \in 1..k : n < m => t[n] > t[m]
    BY <1>3, <1>8
  <2>4. ASSUME NEW i \in A PROVE (\E n \in 1..k : t[n] = i) \/ (p.next # NoMore /\ i < p.next)
    <3>1. PICK n \in 1..Len(s) : s[n] = i
      BY <1>3
    <3>2. CASE n <= k
      BY <1>5, <2>1, <3>1, <3>2
    <3>3. CASE ~(n <= k)
      <4>1. k < n
        BY <2>1, <3>1, <3>3
      <4>2. p.next > i
        BY <1>3, <2>1, <3>1, <4>1
      <4>3. i \in Nat /\ p.next \in Nat
        BY <1>1, <1>7 DEF TrailPage
      <4> QED BY <4>2, <4>3 DEF NoMore
    <3> QED BY <3>2, <3>3
  <2> QED BY <1>5, <1>6, <1>7, <1>8, <2>1, <2>2, <2>3, <2>4 DEF A
<1>10. CASE ~(Len(s) > PageLimit)
  <2>1. k = Len(s) /\ p.next = NoMore
    BY <1>3, <1>4, <1>6, <1>10
  <2>2. \A n \in 1..k : t[n] >= p.next
    BY <1>8, <2>1 DEF NoMore
  <2>3. \A n, m \in 1..k : n < m => t[n] > t[m]
    BY <1>3, <1>8
  <2>4. \A i \in A : \E n \in 1..k : t[n] = i
    BY <1>3, <1>5, <2>1
  <2> QED BY <1>5, <1>6, <1>7, <1>8, <2>1, <2>2, <2>3, <2>4 DEF A
<1> QED BY <1>9, <1>10

\* One page more of a chain.
LEMMA ChainGrows ==
    ASSUME EntriesOK, NEW f \in Filters, NEW pages, ChainOK(f, pages), Continues(pages),
           NEW q, q = Append(pages, ListAuditEvents(f, Cursor(pages)))
    PROVE  ChainOK(f, q)
<1> DEFINE c == Cursor(pages)
           p == ListAuditEvents(f, c)
           z == Len(pages)
<1>1. pages \in Seq(TrailPage) /\ z \in Nat
  BY DEF ChainOK, IsChain
<1>2. c \in Nat
  <2>1. CASE pages = <<>>
    BY <2>1, TrailAssumption DEF Cursor, First
  <2>2. CASE pages # <<>>
    <3>1. 1 \in 1..z /\ z \in 1..z /\ DOMAIN pages = 1..z
      BY <1>1, <2>2
    <3>2. pages[z] \in TrailPage
      BY <1>1, <3>1, ElementOf
    <3>3. pages[z].next \in Nat
      BY <3>2 DEF TrailPage
    <3> QED BY <2>2, <3>3 DEF Cursor, Last
  <2> QED BY <2>1, <2>2
<1>3. /\ p \in TrailPage /\ p.seen = CommittedEntries
      /\ \A k \in DOMAIN p.ids : p.ids[k] \in TrailAsked(f, c) /\ p.ids[k] >= p.next
      /\ \A k, l \in DOMAIN p.ids : k < l => p.ids[k] > p.ids[l]
      /\ p.next = NoMore \/ \E k \in DOMAIN p.ids : p.ids[k] = p.next
      /\ \A i \in TrailAsked(f, c) :
            (\E k \in DOMAIN p.ids : p.ids[k] = i) \/ (p.next # NoMore /\ i < p.next)
  <2> HIDE DEF c
  <2> QED BY <1>2, PageIs
<1> HIDE DEF c, p
<1>4. q = Append(pages, p)
  BY DEF p, c
<1>5. /\ q \in Seq(TrailPage) /\ Len(q) = z + 1 /\ q # <<>> /\ DOMAIN q = 1..(z + 1) /\ DOMAIN pages = 1..z
      /\ q[z + 1] = p /\ \A n \in 1..z : q[n] = pages[n]
  BY <1>1, <1>3, <1>4
<1> HIDE DEF z
<1>6. Last(q) = p
  BY <1>5 DEF Last
<1>7. EntriesIn(q) = EntriesIn(pages) \cup ToSet(p.ids)
  BY <1>1, <1>5 DEF EntriesIn
<1>8. ToSet(p.ids) \subseteq TrailAsked(f, c) /\ ToSet(p.ids) \subseteq Matching(f)
  BY <1>3 DEF ToSet, TrailAsked
<1>n. Matching(f) \subseteq Nat /\ \A i \in Matching(f) : i < First
  BY TrailAssumption DEF EntriesOK, Matching, CommittedEntries, First
<1>9. \A i \in EntriesIn(pages) : i >= c /\ i \in Nat
  <2>1. CASE pages = <<>>
    BY <1>1, <1>5, <2>1 DEF EntriesIn
  <2>2. CASE pages # <<>>
    BY <1>n, <2>2 DEF ChainOK, IsChain, Cursor, c
  <2> QED BY <2>1, <2>2
<1>10. ASSUME NEW i \in EntriesIn(pages), NEW j \in ToSet(p.ids) PROVE i > j
  BY <1>n, <1>2, <1>8, <1>9 DEF TrailAsked
<1>11. AreNewestFirst(q)
  <2> SUFFICES ASSUME NEW n \in DOMAIN q, NEW m \in DOMAIN q, NEW k \in DOMAIN q[n].ids, NEW l \in DOMAIN q[m].ids,
                      n < m \/ (n = m /\ k < l)
               PROVE  q[n].ids[k] > q[m].ids[l]
    BY DEF AreNewestFirst
  <2>1. CASE m \in 1..z
    <3>1. n \in 1..z /\ q[n] = pages[n] /\ q[m] = pages[m]
      BY <1>1, <1>5, <2>1
    <3> QED BY <1>5, <3>1, <2>1 DEF ChainOK, IsChain, AreNewestFirst
  <2>2. CASE m = z + 1 /\ n \in 1..z
    <3>1. q[n].ids[k] \in EntriesIn(pages)
      BY <1>5, <2>2 DEF EntriesIn, ToSet
    <3>2. q[m].ids[l] \in ToSet(p.ids)
      BY <1>5, <2>2 DEF ToSet
    <3> QED BY <1>10, <3>1, <3>2
  <2>3. CASE m = z + 1 /\ n = z + 1
    BY <1>3, <1>5, <2>3
  <2> QED BY <1>1, <1>5, <2>1, <2>2, <2>3
<1>12. \A i \in EntriesIn(q) : i >= p.next
  <2>1. \A i \in ToSet(p.ids) : i >= p.next
    BY <1>3 DEF ToSet
  <2>2. p.next = NoMore \/ p.next \in ToSet(p.ids)
    BY <1>3 DEF ToSet
  <2>3. ASSUME NEW i \in EntriesIn(pages) PROVE i >= p.next
    <3>1. p.next \in Nat
      BY <1>3 DEF TrailPage
    <3> QED BY <1>9, <1>10, <2>2, <3>1 DEF NoMore
  <2> QED BY <1>7, <2>1, <2>3
<1>13. p.next \in EntriesIn(q) \cup {NoMore}
  BY <1>3, <1>7 DEF ToSet
<1>14. q[1].seen \subseteq CommittedEntries
  <2>1. CASE pages = <<>>
    BY <1>1, <1>3, <1>5, <2>1 DEF z
  <2>2. CASE pages # <<>>
    <3>1. 1 \in 1..z
      BY <1>1, <2>2 DEF z
    <3> QED BY <1>5, <2>2, <3>1 DEF ChainOK, IsChain
  <2> QED BY <2>1, <2>2
<1>15. ASSUME NEW i \in q[1].seen \cap Matching(f), i \notin EntriesIn(q)
       PROVE  p.next # NoMore /\ i < p.next
  <2>1. i < c
    <3>1. CASE pages = <<>>
      BY <1>n, <3>1 DEF c, Cursor
    <3>2. CASE pages # <<>>
      <4>1. 1 \in 1..z
        BY <1>1, <3>2 DEF z
      <4>2. i \in pages[1].seen \cap Matching(f) /\ i \notin EntriesIn(pages)
        BY <1>5, <1>7, <1>15, <4>1
      <4>3. i < Last(pages).next
        BY <3>2, <4>2 DEF ChainOK, IsChain
      <4> QED BY <3>2, <4>3 DEF c, Cursor
    <3> QED BY <3>1, <3>2
  <2>2. i \in TrailAsked(f, c)
    BY <2>1 DEF TrailAsked
  <2>3. ~(\E k \in DOMAIN p.ids : p.ids[k] = i)
    BY <1>7, <1>15 DEF ToSet
  <2> QED BY <1>3, <2>2, <2>3
<1>16. EntriesIn(q) \subseteq Matching(f)
  BY <1>7, <1>8 DEF ChainOK, IsChain
<1> QED BY <1>5, <1>6, <1>11, <1>12, <1>13, <1>14, <1>15, <1>16 DEF ChainOK, IsChain

\* Entries are added and committed, and chains of pages are still true.
LEMMA ChainStays ==
    ASSUME NEW pages, NEW m, NEW c, IsChain(pages, m, c), NEW m2, NEW c2, m \subseteq m2, c \subseteq c2, m2 \cap c \subseteq m
    PROVE  IsChain(pages, m2, c2)
<1>1. pages # <<>> => pages[1].seen \cap m2 \subseteq pages[1].seen \cap m
  BY DEF IsChain
<1> QED BY <1>1 DEF IsChain

\* The entries of a trail, by number.
LEMMA EntryFacts ==
    ASSUME EntriesOK
    PROVE  /\ DOMAIN entries = 1..Len(entries) /\ Len(entries) \in Nat /\ DOMAIN acts = 1..Len(entries)
           /\ \A i \in DOMAIN entries : entries[i] \in TrailEntry /\ acts[i] \in BOOLEAN
           /\ \A i \in DOMAIN entries : acts[i] <=> entries[i].state = "committed"
BY DEF EntriesOK, RecordedIffDone

\* The invariant of the trail holds before anybody acts.
LEMMA TrailStarts == TrailInit => TrailInv
<1> SUFFICES ASSUME TrailInit PROVE TrailInv
  OBVIOUS
<1>0. PICK n \in 0..(MaxEntries - 1) :
        \E a \in [1..n -> Actions] : entries = [i \in 1..n |-> [action |-> a[i], state |-> "committed"]]
  BY DEF TrailInit
<1>1. PICK a \in [1..n -> Actions] : entries = [i \in 1..n |-> [action |-> a[i], state |-> "committed"]]
  BY <1>0
<1>2. MaxEntries \in Nat /\ AllActions \in Filters
  BY TrailAssumption DEF Filters
<1>3. EntriesOK
  <2>1. \A i \in 1..n : [action |-> a[i], state |-> "committed"] \in TrailEntry
    BY <1>1 DEF TrailEntry
  <2>2. entries \in Seq(TrailEntry) /\ Len(entries) = n /\ DOMAIN entries = 1..n
    BY <1>1, <1>2, <2>1
  <2>3. acts = [i \in 1..n |-> TRUE]
    BY <2>2 DEF TrailInit
  <2>4. acts \in Seq(BOOLEAN) /\ Len(acts) = n
    BY <1>2, <2>3
  <2>5. RecordedIffDone
    BY <1>1, <2>2, <2>3 DEF RecordedIffDone
  <2> QED BY <1>2, <2>2, <2>4, <2>5 DEF EntriesOK
<1>4. \A f \in Filters : ChainOK(f, <<>>)
  BY DEF ChainOK, IsChain, EntriesIn, AreNewestFirst
<1>5. WalkOK
  <2>1. walk = [f \in Filters |-> Walked(<<>>, FALSE)]
    BY DEF TrailInit
  <2> QED BY <1>4, <2>1 DEF WalkOK, ChainOK, Walked
<1>6. FetchOK
  <2>1. pageFetch = PageFetch("refetch", AllActions, 1)
    BY DEF TrailInit
  <2> QED BY <1>2, <1>4, <2>1 DEF FetchOK, PageFetch, Continues
<1> QED BY <1>2, <1>3, <1>5, <1>6 DEF TrailInit, TrailInv

\* The trail grows, and the page does not move.
LEMMA TrailGrows ==
    ASSUME TrailInv, EntriesOK', ReaderUnchanged,
           \A i \in DOMAIN entries : /\ i \in DOMAIN entries' /\ entries'[i].action = entries[i].action
                                     /\ entries[i].state = "committed" => entries'[i].state = "committed"
    PROVE  TrailInv'
<1>1. CommittedEntries \subseteq CommittedEntries'
  <2> SUFFICES ASSUME NEW i \in CommittedEntries PROVE i \in CommittedEntries'
    OBVIOUS
  <2>1. i \in DOMAIN entries /\ entries[i].state = "committed"
    BY DEF CommittedEntries
  <2>2. i \in DOMAIN entries' /\ entries'[i].state = "committed"
    BY <2>1
  <2> QED BY <2>2 DEF CommittedEntries
<1>2. ASSUME NEW f PROVE Matching(f) \subseteq Matching(f)' /\ Matching(f)' \cap CommittedEntries \subseteq Matching(f)
  <2>1. ASSUME NEW i \in CommittedEntries PROVE i \in Matching(f)' <=> i \in Matching(f)
    <3>1. entries'[i].action = entries[i].action /\ i \in CommittedEntries'
      BY <1>1 DEF CommittedEntries
    <3> QED BY <3>1 DEF Matching
  <2>2. Matching(f) \subseteq CommittedEntries
    BY DEF Matching
  <2> QED BY <2>1, <2>2
<1>3. walk' = walk /\ pageFetch' = pageFetch /\ filter' = filter
  BY DEF ReaderUnchanged
<1>4. ASSUME NEW f, NEW pages, IsChain(pages, Matching(f), CommittedEntries)
      PROVE  IsChain(pages, Matching(f)', CommittedEntries')
  BY <1>1, <1>2, <1>4, ChainStays
<1>5. WalkOK'
  BY <1>3, <1>4 DEF TrailInv, WalkOK, ChainOK
<1>6. FetchOK'
  BY <1>3, <1>4 DEF TrailInv, FetchOK, ChainOK
<1> QED BY <1>3, <1>5, <1>6 DEF TrailInv

\* The page moves, and the trail does not grow.
LEMMA ReaderMoves ==
    ASSUME TrailInv, UNCHANGED <<entries, acts>>
    PROVE  EntriesOK' /\ CommittedEntries' = CommittedEntries /\ \A f : Matching(f)' = Matching(f)
BY DEF TrailInv, EntriesOK, RecordedIffDone, CommittedEntries, Matching

\* No page is a chain to be continued.
LEMMA EmptyChain == ASSUME NEW m, NEW c PROVE IsChain(<<>>, m, c) /\ Continues(<<>>)
BY DEF IsChain, EntriesIn, AreNewestFirst, Continues

\* One more in a sequence.
LEMMA AppendedIs ==
    ASSUME NEW S, NEW s \in Seq(S), NEW e, NEW t, t = Append(s, e)
    PROVE  Len(t) = Len(s) + 1 /\ t[Len(s) + 1] = e /\ \A i \in 1..Len(s) : t[i] = s[i]
OBVIOUS

\* The pages of one filter are replaced by another chain of it.
LEMMA WalkMoves ==
    ASSUME TrailInv, NEW f \in Filters, NEW pages, NEW failed \in BOOLEAN, ChainOK(f, pages), UNCHANGED <<entries, acts>>,
           walk' = [walk EXCEPT ![f] = Walked(pages, failed)]
    PROVE  WalkOK'
<1>1. CommittedEntries' = CommittedEntries /\ \A g : Matching(g)' = Matching(g)
  BY ReaderMoves
<1>2. DOMAIN walk' = Filters /\ \A g \in Filters : walk'[g] = IF g = f THEN Walked(pages, failed) ELSE walk[g]
  BY DEF TrailInv, WalkOK
<1>3. pages \in Seq(TrailPage)
  BY DEF ChainOK, IsChain
<1>4. \A g \in Filters : walk'[g] \in [pages : Seq(TrailPage), failed : BOOLEAN]
  BY <1>2, <1>3 DEF TrailInv, WalkOK, Walked
<1>5. ASSUME NEW g \in Filters PROVE IsChain(walk'[g].pages, Matching(g), CommittedEntries)
  BY <1>2 DEF TrailInv, WalkOK, ChainOK, Walked
<1> QED BY <1>1, <1>2, <1>4, <1>5 DEF WalkOK, ChainOK

\* Every step keeps the invariant.
LEMMA TrailMoves == ASSUME TrailInv, TrailNext PROVE TrailInv'
<1> USE TrailAssumption
<1>e. /\ EntriesOK /\ DOMAIN entries = 1..Len(entries) /\ Len(entries) \in Nat /\ DOMAIN acts = 1..Len(entries)
      /\ \A i \in DOMAIN entries : entries[i] \in TrailEntry /\ acts[i] \in BOOLEAN
      /\ \A i \in DOMAIN entries : acts[i] <=> entries[i].state = "committed"
  BY EntryFacts DEF TrailInv
<1>f. filter \in Filters /\ pageFetch.of \in Filters /\ pageFetch.pages \in Seq(TrailPage) /\ pageFetch.due \in Nat
      /\ DOMAIN walk = Filters /\ \A f \in Filters : walk[f] \in [pages : Seq(TrailPage), failed : BOOLEAN]
  BY DEF TrailInv, FetchOK, WalkOK
<1>1. ASSUME NEW a \in Written, Record(a) PROVE TrailInv'
  <2> DEFINE new == [action |-> a, state |-> "inFlight"]
  <2>1. entries' = Append(entries, new) /\ acts' = Append(acts, FALSE) /\ ReaderUnchanged /\ Len(entries) < MaxEntries
    BY <1>1 DEF Record, Inserted
  <2>2. new \in TrailEntry /\ new.state # "committed"
    BY DEF TrailEntry
  <2> HIDE DEF new
  <2>3. /\ entries' \in Seq(TrailEntry) /\ Len(entries') = Len(entries) + 1
        /\ acts' \in Seq(BOOLEAN) /\ Len(acts') = Len(entries) + 1
    BY <2>1, <2>2 DEF TrailInv, EntriesOK
  <2>4. /\ \A i \in 1..Len(entries) : entries'[i] = entries[i] /\ acts'[i] = acts[i]
        /\ entries'[Len(entries) + 1] = new /\ acts'[Len(entries) + 1] = FALSE
        /\ DOMAIN entries' = 1..(Len(entries) + 1)
    <3>1. entries \in Seq(TrailEntry) /\ acts \in Seq(BOOLEAN) /\ Len(acts) = Len(entries)
      BY DEF TrailInv, EntriesOK
    <3>5. \A i \in 1..Len(entries) : entries'[i] = entries[i]
      BY <2>1, <3>1
    <3>6. \A i \in 1..Len(acts) : acts'[i] = acts[i]
      <4> DEFINE no == FALSE
      <4>1. acts' = Append(acts, no)
        BY <2>1
      <4> HIDE DEF no
      <4> QED BY <3>1, <4>1, AppendedIs
    <3>2. \A i \in 1..Len(entries) : entries'[i] = entries[i] /\ acts'[i] = acts[i]
      BY <3>1, <3>5, <3>6
    <3>3. entries'[Len(entries) + 1] = new /\ acts'[Len(entries) + 1] = FALSE
      BY <2>1, <3>1
    <3>4. DOMAIN entries' = 1..(Len(entries) + 1)
      BY <2>3
    <3> QED BY <3>2, <3>3, <3>4
  <2>5. RecordedIffDone'
    <3>1. ASSUME NEW i \in DOMAIN entries' PROVE acts'[i] <=> entries'[i].state = "committed"
      <4>1. CASE i = Len(entries) + 1
        BY <2>2, <2>4, <4>1
      <4>2. CASE i # Len(entries) + 1
        <5>1. i \in 1..Len(entries)
          BY <1>e, <2>4, <4>2
        <5> QED BY <1>e, <2>4, <5>1
      <4> QED BY <4>1, <4>2
    <3> QED BY <3>1 DEF RecordedIffDone
  <2>6. EntriesOK'
    BY <1>e, <2>1, <2>3, <2>5 DEF EntriesOK
  <2>7. \A i \in DOMAIN entries : i \in DOMAIN entries' /\ entries'[i] = entries[i]
    BY <1>e, <2>4
  <2> QED BY <2>1, <2>6, <2>7, TrailGrows
<1>u. ASSUME NEW i \in DOMAIN entries, NEW state \in {"committed", "rolledBack"}, NEW a \in BOOLEAN,
             entries' = [entries EXCEPT ![i].state = state], acts' = [acts EXCEPT ![i] = a], a <=> state = "committed",
             entries[i].state = "committed" => state = "committed", ReaderUnchanged
      PROVE  TrailInv'
  <2>1. /\ DOMAIN entries' = DOMAIN entries /\ \A j \in DOMAIN entries : j # i => entries'[j] = entries[j]
        /\ entries'[i] = [entries[i] EXCEPT !.state = state]
    BY <1>u
  <2>2. entries'[i] = [action |-> entries[i].action, state |-> state]
    BY <1>e, <2>1 DEF TrailEntry
  <2>3. \A j \in DOMAIN entries : entries'[j] \in TrailEntry
    BY <1>e, <2>1, <2>2 DEF TrailEntry
  <2>4. entries' \in Seq(TrailEntry) /\ Len(entries') = Len(entries)
    <3>1. entries' = [j \in 1..Len(entries) |-> entries'[j]]
      BY <1>e, <1>u
    <3> QED BY <1>e, <2>3, <3>1
  <2>5. acts' \in Seq(BOOLEAN) /\ Len(acts') = Len(entries)
    BY <1>e, <1>u DEF EntriesOK
  <2>6. \A j \in DOMAIN entries : acts'[j] <=> entries'[j].state = "committed"
    BY <1>e, <1>u, <2>1, <2>2
  <2>7. EntriesOK'
    BY <1>e, <2>1, <2>4, <2>5, <2>6 DEF EntriesOK, RecordedIffDone
  <2>8. \A j \in DOMAIN entries : /\ j \in DOMAIN entries' /\ entries'[j].action = entries[j].action
                                  /\ entries[j].state = "committed" => entries'[j].state = "committed"
    BY <1>u, <2>1, <2>2
  <2> QED BY <1>u, <2>7, <2>8, TrailGrows
<1>2. ASSUME NEW i \in DOMAIN entries, CommitAct(i) PROVE TrailInv'
  BY <1>2, <1>u DEF CommitAct
<1>3. ASSUME NEW i \in DOMAIN entries, RollBackAct(i) PROVE TrailInv'
  <2>1. entries[i].state = "inFlight" /\ entries' = [entries EXCEPT ![i].state = "rolledBack"] /\ acts' = acts /\ ReaderUnchanged
    BY <1>3 DEF RollBackAct
  <2>2. acts' = [acts EXCEPT ![i] = FALSE]
    BY <1>e, <2>1 DEF EntriesOK
  <2> QED BY <1>u, <2>1, <2>2
<1>w. ASSUME walk' = walk, UNCHANGED <<entries, acts>> PROVE WalkOK'
  BY <1>w, ReaderMoves DEF TrailInv, WalkOK, ChainOK
<1>o. ASSUME NEW f \in Filters, NEW kind \in {"none", "refetch", "next"}, NEW owed \in Nat, UNCHANGED <<entries, acts>>,
             pageFetch' = PageFetch(kind, f, owed), kind = "next" => Continues(walk'[f].pages)
      PROVE  FetchOK'
  <2>1. /\ pageFetch' \in [kind : {"none", "refetch", "next"}, of : Filters, pages : Seq(TrailPage), due : Nat]
        /\ pageFetch'.kind = kind /\ pageFetch'.of = f /\ pageFetch'.pages = <<>>
    <3>1. pageFetch' = [kind |-> kind, of |-> f, pages |-> <<>>, due |-> owed]
      BY <1>o DEF PageFetch
    <3> QED BY <3>1
  <2>2. IsChain(<<>>, Matching(f)', CommittedEntries') /\ Continues(<<>>)
    BY EmptyChain
  <2> QED BY <1>o, <2>1, <2>2 DEF FetchOK, ChainOK
<1>n. ASSUME pageFetch' = NoPageFetch, UNCHANGED <<entries, acts>> PROVE FetchOK'
  <2>1. pageFetch' = PageFetch("none", AllActions, 0) /\ AllActions \in Filters
    BY <1>n DEF NoPageFetch, Filters
  <2> QED BY <1>n, <1>o, <2>1
<1>s. ASSUME NEW f \in Filters, pageFetch' = Start(f), UNCHANGED <<entries, acts>> PROVE FetchOK'
  <2>1. Len(walk[f].pages) \in Nat
    BY <1>f
  <2>2. Max({1, Len(walk[f].pages)}) \in Nat
    BY <2>1, GreaterOfTwo
  <2>3. pageFetch' = PageFetch("refetch", f, Max({1, Len(walk[f].pages)}))
    BY <1>s DEF Start
  <2> QED BY <1>o, <1>s, <2>2, <2>3
<1>4. ASSUME NEW f \in Filters, SetFilter(f) PROVE TrailInv'
  <2>1. /\ filter' = f /\ UNCHANGED <<entries, acts>> /\ walk' = walk
        /\ pageFetch' = Start(f) \/ pageFetch' = NoPageFetch
    BY <1>4 DEF SetFilter
  <2> QED BY <1>n, <1>s, <1>w, <2>1, ReaderMoves DEF TrailInv
<1>5. ASSUME Refetch PROVE TrailInv'
  <2>1. filter' = filter /\ UNCHANGED <<entries, acts>> /\ walk' = walk /\ pageFetch' = Start(filter)
    BY <1>5 DEF Refetch
  <2> QED BY <1>f, <1>s, <1>w, <2>1, ReaderMoves DEF TrailInv
<1>6. ASSUME LoadOlder PROVE TrailInv'
  <2>1. /\ filter' = filter /\ UNCHANGED <<entries, acts>> /\ walk' = walk /\ HasNextPage
        /\ pageFetch' = PageFetch("next", filter, 0)
    BY <1>6 DEF LoadOlder
  <2>2. Continues(walk'[filter].pages)
    BY <2>1 DEF HasNextPage, Continues
  <2> QED BY <1>f, <1>o, <1>w, <2>1, <2>2, ReaderMoves DEF TrailInv
<1>7. ASSUME PageArrives PROVE TrailInv'
  <2> DEFINE f == pageFetch.of
             pages == walk[f].pages
             q == Append(pages, ListAuditEvents(f, Cursor(pages)))
  <2>1. /\ pageFetch.kind = "next" /\ UNCHANGED <<entries, acts>> /\ filter' = filter /\ pageFetch' = NoPageFetch
        /\ walk' = [walk EXCEPT ![f] = Walked(q, FALSE)]
    BY <1>7 DEF PageArrives
  <2>2. ChainOK(f, pages) /\ Continues(pages)
    BY <1>f, <2>1 DEF TrailInv, WalkOK, FetchOK
  <2>3. ChainOK(f, q)
    BY <1>e, <1>f, <2>2, ChainGrows
  <2>4. WalkOK'
    <3> HIDE DEF q
    <3> QED BY <1>f, <2>1, <2>3, WalkMoves
  <2> QED BY <1>n, <2>1, <2>4, ReaderMoves DEF TrailInv
<1>8. ASSUME RefetchedPageArrives PROVE TrailInv'
  <2> DEFINE f == pageFetch.of
             q == Append(pageFetch.pages, ListAuditEvents(f, Cursor(pageFetch.pages)))
             ended == Len(q) = pageFetch.due \/ Last(q).next = NoMore
  <2>1. /\ pageFetch.kind = "refetch" /\ UNCHANGED <<entries, acts>> /\ filter' = filter
        /\ ended => pageFetch' = NoPageFetch /\ walk' = [walk EXCEPT ![f] = Walked(q, FALSE)]
        /\ ~ended => pageFetch' = [pageFetch EXCEPT !.pages = q] /\ walk' = walk
    BY <1>8 DEF RefetchedPageArrives
  <2>2. ChainOK(f, pageFetch.pages) /\ Continues(pageFetch.pages)
    BY DEF TrailInv, FetchOK
  <2>3. ChainOK(f, q)
    BY <1>e, <1>f, <2>2, ChainGrows
  <2>4. ~ended => Continues(q)
    BY DEF Continues
  <2> HIDE DEF q
  <2>5. CASE ended
    <3>1. WalkOK'
      BY <1>f, <2>1, <2>3, <2>5, WalkMoves
    <3> QED BY <1>n, <2>1, <2>5, <3>1, ReaderMoves DEF TrailInv
  <2>6. CASE ~ended
    <3>1. pageFetch' = [kind |-> "refetch", of |-> f, pages |-> q, due |-> pageFetch.due] /\ walk' = walk
      BY <2>1, <2>6 DEF TrailInv, FetchOK
    <3>2. q \in Seq(TrailPage)
      BY <2>3 DEF ChainOK, IsChain
    <3>4. FetchOK'
      BY <1>f, <2>4, <2>6, <3>1, <3>2, <2>1, <2>3, ReaderMoves DEF FetchOK, ChainOK
    <3> QED BY <1>w, <2>1, <3>1, <3>4, ReaderMoves DEF TrailInv
  <2> QED BY <2>5, <2>6
<1>9. ASSUME TrailFetchFails PROVE TrailInv'
  <2> DEFINE f == pageFetch.of
  <2>1. /\ UNCHANGED <<entries, acts>> /\ filter' = filter /\ pageFetch' = NoPageFetch
        /\ walk' = [walk EXCEPT ![f] = Walked(walk[f].pages, TRUE)]
    BY <1>9 DEF TrailFetchFails
  <2>2. walk' = [walk EXCEPT ![f] = Walked(walk[f].pages, TRUE)]
    BY <2>1
  <2>3. ChainOK(f, walk[f].pages)
    BY <1>f DEF TrailInv, WalkOK
  <2>4. WalkOK'
    BY <1>f, <2>1, <2>2, <2>3, WalkMoves
  <2> QED BY <1>n, <2>1, <2>4, ReaderMoves DEF TrailInv
<1> QED BY <1>1, <1>2, <1>3, <1>4, <1>5, <1>6, <1>7, <1>8, <1>9 DEF TrailNext

\* Together.
LEMMA TrailStep == TrailInv /\ [TrailNext]_trailVars => TrailInv'
<1>1. ASSUME TrailInv, UNCHANGED trailVars PROVE TrailInv'
  <2>1. UNCHANGED <<entries, acts>> /\ walk' = walk /\ pageFetch' = pageFetch /\ filter' = filter
    BY <1>1 DEF trailVars
  <2> QED BY <1>1, <2>1, ReaderMoves DEF TrailInv, WalkOK, FetchOK, ChainOK
<1> QED BY <1>1, TrailMoves

\* It says that the pages are the trail's.
LEMMA TrailShows == TrailInv => TrailExact
<1> SUFFICES ASSUME TrailInv PROVE WalkIsWhole
  BY DEF TrailInv, EntriesOK, TrailExact
<1> DEFINE pages == walk[filter].pages
           there == {i \in pages[1].seen : filter \in {AllActions, entries[i].action}}
<1>1. IsChain(pages, Matching(filter), CommittedEntries)
  BY DEF TrailInv, WalkOK, ChainOK
<1>2. AreNewestFirst(pages) /\ ShownEntries \subseteq Matching(filter)
  BY <1>1 DEF IsChain, ShownEntries
<1>m. Matching(filter) \subseteq Nat
  BY DEF TrailInv, EntriesOK, Matching, CommittedEntries
<1>3. ASSUME pages # <<>>, NEW i \in there, i \notin ShownEntries
      PROVE  HasNextPage /\ i < Last(pages).next /\ i \in Nat
  <2>1. i \in pages[1].seen \cap Matching(filter)
    BY <1>1, <1>3 DEF IsChain, Matching
  <2> QED BY <1>1, <1>3, <1>m, <2>1 DEF IsChain, ShownEntries, HasNextPage
<1>4. ASSUME pages # <<>>, NEW i \in there, ~HasNextPage \/ \E j \in ShownEntries : i > j PROVE i \in ShownEntries
  <2> SUFFICES ASSUME i \notin ShownEntries PROVE FALSE
    OBVIOUS
  <2>1. HasNextPage /\ i < Last(pages).next /\ i \in Nat
    BY <1>3, <1>4
  <2>2. PICK j \in ShownEntries : i > j
    BY <1>4, <2>1
  <2>3. j >= Last(pages).next /\ j \in Nat
    BY <1>1, <1>2, <1>4, <1>m DEF IsChain, ShownEntries
  <2>4. Last(pages).next \in Nat
    BY <1>1, <1>4, <1>m DEF IsChain, NoMore
  <2> QED BY <2>1, <2>2, <2>3, <2>4
<1>5. ASSUME EmptyMessage = "nothingHasHappened" PROVE there = {}
  <2>1. ShownEntries = {} /\ pages # <<>>
    BY <1>5 DEF EmptyMessage
  <2>2. Last(pages).next = NoMore
    BY <1>1, <2>1 DEF IsChain, ShownEntries
  <2> QED BY <1>3, <2>1, <2>2 DEF HasNextPage
<1> QED BY <1>2, <1>4, <1>5 DEF WalkIsWhole

\* What is in force is recorded and the other way round, and the pages that somebody walks
\* through show every entry that was there, newest first and none twice: for every number of
\* entries, filters, acts and pages.
THEOREM TrailCorrect == TrailSpec => []TrailExact
BY TrailStarts, TrailStep, TrailShows, PTL DEF TrailSpec

=============================================================================
