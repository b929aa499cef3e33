------------------------------ MODULE Accounts ------------------------------
(***************************************************************************)
(* The life of users after registration: AuthService.createCompanyUser,    *)
(* updateCompanyUser, updateUserAccessGroup and deleteCompanyUser, and     *)
(* CompanyService.deleteAccessgroup and deleteCompany.                     *)
(*                                                                         *)
(* None of them opens a transaction: a request is a sequence of statements *)
(* on the tables company_users, access_groups, user_access_groups and      *)
(* companies and of calls to Keycloak, each visible to the others at once. *)
(* Keycloak accounts are found by address and then changed by id.          *)
(***************************************************************************)
EXTENDS Naturals

CONSTANTS
    Ops,        \* one element per request
    Companies, Emails,
    Admins,     \* ids of the users that registration made, ...
    AdminOf,    \* ... the company of each, ...
    AdminEmail, \* ... and its address
    Roles,      \* names that are access groups of a new company
    OddRole,    \* a role name that no company has
    None,
    Kinds,      \* the endpoints that are called in this instance
    Overlap,    \* FALSE: requests about the same user never run together
    Faults      \* the failures that happen

FaultKinds == {"statement",  \* a write to Postgres fails
               "remote",     \* Keycloak refuses or cannot be reached
               "cleanup",    \* the deleteUser of a catch block fails
               "crash"}      \* the process dies between two calls

AllKinds == {"createUser", "updateUser", "updateRole", "deleteUser",
             "deleteGroup", "deleteCompany"}

\* A user created by request o has the id o.
UserIds == Admins \cup Ops
Groups == Companies \X Roles
RoleNames == Roles \cup {OddRole}

ASSUME AccountsAssumption ==
    /\ AdminOf \in [Admins -> Companies]
    /\ AdminEmail \in [Admins -> Emails]
    /\ \A a, b \in Admins : a # b => AdminEmail[a] # AdminEmail[b]
    /\ {"admin"} \subseteq Roles /\ OddRole \notin Roles
    /\ Admins \cap Ops = {}
    /\ None \notin UserIds \cup Emails \cup Companies \cup Groups
    /\ Kinds \subseteq AllKinds /\ Faults \subseteq FaultKinds
    /\ Overlap \in BOOLEAN

VARIABLES
    companies,  \* companies[c]: its row's e-mail, or None: no such row
    users,      \* users[u]: the address in u's company_users row, or None
    groups,     \* the rows of access_groups: <<company, group_name>>
    grants,     \* grants[u]: the access group of u's user_access_groups row
    belongings, \* belongings[c]: the other tables that have rows of c
    account,    \* account[u]: address of the Keycloak account stamped u, or None
    pc,         \* pc[o]: the next call of request o
    call,       \* call[o]: the endpoint and its arguments
    seen,       \* seen[o]: what request o has read and still holds
    logged      \* requests that logged an account left to delete by hand

tables == <<companies, users, groups, grants, belongings>>
vars == <<tables, account, pc, call, seen, logged>>

CreateCalls == [kind : {"createUser"}, caller : UserIds, company : Companies,
                email : Emails, role : RoleNames]
UpdateCalls == [kind : {"updateUser"}, caller : UserIds, user : UserIds,
                email : Emails]
RoleCalls == [kind : {"updateRole"}, caller : UserIds, user : UserIds,
              role : RoleNames]
DeleteCalls == [kind : {"deleteUser"}, caller : UserIds, user : UserIds]
CompanyCalls == [kind : {"deleteGroup"}, caller : UserIds, group : Groups]
                \cup [kind : {"deleteCompany"}, caller : UserIds,
                      company : Companies]
Calls == CreateCalls \cup UpdateCalls \cup RoleCalls \cup DeleteCalls
         \cup CompanyCalls

\* Snapshots: the row's e-mail, whether it was the company's, the account
\* found, the group found, the users still to be handled, the cleanup address.
Nothing == [email |-> None, owner |-> FALSE, id |-> None, group |-> None,
            list |-> {}, made |-> FALSE]
Seen == [email : Emails \cup {None}, owner : BOOLEAN, id : UserIds \cup {None},
         group : Groups \cup {None}, list : SUBSET UserIds, made : BOOLEAN]

OtherTables == {"company_category_mappings", "assets", "gateways", "servers"}

Steps == {"authorize", "checkEmail", "findCompany", "createAccount",
          "insertUser", "findGroup", "insertGrant", "findMade", "deleteMade",
          "loadForUpdate", "findAccount", "moveAccount", "updateCompany",
          "updateRow", "loadForRole", "findNewGroup", "upsertGrant",
          "loadForDelete", "findDoomed", "deleteAccount", "deleteGrant",
          "deleteRow", "loadGroup", "deleteGroup", "loadCompany", "listUsers",
          "deleteUsers", "deleteGroups", "deleteBelongings",
          "deleteListedGrants", "deleteCompany"}
Finished == {"idle", "done", "failed"}

TypeOK ==
    /\ companies \in [Companies -> Emails \cup {None}]
    /\ users \in [UserIds -> Emails \cup {None}]
    /\ groups \subseteq Groups
    /\ grants \in [UserIds -> Groups \cup {None}]
    /\ belongings \in [Companies -> SUBSET OtherTables]
    /\ account \in [UserIds -> Emails \cup {None}]
    /\ pc \in [Ops -> Steps \cup Finished]
    /\ call \in [Ops -> Calls \cup {None}]
    /\ seen \in [Ops -> Seen]
    /\ logged \subseteq Ops

\* Every company as createCompany leaves it, with something in each table.
Init ==
    /\ companies \in [Companies -> Emails]
    /\ \A a \in Admins : companies[AdminOf[a]] = AdminEmail[a]
    /\ users = [u \in UserIds |-> IF u \in Admins THEN AdminEmail[u] ELSE None]
    /\ groups = Groups
    /\ grants = [u \in UserIds |->
                   IF u \in Admins THEN <<AdminOf[u], "admin">> ELSE None]
    /\ belongings = [c \in Companies |-> OtherTables]
    /\ account = users
    /\ pc = [o \in Ops |-> "idle"]
    /\ call = [o \in Ops |-> None]
    /\ seen = [o \in Ops |-> Nothing]
    /\ logged = {}

-----------------------------------------------------------------------------
(* Reading.                                                                *)

\* The company_id of a row and the company_ifric_id claim of a token: both
\* are stamped once, when the user is made.
HomeOf(u) == IF u \in Admins THEN AdminOf[u] ELSE call[u].company

Stamped(u) ==
    u \in Ops => pc[u] # "idle" /\ call[u].kind = "createUser"

\* Nobody knows a user's id before its row exists; after that, for good.
HandedOut(u) == Stamped(u) /\ (u \in Ops => users[u] # None \/ pc[u] = "done")

\* AccessControlService.assertPermission: the caller's one grant, and that
\* group's flag.  The groups of createCompany: admin may do everything.
HasPermission(u) == grants[u] \in groups /\ grants[u][2] = "admin"

\* assertCompanyMatch and assertPermission for a management action.
MayManage(u, c) == HomeOf(u) = c /\ HasPermission(u)

\* Keycloak's answer to GET /users?email=...&exact=true.
AccountAt(e) == {u \in UserIds : account[u] = e}

RowAt(e) == {u \in UserIds : users[u] = e}

-----------------------------------------------------------------------------
(* Control.                                                                *)

Goto(o, label) == pc' = [pc EXCEPT ![o] = label]

Proceed(o, label) == Goto(o, label) /\ UNCHANGED <<tables, account, call, seen,
                                                   logged>>

Remember(o, field, value, label) ==
    /\ seen' = [seen EXCEPT ![o] = [@ EXCEPT ![field] = value]]
    /\ Goto(o, label)
    /\ UNCHANGED <<tables, account, call, logged>>

\* Only createCompanyUser's catch block does anything before answering.
CatchPC(o) == IF seen[o].made THEN "findMade" ELSE "failed"
Throw(o) == Proceed(o, CatchPC(o))

Check(o, test, label) == IF test THEN Proceed(o, label) ELSE Throw(o)

Writes == {"insertUser", "insertGrant", "updateCompany", "updateRow",
           "upsertGrant", "deleteGrant", "deleteRow", "deleteGroup",
           "deleteUsers", "deleteGroups", "deleteBelongings",
           "deleteListedGrants", "deleteCompany"}

StatementFails(o) ==
    /\ "statement" \in Faults
    /\ pc[o] \in Writes
    /\ Throw(o)

RemoteCalls == {"createAccount", "findAccount", "moveAccount", "findDoomed",
                "deleteAccount"}

RemoteFails(o) ==
    /\ "remote" \in Faults
    /\ pc[o] \in RemoteCalls
    /\ Throw(o)

\* The users and addresses that two requests could fight over.
Concerns(o, c) ==
    CASE c.kind = "createUser" -> RowAt(c.email) \cup {o, c.email}
      [] c.kind = "updateUser" -> {c.user, c.email, users[c.user]} \ {None}
      [] c.kind \in {"updateRole", "deleteUser"} -> {c.user, users[c.user]} \ {None}
      [] OTHER -> UserIds \cup Emails

Running(o) == pc[o] \notin Finished

FirstStep(kind) ==
    CASE kind = "createUser" -> "authorize"
      [] kind = "updateUser" -> "loadForUpdate"
      [] kind = "updateRole" -> "loadForRole"
      [] kind = "deleteUser" -> "loadForDelete"
      [] kind = "deleteGroup" -> "loadGroup"
      [] kind = "deleteCompany" -> "loadCompany"

\* AuthGuard checks a token's signature and its time only: whoever has had an
\* account may hold one, and it outlives the account.
MayHoldToken(u) ==
    Stamped(u) /\ (u \in Ops => account[u] # None \/ pc[u] = "done")

Start(o) ==
    /\ pc[o] = "idle"
    /\ \E c \in {d \in Calls : d.kind \in Kinds} :
         /\ MayHoldToken(c.caller)
         /\ c.kind \in {"updateUser", "updateRole", "deleteUser"} =>
              HandedOut(c.user)
         /\ ~Overlap => \A p \in Ops :
                          Running(p) => Concerns(o, c) \cap Concerns(p, call[p]) = {}
         /\ call' = [call EXCEPT ![o] = c]
         /\ Goto(o, FirstStep(c.kind))
    /\ UNCHANGED <<tables, account, seen, logged>>

-----------------------------------------------------------------------------
(* AuthService.createCompanyUser.                                          *)

Authorize(o) ==
    /\ pc[o] = "authorize"
    /\ Check(o, MayManage(call[o].caller, call[o].company), "checkEmail")

CheckEmail(o) ==
    /\ pc[o] = "checkEmail"
    /\ Check(o, RowAt(call[o].email) = {}, "findCompany")

FindCompany(o) ==
    /\ pc[o] = "findCompany"
    /\ Check(o, companies[call[o].company] # None, "createAccount")

\* Mutants of CreateAccount: the local that leads to the cleanup is never set;
\* it is set although Keycloak refused.
CreateAccount_NoLocal(o) ==
    /\ pc[o] = "createAccount"
    /\ IF AccountAt(call[o].email) = {}
         THEN /\ account' = [account EXCEPT ![o] = call[o].email]
              /\ Goto(o, "insertUser")
              /\ UNCHANGED <<tables, call, seen, logged>>
         ELSE Throw(o)
CreateAccount_EarlyLocal(o) ==
    /\ pc[o] = "createAccount"
    /\ seen' = [seen EXCEPT ![o].made = TRUE]
    /\ IF AccountAt(call[o].email) = {}
         THEN /\ account' = [account EXCEPT ![o] = call[o].email]
              /\ Goto(o, "insertUser")
         ELSE account' = account /\ Goto(o, "findMade")
    /\ UNCHANGED <<tables, call, logged>>

\* KeycloakService.createUser refuses an address that is taken.
CreateAccount(o) ==
    /\ pc[o] = "createAccount"
    /\ IF AccountAt(call[o].email) = {}
         THEN /\ account' = [account EXCEPT ![o] = call[o].email]
              /\ seen' = [seen EXCEPT ![o].made = TRUE]
              /\ Goto(o, "insertUser")
              /\ UNCHANGED <<tables, call, logged>>
         ELSE Throw(o)

\* company_users.user_email is unique.
InsertUser(o) ==
    /\ pc[o] = "insertUser"
    /\ IF RowAt(call[o].email) = {}
         THEN /\ users' = [users EXCEPT ![o] = call[o].email]
              /\ Goto(o, "findGroup")
              /\ UNCHANGED <<companies, groups, grants, belongings, account,
                             call, seen, logged>>
         ELSE Throw(o)

\* No group of that name: the user is created without a grant.
FindGroup(o) ==
    LET g == <<call[o].company, call[o].role>> IN
    /\ pc[o] = "findGroup"
    /\ IF g \in groups THEN Remember(o, "group", g, "insertGrant")
                       ELSE Proceed(o, "done")

SetGrant(u, g) ==
    /\ grants' = [grants EXCEPT ![u] = g]
    /\ UNCHANGED <<companies, users, groups, belongings, account, call, seen,
                   logged>>

\* user_access_groups.user_id is unique.
InsertGrant(o) ==
    /\ pc[o] = "insertGrant"
    /\ IF grants[o] = None
         THEN SetGrant(o, seen[o].group) /\ Goto(o, "done")
         ELSE Throw(o)

\* The catch block: KeycloakService.deleteUser of the address.
FindMade(o) ==
    /\ pc[o] = "findMade"
    /\ \/ AccountAt(call[o].email) = {} /\ Proceed(o, "failed")
       \/ \E u \in AccountAt(call[o].email) :
            Remember(o, "id", u, "deleteMade")

DeleteMade(o) ==
    /\ pc[o] = "deleteMade"
    /\ account[seen[o].id] # None
    /\ account' = [account EXCEPT ![seen[o].id] = None]
    /\ Goto(o, "failed")
    /\ UNCHANGED <<tables, call, seen, logged>>

\* Its failure, or an account that is gone by now, is only logged.
CleanupFails(o) ==
    /\ \/ "cleanup" \in Faults /\ pc[o] \in {"findMade", "deleteMade"}
       \/ pc[o] = "deleteMade" /\ account[seen[o].id] = None
    /\ logged' = logged \cup {o}
    /\ Goto(o, "failed")
    /\ UNCHANGED <<tables, account, call, seen>>

CreateCompanyUser(o) ==
    \/ Authorize(o) \/ CheckEmail(o) \/ FindCompany(o) \/ CreateAccount(o)
    \/ InsertUser(o) \/ FindGroup(o) \/ InsertGrant(o)
    \/ FindMade(o) \/ DeleteMade(o) \/ CleanupFails(o)

-----------------------------------------------------------------------------
(* AuthService.updateCompanyUser with a new e-mail address; the password,  *)
(* the name, the image and meta_data are no part of the model.             *)

\* The user's row is read once; the rest works on that snapshot.  A user may
\* edit their own row without the update permission.
LoadForUpdate(o) ==
    LET u == call[o].user
        c == HomeOf(call[o].caller)
    IN
    /\ pc[o] = "loadForUpdate"
    /\ IF /\ companies[c] # None /\ users[u] # None /\ HomeOf(u) = c
          /\ u = call[o].caller \/ HasPermission(call[o].caller)
         THEN /\ seen' = [seen EXCEPT ![o].email = users[u],
                                      ![o].owner = (users[u] = companies[c])]
              /\ Goto(o, "findAccount")
              /\ UNCHANGED <<tables, account, call, logged>>
         ELSE Throw(o)

\* KeycloakService.setEmail: the account at the old address ...
FindAccount(o) ==
    /\ pc[o] = "findAccount"
    /\ \/ AccountAt(seen[o].email) = {} /\ Throw(o)
       \/ \E u \in AccountAt(seen[o].email) :
            Remember(o, "id", u, "moveAccount")

\* ... is given the new one, unless another account has it.
MoveAccount(o) ==
    /\ pc[o] = "moveAccount"
    /\ IF /\ account[seen[o].id] # None
          /\ AccountAt(call[o].email) \subseteq {seen[o].id}
         THEN /\ account' = [account EXCEPT ![seen[o].id] = call[o].email]
              /\ Goto(o, IF seen[o].owner THEN "updateCompany" ELSE "updateRow")
              /\ UNCHANGED <<tables, call, seen, logged>>
         ELSE Throw(o)

\* Mutant of UpdateCompany: the owner's own row is left behind.
UpdateCompany_Returns(o) ==
    /\ pc[o] = "updateCompany"
    /\ companies' = [companies EXCEPT ![HomeOf(call[o].caller)] = call[o].email]
    /\ Goto(o, "done")
    /\ UNCHANGED <<users, groups, grants, belongings, account, call, seen, logged>>

\* companies.email is unique; no row updated is an error.
UpdateCompany(o) ==
    LET c == HomeOf(call[o].caller) IN
    /\ pc[o] = "updateCompany"
    /\ IF /\ companies[c] # None
          /\ \A d \in Companies \ {c} : companies[d] # call[o].email
         THEN /\ companies' = [companies EXCEPT ![c] = call[o].email]
              /\ Goto(o, "updateRow")
              /\ UNCHANGED <<users, groups, grants, belongings, account, call,
                             seen, logged>>
         ELSE Throw(o)

UpdateRow(o) ==
    LET u == call[o].user IN
    /\ pc[o] = "updateRow"
    /\ IF users[u] # None /\ RowAt(call[o].email) \subseteq {u}
         THEN /\ users' = [users EXCEPT ![u] = call[o].email]
              /\ Goto(o, "done")
              /\ UNCHANGED <<companies, groups, grants, belongings, account,
                             call, seen, logged>>
         ELSE Throw(o)

UpdateCompanyUser(o) ==
    \/ LoadForUpdate(o) \/ FindAccount(o) \/ MoveAccount(o)
    \/ UpdateCompany(o) \/ UpdateRow(o)

-----------------------------------------------------------------------------
(* AuthService.updateUserAccessGroup; meta_data is no part of the model.   *)

\* Mutant of MayManageUser: the caller's permission alone.
MayManageUser_AnyCompany(o) == HasPermission(call[o].caller)

\* assertCallerOwnsUsersCompany.
MayManageUser(o) ==
    LET c == HomeOf(call[o].user) IN
    companies[c] # None /\ MayManage(call[o].caller, c)

LoadForRole(o) ==
    /\ pc[o] = "loadForRole"
    /\ Check(o, users[call[o].user] # None /\ MayManageUser(o), "findNewGroup")

\* Mutant of FindNewGroup: the group is looked up by its name alone.
FindNewGroup_AnyCompany(o) ==
    /\ pc[o] = "findNewGroup"
    /\ \E g \in {h \in groups : h[2] = call[o].role} :
         Remember(o, "group", g, "upsertGrant")

FindNewGroup(o) ==
    LET g == <<HomeOf(call[o].user), call[o].role>> IN
    /\ pc[o] = "findNewGroup"
    /\ IF g \in groups THEN Remember(o, "group", g, "upsertGrant")
                       ELSE Proceed(o, "done")

\* INSERT ... ON CONFLICT (user_id) DO UPDATE.
UpsertGrant(o) ==
    /\ pc[o] = "upsertGrant"
    /\ SetGrant(call[o].user, seen[o].group)
    /\ Goto(o, "done")

UpdateUserAccessGroup(o) == LoadForRole(o) \/ FindNewGroup(o) \/ UpsertGrant(o)

-----------------------------------------------------------------------------
(* AuthService.deleteCompanyUser.                                          *)

\* Without a row there is nothing to check, and the rest still runs.
LoadForDelete(o) ==
    LET u == call[o].user IN
    /\ pc[o] = "loadForDelete"
    /\ \/ users[u] = None /\ Proceed(o, "deleteGrant")
       \/ /\ users[u] # None
          /\ IF MayManageUser(o)
               THEN Remember(o, "email", users[u], "findDoomed")
               ELSE Throw(o)

\* KeycloakService.deleteUser of the address in the row that was read.
FindDoomed(o) ==
    /\ pc[o] = "findDoomed"
    /\ \/ AccountAt(seen[o].email) = {} /\ Proceed(o, "deleteGrant")
       \/ \E u \in AccountAt(seen[o].email) :
            Remember(o, "id", u, "deleteAccount")

DeleteAccount(o) ==
    /\ pc[o] = "deleteAccount"
    /\ IF account[seen[o].id] # None
         THEN /\ account' = [account EXCEPT ![seen[o].id] = None]
              /\ Goto(o, "deleteGrant")
              /\ UNCHANGED <<tables, call, seen, logged>>
         ELSE Throw(o)

\* Mutant of DeleteGrant: the grant is forgotten.
DeleteGrant_Skipped(o) == pc[o] = "deleteGrant" /\ Proceed(o, "deleteRow")

DeleteGrant(o) ==
    /\ pc[o] = "deleteGrant"
    /\ SetGrant(call[o].user, None)
    /\ Goto(o, "deleteRow")

DeleteRow(o) ==
    /\ pc[o] = "deleteRow"
    /\ users' = [users EXCEPT ![call[o].user] = None]
    /\ Goto(o, "done")
    /\ UNCHANGED <<companies, groups, grants, belongings, account, call, seen,
                   logged>>

DeleteCompanyUser(o) ==
    \/ LoadForDelete(o) \/ FindDoomed(o) \/ DeleteAccount(o)
    \/ DeleteGrant(o) \/ DeleteRow(o)

-----------------------------------------------------------------------------
(* CompanyService.deleteAccessgroup and deleteCompany.                     *)

LoadGroup(o) ==
    LET g == call[o].group IN
    /\ pc[o] = "loadGroup"
    /\ \/ g \notin groups /\ Proceed(o, "done")
       \/ /\ g \in groups
          /\ Check(o, companies[g[1]] # None /\ MayManage(call[o].caller, g[1]),
                   "deleteGroup")

DeleteGroup(o) ==
    /\ pc[o] = "deleteGroup"
    /\ groups' = groups \ {call[o].group}
    /\ Goto(o, "done")
    /\ UNCHANGED <<companies, users, grants, belongings, account, call, seen,
                   logged>>

LoadCompany(o) ==
    LET c == call[o].company IN
    /\ pc[o] = "loadCompany"
    /\ Check(o, companies[c] # None /\ MayManage(call[o].caller, c), "listUsers")

UsersOf(c) == {u \in UserIds : users[u] # None /\ HomeOf(u) = c}

ListUsers(o) ==
    /\ pc[o] = "listUsers"
    /\ Remember(o, "list", UsersOf(call[o].company), "deleteUsers")

DeleteUsers(o) ==
    /\ pc[o] = "deleteUsers"
    /\ users' = [u \in UserIds |->
                    IF u \in UsersOf(call[o].company) THEN None ELSE users[u]]
    /\ Goto(o, "deleteGroups")
    /\ UNCHANGED <<companies, groups, grants, belongings, account, call, seen,
                   logged>>

DeleteGroups(o) ==
    /\ pc[o] = "deleteGroups"
    /\ groups' = {g \in groups : g[1] # call[o].company}
    /\ Goto(o, "deleteBelongings")
    /\ UNCHANGED <<companies, users, grants, belongings, account, call, seen,
                   logged>>

\* Mutant of TableOrder: one table is forgotten.
TableOrder_NoGateways == <<"company_category_mappings", "assets", "servers">>

\* One DELETE per table, in the order of the code.
TableOrder == <<"company_category_mappings", "assets", "gateways", "servers">>

DeleteBelongings(o) ==
    LET c == call[o].company
        left == {i \in DOMAIN TableOrder : TableOrder[i] \in belongings[c]}
    IN
    /\ pc[o] = "deleteBelongings"
    /\ \/ left = {} /\ Proceed(o, "deleteListedGrants")
       \/ \E i \in left :
            /\ \A j \in left : i <= j
            /\ belongings' = [belongings EXCEPT ![c] = @ \ {TableOrder[i]}]
            /\ UNCHANGED <<companies, users, groups, grants, account, pc,
                           call, seen, logged>>

DeleteListedGrants(o) ==
    /\ pc[o] = "deleteListedGrants"
    /\ \/ seen[o].list = {} /\ Proceed(o, "deleteCompany")
       \/ \E u \in seen[o].list :
            /\ grants' = [grants EXCEPT ![u] = None]
            /\ seen' = [seen EXCEPT ![o].list = @ \ {u}]
            /\ UNCHANGED <<companies, users, groups, belongings, account, pc,
                           call, logged>>

DeleteCompanyRow(o) ==
    /\ pc[o] = "deleteCompany"
    /\ companies' = [companies EXCEPT ![call[o].company] = None]
    /\ Goto(o, "done")
    /\ UNCHANGED <<users, groups, grants, belongings, account, call, seen,
                   logged>>

DeleteAccessgroup(o) == LoadGroup(o) \/ DeleteGroup(o)

DeleteCompany(o) ==
    \/ LoadCompany(o) \/ ListUsers(o) \/ DeleteUsers(o) \/ DeleteGroups(o)
    \/ DeleteBelongings(o) \/ DeleteListedGrants(o) \/ DeleteCompanyRow(o)

-----------------------------------------------------------------------------
\* The process dies: nothing of the request is undone.
Crash(o) ==
    /\ "crash" \in Faults
    /\ Running(o)
    /\ Proceed(o, "failed")

Step(o) ==
    \/ CreateCompanyUser(o) \/ UpdateCompanyUser(o) \/ UpdateUserAccessGroup(o)
    \/ DeleteCompanyUser(o) \/ DeleteAccessgroup(o) \/ DeleteCompany(o)
    \/ StatementFails(o) \/ RemoteFails(o)

Next == \E o \in Ops : Start(o) \/ Step(o) \/ Crash(o)

Spec == Init /\ [][Next]_vars

-----------------------------------------------------------------------------
(* Properties.                                                             *)

Quiet == \A o \in Ops : ~Running(o)

\* The user a request of auth.service is about.
Subject(o) == IF call[o].kind = "createUser" THEN o ELSE call[o].user

\* A request about u, or the deletion of c, that ended with an error: what it
\* had written by then stays.
HalfDone(u) ==
    \E o \in Ops : /\ pc[o] = "failed"
                   /\ call[o].kind \in {"createUser", "updateUser", "deleteUser"}
                   /\ Subject(o) = u
HalfDeleted(c) ==
    \E o \in Ops : /\ pc[o] = "failed" /\ call[o].kind = "deleteCompany"
                   /\ call[o].company = c

\* The two stores agree at rest: a user that no request has failed on has an
\* account exactly when it has a row, and the addresses are the same (setEmail's
\* comment: a stale address would silently lock the user out).  Users of a
\* deleted company are outside: deleteCompany leaves their accounts.
InSync ==
    Quiet => \A u \in UserIds :
      Stamped(u) /\ companies[HomeOf(u)] # None =>
        account[u] = users[u] \/ HalfDone(u) \/ HalfDeleted(HomeOf(u))

\* No user_access_groups row outlives its user, whatever fails but the deletion
\* of its company.
GrantsHaveUsers ==
    Quiet => \A u \in UserIds :
      grants[u] # None => users[u] # None \/ HalfDeleted(HomeOf(u))

\* A role never crosses the company boundary: a user's grant, whoever wrote it
\* and whatever failed or interleaved, names a group of the user's own company.
GrantsStayInTenant ==
    \A u \in UserIds : grants[u] # None => grants[u][1] = HomeOf(u)

\* An account is changed or removed only by a request made from the company of
\* its user, although every change finds the account by an address read earlier.
\* A request that failed half-way may have parted a row from its account; from
\* then on another company may come to use the address that is left.
AccountsStayInTenant ==
    [][\A u \in UserIds : account[u] # None /\ account'[u] # account[u] =>
         \/ \E o \in Ops : Running(o) /\ HomeOf(call[o].caller) = HomeOf(u)
         \/ \E v \in UserIds : HalfDone(v)]_vars

\* deleteCompany: once the company's row is gone, so is everything it lists,
\* unless an earlier attempt failed: the next one no longer finds the users whose
\* grants it should delete.
DeletedCompanyLeavesNothing ==
    Quiet => \A c \in Companies : companies[c] = None /\ ~HalfDeleted(c) =>
      /\ UsersOf(c) = {}
      /\ \A g \in groups : g[1] # c
      /\ belongings[c] = {}
      /\ \A u \in UserIds : grants[u] # None => grants[u][1] # c

\* A createCompanyUser that answered with an error left no account behind, or
\* logged that it must be deleted by hand.
FailedCreateLeavesNoAccount ==
    \A o \in Ops :
      pc[o] = "failed" /\ Stamped(o) => account[o] = None \/ o \in logged

\* The comment in createCompanyUser's catch block: after a failure, creating the
\* user again must not be answered with "user already exists".
FailedCreateCanBeRetried ==
    \A o \in Ops :
      pc[o] = "failed" /\ Stamped(o) /\ account[o] = None => users[o] = None

\* createCompanyUser's comment: reaching the cleanup means this call created
\* the account, so it can never remove somebody else's.
CleanupIsOwn == \A o \in Ops : pc[o] = "deleteMade" => seen[o].id = o
=============================================================================
