--------------------------- MODULE Accounts_proofs ---------------------------
(***************************************************************************)
(* Proofs about Accounts.                                                  *)
(*                                                                         *)
(* Route and Moves say, once for all actions, where a step comes from and  *)
(* what it writes; every later invariant is proved from these two.  Types, *)
(* grants and keys are invariants of every instance.  The other properties *)
(* need requests not to get in each other's way.                           *)
(*                                                                         *)
(* Either requests about the same user or address never run together, that *)
(* is ~Overlap: then the sets of users and addresses that running requests *)
(* are about stay disjoint (TerritoryInv), a request changes nothing       *)
(* outside its own (Footprint), and what it has read is still true when it *)
(* writes.  On top of this stand, each with the one before it:             *)
(*   RowsInv    what each step of a request and of a deletion relies on,   *)
(*   GrantInv   a grant has a row, or the deletion of its company is at it *)
(*              or has failed,                                             *)
(*   BuriedInv  a company without a row has nothing left,                  *)
(*   SyncInv    a row and its account agree unless a request is between    *)
(*              its call of Keycloak and its write, or one has failed,     *)
(*   HomesInv   who changes an account has the home of its user.           *)
(*                                                                         *)
(* Or any requests overlap, but the endpoints that race are not called:    *)
(* the last part proves each property once more, from such a premise, and  *)
(* joins the two.                                                          *)
(***************************************************************************)
EXTENDS Accounts, TLAPS

-----------------------------------------------------------------------------
(* Types.  What a step reads of its call is there because only one of the  *)
(* endpoints reaches the step.                                             *)

CreateSteps == {"authorize", "checkEmail", "findCompany", "createAccount",
                "insertUser", "findGroup", "insertGrant", "findMade"}
UpdateSteps == {"loadForUpdate", "findAccount", "moveAccount", "updateCompany",
                "updateRow"}
RoleSteps == {"loadForRole", "findNewGroup", "upsertGrant"}
DeleteSteps == {"loadForDelete", "findDoomed", "deleteAccount", "deleteGrant",
                "deleteRow"}

CallInv ==
    \A o \in Ops :
      /\ pc[o] = "idle" => call[o] = None /\ ~seen[o].made
      /\ pc[o] \in CreateSteps => call[o] \in CreateCalls
      /\ pc[o] \in UpdateSteps => call[o] \in UpdateCalls
      /\ pc[o] \in RoleSteps => call[o] \in RoleCalls
      /\ pc[o] \in DeleteSteps => call[o] \in DeleteCalls
      /\ seen[o].made => call[o] \in CreateCalls

TypeInv == TypeOK /\ CallInv

LEMMA TypeInit == Init => TypeInv
<1> SUFFICES ASSUME Init PROVE TypeInv
    OBVIOUS
<1> USE AccountsAssumption DEF Init
<1>1. TypeOK
    BY DEF TypeOK, UserIds, Groups, Seen, Nothing, Finished
<1>2. CallInv
    BY DEF CallInv, Nothing, CreateSteps, UpdateSteps, RoleSteps, DeleteSteps
<1>3. QED BY <1>1, <1>2 DEF TypeInv

\* What an endpoint's first step may rely on.
LEMMA FirstSteps ==
    ASSUME NEW c \in Calls
    PROVE  /\ FirstStep(c.kind) \in {"authorize", "loadForUpdate", "loadForRole",
                                     "loadForDelete", "loadGroup", "loadCompany"}
           /\ FirstStep(c.kind) = "authorize" => c \in CreateCalls
           /\ FirstStep(c.kind) = "loadForUpdate" => c \in UpdateCalls
           /\ FirstStep(c.kind) = "loadForRole" =>
                c \in RoleCalls /\ c.kind = "updateRole"
           /\ FirstStep(c.kind) = "loadForDelete" => c \in DeleteCalls
<1>1. CASE c \in CreateCalls
    <2>1. c.kind = "createUser" BY <1>1 DEF CreateCalls
    <2>2. QED BY <2>1, <1>1 DEF FirstStep
<1>2. CASE c \in UpdateCalls
    <2>1. c.kind = "updateUser" BY <1>2 DEF UpdateCalls
    <2>2. QED BY <2>1, <1>2 DEF FirstStep
<1>3. CASE c \in RoleCalls
    <2>1. c.kind = "updateRole" BY <1>3 DEF RoleCalls
    <2>2. QED BY <2>1, <1>3 DEF FirstStep
<1>4. CASE c \in DeleteCalls
    <2>1. c.kind = "deleteUser" BY <1>4 DEF DeleteCalls
    <2>2. QED BY <2>1, <1>4 DEF FirstStep
<1>5. CASE c \in CompanyCalls
    <2>1. c.kind \in {"deleteGroup", "deleteCompany"} BY <1>5 DEF CompanyCalls
    <2>2. QED BY <2>1 DEF FirstStep
<1>6. QED BY <1>1, <1>2, <1>3, <1>4, <1>5 DEF Calls

LEMMA TypeStart == ASSUME TypeInv, NEW o \in Ops, Start(o) PROVE TypeInv'
<1> USE DEF TypeInv, TypeOK
<1>1. PICK c \in Calls : /\ call' = [call EXCEPT ![o] = c]
                         /\ Goto(o, FirstStep(c.kind))
                         /\ pc[o] = "idle"
                         /\ UNCHANGED <<tables, account, seen, logged>>
    BY DEF Start
<1>2. TypeOK'
    BY <1>1, FirstSteps DEF Goto, Steps, tables
<1>3. ~seen[o].made
    BY <1>1 DEF CallInv
<1>4. CallInv'
    BY <1>1, <1>3, FirstSteps
       DEF Goto, CallInv, CreateSteps, UpdateSteps, RoleSteps, DeleteSteps
<1>5. QED BY <1>2, <1>4

\* A step forward or into the catch block.
LEMMA TypeThrow ==
    ASSUME TypeInv, NEW o \in Ops, Throw(o) PROVE TypeInv'
<1> USE DEF TypeInv, TypeOK
<1>1. TypeOK'
    BY DEF Throw, CatchPC, Proceed, Goto, tables, Steps, Finished
<1>2. CallInv'
    BY DEF Throw, CatchPC, Proceed, Goto, tables, CallInv, CreateSteps,
           UpdateSteps, RoleSteps, DeleteSteps
<1>3. QED BY <1>1, <1>2

\* The steps that an endpoint's call allows its request to be at.
Allowed(o, label) ==
    /\ label \in (Steps \cup Finished) \ {"idle"}
    /\ label \in CreateSteps => call[o] \in CreateCalls
    /\ label \in UpdateSteps => call[o] \in UpdateCalls
    /\ label \in RoleSteps => call[o] \in RoleCalls
    /\ label \in DeleteSteps => call[o] \in DeleteCalls

\* A step of one request that leaves its call alone.
LEMMA TypeGoto ==
    ASSUME TypeInv, NEW o \in Ops, NEW label, Allowed(o, label),
           Goto(o, label), UNCHANGED call,
           companies' \in [Companies -> Emails \cup {None}],
           users' \in [UserIds -> Emails \cup {None}],
           groups' \subseteq Groups,
           grants' \in [UserIds -> Groups \cup {None}],
           belongings' \in [Companies -> SUBSET OtherTables],
           account' \in [UserIds -> Emails \cup {None}],
           seen' \in [Ops -> Seen],
           \A p \in Ops : seen'[p].made => seen[p].made \/ call[p] \in CreateCalls,
           \A p \in Ops \ {o} : seen'[p] = seen[p],
           logged' \subseteq Ops
    PROVE  TypeInv'
<1>1. TypeOK'
    BY DEF TypeInv, TypeOK, Goto, Allowed
<1>2. CallInv'
    BY DEF TypeInv, TypeOK, CallInv, Goto, Allowed, Finished
<1>3. QED BY <1>1, <1>2 DEF TypeInv

LEMMA TypeProceed ==
    ASSUME TypeInv, NEW o \in Ops, NEW label, Allowed(o, label),
           Proceed(o, label)
    PROVE  TypeInv'
<1>1. Goto(o, label) /\ UNCHANGED <<tables, account, call, seen, logged>>
    BY DEF Proceed
<1>2. QED BY <1>1, TypeGoto DEF TypeInv, TypeOK, tables

LEMMA TypeCheck ==
    ASSUME TypeInv, NEW o \in Ops, NEW test, NEW label, Allowed(o, label),
           Check(o, test, label)
    PROVE  TypeInv'
BY TypeProceed, TypeThrow DEF Check

\* What a request reads of its call at each of its steps.
LEMMA CallFields ==
    ASSUME TypeInv, NEW o \in Ops
    PROVE  /\ pc[o] \in CreateSteps => call[o].email \in Emails
           /\ pc[o] \in UpdateSteps => call[o].email \in Emails
BY DEF TypeInv, CallInv, CreateCalls, UpdateCalls

LEMMA TypeRemember ==
    ASSUME TypeInv, NEW o \in Ops, NEW field, NEW value, NEW label,
           Allowed(o, label), Remember(o, field, value, label),
           [seen[o] EXCEPT ![field] = value] \in Seen, field # "made"
    PROVE  TypeInv'
<1>1. /\ Goto(o, label) /\ UNCHANGED <<tables, account, call, logged>>
      /\ seen' = [seen EXCEPT ![o] = [@ EXCEPT ![field] = value]]
    BY DEF Remember
<1>2. seen \in [Ops -> Seen]
    BY DEF TypeInv, TypeOK
<1>3. seen[o] \in Seen
    BY <1>2
<1>4. [seen[o] EXCEPT ![field] = value].made = seen[o].made
    BY <1>3 DEF Seen
<1>5. /\ seen' \in [Ops -> Seen]
      /\ \A p \in Ops : seen'[p].made => seen[p].made
      /\ \A p \in Ops \ {o} : seen'[p] = seen[p]
    BY <1>1, <1>2, <1>4
<1>6. QED BY <1>1, <1>5, TypeGoto DEF TypeInv, TypeOK, tables

\* What a request holds is well typed whichever step it is at.
LEMMA SeenFields ==
    ASSUME TypeInv, NEW o \in Ops
    PROVE  /\ \A u \in UserIds : [seen[o] EXCEPT !["id"] = u] \in Seen
           /\ \A g \in Groups : [seen[o] EXCEPT !["group"] = g] \in Seen
           /\ \A e \in Emails : [seen[o] EXCEPT !["email"] = e] \in Seen
           /\ \A l \in SUBSET UserIds : [seen[o] EXCEPT !["list"] = l] \in Seen
           /\ [seen[o] EXCEPT !.made = TRUE] \in Seen
           /\ \A u \in UserIds :
                /\ [seen[o] EXCEPT !.list = @ \ {u}] \in Seen
                /\ [seen[o] EXCEPT !.list = @ \ {u}].made = seen[o].made
           /\ seen[o].group \in Groups \cup {None}
<1>1. seen[o] \in Seen
    BY DEF TypeInv, TypeOK
<1>2. QED BY <1>1 DEF Seen

LEMMA TypeCreate ==
    ASSUME TypeInv, NEW o \in Ops, CreateCompanyUser(o) PROVE TypeInv'
<1> USE CallFields DEF CreateSteps, UpdateSteps, RoleSteps, DeleteSteps, Steps,
                       Finished
<1>0. /\ pc[o] \in CreateSteps => call[o] \in CreateCalls
      /\ seen[o].made => call[o] \in CreateCalls
    BY DEF TypeInv, CallInv
<1>1. CASE Authorize(o)
    BY <1>0, <1>1, TypeCheck DEF Authorize, Allowed
<1>2. CASE CheckEmail(o)
    BY <1>0, <1>2, TypeCheck DEF CheckEmail, Allowed
<1>3. CASE FindCompany(o)
    BY <1>0, <1>3, TypeCheck DEF FindCompany, Allowed
<1>4. CASE CreateAccount(o)
    <2>1. CASE Throw(o)
        BY <2>1, TypeThrow
    <2>2. CASE ~Throw(o)
        <3>1. /\ account' = [account EXCEPT ![o] = call[o].email]
              /\ seen' = [seen EXCEPT ![o].made = TRUE]
              /\ Goto(o, "insertUser") /\ pc[o] = "createAccount"
              /\ UNCHANGED <<tables, call, logged>>
            BY <1>4, <2>2 DEF CreateAccount
        <3>2. account' \in [UserIds -> Emails \cup {None}]
            BY <3>1 DEF TypeInv, TypeOK
        <3>3. /\ seen' \in [Ops -> Seen]
              /\ \A p \in Ops \ {o} : seen'[p] = seen[p]
            BY <3>1, SeenFields DEF TypeInv, TypeOK
        <3>4. Allowed(o, "insertUser")
            BY <1>0, <3>1 DEF Allowed
        <3>5. QED BY <1>0, <3>1, <3>2, <3>3, <3>4, TypeGoto
                     DEF TypeInv, TypeOK, tables
    <2>3. QED BY <2>1, <2>2
<1>5. CASE InsertUser(o)
    <2>1. CASE Throw(o)
        BY <2>1, TypeThrow
    <2>2. CASE ~Throw(o)
        <3>1. /\ users' = [users EXCEPT ![o] = call[o].email]
              /\ Goto(o, "findGroup") /\ pc[o] = "insertUser"
              /\ UNCHANGED <<companies, groups, grants, belongings, account,
                             call, seen, logged>>
            BY <1>5, <2>2 DEF InsertUser
        <3>2. users' \in [UserIds -> Emails \cup {None}]
            BY <3>1 DEF TypeInv, TypeOK
        <3>3. Allowed(o, "findGroup")
            BY <1>0, <3>1 DEF Allowed
        <3>4. QED BY <3>1, <3>2, <3>3, TypeGoto DEF TypeInv, TypeOK
    <2>3. QED BY <2>1, <2>2
<1>6. CASE FindGroup(o)
    <2>1. CASE Proceed(o, "done")
        BY <2>1, TypeProceed DEF Allowed
    <2>2. CASE ~Proceed(o, "done")
        <3> DEFINE g == <<call[o].company, call[o].role>>
        <3>1. /\ g \in groups /\ Remember(o, "group", g, "insertGrant")
              /\ pc[o] = "findGroup"
            BY <1>6, <2>2 DEF FindGroup
        <3>2. g \in Groups
            BY <3>1 DEF TypeInv, TypeOK
        <3>3. Allowed(o, "insertGrant")
            BY <1>0, <3>1 DEF Allowed
        <3> HIDE DEF g
        <3>4. QED BY <3>1, <3>2, <3>3, SeenFields, TypeRemember
    <2>3. QED BY <2>1, <2>2
<1>7. CASE InsertGrant(o)
    <2>1. CASE Throw(o)
        BY <2>1, TypeThrow
    <2>2. CASE ~Throw(o)
        <3>1. /\ SetGrant(o, seen[o].group)
              /\ Goto(o, "done") /\ pc[o] = "insertGrant"
            BY <1>7, <2>2 DEF InsertGrant
        <3>2. grants' \in [UserIds -> Groups \cup {None}]
            BY <3>1, SeenFields DEF SetGrant, TypeInv, TypeOK
        <3>3. Allowed(o, "done")
            BY DEF Allowed
        <3>4. QED BY <3>1, <3>2, <3>3, TypeGoto DEF SetGrant, TypeInv, TypeOK
    <2>3. QED BY <2>1, <2>2
<1>8. CASE FindMade(o)
    <2>1. CASE Proceed(o, "failed")
        BY <2>1, TypeProceed DEF Allowed
    <2>2. CASE ~Proceed(o, "failed")
        <3>1. PICK u \in UserIds : Remember(o, "id", u, "deleteMade")
            BY <1>8, <2>2 DEF FindMade, AccountAt
        <3>2. Allowed(o, "deleteMade")
            BY DEF Allowed
        <3>3. QED BY <3>1, <3>2, SeenFields, TypeRemember
    <2>3. QED BY <2>1, <2>2
<1>9. CASE DeleteMade(o)
    <2>1. account' \in [UserIds -> Emails \cup {None}]
        BY <1>9 DEF DeleteMade, TypeInv, TypeOK
    <2>2. Allowed(o, "failed")
        BY DEF Allowed
    <2>3. QED BY <1>9, <2>1, <2>2, TypeGoto DEF DeleteMade, TypeInv, TypeOK, tables
<1>10. CASE CleanupFails(o)
    <2>1. Allowed(o, "failed")
        BY DEF Allowed
    <2>2. QED BY <1>10, <2>1, TypeGoto DEF CleanupFails, TypeInv, TypeOK, tables
<1>11. QED BY <1>1, <1>2, <1>3, <1>4, <1>5, <1>6, <1>7, <1>8, <1>9, <1>10
             DEF CreateCompanyUser

LEMMA TypeUpdate ==
    ASSUME TypeInv, NEW o \in Ops, UpdateCompanyUser(o) PROVE TypeInv'
<1> USE CallFields DEF CreateSteps, UpdateSteps, RoleSteps, DeleteSteps, Steps,
                       Finished
<1>0. pc[o] \in UpdateSteps => call[o] \in UpdateCalls
    BY DEF TypeInv, CallInv
<1>1. CASE LoadForUpdate(o)
    <2>1. CASE Throw(o)
        BY <2>1, TypeThrow
    <2>2. CASE ~Throw(o)
        <3> DEFINE e == users[call[o].user]
                   b == (users[call[o].user]
                          = companies[HomeOf(call[o].caller)])
                   s == [seen[o] EXCEPT !.email = e, !.owner = b]
        <3>1. /\ seen' = [seen EXCEPT ![o] = s]
              /\ Goto(o, "findAccount") /\ pc[o] = "loadForUpdate"
              /\ UNCHANGED <<tables, account, call, logged>>
              /\ e # None
            BY <1>1, <2>2 DEF LoadForUpdate
        <3>2. call[o].user \in UserIds
            BY <1>0, <3>1 DEF UpdateCalls
        <3>3. e \in Emails /\ b \in BOOLEAN
            BY <3>1, <3>2 DEF TypeInv, TypeOK
        <3>7. s \in Seen /\ s.made = seen[o].made
            <4> HIDE DEF e, b
            <4> QED BY <3>3 DEF TypeInv, TypeOK, Seen
        <3> HIDE DEF e, b, s
        <3>4. /\ seen' \in [Ops -> Seen]
              /\ \A p \in Ops : seen'[p].made = seen[p].made
              /\ \A p \in Ops \ {o} : seen'[p] = seen[p]
            BY <3>1, <3>7 DEF TypeInv, TypeOK
        <3>5. Allowed(o, "findAccount")
            BY <1>0, <3>1 DEF Allowed
        <3>6. QED BY <3>1, <3>4, <3>5, TypeGoto DEF TypeInv, TypeOK, tables
    <2>3. QED BY <2>1, <2>2
<1>2. CASE FindAccount(o)
    <2>1. CASE Throw(o)
        BY <2>1, TypeThrow
    <2>2. CASE ~Throw(o)
        <3>1. PICK u \in UserIds : Remember(o, "id", u, "moveAccount")
            BY <1>2, <2>2 DEF FindAccount, AccountAt
        <3>2. Allowed(o, "moveAccount")
            BY <1>0, <1>2 DEF FindAccount, Allowed
        <3>3. QED BY <3>1, <3>2, SeenFields, TypeRemember
    <2>3. QED BY <2>1, <2>2
<1>3. CASE MoveAccount(o)
    <2>1. CASE Throw(o)
        BY <2>1, TypeThrow
    <2>2. CASE ~Throw(o)
        <3> DEFINE label == IF seen[o].owner THEN "updateCompany"
                                             ELSE "updateRow"
        <3>1. /\ account' = [account EXCEPT ![seen[o].id] = call[o].email]
              /\ Goto(o, label) /\ pc[o] = "moveAccount"
              /\ UNCHANGED <<tables, call, seen, logged>>
            BY <1>3, <2>2 DEF MoveAccount
        <3>2. account' \in [UserIds -> Emails \cup {None}]
            BY <3>1 DEF TypeInv, TypeOK
        <3>3. Allowed(o, label)
            BY <1>0, <3>1 DEF Allowed
        <3> HIDE DEF label
        <3>4. QED BY <3>1, <3>2, <3>3, TypeGoto DEF TypeInv, TypeOK, tables
    <2>3. QED BY <2>1, <2>2
<1>4. CASE UpdateCompany(o)
    <2>1. CASE Throw(o)
        BY <2>1, TypeThrow
    <2>2. CASE ~Throw(o)
        <3>1. /\ companies' = [companies EXCEPT
                                  ![HomeOf(call[o].caller)] = call[o].email]
              /\ Goto(o, "updateRow") /\ pc[o] = "updateCompany"
              /\ UNCHANGED <<users, groups, grants, belongings, account, call,
                             seen, logged>>
            BY <1>4, <2>2 DEF UpdateCompany
        <3>2. companies' \in [Companies -> Emails \cup {None}]
            BY <3>1 DEF TypeInv, TypeOK
        <3>3. Allowed(o, "updateRow")
            BY <1>0, <3>1 DEF Allowed
        <3>4. QED BY <3>1, <3>2, <3>3, TypeGoto DEF TypeInv, TypeOK
    <2>3. QED BY <2>1, <2>2
<1>5. CASE UpdateRow(o)
    <2>1. CASE Throw(o)
        BY <2>1, TypeThrow
    <2>2. CASE ~Throw(o)
        <3>1. /\ users' = [users EXCEPT ![call[o].user] = call[o].email]
              /\ Goto(o, "done") /\ pc[o] = "updateRow"
              /\ UNCHANGED <<companies, groups, grants, belongings, account,
                             call, seen, logged>>
            BY <1>5, <2>2 DEF UpdateRow
        <3>2. users' \in [UserIds -> Emails \cup {None}]
            BY <3>1 DEF TypeInv, TypeOK
        <3>3. Allowed(o, "done")
            BY DEF Allowed
        <3>4. QED BY <3>1, <3>2, <3>3, TypeGoto DEF TypeInv, TypeOK
    <2>3. QED BY <2>1, <2>2
<1>6. QED BY <1>1, <1>2, <1>3, <1>4, <1>5 DEF UpdateCompanyUser

LEMMA TypeRole ==
    ASSUME TypeInv, NEW o \in Ops, UpdateUserAccessGroup(o) PROVE TypeInv'
<1> USE DEF CreateSteps, UpdateSteps, RoleSteps, DeleteSteps, Steps, Finished
<1>0. pc[o] \in RoleSteps => call[o] \in RoleCalls
    BY DEF TypeInv, CallInv
<1>1. CASE LoadForRole(o)
    BY <1>0, <1>1, TypeCheck DEF LoadForRole, Allowed
<1>2. CASE FindNewGroup(o)
    <2>1. CASE Proceed(o, "done")
        BY <2>1, TypeProceed DEF Allowed
    <2>2. CASE ~Proceed(o, "done")
        <3> DEFINE g == <<HomeOf(call[o].user), call[o].role>>
        <3>1. /\ g \in groups /\ Remember(o, "group", g, "upsertGrant")
              /\ pc[o] = "findNewGroup"
            BY <1>2, <2>2 DEF FindNewGroup
        <3>2. g \in Groups
            BY <3>1 DEF TypeInv, TypeOK
        <3>3. Allowed(o, "upsertGrant")
            BY <1>0, <3>1 DEF Allowed
        <3> HIDE DEF g
        <3>4. QED BY <3>1, <3>2, <3>3, SeenFields, TypeRemember
    <2>3. QED BY <2>1, <2>2
<1>3. CASE UpsertGrant(o)
    <2>1. grants' \in [UserIds -> Groups \cup {None}]
        BY <1>3, SeenFields DEF UpsertGrant, SetGrant, TypeInv, TypeOK
    <2>2. Allowed(o, "done")
        BY DEF Allowed
    <2>3. QED BY <1>3, <2>1, <2>2, TypeGoto
                 DEF UpsertGrant, SetGrant, TypeInv, TypeOK
<1>4. QED BY <1>1, <1>2, <1>3 DEF UpdateUserAccessGroup

LEMMA TypeDelete ==
    ASSUME TypeInv, NEW o \in Ops, DeleteCompanyUser(o) PROVE TypeInv'
<1> USE DEF CreateSteps, UpdateSteps, RoleSteps, DeleteSteps, Steps, Finished
<1>0. pc[o] \in DeleteSteps => call[o] \in DeleteCalls
    BY DEF TypeInv, CallInv
<1>1. CASE LoadForDelete(o)
    <2>0. pc[o] = "loadForDelete" /\ call[o] \in DeleteCalls
        BY <1>0, <1>1 DEF LoadForDelete
    <2>1. CASE Throw(o)
        BY <2>1, TypeThrow
    <2>2. CASE Proceed(o, "deleteGrant")
        BY <2>0, <2>2, TypeProceed DEF Allowed
    <2>3. CASE ~Throw(o) /\ ~Proceed(o, "deleteGrant")
        <3> DEFINE e == users[call[o].user]
        <3>1. e # None /\ Remember(o, "email", e, "findDoomed")
            BY <1>1, <2>3 DEF LoadForDelete
        <3>2. e \in Emails
            BY <2>0, <3>1 DEF DeleteCalls, TypeInv, TypeOK
        <3>3. Allowed(o, "findDoomed")
            BY <2>0 DEF Allowed
        <3> HIDE DEF e
        <3>4. QED BY <3>1, <3>2, <3>3, SeenFields, TypeRemember
    <2>4. QED BY <2>1, <2>2, <2>3
<1>2. CASE FindDoomed(o)
    <2>0. pc[o] = "findDoomed" /\ call[o] \in DeleteCalls
        BY <1>0, <1>2 DEF FindDoomed
    <2>1. CASE Proceed(o, "deleteGrant")
        BY <2>0, <2>1, TypeProceed DEF Allowed
    <2>2. CASE ~Proceed(o, "deleteGrant")
        <3>1. PICK u \in UserIds : Remember(o, "id", u, "deleteAccount")
            BY <1>2, <2>2 DEF FindDoomed, AccountAt
        <3>2. Allowed(o, "deleteAccount")
            BY <2>0 DEF Allowed
        <3>3. QED BY <3>1, <3>2, SeenFields, TypeRemember
    <2>3. QED BY <2>1, <2>2
<1>3. CASE DeleteAccount(o)
    <2>0. pc[o] = "deleteAccount" /\ call[o] \in DeleteCalls
        BY <1>0, <1>3 DEF DeleteAccount
    <2>1. CASE Throw(o)
        BY <2>1, TypeThrow
    <2>2. CASE ~Throw(o)
        <3>1. /\ account' = [account EXCEPT ![seen[o].id] = None]
              /\ Goto(o, "deleteGrant")
              /\ UNCHANGED <<tables, call, seen, logged>>
            BY <1>3, <2>2 DEF DeleteAccount
        <3>2. account' \in [UserIds -> Emails \cup {None}]
            BY <3>1 DEF TypeInv, TypeOK
        <3>3. Allowed(o, "deleteGrant")
            BY <2>0 DEF Allowed
        <3>4. QED BY <3>1, <3>2, <3>3, TypeGoto DEF TypeInv, TypeOK, tables
    <2>3. QED BY <2>1, <2>2
<1>4. CASE DeleteGrant(o)
    <2>1. grants' \in [UserIds -> Groups \cup {None}]
        BY <1>4 DEF DeleteGrant, SetGrant, TypeInv, TypeOK
    <2>2. Allowed(o, "deleteRow")
        BY <1>0, <1>4 DEF DeleteGrant, Allowed
    <2>3. QED BY <1>4, <2>1, <2>2, TypeGoto
                 DEF DeleteGrant, SetGrant, TypeInv, TypeOK
<1>5. CASE DeleteRow(o)
    <2>1. users' \in [UserIds -> Emails \cup {None}]
        BY <1>5 DEF DeleteRow, TypeInv, TypeOK
    <2>2. Allowed(o, "done")
        BY DEF Allowed
    <2>3. QED BY <1>5, <2>1, <2>2, TypeGoto DEF DeleteRow, TypeInv, TypeOK, tables
<1>6. QED BY <1>1, <1>2, <1>3, <1>4, <1>5 DEF DeleteCompanyUser

\* The steps of deleteAccessgroup and deleteCompany demand nothing of the call.
LEMMA TypeCompany ==
    ASSUME TypeInv, NEW o \in Ops, DeleteAccessgroup(o) \/ DeleteCompany(o)
    PROVE  TypeInv'
<1> USE DEF CreateSteps, UpdateSteps, RoleSteps, DeleteSteps, Steps, Finished
<1>0. \A l \in {"done", "deleteGroup", "listUsers", "deleteUsers", "deleteGroups",
                "deleteBelongings", "deleteListedGrants", "deleteCompany"} :
        Allowed(o, l)
    BY DEF Allowed
<1>1. CASE LoadGroup(o)
    <2>1. CASE Proceed(o, "done")
        BY <1>0, <2>1, TypeProceed
    <2>2. CASE ~Proceed(o, "done")
        BY <1>0, <1>1, <2>2, TypeCheck DEF LoadGroup
    <2>3. QED BY <2>1, <2>2
<1>2. CASE DeleteGroup(o)
    <2>1. groups' \subseteq Groups
        BY <1>2 DEF DeleteGroup, TypeInv, TypeOK
    <2>2. QED BY <1>0, <1>2, <2>1, TypeGoto DEF DeleteGroup, TypeInv, TypeOK
<1>3. CASE LoadCompany(o)
    BY <1>0, <1>3, TypeCheck DEF LoadCompany
<1>4. CASE ListUsers(o)
    <2>1. UsersOf(call[o].company) \in SUBSET UserIds
        BY DEF UsersOf
    <2>2. QED BY <1>0, <1>4, <2>1, SeenFields, TypeRemember DEF ListUsers
<1>5. CASE DeleteUsers(o)
    <2>1. users' \in [UserIds -> Emails \cup {None}]
        BY <1>5 DEF DeleteUsers, TypeInv, TypeOK
    <2>2. QED BY <1>0, <1>5, <2>1, TypeGoto DEF DeleteUsers, TypeInv, TypeOK
<1>6. CASE DeleteGroups(o)
    <2>1. groups' \subseteq Groups
        BY <1>6 DEF DeleteGroups, TypeInv, TypeOK
    <2>2. QED BY <1>0, <1>6, <2>1, TypeGoto DEF DeleteGroups, TypeInv, TypeOK
<1>7. CASE DeleteBelongings(o)
    <2>1. CASE Proceed(o, "deleteListedGrants")
        BY <1>0, <2>1, TypeProceed
    <2>2. CASE ~Proceed(o, "deleteListedGrants")
        <3>1. PICK t : /\ belongings' =
                            [belongings EXCEPT ![call[o].company] = @ \ {t}]
                       /\ UNCHANGED <<companies, users, groups, grants, account,
                                      pc, call, seen, logged>>
            BY <1>7, <2>2 DEF DeleteBelongings
        <3>2. belongings' \in [Companies -> SUBSET OtherTables]
            BY <3>1 DEF TypeInv, TypeOK
        <3>3. QED BY <3>1, <3>2 DEF TypeInv, TypeOK, CallInv
    <2>3. QED BY <2>1, <2>2
<1>8. CASE DeleteListedGrants(o)
    <2>1. CASE Proceed(o, "deleteCompany")
        BY <1>0, <2>1, TypeProceed
    <2>2. CASE ~Proceed(o, "deleteCompany")
        <3>1. PICK u \in seen[o].list :
                /\ grants' = [grants EXCEPT ![u] = None]
                /\ seen' = [seen EXCEPT ![o] = [seen[o] EXCEPT !.list = @ \ {u}]]
                /\ UNCHANGED <<companies, users, groups, belongings, account, pc,
                               call, logged>>
            BY <1>8, <2>2 DEF DeleteListedGrants
        <3>2. u \in UserIds
            BY DEF TypeInv, TypeOK, Seen
        <3> DEFINE s == [seen[o] EXCEPT !.list = @ \ {u}]
        <3>3. s \in Seen /\ s.made = seen[o].made
            BY <3>2, SeenFields
        <3>4. seen' = [seen EXCEPT ![o] = s]
            BY <3>1
        <3> HIDE DEF s
        <3>5. /\ seen' \in [Ops -> Seen]
              /\ \A p \in Ops : seen'[p].made = seen[p].made
            BY <3>3, <3>4 DEF TypeInv, TypeOK
        <3>6. grants' \in [UserIds -> Groups \cup {None}]
            BY <3>1 DEF TypeInv, TypeOK
        <3>7. QED BY <3>1, <3>5, <3>6 DEF TypeInv, TypeOK, CallInv
    <2>3. QED BY <2>1, <2>2
<1>9. CASE DeleteCompanyRow(o)
    <2>1. companies' \in [Companies -> Emails \cup {None}]
        BY <1>9 DEF DeleteCompanyRow, TypeInv, TypeOK
    <2>2. QED BY <1>0, <1>9, <2>1, TypeGoto DEF DeleteCompanyRow, TypeInv, TypeOK
<1>10. QED BY <1>1, <1>2, <1>3, <1>4, <1>5, <1>6, <1>7, <1>8, <1>9
             DEF DeleteAccessgroup, DeleteCompany

LEMMA TypeStep == ASSUME TypeInv, [Next]_vars PROVE TypeInv'
<1>1. CASE UNCHANGED vars
    BY <1>1 DEF TypeInv, TypeOK, CallInv, vars, tables
<1>2. ASSUME NEW o \in Ops, Start(o) PROVE TypeInv'
    BY <1>2, TypeStart
<1>3. ASSUME NEW o \in Ops, StatementFails(o) \/ RemoteFails(o) PROVE TypeInv'
    BY <1>3, TypeThrow DEF StatementFails, RemoteFails
<1>4. ASSUME NEW o \in Ops, Crash(o) PROVE TypeInv'
    <2>1. Allowed(o, "failed")
        BY DEF Allowed, Finished, CreateSteps, UpdateSteps, RoleSteps, DeleteSteps
    <2>2. QED BY <1>4, <2>1, TypeProceed DEF Crash
<1>5. QED BY <1>1, <1>2, <1>3, <1>4, TypeCreate, TypeUpdate, TypeRole, TypeDelete,
             TypeCompany DEF Next, Step

\* Every variable keeps its type, in every instance.
THEOREM TypeCorrect == Spec => []TypeOK
<1>1. Spec => []TypeInv
    BY TypeInit, TypeStep, PTL DEF Spec
<1>2. QED BY <1>1, PTL DEF TypeInv

-----------------------------------------------------------------------------
(* Grants.  Only two steps write a grant, each the group that its request  *)
(* found one step earlier under a company that no later step can change.   *)

TenantInv ==
    /\ TypeInv
    /\ \A u \in UserIds :
         grants[u] # None => Stamped(u) /\ grants[u][1] = HomeOf(u)
    /\ \A o \in Ops :
         /\ pc[o] = "insertGrant" => seen[o].group[1] = call[o].company
         /\ pc[o] \in RoleSteps => Stamped(call[o].user)
         /\ pc[o] = "upsertGrant" => seen[o].group[1] = HomeOf(call[o].user)

\* What one step of a started request does to requests and to grants.
Frame(o) ==
    /\ call' = call
    /\ \A p \in Ops : pc[p] # "idle" => pc'[p] # "idle"
    /\ \A p \in Ops \ {o} : pc'[p] = pc[p] /\ seen'[p] = seen[p]
    /\ pc'[o] = "insertGrant" => /\ pc[o] = "findGroup"
                                 /\ seen'[o].group[1] = call[o].company
    /\ pc'[o] = "upsertGrant" => /\ pc[o] = "findNewGroup"
                                 /\ seen'[o].group[1] = HomeOf(call[o].user)
    /\ pc'[o] = "findNewGroup" => pc[o] = "loadForRole"
    /\ pc'[o] # "loadForRole"
    /\ \A u \in UserIds : grants'[u] # grants[u] =>
         \/ grants'[u] = None
         \/ pc[o] = "insertGrant" /\ u = o /\ grants'[u] = seen[o].group
         \/ pc[o] = "upsertGrant" /\ u = call[o].user /\ grants'[u] = seen[o].group

LEMMA ThrowFrame ==
    ASSUME TypeInv, NEW o \in Ops, Throw(o) PROVE Frame(o)
BY DEF TypeInv, TypeOK, Throw, CatchPC, Proceed, Goto, tables, Frame

LEMMA CheckFrame ==
    ASSUME TypeInv, NEW o \in Ops, NEW test, NEW label,
           label \notin {"idle", "insertGrant", "upsertGrant", "loadForRole"},
           label = "findNewGroup" => pc[o] = "loadForRole",
           Check(o, test, label)
    PROVE  Frame(o)
<1>1. CASE Throw(o)
    BY <1>1, ThrowFrame
<1>2. CASE Proceed(o, label)
    BY <1>2 DEF TypeInv, TypeOK, Proceed, Goto, tables, Frame
<1>3. QED BY <1>1, <1>2 DEF Check

LEMMA CreateFrame ==
    ASSUME TypeInv, NEW o \in Ops, CreateCompanyUser(o) PROVE Frame(o)
<1>1. CASE Throw(o)
    BY <1>1, ThrowFrame
<1>2. CASE Authorize(o) \/ CheckEmail(o) \/ FindCompany(o)
    BY <1>2, CheckFrame DEF Authorize, CheckEmail, FindCompany
<1>3. CASE ~Throw(o) /\ (CreateAccount(o) \/ InsertUser(o))
    BY <1>3 DEF CreateAccount, InsertUser, TypeInv, TypeOK, Goto, tables, Frame
<1>4. CASE FindGroup(o)
    BY <1>4 DEF FindGroup, Remember, Proceed, TypeInv, TypeOK, Seen, Goto, tables,
                Frame
<1>5. CASE ~Throw(o) /\ InsertGrant(o)
    BY <1>5 DEF InsertGrant, SetGrant, TypeInv, TypeOK, Goto, Frame
<1>6. CASE FindMade(o) \/ DeleteMade(o) \/ CleanupFails(o)
    BY <1>6 DEF FindMade, DeleteMade, CleanupFails, Remember, Proceed, TypeInv,
                TypeOK, Goto, tables, Frame
<1>7. QED BY <1>1, <1>2, <1>3, <1>4, <1>5, <1>6 DEF CreateCompanyUser

LEMMA UpdateFrame ==
    ASSUME TypeInv, NEW o \in Ops, UpdateCompanyUser(o) PROVE Frame(o)
<1>1. CASE Throw(o)
    BY <1>1, ThrowFrame
<1>2. CASE ~Throw(o)
    <2>1. CASE LoadForUpdate(o) \/ FindAccount(o)
        BY <1>2, <2>1 DEF LoadForUpdate, FindAccount, Remember, TypeInv, TypeOK,
                          Goto, tables, Frame
    <2>2. CASE MoveAccount(o) \/ UpdateCompany(o) \/ UpdateRow(o)
        BY <1>2, <2>2 DEF MoveAccount, UpdateCompany, UpdateRow, TypeInv, TypeOK,
                          Goto, tables, Frame
    <2>3. QED BY <2>1, <2>2 DEF UpdateCompanyUser
<1>3. QED BY <1>1, <1>2

LEMMA RoleFrame ==
    ASSUME TypeInv, NEW o \in Ops, UpdateUserAccessGroup(o) PROVE Frame(o)
<1>1. CASE LoadForRole(o)
    BY <1>1, CheckFrame DEF LoadForRole
<1>2. CASE FindNewGroup(o)
    BY <1>2 DEF FindNewGroup, Remember, Proceed, TypeInv, TypeOK, Seen, Goto,
                tables, Frame
<1>3. CASE UpsertGrant(o)
    BY <1>3 DEF UpsertGrant, SetGrant, TypeInv, TypeOK, Goto, Frame
<1>4. QED BY <1>1, <1>2, <1>3 DEF UpdateUserAccessGroup

LEMMA DeleteFrame ==
    ASSUME TypeInv, NEW o \in Ops, DeleteCompanyUser(o) PROVE Frame(o)
<1>1. CASE Throw(o)
    BY <1>1, ThrowFrame
<1>2. CASE ~Throw(o)
    <2>1. CASE LoadForDelete(o) \/ FindDoomed(o) \/ DeleteAccount(o)
        BY <1>2, <2>1 DEF LoadForDelete, FindDoomed, DeleteAccount, Remember,
                          Proceed, TypeInv, TypeOK, Goto, tables, Frame
    <2>2. CASE DeleteGrant(o) \/ DeleteRow(o)
        BY <2>2 DEF DeleteGrant, DeleteRow, SetGrant, TypeInv, TypeOK, Goto,
                    tables, Frame
    <2>3. QED BY <1>2, <2>1, <2>2 DEF DeleteCompanyUser
<1>3. QED BY <1>1, <1>2

LEMMA CompanyFrame ==
    ASSUME TypeInv, NEW o \in Ops, DeleteAccessgroup(o) \/ DeleteCompany(o)
    PROVE  Frame(o)
<1>1. CASE LoadGroup(o)
    <2>1. CASE Proceed(o, "done")
        BY <2>1 DEF Proceed, TypeInv, TypeOK, Goto, tables, Frame
    <2>2. CASE ~Proceed(o, "done")
        BY <1>1, <2>2, CheckFrame DEF LoadGroup
    <2>3. QED BY <2>1, <2>2
<1>2. CASE LoadCompany(o)
    BY <1>2, CheckFrame DEF LoadCompany
<1>3. CASE DeleteGroup(o) \/ ListUsers(o) \/ DeleteUsers(o) \/ DeleteGroups(o)
    BY <1>3 DEF DeleteGroup, ListUsers, DeleteUsers, DeleteGroups, Remember,
                TypeInv, TypeOK, Goto, tables, Frame
<1>4. CASE DeleteBelongings(o)
    <2>1. CASE Proceed(o, "deleteListedGrants")
        BY <2>1 DEF Proceed, TypeInv, TypeOK, Goto, tables, Frame
    <2>2. CASE ~Proceed(o, "deleteListedGrants")
        <3>1. pc[o] = "deleteBelongings" /\ UNCHANGED <<grants, pc, call, seen>>
            BY <1>4, <2>2 DEF DeleteBelongings
        <3>2. QED BY <3>1 DEF Frame
    <2>3. QED BY <2>1, <2>2
<1>5. CASE DeleteListedGrants(o)
    <2>1. CASE Proceed(o, "deleteCompany")
        BY <2>1 DEF Proceed, TypeInv, TypeOK, Goto, tables, Frame
    <2>2. CASE ~Proceed(o, "deleteCompany")
        <3>1. PICK u \in seen[o].list :
                /\ pc[o] = "deleteListedGrants" /\ UNCHANGED <<pc, call>>
                /\ grants' = [grants EXCEPT ![u] = None]
                /\ \E s : seen' = [seen EXCEPT ![o] = s]
            BY <1>5, <2>2 DEF DeleteListedGrants
        <3>2. QED BY <3>1 DEF Frame, TypeInv, TypeOK
    <2>3. QED BY <2>1, <2>2
<1>6. CASE DeleteCompanyRow(o)
    BY <1>6 DEF DeleteCompanyRow, TypeInv, TypeOK, Goto, tables, Frame
<1>7. QED BY <1>1, <1>2, <1>3, <1>4, <1>5, <1>6 DEF DeleteAccessgroup, DeleteCompany

LEMMA StepFrame ==
    ASSUME TypeInv, NEW o \in Ops, Step(o) \/ Crash(o) PROVE Frame(o)
<1>1. CASE StatementFails(o) \/ RemoteFails(o)
    BY <1>1, ThrowFrame DEF StatementFails, RemoteFails
<1>2. CASE Crash(o)
    BY <1>2 DEF Crash, Proceed, TypeInv, TypeOK, Goto, tables, Frame
<1>3. QED BY <1>1, <1>2, CreateFrame, UpdateFrame, RoleFrame, DeleteFrame,
             CompanyFrame DEF Step

LEMMA TenantInit == Init => TenantInv
<1> SUFFICES ASSUME Init PROVE TenantInv
    OBVIOUS
<1>1. ASSUME NEW u \in UserIds, grants[u] # None
      PROVE  Stamped(u) /\ grants[u][1] = HomeOf(u)
    BY <1>1, AccountsAssumption DEF Init, Stamped, HomeOf
<1>2. QED BY <1>1, TypeInit DEF TenantInv, Init, RoleSteps

\* Where a user belongs is settled once and for all when it is made.
LEMMA HomesStay ==
    ASSUME NEW u \in UserIds, Stamped(u),
           u \in Ops => pc'[u] # "idle" /\ call'[u] = call[u]
    PROVE  Stamped(u)' /\ HomeOf(u)' = HomeOf(u)
BY AccountsAssumption DEF Stamped, HomeOf, UserIds

LEMMA TenantStart ==
    ASSUME TenantInv, NEW o \in Ops, Start(o) PROVE TenantInv'
<1>1. PICK c \in Calls : /\ call' = [call EXCEPT ![o] = c]
                         /\ Goto(o, FirstStep(c.kind))
                         /\ c.kind = "updateRole" => HandedOut(c.user)
                         /\ pc[o] = "idle"
                         /\ UNCHANGED <<tables, account, seen, logged>>
    BY DEF Start
<1>2. TypeInv /\ TypeInv'
    BY TypeStart DEF TenantInv
<1>3. ASSUME NEW u \in UserIds, Stamped(u)
      PROVE  Stamped(u)' /\ HomeOf(u)' = HomeOf(u)
    <2>1. u # o
        BY <1>1, <1>3 DEF Stamped
    <2>2. u \in Ops => pc'[u] # "idle" /\ call'[u] = call[u]
        BY <1>1, <1>2, <1>3, <2>1 DEF Stamped, Goto, TypeInv, TypeOK
    <2>3. QED BY <1>3, <2>2, HomesStay
<1>4. ASSUME NEW u \in UserIds, grants'[u] # None
      PROVE  Stamped(u)' /\ grants'[u][1] = HomeOf(u)'
    BY <1>1, <1>3, <1>4 DEF tables, TenantInv
<1>5. ASSUME NEW p \in Ops \ {o}
      PROVE  /\ pc'[p] = "insertGrant" => seen'[p].group[1] = call'[p].company
             /\ pc'[p] \in RoleSteps => Stamped(call[p].user)'
             /\ pc'[p] = "upsertGrant" =>
                  seen'[p].group[1] = HomeOf(call[p].user)'
    <2>1. /\ pc'[p] = pc[p] /\ call'[p] = call[p] /\ seen'[p] = seen[p]
        BY <1>1, <1>2 DEF Goto, TypeInv, TypeOK
    <2>2. pc[p] \in RoleSteps => call[p].user \in UserIds
        BY <1>2 DEF TypeInv, CallInv, RoleCalls
    <2>3. "upsertGrant" \in RoleSteps
        BY DEF RoleSteps
    <2>4. pc[p] \in RoleSteps =>
            /\ Stamped(call[p].user)'
            /\ HomeOf(call[p].user)' = HomeOf(call[p].user)
        <3>1. ASSUME NEW u \in UserIds, u = call[p].user, Stamped(u)
              PROVE  /\ Stamped(call[p].user)'
                     /\ HomeOf(call[p].user)' = HomeOf(call[p].user)
            <4>1. u = call'[p].user
                BY <2>1, <3>1
            <4>2. QED BY <1>3, <3>1, <4>1 DEF Stamped, HomeOf
        <3>2. QED BY <2>2, <3>1 DEF TenantInv
    <2>5. QED BY <2>1, <2>3, <2>4 DEF TenantInv
<1>6. /\ pc'[o] # "insertGrant" /\ pc'[o] # "upsertGrant"
      /\ pc'[o] \in RoleSteps => Stamped(call[o].user)'
    <2>1. pc'[o] = FirstStep(c.kind) /\ call'[o] = c
        BY <1>1, <1>2 DEF Goto, TypeInv, TypeOK
    <2>2. ASSUME pc'[o] \in RoleSteps PROVE Stamped(call[o].user)'
        <3>1. c \in RoleCalls /\ c.kind = "updateRole"
            BY <2>1, <2>2, FirstSteps DEF RoleSteps
        <3>2. c.user \in UserIds /\ Stamped(c.user)
            BY <1>1, <3>1 DEF RoleCalls, HandedOut
        <3>3. ASSUME NEW u \in UserIds, u = c.user, Stamped(u)
              PROVE  Stamped(call[o].user)'
            BY <1>3, <2>1, <3>3 DEF Stamped
        <3>4. QED BY <3>2, <3>3
    <2>3. QED BY <2>1, <2>2, FirstSteps
<1>7. QED BY <1>2, <1>4, <1>5, <1>6 DEF TenantInv

LEMMA TenantStep ==
    ASSUME TenantInv, NEW o \in Ops, Step(o) \/ Crash(o) PROVE TenantInv'
<1>1. Frame(o) /\ TypeInv
    BY StepFrame DEF TenantInv
<1>2. TypeInv'
    BY <1>1, TypeStep DEF Next
<1>3. ASSUME NEW u \in UserIds, Stamped(u)
      PROVE  Stamped(u)' /\ HomeOf(u)' = HomeOf(u)
    BY <1>1, <1>3, HomesStay DEF Frame, Stamped
<1>4. ASSUME NEW p \in Ops, NEW u \in UserIds, u = call[p].user, Stamped(u)
      PROVE  Stamped(call[p].user)' /\ HomeOf(call[p].user)' = HomeOf(u)
    <2>1. u = call'[p].user
        BY <1>1, <1>4 DEF Frame
    <2>2. QED BY <1>3, <1>4, <2>1 DEF Stamped, HomeOf
<1>5. ASSUME NEW p \in Ops, pc[p] \in RoleSteps
      PROVE  call[p].user \in UserIds /\ Stamped(call[p].user)
    BY <1>1, <1>5 DEF TypeInv, CallInv, RoleCalls, TenantInv
<1>6. ASSUME NEW u \in UserIds, grants'[u] # None
      PROVE  Stamped(u)' /\ grants'[u][1] = HomeOf(u)'
    <2>1. CASE grants'[u] = grants[u]
        BY <1>3, <1>6, <2>1 DEF TenantInv
    <2>2. CASE pc[o] = "insertGrant" /\ u = o /\ grants'[u] = seen[o].group
        <3>1. call[o] \in CreateCalls
            BY <1>1, <2>2 DEF TypeInv, CallInv, CreateSteps
        <3>2. Stamped(u) /\ HomeOf(u) = call[o].company
            BY <2>2, <3>1, AccountsAssumption DEF Stamped, HomeOf, CreateCalls
        <3>3. QED BY <1>3, <2>2, <3>2 DEF TenantInv
    <2>3. CASE pc[o] = "upsertGrant" /\ u = call[o].user
               /\ grants'[u] = seen[o].group
        <3>1. Stamped(u) /\ seen[o].group[1] = HomeOf(u)
            BY <2>3 DEF TenantInv, RoleSteps
        <3>2. QED BY <1>3, <2>3, <3>1
    <2>4. QED BY <1>1, <1>6, <2>1, <2>2, <2>3 DEF Frame
<1>7. ASSUME NEW p \in Ops
      PROVE  /\ pc'[p] = "insertGrant" => seen'[p].group[1] = call'[p].company
             /\ pc'[p] \in RoleSteps => Stamped(call[p].user)'
             /\ pc'[p] = "upsertGrant" =>
                  seen'[p].group[1] = HomeOf(call[p].user)'
    <2>1. CASE p = o
        <3>1. pc'[o] = "insertGrant" => seen'[o].group[1] = call'[o].company
            BY <1>1 DEF Frame
        <3>2. pc'[o] \in RoleSteps => pc[o] \in RoleSteps
            BY <1>1 DEF Frame, RoleSteps
        <3>3. pc'[o] \in RoleSteps => Stamped(call[o].user)'
            BY <1>4, <1>5, <3>2
        <3>4. pc'[o] = "upsertGrant" =>
                seen'[o].group[1] = HomeOf(call[o].user)'
            <4>1. pc'[o] = "upsertGrant" =>
                    pc[o] \in RoleSteps
                    /\ seen'[o].group[1] = HomeOf(call[o].user)
                BY <1>1 DEF Frame, RoleSteps
            <4>2. QED BY <1>4, <1>5, <4>1
        <3>5. QED BY <2>1, <3>1, <3>3, <3>4
    <2>2. CASE p # o
        <3>1. pc'[p] = pc[p] /\ seen'[p] = seen[p] /\ call'[p] = call[p]
            BY <1>1, <2>2 DEF Frame
        <3>2. pc[p] = "upsertGrant" => pc[p] \in RoleSteps
            BY DEF RoleSteps
        <3>3. pc[p] \in RoleSteps => /\ Stamped(call[p].user)'
                                    /\ HomeOf(call[p].user)' = HomeOf(call[p].user)
            BY <1>4, <1>5
        <3>4. QED BY <3>1, <3>2, <3>3 DEF TenantInv
    <2>3. QED BY <2>1, <2>2
<1>8. QED BY <1>2, <1>6, <1>7 DEF TenantInv

\* A user's role is always one of the user's own company's, however many
\* companies, users and requests there are, whatever fails or overlaps.
THEOREM RolesStayInTenant == Spec => []GrantsStayInTenant
<1>1. TenantInv /\ [Next]_vars => TenantInv'
    <2> SUFFICES ASSUME TenantInv, [Next]_vars PROVE TenantInv'
        OBVIOUS
    <2>1. CASE UNCHANGED vars
        <3>1. TypeInv'
            BY <2>1, TypeStep DEF TenantInv
        <3>2. QED BY <2>1, <3>1 DEF TenantInv, Stamped, HomeOf, vars, tables
    <2>2. CASE Next
        BY <2>2, TenantStart, TenantStep DEF Next
    <2>3. QED BY <2>1, <2>2
<1>2. TenantInv => GrantsStayInTenant
    BY DEF TenantInv, GrantsStayInTenant
<1>3. QED BY <1>1, <1>2, TenantInit, PTL DEF Spec

-----------------------------------------------------------------------------
(* Which step leads where, and what it has just seen or done.              *)

GroupCalls == [kind : {"deleteGroup"}, caller : UserIds, group : Groups]
DeletionCalls == [kind : {"deleteCompany"}, caller : UserIds,
                  company : Companies]
GroupSteps == {"loadGroup", "deleteGroup"}
DeletionSteps == {"loadCompany", "listUsers", "deleteUsers", "deleteGroups",
                  "deleteBelongings", "deleteListedGrants", "deleteCompany"}
FirstLabels == {"authorize", "loadForUpdate", "loadForRole", "loadForDelete",
                "loadGroup", "loadCompany"}

\* A createUser that has no account yet, and one that has made it.
BeforeAccount == {"authorize", "checkEmail", "findCompany", "createAccount"}
AfterAccount == {"insertUser", "findGroup", "insertGrant", "findMade",
                 "deleteMade"}

\* What a step of o leaves of what o holds, and the step it comes from.
Route(o) ==
    /\ Running(o)
    /\ pc'[o] \in (Steps \cup Finished) \ (FirstLabels \cup {"idle"})
    /\ seen'[o].made = (seen[o].made \/ pc'[o] = "insertUser")
    /\ pc'[o] \notin {"deleteMade", "moveAccount", "deleteAccount"} =>
         seen'[o].id = seen[o].id
    /\ pc'[o] \notin {"findAccount", "findDoomed"} =>
         seen'[o].email = seen[o].email
    /\ pc'[o] \notin {"deleteUsers", "deleteListedGrants"} =>
         seen'[o].list = seen[o].list
    /\ pc'[o] = "checkEmail" =>
         pc[o] = "authorize" /\ HomeOf(call[o].caller) = call[o].company
    /\ pc'[o] = "findCompany" => pc[o] = "checkEmail"
    /\ pc'[o] = "createAccount" =>
         pc[o] = "findCompany" /\ companies[call[o].company] # None
    /\ pc'[o] = "insertUser" =>
         pc[o] = "createAccount" /\ account'[o] = call[o].email
    /\ pc'[o] = "findGroup" =>
         pc[o] = "insertUser" /\ users'[o] = call[o].email
    /\ pc'[o] = "insertGrant" => pc[o] = "findGroup"
    /\ pc'[o] = "findMade" => seen[o].made
    /\ pc'[o] = "deleteMade" =>
         /\ pc[o] = "findMade" /\ seen'[o].id \in UserIds
         /\ account[seen'[o].id] = call[o].email
    /\ pc'[o] = "failed" =>
         \/ ~seen[o].made \/ "crash" \in Faults
         \/ pc[o] = "findMade" /\ AccountAt(call[o].email) = {}
         \/ o \in logged'
         \/ pc[o] = "deleteMade" /\ account'[seen[o].id] = None
    /\ pc'[o] = "findAccount" =>
         /\ pc[o] = "loadForUpdate"
         /\ users[call[o].user] # None /\ seen'[o].email = users[call[o].user]
         /\ HomeOf(call[o].caller) = HomeOf(call[o].user)
    /\ pc'[o] = "moveAccount" =>
         /\ pc[o] = "findAccount" /\ seen'[o].id \in UserIds
         /\ account[seen'[o].id] = seen[o].email
    /\ pc'[o] = "updateCompany" =>
         pc[o] = "moveAccount" /\ account'[seen[o].id] = call[o].email
    /\ pc'[o] = "updateRow" =>
         \/ pc[o] = "moveAccount" /\ account'[seen[o].id] = call[o].email
         \/ pc[o] = "updateCompany"
    /\ pc'[o] = "findNewGroup" =>
         pc[o] = "loadForRole" /\ users[call[o].user] # None
    /\ pc'[o] = "upsertGrant" => pc[o] = "findNewGroup"
    /\ pc'[o] = "findDoomed" =>
         /\ pc[o] = "loadForDelete"
         /\ users[call[o].user] # None /\ seen'[o].email = users[call[o].user]
         /\ HomeOf(call[o].caller) = HomeOf(call[o].user)
    /\ pc'[o] = "deleteAccount" =>
         /\ pc[o] = "findDoomed" /\ seen'[o].id \in UserIds
         /\ account[seen'[o].id] = seen[o].email
    /\ pc'[o] = "deleteGrant" =>
         \/ pc[o] = "loadForDelete" /\ users[call[o].user] = None
         \/ pc[o] = "findDoomed" /\ AccountAt(seen[o].email) = {}
         \/ pc[o] = "deleteAccount" /\ account'[seen[o].id] = None
    /\ pc'[o] = "deleteRow" =>
         pc[o] = "deleteGrant" /\ grants'[call[o].user] = None
    /\ pc'[o] = "deleteGroup" => pc[o] = "loadGroup"
    /\ pc'[o] = "listUsers" => pc[o] = "loadCompany"
    /\ pc'[o] = "deleteUsers" =>
         pc[o] = "listUsers" /\ seen'[o].list = UsersOf(call[o].company)
    /\ pc'[o] = "deleteGroups" =>
         /\ pc[o] = "deleteUsers"
         /\ \A u \in UsersOf(call[o].company) : users'[u] = None
    /\ pc'[o] = "deleteBelongings" =>
         \/ pc[o] = "deleteBelongings"
         \/ /\ pc[o] = "deleteGroups"
            /\ \A g \in groups' : g[1] # call[o].company
    /\ pc'[o] = "deleteListedGrants" =>
         \/ pc[o] = "deleteListedGrants"
         \/ /\ pc[o] = "deleteBelongings" /\ belongings[call[o].company] = {}
            /\ seen'[o].list = seen[o].list
    /\ pc'[o] = "deleteCompany" =>
         pc[o] = "deleteListedGrants" /\ seen[o].list = {}
    /\ pc'[o] = "done" =>
         \/ pc[o] \in {"findGroup", "insertGrant", "findNewGroup", "upsertGrant",
                       "loadGroup", "deleteGroup"}
         \/ pc[o] = "updateRow" /\ users'[call[o].user] = call[o].email
         \/ pc[o] = "deleteRow" /\ users'[call[o].user] = None
         \/ pc[o] = "deleteCompany" /\ companies'[call[o].company] = None

\* What a step of o writes: one row, one account, or what a deletion lists.
Moves(o) ==
    /\ \/ users' = users
       \/ /\ pc[o] = "insertUser" /\ pc'[o] = "findGroup"
          /\ RowAt(call[o].email) = {}
          /\ users' = [users EXCEPT ![o] = call[o].email]
       \/ /\ pc[o] = "updateRow" /\ pc'[o] = "done"
          /\ users[call[o].user] # None
          /\ RowAt(call[o].email) \subseteq {call[o].user}
          /\ users' = [users EXCEPT ![call[o].user] = call[o].email]
       \/ /\ pc[o] = "deleteRow" /\ pc'[o] = "done"
          /\ users' = [users EXCEPT ![call[o].user] = None]
       \/ /\ pc[o] = "deleteUsers" /\ pc'[o] = "deleteGroups"
          /\ users' = [u \in UserIds |->
                         IF u \in UsersOf(call[o].company) THEN None ELSE users[u]]
    /\ \/ account' = account
       \/ /\ pc[o] = "createAccount" /\ pc'[o] = "insertUser"
          /\ AccountAt(call[o].email) = {}
          /\ account' = [account EXCEPT ![o] = call[o].email]
       \/ /\ pc[o] = "deleteMade" /\ pc'[o] = "failed"
          /\ account' = [account EXCEPT ![seen[o].id] = None]
       \/ /\ pc[o] = "moveAccount" /\ pc'[o] \in {"updateCompany", "updateRow"}
          /\ account[seen[o].id] # None
          /\ AccountAt(call[o].email) \subseteq {seen[o].id}
          /\ account' = [account EXCEPT ![seen[o].id] = call[o].email]
       \/ /\ pc[o] = "deleteAccount" /\ pc'[o] = "deleteGrant"
          /\ account' = [account EXCEPT ![seen[o].id] = None]
    /\ \/ grants' = grants
       \/ /\ pc[o] = "insertGrant" /\ pc'[o] = "done"
          /\ grants' = [grants EXCEPT ![o] = seen[o].group]
       \/ /\ pc[o] = "upsertGrant" /\ pc'[o] = "done"
          /\ grants' = [grants EXCEPT ![call[o].user] = seen[o].group]
       \/ /\ pc[o] = "deleteGrant" /\ pc'[o] = "deleteRow"
          /\ grants' = [grants EXCEPT ![call[o].user] = None]
       \/ /\ pc[o] = "deleteListedGrants" /\ pc'[o] = "deleteListedGrants"
          /\ \E u \in seen[o].list :
               /\ grants' = [grants EXCEPT ![u] = None]
               /\ seen'[o].list = seen[o].list \ {u}
    /\ pc[o] = "deleteListedGrants" /\ pc'[o] = "deleteListedGrants" =>
         \E u \in seen[o].list :
               /\ grants' = [grants EXCEPT ![u] = None]
               /\ seen'[o].list = seen[o].list \ {u}
    /\ \/ companies' = companies
       \/ /\ pc[o] = "updateCompany" /\ pc'[o] = "updateRow"
          /\ companies[HomeOf(call[o].caller)] # None
          /\ companies' = [companies EXCEPT
                             ![HomeOf(call[o].caller)] = call[o].email]
       \/ /\ pc[o] = "deleteCompany" /\ pc'[o] = "done"
          /\ companies' = [companies EXCEPT ![call[o].company] = None]
    /\ groups' \subseteq groups
    /\ \A c \in Companies : belongings'[c] \subseteq belongings[c]
    /\ logged' = logged \/ logged' = logged \cup {o}

\* A request is at a step of its own endpoint, and knows whether it has made
\* an account.
KindInv ==
    /\ TypeInv
    /\ \A o \in Ops :
         /\ pc[o] # "idle" => call[o] \in Calls
         /\ pc[o] \in BeforeAccount => ~seen[o].made
         /\ pc[o] \in AfterAccount => call[o] \in CreateCalls /\ seen[o].made
         /\ pc[o] \in GroupSteps => call[o] \in GroupCalls
         /\ pc[o] \in DeletionSteps => call[o] \in DeletionCalls
         /\ pc[o] \in {"deleteMade", "moveAccount", "deleteAccount"} =>
              seen[o].id \in UserIds

LEMMA ThrowMoves ==
    ASSUME TypeInv, NEW o \in Ops, Throw(o), Running(o)
    PROVE  Route(o) /\ Moves(o)
<1>1. /\ pc' = [pc EXCEPT ![o] = CatchPC(o)] /\ CatchPC(o) \in {"findMade", "failed"}
      /\ CatchPC(o) = "findMade" <=> seen[o].made
      /\ UNCHANGED <<tables, account, call, seen, logged>>
    BY DEF Throw, CatchPC, Proceed, Goto
<1>2. Route(o)
    BY <1>1 DEF Route, TypeInv, TypeOK, Seen, tables, Steps, Finished, FirstLabels
<1>3. Moves(o)
    BY <1>1 DEF Moves, tables, TypeInv, TypeOK
<1>4. QED BY <1>2, <1>3
LEMMA CheckMoves ==
    ASSUME TypeInv, NEW o \in Ops, NEW test, NEW label, Running(o),
           Check(o, test, label), label \notin FirstLabels,
           <<pc[o], label>> \in {<<"authorize", "checkEmail">>,
                                 <<"checkEmail", "findCompany">>,
                                 <<"findCompany", "createAccount">>,
                                 <<"loadForRole", "findNewGroup">>,
                                 <<"loadGroup", "deleteGroup">>,
                                 <<"loadCompany", "listUsers">>},
           label = "checkEmail" /\ test => HomeOf(call[o].caller) = call[o].company,
           label = "createAccount" /\ test => companies[call[o].company] # None,
           label = "findNewGroup" /\ test => users[call[o].user] # None
    PROVE  Route(o) /\ Moves(o)
<1>1. CASE Throw(o)
    BY <1>1, ThrowMoves
<1>2. CASE ~Throw(o)
    <2>1. /\ pc' = [pc EXCEPT ![o] = label] /\ test
          /\ UNCHANGED <<tables, account, call, seen, logged>>
        BY <1>2 DEF Check, Proceed, Goto
    <2>2. Route(o)
        BY <2>1 DEF Route, TypeInv, TypeOK, Seen, tables, Steps, Finished,
                    FirstLabels
    <2>3. Moves(o)
        BY <2>1 DEF Moves, tables, TypeInv, TypeOK
    <2>4. QED BY <2>2, <2>3
<1>3. QED BY <1>1, <1>2

LEMMA CreateMoves ==
    ASSUME KindInv, NEW o \in Ops, CreateCompanyUser(o)
    PROVE  Route(o) /\ Moves(o)
<1> USE DEF Steps, Finished, FirstLabels
<1>0. /\ Running(o) /\ pc[o] \in Steps
      /\ seen[o] \in Seen /\ TypeInv /\ o \in UserIds
    BY DEF CreateCompanyUser, Authorize, CheckEmail, FindCompany, CreateAccount,
           InsertUser, FindGroup, InsertGrant, FindMade, DeleteMade,
           CleanupFails, Running, KindInv, TypeInv, TypeOK, UserIds
<1>1. CASE Throw(o)
    BY <1>0, <1>1, ThrowMoves
<1>2. CASE Authorize(o)
    BY <1>0, <1>2, CheckMoves DEF Authorize, MayManage
<1>3. CASE CheckEmail(o)
    BY <1>0, <1>3, CheckMoves DEF CheckEmail
<1>4. CASE FindCompany(o)
    BY <1>0, <1>4, CheckMoves DEF FindCompany
<1>5. CASE ~Throw(o) /\ CreateAccount(o)
    <2>1. Route(o)
        <3>1. /\ pc[o] = "createAccount" /\ pc' = [pc EXCEPT ![o] = "insertUser"]
              /\ account' = [account EXCEPT ![o] = call[o].email]
              /\ seen'[o] = [seen[o] EXCEPT !.made = TRUE]
            BY <1>0, <1>5 DEF CreateAccount, Goto, TypeInv, TypeOK
        <3>2. /\ seen'[o].made /\ seen'[o].id = seen[o].id
              /\ seen'[o].email = seen[o].email /\ seen'[o].list = seen[o].list
            BY <1>0, <3>1 DEF Seen
        <3>3. account'[o] = call[o].email /\ pc'[o] = "insertUser"
            BY <1>0, <3>1 DEF TypeInv, TypeOK
        <3>4. QED BY <1>0, <3>1, <3>2, <3>3 DEF Route
    <2>2. Moves(o)
        BY <1>0, <1>5 DEF CreateAccount, Goto, tables, Moves, TypeInv, TypeOK
    <2>3. QED BY <2>1, <2>2
<1>6. CASE ~Throw(o) /\ InsertUser(o)
    <2>1. Route(o)
        BY <1>0, <1>6 DEF InsertUser, Goto, tables, Route, TypeInv, TypeOK, Seen
    <2>2. Moves(o)
        BY <1>0, <1>6 DEF InsertUser, Goto, tables, Moves, TypeInv, TypeOK
    <2>3. QED BY <2>1, <2>2
<1>7. CASE FindGroup(o)
    <2>1. Route(o)
        BY <1>0, <1>7 DEF FindGroup, Remember, Proceed, Goto, tables, Route,
                          TypeInv, TypeOK, Seen
    <2>2. Moves(o)
        BY <1>0, <1>7 DEF FindGroup, Remember, Proceed, Goto, tables, Moves,
                          TypeInv, TypeOK
    <2>3. QED BY <2>1, <2>2
<1>8. CASE ~Throw(o) /\ InsertGrant(o)
    <2>1. Route(o)
        BY <1>0, <1>8 DEF InsertGrant, SetGrant, Goto, tables, Route, TypeInv,
                          TypeOK, Seen
    <2>2. Moves(o)
        BY <1>0, <1>8 DEF InsertGrant, SetGrant, Goto, tables, Moves, TypeInv,
                          TypeOK
    <2>3. QED BY <2>1, <2>2
<1>9. CASE FindMade(o)
    <2>1. Route(o)
        BY <1>0, <1>9 DEF FindMade, Remember, Proceed, Goto, tables, Route,
                          AccountAt, TypeInv, TypeOK, Seen
    <2>2. Moves(o)
        BY <1>0, <1>9 DEF FindMade, Remember, Proceed, Goto, tables, Moves,
                          TypeInv, TypeOK
    <2>3. QED BY <2>1, <2>2
<1>10. CASE DeleteMade(o)
    <2>0. seen[o].id \in UserIds
        BY <1>10 DEF DeleteMade, KindInv
    <2>1. Route(o)
        BY <1>0, <2>0, <1>10 DEF DeleteMade, Goto, tables, Route, TypeInv, TypeOK, Seen
    <2>2. Moves(o)
        BY <1>0, <1>10 DEF DeleteMade, Goto, tables, Moves, TypeInv, TypeOK
    <2>3. QED BY <2>1, <2>2
<1>11. CASE CleanupFails(o)
    <2>1. Route(o)
        BY <1>0, <1>11 DEF CleanupFails, Goto, tables, Route, TypeInv, TypeOK, Seen
    <2>2. Moves(o)
        BY <1>0, <1>11 DEF CleanupFails, Goto, tables, Moves, TypeInv, TypeOK
    <2>3. QED BY <2>1, <2>2
<1>12. QED BY <1>1, <1>2, <1>3, <1>4, <1>5, <1>6, <1>7, <1>8, <1>9, <1>10, <1>11
              DEF CreateCompanyUser
LEMMA UpdateMoves ==
    ASSUME KindInv, NEW o \in Ops, UpdateCompanyUser(o)
    PROVE  Route(o) /\ Moves(o)
<1> USE DEF Steps, Finished, FirstLabels
<1>0. /\ Running(o) /\ pc[o] \in Steps
      /\ seen[o] \in Seen /\ TypeInv /\ o \in UserIds
      /\ pc[o] = "moveAccount" => seen[o].id \in UserIds
      /\ call[o].user \in UserIds
    BY DEF UpdateCompanyUser, LoadForUpdate, FindAccount, MoveAccount,
           UpdateCompany, UpdateRow, Running, KindInv, TypeInv, TypeOK, UserIds,
           CallInv, UpdateSteps, UpdateCalls
<1>1. CASE Throw(o)
    BY <1>0, <1>1, ThrowMoves
<1>2. CASE ~Throw(o) /\ LoadForUpdate(o)
    <2> DEFINE u == call[o].user
               b == (users[u] = companies[HomeOf(call[o].caller)])
    <2>1. /\ pc[o] = "loadForUpdate" /\ pc' = [pc EXCEPT ![o] = "findAccount"]
          /\ users[u] # None /\ HomeOf(u) = HomeOf(call[o].caller)
          /\ seen'[o] = [seen[o] EXCEPT !.email = users[u], !.owner = b]
          /\ UNCHANGED <<tables, account, call, logged>>
        BY <1>0, <1>2 DEF LoadForUpdate, Goto, TypeInv, TypeOK
    <2>2. /\ seen'[o].made = seen[o].made /\ seen[o].made \in BOOLEAN
          /\ seen'[o].id = seen[o].id
          /\ seen'[o].email = users[u] /\ seen'[o].list = seen[o].list
        <3> HIDE DEF u, b
        <3> QED BY <1>0, <2>1 DEF Seen
    <2>3. pc'[o] = "findAccount"
        BY <1>0, <2>1 DEF TypeInv, TypeOK
    <2>4. Route(o)
        BY <1>0, <2>1, <2>2, <2>3 DEF Route
    <2>5. Moves(o)
        BY <2>1, <2>3 DEF Moves, tables
    <2>6. QED BY <2>4, <2>5
<1>3. CASE ~Throw(o) /\ FindAccount(o)
    <2>1. Route(o)
        BY <1>0, <1>3 DEF FindAccount, Remember, Goto, tables, Route, AccountAt,
                          TypeInv, TypeOK, Seen
    <2>2. Moves(o)
        BY <1>0, <1>3 DEF FindAccount, Remember, Goto, tables, Moves, TypeInv,
                          TypeOK
    <2>3. QED BY <2>1, <2>2
<1>4. CASE ~Throw(o) /\ MoveAccount(o)
    <2>1. Route(o)
        BY <1>0, <1>4 DEF MoveAccount, Goto, tables, Route, TypeInv, TypeOK, Seen
    <2>2. Moves(o)
        BY <1>0, <1>4 DEF MoveAccount, Goto, tables, Moves, TypeInv, TypeOK
    <2>3. QED BY <2>1, <2>2
<1>5. CASE ~Throw(o) /\ UpdateCompany(o)
    <2>1. Route(o)
        BY <1>0, <1>5 DEF UpdateCompany, Goto, tables, Route, TypeInv, TypeOK, Seen
    <2>2. Moves(o)
        BY <1>0, <1>5 DEF UpdateCompany, Goto, tables, Moves, TypeInv, TypeOK
    <2>3. QED BY <2>1, <2>2
<1>6. CASE ~Throw(o) /\ UpdateRow(o)
    <2>1. Route(o)
        BY <1>0, <1>6 DEF UpdateRow, Goto, tables, Route, TypeInv, TypeOK, Seen
    <2>2. Moves(o)
        BY <1>0, <1>6 DEF UpdateRow, Goto, tables, Moves, TypeInv, TypeOK
    <2>3. QED BY <2>1, <2>2
<1>7. QED BY <1>1, <1>2, <1>3, <1>4, <1>5, <1>6 DEF UpdateCompanyUser

LEMMA RoleMoves ==
    ASSUME KindInv, NEW o \in Ops, UpdateUserAccessGroup(o)
    PROVE  Route(o) /\ Moves(o)
<1> USE DEF Steps, Finished, FirstLabels
<1>0. /\ Running(o) /\ pc[o] \in Steps /\ seen[o] \in Seen /\ TypeInv
    BY DEF UpdateUserAccessGroup, LoadForRole, FindNewGroup, UpsertGrant,
           Running, KindInv, TypeInv, TypeOK
<1>1. CASE LoadForRole(o)
    BY <1>0, <1>1, CheckMoves DEF LoadForRole
<1>2. CASE FindNewGroup(o)
    <2>1. Route(o)
        BY <1>0, <1>2 DEF FindNewGroup, Remember, Proceed, Goto, tables, Route,
                          TypeInv, TypeOK, Seen
    <2>2. Moves(o)
        BY <1>0, <1>2 DEF FindNewGroup, Remember, Proceed, Goto, tables, Moves,
                          TypeInv, TypeOK
    <2>3. QED BY <2>1, <2>2
<1>3. CASE UpsertGrant(o)
    <2>1. Route(o)
        BY <1>0, <1>3 DEF UpsertGrant, SetGrant, Goto, tables, Route, TypeInv,
                          TypeOK, Seen
    <2>2. Moves(o)
        BY <1>0, <1>3 DEF UpsertGrant, SetGrant, Goto, tables, Moves, TypeInv,
                          TypeOK
    <2>3. QED BY <2>1, <2>2
<1>4. QED BY <1>1, <1>2, <1>3 DEF UpdateUserAccessGroup

LEMMA DeleteMoves ==
    ASSUME KindInv, NEW o \in Ops, DeleteCompanyUser(o)
    PROVE  Route(o) /\ Moves(o)
<1> USE DEF Steps, Finished, FirstLabels
<1>0. /\ Running(o) /\ pc[o] \in Steps
      /\ seen[o] \in Seen /\ TypeInv
      /\ pc[o] = "deleteAccount" => seen[o].id \in UserIds
      /\ call[o].user \in UserIds
    BY DEF DeleteCompanyUser, LoadForDelete, FindDoomed, DeleteAccount,
           DeleteGrant, DeleteRow, Running, KindInv, TypeInv, TypeOK, CallInv,
           DeleteSteps, DeleteCalls
<1>1. CASE Throw(o)
    BY <1>0, <1>1, ThrowMoves
<1>2. CASE ~Throw(o) /\ LoadForDelete(o)
    <2>1. Route(o)
        BY <1>0, <1>2 DEF LoadForDelete, MayManageUser, MayManage, Remember,
                          Proceed, Goto, tables, Route, TypeInv, TypeOK, Seen
    <2>2. Moves(o)
        BY <1>0, <1>2 DEF LoadForDelete, Remember, Proceed, Goto, tables, Moves,
                          TypeInv, TypeOK
    <2>3. QED BY <2>1, <2>2
<1>3. CASE FindDoomed(o)
    <2>1. Route(o)
        BY <1>0, <1>3 DEF FindDoomed, Remember, Proceed, Goto, tables, Route,
                          AccountAt, TypeInv, TypeOK, Seen
    <2>2. Moves(o)
        BY <1>0, <1>3 DEF FindDoomed, Remember, Proceed, Goto, tables, Moves,
                          TypeInv, TypeOK
    <2>3. QED BY <2>1, <2>2
<1>4. CASE ~Throw(o) /\ DeleteAccount(o)
    <2>1. Route(o)
        BY <1>0, <1>4 DEF DeleteAccount, Goto, tables, Route, TypeInv, TypeOK, Seen
    <2>2. Moves(o)
        BY <1>0, <1>4 DEF DeleteAccount, Goto, tables, Moves, TypeInv, TypeOK
    <2>3. QED BY <2>1, <2>2
<1>5. CASE DeleteGrant(o)
    <2>1. Route(o)
        BY <1>0, <1>5 DEF DeleteGrant, SetGrant, Goto, tables, Route, TypeInv,
                          TypeOK, Seen
    <2>2. Moves(o)
        BY <1>0, <1>5 DEF DeleteGrant, SetGrant, Goto, tables, Moves, TypeInv,
                          TypeOK
    <2>3. QED BY <2>1, <2>2
<1>6. CASE DeleteRow(o)
    <2>1. Route(o)
        BY <1>0, <1>6 DEF DeleteRow, Goto, tables, Route, TypeInv, TypeOK, Seen
    <2>2. Moves(o)
        BY <1>0, <1>6 DEF DeleteRow, Goto, tables, Moves, TypeInv, TypeOK
    <2>3. QED BY <2>1, <2>2
<1>7. QED BY <1>1, <1>2, <1>3, <1>4, <1>5, <1>6 DEF DeleteCompanyUser

\* A deletion leaves a table alone only when it is empty.
LEMMA AllDeleted ==
    ASSUME TypeInv, NEW o \in Ops, DeleteBelongings(o),
           Proceed(o, "deleteListedGrants"),
           call[o].company \in Companies
    PROVE  belongings[call[o].company] = {}
<1> DEFINE c == call[o].company
<1>2. {i \in DOMAIN TableOrder : TableOrder[i] \in belongings[c]} = {}
    BY DEF DeleteBelongings, Proceed, Goto, TypeInv, TypeOK
<1>3. \A t \in OtherTables : \E i \in DOMAIN TableOrder : TableOrder[i] = t
    BY DEF OtherTables, TableOrder
<1>4. belongings[c] \subseteq OtherTables
    BY DEF TypeInv, TypeOK
<1>5. QED BY <1>2, <1>3, <1>4

LEMMA CompanyMoves ==
    ASSUME KindInv, NEW o \in Ops, DeleteAccessgroup(o) \/ DeleteCompany(o)
    PROVE  Route(o) /\ Moves(o)
<1> USE DEF Steps, Finished, FirstLabels
<1>0. /\ Running(o) /\ pc[o] \in Steps /\ seen[o] \in Seen /\ TypeInv
    BY DEF DeleteAccessgroup, DeleteCompany, LoadGroup, DeleteGroup, LoadCompany,
           ListUsers, DeleteUsers, DeleteGroups, DeleteBelongings,
           DeleteListedGrants, DeleteCompanyRow, Running, KindInv, TypeInv, TypeOK
<1>1. CASE LoadGroup(o)
    <2>1. CASE Proceed(o, "done")
        <3>1. Route(o)
            BY <1>0, <1>1, <2>1 DEF LoadGroup, Proceed, Goto, tables, Route,
                                    TypeInv, TypeOK, Seen
        <3>2. Moves(o)
            BY <1>0, <1>1, <2>1 DEF LoadGroup, Proceed, Goto, tables, Moves,
                                    TypeInv, TypeOK
        <3>3. QED BY <3>1, <3>2
    <2>2. CASE ~Proceed(o, "done")
        BY <1>0, <1>1, <2>2, CheckMoves DEF LoadGroup
    <2>3. QED BY <2>1, <2>2
<1>2. CASE DeleteGroup(o)
    <2>1. Route(o)
        BY <1>0, <1>2 DEF DeleteGroup, Goto, tables, Route, TypeInv, TypeOK, Seen
    <2>2. Moves(o)
        BY <1>0, <1>2 DEF DeleteGroup, Goto, tables, Moves, TypeInv, TypeOK
    <2>3. QED BY <2>1, <2>2
<1>3. CASE LoadCompany(o)
    BY <1>0, <1>3, CheckMoves DEF LoadCompany
<1>4. CASE ListUsers(o)
    <2> DEFINE l == UsersOf(call[o].company)
    <2>1. /\ pc[o] = "listUsers" /\ pc' = [pc EXCEPT ![o] = "deleteUsers"]
          /\ seen'[o] = [seen[o] EXCEPT !["list"] = l]
          /\ UNCHANGED <<tables, account, call, logged>>
        BY <1>0, <1>4 DEF ListUsers, Remember, Goto, TypeInv, TypeOK
    <2>2. /\ seen'[o].made = seen[o].made /\ seen[o].made \in BOOLEAN
          /\ seen'[o].id = seen[o].id
          /\ seen'[o].email = seen[o].email /\ seen'[o].list = l
        <3> HIDE DEF l
        <3> QED BY <1>0, <2>1 DEF Seen
    <2>3. pc'[o] = "deleteUsers"
        BY <1>0, <2>1 DEF TypeInv, TypeOK
    <2>4. Route(o)
        BY <1>0, <2>1, <2>2, <2>3 DEF Route
    <2>5. Moves(o)
        BY <2>1, <2>3 DEF Moves, tables
    <2>6. QED BY <2>4, <2>5
<1>5. CASE DeleteUsers(o)
    <2>1. Route(o)
        BY <1>0, <1>5 DEF DeleteUsers, UsersOf, Goto, tables, Route, TypeInv, TypeOK, Seen
    <2>2. Moves(o)
        BY <1>0, <1>5 DEF DeleteUsers, Goto, tables, Moves, TypeInv, TypeOK
    <2>3. QED BY <2>1, <2>2
<1>6. CASE DeleteGroups(o)
    <2>1. Route(o)
        BY <1>0, <1>6 DEF DeleteGroups, Goto, tables, Route, TypeInv, TypeOK, Seen
    <2>2. Moves(o)
        BY <1>0, <1>6 DEF DeleteGroups, Goto, tables, Moves, TypeInv, TypeOK
    <2>3. QED BY <2>1, <2>2
<1>7. CASE DeleteBelongings(o)
    <2>0. call[o].company \in Companies
        BY <1>7 DEF DeleteBelongings, KindInv, DeletionSteps, DeletionCalls
    <2>1. CASE Proceed(o, "deleteListedGrants")
        <3>1. belongings[call[o].company] = {}
            BY <1>0, <1>7, <2>0, <2>1, AllDeleted
        <3>2. Route(o)
            BY <1>0, <1>7, <2>1, <3>1 DEF DeleteBelongings, Proceed, Goto, tables,
                                    Route, TypeInv, TypeOK, Seen
        <3>3. Moves(o)
            BY <1>0, <1>7, <2>1 DEF DeleteBelongings, Proceed, Goto, tables,
                                    Moves, TypeInv, TypeOK
        <3>4. QED BY <3>2, <3>3
    <2>2. CASE ~Proceed(o, "deleteListedGrants")
        <3>1. PICK t : /\ pc[o] = "deleteBelongings"
                       /\ belongings' =
                            [belongings EXCEPT ![call[o].company] = @ \ {t}]
                       /\ UNCHANGED <<companies, users, groups, grants, account,
                                      pc, call, seen, logged>>
            BY <1>7, <2>2 DEF DeleteBelongings
        <3>2. Route(o)
            BY <1>0, <3>1 DEF Route, TypeInv, TypeOK, Seen
        <3>3. Moves(o)
            BY <1>0, <3>1 DEF Moves, TypeInv, TypeOK
        <3>4. QED BY <3>2, <3>3
    <2>3. QED BY <2>1, <2>2
<1>8. CASE DeleteListedGrants(o)
    <2>1. CASE Proceed(o, "deleteCompany")
        <3>1. seen[o].list = {}
            BY <1>0, <1>8, <2>1 DEF DeleteListedGrants, Proceed, Goto, TypeInv,
                                    TypeOK
        <3>2. Route(o)
            BY <1>0, <1>8, <2>1, <3>1 DEF DeleteListedGrants, Proceed, Goto, tables,
                                    Route, TypeInv, TypeOK, Seen
        <3>3. Moves(o)
            BY <1>0, <1>8, <2>1 DEF DeleteListedGrants, Proceed, Goto, tables,
                                    Moves, TypeInv, TypeOK
        <3>4. QED BY <3>2, <3>3
    <2>2. CASE ~Proceed(o, "deleteCompany")
        <3>1. PICK u \in seen[o].list :
                /\ pc[o] = "deleteListedGrants"
                /\ grants' = [grants EXCEPT ![u] = None]
                /\ seen'[o] = [seen[o] EXCEPT !.list = @ \ {u}]
                /\ UNCHANGED <<companies, users, groups, belongings, account, pc,
                               call, logged>>
            BY <1>0, <1>8, <2>2 DEF DeleteListedGrants, TypeInv, TypeOK
        <3>2. /\ seen'[o].made = seen[o].made /\ seen[o].made \in BOOLEAN
              /\ seen'[o].id = seen[o].id
              /\ seen'[o].email = seen[o].email
              /\ seen'[o].list = seen[o].list \ {u}
            BY <1>0, <3>1 DEF Seen
        <3>3. Route(o)
            BY <1>0, <3>1, <3>2 DEF Route
        <3>4. Moves(o)
            BY <3>1, <3>2 DEF Moves
        <3>5. QED BY <3>3, <3>4
    <2>3. QED BY <2>1, <2>2
<1>9. CASE DeleteCompanyRow(o)
    <2>0. call[o].company \in Companies
        BY <1>9 DEF DeleteCompanyRow, KindInv, DeletionSteps, DeletionCalls
    <2>1. Route(o)
        BY <1>0, <1>9, <2>0 DEF DeleteCompanyRow, Goto, tables, Route, TypeInv, TypeOK,
                          Seen
    <2>2. Moves(o)
        BY <1>0, <1>9 DEF DeleteCompanyRow, Goto, tables, Moves, TypeInv, TypeOK
    <2>3. QED BY <2>1, <2>2
<1>10. QED BY <1>1, <1>2, <1>3, <1>4, <1>5, <1>6, <1>7, <1>8, <1>9
             DEF DeleteAccessgroup, DeleteCompany

LEMMA StepMoves ==
    ASSUME KindInv, NEW o \in Ops, Step(o) \/ Crash(o)
    PROVE  Route(o) /\ Moves(o)
<1>0. TypeInv
    BY DEF KindInv
<1>1. CASE StatementFails(o) \/ RemoteFails(o)
    <2>1. Throw(o) /\ Running(o)
        BY <1>1 DEF StatementFails, RemoteFails, Writes, RemoteCalls, Running,
                    Finished
    <2>2. QED BY <1>0, <2>1, ThrowMoves
<1>2. CASE Crash(o)
    <2>1. Route(o)
        BY <1>0, <1>2 DEF Crash, Proceed, Goto, tables, Route, TypeInv, TypeOK, Seen,
                    Steps, Finished, FirstLabels
    <2>2. Moves(o)
        BY <1>0, <1>2 DEF Crash, Proceed, Goto, tables, Moves, TypeInv, TypeOK
    <2>3. QED BY <2>1, <2>2
<1>3. QED BY <1>1, <1>2, CreateMoves, UpdateMoves, RoleMoves, DeleteMoves,
             CompanyMoves DEF Step


\* The types after a step, and the request that stepped alone.
LEMMA StepTypes ==
    ASSUME KindInv, NEW o \in Ops, Step(o) \/ Crash(o)
    PROVE  /\ TypeInv /\ TypeInv' /\ call' = call /\ Route(o) /\ Moves(o)
           /\ \A p \in Ops \ {o} : pc'[p] = pc[p] /\ seen'[p] = seen[p]
           /\ \A p \in Ops : pc[p] # "idle" => pc'[p] # "idle"
<1>1. TypeInv
    BY DEF KindInv
<1>2. Frame(o)
    BY <1>1, StepFrame
<1>3. TypeInv'
    BY <1>1, TypeStep DEF Next
<1>4. QED BY <1>1, <1>2, <1>3, StepMoves DEF Frame

\* What a request that starts changes.
LEMMA StartMoves ==
    ASSUME TypeInv, NEW o \in Ops, Start(o)
    PROVE  \E c \in Calls :
             /\ call' = [call EXCEPT ![o] = c] /\ call'[o] = c
             /\ pc' = [pc EXCEPT ![o] = FirstStep(c.kind)]
             /\ pc'[o] = FirstStep(c.kind)
             /\ pc[o] = "idle" /\ MayHoldToken(c.caller)
             /\ c.kind \in {"updateUser", "updateRole", "deleteUser"} =>
                  HandedOut(c.user)
             /\ ~Overlap => \A p \in Ops :
                  Running(p) => Concerns(o, c) \cap Concerns(p, call[p]) = {}
             /\ UNCHANGED <<tables, account, seen, logged>>
             /\ \A p \in Ops \ {o} : pc'[p] = pc[p] /\ call'[p] = call[p]
BY DEF Start, Goto, TypeInv, TypeOK

\* What the kind of a call says of the call.
LEMMA CallKinds ==
    ASSUME NEW c \in Calls
    PROVE  /\ c.caller \in UserIds
           /\ \/ c \in CreateCalls /\ c.kind = "createUser"
              \/ c \in UpdateCalls /\ c.kind = "updateUser"
              \/ c \in RoleCalls /\ c.kind = "updateRole"
              \/ c \in DeleteCalls /\ c.kind = "deleteUser"
              \/ c \in GroupCalls /\ c.kind = "deleteGroup"
              \/ c \in DeletionCalls /\ c.kind = "deleteCompany"
BY DEF Calls, CreateCalls, UpdateCalls, RoleCalls, DeleteCalls, CompanyCalls,
       GroupCalls, DeletionCalls

LEMMA FirstStepKinds ==
    ASSUME NEW c \in Calls
    PROVE  /\ FirstStep(c.kind) \in FirstLabels
           /\ FirstStep(c.kind) = "authorize" <=> c.kind = "createUser"
           /\ FirstStep(c.kind) = "loadForUpdate" <=> c.kind = "updateUser"
           /\ FirstStep(c.kind) = "loadForRole" <=> c.kind = "updateRole"
           /\ FirstStep(c.kind) = "loadForDelete" <=> c.kind = "deleteUser"
           /\ FirstStep(c.kind) = "loadGroup" <=> c.kind = "deleteGroup"
           /\ FirstStep(c.kind) = "loadCompany" <=> c.kind = "deleteCompany"
BY CallKinds DEF FirstStep, FirstLabels

LEMMA KindInit == Init => KindInv
<1> SUFFICES ASSUME Init PROVE KindInv
    OBVIOUS
<1>1. QED BY TypeInit DEF Init, KindInv, BeforeAccount, AfterAccount, GroupSteps,
                          DeletionSteps

LEMMA KindStart == ASSUME KindInv, NEW o \in Ops, Start(o) PROVE KindInv'
<1>0. TypeInv /\ TypeInv'
    BY TypeStart DEF KindInv
<1>1. PICK c \in Calls : /\ call'[o] = c /\ pc'[o] = FirstStep(c.kind)
                         /\ pc[o] = "idle" /\ seen' = seen
                         /\ \A p \in Ops \ {o} : pc'[p] = pc[p] /\ call'[p] = call[p]
    BY <1>0, StartMoves
<1>2. ASSUME NEW p \in Ops
      PROVE  /\ pc'[p] # "idle" => call'[p] \in Calls
             /\ pc'[p] \in BeforeAccount => ~seen'[p].made
             /\ pc'[p] \in AfterAccount => call'[p] \in CreateCalls /\ seen'[p].made
             /\ pc'[p] \in GroupSteps => call'[p] \in GroupCalls
             /\ pc'[p] \in DeletionSteps => call'[p] \in DeletionCalls
             /\ pc'[p] \in {"deleteMade", "moveAccount", "deleteAccount"} =>
                  seen'[p].id \in UserIds
    <2>1. CASE p = o
        <3>1. ~seen[o].made
            BY <1>0, <1>1 DEF TypeInv, CallInv
        <3>2. QED BY <1>1, <2>1, <3>1, CallKinds, FirstStepKinds
                  DEF FirstLabels, AfterAccount, GroupSteps, DeletionSteps
    <2>2. CASE p # o
        BY <1>1, <2>2 DEF KindInv
    <2>3. QED BY <2>1, <2>2
<1>3. QED BY <1>0, <1>2 DEF KindInv

LEMMA KindStep ==
    ASSUME KindInv, NEW o \in Ops, Step(o) \/ Crash(o) PROVE KindInv'
<1>0. /\ TypeInv' /\ call' = call /\ Route(o) /\ TypeInv
      /\ \A p \in Ops \ {o} : pc'[p] = pc[p] /\ seen'[p] = seen[p]
    BY StepTypes
<1>1. pc[o] # "idle"
    BY <1>0 DEF Route, Running, Finished
<1>2. ASSUME NEW p \in Ops
      PROVE  /\ pc'[p] # "idle" => call'[p] \in Calls
             /\ pc'[p] \in BeforeAccount => ~seen'[p].made
             /\ pc'[p] \in AfterAccount => call'[p] \in CreateCalls /\ seen'[p].made
             /\ pc'[p] \in GroupSteps => call'[p] \in GroupCalls
             /\ pc'[p] \in DeletionSteps => call'[p] \in DeletionCalls
             /\ pc'[p] \in {"deleteMade", "moveAccount", "deleteAccount"} =>
                  seen'[p].id \in UserIds
    <2>1. CASE p = o
        <3>1. call'[o] \in Calls
            BY <1>0, <1>1 DEF KindInv
        <3>2. pc'[o] \in BeforeAccount => pc[o] \in BeforeAccount /\ pc'[o] # "insertUser"
            BY <1>0 DEF Route, BeforeAccount, FirstLabels
        <3>3. pc'[o] \in AfterAccount => call'[o] \in CreateCalls /\ seen'[o].made
            BY <1>0 DEF Route, AfterAccount, KindInv, TypeInv, CallInv, CreateSteps
        <3>4. pc'[o] \in GroupSteps => pc[o] \in GroupSteps
            BY <1>0 DEF Route, GroupSteps, FirstLabels
        <3>5. pc'[o] \in DeletionSteps => pc[o] \in DeletionSteps
            BY <1>0 DEF Route, DeletionSteps, FirstLabels
        <3>6. pc'[o] \in {"deleteMade", "moveAccount", "deleteAccount"} =>
                  seen'[o].id \in UserIds
            BY <1>0 DEF Route
        <3>7. seen'[o].made = (seen[o].made \/ pc'[o] = "insertUser")
            BY <1>0 DEF Route
        <3>8. QED BY <1>0, <2>1, <3>1, <3>2, <3>3, <3>4, <3>5, <3>6, <3>7
                  DEF KindInv
    <2>2. CASE p # o
        BY <1>0, <2>2 DEF KindInv
    <2>3. QED BY <2>1, <2>2
<1>3. QED BY <1>0, <1>2 DEF KindInv

\* What is known of a request's call at each of its steps.
LEMMA StepCalls ==
    ASSUME KindInv, NEW o \in Ops
    PROVE  /\ pc[o] \in CreateSteps \cup {"deleteMade"} =>
                /\ call[o] \in CreateCalls /\ call[o].kind = "createUser"
                /\ call[o].email \in Emails /\ call[o].company \in Companies
                /\ call[o].caller \in UserIds /\ Subject(o) = o
           /\ pc[o] \in UpdateSteps =>
                /\ call[o] \in UpdateCalls /\ call[o].kind = "updateUser"
                /\ call[o].email \in Emails /\ call[o].user \in UserIds
                /\ call[o].caller \in UserIds /\ Subject(o) = call[o].user
           /\ pc[o] \in RoleSteps =>
                /\ call[o] \in RoleCalls /\ call[o].kind = "updateRole"
                /\ call[o].user \in UserIds /\ call[o].caller \in UserIds
           /\ pc[o] \in DeleteSteps =>
                /\ call[o] \in DeleteCalls /\ call[o].kind = "deleteUser"
                /\ call[o].user \in UserIds /\ call[o].caller \in UserIds
                /\ Subject(o) = call[o].user
           /\ pc[o] \in GroupSteps =>
                call[o] \in GroupCalls /\ call[o].kind = "deleteGroup"
           /\ pc[o] \in DeletionSteps =>
                /\ call[o] \in DeletionCalls /\ call[o].kind = "deleteCompany"
                /\ call[o].company \in Companies
<1>1. /\ pc[o] \in CreateSteps \cup {"deleteMade"} => call[o] \in CreateCalls
      /\ pc[o] \in UpdateSteps => call[o] \in UpdateCalls
      /\ pc[o] \in RoleSteps => call[o] \in RoleCalls
      /\ pc[o] \in DeleteSteps => call[o] \in DeleteCalls
      /\ pc[o] \in GroupSteps => call[o] \in GroupCalls
      /\ pc[o] \in DeletionSteps => call[o] \in DeletionCalls
    BY DEF KindInv, TypeInv, CallInv, AfterAccount
<1>2. QED BY <1>1 DEF CreateCalls, UpdateCalls, RoleCalls, DeleteCalls, GroupCalls,
                      DeletionCalls, Subject


\* Whoever was made stays made, with the same home.
LEMMA StampsStay ==
    ASSUME KindInv, NEW o \in Ops, Start(o) \/ Step(o) \/ Crash(o)
    PROVE  \A u \in UserIds :
             Stamped(u) => Stamped(u)' /\ HomeOf(u)' = HomeOf(u)
<1>1. TypeInv
    BY DEF KindInv
<1>2. ASSUME NEW p \in Ops, pc[p] # "idle"
      PROVE  pc'[p] # "idle" /\ call'[p] = call[p]
    <2>1. CASE Start(o)
        BY <1>1, <1>2, <2>1, StartMoves
    <2>2. CASE Step(o) \/ Crash(o)
        BY <1>2, <2>2, StepTypes
    <2>3. QED BY <2>1, <2>2
<1>3. ASSUME NEW u \in UserIds, Stamped(u)
      PROVE  Stamped(u)' /\ HomeOf(u)' = HomeOf(u)
    BY <1>2, <1>3, HomesStay DEF Stamped
<1>4. QED BY <1>3

-----------------------------------------------------------------------------
(* Keys.  An address is in one row and on one account at a time, whatever  *)
(* overlaps, and nothing is kept for a user that was never made.           *)

KeysInv ==
    /\ KindInv
    /\ \A u, v \in UserIds : users[u] # None /\ users[u] = users[v] => u = v
    /\ \A u, v \in UserIds : account[u] # None /\ account[u] = account[v] => u = v
    /\ \A u \in UserIds : users[u] # None \/ account[u] # None => Stamped(u)
    /\ \A p \in Ops : users[p] # None \/ account[p] # None => seen[p].made
    /\ \A p \in Ops : pc[p] = "insertUser" => users[p] = None

LEMMA KeysInit == Init => KeysInv
<1> SUFFICES ASSUME Init PROVE KeysInv
    OBVIOUS
<1>1. \A u \in Ops : u \in UserIds /\ u \notin Admins
    BY AccountsAssumption DEF UserIds
<1>2. \A u, v \in UserIds : users[u] # None /\ users[u] = users[v] => u = v
    BY AccountsAssumption DEF Init
<1>3. QED BY <1>1, <1>2, KindInit DEF KeysInv, Init, Stamped

LEMMA KeysStart == ASSUME KeysInv, NEW o \in Ops, Start(o) PROVE KeysInv'
<1>1. KindInv /\ KindInv'
    BY KindStart DEF KeysInv
<1>2. PICK c \in Calls : /\ pc'[o] = FirstStep(c.kind)
                         /\ UNCHANGED <<tables, account, seen, logged>>
                         /\ \A p \in Ops \ {o} : pc'[p] = pc[p]
    BY <1>1, StartMoves DEF KindInv
<1>3. pc'[o] # "insertUser"
    BY <1>2, FirstStepKinds DEF FirstLabels
<1>4. UNCHANGED <<users, account, seen>>
    BY <1>2 DEF tables
<1>5. \A u \in UserIds : users'[u] # None \/ account'[u] # None => Stamped(u)'
    BY <1>1, <1>4, StampsStay DEF KeysInv
<1>6. \A p \in Ops : pc'[p] = "insertUser" => users'[p] = None
    BY <1>2, <1>3, <1>4 DEF KeysInv
<1>7. QED BY <1>1, <1>4, <1>5, <1>6 DEF KeysInv

LEMMA KeysStep ==
    ASSUME KeysInv, NEW o \in Ops, Step(o) \/ Crash(o) PROVE KeysInv'
<1>0. /\ KindInv /\ KindInv' /\ TypeInv /\ TypeInv' /\ Route(o) /\ Moves(o)
      /\ \A p \in Ops \ {o} : pc'[p] = pc[p] /\ seen'[p] = seen[p]
      /\ o \in UserIds
    BY KindStep, StepTypes DEF KeysInv, UserIds
<1> DEFINE u0 == call[o].user
           e0 == call[o].email
<1>1. /\ pc[o] \in {"insertUser", "createAccount"} => e0 \in Emails /\ Stamped(o)
      /\ pc[o] \in {"updateRow", "moveAccount"} => e0 \in Emails /\ u0 \in UserIds
      /\ pc[o] = "deleteRow" => u0 \in UserIds
    BY <1>0, StepCalls, AccountsAssumption
       DEF CreateSteps, UpdateSteps, DeleteSteps, Stamped
<1>2. \A u, v \in UserIds : users'[u] # None /\ users'[u] = users'[v] => u = v
    <2>1. CASE users' = users
        BY <2>1 DEF KeysInv
    <2>2. CASE /\ pc[o] = "insertUser" /\ RowAt(e0) = {}
               /\ users' = [users EXCEPT ![o] = e0]
        BY <1>0, <1>1, <2>2 DEF KeysInv, RowAt, TypeInv, TypeOK
    <2>3. CASE /\ pc[o] = "updateRow" /\ RowAt(e0) \subseteq {u0}
               /\ users' = [users EXCEPT ![u0] = e0]
        BY <1>0, <1>1, <2>3 DEF KeysInv, RowAt, TypeInv, TypeOK
    <2>4. CASE pc[o] = "deleteRow" /\ users' = [users EXCEPT ![u0] = None]
        BY <1>0, <1>1, <2>4 DEF KeysInv, TypeInv, TypeOK
    <2>5. CASE users' = [u \in UserIds |->
                         IF u \in UsersOf(call[o].company) THEN None ELSE users[u]]
        BY <2>5 DEF KeysInv
    <2>6. QED BY <1>0, <2>1, <2>2, <2>3, <2>4, <2>5 DEF Moves
<1>3. \A u, v \in UserIds : account'[u] # None /\ account'[u] = account'[v] => u = v
    <2>1. CASE account' = account
        BY <2>1 DEF KeysInv
    <2>2. CASE /\ pc[o] = "createAccount" /\ AccountAt(e0) = {}
               /\ account' = [account EXCEPT ![o] = e0]
        BY <1>0, <1>1, <2>2 DEF KeysInv, AccountAt, TypeInv, TypeOK
    <2>3. CASE /\ pc[o] = "moveAccount" /\ AccountAt(e0) \subseteq {seen[o].id}
               /\ account' = [account EXCEPT ![seen[o].id] = e0]
        BY <1>0, <1>1, <2>3 DEF KeysInv, AccountAt, TypeInv, TypeOK
    <2>4. CASE account' = [account EXCEPT ![seen[o].id] = None]
        BY <1>0, <2>4 DEF KeysInv, TypeInv, TypeOK
    <2>5. QED BY <1>0, <2>1, <2>2, <2>3, <2>4 DEF Moves
<1>4. ASSUME NEW u \in UserIds, users'[u] # None, users[u] = None
      PROVE  u = o /\ pc[o] = "insertUser" /\ pc'[o] = "findGroup"
    BY <1>0, <1>1, <1>4 DEF Moves, TypeInv, TypeOK
<1>5. ASSUME NEW u \in UserIds, account'[u] # None, account[u] = None
      PROVE  u = o /\ pc[o] = "createAccount" /\ pc'[o] = "insertUser"
    BY <1>0, <1>1, <1>5 DEF Moves, TypeInv, TypeOK
<1>6. ASSUME NEW u \in UserIds, users'[u] # None \/ account'[u] # None
      PROVE  Stamped(u)'
    <2>1. Stamped(u)
        BY <1>1, <1>4, <1>5, <1>6 DEF KeysInv
    <2>2. QED BY <1>0, <2>1, StampsStay
<1>7. ASSUME NEW p \in Ops, users'[p] # None \/ account'[p] # None
      PROVE  seen'[p].made
    <2>1. p \in UserIds
        BY DEF UserIds
    <2>2. seen[p].made => seen'[p].made
        BY <1>0 DEF Route
    <2>3. pc[p] = "insertUser" => seen[p].made
        BY <1>0 DEF KindInv, AfterAccount
    <2>4. pc'[p] = "insertUser" => seen'[p].made
        BY <1>0 DEF KindInv, AfterAccount
    <2>5. QED BY <1>4, <1>5, <1>7, <2>1, <2>2, <2>3, <2>4 DEF KeysInv
<1>8. ASSUME NEW p \in Ops, pc'[p] = "insertUser"
      PROVE  users'[p] = None
    <2>1. p \in UserIds
        BY DEF UserIds
    <2>2. users[p] = None
        <3>1. CASE p = o
            <4>1. pc[o] = "createAccount"
                BY <1>0, <1>8, <3>1 DEF Route
            <4>2. ~seen[o].made
                BY <1>0, <4>1 DEF KindInv, BeforeAccount
            <4>3. QED BY <3>1, <4>2 DEF KeysInv
        <3>2. CASE p # o
            BY <1>0, <1>8, <3>2 DEF KeysInv
        <3>3. QED BY <3>1, <3>2
    <2>3. QED BY <1>4, <1>8, <2>1, <2>2
<1>9. QED BY <1>0, <1>2, <1>3, <1>6, <1>7, <1>8 DEF KeysInv

LEMMA KeysKept == KeysInv /\ [Next]_vars => KeysInv'
<1> SUFFICES ASSUME KeysInv, [Next]_vars PROVE KeysInv'
    OBVIOUS
<1>1. CASE UNCHANGED vars
    <2>1. TypeInv'
        BY <1>1, TypeStep DEF KeysInv, KindInv
    <2>2. QED BY <1>1, <2>1 DEF KeysInv, KindInv, vars, tables, Stamped
<1>2. CASE Next
    BY <1>2, KeysStart, KeysStep DEF Next
<1>3. QED BY <1>1, <1>2


-----------------------------------------------------------------------------
(* Territory.  When requests about the same user or address never run      *)
(* together, a request changes only the rows of users it is about and the  *)
(* accounts at addresses it is about, and those are nobody else's.         *)

Mine(o) == Concerns(o, call[o])

Apart ==
    \A o, p \in Ops :
      Running(o) /\ Running(p) /\ o # p => Mine(o) \cap Mine(p) = {}

\* What a request has made or found is still as it was.
Held(o) ==
    /\ pc[o] \in AfterAccount => account[o] = call[o].email
    /\ pc[o] = "deleteMade" => seen[o].id = o
    /\ pc[o] \in {"findAccount", "moveAccount", "findDoomed", "deleteAccount"} =>
         seen[o].email # None /\ seen[o].email = users[call[o].user]
    /\ pc[o] \in {"moveAccount", "deleteAccount"} =>
         account[seen[o].id] = seen[o].email

TerritoryInv == KeysInv /\ Apart /\ \A o \in Ops : Held(o)

LEMMA Mines ==
    ASSUME KindInv, NEW o \in Ops
    PROVE  /\ pc[o] \in CreateSteps \cup {"deleteMade"} =>
                Mine(o) = RowAt(call[o].email) \cup {o, call[o].email}
           /\ pc[o] \in UpdateSteps =>
                Mine(o) = {call[o].user, call[o].email, users[call[o].user]} \ {None}
           /\ pc[o] \in RoleSteps \cup DeleteSteps =>
                Mine(o) = {call[o].user, users[call[o].user]} \ {None}
           /\ pc[o] \in GroupSteps \cup DeletionSteps =>
                Mine(o) = UserIds \cup Emails
BY StepCalls DEF Mine, Concerns

LEMMA EveryStep ==
    ASSUME KindInv, NEW o \in Ops, Running(o)
    PROVE  \/ pc[o] \in CreateSteps \cup {"deleteMade"} \/ pc[o] \in UpdateSteps
           \/ pc[o] \in RoleSteps \cup DeleteSteps
           \/ pc[o] \in GroupSteps \cup DeletionSteps
BY DEF KindInv, TypeInv, TypeOK, Running, Steps, CreateSteps, UpdateSteps,
       RoleSteps, DeleteSteps, GroupSteps, DeletionSteps

\* A running request is about some user; two that run are about different ones,
\* so a deletion runs alone.
LEMMA MineFacts ==
    ASSUME KindInv, NEW o \in Ops, Running(o)
    PROVE  None \notin Mine(o) /\ \E u \in UserIds : u \in Mine(o)
<1>1. TypeInv /\ o \in UserIds /\ None \notin UserIds \cup Emails
    BY AccountsAssumption DEF KindInv, UserIds
<1>2. QED BY <1>1, Mines, EveryStep, StepCalls DEF RowAt

LEMMA Alone ==
    ASSUME KindInv, Apart, NEW o \in Ops, NEW p \in Ops, o # p, Running(o),
           Running(p)
    PROVE  pc[o] \notin GroupSteps \cup DeletionSteps
BY Mines, MineFacts DEF Apart

\* What a step of o may touch.
Footprint(o) ==
    /\ \A u \in UserIds : users'[u] # users[u] =>
         u \in Mine(o) /\ users'[u] \in Mine(o) \cup {None}
    /\ \A u \in UserIds : grants'[u] # grants[u] => u \in Mine(o)
    /\ \A u \in UserIds : account'[u] # account[u] =>
         /\ account[u] \in Mine(o) \cup {None}
         /\ account'[u] \in Mine(o) \cup {None}
    /\ \A c \in Companies : companies'[c] = None =>
         companies[c] = None \/ (pc[o] = "deleteCompany" /\ c = call[o].company)

LEMMA StepFootprint ==
    ASSUME KeysInv, NEW o \in Ops, Held(o), Step(o) \/ Crash(o)
    PROVE  Footprint(o)
<1>0. KindInv /\ TypeInv /\ Moves(o) /\ o \in UserIds
    BY StepTypes DEF KeysInv, UserIds
<1>1. ASSUME NEW u \in UserIds, users'[u] # users[u]
      PROVE  u \in Mine(o) /\ users'[u] \in Mine(o) \cup {None}
    <2>1. CASE /\ pc[o] = "insertUser"
               /\ users' = [users EXCEPT ![o] = call[o].email]
        <3>1. {o, call[o].email} \subseteq Mine(o)
            BY <1>0, <2>1, Mines DEF CreateSteps
        <3>2. QED BY <1>0, <1>1, <2>1, <3>1 DEF TypeInv, TypeOK
    <2>2. CASE /\ pc[o] = "updateRow"
               /\ users' = [users EXCEPT ![call[o].user] = call[o].email]
        <3>1. {call[o].user, call[o].email} \subseteq Mine(o)
            BY <1>0, <2>2, Mines, StepCalls, AccountsAssumption DEF UpdateSteps
        <3>2. QED BY <1>0, <1>1, <2>2, <3>1 DEF TypeInv, TypeOK
    <2>3. CASE /\ pc[o] = "deleteRow"
               /\ users' = [users EXCEPT ![call[o].user] = None]
        <3>1. call[o].user \in Mine(o)
            BY <1>0, <2>3, Mines, StepCalls, AccountsAssumption DEF DeleteSteps
        <3>2. QED BY <1>0, <1>1, <2>3, <3>1 DEF TypeInv, TypeOK
    <2>4. CASE /\ pc[o] = "deleteUsers"
               /\ users' = [v \in UserIds |->
                         IF v \in UsersOf(call[o].company) THEN None ELSE users[v]]
        <3>1. UserIds \subseteq Mine(o)
            BY <1>0, <2>4, Mines DEF DeletionSteps
        <3>2. QED BY <1>1, <2>4, <3>1
    <2>5. QED BY <1>0, <1>1, <2>1, <2>2, <2>3, <2>4 DEF Moves
<1>2. ASSUME NEW u \in UserIds, grants'[u] # grants[u]
      PROVE  u \in Mine(o)
    <2>1. CASE /\ pc[o] = "insertGrant"
               /\ grants' = [grants EXCEPT ![o] = seen[o].group]
        <3>1. o \in Mine(o)
            BY <1>0, <2>1, Mines DEF CreateSteps
        <3>2. QED BY <1>0, <1>2, <2>1, <3>1 DEF TypeInv, TypeOK
    <2>2. CASE /\ pc[o] \in {"upsertGrant", "deleteGrant"}
               /\ \E g : grants' = [grants EXCEPT ![call[o].user] = g]
        <3>1. call[o].user \in Mine(o)
            BY <1>0, <2>2, Mines, StepCalls, AccountsAssumption
               DEF RoleSteps, DeleteSteps
        <3>2. QED BY <1>0, <1>2, <2>2, <3>1 DEF TypeInv, TypeOK
    <2>3. CASE pc[o] = "deleteListedGrants"
        BY <1>0, <2>3, Mines DEF DeletionSteps
    <2>4. QED BY <1>0, <1>2, <2>1, <2>2, <2>3 DEF Moves
<1>3. ASSUME NEW u \in UserIds, account'[u] # account[u]
      PROVE  /\ account[u] \in Mine(o) \cup {None}
             /\ account'[u] \in Mine(o) \cup {None}
    <2>1. CASE /\ pc[o] = "createAccount"
               /\ account' = [account EXCEPT ![o] = call[o].email]
        <3>1. call[o].email \in Mine(o)
            BY <1>0, <2>1, Mines DEF CreateSteps
        <3>2. account[o] = None
            BY <1>0, <2>1 DEF KeysInv, KindInv, BeforeAccount
        <3>3. QED BY <1>0, <1>3, <2>1, <3>1, <3>2 DEF TypeInv, TypeOK
    <2>2. CASE /\ pc[o] = "deleteMade"
               /\ account' = [account EXCEPT ![seen[o].id] = None]
        <3>1. account[seen[o].id] = call[o].email
            BY <2>2 DEF Held, AfterAccount
        <3>2. call[o].email \in Mine(o)
            BY <1>0, <2>2, Mines DEF CreateSteps
        <3>3. QED BY <1>0, <1>3, <2>2, <3>1, <3>2 DEF TypeInv, TypeOK
    <2>3. CASE /\ pc[o] = "moveAccount"
               /\ account' = [account EXCEPT ![seen[o].id] = call[o].email]
        <3>1. /\ account[seen[o].id] = users[call[o].user]
              /\ account[seen[o].id] # None
            BY <2>3 DEF Held
        <3>2. {call[o].email, users[call[o].user]} \subseteq Mine(o)
            BY <1>0, <2>3, <3>1, Mines, StepCalls, AccountsAssumption
               DEF UpdateSteps
        <3>3. QED BY <1>0, <1>3, <2>3, <3>1, <3>2 DEF TypeInv, TypeOK
    <2>4. CASE /\ pc[o] = "deleteAccount"
               /\ account' = [account EXCEPT ![seen[o].id] = None]
        <3>1. /\ account[seen[o].id] = users[call[o].user]
              /\ account[seen[o].id] # None
            BY <2>4 DEF Held
        <3>2. users[call[o].user] \in Mine(o)
            BY <1>0, <2>4, <3>1, Mines DEF DeleteSteps
        <3>3. QED BY <1>0, <1>3, <2>4, <3>1, <3>2 DEF TypeInv, TypeOK
    <2>5. QED BY <1>0, <1>3, <2>1, <2>2, <2>3, <2>4 DEF Moves
<1>4. ASSUME NEW c \in Companies, companies'[c] = None
      PROVE  companies[c] = None \/ (pc[o] = "deleteCompany" /\ c = call[o].company)
    <2>1. CASE /\ pc[o] = "updateCompany"
               /\ companies' = [companies EXCEPT
                             ![HomeOf(call[o].caller)] = call[o].email]
        <3>1. call[o].email # None
            BY <1>0, <2>1, StepCalls, AccountsAssumption DEF UpdateSteps
        <3>2. QED BY <1>0, <1>4, <2>1, <3>1 DEF TypeInv, TypeOK
    <2>2. QED BY <1>0, <1>4, <2>1 DEF Moves, TypeInv, TypeOK
<1>5. QED BY <1>1, <1>2, <1>3, <1>4 DEF Footprint

\* What a step of o leaves to another running request p.
LEMMA Untouched ==
    ASSUME TerritoryInv, NEW o \in Ops, Step(o) \/ Crash(o),
           NEW p \in Ops, p # o, Running(p)
    PROVE  /\ \A u \in UserIds : u \in Mine(p) =>
                users'[u] = users[u] /\ grants'[u] = grants[u]
           /\ \A u \in UserIds : users'[u] \in Mine(p) => users'[u] = users[u]
           /\ \A u \in UserIds : account[u] \in Mine(p) \/ account'[u] \in Mine(p) =>
                account[u] = None \/ account'[u] = account[u]
           /\ \A u \in UserIds : account[u] \in Mine(p) => account'[u] = account[u]
           /\ \A c \in Companies : companies'[c] = None => companies[c] = None
           /\ pc[o] \notin GroupSteps \cup DeletionSteps
           /\ pc'[p] = pc[p] /\ seen'[p] = seen[p] /\ call'[p] = call[p]
<1>1. /\ Footprint(o) /\ KindInv /\ Route(o) /\ call' = call
      /\ pc'[p] = pc[p] /\ seen'[p] = seen[p]
    BY StepFootprint, StepTypes DEF TerritoryInv, KeysInv
<1>2. Running(o) /\ Mine(o) \cap Mine(p) = {}
    BY <1>1 DEF Route, TerritoryInv, Apart
<1>3. None \notin Mine(p) /\ pc[o] \notin GroupSteps \cup DeletionSteps
    BY <1>1, <1>2, MineFacts, Alone DEF TerritoryInv
<1>4. pc[o] # "deleteCompany"
    BY <1>3 DEF DeletionSteps
<1>5. QED BY <1>1, <1>2, <1>3, <1>4 DEF Footprint


\* What a request is about never grows.
LEMMA MineShrinks ==
    ASSUME TerritoryInv, NEW o \in Ops, Step(o) \/ Crash(o), NEW q \in Ops,
           Running(q)'
    PROVE  Running(q) /\ Mine(q)' \subseteq Mine(q)
<1>0. /\ KindInv /\ KeysInv /\ Held(o) /\ Route(o) /\ Moves(o)
      /\ call' = call /\ TypeInv
      /\ \A p \in Ops \ {o} : pc'[p] = pc[p] /\ seen'[p] = seen[p]
    BY StepTypes DEF TerritoryInv, KeysInv
<1>1. Running(q)
    BY <1>0 DEF Running, Route
<1>2. ASSUME NEW u \in UserIds, users'[u] # users[u], users'[u] # None
      PROVE  u \in Mine(q) \/ users'[u] \notin Mine(q)
    <2>1. CASE q = o
        BY <1>0, <1>2, <2>1, StepFootprint DEF Footprint
    <2>2. CASE q # o
        BY <1>1, <1>2, <2>2, Untouched
    <2>3. QED BY <2>1, <2>2
<1>3. CASE pc[q] \in CreateSteps \cup {"deleteMade"}
    <2>1. /\ call[q].kind = "createUser" /\ call[q].email \in Emails
          /\ Mine(q) = RowAt(call[q].email) \cup {q, call[q].email}
        BY <1>0, <1>3, StepCalls, Mines
    <2>2. Mine(q)' = RowAt(call[q].email)' \cup {q, call[q].email}
        BY <1>0, <2>1 DEF Mine, Concerns, RowAt
    <2>3. RowAt(call[q].email)' \subseteq Mine(q)
        BY <1>0, <1>2, <2>1, AccountsAssumption DEF RowAt
    <2>4. QED BY <1>1, <2>1, <2>2, <2>3
<1>4. CASE pc[q] \in UpdateSteps \cup RoleSteps \cup DeleteSteps
    <2>1. call[q].user \in UserIds /\ call[q].user \in Mine(q)
        BY <1>0, <1>4, StepCalls, Mines, AccountsAssumption
    <2>2. users'[call[q].user] = users[call[q].user]
        <3>1. CASE q = o
            <4>1. users' = users
                BY <1>0, <1>4, <3>1 DEF Moves, Running, Finished, UpdateSteps,
                                        RoleSteps, DeleteSteps
            <4>2. QED BY <4>1
        <3>2. CASE q # o
            BY <1>1, <2>1, <3>2, Untouched
        <3>3. QED BY <3>1, <3>2
    <2>3. Mine(q)' = Mine(q)
        BY <1>0, <1>4, <2>2, StepCalls DEF Mine, Concerns
    <2>4. QED BY <1>1, <2>3
<1>5. CASE pc[q] \in GroupSteps \cup DeletionSteps
    <2>1. Mine(q)' = Mine(q)
        BY <1>0, <1>5, StepCalls DEF Mine, Concerns
    <2>2. QED BY <1>1, <2>1
<1>6. QED BY <1>0, <1>1, <1>3, <1>4, <1>5, EveryStep

\* A step of createCompanyUser after it has made the account comes from another,
\* or from the one that makes it.
LEMMA MadeAfter ==
    ASSUME KindInv, NEW o \in Ops, Step(o) \/ Crash(o), pc'[o] \in AfterAccount
    PROVE  pc[o] \in AfterAccount \/ (pc[o] = "createAccount" /\ pc'[o] = "insertUser")
<1>0. Route(o) /\ TypeInv
    BY StepTypes
<1>1. CASE pc'[o] = "findMade"
    <2>1. seen[o].made /\ Running(o)
        BY <1>0, <1>1 DEF Route
    <2>2. call[o].kind = "createUser"
        BY <1>0, <2>1 DEF TypeInv, CallInv, CreateCalls
    <2>3. pc[o] \in CreateSteps \cup {"deleteMade"}
        BY <2>1, <2>2, EveryStep, StepCalls
    <2>4. pc[o] \notin BeforeAccount
        BY <2>1 DEF KindInv
    <2>5. QED BY <2>3, <2>4 DEF CreateSteps, BeforeAccount, AfterAccount
<1>2. CASE pc'[o] # "findMade"
    BY <1>0, <1>2 DEF Route, AfterAccount
<1>3. QED BY <1>1, <1>2

LEMMA HeldStep ==
    ASSUME TerritoryInv, NEW o \in Ops, Step(o) \/ Crash(o), NEW p \in Ops
    PROVE  Held(p)'
<1>0. /\ KindInv /\ KeysInv /\ Held(p) /\ Held(o) /\ Route(o) /\ Moves(o)
      /\ call' = call /\ TypeInv /\ o \in UserIds
      /\ pc[p] \in {"moveAccount", "deleteAccount"} => seen[p].id \in UserIds
      /\ None \notin Emails
    BY StepTypes, AccountsAssumption DEF TerritoryInv, KeysInv, KindInv, UserIds
<1>1. CASE p # o
    <2>0. pc'[p] = pc[p] /\ seen'[p] = seen[p] /\ call'[p] = call[p]
        BY <1>1, StepTypes, <1>0
    <2>1. CASE ~Running(p)
        BY <2>0, <2>1 DEF Held, Running, Finished, AfterAccount
    <2>2. CASE Running(p) /\ pc[p] \in AfterAccount
        <3>1. /\ call[p].email \in Mine(p) /\ p \in UserIds
              /\ account[p] = call[p].email
            BY <1>0, <2>2, Mines DEF AfterAccount, CreateSteps, Held, UserIds
        <3>2. account'[p] = account[p]
            BY <1>1, <2>2, <3>1, Untouched
        <3>3. QED BY <1>0, <2>0, <2>2, <3>1, <3>2 DEF Held, AfterAccount
    <2>3. CASE Running(p) /\ pc[p] \in {"findAccount", "moveAccount", "findDoomed",
                                        "deleteAccount"}
        <3>1. /\ call[p].user \in Mine(p) /\ users[call[p].user] \in Mine(p)
              /\ call[p].user \in UserIds
            BY <1>0, <2>3, Mines, StepCalls, AccountsAssumption
               DEF UpdateSteps, DeleteSteps, Held
        <3>2. users'[call[p].user] = users[call[p].user]
            BY <1>1, <2>3, <3>1, Untouched
        <3>3. pc[p] \in {"moveAccount", "deleteAccount"} =>
                account'[seen[p].id] = account[seen[p].id]
            BY <1>0, <1>1, <2>3, <3>1, Untouched DEF Held
        <3>4. QED BY <1>0, <2>0, <2>3, <3>2, <3>3 DEF Held, AfterAccount
    <2>4. CASE pc[p] \notin AfterAccount \cup {"findAccount", "moveAccount",
                                        "findDoomed", "deleteAccount"}
        BY <2>0, <2>4 DEF Held, AfterAccount
    <2>5. QED BY <2>1, <2>2, <2>3, <2>4
<1>2. CASE p = o
    <2>1. pc'[o] \in AfterAccount => account'[o] = call[o].email
        <3>1. CASE pc'[o] \in AfterAccount \ {"insertUser"}
            <4>1. pc[o] \in AfterAccount
                BY <1>0, <3>1, MadeAfter
            <4>2. account' = account
                BY <1>0, <4>1, <3>1 DEF Moves, AfterAccount
            <4>3. QED BY <1>0, <1>2, <4>1, <4>2 DEF Held
        <3>2. CASE pc'[o] = "insertUser"
            BY <1>0, <3>2 DEF Route
        <3>3. QED BY <3>1, <3>2
    <2>2. pc'[o] = "deleteMade" => seen'[o].id = o
        <3> SUFFICES ASSUME pc'[o] = "deleteMade" PROVE seen'[o].id = o
            OBVIOUS
        <3>1. /\ pc[o] = "findMade" /\ seen'[o].id \in UserIds
              /\ account[seen'[o].id] = call[o].email
            BY <1>0 DEF Route
        <3>2. account[o] = call[o].email /\ account[o] # None
            BY <1>0, <1>2, <3>1, StepCalls DEF Held, AfterAccount, CreateSteps
        <3>3. QED BY <1>0, <3>1, <3>2 DEF KeysInv
    <2>3. pc'[o] \in {"findAccount", "moveAccount", "findDoomed", "deleteAccount"} =>
            seen'[o].email # None /\ seen'[o].email = users'[call[o].user]
        <3>1. pc'[o] \in {"findAccount", "moveAccount", "findDoomed", "deleteAccount"}
                => users' = users
            BY <1>0 DEF Moves
        <3>2. QED BY <1>0, <1>2, <3>1 DEF Route, Held
    <2>4. pc'[o] \in {"moveAccount", "deleteAccount"} =>
            account'[seen'[o].id] = seen'[o].email
        BY <1>0 DEF Moves, Route
    <2>5. QED BY <1>0, <1>2, <2>1, <2>2, <2>3, <2>4 DEF Held
<1>3. QED BY <1>1, <1>2

LEMMA TerritoryStep ==
    ASSUME TerritoryInv, NEW o \in Ops, Step(o) \/ Crash(o) PROVE TerritoryInv'
<1>1. KeysInv'
    BY KeysStep DEF TerritoryInv
<1>2. Apart'
    BY MineShrinks DEF Apart, TerritoryInv
<1>3. QED BY <1>1, <1>2, HeldStep DEF TerritoryInv

LEMMA TerritoryStart ==
    ASSUME ~Overlap, TerritoryInv, NEW o \in Ops, Start(o) PROVE TerritoryInv'
<1>0. TypeInv /\ KeysInv'
    BY KeysStart DEF TerritoryInv, KeysInv, KindInv
<1>1. PICK c \in Calls :
             /\ call'[o] = c /\ pc'[o] = FirstStep(c.kind) /\ pc[o] = "idle"
             /\ \A p \in Ops :
                  Running(p) => Concerns(o, c) \cap Concerns(p, call[p]) = {}
             /\ UNCHANGED <<tables, account, seen, logged>>
             /\ \A p \in Ops \ {o} : pc'[p] = pc[p] /\ call'[p] = call[p]
    BY <1>0, StartMoves
<1>2. UNCHANGED <<users, account, seen>>
    BY <1>1 DEF tables
<1>3. /\ Mine(o)' = Concerns(o, c)
      /\ \A p \in Ops \ {o} : Mine(p)' = Mine(p) /\ Running(p)' = Running(p)
    BY <1>1, <1>2 DEF Mine, Concerns, RowAt, Running
<1>4. Apart'
    BY <1>1, <1>3 DEF Apart, TerritoryInv, Mine
<1>5. ASSUME NEW p \in Ops PROVE Held(p)'
    <2>1. CASE p = o
        <3>1. pc'[o] \in FirstLabels
            BY <1>1, FirstStepKinds
        <3>2. QED BY <2>1, <3>1 DEF Held, FirstLabels, AfterAccount
    <2>2. CASE p # o
        BY <1>1, <1>2, <2>2 DEF TerritoryInv, Held
    <2>3. QED BY <2>1, <2>2
<1>6. QED BY <1>0, <1>4, <1>5 DEF TerritoryInv

LEMMA TerritoryInit == Init => TerritoryInv
<1> SUFFICES ASSUME Init PROVE TerritoryInv
    OBVIOUS
<1>1. \A o \in Ops : pc[o] = "idle"
    BY DEF Init
<1>2. QED BY <1>1, KeysInit
          DEF TerritoryInv, Apart, Held, Running, Finished, AfterAccount

LEMMA TerritoryKept ==
    ASSUME ~Overlap, TerritoryInv, [Next]_vars PROVE TerritoryInv'
<1>1. CASE UNCHANGED vars
    <2>1. KeysInv'
        BY <1>1, KeysKept DEF TerritoryInv
    <2>2. UNCHANGED <<users, account, pc, call, seen>>
        BY <1>1 DEF vars, tables
    <2>3. Apart'
        BY <2>2 DEF TerritoryInv, Apart, Mine, Concerns, RowAt, Running
    <2>4. \A o \in Ops : Held(o)'
        BY <2>2 DEF TerritoryInv, Held
    <2>5. QED BY <2>1, <2>3, <2>4 DEF TerritoryInv
<1>2. CASE Next
    BY <1>2, TerritoryStart, TerritoryStep DEF Next
<1>3. QED BY <1>1, <1>2

\* createCompanyUser's cleanup never removes somebody else's account, when no
\* other request about the same user or address runs at the same time.
LEMMA CleanupOfOwnAlone ==
    ASSUME ~Overlap PROVE Spec => []CleanupIsOwn
<1>1. TerritoryInv /\ [Next]_vars => TerritoryInv'
    BY TerritoryKept
<1>2. TerritoryInv => CleanupIsOwn
    BY DEF TerritoryInv, Held, CleanupIsOwn
<1>3. QED BY <1>1, <1>2, TerritoryInit, PTL DEF Spec


\* An account appears where there was none only when its user is made.
LEMMA AccountsAppear ==
    ASSUME KeysInv, NEW o \in Ops, Step(o) \/ Crash(o), NEW u \in UserIds,
           account[u] = None, account'[u] # None
    PROVE  u = o /\ pc[o] = "createAccount" /\ pc'[o] = "insertUser"
<1>1. /\ KindInv /\ TypeInv /\ Moves(o)
      /\ pc[o] = "moveAccount" => seen[o].id \in UserIds
    BY StepTypes DEF KeysInv, KindInv
<1>2. QED BY <1>1 DEF Moves, TypeInv, TypeOK

CatchInv ==
    /\ TerritoryInv
    /\ \A p \in Ops : pc[p] = "failed" => account[p] = None \/ p \in logged
                                          \/ call[p] \notin CreateCalls

LEMMA CatchStep ==
    ASSUME "crash" \notin Faults, CatchInv, NEW o \in Ops, Step(o) \/ Crash(o)
    PROVE  CatchInv'
<1>0. /\ KeysInv /\ TerritoryInv' /\ Route(o) /\ Moves(o) /\ call' = call
      /\ \A p \in Ops \ {o} : pc'[p] = pc[p]
      /\ \A p \in Ops : p \in UserIds
      /\ KindInv
    BY StepTypes, TerritoryStep DEF CatchInv, TerritoryInv, KeysInv, UserIds
<1>1. ASSUME NEW p \in Ops, pc'[p] = "failed", call[p] \in CreateCalls
      PROVE  account'[p] = None \/ p \in logged'
    <2>1. CASE account[p] = None
        BY <1>0, <1>1, <2>1, AccountsAppear
    <2>2. CASE account[p] # None /\ p # o
        BY <1>0, <1>1, <2>2 DEF CatchInv, Moves
    <2>3. CASE account[p] # None /\ p = o
        <3>1. seen[o].made
            BY <1>0, <2>3 DEF KeysInv
        <3>2. pc[o] \in {"findMade", "deleteMade"} => account[o] = call[o].email
            BY DEF CatchInv, TerritoryInv, Held, AfterAccount
        <3>3. pc[o] = "deleteMade" => seen[o].id = o
            BY DEF CatchInv, TerritoryInv, Held
        <3>4. ~(pc[o] = "findMade" /\ AccountAt(call[o].email) = {})
            BY <1>0, <3>2 DEF AccountAt
        <3>5. QED BY <1>0, <1>1, <2>3, <3>1, <3>3, <3>4 DEF Route
    <2>4. QED BY <2>1, <2>2, <2>3
<1>2. QED BY <1>0, <1>1 DEF CatchInv

LEMMA CatchKept ==
    ASSUME ~Overlap, "crash" \notin Faults, CatchInv, [Next]_vars
    PROVE  CatchInv'
<1>0. TerritoryInv' /\ TerritoryInv
    BY TerritoryKept DEF CatchInv
<1>1. CASE UNCHANGED vars
    BY <1>0, <1>1 DEF CatchInv, vars, tables
<1>2. ASSUME NEW o \in Ops, Start(o) PROVE CatchInv'
    <2>1. PICK c \in Calls :
             /\ pc'[o] = FirstStep(c.kind) /\ pc[o] = "idle"
             /\ UNCHANGED <<tables, account, seen, logged>>
             /\ \A p \in Ops \ {o} : pc'[p] = pc[p] /\ call'[p] = call[p]
        BY <1>0, <1>2, StartMoves DEF TerritoryInv, KeysInv, KindInv
    <2>2. pc'[o] # "failed"
        BY <2>1, FirstStepKinds DEF FirstLabels
    <2>3. QED BY <1>0, <2>1, <2>2 DEF CatchInv
<1>3. QED BY <1>1, <1>2, CatchStep DEF Next

\* A createCompanyUser that answered with an error left no account behind, or
\* logged that it must be deleted by hand, when no other request about the same
\* user or address runs at the same time and the process lives.
LEMMA FailedCreateCleansUpAlone ==
    ASSUME ~Overlap, "crash" \notin Faults
    PROVE  Spec => []FailedCreateLeavesNoAccount
<1>1. CatchInv /\ [Next]_vars => CatchInv'
    BY CatchKept
<1>2. CatchInv => FailedCreateLeavesNoAccount
    <2>1. ASSUME CatchInv, NEW p \in Ops, pc[p] = "failed", Stamped(p)
          PROVE  call[p] \in CreateCalls
        <3>1. call[p] \in Calls /\ call[p].kind = "createUser"
            BY <2>1 DEF CatchInv, TerritoryInv, KeysInv, KindInv, Stamped
        <3>2. QED BY <3>1, CallKinds
    <2>2. QED BY <2>1 DEF CatchInv, FailedCreateLeavesNoAccount
<1>3. Init => CatchInv
    BY TerritoryInit DEF Init, CatchInv
<1>4. QED BY <1>1, <1>2, <1>3, PTL DEF Spec

-----------------------------------------------------------------------------
(* Rows.  A grant is written for a user whose row is there and stays there *)
(* while the request runs; a deletion, which runs alone, ends with nothing *)
(* of the company left.                                                    *)

WithRow == {"findGroup", "insertGrant"}
WithCompany == {"createAccount", "insertUser", "findGroup", "insertGrant"}
\* A deletion that has deleted the users; one whose list is still in use.
Emptied == {"deleteGroups", "deleteBelongings", "deleteListedGrants",
            "deleteCompany"}
Listing == {"deleteGroups", "deleteBelongings", "deleteListedGrants"}

Rows(o) ==
    /\ pc[o] \in WithRow => users[o] # None
    /\ pc[o] \in WithCompany => companies[call[o].company] # None
    /\ pc[o] \in {"findNewGroup", "upsertGrant"} => users[call[o].user] # None
    /\ pc[o] = "deleteRow" => grants[call[o].user] = None
    /\ pc[o] = "deleteUsers" => UsersOf(call[o].company) \subseteq seen[o].list
    /\ pc[o] \in Emptied => UsersOf(call[o].company) = {}
    /\ pc[o] \in Emptied \ {"deleteGroups"} =>
         \A g \in groups : g[1] # call[o].company
    /\ pc[o] \in {"deleteListedGrants", "deleteCompany"} =>
         belongings[call[o].company] = {}
    /\ pc[o] = "deleteCompany" => seen[o].list = {}

\* Whoever has a row belongs where it did before the step.
LEMMA ResidentsStay ==
    ASSUME KeysInv, NEW o \in Ops, Start(o) \/ Step(o) \/ Crash(o),
           NEW c, NEW u \in UserIds, u \in UsersOf(c)'
    PROVE  \/ u \in UsersOf(c)
           \/ users[u] = None /\ users'[u] # None /\ HomeOf(u)' = c
<1>1. users'[u] # None /\ HomeOf(u)' = c
    BY DEF UsersOf
<1>2. CASE users[u] # None
    <2>1. HomeOf(u)' = HomeOf(u)
        BY <1>2, StampsStay DEF KeysInv
    <2>2. QED BY <1>1, <1>2, <2>1 DEF UsersOf
<1>3. QED BY <1>1, <1>2

\* A row appears only when its user is made.
LEMMA RowsAppear ==
    ASSUME KeysInv, NEW o \in Ops, Step(o) \/ Crash(o), NEW u \in UserIds,
           users[u] = None, users'[u] # None
    PROVE  u = o /\ pc[o] = "insertUser" /\ pc'[o] = "findGroup"
<1>1. KindInv /\ TypeInv /\ Moves(o)
    BY StepTypes DEF KeysInv
<1>2. QED BY <1>1 DEF Moves, TypeInv, TypeOK, UsersOf

LEMMA RowsOthers ==
    ASSUME TerritoryInv, NEW o \in Ops, Step(o) \/ Crash(o), NEW p \in Ops,
           p # o, Rows(p)
    PROVE  Rows(p)'
<1>0. /\ KindInv /\ KeysInv /\ TypeInv /\ Route(o) /\ Moves(o) /\ call' = call
      /\ pc'[p] = pc[p] /\ seen'[p] = seen[p] /\ p \in UserIds
      /\ None \notin UserIds
    BY StepTypes, AccountsAssumption DEF TerritoryInv, KeysInv, UserIds
<1>1. CASE ~Running(p)
    BY <1>0, <1>1 DEF Rows, Running, Finished, WithRow, WithCompany, Emptied
<1>2. CASE Running(p) /\ pc[p] \in CreateSteps
    <2>1. p \in Mine(p) /\ call[p].company \in Companies
        BY <1>0, <1>2, Mines, StepCalls
    <2>2. /\ users'[p] = users[p]
          /\ companies'[call[p].company] = None => companies[call[p].company] = None
        BY <1>0, <1>2, <2>1, Untouched
    <2>3. QED BY <1>0, <1>2, <2>2
              DEF Rows, WithRow, WithCompany, Emptied, CreateSteps
<1>3. CASE Running(p) /\ pc[p] \in RoleSteps \cup DeleteSteps
    <2>1. call[p].user \in Mine(p) /\ call[p].user \in UserIds
        BY <1>0, <1>3, Mines, StepCalls
    <2>2. /\ users'[call[p].user] = users[call[p].user]
          /\ grants'[call[p].user] = grants[call[p].user]
        BY <1>0, <1>3, <2>1, Untouched
    <2>3. QED BY <1>0, <1>3, <2>2
              DEF Rows, WithRow, WithCompany, Emptied, RoleSteps, DeleteSteps
<1>4. CASE Running(p) /\ pc[p] \in GroupSteps \cup DeletionSteps
    BY <1>0, <1>4, Alone DEF TerritoryInv, Route
<1>5. CASE Running(p) /\ pc[p] \in UpdateSteps \cup {"deleteMade"}
    BY <1>0, <1>5 DEF Rows, WithRow, WithCompany, Emptied, UpdateSteps
<1>6. QED BY <1>0, <1>1, <1>2, <1>3, <1>4, <1>5, EveryStep

LEMMA RowsOwn ==
    ASSUME KeysInv, NEW o \in Ops, Step(o) \/ Crash(o), Rows(o)
    PROVE  Rows(o)'
<1>0. /\ KindInv /\ TypeInv /\ Route(o) /\ Moves(o) /\ call' = call
      /\ o \in UserIds
    BY StepTypes DEF KeysInv, UserIds
<1> DEFINE c == call[o].company
<1>1. pc'[o] \in WithRow => users'[o] # None
    <2>1. CASE pc'[o] = "findGroup"
        BY <1>0, <2>1, StepCalls, AccountsAssumption DEF Route, CreateSteps
    <2>2. CASE pc'[o] = "insertGrant"
        <3>1. users' = users /\ pc[o] = "findGroup"
            BY <1>0, <2>2 DEF Moves, Route
        <3>2. QED BY <3>1 DEF Rows, WithRow
    <2>3. QED BY <2>1, <2>2 DEF WithRow
<1>2. pc'[o] \in WithCompany => companies'[c] # None
    <2>1. pc'[o] \in WithCompany => companies' = companies
        BY <1>0 DEF Moves, WithCompany
    <2>2. pc'[o] \in WithCompany => companies[c] # None
        BY <1>0 DEF Route, Rows, WithCompany
    <2>3. QED BY <2>1, <2>2
<1>3. pc'[o] \in {"findNewGroup", "upsertGrant"} => users'[call[o].user] # None
    BY <1>0 DEF Moves, Route, Rows
<1>4. pc'[o] = "deleteRow" => grants'[call[o].user] = None
    BY <1>0 DEF Route
<1>5. CASE pc'[o] \in DeletionSteps
    <2>0. /\ pc[o] \in DeletionSteps /\ c \in Companies
          /\ pc[o] = "listUsers" <=> pc'[o] = "deleteUsers"
          /\ pc[o] = "deleteUsers" <=> pc'[o] = "deleteGroups"
        <3>1. pc[o] \in DeletionSteps
            BY <1>0, <1>5 DEF Route, DeletionSteps, FirstLabels
        <3>2. QED BY <1>0, <1>5, <3>1, StepCalls DEF Route, DeletionSteps, FirstLabels
    <2>1. \A u \in UserIds : Stamped(u) => HomeOf(u)' = HomeOf(u)
        BY <1>0, StampsStay
    <2>2. pc'[o] = "deleteUsers" => UsersOf(c)' \subseteq seen'[o].list
        <3> SUFFICES ASSUME pc'[o] = "deleteUsers" PROVE UsersOf(c)' \subseteq seen'[o].list
            OBVIOUS
        <3>1. users' = users /\ seen'[o].list = UsersOf(c)
            BY <1>0 DEF Moves, Route
        <3>2. UsersOf(c)' = UsersOf(c)
            BY <1>0, <2>1, <3>1 DEF UsersOf, KeysInv
        <3>3. QED BY <3>1, <3>2
    <2>3. pc'[o] \in Emptied => UsersOf(c)' = {}
        <3> SUFFICES ASSUME pc'[o] \in Emptied, NEW u \in UserIds, u \in UsersOf(c)'
                     PROVE  FALSE
            BY DEF UsersOf
        <3>1. u \in UsersOf(c)
            BY <1>0, <2>0, ResidentsStay, RowsAppear DEF DeletionSteps
        <3>2. pc[o] = "deleteUsers"
            BY <1>0, <2>0, <3>1 DEF Rows, Route, Emptied
        <3>3. pc'[o] = "deleteGroups"
            BY <2>0, <3>2
        <3>4. users'[u] = None
            BY <1>0, <3>1, <3>3 DEF Route
        <3>5. QED BY <3>4 DEF UsersOf
    <2>4. pc'[o] \in Emptied \ {"deleteGroups"} => \A g \in groups' : g[1] # c
        BY <1>0 DEF Route, Moves, Rows, Emptied
    <2>5. pc'[o] \in {"deleteListedGrants", "deleteCompany"} => belongings'[c] = {}
        BY <1>0, <2>0 DEF Route, Moves, Rows
    <2>6. pc'[o] = "deleteCompany" => seen'[o].list = {}
        BY <1>0 DEF Route
    <2>7. QED BY <1>0, <1>1, <1>2, <1>3, <1>4, <2>2, <2>3, <2>4, <2>5, <2>6 DEF Rows
<1>6. CASE pc'[o] \notin DeletionSteps
    BY <1>0, <1>1, <1>2, <1>3, <1>4, <1>6 DEF Rows, DeletionSteps, Emptied
<1>7. QED BY <1>5, <1>6


LEMMA RowsStart ==
    ASSUME KeysInv, NEW o \in Ops, Start(o), \A p \in Ops : Rows(p),
           NEW p \in Ops
    PROVE  Rows(p)'
<1>0. TypeInv
    BY DEF KeysInv, KindInv
<1>1. PICK c \in Calls : /\ pc'[o] = FirstStep(c.kind)
                         /\ UNCHANGED <<tables, account, seen, logged>>
                         /\ \A q \in Ops \ {o} : pc'[q] = pc[q] /\ call'[q] = call[q]
    BY <1>0, StartMoves
<1>2. UNCHANGED <<companies, users, groups, grants, belongings, seen>>
    BY <1>1 DEF tables
<1>3. CASE p = o
    <2>1. pc'[o] \in FirstLabels
        BY <1>1, FirstStepKinds
    <2>2. QED BY <1>3, <2>1 DEF Rows, FirstLabels, WithRow, WithCompany, Emptied
<1>4. CASE p # o
    <2>1. UsersOf(call[p].company)' = UsersOf(call[p].company)
        <3>1. \A u \in UserIds : users[u] # None => HomeOf(u)' = HomeOf(u)
            BY <1>0, StampsStay DEF KeysInv
        <3>2. call'[p] = call[p]
            BY <1>1, <1>4
        <3>3. QED BY <1>2, <3>1, <3>2 DEF UsersOf
    <2>2. pc'[p] = pc[p] /\ call'[p] = call[p]
        BY <1>1, <1>4
    <2>3. QED BY <1>2, <2>1, <2>2 DEF Rows
<1>5. QED BY <1>3, <1>4

RowsInv == TerritoryInv /\ TenantInv /\ \A o \in Ops : Rows(o)

LEMMA RowsKept == ASSUME ~Overlap, RowsInv, [Next]_vars PROVE RowsInv'
<1>0. TerritoryInv' /\ TerritoryInv /\ TenantInv
    BY TerritoryKept DEF RowsInv
<1>1. CASE UNCHANGED vars
    <2>1. TenantInv'
        <3>1. TypeInv'
            BY <1>1, TypeStep DEF RowsInv, TenantInv
        <3>2. QED BY <1>1, <3>1 DEF RowsInv, TenantInv, Stamped, HomeOf, vars, tables
    <2>2. \A o \in Ops : Rows(o)'
        BY <1>1 DEF RowsInv, Rows, UsersOf, HomeOf, vars, tables
    <2>3. QED BY <1>0, <2>1, <2>2 DEF RowsInv
<1>2. ASSUME NEW o \in Ops, Start(o) PROVE RowsInv'
    BY <1>0, <1>2, RowsStart, TenantStart DEF RowsInv, TerritoryInv
<1>3. ASSUME NEW o \in Ops, Step(o) \/ Crash(o) PROVE RowsInv'
    BY <1>0, <1>3, RowsOthers, RowsOwn, TenantStep DEF RowsInv, TerritoryInv
<1>4. QED BY <1>1, <1>2, <1>3 DEF Next

LEMMA RowsInit == Init => RowsInv
<1> SUFFICES ASSUME Init PROVE RowsInv
    OBVIOUS
<1>1. \A o \in Ops : pc[o] = "idle"
    BY DEF Init
<1>2. QED BY <1>1, TerritoryInit, TenantInit
          DEF RowsInv, Rows, WithRow, WithCompany, Emptied

\* Where a deletion that has deleted the users goes.
LEMMA DeletionGoesOn ==
    ASSUME KindInv, NEW o \in Ops, Step(o) \/ Crash(o), pc[o] \in Emptied
    PROVE  /\ pc[o] = "deleteGroups" =>
                pc'[o] \in {"deleteBelongings", "failed"}
           /\ pc[o] = "deleteBelongings" =>
                pc'[o] \in {"deleteBelongings", "deleteListedGrants", "failed"}
           /\ pc[o] = "deleteListedGrants" =>
                pc'[o] \in {"deleteListedGrants", "deleteCompany", "failed"}
           /\ pc[o] = "deleteCompany" => pc'[o] \in {"done", "failed"}
           /\ call[o].kind = "deleteCompany" /\ call[o].company \in Companies
<1>1. Route(o) /\ TypeInv
    BY StepTypes
<1>2. call[o].kind = "deleteCompany" /\ call[o].company \in Companies
    BY StepCalls DEF Emptied, DeletionSteps
<1>3. ~seen[o].made
    BY <1>1, <1>2 DEF TypeInv, CallInv, CreateCalls
<1>4. QED BY <1>1, <1>2, <1>3 DEF Route, Emptied, FirstLabels, Steps, Finished

\* A deletion that failed is remembered.
LEMMA HalfDeletedStays ==
    ASSUME KindInv, NEW o \in Ops, Start(o) \/ Step(o) \/ Crash(o), NEW c,
           HalfDeleted(c)
    PROVE  HalfDeleted(c)'
<1>1. PICK d \in Ops : /\ pc[d] = "failed" /\ call[d].kind = "deleteCompany"
                       /\ call[d].company = c
    BY DEF HalfDeleted
<1>2. pc'[d] = pc[d] /\ call'[d] = call[d]
    <2>1. CASE Start(o)
        BY <1>1, <2>1, StartMoves DEF KindInv
    <2>2. CASE Step(o) \/ Crash(o)
        BY <1>1, <2>2, StepTypes DEF Route, Running, Finished
    <2>3. QED BY <2>1, <2>2
<1>3. QED BY <1>1, <1>2 DEF HalfDeleted

\* A row that goes is deleted by the user's or the company's deletion.
LEMMA RowsGo ==
    ASSUME KeysInv, NEW o \in Ops, Step(o) \/ Crash(o), NEW u \in UserIds,
           users[u] # None, users'[u] = None
    PROVE  \/ pc[o] = "deleteRow" /\ u = call[o].user /\ pc'[o] = "done"
           \/ /\ pc[o] = "deleteUsers" /\ pc'[o] = "deleteGroups"
              /\ u \in UsersOf(call[o].company)
<1>1. KindInv /\ TypeInv /\ Moves(o)
    BY StepTypes DEF KeysInv
<1>2. pc[o] \in {"insertUser", "updateRow"} => call[o].email # None
    BY <1>1, StepCalls, AccountsAssumption DEF CreateSteps, UpdateSteps
<1>3. QED BY <1>1, <1>2 DEF Moves, TypeInv, TypeOK

-----------------------------------------------------------------------------
(* Grants and rows.                                                        *)

Awaited(u) ==
    \E d \in Ops : /\ pc[d] \in Listing /\ call[d].company = HomeOf(u)
                   /\ u \in seen[d].list

Granted(u) ==
    grants[u] # None => users[u] # None \/ HalfDeleted(HomeOf(u)) \/ Awaited(u)

GrantInv == RowsInv /\ \A u \in UserIds : Granted(u)

LEMMA AwaitedStep ==
    ASSUME KindInv, NEW o \in Ops, Step(o) \/ Crash(o), NEW u \in UserIds,
           Stamped(u), Awaited(u), grants'[u] # None
    PROVE  HalfDeleted(HomeOf(u))' \/ Awaited(u)'
<1>0. /\ TypeInv /\ Route(o) /\ Moves(o) /\ call' = call
      /\ \A p \in Ops \ {o} : pc'[p] = pc[p] /\ seen'[p] = seen[p]
      /\ HomeOf(u)' = HomeOf(u)
    BY StepTypes, StampsStay
<1>1. PICK d \in Ops : /\ pc[d] \in Listing /\ call[d].company = HomeOf(u)
                       /\ u \in seen[d].list
    BY DEF Awaited
<1>2. CASE d # o
    BY <1>0, <1>1, <1>2 DEF Awaited
<1>3. CASE d = o
    <2>1. /\ pc'[o] \in Listing \cup {"deleteCompany", "failed"}
          /\ call[o].kind = "deleteCompany"
        BY <1>1, <1>3, DeletionGoesOn DEF Listing, Emptied
    <2>2. CASE pc'[o] = "failed"
        BY <1>0, <1>1, <1>3, <2>1, <2>2 DEF HalfDeleted
    <2>3. pc'[o] # "deleteCompany"
        BY <1>0, <1>1, <1>3 DEF Route
    <2>4. CASE pc'[o] \in Listing
        <3>1. u \in seen'[o].list
            <4>1. CASE pc'[o] = "deleteListedGrants" /\ pc[o] = "deleteListedGrants"
                BY <1>0, <1>1, <1>3, <4>1 DEF Moves, TypeInv, TypeOK
            <4>2. CASE ~(pc'[o] = "deleteListedGrants" /\ pc[o] = "deleteListedGrants")
                BY <1>0, <1>1, <1>3, <2>4, <4>2 DEF Route, Listing
            <4>3. QED BY <4>1, <4>2
        <3>2. QED BY <1>0, <1>1, <1>3, <2>4, <3>1 DEF Awaited
    <2>5. QED BY <2>1, <2>2, <2>3, <2>4
<1>4. QED BY <1>2, <1>3

LEMMA GrantStep ==
    ASSUME KeysInv, TenantInv, NEW o \in Ops, Step(o) \/ Crash(o), Rows(o),
           NEW u \in UserIds, Granted(u)
    PROVE  Granted(u)'
<1>0. /\ KindInv /\ TypeInv /\ Route(o) /\ Moves(o) /\ call' = call
    BY StepTypes DEF KeysInv
<1> SUFFICES ASSUME grants'[u] # None, users'[u] = None
             PROVE  HalfDeleted(HomeOf(u))' \/ Awaited(u)'
    BY DEF Granted
<1>1. grants[u] # None
    <2>1. pc[o] = "insertGrant" => users' = users /\ users[o] # None
        BY <1>0 DEF Moves, Rows, WithRow
    <2>2. pc[o] = "upsertGrant" => users' = users /\ users[call[o].user] # None
        BY <1>0 DEF Moves, Rows
    <2>3. QED BY <1>0, <2>1, <2>2 DEF Moves, TypeInv, TypeOK
<1>2. Stamped(u) /\ HomeOf(u)' = HomeOf(u)
    BY <1>0, <1>1, StampsStay DEF TenantInv
<1>3. CASE users[u] # None
    <2>1. CASE pc[o] = "deleteRow" /\ u = call[o].user /\ pc'[o] = "done"
        BY <1>0, <1>1, <2>1 DEF Rows
    <2>2. CASE /\ pc[o] = "deleteUsers" /\ pc'[o] = "deleteGroups"
               /\ u \in UsersOf(call[o].company)
        <3>1. u \in seen'[o].list /\ call'[o].company = HomeOf(u)
            BY <1>0, <2>2 DEF Rows, Route, UsersOf
        <3>2. QED BY <1>2, <2>2, <3>1 DEF Awaited, Listing
    <2>3. QED BY <1>0, <1>3, <2>1, <2>2, RowsGo
<1>4. CASE HalfDeleted(HomeOf(u))
    <2>1. PICK h : h = HomeOf(u)
        OBVIOUS
    <2>2. HalfDeleted(h)'
        BY <1>0, <1>4, <2>1, HalfDeletedStays
    <2>3. QED BY <1>2, <2>1, <2>2 DEF HalfDeleted
<1>5. CASE Awaited(u)
    BY <1>0, <1>2, <1>5, AwaitedStep
<1>6. QED BY <1>1, <1>3, <1>4, <1>5 DEF Granted

LEMMA GrantStart ==
    ASSUME KindInv, TenantInv, NEW o \in Ops, Start(o), NEW u \in UserIds,
           Granted(u)
    PROVE  Granted(u)'
<1>0. TypeInv
    BY DEF KindInv
<1>1. PICK c \in Calls : /\ pc[o] = "idle"
                         /\ UNCHANGED <<tables, account, seen, logged>>
                         /\ \A q \in Ops \ {o} : pc'[q] = pc[q] /\ call'[q] = call[q]
    BY <1>0, StartMoves
<1>2. UNCHANGED <<users, grants, seen>>
    BY <1>1 DEF tables
<1> SUFFICES ASSUME grants[u] # None, users[u] = None
             PROVE  HalfDeleted(HomeOf(u))' \/ Awaited(u)'
    BY <1>2 DEF Granted
<1>3. HomeOf(u)' = HomeOf(u)
    BY <1>0, StampsStay DEF TenantInv
<1>4. CASE HalfDeleted(HomeOf(u))
    <2>1. PICK h : h = HomeOf(u)
        OBVIOUS
    <2>2. HalfDeleted(h)'
        BY <1>0, <1>4, <2>1, HalfDeletedStays
    <2>3. QED BY <1>3, <2>1, <2>2 DEF HalfDeleted
<1>5. CASE Awaited(u)
    BY <1>1, <1>2, <1>3, <1>5 DEF Awaited, Listing
<1>6. QED BY <1>4, <1>5 DEF Granted

LEMMA GrantKept == ASSUME ~Overlap, GrantInv, [Next]_vars PROVE GrantInv'
<1>0. RowsInv' /\ RowsInv
    BY RowsKept DEF GrantInv
<1>1. CASE UNCHANGED vars
    BY <1>0, <1>1 DEF GrantInv, Granted, Awaited, HalfDeleted, HomeOf, vars, tables
<1>2. CASE Next
    BY <1>0, <1>2, GrantStart, GrantStep
       DEF GrantInv, RowsInv, TerritoryInv, KeysInv, Next
<1>3. QED BY <1>1, <1>2

LEMMA GrantInit == Init => GrantInv
<1> SUFFICES ASSUME Init PROVE GrantInv
    OBVIOUS
<1>1. \A u \in UserIds : grants[u] # None => users[u] # None
    BY AccountsAssumption DEF Init
<1>2. QED BY <1>1, RowsInit DEF GrantInv, Granted

\* No grant outlives its user at rest, unless the deletion of its company failed,
\* when no other request about the same user or address runs at the same time.
LEMMA GrantsGoWithUsersAlone ==
    ASSUME ~Overlap PROVE Spec => []GrantsHaveUsers
<1>1. GrantInv /\ [Next]_vars => GrantInv'
    BY GrantKept
<1>2. GrantInv => GrantsHaveUsers
    <2>1. ASSUME GrantInv, Quiet, NEW u \in UserIds PROVE ~Awaited(u)
        BY <2>1 DEF Quiet, Running, Finished, Awaited, Listing
    <2>2. QED BY <2>1 DEF GrantInv, Granted, GrantsHaveUsers
<1>3. QED BY <1>1, <1>2, GrantInit, PTL DEF Spec


-----------------------------------------------------------------------------
(* Deleted companies.                                                      *)

NothingLeft(c) ==
    /\ UsersOf(c) = {}
    /\ \A g \in groups : g[1] # c
    /\ belongings[c] = {}
    /\ \A u \in UserIds : grants[u] # None => grants[u][1] # c

Buried(c) == companies[c] = None => HalfDeleted(c) \/ NothingLeft(c)

BuriedInv == GrantInv /\ \A c \in Companies : Buried(c)

LEMMA BuriedStep ==
    ASSUME BuriedInv, NEW o \in Ops, Step(o) \/ Crash(o), NEW c \in Companies
    PROVE  Buried(c)'
<1>0. /\ KindInv /\ KeysInv /\ TypeInv /\ Route(o) /\ Moves(o) /\ call' = call
      /\ Rows(o) /\ TerritoryInv /\ TenantInv /\ Footprint(o) /\ o \in UserIds
    BY StepTypes, StepFootprint
       DEF BuriedInv, GrantInv, RowsInv, TerritoryInv, KeysInv, UserIds
<1> SUFFICES ASSUME companies'[c] = None, ~HalfDeleted(c)'
             PROVE  NothingLeft(c)'
    BY DEF Buried
<1>1. ~HalfDeleted(c)
    BY <1>0, HalfDeletedStays
<1>2. groups' \subseteq groups /\ belongings'[c] \subseteq belongings[c]
    BY <1>0 DEF Moves
<1>3. CASE companies[c] # None
    <2>1. pc[o] = "deleteCompany" /\ c = call[o].company
        BY <1>0, <1>3 DEF Footprint
    <2>2. UNCHANGED <<users, grants>>
        BY <1>0, <2>1 DEF Moves
    <2>3. /\ UsersOf(c) = {} /\ belongings[c] = {} /\ seen[o].list = {}
          /\ \A g \in groups : g[1] # c
        BY <1>0, <2>1 DEF Rows, Emptied
    <2>4. UsersOf(c)' = {}
        BY <1>0, <2>2, <2>3, ResidentsStay DEF UsersOf
    <2>5. ASSUME NEW u \in UserIds, grants[u] # None, grants[u][1] = c
          PROVE  FALSE
        <3>1. HomeOf(u) = c
            BY <1>0, <2>5 DEF TenantInv
        <3>2. users[u] = None
            BY <2>3, <3>1 DEF UsersOf
        <3>3. ~HalfDeleted(HomeOf(u))
            BY <1>1, <3>1
        <3>4. PICK d \in Ops : pc[d] \in Listing /\ u \in seen[d].list
            BY <2>5, <3>2, <3>3 DEF BuriedInv, GrantInv, Granted, Awaited
        <3>5. Running(d) /\ Running(o) /\ d # o
            BY <2>1, <3>4 DEF Listing, Running, Finished
        <3>6. QED BY <1>0, <2>1, <3>5, Alone DEF TerritoryInv, DeletionSteps
    <2>6. \A u \in UserIds : grants'[u] # None => grants'[u][1] # c
        BY <2>2, <2>5
    <2>7. QED BY <1>2, <2>3, <2>4, <2>6 DEF NothingLeft
<1>4. CASE companies[c] = None
    <2>1. NothingLeft(c)
        BY <1>1, <1>4 DEF BuriedInv, Buried
    <2>2. ASSUME NEW u \in UserIds, u \in UsersOf(c)' PROVE FALSE
        <3>1. users[u] = None /\ users'[u] # None /\ HomeOf(u)' = c
            BY <1>0, <2>1, <2>2, ResidentsStay DEF NothingLeft
        <3>2. u = o /\ pc[o] = "insertUser"
            BY <1>0, <3>1, RowsAppear
        <3>3. companies[call[o].company] # None
            BY <1>0, <3>2 DEF Rows, WithCompany
        <3>4. HomeOf(u)' = call[o].company
            BY <1>0, <3>2, AccountsAssumption DEF HomeOf
        <3>5. QED BY <1>4, <3>1, <3>3, <3>4
    <2>3. UsersOf(c)' = {}
        BY <2>2 DEF UsersOf
    <2>4. ASSUME NEW u \in UserIds, grants'[u] # None, grants'[u][1] = c
          PROVE  FALSE
        <3>1. grants'[u] # grants[u]
            BY <2>1, <2>4 DEF NothingLeft
        <3>2. /\ users[u] # None
              /\ \/ u = o /\ pc[o] = "insertGrant"
                 \/ u = call[o].user /\ pc[o] = "upsertGrant"
            BY <1>0, <2>4, <3>1 DEF Moves, Rows, WithRow, TypeInv, TypeOK
        <3>3. Stamped(u) /\ HomeOf(u)' = HomeOf(u)
            BY <1>0, <3>2, StampsStay DEF KeysInv
        <3>4. HomeOf(u)' = c
            BY <1>0, <2>4, TenantStep DEF TenantInv
        <3>5. u \in UsersOf(c)
            BY <3>2, <3>3, <3>4 DEF UsersOf
        <3>6. QED BY <2>1, <3>5 DEF NothingLeft
    <2>5. QED BY <1>2, <2>1, <2>3, <2>4 DEF NothingLeft
<1>5. QED BY <1>3, <1>4

LEMMA BuriedStart ==
    ASSUME BuriedInv, NEW o \in Ops, Start(o), NEW c \in Companies
    PROVE  Buried(c)'
<1>0. TypeInv /\ KindInv /\ KeysInv
    BY DEF BuriedInv, GrantInv, RowsInv, TerritoryInv, KeysInv, KindInv
<1>1. UNCHANGED <<tables, account, seen, logged>>
    BY <1>0, StartMoves
<1>2. UNCHANGED <<companies, users, groups, grants, belongings>>
    BY <1>1 DEF tables
<1>3. HalfDeleted(c) => HalfDeleted(c)'
    BY <1>0, HalfDeletedStays
<1>4. UsersOf(c)' \subseteq UsersOf(c)
    BY <1>0, <1>2, ResidentsStay DEF UsersOf
<1>5. NothingLeft(c) => NothingLeft(c)'
    BY <1>2, <1>4 DEF NothingLeft
<1>6. QED BY <1>2, <1>3, <1>5 DEF BuriedInv, Buried

LEMMA BuriedKept == ASSUME ~Overlap, BuriedInv, [Next]_vars PROVE BuriedInv'
<1>0. GrantInv'
    BY GrantKept DEF BuriedInv
<1>1. CASE UNCHANGED vars
    BY <1>0, <1>1 DEF BuriedInv, Buried, NothingLeft, UsersOf, HalfDeleted, HomeOf,
                      vars, tables
<1>2. CASE Next
    BY <1>0, <1>2, BuriedStart, BuriedStep DEF BuriedInv, Next
<1>3. QED BY <1>1, <1>2

LEMMA BuriedInit == Init => BuriedInv
<1> SUFFICES ASSUME Init PROVE BuriedInv
    OBVIOUS
<1>1. \A c \in Companies : companies[c] # None
    BY AccountsAssumption DEF Init
<1>2. QED BY <1>1, GrantInit DEF BuriedInv, Buried

\* Once a company's row is gone, so is everything it lists, unless its deletion
\* failed, when no other request about the same user or address runs at the same
\* time.
LEMMA DeletionIsCompleteAlone ==
    ASSUME ~Overlap PROVE Spec => []DeletedCompanyLeavesNothing
<1>1. BuriedInv /\ [Next]_vars => BuriedInv'
    BY BuriedKept
<1>2. BuriedInv => DeletedCompanyLeavesNothing
    BY DEF BuriedInv, Buried, NothingLeft, DeletedCompanyLeavesNothing
<1>3. QED BY <1>1, <1>2, BuriedInit, PTL DEF Spec

-----------------------------------------------------------------------------
(* Rows and accounts.  While no request about u is between its call of     *)
(* Keycloak and its write, u's row and account agree.                      *)

\* The company of u is deleted, or far enough on the way.
Gone(c) ==
    \/ companies[c] = None \/ HalfDeleted(c)
    \/ \E d \in Ops : pc[d] \in Emptied /\ call[d].company = c

InFlight == {"insertUser", "findMade", "deleteMade", "updateCompany",
             "updateRow", "deleteGrant", "deleteRow"}

Busy(u) == \E q \in Ops : pc[q] \in InFlight /\ Subject(q) = u

Left(u) == users[u] = None /\ Gone(HomeOf(u))

Synced(u) == account[u] = users[u] \/ HalfDone(u) \/ Left(u)

\* What a request in between has done to the account of its user.
Parted(o) ==
    /\ pc[o] \in {"updateCompany", "updateRow"} =>
         account[call[o].user] = call[o].email \/ HalfDone(call[o].user)
    /\ pc[o] \in {"deleteGrant", "deleteRow"} =>
         \/ account[call[o].user] = None \/ HalfDone(call[o].user)
         \/ Left(call[o].user)

SyncInv ==
    /\ GrantInv
    /\ \A u \in UserIds : Stamped(u) => Synced(u) \/ Busy(u)
    /\ \A o \in Ops : pc[o] \in UpdateSteps \cup DeleteSteps =>
         Stamped(call[o].user)
    /\ \A o \in Ops : Parted(o)

LEMMA HalfDoneStays ==
    ASSUME KindInv, NEW o \in Ops, Start(o) \/ Step(o) \/ Crash(o), NEW u,
           HalfDone(u)
    PROVE  HalfDone(u)'
<1>1. PICK q \in Ops :
         /\ pc[q] = "failed" /\ Subject(q) = u
         /\ call[q].kind \in {"createUser", "updateUser", "deleteUser"}
    BY DEF HalfDone
<1>2. pc'[q] = pc[q] /\ call'[q] = call[q]
    <2>1. CASE Start(o)
        BY <1>1, <2>1, StartMoves DEF KindInv
    <2>2. CASE Step(o) \/ Crash(o)
        BY <1>1, <2>2, StepTypes DEF Route, Running, Finished
    <2>3. QED BY <2>1, <2>2
<1>3. QED BY <1>1, <1>2 DEF HalfDone, Subject

LEMMA GoneStays ==
    ASSUME KeysInv, NEW o \in Ops, Start(o) \/ Step(o) \/ Crash(o),
           NEW c \in Companies, Gone(c)
    PROVE  Gone(c)'
<1>0. KindInv /\ TypeInv
    BY DEF KeysInv, KindInv
<1>1. CASE companies[c] = None
    <2>1. companies'[c] = None
        <3>1. CASE Start(o)
            BY <1>0, <1>1, <3>1, StartMoves DEF tables
        <3>2. CASE Step(o) \/ Crash(o)
            BY <1>0, <1>1, <3>2, StepTypes DEF Moves, TypeInv, TypeOK
        <3>3. QED BY <3>1, <3>2
    <2>2. QED BY <2>1 DEF Gone
<1>2. CASE HalfDeleted(c)
    BY <1>0, <1>2, HalfDeletedStays DEF Gone
<1>3. CASE \E d \in Ops : pc[d] \in Emptied /\ call[d].company = c
    <2>1. PICK d \in Ops : pc[d] \in Emptied /\ call[d].company = c
        BY <1>3
    <2>2. CASE Start(o)
        <3>1. pc'[d] = pc[d] /\ call'[d] = call[d]
            BY <1>0, <2>1, <2>2, StartMoves DEF Emptied
        <3>2. QED BY <2>1, <3>1 DEF Gone
    <2>3. CASE (Step(o) \/ Crash(o)) /\ d # o
        <3>1. pc'[d] = pc[d] /\ call'[d] = call[d]
            BY <1>0, <2>3, StepTypes
        <3>2. QED BY <2>1, <3>1 DEF Gone
    <2>4. CASE (Step(o) \/ Crash(o)) /\ d = o
        <3>1. Route(o) /\ call' = call
            BY <1>0, <2>4, StepTypes
        <3>2. /\ pc'[o] \in Emptied \cup {"failed", "done"}
              /\ pc'[o] = "done" => pc[o] = "deleteCompany"
              /\ call[o].kind = "deleteCompany"
            BY <1>0, <2>1, <2>4, DeletionGoesOn DEF Emptied
        <3>3. pc'[o] = "done" => companies'[c] = None
            BY <2>1, <2>4, <3>1, <3>2 DEF Route
        <3>4. pc'[o] = "failed" => HalfDeleted(c)'
            BY <2>1, <2>4, <3>1, <3>2 DEF HalfDeleted
        <3>5. QED BY <2>1, <2>4, <3>1, <3>2, <3>3, <3>4 DEF Gone
    <2>5. QED BY <2>2, <2>3, <2>4
<1>4. QED BY <1>1, <1>2, <1>3 DEF Gone


\* The step in between belongs to the only request about its user.
LEMMA BusyOne ==
    ASSUME TerritoryInv, NEW o \in Ops, Running(o), NEW u \in UserIds,
           u \in Mine(o), Busy(u)
    PROVE  pc[o] \in InFlight /\ Subject(o) = u
<1>0. KindInv
    BY DEF TerritoryInv, KeysInv
<1>1. PICK q \in Ops : pc[q] \in InFlight /\ Subject(q) = u
    BY DEF Busy
<1>2. Running(q) /\ Subject(q) \in Mine(q)
    <2>1. Running(q)
        BY <1>1 DEF InFlight, Running, Finished
    <2>2. CASE pc[q] \in {"insertUser", "findMade", "deleteMade"}
        BY <1>0, <2>1, <2>2, Mines, StepCalls DEF CreateSteps
    <2>3. CASE pc[q] \in {"updateCompany", "updateRow", "deleteGrant", "deleteRow"}
        BY <1>0, <2>1, <2>3, Mines, StepCalls, AccountsAssumption
           DEF UpdateSteps, DeleteSteps
    <2>4. QED BY <1>1, <2>1, <2>2, <2>3 DEF InFlight
<1>3. q = o
    BY <1>1, <1>2 DEF TerritoryInv, Apart
<1>4. QED BY <1>1, <1>3

LEMMA HomesAreCompanies ==
    ASSUME KindInv, NEW u \in UserIds, Stamped(u) PROVE HomeOf(u) \in Companies
<1>1. CASE u \in Admins
    BY <1>1, AccountsAssumption DEF HomeOf
<1>2. CASE u \in Ops
    <2>1. call[u] \in Calls /\ call[u].kind = "createUser"
        BY <1>2 DEF KindInv, Stamped
    <2>2. call[u].company \in Companies
        BY <2>1, CallKinds DEF CreateCalls
    <2>3. QED BY <1>2, <2>2, AccountsAssumption DEF HomeOf
<1>3. QED BY <1>1, <1>2 DEF UserIds

\* A user whose company is going stays without a row.
LEMMA LeftStays ==
    ASSUME KeysInv, NEW o \in Ops, Start(o) \/ Step(o) \/ Crash(o),
           NEW u \in UserIds, Stamped(u), Left(u), users'[u] = None
    PROVE  Left(u)'
<1>1. HomeOf(u) \in Companies /\ HomeOf(u)' = HomeOf(u)
    BY HomesAreCompanies, StampsStay DEF KeysInv
<1>2. PICK h \in Companies : h = HomeOf(u)
    BY <1>1
<1>3. Gone(h)'
    BY <1>2, GoneStays DEF Left
<1>4. QED BY <1>1, <1>2, <1>3 DEF Left, Gone, HalfDeleted

\* The account a request has found is its own user's, unless another request
\* about that user has failed.
LEMMA FoundOwn ==
    ASSUME SyncInv, NEW o \in Ops, pc[o] \in {"moveAccount", "deleteAccount"}
    PROVE  seen[o].id = call[o].user \/ HalfDone(call[o].user)
<1>0. /\ TerritoryInv /\ KindInv /\ KeysInv /\ Running(o)
      /\ seen[o].id \in UserIds
    BY DEF SyncInv, GrantInv, RowsInv, TerritoryInv, KeysInv, KindInv, Running,
           Finished
<1> DEFINE u == call[o].user
<1>1. u \in UserIds /\ u \in Mine(o) /\ Stamped(u)
    BY <1>0, Mines, StepCalls, AccountsAssumption
       DEF SyncInv, UpdateSteps, DeleteSteps
<1>2. account[seen[o].id] = users[u] /\ users[u] # None
    BY <1>0 DEF TerritoryInv, Held
<1>3. ~Busy(u)
    BY <1>0, <1>1, BusyOne DEF InFlight
<1>4. account[u] = users[u] \/ HalfDone(u)
    BY <1>1, <1>2, <1>3 DEF SyncInv, Synced, Left
<1>5. QED BY <1>0, <1>1, <1>2, <1>4 DEF KeysInv

LEMMA PartedOthers ==
    ASSUME SyncInv, NEW o \in Ops, Step(o) \/ Crash(o), NEW p \in Ops, p # o
    PROVE  Parted(p)'
<1>0. /\ TerritoryInv /\ KindInv /\ KeysInv /\ Parted(p) /\ TypeInv
      /\ call' = call /\ pc'[p] = pc[p] /\ Route(o)
    BY StepTypes DEF SyncInv, GrantInv, RowsInv, TerritoryInv, KeysInv
<1> SUFFICES ASSUME pc[p] \in {"updateCompany", "updateRow", "deleteGrant",
                               "deleteRow"}
             PROVE  Parted(p)'
    BY <1>0 DEF Parted
<1>1. PICK u : u = call[p].user
    OBVIOUS
<1>2. /\ Running(p) /\ u \in UserIds /\ u \in Mine(p) /\ Stamped(u)
      /\ pc[p] \in {"updateCompany", "updateRow"} =>
           call[p].email \in Mine(p)
    BY <1>0, <1>1, Mines, StepCalls, AccountsAssumption
       DEF SyncInv, UpdateSteps, DeleteSteps, Running, Finished
<1>3. HalfDone(u) => HalfDone(u)'
    BY <1>0, HalfDoneStays
<1>4. users'[u] = users[u]
    BY <1>0, <1>2, Untouched
<1>5. Left(u) => Left(u)'
    BY <1>0, <1>2, <1>4, LeftStays DEF Left
<1>6. account[u] \in Mine(p) => account'[u] = account[u]
    BY <1>0, <1>2, Untouched
<1>7. account[u] = None => account'[u] = None
    <2>1. CASE account[u] = None /\ account'[u] # None
        <3>1. u = o /\ pc[o] = "createAccount"
            BY <1>0, <1>2, <2>1, AccountsAppear
        <3>2. u \in Mine(o) /\ Running(o)
            BY <1>0, <3>1, Mines DEF CreateSteps, Route
        <3>3. QED BY <1>2, <3>2, <1>0 DEF TerritoryInv, Apart
    <2>2. QED BY <2>1
<1>8. /\ HalfDone(call[p].user)' <=> HalfDone(u)'
      /\ Left(call[p].user)' <=> Left(u)'
    BY <1>0, <1>1 DEF HalfDone, Subject, Left, Gone, HalfDeleted, HomeOf
<1>9. QED BY <1>0, <1>1, <1>2, <1>3, <1>5, <1>6, <1>7, <1>8 DEF Parted


LEMMA PartedOwn ==
    ASSUME SyncInv, NEW o \in Ops, Step(o) \/ Crash(o) PROVE Parted(o)'
<1>0. /\ TerritoryInv /\ KindInv /\ KeysInv /\ Parted(o) /\ TypeInv
      /\ call' = call /\ Route(o) /\ Moves(o) /\ Running(o)
    BY StepTypes DEF SyncInv, GrantInv, RowsInv, TerritoryInv, KeysInv, Route
<1> SUFFICES ASSUME pc'[o] \in {"updateCompany", "updateRow", "deleteGrant",
                                "deleteRow"}
             PROVE  Parted(o)'
    BY DEF Parted
<1>1. PICK u : u = call[o].user
    OBVIOUS
<1>2. pc[o] \in UpdateSteps \cup DeleteSteps
    BY <1>0 DEF Route, UpdateSteps, DeleteSteps
<1>3. u \in UserIds /\ u \in Mine(o) /\ Stamped(u)
    BY <1>0, <1>1, <1>2, Mines, StepCalls, AccountsAssumption DEF SyncInv
<1>4. HalfDone(u) => HalfDone(u)'
    BY <1>0, HalfDoneStays
<1>5. users' = users
    BY <1>0 DEF Moves
<1>6. Left(u) => Left(u)'
    BY <1>0, <1>3, <1>5, LeftStays DEF Left
<1>7. /\ HalfDone(call[o].user)' <=> HalfDone(u)'
      /\ Left(call[o].user)' <=> Left(u)'
    BY <1>0, <1>1 DEF HalfDone, Subject, Left, Gone, HalfDeleted, HomeOf
<1>8. pc[o] \notin InFlight => Synced(u)
    BY <1>0, <1>3, BusyOne DEF SyncInv
<1>9. pc'[o] \in {"updateCompany", "updateRow"} =>
        account'[u] = call[o].email \/ HalfDone(u)'
    <2> SUFFICES ASSUME pc'[o] \in {"updateCompany", "updateRow"}
                 PROVE  account'[u] = call[o].email \/ HalfDone(u)'
        OBVIOUS
    <2>1. CASE pc[o] = "moveAccount"
        <3>1. account'[seen[o].id] = call[o].email
            BY <1>0, <2>1 DEF Route
        <3>2. QED BY <1>1, <1>4, <2>1, <3>1, FoundOwn
    <2>2. CASE pc[o] = "updateCompany"
        <3>1. account' = account
            BY <1>0, <2>2 DEF Moves
        <3>2. QED BY <1>0, <1>1, <1>4, <2>2, <3>1 DEF Parted
    <2>3. QED BY <1>0, <2>1, <2>2 DEF Route
<1>10. pc'[o] \in {"deleteGrant", "deleteRow"} =>
        account'[u] = None \/ HalfDone(u)' \/ Left(u)'
    <2> SUFFICES ASSUME pc'[o] \in {"deleteGrant", "deleteRow"}
                 PROVE  account'[u] = None \/ HalfDone(u)' \/ Left(u)'
        OBVIOUS
    <2>1. CASE pc[o] = "loadForDelete"
        <3>1. account' = account /\ users[u] = None
            BY <1>0, <1>1, <2>1 DEF Moves, Route
        <3>2. Synced(u)
            BY <1>8, <2>1 DEF InFlight
        <3>3. QED BY <1>4, <1>6, <3>1, <3>2 DEF Synced
    <2>2. CASE pc[o] = "findDoomed"
        <3>1. /\ account' = account /\ AccountAt(seen[o].email) = {}
              /\ seen[o].email = users[u] /\ users[u] # None
            BY <1>0, <1>1, <2>2 DEF Moves, Route, TerritoryInv, Held
        <3>2. Synced(u) /\ account[u] # users[u]
            BY <1>3, <1>8, <2>2, <3>1 DEF InFlight, AccountAt
        <3>3. QED BY <1>4, <1>6, <3>1, <3>2 DEF Synced
    <2>3. CASE pc[o] = "deleteAccount"
        <3>1. account'[seen[o].id] = None
            BY <1>0, <2>3 DEF Route
        <3>2. QED BY <1>1, <1>4, <2>3, <3>1, FoundOwn
    <2>4. CASE pc[o] = "deleteGrant"
        <3>1. account' = account
            BY <1>0, <2>4 DEF Moves
        <3>2. QED BY <1>0, <1>1, <1>4, <1>6, <2>4, <3>1 DEF Parted
    <2>5. QED BY <1>0, <2>1, <2>2, <2>3, <2>4 DEF Route
<1>11. QED BY <1>0, <1>1, <1>7, <1>9, <1>10 DEF Parted

\* What becomes of a user whose request is in between: it still is, or it has
\* failed, or row and account agree.
LEMMA SyncBusy ==
    ASSUME SyncInv, NEW o \in Ops, Step(o) \/ Crash(o), NEW u \in UserIds,
           Stamped(u), Busy(u)
    PROVE  Synced(u)' \/ Busy(u)'
<1>0. /\ TerritoryInv /\ KindInv /\ KeysInv /\ Parted(o) /\ TypeInv
      /\ call' = call /\ Route(o) /\ Moves(o) /\ Running(o) /\ Held(o)
      /\ \A p \in Ops \ {o} : pc'[p] = pc[p]
    BY StepTypes DEF SyncInv, GrantInv, RowsInv, TerritoryInv, KeysInv, Route
<1>1. PICK q \in Ops : pc[q] \in InFlight /\ Subject(q) = u
    BY DEF Busy
<1>2. CASE q # o
    BY <1>0, <1>1, <1>2 DEF Busy, Subject
<1>3. CASE q = o
    <2>1. CASE pc'[o] \in InFlight
        BY <1>0, <1>1, <1>3, <2>1 DEF Busy, Subject
    <2>2. CASE pc'[o] = "failed"
        <3>1. call[o].kind \in {"createUser", "updateUser", "deleteUser"}
            BY <1>0, <1>1, <1>3, StepCalls
               DEF InFlight, CreateSteps, UpdateSteps, DeleteSteps
        <3>2. QED BY <1>0, <1>1, <1>3, <2>2, <3>1 DEF Synced, HalfDone, Subject
    <2>3. CASE pc'[o] \notin InFlight /\ pc'[o] # "failed"
        <3>1. \/ pc[o] = "insertUser" /\ pc'[o] = "findGroup"
              \/ pc[o] = "updateRow" /\ pc'[o] = "done"
              \/ pc[o] = "deleteRow" /\ pc'[o] = "done"
            BY <1>0, <1>1, <1>3, <2>3
               DEF Route, InFlight, FirstLabels, Steps, Finished
        <3>2. HalfDone(u) => HalfDone(u)'
            BY <1>0, HalfDoneStays
        <3>3. account' = account
            BY <1>0, <3>1 DEF Moves
        <3>4. CASE pc[o] = "insertUser"
            <4>1. u = o /\ account[o] = call[o].email /\ users'[o] = call[o].email
                BY <1>0, <1>1, <1>3, <3>1, <3>4, StepCalls
                   DEF Held, AfterAccount, CreateSteps, Route
            <4>2. QED BY <3>3, <4>1 DEF Synced
        <3>5. CASE pc[o] = "updateRow"
            <4>1. u = call[o].user /\ users'[u] = call[o].email
                BY <1>0, <1>1, <1>3, <3>1, <3>5, StepCalls DEF UpdateSteps, Route
            <4>2. QED BY <1>0, <3>2, <3>3, <3>5, <4>1 DEF Synced, Parted
        <3>6. CASE pc[o] = "deleteRow"
            <4>1. u = call[o].user /\ users'[u] = None
                BY <1>0, <1>1, <1>3, <3>1, <3>6, StepCalls DEF DeleteSteps, Route
            <4>2. Left(u) => Left(u)'
                BY <1>0, <4>1, LeftStays
            <4>3. QED BY <1>0, <3>2, <3>3, <3>6, <4>1, <4>2 DEF Synced, Parted
        <3>7. QED BY <3>1, <3>4, <3>5, <3>6
    <2>4. QED BY <2>1, <2>2, <2>3
<1>4. QED BY <1>2, <1>3

\* What becomes of a user whom nobody is about.
LEMMA SyncIdle ==
    ASSUME SyncInv, NEW o \in Ops, Step(o) \/ Crash(o), NEW u \in UserIds,
           Stamped(u), ~Busy(u)
    PROVE  Synced(u)' \/ Busy(u)'
<1>0. /\ TerritoryInv /\ KindInv /\ KeysInv /\ TypeInv
      /\ call' = call /\ Route(o) /\ Moves(o) /\ Running(o) /\ Held(o)
      /\ o \in UserIds /\ Synced(u)
      /\ pc[o] \in {"deleteMade", "moveAccount", "deleteAccount"} =>
           seen[o].id \in UserIds
    BY StepTypes DEF SyncInv, GrantInv, RowsInv, TerritoryInv, KeysInv, KindInv,
                     Route, UserIds
<1>1. pc[o] \in InFlight => Subject(o) # u
    BY DEF Busy
<1>2. HalfDone(u) => Synced(u)'
    BY <1>0, HalfDoneStays DEF Synced
<1>3. users[u] = None => users'[u] = None
    <2>1. pc[o] = "insertUser" => Subject(o) = o
        BY <1>0, StepCalls DEF CreateSteps
    <2>2. QED BY <1>0, <1>1, <2>1, RowsAppear DEF InFlight
<1>4. CASE Left(u)
    <2>1. Left(u)'
        BY <1>0, <1>3, <1>4, LeftStays DEF Left
    <2>2. QED BY <2>1 DEF Synced
<1>5. CASE account[u] = users[u]
    <2>1. CASE account'[u] = account[u] /\ users'[u] = users[u]
        BY <1>5, <2>1 DEF Synced
    <2>2. CASE users'[u] # users[u]
        <3>1. /\ pc[o] = "deleteUsers" /\ pc'[o] = "deleteGroups"
              /\ u \in UsersOf(call[o].company) /\ users'[u] = None
            <4>1. /\ pc[o] = "insertUser" => Subject(o) = o
                  /\ pc[o] \in {"updateRow", "deleteRow"} =>
                       Subject(o) = call[o].user
                BY <1>0, StepCalls DEF CreateSteps, UpdateSteps, DeleteSteps
            <4>2. QED BY <1>0, <1>1, <2>2, <4>1 DEF Moves, InFlight, TypeInv, TypeOK
        <3>2. HomeOf(u)' = HomeOf(u)
            BY <1>0, StampsStay
        <3>3. Gone(HomeOf(u))'
            BY <1>0, <3>1, <3>2 DEF Gone, Emptied, UsersOf
        <3>4. QED BY <3>1, <3>3 DEF Synced, Left
    <2>3. CASE account'[u] # account[u]
        <3>1. CASE pc[o] = "createAccount" /\ pc'[o] = "insertUser" /\ u = o
            <4>1. Subject(o)' = u
                BY <1>0, <3>1, StepCalls DEF CreateSteps, Subject
            <4>2. QED BY <3>1, <4>1 DEF Busy, InFlight
        <3>2. CASE pc[o] = "deleteMade" /\ u = seen[o].id
            <4>1. Subject(o) = u
                BY <1>0, <3>2, StepCalls DEF Held
            <4>2. QED BY <1>1, <3>2, <4>1 DEF InFlight
        <3>3. CASE /\ pc[o] \in {"moveAccount", "deleteAccount"} /\ u = seen[o].id
                   /\ pc'[o] \in {"updateCompany", "updateRow", "deleteGrant"}
            <4>1. /\ account[u] = users[call[o].user] /\ users[call[o].user] # None
                  /\ call[o].user \in UserIds
                BY <1>0, <3>3, StepCalls DEF Held, UpdateSteps, DeleteSteps
            <4>2. u = call[o].user
                BY <1>0, <1>5, <4>1 DEF KeysInv
            <4>3. Subject(o)' = u
                BY <1>0, <3>3, <4>2, StepCalls DEF UpdateSteps, DeleteSteps, Subject
            <4>4. QED BY <3>3, <4>3 DEF Busy, InFlight
        <3>4. QED BY <1>0, <2>3, <3>1, <3>2, <3>3 DEF Moves, TypeInv, TypeOK
    <2>4. QED BY <2>1, <2>2, <2>3
<1>6. QED BY <1>0, <1>2, <1>4, <1>5 DEF Synced

LEMMA SyncStep ==
    ASSUME ~Overlap, SyncInv, NEW o \in Ops, Step(o) \/ Crash(o) PROVE SyncInv'
<1>0. /\ KindInv /\ call' = call /\ Route(o) /\ GrantInv'
      /\ \A p \in Ops \ {o} : pc'[p] = pc[p]
      /\ \A p \in Ops : pc'[p] # "idle" => pc[p] # "idle"
    BY StepTypes, GrantKept
       DEF SyncInv, GrantInv, RowsInv, TerritoryInv, KeysInv, Route, Running,
           Finished, Next
<1>1. ASSUME NEW u \in UserIds, Stamped(u)' PROVE Synced(u)' \/ Busy(u)'
    <2>1. Stamped(u)
        BY <1>0, <1>1 DEF Stamped
    <2>2. QED BY <2>1, SyncBusy, SyncIdle
<1>2. ASSUME NEW p \in Ops, pc'[p] \in UpdateSteps \cup DeleteSteps
      PROVE  Stamped(call[p].user)'
    <2>1. pc[p] \in UpdateSteps \cup DeleteSteps
        BY <1>0, <1>2 DEF Route, UpdateSteps, DeleteSteps, FirstLabels
    <2>2. PICK u : u = call[p].user
        OBVIOUS
    <2>3. u \in UserIds /\ Stamped(u)
        BY <1>0, <2>1, <2>2, StepCalls DEF SyncInv
    <2>4. Stamped(u)'
        BY <1>0, <2>3, StampsStay
    <2>5. QED BY <1>0, <2>2, <2>4 DEF Stamped
<1>3. QED BY <1>0, <1>1, <1>2, PartedOthers, PartedOwn DEF SyncInv


LEMMA SyncStart ==
    ASSUME ~Overlap, SyncInv, NEW o \in Ops, Start(o) PROVE SyncInv'
<1>0. /\ KeysInv /\ KindInv /\ TypeInv /\ GrantInv'
    BY GrantKept DEF SyncInv, GrantInv, RowsInv, TerritoryInv, KeysInv, KindInv, Next
<1>1. PICK c \in Calls :
             /\ call'[o] = c /\ pc'[o] = FirstStep(c.kind) /\ pc[o] = "idle"
             /\ c.kind \in {"updateUser", "updateRole", "deleteUser"} =>
                  HandedOut(c.user)
             /\ UNCHANGED <<tables, account, seen, logged>>
             /\ \A p \in Ops \ {o} : pc'[p] = pc[p] /\ call'[p] = call[p]
    BY <1>0, StartMoves
<1>2. UNCHANGED <<users, account>>
    BY <1>1 DEF tables
<1>3. ASSUME NEW u \in UserIds, Stamped(u) PROVE Synced(u)' \/ Busy(u)'
    <2>1. HalfDone(u) => HalfDone(u)'
        BY <1>0, HalfDoneStays
    <2>2. Left(u) => Left(u)'
        BY <1>0, <1>2, <1>3, LeftStays DEF Left
    <2>3. Busy(u) => Busy(u)'
        BY <1>1 DEF Busy, InFlight, Subject
    <2>4. QED BY <1>2, <1>3, <2>1, <2>2, <2>3 DEF SyncInv, Synced
<1>4. ASSUME NEW u \in UserIds, Stamped(u)', ~Stamped(u) PROVE Synced(u)'
    <2>1. account[u] = None /\ users[u] = None
        BY <1>0, <1>4 DEF KeysInv
    <2>2. QED BY <1>2, <2>1 DEF Synced
<1>5. ASSUME NEW p \in Ops, pc'[p] \in UpdateSteps \cup DeleteSteps
      PROVE  Stamped(call[p].user)'
    <2>1. PICK u : u = call'[p].user
        OBVIOUS
    <2>2. u \in UserIds /\ Stamped(u)
        <3>1. CASE p = o
            <4>1. c.kind \in {"updateUser", "deleteUser"}
                BY <1>1, <1>5, <3>1, FirstStepKinds
                   DEF UpdateSteps, DeleteSteps, FirstLabels
            <4>2. c.user \in UserIds /\ HandedOut(c.user)
                BY <1>1, <4>1, CallKinds DEF UpdateCalls, DeleteCalls
            <4>3. QED BY <1>1, <2>1, <3>1, <4>2 DEF HandedOut
        <3>2. CASE p # o
            BY <1>0, <1>1, <1>5, <2>1, <3>2, StepCalls DEF SyncInv
        <3>3. QED BY <3>1, <3>2
    <2>3. Stamped(u)'
        BY <1>0, <2>2, StampsStay
    <2>4. QED BY <2>1, <2>3 DEF Stamped
<1>6. ASSUME NEW p \in Ops PROVE Parted(p)'
    <2> SUFFICES ASSUME pc'[p] \in {"updateCompany", "updateRow", "deleteGrant",
                                    "deleteRow"}
                 PROVE  Parted(p)'
        BY DEF Parted
    <2>1. p # o
        BY <1>1, FirstStepKinds DEF FirstLabels
    <2>2. PICK u : u = call[p].user
        OBVIOUS
    <2>3. pc'[p] = pc[p] /\ call'[p] = call[p]
        BY <1>1, <2>1
    <2>4. u \in UserIds /\ Stamped(u)
        BY <1>0, <2>2, <2>3, StepCalls DEF SyncInv, UpdateSteps, DeleteSteps
    <2>5. HalfDone(u) => HalfDone(u)'
        BY <1>0, HalfDoneStays
    <2>6. Left(u) => Left(u)'
        BY <1>0, <1>2, <2>4, LeftStays DEF Left
    <2>7. /\ HalfDone(call[p].user)' <=> HalfDone(u)'
          /\ Left(call[p].user)' <=> Left(u)'
        BY <2>2, <2>3 DEF HalfDone, Subject, Left, Gone, HalfDeleted, HomeOf
    <2>8. QED BY <1>2, <2>2, <2>3, <2>5, <2>6, <2>7 DEF SyncInv, Parted
<1>7. QED BY <1>0, <1>3, <1>4, <1>5, <1>6 DEF SyncInv

LEMMA SyncKept == ASSUME ~Overlap, SyncInv, [Next]_vars PROVE SyncInv'
<1>1. CASE UNCHANGED vars
    <2>1. GrantInv'
        BY <1>1, GrantKept DEF SyncInv
    <2>2. UNCHANGED <<companies, users, account, pc, call>>
        BY <1>1 DEF vars, tables
    <2>3. /\ \A u : Synced(u)' <=> Synced(u)
          /\ \A u : Left(u)' <=> Left(u)
          /\ \A u : HalfDone(u)' <=> HalfDone(u)
          /\ \A u : Busy(u)' <=> Busy(u)
          /\ \A u : Stamped(u)' <=> Stamped(u)
        BY <2>2 DEF Synced, Busy, Left, HalfDone, Subject, Gone, HalfDeleted, HomeOf,
                    Stamped
    <2>4. \A o \in Ops : Parted(o)'
        BY <2>2 DEF SyncInv, Parted, Left, HalfDone, Subject, Gone, HalfDeleted,
                    HomeOf
    <2>5. \A o \in Ops : pc'[o] \in UpdateSteps \cup DeleteSteps =>
            Stamped(call[o].user)'
        BY <2>2 DEF SyncInv, Stamped
    <2>6. QED BY <2>1, <2>3, <2>4, <2>5 DEF SyncInv
<1>2. CASE Next
    BY <1>2, SyncStart, SyncStep DEF Next
<1>3. QED BY <1>1, <1>2

LEMMA SyncInit == Init => SyncInv
<1> SUFFICES ASSUME Init PROVE SyncInv
    OBVIOUS
<1>1. account = users /\ \A o \in Ops : pc[o] = "idle"
    BY DEF Init
<1>2. QED BY <1>1, GrantInit DEF SyncInv, Synced, Parted, UpdateSteps, DeleteSteps

\* The rows and the accounts agree at rest, but for users a request has failed
\* on, when no other request about the same user or address runs at the same
\* time.
LEMMA StoresAgreeAlone ==
    ASSUME ~Overlap PROVE Spec => []InSync
<1>1. SyncInv /\ [Next]_vars => SyncInv'
    BY SyncKept
<1>2. SyncInv => InSync
    <2>1. ASSUME SyncInv, Quiet, NEW u \in UserIds, Stamped(u),
                 companies[HomeOf(u)] # None
          PROVE  account[u] = users[u] \/ HalfDone(u) \/ HalfDeleted(HomeOf(u))
        <3>1. ~Busy(u)
            BY <2>1 DEF Quiet, Running, Finished, Busy, InFlight
        <3>2. \A d \in Ops : pc[d] \notin Emptied
            BY <2>1 DEF Quiet, Running, Finished, Emptied
        <3>3. QED BY <2>1, <3>1, <3>2 DEF SyncInv, Synced, Left, Gone
    <2>2. QED BY <2>1 DEF InSync
<1>3. QED BY <1>1, <1>2, SyncInit, PTL DEF Spec

-----------------------------------------------------------------------------
(* Tenants.  Each change of an account follows a check that the caller and *)
(* the user have the same home.                                            *)

Homes(o) ==
    /\ pc[o] # "idle" => Stamped(call[o].caller)
    /\ pc[o] \in {"checkEmail", "findCompany", "createAccount"} \cup AfterAccount =>
         HomeOf(call[o].caller) = call[o].company
    /\ pc[o] \in {"findAccount", "moveAccount", "findDoomed", "deleteAccount"} =>
         HomeOf(call[o].caller) = HomeOf(call[o].user)

HomesInv == SyncInv /\ \A o \in Ops : Homes(o)

\* The users that requests are about were made.
Known == \A o \in Ops : pc[o] \in UpdateSteps \cup DeleteSteps => Stamped(call[o].user)

\* A started request keeps its caller, its user and their homes.
LEMMA CallersStay ==
    ASSUME KindInv, Known, NEW o \in Ops, Start(o) \/ Step(o) \/ Crash(o),
           NEW p \in Ops, pc[p] # "idle", Stamped(call[p].caller)
    PROVE  /\ Stamped(call[p].caller)'
           /\ HomeOf(call[p].caller)' = HomeOf(call[p].caller)
           /\ call'[p] = call[p]
           /\ pc[p] \in UpdateSteps \cup DeleteSteps =>
                HomeOf(call[p].user)' = HomeOf(call[p].user)
<1>0. TypeInv
    BY DEF KindInv
<1>1. call'[p] = call[p]
    <2>1. CASE Start(o)
        BY <1>0, <2>1, StartMoves
    <2>2. CASE Step(o) \/ Crash(o)
        BY <1>0, <2>2, StepTypes
    <2>3. QED BY <2>1, <2>2
<1>2. PICK a : a = call[p].caller
    OBVIOUS
<1>3. a \in UserIds /\ Stamped(a)
    BY <1>0, <1>2, CallKinds DEF KindInv
<1>4. Stamped(a)' /\ HomeOf(a)' = HomeOf(a)
    BY <1>0, <1>3, StampsStay
<1>5. ASSUME pc[p] \in UpdateSteps \cup DeleteSteps
      PROVE  HomeOf(call[p].user)' = HomeOf(call[p].user)
    <2>1. PICK u : u = call[p].user
        OBVIOUS
    <2>2. u \in UserIds /\ Stamped(u)
        BY <1>0, <1>5, <2>1, StepCalls DEF Known
    <2>3. HomeOf(u)' = HomeOf(u)
        BY <1>0, <2>2, StampsStay
    <2>4. QED BY <1>1, <2>1, <2>3 DEF HomeOf
<1>6. QED BY <1>1, <1>2, <1>4, <1>5 DEF Stamped, HomeOf

LEMMA HomesStep ==
    ASSUME KindInv, Known, NEW o \in Ops, Step(o) \/ Crash(o), NEW p \in Ops,
           Homes(p)
    PROVE  Homes(p)'
<1>0. /\ TypeInv /\ Route(o) /\ call' = call
      /\ \A q \in Ops \ {o} : pc'[q] = pc[q]
    BY StepTypes
<1>1. CASE pc[p] = "idle"
    BY <1>0, <1>1 DEF Homes, Route, Running, Finished, AfterAccount
<1>2. CASE pc[p] # "idle"
    <2>1. /\ Stamped(call[p].caller)'
          /\ HomeOf(call[p].caller)' = HomeOf(call[p].caller)
          /\ pc[p] \in UpdateSteps \cup DeleteSteps =>
                HomeOf(call[p].user)' = HomeOf(call[p].user)
        BY <1>0, <1>2, CallersStay DEF Homes
    <2>2. pc'[p] \in {"checkEmail", "findCompany", "createAccount"} \cup AfterAccount =>
            HomeOf(call[p].caller) = call[p].company
        <3>1. CASE p # o
            BY <1>0, <3>1 DEF Homes
        <3>2. CASE p = o /\ pc'[o] \in AfterAccount
            <4>1. pc[o] \in AfterAccount \cup {"createAccount"}
                BY <1>0, <3>2, MadeAfter
            <4>2. QED BY <1>0, <3>2, <4>1 DEF Homes
        <3>3. CASE p = o /\ pc'[o] \notin AfterAccount
            BY <1>0, <3>3 DEF Homes, Route
        <3>4. QED BY <3>1, <3>2, <3>3
    <2>3. pc'[p] \in {"findAccount", "moveAccount", "findDoomed", "deleteAccount"} =>
            /\ HomeOf(call[p].caller) = HomeOf(call[p].user)
            /\ pc[p] \in UpdateSteps \cup DeleteSteps
        <3>1. CASE p # o
            BY <1>0, <3>1 DEF Homes, UpdateSteps, DeleteSteps
        <3>2. CASE p = o
            BY <1>0, <3>2 DEF Homes, Route, UpdateSteps, DeleteSteps
        <3>3. QED BY <3>1, <3>2
    <2>4. QED BY <1>0, <2>1, <2>2, <2>3 DEF Homes
<1>3. QED BY <1>1, <1>2

LEMMA HomesStart ==
    ASSUME KindInv, Known, NEW o \in Ops, Start(o), NEW p \in Ops, Homes(p)
    PROVE  Homes(p)'
<1>0. TypeInv
    BY DEF KindInv
<1>1. PICK c \in Calls :
             /\ call'[o] = c /\ pc'[o] = FirstStep(c.kind) /\ pc[o] = "idle"
             /\ MayHoldToken(c.caller)
             /\ \A q \in Ops \ {o} : pc'[q] = pc[q] /\ call'[q] = call[q]
    BY <1>0, StartMoves
<1>2. CASE p = o
    <2>1. PICK a : a = c.caller
        OBVIOUS
    <2>2. a \in UserIds /\ Stamped(a)
        BY <1>1, <2>1, CallKinds DEF MayHoldToken
    <2>3. Stamped(a)'
        BY <1>0, <2>2, StampsStay
    <2>4. Stamped(call[o].caller)'
        BY <1>1, <2>1, <2>3 DEF Stamped
    <2>5. pc'[o] \in FirstLabels
        BY <1>1, FirstStepKinds
    <2>6. QED BY <1>2, <2>4, <2>5 DEF Homes, FirstLabels, AfterAccount
<1>3. CASE p # o /\ pc[p] = "idle"
    BY <1>1, <1>3 DEF Homes, AfterAccount
<1>4. CASE p # o /\ pc[p] # "idle"
    <2>1. /\ Stamped(call[p].caller)'
          /\ HomeOf(call[p].caller)' = HomeOf(call[p].caller)
          /\ call'[p] = call[p] /\ pc'[p] = pc[p]
          /\ pc[p] \in UpdateSteps \cup DeleteSteps =>
                HomeOf(call[p].user)' = HomeOf(call[p].user)
        BY <1>0, <1>1, <1>4, CallersStay DEF Homes
    <2>2. QED BY <1>0, <2>1 DEF Homes, UpdateSteps, DeleteSteps
<1>5. QED BY <1>2, <1>3, <1>4

LEMMA HomesKept == ASSUME ~Overlap, HomesInv, [Next]_vars PROVE HomesInv'
<1>0. SyncInv'
    BY SyncKept DEF HomesInv
<1>1. CASE UNCHANGED vars
    BY <1>0, <1>1 DEF HomesInv, Homes, Stamped, HomeOf, vars, tables
<1>2. CASE Next
    <2>1. KindInv /\ Known
        BY DEF HomesInv, SyncInv, GrantInv, RowsInv, TerritoryInv, KeysInv, Known
    <2>2. QED BY <1>0, <1>2, <2>1, HomesStart, HomesStep DEF HomesInv, Next
<1>3. QED BY <1>1, <1>2

\* An account changes only by a request from the company of its user, or after a
\* request failed half-way, when no other request about the same user or address
\* runs at the same time.
LEMMA AccountsStayHomeAlone ==
    ASSUME ~Overlap PROVE Spec => AccountsStayInTenant
<1> DEFINE Kept == \A u \in UserIds : account[u] # None /\ account'[u] # account[u] =>
         \/ \E o \in Ops : Running(o) /\ HomeOf(call[o].caller) = HomeOf(u)
         \/ \E v \in UserIds : HalfDone(v)
<1>1. HomesInv /\ [Next]_vars => HomesInv'
    BY HomesKept
<1>2. HomesInv /\ [Next]_vars => [Kept]_vars
    <2> SUFFICES ASSUME HomesInv, Next, NEW u \in UserIds, account[u] # None,
                        account'[u] # account[u]
                 PROVE  \/ \E o \in Ops :
                             Running(o) /\ HomeOf(call[o].caller) = HomeOf(u)
                        \/ \E v \in UserIds : HalfDone(v)
        OBVIOUS
    <2>0. /\ KindInv /\ TypeInv /\ SyncInv /\ KeysInv
          /\ \A p \in Ops : Homes(p) /\ Held(p)
        BY DEF HomesInv, SyncInv, GrantInv, RowsInv, TerritoryInv, KeysInv, KindInv
    <2>1. PICK o \in Ops : Step(o) \/ Crash(o)
        BY <2>0, StartMoves DEF Next
    <2>2. Moves(o) /\ Route(o) /\ o \in UserIds
        BY <2>0, <2>1, StepTypes DEF UserIds
    <2>3. CASE pc[o] = "createAccount"
        <3>1. account[o] = None
            BY <2>0, <2>3 DEF KeysInv, KindInv, BeforeAccount
        <3>2. QED BY <2>0, <2>2, <2>3, <3>1 DEF Moves, TypeInv, TypeOK
    <2>4. CASE pc[o] = "deleteMade"
        <3>1. u = o
            BY <2>0, <2>2, <2>4 DEF Moves, Held, TypeInv, TypeOK
        <3>2. HomeOf(call[o].caller) = HomeOf(o)
            BY <2>0, <2>4, AccountsAssumption DEF Homes, HomeOf, AfterAccount
        <3>3. QED BY <2>2, <3>1, <3>2 DEF Route
    <2>5. CASE pc[o] \in {"moveAccount", "deleteAccount"}
        <3>1. u = seen[o].id
            BY <2>0, <2>2, <2>5 DEF Moves, TypeInv, TypeOK
        <3>2. call[o].user \in UserIds
            BY <2>0, <2>5, StepCalls DEF UpdateSteps, DeleteSteps
        <3>3. HomeOf(call[o].caller) = HomeOf(call[o].user)
            BY <2>0, <2>5 DEF Homes
        <3>4. QED BY <2>0, <2>2, <2>5, <3>1, <3>2, <3>3, FoundOwn DEF Route
    <2>6. QED BY <2>2, <2>3, <2>4, <2>5 DEF Moves
<1>3. Init => HomesInv
    <2> SUFFICES ASSUME Init PROVE HomesInv
        OBVIOUS
    <2>1. \A o \in Ops : pc[o] = "idle"
        BY DEF Init
    <2>2. QED BY <2>1, SyncInit DEF HomesInv, Homes, AfterAccount
<1>4. QED BY <1>1, <1>2, <1>3, PTL DEF Spec, AccountsStayInTenant

-----------------------------------------------------------------------------
(* Overlap.  ~Overlap is more than most properties need: what breaks them  *)
(* is which endpoints run together, whoever they are about.                *)

Never(kinds) == Kinds \cap kinds = {}

\* Only the endpoints in Kinds are called.
Within == KeysInv /\ \A o \in Ops : pc[o] # "idle" => call[o].kind \in Kinds

LEMMA WithinInit == Init => Within
BY KeysInit DEF Init, Within

LEMMA WithinKept == ASSUME Within, [Next]_vars PROVE Within'
<1>0. KeysInv' /\ KindInv /\ TypeInv
    BY KeysKept DEF Within, KeysInv, KindInv
<1>1. CASE UNCHANGED vars
    BY <1>0, <1>1 DEF Within, vars
<1>2. ASSUME NEW o \in Ops, Start(o) PROVE Within'
    <2>1. PICK c \in Calls : /\ c.kind \in Kinds
                             /\ call' = [call EXCEPT ![o] = c]
                             /\ Goto(o, FirstStep(c.kind))
        BY <1>2 DEF Start
    <2>2. QED BY <1>0, <2>1 DEF Within, Goto, TypeInv, TypeOK
<1>3. ASSUME NEW o \in Ops, Step(o) \/ Crash(o) PROVE Within'
    <2>1. /\ call' = call /\ Running(o)
          /\ \A p \in Ops \ {o} : pc'[p] = pc[p]
        BY <1>0, <1>3, StepTypes DEF Route
    <2>2. QED BY <1>0, <2>1 DEF Within, Running, Finished
<1>4. QED BY <1>1, <1>2, <1>3 DEF Next

LEMMA WithinSteps ==
    ASSUME Within, NEW o \in Ops
    PROVE  /\ pc[o] \in CreateSteps \cup {"deleteMade"} => "createUser" \in Kinds
           /\ pc[o] \in UpdateSteps => "updateUser" \in Kinds
           /\ pc[o] \in RoleSteps => "updateRole" \in Kinds
           /\ pc[o] \in DeleteSteps => "deleteUser" \in Kinds
           /\ pc[o] \in DeletionSteps => "deleteCompany" \in Kinds
<1>1. KindInv
    BY DEF Within, KeysInv
<1>2. QED BY <1>1, StepCalls
          DEF Within, CreateSteps, UpdateSteps, RoleSteps, DeleteSteps, DeletionSteps

\* Who was made by a request, was made by createUser.
LEMMA MadeByCreate ==
    ASSUME Within, Never({"createUser"}), NEW u \in UserIds, Stamped(u)
    PROVE  u \in Admins
BY DEF Within, Never, Stamped, UserIds

-----------------------------------------------------------------------------
(* Without updateUser, a user has one address for life.                    *)

Address(u) == IF u \in Admins THEN AdminEmail[u] ELSE call[u].email

SettledInv ==
    /\ Within
    /\ \A u \in UserIds : /\ users[u] \in {None, Address(u)}
                           /\ account[u] \in {None, Address(u)}

LEMMA SettledInit == Init => SettledInv
<1> SUFFICES ASSUME Init PROVE SettledInv
    OBVIOUS
<1>1. \A u \in UserIds : users[u] \in {None, Address(u)} /\ account[u] = users[u]
    BY DEF Init, Address, UserIds
<1>2. QED BY <1>1, WithinInit DEF SettledInv

LEMMA SettledKept ==
    ASSUME Never({"updateUser"}), SettledInv, [Next]_vars PROVE SettledInv'
<1>0. Within' /\ KeysInv /\ KindInv /\ TypeInv /\ Within
    BY WithinKept DEF SettledInv, Within, KeysInv, KindInv
<1>1. CASE UNCHANGED vars
    BY <1>0, <1>1 DEF SettledInv, Address, vars, tables
<1>2. ASSUME NEW o \in Ops, Start(o) PROVE SettledInv'
    <2>1. /\ pc[o] = "idle" /\ UNCHANGED <<users, account>>
          /\ \A p \in Ops \ {o} : call'[p] = call[p]
        BY <1>0, <1>2, StartMoves DEF tables
    <2>2. o \in UserIds /\ users[o] = None /\ account[o] = None
        BY <1>0, <2>1 DEF KeysInv, Stamped, UserIds
    <2>3. \A u \in UserIds \ {o} : Address(u)' = Address(u)
        BY <2>1 DEF Address, UserIds
    <2>4. QED BY <1>0, <2>1, <2>2, <2>3 DEF SettledInv
<1>3. ASSUME NEW o \in Ops, Step(o) \/ Crash(o) PROVE SettledInv'
    <2>1. Moves(o) /\ call' = call /\ o \in UserIds /\ o \notin Admins
        BY <1>0, <1>3, StepTypes, AccountsAssumption DEF UserIds
    <2>2. pc[o] \notin {"updateRow", "moveAccount"}
        BY <1>0, WithinSteps DEF Never, UpdateSteps
    <2>3. Address(o) = call[o].email /\ \A u : Address(u)' = Address(u)
        BY <2>1 DEF Address
    <2>4. \A u \in UserIds : \/ users'[u] \in {users[u], None}
                             \/ (u = o /\ users'[u] = Address(o))
        BY <1>0, <2>1, <2>2, <2>3 DEF Moves, TypeInv, TypeOK
    <2>5. \A u \in UserIds : \/ account'[u] \in {account[u], None}
                             \/ (u = o /\ account'[u] = Address(o))
        BY <1>0, <2>1, <2>2, <2>3 DEF Moves, TypeInv, TypeOK
    <2>6. QED BY <1>0, <2>3, <2>4, <2>5 DEF SettledInv
<1>4. QED BY <1>1, <1>2, <1>3 DEF Next

\* Then the clean-up finds the account that this call made, or another one when
\* its own is gone by now.
CleanInv ==
    /\ SettledInv
    /\ \A p \in Ops : pc[p] = "deleteMade" /\ account[p] # None => seen[p].id = p
    /\ \A p \in Ops : pc[p] = "failed" => account[p] = None \/ p \in logged
                                          \/ call[p] \notin CreateCalls

LEMMA CleanStep ==
    ASSUME Never({"updateUser"}), "crash" \notin Faults, CleanInv,
           NEW o \in Ops, Step(o) \/ Crash(o)
    PROVE  CleanInv'
<1>0. /\ SettledInv' /\ Within /\ KeysInv /\ KindInv /\ Route(o) /\ Moves(o)
      /\ call' = call /\ \A p \in Ops : p \in UserIds
      /\ \A p \in Ops \ {o} : pc'[p] = pc[p] /\ seen'[p] = seen[p]
    BY StepTypes, SettledKept
       DEF CleanInv, SettledInv, Within, KeysInv, UserIds, Next
<1>1. \A p \in Ops : account[p] # None => account[p] = call[p].email
    BY <1>0, AccountsAssumption DEF CleanInv, SettledInv, Address
<1>2. ASSUME NEW p \in Ops, pc'[p] = "deleteMade", account'[p] # None
      PROVE  seen'[p].id = p
    <2>1. account[p] # None
        BY <1>0, <1>2, AccountsAppear
    <2>2. CASE p = o
        <3>1. seen'[o].id \in UserIds /\ account[seen'[o].id] = call[o].email
            BY <1>0, <1>2, <2>2 DEF Route
        <3>2. QED BY <1>0, <1>1, <2>1, <2>2, <3>1 DEF KeysInv
    <2>3. CASE p # o
        BY <1>0, <1>2, <2>1, <2>3 DEF CleanInv
    <2>4. QED BY <2>2, <2>3
<1>3. ASSUME NEW p \in Ops, pc'[p] = "failed", call[p] \in CreateCalls
      PROVE  account'[p] = None \/ p \in logged'
    <2>1. CASE account[p] = None
        BY <1>0, <1>3, <2>1, AccountsAppear
    <2>2. CASE account[p] # None /\ p # o
        BY <1>0, <1>3, <2>2, AccountsAppear DEF CleanInv, Moves
    <2>3. CASE account[p] # None /\ p = o
        <3>1. seen[o].made
            BY <1>0, <2>3 DEF KeysInv
        <3>2. account[o] = call[o].email
            BY <1>1, <2>3
        <3>3. pc[o] = "deleteMade" => seen[o].id = o
            BY <2>3 DEF CleanInv
        <3>4. ~(pc[o] = "findMade" /\ AccountAt(call[o].email) = {})
            BY <1>0, <3>2 DEF AccountAt
        <3>5. QED BY <1>0, <1>3, <2>3, <3>1, <3>3, <3>4 DEF Route
    <2>4. QED BY <2>1, <2>2, <2>3
<1>4. QED BY <1>0, <1>2, <1>3 DEF CleanInv

LEMMA CleanKept ==
    ASSUME Never({"updateUser"}), "crash" \notin Faults, CleanInv, [Next]_vars
    PROVE  CleanInv'
<1>0. SettledInv' /\ KindInv /\ TypeInv
    BY SettledKept DEF CleanInv, SettledInv, Within, KeysInv, KindInv
<1>1. CASE UNCHANGED vars
    BY <1>0, <1>1 DEF CleanInv, vars
<1>2. ASSUME NEW o \in Ops, Start(o) PROVE CleanInv'
    <2>1. PICK c \in Calls :
             /\ pc'[o] = FirstStep(c.kind)
             /\ UNCHANGED <<tables, account, seen, logged>>
             /\ \A p \in Ops \ {o} : pc'[p] = pc[p] /\ call'[p] = call[p]
        BY <1>0, <1>2, StartMoves
    <2>2. pc'[o] \notin {"failed", "deleteMade"}
        BY <2>1, FirstStepKinds DEF FirstLabels
    <2>3. QED BY <1>0, <2>1, <2>2 DEF CleanInv
<1>3. QED BY <1>1, <1>2, CleanStep DEF Next

\* A createCompanyUser that answered with an error left no account behind, or
\* logged that it must be deleted by hand, if the process lives: its cleanup finds
\* the account by the address, which only updateCompanyUser can change meanwhile.
THEOREM FailedCreateCleansUp ==
    ASSUME "crash" \notin Faults, ~Overlap \/ Never({"updateUser"})
    PROVE  Spec => []FailedCreateLeavesNoAccount
<1>1. CASE ~Overlap
    BY <1>1, FailedCreateCleansUpAlone
<1>2. CASE Never({"updateUser"})
    <2>1. CleanInv /\ [Next]_vars => CleanInv'
        BY <1>2, CleanKept
    <2>2. CleanInv => FailedCreateLeavesNoAccount
        <3>1. ASSUME CleanInv, NEW p \in Ops, pc[p] = "failed", Stamped(p)
              PROVE  call[p] \in CreateCalls
            <4>1. call[p] \in Calls /\ call[p].kind = "createUser"
                BY <3>1 DEF CleanInv, SettledInv, Within, KeysInv, KindInv, Stamped
            <4>2. QED BY <4>1, CallKinds
        <3>2. QED BY <3>1 DEF CleanInv, FailedCreateLeavesNoAccount
    <2>3. Init => CleanInv
        BY SettledInit DEF Init, CleanInv
    <2>4. QED BY <2>1, <2>2, <2>3, PTL DEF Spec
<1>3. QED BY <1>1, <1>2

-----------------------------------------------------------------------------
(* When users are not created and deleted at the same time either, a       *)
(* request that has an account in hand has its own user's.                 *)

Calm == Never({"updateUser"}) /\ (Never({"createUser"}) \/ Never({"deleteUser"}))

LEMMA KnownKept == ASSUME KindInv, Known, [Next]_vars PROVE Known'
<1>0. TypeInv
    BY DEF KindInv
<1>1. CASE UNCHANGED vars
    BY <1>1 DEF Known, Stamped, vars
<1>2. ASSUME NEW o \in Ops, Start(o) \/ Step(o) \/ Crash(o), NEW p \in Ops,
             pc'[p] \in UpdateSteps \cup DeleteSteps
      PROVE  Stamped(call'[p].user) /\ call'[p].user \in UserIds
    <2>1. CASE Start(o)
        <3>1. PICK c \in Calls :
                 /\ call'[o] = c /\ pc'[o] = FirstStep(c.kind)
                 /\ c.kind \in {"updateUser", "updateRole", "deleteUser"} =>
                      HandedOut(c.user)
                 /\ \A q \in Ops \ {o} : pc'[q] = pc[q] /\ call'[q] = call[q]
            BY <1>0, <2>1, StartMoves
        <3>2. CASE p = o
            <4>1. c.kind \in {"updateUser", "deleteUser"}
                BY <1>2, <3>1, <3>2, FirstStepKinds
                   DEF UpdateSteps, DeleteSteps, FirstLabels
            <4>2. QED BY <3>1, <3>2, <4>1, CallKinds
                      DEF UpdateCalls, DeleteCalls, HandedOut
        <3>3. CASE p # o
            BY <1>2, <3>1, <3>3, StepCalls DEF Known
        <3>4. QED BY <3>2, <3>3
    <2>2. CASE Step(o) \/ Crash(o)
        <3>1. /\ Route(o) /\ call' = call
              /\ \A q \in Ops \ {o} : pc'[q] = pc[q]
            BY <2>2, StepTypes
        <3>2. pc[p] \in UpdateSteps \cup DeleteSteps
            BY <1>2, <3>1 DEF Route, UpdateSteps, DeleteSteps, FirstLabels
        <3>3. QED BY <3>1, <3>2, StepCalls DEF Known
    <2>3. QED BY <1>2, <2>1, <2>2
<1>3. ASSUME NEW o \in Ops, Start(o) \/ Step(o) \/ Crash(o), NEW p \in Ops,
             pc'[p] \in UpdateSteps \cup DeleteSteps
      PROVE  Stamped(call[p].user)'
    <2>1. PICK u : u = call'[p].user
        OBVIOUS
    <2>2. u \in UserIds /\ Stamped(u)
        BY <1>2, <1>3, <2>1
    <2>3. Stamped(u)'
        BY <1>3, <2>2, StampsStay
    <2>4. QED BY <2>1, <2>3 DEF Stamped
<1>4. QED BY <1>1, <1>3 DEF Known, Next

InHand(o) ==
    /\ pc[o] \in AfterAccount => account[o] = call[o].email
    /\ pc[o] \in {"deleteMade", "deleteAccount"} => seen[o].id = Subject(o)
    /\ pc[o] \in {"findDoomed", "deleteAccount"} =>
         seen[o].email = Address(call[o].user)
    /\ pc[o] \in {"deleteGrant", "deleteRow"} =>
         \/ account[call[o].user] = None \/ HalfDone(call[o].user)
         \/ Left(call[o].user)

CalmInv ==
    /\ SettledInv /\ Known
    /\ \A o \in Ops : InHand(o)
    /\ \A u \in UserIds : Stamped(u) => Synced(u) \/ Busy(u)

LEMMA CalmFacts ==
    ASSUME CalmInv
    PROVE  /\ Within /\ KeysInv /\ KindInv /\ TypeInv /\ None \notin Emails
           /\ \A p \in Ops : p \in UserIds /\ p \notin Admins
           /\ \A u \in UserIds : account[u] # None => account[u] = Address(u)
           /\ \A u \in UserIds : users[u] # None => users[u] = Address(u)
           /\ \A p \in Ops : Address(p) = call[p].email
BY AccountsAssumption
   DEF CalmInv, SettledInv, Within, KeysInv, KindInv, UserIds, Address

\* Where deleteUser is called, only those that registration made can be deleted,
\* and each has its address to itself.
LEMMA OnlyAdmins ==
    ASSUME Calm, CalmInv, NEW o \in Ops, pc[o] \in DeleteSteps
    PROVE  /\ Never({"createUser"})
           /\ call[o].user \in Admins
           /\ \A v \in UserIds : account[v] # None /\ account[v] = Address(call[o].user)
                                   => v = call[o].user
           /\ \A q \in Ops : pc[q] \notin CreateSteps \cup {"deleteMade"}
<1>1. Never({"createUser"})
    BY CalmFacts, WithinSteps DEF Calm, Never
<1>2. \A v \in UserIds : Stamped(v) => v \in Admins
    BY <1>1, CalmFacts, MadeByCreate
<1>3. call[o].user \in Admins
    BY <1>2, CalmFacts, StepCalls DEF CalmInv, Known
<1>4. \A v \in UserIds : account[v] # None => v \in Admins /\ account[v] = AdminEmail[v]
    BY <1>2, CalmFacts DEF KeysInv, Address
<1>5. \A q \in Ops : pc[q] \notin CreateSteps \cup {"deleteMade"}
    BY <1>1, CalmFacts, WithinSteps DEF Never
<1>6. QED BY <1>1, <1>3, <1>4, <1>5, AccountsAssumption DEF Address

\* Nothing but the user's own deletion takes the account of a running creation.
LEMMA InHandStep ==
    ASSUME Calm, CalmInv, NEW o \in Ops, Step(o) \/ Crash(o), NEW p \in Ops
    PROVE  InHand(p)'
<1>0. /\ Within /\ KeysInv /\ KindInv /\ TypeInv /\ Route(o) /\ Moves(o)
      /\ call' = call /\ InHand(p) /\ InHand(o) /\ None \notin Emails
      /\ \A q \in Ops \ {o} : pc'[q] = pc[q] /\ seen'[q] = seen[q]
      /\ p \in UserIds /\ o \in UserIds
      /\ pc[o] \in {"deleteMade", "moveAccount", "deleteAccount"} =>
           seen[o].id \in UserIds
    BY StepTypes, CalmFacts DEF CalmInv, KindInv
<1>1. pc'[p] \in AfterAccount => account'[p] = call[p].email
    <2> SUFFICES ASSUME pc'[p] \in AfterAccount PROVE account'[p] = call[p].email
        OBVIOUS
    <2>1. CASE p = o /\ pc[o] = "createAccount" /\ pc'[o] = "insertUser"
        BY <1>0, <2>1 DEF Route
    <2>2. CASE ~(p = o /\ pc[o] = "createAccount" /\ pc'[o] = "insertUser")
        <3>1. pc[p] \in AfterAccount
            BY <1>0, <2>2, MadeAfter
        <3>2. account[p] = call[p].email /\ "createUser" \in Kinds
            BY <1>0, <3>1, WithinSteps DEF InHand, AfterAccount, CreateSteps
        <3>3. pc[o] \notin {"moveAccount", "deleteAccount"}
            BY <1>0, <3>2, WithinSteps DEF Calm, Never, UpdateSteps, DeleteSteps
        <3>4. pc[o] = "deleteMade" => seen[o].id = o
            BY <1>0, StepCalls DEF InHand
        <3>5. CASE account' = account
            BY <3>2, <3>5
        <3>6. CASE account' # account
            <4>1. \/ /\ pc[o] = "createAccount" /\ pc'[o] = "insertUser"
                     /\ account' = [account EXCEPT ![o] = call[o].email]
                  \/ /\ pc[o] = "deleteMade" /\ pc'[o] = "failed"
                     /\ account' = [account EXCEPT ![o] = None]
                BY <1>0, <3>3, <3>4, <3>6 DEF Moves
            <4>2. p # o
                BY <2>2, <4>1 DEF AfterAccount
            <4>3. account'[p] = account[p]
                BY <1>0, <4>1, <4>2 DEF TypeInv, TypeOK
            <4>4. QED BY <3>2, <4>3
        <3>7. QED BY <3>5, <3>6
    <2>3. QED BY <2>1, <2>2
<1>2. pc'[p] \in {"deleteMade", "deleteAccount"} => seen'[p].id = Subject(p)'
    <2>1. Subject(p)' = Subject(p)
        BY <1>0 DEF Subject
    <2>2. CASE p # o
        BY <1>0, <2>1, <2>2 DEF InHand
    <2>3. CASE p = o /\ pc'[o] = "deleteMade"
        <3>1. /\ pc[o] = "findMade" /\ seen'[o].id \in UserIds
              /\ account[seen'[o].id] = call[o].email
            BY <1>0, <2>3 DEF Route
        <3>2. account[o] = call[o].email /\ account[o] # None /\ Subject(o) = o
            BY <1>0, <3>1, StepCalls DEF InHand, AfterAccount, CreateSteps
        <3>3. QED BY <1>0, <2>1, <2>3, <3>1, <3>2 DEF KeysInv
    <2>4. CASE p = o /\ pc'[o] = "deleteAccount"
        <3>1. /\ pc[o] = "findDoomed" /\ seen'[o].id \in UserIds
              /\ account[seen'[o].id] = seen[o].email
            BY <1>0, <2>4 DEF Route
        <3>2. seen[o].email = Address(call[o].user) /\ Subject(o) = call[o].user
            BY <1>0, <3>1, StepCalls DEF InHand, DeleteSteps
        <3>3. /\ call[o].user \in Admins
              /\ \A v \in UserIds : account[v] # None /\ account[v] = Address(call[o].user)
                                      => v = call[o].user
            BY <3>1, OnlyAdmins DEF DeleteSteps
        <3>4. Address(call[o].user) # None
            BY <3>3, AccountsAssumption DEF Address
        <3>5. QED BY <2>1, <2>4, <3>1, <3>2, <3>3, <3>4
    <2>5. QED BY <2>2, <2>3, <2>4
<1>3. pc'[p] \in {"findDoomed", "deleteAccount"} =>
        seen'[p].email = Address(call[p].user)'
    <2>1. Address(call[p].user)' = Address(call[p].user)
        BY <1>0 DEF Address
    <2>2. CASE p # o
        BY <1>0, <2>1, <2>2 DEF InHand
    <2>3. CASE p = o /\ pc'[o] = "findDoomed"
        <3>1. /\ pc[o] = "loadForDelete" /\ users[call[o].user] # None
              /\ seen'[o].email = users[call[o].user]
            BY <1>0, <2>3 DEF Route
        <3>2. call[o].user \in UserIds
            BY <1>0, <3>1, StepCalls DEF DeleteSteps
        <3>3. QED BY <2>1, <2>3, <3>1, <3>2, CalmFacts
    <2>4. CASE p = o /\ pc'[o] = "deleteAccount"
        BY <1>0, <2>1, <2>4 DEF Route, InHand
    <2>5. QED BY <2>2, <2>3, <2>4
<1>4. pc'[p] \in {"deleteGrant", "deleteRow"} =>
        \/ account'[call[p].user] = None \/ HalfDone(call[p].user)'
        \/ Left(call[p].user)'
    <2> SUFFICES ASSUME pc'[p] \in {"deleteGrant", "deleteRow"}
                 PROVE  \/ account'[call[p].user] = None \/ HalfDone(call[p].user)'
                        \/ Left(call[p].user)'
        OBVIOUS
    <2>1. PICK u : u = call[p].user
        OBVIOUS
    <2>2. pc[p] \in DeleteSteps
        BY <1>0 DEF Route, DeleteSteps
    <2>3. /\ u \in UserIds /\ Stamped(u) /\ Subject(p) = u
          /\ \A q \in Ops : pc[q] \notin CreateSteps \cup {"deleteMade"}
          /\ \A v \in UserIds : account[v] # None /\ account[v] = Address(u) => v = u
        BY <1>0, <2>1, <2>2, StepCalls, OnlyAdmins DEF CalmInv, Known
    <2>4. account[u] = None => account'[u] = None
        BY <1>0, <2>3, AccountsAppear DEF CreateSteps
    <2>5. users[u] = None => users'[u] = None
        BY <1>0, <2>3, RowsAppear DEF CreateSteps
    <2>6. HalfDone(u) => HalfDone(u)'
        BY <1>0, HalfDoneStays
    <2>7. Left(u) => Left(u)'
        BY <1>0, <2>3, <2>5, LeftStays DEF Left
    <2>8. /\ HalfDone(call[p].user)' <=> HalfDone(u)'
          /\ Left(call[p].user)' <=> Left(u)'
        BY <1>0, <2>1 DEF HalfDone, Subject, Left, Gone, HalfDeleted, HomeOf
    <2>9. \/ account[u] = None \/ HalfDone(u) \/ Left(u) \/ account'[u] = None
        <3>1. CASE pc[p] \in {"deleteGrant", "deleteRow"}
            BY <1>0, <2>1, <3>1 DEF InHand
        <3>2. CASE pc[p] \notin {"deleteGrant", "deleteRow"}
            <4>1. p = o
                BY <1>0, <3>2
            <4>2. CASE pc[o] = "loadForDelete" /\ users[u] = None
                <5>1. CASE Busy(u)
                    <6>1. PICK q \in Ops : pc[q] \in InFlight /\ Subject(q) = u
                        BY <5>1 DEF Busy
                    <6>2. pc[q] \in {"deleteGrant", "deleteRow"}
                        BY <1>0, <2>3, <6>1, WithinSteps
                           DEF InFlight, CreateSteps, Calm, Never, UpdateSteps
                    <6>3. call[q].user = u
                        BY <1>0, <6>1, <6>2, StepCalls DEF DeleteSteps
                    <6>4. QED BY <6>2, <6>3 DEF CalmInv, InHand
                <5>2. CASE Synced(u)
                    BY <4>2, <5>2 DEF Synced
                <5>3. QED BY <2>3, <5>1, <5>2 DEF CalmInv
            <4>3. CASE pc[o] = "findDoomed" /\ AccountAt(seen[o].email) = {}
                <5>1. account[u] # Address(u)
                    BY <1>0, <2>1, <2>3, <4>1, <4>3 DEF InHand, AccountAt
                <5>2. QED BY <2>3, <5>1, CalmFacts
            <4>4. CASE pc[o] = "deleteAccount" /\ account'[seen[o].id] = None
                BY <1>0, <2>3, <4>1, <4>4 DEF InHand
            <4>5. QED BY <1>0, <2>1, <3>2, <4>1, <4>2, <4>3, <4>4 DEF Route
        <3>3. QED BY <3>1, <3>2
    <2>10. QED BY <2>1, <2>4, <2>6, <2>7, <2>8, <2>9
<1>5. QED BY <1>0, <1>1, <1>2, <1>3, <1>4 DEF InHand

\* A row and its account part only in the hands of a request, which brings them
\* together again, or fails.
LEMMA CalmStep ==
    ASSUME Calm, CalmInv, NEW o \in Ops, Step(o) \/ Crash(o), NEW u \in UserIds,
           Stamped(u)
    PROVE  Synced(u)' \/ Busy(u)'
<1>0. /\ Within /\ KeysInv /\ KindInv /\ TypeInv /\ Route(o) /\ Moves(o)
      /\ call' = call /\ InHand(o) /\ None \notin Emails
      /\ \A q \in Ops \ {o} : pc'[q] = pc[q]
      /\ o \in UserIds /\ (Synced(u) \/ Busy(u))
    BY StepTypes, CalmFacts DEF CalmInv
<1>1. HalfDone(u) => Synced(u)'
    BY <1>0, HalfDoneStays DEF Synced
<1>2. pc[o] \notin UpdateSteps
    BY <1>0, WithinSteps DEF Calm, Never
<1>3. /\ pc[o] \in CreateSteps \cup {"deleteMade"} =>
           Subject(o) = o /\ call[o].kind = "createUser"
      /\ pc[o] \in DeleteSteps =>
           Subject(o) = call[o].user /\ call[o].kind = "deleteUser"
      /\ Subject(o)' = Subject(o)
    BY <1>0, StepCalls DEF Subject
<1>4. CASE pc[o] = "insertUser" /\ pc'[o] = "findGroup" /\ u = o
    <2>1. account[o] = call[o].email /\ users'[o] = call[o].email /\ account' = account
        BY <1>0, <1>4 DEF InHand, AfterAccount, Route, Moves
    <2>2. QED BY <1>4, <2>1 DEF Synced
<1>5. CASE /\ ~(pc[o] = "insertUser" /\ pc'[o] = "findGroup" /\ u = o)
           /\ Busy(u)
    <2>1. PICK q \in Ops : pc[q] \in InFlight /\ Subject(q) = u
        BY <1>5 DEF Busy
    <2>2. CASE q # o \/ pc'[o] \in InFlight
        BY <1>0, <1>3, <2>1, <2>2 DEF Busy, Subject
    <2>3. CASE q = o /\ pc'[o] = "failed"
        <3>1. call[o].kind \in {"createUser", "deleteUser"}
            BY <1>2, <1>3, <2>1, <2>3
               DEF InFlight, CreateSteps, UpdateSteps, DeleteSteps
        <3>2. QED BY <1>0, <1>3, <2>1, <2>3, <3>1 DEF Synced, HalfDone
    <2>4. CASE q = o /\ pc'[o] \notin InFlight \cup {"failed"}
        <3>1. pc[o] = "deleteRow" /\ pc'[o] = "done" /\ users'[call[o].user] = None
            BY <1>0, <1>2, <1>3, <1>5, <2>1, <2>4
               DEF Route, InFlight, FirstLabels, Steps, Finished, UpdateSteps,
                   CreateSteps
        <3>2. u = call[o].user
            BY <1>3, <2>1, <2>4, <3>1 DEF DeleteSteps
        <3>3. account' = account
            BY <1>0, <3>1 DEF Moves
        <3>4. Left(u) => Left(u)'
            BY <1>0, <3>1, <3>2, LeftStays
        <3>5. account[u] = None \/ HalfDone(u) \/ Left(u)
            BY <1>0, <3>1, <3>2 DEF InHand
        <3>6. QED BY <1>1, <3>1, <3>2, <3>3, <3>4, <3>5 DEF Synced
    <2>5. QED BY <2>2, <2>3, <2>4
<1>6. CASE /\ ~(pc[o] = "insertUser" /\ pc'[o] = "findGroup" /\ u = o)
           /\ ~Busy(u)
    <2>1. users[u] = None => users'[u] = None
        BY <1>0, <1>6, RowsAppear
    <2>2. CASE Left(u)
        <3>1. Left(u)'
            BY <1>0, <2>1, <2>2, LeftStays DEF Left
        <3>2. QED BY <3>1 DEF Synced
    <2>3. pc[o] \in InFlight => Subject(o) # u
        BY <1>6 DEF Busy
    <2>4. CASE account[u] = users[u] /\ users'[u] # users[u]
        <3>1. /\ pc[o] = "deleteUsers" /\ pc'[o] = "deleteGroups"
              /\ u \in UsersOf(call[o].company) /\ users'[u] = None
            BY <1>0, <1>2, <1>3, <2>3, <2>4
               DEF Moves, InFlight, TypeInv, TypeOK, CreateSteps, UpdateSteps,
                   DeleteSteps
        <3>2. HomeOf(u)' = HomeOf(u)
            BY <1>0, StampsStay
        <3>3. Gone(HomeOf(u))'
            BY <1>0, <3>1, <3>2 DEF Gone, Emptied, UsersOf
        <3>4. QED BY <3>1, <3>3 DEF Synced, Left
    <2>5. CASE account[u] = users[u] /\ users'[u] = users[u] /\ account'[u] # account[u]
        <3>1. \/ pc[o] = "createAccount" /\ pc'[o] = "insertUser" /\ u = o
              \/ pc[o] = "deleteMade" /\ u = seen[o].id
              \/ pc[o] = "deleteAccount" /\ pc'[o] = "deleteGrant" /\ u = seen[o].id
            BY <1>0, <1>2, <2>5 DEF Moves, TypeInv, TypeOK, UpdateSteps
        <3>2. u = Subject(o)
            BY <1>0, <1>3, <3>1 DEF InHand, CreateSteps
        <3>3. pc'[o] \in InFlight
            BY <2>3, <3>1, <3>2 DEF InFlight
        <3>4. QED BY <1>3, <3>2, <3>3 DEF Busy
    <2>6. QED BY <1>0, <1>1, <1>6, <2>2, <2>4, <2>5 DEF Synced
<1>7. QED BY <1>4, <1>5, <1>6

LEMMA CalmStart ==
    ASSUME CalmInv, NEW o \in Ops, Start(o)
    PROVE  /\ \A p \in Ops : InHand(p)'
           /\ \A u \in UserIds : Stamped(u)' => Synced(u)' \/ Busy(u)'
<1>0. KeysInv /\ KindInv /\ TypeInv
    BY CalmFacts
<1>1. PICK c \in Calls :
             /\ call'[o] = c /\ pc'[o] = FirstStep(c.kind) /\ pc[o] = "idle"
             /\ UNCHANGED <<tables, account, seen, logged>>
             /\ \A p \in Ops \ {o} : pc'[p] = pc[p] /\ call'[p] = call[p]
    BY <1>0, StartMoves
<1>2. UNCHANGED <<users, account, seen>>
    BY <1>1 DEF tables
<1>3. ASSUME NEW u \in UserIds, Stamped(u)
      PROVE  /\ HalfDone(u) => HalfDone(u)'
             /\ Left(u) => Left(u)'
    BY <1>0, <1>2, <1>3, HalfDoneStays, LeftStays DEF Left
<1>4. ASSUME NEW u \in UserIds, Stamped(u)' PROVE Synced(u)' \/ Busy(u)'
    <2>1. CASE Stamped(u)
        <3>1. Busy(u) => Busy(u)'
            BY <1>1 DEF Busy, InFlight, Subject
        <3>2. QED BY <1>2, <1>3, <2>1, <3>1 DEF CalmInv, Synced
    <2>2. CASE ~Stamped(u)
        <3>1. account[u] = None /\ users[u] = None
            BY <1>0, <2>2 DEF KeysInv
        <3>2. QED BY <1>2, <3>1 DEF Synced
    <2>3. QED BY <2>1, <2>2
<1>5. ASSUME NEW p \in Ops PROVE InHand(p)'
    <2>1. CASE p = o
        <3>1. pc'[o] \in FirstLabels
            BY <1>1, FirstStepKinds
        <3>2. QED BY <2>1, <3>1 DEF InHand, FirstLabels, AfterAccount
    <2>2. CASE p # o /\ pc[p] \in AfterAccount
        BY <1>1, <1>2, <2>2 DEF CalmInv, InHand, AfterAccount, Subject
    <2>3. CASE p # o /\ pc[p] \in DeleteSteps
        <3>1. PICK u : u = call[p].user
            OBVIOUS
        <3>2. u \in UserIds /\ Stamped(u) /\ Address(u)' = Address(u)
            <4>1. u \in UserIds /\ Stamped(u)
                BY <1>0, <2>3, <3>1, StepCalls DEF CalmInv, Known
            <4>2. u # o
                BY <1>1, <4>1 DEF Stamped
            <4>3. QED BY <1>1, <4>1, <4>2 DEF Address, UserIds
        <3>3. pc'[p] = pc[p] /\ call'[p] = call[p]
            BY <1>1, <2>3
        <3>4. /\ HalfDone(call[p].user)' <=> HalfDone(u)'
              /\ Left(call[p].user)' <=> Left(u)'
              /\ Address(call[p].user)' = Address(u)'
            BY <3>1, <3>3 DEF HalfDone, Subject, Left, Gone, HalfDeleted, HomeOf, Address
        <3>5. QED BY <1>2, <1>3, <2>3, <3>1, <3>2, <3>3, <3>4
                  DEF CalmInv, InHand, AfterAccount, DeleteSteps, Subject
    <2>4. CASE p # o /\ pc[p] \notin AfterAccount \cup DeleteSteps
        BY <1>1, <2>4 DEF InHand, AfterAccount, DeleteSteps
    <2>5. QED BY <2>1, <2>2, <2>3, <2>4
<1>6. QED BY <1>4, <1>5

LEMMA CalmKept == ASSUME Calm, CalmInv, [Next]_vars PROVE CalmInv'
<1>0. SettledInv' /\ Known' /\ KindInv
    BY SettledKept, KnownKept, CalmFacts DEF CalmInv, Calm
<1>1. CASE UNCHANGED vars
    <2>1. UNCHANGED <<companies, users, account, pc, call, seen>>
        BY <1>1 DEF vars, tables
    <2>2. \A o \in Ops : InHand(o)'
        BY <2>1 DEF CalmInv, InHand, Address, Left, HalfDone, Subject, Gone,
                    HalfDeleted, HomeOf
    <2>3. /\ \A u : Synced(u)' <=> Synced(u)
          /\ \A u : Busy(u)' <=> Busy(u)
          /\ \A u : Stamped(u)' <=> Stamped(u)
        BY <2>1 DEF Synced, Busy, Left, HalfDone, Subject, Gone, HalfDeleted, HomeOf,
                    Stamped
    <2>4. QED BY <1>0, <2>2, <2>3 DEF CalmInv
<1>2. ASSUME NEW o \in Ops, Step(o) \/ Crash(o) PROVE CalmInv'
    <2>1. ASSUME NEW u \in UserIds, Stamped(u)' PROVE Synced(u)' \/ Busy(u)'
        <3>1. Stamped(u)
            BY <1>0, <1>2, <2>1, StepTypes DEF Stamped, Route, Running, Finished
        <3>2. QED BY <1>2, <3>1, CalmStep
    <2>2. QED BY <1>0, <1>2, <2>1, InHandStep DEF CalmInv
<1>3. QED BY <1>0, <1>1, <1>2, CalmStart DEF CalmInv, Next

LEMMA CalmInit == Init => CalmInv
<1> SUFFICES ASSUME Init PROVE CalmInv
    OBVIOUS
<1>1. account = users /\ \A o \in Ops : pc[o] = "idle"
    BY DEF Init
<1>2. QED BY <1>1, SettledInit
          DEF CalmInv, Known, InHand, Synced, UpdateSteps, DeleteSteps, AfterAccount

\* The rows and the accounts agree at rest, but for users a request has failed
\* on: an address that two requests use must not move, nor be given away by a
\* deletion and taken by a creation.
THEOREM StoresAgree ==
    ASSUME ~Overlap \/ Calm PROVE Spec => []InSync
<1>1. CASE ~Overlap
    BY <1>1, StoresAgreeAlone
<1>2. CASE Calm
    <2>1. CalmInv /\ [Next]_vars => CalmInv'
        BY <1>2, CalmKept
    <2>2. CalmInv => InSync
        <3>1. ASSUME CalmInv, Quiet, NEW u \in UserIds, Stamped(u),
                     companies[HomeOf(u)] # None
              PROVE  account[u] = users[u] \/ HalfDone(u) \/ HalfDeleted(HomeOf(u))
            <4>1. ~Busy(u)
                BY <3>1 DEF Quiet, Running, Finished, Busy, InFlight
            <4>2. \A d \in Ops : pc[d] \notin Emptied
                BY <3>1 DEF Quiet, Running, Finished, Emptied
            <4>3. QED BY <3>1, <4>1, <4>2 DEF CalmInv, Synced, Left, Gone
        <3>2. QED BY <3>1 DEF InSync
    <2>3. QED BY <2>1, <2>2, CalmInit, PTL DEF Spec
<1>3. QED BY <1>1, <1>2

\* createCompanyUser's cleanup never removes somebody else's account, if no
\* address is given up while it runs.
THEOREM CleanupOfOwn ==
    ASSUME ~Overlap \/ Never({"updateUser", "deleteUser"})
    PROVE  Spec => []CleanupIsOwn
<1>1. CASE ~Overlap
    BY <1>1, CleanupOfOwnAlone
<1>2. CASE Never({"updateUser", "deleteUser"})
    <2>1. CalmInv /\ [Next]_vars => CalmInv'
        BY <1>2, CalmKept DEF Calm, Never
    <2>2. CalmInv => CleanupIsOwn
        <3>1. ASSUME CalmInv, NEW o \in Ops, pc[o] = "deleteMade" PROVE seen[o].id = o
            BY <3>1, CalmFacts, StepCalls DEF CalmInv, InHand
        <3>2. QED BY <3>1 DEF CleanupIsOwn
    <2>3. QED BY <2>1, <2>2, CalmInit, PTL DEF Spec
<1>3. QED BY <1>1, <1>2

CalmHomesInv == CalmInv /\ \A o \in Ops : Homes(o)

LEMMA CalmHomesKept == ASSUME Calm, CalmHomesInv, [Next]_vars PROVE CalmHomesInv'
<1>0. CalmInv' /\ KindInv /\ Known
    BY CalmKept, CalmFacts DEF CalmHomesInv, CalmInv
<1>1. CASE UNCHANGED vars
    BY <1>0, <1>1 DEF CalmHomesInv, Homes, Stamped, HomeOf, vars, tables
<1>2. CASE Next
    BY <1>0, <1>2, HomesStart, HomesStep DEF CalmHomesInv, Next
<1>3. QED BY <1>1, <1>2

\* An account changes only by a request from the company of its user, or after a
\* request failed half-way, if addresses do not change hands meanwhile.
THEOREM AccountsStayHome ==
    ASSUME ~Overlap \/ Calm PROVE Spec => AccountsStayInTenant
<1> DEFINE Kept == \A u \in UserIds : account[u] # None /\ account'[u] # account[u] =>
         \/ \E o \in Ops : Running(o) /\ HomeOf(call[o].caller) = HomeOf(u)
         \/ \E v \in UserIds : HalfDone(v)
<1>1. CASE ~Overlap
    BY <1>1, AccountsStayHomeAlone
<1>2. CASE Calm
    <2>1. CalmHomesInv /\ [Next]_vars => CalmHomesInv'
        BY <1>2, CalmHomesKept
    <2>2. CalmHomesInv /\ [Next]_vars => [Kept]_vars
        <3> SUFFICES ASSUME CalmHomesInv, Next, NEW u \in UserIds, account[u] # None,
                            account'[u] # account[u]
                     PROVE  \E o \in Ops :
                              Running(o) /\ HomeOf(call[o].caller) = HomeOf(u)
            OBVIOUS
        <3>0. /\ KindInv /\ TypeInv /\ KeysInv /\ Within
              /\ \A p \in Ops : Homes(p) /\ InHand(p)
            BY CalmFacts DEF CalmHomesInv, CalmInv
        <3>1. PICK o \in Ops : Step(o) \/ Crash(o)
            BY <3>0, StartMoves DEF Next
        <3>2. Moves(o) /\ Route(o) /\ o \in UserIds
            BY <3>0, <3>1, StepTypes DEF UserIds
        <3>3. pc[o] \in {"createAccount", "deleteMade", "deleteAccount"}
            BY <1>2, <3>0, <3>2, WithinSteps DEF Moves, Calm, Never, UpdateSteps
        <3>4. pc[o] # "createAccount"
            <4>1. pc[o] = "createAccount" => account[o] = None
                BY <3>0 DEF KeysInv, KindInv, BeforeAccount
            <4>2. QED BY <3>0, <3>2, <4>1 DEF Moves, TypeInv, TypeOK
        <3>5. u = seen[o].id
            BY <3>0, <3>2, <3>3, <3>4 DEF Moves, TypeInv, TypeOK
        <3>6. CASE pc[o] = "deleteMade"
            <4>1. u = o
                BY <3>0, <3>5, <3>6, StepCalls DEF InHand
            <4>2. HomeOf(call[o].caller) = HomeOf(o)
                BY <3>0, <3>6, AccountsAssumption DEF Homes, HomeOf, AfterAccount
            <4>3. QED BY <3>2, <4>1, <4>2 DEF Route
        <3>7. CASE pc[o] = "deleteAccount"
            <4>1. u = call[o].user
                BY <3>0, <3>5, <3>7, StepCalls DEF InHand, DeleteSteps
            <4>2. HomeOf(call[o].caller) = HomeOf(call[o].user)
                BY <3>0, <3>7 DEF Homes
            <4>3. QED BY <3>2, <4>1, <4>2 DEF Route
        <3>8. QED BY <3>3, <3>4, <3>6, <3>7
    <2>3. Init => CalmHomesInv
        BY CalmInit DEF Init, CalmHomesInv, Homes, AfterAccount
    <2>4. QED BY <2>1, <2>2, <2>3, PTL DEF Spec, AccountsStayInTenant
<1>3. QED BY <1>1, <1>2

-----------------------------------------------------------------------------
(* Grants.  Where none are written, or nobody is deleted, nothing overtakes *)
(* a grant.                                                                *)

\* Nothing is written but what takes something away.
Shrinking == Never({"createUser", "updateRole"})

ShrinkInv ==
    /\ Within /\ TenantInv
    /\ \A o \in Ops : Rows(o)
    /\ \A u \in UserIds : Granted(u)

LEMMA RowsShrink ==
    ASSUME Shrinking, Within, NEW o \in Ops, Step(o) \/ Crash(o), NEW p \in Ops,
           p # o, Rows(p)
    PROVE  Rows(p)'
<1>0. /\ KeysInv /\ KindInv /\ TypeInv /\ Moves(o) /\ call' = call
      /\ pc'[p] = pc[p] /\ seen'[p] = seen[p]
    BY StepTypes DEF Within, KeysInv
<1>1. /\ \A q \in Ops : pc[q] \notin CreateSteps \cup RoleSteps
    BY WithinSteps DEF Shrinking, Never
<1>2. \A u \in UserIds : users[u] = None => users'[u] = None
    BY <1>0, <1>1, RowsAppear DEF CreateSteps
<1>3. \A u \in UserIds : grants[u] = None => grants'[u] = None
    BY <1>0, <1>1 DEF Moves, TypeInv, TypeOK, CreateSteps, RoleSteps
<1>4. \A c : UsersOf(c)' \subseteq UsersOf(c)
    BY <1>0, <1>2, ResidentsStay DEF UsersOf
<1>5. /\ pc[p] = "deleteRow" => call[p].user \in UserIds
      /\ pc[p] \in DeletionSteps => call[p].company \in Companies
    BY <1>0, StepCalls DEF DeleteSteps
<1>6. pc[p] \notin WithCompany \cup WithRow \cup {"findNewGroup", "upsertGrant"}
    BY <1>1 DEF WithCompany, WithRow, CreateSteps, RoleSteps
<1>7. Emptied \subseteq DeletionSteps
    BY DEF Emptied, DeletionSteps
<1>8. /\ groups' \subseteq groups
      /\ \A c \in Companies : belongings'[c] \subseteq belongings[c]
    BY <1>0 DEF Moves
<1>9. UsersOf(call[p].company)' \subseteq UsersOf(call[p].company)
    BY <1>0, <1>4 DEF UsersOf, HomeOf
<1>10. pc'[p] = "deleteRow" => grants'[call[p].user] = None
    BY <1>0, <1>3, <1>5 DEF Rows
<1>11. pc'[p] = "deleteUsers" => UsersOf(call[p].company)' \subseteq seen'[p].list
    BY <1>0, <1>9 DEF Rows
<1>12. pc'[p] \in Emptied => UsersOf(call[p].company)' = {}
    BY <1>0, <1>9 DEF Rows
<1>13. pc'[p] \in Emptied \ {"deleteGroups"} => \A g \in groups' : g[1] # call[p].company
    BY <1>0, <1>8 DEF Rows
<1>14. pc'[p] \in {"deleteListedGrants", "deleteCompany"} =>
         belongings'[call[p].company] = {}
    BY <1>0, <1>5, <1>8 DEF Rows, DeletionSteps
<1>15. pc'[p] = "deleteCompany" => seen'[p].list = {}
    BY <1>0 DEF Rows
<1>16. QED BY <1>0, <1>6, <1>10, <1>11, <1>12, <1>13, <1>14, <1>15 DEF Rows

LEMMA ShrinkKept == ASSUME Shrinking, ShrinkInv, [Next]_vars PROVE ShrinkInv'
<1>0. Within' /\ KeysInv /\ KindInv /\ Within /\ TenantInv
    BY WithinKept DEF ShrinkInv, Within, KeysInv
<1>1. CASE UNCHANGED vars
    <2>1. TenantInv'
        <3>1. TypeInv'
            BY <1>1, TypeStep DEF ShrinkInv, TenantInv
        <3>2. QED BY <1>1, <3>1 DEF ShrinkInv, TenantInv, Stamped, HomeOf, vars, tables
    <2>2. \A o \in Ops : Rows(o)'
        BY <1>1 DEF ShrinkInv, Rows, UsersOf, HomeOf, vars, tables
    <2>3. \A u \in UserIds : Granted(u)'
        BY <1>1 DEF ShrinkInv, Granted, Awaited, HalfDeleted, HomeOf, vars, tables
    <2>4. QED BY <1>0, <2>1, <2>2, <2>3 DEF ShrinkInv
<1>2. ASSUME NEW o \in Ops, Start(o) PROVE ShrinkInv'
    BY <1>0, <1>2, RowsStart, TenantStart, GrantStart DEF ShrinkInv
<1>3. ASSUME NEW o \in Ops, Step(o) \/ Crash(o) PROVE ShrinkInv'
    BY <1>0, <1>3, RowsShrink, RowsOwn, TenantStep, GrantStep DEF ShrinkInv
<1>4. QED BY <1>1, <1>2, <1>3 DEF Next

LEMMA ShrinkInit == Init => ShrinkInv
BY WithinInit, RowsInit, GrantInit DEF ShrinkInv, GrantInv, RowsInv

\* Without deletions a row stays, and so does what a grant was written for.
KeptInv ==
    /\ Within
    /\ \A o \in Ops :
         /\ pc[o] \in WithRow => users[o] # None
         /\ pc[o] \in {"findNewGroup", "upsertGrant"} => users[call[o].user] # None
    /\ \A u \in UserIds : grants[u] # None => users[u] # None

LEMMA KeptKept ==
    ASSUME Never({"deleteUser", "deleteCompany"}), KeptInv, [Next]_vars PROVE KeptInv'
<1>0. Within' /\ KeysInv /\ KindInv /\ TypeInv /\ Within
    BY WithinKept DEF KeptInv, Within, KeysInv, KindInv
<1>1. CASE UNCHANGED vars
    BY <1>0, <1>1 DEF KeptInv, vars, tables
<1>2. ASSUME NEW o \in Ops, Start(o) PROVE KeptInv'
    <2>1. PICK c \in Calls : /\ pc'[o] = FirstStep(c.kind)
                             /\ UNCHANGED <<tables, account, seen, logged>>
                             /\ \A q \in Ops \ {o} : pc'[q] = pc[q] /\ call'[q] = call[q]
        BY <1>0, <1>2, StartMoves
    <2>2. pc'[o] \notin WithRow \cup {"findNewGroup", "upsertGrant"}
        BY <2>1, FirstStepKinds DEF FirstLabels, WithRow
    <2>3. QED BY <1>0, <2>1, <2>2 DEF KeptInv, tables
<1>3. ASSUME NEW o \in Ops, Step(o) \/ Crash(o) PROVE KeptInv'
    <2>1. /\ Route(o) /\ Moves(o) /\ call' = call /\ o \in UserIds
          /\ \A q \in Ops \ {o} : pc'[q] = pc[q]
        BY <1>0, <1>3, StepTypes DEF UserIds
    <2>2. pc[o] \notin {"deleteRow", "deleteUsers"}
        BY <1>0, WithinSteps DEF Never, DeleteSteps, DeletionSteps
    <2>3. \A u \in UserIds : users[u] # None => users'[u] # None
        BY <1>0, <1>3, <2>2, RowsGo
    <2>4. ASSUME NEW p \in Ops
          PROVE  /\ pc'[p] \in WithRow => users'[p] # None
                 /\ pc'[p] \in {"findNewGroup", "upsertGrant"} =>
                      users'[call[p].user] # None
        <3>1. /\ pc[p] \in RoleSteps => call[p].user \in UserIds
              /\ pc[p] = "insertUser" => call[p].email # None
              /\ p \in UserIds
            BY <1>0, StepCalls, AccountsAssumption DEF CreateSteps, UserIds
        <3>2. pc'[p] \in WithRow =>
                (users[p] # None \/ (users'[p] = call[p].email /\ pc[p] = "insertUser"))
            BY <2>1 DEF KeptInv, Route, WithRow
        <3>3. pc'[p] \in {"findNewGroup", "upsertGrant"} =>
                users[call[p].user] # None /\ pc[p] \in RoleSteps
            BY <2>1 DEF KeptInv, Route, RoleSteps
        <3>4. QED BY <2>3, <3>1, <3>2, <3>3
    <2>5. ASSUME NEW u \in UserIds, grants'[u] # None PROVE users'[u] # None
        <3>1. \/ grants[u] # None
              \/ u = o /\ pc[o] = "insertGrant"
              \/ u = call[o].user /\ pc[o] = "upsertGrant"
            BY <1>0, <2>1, <2>5 DEF Moves, TypeInv, TypeOK
        <3>2. users[u] # None
            BY <3>1 DEF KeptInv, WithRow
        <3>3. QED BY <2>3, <3>2
    <2>6. QED BY <1>0, <2>1, <2>4, <2>5 DEF KeptInv
<1>4. QED BY <1>1, <1>2, <1>3 DEF Next

\* No grant outlives its user at rest, unless the deletion of its company failed:
\* a user may not be given a role while they, or their company, are deleted.
THEOREM GrantsGoWithUsers ==
    ASSUME ~Overlap \/ Never({"createUser", "updateRole"})
                    \/ Never({"deleteUser", "deleteCompany"})
    PROVE  Spec => []GrantsHaveUsers
<1>1. CASE ~Overlap
    BY <1>1, GrantsGoWithUsersAlone
<1>2. CASE Never({"createUser", "updateRole"})
    <2>1. ShrinkInv /\ [Next]_vars => ShrinkInv'
        BY <1>2, ShrinkKept DEF Shrinking
    <2>2. ShrinkInv => GrantsHaveUsers
        <3>1. ASSUME ShrinkInv, Quiet, NEW u \in UserIds PROVE ~Awaited(u)
            BY <3>1 DEF Quiet, Running, Finished, Awaited, Listing
        <3>2. QED BY <3>1 DEF ShrinkInv, Granted, GrantsHaveUsers
    <2>3. QED BY <2>1, <2>2, ShrinkInit, PTL DEF Spec
<1>3. CASE Never({"deleteUser", "deleteCompany"})
    <2>1. KeptInv /\ [Next]_vars => KeptInv'
        BY <1>3, KeptKept
    <2>2. KeptInv => GrantsHaveUsers
        BY DEF KeptInv, GrantsHaveUsers
    <2>3. Init => KeptInv
        <3> SUFFICES ASSUME Init PROVE KeptInv
            OBVIOUS
        <3>1. \A u \in UserIds : grants[u] # None => users[u] # None
            BY AccountsAssumption DEF Init
        <3>2. QED BY <3>1, WithinInit DEF Init, KeptInv, WithRow
    <2>4. QED BY <2>1, <2>2, <2>3, PTL DEF Spec
<1>4. QED BY <1>1, <1>2, <1>3

LEMMA ResidentsShrink ==
    ASSUME Shrinking, Within, NEW o \in Ops, Start(o) \/ Step(o) \/ Crash(o), NEW c
    PROVE  UsersOf(c)' \subseteq UsersOf(c)
<1>0. KeysInv /\ KindInv /\ TypeInv
    BY DEF Within, KeysInv, KindInv
<1>1. \A u \in UserIds : users[u] = None => users'[u] = None
    <2>1. CASE Start(o)
        BY <1>0, <2>1, StartMoves DEF tables
    <2>2. CASE Step(o) \/ Crash(o)
        <3>1. pc[o] # "insertUser"
            BY WithinSteps DEF Shrinking, Never, CreateSteps
        <3>2. QED BY <1>0, <2>2, <3>1, RowsAppear, StepTypes
    <2>3. QED BY <2>1, <2>2
<1>2. QED BY <1>0, <1>1, ResidentsStay DEF UsersOf

\* Nothing but grants can still name a company whose row is gone.
Cleared(c) ==
    UsersOf(c) = {} /\ (\A g \in groups : g[1] # c) /\ belongings[c] = {}

ClearedInv ==
    ShrinkInv /\ \A c \in Companies : companies[c] = None => Cleared(c)

LEMMA ClearedKept == ASSUME Shrinking, ClearedInv, [Next]_vars PROVE ClearedInv'
<1>0. ShrinkInv' /\ Within /\ KeysInv /\ KindInv
    BY ShrinkKept DEF ClearedInv, ShrinkInv, Within, KeysInv
<1>1. CASE UNCHANGED vars
    BY <1>0, <1>1 DEF ClearedInv, Cleared, UsersOf, HomeOf, vars, tables
<1>2. ASSUME NEW o \in Ops, Start(o), NEW c \in Companies, companies'[c] = None
      PROVE  Cleared(c)'
    <2>1. UNCHANGED <<tables, account, seen, logged>>
        BY <1>0, <1>2, StartMoves DEF KindInv
    <2>2. QED BY <1>0, <1>2, <2>1, ResidentsShrink DEF ClearedInv, Cleared, tables
<1>3. ASSUME NEW o \in Ops, Step(o) \/ Crash(o), NEW c \in Companies,
             companies'[c] = None
      PROVE  Cleared(c)'
    <2>1. Moves(o) /\ Rows(o) /\ TypeInv
        BY <1>0, <1>3, StepTypes DEF ClearedInv, ShrinkInv, KindInv
    <2>2. /\ UsersOf(c)' \subseteq UsersOf(c)
          /\ groups' \subseteq groups /\ belongings'[c] \subseteq belongings[c]
        BY <1>0, <1>3, <2>1, ResidentsShrink DEF Moves
    <2>3. companies[c] # None => pc[o] = "deleteCompany" /\ c = call[o].company
        <3>1. pc[o] # "updateCompany" \/ call[o].email # None
            BY <1>0, StepCalls, AccountsAssumption DEF UpdateSteps
        <3>2. QED BY <1>3, <2>1, <3>1 DEF Moves, TypeInv, TypeOK
    <2>4. Cleared(c)
        BY <1>3, <2>1, <2>3 DEF ClearedInv, Cleared, Rows, Emptied
    <2>5. QED BY <2>2, <2>4 DEF Cleared
<1>4. QED BY <1>0, <1>1, <1>2, <1>3 DEF ClearedInv, Next

\* Once a company's row is gone, so is everything it lists, unless its deletion
\* failed, if nothing is added to a company while it is deleted.
THEOREM DeletionIsComplete ==
    ASSUME ~Overlap \/ Never({"createUser", "updateRole"})
    PROVE  Spec => []DeletedCompanyLeavesNothing
<1>1. CASE ~Overlap
    BY <1>1, DeletionIsCompleteAlone
<1>2. CASE Never({"createUser", "updateRole"})
    <2>1. ClearedInv /\ [Next]_vars => ClearedInv'
        BY <1>2, ClearedKept DEF Shrinking
    <2>2. ClearedInv => DeletedCompanyLeavesNothing
        <3> SUFFICES ASSUME ClearedInv, Quiet, NEW c \in Companies,
                            companies[c] = None, ~HalfDeleted(c)
                     PROVE  NothingLeft(c)
            BY DEF DeletedCompanyLeavesNothing, NothingLeft
        <3>1. Cleared(c)
            BY DEF ClearedInv
        <3>2. ASSUME NEW u \in UserIds, grants[u] # None, grants[u][1] = c
              PROVE  FALSE
            <4>1. HomeOf(u) = c
                BY <3>2 DEF ClearedInv, ShrinkInv, TenantInv
            <4>2. users[u] = None
                BY <3>1, <4>1 DEF Cleared, UsersOf
            <4>3. ~Awaited(u)
                BY DEF Quiet, Running, Finished, Awaited, Listing
            <4>4. QED BY <3>2, <4>1, <4>2, <4>3 DEF ClearedInv, ShrinkInv, Granted
        <3>3. QED BY <3>1, <3>2 DEF Cleared, NothingLeft
    <2>3. Init => ClearedInv
        <3>1. Init => \A c \in Companies : companies[c] # None
            BY AccountsAssumption DEF Init
        <3>2. QED BY <3>1, ShrinkInit DEF ClearedInv
    <2>4. QED BY <2>1, <2>2, <2>3, PTL DEF Spec
<1>3. QED BY <1>1, <1>2
=============================================================================
