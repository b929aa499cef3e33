---------------------------- MODULE Registration ----------------------------
(***************************************************************************)
(* POST /company: CompanyService.createCompany, with the Keycloak calls it *)
(* makes (KeycloakService.createUser and deleteUser) and the optional      *)
(* CompanyRegistrationHook.  Any number of requests run at once, in one    *)
(* process or in several replicas.                                         *)
(*                                                                         *)
(* One registration writes to four stores: Postgres (inside a             *)
(* transaction), the ICID service (the company's URN), Keycloak (the admin *)
(* identity) and whatever the deployment's hook writes to.  Only the first *)
(* can be rolled back; the catch block undoes the others by hand, each     *)
(* only if a local variable says that this request created it.             *)
(***************************************************************************)
EXTENDS Naturals

CONSTANTS
    Requests,             \* one element per POST /company
    Emails,               \* addresses a request can name
    CompanyNames,         \* names a request can give
    RegistrationNumbers,  \* registration codes; ICID mints one URN per code
    NoOne, Others,        \* identity owners that are not a request
    HookBound,            \* the deployment binds a COMPANY_REGISTRATION_HOOK
    Reissue,              \* ICID answers 201, same URN, to a code it knows
    Faults                \* the failures this run lets happen

FaultKinds == {"statement",   \* an SQL statement or the hook fails
               "lostReply",   \* a remote call takes effect, its answer is lost
               "connection",  \* the database connection breaks
               "cleanup",     \* a call made by the catch block fails
               "crash"}       \* the process handling the request dies

ASSUME RegistrationAssumption ==
    /\ NoOne \notin Requests /\ Others \notin Requests /\ NoOne # Others
    /\ HookBound \in BOOLEAN /\ Reissue \in BOOLEAN
    /\ Faults \subseteq FaultKinds

VARIABLES
    pc,         \* pc[r]: the next call request r makes
    form,       \* form[r]: the RegisterAuthDto, fixed once received
    rows,       \* rows[r]: the kinds of rows r's transaction has written
    undo,       \* undo[r]: what the catch block of r still has to undo
    committed,  \* the requests whose transaction is committed
    users,      \* addresses of company_users rows made by other endpoints
    identity,   \* identity[e]: who created the Keycloak account for e
    minted,     \* minted[n]: the request ICID last issued the URN of code n to
    external,   \* the requests for which the hook's external record exists
    logged,     \* the requests that logged a cleanup left to be done by hand
    spoiled     \* history: the requests that met a fault the catch block
                \* neither makes good nor logs

stores == <<committed, users, identity, minted, external>>
reports == <<logged, spoiled>>
vars == <<pc, form, rows, undo, committed, users, identity, minted, external,
          logged, spoiled>>

Forms == [email : Emails, company_name : CompanyNames,
          registration_number : RegistrationNumbers]

\* What one registration inserts, in order.
AllRows == {"company", "mapping", "groups", "user", "grant"}

\* The locals temp_icid_company_id, keycloakUserEmail and registrationEvent.
Undoable == {"icid", "identity", "event"}

InTransaction == {"company", "category", "rbac", "admin", "identity", "user",
                  "grant", "hook", "commit", "rollback"}
BeforeTransaction == {"checkEmail", "checkName", "mint", "begin"}
Compensating == {"undoHook", "undoIdentity", "deleteIdentity", "undoIcid"}
Settled == {"created", "refused", "unknown", "crashed"}
PCs == {"idle"} \cup BeforeTransaction \cup InTransaction \cup Compensating
         \cup Settled

TypeOK ==
    /\ pc \in [Requests -> PCs]
    /\ form \in [Requests -> Forms]
    /\ rows \in [Requests -> SUBSET AllRows]
    /\ undo \in [Requests -> SUBSET Undoable]
    /\ committed \subseteq Requests
    /\ users \subseteq Emails
    /\ identity \in [Emails -> Requests \cup {NoOne, Others}]
    /\ minted \in [RegistrationNumbers -> Requests \cup {NoOne}]
    /\ external \subseteq Requests
    /\ logged \subseteq Requests
    /\ spoiled \subseteq Requests

Init ==
    /\ pc = [r \in Requests |-> "idle"]
    /\ form \in [Requests -> Forms]
    /\ rows = [r \in Requests |-> {}]
    /\ undo = [r \in Requests |-> {}]
    /\ committed = {}
    /\ users = {}
    /\ identity = [e \in Emails |-> NoOne]
    /\ minted = [n \in RegistrationNumbers |-> NoOne]
    /\ external = {}
    /\ logged = {}
    /\ spoiled = {}

-----------------------------------------------------------------------------
(* Leaving the try block.                                                  *)

\* Mutant of NextUndo: the hook is forgotten.
NextUndo_NoHook(u) ==
    IF "identity" \in u THEN "undoIdentity"
    ELSE IF "icid" \in u THEN "undoIcid"
    ELSE "refused"

\* The catch block's next call, once the transaction is over: the hook, then
\* Keycloak, then ICID, each skipped unless there is something to undo.
NextUndo(u) ==
    IF "event" \in u /\ HookBound THEN "undoHook"
    ELSE IF "identity" \in u THEN "undoIdentity"
    ELSE IF "icid" \in u THEN "undoIcid"
    ELSE "refused"

\* The catch block starts with the rollback if a transaction is active.
CatchPC(r, u) == IF pc[r] \in InTransaction THEN "rollback" ELSE NextUndo(u)

Goto(r, label) == pc' = [pc EXCEPT ![r] = label]

\* Request r met a fault that the catch block neither makes good nor logs.
Spoil(r) == spoiled' = spoiled \cup {r}

\* Control reaches the catch block, no store having changed.
Throw(r) ==
    /\ Goto(r, CatchPC(r, undo[r]))
    /\ UNCHANGED <<form, rows, undo, stores, reports>>

\* An awaited statement of the try block rejects.
StatementFails(r) ==
    /\ "statement" \in Faults
    /\ pc[r] \in {"checkEmail", "checkName", "begin"}
                   \cup (InTransaction \ {"identity", "hook", "rollback"})
    /\ Throw(r)

-----------------------------------------------------------------------------
(* The try block, one action per awaited call.                             *)

Receive(r) ==
    /\ pc[r] = "idle"
    /\ Goto(r, "checkEmail")
    /\ UNCHANGED <<form, rows, undo, stores, reports>>

\* Reads outside the transaction: they see committed rows only.
CheckEmail(r) ==
    /\ pc[r] = "checkEmail"
    /\ IF \E s \in committed : form[s].email = form[r].email
         THEN Throw(r)
         ELSE /\ Goto(r, "checkName")
              /\ UNCHANGED <<form, rows, undo, stores, reports>>

CheckName(r) ==
    /\ pc[r] = "checkName"
    /\ IF \E s \in committed : form[s].company_name = form[r].company_name
         THEN Throw(r)
         ELSE /\ Goto(r, "mint")
              /\ UNCHANGED <<form, rows, undo, stores, reports>>

\* The URN is derived from the registration code (and the country).
IcidIssues(r) ==
    LET n == form[r].registration_number IN
    /\ minted[n] # NoOne => Reissue
    /\ minted' = [minted EXCEPT ![n] = r]

\* POST {icid}/company answers 201.
Mint(r) ==
    /\ pc[r] = "mint"
    /\ IcidIssues(r)
    /\ undo' = [undo EXCEPT ![r] = @ \cup {"icid"}]
    /\ Goto(r, "begin")
    /\ UNCHANGED <<form, rows, committed, users, identity, external, reports>>

\* Mutant of MintRefused: the local is set before the call.
MintRefused_SetsLocal(r) ==
    /\ pc[r] = "mint"
    /\ undo' = [undo EXCEPT ![r] = @ \cup {"icid"}]
    /\ Goto(r, CatchPC(r, undo'[r]))
    /\ UNCHANGED <<form, rows, stores, reports>>

\* The country is unknown, or ICID refuses or cannot be reached.
MintRefused(r) == pc[r] = "mint" /\ Throw(r)

\* ICID issues the URN and the answer is lost: the local stays null.
MintReplyLost(r) ==
    /\ "lostReply" \in Faults
    /\ pc[r] = "mint"
    /\ IcidIssues(r)
    /\ Goto(r, CatchPC(r, undo[r]))
    /\ Spoil(r)
    /\ UNCHANGED <<form, rows, undo, committed, users, identity, external,
                   logged>>

Begin(r) ==
    /\ pc[r] = "begin"
    /\ Goto(r, "company")
    /\ UNCHANGED <<form, rows, undo, stores, reports>>

\* companies.email and companies.company_ifric_id are unique.
Collide(r, s) ==
    \/ form[r].email = form[s].email
    \/ form[r].registration_number = form[s].registration_number

Write(r, kinds, label) ==
    /\ rows' = [rows EXCEPT ![r] = @ \cup kinds]
    /\ Goto(r, label)
    /\ UNCHANGED <<form, undo, stores, reports>>

\* Mutant of InsertCompany: it waits for transactions that have ended, too.
InsertCompany_WaitsOn(r) ==
    /\ pc[r] = "company"
    /\ \A s \in Requests \ {r} : "company" \in rows[s] => ~Collide(r, s)
    /\ Write(r, {"company"}, "category")

\* An INSERT waits for an open transaction that has inserted the same key.
InsertCompany(r) ==
    /\ pc[r] = "company"
    /\ \A s \in Requests \ {r} :
         pc[s] \in InTransaction /\ "company" \in rows[s] => ~Collide(r, s)
    /\ IF \E s \in committed : Collide(r, s)
         THEN Throw(r)
         ELSE Write(r, {"company"}, "category")

FindCategory(r) ==
    /\ pc[r] = "category"
    /\ \/ Write(r, {"mapping"}, "rbac")
       \/ Throw(r)                              \* unknown category: 404

InsertAccessGroups(r) == pc[r] = "rbac" /\ Write(r, {"groups"}, "admin")

UserExists(e) == e \in users \/ \E s \in committed : form[s].email = e

CheckAdminUser(r) ==
    /\ pc[r] = "admin"
    /\ IF UserExists(form[r].email)
         THEN Throw(r)
         ELSE /\ Goto(r, "identity")
              /\ UNCHANGED <<form, rows, undo, stores, reports>>

\* KeycloakService.createUser succeeds: POST, then the lookup of its id.
CreateIdentity(r) ==
    /\ pc[r] = "identity"
    /\ identity[form[r].email] = NoOne
    /\ identity' = [identity EXCEPT ![form[r].email] = r]
    /\ undo' = [undo EXCEPT ![r] = @ \cup {"identity"}]
    /\ Goto(r, "user")
    /\ UNCHANGED <<form, rows, committed, users, minted, external, reports>>

\* Mutant of IdentityRefused: keycloakUserEmail is set before the call.
IdentityRefused_SetsLocal(r) ==
    /\ pc[r] = "identity"
    /\ undo' = [undo EXCEPT ![r] = @ \cup {"identity"}]
    /\ Goto(r, "rollback")
    /\ UNCHANGED <<form, rows, stores, reports>>

\* Keycloak refuses (the address is taken) or cannot be reached.
IdentityRefused(r) == pc[r] = "identity" /\ Throw(r)

\* The account is made, but createUser throws: the answer to the POST is
\* lost, or the lookup that follows it fails.  keycloakUserEmail stays null.
IdentityReplyLost(r) ==
    /\ "lostReply" \in Faults
    /\ pc[r] = "identity"
    /\ identity[form[r].email] = NoOne
    /\ identity' = [identity EXCEPT ![form[r].email] = r]
    /\ Goto(r, CatchPC(r, undo[r]))
    /\ Spoil(r)
    /\ UNCHANGED <<form, rows, undo, committed, users, minted, external,
                   logged>>

\* company_users.user_email is unique.
InsertUser(r) ==
    /\ pc[r] = "user"
    /\ IF UserExists(form[r].email)
         THEN Throw(r)
         ELSE Write(r, {"user"}, "grant")

\* The grant is written only if the admin group is found; registrationEvent
\* is set whether or not a hook is bound.
GrantAdmin(r) ==
    /\ pc[r] = "grant"
    /\ rows' = [rows EXCEPT
                  ![r] = @ \cup (IF "groups" \in @ THEN {"grant"} ELSE {})]
    /\ undo' = [undo EXCEPT ![r] = @ \cup {"event"}]
    /\ Goto(r, IF HookBound THEN "hook" ELSE "commit")
    /\ UNCHANGED <<form, stores, reports>>

\* onCompanyRegistered may create its record and still throw.
RunHook(r) ==
    /\ pc[r] = "hook"
    /\ \/ external' = external \cup {r} /\ Goto(r, "commit")
       \/ /\ "statement" \in Faults
          /\ external' \in {external, external \cup {r}}
          /\ Goto(r, "rollback")
    /\ UNCHANGED <<form, rows, undo, committed, users, identity, minted,
                   reports>>

Commit(r) ==
    /\ pc[r] = "commit"
    /\ committed' = committed \cup {r}
    /\ Goto(r, "created")
    /\ UNCHANGED <<form, rows, undo, users, identity, minted, external, reports>>

\* The connection breaks during COMMIT.  The server may have committed; the
\* ROLLBACK that the catch block issues on the dead connection throws.
CommitReplyLost(r) ==
    /\ "connection" \in Faults
    /\ pc[r] = "commit"
    /\ \/ committed' = committed \cup {r} /\ UNCHANGED rows
       \/ committed' = committed /\ rows' = [rows EXCEPT ![r] = {}]
    /\ Goto(r, "unknown")
    /\ Spoil(r)
    /\ UNCHANGED <<form, undo, users, identity, minted, external, logged>>

-----------------------------------------------------------------------------
(* The catch block.                                                        *)

Rollback(r) ==
    /\ pc[r] = "rollback"
    /\ rows' = [rows EXCEPT ![r] = {}]
    /\ Goto(r, NextUndo(undo[r]))
    /\ UNCHANGED <<form, undo, stores, reports>>

\* rollbackTransaction is not guarded: if it throws, nothing is undone.
RollbackThrows(r) ==
    /\ "connection" \in Faults
    /\ pc[r] = "rollback"
    /\ rows' = [rows EXCEPT ![r] = {}]
    /\ Goto(r, "unknown")
    /\ Spoil(r)
    /\ UNCHANGED <<form, undo, stores, logged>>

\* Request r is done with the undo item, and goes on to the next.
Undone(r, item) ==
    /\ undo' = [undo EXCEPT ![r] = @ \ {item}]
    /\ Goto(r, NextUndo(undo[r] \ {item}))

UndoHook(r) ==
    /\ pc[r] = "undoHook"
    /\ \/ external' = external \ {r} /\ UNCHANGED reports
       \/ /\ "cleanup" \in Faults
          /\ logged' = logged \cup {r} /\ UNCHANGED <<external, spoiled>>
    /\ Undone(r, "event")
    /\ UNCHANGED <<form, rows, committed, users, identity, minted>>

\* deleteUser looks the account up by address ...
FindIdentity(r) ==
    /\ pc[r] = "undoIdentity"
    /\ IF identity[form[r].email] = NoOne
         THEN Undone(r, "identity")
         ELSE Goto(r, "deleteIdentity") /\ UNCHANGED undo
    /\ UNCHANGED <<form, rows, stores, reports>>

\* ... and then deletes it by the id it found.
DeleteIdentity(r) ==
    /\ pc[r] = "deleteIdentity"
    /\ identity' = [identity EXCEPT ![form[r].email] = NoOne]
    /\ Undone(r, "identity")
    /\ UNCHANGED <<form, rows, committed, users, minted, external, reports>>

IdentityCleanupFails(r) ==
    /\ "cleanup" \in Faults
    /\ pc[r] \in {"undoIdentity", "deleteIdentity"}
    /\ logged' = logged \cup {r}
    /\ Undone(r, "identity")
    /\ UNCHANGED <<form, rows, stores, spoiled>>

\* DELETE {icid}/company/{urn}; its failure is thrown in the error's place.
ReleaseIcid(r) ==
    /\ pc[r] = "undoIcid"
    /\ \/ /\ minted' = [minted EXCEPT ![form[r].registration_number] = NoOne]
          /\ UNCHANGED spoiled
       \/ "cleanup" \in Faults /\ Spoil(r) /\ UNCHANGED minted
    /\ Undone(r, "icid")
    /\ UNCHANGED <<form, rows, committed, users, identity, external, logged>>

\* The process dies: Postgres aborts the transaction, nothing else is undone.
Crash(r) ==
    /\ "crash" \in Faults
    /\ pc[r] \notin {"idle"} \cup Settled
    /\ rows' = [rows EXCEPT ![r] = {}]
    /\ Goto(r, "crashed")
    /\ Spoil(r)
    /\ UNCHANGED <<form, undo, stores, logged>>

-----------------------------------------------------------------------------
(* The other endpoints that own an address: a user created by              *)
(* POST /auth/create-user and one deleted again, each in one step here.    *)

UserCreatedElsewhere(e) ==
    /\ ~UserExists(e) /\ identity[e] = NoOne
    /\ users' = users \cup {e}
    /\ identity' = [identity EXCEPT ![e] = Others]
    /\ UNCHANGED <<pc, form, rows, undo, committed, minted, external, reports>>

UserDeletedElsewhere(e) ==
    /\ e \in users
    /\ users' = users \ {e}
    /\ identity' = [identity EXCEPT ![e] = NoOne]
    /\ UNCHANGED <<pc, form, rows, undo, committed, minted, external, reports>>

-----------------------------------------------------------------------------
\* The awaited call answers.
Answered(r) ==
    \/ CheckEmail(r) \/ CheckName(r)
    \/ Mint(r) \/ MintRefused(r)
    \/ Begin(r) \/ InsertCompany(r) \/ FindCategory(r) \/ InsertAccessGroups(r)
    \/ CheckAdminUser(r)
    \/ CreateIdentity(r) \/ IdentityRefused(r)
    \/ InsertUser(r) \/ GrantAdmin(r) \/ RunHook(r)
    \/ Commit(r)

\* It fails, or its answer is lost.
Unanswered(r) ==
    \/ MintReplyLost(r) \/ IdentityReplyLost(r) \/ CommitReplyLost(r)
    \/ StatementFails(r)

Try(r) == Answered(r) \/ Unanswered(r)

Catch(r) ==
    \/ Rollback(r) \/ RollbackThrows(r)
    \/ UndoHook(r)
    \/ FindIdentity(r) \/ DeleteIdentity(r) \/ IdentityCleanupFails(r)
    \/ ReleaseIcid(r)

Elsewhere(e) == UserCreatedElsewhere(e) \/ UserDeletedElsewhere(e)

Next ==
    \/ \E r \in Requests : Receive(r) \/ Try(r) \/ Catch(r) \/ Crash(r)
    \/ \E e \in Emails : Elsewhere(e)

Spec == Init /\ [][Next]_vars

\* A call of a request that has arrived, and waits for no other transaction,
\* eventually answers, and the handler then goes on.  No fault is owed: a wait
\* must end by itself.
FairSpec == Spec /\ \A r \in Requests : WF_vars(Answered(r) \/ Catch(r))

-----------------------------------------------------------------------------
(* Properties.                                                             *)

\* A committed company is whole: its category mapping, both access groups,
\* admin user and admin grant were committed with it, Keycloak still holds the
\* admin's account with this registration's attributes, ICID still holds the
\* URN as issued, and no other endpoint's user has the address.  It must hold
\* under every fault: no compensation, late or mistaken, may take a piece of a
\* company that is committed.
CommittedIsWhole ==
    \A r \in committed :
      /\ rows[r] = AllRows
      /\ identity[form[r].email] = r
      /\ minted[form[r].registration_number] # NoOne
      /\ form[r].email \notin users

\* "We only delete what we made": an account is taken away by another
\* endpoint's delete, or by the compensation of the request that created it
\* and did not commit.
CleanupIsOwn ==
    [][\A e \in Emails :
         identity[e] # NoOne /\ identity'[e] # identity[e] =>
           \/ identity[e] = Others /\ e \in users
           \/ /\ identity[e] \in Requests \ committed
              /\ pc[identity[e]] = "deleteIdentity"]_vars

\* No open transaction waits for ever: every request that arrives is answered
\* or dies, although a transaction stays open across three remote calls and a
\* second registration of the same address waits for its locks.
EveryRequestSettles ==
    \A r \in Requests : pc[r] = "checkEmail" ~> pc[r] \in Settled

-----------------------------------------------------------------------------
(* What createCompany promises: see RegistrationAtomic.                    *)

Outcome == [r \in Requests |->
              IF r \in committed THEN "registered"
              ELSE IF pc[r] \in Settled THEN "refused" ELSE "open"]

\* What r has left in each store, seen once its outcome is known.
Footprint == [r \in Requests |->
    IF Outcome[r] = "open" THEN {} ELSE
         (IF rows[r] # {} THEN {"database"} ELSE {})
    \cup (IF identity[form[r].email] = r THEN {"keycloak"} ELSE {})
    \cup (IF minted[form[r].registration_number] = r THEN {"icid"} ELSE {})
    \cup (IF r \in external THEN {"external"} ELSE {})]

Atomic == INSTANCE RegistrationAtomic
            WITH asked <- form, outcome <- Outcome, footprint <- Footprint,
                 disturbed <- spoiled, reported <- logged

\* createCompany implements the atomic registration, whatever fails: through
\* four stores, locks, lost replies and a hand-written catch block, a company
\* is registered everywhere at once or refused, a refused one leaves what its
\* faults account for and never a row, and what is settled stays so.
AtomicSpec == Atomic!Spec
=============================================================================
