------------------------ MODULE Registration_proofs ------------------------
(***************************************************************************)
(* Proofs about Registration, for any number of requests, addresses, names *)
(* and codes and for every set of faults.                                  *)
(*                                                                         *)
(* The argument: what a request has in "undo" is its own (nobody else can  *)
(* take an account or a URN over while it is held), a request past a       *)
(* remote call has that call's result in "undo", and a committed request   *)
(* never runs its catch block.                                             *)
(***************************************************************************)
EXTENDS Registration, TLAPS

USE DEF PCs, BeforeTransaction, InTransaction, Compensating, Settled

\* Every action keeps the types.
LEMMA TypeInit == Init => TypeOK
BY RegistrationAssumption DEF Init, TypeOK

LEMMA TypeNext == TypeOK /\ [Next]_vars => TypeOK'
<1> SUFFICES ASSUME TypeOK, [Next]_vars PROVE TypeOK'
  OBVIOUS
<1> USE DEF TypeOK, Goto, Throw, CatchPC, NextUndo, Write, Undone, stores,
            Undoable, AllRows, Forms, Spoil, reports
<1>1. ASSUME NEW r \in Requests, Receive(r) PROVE TypeOK'
  BY <1>1 DEF Receive
<1>2. ASSUME NEW r \in Requests, Try(r) PROVE TypeOK'
  <2>1. CASE CheckEmail(r)  BY <2>1 DEF CheckEmail
  <2>2. CASE CheckName(r)  BY <2>2 DEF CheckName
  <2>3. CASE Mint(r)  BY <2>3 DEF Mint, IcidIssues
  <2>4. CASE MintRefused(r)  BY <2>4 DEF MintRefused
  <2>5. CASE MintReplyLost(r)  BY <2>5 DEF MintReplyLost, IcidIssues
  <2>6. CASE Begin(r)  BY <2>6 DEF Begin
  <2>7. CASE InsertCompany(r)  BY <2>7 DEF InsertCompany
  <2>8. CASE FindCategory(r)  BY <2>8 DEF FindCategory
  <2>9. CASE InsertAccessGroups(r)  BY <2>9 DEF InsertAccessGroups
  <2>10. CASE CheckAdminUser(r)  BY <2>10 DEF CheckAdminUser
  <2>11. CASE CreateIdentity(r)  BY <2>11 DEF CreateIdentity
  <2>12. CASE IdentityRefused(r)  BY <2>12 DEF IdentityRefused
  <2>13. CASE IdentityReplyLost(r)  BY <2>13 DEF IdentityReplyLost
  <2>14. CASE InsertUser(r)  BY <2>14 DEF InsertUser
  <2>15. CASE GrantAdmin(r)  BY <2>15 DEF GrantAdmin
  <2>16. CASE RunHook(r)  BY <2>16 DEF RunHook
  <2>17. CASE Commit(r)  BY <2>17 DEF Commit
  <2>18. CASE CommitReplyLost(r)  BY <2>18 DEF CommitReplyLost
  <2>19. CASE StatementFails(r)  BY <2>19 DEF StatementFails
  <2> QED
    BY <1>2, <2>1, <2>2, <2>3, <2>4, <2>5, <2>6, <2>7, <2>8, <2>9, <2>10,
       <2>11, <2>12, <2>13, <2>14, <2>15, <2>16, <2>17, <2>18, <2>19 DEF Try, Answered, Unanswered
<1>3. ASSUME NEW r \in Requests, Catch(r) PROVE TypeOK'
  <2>1. CASE Rollback(r)  BY <2>1 DEF Rollback
  <2>2. CASE RollbackThrows(r)  BY <2>2 DEF RollbackThrows
  <2>3. CASE UndoHook(r)  BY <2>3 DEF UndoHook
  <2>4. CASE FindIdentity(r)
    <3>1. CASE identity[form[r].email] = NoOne  BY <2>4, <3>1 DEF FindIdentity
    <3>2. CASE identity[form[r].email] # NoOne  BY <2>4, <3>2 DEF FindIdentity
    <3> QED  BY <3>1, <3>2
  <2>5. CASE DeleteIdentity(r)  BY <2>5 DEF DeleteIdentity
  <2>6. CASE IdentityCleanupFails(r)  BY <2>6 DEF IdentityCleanupFails
  <2>7. CASE ReleaseIcid(r)  BY <2>7 DEF ReleaseIcid
  <2> QED
    BY <1>3, <2>1, <2>2, <2>3, <2>4, <2>5, <2>6, <2>7 DEF Catch
<1>4. ASSUME NEW r \in Requests, Crash(r) PROVE TypeOK'
  BY <1>4 DEF Crash
<1>5. ASSUME NEW e \in Emails, Elsewhere(e) PROVE TypeOK'
  BY <1>5 DEF Elsewhere, UserCreatedElsewhere, UserDeletedElsewhere
<1>6. CASE UNCHANGED vars
  BY <1>6 DEF vars
<1> QED
  BY <1>1, <1>2, <1>3, <1>4, <1>5, <1>6 DEF Next

\* Type correctness of Registration: every request is at one of the calls of
\* createCompany, and the stores hold what its tables, Keycloak and ICID hold.
THEOREM TypeCorrect == Spec => []TypeOK
<1>1. Init => TypeOK  BY TypeInit
<1>2. TypeOK /\ [Next]_vars => TypeOK'  BY TypeNext
<1> QED  BY <1>1, <1>2, PTL DEF Spec

-----------------------------------------------------------------------------
(* The inductive invariant.                                                *)

\* The rows a transaction has written are the ones of the calls before pc.
RowsFollow ==
    \A r \in Requests :
      /\ pc[r] \in {"idle", "company"} \cup BeforeTransaction => rows[r] = {}
      /\ pc[r] = "category" => rows[r] = {"company"}
      /\ pc[r] = "rbac" => rows[r] = {"company", "mapping"}
      /\ pc[r] \in {"admin", "identity", "user"} =>
           rows[r] = {"company", "mapping", "groups"}
      /\ pc[r] = "grant" => rows[r] = {"company", "mapping", "groups", "user"}
      /\ pc[r] \in {"hook", "commit"} => rows[r] = AllRows

\* The account a request would delete is the one it created.
AccountIsOwn ==
    \A r \in Requests : "identity" \in undo[r] => identity[form[r].email] = r

\* The URN a request would release is the one issued to it.
UrnIsOwn ==
    \A r \in Requests :
      "icid" \in undo[r] => minted[form[r].registration_number] = r

\* Past the Keycloak call, and in its compensation, a request holds an account.
AccountIsTracked ==
    \A r \in Requests :
      pc[r] \in {"user", "grant", "hook", "commit", "undoIdentity",
                 "deleteIdentity"} => "identity" \in undo[r]

\* Past the ICID call, and in its compensation, a request holds a URN.
UrnIsTracked ==
    \A r \in Requests :
      pc[r] \in {"begin", "undoIcid"} \cup (InTransaction \ {"rollback"})
        => "icid" \in undo[r]

\* Users of other endpoints have the account of their address.
UsersHaveAccounts == \A e \in users : identity[e] = Others

\* A committed request is over and its catch block never ran.
CommittedIsDone ==
    \A r \in committed :
      /\ pc[r] \in {"created", "unknown"}
      /\ rows[r] = AllRows
      /\ {"identity", "icid"} \subseteq undo[r]

AccountInv ==
    /\ TypeOK
    /\ RowsFollow
    /\ AccountIsOwn
    /\ AccountIsTracked
    /\ UrnIsTracked
    /\ UsersHaveAccounts
    /\ CommittedIsDone

LEMMA AccountInvInit == Init => AccountInv
<1> SUFFICES ASSUME Init PROVE AccountInv
  OBVIOUS
<1>1. TypeOK
  BY TypeInit
<1> QED
  BY <1>1 DEF Init, AccountInv, RowsFollow, AccountIsOwn, AccountIsTracked,
     UrnIsTracked, UsersHaveAccounts, CommittedIsDone

LEMMA AccountInvNext == AccountInv /\ [Next]_vars => AccountInv'
<1> SUFFICES ASSUME AccountInv, [Next]_vars PROVE AccountInv'
  OBVIOUS
<1>0. TypeOK /\ TypeOK'
  BY TypeNext DEF AccountInv
<1> USE <1>0 DEF TypeOK, AccountInv, RowsFollow, AccountIsOwn,
    AccountIsTracked, UrnIsTracked, UsersHaveAccounts, CommittedIsDone,
    AllRows, Goto, Throw, CatchPC, NextUndo, Write, Undone,
    stores, Spoil, reports
<1>1. ASSUME NEW r \in Requests, Receive(r) PROVE AccountInv'
  BY <1>1 DEF Receive
<1>2. ASSUME NEW r \in Requests, Try(r) PROVE AccountInv'
  <2>1. CASE CheckEmail(r)  BY <2>1 DEF CheckEmail
  <2>2. CASE CheckName(r)  BY <2>2 DEF CheckName
  <2>3. CASE Mint(r)  BY <2>3 DEF Mint, IcidIssues
  <2>4. CASE MintRefused(r)  BY <2>4 DEF MintRefused
  <2>5. CASE MintReplyLost(r)  BY <2>5 DEF MintReplyLost, IcidIssues
  <2>6. CASE Begin(r)  BY <2>6 DEF Begin
  <2>7. CASE InsertCompany(r)  BY <2>7 DEF InsertCompany
  <2>8. CASE FindCategory(r)  BY <2>8 DEF FindCategory
  <2>9. CASE InsertAccessGroups(r)  BY <2>9 DEF InsertAccessGroups
  <2>10. CASE CheckAdminUser(r)  BY <2>10 DEF CheckAdminUser
  <2>11. CASE CreateIdentity(r)
    BY <2>11, RegistrationAssumption DEF CreateIdentity, Forms
  <2>12. CASE IdentityRefused(r)  BY <2>12 DEF IdentityRefused
  <2>13. CASE IdentityReplyLost(r)
    BY <2>13, RegistrationAssumption DEF IdentityReplyLost, Forms
  <2>14. CASE InsertUser(r)  BY <2>14 DEF InsertUser
  <2>15. CASE GrantAdmin(r)  BY <2>15 DEF GrantAdmin
  <2>16. CASE RunHook(r)  BY <2>16 DEF RunHook
  <2>17. CASE Commit(r)  BY <2>17 DEF Commit
  <2>18. CASE CommitReplyLost(r)  BY <2>18 DEF CommitReplyLost
  <2>19. CASE StatementFails(r)  BY <2>19 DEF StatementFails
  <2> QED
    BY <1>2, <2>1, <2>2, <2>3, <2>4, <2>5, <2>6, <2>7, <2>8, <2>9, <2>10,
       <2>11, <2>12, <2>13, <2>14, <2>15, <2>16, <2>17, <2>18, <2>19 DEF Try, Answered, Unanswered
<1>3. ASSUME NEW r \in Requests, Catch(r) PROVE AccountInv'
  <2>1. CASE Rollback(r)  BY <2>1 DEF Rollback
  <2>2. CASE RollbackThrows(r)  BY <2>2 DEF RollbackThrows
  <2>3. CASE UndoHook(r)  BY <2>3 DEF UndoHook
  <2>4. CASE FindIdentity(r)  BY <2>4 DEF FindIdentity
  <2>5. CASE DeleteIdentity(r)
    BY <2>5, RegistrationAssumption DEF DeleteIdentity, Forms
  <2>6. CASE IdentityCleanupFails(r)  BY <2>6 DEF IdentityCleanupFails
  <2>7. CASE ReleaseIcid(r)  BY <2>7 DEF ReleaseIcid
  <2> QED
    BY <1>3, <2>1, <2>2, <2>3, <2>4, <2>5, <2>6, <2>7 DEF Catch
<1>4. ASSUME NEW r \in Requests, Crash(r) PROVE AccountInv'
  BY <1>4 DEF Crash
<1>5. ASSUME NEW e \in Emails, Elsewhere(e) PROVE AccountInv'
  <2> USE RegistrationAssumption DEF Forms
  <2>1. CASE UserCreatedElsewhere(e)  BY <2>1 DEF UserCreatedElsewhere
  <2>2. CASE UserDeletedElsewhere(e)  BY <2>2 DEF UserDeletedElsewhere
  <2> QED  BY <1>5, <2>1, <2>2 DEF Elsewhere
<1>6. CASE UNCHANGED vars
  BY <1>6 DEF vars
<1> QED
  BY <1>1, <1>2, <1>3, <1>4, <1>5, <1>6 DEF Next
LEMMA AccountInvariant == Spec => []AccountInv
<1>1. Init => AccountInv  BY AccountInvInit
<1>2. AccountInv /\ [Next]_vars => AccountInv'  BY AccountInvNext
<1> QED  BY <1>1, <1>2, PTL DEF Spec

\* If ICID never answers 201 twice for one code, nobody can be given the URN
\* that another request still holds.
LEMMA UrnIsOwnNext ==
  ASSUME ~Reissue
  PROVE  AccountInv /\ UrnIsOwn /\ [Next]_vars => UrnIsOwn'
<1> SUFFICES ASSUME AccountInv, UrnIsOwn, [Next]_vars PROVE UrnIsOwn'
  OBVIOUS
<1> USE RegistrationAssumption
    DEF AccountInv, TypeOK, UrnIsOwn, UrnIsTracked, Undone, stores, Forms
<1>1. ASSUME NEW r \in Requests, Try(r) PROVE UrnIsOwn'
  <2>1. CASE Mint(r)  BY <2>1 DEF Mint, IcidIssues
  <2>2. CASE MintReplyLost(r)  BY <2>2 DEF MintReplyLost, IcidIssues
  <2>3. CASE UNCHANGED <<form, minted, undo>>
    BY <2>3
  <2>4. CASE CreateIdentity(r) \/ GrantAdmin(r)
    BY <2>4 DEF CreateIdentity, GrantAdmin
  <2> QED
    BY <1>1, <2>1, <2>2, <2>3, <2>4
       DEF Try, Answered, Unanswered, CheckEmail, CheckName, MintRefused, Begin, InsertCompany,
           FindCategory, InsertAccessGroups, CheckAdminUser, IdentityRefused,
           IdentityReplyLost, InsertUser, RunHook, Commit, CommitReplyLost,
           StatementFails, Throw, Write
<1>2. ASSUME NEW r \in Requests, Catch(r) PROVE UrnIsOwn'
  <2>1. CASE ReleaseIcid(r)  BY <2>1 DEF ReleaseIcid
  <2>2. CASE ~ReleaseIcid(r)
    BY <1>2, <2>2 DEF Catch, Rollback, RollbackThrows, UndoHook, FindIdentity,
       DeleteIdentity, IdentityCleanupFails
  <2> QED  BY <2>1, <2>2
<1>3. CASE UNCHANGED <<form, minted, undo>>
  BY <1>3
<1> QED
  BY <1>1, <1>2, <1>3 DEF Next, Receive, Crash, Elsewhere, UserCreatedElsewhere,
     UserDeletedElsewhere, vars

\* A committed company is whole, under every combination of faults, as long as
\* ICID refuses to issue an issued URN again: no compensation of any request
\* reaches a piece of it.
THEOREM CommittedCompaniesAreWhole ==
  ASSUME ~Reissue
  PROVE  Spec => []CommittedIsWhole
<1>1. Init => UrnIsOwn
  BY DEF Init, UrnIsOwn
<1>2. AccountInv /\ UrnIsOwn /\ [Next]_vars => UrnIsOwn'
  BY UrnIsOwnNext
<1>3. AccountInv /\ UrnIsOwn => CommittedIsWhole
  <2> SUFFICES ASSUME AccountInv, UrnIsOwn, NEW r \in committed
               PROVE  /\ rows[r] = AllRows
                      /\ identity[form[r].email] = r
                      /\ minted[form[r].registration_number] # NoOne
                      /\ form[r].email \notin users
    BY DEF CommittedIsWhole
  <2>1. r \in Requests /\ {"identity", "icid"} \subseteq undo[r]
        /\ rows[r] = AllRows
    BY DEF AccountInv, TypeOK, CommittedIsDone
  <2>2. identity[form[r].email] = r /\ minted[form[r].registration_number] = r
    BY <2>1 DEF AccountInv, AccountIsOwn, UrnIsOwn
  <2>3. r # NoOne /\ r # Others
    BY <2>1, RegistrationAssumption
  <2> QED
    BY <2>1, <2>2, <2>3 DEF AccountInv, UsersHaveAccounts
<1> QED
  BY <1>1, <1>2, <1>3, AccountInvariant, PTL DEF Spec

\* An account is only ever removed by its owner: the endpoint that made the
\* user, or the failed registration that made the account.
THEOREM CleanupRemovesOwnAccounts == Spec => CleanupIsOwn
<1> DEFINE Own(e) ==
      identity[e] # NoOne /\ identity'[e] # identity[e] =>
        \/ identity[e] = Others /\ e \in users
        \/ /\ identity[e] \in Requests \ committed
           /\ pc[identity[e]] = "deleteIdentity"
<1>1. AccountInv /\ [Next]_vars => [\A e \in Emails : Own(e)]_vars
  <2> SUFFICES ASSUME AccountInv, Next, NEW e \in Emails,
                      identity[e] # NoOne, identity'[e] # identity[e]
               PROVE  \/ identity[e] = Others /\ e \in users
                      \/ /\ identity[e] \in Requests \ committed
                         /\ pc[identity[e]] = "deleteIdentity"
    OBVIOUS
  <2> USE DEF AccountInv, TypeOK, stores
  <2>1. ASSUME NEW r \in Requests, Try(r) PROVE FALSE
    <3>1. CASE CreateIdentity(r) \/ IdentityReplyLost(r)
      BY <3>1 DEF CreateIdentity, IdentityReplyLost, Forms
    <3>2. CASE identity' = identity
      BY <3>2
    <3> QED
      BY <2>1, <3>1, <3>2
         DEF Try, Answered, Unanswered, CheckEmail, CheckName, Mint, MintRefused, MintReplyLost,
             Begin, InsertCompany, FindCategory, InsertAccessGroups,
             CheckAdminUser, IdentityRefused, InsertUser, GrantAdmin, RunHook,
             Commit, CommitReplyLost, StatementFails, Throw, Write
  <2>2. ASSUME NEW r \in Requests, Catch(r)
        PROVE  /\ identity[e] \in Requests \ committed
               /\ pc[identity[e]] = "deleteIdentity"
    <3>1. DeleteIdentity(r)
      BY <2>2 DEF Catch, Rollback, RollbackThrows, UndoHook, FindIdentity,
         IdentityCleanupFails, ReleaseIcid
    <3>2. identity[e] = r
      BY <3>1 DEF DeleteIdentity, Forms, AccountIsOwn, AccountIsTracked
    <3> QED
      BY <3>1, <3>2 DEF DeleteIdentity, CommittedIsDone
  <2>3. ASSUME NEW a \in Emails, Elsewhere(a)
        PROVE  identity[e] = Others /\ e \in users
    BY <2>3 DEF Elsewhere, UserCreatedElsewhere, UserDeletedElsewhere,
       UsersHaveAccounts
  <2>4. ASSUME NEW r \in Requests, Receive(r) \/ Crash(r) PROVE FALSE
    BY <2>4 DEF Receive, Crash
  <2> QED
    BY <2>1, <2>2, <2>3, <2>4 DEF Next
<1> QED
  BY <1>1, AccountInvariant, PTL DEF Spec, CleanupIsOwn
-----------------------------------------------------------------------------
(* The refinement: createCompany implements RegistrationAtomic.            *)

\* Rows are visible in an open transaction or after the commit only, and no
\* two requests hold rows with the same unique key.
KeysAreExclusive ==
    /\ \A r \in Requests :
         rows[r] # {} => pc[r] \in InTransaction \/ r \in committed
    /\ \A r, s \in Requests :
         r # s /\ "company" \in rows[r] /\ "company" \in rows[s]
           => ~Collide(r, s)

\* Whatever a request has made outside the database it is about to undo,
\* unless a fault it met is on record.
PiecesAreTracked ==
    \A r \in Requests :
      /\ identity[form[r].email] = r =>
           "identity" \in undo[r] \/ r \in spoiled \/ r \in logged
      /\ minted[form[r].registration_number] = r =>
           "icid" \in undo[r] \/ r \in spoiled
      /\ r \in external => "event" \in undo[r] \/ r \in spoiled \/ r \in logged

\* The hook runs only if it is bound, and before the commit.
HookFollows ==
    \A r \in Requests :
      /\ r \in external => HookBound
      /\ pc[r] = "hook" => HookBound /\ "event" \in undo[r]
      /\ pc[r] = "commit" \/ r \in committed => (HookBound => r \in external)

\* How a request may end.
EndsFollow ==
    \A r \in Requests :
      /\ pc[r] = "refused" => /\ "identity" \notin undo[r]
                              /\ "icid" \notin undo[r]
                              /\ HookBound => "event" \notin undo[r]
      /\ pc[r] \in {"unknown", "crashed"} => r \in spoiled
      /\ pc[r] = "created" => r \in committed

AtomicInv ==
    /\ AccountInv
    /\ UrnIsOwn
    /\ KeysAreExclusive
    /\ PiecesAreTracked
    /\ HookFollows
    /\ EndsFollow

LEMMA AtomicInvInit == Init => AtomicInv
<1> SUFFICES ASSUME Init PROVE AtomicInv
  OBVIOUS
<1>1. AccountInv
  BY AccountInvInit
<1> QED
  BY <1>1, RegistrationAssumption
     DEF Init, Forms, AtomicInv, UrnIsOwn, KeysAreExclusive, PiecesAreTracked,
         HookFollows, EndsFollow

LEMMA KeysNext == AtomicInv /\ [Next]_vars => KeysAreExclusive'
<1> SUFFICES ASSUME AtomicInv, [Next]_vars PROVE KeysAreExclusive'
  OBVIOUS
<1> USE DEF AtomicInv, AccountInv, TypeOK, RowsFollow, CommittedIsDone,
    KeysAreExclusive, Collide, Goto, Throw, Write, stores, AllRows, Undone,
    CatchPC, NextUndo
<1>1. ASSUME NEW r \in Requests, Try(r) PROVE KeysAreExclusive'
  <2>1. CASE InsertCompany(r)  BY <2>1 DEF InsertCompany
  <2>2. CASE FindCategory(r)  BY <2>2 DEF FindCategory
  <2>3. CASE InsertAccessGroups(r)  BY <2>3 DEF InsertAccessGroups
  <2>4. CASE InsertUser(r)  BY <2>4 DEF InsertUser
  <2>5. CASE GrantAdmin(r)  BY <2>5 DEF GrantAdmin
  <2>6. CASE Commit(r)  BY <2>6 DEF Commit
  <2>7. CASE CommitReplyLost(r)  BY <2>7 DEF CommitReplyLost
  <2>8. CASE StatementFails(r)  BY <2>8 DEF StatementFails
  <2>9. CASE CheckEmail(r) \/ CheckName(r) \/ Begin(r) \/ CheckAdminUser(r)
    BY <2>9 DEF CheckEmail, CheckName, Begin, CheckAdminUser
  <2>10. CASE Mint(r) \/ MintRefused(r) \/ MintReplyLost(r)
    BY <2>10 DEF Mint, MintRefused, MintReplyLost
  <2>11. CASE CreateIdentity(r) \/ IdentityRefused(r) \/ IdentityReplyLost(r)
    BY <2>11 DEF CreateIdentity, IdentityRefused, IdentityReplyLost
  <2>12. CASE RunHook(r)  BY <2>12 DEF RunHook
  <2> QED
    BY <1>1, <2>1, <2>2, <2>3, <2>4, <2>5, <2>6, <2>7, <2>8, <2>9, <2>10,
       <2>11, <2>12 DEF Try, Answered, Unanswered
<1>2. ASSUME NEW r \in Requests, Catch(r) PROVE KeysAreExclusive'
  <2>1. CASE Rollback(r)  BY <2>1 DEF Rollback
  <2>2. CASE RollbackThrows(r)  BY <2>2 DEF RollbackThrows
  <2>3. CASE UndoHook(r)  BY <2>3 DEF UndoHook
  <2>4. CASE FindIdentity(r)  BY <2>4 DEF FindIdentity
  <2>5. CASE DeleteIdentity(r) \/ IdentityCleanupFails(r)
    BY <2>5 DEF DeleteIdentity, IdentityCleanupFails
  <2>6. CASE ReleaseIcid(r)  BY <2>6 DEF ReleaseIcid
  <2> QED  BY <1>2, <2>1, <2>2, <2>3, <2>4, <2>5, <2>6 DEF Catch
<1>3. ASSUME NEW r \in Requests, Receive(r) \/ Crash(r)
      PROVE  KeysAreExclusive'
  BY <1>3 DEF Receive, Crash
<1>4. ASSUME NEW e \in Emails, Elsewhere(e) PROVE KeysAreExclusive'
  BY <1>4 DEF Elsewhere, UserCreatedElsewhere, UserDeletedElsewhere
<1>5. CASE UNCHANGED vars
  BY <1>5 DEF vars
<1> QED
  BY <1>1, <1>2, <1>3, <1>4, <1>5 DEF Next

LEMMA PiecesNext ==
  AtomicInv /\ [Next]_vars => PiecesAreTracked' /\ HookFollows' /\ EndsFollow'
<1> DEFINE Goal == PiecesAreTracked' /\ HookFollows' /\ EndsFollow'
<1> SUFFICES ASSUME AtomicInv, [Next]_vars PROVE Goal
  OBVIOUS
<1> USE RegistrationAssumption
    DEF AtomicInv, AccountInv, TypeOK, Forms, RowsFollow, CommittedIsDone,
    AccountIsOwn, AccountIsTracked, UrnIsTracked, UrnIsOwn, PiecesAreTracked,
    HookFollows, EndsFollow, Goto, Throw, Write, stores, reports, Undone, Spoil,
    CatchPC, NextUndo
<1>1. ASSUME NEW r \in Requests, Try(r) PROVE Goal
  <2>1. CASE InsertCompany(r)  BY <2>1 DEF InsertCompany
  <2>2. CASE FindCategory(r) \/ InsertAccessGroups(r)
    BY <2>2 DEF FindCategory, InsertAccessGroups
  <2>3. CASE InsertUser(r)  BY <2>3 DEF InsertUser
  <2>4. CASE GrantAdmin(r)  BY <2>4 DEF GrantAdmin
  <2>5. CASE Commit(r)  BY <2>5 DEF Commit
  <2>6. CASE CommitReplyLost(r)  BY <2>6 DEF CommitReplyLost
  <2>7. CASE StatementFails(r)  BY <2>7 DEF StatementFails
  <2>8. CASE CheckEmail(r)  BY <2>8 DEF CheckEmail
  <2>9. CASE CheckName(r)  BY <2>9 DEF CheckName
  <2>10. CASE Begin(r) \/ CheckAdminUser(r)
    BY <2>10 DEF Begin, CheckAdminUser
  <2>11. CASE Mint(r)  BY <2>11 DEF Mint, IcidIssues
  <2>12. CASE MintRefused(r)  BY <2>12 DEF MintRefused
  <2>13. CASE MintReplyLost(r)  BY <2>13 DEF MintReplyLost, IcidIssues
  <2>14. CASE CreateIdentity(r)  BY <2>14 DEF CreateIdentity
  <2>15. CASE IdentityRefused(r)  BY <2>15 DEF IdentityRefused
  <2>16. CASE IdentityReplyLost(r)  BY <2>16 DEF IdentityReplyLost
  <2>17. CASE RunHook(r)  BY <2>17 DEF RunHook
  <2> QED
    BY <1>1, <2>1, <2>2, <2>3, <2>4, <2>5, <2>6, <2>7, <2>8, <2>9, <2>10,
       <2>11, <2>12, <2>13, <2>14, <2>15, <2>16, <2>17
       DEF Try, Answered, Unanswered
<1>2. ASSUME NEW r \in Requests, Catch(r) PROVE Goal
  <2>1. CASE Rollback(r)  BY <2>1 DEF Rollback
  <2>2. CASE RollbackThrows(r)  BY <2>2 DEF RollbackThrows
  <2>3. CASE UndoHook(r)  BY <2>3 DEF UndoHook
  <2>4. CASE FindIdentity(r)
    <3>1. CASE identity[form[r].email] = NoOne  BY <2>4, <3>1 DEF FindIdentity
    <3>2. CASE identity[form[r].email] # NoOne  BY <2>4, <3>2 DEF FindIdentity
    <3> QED  BY <3>1, <3>2
  <2>5. CASE DeleteIdentity(r)  BY <2>5 DEF DeleteIdentity
  <2>6. CASE IdentityCleanupFails(r)  BY <2>6 DEF IdentityCleanupFails
  <2>7. CASE ReleaseIcid(r)  BY <2>7 DEF ReleaseIcid
  <2> QED  BY <1>2, <2>1, <2>2, <2>3, <2>4, <2>5, <2>6, <2>7 DEF Catch
<1>3. ASSUME NEW r \in Requests, Receive(r) PROVE Goal
  BY <1>3 DEF Receive
<1>4. ASSUME NEW r \in Requests, Crash(r) PROVE Goal
  BY <1>4 DEF Crash
<1>5. ASSUME NEW e \in Emails, Elsewhere(e) PROVE Goal
  BY <1>5 DEF Elsewhere, UserCreatedElsewhere, UserDeletedElsewhere
<1>6. CASE UNCHANGED vars
  BY <1>6 DEF vars
<1> QED
  BY <1>1, <1>2, <1>3, <1>4, <1>5, <1>6 DEF Next

LEMMA AtomicInvNext ==
  ASSUME ~Reissue
  PROVE  AtomicInv /\ [Next]_vars => AtomicInv'
BY AccountInvNext, UrnIsOwnNext, KeysNext, PiecesNext DEF AtomicInv

\* Nothing of request s that the abstract registration shows has changed.
Undisturbed(s) ==
    /\ pc'[s] = pc[s]
    /\ rows'[s] = rows[s]
    /\ s \in committed' <=> s \in committed
    /\ s \in external' <=> s \in external
    /\ identity'[form[s].email] = s <=> identity[form[s].email] = s
    /\ minted'[form[s].registration_number] = s
         <=> minted[form[s].registration_number] = s

\* A request acts while its outcome is open, and on its own behalf: neither its
\* calls nor its compensation change what another request has in any store.
LEMMA StepIsLocal ==
  ASSUME ~Reissue, AtomicInv,
         NEW r \in Requests, Receive(r) \/ Try(r) \/ Catch(r) \/ Crash(r)
  PROVE  /\ pc[r] \notin Settled /\ r \notin committed
         /\ form' = form
         /\ spoiled' \in {spoiled, spoiled \cup {r}}
         /\ logged' \in {logged, logged \cup {r}}
         /\ \A s \in Requests \ {r} : Undisturbed(s)
<1> DEFINE Goal ==
         /\ pc[r] \notin Settled /\ r \notin committed
         /\ form' = form
         /\ spoiled' \in {spoiled, spoiled \cup {r}}
         /\ logged' \in {logged, logged \cup {r}}
         /\ \A s \in Requests \ {r} : Undisturbed(s)
<1> SUFFICES Goal
  OBVIOUS
<1> USE RegistrationAssumption
    DEF AtomicInv, AccountInv, TypeOK, Forms, CommittedIsDone, AccountIsOwn,
    AccountIsTracked, UrnIsTracked, UrnIsOwn, Goto, Throw, Write, stores,
    reports, Undone, Spoil, CatchPC, NextUndo, Undisturbed
<1>1. CASE Try(r)
  <2>1. CASE InsertCompany(r) \/ FindCategory(r) \/ InsertAccessGroups(r)
    BY <2>1 DEF InsertCompany, FindCategory, InsertAccessGroups
  <2>2. CASE InsertUser(r) \/ GrantAdmin(r)
    BY <2>2 DEF InsertUser, GrantAdmin
  <2>3. CASE Commit(r) \/ CommitReplyLost(r)
    BY <2>3 DEF Commit, CommitReplyLost
  <2>4. CASE StatementFails(r)  BY <2>4 DEF StatementFails
  <2>5. CASE CheckEmail(r) \/ CheckName(r) \/ Begin(r) \/ CheckAdminUser(r)
    BY <2>5 DEF CheckEmail, CheckName, Begin, CheckAdminUser
  <2>6. CASE Mint(r)  BY <2>6 DEF Mint, IcidIssues
  <2>7. CASE MintRefused(r)  BY <2>7 DEF MintRefused
  <2>8. CASE MintReplyLost(r)  BY <2>8 DEF MintReplyLost, IcidIssues
  <2>9. CASE CreateIdentity(r)  BY <2>9 DEF CreateIdentity
  <2>10. CASE IdentityRefused(r)  BY <2>10 DEF IdentityRefused
  <2>11. CASE IdentityReplyLost(r)  BY <2>11 DEF IdentityReplyLost
  <2>12. CASE RunHook(r)  BY <2>12 DEF RunHook
  <2> QED
    BY <1>1, <2>1, <2>2, <2>3, <2>4, <2>5, <2>6, <2>7, <2>8, <2>9, <2>10,
       <2>11, <2>12 DEF Try, Answered, Unanswered
<1>2. CASE Catch(r)
  <2>1. CASE Rollback(r) \/ RollbackThrows(r)
    BY <2>1 DEF Rollback, RollbackThrows
  <2>2. CASE UndoHook(r)  BY <2>2 DEF UndoHook
  <2>3. CASE FindIdentity(r)
    <3>1. CASE identity[form[r].email] = NoOne  BY <2>3, <3>1 DEF FindIdentity
    <3>2. CASE identity[form[r].email] # NoOne  BY <2>3, <3>2 DEF FindIdentity
    <3> QED  BY <3>1, <3>2
  <2>4. CASE DeleteIdentity(r)  BY <2>4 DEF DeleteIdentity
  <2>5. CASE IdentityCleanupFails(r)  BY <2>5 DEF IdentityCleanupFails
  <2>6. CASE ReleaseIcid(r)  BY <2>6 DEF ReleaseIcid
  <2> QED  BY <1>2, <2>1, <2>2, <2>3, <2>4, <2>5, <2>6 DEF Catch
<1>3. CASE Receive(r)  BY <1>3 DEF Receive
<1>4. CASE Crash(r)  BY <1>4 DEF Crash
<1> QED
  BY <1>1, <1>2, <1>3, <1>4

\* The other endpoints touch nothing a registration shows.
LEMMA ElsewhereIsElsewhere ==
  ASSUME AtomicInv, NEW e \in Emails, Elsewhere(e)
  PROVE  /\ form' = form /\ spoiled' = spoiled /\ logged' = logged
         /\ \A s \in Requests : Undisturbed(s)
BY RegistrationAssumption
   DEF AtomicInv, AccountInv, TypeOK, Forms, UsersHaveAccounts, Elsewhere,
       UserCreatedElsewhere, UserDeletedElsewhere, reports, Undisturbed

\* A registered company is in every store, and compatible with every other.
RegisteredShows ==
    \A r \in Requests : Outcome[r] = "registered" =>
      /\ Footprint[r] = Atomic!Everything
      /\ \A s \in Requests \ {r} :
           Outcome[s] = "registered" => Atomic!Compatible(r, s)

\* A refused one has left what its faults account for.
RefusedShows ==
    \A r \in Requests : Outcome[r] = "refused" =>
      Footprint[r] \subseteq Atomic!MayRemain(r, spoiled, logged)

LEMMA RegisteredIsWhole == AtomicInv => RegisteredShows
<1> SUFFICES ASSUME AtomicInv, NEW r \in Requests, Outcome[r] = "registered"
             PROVE  /\ Footprint[r] = Atomic!Everything
                    /\ \A s \in Requests \ {r} :
                         Outcome[s] = "registered" => Atomic!Compatible(r, s)
  BY DEF RegisteredShows
<1>1. \A s \in Requests : Outcome[s] = "registered" =>
        s \in committed /\ rows[s] = AllRows
  BY DEF Outcome, AtomicInv, AccountInv, CommittedIsDone
<1>2. /\ identity[form[r].email] = r
      /\ minted[form[r].registration_number] = r
      /\ r \in external <=> HookBound
  BY <1>1, RegistrationAssumption
     DEF AtomicInv, AccountInv, CommittedIsDone, AccountIsOwn, UrnIsOwn,
         HookFollows
<1>3. Footprint[r] = Atomic!Everything
  BY <1>1, <1>2 DEF Footprint, Outcome, AllRows, Atomic!Everything
<1>4. ASSUME NEW s \in Requests \ {r}, Outcome[s] = "registered"
      PROVE  Atomic!Compatible(r, s)
  BY <1>1, <1>4 DEF AtomicInv, KeysAreExclusive, Collide, AllRows,
     Atomic!Compatible
<1> QED
  BY <1>3, <1>4

LEMMA RefusedIsClean == AtomicInv => RefusedShows
<1> SUFFICES ASSUME AtomicInv, NEW r \in Requests, Outcome[r] = "refused"
             PROVE  Footprint[r] \subseteq Atomic!MayRemain(r, spoiled, logged)
  BY DEF RefusedShows
<1>1. r \notin committed /\ pc[r] \in Settled
  BY DEF Outcome
<1>2. rows[r] = {}
  BY <1>1 DEF AtomicInv, KeysAreExclusive
<1>3. r \in external => HookBound
  BY DEF AtomicInv, HookFollows
<1>4. CASE r \in spoiled
  BY <1>2, <1>3, <1>4 DEF Footprint, Outcome, Atomic!MayRemain,
     Atomic!Everything
<1>5. CASE r \notin spoiled
  <2>1. pc[r] = "refused"
    BY <1>1, <1>5 DEF AtomicInv, EndsFollow
  <2>2. minted[form[r].registration_number] # r
    BY <2>1, <1>5 DEF AtomicInv, EndsFollow, PiecesAreTracked
  <2>3. CASE r \in logged
    BY <1>2, <1>3, <1>5, <2>2, <2>3 DEF Footprint, Outcome, Atomic!MayRemain,
       Atomic!Everything
  <2>4. CASE r \notin logged
    <3>1. identity[form[r].email] # r /\ r \notin external
      BY <2>1, <2>4, <1>5, <1>3
         DEF AtomicInv, EndsFollow, PiecesAreTracked
    <3> QED
      BY <1>2, <2>2, <3>1 DEF Footprint
  <2> QED  BY <2>3, <2>4
<1> QED
  BY <1>4, <1>5

LEMMA AtomicInitial == Init => Atomic!Init
BY DEF Init, Settled, Atomic!Init, Outcome, Footprint

\* What is undisturbed shows the same.
LEMMA UndisturbedShowsSame ==
  ASSUME NEW s \in Requests, Undisturbed(s), form' = form
  PROVE  Outcome'[s] = Outcome[s] /\ Footprint'[s] = Footprint[s]
<1>1. Outcome'[s] = Outcome[s]
  BY DEF Undisturbed, Outcome
<1> QED
  BY <1>1 DEF Undisturbed, Footprint

\* Every step of createCompany is a step of the atomic registration, or changes
\* nothing it shows.
LEMMA AtomicStep ==
  ASSUME ~Reissue, AtomicInv, RegisteredShows', RefusedShows', [Next]_vars
  PROVE  \/ Atomic!Next
         \/ UNCHANGED <<form, Outcome, Footprint, spoiled, logged>>
<1> DEFINE Same == UNCHANGED <<form, Outcome, Footprint, spoiled, logged>>
<1> SUFFICES Atomic!Next \/ Same
  OBVIOUS
<1>0. /\ Outcome = [s \in Requests |-> Outcome[s]]
      /\ Outcome' = [s \in Requests |-> Outcome'[s]]
      /\ Footprint = [s \in Requests |-> Footprint[s]]
      /\ Footprint' = [s \in Requests |-> Footprint'[s]]
  BY DEF Outcome, Footprint
<1>1. ASSUME NEW r \in Requests, Receive(r) \/ Try(r) \/ Catch(r) \/ Crash(r)
      PROVE  Atomic!Next
  <2>1. /\ pc[r] \notin Settled /\ r \notin committed
        /\ form' = form
        /\ spoiled' \in {spoiled, spoiled \cup {r}}
        /\ logged' \in {logged, logged \cup {r}}
        /\ \A s \in Requests \ {r} : Undisturbed(s)
    BY <1>1, StepIsLocal
  <2>2. \A s \in Requests \ {r} :
          Outcome'[s] = Outcome[s] /\ Footprint'[s] = Footprint[s]
    BY <2>1, UndisturbedShowsSame
  <2>3. Outcome[r] = "open" /\ Footprint[r] = {}
    BY <2>1 DEF Outcome, Footprint
  <2>4. Atomic!Note(r)
    BY <2>1 DEF Atomic!Note
  <2>5. Outcome' = [Outcome EXCEPT ![r] = Outcome'[r]]
        /\ Footprint' = [Footprint EXCEPT ![r] = Footprint'[r]]
    <3>1. Outcome' = [Outcome EXCEPT ![r] = Outcome'[r]]
      BY <2>2, <1>0
    <3>2. Footprint' = [Footprint EXCEPT ![r] = Footprint'[r]]
      BY <2>2, <1>0
    <3> QED  BY <3>1, <3>2
  <2>6. CASE Outcome'[r] = "open"
    <3>1. Footprint'[r] = {}
      BY <2>6 DEF Footprint
    <3>2. Outcome' = Outcome /\ Footprint' = Footprint
      BY <2>2, <2>3, <2>6, <3>1, <1>0
    <3> QED
      BY <2>1, <2>3, <2>4, <3>2 DEF Atomic!Next, Atomic!Stumble
  <2>7. CASE Outcome'[r] = "registered"
    <3>1. /\ Footprint'[r] = Atomic!Everything
          /\ \A s \in Requests \ {r} :
               Outcome'[s] = "registered" => Atomic!Compatible(r, s)'
      BY <2>7 DEF RegisteredShows, Atomic!Everything
    <3>2. \A s \in Requests \ {r} :
            Outcome[s] = "registered" => Atomic!Compatible(r, s)
      BY <3>1, <2>1, <2>2 DEF Atomic!Compatible
    <3> QED
      BY <2>1, <2>3, <2>4, <2>5, <2>7, <3>1, <3>2
         DEF Atomic!Next, Atomic!Register
  <2>8. CASE Outcome'[r] = "refused"
    <3>1. Footprint'[r] \subseteq Atomic!MayRemain(r, spoiled', logged')
      BY <2>8 DEF RefusedShows, Atomic!MayRemain, Atomic!Everything
    <3> QED
      BY <2>1, <2>3, <2>4, <2>5, <2>8, <3>1 DEF Atomic!Next, Atomic!Refuse
  <2> QED
    BY <2>6, <2>7, <2>8 DEF Outcome
<1>2. ASSUME NEW e \in Emails, Elsewhere(e) PROVE Same
  <2>1. /\ form' = form /\ spoiled' = spoiled /\ logged' = logged
        /\ \A s \in Requests : Undisturbed(s)
    BY <1>2, ElsewhereIsElsewhere
  <2>2. \A s \in Requests :
          Outcome'[s] = Outcome[s] /\ Footprint'[s] = Footprint[s]
    BY <2>1, UndisturbedShowsSame
  <2> QED
    BY <2>1, <2>2, <1>0
<1>3. CASE UNCHANGED vars
  BY <1>3 DEF vars, Outcome, Footprint
<1> QED
  BY <1>1, <1>2, <1>3 DEF Next

\* createCompany implements the atomic registration for any number of requests
\* and any combination of faults, as long as ICID refuses to issue an issued
\* URN again: every registration happens in all stores at once or is refused,
\* and a refused one leaves at most what its faults account for.
THEOREM RegistrationIsAtomic ==
  ASSUME ~Reissue
  PROVE  Spec => AtomicSpec
<1>1. Init => AtomicInv
  BY AtomicInvInit
<1>2. AtomicInv /\ [Next]_vars => AtomicInv'
  BY AtomicInvNext
<1>3. Init => Atomic!Init
  BY AtomicInitial
<1>4. AtomicInv => RegisteredShows /\ RefusedShows
  BY RegisteredIsWhole, RefusedIsClean
<1>5. AtomicInv /\ RegisteredShows' /\ RefusedShows' /\ [Next]_vars =>
        [Atomic!Next]_<<form, Outcome, Footprint, spoiled, logged>>
  BY AtomicStep
<1> QED
  BY <1>1, <1>2, <1>3, <1>4, <1>5, PTL DEF Spec, AtomicSpec, Atomic!Spec
=============================================================================
