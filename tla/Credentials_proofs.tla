-------------------------- MODULE Credentials_proofs --------------------------
(* Proofs about Credentials, for any number of requests, users, addresses   *)
(* and keys, and for every clock, lifetime, margin and window that the      *)
(* assumption admits.                                                       *)
EXTENDS Credentials, TLAPS

\* What a call of each kind has for arguments.
LEMMA CallsFit ==
    \A a \in Calls :
      /\ a.email \in Emails
      /\ a.kind \in AllKinds
      /\ a.kind = "recover" => a.ip \in Ips
      /\ a.kind = "changePassword" => a.new \in Passwords
BY DEF Calls, AllKinds

\* The kinds of calls that come to each place.
KindsAt(l) ==
    CASE l \in {"throttle", "throttled"} -> {"recover"}
      [] l = "grant" -> {"logIn", "changePassword"}
      [] l = "profile" -> {"logIn"}
      [] l \in {"ask", "admin"} -> {"changePassword", "recover"}
      [] OTHER -> AllKinds

InPlace(o) == pc[o] # "idle" => call[o] \in Calls /\ call[o].kind \in KindsAt(pc[o])

Typed == TypeOK /\ \A o \in Ops : InPlace(o)

LEMMA TypedInit == Init => Typed
<1> SUFFICES ASSUME Init PROVE Typed
  OBVIOUS
<1>1. (CHOOSE p \in Passwords : TRUE) \in Passwords
  BY CredentialsAssumption
<1> QED
  BY <1>1, CredentialsAssumption
  DEF Init, Typed, TypeOK, InPlace, Times, NoToken, Unseen, Seen, Idle, AtStart, Strand,
      Kept, Finished, Steps

\* A request moves on, and the others stay where they are.
LEMMA MovesOn ==
    ASSUME Typed, NEW o \in Ops, NEW l \in Steps \cup Finished, Goto(o, l),
           pc[o] # "idle", call[o].kind \in KindsAt(l), UNCHANGED call
    PROVE  pc' \in [Ops -> Steps \cup Finished] /\ \A p \in Ops : InPlace(p)'
<1>1. pc' \in [Ops -> Steps \cup Finished]
  BY DEF Typed, TypeOK, Goto
<1>2. \A p \in Ops : pc'[p] = IF p = o THEN l ELSE pc[p]
  BY DEF Typed, TypeOK, Goto
<1> QED  BY <1>1, <1>2 DEF Typed, InPlace

LEMMA TypedStart == ASSUME Typed, NEW o \in Ops, Start(o) PROVE Typed'
<1>1. PICK a \in Calls :
        /\ call' = [call EXCEPT ![o] = a]
        /\ Goto(o, IF a.kind = "recover" THEN "throttle" ELSE "findUser")
  BY DEF Start
<1>2. /\ call' \in [Ops -> Calls \cup {None}] /\ pc' \in [Ops -> Steps \cup Finished]
      /\ \A p \in Ops : /\ call'[p] = IF p = o THEN a ELSE call[p]
                        /\ pc'[p] = IF p # o THEN pc[p]
                                    ELSE IF a.kind = "recover" THEN "throttle" ELSE "findUser"
  BY <1>1 DEF Typed, TypeOK, Goto, Steps
<1>3. \A p \in Ops : InPlace(p)'
  BY <1>2, CallsFit DEF Typed, InPlace, KindsAt
<1> QED  BY <1>2, <1>3 DEF Start, Typed, TypeOK, world

LEMMA TypedRefuse ==
    ASSUME Typed, NEW o \in Ops, NEW l \in Finished \ {"idle", "throttled"}, Refuse(o, l),
           pc[o] # "idle"
    PROVE  Typed'
<1>1. call[o].kind \in KindsAt(l)
  BY CallsFit DEF Typed, InPlace, KindsAt, Finished
<1>2. Unseen \in Seen /\ Idle \in [Kept -> Strand]
  BY DEF Unseen, Seen, Idle, AtStart, Strand, Kept
<1> QED  BY <1>1, <1>2, MovesOn DEF Refuse, Typed, TypeOK, world

LEMMA TypedKeep ==
    ASSUME Typed, NEW o \in Ops, NEW field \in {"row", "granted"}, NEW u \in Users,
           NEW l \in Steps \cup Finished, Keep(o, field, u, l), pc[o] # "idle",
           call[o].kind \in KindsAt(l)
    PROVE  Typed'
<1>1. seen[o] \in Seen
  BY DEF Typed, TypeOK
<1>2. [seen[o] EXCEPT !.row = u] \in Seen /\ [seen[o] EXCEPT !.granted = u] \in Seen
  BY <1>1 DEF Seen
<1>3. [seen[o] EXCEPT ![field] = u] \in Seen
  <2>1. CASE field = "row"  BY <1>2, <2>1
  <2>2. CASE field = "granted"  BY <1>2, <2>2
  <2> QED  BY <2>1, <2>2
<1> QED  BY <1>3, MovesOn DEF Keep, Typed, TypeOK, world

LEMMA TypedChecks ==
    ASSUME Typed, NEW o \in Ops,
           StatementFails(o) \/ RemoteFails(o) \/ CheckThrottle(o) \/ FindUser(o)
             \/ Grant(o) \/ Profile(o)
    PROVE  Typed'
<1>1. ASSUME StatementFails(o) \/ RemoteFails(o) PROVE Typed'
  BY <1>1, TypedRefuse DEF StatementFails, RemoteFails, Finished
<1>2. CASE CheckThrottle(o)
  <2>1. [history[o] EXCEPT !.at = now] \in [at : Times \cup {None}, moved : BOOLEAN]
    BY DEF Typed, TypeOK
  <2>2. history' \in [Ops -> [at : Times \cup {None}, moved : BOOLEAN]]
    BY <1>2, <2>1 DEF CheckThrottle, Typed, TypeOK
  <2>3. throttle' \in [Keys -> Nat]
    BY <1>2, CredentialsAssumption DEF CheckThrottle, Typed, TypeOK, Times
  <2>4. /\ pc' \in [Ops -> Steps \cup Finished]
        /\ \A p \in Ops : InPlace(p)'
    BY <1>2, MovesOn, CallsFit
    DEF CheckThrottle, Typed, InPlace, KindsAt, Steps, Finished, AllKinds
  <2> QED  BY <1>2, <2>2, <2>3, <2>4 DEF CheckThrottle, Typed, TypeOK
<1>3. CASE FindUser(o)
  <2>1. holder[call[o].email] \in Users \cup {None}
    BY <1>3, CallsFit DEF FindUser, Typed, TypeOK, InPlace
  <2> QED
    BY <1>3, <2>1, TypedKeep, TypedRefuse, CallsFit
    DEF FindUser, Typed, InPlace, KindsAt, Steps, Finished, AllKinds
<1>4. CASE Grant(o)
  <2>1. holder[call[o].email] \in Users \cup {None}
    BY <1>4, CallsFit DEF Grant, Typed, TypeOK, InPlace
  <2>2. call[o].kind \in {"logIn", "changePassword"}
    BY <1>4 DEF Grant, Typed, InPlace, KindsAt
  <2> QED
    BY <1>4, <2>1, <2>2, TypedKeep, TypedRefuse
    DEF Grant, KindsAt, Steps, Finished
<1>5. CASE Profile(o)
  <2>1. CASE Refuse(o, "refused")
    BY <1>5, <2>1, TypedRefuse DEF Profile, Finished
  <2>2. CASE Proceed(o, "done")
    <3>1. call[o].kind \in KindsAt("done")
      BY <1>5, CallsFit DEF Profile, Typed, InPlace, KindsAt
    <3> QED  BY <1>5, <2>2, <3>1, MovesOn DEF Profile, Proceed, Finished, Typed, TypeOK, world
  <2> QED  BY <1>5, <2>1, <2>2 DEF Profile
<1> QED  BY <1>1, <1>2, <1>3, <1>4, <1>5

\* What the two strands of an admin request become.
LEMMA TypedAsk == ASSUME Typed, NEW o \in Ops, Ask(o) PROVE Typed'
<1> DEFINE both == [s \in Kept |->
         IF adminToken.expiresAt > now THEN Holding(s, adminToken.expiry)
         ELSE [at |-> "fetch", token |-> now + Lifetime, by |-> now + RoundTrip]]
<1>1. both \in [Kept -> Strand]
  BY CredentialsAssumption DEF Typed, TypeOK, Times, Holding, Strand, Kept
<1>2. strands' \in [Ops -> [Kept -> Strand]]
  BY <1>1 DEF Ask, Typed, TypeOK
<1>3. pc' \in [Ops -> Steps \cup Finished] /\ \A p \in Ops : InPlace(p)'
  BY MovesOn DEF Ask, Typed, InPlace, KindsAt, Steps
<1> QED  BY <1>2, <1>3 DEF Ask, Typed, TypeOK, world

LEMMA TypedCacheToken ==
    ASSUME Typed, NEW o \in Ops, NEW s \in Kept, CacheToken(o, s) PROVE Typed'
<1>1. strands[o][s].token \in Nat
  BY DEF Typed, TypeOK, Strand
<1>2. Holding(s, strands[o][s].token) \in Strand
  BY <1>1, CredentialsAssumption DEF Typed, TypeOK, Times, Holding, Strand, Kept
<1>3. [strands[o] EXCEPT ![s] = Holding(s, strands[o][s].token)] \in [Kept -> Strand]
  BY <1>2 DEF Typed, TypeOK
<1>4. strands' \in [Ops -> [Kept -> Strand]]
  BY <1>3 DEF CacheToken, Typed, TypeOK
<1>5. adminToken' \in [expiry : Nat, expiresAt : Int]
  BY <1>1, CredentialsAssumption DEF CacheToken, Typed, TypeOK, Times
<1> QED  BY <1>4, <1>5 DEF CacheToken, Typed, TypeOK, InPlace

LEMMA TypedLookup == ASSUME Typed, NEW o \in Ops, Lookup(o) PROVE Typed'
<1>1. CASE Refuse(o, "unauthorized")
  BY <1>1, TypedRefuse DEF Lookup, Finished
<1>2. CASE Accepted(strands[o]["find"].token)
  <2>1. holder[call[o].email] \in Users \cup {None}
    BY CallsFit DEF Lookup, Typed, TypeOK, InPlace
  <2>2. [seen[o] EXCEPT !.found = holder[call[o].email]] \in Seen
    <3>1. seen[o] \in Seen
      BY DEF Typed, TypeOK
    <3> QED  BY <2>1, <3>1 DEF Seen
  <2>3. strands[o]["find"] \in Strand
    BY DEF Typed, TypeOK, Kept
  <2>4. [strands[o]["find"] EXCEPT !.at = "have"] \in Strand
    BY <2>3 DEF Strand
  <2>5. [strands[o] EXCEPT !["find"].at = "have"] \in [Kept -> Strand]
    BY <2>4 DEF Typed, TypeOK
  <2> QED  BY <1>2, <2>2, <2>5 DEF Lookup, Typed, TypeOK, InPlace, world
<1> QED  BY <1>1, <1>2 DEF Lookup

LEMMA TypedPut ==
    ASSUME Typed, NEW o \in Ops, NoAccount(o) \/ Put(o) PROVE Typed'
<1>1. pc[o] # "idle"
  BY DEF NoAccount, Put, Ready
<1>2. ASSUME NEW l \in {"refused", "unauthorized"}, Refuse(o, l) PROVE Typed'
  BY <1>1, <1>2, TypedRefuse DEF Finished
<1>3. CASE Put(o) /\ Accepted(strands[o]["put"].token)
  <2>1. seen[o].found \in Users
    BY <1>3 DEF Put, Typed, TypeOK, Seen
  <2>2. call[o].kind # "recover" => call[o].new \in Passwords
    BY <1>3, CallsFit DEF Put, Ready, Typed, InPlace, KindsAt
  <2>3. password' \in [Users -> Passwords]
    BY <1>3, <2>1, <2>2 DEF Put, Typed, TypeOK
  <2>4. Unseen \in Seen /\ Idle \in [Kept -> Strand]
    BY DEF Unseen, Seen, Idle, AtStart, Strand, Kept
  <2>5. call[o].kind \in KindsAt("done")
    BY <1>1, CallsFit DEF Typed, InPlace, KindsAt
  <2>6. pc' \in [Ops -> Steps \cup Finished] /\ \A p \in Ops : InPlace(p)'
    BY <1>1, <1>3, <2>5, MovesOn DEF Put, Finished
  <2> QED  BY <1>3, <2>3, <2>4, <2>6 DEF Put, Typed, TypeOK
<1> QED  BY <1>2, <1>3 DEF NoAccount, Put

LEMMA TypedWorld ==
    ASSUME Typed, Tick \/ \E u \in Users, e \in Emails : MoveAddress(u, e)
    PROVE  Typed'
<1>1. CASE Tick
  <2>1. throttle' \in [Keys -> Nat]
    BY <1>1 DEF Tick, Typed, TypeOK
  <2>2. now' \in Times
    BY <1>1, CredentialsAssumption DEF Tick, Typed, TypeOK, Times
  <2> QED  BY <1>1, <2>1, <2>2 DEF Tick, Typed, TypeOK, InPlace, NoToken
<1>2. ASSUME NEW u \in Users, NEW e \in Emails, MoveAddress(u, e) PROVE Typed'
  <2>1. holder' \in [Emails -> Users \cup {None}]
    BY <1>2 DEF MoveAddress, Typed, TypeOK
  <2>2. \A o \in Ops : [history[o] EXCEPT !.moved = TRUE]
                         \in [at : Times \cup {None}, moved : BOOLEAN]
    BY DEF Typed, TypeOK
  <2>3. history' \in [Ops -> [at : Times \cup {None}, moved : BOOLEAN]]
    BY <1>2, <2>2 DEF MoveAddress, Typed, TypeOK
  <2> QED  BY <1>2, <2>1, <2>3 DEF MoveAddress, Typed, TypeOK, InPlace
<1> QED  BY <1>1, <1>2

LEMMA TypedNext == Typed /\ [Next]_vars => Typed'
<1> SUFFICES ASSUME Typed, [Next]_vars PROVE Typed'
  OBVIOUS
<1>1. CASE UNCHANGED vars
  BY <1>1 DEF vars, Typed, TypeOK, InPlace
<1>2. ASSUME NEW o \in Ops, AdminRequest(o) PROVE Typed'
  BY <1>2, TypedAsk, TypedCacheToken, TypedLookup, TypedPut DEF AdminRequest
<1> QED  BY <1>1, <1>2, TypedStart, TypedChecks, TypedWorld DEF Next

\* Passwords, tokens and the throttle keep their types, and no call of an admin
\* request is made for an account that is not there.
THEOREM TypeCorrect == Spec => []TypeOK
<1>1. Typed => TypeOK
  BY DEF Typed
<1> QED  BY <1>1, TypedInit, TypedNext, PTL DEF Spec

-----------------------------------------------------------------------------
(* The admin token.  A token that a request holds outlives the calls that   *)
(* the request has still to make, because it was either fetched at most one *)
(* call ago or taken from the cache with two calls to spare.                *)

CacheHasRoom ==
    adminToken.expiresAt > now => adminToken.expiry >= adminToken.expiresAt + 2 * RoundTrip

\* A call of a strand is answered in time, and a token that is being fetched was
\* issued when the call began.
StrandIsTimely(o) == \A s \in Kept :
    LET t == strands[o][s] IN
    /\ t.at # "start" /\ (s = "put" => t.at # "lookup")
    /\ t.at # "have" => now <= t.by
    /\ t.at = "fetch" => t.token + RoundTrip >= t.by + Lifetime
    /\ t.token > t.by + RoundTrip

\* The token of the PUT outlives the look-up, and a fetch before it.
PutOutlives(o) ==
    LET put == strands[o]["put"]
        find == strands[o]["find"] IN
    /\ put.token > find.by + RoundTrip
    /\ find.at = "fetch" => put.token > find.by + 2 * RoundTrip
    /\ Ready(o) => now <= put.by + RoundTrip \/ now <= find.by + RoundTrip

FreshInv ==
    /\ Typed
    /\ CacheHasRoom
    /\ \A o \in Ops : pc[o] = "admin" => StrandIsTimely(o) /\ PutOutlives(o)
    /\ AdminTokenIsFresh

LEMMA FreshInit == Init => FreshInv
<1> SUFFICES ASSUME Init PROVE FreshInv
  OBVIOUS
<1>1. CacheHasRoom
  BY DEF Init, CacheHasRoom, NoToken
<1> QED  BY <1>1, TypedInit DEF Init, FreshInv, AdminTokenIsFresh

\* Nothing that is timed changes for the requests that do not move.
LEMMA FreshElsewhere ==
    ASSUME FreshInv, UNCHANGED now, CacheHasRoom', Typed', NEW o \in Ops,
           \A p \in Ops \ {o} : pc'[p] = pc[p] /\ strands'[p] = strands[p],
           pc'[o] # "unauthorized",
           pc'[o] = "admin" => StrandIsTimely(o)' /\ PutOutlives(o)'
    PROVE  FreshInv'
BY DEF FreshInv, StrandIsTimely, PutOutlives, Ready, AdminTokenIsFresh

\* A step that leaves the token and the strands alone, or drops them.
LEMMA FreshGoes ==
    ASSUME FreshInv, Typed', NEW o \in Ops, NEW l, Goto(o, l),
           l \notin {"admin", "unauthorized"}, UNCHANGED <<now, adminToken>>,
           \A p \in Ops \ {o} : strands'[p] = strands[p]
    PROVE  FreshInv'
<1>1. \A p \in Ops : pc'[p] = IF p = o THEN l ELSE pc[p]
  BY DEF Goto, FreshInv, Typed, TypeOK
<1>2. CacheHasRoom'
  BY DEF CacheHasRoom, FreshInv
<1> QED  BY <1>1, <1>2, FreshElsewhere

LEMMA FreshAsk == ASSUME FreshInv, NEW o \in Ops, Ask(o) PROVE FreshInv'
<1>1. Typed' /\ Typed
  BY TypedAsk DEF FreshInv
<1>2. now \in Nat /\ adminToken.expiry \in Nat /\ adminToken.expiresAt \in Int
  BY <1>1 DEF Typed, TypeOK, Times
<1>3. CacheHasRoom'
  BY DEF Ask, world, FreshInv, CacheHasRoom
<1>4. \A s \in Kept : strands'[o][s] =
         IF adminToken.expiresAt > now THEN Holding(s, adminToken.expiry)
         ELSE [at |-> "fetch", token |-> now + Lifetime, by |-> now + RoundTrip]
  BY <1>1 DEF Ask, Typed, TypeOK
<1>5. now' = now /\ RoundTrip \in Nat /\ Lifetime \in Nat /\ Margin \in Nat
      /\ 3 * RoundTrip < Lifetime
  BY CredentialsAssumption DEF Ask, world
<1>6. StrandIsTimely(o)' /\ PutOutlives(o)'
  <2>1. CASE adminToken.expiresAt > now
    <3>1. adminToken.expiry > now + 2 * RoundTrip
      BY <1>2, <1>5, <2>1 DEF FreshInv, CacheHasRoom
    <3>2. strands'[o]["put"] = [at |-> "have", token |-> adminToken.expiry, by |-> now]
      BY <1>4, <2>1 DEF Holding, Kept
    <3>3. strands'[o]["find"] =
            [at |-> "lookup", token |-> adminToken.expiry, by |-> now + RoundTrip]
      BY <1>4, <2>1 DEF Holding, Kept
    <3> QED
      BY <1>2, <1>5, <3>1, <3>2, <3>3 DEF StrandIsTimely, PutOutlives, Ready, Kept
  <2>2. CASE ~(adminToken.expiresAt > now)
    <3>1. \A s \in Kept : strands'[o][s] =
            [at |-> "fetch", token |-> now + Lifetime, by |-> now + RoundTrip]
      BY <1>4, <2>2
    <3> QED
      BY <1>2, <1>5, <3>1 DEF StrandIsTimely, PutOutlives, Ready, Kept
  <2> QED  BY <2>1, <2>2
<1>7. \A p \in Ops \ {o} : pc'[p] = pc[p] /\ strands'[p] = strands[p]
  BY <1>1 DEF Ask, Goto, Typed, TypeOK
<1>8. pc'[o] = "admin"
  BY <1>1 DEF Ask, Goto, Typed, TypeOK
<1> QED  BY <1>1, <1>3, <1>5, <1>6, <1>7, <1>8, FreshElsewhere

LEMMA FreshCacheToken ==
    ASSUME FreshInv, NEW o \in Ops, NEW s \in Kept, CacheToken(o, s) PROVE FreshInv'
<1> DEFINE t == strands[o][s]
<1>1. Typed' /\ Typed
  BY TypedCacheToken DEF FreshInv
<1>2. now \in Nat /\ \A r \in Kept : strands[o][r].token \in Nat /\ strands[o][r].by \in Nat
  BY <1>1 DEF Typed, TypeOK, Times, Strand
<1>3. now' = now /\ RoundTrip \in Nat /\ Lifetime \in Nat /\ Margin \in Nat
      /\ 3 * RoundTrip <= Margin /\ Margin < Lifetime
  BY CredentialsAssumption DEF CacheToken
<1>4. StrandIsTimely(o) /\ PutOutlives(o)
  BY DEF CacheToken, FreshInv
<1>5. now <= t.by /\ t.token + RoundTrip >= t.by + Lifetime
  BY <1>4 DEF CacheToken, StrandIsTimely
<1>6. t.token > now + 2 * RoundTrip
  BY <1>2, <1>3, <1>5
<1>7. CacheHasRoom'
  <2>1. adminToken' = [expiry |-> t.token, expiresAt |-> now + Lifetime - Margin]
    BY DEF CacheToken
  <2> QED  BY <1>2, <1>3, <1>5, <2>1 DEF CacheHasRoom
<1>8. strands'[o] = [strands[o] EXCEPT ![s] = Holding(s, t.token)]
  BY <1>1 DEF CacheToken, Typed, TypeOK
<1>9. \A r \in Kept : strands'[o][r] = IF r = s THEN Holding(s, t.token) ELSE strands[o][r]
  BY <1>1, <1>8 DEF Typed, TypeOK
<1>10. StrandIsTimely(o)' /\ PutOutlives(o)'
  <2>1. CASE s = "put"
    <3>1. strands'[o]["put"] = [at |-> "have", token |-> t.token, by |-> now]
      BY <1>9, <2>1 DEF Holding, Kept
    <3>2. strands'[o]["find"] = strands[o]["find"]
      BY <1>9, <2>1 DEF Kept
    <3>3. PutOutlives(o)'
      BY <1>2, <1>3, <1>4, <1>6, <2>1, <3>1, <3>2 DEF PutOutlives, Ready, Kept
    <3>4. StrandIsTimely(o)'
      BY <1>2, <1>3, <1>4, <1>6, <2>1, <3>1, <3>2 DEF StrandIsTimely, Kept
    <3> QED  BY <3>3, <3>4
  <2>2. CASE s = "find"
    <3>1. strands'[o]["find"] =
            [at |-> "lookup", token |-> t.token, by |-> now + RoundTrip]
      BY <1>9, <2>2 DEF Holding, Kept
    <3>2. strands'[o]["put"] = strands[o]["put"]
      BY <1>9, <2>2 DEF Kept
    <3>3. PutOutlives(o)'
      <4>1. strands[o]["put"].token > t.by + 2 * RoundTrip
        BY <1>4, <2>2 DEF PutOutlives, CacheToken
      <4> QED
        BY <1>2, <1>3, <1>5, <2>2, <3>1, <3>2, <4>1 DEF PutOutlives, Ready, Kept
    <3>4. StrandIsTimely(o)'
      BY <1>2, <1>3, <1>4, <1>6, <2>2, <3>1, <3>2 DEF StrandIsTimely, Kept
    <3> QED  BY <3>3, <3>4
  <2> QED  BY <2>1, <2>2 DEF Kept
<1>11. \A p \in Ops \ {o} : strands'[p] = strands[p]
  BY <1>1 DEF CacheToken, Typed, TypeOK
<1>12. pc'[o] # "unauthorized" /\ pc' = pc
  BY DEF CacheToken
<1> QED  BY <1>1, <1>3, <1>7, <1>10, <1>11, <1>12, FreshElsewhere

LEMMA FreshLookup == ASSUME FreshInv, NEW o \in Ops, Lookup(o) PROVE FreshInv'
<1>1. Typed' /\ Typed
  BY TypedLookup DEF FreshInv
<1>2. now \in Nat /\ RoundTrip \in Nat
      /\ \A r \in Kept : strands[o][r].token \in Nat /\ strands[o][r].by \in Nat
  BY <1>1, CredentialsAssumption DEF Typed, TypeOK, Times, Strand
<1>3. StrandIsTimely(o) /\ PutOutlives(o)
  BY DEF Lookup, FreshInv
<1>4. now <= strands[o]["find"].by
      /\ strands[o]["find"].token > strands[o]["find"].by + RoundTrip
  BY <1>3 DEF Lookup, StrandIsTimely, Kept
<1>5. Accepted(strands[o]["find"].token)
  BY <1>2, <1>4 DEF Accepted, Kept
<1>6. /\ strands' = [strands EXCEPT ![o]["find"].at = "have"]
      /\ UNCHANGED <<world, pc, call, history>>
  BY <1>5 DEF Lookup
<1>7. strands[o] = [s \in Kept |-> strands[o][s]] /\ strands[o]["find"] \in Strand
  BY <1>1 DEF Typed, TypeOK, Kept
<1>8. /\ strands'[o]["find"] = [at |-> "have", token |-> strands[o]["find"].token,
                                by |-> strands[o]["find"].by]
      /\ strands'[o]["put"] = strands[o]["put"]
  <2>1. strands'[o] = [strands[o] EXCEPT !["find"].at = "have"]
    BY <1>1, <1>6 DEF Typed, TypeOK
  <2>2. strands'[o]["find"] = [strands[o]["find"] EXCEPT !.at = "have"]
    BY <1>7, <2>1 DEF Kept
  <2> QED  BY <1>7, <2>1, <2>2 DEF Kept, Strand
<1>9. now' = now
  BY <1>6 DEF world
<1>10. StrandIsTimely(o)'
  BY <1>2, <1>3, <1>8, <1>9 DEF StrandIsTimely, Kept
<1>11. PutOutlives(o)'
  BY <1>2, <1>3, <1>4, <1>8, <1>9 DEF PutOutlives, Kept
<1>12. CacheHasRoom'
  BY <1>6 DEF world, FreshInv, CacheHasRoom
<1>13. \A p \in Ops \ {o} : strands'[p] = strands[p]
  BY <1>1, <1>6 DEF Typed, TypeOK
<1>14. pc' = pc /\ pc[o] # "unauthorized"
  BY <1>6 DEF Lookup
<1> QED  BY <1>1, <1>9, <1>10, <1>11, <1>12, <1>13, <1>14, FreshElsewhere

LEMMA FreshPut == ASSUME FreshInv, NEW o \in Ops, NoAccount(o) \/ Put(o) PROVE FreshInv'
<1>1. Typed' /\ Typed
  BY TypedPut DEF FreshInv
<1>2. now \in Nat /\ RoundTrip \in Nat
      /\ \A r \in Kept : strands[o][r].token \in Nat /\ strands[o][r].by \in Nat
  BY <1>1, CredentialsAssumption DEF Typed, TypeOK, Times, Strand
<1>3. StrandIsTimely(o) /\ PutOutlives(o) /\ Ready(o)
  BY DEF NoAccount, Put, Ready, FreshInv
<1>4. Accepted(strands[o]["put"].token)
  BY <1>2, <1>3 DEF Accepted, Kept, PutOutlives, StrandIsTimely
<1>5. PICK l \in {"refused", "done"} :
        Goto(o, l) /\ strands' = [strands EXCEPT ![o] = Idle]
        /\ UNCHANGED <<now, adminToken>>
  BY <1>4 DEF NoAccount, Put, Refuse, world
<1> QED  BY <1>1, <1>5, FreshGoes DEF Typed, TypeOK

LEMMA FreshChecks ==
    ASSUME FreshInv, NEW o \in Ops,
           \/ Start(o) \/ StatementFails(o) \/ RemoteFails(o) \/ CheckThrottle(o)
           \/ FindUser(o) \/ Grant(o) \/ Profile(o)
    PROVE  FreshInv'
<1>1. Typed'
  BY TypedStart, TypedChecks DEF FreshInv
<1>2. PICK l \in {"throttle", "findUser", "refused", "throttled", "ask", "grant", "done",
                  "profile"} : Goto(o, l)
  BY DEF Start, StatementFails, RemoteFails, CheckThrottle, FindUser, Grant, Profile, Keep,
         Refuse, Proceed
<1>3. UNCHANGED <<now, adminToken>> /\ \A p \in Ops \ {o} : strands'[p] = strands[p]
  BY DEF Start, StatementFails, RemoteFails, CheckThrottle, FindUser, Grant, Profile, Keep,
         Refuse, Proceed, world, FreshInv, Typed, TypeOK
<1> QED  BY <1>1, <1>2, <1>3, FreshGoes

LEMMA FreshTick == ASSUME FreshInv, Tick PROVE FreshInv'
<1>1. Typed' /\ Typed
  BY TypedWorld DEF FreshInv
<1>2. now \in Nat /\ now' = now + 1 /\ RoundTrip \in Nat
  BY <1>1, CredentialsAssumption DEF Tick, Typed, TypeOK, Times
<1>3. CacheHasRoom'
  BY <1>1, <1>2 DEF Tick, FreshInv, CacheHasRoom, NoToken, Typed, TypeOK
<1>4. ASSUME NEW o \in Ops, pc[o] = "admin"
      PROVE  StrandIsTimely(o)' /\ PutOutlives(o)'
  <2> DEFINE by(s) == strands[o][s].by
  <2>1. StrandIsTimely(o) /\ PutOutlives(o) /\ now < Due(o)
    BY <1>4 DEF FreshInv, Tick, Timed
  <2>2. by("put") \in Nat /\ by("find") \in Nat
    BY <1>1 DEF Typed, TypeOK, Strand, Kept
  <2>3. UNCHANGED <<pc, strands>>
    BY DEF Tick
  <2>4. ASSUME Ready(o)
        PROVE  now' <= by("put") + RoundTrip \/ now' <= by("find") + RoundTrip
    <3>1. {strands[o][s].by : s \in Kept} = {by("put"), by("find")}
      BY DEF Kept
    <3>2. Max({by("put"), by("find")}) \in {by("put"), by("find")}
      BY <2>2 DEF Max
    <3>3. Due(o) = RoundTrip + Max({by("put"), by("find")})
      BY <2>4, <3>1 DEF Due
    <3> QED  BY <1>2, <2>1, <2>2, <3>2, <3>3
  <2>5. ASSUME NEW s \in Kept, strands[o][s].at # "have" PROVE now' <= by(s)
    <3> DEFINE S == {strands[o][r].by : r \in {t \in Kept : strands[o][t].at # "have"}}
    <3>1. ~Ready(o)
      BY <2>5 DEF Ready
    <3>2. S \subseteq {by("put"), by("find")} /\ by(s) \in S
      BY <2>5 DEF Kept
    <3>3. \E m \in S : \A x \in S : m <= x
      <4>1. CASE \A x \in S : by(s) <= x
        BY <3>2, <4>1
      <4>2. ASSUME NEW x \in S, ~(by(s) <= x) PROVE \A y \in S : x <= y
        BY <2>2, <3>2, <4>2 DEF Kept
      <4> QED  BY <4>1, <4>2
    <3>4. Min(S) <= by(s)
      BY <3>2, <3>3 DEF Min
    <3>5. Min(S) \in Nat
      BY <2>2, <3>2, <3>3 DEF Min
    <3>6. Due(o) = Min(S)
      BY <3>1 DEF Due
    <3> QED  BY <1>2, <2>1, <2>2, <3>4, <3>5, <3>6 DEF Kept
  <2>6. StrandIsTimely(o)'
    BY <2>1, <2>3, <2>5 DEF StrandIsTimely
  <2>7. PutOutlives(o)'
    BY <2>1, <2>3, <2>4 DEF PutOutlives, Ready
  <2> QED  BY <2>6, <2>7
<1> QED  BY <1>1, <1>3, <1>4 DEF Tick, FreshInv, AdminTokenIsFresh

LEMMA FreshNext == FreshInv /\ [Next]_vars => FreshInv'
<1> SUFFICES ASSUME FreshInv, [Next]_vars PROVE FreshInv'
  OBVIOUS
<1>1. Typed'
  BY TypedNext DEF FreshInv
<1>2. ASSUME NEW u \in Users, NEW e \in Emails, MoveAddress(u, e) PROVE FreshInv'
  BY <1>1, <1>2
  DEF MoveAddress, FreshInv, CacheHasRoom, StrandIsTimely, PutOutlives, Ready,
      AdminTokenIsFresh
<1>3. CASE UNCHANGED vars
  BY <1>1, <1>3
  DEF vars, FreshInv, CacheHasRoom, StrandIsTimely, PutOutlives, Ready, AdminTokenIsFresh
<1>4. ASSUME NEW o \in Ops, AdminRequest(o) PROVE FreshInv'
  BY <1>4, FreshAsk, FreshLookup, FreshPut, FreshCacheToken DEF AdminRequest
<1> QED  BY <1>2, <1>3, <1>4, FreshChecks, FreshTick DEF Next

\* No request reaches Keycloak with an admin token that has expired, whoever
\* fetches, caches and overwrites it in between, provided that the margin covers
\* three calls.
THEOREM TokensOutliveRequests == Spec => []AdminTokenIsFresh
<1>1. FreshInv => AdminTokenIsFresh
  BY DEF FreshInv
<1> QED  BY <1>1, FreshInit, FreshNext, PTL DEF Spec

-----------------------------------------------------------------------------
(* Who is who.  What a request found out about its address stays true of    *)
(* the address until that changes hands, which is written down.             *)

\* The user that the address of o belongs to now.
User(o) == holder[call[o].email]

WhoIsWho(o) == ~history[o].moved =>
    /\ pc[o] \in {"grant", "profile"} /\ call[o].kind = "logIn" => seen[o].row = User(o)
    /\ pc[o] \in {"profile", "ask", "admin"} /\ call[o].kind # "recover" =>
         seen[o].granted = User(o)
    /\ pc[o] = "admin" /\ strands[o]["find"].at = "have" => seen[o].found = User(o)
    /\ pc[o] = "done" /\ call[o].kind = "logIn" => seen[o].granted = seen[o].row

WhoInv == Typed /\ \A o \in Ops : WhoIsWho(o)

LEMMA WhoInit == Init => WhoInv
BY TypedInit DEF Init, WhoInv, WhoIsWho

\* A step of one request tells the others nothing.
LEMMA WhoElsewhere ==
    ASSUME WhoInv, Typed', NEW o \in Ops, WhoIsWho(o)', UNCHANGED holder,
           \A p \in Ops \ {o} : /\ pc'[p] = pc[p] /\ call'[p] = call[p]
                                /\ seen'[p] = seen[p] /\ strands'[p] = strands[p]
                                /\ history'[p] = history[p]
    PROVE  WhoInv'
BY DEF WhoInv, WhoIsWho, User

LEMMA WhoSteps ==
    ASSUME WhoInv, Typed', NEW o \in Ops,
           \/ Start(o) \/ StatementFails(o) \/ RemoteFails(o) \/ CheckThrottle(o)
           \/ FindUser(o) \/ Grant(o) \/ Profile(o) \/ AdminRequest(o)
    PROVE  WhoInv'
<1> USE DEF WhoInv, Typed, TypeOK
<1>1. UNCHANGED holder
  BY DEF Start, StatementFails, RemoteFails, CheckThrottle, FindUser, Grant, Profile,
         AdminRequest, Ask, CacheToken, Lookup, NoAccount, Put, Keep, Refuse, Proceed, world
<1>2. \A p \in Ops \ {o} : /\ pc'[p] = pc[p] /\ call'[p] = call[p]
                           /\ seen'[p] = seen[p] /\ strands'[p] = strands[p]
                           /\ history'[p] = history[p]
  BY DEF Start, StatementFails, RemoteFails, CheckThrottle, FindUser, Grant, Profile,
         AdminRequest, Ask, CacheToken, Lookup, NoAccount, Put, Keep, Refuse, Proceed, Goto
<1>3. ASSUME NEW l \in {"refused", "unauthorized", "done"}, Refuse(o, l)
      PROVE  WhoIsWho(o)'
  <2>1. pc'[o] = l /\ seen'[o] = Unseen
    BY <1>3 DEF Refuse, Goto
  <2> QED  BY <2>1 DEF WhoIsWho, Unseen
<1>4. ASSUME NEW u, NEW l, Keep(o, "row", u, l)
      PROVE  /\ pc'[o] = l /\ call' = call /\ history' = history
             /\ seen'[o].row = u /\ seen'[o].granted = seen[o].granted
  BY <1>4 DEF Keep, Goto, Seen
<1>5. ASSUME NEW u, NEW l, Keep(o, "granted", u, l)
      PROVE  /\ pc'[o] = l /\ call' = call /\ history' = history
             /\ seen'[o].granted = u /\ seen'[o].row = seen[o].row
  BY <1>5 DEF Keep, Goto, Seen
<1>6. call[o].kind \in AllKinds \/ pc[o] = "idle"
  BY CallsFit DEF InPlace
<1>7. CASE Start(o)
  BY <1>7, <1>1, <1>2, WhoElsewhere DEF Start, Goto, WhoIsWho
<1>8. CASE StatementFails(o) \/ RemoteFails(o)
  BY <1>8, <1>1, <1>2, <1>3, WhoElsewhere DEF StatementFails, RemoteFails
<1>9. CASE CheckThrottle(o)
  <2>1. pc'[o] \in {"throttled", "findUser"}
    BY <1>9 DEF CheckThrottle, Goto
  <2> QED  BY <2>1, <1>1, <1>2, WhoElsewhere DEF WhoIsWho
<1>10. CASE FindUser(o)
  <2>1. CASE User(o) # None
    <3>1. Keep(o, "row", User(o), IF call[o].kind = "recover" THEN "ask" ELSE "grant")
      BY <1>10, <2>1 DEF FindUser, User
    <3>2. WhoIsWho(o)'
      BY <3>1, <1>1, <1>4 DEF WhoIsWho, User
    <3> QED  BY <3>2, <1>1, <1>2, WhoElsewhere
  <2>2. CASE User(o) = None
    BY <1>10, <2>2, <1>1, <1>2, <1>3, WhoElsewhere DEF FindUser, User
  <2> QED  BY <2>1, <2>2
<1>11. CASE Grant(o)
  <2>1. CASE User(o) # None /\ password[User(o)] = call[o].password
    <3>1. Keep(o, "granted", User(o), IF call[o].kind = "logIn" THEN "profile" ELSE "ask")
      BY <1>11, <2>1 DEF Grant, User
    <3>2. WhoIsWho(o)'
      BY <1>11, <3>1, <1>1, <1>5 DEF Grant, WhoIsWho, User
    <3> QED  BY <3>2, <1>1, <1>2, WhoElsewhere
  <2>2. CASE ~(User(o) # None /\ password[User(o)] = call[o].password)
    BY <1>11, <2>2, <1>1, <1>2, <1>3, WhoElsewhere DEF Grant, User
  <2> QED  BY <2>1, <2>2
<1>12. CASE Profile(o)
  <2>1. CASE Proceed(o, "done")
    <3>1. pc'[o] = "done" /\ seen' = seen /\ call' = call /\ history' = history
      BY <1>12, <2>1 DEF Proceed, Profile, Goto
    <3>2. WhoIsWho(o)'
      BY <1>12, <3>1 DEF Profile, WhoIsWho
    <3> QED  BY <3>2, <1>1, <1>2, WhoElsewhere
  <2>2. CASE Refuse(o, "refused")
    BY <2>2, <1>1, <1>2, <1>3, WhoElsewhere
  <2> QED  BY <1>12, <2>1, <2>2 DEF Profile
<1>13. CASE Ask(o)
  <2>1. /\ pc'[o] = "admin" /\ seen' = seen /\ call' = call /\ history' = history
        /\ pc[o] = "ask"
    BY <1>13 DEF Ask, Goto
  <2>2. strands'[o]["find"].at # "have"
    BY <1>13 DEF Ask, Holding, Kept
  <2>3. WhoIsWho(o)'
    BY <2>1, <2>2, <1>1 DEF WhoIsWho, User
  <2> QED  BY <2>3, <1>1, <1>2, WhoElsewhere
<1>14. ASSUME NEW s \in Kept, CacheToken(o, s) PROVE WhoInv'
  <2>1. /\ pc' = pc /\ seen' = seen /\ call' = call /\ history' = history
        /\ pc[o] = "admin"
    BY <1>14 DEF CacheToken
  <2>2. strands'[o] = [strands[o] EXCEPT ![s] = Holding(s, strands[o][s].token)]
    BY <1>14 DEF CacheToken
  <2>3. strands'[o]["find"].at = "have" => strands[o]["find"].at = "have"
    BY <2>2 DEF Holding, Kept
  <2>4. WhoIsWho(o)'
    BY <2>1, <2>3, <1>1 DEF WhoIsWho, User
  <2> QED  BY <2>4, <1>1, <1>2, WhoElsewhere
<1>15. CASE Lookup(o)
  <2>1. CASE Refuse(o, "unauthorized")
    BY <2>1, <1>1, <1>2, <1>3, WhoElsewhere
  <2>2. CASE Accepted(strands[o]["find"].token)
    <3>1. /\ pc' = pc /\ pc[o] = "admin" /\ call' = call /\ history' = history
          /\ seen' = [seen EXCEPT ![o].found = User(o)]
      BY <1>15, <2>2 DEF Lookup, User
    <3>2. seen'[o].found = User(o) /\ seen'[o].granted = seen[o].granted
      BY <3>1 DEF Seen
    <3>3. WhoIsWho(o)'
      BY <3>1, <3>2, <1>1 DEF WhoIsWho, User
    <3> QED  BY <3>3, <1>1, <1>2, WhoElsewhere
  <2> QED  BY <1>15, <2>1, <2>2 DEF Lookup
<1>16. CASE NoAccount(o) \/ Put(o)
  <2>1. pc'[o] \in {"refused", "unauthorized", "done"} /\ seen'[o] = Unseen
    BY <1>16 DEF NoAccount, Put, Refuse, Goto
  <2>2. WhoIsWho(o)'
    BY <2>1 DEF WhoIsWho, Unseen
  <2> QED  BY <2>2, <1>1, <1>2, WhoElsewhere
<1> QED
  BY <1>7, <1>8, <1>9, <1>10, <1>11, <1>12, <1>13, <1>14, <1>15, <1>16 DEF AdminRequest

LEMMA WhoMove ==
    ASSUME WhoInv, Typed', NEW u \in Users, NEW e \in Emails, MoveAddress(u, e)
    PROVE  WhoInv'
<1> SUFFICES ASSUME NEW o \in Ops PROVE WhoIsWho(o)'
  BY DEF WhoInv
<1>1. UNCHANGED <<pc, call, seen, strands>>
  BY DEF MoveAddress
<1>2. history'[o] = IF Running(o) /\ User(o)' # User(o)
                      THEN [history[o] EXCEPT !.moved = TRUE] ELSE history[o]
  BY DEF MoveAddress, User
<1>3. CASE Running(o) /\ User(o)' # User(o)
  <2>1. history'[o].moved
    BY <1>2, <1>3 DEF WhoInv, Typed, TypeOK
  <2> QED  BY <2>1 DEF WhoIsWho
<1>4. CASE ~Running(o)
  BY <1>1, <1>2, <1>4 DEF Running, Steps, WhoInv, WhoIsWho
<1>5. CASE User(o)' = User(o)
  BY <1>1, <1>2, <1>5 DEF WhoInv, WhoIsWho
<1> QED  BY <1>3, <1>4, <1>5

LEMMA WhoNext == WhoInv /\ [Next]_vars => WhoInv'
<1> SUFFICES ASSUME WhoInv, [Next]_vars PROVE WhoInv'
  OBVIOUS
<1>1. Typed'
  BY TypedNext DEF WhoInv
<1>2. CASE Tick
  BY <1>1, <1>2 DEF Tick, WhoInv, WhoIsWho, User
<1>3. CASE UNCHANGED vars
  BY <1>1, <1>3 DEF vars, WhoInv, WhoIsWho, User
<1> QED  BY <1>1, <1>2, <1>3, WhoSteps, WhoMove DEF Next

\* The tokens and the profile that a login is answered with are one user's, unless
\* the address changed hands between the reads.
THEOREM LoginsAreOnePersons == Spec => []LoginIsOnePerson
<1>1. WhoInv => LoginIsOnePerson
  BY DEF WhoInv, WhoIsWho, LoginIsOnePerson
<1> QED  BY <1>1, WhoInit, WhoNext, PTL DEF Spec

\* A password changes only by the PUT of a request that proved the old one.
LEMMA PutIsProven ==
    WhoInv /\ [Next]_vars =>
      \A u \in Users : password'[u] # password[u] =>
         \E o \in Ops : /\ pc[o] = "admin" /\ call[o].kind = "changePassword"
                        /\ seen[o].granted = u \/ history[o].moved
<1> SUFFICES ASSUME WhoInv, [Next]_vars, NEW u \in Users, password'[u] # password[u]
             PROVE  \E o \in Ops : /\ pc[o] = "admin" /\ call[o].kind = "changePassword"
                                   /\ seen[o].granted = u \/ history[o].moved
  OBVIOUS
<1>1. PICK o \in Ops : Put(o)
  BY DEF Next, Start, StatementFails, RemoteFails, CheckThrottle, FindUser, Grant, Profile,
         AdminRequest, Ask, CacheToken, Lookup, NoAccount, Keep, Refuse, Proceed, world,
         Tick, MoveAddress, vars
<1>2. pc[o] = "admin" /\ strands[o]["find"].at = "have"
  BY <1>1 DEF Put, Ready, Kept
<1>3. call[o].kind # "recover" /\ u = seen[o].found
  BY <1>1 DEF Put, Refuse, world, WhoInv, Typed, TypeOK
<1>4. call[o].kind = "changePassword"
  BY <1>2, <1>3 DEF WhoInv, Typed, InPlace, KindsAt
<1>5. WhoIsWho(o)
  BY DEF WhoInv
<1> QED  BY <1>2, <1>3, <1>4, <1>5 DEF WhoIsWho

\* Whoever moves addresses meanwhile: the password that changes is that of the user
\* who proved the old one, unless the request's own address changed hands.
THEOREM ChangesAreProven == Spec => PasswordChangeIsProven
<1>1. WhoInv /\ [Next]_vars =>
        [\A u \in Users : password'[u] # password[u] =>
           \E o \in Ops : /\ pc[o] = "admin" /\ call[o].kind = "changePassword"
                          /\ seen[o].granted = u \/ history[o].moved]_vars
  BY PutIsProven
<1> QED  BY <1>1, WhoInit, WhoNext, PTL DEF Spec, PasswordChangeIsProven

-----------------------------------------------------------------------------
(* The throttle.  A key is marked exactly while some request that was let   *)
(* through for it is less than a window ago.                                *)

Until(o) == history[o].at + Window

ThrottleInv ==
    /\ Typed
    /\ \A o \in Ops : Admitted(o) \/ pc[o] = "throttled" =>
         history[o].at \in Nat /\ history[o].at <= now
    /\ \A o \in Ops : Admitted(o) =>
         \A k \in KeysOf(o) : now < Until(o) => throttle[k] >= Until(o)
    /\ \A k \in Keys : Marked(k) =>
         /\ now < throttle[k]
         /\ \E o \in Ops : Admitted(o) /\ k \in KeysOf(o) /\ throttle[k] = Until(o)
    /\ ThrottleIsExact

LEMMA KeysAre ==
    ASSUME Typed, NEW o \in Ops, Admitted(o) \/ pc[o] \in {"throttle", "throttled"}
    PROVE  KeysOf(o) \subseteq Keys
BY CallsFit DEF Typed, InPlace, KindsAt, Admitted, KeysOf, Keys

LEMMA ThrottleInit == Init => ThrottleInv
BY TypedInit DEF Init, ThrottleInv, ThrottleIsExact, Admitted, Marked

\* Where no request comes to the throttle and no time passes, all stays as it was.
LEMMA ThrottleStays ==
    ASSUME ThrottleInv, Typed', UNCHANGED <<now, throttle>>,
           \A o \in Ops :
             /\ Admitted(o)' = Admitted(o)
             /\ pc'[o] = "throttled" <=> pc[o] = "throttled"
             /\ Admitted(o) \/ pc[o] = "throttled" =>
                  call'[o] = call[o] /\ history'[o].at = history[o].at
    PROVE  ThrottleInv'
<1>1. \A o \in Ops : Admitted(o) \/ pc[o] = "throttled" =>
        KeysOf(o)' = KeysOf(o) /\ Until(o)' = Until(o)
  BY DEF KeysOf, Until
<1>2. ThrottleIsExact'
  BY <1>1 DEF ThrottleInv, ThrottleIsExact
<1> QED  BY <1>1, <1>2 DEF ThrottleInv, Marked

LEMMA ThrottleChecks == ASSUME ThrottleInv, NEW o \in Ops, CheckThrottle(o) PROVE ThrottleInv'
<1>1. Typed /\ Typed'
  BY TypedChecks DEF ThrottleInv
<1>2. now \in Nat /\ now' = now /\ Window \in Nat /\ Window > 0
  BY <1>1, CredentialsAssumption DEF CheckThrottle, Typed, TypeOK, Times
<1>3. call[o].kind = "recover" /\ KeysOf(o) \subseteq Keys
  BY <1>1, KeysAre DEF CheckThrottle, Typed, InPlace, KindsAt
<1>4. \A p \in Ops \ {o} : /\ pc'[p] = pc[p] /\ history'[p] = history[p]
                           /\ Admitted(p)' = Admitted(p) /\ KeysOf(p)' = KeysOf(p)
                           /\ Until(p)' = Until(p)
  BY <1>1 DEF CheckThrottle, Goto, Typed, TypeOK, Admitted, KeysOf, Until
<1>5. history'[o].at = now /\ KeysOf(o)' = KeysOf(o) /\ Until(o)' = now + Window
  BY <1>1, <1>2 DEF CheckThrottle, Typed, TypeOK, KeysOf, Until
<1>6. ~Admitted(o) /\ pc[o] # "throttled"
  BY DEF CheckThrottle, Admitted
<1>7. \A p \in Ops : Admitted(p) => p # o /\ history[p].at \in Nat /\ history[p].at <= now
  BY <1>6 DEF ThrottleInv
<1>8. \A k \in Keys : throttle[k] \in Nat
  BY <1>1 DEF Typed, TypeOK
<1>9. CASE \E k \in KeysOf(o) : Marked(k)
  <2>1. pc'[o] = "throttled" /\ throttle' = throttle
    BY <1>1, <1>9 DEF CheckThrottle, Goto, Typed, TypeOK
  <2>2. PICK k \in KeysOf(o), p \in Ops :
          Admitted(p) /\ k \in KeysOf(p) /\ throttle[k] = Until(p) /\ now < throttle[k]
    BY <1>3, <1>9 DEF ThrottleInv
  <2>3. ~Admitted(o)'
    BY <2>1 DEF Admitted
  <2>4. history[p].at \in now - Window + 1 .. now
    BY <1>2, <1>7, <2>2 DEF Until
  <2>5. ThrottleIsExact'
    <3>1. \A q \in Ops \ {o} : pc'[q] = "throttled" =>
            \E r \in Ops : /\ Admitted(r)' /\ (KeysOf(q) \cap KeysOf(r))' # {}
                           /\ history'[r].at
                                \in history'[q].at - Window + 1 .. history'[q].at
      BY <1>4, <1>7 DEF ThrottleInv, ThrottleIsExact
    <3>2. /\ Admitted(p)' /\ (KeysOf(o) \cap KeysOf(p))' # {}
          /\ history'[p].at \in history'[o].at - Window + 1 .. history'[o].at
      BY <1>4, <1>5, <1>7, <2>2, <2>4
    <3> QED  BY <1>4, <1>7, <2>3, <3>1, <3>2 DEF ThrottleInv, ThrottleIsExact
  <2>6. \A q \in Ops : Admitted(q)' \/ pc'[q] = "throttled" =>
          history'[q].at \in Nat /\ history'[q].at <= now
    BY <1>2, <1>4, <1>5 DEF ThrottleInv
  <2>7. \A q \in Ops : Admitted(q)' =>
          \A x \in KeysOf(q)' : now < Until(q)' => throttle'[x] >= Until(q)'
    BY <1>4, <2>1, <2>3 DEF ThrottleInv
  <2>8. \A x \in Keys : Marked(x)' =>
          /\ now < throttle'[x]
          /\ \E q \in Ops : Admitted(q)' /\ x \in KeysOf(q)' /\ throttle'[x] = Until(q)'
    BY <1>4, <1>7, <2>1 DEF ThrottleInv, Marked
  <2> QED  BY <1>1, <1>2, <2>5, <2>6, <2>7, <2>8 DEF ThrottleInv
<1>10. CASE ~\E k \in KeysOf(o) : Marked(k)
  <2>1. /\ pc'[o] = "findUser"
        /\ throttle' = [k \in Keys |-> IF k \in KeysOf(o) THEN now + Window
                                       ELSE throttle[k]]
    BY <1>1, <1>10 DEF CheckThrottle, Goto, Typed, TypeOK
  <2>2. Admitted(o)' /\ call' = call
    BY <1>3, <2>1 DEF Admitted, CheckThrottle
  <2>3. \A p \in Ops : Admitted(p) /\ KeysOf(p) \cap KeysOf(o) # {} => now >= Until(p)
    <3> SUFFICES ASSUME NEW p \in Ops, Admitted(p), NEW k \in KeysOf(p) \cap KeysOf(o)
                 PROVE  now >= Until(p)
      OBVIOUS
    <3>1. throttle[k] = 0
      BY <1>10 DEF Marked
    <3> QED  BY <1>2, <1>7, <3>1 DEF ThrottleInv, Until
  <2>4. ThrottleIsExact'
    <3>1. \A q \in Ops : pc'[q] = "throttled" =>
            \E r \in Ops : /\ Admitted(r)' /\ (KeysOf(q) \cap KeysOf(r))' # {}
                           /\ history'[r].at
                                \in history'[q].at - Window + 1 .. history'[q].at
      BY <1>4, <1>7, <2>1 DEF ThrottleInv, ThrottleIsExact
    <3>2. \A p \in Ops \ {o} : Admitted(p)' /\ (KeysOf(o) \cap KeysOf(p))' # {} =>
            history'[o].at >= history'[p].at + Window
      BY <1>4, <1>5, <2>3 DEF Until
    <3>3. \A p, q \in Ops \ {o} : p # q /\ Admitted(p)' /\ Admitted(q)'
                                  /\ (KeysOf(p) \cap KeysOf(q))' # {} =>
            \/ history'[p].at >= history'[q].at + Window
            \/ history'[q].at >= history'[p].at + Window
      BY <1>4 DEF ThrottleInv, ThrottleIsExact
    <3>4. \A p, q \in Ops : p # q /\ Admitted(p)' /\ Admitted(q)'
                                  /\ (KeysOf(p) \cap KeysOf(q))' # {} =>
            \/ history'[p].at >= history'[q].at + Window
            \/ history'[q].at >= history'[p].at + Window
      BY <3>2, <3>3
    <3> QED  BY <3>1, <3>4 DEF ThrottleIsExact
  <2>5. \A q \in Ops : Admitted(q)' \/ pc'[q] = "throttled" =>
          history'[q].at \in Nat /\ history'[q].at <= now
    BY <1>2, <1>4, <1>5 DEF ThrottleInv
  <2>6. \A q \in Ops : Admitted(q)' =>
          \A x \in KeysOf(q)' : now < Until(q)' => throttle'[x] >= Until(q)'
    <3> SUFFICES ASSUME NEW q \in Ops, Admitted(q)', NEW x \in KeysOf(q)', now < Until(q)'
                 PROVE  throttle'[x] >= Until(q)'
      OBVIOUS
    <3>1. x \in Keys
      BY <1>1, <1>3, <1>4, <1>5, KeysAre
    <3>2. CASE x \in KeysOf(o)
      BY <1>2, <1>4, <1>5, <1>7, <2>1, <3>1, <3>2 DEF Until
    <3>3. CASE x \notin KeysOf(o)
      BY <1>4, <1>5, <2>1, <3>1, <3>3 DEF ThrottleInv
    <3> QED  BY <3>2, <3>3
  <2>7. \A x \in Keys : Marked(x)' =>
          /\ now < throttle'[x]
          /\ \E q \in Ops : Admitted(q)' /\ x \in KeysOf(q)' /\ throttle'[x] = Until(q)'
    <3> SUFFICES ASSUME NEW x \in Keys, Marked(x)'
                 PROVE  /\ now < throttle'[x]
                        /\ \E q \in Ops : Admitted(q)' /\ x \in KeysOf(q)'
                                          /\ throttle'[x] = Until(q)'
      OBVIOUS
    <3>1. CASE x \in KeysOf(o)
      BY <1>2, <1>5, <2>1, <2>2, <3>1
    <3>2. CASE x \notin KeysOf(o)
      BY <1>4, <1>7, <2>1, <3>2 DEF ThrottleInv, Marked
    <3> QED  BY <3>1, <3>2
  <2> QED  BY <1>1, <1>2, <2>4, <2>5, <2>6, <2>7 DEF ThrottleInv
<1> QED  BY <1>9, <1>10

\* A key is dropped when the last window of it is over.
LEMMA ThrottleTick == ASSUME ThrottleInv, Tick PROVE ThrottleInv'
<1>1. Typed /\ Typed'
  BY TypedWorld DEF ThrottleInv
<1>2. now \in Nat /\ now' = now + 1 /\ Window \in Nat
  BY <1>1, CredentialsAssumption DEF Tick, Typed, TypeOK, Times
<1>3. \A k \in Keys : throttle[k] \in Nat
                      /\ throttle'[k] = IF throttle[k] > now' THEN throttle[k] ELSE 0
  BY <1>1 DEF Tick, Typed, TypeOK
<1>4. \A o \in Ops : /\ pc'[o] = pc[o] /\ history'[o] = history[o]
                     /\ Admitted(o)' = Admitted(o) /\ KeysOf(o)' = KeysOf(o)
                     /\ Until(o)' = Until(o)
  BY DEF Tick, Admitted, KeysOf, Until
<1>5. ThrottleIsExact'
  BY <1>4 DEF ThrottleInv, ThrottleIsExact
<1>6. \A o \in Ops : Admitted(o) =>
        \A k \in KeysOf(o) : now' < Until(o) => throttle'[k] >= Until(o)
  <2> SUFFICES ASSUME NEW o \in Ops, Admitted(o), NEW k \in KeysOf(o), now' < Until(o)
               PROVE  throttle'[k] >= Until(o)
    OBVIOUS
  <2>1. k \in Keys
    BY <1>1, KeysAre
  <2>2. Until(o) \in Nat
    BY <1>2 DEF ThrottleInv, Until
  <2> QED  BY <1>2, <1>3, <2>1, <2>2 DEF ThrottleInv
<1>7. \A k \in Keys : Marked(k)' =>
        /\ now' < throttle'[k]
        /\ \E o \in Ops : Admitted(o) /\ k \in KeysOf(o) /\ throttle'[k] = Until(o)
  BY <1>2, <1>3 DEF ThrottleInv, Marked
<1> QED  BY <1>1, <1>2, <1>4, <1>5, <1>6, <1>7 DEF ThrottleInv

LEMMA ThrottleNext == ThrottleInv /\ [Next]_vars => ThrottleInv'
<1> SUFFICES ASSUME ThrottleInv, [Next]_vars PROVE ThrottleInv'
  OBVIOUS
<1>1. Typed /\ Typed'
  BY TypedNext DEF ThrottleInv
<1>2. ASSUME NEW o \in Ops,
             \/ Start(o) \/ StatementFails(o) \/ RemoteFails(o) \/ FindUser(o)
             \/ Grant(o) \/ Profile(o) \/ AdminRequest(o)
      PROVE  ThrottleInv'
  <2>1. UNCHANGED <<now, throttle, history>>
    BY <1>2
    DEF Start, StatementFails, RemoteFails, FindUser, Grant, Profile, AdminRequest, Ask,
        CacheToken, Lookup, NoAccount, Put, Keep, Refuse, Proceed, world
  <2>2. \A p \in Ops \ {o} : pc'[p] = pc[p] /\ call'[p] = call[p]
    BY <1>1, <1>2
    DEF Start, StatementFails, RemoteFails, FindUser, Grant, Profile, AdminRequest, Ask,
        CacheToken, Lookup, NoAccount, Put, Keep, Refuse, Proceed, Goto, Typed, TypeOK
  <2>3. CASE Start(o)
    <3>1. ~Admitted(o) /\ pc[o] = "idle" /\ ~Admitted(o)' /\ pc'[o] # "throttled"
      BY <1>1, <2>3 DEF Start, Goto, Admitted, Typed, TypeOK
    <3> QED  BY <1>1, <2>1, <2>2, <3>1, ThrottleStays DEF Admitted
  <2>4. CASE ~Start(o)
    <3>1. call'[o] = call[o]
      BY <1>2, <2>4
      DEF StatementFails, RemoteFails, FindUser, Grant, Profile, AdminRequest, Ask,
          CacheToken, Lookup, NoAccount, Put, Keep, Refuse, Proceed, world
    <3>2. pc[o] \notin {"idle", "throttle", "throttled"}
      BY <1>2, <2>4
      DEF StatementFails, RemoteFails, FindUser, Grant, Profile, AdminRequest, Ask,
          CacheToken, Lookup, NoAccount, Put, Ready
    <3>3. pc'[o] \notin {"idle", "throttle", "throttled"}
      BY <1>1, <1>2, <2>4, <3>2
      DEF StatementFails, RemoteFails, FindUser, Grant, Profile, AdminRequest, Ask,
          CacheToken, Lookup, NoAccount, Put, Keep, Refuse, Proceed, Goto, Typed, TypeOK
    <3> QED  BY <1>1, <2>1, <2>2, <3>1, <3>2, <3>3, ThrottleStays DEF Admitted
  <2> QED  BY <2>3, <2>4
<1>3. ASSUME NEW u \in Users, NEW e \in Emails, MoveAddress(u, e) PROVE ThrottleInv'
  <2>1. /\ UNCHANGED <<now, throttle, pc, call>>
        /\ \A o \in Ops : history'[o].at = history[o].at
    BY <1>1, <1>3 DEF MoveAddress, Typed, TypeOK
  <2> QED  BY <1>1, <2>1, ThrottleStays DEF Admitted
<1>4. CASE UNCHANGED vars
  BY <1>1, <1>4, ThrottleStays DEF vars, Admitted
<1> QED  BY <1>2, <1>3, <1>4, ThrottleChecks, ThrottleTick DEF Next

\* Requests for one address, or from one IP, are let through no closer than the
\* window, and none is turned away without another to blame.
THEOREM TheThrottleIsExact == Spec => []ThrottleIsExact
<1>1. ThrottleInv => ThrottleIsExact
  BY DEF ThrottleInv
<1> QED  BY <1>1, ThrottleInit, ThrottleNext, PTL DEF Spec
=============================================================================
