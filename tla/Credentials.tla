---------------------------- MODULE Credentials -----------------------------
(***************************************************************************)
(* Passwords: AuthService.logIn, updateUserPassword, recoverPassword and   *)
(* recoverPasswordRequest, over KeycloakService.  A user is known by an    *)
(* address, which the table, the end-user client and the admin client each *)
(* resolve for themselves, while other requests move addresses around.     *)
(* The admin client reuses a token until Margin before it expires, and     *)
(* every message to Keycloak takes its time.                               *)
(***************************************************************************)
EXTENDS Integers, FiniteSetsExt

CONSTANTS
    Ops,        \* one element per request
    Users,      \* a user, with its row and its Keycloak account
    Emails,
    Ips,        \* addresses requests come from
    Passwords,
    None,
    Kinds,      \* the endpoints that are called in this instance
    Faults,     \* the failures that happen
    MaxTime,    \* bound on the clock
    Lifetime,   \* expires_in of an admin token
    Margin,     \* how long before its expiry it is renewed
    RoundTrip,  \* the longest time a call of Keycloak takes
    Window      \* RECOVERY_THROTTLE_MS

AllKinds == {"logIn", "changePassword", "recover"}

FaultKinds == {"statement",  \* a query of Postgres fails
               "remote"}     \* Keycloak refuses or cannot be reached

\* With a margin of three calls a token that is still taken from the cache
\* outlives the request it is taken for.
ASSUME CredentialsAssumption ==
    /\ None \notin Users /\ Passwords # {}
    /\ Kinds \subseteq AllKinds /\ Faults \subseteq FaultKinds
    /\ {MaxTime, Lifetime, Margin, RoundTrip} \subseteq Nat /\ Window \in Nat \ {0}
    /\ 3 * RoundTrip <= Margin /\ Margin < Lifetime

VARIABLES
    now,         \* the time
    holder,      \* holder[e]: the user whose address e is, or None
    password,    \* password[u]: as Keycloak has it
    adminToken,  \* the cached token: its expiry at Keycloak, and expiresAt
    throttle,    \* throttle[k]: until when the key k is in the cache
    pc,          \* pc[o]: the next call of request o
    call,        \* call[o]: the endpoint and its arguments
    seen,        \* seen[o]: what request o has found out
    strands,     \* strands[o]: the two calls that an admin request makes at once
    history      \* history[o]: when o was let through or turned away, and
                 \* whether its address changed hands meanwhile

vars == <<now, holder, password, adminToken, throttle, pc, call, seen, strands,
          history>>

Times == 0 .. MaxTime
Keys == Emails \cup Ips

Calls == [kind : {"logIn"}, email : Emails, password : Passwords]
         \cup [kind : {"changePassword"}, email : Emails, password : Passwords,
               new : Passwords]
         \cup [kind : {"recover"}, email : Emails, ip : Ips]

\* The user of the row, the account that passed the password grant, and the
\* account that was looked up for the admin request.
Unseen == [row |-> None, granted |-> None, found |-> None]
Seen == [row : Users \cup {None}, granted : Users \cup {None},
         found : Users \cup {None}]

\* Each strand: where it is, the expiry of its token, and the time by which its
\* call is answered.
Strand == [at : {"start", "fetch", "lookup", "have"}, token : Nat,
           by : Nat]
AtStart == [at |-> "start", token |-> 0, by |-> 0]
Kept == {"put", "find"}
Idle == [s \in Kept |-> AtStart]

NoToken == [expiry |-> 0, expiresAt |-> 0]

Finished == {"idle", "done", "refused", "throttled", "unauthorized"}
Steps == {"throttle", "findUser", "grant", "profile", "ask", "admin"}

TypeOK ==
    /\ now \in Times
    /\ holder \in [Emails -> Users \cup {None}]
    /\ password \in [Users -> Passwords]
    /\ adminToken \in [expiry : Nat, expiresAt : Int]
    /\ throttle \in [Keys -> Nat]
    /\ pc \in [Ops -> Steps \cup Finished]
    /\ call \in [Ops -> Calls \cup {None}]
    /\ seen \in [Ops -> Seen]
    /\ strands \in [Ops -> [Kept -> Strand]]
    /\ history \in [Ops -> [at : Times \cup {None}, moved : BOOLEAN]]

\* Every user has one address of its own.  All have the same password, so that
\* what proves one user proves any other.
Init ==
    /\ now = 0
    /\ holder \in {h \in [Emails -> Users \cup {None}] :
                     \A u \in Users : Cardinality({e \in Emails : h[e] = u}) = 1}
    /\ password = [u \in Users |-> CHOOSE p \in Passwords : TRUE]
    /\ adminToken = NoToken
    /\ throttle = [k \in Keys |-> 0]
    /\ pc = [o \in Ops |-> "idle"]
    /\ call = [o \in Ops |-> None]
    /\ seen = [o \in Ops |-> Unseen]
    /\ strands = [o \in Ops |-> Idle]
    /\ history = [o \in Ops |-> [at |-> None, moved |-> FALSE]]

-----------------------------------------------------------------------------
Running(o) == pc[o] \in Steps
Goto(o, l) == pc' = [pc EXCEPT ![o] = l]
world == <<now, holder, password, adminToken, throttle>>

Proceed(o, l) ==
    /\ Goto(o, l)
    /\ UNCHANGED <<world, call, seen, strands, history>>

\* An error ends the request, and what it held is gone.
Refuse(o, l) ==
    /\ Goto(o, l)
    /\ seen' = [seen EXCEPT ![o] = Unseen]
    /\ strands' = [strands EXCEPT ![o] = Idle]
    /\ UNCHANGED <<world, call, history>>

Keep(o, field, u, l) ==
    /\ seen' = [seen EXCEPT ![o][field] = u]
    /\ Goto(o, l)
    /\ UNCHANGED <<world, call, strands, history>>

Start(o) ==
    /\ pc[o] = "idle"
    /\ \E a \in Calls :
         /\ a.kind \in Kinds
         /\ a.kind = "changePassword" => a.new # a.password
         /\ call' = [call EXCEPT ![o] = a]
         /\ Goto(o, IF a.kind = "recover" THEN "throttle" ELSE "findUser")
    /\ UNCHANGED <<world, seen, strands, history>>

StatementFails(o) ==
    /\ "statement" \in Faults
    /\ pc[o] \in {"findUser", "profile"}
    /\ Refuse(o, "refused")

RemoteFails(o) ==
    /\ "remote" \in Faults
    /\ pc[o] \in {"grant", "admin"}
    /\ Refuse(o, "refused")

-----------------------------------------------------------------------------
(* recoverPasswordRequest: the keys are read and set in one go of the      *)
(* event loop, since the cache is memory of this process.                  *)

KeysOf(o) == {call[o].email, call[o].ip}
Marked(k) == throttle[k] # 0

\* Mutant of CheckThrottle: only the address is looked up.
CheckThrottle_AddressOnly(o) ==
    /\ pc[o] = "throttle"
    /\ history' = [history EXCEPT ![o].at = now]
    /\ IF Marked(call[o].email)
         THEN Goto(o, "throttled") /\ UNCHANGED throttle
         ELSE /\ throttle' = [k \in Keys |-> IF k \in KeysOf(o) THEN now + Window
                                             ELSE throttle[k]]
              /\ Goto(o, "findUser")
    /\ UNCHANGED <<now, holder, password, adminToken, call, seen, strands>>

CheckThrottle(o) ==
    /\ pc[o] = "throttle"
    /\ history' = [history EXCEPT ![o].at = now]
    /\ IF \E k \in KeysOf(o) : Marked(k)
         THEN Goto(o, "throttled") /\ UNCHANGED throttle
         ELSE /\ throttle' = [k \in Keys |-> IF k \in KeysOf(o) THEN now + Window
                                             ELSE throttle[k]]
              /\ Goto(o, "findUser")
    /\ UNCHANGED <<now, holder, password, adminToken, call, seen, strands>>

-----------------------------------------------------------------------------
(* What the three have in common.                                          *)

\* Mutant of FindUser: the look-up has lost its condition.
FindUser_AnyRow(o) ==
    /\ pc[o] = "findUser"
    /\ \E user \in Users :
         Keep(o, "row", user, IF call[o].kind = "recover" THEN "ask" ELSE "grant")

\* recoverPasswordRequest acknowledges an unknown address all the same.
FindUser(o) ==
    LET user == holder[call[o].email] IN
    /\ pc[o] = "findUser"
    /\ IF user # None
         THEN Keep(o, "row", user,
                   IF call[o].kind = "recover" THEN "ask" ELSE "grant")
         ELSE Refuse(o, IF call[o].kind = "recover" THEN "done" ELSE "refused")

\* passwordGrant: Keycloak resolves the address itself.
Grant(o) ==
    LET user == holder[call[o].email] IN
    /\ pc[o] = "grant"
    /\ IF user # None /\ password[user] = call[o].password
         THEN Keep(o, "granted", user,
                   IF call[o].kind = "logIn" THEN "profile" ELSE "ask")
         ELSE Refuse(o, "refused")

\* The rows that logIn goes on to read may be missing, or complete.
Profile(o) ==
    /\ pc[o] = "profile"
    /\ Proceed(o, "done") \/ Refuse(o, "refused")

-----------------------------------------------------------------------------
(* setPassword and sendPasswordResetEmail: getAdminToken and               *)
(* findUserIdByEmail, which begins with getAdminToken too, run side by     *)
(* side; then comes the PUT, with the token of the first.                  *)

\* The strand "find" looks the account up with its token; "put" has what it needs.
Holding(s, token) ==
    [at |-> IF s = "find" THEN "lookup" ELSE "have", token |-> token,
     by |-> IF s = "find" THEN now + RoundTrip ELSE now]

\* A token is taken from the cache or fetched.  Keycloak issues it no sooner than
\* now, which is the worst that can happen to its expiry.
Ask(o) ==
    /\ pc[o] = "ask"
    /\ Goto(o, "admin")
    /\ strands' = [strands EXCEPT ![o] = [s \in Kept |->
         IF adminToken.expiresAt > now THEN Holding(s, adminToken.expiry)
         ELSE [at |-> "fetch", token |-> now + Lifetime, by |-> now + RoundTrip]]]
    /\ UNCHANGED <<world, call, seen, history>>

\* Mutant of CacheToken: the token is reused until it expires.
CacheToken_NoMargin(o, s) ==
    LET token == strands[o][s].token IN
    /\ pc[o] = "admin" /\ strands[o][s].at = "fetch"
    /\ adminToken' = [expiry |-> token, expiresAt |-> now + Lifetime]
    /\ strands' = [strands EXCEPT ![o][s] = Holding(s, token)]
    /\ UNCHANGED <<now, holder, password, throttle, pc, call, seen, history>>

\* When it arrives it is cached, whatever came in between.
CacheToken(o, s) ==
    LET token == strands[o][s].token IN
    /\ pc[o] = "admin" /\ strands[o][s].at = "fetch"
    /\ adminToken' = [expiry |-> token, expiresAt |-> now + Lifetime - Margin]
    /\ strands' = [strands EXCEPT ![o][s] = Holding(s, token)]
    /\ UNCHANGED <<now, holder, password, throttle, pc, call, seen, history>>

Accepted(token) == now < token

\* Mutant of Lookup: without "exact" the first match may be another user.
Lookup_NotExact(o) ==
    /\ pc[o] = "admin" /\ strands[o]["find"].at = "lookup"
    /\ \E u \in Users : seen' = [seen EXCEPT ![o].found = u]
    /\ strands' = [strands EXCEPT ![o]["find"].at = "have"]
    /\ UNCHANGED <<world, pc, call, history>>

\* Keycloak looks the account up; the answer comes back by the time it is due.
Lookup(o) ==
    /\ pc[o] = "admin" /\ strands[o]["find"].at = "lookup"
    /\ IF Accepted(strands[o]["find"].token)
         THEN /\ seen' = [seen EXCEPT ![o].found = holder[call[o].email]]
              /\ strands' = [strands EXCEPT ![o]["find"].at = "have"]
              /\ UNCHANGED <<world, pc, call, history>>
         ELSE Refuse(o, "unauthorized")

Ready(o) == pc[o] = "admin" /\ \A s \in Kept : strands[o][s].at = "have"

NoAccount(o) ==
    /\ Ready(o) /\ seen[o].found = None
    /\ Refuse(o, "refused")

\* The PUT arrives: reset-password, or execute-actions-email, which leaves the
\* password alone.
Put(o) ==
    /\ Ready(o) /\ seen[o].found # None
    /\ IF Accepted(strands[o]["put"].token)
         THEN /\ password' = IF call[o].kind = "recover" THEN password
                             ELSE [password EXCEPT ![seen[o].found] = call[o].new]
              /\ Goto(o, "done")
              /\ seen' = [seen EXCEPT ![o] = Unseen]
              /\ strands' = [strands EXCEPT ![o] = Idle]
              /\ UNCHANGED <<now, holder, adminToken, throttle, call, history>>
         ELSE Refuse(o, "unauthorized")

AdminRequest(o) ==
    \/ Ask(o) \/ Lookup(o) \/ NoAccount(o) \/ Put(o)
    \/ \E s \in Kept : CacheToken(o, s)

-----------------------------------------------------------------------------
(* The rest of the world.                                                  *)

\* No call takes longer than RoundTrip.  The cache drops what has expired;
\* so does the model with an admin token that is not used any more.
Due(o) ==
    IF Ready(o) THEN RoundTrip + Max({strands[o][s].by : s \in Kept})
    ELSE Min({strands[o][s].by : s \in {t \in Kept : strands[o][t].at # "have"}})

Timed(o) == pc[o] = "admin"

\* While nothing is timed it makes no difference that time passes.
Tick ==
    /\ now < MaxTime
    /\ \/ \E o \in Ops : Timed(o)
       \/ adminToken.expiresAt > now \/ \E k \in Keys : Marked(k)
    /\ \A o \in Ops : Timed(o) => now < Due(o)
    /\ now' = now + 1
    /\ throttle' = [k \in Keys |-> IF throttle[k] > now' THEN throttle[k] ELSE 0]
    /\ adminToken' = IF adminToken.expiresAt > now' THEN adminToken ELSE NoToken
    /\ UNCHANGED <<holder, password, pc, call, seen,
                   strands, history>>

\* updateCompanyUser gives a user another address, row and account in one step
\* here; module Accounts has its parts.  A move that concerns no request changes
\* nothing but names.
MoveAddress(u, e) ==
    /\ holder[e] = None
    /\ \E o \in Ops : Running(o) /\ (call[o].email = e \/ holder[call[o].email] = u)
    /\ holder' = [f \in Emails |-> IF f = e THEN u
                                   ELSE IF holder[f] = u THEN None ELSE holder[f]]
    /\ history' = [o \in Ops |->
         IF Running(o) /\ holder'[call[o].email] # holder[call[o].email]
           THEN [history[o] EXCEPT !.moved = TRUE] ELSE history[o]]
    /\ UNCHANGED <<now, password, adminToken, throttle, pc, call, seen, strands>>

Next ==
    \/ \E o \in Ops :
         \/ Start(o) \/ StatementFails(o) \/ RemoteFails(o)
         \/ CheckThrottle(o) \/ FindUser(o) \/ Grant(o) \/ Profile(o)
         \/ AdminRequest(o)
    \/ Tick
    \/ \E u \in Users, e \in Emails : MoveAddress(u, e)

Spec == Init /\ [][Next]_vars

-----------------------------------------------------------------------------
(* Properties.                                                             *)

\* "Refresh a little before actual expiry to avoid racing token expiry
\* mid-request": however requests fetch, overwrite and reuse the one cached
\* token, Keycloak never sees one that has expired.
AdminTokenIsFresh == \A o \in Ops : pc[o] # "unauthorized"

\* A password changes only by a request that showed the password of that very
\* user, although the proof and the change resolve the address separately -
\* unless the address changed hands in between.
PasswordChangeIsProven ==
    [][\A u \in Users : password'[u] # password[u] =>
         \E o \in Ops : /\ pc[o] = "admin" /\ call[o].kind = "changePassword"
                        /\ seen[o].granted = u \/ history[o].moved]_vars

\* The tokens and the profile that logIn answers with are those of one user.
LoginIsOnePerson ==
    \A o \in Ops : pc[o] = "done" /\ call[o].kind = "logIn" =>
      seen[o].granted = seen[o].row \/ history[o].moved

Admitted(o) ==
    pc[o] \notin {"idle", "throttle", "throttled"} /\ call[o].kind = "recover"

\* Recovery requests of one address, or from one IP, are let through no closer
\* than Window, and one is turned away only for the sake of one that was let
\* through within Window before.
ThrottleIsExact ==
    /\ \A o, p \in Ops : o # p /\ Admitted(o) /\ Admitted(p)
                         /\ KeysOf(o) \cap KeysOf(p) # {} =>
         \/ history[o].at >= history[p].at + Window
         \/ history[p].at >= history[o].at + Window
    /\ \A o \in Ops : pc[o] = "throttled" =>
         \E p \in Ops : /\ Admitted(p) /\ KeysOf(o) \cap KeysOf(p) # {}
                        /\ history[p].at \in history[o].at - Window + 1 .. history[o].at
=============================================================================
