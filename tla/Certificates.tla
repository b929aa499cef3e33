---------------------------- MODULE Certificates ----------------------------
(***************************************************************************)
(* Company certificates: the entry points of CertificateService, and       *)
(* CompanyService.getAllCompanies, which annotates every company with the  *)
(* verdict of verifyAllCompanyCertificate.  ICID issues and revokes; the   *)
(* table only remembers.  Every answer is put together from reads of both  *)
(* that are awaited one by one, while others issue, revoke, delete keys    *)
(* and time passes; the answers to the two GETs, reveal and list, are also *)
(* cached.  A certificate is named by the request that made it.            *)
(***************************************************************************)
EXTENDS Integers, FiniteSetsExt

CONSTANTS
    Ops,        \* one element per request; it names the certificate it makes
    Old,        \* certificates that were made before
    Companies,
    None,
    Kinds,      \* the endpoints that are called in this instance
    Faults,     \* the failures that happen
    MaxTime,    \* bound on the clock
    BatchSize,  \* certificates per call of ICID's verify-all
    Ttl         \* how long a response is cached

AllKinds == {"create", "reveal", "deleteKey", "verify", "list", "deleteCompany"}

FaultKinds == {"statement",  \* a query of Postgres fails
               "icid",       \* ICID refuses or cannot be reached
               "lostReply"}  \* ICID issued, but its answer never arrives
\* The death of the process needs no action: its requests take no more steps.

Times == 0 .. MaxTime

\* filed: ICID's answer named a hedera_file_id.  created orders the rows by
\* created_on; key: whether private_key is still there.
Certificate == [company : Companies, expiry : Times, created : Nat,
                filed : BOOLEAN, key : BOOLEAN]

ASSUME CertificatesAssumption ==
    /\ None \notin Ops \cup Old \cup Certificate /\ Ops \cap Old = {}
    /\ "all" \notin Companies /\ IsFiniteSet(Old)
    /\ Kinds \subseteq AllKinds /\ Faults \subseteq FaultKinds
    /\ MaxTime \in Nat /\ Ttl \in Nat \ {0} /\ BatchSize \in Nat \ {0}

Names == Ops \cup Old

\* The URLs that are cached: reveal of each company, and list.
Pages == Companies \cup {"all"}

VARIABLES
    now,           \* the time
    registered,    \* the companies that have a row
    certificates,  \* certificates[x]: the row of certificate x, or None
    cache,         \* cache[k]: the cached response of page k, or None
    issued,        \* the certificates that ICID issued
    revoked,       \* those it revoked since
    pc,            \* pc[o]: the next call of request o
    call,          \* call[o]: the endpoint and its arguments
    seen,          \* seen[o]: what request o has read and still holds
    answer,        \* answer[o]: the response to o, or None
    began          \* began[o]: history, the state in which question o arrived

icid == <<issued, revoked>>
vars == <<now, registered, certificates, cache, icid, pc, call, seen, answer, began>>

\* Earlier requests left them: valid for some time, with the key still there.
OldRows == [company : Companies, expiry : Times, created : 1 .. Cardinality(Old),
            filed : BOOLEAN, key : {TRUE}]

Calls == [kind : {"create"}, company : Companies, expiry : Times]
         \cup [kind : AllKinds \ {"create", "list"}, company : Companies]
         \cup [kind : {"list"}]

\* create: the row's created_on, and whether ICID named a file; row: the
\* certificate that was read; the companies that were listed, the certificates
\* verify-all has still to deal with, and those its result calls certified.
Nothing == [created |-> 0, filed |-> FALSE, row |-> None, companies |-> {},
            rest |-> {}, certified |-> {}]
Seen == [created : Nat, filed : BOOLEAN, row : Names \cup {None},
         companies : SUBSET Companies, rest : SUBSET Names,
         certified : SUBSET Companies]

\* The time, the rows there were, what was revoked, and which deletions of a key
\* had been answered.
Arrival == [time : Times, rows : SUBSET Names, revoked : SUBSET Names,
            deleted : SUBSET Ops]

\* verify and list answer with the companies they call certified, reveal with
\* the certificate whose key it shows.
Answers == (SUBSET Companies) \cup (SUBSET Names)

\* what: None if degraded, see Finished; by: the request whose handler made it,
\* None for one of the past; stored: when.
Response == [what : Answers \cup {None}, by : Ops \cup {None}, stored : Times]

Steps == {"cached", "load", "issue", "findUser", "save", "readLatest", "blankKey",
          "askIcid", "listCompanies", "loadAll", "readAll", "batch", "deleteCompany"}
\* "degraded": getAllCompanies caught the failure of verifyAll.
Finished == {"idle", "done", "degraded", "failed"}

TypeOK ==
    /\ now \in Times /\ registered \subseteq Companies
    /\ certificates \in [Names -> Certificate \cup {None}]
    /\ issued \subseteq Names /\ revoked \subseteq issued
    /\ pc \in [Ops -> Steps \cup Finished]
    /\ call \in [Ops -> Calls \cup {None}]
    /\ seen \in [Ops -> Seen]
    /\ cache \in [Pages -> Response \cup {None}]
    /\ answer \in [Ops -> Response \cup {None}]
    /\ began \in [Ops -> Arrival \cup {None}]

-----------------------------------------------------------------------------
Running(o) == pc[o] \in Steps
Goto(o, l) == pc' = [pc EXCEPT ![o] = l]
Keep(o, field, value) == seen' = [seen EXCEPT ![o][field] = value]

tables == <<registered, certificates>>
stores == <<tables, cache>>
Read(o, l) ==
    /\ Goto(o, l)
    /\ UNCHANGED <<now, stores, icid, call, seen, answer, began>>

\* getAllCompanies answers without verdicts when verifyAll throws; everything
\* else answers with the error.  Either way nothing of the request is left.
Caught == {"loadAll", "readAll", "batch"}
Drop(o) ==
    /\ Goto(o, IF pc[o] \in Caught THEN "degraded" ELSE "failed")
    /\ call' = [call EXCEPT ![o] = None]
    /\ seen' = [seen EXCEPT ![o] = Nothing]
    /\ began' = [began EXCEPT ![o] = None]
    /\ cache' = IF pc[o] \in Caught
                  THEN [cache EXCEPT !["all"] =
                          [what |-> None, by |-> None, stored |-> now]]
                  ELSE cache
    /\ UNCHANGED <<now, tables, answer>>
Throw(o) == Drop(o) /\ UNCHANGED icid

PageOf(o) == IF call[o].kind = "list" THEN "all" ELSE call[o].company

\* The answer to a GET is cached on its way out.
Reply(o, what) ==
    LET response == [what |-> what, by |-> o, stored |-> now] IN
    /\ answer' = [answer EXCEPT ![o] = response]
    /\ cache' = IF call[o].kind \in {"reveal", "list"}
                  THEN [cache EXCEPT ![PageOf(o)] = response] ELSE cache
    /\ Goto(o, "done")
    /\ UNCHANGED <<now, tables, icid, call, seen, began>>

Rows == {x \in Names : certificates[x] # None}
RowsOf(c) == {x \in Rows : certificates[x].company = c}

\* ORDER BY expiry_on DESC, created_on DESC.
Before(x, y) ==
    \/ certificates[x].expiry > certificates[y].expiry
    \/ /\ certificates[x].expiry = certificates[y].expiry
       /\ certificates[x].created > certificates[y].created
Latest(c) == {x \in RowsOf(c) : \A y \in RowsOf(c) \ {x} : Before(x, y)}

Expired(x) == certificates[x].expiry < now

\* A key may have been shown before.
Init ==
    /\ now = 0 /\ registered = Companies
    /\ \E old \in [Old -> OldRows] :
         /\ \A x, y \in Old : x # y => old[x].created # old[y].created
         /\ certificates = [x \in Names |-> IF x \in Old THEN old[x] ELSE None]
    /\ \E shown \in SUBSET {c \in Companies : RowsOf(c) # {}} :
         cache = [k \in Pages |-> IF k \in shown
                    THEN [what |-> Latest(k), by |-> None, stored |-> 0] ELSE None]
    /\ issued = Old /\ revoked = {}
    /\ pc = [o \in Ops |-> "idle"]
    /\ call = [o \in Ops |-> None]
    /\ seen = [o \in Ops |-> Nothing]
    /\ answer = [o \in Ops |-> None]
    /\ began = [o \in Ops |-> None]

Arrived ==
    [time |-> now, rows |-> Rows, revoked |-> revoked,
     deleted |-> {d \in Ops : pc[d] = "done" /\ call[d].kind = "deleteKey"}]

\* Entry of a handler.  assertCompanyMatch admits a company to its own
\* certificates only, so the caller of create, reveal and deleteKey is the
\* company of the call; verify and list are open to all, and so is a cached
\* response, see module CompanyRecords.
Start(o) ==
    /\ pc[o] = "idle"
    /\ \E a \in Calls :
         /\ a.kind \in Kinds
         /\ call' = [call EXCEPT ![o] = a]
         /\ Goto(o, IF a.kind \in {"reveal", "list"} THEN "cached" ELSE "load")
         /\ began' = IF a.kind \in {"create", "deleteCompany"} THEN began
                     ELSE [began EXCEPT ![o] = Arrived]
    /\ UNCHANGED <<now, stores, icid, seen, answer>>

\* The role of the caller may not allow it (assertPermission, not for verify),
\* or a query of Postgres fails.
Refused(o) ==
    /\ \/ pc[o] = "load" /\ call[o].kind # "verify"
       \/ /\ Running(o) /\ pc[o] \notin {"cached", "issue", "askIcid", "batch"}
          /\ "statement" \in Faults
    /\ Throw(o)

-----------------------------------------------------------------------------
(* The CacheInterceptor. *)

Cached(o) ==
    LET response == cache[PageOf(o)] IN
    /\ pc[o] = "cached"
    /\ \/ response = None
          /\ Read(o, IF call[o].kind = "list" THEN "listCompanies" ELSE "load")
       \/ /\ response # None
          /\ answer' = [answer EXCEPT ![o] = response]
          /\ Goto(o, IF response.what = None THEN "degraded" ELSE "done")
          /\ UNCHANGED <<now, stores, icid, call, seen, began>>

-----------------------------------------------------------------------------
LoadCompany(o) ==
    /\ pc[o] = "load"
    /\ IF call[o].company \notin registered THEN Throw(o)
       ELSE Read(o, CASE call[o].kind = "create" -> "issue"
                      [] call[o].kind = "deleteCompany" -> "deleteCompany"
                      [] OTHER -> "readLatest")

(* generateCompanyCertificate *)

Issue(o) ==
    /\ pc[o] = "issue"
    /\ issued' = issued \cup {o}
    /\ \E filed \in BOOLEAN : Keep(o, "filed", filed)
    /\ Goto(o, "findUser")
    /\ UNCHANGED <<now, stores, revoked, call, answer, began>>

IssueFails(o) ==
    /\ pc[o] = "issue" /\ "icid" \in Faults
    /\ Throw(o)

IssueReplyLost(o) ==
    /\ pc[o] = "issue" /\ "lostReply" \in Faults
    /\ issued' = issued \cup {o}
    /\ Drop(o)
    /\ UNCHANGED revoked

\* The address belongs to a user, and the row gets its created_on.
FindUser(o) ==
    /\ pc[o] = "findUser"
    /\ Keep(o, "created", 1 + Max({seen[p].created : p \in Ops}
                                 \cup {certificates[x].created : x \in Rows}))
    /\ Goto(o, "save")
    /\ UNCHANGED <<now, stores, icid, call, answer, began>>

\* Mutant of NoUser: returns where it should throw.
NoUser_Returns(o) == pc[o] = "findUser" /\ Read(o, "done")

NoUser(o) == pc[o] = "findUser" /\ Throw(o)

Save(o) ==
    /\ pc[o] = "save"
    /\ certificates' = [certificates EXCEPT ![o] =
         [company |-> call[o].company, expiry |-> call[o].expiry,
          created |-> seen[o].created, filed |-> seen[o].filed, key |-> TRUE]]
    /\ seen' = [seen EXCEPT ![o] = Nothing]
    /\ Goto(o, "done")
    /\ UNCHANGED <<now, registered, cache, icid, call, answer, began>>

-----------------------------------------------------------------------------
(* The others read all rows of the company in order and use the first.     *)

NoCertificate(o) ==
    /\ pc[o] = "readLatest" /\ RowsOf(call[o].company) = {}
    /\ IF call[o].kind = "verify" THEN Reply(o, {}) ELSE Throw(o)

\* Mutant of Reveal: looks for a certificate that still has its key.
Reveal_AnyKey(o) ==
    /\ pc[o] = "readLatest" /\ call[o].kind = "reveal"
    /\ \E x \in RowsOf(call[o].company) :
         IF certificates[x].key THEN Reply(o, {x}) ELSE Throw(o)

(* revealPrivateKey *)
Reveal(o) ==
    /\ pc[o] = "readLatest" /\ call[o].kind = "reveal"
    /\ \E x \in Latest(call[o].company) :
         IF certificates[x].key THEN Reply(o, {x}) ELSE Throw(o)

Hold(o, x, l) ==
    /\ Keep(o, "row", x)
    /\ Goto(o, l)
    /\ UNCHANGED <<now, stores, icid, call, answer, began>>

(* deletePrivateKey *)
FindLatest(o) ==
    /\ pc[o] = "readLatest" /\ call[o].kind = "deleteKey"
    /\ \E x \in Latest(call[o].company) : Hold(o, x, "blankKey")

BlankKey(o) ==
    /\ pc[o] = "blankKey"
    /\ certificates' = [certificates EXCEPT ![seen[o].row].key = FALSE]
    /\ Goto(o, "done")
    /\ UNCHANGED <<now, registered, cache, icid, call, seen, answer, began>>

\* Mutant of Judge: looks at the file before the date.
Judge_FileFirst(o) ==
    /\ pc[o] = "readLatest" /\ call[o].kind = "verify"
    /\ \E x \in Latest(call[o].company) :
         IF ~certificates[x].filed THEN Reply(o, {call[o].company})
         ELSE IF Expired(x) THEN Reply(o, {})
         ELSE Hold(o, x, "askIcid")

(* verifyCompanyCertificate *)
Judge(o) ==
    /\ pc[o] = "readLatest" /\ call[o].kind = "verify"
    /\ \E x \in Latest(call[o].company) :
         IF Expired(x) THEN Reply(o, {})
         ELSE IF ~certificates[x].filed THEN Reply(o, {call[o].company})
         ELSE Hold(o, x, "askIcid")

AskIcid(o) ==
    /\ pc[o] = "askIcid"
    /\ Reply(o, IF seen[o].row \in revoked THEN {} ELSE {call[o].company})

AskIcidFails(o) ==
    /\ "icid" \in Faults
    /\ \/ pc[o] = "askIcid"
       \/ /\ pc[o] = "batch"
          /\ \E x \in seen[o].rest : ~Expired(x) /\ certificates[x].filed
    /\ Throw(o)

-----------------------------------------------------------------------------
(* getAllCompanies and verifyAllCompanyCertificate *)

ListCompanies(o) ==
    /\ pc[o] = "listCompanies"
    /\ Keep(o, "companies", registered)
    /\ Goto(o, "loadAll")
    /\ UNCHANGED <<now, stores, icid, call, answer, began>>

LoadAll(o) ==
    /\ pc[o] = "loadAll"
    /\ IF seen[o].companies \cap registered = {} THEN Throw(o)
       ELSE /\ Keep(o, "companies", seen[o].companies \cap registered)
            /\ Goto(o, "readAll")
            /\ UNCHANGED <<now, stores, icid, call, answer, began>>

\* SELECT DISTINCT ON (company_id).
ReadAll(o) ==
    /\ pc[o] = "readAll"
    /\ Keep(o, "rest", UNION {Latest(c) : c \in seen[o].companies})
    /\ Goto(o, "batch")
    /\ UNCHANGED <<now, stores, icid, call, answer, began>>

\* The companies of those rows that are valid now: of the rows with a file, ICID
\* tells.
Certified(rows) ==
    {certificates[x].company : x \in
       {y \in rows : ~Expired(y) /\ (certificates[y].filed => y \notin revoked)}}

\* Mutant of Batch: each batch's verdicts replace those before.
Batch_Replaces(o) ==
    /\ pc[o] = "batch" /\ seen[o].rest # {}
    /\ \E batch \in SUBSET seen[o].rest :
         /\ Cardinality(batch) = Min({BatchSize, Cardinality(seen[o].rest)})
         /\ seen' = [seen EXCEPT
              ![o].rest = @ \ batch, ![o].certified = Certified(batch)]
    /\ UNCHANGED <<now, stores, icid, pc, call, answer, began>>

\* One turn of the loop: the rows without a file are certified as they are, the
\* others by one call of ICID.  A company with no certificate gets no verdict,
\* which getAllCompanies reads as false.
Batch(o) ==
    /\ pc[o] = "batch" /\ seen[o].rest # {}
    /\ \E batch \in SUBSET seen[o].rest :
         /\ Cardinality(batch) = Min({BatchSize, Cardinality(seen[o].rest)})
         /\ seen' = [seen EXCEPT
              ![o].rest = @ \ batch,
              ![o].certified = @ \cup Certified(batch)]
    /\ UNCHANGED <<now, stores, icid, pc, call, answer, began>>

Listed(o) ==
    /\ pc[o] = "batch" /\ seen[o].rest = {}
    /\ Reply(o, seen[o].certified)

-----------------------------------------------------------------------------
(* The rest of the world.                                                  *)

Tick ==
    /\ now < MaxTime
    /\ now' = now + 1
    /\ cache' = [k \in Pages |-> IF cache[k] # None /\ cache[k].stored + Ttl <= now'
                                   THEN None ELSE cache[k]]
    /\ UNCHANGED <<tables, icid, pc, call, seen, answer, began>>

\* Nothing in this service revokes; ICID's operator does.  It makes no difference
\* to certificates that the service knows no file of.
Revoke(x) ==
    /\ x \in Rows \ revoked /\ certificates[x].filed
    /\ revoked' = revoked \cup {x}
    /\ UNCHANGED <<now, stores, issued, pc, call, seen, answer, began>>

\* deleteCompany leaves the certificates of the company where they are; module
\* Accounts has its statements.
DeleteCompany(o) ==
    /\ pc[o] = "deleteCompany"
    /\ registered' = registered \ {call[o].company}
    /\ Goto(o, "done")
    /\ UNCHANGED <<now, certificates, cache, icid, call, seen, answer, began>>

Create(o) ==
    Issue(o) \/ IssueFails(o) \/ IssueReplyLost(o) \/ FindUser(o) \/ NoUser(o)
    \/ Save(o)
Verify(o) == Judge(o) \/ AskIcid(o) \/ AskIcidFails(o)
List(o) ==
    ListCompanies(o) \/ LoadAll(o) \/ ReadAll(o) \/ Batch(o) \/ Listed(o)

Next ==
    \/ \E o \in Ops :
         \/ Start(o) \/ Refused(o) \/ Cached(o) \/ LoadCompany(o) \/ Create(o)
         \/ NoCertificate(o) \/ Reveal(o) \/ FindLatest(o) \/ BlankKey(o)
         \/ Verify(o) \/ List(o) \/ DeleteCompany(o)
    \/ Tick
    \/ \E x \in Names : Revoke(x)

Spec == Init /\ [][Next]_vars

-----------------------------------------------------------------------------
(* Properties.                                                             *)

Answered(o) == pc[o] = "done" /\ call[o].kind \in {"verify", "list"}

\* The answer was made for this request, or cached less than Ttl before it came.
Fresh(o) == answer[o].by = o \/ answer[o].stored + Ttl > began[o].time

\* A company is called certified only if it has a certificate that had neither
\* expired nor been revoked when the question arrived, or the question whose answer
\* is still cached: no read that is overtaken by time, by a revocation or by
\* another certificate makes one up.
VerdictsAreBacked ==
    \A o \in Ops : Answered(o) =>
      LET asked == began[answer[o].by] IN
      /\ Fresh(o)
      /\ \A c \in answer[o].what : \E x \in RowsOf(c) :
           /\ x \in issued
           /\ certificates[x].expiry >= asked.time
           /\ certificates[x].filed => x \notin asked.revoked

\* A company that had a certificate when the question arrived is not called
\* uncertified while none of its certificates has expired or been revoked, however
\* many batches verify-all takes and whatever is issued meanwhile.
NoFalseAlarm ==
    \A o \in Ops : Answered(o) =>
      LET p == answer[o].by
          asked == IF call[o].kind = "list" THEN seen[p].companies
                   ELSE {call[o].company}
      IN \A c \in asked \ answer[o].what :
           began[p].rows \cap RowsOf(c) # {} =>
             \E x \in RowsOf(c) :
               Expired(x) \/ (certificates[x].filed /\ x \in revoked)

\* deletePrivateKey deletes one key of many, yet once it has answered, a reveal
\* that arrives later shows no key of a certificate that was there when the
\* deletion arrived - unless the answer to an earlier reveal is still cached.
DeletedKeysStayHidden ==
    \A r \in Ops : pc[r] = "done" /\ call[r].kind = "reveal" =>
      /\ Fresh(r)
      /\ answer[r].by # None =>
           \A x \in answer[r].what, d \in began[answer[r].by].deleted :
             call[d].company = call[r].company => x \notin began[d].rows

\* ICID issues before the user is looked up and the row is saved, and nothing is
\* taken back: a certificate that ICID knows and the table does not was made by a
\* request that is still at it or has answered with an error, and one that answered
\* with success has both.
OnlyFailuresAreUnknown ==
    /\ Rows \subseteq issued
    /\ \A x \in issued \ Rows :
         x \in Ops /\ pc[x] \in {"findUser", "save", "failed"}
    /\ \A o \in Ops : pc[o] = "done" /\ call[o].kind = "create" => o \in Rows
=============================================================================
