--------------------------- MODULE CompanyRecords ---------------------------
(***************************************************************************)
(* What stands before every handler, and the plain records behind it:      *)
(* AuthGuard with AccessControlService, the response cache that AppModule  *)
(* puts before every GET, and the operations of CompanyService on devices, *)
(* roles and the company row.  A request is authorized by three reads that *)
(* are awaited one by one - its company, its grant, the role of the grant -*)
(* while others change and delete what was read.                           *)
(***************************************************************************)
EXTENDS Integers, FiniteSets

CONSTANTS
    Ops,        \* one element per request; it names the row it creates
    AskedFor,   \* AskedFor[o]: the company that request o has read before; its
                \* response is still cached
    Users,
    Companies,
    EmployerOf, \* EmployerOf[u]: the company_ifric_id claim of user u
    None,
    GroupNames, \* the names that requests give to roles
    Kinds,      \* the endpoints that are called in this instance
    Faults,     \* the failures that happen
    MaxTime,    \* bound on the clock
    Ttl         \* how long a response is cached

AllKinds == {"createDevice", "createGroup", "setStatus", "updateCompany",
             "updateGroup", "deleteGroup", "deleteDevice", "deleteCompany", "read"}

FaultKinds == {"statement"}  \* a query of Postgres fails
\* The death of the process needs no action: its requests take no more steps.

Past == DOMAIN AskedFor
New == Ops \ Past

\* The two roles that every company starts with.
Defaults == Companies \X {"admin", "read_only"}

ASSUME CompanyRecordsAssumption ==
    /\ AskedFor \in [Past -> Companies] /\ Past \subseteq Ops
    /\ \A o, p \in Past : AskedFor[o] = AskedFor[p] => o = p
    /\ EmployerOf \in [Users -> Companies]
    /\ Kinds \subseteq AllKinds /\ Faults \subseteq FaultKinds
    /\ MaxTime \in Nat /\ Ttl \in Nat \ {0}
    /\ Ops \cap (Companies \cup Defaults) = {}
    /\ None \notin Ops \cup Users \cup Companies \cup Defaults \cup GroupNames
    /\ \A v \in SUBSET New : v # None

Permissions == {"create", "read", "update", "delete"}
Needed(kind) ==
    CASE kind \in {"createDevice", "createGroup"} -> "create"
      [] kind = "read" -> "read"
      [] kind \in {"setStatus", "updateCompany", "updateGroup"} -> "update"
      [] kind \in {"deleteGroup", "deleteDevice", "deleteCompany"} -> "delete"

Groups == Defaults \cup New
Roles == {{"read"}, Permissions}

VARIABLES
    now,       \* the time
    details,   \* details[c]: the updates that the row of company c has seen, or None
    grants,    \* grants[u]: the role of user u, or None
    groups,    \* groups[g]: the row of access_groups, or None
    mappings,  \* mappings[x]: the company whose category row x holds, or None
    devices,   \* devices[x]: the company whose gateway or server x is, or None
    cache,     \* cache[c]: the cached response of GET get-company-details/c
    pc,        \* pc[o]: the next call of request o
    call,      \* call[o]: the endpoint, its caller and its arguments
    seen,      \* seen[o]: what request o has read and still holds
    answer,    \* answer[o]: the response to a read
    replaced,  \* replaced[c][v]: history, when version v of company c was replaced
    history    \* history[o]: what has been the case since o arrived

tables == <<details, grants, groups, mappings, devices>>
ghosts == <<replaced, history>>
vars == <<now, tables, cache, pc, call, seen, answer, ghosts>>

Times == 0 .. MaxTime
Versions == SUBSET New

Group == [company : Companies, name : GroupNames \cup {"admin", "read_only"}, may : Roles]

\* A token of the ifric client names a user, one of the dataspace a participant,
\* whose id is a company_ifric_id or something else.
Callers == [user : Users] \cup [participant : Companies]
IsUser(caller) == "user" \in DOMAIN caller

Calls ==
    [kind : {"createDevice", "setStatus", "deleteCompany", "read"},
     caller : Callers, company : Companies]
    \cup [kind : {"createGroup"}, caller : Callers, company : Companies, name : GroupNames]
    \cup [kind : {"updateCompany"}, caller : Callers, company : Companies,
          category : BOOLEAN]
    \cup [kind : {"updateGroup"}, caller : Callers, row : Groups,
          patch : Roles \cup GroupNames]
    \cup [kind : {"deleteGroup"}, caller : Callers, row : Groups]
    \cup [kind : {"deleteDevice"}, caller : Callers, row : New]

\* claims: the company_ifric_id of the resolved token; group: that of the grant;
\* mapping: the category row; version: of the company row.
Seen == [claims : Companies \cup {None}, group : Groups \cup {None},
         mapping : Companies \cup New \cup {None}, version : Versions \cup {None}]
Nothing == [claims |-> None, group |-> None, mapping |-> None, version |-> None]

\* by: the request whose handler made the response; stored: when.
Response == [version : Versions \cup {None}, full : BOOLEAN, by : Ops, stored : Times]

\* permitted: its user held the permission; regranted: its user was given another
\* role; overtaken: its company was being deleted; crossed: another role got the
\* name that it gives one.
History == [at : Times, permitted : BOOLEAN, regranted : BOOLEAN, overtaken : BOOLEAN,
            crossed : BOOLEAN]
Unborn == [at |-> 0, permitted |-> FALSE, regranted |-> FALSE, overtaken |-> FALSE,
           crossed |-> FALSE]

Writes == {"saveDevice", "saveGroup", "saveMapping", "updateRow", "updateGroup",
           "deleteGroup", "deleteDevice", "deleteGroups", "deleteMappings",
           "deleteDevices", "deleteGrants", "deleteRow"}
Steps == {"resolve", "cached", "load", "findOwner", "findGrant", "findGroup",
          "findName", "findMapping", "readRow", "project"} \cup Writes
Finished == {"idle", "done", "failed"}

TypeOK ==
    /\ now \in Times
    /\ details \in [Companies -> Versions \cup {None}]
    /\ grants \in [Users -> Groups \cup {None}]
    /\ groups \in [Groups -> Group \cup {None}]
    /\ mappings \in [Companies \cup New -> Companies \cup {None}]
    /\ devices \in [New -> Companies \cup {None}]
    /\ cache \in [Companies -> Response \cup {None}]
    /\ pc \in [Ops -> Steps \cup Finished]
    /\ call \in [Ops -> Calls \cup {None}]
    /\ seen \in [Ops -> Seen]
    /\ answer \in [Ops -> Response \cup {None}]
    /\ replaced \in [Companies -> [Versions -> Times \cup {None}]]
    /\ history \in [Ops -> History]

\* Each request of the past has read the record of its own company.
Made(o) == [version |-> {}, full |-> TRUE, by |-> o, stored |-> 0]

Init ==
    /\ now = 0
    /\ details = [c \in Companies |-> {}]
    /\ grants \in [Users -> Defaults]
    /\ \A u \in Users : grants[u][1] = EmployerOf[u]
    /\ groups = [g \in Groups |-> IF g \notin Defaults THEN None ELSE
                   [company |-> g[1], name |-> g[2],
                    may |-> IF g[2] = "admin" THEN Permissions ELSE {"read"}]]
    /\ mappings = [x \in Companies \cup New |-> IF x \in Companies THEN x ELSE None]
    /\ devices = [o \in New |-> None]
    /\ pc = [o \in Ops |-> IF o \in Past THEN "done" ELSE "idle"]
    /\ cache = [c \in Companies |-> IF \E o \in Past : AskedFor[o] = c
                  THEN Made(CHOOSE o \in Past : AskedFor[o] = c) ELSE None]
    /\ call = [o \in Ops |-> IF o \in New THEN None ELSE
         [kind |-> "read", caller |-> [participant |-> AskedFor[o]],
          company |-> AskedFor[o]]]
    /\ seen = [o \in Ops |-> IF o \in New THEN Nothing
                             ELSE [Nothing EXCEPT !.claims = AskedFor[o]]]
    /\ answer = [o \in Ops |-> IF o \in Past THEN Made(o) ELSE None]
    /\ replaced = [c \in Companies |-> [v \in Versions |-> None]]
    /\ history = [o \in Ops |-> Unborn]

-----------------------------------------------------------------------------
Running(o) == pc[o] \in Steps
Goto(o, l) == pc' = [pc EXCEPT ![o] = l]
Read(o, l) ==
    /\ Goto(o, l)
    /\ UNCHANGED <<now, tables, cache, call, seen, answer, ghosts>>
Keep(o, field, x, l) ==
    /\ seen' = [seen EXCEPT ![o][field] = x]
    /\ Goto(o, l)
    /\ UNCHANGED <<now, tables, cache, call, answer, ghosts>>

\* What a request has read dies with it; the claims stay, since properties ask
\* for them.
Ends(o, l) ==
    /\ seen' = [seen EXCEPT ![o] = [Nothing EXCEPT !.claims = seen[o].claims]]
    /\ Goto(o, l)
    /\ UNCHANGED <<now, cache, call, answer>>
Throw(o) == Ends(o, "failed") /\ UNCHANGED <<tables, ghosts>>

Kind(o) == call[o].kind
Names(o, field) == field \in DOMAIN call[o]
Caller(o) == call[o].caller

\* isOwnCompany: a missing claim matches nothing.
IsOwn(o, c) == seen[o].claims = c

Holds(u, permission) ==
    /\ grants[u] # None /\ groups[grants[u]] # None
    /\ permission \in groups[grants[u]].may

IsCalled(row, c, name) == row # None /\ row.company = c /\ row.name = name

\* History: what every step that writes makes known to the requests under way.
Asks(o, u, permission) ==
    IsUser(Caller(o)) /\ u = Caller(o).user /\ permission = Needed(Kind(o))
Deletes(d, c) == pc[d] \in Writes /\ Kind(d) = "deleteCompany" /\ call[d].company = c
Witness ==
    /\ history' = [o \in Ops |->
         IF ~Running(o) THEN history[o] ELSE
         [at |-> history[o].at,
          permitted |-> history[o].permitted \/
            \E u \in Users, permission \in Permissions :
              Asks(o, u, permission) /\ Holds(u, permission)',
          regranted |-> history[o].regranted \/
            (IsUser(Caller(o)) /\ grants'[Caller(o).user] # grants[Caller(o).user]),
          overtaken |-> history[o].overtaken \/
            (Names(o, "company") /\ \E d \in Ops : Deletes(d, call[o].company)),
          crossed |-> history[o].crossed \/
            (Kind(o) = "createGroup" /\ \E g \in Groups \ {o} :
               /\ IsCalled(groups'[g], call[o].company, call[o].name)
               /\ ~IsCalled(groups[g], call[o].company, call[o].name))]]
    /\ replaced' = [c \in Companies |-> [v \in Versions |->
         IF details[c] = v /\ details'[c] # v THEN now ELSE replaced[c][v]]]

\* History: what is the case when a call arrives; the time matters to reads only.
Arrival(a) ==
    [at |-> IF a.kind = "read" THEN now ELSE 0,
     permitted |-> IsUser(a.caller) /\ Holds(a.caller.user, Needed(a.kind)),
     regranted |-> FALSE, overtaken |-> FALSE, crossed |-> FALSE]

\* Entry: AuthGuard, then the cache for a GET, then the handler.
Entry(a) == IF a.kind = "read" THEN "cached" ELSE "load"
Start(o) ==
    /\ pc[o] = "idle"
    /\ \E a \in Calls :
         /\ a.kind \in Kinds
         /\ call' = [call EXCEPT ![o] = a]
         /\ IF IsUser(a.caller)
              THEN /\ seen' = [seen EXCEPT ![o].claims = EmployerOf[a.caller.user]]
                   /\ Goto(o, Entry(a))
              ELSE UNCHANGED seen /\ Goto(o, "resolve")
         /\ history' = [history EXCEPT ![o] = Arrival(a)]
    /\ UNCHANGED <<now, tables, cache, answer, replaced>>

StatementFails(o) ==
    /\ "statement" \in Faults
    /\ Running(o) /\ pc[o] # "cached"
    /\ Throw(o)

\* resolveClaims: a participant_id that is no company_ifric_id stays unresolved,
\* and neither check can pass.
Resolve(o) ==
    /\ pc[o] = "resolve"
    /\ \/ /\ details[Caller(o).participant] # None
          /\ Keep(o, "claims", Caller(o).participant, Entry(call[o]))
       \/ /\ details[Caller(o).participant] = None
          /\ Read(o, Entry(call[o]))

-----------------------------------------------------------------------------
(* The checks that most handlers begin with.                               *)

\* What a handler goes on to once it is permitted.
Work(o) ==
    CASE Kind(o) = "createDevice" -> "saveDevice"
      [] Kind(o) = "createGroup" -> "findName"
      [] Kind(o) = "setStatus" -> "updateRow"
      [] Kind(o) = "updateCompany" ->
           IF call[o].category THEN "findMapping" ELSE "updateRow"
      [] Kind(o) = "deleteCompany" -> "deleteGroups"
      [] Kind(o) = "read" -> "readRow"
      [] OTHER -> Kind(o)

\* assertPermission has nothing to ask for a resolved participant.
Permission(o) == IF IsUser(Caller(o)) THEN "findGrant" ELSE Work(o)

\* addStatusDetail alone does not look the company up.
Load(o) ==
    /\ pc[o] = "load" /\ Names(o, "company")
    /\ IF \/ details[call[o].company] = None /\ Kind(o) # "setStatus"
          \/ ~IsOwn(o, call[o].company)
         THEN Throw(o) ELSE Read(o, Permission(o))

\* Roles and devices are named by their row, which names the company.
RowOwner(o) == IF Kind(o) = "deleteDevice" THEN devices[call[o].row]
               ELSE IF groups[call[o].row] = None THEN None
               ELSE groups[call[o].row].company

\* deleteAccessgroup alone does not mind that the row is not there.
LoadRow(o) ==
    /\ pc[o] = "load" /\ Names(o, "row")
    /\ \/ /\ RowOwner(o) = None /\ Kind(o) # "deleteGroup"
          /\ Throw(o)
       \/ /\ RowOwner(o) = None /\ Kind(o) = "deleteGroup"
          /\ Ends(o, "done") /\ UNCHANGED <<tables, ghosts>>
       \/ RowOwner(o) # None /\ Keep(o, "mapping", RowOwner(o), "findOwner")

FindOwner(o) ==
    /\ pc[o] = "findOwner"
    /\ IF details[seen[o].mapping] # None /\ IsOwn(o, seen[o].mapping)
         THEN Read(o, Permission(o)) ELSE Throw(o)

\* Mutant of FindGrant: goes on with the id of the user.
FindGrant_User(o) ==
    /\ pc[o] = "findGrant"
    /\ IF grants[Caller(o).user] = None THEN Throw(o)
       ELSE Keep(o, "group", Caller(o).user, "findGroup")

FindGrant(o) ==
    LET grant == grants[Caller(o).user] IN
    /\ pc[o] = "findGrant"
    /\ IF grant = None THEN Throw(o) ELSE Keep(o, "group", grant, "findGroup")

\* Mutant of FindGroup: any role will do.
FindGroup_AnyFlag(o) ==
    /\ pc[o] = "findGroup"
    /\ IF groups[seen[o].group] # None THEN Read(o, Work(o)) ELSE Throw(o)

FindGroup(o) ==
    LET group == groups[seen[o].group] IN
    /\ pc[o] = "findGroup"
    /\ IF group # None /\ Needed(Kind(o)) \in group.may
         THEN Read(o, Work(o)) ELSE Throw(o)

Checks(o) ==
    Resolve(o) \/ Load(o) \/ LoadRow(o) \/ FindOwner(o) \/ FindGrant(o) \/ FindGroup(o)

-----------------------------------------------------------------------------
(* createCompanyDevice, createAccessGroup, updateAccessGroup,              *)
(* deleteAccessgroup, deleteCompanyGateway and deleteCompanyServer         *)

SaveDevice(o) ==
    /\ pc[o] = "saveDevice"
    /\ devices' = [devices EXCEPT ![o] = call[o].company]
    /\ UNCHANGED <<details, grants, groups, mappings>>
    /\ Ends(o, "done") /\ Witness

\* Mutant of FindName: does not look at what it found.
FindName_Never(o) == pc[o] = "findName" /\ Read(o, "saveGroup")

FindName(o) ==
    /\ pc[o] = "findName"
    /\ IF \E g \in Groups : IsCalled(groups[g], call[o].company, call[o].name)
         THEN Throw(o) ELSE Read(o, "saveGroup")

SaveGroup(o) ==
    /\ pc[o] = "saveGroup"
    /\ \E may \in Roles :
         groups' = [groups EXCEPT ![o] =
           [company |-> call[o].company, name |-> call[o].name, may |-> may]]
    /\ UNCHANGED <<details, grants, mappings, devices>>
    /\ Ends(o, "done") /\ Witness

\* The new name, if there is one, is looked up by nobody.
UpdateGroup(o) ==
    LET row == call[o].row IN
    /\ pc[o] = "updateGroup"
    /\ \/ groups[row] = None /\ Throw(o)
       \/ /\ groups[row] # None
          /\ groups' = IF call[o].patch \in GroupNames
               THEN [groups EXCEPT ![row].name = call[o].patch]
               ELSE [groups EXCEPT ![row].may = call[o].patch]
          /\ UNCHANGED <<details, grants, mappings, devices>>
          /\ Ends(o, "done") /\ Witness

DeleteGroup(o) ==
    /\ pc[o] = "deleteGroup"
    /\ groups' = [groups EXCEPT ![call[o].row] = None]
    /\ UNCHANGED <<details, grants, mappings, devices>>
    /\ Ends(o, "done") /\ Witness

DeleteDevice(o) ==
    /\ pc[o] = "deleteDevice"
    /\ devices' = [devices EXCEPT ![call[o].row] = None]
    /\ UNCHANGED <<details, grants, groups, mappings>>
    /\ Ends(o, "done") /\ Witness

-----------------------------------------------------------------------------
(* updateCompany, addStatusDetail and deleteCompany                        *)

RowsOf(c) == {x \in DOMAIN mappings : mappings[x] = c}

\* There may be no category of that name.
FindMapping(o) ==
    LET rows == RowsOf(call[o].company) IN
    /\ pc[o] = "findMapping"
    /\ \/ Throw(o)
       \/ rows = {} /\ Read(o, "saveMapping")
       \/ \E x \in rows : Keep(o, "mapping", x, "saveMapping")

\* Mutant of SaveMapping: always saves a row of its own.
SaveMapping_Always(o) ==
    /\ pc[o] = "saveMapping"
    /\ mappings' = [mappings EXCEPT ![o] = call[o].company]
    /\ Goto(o, "updateRow")
    /\ UNCHANGED <<now, details, grants, groups, devices, cache, call, seen, answer>>
    /\ Witness

\* The row that was found is pointed at the new category, if it is still there;
\* where none was found, one is saved.
SaveMapping(o) ==
    /\ pc[o] = "saveMapping"
    /\ mappings' = IF seen[o].mapping # None THEN mappings
                   ELSE [mappings EXCEPT ![o] = call[o].company]
    /\ Goto(o, "updateRow")
    /\ UNCHANGED <<now, details, grants, groups, devices, cache, call, seen, answer>>
    /\ Witness

\* An UPDATE of a row that is gone changes nothing, and is answered all the same.
UpdateRow(o) ==
    LET c == call[o].company IN
    /\ pc[o] = "updateRow"
    /\ details' = IF details[c] = None THEN details
                  ELSE [details EXCEPT ![c] = @ \cup {o}]
    /\ UNCHANGED <<grants, groups, mappings, devices>>
    /\ Ends(o, "done") /\ Witness

Delete(o, l) ==
    /\ Goto(o, l)
    /\ Witness
    /\ UNCHANGED <<now, cache, call, seen, answer>>

DeleteGroups(o) ==
    /\ pc[o] = "deleteGroups"
    /\ groups' = [g \in Groups |->
         IF groups[g] # None /\ groups[g].company = call[o].company THEN None
         ELSE groups[g]]
    /\ UNCHANGED <<details, grants, mappings, devices>>
    /\ Delete(o, "deleteMappings")

DeleteMappings(o) ==
    /\ pc[o] = "deleteMappings"
    /\ mappings' = [x \in DOMAIN mappings |->
         IF mappings[x] = call[o].company THEN None ELSE mappings[x]]
    /\ UNCHANGED <<details, grants, groups, devices>>
    /\ Delete(o, "deleteDevices")

\* Mutant of DeleteDevices: they are left behind.
DeleteDevices_Skipped(o) ==
    /\ pc[o] = "deleteDevices"
    /\ UNCHANGED tables
    /\ Delete(o, "deleteGrants")

\* Gateways and servers.
DeleteDevices(o) ==
    /\ pc[o] = "deleteDevices"
    /\ devices' = [x \in New |-> IF devices[x] = call[o].company THEN None ELSE devices[x]]
    /\ UNCHANGED <<details, grants, groups, mappings>>
    /\ Delete(o, "deleteGrants")

\* Those of the users it had; module Accounts has them one by one.
DeleteGrants(o) ==
    /\ pc[o] = "deleteGrants"
    /\ grants' = [u \in Users |-> IF EmployerOf[u] = call[o].company THEN None
                                  ELSE grants[u]]
    /\ UNCHANGED <<details, groups, mappings, devices>>
    /\ Delete(o, "deleteRow")

DeleteRow(o) ==
    /\ pc[o] = "deleteRow"
    /\ details' = [details EXCEPT ![call[o].company] = None]
    /\ UNCHANGED <<grants, groups, mappings, devices>>
    /\ Ends(o, "done") /\ Witness

-----------------------------------------------------------------------------
(* getCompanyDetails behind the response cache, which knows a response by   *)
(* its URL.                                                                *)

Cached(o) ==
    LET c == call[o].company IN
    /\ pc[o] = "cached"
    /\ \/ /\ cache[c] = None
          /\ IF seen[o].claims = None THEN Throw(o) ELSE Read(o, Permission(o))
       \/ /\ cache[c] # None
          /\ answer' = [answer EXCEPT ![o] = cache[c]]
          /\ Goto(o, "done")
          /\ UNCHANGED <<now, tables, cache, call, seen, ghosts>>

\* The row as it is; of another company only its public profile, for which the
\* category is looked up first.
ReadRow(o) ==
    LET c == call[o].company IN
    /\ pc[o] = "readRow"
    /\ Keep(o, "version", details[c], "project")

Respond(o) ==
    LET response == [version |-> seen[o].version, full |-> IsOwn(o, call[o].company),
                     by |-> o, stored |-> now] IN
    /\ pc[o] = "project"
    /\ cache' = [cache EXCEPT ![call[o].company] = response]
    /\ answer' = [answer EXCEPT ![o] = response]
    /\ seen' = [seen EXCEPT ![o].version = None, ![o].group = None]
    /\ Goto(o, "done")
    /\ UNCHANGED <<now, tables, call, ghosts>>

\* Mutant of Expired: the time to live is counted as if it were longer.
Expired_Seconds(response, time) == response.stored + Ttl + 1 <= time

\* cache-manager takes the 600 of AppModule for milliseconds.
Expired(response, time) == response.stored + Ttl <= time

Records(o) ==
    SaveDevice(o) \/ FindName(o) \/ SaveGroup(o) \/ UpdateGroup(o) \/ DeleteGroup(o)
    \/ DeleteDevice(o)
Company(o) ==
    FindMapping(o) \/ SaveMapping(o) \/ UpdateRow(o) \/ DeleteGroups(o)
    \/ DeleteMappings(o) \/ DeleteDevices(o) \/ DeleteGrants(o) \/ DeleteRow(o)
Directory(o) == Cached(o) \/ ReadRow(o) \/ Respond(o)

-----------------------------------------------------------------------------
(* The rest of the world.                                                  *)

\* Time passes, while something is cached and somebody may still look for it.
Tick ==
    /\ now < MaxTime /\ \E c \in Companies : cache[c] # None
    /\ \E o \in Ops : pc[o] = "idle" \/ (Running(o) /\ Kind(o) = "read")
    /\ now' = now + 1
    /\ cache' = [c \in Companies |->
         IF cache[c] # None /\ Expired(cache[c], now') THEN None ELSE cache[c]]
    /\ UNCHANGED <<tables, pc, call, seen, answer, ghosts>>

\* updateUserAccessGroup gives a user another role of its company, or
\* deleteCompanyUser takes it away; module Accounts has both.  It concerns the
\* caller of some request under way.
Regrant(u) ==
    /\ \E o \in Ops : Running(o) /\ IsUser(Caller(o)) /\ Caller(o).user = u
    /\ \E g \in Groups \cup {None} :
         /\ g # None => groups[g] # None /\ groups[g].company = EmployerOf[u]
         /\ grants[u] # g
         /\ grants' = [grants EXCEPT ![u] = g]
    /\ UNCHANGED <<now, details, groups, mappings, devices, cache, pc, call, seen, answer>>
    /\ Witness

Next ==
    \/ \E o \in Ops :
         \/ Start(o) \/ StatementFails(o)
         \/ Checks(o) \/ Records(o) \/ Company(o) \/ Directory(o)
    \/ Tick
    \/ \E u \in Users : Regrant(u)

Spec == Init /\ [][Next]_vars

-----------------------------------------------------------------------------
(* Properties.                                                             *)

\* Who acted with the permission, at some moment since it arrived.  Only one whose
\* own role is replaced meanwhile can slip through: the grant is read before and
\* the role it names after.
Entitled(o) == ~IsUser(Caller(o)) \/ history[o].permitted \/ history[o].regranted

RecordsOf(c) ==
    LET mine == {g \in Groups : groups[g] # None /\ groups[g].company = c} IN
    <<details[c], [g \in mine |-> groups[g]], RowsOf(c),
      {x \in New : devices[x] = c}>>

\* "The decision is always re-derived at request time": whatever is read before
\* and changes meanwhile, a record of a company changes only by a request of that
\* company that held the permission since it arrived.
ChangesAreEntitled ==
    [][\A c \in Companies : RecordsOf(c)' # RecordsOf(c) =>
         \E o \in Ops : /\ pc[o] \in Writes /\ pc'[o] # pc[o]
                        /\ seen[o].claims = c /\ Entitled(o)]_tables

Deleting == {"deleteDevices", "deleteGrants", "deleteRow", "failed"}

\* updateCompany points the one category of a company elsewhere, or restores it:
\* however updates overlap, there is one as long as no deletion has taken it away.
OneCategory ==
    \A c \in Companies :
      \/ details[c] = None
      \/ Cardinality(RowsOf(c)) = 1
      \/ \E d \in Ops : pc[d] \in Deleting /\ Kind(d) = "deleteCompany"
                        /\ call[d].company = c

\* What a deleted company leaves behind was saved while the deletion was under
\* way: nothing that was there before remains, and nothing is added afterwards.
OnlyLatecomersRemain ==
    \A c \in Companies : details[c] = None =>
      /\ \A g \in Groups : groups[g] # None /\ groups[g].company = c =>
           g \in New /\ history[g].overtaken
      /\ \A x \in RowsOf(c) : x \in New /\ history[x].overtaken
      /\ \A x \in New : devices[x] = c => history[x].overtaken

\* "Group Name already exists": a company has two roles of one name only if an
\* update gave one of them that name, or if one was saved between the look-up and
\* the insertion of the other.
Renamed(g, name) == \E o \in Ops :
    pc[o] = "done" /\ Kind(o) = "updateGroup" /\ call[o].row = g /\ call[o].patch = name
TwinsCrossed ==
    \A g, h \in Groups :
      /\ g # h /\ groups[g] # None
      /\ IsCalled(groups[h], groups[g].company, groups[g].name)
      =>
        \E x \in {g, h} :
          \/ Renamed(x, groups[g].name)
          \/ x \in New /\ history[x].crossed

\* The response to a read was made, for this or another request, by one that was
\* entitled to read, and who asked for its own company if it is the full record;
\* it was still true when that request arrived, and it was made less than Ttl
\* before this one arrived.
AnswersAreRecent ==
    \A o \in Ops : answer[o] # None =>
      LET response == answer[o]
          p == response.by
          c == call[o].company
      IN /\ Entitled(p) /\ call[p].company = c
         /\ response.full <=> seen[p].claims = c
         /\ \/ response.version = None
            \/ replaced[c][response.version] = None
            \/ replaced[c][response.version] >= history[p].at
         /\ p = o \/ response.stored + Ttl > history[o].at
=============================================================================
