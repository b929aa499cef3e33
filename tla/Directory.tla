------------------------------ MODULE Directory ------------------------------
(***************************************************************************)
(* The queries: the GET endpoints of CompanyService, AssetService and      *)
(* AuthService, with PublicCompanyService.  Each assembles its answer from *)
(* several awaited reads, with the checks of AccessControlService before,  *)
(* between or after them, while the rest of the service writes.            *)
(* Queries change nothing, so they cannot disturb one another: there is    *)
(* one, and everything else is its world.  An answer is a set of facts.    *)
(***************************************************************************)
EXTENDS Integers, FiniteSets, Sequences

CONSTANTS
    Companies, Users, Groups, Factories, Assets,
    Categories,  \* the categories that are listed by name, and another
    Listed,      \* the two of getManufacturerAndOwnerCompanies
    Names,       \* of roles
    HomeOf,      \* HomeOf[x]: the company of user, role or factory x
    First,       \* First[x]: the category of company x, the grant of user x, the
                 \* row of role x and that of asset x when the query arrives
    None,
    Kinds,       \* the queries of this instance
    Faults,      \* the failures that happen
    MaxChanges   \* bound on what the world changes during the query

AllKinds == {"details", "record", "roster", "owners", "category", "taken",
             "all", "listed", "both", "page",
             "groups", "group", "namedGroup", "users", "access", "user",
             "profile", "grant", "indexed",
             "factories", "directory", "factory", "factoryOwner", "factoryAssets",
             "made", "owned", "pair", "asset", "maker", "owner", "location"}

\* A query of Postgres fails; ICID fails.
FaultKinds == {"statement", "icid"}

Asset == [maker : Companies, owner : Companies \cup {None},
          site : Factories \cup {None}]
Group == [name : Names, reads : BOOLEAN]

ASSUME DirectoryAssumption ==
    /\ HomeOf \in [Users \cup Groups \cup Factories -> Companies]
    /\ \A c \in Companies : First[c] \in Categories
    /\ \A u \in Users : First[u] \in Groups /\ HomeOf[First[u]] = HomeOf[u]
    /\ \A g \in Groups : First[g] \in Group
    /\ \A a \in Assets : First[a] \in Asset
    /\ Listed \subseteq Categories
    /\ Kinds \subseteq AllKinds /\ Faults \subseteq FaultKinds
    /\ MaxChanges \in Nat
    /\ None \notin Companies \cup Users \cup Groups \cup Factories \cup Categories
                   \cup Names

VARIABLES
    companies,  \* those that have a row
    category,   \* category[c]: what the mapping of company c names, or None
    certified,  \* the companies that ICID vouches for
    employer,   \* employer[u]: the company of the row of user u, or None
    grants,     \* grants[u]: the role of user u, or None
    groups,     \* groups[g]: the row of access_groups, or None
    sites,      \* sites[f]: the owner of factory f, or None
    assets,     \* assets[a]: its row, or None
    changes,    \* how often the world has changed since the query arrived
    call,       \* the query: its kind, caller and target
    pc,
    todo,       \* the reads it has still to do, in order
    seen,       \* what it has read and still holds
    found,      \* the facts it has assembled
    ever,       \* history: the facts that have been true since it arrived
    always      \* history: those that have been true all along

tables == <<companies, category, certified, employer, grants, groups, sites, assets>>
query == <<call, pc, todo, seen, found>>
vars == <<tables, changes, query, ever, always>>

\* A token names a company, and the user whose permission counts; that of a
\* participant of the dataspace names none.
Callers == [user : Users] \cup [company : Companies]
IsUser(caller) == "user" \in DOMAIN caller
Claims(caller) == IF IsUser(caller) THEN HomeOf[caller.user] ELSE caller.company

Targets(kind) ==
    CASE kind \in {"all", "both", "directory"} -> {None}
      [] kind \in {"listed", "page"} -> Listed
      [] kind \in {"taken", "pair"} -> Companies \X Companies
      [] kind = "namedGroup" -> Companies \X Names
      [] kind = "group" -> Groups
      [] kind \in {"user", "grant"} -> Users
      [] kind = "profile" -> Companies \X Users
      [] kind = "indexed" -> Companies \X Users
      [] kind \in {"factory", "factoryOwner", "factoryAssets"} -> Factories
      [] kind \in {"asset", "maker", "owner", "location"} -> Assets
      [] OTHER -> Companies

Nothing == [grant |-> None, company |-> None, listed |-> {}, users |-> {},
            held |-> {}, row |-> None, silent |-> FALSE]

\* Types; and no handler reads by a grant or a row that it has not found.
TypeOK ==
    /\ companies \subseteq Companies /\ certified \subseteq Companies
    /\ category \in [Companies -> Categories \cup {None}]
    /\ employer \in [Users -> Companies \cup {None}]
    /\ grants \in [Users -> Groups \cup {None}]
    /\ groups \in [Groups -> Group \cup {None}]
    /\ sites \in [Factories -> Companies \cup {None}]
    /\ assets \in [Assets -> Asset \cup {None}]
    /\ changes \in 0 .. MaxChanges
    /\ pc \in {"idle", "running", "answered", "refused", "failed"}
    /\ seen \in [grant : Groups \cup {None}, company : Companies \cup {None},
                 listed : SUBSET Companies, users : SUBSET Users,
                 held : SUBSET (Users \X Groups), row : Asset \cup {None},
                 silent : BOOLEAN]
    \* What a read goes by has been found.
    /\ todo # <<>> =>
         /\ Head(todo) = "group" => seen.grant # None
         /\ Head(todo) \in {"party", "siteThere"} => seen.row # None

-----------------------------------------------------------------------------
(* What is true.                                                           *)

RoleOf(u) ==
    IF grants[u] = None \/ groups[grants[u]] = None THEN None
    ELSE groups[grants[u]].name

Reads(u) == grants[u] # None /\ groups[grants[u]] # None /\ groups[grants[u]].reads

\* "record" is the full row of a company, "company" what anybody may know of it;
\* and so for "site" and "factory".
Truth ==
    {<<what, c>> : what \in {"company", "record"}, c \in companies}
    \cup {<<"category", c, category[c]>> : c \in {c \in Companies : category[c] # None}}
    \cup {<<"certified", c>> : c \in certified}
    \cup {<<"user", u, employer[u]>> : u \in {u \in Users : employer[u] # None}}
    \cup {<<"grant", u, grants[u]>> : u \in Users}
    \cup {<<"role", u, RoleOf(u)>> : u \in Users}
    \cup {<<"reader", u>> : u \in {u \in Users : Reads(u)}}
    \cup {<<"group", g, groups[g]>> : g \in {g \in Groups : groups[g] # None}}
    \cup {<<what, f, sites[f]>> : what \in {"factory", "site"},
                                  f \in {f \in Factories : sites[f] # None}}
    \cup {<<"asset", a, assets[a]>> : a \in {a \in Assets : assets[a] # None}}
    \cup {<<"stands", a, assets[a].site>> : a \in {a \in Assets : assets[a] # None}}

Init ==
    /\ companies = Companies
    /\ certified = Companies
    /\ category = [c \in Companies |-> First[c]]
    /\ employer = [u \in Users |-> HomeOf[u]]
    /\ grants = [u \in Users |-> First[u]]
    /\ groups = [g \in Groups |-> First[g]]
    /\ sites = [f \in Factories |-> HomeOf[f]]
    /\ assets = [a \in Assets |-> First[a]]
    /\ changes = 0
    /\ call = None /\ pc = "idle" /\ todo = <<>> /\ seen = Nothing /\ found = {}
    /\ ever = {} /\ always = {}

-----------------------------------------------------------------------------
(* Which reads and checks each query does, in order.                       *)

\* assertPermission asks nothing of a participant.
Permission(caller) == IF IsUser(caller) THEN <<"grant", "group">> ELSE <<>>

\* getCompanyDetails, ...ByEmail and ...ByName; getCompanyDetailsbyRecord and
\* getCompanyContactDetails; getCompanyAndUserDetails; getUniqueOwnerCompanies;
\* getCompanyCategory; checkCompaniesByCompanyNameAndRegistrationNumber.
CompanyPlan(kind, allowed) ==
    CASE kind = "details" -> allowed \o <<"company", "show">>
      [] kind = "record" -> <<"company">> \o allowed \o <<"show">>
      [] kind = "roster" -> <<"company">> \o allowed
                              \o <<"home", "mapping", "users", "eachGrant">>
      [] kind = "owners" -> <<"company", "match">> \o allowed \o <<"twins", "named">>
      [] kind = "category" -> <<"company", "mapping">>
      [] kind = "taken" -> <<"name", "number">>

\* getAllCompanies, getCategorySpecificCompanies, getManufacturerAndOwnerCompanies
\* and getManufacturerCompanies, which searching by name does not change.
ListPlan(kind) ==
    CASE kind = "all" -> <<"every", "mappings", "certificates">>
      [] kind = "listed" -> <<"mapped", "named">>
      [] kind = "both" -> <<"mapped", "present", "show">>
      [] kind = "page" -> <<"mapped", "some">>

\* getCompanyAccessGroup, getAccessGroup, getAccessGroupByGroupName, then
\* getCompanyUsers with getUserDetails, getCompanyUsersAccess,
\* getUserDetailsById with ...ByEmail, getUserProfileContent,
\* getUserProductAccess and getIndexedData.
PeoplePlan(kind, allowed) ==
    CASE kind = "groups" -> <<"company", "match">> \o allowed \o <<"groups">>
      [] kind = "group" -> <<"role", "itsCompany">> \o allowed
      [] kind = "namedGroup" -> <<"itsCompany">> \o allowed \o <<"roleNamed">>
      [] kind = "users" -> <<"company", "match">> \o allowed \o <<"users">>
      [] kind = "access" ->
           <<"company", "match">> \o allowed \o <<"users", "grants", "names">>
      [] kind = "user" -> <<"user", "itsCompany">> \o allowed
      [] kind = "profile" ->
           <<"company", "match">> \o allowed \o <<"grants", "names">>
      [] kind = "grant" -> <<"grantOf">>
      [] kind = "indexed" -> <<"user", "given", "mapping", "grants", "names">>

\* getFactories in its two forms, getFactoryById, getFactoryOwner,
\* getFactoryProducts.
FactoryPlan(kind, allowed) ==
    CASE kind = "factories" -> allowed \o <<"match", "ownSites">>
      [] kind = "directory" -> allowed \o <<"factories">>
      [] kind = "factory" -> <<"site", "match">> \o allowed
      [] kind = "factoryOwner" -> <<"site", "match">> \o allowed \o <<"present", "show">>
      [] kind = "factoryAssets" -> <<"site", "match">> \o allowed \o <<"assetsThere">>

\* getAssets with getManufacturerAssets, getOwnerAssets, getManufacturerOwnerAssets,
\* getAssetByAssetIfricId, getAssetManufacturer, getAssetOwner and
\* getAssetFactoryLocation.
AssetPlan(kind, allowed) ==
    CASE kind \in {"made", "owned"} -> <<"company", "match">> \o allowed \o <<"assets">>
      [] kind = "pair" -> <<"company", "partner">> \o allowed \o <<"assets">>
      [] kind = "asset" -> <<"asset", "party">> \o allowed
      [] kind \in {"maker", "owner"} ->
           <<"asset", "party">> \o allowed \o <<"present", "show">>
      [] kind = "location" -> <<"asset", "party">> \o allowed \o <<"siteThere">>

Plan(kind, caller) ==
    LET allowed == Permission(caller) IN
    CASE kind \in {"details", "record", "roster", "owners", "category", "taken"} ->
           CompanyPlan(kind, allowed)
      [] kind \in {"all", "listed", "both", "page"} -> ListPlan(kind)
      [] kind \in {"groups", "group", "namedGroup", "users", "access", "user",
                   "profile", "grant", "indexed"} -> PeoplePlan(kind, allowed)
      [] kind \in {"factories", "directory", "factory", "factoryOwner",
                   "factoryAssets"} -> FactoryPlan(kind, allowed)
      [] OTHER -> AssetPlan(kind, allowed)

-----------------------------------------------------------------------------
Kind == call.kind
Caller == call.caller
Target == call.target
IsOwn(c) == Claims(Caller) = c

\* The company and the user that the query names.
Asked == IF Kind \in {"profile", "pair", "taken", "namedGroup", "indexed"}
           THEN Target[1] ELSE Target
AskedUser == IF Kind \in {"profile", "indexed"} THEN Target[2] ELSE Target

At(step) == pc = "running" /\ todo # <<>> /\ Head(todo) = step
Ends(how, holds) ==
    pc' = how /\ todo' = <<>> /\ seen' = [Nothing EXCEPT !.silent = holds.silent]
Proceed(rest, holds) ==
    IF rest = <<>> THEN Ends("answered", holds) ELSE
      /\ todo' = rest /\ seen' = holds /\ pc' = pc
World == <<tables, changes, call, ever, always>>

\* A read that finds something, one that leaves nothing to answer, which a few
\* queries answer with 404 and the others with an empty body, and a 403.
Read(facts, holds) ==
    /\ Proceed(Tail(todo), holds)
    /\ found' = found \cup facts
    /\ UNCHANGED World
Empty == Ends("answered", seen) /\ found' = {} /\ UNCHANGED World
Refuse == Ends("refused", seen) /\ found' = {} /\ UNCHANGED World

Start ==
    /\ pc = "idle"
    /\ \E kind \in Kinds, caller \in Callers : \E target \in Targets(kind) :
         /\ call' = [kind |-> kind, caller |-> caller, target |-> target]
         /\ todo' = Plan(kind, caller)
    /\ pc' = "running"
    /\ ever' = Truth /\ always' = Truth
    /\ UNCHANGED <<tables, changes, seen, found>>

StatementFails ==
    /\ "statement" \in Faults /\ pc = "running"
    /\ Ends("failed", seen) /\ found' = {}
    /\ UNCHANGED World

-----------------------------------------------------------------------------
(* AccessControlService: isOwnCompany and assertPermission, which reads the *)
(* grant and then the role it names.                                       *)

Match ==
    /\ At("match")
    /\ IF IsOwn(IF Kind \in {"factory", "factoryOwner", "factoryAssets"}
                THEN seen.company ELSE Asked)
         THEN Read({}, seen) ELSE Refuse

\* Mutant of FindGrant: a user without a grant goes on.
FindGrant_Late ==
    /\ At("grant")
    /\ Read({}, [seen EXCEPT !.grant = grants[Caller.user]])

FindGrant ==
    /\ At("grant")
    /\ IF grants[Caller.user] = None THEN Refuse
       ELSE Read({}, [seen EXCEPT !.grant = grants[Caller.user]])

FindGroup ==
    /\ At("group")
    /\ IF groups[seen.grant] # None /\ groups[seen.grant].reads
         THEN Read({}, seen) ELSE Refuse

\* assertCallerOwnsCompanyRecord and assertCallerOwnsUsersCompany.
OwnRecord ==
    LET c == IF Kind = "namedGroup" THEN Asked ELSE seen.company IN
    /\ At("itsCompany")
    /\ IF c \in companies /\ IsOwn(c) THEN Read({}, seen) ELSE Refuse

\* assertCallerIsPartyTo; of its two reads one can match.
Party ==
    /\ At("party")
    /\ IF \E c \in companies : IsOwn(c) /\ c \in {seen.row.maker, seen.row.owner}
         THEN Read({}, seen) ELSE Refuse

\* The two companies of getManufacturerOwnerAssets are read side by side.
Partner ==
    /\ At("partner")
    /\ IF Target[2] \notin companies THEN Empty
       ELSE IF \E c \in Companies : IsOwn(c) /\ c \in {Target[1], Target[2]}
         THEN Read({}, seen) ELSE Refuse

-----------------------------------------------------------------------------
(* Companies and their categories.                                         *)

FindCompany ==
    /\ At("company")
    /\ IF Asked \notin companies THEN Empty
       ELSE Read({}, [seen EXCEPT !.company = Asked, !.listed = {Asked}])

\* Mutant of Show: answers with the rows themselves.
Show_Raw ==
    /\ At("show")
    /\ Read({<<"record", c>> : c \in seen.listed}, seen)

\* toPublicCompanies, for what is not the caller's own; in a listing nothing is.
\* The rows of company_categories stay as they are: module Setup has them.
Show ==
    LET own == {c \in seen.listed : IsOwn(c) /\ Kind # "both"}
        rest == seen.listed \ own
    IN /\ At("show")
       /\ Read({<<"record", c>> : c \in own} \cup {<<"company", c>> : c \in rest}
               \cup {<<"category", c, category[c]>> : c \in {c \in rest : category[c] # None}},
               seen)

\* A foreign caller of getCompanyAndUserDetails gets the public profile.
Home ==
    /\ At("home")
    /\ UNCHANGED <<World, found, seen, pc>>
    /\ todo' = IF IsOwn(Asked) THEN Tail(todo) ELSE <<"show">>

\* The category of one company; getCompanyCategory and getIndexedData have no
\* answer without.
FindMapping ==
    LET c == seen.company IN
    /\ At("mapping")
    /\ IF category[c] = None /\ Kind # "roster" THEN Empty ELSE
       Read((Truth \cap {<<"category", c, category[c]>>})
            \cup (IF Kind = "roster" THEN {<<"company", c>>} ELSE {}), seen)

\* One of the names, then one of the numbers, is taken.
Taken ==
    LET c == IF Head(todo) = "name" THEN Target[1] ELSE Target[2] IN
    /\ At("name") \/ At("number")
    /\ Read({<<"company", c>>} \cap Truth, seen)

FindAll ==
    /\ At("every")
    /\ IF companies = {} THEN Empty
       ELSE Read({<<"company", c>> : c \in companies}, [seen EXCEPT !.listed = companies])

FindMappings ==
    /\ At("mappings")
    /\ Read({<<"category", c, category[c]>> : c \in {c \in seen.listed : category[c] # None}},
            seen)

\* verifyAllCompanyCertificate; that it fails makes nobody certified.
Certify ==
    /\ At("certificates")
    /\ \/ Read({<<"certified", c>> : c \in seen.listed \cap certified}, seen)
       \/ "icid" \in Faults /\ Read({}, [seen EXCEPT !.silent = TRUE])

FindMapped ==
    LET wanted == IF Kind = "both" THEN Listed ELSE {Target} IN
    /\ At("mapped")
    /\ LET hits == {c \in Companies : category[c] \in wanted} IN
       IF hits = {} THEN Empty ELSE Read({}, [seen EXCEPT !.listed = hits])

Label(c) == IF Kind = "listed" THEN {<<"category", c, Target>>} ELSE {}
FindNamed ==
    LET there == seen.listed \cap companies IN
    /\ At("named")
    /\ Read(UNION {{<<"company", c>>} \cup Label(c) : c \in there}, seen)

\* One page; nothing orders the rows, so it is any of them.
FindSome ==
    /\ At("some")
    /\ \E page \in SUBSET (seen.listed \cap companies) :
         Read({<<"company", c>> : c \in page}
              \cup {<<"category", c, Target>> : c \in page}, seen)

\* The rows that are still there of companies found otherwise.
FindPresent ==
    LET wanted == CASE Kind = "maker" -> {seen.row.maker}
                    [] Kind = "owner" -> {seen.row.owner}
                    [] Kind = "factoryOwner" -> {seen.company}
                    [] OTHER -> seen.listed
    IN /\ At("present")
       /\ IF wanted \cap companies = {} THEN Empty
          ELSE Read({}, [seen EXCEPT !.listed = wanted \cap companies])

\* getIndexedData is given a company and does not ask whose it is.
FindGiven ==
    /\ At("given")
    /\ IF Asked \notin companies THEN Empty ELSE Read({<<"company", Asked>>}, seen)

-----------------------------------------------------------------------------
(* Users, grants and roles.                                                *)

FindUser ==
    LET u == AskedUser IN
    /\ At("user")
    /\ IF employer[u] = None THEN Empty
       ELSE Read({<<"user", u, employer[u]>>}, [seen EXCEPT !.company = employer[u]])

FindUsers ==
    LET us == {u \in Users : employer[u] = Asked} IN
    /\ At("users")
    /\ IF us = {} /\ Kind # "roster" THEN Empty
       ELSE IF us = {} THEN Proceed(<<>>, seen) /\ UNCHANGED <<World, found>>
       ELSE Read({<<"user", u, Asked>> : u \in us}, [seen EXCEPT !.users = us])

\* The grants of the users found, or of the one that is asked for.  A profile is
\* null without, and getIndexedData has no answer.
FindGrants ==
    LET us == IF Kind = "access" THEN seen.users ELSE {AskedUser}
        granted == {u \in us : grants[u] # None}
    IN /\ At("grants")
       /\ IF granted = {} /\ Kind = "indexed" THEN Empty
          ELSE Read({}, [seen EXCEPT !.users = us,
                         !.held = {<<u, grants[u]>> : u \in granted}])

\* Mutant of NameOf: the roles are joined without the user.
NameOf_Any(u, held) ==
    LET named == {h \in held : groups[h[2]] # None} IN
    IF named = {} THEN None ELSE groups[(CHOOSE h \in named : TRUE)[2]].name

\* The name the user's role has now, if it is still there.
NameOf(u, held) ==
    LET named == {h \in held : h[1] = u /\ groups[h[2]] # None} IN
    IF named = {} THEN None ELSE groups[(CHOOSE h \in named : TRUE)[2]].name

FindNames ==
    /\ At("names")
    /\ Read({<<"role", u, NameOf(u, seen.held)>> : u \in seen.users}, seen)

\* Mutant of EachGrant: a user without a grant is left out.
EachGrant_Inner ==
    /\ At("eachGrant")
    /\ \E u \in seen.users :
         /\ found' = IF grants[u] = None THEN found \ {<<"user", u, Asked>>} ELSE found
         /\ LET rest == [seen EXCEPT !.users = @ \ {u}, !.held =
                           {<<u, g>> : g \in {grants[u]} \ {None}}]
                then == IF rest.users = {} THEN Tail(todo) ELSE todo
            IN Proceed(IF grants[u] = None THEN then ELSE <<"eachGroup">> \o then, rest)
    /\ UNCHANGED World

\* getCompanyAndUserDetails goes through the users one by one, in any order.
EachGrant ==
    /\ At("eachGrant")
    /\ \E u \in seen.users :
         /\ found' = IF grants[u] = None THEN found \cup {<<"role", u, None>>} ELSE found
         /\ LET rest == [seen EXCEPT !.users = @ \ {u}, !.held =
                           {<<u, g>> : g \in {grants[u]} \ {None}}]
                then == IF rest.users = {} THEN Tail(todo) ELSE todo
            IN Proceed(IF grants[u] = None THEN then ELSE <<"eachGroup">> \o then, rest)
    /\ UNCHANGED World

EachGroup ==
    /\ At("eachGroup")
    /\ \E h \in seen.held :
         Read({<<"role", h[1], NameOf(h[1], seen.held)>>}, [seen EXCEPT !.held = {}])

FindGrantOf ==
    /\ At("grantOf")
    /\ Read({<<"grant", AskedUser, grants[AskedUser]>>}, seen)

FindGroups ==
    /\ At("groups")
    /\ Read({<<"group", g, groups[g]>> :
               g \in {g \in Groups : groups[g] # None /\ HomeOf[g] = Asked}}, seen)

FindRole ==
    /\ At("role")
    /\ IF groups[Target] = None THEN Empty
       ELSE Read({<<"group", Target, groups[Target]>>},
                 [seen EXCEPT !.company = HomeOf[Target]])

FindRoleNamed ==
    LET named == {g \in Groups : HomeOf[g] = Asked /\ groups[g] # None
                                 /\ groups[g].name = Target[2]} IN
    /\ At("roleNamed")
    /\ \/ named = {} /\ Empty
       \/ \E g \in named : Read({<<"group", g, groups[g]>>}, seen)

-----------------------------------------------------------------------------
(* Factories and assets.                                                   *)

FindSites ==
    /\ At("ownSites") \/ At("factories")
    /\ LET own == Head(todo) = "ownSites" IN
       Read({<<IF own THEN "site" ELSE "factory", f, sites[f]>> :
               f \in {f \in Factories : sites[f] # None /\ (own => sites[f] = Asked)}}, seen)

FindSite ==
    /\ At("site")
    /\ IF sites[Target] = None THEN Empty
       ELSE Read(IF Kind = "factory" THEN {<<"site", Target, sites[Target]>>} ELSE {},
                 [seen EXCEPT !.company = sites[Target]])

FindSiteThere ==
    LET f == seen.row.site IN
    /\ At("siteThere")
    /\ IF sites[f] = None THEN Empty ELSE Read({<<"site", f, sites[f]>>}, seen)

\* Getting the owner or the site of an asset without one is answered at once.
FindAsset ==
    LET row == assets[Target] IN
    /\ At("asset")
    /\ IF \/ row = None
          \/ Kind = "owner" /\ row.owner = None
          \/ Kind = "location" /\ row.site = None
         THEN Empty
         ELSE Read(IF Kind = "asset" THEN {<<"asset", Target, row>>} ELSE {},
                   [seen EXCEPT !.row = row])

AssetsMade == {a \in Assets : assets[a] # None /\ assets[a].maker = Asked}

FindAssets ==
    LET wanted ==
          CASE Kind = "made" -> AssetsMade
            [] Kind = "owned" -> {a \in Assets : assets[a] # None /\ assets[a].owner = Asked}
            [] Kind = "pair" -> {a \in AssetsMade : assets[a].owner = Target[2]}
    IN
    /\ At("assets")
    /\ Read({<<"asset", a, assets[a]>> : a \in wanted}, seen)

\* Their names only.
FindAssetsThere ==
    /\ At("assetsThere")
    /\ Read({<<"stands", a, Target>> :
               a \in {a \in Assets : assets[a] # None /\ assets[a].site = Target}}, seen)

\* The owners of the machines a company built.
FindTwins ==
    LET owners == {assets[a].owner : a \in AssetsMade} \ {None} IN
    /\ At("twins")
    /\ IF owners = {} THEN Empty ELSE Read({}, [seen EXCEPT !.listed = owners])

Checks == Match \/ FindGrant \/ FindGroup \/ OwnRecord \/ Party \/ Partner
CompanyReads ==
    FindCompany \/ Show \/ Home \/ FindMapping \/ Taken \/ FindAll \/ FindMappings
    \/ Certify \/ FindMapped \/ FindNamed \/ FindSome \/ FindPresent \/ FindGiven
PeopleReads ==
    FindUser \/ FindUsers \/ FindGrants \/ FindNames \/ EachGrant \/ EachGroup
    \/ FindGrantOf \/ FindGroups \/ FindRole \/ FindRoleNamed
AssetReads ==
    FindSites \/ FindSite \/ FindSiteThere \/ FindAsset \/ FindAssets
    \/ FindAssetsThere \/ FindTwins

-----------------------------------------------------------------------------
(* The world: what the other requests of the service write, a statement at  *)
(* a time, while the query is under way.  Modules Accounts, AssetRegistry   *)
(* and CompanyRecords have those requests.                                  *)

Changes ==
    /\ pc = "running" /\ changes < MaxChanges
    /\ changes' = changes + 1
    /\ UNCHANGED query
    /\ ever' = ever \cup Truth' /\ always' = always \cap Truth'

\* deleteCompany, whose other statements are changes of their own.
DropCompany ==
    /\ \E c \in companies : companies' = companies \ {c}
    /\ UNCHANGED <<category, certified, employer, grants, groups, sites, assets>>
    /\ Changes

\* updateCompany, or deleteCompany.
MoveCategory ==
    /\ \E c \in Companies, k \in Categories \cup {None} :
         category[c] # k /\ category' = [category EXCEPT ![c] = k]
    /\ UNCHANGED <<companies, certified, employer, grants, groups, sites, assets>>
    /\ Changes

\* A certificate runs out, or is issued.
Recertify ==
    /\ \E c \in Companies :
         certified' = IF c \in certified THEN certified \ {c} ELSE certified \cup {c}
    /\ UNCHANGED <<companies, category, employer, grants, groups, sites, assets>>
    /\ Changes

\* deleteCompanyUser and deleteCompany.
DropUser ==
    /\ \E u \in Users : employer[u] # None /\ employer' = [employer EXCEPT ![u] = None]
    /\ UNCHANGED <<companies, category, certified, grants, groups, sites, assets>>
    /\ Changes

\* createUserAccessGroup, updateUserAccessGroup and deleteCompanyUser.
Regrant ==
    /\ \E u \in Users, g \in Groups \cup {None} :
         /\ grants[u] # g
         /\ g # None => groups[g] # None /\ HomeOf[g] = HomeOf[u]
         /\ grants' = [grants EXCEPT ![u] = g]
    /\ UNCHANGED <<companies, category, certified, employer, groups, sites, assets>>
    /\ Changes

\* updateAccessGroup; deleteAccessgroup, which does not ask who holds the role.
EditGroup ==
    /\ \E g \in Groups, row \in Group \cup {None} :
         groups[g] \notin {None, row} /\ groups' = [groups EXCEPT ![g] = row]
    /\ UNCHANGED <<companies, category, certified, employer, grants, sites, assets>>
    /\ Changes

\* deleteFactory.
DropFactory ==
    /\ \E f \in Factories : sites[f] # None /\ sites' = [sites EXCEPT ![f] = None]
    /\ UNCHANGED <<companies, category, certified, employer, grants, groups, assets>>
    /\ Changes

\* updateAsset gives a row an owner and a factory; deleteAsset takes it away.
ChangeAsset ==
    /\ \E a \in Assets, row \in Asset \cup {None} :
         /\ assets[a] \notin {None, row}
         /\ row # None => row.maker = assets[a].maker /\ row.owner # None
         /\ assets' = [assets EXCEPT ![a] = row]
    /\ UNCHANGED <<companies, category, certified, employer, grants, groups, sites>>
    /\ Changes

Others ==
    DropCompany \/ MoveCategory \/ Recertify \/ DropUser \/ Regrant \/ EditGroup
    \/ DropFactory \/ ChangeAsset

Next ==
    \/ Start \/ StatementFails
    \/ Checks \/ CompanyReads \/ PeopleReads \/ AssetReads
    \/ Others

Spec == Init /\ [][Next]_vars

-----------------------------------------------------------------------------
(* Properties.                                                             *)

\* Whose grant was replaced meanwhile: the grant is read before the role it names,
\* and what is assembled of the two may never have been the case.
Regranted(u) == \E f, g \in ever : f[1] = "grant" /\ g[1] = "grant"
                                   /\ f[2] = u /\ g[2] = u /\ f # g

\* The companies whose own a fact is; none for what anybody may know.
OwnersOf(f) ==
    CASE f[1] = "record" -> {f[2]}
      [] f[1] \in {"user", "site"} -> {f[3]}
      [] f[1] \in {"role", "grant"} -> {HomeOf[f[2]]}
      [] f[1] = "group" -> {HomeOf[f[2]]}
      [] f[1] = "asset" -> {f[3].maker, f[3].owner}
      [] f[1] = "stands" -> {HomeOf[f[3]]}

Public == {"company", "category", "certified", "factory"}

\* "Full row for your own company, public profile for the other": whatever is
\* read and changes meanwhile, a fact that is a company's own is answered only to
\* it, and to a user who held the permission since the query arrived; and where a
\* machine stands, to its builder and owner.  getUserProfileContent,
\* getUserProductAccess and getIndexedData do not ask whose the user is.
PrivateFactsStayHome ==
    pc = "answered" /\ Kind \notin {"profile", "grant", "indexed"} =>
      \A f \in {f \in found : f[1] \notin Public} :
        /\ \/ \E c \in OwnersOf(f) : IsOwn(c)
           \/ Kind = "location" /\ \E g \in ever :
                g[1] = "asset" /\ g[3].site = f[2] /\ \E c \in OwnersOf(g) : IsOwn(c)
        /\ IsUser(Caller) => <<"reader", Caller.user>> \in ever \/ Regranted(Caller.user)

\* What each query is about: those of the facts F that it asks for.
About(F) ==
    LET Of(what, xs) == {f \in F : f[1] \in what /\ f[2] \in xs}
        There == {f[2] : f \in {f \in F : f[1] = "company"}}
        Profile(cs) == Of({"company", "category"}, cs \cap There)
        Row(cs) == Of({"record"}, cs \cap {Claims(Caller)})
                   \cup Profile(cs \ {Claims(Caller)})
        In(ks) == {f[2] : f \in {f \in F : f[1] = "category" /\ f[3] \in ks}}
        People(c) == {f \in F : f[1] = "user" /\ f[3] \in {c} \cap There}
        Roles(c) == Of({"role"}, {f[2] : f \in People(c)})
        Rows == {f \in F : f[1] = "asset" /\ (Kind \in {"made", "owned"} => Target \in There)}
    IN CASE Kind \in {"details", "record"} -> Row({Target})
         [] Kind = "roster" -> Profile({Target}) \cup
              (IF IsOwn(Target) THEN People(Target) \cup Roles(Target) ELSE {})
         [] Kind = "owners" -> Of({"company"}, {f[3].owner : f \in
              {f \in Rows : f[3].maker = Target /\ Target \in There}})
         [] Kind = "category" -> Of({"category"}, {Target} \cap There)
         [] Kind = "taken" -> Of({"company"}, {Target[1], Target[2]})
         [] Kind = "all" -> Profile(Companies) \cup Of({"certified"}, There)
         [] Kind \in {"listed", "page"} -> Profile(In({Target}))
         [] Kind = "both" -> Profile(In(Listed))
         [] Kind = "groups" ->
              {f \in F : f[1] = "group" /\ HomeOf[f[2]] \in {Target} \cap There}
         [] Kind = "group" -> Of({"group"}, {Target})
         [] Kind = "namedGroup" ->
              {f \in F : f[1] = "group" /\ HomeOf[f[2]] = Asked /\ f[3].name = Target[2]}
         [] Kind = "users" -> People(Target)
         [] Kind = "access" -> People(Target) \cup Roles(Target)
         [] Kind = "user" -> Of({"user"}, {Target})
         [] Kind = "profile" -> Of({"role"}, {u \in {AskedUser} : Asked \in There})
         [] Kind = "grant" -> Of({"grant"}, {Target})
         [] Kind = "indexed" -> Of({"company"}, {Asked}) \cup Of({"user", "role"}, {AskedUser})
              \cup Of({"category"}, {f[3] : f \in Of({"user"}, {AskedUser})})
         [] Kind = "factories" -> {f \in F : f[1] = "site" /\ f[3] = Target}
         [] Kind = "directory" -> Of({"factory"}, Factories)
         [] Kind = "factory" -> Of({"site"}, {Target})
         [] Kind = "factoryOwner" -> Row({f[3] : f \in Of({"site"}, {Target})})
         [] Kind = "factoryAssets" -> {f \in F : f[1] = "stands" /\ f[3] = Target
                                                    /\ Of({"site"}, {Target}) # {}}
         [] Kind = "made" -> {f \in Rows : f[3].maker = Target}
         [] Kind = "owned" -> {f \in Rows : f[3].owner = Target}
         [] Kind = "pair" -> {f \in Rows : f[3].maker = Asked /\ f[3].owner = Target[2]
                                           /\ {Asked, Target[2]} \subseteq There}
         [] Kind = "asset" -> Of({"asset"}, {Target})
         [] Kind = "maker" -> Row({f[3].maker : f \in Of({"asset"}, {Target})})
         [] Kind = "owner" -> Row({f[3].owner : f \in Of({"asset"}, {Target})})
         [] Kind = "location" -> Of({"site"}, {f[3].site : f \in Of({"asset"}, {Target})})

Torn(f) == f[1] = "role" /\ Regranted(f[2])

\* Every fact of an answer, the joined ones too, was true at some moment since the
\* query arrived, and is one it asks for; but the role of a user whose grant was
\* replaced meanwhile may be one it never held.
AnswersWereTrue ==
    pc = "answered" => \A f \in found : f \in About(ever) \/ Torn(f)

\* Whether what the query is asked about is the caller's own, all along.
Lasting(c) == <<"company", c>> \in always /\ IsOwn(c)
Entitled ==
    CASE Kind \in {"details", "record", "roster", "directory"} -> TRUE
      [] Kind \in {"owners", "groups", "namedGroup", "users", "access", "profile",
                   "made", "owned"} -> Lasting(Asked)
      [] Kind \in {"factories", "pair"} ->
           IsOwn(Asked) \/ (Kind = "pair" /\ IsOwn(Target[2]))
      [] Kind = "group" -> Lasting(HomeOf[Target])
      [] Kind \in {"user", "factory", "factoryOwner", "factoryAssets"} ->
           \E f \in always : f[1] \in {"user", "site"} /\ f[2] = Target /\ Lasting(f[3])
      [] Kind \in {"asset", "maker", "owner", "location"} ->
           \E f \in always : f[1] = "asset" /\ f[2] = Target
                             /\ \E c \in OwnersOf(f) : Lasting(c)

\* What getIndexedData needs to answer at all.
Complete ==
    /\ <<"company", Asked>> \in always
    /\ \E f, g, h \in always :
         /\ f[1] = "user" /\ f[2] = AskedUser
         /\ g[1] = "category" /\ g[2] = f[3]
         /\ h[1] = "grant" /\ h[2] = AskedUser /\ h[3] # None

\* What is true all along is answered: a caller who may ask is not refused, and no
\* fact that lasts is missing, however the reads fall between the changes.  Left
\* out are what depends on a grant that was replaced, what ICID fails to vouch
\* for, and the rows of other pages.
WhatLastsIsAnswered ==
    /\ pc = "refused" =>
         \/ IsUser(Caller) /\ (<<"reader", Caller.user>> \notin always
                               \/ Regranted(Caller.user))
         \/ ~Entitled
    /\ pc = "answered" /\ Kind \notin {"page", "namedGroup"}
         /\ (Kind = "indexed" => Complete) =>
       \A f \in About(always) :
         f \in found \/ Torn(f) \/ (f[1] = "certified" /\ seen.silent)
=============================================================================
