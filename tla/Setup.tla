-------------------------------- MODULE Setup --------------------------------
(***************************************************************************)
(* Installation and upgrade.  Every pod of the backend runs the migrations *)
(* that it finds unapplied before it starts, while other pods do the same, *)
(* and while pods that are up, of this release or an older one, serve      *)
(* POST /script and registrations.  Two migrations move data,              *)
(* MergeAssetsRetireProductRbac and SeedCompanyCategories; the five before *)
(* them make the tables and count as one.                                  *)
(*                                                                         *)
(* Nothing configures how TypeORM uses transactions.  The chart says that  *)
(* each migration has one, a usual default is one for all of a run; the    *)
(* model covers both.                                                      *)
(***************************************************************************)
EXTENDS Integers, FiniteSets, Sequences

CONSTANTS
    Pods,
    Scripts,      \* the calls of POST /script
    Companies,    \* those that register while this goes on
    Categories,   \* COMPANY_CATEGORY_NAMES, a sequence
    OldGrants,    \* user_product_access_groups of the older release: [id, user]
    OldTags,      \* its company_assets: [company, urn]
    NewTags,      \* those it writes while this goes on
    OldTwins,     \* its company_twins: [company, urn, owner]
    None,
    MaxFailures,  \* bound on deaths of pods
    MaxReverts    \* bound on migration:revert

Names == {Categories[i] : i \in DOMAIN Categories}

\* Each migration, and those that are older.
Earlier == [tables |-> {}, merge |-> {"tables"}, seed |-> {"tables", "merge"}]
Migrations == {"tables", "merge", "seed"}
Key(r) == <<r.company, r.urn>>

ASSUME SetupAssumption ==
    /\ Categories \in Seq(Names)
    /\ \A i, j \in DOMAIN Categories : Categories[i] = Categories[j] => i = j
    /\ MaxFailures \in Nat /\ MaxReverts \in Nat
    /\ None \notin Nat \cup Pods
    /\ Pods \cap Scripts = {} /\ Pods \cap Companies = {} /\ Scripts \cap Companies = {}
    /\ \A r \in OldTags \cup NewTags : r = [company |-> r.company, urn |-> r.urn]
    \* The owner of an asset is None where is_twin is false.
    /\ \A r \in OldTwins :
         r = [company |-> r.company, urn |-> r.urn, owner |-> r.owner] /\ r.owner # None
    /\ \A g \in OldGrants : g.id \in Nat
    /\ \A g, h \in OldGrants : g.id = h.id => g = h
    \* A constraint of company_twins says so.  company_assets has none: were a row
    \* there twice, the merge would fail on every pod.
    /\ \A r, s \in OldTwins : Key(r) = Key(s) => r = s

VARIABLES
    recorded,   \* the table migrations
    grants,     \* user_product_access_groups, later user_access_groups
    tags,       \* company_assets
    twins,      \* company_twins
    assets,     \* the table that replaces both
    categories, \* company_categories: [id, name]; a ctid grows as an _id does
    index,      \* whether the name has its unique index
    templates,  \* how often the access groups have been seeded
    mappings,   \* mappings[c]: the category of company c, by _id, or None
    fresh,      \* the last _id that was given
    pc,         \* the next step of a pod, a script or a registration
    pending,    \* pending[p]: the migrations that pod p found unapplied
    held,       \* held[x]: what x has read and not yet written
    apart,      \* whether each migration has a transaction of its own
    older,      \* whether pods of an older release have been in use, and still are
    failures, reverts,
    tagged,     \* history: the tags ever written
    late,       \* history: those written while a merge was under way
    doubled,    \* history: the categories that had an older row of their name
    undone      \* history: the categories that a revert has deleted

tables == <<grants, tags, twins, assets>>
reference == <<categories, index, templates, mappings, fresh>>
process == <<pc, pending, held>>
world == <<apart, older, failures, reverts>>
ghosts == <<tagged, late, doubled, undone>>
vars == <<recorded, tables, reference, process, world, ghosts>>

Actors == Pods \cup Scripts \cup Companies
Nothing == [ids |-> {}, tags |-> {}, done |-> {}]

\* Types; and pods and scripts that write categories side by side never give two
\* rows one _id.
TypeOK ==
    /\ recorded \subseteq Migrations
    /\ grants \subseteq OldGrants /\ tags \subseteq OldTags \cup NewTags /\ twins \subseteq OldTwins
    /\ \A r \in assets : DOMAIN r = {"company", "urn", "owner"}
    /\ categories \subseteq [id : Nat, name : Names]
    /\ \A r, s \in categories : r.id = s.id => r = s
    /\ index \in BOOLEAN /\ templates \in Nat /\ fresh \in Nat
    /\ mappings \in [Companies -> Nat \cup {None}]
    /\ pc \in [Actors -> {"list", "run", "copied", "deduped", "index", "insert", "up",
                          "idle", "seeding", "saving", "done", "failed"}]
    /\ pending \in [Pods -> SUBSET Migrations]
    /\ held \in [Actors -> [ids : SUBSET Nat, tags : SUBSET (OldTags \cup NewTags),
                           done : SUBSET {"tables", "merge"}]]
    /\ apart \in BOOLEAN /\ older \in BOOLEAN
    /\ failures \in 0 .. MaxFailures /\ reverts \in 0 .. MaxReverts
    /\ tagged \subseteq OldTags \cup NewTags /\ late \subseteq tagged
    /\ doubled \subseteq Nat /\ undone \subseteq Nat

Keys(rows) == {Key(r) : r \in rows}
Physical(rows) ==
    {[company |-> r.company, urn |-> r.urn, owner |-> None] : r \in rows}

\* Mutant of Merged: a row that is there already stays as it is.
Merged_DoNothing(physical, owned) ==
    Physical(physical) \cup {r \in owned : Key(r) \notin Keys(physical)}

\* ON CONFLICT DO UPDATE: "the twin fields win".
Merged(physical, owned) ==
    Physical({r \in physical : Key(r) \notin Keys(owned)}) \cup owned

\* The lowest _id of each user.
First(rows) == {g \in rows : \A h \in rows : h.user = g.user => g.id <= h.id}

\* A fresh database, or one that an older release has been using.
Init ==
    /\ apart \in BOOLEAN
    /\ recorded \in {{}, {"tables"}, {"tables", "merge"}}
    /\ older = (recorded # {})
    /\ LET merged == "merge" \in recorded IN
       /\ grants = CASE ~older -> {} [] merged -> First(OldGrants) [] OTHER -> OldGrants
       /\ tags = IF older /\ ~merged THEN OldTags ELSE {}
       /\ twins = IF older /\ ~merged THEN OldTwins ELSE {}
       /\ assets = IF merged THEN Merged(OldTags, OldTwins) ELSE {}
    /\ categories = {} /\ index = FALSE /\ templates = 0 /\ fresh = 0
    /\ mappings = [c \in Companies |-> None]
    /\ pc = [x \in Actors |-> IF x \in Pods THEN "list" ELSE "idle"]
    /\ pending = [p \in Pods |-> {}]
    /\ held = [x \in Actors |-> Nothing]
    /\ failures = 0 /\ reverts = 0
    /\ tagged = (IF older THEN OldTags ELSE {}) /\ late = {} /\ doubled = {} /\ undone = {}

Goto(x, l) == pc' = [pc EXCEPT ![x] = l]
Someone(ls) == \E p \in Pods : pc[p] \in ls

-----------------------------------------------------------------------------
(* The initContainer of a pod: npm run migration:run.                       *)

\* TypeORM compares its migrations with the table, once and for all.
List(p) ==
    /\ pc[p] = "list"
    /\ pending' = [pending EXCEPT ![p] = Migrations \ recorded]
    /\ Goto(p, "run")
    /\ UNCHANGED <<recorded, tables, reference, held, world, ghosts>>

\* The migration fails and the transaction is rolled back; kubelet runs the
\* container again.
Fail(p) ==
    /\ Goto(p, "list")
    /\ pending' = [pending EXCEPT ![p] = {}]
    /\ held' = [held EXCEPT ![p] = Nothing]
    /\ UNCHANGED <<recorded, tables, reference, ghosts>>

Dies(p) ==
    /\ failures < MaxFailures /\ pc[p] # "list"
    /\ failures' = failures + 1 /\ UNCHANGED <<apart, older, reverts>>
    /\ Fail(p)

\* They run in the order of their times.
Due(p, m) == pc[p] = "run" /\ m \in pending[p] /\ Earlier[m] \cap pending[p] = {}

Older(r) == {s \in categories : s.name = r.name /\ s.id < r.id}

\* Mutants of Doubles: nothing is deleted; every row of a name that is there twice.
Doubles_None == {}
Doubles_Both == {r.id : r \in {r \in categories :
                   \E s \in categories : s.name = r.name /\ s.id # r.id}}

Doubles == {r.id : r \in {r \in categories : Older(r) # {}}}

\* The rows that stay, as pod p sees them.
Kept(p) == {r \in categories : r.id \notin held[p].ids}

\* Mutant of NewRows: generateId is called once for all.
NewRows_OneId(names) == {[id |-> fresh + 1, name |-> n] : n \in names}

NewRows(names) ==
    {[id |-> fresh + i, name |-> Categories[i]] :
       i \in {i \in DOMAIN Categories : Categories[i] \in names}}

\* What pod p has done for the migrations ms becomes visible.
Commit(p, ms) ==
    LET missing == Names \ {r.name : r \in Kept(p)} IN
    /\ recorded' = recorded \cup ms
    /\ IF "merge" \in ms
         THEN /\ grants' = First(grants)
              /\ assets' = Merged(held[p].tags, twins)
              /\ tags' = {} /\ twins' = {}
         ELSE UNCHANGED tables
    /\ IF "seed" \in ms
         THEN /\ categories' = Kept(p) \cup NewRows(missing)
              /\ fresh' = IF missing = {} THEN fresh ELSE fresh + Len(Categories)
              /\ index' = TRUE
              /\ doubled' = doubled \cup {r.id : r \in {r \in categories : Older(r) # {}}}
         ELSE UNCHANGED <<categories, fresh, index, doubled>>
    /\ held' = [held EXCEPT ![p] = Nothing]

\* Migration m is through, and with it the transaction or not.
Through(p, m) ==
    /\ pending' = [pending EXCEPT ![p] = @ \ {m}]
    /\ Goto(p, "run")
    /\ IF apart \/ pending[p] = {m}
         THEN Commit(p, held[p].done \cup {m})
         ELSE /\ held' = [held EXCEPT ![p].done = @ \cup {m}]
              /\ UNCHANGED <<recorded, tables, categories, fresh, index, doubled>>
    /\ UNCHANGED <<templates, mappings, world, tagged, late, undone>>

\* An open transaction has done migration m, and holds its locks.
Locked(m) == \E q \in Pods : m \in held[q].done

\* CREATE TABLE waits for who creates the table, and fails where it exists.
CreateTables(p) ==
    /\ Due(p, "tables") /\ ~Locked("tables")
    /\ \/ "tables" \in recorded /\ Fail(p) /\ UNCHANGED world
       \/ "tables" \notin recorded /\ Through(p, "tables")

\* ALTER TABLE waits for the pod that has the table; there is nothing left to
\* alter once that has merged.  The rows of company_assets are copied; whoever
\* writes to it may still do so.
CopyAssets(p) ==
    /\ Due(p, "merge") /\ ~Someone({"copied"}) /\ ~Locked("merge")
    /\ \/ "merge" \in recorded /\ Fail(p) /\ UNCHANGED world
       \/ /\ "merge" \notin recorded
          /\ held' = [held EXCEPT ![p].tags = tags]
          /\ Goto(p, "copied")
          /\ UNCHANGED <<recorded, tables, reference, pending, world, ghosts>>

\* The twins are merged with what was copied, and both tables dropped.
Merge(p) == pc[p] = "copied" /\ Through(p, "merge")

\* DELETE; like any writer it waits for who indexes, or is waiting to.
Dedupe(p) ==
    /\ Due(p, "seed") /\ ~Someone({"index", "insert"})
    /\ held' = [held EXCEPT ![p].ids = Doubles]
    /\ Goto(p, "deduped")
    /\ UNCHANGED <<recorded, tables, reference, pending, world, ghosts>>

\* CREATE UNIQUE INDEX IF NOT EXISTS first asks for a lock on the table.
AskForIndex(p) ==
    /\ pc[p] = "deduped"
    /\ Goto(p, "index")
    /\ UNCHANGED <<recorded, tables, reference, pending, held, world, ghosts>>

HasIndex(p) == \A r, s \in Kept(p) : r.name = s.name => r = s

\* It gets the lock when no other pod has written, and fails where there are
\* two rows of a name again.
CreateIndex(p) ==
    /\ pc[p] = "index"
    /\ \A q \in Pods \ {p} : pc[q] \notin {"deduped", "index"}
    /\ \/ ~HasIndex(p) /\ Fail(p)
       \/ /\ HasIndex(p)
          /\ Goto(p, "insert")
          /\ UNCHANGED <<recorded, tables, reference, pending, held, ghosts>>
    /\ UNCHANGED world

\* Two that have written wait for one another; Postgres ends one.
Deadlock(p) ==
    /\ pc[p] = "index" /\ \E q \in Pods \ {p} : pc[q] = "index"
    /\ Fail(p) /\ UNCHANGED world

\* ON CONFLICT DO NOTHING.
InsertCategories(p) == pc[p] = "insert" /\ Through(p, "seed")

Start(p) ==
    /\ pc[p] = "run" /\ pending[p] = {}
    /\ Goto(p, "up")
    /\ UNCHANGED <<recorded, tables, reference, pending, held, world, ghosts>>

Pod(p) ==
    \/ List(p) \/ CreateTables(p) \/ CopyAssets(p) \/ Merge(p)
    \/ Dedupe(p) \/ AskForIndex(p) \/ CreateIndex(p) \/ Deadlock(p)
    \/ InsertCategories(p) \/ Start(p)

-----------------------------------------------------------------------------
(* migration:revert undoes the last migration that is recorded.             *)

\* "Companies already mapped to a seeded category would block the delete": the
\* tables have no foreign keys.
RevertSeed ==
    /\ "seed" \in recorded /\ ~Someone({"deduped", "index", "insert"})
    /\ recorded' = recorded \ {"seed"}
    /\ categories' = {r \in categories : r.name \notin Names}
    /\ undone' = undone \cup {r.id : r \in {r \in categories : r.name \in Names}}
    /\ index' = FALSE
    /\ UNCHANGED <<tables, templates, mappings, fresh, tagged, late, doubled>>

RevertMerge ==
    /\ "seed" \notin recorded /\ "merge" \in recorded
    /\ recorded' = recorded \ {"merge"}
    /\ tags' = {[company |-> r.company, urn |-> r.urn] :
                  r \in {r \in assets : r.owner = None}}
    /\ twins' = {r \in assets : r.owner # None}
    /\ assets' = {}
    /\ UNCHANGED <<grants, reference, ghosts>>

Revert ==
    /\ reverts < MaxReverts /\ reverts' = reverts + 1
    /\ RevertSeed \/ RevertMerge
    /\ UNCHANGED <<process, apart, older, failures>>

-----------------------------------------------------------------------------
(* What the pods that are up serve meanwhile.                               *)

Serving == "tables" \in recorded /\ (older \/ Someone({"up"}))

\* ScriptService.create saves the access groups and then the categories.
SaveTemplates(s) ==
    /\ pc[s] = "idle" /\ Serving
    /\ templates' = templates + 1
    /\ Goto(s, "seeding")
    /\ UNCHANGED <<recorded, tables, categories, index, mappings, fresh, pending, held,
                   world, ghosts>>

SaveCategories(s) ==
    LET clash == index /\ \E r \in categories : r.name \in Names IN
    /\ pc[s] = "seeding" /\ ~Someone({"index", "insert"})
    /\ categories' = IF clash THEN categories ELSE categories \cup NewRows(Names)
    /\ fresh' = IF clash THEN fresh ELSE fresh + Len(Categories)
    /\ Goto(s, IF clash THEN "failed" ELSE "done")
    /\ UNCHANGED <<recorded, tables, index, templates, mappings, pending, held, world,
                   ghosts>>

\* createCompany finds a category by its name, and saves what it found once
\* ICID and Keycloak have answered.
FindCategory(c) ==
    /\ pc[c] = "idle" /\ Serving
    /\ \E name \in Names :
         \/ /\ \A r \in categories : r.name # name
            /\ Goto(c, "failed") /\ UNCHANGED held
         \/ \E r \in categories : r.name = name
              /\ held' = [held EXCEPT ![c].ids = {r.id}]
              /\ Goto(c, "saving")
    /\ UNCHANGED <<recorded, tables, reference, pending, world, ghosts>>

SaveMapping(c) ==
    /\ pc[c] = "saving"
    /\ \E i \in held[c].ids : mappings' = [mappings EXCEPT ![c] = i]
    /\ held' = [held EXCEPT ![c] = Nothing]
    /\ Goto(c, "done")
    /\ UNCHANGED <<recorded, tables, categories, index, templates, fresh, pending, world,
                   ghosts>>

\* A pod of the older release tags an asset.
Tag ==
    /\ older /\ "merge" \notin recorded /\ ~Locked("merge")
    /\ \E r \in NewTags \ tags :
         /\ tags' = tags \cup {r}
         /\ tagged' = tagged \cup {r}
         /\ late' = IF Someone({"copied"}) THEN late \cup {r} ELSE late
    /\ UNCHANGED <<recorded, grants, twins, assets, reference, process, world, doubled,
                   undone>>

Requests ==
    \/ \E s \in Scripts : SaveTemplates(s) \/ SaveCategories(s)
    \/ \E c \in Companies : FindCategory(c) \/ SaveMapping(c)
    \/ Tag

Next ==
    \/ \E p \in Pods : Pod(p) \/ Dies(p)
    \/ Revert \/ Requests

Spec == Init /\ [][Next]_vars

\* kubelet restarts what fails, and Postgres grants locks and ends deadlocks.
FairSpec == Spec /\ \A p \in Pods : WF_vars(Pod(p))

-----------------------------------------------------------------------------
(* Properties.                                                             *)

\* Every pod, whatever it finds and however often it has to begin again, starts,
\* and on a database that has all the migrations unless one was reverted.
EveryPodStarts ==
    \A p \in Pods :
      pc[p] = "list" ~> pc[p] = "up" /\ (reverts > 0 \/ recorded = Migrations)

Old(rows) == IF older THEN rows ELSE {}
Stored == assets \cup twins \cup Physical(tags)

\* "Where the same (company, asset URN) existed in both source tables, the twin
\* fields win rather than being silently dropped", and a user keeps one grant:
\* through every migration and back, no asset is lost, none twice and no twin
\* changed, but for what pods of the older release tag during the merge.
UpgradesKeepWhatWasThere ==
    /\ Old(OldTwins) \subseteq Stored
    /\ Keys(tagged \ late) \subseteq Keys(Stored)
    /\ Keys(Stored) \subseteq Keys(tagged \cup OldTwins)
    /\ \A r, s \in assets : Key(r) = Key(s) => r = s
    /\ First(Old(OldGrants)) \subseteq grants
    /\ "merge" \in recorded => grants = First(Old(OldGrants))

\* "The constant stays the single definition": once seeded there is one row of
\* every category.  The row a company is mapped to is there, unless it was a second
\* row of its name, or a migration was reverted.
CategoriesAreKept ==
    /\ "seed" \in recorded =>
         /\ index
         /\ \A n \in Names : \E r \in categories : r.name = n
         /\ \A r, s \in categories : r.name = s.name => r = s
    /\ \A c \in Companies :
         \/ mappings[c] = None
         \/ \E r \in categories : r.id = mappings[c]
         \/ mappings[c] \in doubled \cup undone
=============================================================================
