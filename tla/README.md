# Formal models of the IFRIC registry service

This directory holds TLA+ models of `ifric-registry-service`, the TLC
configurations that check them and the TLAPS proofs of what matters most. Paths
are relative to `src/`; `company.service.ts` and the like stand for the file of
that name under `src/backend/src/endpoints/`.

Contents: 1 the system, 2 modules, 3 what is checked, 4 bounds, 5 fairness,
6 what is proved, 7 limits of the code that the models show, 8 abstractions,
9 what is not modelled, 10 plan.

## 1. The system

One NestJS process (or several replicas) serves HTTP requests. Each handler is an
`async` function: it runs alone on the event loop between two `await`s, and any
other request may run at every `await`. A handler reads and writes

- **Postgres** through TypeORM repositories, one statement at a time. Of the handlers
  only `createCompany` opens a transaction; the migrations run in some. Few tables have foreign keys; uniqueness
  (addresses, ids) is left to unique indexes.
- **Keycloak**, the identity provider: accounts, passwords and tokens, through the
  admin REST API. An account is *found by address* and then *changed by id*.
- **ICID**, an external service that mints ids (URNs) for companies and factories
  and issues and revokes certificates.
- **memory of the process**: the cached Keycloak admin token, the throttle of
  password recovery and a response cache in front of every GET.

No step spans two stores atomically. This is what makes the service hard: a
failure, a lost answer or a crash between two steps has to be undone by hand, by a
`catch` block that knows only local variables; and what a handler checked before an
`await` may be untrue after it.

| Component | State it keeps | Operations | Correct if |
|---|---|---|---|
| Company registration (`company.service.ts` 440–720) | companies, category mappings, roles, first user, its grant; Keycloak account; ICID id; the hook's external record | `createCompany` | a registration exists in all stores or in none; the clean-up never takes what belongs to somebody else; every request ends |
| User administration (`auth.service.ts`) | `company_users`, `user_access_groups`, accounts | `createCompanyUser`, `updateCompanyUser`, `updateUserAccessGroup`, `deleteCompanyUser` | rows, grants and accounts agree; no role or change crosses companies |
| Company deletion (`company.service.ts` 1759–1812) | all tables of a company | `deleteCompany` | nothing it is to delete remains |
| Asset registry (`asset.service.ts`) | `assets` | `createAsset`, `updateAsset`, `deleteAsset`, `deleteAssets` | only the company's own callers change an asset; the factory it names exists |
| Factory registry (`company.service.ts` 223–437) | `factories`, ids reserved at ICID | `createFactory`, `updateFactory`, `deleteFactory` | every factory with a minted id holds it; no id is reserved for nothing |
| Company records (`company.service.ts` 724–890, 1633–1755, 1815–1903) | company row, category, roles, gateways, servers | `updateCompany`, `addStatusDetail`, `createCompanyDevice`, `createAccessGroup`, `updateAccessGroup`, `deleteAccessgroup`, `deleteCompanyGateway`, `deleteCompanyServer` | only who has the permission changes a record; one category per company |
| Access control (`auth.guard.ts`, `access-control.service.ts`) | none; reads grants and roles | `AuthGuard`, `resolveClaims`, `assertCompanyMatch`, `assertPermission` | a decision is true of the time of the request |
| Response cache (`app.module.ts`) | responses by URL, 600 ms | global `CacheInterceptor` | an answer is no older than that |
| Connection pool (`app.module.ts`) | database connections | borrow, return | nobody waits for ever |
| Keycloak client (`keycloak.service.ts`) | cached admin token | `createUser`, `setEmail`, `setPassword`, `deleteUser`, `passwordGrant`, `refreshGrant`, `revoke`, … | never sends an expired token; acts on the account meant |
| Sessions and recovery (`auth.service.ts`) | throttle | `logIn`, `logOut`, `refreshAccessToken`, `updateUserPassword`, `recoverPassword`, `recoverPasswordRequest` | a password is changed only with proof of the old one; the throttle is exact |
| Certificates (`certificate.service.ts`) | `certificates`; ICID's issue and revocation | `generateCompanyCertificate`, `revealPrivateKey`, `deletePrivateKey`, `verifyCompanyCertificate`, `verifyAllCompanyCertificate` | verdicts are neither made up nor withheld; deleted keys stay hidden; only a failed request leaves a certificate that the table lacks |
| Directory (`public-company.service.ts`, the look-ups of all services) | none | 31 kinds of query: `getCompanyDetails`, `getCompanyUsersAccess`, `getAssetOwner`, … | what is a company's own is shown to it only; nothing is answered that was never true; what lasts is answered |
| Seed script and migrations (`src/backend/src/migrations/`, `script.service.ts`) | the table `migrations`, categories, tags and twins | `migration:run`, `migration:revert`, `POST /script` | no row is lost; a category has one row; every pod starts |
| Products, start-up, deployment | one table / configuration | | not modelled but for the pods that migrate, see 9 |

How they interact: the services share the tables and the pool directly; `auth`,
`company`, `asset` and `certificate` call `AccessControlService` before they act;
registration and user administration call the Keycloak client; registration,
factories and certificates call ICID; `getAllCompanies` calls the certificate
service and carries on without it; `deleteCompany` removes rows that every other
service relies on. There are no messages or events between components, except the
optional `CompanyRegistrationHook` that a deployment may bind and `createCompany`
awaits.

The hazards that follow from this are listed, each at its line, in `PROJECT.json`;
they fall into five groups: partial failure over several stores, interleaving of
handlers at their awaits, stale snapshots (rows, roles, tokens, responses),
waiting (unique keys, connections), and upgrades while the service runs.

## 2. Modules

One request is one element of `Ops` (`Requests` in Registration) with a program
counter (a pod that migrates is one, too; `Directory` has a single query): the value of `pc[o]` names the *next awaited call* of the handler, and one
action performs that call together with all the code up to the next `await`. So
every interleaving the event loop (or two replicas) can produce is a behaviour, and
no other. Local variables of the handler that survive an `await` are in `seen`
(`undo` in Registration); the arguments are in `call` or `form`.

| Module | Code | State ↔ code |
|---|---|---|
| `RegistrationAtomic` | the promise of `POST /company` | each registration happens in every store at once, or is refused and leaves only what a fault it met explains |
| `Registration` | `createCompany`, `KeycloakService.createUser`/`deleteUser`, the hook | `rows` = what the transaction wrote, `committed`, `identity` = who made the account of an address, `minted` = ICID, `external` = the hook's record, `undo` = the locals `temp_icid_company_id`, `keycloakUserEmail`, `registrationEvent`, `logged` = clean-ups left to a human; `spoiled` is history |
| `Accounts` | user administration, `deleteAccessgroup`, `deleteCompany` | `users`, `groups`, `grants`, `companies`, `belongings` = the tables; `account[u]` = address of u's Keycloak account |
| `AssetRegistry` | assets and factories, `deleteCompany`'s part | `assets`, `factories` = the tables, `icid` = ids ICID holds, `seen.temp` = `temp_icid_factory_id`; `raced` is history |
| `ConnectionPool` | `QueryRunner` of `createCompany`, repository queries | `runner`, `lent`, `queue` = the pool |
| `Certificates` | certificate service, `getAllCompanies`, and the response cache before its two GETs | `certificates`, `issued`, `revoked`, `now`, `cache`; `began` is history |
| `Credentials` | log-in, password change, recovery, admin token | `holder` = which user has an address, `adminToken`, `throttle`, `strands` = the two halves of a `Promise.all` |
| `CompanyRecords` | guard and permission checks, company records, response cache | `details`, `grants`, `groups`, `mappings`, `devices` = tables, `cache`; `replaced` and `history` are history |
| `Directory` | every query with its checks, `PublicCompanyService` | the tables as the queries see them, `todo` = the reads the handler has still to do, `seen` = its locals, `found` = its answer; `ever` and `always` are history |
| `Setup` | migrations, their reverts, `POST /script`, and what a serving pod writes meanwhile | `recorded` = the table `migrations`, `grants`, `tags`, `twins`, `assets`, `categories`, `mappings` = tables, `pending[p]` = what pod p found unapplied, `held` = what it has read or done and not committed |
| `Database_proofs` | — | theorems and proofs of `ConnectionPool` and of `Setup`, the two modules about the database itself; the former has its own names (`PoolSpec`, `PoolTypeOK`, …) so that one module can extend both |
| other `*_proofs` | — | theorems and proofs of the module before the underscore |
| `MC*` | — | instances for TLC |

The modules overlap where components meet. `Registration` has the other owners of
an address as the environment actions `UserCreatedElsewhere`/`UserDeletedElsewhere`;
`Accounts` starts from companies as `Registration` leaves them; `AssetRegistry` has
the statements of `deleteCompany` that touch assets, `CompanyRecords` those that
touch records; `CompanyRecords` has role changes (`Regrant`) as an environment
action that `Accounts` spells out, and `Credentials` has address changes
(`MoveAddress`). `Directory` has every write of the others as its world (`Others`), a
statement at a time. `Setup` makes the categories that `Registration` and `CompanyRecords` look up. Where a handler of another module appears in one step, the comment
at the action says which module has it in parts.

### Registration

`Receive … Commit` is the try block in the order of the code; `Rollback …
ReleaseIcid` the catch block. `NextUndo` is the chain of `if`s of the catch block.
A unique key is modelled as Postgres has it: an `INSERT` waits while another open
transaction has inserted the same key, and is refused once that one has committed
(`InsertCompany`). Faults: a statement fails; a remote call takes effect but its
answer is lost; the connection breaks at `COMMIT` or `ROLLBACK` (the unguarded
`rollbackTransaction`, `company.service.ts` 667–669); a clean-up call fails; the
process dies. The refinement mapping to `RegistrationAtomic`: what was asked is `form`, the
outcome is `Outcome` (registered once committed), the footprint is `Footprint` (the
stores in which rows, account, id or external record of the request are), `disturbed` is
`spoiled` (it met a fault that the catch block knows nothing of) and `reported` is `logged`.

### Accounts

Six endpoints, each as its sequence of statements and remote calls. Keycloak's
look-up and change are separate steps (`FindAccount`/`MoveAccount`,
`FindDoomed`/`DeleteAccount`, `FindMade`/`DeleteMade`). `HomeOf` is the
`company_ifric_id` claim that is stamped once when a user is made. With
`Overlap = FALSE`, requests that concern the same user or address do not run
together.

### AssetRegistry

`asset_ifric_id` is unique only within a company, so `LoadAsset` may find any row
of a URN; `UpdateAsset` writes by primary key, the deletions by URN, as in the
code. Factory ids are either brought along (`Locals`) or minted from owner and key
(`Minted`). `Throw` leads to `Release` exactly when this request minted. `raced`
holds the requests that saved an asset after the factory it names was counted empty or deleted.

### ConnectionPool

`createCompany` connects its `QueryRunner` and then performs two look-ups through
the repository, each on a second connection (`company.service.ts` 448–461). The pool is a library; it
is modelled from its use: first come, first served, no time limit (none is
configured).

### Certificates

A certificate is named by the request that made it. `Latest` is `ORDER BY
expiry_on DESC, created_on DESC`. `Batch` is one turn of verify-all's loop: the
selection of the rows, ICID's answer and the merge happen in one step, because
ICID's answer is the only await in it. (The code sends verify-all a `fieldId`,
`certificate.service.ts` 376, where the single check sends a `fileId`, 282; what ICID makes of
either is not in this repository, and the model takes both to name the certificate.) `began` remembers what was the case when a
question arrived; the properties compare answers with that. `revealPrivateKey` and
`getAllCompanies` are GETs, so their answers are cached (`Cached`, `Reply`), a degraded list
included; a key that was revealed before may be in the cache at the start.

### Credentials

Time is discrete; a request to Keycloak takes at most `RoundTrip`, and the token is
issued at the worst moment. `Promise.all([getAdminToken(), findUserIdByEmail()])`
is two strands that interleave; each may fetch a token and overwrite the cache. The
address is resolved three times — by our table, by the password grant and by the
admin look-up — while `MoveAddress` moves it.

### CompanyRecords

`Resolve` is `resolveClaims` for tokens of participants; `FindGrant` and
`FindGroup` are the two reads of `assertPermission`; then comes the handler's own
look-up and write. `Cached`, `ReadRow` and `Respond` are a GET behind the
interceptor. A past request (`AskedFor`) lets a behaviour start with a cached response; the run has none, the theorems any number. A version
of a company's row is the set of the updates it has seen. Roles have names: `FindName` is the look-up of
`createAccessGroup`, and a patch of `updateAccessGroup` changes the permissions or the name.

### Directory

Queries write nothing, so two of them cannot disturb each other: one query against a world
that changes between its reads is every case. `Plan` is the order of its reads and checks, one
per query; each read is an action that all queries that do it share. An answer is a set of
facts, `<<"user", u, c>>` for instance; `<<"record", c>>` is the full row of a company and
`<<"company", c>>` its public profile. `ever` and `always` are the facts true at some moment and at
all moments since the query arrived; what an answer should be is defined from them (`About`).

### Setup

`List … Start` is `migration:run` in the initContainer of a pod, which takes what is unapplied in the order of its times (`Earlier`, `Due`). What a transaction writes is
visible at `Commit`; `apart` says whether each migration has its own or all share
one, because nothing in the repository configures it. Locks are those of the statements:
`CREATE TABLE` and `ALTER TABLE` wait for each other (`Locked`), `CREATE UNIQUE INDEX` asks for a lock that
the deletions of another pod may hold (`AskForIndex`, `CreateIndex`, `Deadlock`). A database
is fresh, or an older release has been using it, before or after the merge (`Init`); then pods of
that release keep on writing (`Tag`). `Revert` is `migration:revert`; `Requests` are `POST /script` and
registrations that look a category up and save a mapping to it.

## 3. What is checked

The sets of requests are finite, so a behaviour ends when all are answered: TLC's
deadlock check is off in all configurations (`CHECK_DEADLOCK FALSE`), and a request
that hangs is what the liveness properties of Registration, ConnectionPool and Setup would report.

**registration_faults** — three registrations compete for two addresses, names and
numbers, under every fault. `CommittedIsWhole`: a committed company has all its
rows, its own Keycloak account and its ICID id, and no other user has its address.
`AtomicSpec`: every behaviour is one of `RegistrationAtomic`: registered everywhere at once, or refused
and leaving what its faults account for, never a row. ICID never re-issues an id here (`Reissue = FALSE`).
`CleanupIsOwn` ("we only delete what we made"): an account is removed only by the
endpoint that owns it or by the clean-up of the uncommitted request that made it.

**registration_settles** — two registrations of *one* address, with liveness.
`EveryRequestSettles`: a request that waits for another's uncommitted key is always
released, whatever fails, ids that are issued twice included.

**accounts_alone** — three calls of two companies, one at a time per user, with
failing statements, remote calls and clean-ups. `InSync`: at rest row and account agree
for every user on whom no call failed half-way. `GrantsHaveUsers`,
`DeletedCompanyLeavesNothing`, `FailedCreateLeavesNoAccount`, `CleanupIsOwn`, and
`AccountsStayInTenant`: an account changes only by a request from its company.

**accounts_races** — two calls of any kinds overlap, with a crash as well:
`GrantsStayInTenant`, a user never holds a role of another company.

**accounts_retry** (expected violation) — the comment at `auth.service.ts` 180–183
says that without the clean-up "creating it again fails with 'user already exists'"; `FailedCreateCanBeRetried`
states that after the clean-up it does not. TLC finds the counterexample: the grant
cannot be saved, the catch block deletes the account but not the row of
`company_users`, and the retry is answered "user already exists".

**assets_races** — three calls of two companies overlap under every fault.
`DanglingIsARace`: an asset names a factory that is gone only if its request ran between the check of the
one and the write of the other; no foreign key helps. `AssetsStayInTenant`: a company's asset is changed by its own
callers only, or is deleted by a `deleteAssets` that had not seen it (section 7). `MintedFactoriesHoldTheirId`: the release in the catch block
never takes an id that a factory uses; `IdsAreAccountedFor`: every id at ICID is that of
a factory once made or of a request at work, or its release failed, its answer was lost
or the process died.

**pool_shared** — three registrations and two endless readers share two
connections. `StandstillIsLookups`: if nobody can move, every connection is held by a
registration that waits for its second one. This standstill does occur in the model (and
in the code). `EveryWaitEnds` and `EveryRegistrationEnds`: while some connection is
not held by a `QueryRunner`, everybody who waits is served and every registration ends.
`ConnectionsAreExclusive`.

**certificates_overlap** — two requests overlap, over two certificates from before,
while time passes, ICID revokes and everything fails. `VerdictsAreBacked`: "certified"
is said only of a company with a certificate that was neither expired nor revoked when
the question arrived, or the earlier question did whose answer is still cached. `NoFalseAlarm`: "uncertified" only if some certificate has expired
or been revoked meanwhile. `DeletedKeysStayHidden`: after `deletePrivateKey` was
answered no later reveal shows a key that was there when it arrived, except from a response
cached less than the time to live ago. `OnlyFailuresAreUnknown`: ICID issues before the user is looked up and the row
saved (`certificate.service.ts` 104) and nothing is taken back; yet a certificate that only ICID knows is the work of
a request that failed or is still at it, and a request answered with success has its row.

**credentials_overlap** — two requests that log in, change a password or start a
recovery, while addresses move. `AdminTokenIsFresh`: no request reaches Keycloak with an
expired token. `PasswordChangeIsProven` and `LoginIsOnePerson`: proof and effect concern
one user, unless the address changed hands in between. `ThrottleIsExact`: admitted
requests of a key are at least a window apart and nobody is turned away otherwise.

**records_overlap** — two requests by a user whose role changes and by participants of
two companies. `ChangesAreEntitled`: a record changes only by a request of its company
that held the permission at some moment since it arrived (or whose own role was replaced meanwhile:
the grant is read before the role it names). `OneCategory`. `TwinsCrossed`: a company has two roles of
one name only if a patch gave one of them that name, or the look-up of one came before the other was saved. `OnlyLatecomersRemain`:
a deleted company leaves only what was saved while it was being deleted.
`AnswersAreRecent`: a cached answer was made by a request entitled to it, was true when
*that* request arrived, and is younger than the time to live.

**directory_overlap** — any query, by a user or a participant, while up to two writes of others fall between
its reads. `PrivateFactsStayHome`: a company's own facts are answered to it only, and to a user who held the
permission at some moment since the query arrived. `AnswersWereTrue`: every fact of an answer, the joined ones too,
was true at some moment meanwhile and is one the query asks for. `WhatLastsIsAnswered`: what is true all along is
not missing, and a caller who may ask all along is not refused. Their exceptions are named in the definitions: a grant that was
replaced between the reads, ICID out of reach, other pages, and three queries that do not ask whose the user is. `TypeOK`: no handler reads by a grant or a row that it has not found.

**setup_upgrade** — two pods migrate at once, die, deadlock and are restarted, while the seed script,
a registration and pods of an older release write, and one migration is reverted. `UpgradesKeepWhatWasThere`:
through the merge and back no asset is lost, none is there twice, no twin is changed and a user keeps one grant.
`CategoriesAreKept`: once seeded a category has one row, and the row that a company is mapped to is there unless it was
a double or a revert took it. `EveryPodStarts`: every pod comes up, on a database that has all the
migrations. This is what `deployment.yaml` 26–28 promises of "redundant runs across replicas". `TypeOK`: writers side by
side never give two categories one id.

Each property has a mutant in `PROJECT.json`, a plausible mistake in one definition,
that makes TLC report the property as violated; the mutated operators stand before the
definitions they replace.

## 4. Bounds and why they are enough

| Run | Bound | Why |
|---|---|---|
| registration_faults | 3 requests, 2 addresses, 2 names, 2 codes, every assignment of forms | a collision needs two; the third is the bystander whose account a wrong clean-up would take |
| registration_settles | 2 requests, 1 address, ids re-issued, no symmetry | liveness; two requests that wait for one key |
| accounts_alone | 2 companies, 3 addresses, 2 roles and an unknown one, 3 calls | create, change and delete one user in every order, another company looking on |
| accounts_races | the same, 2 overlapping calls of 6 kinds | a hazard here is between two handlers |
| assets_races | 2 companies, each its URN, 1 key, 3 overlapping calls | mint, mint again and release of one id while an asset is handled; both companies |
| pool_shared | 2 connections, 3 registrations, 2 readers | one registration more than connections: both the standstill and the room occur |
| certificates_overlap | 2 requests, 2 old certificates, 2 companies, clock 0–1, batch of 1, TTL 1, any keys revealed before | two batches, an expiry, a newer certificate, a revocation |
| credentials_overlap | 2 requests, 2 users, 3 addresses, clock 0–4, lifetime 4, margin 3, round trip 1, window 2 | a token can be fetched, reused and expire; three calls are what an admin request may take |
| records_overlap | 2 requests, 2 companies, 1 user, clock 0–1, TTL 1, one name of a role besides the defaults | a check and its use, a change in between, two roles of one name, a cached answer (one read after the other). A read, a write and a read from the cache would be three; `RecentAnswers` covers any number |
| directory_overlap | all 31 queries, 2 companies, 3 users, 3 roles (a reader and one who may not, and the other company's), 1 factory, 1 asset with builder, owner and site, 3 categories, `MaxChanges` = 2 | one change between two reads makes a join stale; the second undoes it or takes what the first left |
| setup_upgrade | 2 pods, 2 scripts, 1 registration, 2 categories, 3 grants of 2 users, an asset in both tables and one in each; `MaxFailures` = `MaxReverts` = 1; three kinds of database, both kinds of transaction | every lock is between two pods; two scripts make the doubles; a death and a revert fall anywhere |

Named bounds: `MaxTime` (clocks), `BatchSize` (one certificate per call of ICID's verify-all, so that
several batches happen) and `Lookups` (two, from the code). Symmetry is used over sets whose members
no definition tells apart, and only in runs without liveness. `Emails` of `Accounts` are not
symmetric (administrators have given ones) and neither is `None`.

## 5. Fairness

Safety runs use `Init /\ [][Next]_vars`. Three runs check liveness.

- `Registration!FairSpec`: weak fairness of `Answered(r) \/ Catch(r)` per request.
  The event loop resumes a handler whose call has answered, and the calls of the
  try and catch block have answers in this assumption. No fault is owed, and an
  insertion that waits for another transaction is *not enabled*, so it is not helped
  by fairness: that it ends is what is checked. `Receive` is not fair: nobody has to send requests.
- `ConnectionPool!PoolFairSpec`: the pool serves its queue while it has a connection,
  statements end, a registration goes on. Readers need not come back. That nobody
  waits for ever holds only under the premise `[]Room`, which is part of the property;
  the standstill of `StandstillIsLookups` shows that it cannot be dropped.
- `Setup!FairSpec`: weak fairness of `Pod(p)`: kubelet runs an initContainer that failed again, a
  statement that can go on does, and Postgres ends a deadlock. Deaths, reverts and requests are not
  owed. A lock that is not granted keeps the step disabled; that it is granted in the end is what is checked.

## 6. What is proved

All theorems hold for every value of the constants allowed by the named assumptions
(`RegistrationAssumption` …), in particular any number of requests, companies, users
and connections, any clock and every set of faults; a theorem that needs more says so in its statement. Every
invariant that a run checks is proved, of every module.

- **`Registration_proofs`** — `TypeCorrect`; `CommittedCompaniesAreWhole`
  (`Spec => []CommittedIsWhole`); `CleanupRemovesOwnAccounts` (`Spec => CleanupIsOwn`);
  `RegistrationIsAtomic` (`Spec => AtomicSpec`, the refinement).
  `CommittedIsWhole` is not inductive: nothing in it says that a clean-up cannot
  reach a committed company's account. `AccountInv` adds: the rows follow the program counter;
  an account that a request has in `undo` is its own; a request past a
  remote call that succeeded has the result in `undo`; users made elsewhere have accounts
  made elsewhere; a committed request is done. `UrnIsOwn` adds that an id that a
  request would release was last issued to it. With re-issued ids the release by one request takes the
  id of a committed company (section 7), so the hypothesis `~Reissue` of the two theorems that use it cannot be
  dropped; `CleanupRemovesOwnAccounts` needs no such hypothesis. `AtomicInv` for the refinement
  adds that keys are exclusive (`KeysAreExclusive`), that every piece in a store is one that `undo` remembers, unless
  the request is spoiled (`PiecesAreTracked`), and what the hook and the end of a request imply
  (`HookFollows`, `EndsFollow`). Every step is then shown to be one of `RegistrationAtomic` or a stutter.
- **`Accounts_proofs`** — `TypeCorrect`; `RolesStayInTenant`
  (`Spec => []GrantsStayInTenant`). The invariant `TenantInv` says in addition that a
  request about to write a grant holds a group of the right company, and that the home of
  a user with a grant is settled. Each endpoint is shown to stay inside a `Frame`,
  which says what a step does to requests, grants and the group it holds; the invariant
  follows from the frame, so that the case analysis over endpoints is done once.
  Six more need requests not to get in each other's way: `CleanupOfOwn`, `FailedCreateCleansUp`, `GrantsGoWithUsers`,
  `DeletionIsComplete`, `StoresAgree`, `AccountsStayHome`. Each has a premise in two halves. Either no two
  requests about the same user or address run together (`~Overlap`, any endpoints), or any requests
  overlap but certain endpoints are not among them (`Never`, any number of requests about anybody; the table
  in section 7, item 6). Both describe the traffic and are no guarantee of the code; item 6 shows that neither can be weakened.
  Crashes are covered, except by `FailedCreateCleansUp`, which says of
  a catch block that it ran (`"crash" \notin Faults`). Two lemmas describe every step once,
  `Route` (where it comes from) and `Moves` (what it writes). From them: `KindInv` (only its own endpoint
  reaches a step), `KeysInv` (an address has one row and one account), `TerritoryInv` (the users and addresses that
  requests are about stay disjoint, so that what one has read is still true when it writes), `CatchInv`, and a
  tower of which each needs the one below: `RowsInv` (what each step relies on), `GrantInv` (a grant has its row, or
  the deletion of its company is still at it or has failed), `BuriedInv` (a company without a row has nothing left),
  `SyncInv` (row and account agree except between the call of Keycloak and the write) and `HomesInv` (who
  changes an account has the home of its user). The second halves rest on other invariants, of which
  none speaks of who else is running: `Within` (only the endpoints in `Kinds` are called), `SettledInv` (without
  `updateUser` a user has one address for life), `CalmInv` (then, unless users are both created and deleted, what a request
  has found at an address is its own user's account, and what parts a row from its account is still under way),
  `ShrinkInv` and `ClearedInv` (where nothing is added, what a deletion has passed stays empty) and `KeptInv` (where
  nobody is deleted, a row and what was granted to it stay).
- **`AssetRegistry_proofs`** — `TypeCorrect`; `MintedIdsAreNotTakenAway`
  (`~Reissue => (Spec => []MintedFactoriesHoldTheirId)`), where `TempInv` ties the local
  `temp_icid_factory_id` to the program counter and `HeldInv` says that a held id is reserved,
  has no factory yet and is held by one request only; `OnlyRacesDangle`
  (`RaceInv`: a request past its look-up of a factory that is gone is in `raced`);
  `AssetsAreTheirCompanys`, under the premise that companies register URNs of their own
  (`RowInv`, `OwnInv`: what a request holds is its company's, by row or by URN); `NoIdIsLost`
  (`HoldingInv`: a request that minted holds the id until it is settled).
- **`CompanyRecords_proofs`** — `TypeCorrect`, of which the hard part is that a handler never updates a row
  that is not there (`KindsAt`, `InPlace`); `OnlyEntitledChange`. `EntitledInv` carries
  the permission from the check to the write: rows stay with their company (`RowsStay`), a request past
  `assertCompanyMatch` is bound to its company (`IsBound`), and one past `findGroup` was permitted, or
  regranted, at some moment since it arrived (`IsPermitted`). On it stand four that relate a table to its history:
  `CategoryIsOne` (`CategoryInv`: who saves a category without having found one does so after a deletion took it),
  `LatecomersOnly` (`LateInv`: a table that a deletion has come past holds only rows of requests it overtook),
  `TwinsOnlyCrossed` (`TwinsInv`: a name that is taken when a role is saved was taken after the look-up) and
  `RecentAnswers` (`AnswersInv`: every response, given or cached, was made by an entitled request from a version
  that was not replaced before that request arrived). The last holds for requests made before the run as well, with
  any number of writes between.
- **`Directory_proofs`** — all 31 queries, any number of changes between their reads. `TypesStay`,
  `NothingLeaks` (`PrivateFactsStayHome`) and `NothingMadeUp` (`AnswersWereTrue`) follow from `DirInv`, whose part
  `Sound` records of each step that is done what it has learnt: `Shape` and `Ready` (what is left of the plan, and
  that no read goes by what was not found), `Known` (what the query holds was so at some moment), `Granted` (whose
  grants it holds), `Barred` (what the checks asked), `Secret` (whose own the facts found are, or which check is still
  ahead) and `True` (each fact was true and is asked for). Nothing in it speaks of the present, so no
  change to the tables can break it. `NothingMissing` (`WhatLastsIsAnswered`) needs the opposite, `LastInv`:
  `Covers`, a read that is done has missed nothing that lasts; `Owing`, each lasting fact that is asked for is found,
  need not be answered, or is due from a step still ahead; `Denied`, who is refused had no right that
  lasted. A change only makes less last; at the end nothing is ahead, so all that is owed has been found.
- **`Credentials_proofs`** — `TypeCorrect`; `TokensOutliveRequests`, from the assumption
  `3 * RoundTrip <= Margin`: what is cached outlives two more calls (`CacheHasRoom`), and what a strand or
  a `PUT` holds has room for the calls it has left (`StrandIsTimely`, `PutOutlives`); `LoginsAreOnePersons` and
  `ChangesAreProven`, from one invariant that says who each look-up found while the address did not move
  (`WhoInv`); `TheThrottleIsExact` (`ThrottleInv`).
- **`Certificates_proofs`** — `TypeCorrect`; `VerdictsHold`: what a request has read was so at or after
  its arrival, and what is cached was answered to such a request (`SourceInv`, `BackInv`); `NoneIsOverlooked`:
  conversely, a company still `Pending` in the loop over the batches has a certificate that is selected in a batch to
  come, and one that was `Heard` of as bad is bad (`AlarmInv`; that there is a latest certificate of
  a finite set is shown by a well-founded order); `KeysStayDeleted`: a deletion that was answered blanked the row
  that was latest when it looked (`HiddenInv`); `NoneIsLost`: between the issue at ICID and the row in the table a
  request can only fail or go on (`SettledInv`).
- **`Database_proofs`, the pool** — `PoolTypeCorrect`; `OnlyLookupsCanBlock`
  (`PoolSpec => []StandstillIsLookups`); `MoreConnectionsThanRegistrations`: with more
  connections than registrations at once there is no standstill, by counting the image of `runner`;
  `ConnectionsAreNotShared`.
- **`Database_proofs`, the migrations** — for any number of pods, scripts and registrations, any tables of the older
  release, any number of deaths and reverts, and both ways to use transactions. `SetupTypeCorrect`, from `Typed`: no
  `_id` is above `fresh`, rows of `assets` come from the tables that were merged, and a pod that seeds has nothing
  else left to do. `UpgradesKeep` (`Spec => []UpgradesKeepWhatWasThere`), which is not inductive: it speaks of tables
  that everybody sees, and a merge is decided while its pod is at work unseen. `UpgradeInv` says what each table has while
  the merge is not recorded (`Before`) and when it is (`After`), and of the pod in between (`MergesAreWhole`) that it
  is the only one, and that the tags it has copied, with the twins, have every asset but those tagged since.
  Two facts about the merge itself carry the step: `MergedKeeps` (what `ON CONFLICT DO UPDATE` makes of two tables)
  and `FirstTwice` (merging the grants once more, after a revert, changes nothing). `CategoriesKept`
  (`Spec => []CategoriesAreKept`), from `SeedInv`: what a pod will delete has an older row of its name, however many
  scripts write; a pod that has its index is the only one that seeds, and sees one row of a name; an `_id` that a
  registration holds is a row, a double or undone. The assumption on the tables of the older release says what its
  constraints say: unique keys in `company_twins`, unique ids of grants, and twins with an owner.

Out of the prover's reach and left to TLC: liveness and `ENABLED`, hence
`EveryRequestSettles`, `EveryWaitEnds`, `EveryRegistrationEnds` and `EveryPodStarts`; induction over data.
No module declares a RECURSIVE operator. `FailedCreateCanBeRetried` is false, which TLC shows.

## 7. Limits of the code that the models show

Each of these was seen as a counterexample while the properties were found, and is the
reason for a premise of a property or a fault left out of a run. Only the first
contradicts what the code says of itself and is a listed finding.

1. *Creating a user again* fails after a failed create (`accounts_retry`, above).
2. *Lost reply of `createUser`* (`company.service.ts` 590): the account exists but
   `keycloakUserEmail` is null, so the clean-up skips it and the address is taken.
   `RegistrationAtomic` allows such a leftover only to a request that met this fault (`disturbed`).
3. *Everybody waits for a connection*: as many registrations as the pool has
   connections, all before their look-ups, stop the whole process.
4. *Factory deleted under an asset*: `createAsset` looks the factory up, `deleteFactory`
   counts no asset and deletes (`company.service.ts` 405), `createAsset` saves. The repository's `README.md` 168–170
   promises a 409 while an asset references the factory. `DanglingIsARace` says that this window is the only one.
5. *ICID re-issues an id*: a second registration of a code that ICID answers with the
   same URN fails at the unique key and then releases the URN of the company that has it
   (`company.service.ts` 223, 323–325 for factories). Hence `~Reissue`.
6. *Clean-up by address* (`auth.service.ts` 135–137, 187): under overlap the address may
   belong to another account when the clean-up looks it up. With `Overlap = TRUE` six
   properties break, each by certain endpoints:

   | property | breaks as soon as these overlap |
   |---|---|
   | `InSync`, `AccountsStayInTenant` | two `updateUser`; or `createUser` and `deleteUser` |
   | `FailedCreateLeavesNoAccount` | `createUser` and `updateUser` (no crash needed: the account moves away before the clean-up looks for it) |
   | `CleanupIsOwn` | `createUser` and `updateUser`, or `createUser` and `deleteUser` (the address is given to another) |
   | `GrantsHaveUsers` | `createUser` or `updateRole`, and `deleteUser` or `deleteCompany` |
   | `DeletedCompanyLeavesNothing` | `createUser` or `updateRole`, and `deleteCompany` |

   TLC finds a counterexample for each entry (up to three calls; two companies for `AccountsStayInTenant`). For every
   set of endpoints that has none of a property's entries in it the theorems of section 6 prove that property,
   except where it then speaks of no request at all (the clean-up without `createUser`, the deletion without
   `deleteCompany`). `GrantsStayInTenant` holds whatever overlaps (`RolesStayInTenant`).
7. *`deleteCompany` repeated*: if it fails after the users are deleted, the next attempt
   does not find the users whose grants it should delete (`company.service.ts` 1775–1799).
8. *The owner's new address*: Keycloak is changed before the tables; when
   `companies.email` refuses, account and row differ (`auth.service.ts` 854–860).
9. *Assets by URN*: `deleteAsset` deletes by URN what it checked by one row
   (`asset.service.ts` 267), and URNs are unique per company only
   (`asset.entity.ts` 27). The models let a company register its own URNs.
10. *An unknown role* makes a user without one (`auth.service.ts` 164).
11. *Responses by URL*: a response is served to whoever asks for that URL within 600 ms,
    without the handler's checks; `docs/keycloak-setup.md` 289–293 says that a role change
    takes effect on the next request. A slow handler may also store a response that was
    overtaken while it ran. `AnswersAreRecent` says what is left. The same cache shows a private
    key for up to 600 ms after `deletePrivateKey` was answered, if it was revealed just before.
12. *Names of roles* are looked up and saved in two steps and may be changed without a
    look-up, so two roles of one name are possible. `TwinsCrossed` says in which two ways.
13. `deleteCompany` leaves the factories, certificates, Keycloak accounts and the ICID id;
    `deleteFactory` never releases the id; a certificate that ICID issued before the user's
    look-up or the save failed stays issued; a row-less `deleteCompanyUser` runs its
    deletes unchecked (`auth.service.ts` 946–947).
14. `PATCH` of an asset without `factory_id` does not detach it (`asset.service.ts`
    213–233), although the repository's `README.md` 168–170 says "a different/no `factory_id`".
15. `updateCompany` is half-written when its second statement fails: the category is
    changed before the row.
16. `deleteAssets` checks the owners of the rows it finds and deletes by URN: a row saved in between is
    deleted unchecked. The comment at `asset.service.ts` 281–284 says that "every one must belong to the
    caller's own company, or the whole call is rejected". `AssetsStayInTenant` names the window.
17. *Reverting the seed of categories*: `1787000000000-SeedCompanyCategories.ts` 66–70 says that a mapping
    blocks the deletion by its foreign key. No migration makes that key; `CategoriesAreKept` excepts the rows that a revert took.
18. *`POST /script` after the migration that seeds*: the categories are there, so every call saves the access groups
    once more and then fails at the unique index. The repository's `README.md` 138 lists it as "Seed once".
19. *One transaction per migration* is what `deployment.yaml` 26–28 counts on; no option in the
    repository asks for it. The model has both kinds of transaction.
20. *The merge of assets*: `company_assets` has no unique key, so a pair that is there twice makes the merge
    fail on every pod; the database at the start of the runs has none. Rows that a pod of the older release
    writes while the merge runs are lost (`late`).
21. *Removal of doubled categories* deletes the younger rows and leaves the mappings to them (`doubled`).
22. *Joins made by hand*: a query reads a grant and then the role it names; a role given in between makes an answer that was never
    true (`Torn`). Three queries (`getUserProfileContent`, `getUserProductAccess`, `getIndexedData`) do not ask
    whose the user is, and pages have no order.

## 8. Abstractions

- Addresses, names, ids, roles and passwords are model values; what they look like is not
  modelled. Rows keep the columns that a property needs.
- A check that the model has no state for (country known, category known)
  may go either way.
- `assertPermission` is modelled in full in `CompanyRecords`; `Accounts` evaluates it in one
  step and `AssetRegistry` lets it refuse at will (`PermissionDenied`).
- A participant of the data space stands for its company; signatures are taken for granted.
- `created_on` stamps are distinct. Two rows saved in the same microsecond are not ordered
  by the code either.
- In `Credentials` all passwords are equal at first, so that what proves one user proves
  any other; time passes only while a token, a throttle or a call is timed; the strand of a `Promise.all` that
  is abandoned because the other one failed is dropped, with the token it might still have cached;
  `passwordGrant` opens a Keycloak session that nobody closes, and sessions are not modelled.
- The throttle and the admin token are memory of one process; the models have one process
  there. With several replicas each has its own throttle.
- Passing of time in `CompanyRecords` stops when nothing is cached and nobody will ask.
- In `Certificates` and `CompanyRecords` the death of the process is a request that takes no
  more steps, since no catch block would have run.

- In `Directory` the rows of a query are one statement's: what the database returns was true at one moment. Orders of answers are left out.
- In `Setup` the first five migrations count as one, and a database is what one release left: no hand-made rows.

## 9. Not modelled

- `logOut`, `refreshAccessToken` and the client's `refreshGrant` and `revoke`: no state here; Keycloak decides.
- Of the queries: `getTotalUsers`, `checkCompanyAdmin`, `getAssetCount`, `getAssetCountByCompany` and
  `getCompanyCategories`, each one statement that nothing else depends on; the arithmetic of pages;
  `getCompanyCertificate`.
- Products: two reads of one table. The script of example products: one save.
- The back-fill of Keycloak attributes: run by hand, once, alone; `setAttributes` with it.
- Reading of the environment, TLS and start-up: configuration and pure I/O. Charts and compose files
  but for the initContainer that migrates.
- Eviction of the response cache at its size limit (one million entries).
- `updateLatestCompanyCertificateExpiry`: nothing calls it.
- Uploads and the contents of `meta_data`, images and profiles.

## 10. Plan

Order of the work: registration (several stores, the most dangerous handler), the users it
leaves behind, assets and factories, the pool that all share, certificates, credentials,
records and access control, the queries, the migrations. All of these have a module, runs and
proofs. Left:

1. *Prove.* Liveness and data induction, should the prover come to reach them (section 6).
2. *Abstract specifications.* A registry that makes a user or deletes a company in one step,
   implemented by `Accounts` where nothing fails; an id service for `AssetRegistry`.
3. *Model.* Sessions (`logIn`, `refreshAccessToken`, `logOut`) if the service ever keeps state about them.
