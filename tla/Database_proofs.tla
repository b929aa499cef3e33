--------------------------- MODULE Database_proofs ---------------------------
(***************************************************************************)
(* Proofs about the database itself, by way of the two modules that model  *)
(* it: ConnectionPool, for a pool and a number of requests of any size;    *)
(* Setup, for any number of pods, scripts and registrations, whatever the  *)
(* older release has left, any number of deaths and of reverts.            *)
(*                                                                         *)
(* The pool: HoldersInv says of a connection what its holder is doing, so  *)
(* that at a standstill every holder can only be a registration in the     *)
(* middle of its look-ups.                                                 *)
(*                                                                         *)
(* The merge of the assets, UpgradeInv: either its migration is not        *)
(* recorded and the tables are the older release's, or it is and the new   *)
(* table holds what these had.  In between one pod at most has copied the  *)
(* tags, and what it has read has every asset but those tagged since:       *)
(* nobody merges beside it, as ALTER TABLE waits, and nobody reverts what  *)
(* is not recorded.                                                        *)
(*                                                                         *)
(* The seed of the categories, SeedInv: a pod takes for doubles only rows  *)
(* that have an older one of their name, and from CREATE INDEX on it is    *)
(* alone, so that what it commits has one row of each name.  No _id gets   *)
(* lost on the way: each is a row, or was a double, or was undone.         *)
(***************************************************************************)
EXTENDS ConnectionPool, Setup, FiniteSetTheorems, TLAPS

-----------------------------------------------------------------------------
(* The pool.                                                               *)

LEMMA PoolTypeInit == PoolInit => PoolTypeOK
BY ConnectionPoolAssumption DEF PoolInit, PoolTypeOK, Clients, Lookups

LEMMA PoolTypeNext == PoolTypeOK /\ [PoolNext]_poolVars => PoolTypeOK'
<1> SUFFICES ASSUME PoolTypeOK, [PoolNext]_poolVars PROVE PoolTypeOK'
    OBVIOUS
<1> USE DEF PoolTypeOK, Clients, Lookups
<1>1. CASE Grant
    <2>1. Head(queue) \in Clients /\ Tail(queue) \in Seq(Clients)
        BY <1>1 DEF Grant
    <2>2. QED
        BY <1>1, <2>1 DEF Grant, Free, GoOn
<1>2. ASSUME NEW r \in Registrations, Connect(r) PROVE PoolTypeOK'
    BY <1>2 DEF Connect, Ask, GoOn
<1>3. ASSUME NEW r \in Registrations, Register(r) PROVE PoolTypeOK'
    <2>1. CASE Lookup(r) BY <2>1 DEF Lookup, Ask, GoOn
    <2>2. CASE Transact(r) BY <2>2 DEF Transact, GoOn
    <2>3. CASE Release(r) BY <2>3 DEF Release, GoOn
    <2>4. CASE QueryEnds(r) BY <2>4 DEF QueryEnds, GoOn
    <2>5. QED BY <1>3, <2>1, <2>2, <2>3, <2>4 DEF Register
<1>4. ASSUME NEW c \in Readers, Query(c) PROVE PoolTypeOK'
    BY <1>4 DEF Query, Ask, GoOn
<1>5. ASSUME NEW c \in Readers, QueryEnds(c) PROVE PoolTypeOK'
    BY <1>5 DEF QueryEnds, GoOn
<1>6. CASE UNCHANGED poolVars BY <1>6 DEF poolVars
<1>7. QED BY <1>1, <1>2, <1>3, <1>4, <1>5, <1>6 DEF PoolNext

\* Every variable keeps its type, in every behaviour of the pool.
THEOREM PoolTypeCorrect == PoolSpec => []PoolTypeOK
<1>1. QED BY PoolTypeInit, PoolTypeNext, PTL DEF PoolSpec

-----------------------------------------------------------------------------
\* Where a connection is held tells what its holder is doing: one that is lent
\* serves a statement that runs, a QueryRunner has one between its connect and
\* its release.
HoldersInv ==
    /\ PoolTypeOK
    /\ \A c \in Clients : lent[c] # NoConnection => step[c] = "query"
    /\ \A r \in Registrations :
         runner[r] # NoConnection => step[r] \notin {"idle", "connect", "done"}

LEMMA HoldersInit == PoolInit => HoldersInv
BY PoolTypeInit DEF PoolInit, HoldersInv, Clients

LEMMA HoldersNext == HoldersInv /\ [PoolNext]_poolVars => HoldersInv'
<1> SUFFICES ASSUME HoldersInv, [PoolNext]_poolVars PROVE HoldersInv'
    OBVIOUS
<1>0. PoolTypeOK /\ PoolTypeOK'
    BY PoolTypeNext DEF HoldersInv
<1> USE <1>0 DEF HoldersInv, PoolTypeOK, Clients
<1>1. CASE Grant
    <2>1. Head(queue) \in Clients
        BY <1>1 DEF Grant
    <2>2. QED
        BY <1>1, <2>1, ConnectionPoolAssumption DEF Grant, Free, GoOn
<1>2. ASSUME NEW r \in Registrations, Connect(r) PROVE HoldersInv'
    BY <1>2 DEF Connect, Ask, GoOn
<1>3. ASSUME NEW r \in Registrations, Register(r) PROVE HoldersInv'
    <2>1. CASE Lookup(r) BY <2>1 DEF Lookup, Ask, GoOn
    <2>2. CASE Transact(r) BY <2>2 DEF Transact, GoOn
    <2>3. CASE Release(r) BY <2>3 DEF Release, GoOn
    <2>4. CASE QueryEnds(r)
        BY <2>4, ConnectionPoolAssumption DEF QueryEnds, GoOn
    <2>5. QED BY <1>3, <2>1, <2>2, <2>3, <2>4 DEF Register
<1>4. ASSUME NEW c \in Readers, Query(c) PROVE HoldersInv'
    BY <1>4, ConnectionPoolAssumption DEF Query, Ask, GoOn
<1>5. ASSUME NEW c \in Readers, QueryEnds(c) PROVE HoldersInv'
    BY <1>5, ConnectionPoolAssumption DEF QueryEnds, GoOn
<1>6. CASE UNCHANGED poolVars BY <1>6 DEF poolVars
<1>7. QED BY <1>1, <1>2, <1>3, <1>4, <1>5, <1>6 DEF PoolNext

LEMMA StandstillHolders == HoldersInv => StandstillIsLookups
<1> SUFFICES ASSUME HoldersInv, Standstill, NEW k \in Connections
             PROVE  \E r \in Registrations : runner[r] = k /\ step[r] = "wait"
    BY DEF StandstillIsLookups
<1> USE DEF HoldersInv, PoolTypeOK, Standstill, Clients
<1>1. k # NoConnection
    BY ConnectionPoolAssumption
<1>2. k \in Held
    BY DEF Free
<1>3. \A c \in Clients : lent[c] # k
    BY <1>1 DEF Waiting
<1>4. PICK r \in Registrations : runner[r] = k
    BY <1>2, <1>3 DEF Held
<1>5. step[r] = "wait"
    BY <1>1, <1>4 DEF Waiting
<1>6. QED BY <1>4, <1>5

\* Whenever the process stands still, every connection is held by a createCompany
\* that waits for a second one to look something up.
THEOREM OnlyLookupsCanBlock == PoolSpec => []StandstillIsLookups
<1>1. QED BY HoldersInit, HoldersNext, StandstillHolders, PTL DEF PoolSpec

\* Somebody can always move.
NoStandstill == ~Standstill

\* As many connections held for look-ups as there are connections means at least
\* as many registrations.
LEMMA FewRegistrations ==
    ASSUME Cardinality(Registrations) < Cardinality(Connections)
    PROVE  HoldersInv => NoStandstill
<1> SUFFICES ASSUME HoldersInv, Standstill PROVE FALSE
    BY DEF NoStandstill
<1> DEFINE S == {r \in Registrations : runner[r] \in Connections}
           f == [r \in S |-> runner[r]]
<1>1. IsFiniteSet(S) /\ Cardinality(S) <= Cardinality(Registrations)
    BY FS_Subset, ConnectionPoolAssumption
<1>2. f \in Surjection(S, Connections)
    BY StandstillHolders DEF StandstillIsLookups, Surjection
<1>3. Cardinality(Connections) <= Cardinality(S)
    BY <1>1, <1>2, FS_Surjection DEF ExistsSurjection
<1>4. /\ Cardinality(S) \in Nat
      /\ Cardinality(Registrations) \in Nat
      /\ Cardinality(Connections) \in Nat
    BY <1>1, FS_CardinalityType, ConnectionPoolAssumption
<1>5. QED BY <1>1, <1>3, <1>4

\* A pool with more connections than concurrent registrations never stands still.
THEOREM MoreConnectionsThanRegistrations ==
    ASSUME Cardinality(Registrations) < Cardinality(Connections)
    PROVE  PoolSpec => []NoStandstill
<1>1. HoldersInv => NoStandstill
    BY FewRegistrations
<1>2. QED BY <1>1, HoldersInit, HoldersNext, PTL DEF PoolSpec

-----------------------------------------------------------------------------
\* A connection has one holder.
ExclusiveInv == HoldersInv /\ ConnectionsAreExclusive

LEMMA ExclusiveInit == PoolInit => ExclusiveInv
BY HoldersInit DEF PoolInit, ExclusiveInv, ConnectionsAreExclusive, Clients

\* Giving a connection back leaves the others as they are.
LEMMA GivenBack ==
    ASSUME ExclusiveInv,
           \A r \in Registrations : runner'[r] \in {runner[r], NoConnection},
           \A c \in Clients : lent'[c] \in {lent[c], NoConnection}
    PROVE  ConnectionsAreExclusive'
BY DEF ExclusiveInv, ConnectionsAreExclusive

LEMMA ExclusiveNext == ExclusiveInv /\ [PoolNext]_poolVars => ExclusiveInv'
<1> SUFFICES ASSUME ExclusiveInv, [PoolNext]_poolVars PROVE ConnectionsAreExclusive'
    BY HoldersNext DEF ExclusiveInv
<1>0. PoolTypeOK
    BY DEF ExclusiveInv, HoldersInv
<1> USE <1>0 DEF PoolTypeOK
<1>1. CASE Grant
    <2> DEFINE c == Head(queue)
    <2>1. c \in Clients
        BY <1>1 DEF Grant
    <2>2. PICK k \in Free :
            \/ runner' = [runner EXCEPT ![c] = k] /\ UNCHANGED lent
            \/ lent' = [lent EXCEPT ![c] = k] /\ UNCHANGED runner
        BY <1>1 DEF Grant
    <2>3. /\ \A r \in Registrations : runner[r] # k
          /\ \A d \in Clients : lent[d] # k
        BY DEF Free, Held
    <2> HIDE DEF c
    <2>4. CASE runner' = [runner EXCEPT ![c] = k] /\ UNCHANGED lent
        BY <2>3, <2>4 DEF ExclusiveInv, ConnectionsAreExclusive
    <2>5. CASE lent' = [lent EXCEPT ![c] = k] /\ UNCHANGED runner
        BY <2>1, <2>3, <2>5 DEF ExclusiveInv, ConnectionsAreExclusive
    <2> QED  BY <2>2, <2>4, <2>5
<1>2. ASSUME NEW r \in Registrations, Connect(r) \/ Lookup(r) \/ Transact(r)
      PROVE  ConnectionsAreExclusive'
    BY <1>2, GivenBack DEF Connect, Lookup, Transact
<1>3. ASSUME NEW r \in Registrations, Release(r)
      PROVE  ConnectionsAreExclusive'
    BY <1>3, GivenBack DEF Release
<1>4. ASSUME NEW c \in Clients, QueryEnds(c)
      PROVE  ConnectionsAreExclusive'
    BY <1>4, GivenBack DEF QueryEnds
<1>5. ASSUME NEW c \in Readers, Query(c)
      PROVE  ConnectionsAreExclusive'
    BY <1>5, GivenBack DEF Query
<1>6. CASE UNCHANGED poolVars
    BY <1>6, GivenBack DEF poolVars
<1> QED
    BY <1>1, <1>2, <1>3, <1>4, <1>5, <1>6 DEF PoolNext, Register, Clients

\* pg.Pool: however it serves its queue, and whoever fails, two purposes never
\* share a connection.
THEOREM ConnectionsAreNotShared == PoolSpec => []ConnectionsAreExclusive
<1>1. ExclusiveInv => ConnectionsAreExclusive
    BY DEF ExclusiveInv
<1>2. QED BY <1>1, ExclusiveInit, ExclusiveNext, PTL DEF PoolSpec

-----------------------------------------------------------------------------
(* Setup: types.                                                           *)

Seeding == {"deduped", "index", "insert"}
RowIds == {r.id : r \in categories}

\* The types, with what keeps them: an _id is not given before its turn, rows of
\* assets are rows of the tables that were merged, and the seed comes last.
Typed ==
    /\ TypeOK
    /\ \A r \in categories : r.id <= fresh
    /\ assets \subseteq Physical(OldTags \cup NewTags) \cup OldTwins
    /\ \A p \in Pods : pc[p] \in Seeding => pending[p] = {"seed"}

\* What a row of assets looks like.
LEMMA PhysicalRows ==
    ASSUME NEW rows, NEW r \in Physical(rows)
    PROVE  /\ DOMAIN r = {"company", "urn", "owner"} /\ r.owner = None
           /\ \E s \in rows : r = [company |-> s.company, urn |-> s.urn, owner |-> None]
                              /\ Key(r) = Key(s)
BY DEF Physical, Key

\* What a row of company_twins looks like.
LEMMA TwinRows ==
    ASSUME NEW r \in OldTwins
    PROVE  DOMAIN r = {"company", "urn", "owner"} /\ r.owner # None
<1>1. r = [company |-> r.company, urn |-> r.urn, owner |-> r.owner] /\ r.owner # None
  BY SetupAssumption
<1>2. DOMAIN [company |-> r.company, urn |-> r.urn, owner |-> r.owner]
        = {"company", "urn", "owner"}
  OBVIOUS
<1> QED  BY <1>1, <1>2

\* A tag is its company and its URN.
LEMMA TagsAre ==
    ASSUME NEW r \in OldTags \cup NewTags
    PROVE  r = [company |-> r.company, urn |-> r.urn]
BY SetupAssumption

\* A merge makes no other rows than these.
LEMMA MergedRows ==
    ASSUME NEW T \in SUBSET (OldTags \cup NewTags), NEW W \in SUBSET OldTwins
    PROVE  Merged(T, W) \subseteq Physical(OldTags \cup NewTags) \cup OldTwins
BY DEF Merged, Physical

\* All rows of assets have the same columns.
LEMMA RowsAre ==
    ASSUME NEW A \in SUBSET (Physical(OldTags \cup NewTags) \cup OldTwins)
    PROVE  \A r \in A : DOMAIN r = {"company", "urn", "owner"}
BY PhysicalRows, TwinRows

\* The rows that generateId has made ids for.
LEMMA NewRowsAre ==
    ASSUME fresh \in Nat, NEW names \in SUBSET Names
    PROVE  /\ Len(Categories) \in Nat
           /\ NewRows(names) \subseteq [id : Nat, name : names]
           /\ \A r \in NewRows(names) : r.id > fresh /\ r.id <= fresh + Len(Categories)
           /\ \A r, s \in NewRows(names) : r.id = s.id \/ r.name = s.name => r = s
           /\ \A n \in names : \E r \in NewRows(names) : r.name = n
<1>1. Len(Categories) \in Nat /\ DOMAIN Categories = 1 .. Len(Categories)
  BY SetupAssumption
<1>2. \A i \in DOMAIN Categories : i \in Nat /\ i > 0 /\ i <= Len(Categories)
  BY <1>1
<1>3. \A r \in NewRows(names) : \E i \in DOMAIN Categories :
        r = [id |-> fresh + i, name |-> Categories[i]] /\ Categories[i] \in names
  BY DEF NewRows
<1>4. \A i, j \in DOMAIN Categories : fresh + i = fresh + j \/ Categories[i] = Categories[j] => i = j
  BY <1>2, SetupAssumption
<1>5. \A n \in names : \E i \in DOMAIN Categories : Categories[i] = n
  BY DEF Names
<1>6. \A r \in NewRows(names) : r \in [id : Nat, name : names] /\ r.id > fresh
                                /\ r.id <= fresh + Len(Categories)
  BY <1>1, <1>2, <1>3
<1>7. ASSUME NEW r \in NewRows(names), NEW s \in NewRows(names), r.id = s.id \/ r.name = s.name
      PROVE  r = s
  <2>1. PICK i \in DOMAIN Categories : r = [id |-> fresh + i, name |-> Categories[i]]
    BY <1>3
  <2>2. PICK j \in DOMAIN Categories : s = [id |-> fresh + j, name |-> Categories[j]]
    BY <1>3
  <2>3. fresh + i = fresh + j \/ Categories[i] = Categories[j]
    BY <1>7, <2>1, <2>2
  <2>4. i = j  BY <1>4, <2>3
  <2> QED  BY <2>1, <2>2, <2>4
<1>8. ASSUME NEW n \in names PROVE \E r \in NewRows(names) : r.name = n
  <2>1. PICK i \in DOMAIN Categories : Categories[i] = n  BY <1>5
  <2>2. [id |-> fresh + i, name |-> Categories[i]] \in NewRows(names)
    BY <2>1 DEF NewRows
  <2> QED  BY <2>1, <2>2
<1> QED  BY <1>1, <1>6, <1>7, <1>8

LEMMA SetupTypesInit == Init => Typed
<1> SUFFICES ASSUME Init PROVE Typed
  OBVIOUS
<1>1. assets \subseteq Physical(OldTags \cup NewTags) \cup OldTwins
  BY MergedRows DEF Init
<1>2. \A r \in assets : DOMAIN r = {"company", "urn", "owner"}
  BY <1>1, RowsAre
<1>3. First(OldGrants) \subseteq OldGrants  BY DEF First
<1>4. \A p \in Pods : pc[p] = "list"  BY DEF Init, Actors
<1>5. recorded \subseteq Migrations  BY DEF Init, Migrations
<1>6. grants \subseteq OldGrants /\ tags \subseteq OldTags \cup NewTags /\ twins \subseteq OldTwins
  BY <1>3 DEF Init
<1>7. pc \in [Actors -> {"list", "run", "copied", "deduped", "index", "insert", "up",
                         "idle", "seeding", "saving", "done", "failed"}]
  BY DEF Init
<1>8. held \in [Actors -> [ids : SUBSET Nat, tags : SUBSET (OldTags \cup NewTags),
                           done : SUBSET {"tables", "merge"}]]
  BY DEF Init, Nothing
<1>9. pending \in [Pods -> SUBSET Migrations] /\ mappings \in [Companies -> Nat \cup {None}]
  BY DEF Init
<1>10. /\ categories = {} /\ index = FALSE /\ templates = 0 /\ fresh = 0
       /\ failures = 0 /\ reverts = 0 /\ apart \in BOOLEAN /\ older \in BOOLEAN
       /\ tagged \subseteq OldTags \cup NewTags /\ late = {} /\ doubled = {} /\ undone = {}
  BY DEF Init
<1>11. 0 \in 0 .. MaxFailures /\ 0 \in 0 .. MaxReverts  BY SetupAssumption
<1> QED
  BY <1>1, <1>2, <1>4, <1>5, <1>6, <1>7, <1>8, <1>9, <1>10, <1>11 DEF Typed, TypeOK, Seeding

Labels == {"list", "run", "copied", "deduped", "index", "insert", "up",
           "idle", "seeding", "saving", "done", "failed"}
Holding == [ids : SUBSET Nat, tags : SUBSET (OldTags \cup NewTags),
            done : SUBSET {"tables", "merge"}]

\* Only x goes on.
LEMMA GoesOn ==
    ASSUME pc \in [Actors -> Labels], NEW x \in Actors, NEW l \in Labels, Goto(x, l)
    PROVE  /\ pc' \in [Actors -> Labels]
           /\ pc'[x] = l
           /\ \A y \in Actors : y # x => pc'[y] = pc[y]
BY DEF Goto

\* Everybody is an actor.
LEMMA PodsAreActors ==
    Pods \subseteq Actors /\ Scripts \subseteq Actors /\ Companies \subseteq Actors
BY DEF Actors

LEMMA NothingIsHeld == Nothing \in Holding
BY DEF Nothing, Holding

\* A pod that begins again.
LEMMA FailTypes ==
    ASSUME Typed, NEW p \in Pods, Fail(p), UNCHANGED <<apart, older>>,
           failures' \in 0 .. MaxFailures, reverts' \in 0 .. MaxReverts
    PROVE  Typed'
<1>1. pc \in [Actors -> Labels] /\ held \in [Actors -> Holding]
  BY DEF Typed, TypeOK, Labels, Holding
<1>2. /\ pc' \in [Actors -> Labels] /\ pc'[p] = "list"
      /\ \A q \in Pods : q # p => pc'[q] = pc[q]
  BY <1>1, GoesOn, PodsAreActors DEF Fail, Labels
<1>3. held' \in [Actors -> Holding]
  BY <1>1, NothingIsHeld, PodsAreActors DEF Fail
<1>4. /\ pending' \in [Pods -> SUBSET Migrations]
      /\ \A q \in Pods : q # p => pending'[q] = pending[q]
  BY DEF Fail, Typed, TypeOK
<1>5. \A q \in Pods : pc'[q] \in Seeding => pending'[q] = {"seed"}
  BY <1>2, <1>4 DEF Typed, Seeding
<1>6. UNCHANGED <<recorded, tables, reference, ghosts>>
  BY DEF Fail
<1> QED
  BY <1>2, <1>3, <1>4, <1>5, <1>6
  DEF Typed, TypeOK, Labels, Holding, tables, reference, ghosts

\* What migration m leaves, when pod p has it through.
LEMMA ThroughTypes ==
    ASSUME Typed, NEW p \in Pods, NEW m \in Migrations,
           m = "seed" => pending[p] = {"seed"}, Through(p, m)
    PROVE  Typed'
<1>1. pc \in [Actors -> Labels] /\ held \in [Actors -> Holding]
  BY DEF Typed, TypeOK, Labels, Holding
<1>2. /\ pc' \in [Actors -> Labels] /\ pc'[p] = "run"
      /\ \A q \in Pods : q # p => pc'[q] = pc[q]
  BY <1>1, GoesOn, PodsAreActors DEF Through, Labels
<1>4. /\ pending' \in [Pods -> SUBSET Migrations]
      /\ \A q \in Pods : q # p => pending'[q] = pending[q]
  BY DEF Through, Typed, TypeOK
<1>5. \A q \in Pods : pc'[q] \in Seeding => pending'[q] = {"seed"}
  BY <1>2, <1>4 DEF Typed, Seeding
<1>6. UNCHANGED <<templates, mappings, world, tagged, late, undone>>
  BY DEF Through
<1>7. CASE ~(apart \/ pending[p] = {m})
  <2>1. m \in {"tables", "merge"}  BY <1>7 DEF Migrations
  <2>2. /\ held' = [held EXCEPT ![p].done = held[p].done \cup {m}]
        /\ UNCHANGED <<recorded, tables, categories, fresh, index, doubled>>
    BY <1>7 DEF Through
  <2>3. held' \in [Actors -> Holding]
    BY <1>1, <2>1, <2>2, PodsAreActors DEF Holding
  <2> QED
    BY <1>2, <1>4, <1>5, <1>6, <2>2, <2>3
    DEF Typed, TypeOK, Labels, Holding, tables, world
<1>8. CASE apart \/ pending[p] = {m}
  <2> DEFINE ms == held[p].done \cup {m}
             missing == Names \ {r.name : r \in Kept(p)}
  <2>1. Commit(p, ms)  BY <1>8 DEF Through
  <2>2. ms \subseteq Migrations /\ held[p].tags \subseteq OldTags \cup NewTags
    BY <1>1, PodsAreActors DEF Holding, Migrations
  <2>3. held' \in [Actors -> Holding]
    BY <1>1, <2>1, NothingIsHeld, PodsAreActors DEF Commit
  <2>4. recorded' \subseteq Migrations
    BY <2>1, <2>2 DEF Commit, Typed, TypeOK
  <2>5. /\ grants' \subseteq OldGrants /\ tags' \subseteq OldTags \cup NewTags
        /\ twins' \subseteq OldTwins
        /\ assets' \subseteq Physical(OldTags \cup NewTags) \cup OldTwins
    <3>1. CASE "merge" \in ms
      <4>1. /\ grants' = First(grants) /\ tags' = {} /\ twins' = {}
            /\ assets' = Merged(held[p].tags, twins)
        BY <2>1, <3>1 DEF Commit
      <4>2. First(grants) \subseteq grants  BY DEF First
      <4>3. Merged(held[p].tags, twins) \subseteq Physical(OldTags \cup NewTags) \cup OldTwins
        BY <2>2, MergedRows DEF Typed, TypeOK
      <4> QED  BY <4>1, <4>2, <4>3 DEF Typed, TypeOK
    <3>2. CASE "merge" \notin ms
      BY <2>1, <3>2 DEF Commit, tables, Typed, TypeOK
    <3> QED  BY <3>1, <3>2
  <2>6. \A r \in assets' : DOMAIN r = {"company", "urn", "owner"}
    BY <2>5, RowsAre
  <2>7. /\ categories' \subseteq [id : Nat, name : Names]
        /\ \A r, s \in categories' : r.id = s.id => r = s
        /\ fresh' \in Nat /\ index' \in BOOLEAN /\ doubled' \subseteq Nat
        /\ \A r \in categories' : r.id <= fresh'
    <3>0. /\ fresh \in Nat /\ categories \subseteq [id : Nat, name : Names]
          /\ \A r, s \in categories : r.id = s.id => r = s
          /\ \A r \in categories : r.id <= fresh
          /\ index \in BOOLEAN /\ doubled \subseteq Nat
      BY DEF Typed, TypeOK
    <3>1. CASE "seed" \in ms
      <4>1. /\ categories' = Kept(p) \cup NewRows(missing)
            /\ fresh' = IF missing = {} THEN fresh ELSE fresh + Len(Categories)
            /\ index' = TRUE
            /\ doubled' = doubled \cup {r.id : r \in {r \in categories : Older(r) # {}}}
        BY <2>1, <3>1 DEF Commit
      <4>2. Kept(p) \subseteq categories  BY DEF Kept
      <4>3. /\ Len(Categories) \in Nat
            /\ NewRows(missing) \subseteq [id : Nat, name : missing]
            /\ \A r \in NewRows(missing) : r.id > fresh /\ r.id <= fresh + Len(Categories)
            /\ \A r, s \in NewRows(missing) : r.id = s.id \/ r.name = s.name => r = s
        BY <3>0, NewRowsAre
      <4>4. fresh' \in Nat /\ fresh <= fresh'  BY <3>0, <4>1, <4>3
      <4>5. \A r \in NewRows(missing) : fresh' = fresh + Len(Categories)
        BY <4>1, <4>3
      <4>6. categories' \subseteq [id : Nat, name : Names]
        BY <3>0, <4>1, <4>2, <4>3
      <4>7. \A r \in categories' : r.id <= fresh'
        <5>1. \A r \in Kept(p) : r.id \in Nat /\ r.id <= fresh  BY <3>0, <4>2
        <5>2. \A r \in Kept(p) : r.id <= fresh'  BY <3>0, <4>4, <5>1
        <5>3. \A r \in NewRows(missing) : r.id <= fresh'  BY <4>3, <4>5
        <5> QED  BY <4>1, <5>2, <5>3
      <4>8. ASSUME NEW r \in categories', NEW s \in categories', r.id = s.id PROVE r = s
        <5>1. \A k \in Kept(p), n \in NewRows(missing) : k.id # n.id
          BY <3>0, <4>2, <4>3
        <5> QED  BY <3>0, <4>1, <4>2, <4>3, <4>8, <5>1
      <4>9. doubled' \subseteq Nat  BY <3>0, <4>1
      <4> QED  BY <4>1, <4>4, <4>6, <4>7, <4>8, <4>9
    <3>2. CASE "seed" \notin ms
      <4>1. UNCHANGED <<categories, fresh, index, doubled>>  BY <2>1, <3>2 DEF Commit
      <4> QED  BY <3>0, <4>1
    <3> QED  BY <3>1, <3>2
  <2> QED
    BY <1>2, <1>4, <1>5, <1>6, <2>3, <2>4, <2>5, <2>6, <2>7
    DEF Typed, TypeOK, Labels, Holding, world
<1> QED  BY <1>7, <1>8

\* Somebody goes on, and holds something else.
LEMMA StepTypes ==
    ASSUME Typed, NEW x \in Actors, NEW l \in Labels, Goto(x, l),
           held' \in [Actors -> Holding],
           x \in Pods /\ l \in Seeding => pending[x] = {"seed"},
           UNCHANGED <<recorded, tables, reference, pending, world, ghosts>>
    PROVE  Typed'
<1>1. pc \in [Actors -> Labels]
  BY DEF Typed, TypeOK, Labels
<1>2. /\ pc' \in [Actors -> Labels] /\ pc'[x] = l
      /\ \A y \in Actors : y # x => pc'[y] = pc[y]
  BY <1>1, GoesOn
<1>3. \A q \in Pods : pc'[q] \in Seeding => pending'[q] = {"seed"}
  BY <1>2, PodsAreActors DEF Typed
<1> QED
  BY <1>2, <1>3
  DEF Typed, TypeOK, Labels, Holding, tables, reference, world, ghosts

\* When the seed is due there is nothing else left to do.
LEMMA DueSeed ==
    ASSUME Typed, NEW p \in Pods, Due(p, "seed")
    PROVE  pending[p] = {"seed"}
<1>1. pending[p] \subseteq {"tables", "merge", "seed"} /\ "seed" \in pending[p]
  BY DEF Due, Typed, TypeOK, Migrations
<1>2. {"tables", "merge"} \cap pending[p] = {}
  BY DEF Due, Earlier
<1> QED  BY <1>1, <1>2

\* Each step of a migration.
LEMMA PodTypes ==
    ASSUME Typed, NEW p \in Pods, Pod(p)
    PROVE  Typed'
<1>0. /\ held \in [Actors -> Holding] /\ p \in Actors
      /\ failures \in 0 .. MaxFailures /\ reverts \in 0 .. MaxReverts
      /\ pc \in [Actors -> Labels]
  BY PodsAreActors DEF Typed, TypeOK, Holding, Labels
<1>1. ASSUME Fail(p), UNCHANGED world PROVE Typed'
  BY <1>0, <1>1, FailTypes DEF world
<1>2. CASE List(p)
  <2>1. /\ pending' = [pending EXCEPT ![p] = Migrations \ recorded] /\ Goto(p, "run")
        /\ UNCHANGED <<recorded, tables, reference, held, world, ghosts>>
    BY <1>2 DEF List
  <2>2. /\ pc' \in [Actors -> Labels] /\ pc'[p] = "run"
        /\ \A q \in Pods : q # p => pc'[q] = pc[q]
    BY <1>0, <2>1, GoesOn, PodsAreActors DEF Labels
  <2>3. /\ pending' \in [Pods -> SUBSET Migrations]
        /\ \A q \in Pods : q # p => pending'[q] = pending[q]
    BY <2>1 DEF Typed, TypeOK
  <2>4. \A q \in Pods : pc'[q] \in Seeding => pending'[q] = {"seed"}
    BY <2>2, <2>3 DEF Typed, Seeding
  <2> QED
    BY <2>1, <2>2, <2>3, <2>4
    DEF Typed, TypeOK, Labels, Holding, tables, reference, world, ghosts
<1>3. CASE CreateTables(p)
  <2>1. "tables" \in Migrations /\ "tables" \in pending[p] BY <1>3 DEF Migrations, CreateTables, Due
  <2> QED  BY <1>1, <1>3, <2>1, ThroughTypes DEF CreateTables
<1>4. CASE CopyAssets(p)
  <2>1. CASE Fail(p) /\ UNCHANGED world  BY <1>1, <2>1
  <2>2. CASE ~(Fail(p) /\ UNCHANGED world)
    <3>1. /\ held' = [held EXCEPT ![p].tags = tags] /\ Goto(p, "copied")
          /\ UNCHANGED <<recorded, tables, reference, pending, world, ghosts>>
      BY <1>4, <2>2 DEF CopyAssets
    <3>2. held' \in [Actors -> Holding]  BY <1>0, <3>1 DEF Typed, TypeOK, Holding
    <3>3. "copied" \in Labels /\ "copied" \notin Seeding  BY DEF Labels, Seeding
    <3> QED  BY <1>0, <3>1, <3>2, <3>3, StepTypes
  <2> QED  BY <2>1, <2>2
<1>5. CASE Merge(p)
  BY <1>5, ThroughTypes DEF Merge, Migrations
<1>6. CASE Dedupe(p)
  <2>1. /\ held' = [held EXCEPT ![p].ids = Doubles] /\ Goto(p, "deduped")
        /\ UNCHANGED <<recorded, tables, reference, pending, world, ghosts>>
        /\ pending[p] = {"seed"}
    BY <1>6, DueSeed DEF Dedupe
  <2>2. Doubles \subseteq Nat  BY DEF Doubles, Typed, TypeOK
  <2>3. held' \in [Actors -> Holding]  BY <1>0, <2>1, <2>2 DEF Holding
  <2> QED  BY <1>0, <2>1, <2>3, StepTypes DEF Labels
<1>7. CASE AskForIndex(p)
  <2>1. /\ pc[p] = "deduped" /\ Goto(p, "index") /\ held' = held
        /\ UNCHANGED <<recorded, tables, reference, pending, world, ghosts>>
    BY <1>7 DEF AskForIndex
  <2>2. pending[p] = {"seed"}  BY <2>1 DEF Typed, Seeding
  <2> QED  BY <1>0, <2>1, <2>2, StepTypes DEF Labels
<1>8. CASE CreateIndex(p)
  <2>1. CASE Fail(p)  BY <1>1, <1>8, <2>1 DEF CreateIndex
  <2>2. CASE ~Fail(p)
    <3>1. /\ pc[p] = "index" /\ Goto(p, "insert") /\ held' = held
          /\ UNCHANGED <<recorded, tables, reference, pending, world, ghosts>>
      BY <1>8, <2>2 DEF CreateIndex
    <3>2. pending[p] = {"seed"}  BY <3>1 DEF Typed, Seeding
    <3> QED  BY <1>0, <3>1, <3>2, StepTypes DEF Labels
  <2> QED  BY <2>1, <2>2
<1>9. CASE Deadlock(p)
  BY <1>1, <1>9 DEF Deadlock
<1>10. CASE InsertCategories(p)
  <2>1. Through(p, "seed") /\ pending[p] = {"seed"}
    BY <1>10 DEF InsertCategories, Typed, Seeding
  <2> QED  BY <2>1, ThroughTypes DEF Migrations
<1>11. CASE Start(p)
  <2>1. /\ Goto(p, "up") /\ held' = held
        /\ UNCHANGED <<recorded, tables, reference, pending, world, ghosts>>
    BY <1>11 DEF Start
  <2>2. "up" \in Labels /\ "up" \notin Seeding  BY DEF Labels, Seeding
  <2> QED  BY <1>0, <2>1, <2>2, StepTypes
<1> QED
  BY <1>2, <1>3, <1>4, <1>5, <1>6, <1>7, <1>8, <1>9, <1>10, <1>11 DEF Pod

LEMMA RevertTypes ==
    ASSUME Typed, Revert
    PROVE  Typed'
<1>1. /\ reverts < MaxReverts /\ reverts' = reverts + 1
      /\ UNCHANGED <<process, apart, older, failures>>
  BY DEF Revert
<1>2. reverts' \in 0 .. MaxReverts
  BY <1>1, SetupAssumption DEF Typed, TypeOK
<1>3. CASE RevertSeed
  <2>1. /\ recorded' = recorded \ {"seed"}
        /\ categories' = {r \in categories : r.name \notin Names}
        /\ undone' = undone \cup {r.id : r \in {r \in categories : r.name \in Names}}
        /\ index' = FALSE
        /\ UNCHANGED <<tables, templates, mappings, fresh, tagged, late, doubled>>
    BY <1>3 DEF RevertSeed
  <2>2. categories' \subseteq categories /\ recorded' \subseteq recorded
    BY <2>1
  <2>3. undone' \subseteq Nat
    <3>1. \A r \in categories : r.id \in Nat  BY DEF Typed, TypeOK
    <3>2. undone \subseteq Nat  BY DEF Typed, TypeOK
    <3>3. undone' = undone \cup {r.id : r \in {r \in categories : r.name \in Names}}  BY <2>1
    <3>4. ASSUME NEW i \in undone', i \notin undone PROVE i \in Nat
      <4>1. PICK r \in categories : i = r.id  BY <3>3, <3>4
      <4> QED  BY <3>1, <4>1
    <3> QED  BY <3>2, <3>4
  <2> QED
    BY <1>1, <1>2, <2>1, <2>2, <2>3 DEF Typed, TypeOK, tables, process
<1>4. CASE RevertMerge
  <2>1. /\ recorded' = recorded \ {"merge"}
        /\ tags' = {[company |-> r.company, urn |-> r.urn] :
                      r \in {r \in assets : r.owner = None}}
        /\ twins' = {r \in assets : r.owner # None}
        /\ assets' = {}
        /\ UNCHANGED <<grants, reference, ghosts>>
    BY <1>4 DEF RevertMerge
  <2>2. twins' \subseteq OldTwins
    BY <2>1, PhysicalRows DEF Typed
  <2>3. tags' \subseteq OldTags \cup NewTags
    <3>1. ASSUME NEW r \in assets, r.owner = None
          PROVE  [company |-> r.company, urn |-> r.urn] \in OldTags \cup NewTags
      <4>1. r \in Physical(OldTags \cup NewTags)  BY <3>1, TwinRows DEF Typed
      <4>2. PICK s \in OldTags \cup NewTags :
              r = [company |-> s.company, urn |-> s.urn, owner |-> None]
        BY <4>1, PhysicalRows
      <4>3. [company |-> r.company, urn |-> r.urn] = s  BY <4>2, TagsAre
      <4> QED  BY <4>3
    <3> QED  BY <2>1, <3>1
  <2>4. recorded' \subseteq Migrations  BY <2>1 DEF Typed, TypeOK
  <2> QED
    BY <1>1, <1>2, <2>1, <2>2, <2>3, <2>4 DEF Typed, TypeOK, reference, ghosts, process
<1> QED  BY <1>3, <1>4 DEF Revert

LEMMA RequestsTypes ==
    ASSUME Typed, Requests
    PROVE  Typed'
<1>0. /\ held \in [Actors -> Holding] /\ pc \in [Actors -> Labels]
      /\ Pods \cap Scripts = {} /\ Pods \cap Companies = {}
  BY SetupAssumption DEF Typed, TypeOK, Holding, Labels
<1>1. ASSUME NEW s \in Scripts, SaveTemplates(s) PROVE Typed'
  <2>1. /\ templates' = templates + 1 /\ Goto(s, "seeding")
        /\ UNCHANGED <<recorded, tables, categories, index, mappings, fresh, pending, held,
                       world, ghosts>>
    BY <1>1 DEF SaveTemplates
  <2>2. /\ pc' \in [Actors -> Labels] /\ \A q \in Pods : pc'[q] = pc[q]
    BY <1>0, <2>1, GoesOn, PodsAreActors DEF Labels
  <2>3. templates' \in Nat  BY <2>1 DEF Typed, TypeOK
  <2> QED
    BY <2>1, <2>2, <2>3 DEF Typed, TypeOK, Labels, tables, world, ghosts
<1>2. ASSUME NEW s \in Scripts, SaveCategories(s) PROVE Typed'
  <2>1. /\ Goto(s, "failed") \/ Goto(s, "done")
        /\ \/ UNCHANGED <<categories, fresh>>
           \/ categories' = categories \cup NewRows(Names) /\ fresh' = fresh + Len(Categories)
        /\ UNCHANGED <<recorded, tables, index, templates, mappings, pending, held, world,
                       ghosts>>
    BY <1>2 DEF SaveCategories
  <2>2. /\ pc' \in [Actors -> Labels] /\ \A q \in Pods : pc'[q] = pc[q]
    BY <1>0, <2>1, GoesOn, PodsAreActors DEF Labels
  <2>3. /\ fresh \in Nat /\ categories \subseteq [id : Nat, name : Names]
        /\ \A r, t \in categories : r.id = t.id => r = t
        /\ \A r \in categories : r.id <= fresh
    BY DEF Typed, TypeOK
  <2>4. /\ fresh' \in Nat /\ categories' \subseteq [id : Nat, name : Names]
        /\ \A r, t \in categories' : r.id = t.id => r = t
        /\ \A r \in categories' : r.id <= fresh'
    <3>1. CASE UNCHANGED <<categories, fresh>>  BY <2>3, <3>1
    <3>2. CASE categories' = categories \cup NewRows(Names) /\ fresh' = fresh + Len(Categories)
      <4>1. /\ Len(Categories) \in Nat
            /\ NewRows(Names) \subseteq [id : Nat, name : Names]
            /\ \A r \in NewRows(Names) : r.id > fresh /\ r.id <= fresh + Len(Categories)
            /\ \A r, t \in NewRows(Names) : r.id = t.id \/ r.name = t.name => r = t
        BY <2>3, NewRowsAre
      <4>2. fresh' \in Nat /\ fresh <= fresh'  BY <2>3, <3>2, <4>1
      <4>3. categories' \subseteq [id : Nat, name : Names]  BY <2>3, <3>2, <4>1
      <4>4. \A r \in categories : r.id \in Nat /\ r.id <= fresh'  BY <2>3, <4>2
      <4>5. \A k \in categories, n \in NewRows(Names) : k.id # n.id  BY <2>3, <4>1, <4>4
      <4>6. \A r, t \in categories' : r.id = t.id => r = t  BY <2>3, <3>2, <4>1, <4>5
      <4>7. \A r \in categories' : r.id <= fresh'  BY <3>2, <4>1, <4>4
      <4> QED  BY <4>2, <4>3, <4>6, <4>7
    <3> QED  BY <2>1, <3>1, <3>2
  <2> QED
    BY <2>1, <2>2, <2>4 DEF Typed, TypeOK, Labels, tables, world, ghosts
<1>3. ASSUME NEW c \in Companies, FindCategory(c) PROVE Typed'
  <2>1. /\ UNCHANGED <<recorded, tables, reference, pending, world, ghosts>>
        /\ \/ Goto(c, "failed") /\ held' = held
           \/ Goto(c, "saving") /\ \E r \in categories : held' = [held EXCEPT ![c].ids = {r.id}]
    BY <1>3 DEF FindCategory
  <2>2. held' \in [Actors -> Holding]
    BY <1>0, <2>1, PodsAreActors DEF Holding, Typed, TypeOK
  <2>3. c \in Actors /\ c \notin Pods  BY <1>0, PodsAreActors
  <2>4. {"failed", "saving"} \subseteq Labels  BY DEF Labels
  <2> QED  BY <2>1, <2>2, <2>3, <2>4, StepTypes
<1>4. ASSUME NEW c \in Companies, SaveMapping(c) PROVE Typed'
  <2>1. /\ \E i \in held[c].ids : mappings' = [mappings EXCEPT ![c] = i]
        /\ held' = [held EXCEPT ![c] = Nothing] /\ Goto(c, "done")
        /\ UNCHANGED <<recorded, tables, categories, index, templates, fresh, pending, world,
                       ghosts>>
    BY <1>4 DEF SaveMapping
  <2>2. /\ pc' \in [Actors -> Labels] /\ \A q \in Pods : pc'[q] = pc[q]
    BY <1>0, <2>1, GoesOn, PodsAreActors DEF Labels
  <2>3. held[c].ids \subseteq Nat  BY <1>0, PodsAreActors DEF Holding
  <2>4. mappings' \in [Companies -> Nat \cup {None}]  BY <2>1, <2>3 DEF Typed, TypeOK
  <2>5. held' \in [Actors -> Holding]  BY <1>0, <2>1, NothingIsHeld
  <2> QED
    BY <2>1, <2>2, <2>4, <2>5 DEF Typed, TypeOK, Labels, Holding, tables, world, ghosts
<1>5. CASE Tag
  BY <1>5 DEF Tag, Typed, TypeOK, reference, process, world
<1> QED  BY <1>1, <1>2, <1>3, <1>4, <1>5 DEF Requests

LEMMA SetupTypesNext == Typed /\ [Next]_vars => Typed'
<1> SUFFICES ASSUME Typed, [Next]_vars PROVE Typed'
  OBVIOUS
<1>1. CASE UNCHANGED vars
  BY <1>1 DEF vars, tables, reference, process, world, ghosts, Typed, TypeOK
<1>2. ASSUME NEW p \in Pods, Dies(p) PROVE Typed'
  <2>1. /\ failures < MaxFailures /\ failures' = failures + 1
        /\ UNCHANGED <<apart, older, reverts>> /\ Fail(p)
    BY <1>2 DEF Dies
  <2>2. failures' \in 0 .. MaxFailures /\ reverts' \in 0 .. MaxReverts
    BY <2>1, SetupAssumption DEF Typed, TypeOK
  <2> QED  BY <2>1, <2>2, FailTypes
<1> QED  BY <1>1, <1>2, PodTypes, RevertTypes, RequestsTypes DEF Next

\* However many pods migrate, die and begin again while others write: every variable
\* keeps its type, and no two categories ever have one _id.
THEOREM SetupTypeCorrect == Spec => []TypeOK
<1>1. Typed => TypeOK  BY DEF Typed
<1> QED  BY <1>1, SetupTypesInit, SetupTypesNext, PTL DEF Spec

-----------------------------------------------------------------------------
(* Setup: what the upgrade keeps.                                          *)

\* What keys are there.
LEMMA KeysUnion ==
    ASSUME NEW A, NEW B
    PROVE  Keys(A \cup B) = Keys(A) \cup Keys(B)
BY DEF Keys

LEMMA KeysMonotone ==
    ASSUME NEW A, NEW B, A \subseteq B
    PROVE  Keys(A) \subseteq Keys(B)
BY DEF Keys

LEMMA KeysPhysical ==
    ASSUME NEW A
    PROVE  Keys(Physical(A)) = Keys(A)
<1>3. ASSUME NEW k \in Keys(Physical(A)) PROVE k \in Keys(A)
  <2>1. PICK r \in Physical(A) : k = Key(r)  BY DEF Keys
  <2>2. PICK s \in A : Key(r) = Key(s)  BY PhysicalRows
  <2> QED  BY <2>1, <2>2 DEF Keys
<1>4. ASSUME NEW k \in Keys(A) PROVE k \in Keys(Physical(A))
  <2>1. PICK s \in A : k = Key(s)  BY DEF Keys
  <2> DEFINE r == [company |-> s.company, urn |-> s.urn, owner |-> None]
  <2>2. r \in Physical(A)  BY DEF Physical
  <2>3. Key(r) = k  BY <2>1 DEF Key
  <2> HIDE DEF r
  <2> QED  BY <2>2, <2>3 DEF Keys
<1> QED  BY <1>3, <1>4

\* Merging a second time changes no grant.
LEMMA FirstTwice ==
    ASSUME NEW S
    PROVE  First(S) \subseteq S /\ First(First(S)) = First(S)
BY DEF First

\* What is in both tables is there once, as the twin was; what is in one is there.
LEMMA MergedKeeps ==
    ASSUME NEW T \in SUBSET (OldTags \cup NewTags), NEW W \in SUBSET OldTwins
    PROVE  /\ Keys(Merged(T, W)) = Keys(T) \cup Keys(W)
           /\ {r \in Merged(T, W) : r.owner # None} = W
           /\ {r \in Merged(T, W) : r.owner = None} \subseteq Physical(T)
           /\ \A r \in Merged(T, W), s \in W : Key(r) = Key(s) => r = s
<1> DEFINE alone == {r \in T : Key(r) \notin Keys(W)}
<1>1. Merged(T, W) = Physical(alone) \cup W  BY DEF Merged
<1>2. \A r \in W : r.owner # None  BY TwinRows
<1>3. \A r \in Physical(alone) : r.owner = None /\ \E s \in alone : Key(r) = Key(s)
  BY PhysicalRows
<1>4. Physical(alone) \subseteq Physical(T)  BY DEF Physical
<1>5. Keys(alone) \cup Keys(W) = Keys(T) \cup Keys(W)
  BY DEF Keys
<1>6. Keys(Merged(T, W)) = Keys(T) \cup Keys(W)
  <2>1. Keys(Merged(T, W)) = Keys(Physical(alone)) \cup Keys(W)  BY <1>1, KeysUnion
  <2>2. Keys(Physical(alone)) = Keys(alone)  BY KeysPhysical
  <2> QED  BY <1>5, <2>1, <2>2
<1>7. ASSUME NEW r \in Merged(T, W), NEW s \in W, Key(r) = Key(s) PROVE r = s
  <2>1. CASE r \in W  BY <1>7, <2>1, SetupAssumption
  <2>2. CASE r \in Physical(alone)
    <3>1. Key(r) \notin Keys(W)  BY <1>3, <2>2
    <3>2. Key(s) \in Keys(W)  BY DEF Keys
    <3> QED  BY <1>7, <3>1, <3>2
  <2> QED  BY <1>1, <2>1, <2>2
<1> HIDE DEF alone
<1>8. {r \in Merged(T, W) : r.owner # None} = W  BY <1>1, <1>2, <1>3
<1>9. {r \in Merged(T, W) : r.owner = None} \subseteq Physical(T)  BY <1>1, <1>2, <1>4
<1> QED  BY <1>6, <1>7, <1>8, <1>9

\* Pod p has begun a merge that nobody else sees yet.
Merging(p) == pc[p] = "copied" \/ "merge" \in held[p].done

Twins0 == Old(OldTwins)

\* What each table has before a merge, and after.
Before ==
    /\ assets = {}
    /\ twins = Twins0
    /\ tags \subseteq tagged
After ==
    /\ tags = {} /\ twins = {}
    /\ {r \in assets : r.owner # None} = Twins0
    /\ {r \in assets : r.owner = None} \subseteq Physical(tagged)
    /\ \A r \in assets, s \in Twins0 : Key(r) = Key(s) => r = s
    /\ grants = First(Old(OldGrants))

\* One pod merges at a time, and what it has read, with the twins, has every asset
\* but those that were tagged since.
MergesAreWhole ==
    \A p \in Pods : Merging(p) =>
      /\ "merge" \notin recorded
      /\ held[p].tags \subseteq tagged
      /\ Keys(tagged \ late) \subseteq Keys(held[p].tags) \cup Keys(Twins0)
      /\ \A q \in Pods : Merging(q) => p = q

UpgradeInv ==
    /\ Typed
    /\ "merge" \notin recorded => Before
    /\ "merge" \in recorded => After
    /\ grants \in {Old(OldGrants), First(Old(OldGrants))}
    /\ Keys(tagged \ late) \subseteq Keys(Stored)
    /\ MergesAreWhole

\* The twins of the older release are a part of its table.
LEMMA Twins0Are == Twins0 \in SUBSET OldTwins
BY DEF Twins0, Old

\* What the invariant says of the tables is what was to be kept.
LEMMA UpgradeKeeps == UpgradeInv => UpgradesKeepWhatWasThere
<1> SUFFICES ASSUME UpgradeInv PROVE UpgradesKeepWhatWasThere
  OBVIOUS
<1>1. First(Old(OldGrants)) \subseteq grants
  BY FirstTwice DEF UpgradeInv
<1>2. Keys(tagged \ late) \subseteq Keys(Stored)
  BY DEF UpgradeInv
<1>3. CASE "merge" \notin recorded
  <2>1. assets = {} /\ twins = Twins0 /\ tags \subseteq tagged
    BY <1>3 DEF UpgradeInv, Before
  <2>2. Stored = Twins0 \cup Physical(tags)  BY <2>1 DEF Stored
  <2>3. Keys(Stored) = Keys(Twins0) \cup Keys(tags)  BY <2>2, KeysUnion, KeysPhysical
  <2>4. Keys(Stored) \subseteq Keys(tagged \cup OldTwins)
    BY <2>1, <2>3, KeysUnion, KeysMonotone, Twins0Are
  <2> QED  BY <1>1, <1>2, <1>3, <2>1, <2>2, <2>4 DEF UpgradesKeepWhatWasThere, Twins0
<1>4. CASE "merge" \in recorded
  <2> DEFINE bare == {r \in assets : r.owner = None}
  <2>1. After  BY <1>4 DEF UpgradeInv
  <2>2. assets = Twins0 \cup bare /\ bare \subseteq Physical(tagged)
    BY <2>1 DEF After
  <2>3. Stored = assets  BY <2>1 DEF Stored, After, Physical
  <2> HIDE DEF bare
  <2>4. Keys(Stored) = Keys(Twins0) \cup Keys(bare)  BY <2>2, <2>3, KeysUnion
  <2>5. Keys(bare) \subseteq Keys(tagged) /\ Keys(Twins0) \subseteq Keys(OldTwins)
    BY <2>2, KeysMonotone, KeysPhysical, Twins0Are
  <2>6. Keys(Stored) \subseteq Keys(tagged \cup OldTwins)  BY <2>4, <2>5, KeysUnion
  <2>7. ASSUME NEW r \in assets, NEW s \in assets, Key(r) = Key(s) PROVE r = s
    <3>1. CASE r \in Twins0 \/ s \in Twins0  BY <2>1, <2>7, <3>1 DEF After
    <3>2. CASE r \in bare /\ s \in bare
      <4>1. PICK a \in tagged : r = [company |-> a.company, urn |-> a.urn, owner |-> None]
                                /\ Key(r) = Key(a)
        BY <2>2, <3>2, PhysicalRows
      <4>2. PICK b \in tagged : s = [company |-> b.company, urn |-> b.urn, owner |-> None]
                                /\ Key(s) = Key(b)
        BY <2>2, <3>2, PhysicalRows
      <4>3. a.company = b.company /\ a.urn = b.urn  BY <2>7, <4>1, <4>2 DEF Key
      <4> QED  BY <4>1, <4>2, <4>3
    <3> QED  BY <2>2, <3>1, <3>2
  <2>8. grants = First(Old(OldGrants))  BY <2>1 DEF After
  <2>9. Twins0 \subseteq Stored  BY <2>2, <2>3
  <2> QED
    BY <1>1, <1>2, <2>6, <2>7, <2>8, <2>9 DEF UpgradesKeepWhatWasThere, Twins0
<1> QED  BY <1>3, <1>4

LEMMA UpgradeInit == Init => UpgradeInv
<1> SUFFICES ASSUME Init PROVE UpgradeInv
  OBVIOUS
<1>1. MergesAreWhole
  <2>1. \A p \in Pods : pc[p] = "list" /\ held[p] = Nothing  BY PodsAreActors DEF Init
  <2> QED  BY <2>1 DEF MergesAreWhole, Merging, Nothing
<1>2. CASE "merge" \notin recorded
  <2>1. /\ assets = {} /\ twins = Twins0 /\ tags = tagged /\ late = {}
        /\ grants = Old(OldGrants)
    BY <1>2 DEF Init, Twins0, Old
  <2>2. Keys(tagged \ late) \subseteq Keys(Stored)
    <3>1. tagged \ late = tags /\ Stored = Twins0 \cup Physical(tags)  BY <2>1 DEF Stored
    <3> QED  BY <3>1, KeysUnion, KeysPhysical
  <2> QED  BY <1>1, <1>2, <2>1, <2>2, SetupTypesInit DEF UpgradeInv, Before
<1>3. CASE "merge" \in recorded
  <2>1. /\ assets = Merged(OldTags, OldTwins) /\ twins = {} /\ tags = {} /\ tagged = OldTags
        /\ late = {} /\ grants = First(OldGrants) /\ older
    BY <1>3 DEF Init
  <2>2. Twins0 = OldTwins /\ Old(OldGrants) = OldGrants  BY <2>1 DEF Twins0, Old
  <2>3. After
    <3>1. /\ {r \in assets : r.owner # None} = Twins0
          /\ {r \in assets : r.owner = None} \subseteq Physical(tagged)
          /\ \A r \in assets, s \in Twins0 : Key(r) = Key(s) => r = s
      <4> DEFINE M == Merged(OldTags, OldTwins)
      <4>1. OldTags \in SUBSET (OldTags \cup NewTags) /\ OldTwins \in SUBSET OldTwins
        OBVIOUS
      <4>2. /\ {r \in M : r.owner # None} = OldTwins
            /\ {r \in M : r.owner = None} \subseteq Physical(OldTags)
            /\ \A r \in M, s \in OldTwins : Key(r) = Key(s) => r = s
        BY <4>1, MergedKeeps
      <4> HIDE DEF M
      <4>3. assets = M  BY <2>1 DEF M
      <4> QED  BY <2>1, <2>2, <4>2, <4>3
    <3> QED  BY <2>1, <2>2, <3>1 DEF After
  <2>4. Keys(tagged \ late) \subseteq Keys(Stored)
    <3>1. tagged \ late = OldTags /\ Stored = assets  BY <2>1 DEF Stored, Physical
    <3> QED  BY <2>1, <3>1, MergedKeeps
  <2> QED  BY <1>1, <1>3, <2>1, <2>2, <2>3, <2>4, SetupTypesInit DEF UpgradeInv
<1> QED  BY <1>2, <1>3

\* A step that leaves the tables alone, and begins no merge.
LEMMA UpgradeSame ==
    ASSUME UpgradeInv, Typed', UNCHANGED <<tables, older, tagged, late>>,
           "merge" \in recorded' <=> "merge" \in recorded,
           \A p \in Pods : Merging(p)' => Merging(p) /\ held'[p].tags = held[p].tags
    PROVE  UpgradeInv'
<1>1. /\ Stored' = Stored /\ Twins0' = Twins0
      /\ Old(OldGrants)' = Old(OldGrants)
      /\ Keys(tagged \ late)' = Keys(tagged \ late)
      /\ grants' = grants /\ assets' = assets /\ twins' = twins /\ tags' = tags
      /\ tagged' = tagged
  BY DEF Stored, Twins0, Old, Keys, Physical, Key, tables
<1>2. Before => Before'  BY <1>1 DEF Before
<1>3. After => After'
  <2>1. First(Old(OldGrants))' = First(Old(OldGrants))  BY <1>1 DEF First
  <2>2. Physical(tagged)' = Physical(tagged)  BY <1>1 DEF Physical
  <2>3. UNCHANGED <<assets, twins, tags, grants>> /\ Twins0' = Twins0  BY <1>1
  <2> QED  BY <2>1, <2>2, <2>3 DEF After, Key
<1>4. MergesAreWhole'
  <2> SUFFICES ASSUME NEW p \in Pods, Merging(p)'
               PROVE  /\ "merge" \notin recorded'
                      /\ held'[p].tags \subseteq tagged'
                      /\ Keys(tagged \ late)' \subseteq Keys(held'[p].tags) \cup Keys(Twins0)'
                      /\ \A q \in Pods : Merging(q)' => p = q
    BY DEF MergesAreWhole, Keys, Key
  <2>1. Merging(p) /\ held'[p].tags = held[p].tags  OBVIOUS
  <2>2. /\ "merge" \notin recorded /\ held[p].tags \subseteq tagged
        /\ Keys(tagged \ late) \subseteq Keys(held[p].tags) \cup Keys(Twins0)
        /\ \A q \in Pods : Merging(q) => p = q
    BY <2>1 DEF UpgradeInv, MergesAreWhole
  <2>3. Keys(Twins0)' = Keys(Twins0)  BY <1>1 DEF Keys, Key
  <2> QED  BY <1>1, <2>1, <2>2, <2>3
<1>5. First(Old(OldGrants))' = First(Old(OldGrants))  BY <1>1 DEF First
<1>6. Keys(Stored)' = Keys(Stored)  BY <1>1 DEF Keys, Key
<1> QED  BY <1>1, <1>2, <1>3, <1>4, <1>5, <1>6 DEF UpgradeInv

\* The merge becomes visible.
LEMMA UpgradeCommit ==
    ASSUME UpgradeInv, Typed', NEW p \in Pods, NEW ms, Commit(p, ms), "merge" \in ms,
           Merging(p), pc'[p] = "run", \A q \in Pods : q # p => pc'[q] = pc[q],
           UNCHANGED <<older, tagged, late>>
    PROVE  UpgradeInv'
<1> DEFINE T == held[p].tags
<1>1. /\ "merge" \notin recorded /\ T \subseteq tagged
      /\ Keys(tagged \ late) \subseteq Keys(T) \cup Keys(Twins0)
      /\ \A q \in Pods : Merging(q) => p = q
  BY DEF UpgradeInv, MergesAreWhole
<1>2. assets = {} /\ twins = Twins0 /\ tags \subseteq tagged
  BY <1>1 DEF UpgradeInv, Before
<1>3. /\ grants' = First(grants) /\ assets' = Merged(T, Twins0)
      /\ tags' = {} /\ twins' = {} /\ "merge" \in recorded'
      /\ held' = [held EXCEPT ![p] = Nothing]
  BY <1>2 DEF Commit
<1>4. T \in SUBSET (OldTags \cup NewTags)
  BY <1>1 DEF UpgradeInv, Typed, TypeOK
<1>5. /\ Keys(assets') = Keys(T) \cup Keys(Twins0)
      /\ {r \in assets' : r.owner # None} = Twins0
      /\ {r \in assets' : r.owner = None} \subseteq Physical(T)
      /\ \A r \in assets', s \in Twins0 : Key(r) = Key(s) => r = s
  <2> DEFINE M == Merged(T, Twins0)
  <2>1. /\ Keys(M) = Keys(T) \cup Keys(Twins0)
        /\ {r \in M : r.owner # None} = Twins0
        /\ {r \in M : r.owner = None} \subseteq Physical(T)
        /\ \A r \in M, s \in Twins0 : Key(r) = Key(s) => r = s
    BY <1>4, Twins0Are, MergedKeeps
  <2> HIDE DEF M
  <2>2. assets' = M  BY <1>3 DEF M
  <2> QED  BY <2>1, <2>2
<1> HIDE DEF T
<1>6. Physical(T) \subseteq Physical(tagged)  BY <1>1 DEF Physical
<1>7. Twins0' = Twins0 /\ Old(OldGrants)' = Old(OldGrants)  BY DEF Twins0, Old
<1>8. grants' = First(Old(OldGrants))
  BY <1>3, FirstTwice DEF UpgradeInv
<1>9. First(Old(OldGrants))' = First(Old(OldGrants))  BY <1>7 DEF First
<1>10. After'
  <2>1. Physical(tagged)' = Physical(tagged)  BY DEF Physical
  <2>2. {r \in assets' : r.owner = None} \subseteq Physical(tagged)  BY <1>5, <1>6
  <2> QED  BY <1>3, <1>5, <1>7, <1>8, <1>9, <2>1, <2>2 DEF After, Key
<1>11. Keys(tagged \ late)' \subseteq Keys(Stored)'
  <2>1. Stored' = assets'  BY <1>3 DEF Stored, Physical
  <2>2. Keys(tagged \ late)' = Keys(tagged \ late)  BY DEF Keys, Key
  <2>3. Keys(Stored)' = Keys(assets')  BY <2>1 DEF Keys, Key
  <2> QED  BY <1>1, <1>5, <2>2, <2>3
<1>12. \A q \in Pods : ~Merging(q)'
  <2> SUFFICES ASSUME NEW q \in Pods, Merging(q)' PROVE FALSE
    OBVIOUS
  <2>0. held \in [Actors -> Holding] /\ q \in Actors /\ p \in Actors
    BY PodsAreActors DEF UpgradeInv, Typed, TypeOK, Holding
  <2>1. CASE q = p
    <3>1. held'[p] = Nothing  BY <1>3, <2>0
    <3> QED  BY <2>1, <3>1 DEF Merging, Nothing
  <2>2. CASE q # p
    <3>1. held'[q] = held[q] /\ pc'[q] = pc[q]  BY <1>3, <2>0, <2>2
    <3> QED  BY <1>1, <2>2, <3>1 DEF Merging
  <2> QED  BY <2>1, <2>2
<1>13. MergesAreWhole'  BY <1>12 DEF MergesAreWhole
<1> QED  BY <1>3, <1>8, <1>9, <1>10, <1>11, <1>13 DEF UpgradeInv

\* Migration m is through, m being begun if it is the merge.
LEMMA UpgradeThrough ==
    ASSUME UpgradeInv, NEW p \in Pods, NEW m \in Migrations, Through(p, m),
           m = "seed" => pending[p] = {"seed"}, m = "merge" => Merging(p)
    PROVE  UpgradeInv'
<1>1. Typed'  BY ThroughTypes DEF UpgradeInv
<1>2. /\ held \in [Actors -> Holding] /\ p \in Actors
      /\ pc \in [Actors -> Labels]
  BY PodsAreActors DEF UpgradeInv, Typed, TypeOK, Holding, Labels
<1>3. /\ pc'[p] = "run" /\ \A q \in Pods : q # p => pc'[q] = pc[q]
      /\ UNCHANGED <<older, tagged, late>>
  BY <1>2, GoesOn, PodsAreActors DEF Through, Labels, world
<1>4. CASE ~(apart \/ pending[p] = {m})
  <2>1. /\ held' = [held EXCEPT ![p].done = held[p].done \cup {m}]
        /\ UNCHANGED <<recorded, tables>>
    BY <1>4 DEF Through
  <2>2. ASSUME NEW q \in Pods, Merging(q)'
        PROVE  Merging(q) /\ held'[q].tags = held[q].tags
    <3>0. held[q] \in Holding /\ q \in Actors /\ held[p] \in Holding
      BY <1>2, PodsAreActors
    <3>1. CASE q = p
      <4>1. held'[p].done = held[p].done \cup {m} /\ held'[p].tags = held[p].tags
        BY <1>2, <2>1, <3>0 DEF Holding
      <4>2. "merge" \in held[p].done \cup {m}  BY <1>3, <2>2, <3>1, <4>1 DEF Merging
      <4> QED  BY <3>1, <4>1, <4>2 DEF Merging
    <3>2. CASE q # p
      <4>1. held'[q] = held[q] /\ pc'[q] = pc[q]  BY <1>2, <1>3, <2>1, <3>0, <3>2
      <4> QED  BY <2>2, <4>1 DEF Merging
    <3> QED  BY <3>1, <3>2
  <2> QED  BY <1>1, <1>3, <2>1, <2>2, UpgradeSame
<1>5. CASE apart \/ pending[p] = {m}
  <2> DEFINE ms == held[p].done \cup {m}
  <2>1. Commit(p, ms)  BY <1>5 DEF Through
  <2>2. CASE "merge" \in ms
    <3>1. Merging(p)  BY <2>2 DEF Merging
    <3> QED  BY <1>1, <1>3, <2>1, <2>2, <3>1, UpgradeCommit
  <2>3. CASE "merge" \notin ms
    <3>1. /\ recorded' = recorded \cup ms /\ UNCHANGED tables
          /\ held' = [held EXCEPT ![p] = Nothing]
      BY <2>1, <2>3 DEF Commit
    <3>2. ASSUME NEW q \in Pods, Merging(q)'
          PROVE  Merging(q) /\ held'[q].tags = held[q].tags
      <4>1. CASE q = p
        <5>1. held'[p] = Nothing  BY <1>2, <3>1
        <5> QED  BY <1>3, <3>2, <4>1, <5>1 DEF Merging, Nothing
      <4>2. CASE q # p
        <5>1. held'[q] = held[q] /\ pc'[q] = pc[q]
          BY <1>2, <1>3, <3>1, <4>2, PodsAreActors
        <5> QED  BY <3>2, <5>1 DEF Merging
      <4> QED  BY <4>1, <4>2
    <3>3. "merge" \in recorded' <=> "merge" \in recorded  BY <2>3, <3>1
    <3> QED  BY <1>1, <1>3, <3>1, <3>2, <3>3, UpgradeSame
  <2> QED  BY <2>2, <2>3
<1> QED  BY <1>4, <1>5

\* Somebody goes on who begins no merge, or lets go of one.
LEMMA UpgradeStep ==
    ASSUME UpgradeInv, Typed', UNCHANGED <<tables, older, tagged, late>>,
           "merge" \in recorded' <=> "merge" \in recorded,
           NEW x \in Actors, NEW l \in Labels \ {"copied"}, Goto(x, l),
           held' \in [Actors -> Holding], \A y \in Actors \ {x} : held'[y] = held[y],
           x \in Pods /\ "merge" \in held'[x].done =>
             "merge" \in held[x].done /\ held'[x].tags = held[x].tags
    PROVE  UpgradeInv'
<1>1. /\ pc'[x] = l /\ \A y \in Actors : y # x => pc'[y] = pc[y]
  BY GoesOn DEF UpgradeInv, Typed, TypeOK, Labels
<1>2. ASSUME NEW q \in Pods, Merging(q)'
      PROVE  Merging(q) /\ held'[q].tags = held[q].tags
  <2>0. q \in Actors  BY PodsAreActors
  <2>1. CASE q = x  BY <1>1, <1>2, <2>0, <2>1 DEF Merging
  <2>2. CASE q # x  BY <1>1, <1>2, <2>0, <2>2 DEF Merging
  <2> QED  BY <2>1, <2>2
<1> QED  BY <1>2, UpgradeSame

LEMMA UpgradeFail ==
    ASSUME UpgradeInv, Typed', NEW p \in Pods, Fail(p), older' = older
    PROVE  UpgradeInv'
<1>0. held \in [Actors -> Holding] /\ p \in Actors
  BY PodsAreActors DEF UpgradeInv, Typed, TypeOK, Holding
<1>1. /\ Goto(p, "list") /\ held' = [held EXCEPT ![p] = Nothing]
      /\ UNCHANGED <<recorded, tables, tagged, late>>
  BY DEF Fail, ghosts
<1>2. /\ held' \in [Actors -> Holding] /\ \A y \in Actors \ {p} : held'[y] = held[y]
      /\ held'[p] = Nothing
  BY <1>0, <1>1, NothingIsHeld
<1>3. "merge" \notin held'[p].done  BY <1>2 DEF Nothing
<1>4. "list" \in Labels \ {"copied"}  BY DEF Labels
<1> QED  BY <1>0, <1>1, <1>2, <1>3, <1>4, UpgradeStep

\* The rows of company_assets are copied, when nobody else merges.
LEMMA UpgradeCopy ==
    ASSUME UpgradeInv, NEW p \in Pods, CopyAssets(p)
    PROVE  UpgradeInv'
<1>0. /\ held \in [Actors -> Holding] /\ p \in Actors /\ Typed'
      /\ pc \in [Actors -> Labels]
  BY PodsAreActors, PodTypes DEF UpgradeInv, Typed, TypeOK, Holding, Pod, Labels
<1>1. CASE Fail(p) /\ UNCHANGED world
  BY <1>0, <1>1, UpgradeFail DEF world
<1>2. CASE ~(Fail(p) /\ UNCHANGED world)
  <2>1. /\ "merge" \notin recorded /\ ~Someone({"copied"}) /\ ~Locked("merge")
        /\ held' = [held EXCEPT ![p].tags = tags] /\ Goto(p, "copied")
        /\ UNCHANGED <<recorded, tables, reference, pending, world, ghosts>>
    BY <1>2 DEF CopyAssets
  <2>2. \A q \in Pods : ~Merging(q)  BY <2>1 DEF Merging, Someone, Locked
  <2>3. assets = {} /\ twins = Twins0 /\ tags \subseteq tagged
    BY <2>1 DEF UpgradeInv, Before
  <2>4. Keys(tagged \ late) \subseteq Keys(tags) \cup Keys(Twins0)
    <3>1. Stored = Twins0 \cup Physical(tags)  BY <2>3 DEF Stored
    <3>2. Keys(Stored) = Keys(Twins0) \cup Keys(tags)  BY <3>1, KeysUnion, KeysPhysical
    <3> QED  BY <3>2 DEF UpgradeInv
  <2>5. UNCHANGED <<recorded, grants, tags, twins, assets, older, tagged, late>>
    BY <2>1 DEF tables, world, ghosts
  <2>6. /\ Stored' = Stored /\ Twins0' = Twins0 /\ Old(OldGrants)' = Old(OldGrants)
        /\ Keys(tagged \ late)' = Keys(tagged \ late)
    BY <2>5 DEF Stored, Twins0, Old, Keys, Physical, Key
  <2>7. \A q \in Pods : Merging(q)' => q = p
    <3> SUFFICES ASSUME NEW q \in Pods, q # p PROVE ~Merging(q)'
      OBVIOUS
    <3>1. held'[q] = held[q]  BY <1>0, <2>1, PodsAreActors
    <3>2. pc'[q] = pc[q]  BY <1>0, <2>1, GoesOn, PodsAreActors DEF Labels
    <3> QED  BY <2>2, <3>1, <3>2 DEF Merging
  <2>8. MergesAreWhole'
    <3>1. held'[p].tags = tags  BY <1>0, <2>1 DEF Holding
    <3>2. Keys(Twins0)' = Keys(Twins0) /\ Keys(tagged \ late)' = Keys(tagged \ late)
      BY <2>6 DEF Keys, Key
    <3> SUFFICES ASSUME NEW q \in Pods, Merging(q)'
                 PROVE  /\ "merge" \notin recorded' /\ held'[q].tags \subseteq tagged'
                        /\ Keys(tagged \ late)' \subseteq Keys(held'[q].tags) \cup Keys(Twins0)'
                        /\ \A r \in Pods : Merging(r)' => q = r
      BY DEF MergesAreWhole, Keys, Key
    <3>3. q = p  BY <2>7
    <3> QED  BY <2>1, <2>3, <2>4, <2>5, <2>7, <3>1, <3>2, <3>3
  <2>9. Keys(Stored)' = Keys(Stored) /\ First(Old(OldGrants))' = First(Old(OldGrants))
    BY <2>6 DEF Keys, Key, First
  <2>10. Before'  BY <2>3, <2>5, <2>6 DEF Before
  <2> QED
    BY <1>0, <2>1, <2>5, <2>6, <2>8, <2>9, <2>10 DEF UpgradeInv
<1> QED  BY <1>1, <1>2

\* Whatever was merged is taken apart again.
LEMMA UpgradeRevertMerge ==
    ASSUME UpgradeInv, Typed', RevertMerge, UNCHANGED <<process, older>>
    PROVE  UpgradeInv'
<1>1. After /\ "merge" \in recorded  BY DEF UpgradeInv, RevertMerge
<1>2. \A q \in Pods : ~Merging(q)  BY <1>1 DEF UpgradeInv, MergesAreWhole
<1> DEFINE bare == {r \in assets : r.owner = None}
           bareTags == {[company |-> r.company, urn |-> r.urn] : r \in bare}
<1>3. /\ recorded' = recorded \ {"merge"} /\ tags' = bareTags
      /\ twins' = {r \in assets : r.owner # None} /\ assets' = {}
      /\ UNCHANGED <<grants, tagged, late>>
  BY DEF RevertMerge, ghosts
<1>4. twins' = Twins0 /\ bare \subseteq Physical(tagged) /\ assets = Twins0 \cup bare
  BY <1>1, <1>3 DEF After
<1>5. tagged \subseteq OldTags \cup NewTags  BY DEF UpgradeInv, Typed, TypeOK
<1>6. ASSUME NEW r \in bare PROVE [company |-> r.company, urn |-> r.urn] \in tagged
  <2>1. PICK s \in tagged : r = [company |-> s.company, urn |-> s.urn, owner |-> None]
    BY <1>4, PhysicalRows
  <2>2. [company |-> r.company, urn |-> r.urn] = s  BY <1>5, <2>1, TagsAre
  <2> QED  BY <2>2
<1>7. bareTags \subseteq tagged  BY <1>6
<1>8. Keys(bareTags) = Keys(bare)
  <2>1. ASSUME NEW k \in Keys(bare) PROVE k \in Keys(bareTags)
    <3>1. PICK r \in bare : k = Key(r)  BY <2>1 DEF Keys
    <3> DEFINE t == [company |-> r.company, urn |-> r.urn]
    <3>2. t \in bareTags /\ Key(t) = k  BY <3>1 DEF Key
    <3> QED  BY <3>2 DEF Keys
  <2>2. ASSUME NEW k \in Keys(bareTags) PROVE k \in Keys(bare)
    <3>1. PICK t \in bareTags : k = Key(t)  BY <2>2 DEF Keys
    <3>2. PICK r \in bare : t = [company |-> r.company, urn |-> r.urn]  BY <3>1
    <3>3. k = Key(r)  BY <3>1, <3>2 DEF Key
    <3> QED  BY <3>3 DEF Keys
  <2> QED  BY <2>1, <2>2
<1> HIDE DEF bare, bareTags
<1>9. Stored = assets  BY <1>1 DEF Stored, After, Physical
<1>10. Keys(Stored) = Keys(Twins0) \cup Keys(bare)
  BY <1>4, <1>9, KeysUnion
<1>11. Stored' = Twins0 \cup Physical(bareTags)
  <2>1. Physical(tags)' = Physical(bareTags)  BY <1>3 DEF Physical
  <2> QED  BY <1>3, <1>4, <2>1 DEF Stored
<1>12. Keys(Stored)' = Keys(Stored)
  <2>1. Keys(Twins0 \cup Physical(bareTags)) = Keys(Twins0) \cup Keys(bareTags)
    BY KeysUnion, KeysPhysical
  <2>2. Keys(Stored)' = Keys(Twins0 \cup Physical(bareTags))  BY <1>11 DEF Keys, Key
  <2> QED  BY <1>8, <1>10, <2>1, <2>2
<1>13. /\ Twins0' = Twins0 /\ Old(OldGrants)' = Old(OldGrants)
       /\ First(Old(OldGrants))' = First(Old(OldGrants))
       /\ Keys(tagged \ late)' = Keys(tagged \ late)
  BY <1>3 DEF Twins0, Old, First, Keys, Key
<1>14. Before'  BY <1>3, <1>4, <1>7, <1>13 DEF Before
<1>15. MergesAreWhole'
  <2>1. \A q \in Pods : ~Merging(q)'  BY <1>2 DEF Merging, process
  <2> QED  BY <2>1 DEF MergesAreWhole
<1> QED
  BY <1>3, <1>12, <1>13, <1>14, <1>15 DEF UpgradeInv

\* An asset is tagged; the pod that merges may have missed it.
LEMMA UpgradeTag ==
    ASSUME UpgradeInv, Typed', Tag
    PROVE  UpgradeInv'
<1>1. PICK r \in NewTags \ tags :
        /\ tags' = tags \cup {r} /\ tagged' = tagged \cup {r}
        /\ late' = IF Someone({"copied"}) THEN late \cup {r} ELSE late
  BY DEF Tag
<1>2. /\ "merge" \notin recorded /\ ~Locked("merge")
      /\ UNCHANGED <<recorded, grants, twins, assets, pc, held, older>>
  BY DEF Tag, process, world
<1>3. assets = {} /\ twins = Twins0 /\ tags \subseteq tagged
  BY <1>2 DEF UpgradeInv, Before
<1>4. Twins0' = Twins0 /\ Old(OldGrants)' = Old(OldGrants)
      /\ First(Old(OldGrants))' = First(Old(OldGrants))
  BY <1>2 DEF Twins0, Old, First
<1>5. Before'  BY <1>1, <1>2, <1>3, <1>4 DEF Before
<1>6. Stored = Twins0 \cup Physical(tags)  BY <1>3 DEF Stored
<1>7. Stored' = Twins0 \cup Physical(tags \cup {r})
  <2>1. Physical(tags)' = Physical(tags \cup {r})  BY <1>1 DEF Physical
  <2> QED  BY <1>2, <1>3, <2>1 DEF Stored
<1>8. Keys(Stored) = Keys(Twins0) \cup Keys(tags)  BY <1>6, KeysUnion, KeysPhysical
<1>9. Keys(Stored)' = Keys(Twins0) \cup Keys(tags) \cup Keys({r})
  <2>1. Keys(Stored)' = Keys(Twins0 \cup Physical(tags \cup {r}))  BY <1>7 DEF Keys, Key
  <2>2. Keys(Twins0 \cup Physical(tags \cup {r})) = Keys(Twins0) \cup Keys(Physical(tags \cup {r}))
    BY KeysUnion
  <2>3. Keys(Physical(tags \cup {r})) = Keys(tags \cup {r})  BY KeysPhysical
  <2>4. Keys(tags \cup {r}) = Keys(tags) \cup Keys({r})  BY KeysUnion
  <2> QED  BY <2>1, <2>2, <2>3, <2>4
<1> DEFINE new == tagged' \ late'
<1>10. Keys(tagged \ late)' = Keys(new)  BY DEF Keys, Key
<1>11. /\ new \subseteq (tagged \ late) \cup {r}
       /\ Someone({"copied"}) => new \subseteq tagged \ late
  BY <1>1
<1> HIDE DEF new
<1>12. Keys(new) \subseteq Keys(tagged \ late) \cup Keys({r})
  <2>1. Keys(new) \subseteq Keys((tagged \ late) \cup {r})  BY <1>11, KeysMonotone
  <2>2. Keys((tagged \ late) \cup {r}) = Keys(tagged \ late) \cup Keys({r})  BY KeysUnion
  <2> QED  BY <2>1, <2>2
<1>13. Keys(tagged \ late)' \subseteq Keys(Stored)'
  BY <1>8, <1>9, <1>10, <1>12 DEF UpgradeInv
<1>14. MergesAreWhole'
  <2> SUFFICES ASSUME NEW p \in Pods, Merging(p)'
               PROVE  /\ "merge" \notin recorded' /\ held'[p].tags \subseteq tagged'
                      /\ Keys(tagged \ late)' \subseteq Keys(held'[p].tags) \cup Keys(Twins0)'
                      /\ \A q \in Pods : Merging(q)' => p = q
    BY DEF MergesAreWhole, Keys, Key
  <2>1. Merging(p) /\ \A q \in Pods : Merging(q)' => Merging(q)
    BY <1>2 DEF Merging
  <2>2. /\ held[p].tags \subseteq tagged
        /\ Keys(tagged \ late) \subseteq Keys(held[p].tags) \cup Keys(Twins0)
        /\ \A q \in Pods : Merging(q) => p = q
    BY <2>1 DEF UpgradeInv, MergesAreWhole
  <2>3. Someone({"copied"})
    BY <1>2, <2>1 DEF Merging, Someone, Locked
  <2>4. Keys(new) \subseteq Keys(tagged \ late)  BY <1>11, <2>3, KeysMonotone
  <2>5. Keys(Twins0)' = Keys(Twins0)  BY <1>4 DEF Keys, Key
  <2> QED  BY <1>1, <1>2, <1>10, <2>1, <2>2, <2>4, <2>5
<1> QED  BY <1>2, <1>4, <1>5, <1>13, <1>14 DEF UpgradeInv

LEMMA UpgradePod ==
    ASSUME UpgradeInv, NEW p \in Pods, Pod(p)
    PROVE  UpgradeInv'
<1>0. /\ held \in [Actors -> Holding] /\ p \in Actors /\ Typed'
  BY PodsAreActors, PodTypes DEF UpgradeInv, Typed, TypeOK, Holding
<1>1. ASSUME NEW l \in {"run", "index", "insert", "up"}, Goto(p, l), held' = held,
             UNCHANGED <<recorded, tables, world, ghosts>>
      PROVE  UpgradeInv'
  <2>1. l \in Labels \ {"copied"}  BY DEF Labels
  <2> QED  BY <1>0, <1>1, <2>1, UpgradeStep DEF world, ghosts
<1>2. ASSUME Fail(p), UNCHANGED world PROVE UpgradeInv'
  BY <1>0, <1>2, UpgradeFail DEF world
<1>3. CASE List(p)  BY <1>1, <1>3 DEF List
<1>4. CASE CreateTables(p)
  BY <1>2, <1>4, UpgradeThrough DEF CreateTables, Migrations
<1>5. CASE CopyAssets(p)  BY <1>5, UpgradeCopy
<1>6. CASE Merge(p)
  <2>1. Through(p, "merge") /\ Merging(p) /\ "merge" \in Migrations
    BY <1>6 DEF Merge, Merging, Migrations
  <2> QED  BY <2>1, UpgradeThrough
<1>7. CASE Dedupe(p)
  <2>1. /\ Goto(p, "deduped") /\ held' = [held EXCEPT ![p].ids = Doubles]
        /\ UNCHANGED <<recorded, tables, world, ghosts>>
    BY <1>7 DEF Dedupe
  <2>2. /\ held' \in [Actors -> Holding] /\ \A y \in Actors \ {p} : held'[y] = held[y]
        /\ held'[p].done = held[p].done /\ held'[p].tags = held[p].tags
    BY <1>0, <2>1 DEF Holding, Typed, TypeOK
  <2>3. "deduped" \in Labels \ {"copied"}  BY DEF Labels
  <2> QED  BY <1>0, <2>1, <2>2, <2>3, UpgradeStep DEF world, ghosts
<1>8. CASE AskForIndex(p)  BY <1>1, <1>8 DEF AskForIndex
<1>9. CASE CreateIndex(p)  BY <1>1, <1>2, <1>9 DEF CreateIndex
<1>10. CASE Deadlock(p)  BY <1>2, <1>10 DEF Deadlock
<1>11. CASE InsertCategories(p)
  <2>1. Through(p, "seed") /\ pending[p] = {"seed"} /\ "seed" \in Migrations
    BY <1>11 DEF InsertCategories, UpgradeInv, Typed, Seeding, Migrations
  <2> QED  BY <2>1, UpgradeThrough
<1>12. CASE Start(p)  BY <1>1, <1>12 DEF Start
<1> QED
  BY <1>3, <1>4, <1>5, <1>6, <1>7, <1>8, <1>9, <1>10, <1>11, <1>12 DEF Pod

LEMMA UpgradeNext == UpgradeInv /\ [Next]_vars => UpgradeInv'
<1> SUFFICES ASSUME UpgradeInv, [Next]_vars PROVE UpgradeInv'
  OBVIOUS
<1>0. /\ Typed' /\ held \in [Actors -> Holding] /\ pc \in [Actors -> Labels]
  BY SetupTypesNext DEF UpgradeInv, Typed, TypeOK, Holding, Labels
<1>1. CASE UNCHANGED vars
  BY <1>0, <1>1, UpgradeSame DEF vars, tables, process, world, ghosts, Merging
<1>2. ASSUME NEW p \in Pods, Dies(p) PROVE UpgradeInv'
  BY <1>0, <1>2, UpgradeFail DEF Dies
<1>3. CASE Revert
  <2>1. UNCHANGED <<process, older>>  BY <1>3 DEF Revert
  <2>2. CASE RevertSeed
    BY <1>0, <2>1, <2>2, UpgradeSame DEF RevertSeed, process, Merging
  <2>3. CASE RevertMerge  BY <1>0, <2>1, <2>3, UpgradeRevertMerge
  <2> QED  BY <1>3, <2>2, <2>3 DEF Revert
<1>4. ASSUME NEW x \in Scripts \cup Companies, NEW l \in Labels \ {"copied"}, Goto(x, l),
             \A y \in Actors \ {x} : held'[y] = held[y],
             UNCHANGED <<recorded, tables, older, tagged, late>>
      PROVE  UpgradeInv'
  <2>1. x \in Actors /\ x \notin Pods /\ held' \in [Actors -> Holding]
    BY <1>0, SetupAssumption, PodsAreActors DEF Typed, TypeOK, Holding
  <2> QED  BY <1>0, <1>4, <2>1, UpgradeStep
<1>5. {"seeding", "done", "failed", "saving"} \subseteq Labels \ {"copied"}  BY DEF Labels
<1>6. ASSUME NEW s \in Scripts, SaveTemplates(s) PROVE UpgradeInv'
  BY <1>4, <1>5, <1>6 DEF SaveTemplates, world, ghosts
<1>7. ASSUME NEW s \in Scripts, SaveCategories(s) PROVE UpgradeInv'
  BY <1>4, <1>5, <1>7 DEF SaveCategories, world, ghosts
<1>8. ASSUME NEW c \in Companies, FindCategory(c) PROVE UpgradeInv'
  <2>1. /\ UNCHANGED <<recorded, tables, world, ghosts>>
        /\ \/ Goto(c, "failed") /\ held' = held
           \/ Goto(c, "saving") /\ \E r \in categories : held' = [held EXCEPT ![c].ids = {r.id}]
    BY <1>8 DEF FindCategory
  <2>2. \A y \in Actors \ {c} : held'[y] = held[y]  BY <1>0, <2>1
  <2> QED  BY <1>4, <1>5, <2>1, <2>2 DEF world, ghosts
<1>9. ASSUME NEW c \in Companies, SaveMapping(c) PROVE UpgradeInv'
  <2>1. /\ UNCHANGED <<recorded, tables, world, ghosts>> /\ Goto(c, "done")
        /\ held' = [held EXCEPT ![c] = Nothing]
    BY <1>9 DEF SaveMapping
  <2>2. \A y \in Actors \ {c} : held'[y] = held[y]  BY <1>0, <2>1
  <2> QED  BY <1>4, <1>5, <2>1, <2>2 DEF world, ghosts
<1>10. CASE Tag  BY <1>0, <1>10, UpgradeTag
<1> QED
  BY <1>1, <1>2, <1>3, <1>6, <1>7, <1>8, <1>9, <1>10, UpgradePod DEF Next, Requests

\* MergeAssetsRetireProductRbac: wherever a pod dies, and whoever else migrates,
\* reverts or tags meanwhile, no asset is lost or there twice, no twin is changed, and
\* every user keeps one grant.
THEOREM UpgradesKeep == Spec => []UpgradesKeepWhatWasThere
BY UpgradeInit, UpgradeNext, UpgradeKeeps, PTL DEF Spec

-----------------------------------------------------------------------------
(* Setup: the categories.                                                  *)

\* The _ids that are, or have been accounted for.
Known(i) == i \in RowIds \cup doubled \cup undone

\* A pod that seeds deletes only rows with an older one of their name, and inserts
\* alone, into what has its unique index; a registration saves what it knows.
SeedInv ==
    /\ Typed
    /\ CategoriesAreKept
    /\ \A p \in Pods : pc[p] \in Seeding => held[p].ids \subseteq Doubles
    /\ \A p \in Pods : pc[p] = "insert" =>
         HasIndex(p) /\ \A q \in Pods : pc[q] \in Seeding => p = q
    /\ \A c \in Companies : \A i \in held[c].ids : Known(i)

LEMMA SeedKeeps == SeedInv => CategoriesAreKept
BY DEF SeedInv

\* Whatever a company is mapped to is accounted for.
LEMMA MappingsAreKnown ==
    ASSUME SeedInv, NEW c \in Companies
    PROVE  mappings[c] = None \/ Known(mappings[c])
BY DEF SeedInv, CategoriesAreKept, Known, RowIds

\* Somebody goes on; the categories stay as they are.
LEMMA SeedSame ==
    ASSUME SeedInv, Typed', UNCHANGED <<categories, index, doubled, undone>>,
           "seed" \in recorded' => "seed" \in recorded,
           NEW x \in Actors,
           \A y \in Actors \ {x} : pc'[y] = pc[y] /\ held'[y] = held[y],
           x \in Pods /\ pc'[x] \in Seeding =>
             /\ held'[x].ids \subseteq Doubles
             /\ pc[x] \in Seeding \/ \A q \in Pods : pc[q] # "insert",
           x \in Pods /\ pc'[x] = "insert" =>
             HasIndex(x)' /\ \A q \in Pods \ {x} : pc[q] \notin Seeding,
           x \in Companies => \A i \in held'[x].ids : Known(i),
           \A c \in Companies : mappings'[c] = mappings[c] \/ Known(mappings'[c])
    PROVE  SeedInv'
<1>1. RowIds' = RowIds /\ \A i : Known(i)' <=> Known(i)
  BY DEF RowIds, Known
<1>2. Doubles' = Doubles  BY DEF Doubles, Older
<1>3. CategoriesAreKept'
  <2>1. "seed" \in recorded' =>
          /\ index'
          /\ \A n \in Names : \E r \in categories' : r.name = n
          /\ \A r, s \in categories' : r.name = s.name => r = s
    BY DEF SeedInv, CategoriesAreKept
  <2>2. \A c \in Companies : mappings'[c] = None \/ Known(mappings'[c])
    BY MappingsAreKnown
  <2> QED  BY <2>1, <2>2 DEF CategoriesAreKept, Known, RowIds
<1>4. ASSUME NEW p \in Pods, pc'[p] \in Seeding PROVE held'[p].ids \subseteq Doubles'
  <2>1. CASE p = x  BY <1>2, <1>4, <2>1
  <2>2. CASE p # x
    <3>1. pc'[p] = pc[p] /\ held'[p] = held[p]  BY <2>2, PodsAreActors
    <3> QED  BY <1>2, <1>4, <3>1 DEF SeedInv
  <2> QED  BY <2>1, <2>2
<1>5. ASSUME NEW p \in Pods, pc'[p] = "insert"
      PROVE  HasIndex(p)' /\ \A q \in Pods : pc'[q] \in Seeding => p = q
  <2>1. CASE p = x
    <3>1. HasIndex(p)'  BY <1>5, <2>1
    <3>2. \A q \in Pods \ {x} : pc'[q] \notin Seeding  BY <1>5, <2>1, PodsAreActors
    <3> QED  BY <2>1, <3>1, <3>2
  <2>2. CASE p # x
    <3>1. pc'[p] = pc[p] /\ held'[p] = held[p]  BY <2>2, PodsAreActors
    <3>2. HasIndex(p) /\ \A q \in Pods : pc[q] \in Seeding => p = q
      BY <1>5, <3>1 DEF SeedInv
    <3>3. HasIndex(p)'  BY <3>1, <3>2 DEF HasIndex, Kept
    <3>4. x \in Pods => pc'[x] \notin Seeding  BY <1>5, <2>2, <3>1, <3>2
    <3>5. \A q \in Pods \ {x} : pc'[q] \in Seeding => p = q  BY <3>2, PodsAreActors
    <3> QED  BY <3>3, <3>4, <3>5
  <2> QED  BY <2>1, <2>2
<1>6. ASSUME NEW c \in Companies, NEW i \in held'[c].ids PROVE Known(i)'
  <2>1. CASE c = x  BY <1>1, <2>1
  <2>2. CASE c # x
    <3>1. held'[c] = held[c]  BY <2>2, PodsAreActors
    <3> QED  BY <1>1, <3>1 DEF SeedInv
  <2> QED  BY <2>1, <2>2
<1> QED  BY <1>3, <1>4, <1>5, <1>6 DEF SeedInv

\* The seed becomes visible: what it deletes had an older row of its name.
LEMMA SeedInsert ==
    ASSUME SeedInv, NEW p \in Pods, InsertCategories(p)
    PROVE  SeedInv'
<1> DEFINE missing == Names \ {r.name : r \in Kept(p)}
<1>0. /\ Typed' /\ pending[p] = {"seed"} /\ p \in Actors
      /\ held \in [Actors -> Holding] /\ pc \in [Actors -> Labels] /\ fresh \in Nat
      /\ pc[p] = "insert"
  BY PodTypes, PodsAreActors
  DEF SeedInv, Pod, InsertCategories, Typed, TypeOK, Seeding, Holding, Labels
<1>1. /\ HasIndex(p) /\ \A q \in Pods : pc[q] \in Seeding => p = q
      /\ held[p].ids \subseteq Doubles
  BY <1>0 DEF SeedInv, Seeding
<1>2. /\ Through(p, "seed") /\ Commit(p, held[p].done \cup {"seed"})
  BY <1>0 DEF InsertCategories, Through
<1>3. /\ categories' = Kept(p) \cup NewRows(missing) /\ index' = TRUE
      /\ doubled' = doubled \cup Doubles /\ undone' = undone /\ mappings' = mappings
      /\ held' = [held EXCEPT ![p] = Nothing]
  BY <1>2 DEF Commit, Through, Doubles
<1>4. /\ NewRows(missing) \subseteq [id : Nat, name : missing]
      /\ \A r, s \in NewRows(missing) : r.name = s.name => r = s
      /\ \A n \in missing : \E r \in NewRows(missing) : r.name = n
  BY <1>0, NewRowsAre
<1>5. \A n \in Names : \E r \in categories' : r.name = n
  <2> SUFFICES ASSUME NEW n \in Names PROVE \E r \in categories' : r.name = n
    OBVIOUS
  <2>1. CASE n \in missing  BY <1>3, <1>4, <2>1
  <2>2. CASE n \notin missing
    <3>1. PICK r \in Kept(p) : r.name = n  BY <2>2
    <3> QED  BY <1>3, <3>1
  <2> QED  BY <2>1, <2>2
<1>6. ASSUME NEW r \in categories', NEW s \in categories', r.name = s.name PROVE r = s
  <2>1. \A k \in Kept(p), n \in NewRows(missing) : k.name # n.name  BY <1>4
  <2>2. CASE r \in Kept(p) /\ s \in Kept(p)  BY <1>1, <1>6, <2>2 DEF HasIndex
  <2>3. CASE r \in NewRows(missing) /\ s \in NewRows(missing)  BY <1>4, <1>6, <2>3
  <2> HIDE DEF missing
  <2> QED  BY <1>3, <1>6, <2>1, <2>2, <2>3
<1> HIDE DEF missing
<1>7. ASSUME NEW i, Known(i) PROVE Known(i)'
  <2>1. CASE i \in doubled \cup undone  BY <1>3, <2>1 DEF Known
  <2>2. CASE i \in RowIds
    <3>1. PICK r \in categories : r.id = i  BY <2>2 DEF RowIds
    <3>2. CASE i \in held[p].ids  BY <1>1, <1>3, <3>2 DEF Known
    <3>3. CASE i \notin held[p].ids
      <4>1. r \in categories'  BY <1>3, <3>1, <3>3 DEF Kept
      <4>2. i \in RowIds'  BY <3>1, <4>1 DEF RowIds
      <4> QED  BY <4>2 DEF Known
    <3> QED  BY <3>2, <3>3
  <2> QED  BY <1>7, <2>1, <2>2 DEF Known
<1>8. \A c \in Companies : mappings'[c] = None \/ Known(mappings[c])'
  BY <1>3, <1>7, MappingsAreKnown
<1>9. CategoriesAreKept'
  <2>1. ASSUME NEW c \in Companies, mappings'[c] # None, mappings'[c] \notin (doubled \cup undone)'
        PROVE  \E r \in categories' : r.id = mappings'[c]
    BY <1>8, <2>1 DEF Known, RowIds
  <2> QED  BY <1>3, <1>5, <1>6, <2>1 DEF CategoriesAreKept
<1>10. \A q \in Pods : pc'[q] \notin Seeding
  <2> SUFFICES ASSUME NEW q \in Pods PROVE pc'[q] \notin Seeding
    OBVIOUS
  <2>1. Goto(p, "run")  BY <1>2 DEF Through
  <2>2. pc'[p] = "run" /\ (q # p => pc'[q] = pc[q])
    BY <1>0, <2>1, GoesOn, PodsAreActors DEF Labels
  <2> QED  BY <1>1, <2>2 DEF Seeding
<1>11. ASSUME NEW c \in Companies, NEW i \in held'[c].ids PROVE Known(i)'
  <2>1. held'[c] = held[c]  BY <1>0, <1>3, SetupAssumption, PodsAreActors
  <2> QED  BY <1>7, <2>1, <1>11 DEF SeedInv
<1> QED  BY <1>0, <1>9, <1>10, <1>11 DEF SeedInv, Seeding

LEMMA SeedRevert ==
    ASSUME SeedInv, Typed', RevertSeed, UNCHANGED process
    PROVE  SeedInv'
<1>1. /\ \A q \in Pods : pc[q] \notin Seeding
      /\ recorded' = recorded \ {"seed"}
      /\ categories' = {r \in categories : r.name \notin Names}
      /\ undone' = undone \cup {r.id : r \in {r \in categories : r.name \in Names}}
      /\ UNCHANGED <<mappings, doubled, pc, held>>
  BY DEF RevertSeed, Someone, Seeding, process
<1>2. ASSUME NEW i, Known(i) PROVE Known(i)'
  <2>1. CASE i \in doubled \cup undone  BY <1>1, <2>1 DEF Known
  <2>2. CASE i \in RowIds
    <3>1. PICK r \in categories : r.id = i  BY <2>2 DEF RowIds
    <3>2. CASE r.name \in Names
      <4>1. i \in undone'  BY <1>1, <3>1, <3>2
      <4> QED  BY <4>1 DEF Known
    <3>3. CASE r.name \notin Names
      <4>1. i \in RowIds'  BY <1>1, <3>1, <3>3 DEF RowIds
      <4> QED  BY <4>1 DEF Known
    <3> QED  BY <3>2, <3>3
  <2> QED  BY <1>2, <2>1, <2>2 DEF Known
<1>3. ASSUME NEW c \in Companies, mappings'[c] # None, mappings'[c] \notin (doubled \cup undone)'
      PROVE  \E r \in categories' : r.id = mappings'[c]
  <2>1. Known(mappings[c])'  BY <1>1, <1>2, <1>3, MappingsAreKnown
  <2> QED  BY <1>3, <2>1 DEF Known, RowIds
<1>4. CategoriesAreKept'  BY <1>1, <1>3 DEF CategoriesAreKept
<1>5. \A c \in Companies : \A i \in held'[c].ids : Known(i)'  BY <1>1, <1>2 DEF SeedInv
<1>6. \A q \in Pods : pc'[q] \notin Seeding  BY <1>1
<1> QED  BY <1>4, <1>5, <1>6 DEF SeedInv, Seeding

\* A script adds rows only where they are not the second of their name in an index.
LEMMA SeedSaveCategories ==
    ASSUME SeedInv, Typed', NEW s \in Scripts, SaveCategories(s)
    PROVE  SeedInv'
<1>0. /\ pc \in [Actors -> Labels] /\ s \in Actors /\ s \notin Pods /\ fresh \in Nat
  BY PodsAreActors, SetupAssumption DEF SeedInv, Typed, TypeOK, Labels
<1>1. /\ \A q \in Pods : pc[q] \notin {"index", "insert"}
      /\ Goto(s, "failed") \/ Goto(s, "done")
      /\ UNCHANGED <<recorded, index, mappings, held, doubled, undone>>
  BY DEF SaveCategories, Someone, ghosts
<1>2. \A q \in Pods : pc'[q] = pc[q]
  BY <1>0, <1>1, GoesOn, PodsAreActors DEF Labels
<1>3. /\ categories \subseteq categories' /\ categories' \subseteq categories \cup NewRows(Names)
      /\ "seed" \in recorded => categories' = categories
  <2>1. categories' = categories \/ categories' = categories \cup NewRows(Names)
    BY DEF SaveCategories
  <2>2. CASE "seed" \in recorded /\ Names # {}
    <3>1. index /\ \E r \in categories : r.name \in Names
      BY <2>2 DEF SeedInv, CategoriesAreKept
    <3> QED  BY <3>1 DEF SaveCategories
  <2>3. CASE Names = {}
    <3>1. NewRows(Names) = {}  BY <2>3 DEF NewRows
    <3> QED  BY <2>1, <3>1
  <2> QED  BY <2>1, <2>2, <2>3
<1>4. Doubles \subseteq Doubles'
  <2> SUFFICES ASSUME NEW i \in Doubles PROVE i \in Doubles'
    OBVIOUS
  <2>1. PICK r \in categories : r.id = i /\ \E t \in categories : t.name = r.name /\ t.id < r.id
    BY DEF Doubles, Older
  <2>2. r \in categories' /\ \E t \in categories' : t.name = r.name /\ t.id < r.id
    BY <1>3, <2>1
  <2> QED  BY <2>1, <2>2 DEF Doubles, Older
<1>5. \A i : Known(i) => Known(i)'
  BY <1>1, <1>3 DEF Known, RowIds
<1>6. CategoriesAreKept'
  <2>1. "seed" \in recorded' =>
          /\ index'
          /\ \A n \in Names : \E r \in categories' : r.name = n
          /\ \A r, t \in categories' : r.name = t.name => r = t
    BY <1>1, <1>3 DEF SeedInv, CategoriesAreKept
  <2>2. ASSUME NEW c \in Companies, mappings'[c] # None,
               mappings'[c] \notin (doubled \cup undone)'
        PROVE  \E r \in categories' : r.id = mappings'[c]
    <3>1. Known(mappings[c])'  BY <1>1, <1>5, <2>2, MappingsAreKnown
    <3> QED  BY <2>2, <3>1 DEF Known, RowIds
  <2> QED  BY <2>1, <2>2 DEF CategoriesAreKept
<1>7. \A p \in Pods : pc'[p] \in Seeding => held'[p].ids \subseteq Doubles'
  BY <1>1, <1>2, <1>4 DEF SeedInv
<1>8. \A p \in Pods : pc'[p] # "insert"  BY <1>1, <1>2
<1>9. \A c \in Companies : \A i \in held'[c].ids : Known(i)'  BY <1>1, <1>5 DEF SeedInv
<1> QED  BY <1>6, <1>7, <1>8, <1>9 DEF SeedInv

\* A pod goes on that does not seed: it begins again, or has another migration through.
LEMMA SeedAside ==
    ASSUME SeedInv, Typed', NEW p \in Pods, NEW l \in Labels \ Seeding, Goto(p, l),
           \A y \in Actors \ {p} : held'[y] = held[y],
           UNCHANGED <<categories, index, mappings, doubled, undone>>,
           "seed" \in recorded' => "seed" \in recorded
    PROVE  SeedInv'
<1>1. p \in Actors /\ p \notin Companies /\ pc \in [Actors -> Labels]
  BY PodsAreActors, SetupAssumption DEF SeedInv, Typed, TypeOK, Labels
<1>2. pc'[p] = l /\ \A y \in Actors \ {p} : pc'[y] = pc[y]
  BY <1>1, GoesOn
<1>3. pc'[p] # "insert" /\ pc'[p] \notin Seeding  BY <1>2 DEF Seeding
<1> QED  BY <1>1, <1>2, <1>3, SeedSame

\* Nothing that the categories are about changes.
LEMMA SeedUnchanged ==
    ASSUME SeedInv, Typed', "seed" \in recorded' => "seed" \in recorded,
           UNCHANGED <<categories, index, mappings, doubled, undone, pc, held>>
    PROVE  SeedInv'
<1>1. RowIds' = RowIds /\ Doubles' = Doubles /\ \A i : Known(i)' <=> Known(i)
  BY DEF RowIds, Doubles, Older, Known
<1>2. \A p \in Pods : HasIndex(p)' <=> HasIndex(p)  BY DEF HasIndex, Kept
<1>3. CategoriesAreKept'  BY DEF SeedInv, CategoriesAreKept
<1> QED  BY <1>1, <1>2, <1>3 DEF SeedInv

LEMMA SeedFail ==
    ASSUME SeedInv, Typed', NEW p \in Pods, Fail(p)
    PROVE  SeedInv'
<1>1. held \in [Actors -> Holding]  BY DEF SeedInv, Typed, TypeOK, Holding
<1>2. /\ Goto(p, "list") /\ \A y \in Actors \ {p} : held'[y] = held[y]
      /\ UNCHANGED <<recorded, categories, index, mappings, doubled, undone>>
  BY <1>1 DEF Fail, reference, ghosts
<1>3. "list" \in Labels \ Seeding  BY DEF Labels, Seeding
<1> QED  BY <1>2, <1>3, SeedAside

LEMMA SeedThrough ==
    ASSUME SeedInv, Typed', NEW p \in Pods, NEW m \in {"tables", "merge"}, Through(p, m)
    PROVE  SeedInv'
<1>0. held \in [Actors -> Holding] /\ held[p] \in Holding
  BY PodsAreActors DEF SeedInv, Typed, TypeOK, Holding
<1>1. Goto(p, "run") /\ UNCHANGED <<mappings, undone>>  BY DEF Through
<1>2. "run" \in Labels \ Seeding  BY DEF Labels, Seeding
<1>3. /\ \A y \in Actors \ {p} : held'[y] = held[y]
      /\ UNCHANGED <<categories, index, doubled>>
      /\ "seed" \in recorded' => "seed" \in recorded
  <2>1. CASE Commit(p, held[p].done \cup {m})
    <3>1. "seed" \notin held[p].done \cup {m}  BY <1>0 DEF Holding
    <3>2. /\ recorded' = recorded \cup (held[p].done \cup {m})
          /\ UNCHANGED <<categories, index, doubled>>
          /\ held' = [held EXCEPT ![p] = Nothing]
      BY <2>1, <3>1 DEF Commit
    <3> QED  BY <1>0, <3>1, <3>2
  <2>2. CASE ~Commit(p, held[p].done \cup {m})
    <3>1. /\ held' = [held EXCEPT ![p].done = @ \cup {m}]
          /\ UNCHANGED <<recorded, categories, index, doubled>>
      BY <2>2 DEF Through
    <3> QED  BY <1>0, <3>1
  <2> QED  BY <2>1, <2>2
<1> QED  BY <1>1, <1>2, <1>3, SeedAside

LEMMA SeedPod ==
    ASSUME SeedInv, NEW p \in Pods, Pod(p)
    PROVE  SeedInv'
<1>0. /\ held \in [Actors -> Holding] /\ p \in Actors /\ Typed' /\ p \notin Companies
      /\ pc \in [Actors -> Labels]
  BY PodsAreActors, PodTypes, SetupAssumption DEF SeedInv, Typed, TypeOK, Holding, Labels
<1>1. {"run", "up", "copied"} \subseteq Labels \ Seeding
      /\ {"deduped", "index", "insert"} \subseteq Labels
  BY DEF Labels, Seeding
<1>2. ASSUME Fail(p) PROVE SeedInv'  BY <1>0, <1>2, SeedFail
<1>3. CASE List(p)
  BY <1>0, <1>1, <1>3, SeedAside DEF List, reference, ghosts
<1>4. CASE CreateTables(p)
  BY <1>0, <1>2, <1>4, SeedThrough DEF CreateTables
<1>5. CASE CopyAssets(p)
  <2>1. CASE Fail(p)  BY <1>2, <2>1
  <2>2. CASE ~Fail(p)
    <3>1. /\ held' = [held EXCEPT ![p].tags = tags] /\ Goto(p, "copied")
          /\ UNCHANGED <<recorded, reference, ghosts>>
      BY <1>5, <2>2 DEF CopyAssets
    <3>2. \A y \in Actors \ {p} : held'[y] = held[y]  BY <1>0, <3>1
    <3> QED  BY <1>0, <1>1, <3>1, <3>2, SeedAside DEF reference, ghosts
  <2> QED  BY <2>1, <2>2
<1>6. CASE Merge(p)
  BY <1>0, <1>6, SeedThrough DEF Merge
<1>7. CASE Dedupe(p)
  <2>1. /\ \A q \in Pods : pc[q] \notin {"index", "insert"}
        /\ held' = [held EXCEPT ![p].ids = Doubles] /\ Goto(p, "deduped")
        /\ UNCHANGED <<recorded, categories, index, mappings, doubled, undone>>
    BY <1>7 DEF Dedupe, Someone, reference, ghosts
  <2>2. /\ held'[p].ids \subseteq Doubles /\ \A y \in Actors \ {p} : held'[y] = held[y]
    BY <1>0, <2>1 DEF Holding
  <2>3. pc'[p] = "deduped" /\ \A y \in Actors \ {p} : pc'[y] = pc[y]
    BY <1>0, <1>1, <2>1, GoesOn
  <2> QED  BY <1>0, <2>1, <2>2, <2>3, SeedSame
<1>8. CASE AskForIndex(p)
  <2>1. /\ pc[p] = "deduped" /\ Goto(p, "index") /\ held' = held
        /\ UNCHANGED <<recorded, categories, index, mappings, doubled, undone>>
    BY <1>8 DEF AskForIndex, reference, ghosts
  <2>2. pc'[p] = "index" /\ \A y \in Actors \ {p} : pc'[y] = pc[y]
    BY <1>0, <1>1, <2>1, GoesOn
  <2>3. pc[p] \in Seeding /\ held'[p].ids \subseteq Doubles
    BY <2>1 DEF SeedInv, Seeding
  <2> QED  BY <1>0, <2>1, <2>2, <2>3, SeedSame
<1>9. CASE CreateIndex(p)
  <2>1. CASE Fail(p)  BY <1>2, <2>1
  <2>2. CASE ~Fail(p)
    <3>1. /\ pc[p] = "index" /\ Goto(p, "insert") /\ held' = held /\ HasIndex(p)
          /\ \A q \in Pods \ {p} : pc[q] \notin {"deduped", "index"}
          /\ UNCHANGED <<recorded, categories, index, mappings, doubled, undone>>
      BY <1>9, <2>2 DEF CreateIndex, reference, ghosts
    <3>2. pc'[p] = "insert" /\ \A y \in Actors \ {p} : pc'[y] = pc[y]
      BY <1>0, <1>1, <3>1, GoesOn
    <3>3. pc[p] \in Seeding /\ held'[p].ids \subseteq Doubles
      BY <3>1 DEF SeedInv, Seeding
    <3>4. \A q \in Pods \ {p} : pc[q] \notin Seeding
      BY <3>1, <3>3 DEF SeedInv, Seeding
    <3>5. HasIndex(p)'  BY <3>1 DEF HasIndex, Kept
    <3> QED  BY <1>0, <3>1, <3>2, <3>3, <3>4, <3>5, SeedSame
  <2> QED  BY <2>1, <2>2
<1>10. CASE Deadlock(p)  BY <1>2, <1>10 DEF Deadlock
<1>11. CASE InsertCategories(p)  BY <1>11, SeedInsert
<1>12. CASE Start(p)
  BY <1>0, <1>1, <1>12, SeedAside DEF Start, reference, ghosts
<1> QED
  BY <1>3, <1>4, <1>5, <1>6, <1>7, <1>8, <1>9, <1>10, <1>11, <1>12 DEF Pod

LEMMA SeedRequests ==
    ASSUME SeedInv, Typed', Requests
    PROVE  SeedInv'
<1>0. /\ held \in [Actors -> Holding] /\ pc \in [Actors -> Labels]
      /\ Pods \cap Scripts = {} /\ Pods \cap Companies = {} /\ Scripts \cap Companies = {}
  BY SetupAssumption DEF SeedInv, Typed, TypeOK, Holding, Labels
<1>1. {"seeding", "failed", "saving", "done"} \subseteq Labels  BY DEF Labels
<1>2. ASSUME NEW s \in Scripts, SaveTemplates(s) PROVE SeedInv'
  <2>1. /\ Goto(s, "seeding")
        /\ UNCHANGED <<recorded, categories, index, mappings, held, doubled, undone>>
    BY <1>2 DEF SaveTemplates, ghosts
  <2>2. s \in Actors /\ s \notin Pods /\ s \notin Companies  BY <1>0, PodsAreActors
  <2>3. \A y \in Actors \ {s} : pc'[y] = pc[y]  BY <1>0, <1>1, <2>1, <2>2, GoesOn
  <2> QED  BY <2>1, <2>2, <2>3, SeedSame
<1>3. ASSUME NEW s \in Scripts, SaveCategories(s) PROVE SeedInv'
  BY <1>3, SeedSaveCategories
<1>4. ASSUME NEW c \in Companies, FindCategory(c) PROVE SeedInv'
  <2>1. /\ UNCHANGED <<recorded, categories, index, mappings, doubled, undone>>
        /\ \/ Goto(c, "failed") /\ held' = held
           \/ Goto(c, "saving") /\ \E r \in categories : held' = [held EXCEPT ![c].ids = {r.id}]
    BY <1>4 DEF FindCategory, reference, ghosts
  <2>2. c \in Actors /\ c \notin Pods  BY <1>0, PodsAreActors
  <2>3. \A y \in Actors \ {c} : pc'[y] = pc[y] /\ held'[y] = held[y]
    BY <1>0, <1>1, <2>1, <2>2, GoesOn
  <2>4. \A i \in held'[c].ids : Known(i)
    <3>1. CASE held' = held  BY <3>1 DEF SeedInv
    <3>2. CASE \E r \in categories : held' = [held EXCEPT ![c].ids = {r.id}]
      <4>1. PICK r \in categories : held' = [held EXCEPT ![c].ids = {r.id}]  BY <3>2
      <4>2. held'[c].ids = {r.id}  BY <1>0, <2>2, <4>1 DEF Holding
      <4> QED  BY <4>1, <4>2 DEF Known, RowIds
    <3> QED  BY <2>1, <3>1, <3>2
  <2> QED  BY <2>1, <2>2, <2>3, <2>4, SeedSame
<1>5. ASSUME NEW c \in Companies, SaveMapping(c) PROVE SeedInv'
  <2>1. /\ UNCHANGED <<recorded, categories, index, doubled, undone>> /\ Goto(c, "done")
        /\ held' = [held EXCEPT ![c] = Nothing]
        /\ \E i \in held[c].ids : mappings' = [mappings EXCEPT ![c] = i]
    BY <1>5 DEF SaveMapping, ghosts
  <2>2. c \in Actors /\ c \notin Pods  BY <1>0, PodsAreActors
  <2>3. \A y \in Actors \ {c} : pc'[y] = pc[y] /\ held'[y] = held[y]
    BY <1>0, <1>1, <2>1, <2>2, GoesOn
  <2>4. held'[c].ids = {}  BY <1>0, <2>1, <2>2 DEF Nothing
  <2>5. \A d \in Companies : mappings'[d] = mappings[d] \/ Known(mappings'[d])
    <3>1. PICK i \in held[c].ids : mappings' = [mappings EXCEPT ![c] = i]  BY <2>1
    <3>2. Known(i)  BY DEF SeedInv
    <3>3. \A d \in Companies : mappings'[d] = IF d = c THEN i ELSE mappings[d]
      BY <3>1 DEF SeedInv, Typed, TypeOK
    <3> QED  BY <3>2, <3>3
  <2> QED  BY <2>1, <2>2, <2>3, <2>4, <2>5, SeedSame
<1>6. CASE Tag
  <2>1. UNCHANGED <<recorded, categories, index, mappings, doubled, undone, pc, held>>
    BY <1>6 DEF Tag, reference, process
  <2> QED  BY <2>1, SeedUnchanged
<1> QED  BY <1>2, <1>3, <1>4, <1>5, <1>6 DEF Requests

LEMMA SeedInit == Init => SeedInv
<1> SUFFICES ASSUME Init PROVE SeedInv
  OBVIOUS
<1>1. /\ \A p \in Pods : pc[p] = "list"
      /\ \A c \in Companies : held[c] = Nothing /\ mappings[c] = None
      /\ "seed" \notin recorded
  BY PodsAreActors DEF Init
<1>2. CategoriesAreKept  BY <1>1 DEF CategoriesAreKept
<1>3. \A p \in Pods : pc[p] \notin Seeding /\ pc[p] # "insert"  BY <1>1 DEF Seeding
<1>4. \A c \in Companies : held[c].ids = {}
  BY <1>1 DEF Nothing
<1> QED  BY <1>2, <1>3, <1>4, SetupTypesInit DEF SeedInv

LEMMA SeedNext == SeedInv /\ [Next]_vars => SeedInv'
<1> SUFFICES ASSUME SeedInv, [Next]_vars PROVE SeedInv'
  OBVIOUS
<1>0. Typed'  BY SetupTypesNext DEF SeedInv
<1>1. CASE UNCHANGED vars
  BY <1>0, <1>1, SeedUnchanged DEF vars, reference, process, ghosts
<1>2. ASSUME NEW p \in Pods, Dies(p) PROVE SeedInv'
  BY <1>0, <1>2, SeedFail DEF Dies
<1>3. CASE Revert
  <2>1. UNCHANGED process  BY <1>3 DEF Revert
  <2>2. CASE RevertSeed  BY <1>0, <2>1, <2>2, SeedRevert
  <2>3. CASE RevertMerge
    <3>1. /\ UNCHANGED <<categories, index, mappings, doubled, undone, pc, held>>
          /\ "seed" \in recorded' => "seed" \in recorded
      BY <2>1, <2>3 DEF RevertMerge, reference, ghosts, process
    <3> QED  BY <1>0, <3>1, SeedUnchanged
  <2> QED  BY <1>3, <2>2, <2>3 DEF Revert
<1> QED  BY <1>0, <1>1, <1>2, <1>3, SeedPod, SeedRequests DEF Next

\* SeedCompanyCategories: once it is recorded there is one row of every category,
\* whatever scripts have written; the category a company was mapped to is there, or
\* was a double of its name, or a revert has deleted it.
THEOREM CategoriesKept == Spec => []CategoriesAreKept
BY SeedInit, SeedNext, SeedKeeps, PTL DEF Spec
=============================================================================
