---------------------------- MODULE AssetRegistry ----------------------------
(***************************************************************************)
(* Assets and factories: AssetService.createAsset, updateAsset,            *)
(* deleteAsset and deleteAssets, CompanyService.createFactory,             *)
(* updateFactory and deleteFactory, and the part of deleteCompany that     *)
(* touches them.  assets.factory_id names a factory without a foreign key, *)
(* asset_ifric_id is unique only within a company, and the identifier of a *)
(* factory may be minted by ICID, which no transaction can undo.           *)
(***************************************************************************)
EXTENDS FiniteSets

CONSTANTS
    Ops,        \* one element per request; it names the row it creates
    Companies,
    Urns,       \* values of asset_ifric_id
    UrnsOf,     \* those that each company registers
    Locals,     \* factory ids that callers bring along
    Keys,       \* factory keys, from which ICID mints an id
    None,
    Kinds,      \* the endpoints that are called in this instance
    Reissue,    \* TRUE: ICID answers a repeated mint with the same id
    Faults      \* the failures that happen

FaultKinds == {"statement",  \* a write to Postgres fails
               "mint",       \* ICID refuses or cannot be reached
               "lostReply",  \* ICID minted, but its answer never arrives
               "cleanup"}    \* the DELETE at ICID in the catch block fails

AllKinds == {"createAsset", "updateAsset", "deleteAsset", "deleteAssets",
             "createFactory", "updateFactory", "deleteFactory", "deleteCompany"}

\* ICID hashes the owning company and the key, and nothing else.
Minted == Companies \X Keys
FactoryIds == Locals \cup Minted

ASSUME AssetRegistryAssumption ==
    /\ UrnsOf \in [Companies -> SUBSET Urns]
    /\ Locals \cap Minted = {}
    /\ None \notin Ops \cup Companies \cup FactoryIds
    /\ Kinds \subseteq AllKinds /\ Faults \subseteq FaultKinds
    /\ Reissue \in BOOLEAN

VARIABLES
    companies,  \* the companies that have a row
    assets,     \* assets[o]: the row of assets that request o created, or None
    factories,  \* factories[f]: the owner in the row with that id, or None
    icid,       \* the factory ids that ICID holds
    pc,         \* pc[o]: the next call of request o
    call,       \* call[o]: the endpoint and its arguments
    seen,       \* seen[o]: what request o has read and still holds
    raced       \* history: the requests that named a factory while it went

vars == <<companies, assets, factories, icid, pc, call, seen, raced>>

Asset == [urn : Urns, company : Companies, owner : Companies \cup {None},
          factory : FactoryIds \cup {None}]

\* A factory's id or the key to mint one from; both are optional.
CreateFactoryCalls ==
    [kind : {"createFactory"}, caller : Companies, company : Companies,
     id : Locals \cup {None}, key : Keys \cup {None}]

\* A company registers its own URNs; owner and factory are optional.
CreateAssetCalls ==
    UNION {[kind : {"createAsset"}, caller : {c}, company : {c}, urn : UrnsOf[c],
            owner : Companies \cup {None}, factory : FactoryIds \cup {None}]
             : c \in Companies}

UpdateAssetCalls ==
    [kind : {"updateAsset"}, caller : Companies, urn : Urns,
     owner : Companies \cup {None}, factory : FactoryIds \cup {None}]

Calls ==
    CreateAssetCalls
    \cup UpdateAssetCalls
    \cup [kind : {"deleteAsset"}, caller : Companies, urn : Urns]
    \cup [kind : {"deleteAssets"}, caller : Companies, urns : SUBSET Urns]
    \cup CreateFactoryCalls
    \cup [kind : {"updateFactory", "deleteFactory"}, caller : Companies,
          id : FactoryIds]
    \cup [kind : {"deleteCompany"}, caller : Companies, company : Companies]

\* The asset row that was read, the rows that deleteAssets read, and
\* createFactory's temp_icid_factory_id.
Nothing == [row |-> None, rows |-> {}, temp |-> None]
Seen == [row : Ops \cup {None}, rows : SUBSET Ops,
         temp : Minted \cup {None}]

Steps == {"checkCompany", "findOwner", "findFactory", "saveAsset", "loadAsset",
          "updateAsset", "deleteAsset", "loadAssets", "checkOwners",
          "deleteAssets", "loadOwner", "mint", "checkFactory", "saveFactory",
          "release", "loadFactory", "updateFactory", "checkAssets",
          "deleteFactory", "loadCompany", "deleteCompanyAssets",
          "deleteCompany"}
\* The last two: the release failed, or ICID's answer never came.
Failed == {"failed", "unreleased", "unanswered"}
Finished == {"idle", "done"} \cup Failed

TypeOK ==
    /\ companies \subseteq Companies
    /\ assets \in [Ops -> Asset \cup {None}]
    /\ factories \in [FactoryIds -> Companies \cup {None}]
    /\ icid \subseteq Minted
    /\ pc \in [Ops -> Steps \cup Finished]
    /\ call \in [Ops -> Calls \cup {None}]
    /\ seen \in [Ops -> Seen]
    /\ raced \subseteq Ops

Init ==
    /\ companies = Companies
    /\ assets = [o \in Ops |-> None]
    /\ factories = [f \in FactoryIds |-> None]
    /\ icid = {}
    /\ pc = [o \in Ops |-> "idle"]
    /\ call = [o \in Ops |-> None]
    /\ seen = [o \in Ops |-> Nothing]
    /\ raced = {}

-----------------------------------------------------------------------------
Rows(urns) == {r \in Ops : assets[r] # None /\ assets[r].urn \in urns}

\* Mutant of IsCallers: whether the company exists, not whose it is.
IsCallers_AnyCompany(o, c) == c \in companies

\* assertCompanyMatch, for a company whose row was found; it is followed by
\* assertPermission, which may refuse as well.
IsCallers(o, c) == c \in companies /\ c = call[o].caller

Goto(o, label) == pc' = [pc EXCEPT ![o] = label]
Proceed(o, label) ==
    /\ Goto(o, label)
    /\ UNCHANGED <<companies, assets, factories, icid, call, seen, raced>>

\* Mutant of Throw: the catch block forgets what was minted.
Throw_NoRelease(o) == Proceed(o, "failed")

\* Only createFactory's catch block does anything before answering, and only
\* when this request minted the id.
Throw(o) == Proceed(o, IF seen[o].temp # None THEN "release" ELSE "failed")

Check(o, test, label) == IF test THEN Proceed(o, label) ELSE Throw(o)

Remember(o, field, value, label) ==
    /\ seen' = [seen EXCEPT ![o] = [@ EXCEPT ![field] = value]]
    /\ Goto(o, label)
    /\ UNCHANGED <<companies, assets, factories, icid, call, raced>>

\* assertPermission reads the caller's grant; see module Accounts.
PermissionDenied(o) ==
    /\ pc[o] \in {"checkCompany", "loadAsset", "checkOwners", "loadOwner",
                  "loadFactory", "loadCompany"}
    /\ Throw(o)

Writes == {"saveAsset", "updateAsset", "deleteAsset", "deleteAssets",
           "saveFactory", "updateFactory", "deleteFactory",
           "deleteCompanyAssets", "deleteCompany"}

StatementFails(o) ==
    /\ "statement" \in Faults
    /\ pc[o] \in Writes
    /\ Throw(o)

Running(o) == pc[o] \notin Finished

FirstStep(c) ==
    CASE c.kind = "createAsset" -> "checkCompany"
      [] c.kind \in {"updateAsset", "deleteAsset"} -> "loadAsset"
      [] c.kind = "deleteAssets" -> "loadAssets"
      [] c.kind = "createFactory" -> "loadOwner"
      [] c.kind \in {"updateFactory", "deleteFactory"} -> "loadFactory"
      [] c.kind = "deleteCompany" -> "loadCompany"

Start(o) ==
    /\ pc[o] = "idle"
    /\ \E c \in {d \in Calls : d.kind \in Kinds} :
         /\ call' = [call EXCEPT ![o] = c]
         /\ Goto(o, FirstStep(c))
    /\ UNCHANGED <<companies, assets, factories, icid, seen, raced>>

-----------------------------------------------------------------------------
(* AssetService.                                                           *)

CheckCompany(o) ==
    /\ pc[o] = "checkCompany"
    /\ Check(o, IsCallers(o, call[o].company), "findOwner")

\* The two checks that createAsset and updateAsset share.
FindOwner(o) ==
    /\ pc[o] = "findOwner"
    /\ Check(o, call[o].owner \in companies \cup {None}, "findFactory")

FindFactory(o) ==
    LET f == call[o].factory IN
    /\ pc[o] = "findFactory"
    /\ Check(o, f = None \/ factories[f] # None,
             IF call[o].kind = "createAsset" THEN "saveAsset" ELSE "updateAsset")

\* History: o saves an asset at factory f, which has gone since o looked it up,
\* or which a deleteFactory that has counted its assets is about to delete.
NoteRace(o, f) ==
    raced' = IF f # None /\ \/ factories[f] = None
                            \/ \E p \in Ops : /\ pc[p] = "deleteFactory"
                                             /\ call[p].id = f
               THEN raced \cup {o} ELSE raced

\* (company_id, asset_ifric_id) is unique.
SaveAsset(o) ==
    LET c == call[o] IN
    /\ pc[o] = "saveAsset"
    /\ IF \A r \in Rows({c.urn}) : assets[r].company # c.company
         THEN /\ assets' = [assets EXCEPT ![o] =
                   [urn |-> c.urn, company |-> c.company, owner |-> c.owner,
                    factory |-> c.factory]]
              /\ Goto(o, "done")
              /\ NoteRace(o, c.factory)
              /\ UNCHANGED <<companies, factories, icid, call, seen>>
         ELSE Throw(o)

\* findOne by asset_ifric_id, for updateAsset and deleteAsset: any row of that
\* URN may be the one that is found.
LoadAsset(o) ==
    /\ pc[o] = "loadAsset"
    /\ \/ Rows({call[o].urn}) = {} /\ Throw(o)
       \/ \E r \in Rows({call[o].urn}) :
            IF IsCallers(o, assets[r].company)
              THEN Remember(o, "row", r,
                     IF call[o].kind = "updateAsset" THEN "findOwner"
                                                     ELSE "deleteAsset")
              ELSE Throw(o)

\* A field that was not sent is left as it is.
Given(new, old) == IF new = None THEN old ELSE new
Updated(o, row) == [row EXCEPT !.owner = Given(call[o].owner, @),
                               !.factory = Given(call[o].factory, @)]

\* UPDATE ... WHERE _id.
UpdateAsset(o) ==
    /\ pc[o] = "updateAsset"
    /\ assets' = [r \in Ops |-> IF r = seen[o].row /\ assets[r] # None
                                  THEN Updated(o, assets[r]) ELSE assets[r]]
    /\ Goto(o, "done")
    /\ NoteRace(o, call[o].factory)
    /\ UNCHANGED <<companies, factories, icid, call, seen>>

Remove(o, rows, label) ==
    /\ assets' = [r \in Ops |-> IF r \in rows THEN None ELSE assets[r]]
    /\ Goto(o, label)
    /\ UNCHANGED <<companies, factories, icid, call, seen, raced>>

DeleteAsset(o) ==
    /\ pc[o] = "deleteAsset"
    /\ Remove(o, Rows({call[o].urn}), "done")

LoadAssets(o) ==
    /\ pc[o] = "loadAssets"
    /\ Remember(o, "rows", Rows(call[o].urns), "checkOwners")

\* Every company that is found must be the caller's.  The company of a row is
\* that of the request which created it and never changes.
CheckOwners(o) ==
    /\ pc[o] = "checkOwners"
    /\ Check(o, {call[r].company : r \in seen[o].rows} \cap companies
                  \subseteq {call[o].caller},
             "deleteAssets")

DeleteAssets(o) ==
    /\ pc[o] = "deleteAssets"
    /\ Remove(o, Rows(call[o].urns), "done")

AssetStep(o) ==
    \/ CheckCompany(o) \/ FindOwner(o) \/ FindFactory(o) \/ SaveAsset(o)
    \/ LoadAsset(o) \/ UpdateAsset(o) \/ DeleteAsset(o)
    \/ LoadAssets(o) \/ CheckOwners(o) \/ DeleteAssets(o)

-----------------------------------------------------------------------------
(* CompanyService, factories.                                              *)

\* An id that the caller brings is kept.
ByKey(o) == call[o].id = None

FactoryId(o) == IF ByKey(o) THEN <<call[o].company, call[o].key>> ELSE call[o].id

LoadOwner(o) ==
    /\ pc[o] = "loadOwner"
    /\ Check(o, IsCallers(o, call[o].company) /\ (ByKey(o) => call[o].key # None),
             IF ByKey(o) THEN "mint" ELSE "checkFactory")

\* mintFactoryId.
Mint(o) ==
    /\ pc[o] = "mint"
    /\ IF FactoryId(o) \notin icid \/ Reissue
         THEN /\ icid' = icid \cup {FactoryId(o)}
              /\ seen' = [seen EXCEPT ![o].temp = FactoryId(o)]
              /\ Goto(o, "checkFactory")
              /\ UNCHANGED <<companies, assets, factories, call, raced>>
         ELSE Throw(o)

\* Mutant of MintFails: temp_icid_factory_id is set before the call.
MintFails_SetsLocal(o) ==
    /\ pc[o] = "mint"
    /\ seen' = [seen EXCEPT ![o].temp = FactoryId(o)]
    /\ Goto(o, "release")
    /\ UNCHANGED <<companies, assets, factories, icid, call, raced>>

\* An unknown country, a refusal, or no connection.
MintFails(o) ==
    /\ "mint" \in Faults
    /\ pc[o] = "mint"
    /\ Throw(o)

MintReplyLost(o) ==
    /\ "lostReply" \in Faults
    /\ pc[o] = "mint"
    /\ icid' = icid \cup {FactoryId(o)}
    /\ Goto(o, "unanswered")
    /\ UNCHANGED <<companies, assets, factories, call, seen, raced>>

CheckFactory(o) ==
    /\ pc[o] = "checkFactory"
    /\ Check(o, factories[FactoryId(o)] = None, "saveFactory")

\* factories.factory_id is unique.
SaveFactory(o) ==
    /\ pc[o] = "saveFactory"
    /\ IF factories[FactoryId(o)] = None
         THEN /\ factories' = [factories EXCEPT ![FactoryId(o)] = call[o].company]
              /\ Goto(o, "done")
              /\ UNCHANGED <<companies, assets, icid, call, seen, raced>>
         ELSE Throw(o)

\* The catch block: DELETE /factory/:id at ICID, whose failure is swallowed.
Release(o) ==
    /\ pc[o] = "release"
    /\ \/ icid' = icid \ {seen[o].temp} /\ Goto(o, "failed")
       \/ "cleanup" \in Faults /\ UNCHANGED icid /\ Goto(o, "unreleased")
    /\ UNCHANGED <<companies, assets, factories, call, seen, raced>>

LoadFactory(o) ==
    LET c == factories[call[o].id] IN
    /\ pc[o] = "loadFactory"
    /\ Check(o, c = call[o].caller,
             IF call[o].kind = "updateFactory" THEN "updateFactory"
                                               ELSE "checkAssets")

\* The columns it sets are no part of the model: the id and the owner stay.
UpdateFactory(o) ==
    /\ pc[o] = "updateFactory"
    /\ Check(o, factories[call[o].id] # None, "done")

\* Mutant of CheckAssets: assets without an owner are overlooked.
CheckAssets_OwnedOnly(o) ==
    /\ pc[o] = "checkAssets"
    /\ Check(o, \A r \in Ops : assets[r] # None /\ assets[r].owner # None =>
                  assets[r].factory # call[o].id,
             "deleteFactory")

CheckAssets(o) ==
    /\ pc[o] = "checkAssets"
    /\ Check(o, \A r \in Ops : assets[r] # None => assets[r].factory # call[o].id,
             "deleteFactory")

DeleteFactory(o) ==
    /\ pc[o] = "deleteFactory"
    /\ factories' = [factories EXCEPT ![call[o].id] = None]
    /\ Goto(o, "done")
    /\ UNCHANGED <<companies, assets, icid, call, seen, raced>>

FactoryStep(o) ==
    \/ LoadOwner(o) \/ Mint(o) \/ MintFails(o) \/ MintReplyLost(o)
    \/ CheckFactory(o) \/ SaveFactory(o) \/ Release(o)
    \/ LoadFactory(o) \/ UpdateFactory(o) \/ CheckAssets(o) \/ DeleteFactory(o)

-----------------------------------------------------------------------------
(* CompanyService.deleteCompany; module Accounts has its other statements. *)

LoadCompany(o) ==
    /\ pc[o] = "loadCompany"
    /\ Check(o, IsCallers(o, call[o].company), "deleteCompanyAssets")

DeleteCompanyAssets(o) ==
    /\ pc[o] = "deleteCompanyAssets"
    /\ Remove(o, {r \in Rows(Urns) : assets[r].company = call[o].company},
              "deleteCompany")

DeleteCompany(o) ==
    /\ pc[o] = "deleteCompany"
    /\ companies' = companies \ {call[o].company}
    /\ Goto(o, "done")
    /\ UNCHANGED <<assets, factories, icid, call, seen, raced>>

CompanyStep(o) == LoadCompany(o) \/ DeleteCompanyAssets(o) \/ DeleteCompany(o)

\* A process that dies is a request that takes no further step.
Next ==
    \E o \in Ops :
      \/ Start(o) \/ AssetStep(o) \/ FactoryStep(o) \/ CompanyStep(o)
      \/ PermissionDenied(o) \/ StatementFails(o)

Spec == Init /\ [][Next]_vars

-----------------------------------------------------------------------------
(* Properties.                                                             *)

\* The row of a company that exists is changed or removed only by a request
\* made from that company, whatever was read before and whoever runs meanwhile.
\* One window is left: deleteAssets checks the owners of the rows it finds and
\* then deletes by URN, so that a row saved in between is nobody's concern.
AssetsStayInTenant ==
    [][\A r \in Ops :
         assets[r] # None /\ assets'[r] # assets[r] /\ assets[r].company \in companies
         => \E o \in Ops :
              /\ Running(o)
              /\ \/ call[o].caller = assets[r].company
                 \/ pc[o] = "deleteAssets" /\ r \notin seen[o].rows]_vars

\* deleteFactory answers 409 while an asset names the factory, and createAsset
\* and updateAsset accept only a factory that exists.  An asset is left naming a
\* factory that is gone only by the windows between these checks and the writes
\* they guard: it was saved after the factory it names was counted empty, or
\* after the factory that had been looked up was deleted.
DanglingIsARace ==
    \A r \in Ops :
      assets[r] # None /\ assets[r].factory # None
        /\ factories[assets[r].factory] = None
      => \E o \in raced : /\ call[o].factory = assets[r].factory
                          /\ r = o \/ seen[o].row = r

\* An id that createFactory's catch block gives back to ICID is not that of a
\* factory in the table: "an id issued moments ago is released by hand".
MintedFactoriesHoldTheirId ==
    \A f \in Minted : factories[f] # None => f \in icid

\* Every id that ICID holds belongs to a request that made a factory of it or
\* is still at work: a refused createFactory leaves none behind, unless its
\* release failed or the answer that named the id was lost.
IdsAreAccountedFor ==
    \A f \in icid : \E o \in Ops :
      \/ seen[o].temp = f /\ pc[o] # "failed"
      \/ pc[o] = "unanswered" /\ FactoryId(o) = f
=============================================================================
