------------------------ MODULE AssetRegistry_proofs ------------------------
(* Proofs about AssetRegistry.                                             *)
EXTENDS AssetRegistry, TLAPS

-----------------------------------------------------------------------------
(* Types.  What a step reads of its call is there because only some of the *)
(* endpoints reach the step.                                               *)

\* The steps of createFactory that read its arguments.
Saving == {"checkFactory", "saveFactory"}

CallInv ==
    \A o \in Ops :
      /\ pc[o] \in {"checkCompany", "saveAsset"} => call[o] \in CreateAssetCalls
      /\ pc[o] \in {"findOwner", "findFactory"} =>
           call[o] \in CreateAssetCalls \cup UpdateAssetCalls
      /\ pc[o] = "updateAsset" => call[o] \in UpdateAssetCalls
      /\ pc[o] = "loadAsset" /\ call[o].kind = "updateAsset" =>
           call[o] \in UpdateAssetCalls
      /\ pc[o] \in {"loadOwner", "mint"} \cup Saving =>
           call[o] \in CreateFactoryCalls
      /\ pc[o] = "mint" => ByKey(o) /\ call[o].key # None

TypeInv == TypeOK /\ CallInv

LEMMA TypeInit == Init => TypeInv
BY AssetRegistryAssumption
   DEF Init, TypeInv, TypeOK, CallInv, Saving, Finished, Failed, Seen, Nothing, FactoryIds

\* What an endpoint's first step may rely on.
LEMMA FirstSteps ==
    ASSUME NEW c \in Calls
    PROVE  /\ FirstStep(c) \in {"checkCompany", "loadAsset", "loadAssets",
                                "loadOwner", "loadFactory", "loadCompany"}
           /\ FirstStep(c) = "checkCompany" => c \in CreateAssetCalls
           /\ FirstStep(c) = "loadAsset" /\ c.kind = "updateAsset" =>
                c \in UpdateAssetCalls
           /\ FirstStep(c) = "loadOwner" => c \in CreateFactoryCalls
<1>1. CASE c \in CreateAssetCalls
    <2>1. c.kind = "createAsset"
        BY <1>1 DEF CreateAssetCalls
    <2>2. QED
        BY <2>1, <1>1 DEF FirstStep
<1>2. CASE c \in CreateFactoryCalls
    <2>1. c.kind = "createFactory"
        BY <1>2 DEF CreateFactoryCalls
    <2>2. QED
        BY <2>1, <1>2 DEF FirstStep
<1>3. CASE c \in UpdateAssetCalls
    <2>1. c.kind = "updateAsset"
        BY <1>3 DEF UpdateAssetCalls
    <2>2. QED
        BY <2>1, <1>3 DEF FirstStep
<1>4. CASE c \notin CreateAssetCalls \cup CreateFactoryCalls \cup UpdateAssetCalls
    <2>1. c.kind \in {"deleteAsset", "deleteAssets", "updateFactory",
                      "deleteFactory", "deleteCompany"}
        BY <1>4 DEF Calls
    <2>2. QED
        BY <2>1 DEF FirstStep
<1>5. QED BY <1>1, <1>2, <1>3, <1>4

LEMMA TypeStart == ASSUME TypeInv, NEW o \in Ops, Start(o) PROVE TypeInv'
<1> USE DEF TypeInv, TypeOK
<1>1. PICK c \in Calls : call' = [call EXCEPT ![o] = c] /\ Goto(o, FirstStep(c))
    BY DEF Start
<1>2. TypeOK'
    BY <1>1, FirstSteps DEF Start, Goto, Steps
<1>3. CallInv'
    BY <1>1, FirstSteps DEF Start, Goto, CallInv, Saving, ByKey
<1>4. QED BY <1>2, <1>3

\* A request that gives up.
LEMMA TypeFall ==
    ASSUME TypeInv, NEW o \in Ops, NEW l \in {"release"} \cup Failed, Proceed(o, l)
    PROVE  TypeInv'
BY DEF TypeInv, TypeOK, CallInv, Proceed, Goto, Saving, ByKey, Steps, Finished, Failed

LEMMA TypeThrow == ASSUME TypeInv, NEW o \in Ops, Throw(o) PROVE TypeInv'
BY TypeFall DEF Throw, Failed

LEMMA UpdatedAsset ==
    ASSUME NEW o \in Ops, NEW row \in Asset,
           call[o].owner \in Companies \cup {None},
           call[o].factory \in FactoryIds \cup {None}
    PROVE  Updated(o, row) \in Asset
<1>1. /\ Given(call[o].owner, row.owner) \in Companies \cup {None}
      /\ Given(call[o].factory, row.factory) \in FactoryIds \cup {None}
    BY DEF Given, Asset
<1>2. QED BY <1>1 DEF Updated, Asset

LEMMA TypeAssetStep == ASSUME TypeInv, NEW o \in Ops, AssetStep(o) PROVE TypeInv'
<1> USE DEF TypeInv, TypeOK, CallInv, Saving, ByKey, Check, Proceed, Goto,
            Remember, Remove, Steps, Finished, Failed
<1>1. CASE CheckCompany(o) BY <1>1, TypeThrow DEF CheckCompany
<1>2. CASE FindOwner(o) BY <1>2, TypeThrow DEF FindOwner
<1>3. CASE FindFactory(o)
    BY <1>3, TypeThrow DEF FindFactory, CreateAssetCalls, UpdateAssetCalls
<1>4. CASE SaveAsset(o)
    <2>1. PICK c \in Companies :
            call[o] \in [kind : {"createAsset"}, caller : {c}, company : {c},
                        urn : UrnsOf[c], owner : Companies \cup {None},
                        factory : FactoryIds \cup {None}]
        BY <1>4 DEF SaveAsset, CreateAssetCalls
    <2>2. UrnsOf[c] \subseteq Urns
        BY AssetRegistryAssumption
    <2>3. [urn |-> call[o].urn, company |-> call[o].company,
           owner |-> call[o].owner, factory |-> call[o].factory] \in Asset
        BY <2>1, <2>2 DEF Asset
    <2>4. QED BY <1>4, <2>3, TypeThrow DEF SaveAsset, NoteRace
<1>5. CASE LoadAsset(o)
    <2>1. CASE Throw(o)
        BY <2>1, TypeThrow
    <2>2. CASE ~Throw(o)
        BY <1>5, <2>2 DEF LoadAsset, Rows, Seen, UpdateAssetCalls, Failed
    <2>3. QED BY <2>1, <2>2
<1>6. CASE UpdateAsset(o)
    <2>1. call[o].owner \in Companies \cup {None}
          /\ call[o].factory \in FactoryIds \cup {None}
        BY <1>6 DEF UpdateAsset, UpdateAssetCalls
    <2>2. assets' \in [Ops -> Asset \cup {None}]
        <3>1. ASSUME NEW r \in Ops, assets[r] # None
              PROVE  Updated(o, assets[r]) \in Asset
            <4>1. assets[r] \in Asset BY <3>1
            <4>2. QED BY <2>1, <4>1, UpdatedAsset
        <3>2. assets' = [r \in Ops |-> IF r = seen[o].row /\ assets[r] # None
                                         THEN Updated(o, assets[r]) ELSE assets[r]]
            BY <1>6 DEF UpdateAsset
        <3>3. \A r \in Ops : assets'[r] \in Asset \cup {None}
            BY <3>1, <3>2
        <3>4. QED BY <3>2, <3>3
    <2>3. pc[o] = "updateAsset" /\ pc' = [pc EXCEPT ![o] = "done"]
          /\ UNCHANGED <<companies, factories, icid, call, seen>>
        BY <1>6 DEF UpdateAsset
    <2>4. raced' \subseteq Ops
        BY <1>6 DEF UpdateAsset, NoteRace
    <2>5. QED BY <2>2, <2>3, <2>4
<1>7. CASE DeleteAsset(o) BY <1>7 DEF DeleteAsset
<1>8. CASE LoadAssets(o)
    <2>1. Rows(call[o].urns) \in SUBSET Ops
        BY DEF Rows
    <2>2. QED BY <1>8, <2>1 DEF LoadAssets, Seen
<1>9. CASE CheckOwners(o) BY <1>9, TypeThrow DEF CheckOwners
<1>10. CASE DeleteAssets(o) BY <1>10 DEF DeleteAssets
<1>11. QED
    BY <1>1, <1>2, <1>3, <1>4, <1>5, <1>6, <1>7, <1>8, <1>9, <1>10 DEF AssetStep

LEMMA MintedId ==
    ASSUME NEW o \in Ops, call[o] \in CreateFactoryCalls
    PROVE  /\ ByKey(o) /\ call[o].key # None => FactoryId(o) \in Minted
           /\ ~ByKey(o) => FactoryId(o) \in Locals
           /\ call[o].company \in Companies
BY DEF CreateFactoryCalls, ByKey, FactoryId, Minted

LEMMA TypeFactoryStep == ASSUME TypeInv, NEW o \in Ops, FactoryStep(o) PROVE TypeInv'
<1> USE DEF TypeInv, TypeOK, CallInv, Saving, Check, Proceed, Goto, Steps, Finished, Failed
<1>1. CASE LoadOwner(o) BY <1>1, TypeThrow DEF LoadOwner, ByKey
<1>2. CASE Mint(o)
    BY <1>2, TypeThrow, MintedId DEF Mint, ByKey, Seen
<1>3. CASE MintFails(o) BY <1>3, TypeThrow DEF MintFails
<1>4. CASE MintReplyLost(o) BY <1>4, MintedId DEF MintReplyLost, ByKey
<1>5. CASE CheckFactory(o) BY <1>5, TypeThrow DEF CheckFactory, ByKey
<1>6. CASE SaveFactory(o)
    BY <1>6, TypeThrow, MintedId DEF SaveFactory, ByKey
<1>7. CASE Release(o) BY <1>7 DEF Release, ByKey
<1>8. CASE LoadFactory(o) BY <1>8, TypeThrow DEF LoadFactory, ByKey
<1>9. CASE UpdateFactory(o) BY <1>9, TypeThrow DEF UpdateFactory, ByKey
<1>10. CASE CheckAssets(o) BY <1>10, TypeThrow DEF CheckAssets, ByKey
<1>11. CASE DeleteFactory(o) BY <1>11 DEF DeleteFactory, ByKey
<1>12. QED
    BY <1>1, <1>2, <1>3, <1>4, <1>5, <1>6, <1>7, <1>8, <1>9, <1>10, <1>11
       DEF FactoryStep

LEMMA TypeCompanyStep == ASSUME TypeInv, NEW o \in Ops, CompanyStep(o) PROVE TypeInv'
<1> USE DEF TypeInv, TypeOK, CallInv, Saving, ByKey, Check, Proceed, Goto,
            Remove, Steps, Finished, Failed
<1>1. CASE LoadCompany(o) BY <1>1, TypeThrow DEF LoadCompany
<1>2. CASE DeleteCompanyAssets(o) BY <1>2 DEF DeleteCompanyAssets
<1>3. CASE DeleteCompany(o) BY <1>3 DEF DeleteCompany
<1>4. QED BY <1>1, <1>2, <1>3 DEF CompanyStep

LEMMA TypeNext == TypeInv /\ [Next]_vars => TypeInv'
<1> SUFFICES ASSUME TypeInv, [Next]_vars PROVE TypeInv'
    OBVIOUS
<1>1. CASE UNCHANGED vars
    BY <1>1 DEF vars, TypeInv, TypeOK, CallInv, ByKey
<1>2. ASSUME NEW o \in Ops, PermissionDenied(o) \/ StatementFails(o) PROVE TypeInv'
    BY <1>2, TypeThrow DEF PermissionDenied, StatementFails
<1>3. QED
    BY <1>1, <1>2, TypeStart, TypeAssetStep, TypeFactoryStep,
       TypeCompanyStep DEF Next

\* Every variable keeps its type: no request reads an argument it was not given.
THEOREM TypeCorrect == Spec => []TypeOK
<1>1. TypeInv => TypeOK
    BY DEF TypeInv
<1>2. QED BY <1>1, TypeInit, TypeNext, PTL DEF Spec

-----------------------------------------------------------------------------
(* The identifiers of factories, when ICID refuses to mint one twice.      *)

\* The request has minted an id and has not answered yet.
Holds(o) == pc[o] \in Saving \cup {"release"} /\ seen[o].temp # None

\* temp_icid_factory_id is set by the mint, to the id that is saved later.
TempInv ==
    \A o \in Ops :
      /\ pc[o] \in Saving => IF ByKey(o)
                               THEN seen[o].temp = FactoryId(o) /\ FactoryId(o) \in Minted
                               ELSE seen[o].temp = None
      /\ pc[o] = "release" => seen[o].temp # None
      /\ seen[o].temp # None => pc[o] \in Saving \cup {"release", "done"} \cup Failed

\* A held id is registered at ICID, no row has it yet, and nobody else holds it.
HeldInv ==
    \A o \in Ops : Holds(o) =>
      /\ seen[o].temp \in icid
      /\ factories[seen[o].temp] = None
      /\ \A p \in Ops : Holds(p) /\ seen[p].temp = seen[o].temp => p = o

IdsInv == TypeInv /\ TempInv /\ HeldInv /\ MintedFactoriesHoldTheirId

LEMMA IdsInit == Init => IdsInv
BY TypeInit, AssetRegistryAssumption
   DEF Init, IdsInv, TempInv, HeldInv, Holds, Saving, Nothing,
       MintedFactoriesHoldTheirId, FactoryIds

\* A step that mints nothing, saves nothing and holds nothing new.
LEMMA IdsKept ==
    ASSUME IdsInv, TypeInv', TempInv', UNCHANGED icid,
           \A f \in FactoryIds : factories'[f] \in {factories[f], None},
           \A p \in Ops : Holds(p)' => Holds(p) /\ seen'[p].temp = seen[p].temp
    PROVE  IdsInv'
<1>1. \A p \in Ops : Holds(p) => seen[p].temp \in FactoryIds
    BY DEF Holds, IdsInv, TypeInv, TypeOK, Seen, FactoryIds
<1>2. QED
    BY <1>1 DEF IdsInv, HeldInv, MintedFactoriesHoldTheirId, FactoryIds

LEMMA IdsFall ==
    ASSUME IdsInv, NEW o \in Ops, NEW l \in {"release"} \cup Failed, Proceed(o, l),
           l = "release" => pc[o] \in Saving /\ seen[o].temp # None
    PROVE  IdsInv'
<1> USE DEF Proceed, Goto, IdsInv, TypeInv, TypeOK
<1>1. TypeInv'
    BY TypeFall
<1>2. TempInv'
    BY DEF TempInv, Saving, ByKey, FactoryId, Failed
<1>3. \A p \in Ops : Holds(p)' => Holds(p) /\ seen'[p].temp = seen[p].temp
    BY DEF Holds, Saving, Failed
<1>4. QED BY <1>1, <1>2, <1>3, IdsKept

LEMMA IdsThrow ==
    ASSUME IdsInv, NEW o \in Ops, Throw(o), pc[o] \notin {"release", "done"} \cup Failed
    PROVE  IdsInv'
<1>1. seen[o].temp # None => pc[o] \in Saving
    BY DEF IdsInv, TempInv
<1>2. QED BY <1>1, IdsFall DEF Throw, Failed

\* The steps of createFactory.
Creating == {"loadOwner", "mint", "release"} \cup Saving

\* A step of another endpoint that goes well.
LEMMA IdsElsewhere ==
    ASSUME IdsInv, TypeInv', NEW o \in Ops, NEW l \in (Steps \cup Finished) \ Creating,
           pc[o] \notin Creating \cup Finished, pc' = [pc EXCEPT ![o] = l],
           UNCHANGED <<icid, call>>,
           \A f \in FactoryIds : factories'[f] \in {factories[f], None},
           \A p \in Ops : seen'[p].temp = seen[p].temp
    PROVE  IdsInv'
<1> USE DEF IdsInv, TypeInv, TypeOK
<1>1. TempInv'
    BY DEF TempInv, Saving, ByKey, FactoryId, Creating, Finished, Failed
<1>2. \A p \in Ops : Holds(p)' => Holds(p) /\ seen'[p].temp = seen[p].temp
    BY DEF Holds, Saving, Creating
<1>3. QED BY <1>1, <1>2, IdsKept

LEMMA IdsStart == ASSUME IdsInv, NEW o \in Ops, Start(o) PROVE IdsInv'
<1> USE DEF IdsInv
<1>1. PICK c \in Calls : call' = [call EXCEPT ![o] = c] /\ Goto(o, FirstStep(c))
    BY DEF Start
<1>2. TempInv'
    BY <1>1, FirstSteps
       DEF Start, Goto, TypeInv, TypeOK, TempInv, Saving, ByKey, FactoryId, Failed
<1>3. \A p \in Ops : Holds(p)' => Holds(p) /\ seen'[p].temp = seen[p].temp
    BY <1>1, FirstSteps DEF Start, Goto, TypeInv, TypeOK, Holds, Saving
<1>4. QED
    BY <1>2, <1>3, TypeStart, IdsKept DEF Start

LEMMA IdsAssetStep == ASSUME IdsInv, NEW o \in Ops, AssetStep(o) PROVE IdsInv'
<1>0. TypeInv /\ TypeInv'
    BY TypeAssetStep DEF IdsInv
<1> USE <1>0 DEF TypeInv, TypeOK, Check, Proceed, Goto, Remember, Remove, Steps,
                 Finished, Failed, Creating, Saving
<1>1. CASE CheckCompany(o)
    BY <1>1, IdsThrow, IdsElsewhere DEF CheckCompany
<1>2. CASE FindOwner(o)
    BY <1>2, IdsThrow, IdsElsewhere DEF FindOwner
<1>3. CASE FindFactory(o)
    BY <1>3, IdsThrow, IdsElsewhere DEF FindFactory
<1>4. CASE SaveAsset(o)
    BY <1>4, IdsThrow, IdsElsewhere DEF SaveAsset
<1>5. CASE LoadAsset(o)
    <2>1. pc[o] = "loadAsset"
        BY <1>5 DEF LoadAsset
    <2>2. CASE Throw(o)
        BY <2>1, <2>2, IdsThrow DEF Failed
    <2>3. CASE ~Throw(o)
        <3>1. PICK r \in Ops, l \in {"findOwner", "deleteAsset"} :
                Remember(o, "row", r, l)
            BY <1>5, <2>3 DEF LoadAsset, Rows
        <3>2. \A p \in Ops : seen'[p].temp = seen[p].temp
            BY <3>1 DEF Seen
        <3>3. QED BY <2>1, <3>1, <3>2, IdsElsewhere DEF Failed
    <2>4. QED BY <2>2, <2>3
<1>6. CASE UpdateAsset(o)
    BY <1>6, IdsElsewhere DEF UpdateAsset
<1>7. CASE DeleteAsset(o)
    BY <1>7, IdsElsewhere DEF DeleteAsset
<1>8. CASE LoadAssets(o)
    <2>1. PICK v : seen' = [seen EXCEPT ![o] = [@ EXCEPT !["rows"] = v]]
        BY <1>8 DEF LoadAssets
    <2>2. \A p \in Ops : seen'[p].temp = seen[p].temp
        BY <2>1 DEF Seen
    <2>3. pc[o] = "loadAssets" /\ pc' = [pc EXCEPT ![o] = "checkOwners"]
          /\ UNCHANGED <<factories, icid, call>>
        BY <1>8 DEF LoadAssets
    <2>4. QED BY <2>2, <2>3, IdsElsewhere
<1>9. CASE CheckOwners(o)
    BY <1>9, IdsThrow, IdsElsewhere DEF CheckOwners
<1>10. CASE DeleteAssets(o)
    BY <1>10, IdsElsewhere DEF DeleteAssets
<1>11. QED
    BY <1>1, <1>2, <1>3, <1>4, <1>5, <1>6, <1>7, <1>8, <1>9, <1>10 DEF AssetStep

LEMMA IdsCompanyStep == ASSUME IdsInv, NEW o \in Ops, CompanyStep(o) PROVE IdsInv'
<1>0. TypeInv /\ TypeInv'
    BY TypeCompanyStep DEF IdsInv
<1> USE <1>0 DEF TypeInv, TypeOK, Check, Proceed, Goto, Remove, Steps,
                 Finished, Failed, Creating, Saving
<1>1. CASE LoadCompany(o)
    BY <1>1, IdsThrow, IdsElsewhere DEF LoadCompany
<1>2. CASE DeleteCompanyAssets(o)
    BY <1>2, IdsElsewhere DEF DeleteCompanyAssets
<1>3. CASE DeleteCompany(o)
    BY <1>3, IdsElsewhere DEF DeleteCompany
<1>4. QED BY <1>1, <1>2, <1>3 DEF CompanyStep

\* The mint: ICID did not hold the id, so no row has it and nobody holds it.
LEMMA IdsMint ==
    ASSUME ~Reissue, IdsInv, NEW o \in Ops, Mint(o) PROVE IdsInv'
<1> USE DEF IdsInv, TypeInv, TypeOK
<1> DEFINE f == FactoryId(o)
<1>1. CASE f \in icid
    BY <1>1, IdsThrow DEF Mint, Failed
<1>2. CASE f \notin icid
    <2>1. /\ icid' = icid \cup {f}
          /\ seen' = [seen EXCEPT ![o].temp = f]
          /\ pc[o] = "mint" /\ pc' = [pc EXCEPT ![o] = "checkFactory"]
          /\ UNCHANGED <<companies, assets, factories, call>>
        BY <1>2 DEF Mint, Goto
    <2>2. f \in Minted /\ ByKey(o)
        BY <2>1, MintedId DEF CallInv, Saving
    <2>3. factories[f] = None
        BY <1>2, <2>2 DEF MintedFactoriesHoldTheirId
    <2>4. seen'[o].temp = f /\ \A p \in Ops : p # o => seen'[p] = seen[p]
        BY <2>1 DEF Seen
    <2>5. TypeInv'
        <3>1. FactoryStep(o) BY DEF FactoryStep
        <3>2. QED BY <3>1, TypeFactoryStep
    <2>6. TempInv'
        BY <2>1, <2>2, <2>4 DEF TempInv, Saving, ByKey, FactoryId
    <2>7. \A p \in Ops : Holds(p)' <=> Holds(p) \/ p = o
        BY <2>1, <2>2, <2>4, AssetRegistryAssumption
           DEF Holds, Saving, TempInv, FactoryIds
    <2>8. \A p \in Ops : Holds(p) => seen[p].temp # f /\ p # o
        BY <1>2, <2>1 DEF HeldInv, Holds, Saving
    <2>9. HeldInv'
        BY <2>1, <2>3, <2>4, <2>7, <2>8 DEF HeldInv
    <2>10. MintedFactoriesHoldTheirId'
        BY <2>1 DEF MintedFactoriesHoldTheirId
    <2>11. QED BY <2>5, <2>6, <2>9, <2>10
<1>3. QED BY <1>1, <1>2

\* Only the holder of a minted id saves a row with it.
LEMMA IdsSave == ASSUME IdsInv, NEW o \in Ops, SaveFactory(o) PROVE IdsInv'
<1> USE DEF IdsInv, TypeInv, TypeOK
<1> DEFINE f == FactoryId(o)
<1>1. CASE factories[f] # None
    BY <1>1, IdsThrow DEF SaveFactory, Failed
<1>2. CASE factories[f] = None
    <2>1. /\ factories' = [factories EXCEPT ![f] = call[o].company]
          /\ pc[o] = "saveFactory" /\ pc' = [pc EXCEPT ![o] = "done"]
          /\ UNCHANGED <<companies, assets, icid, call, seen>>
        BY <1>2 DEF SaveFactory, Goto
    <2>2. TypeInv'
        <3>1. FactoryStep(o) BY DEF FactoryStep
        <3>2. QED BY <3>1, TypeFactoryStep
    <2>3. TempInv'
        BY <2>1 DEF TempInv, Saving, ByKey, FactoryId
    <2>4. \A p \in Ops : Holds(p)' => Holds(p) /\ p # o
        BY <2>1 DEF Holds, Saving
    <2>5. f \in Minted => Holds(o) /\ seen[o].temp = f
        BY <2>1, MintedId, AssetRegistryAssumption
           DEF TempInv, CallInv, Saving, Holds, FactoryIds
    <2>6. \A p \in Ops : Holds(p)' => seen[p].temp # f /\ seen[p].temp \in Minted
        BY <2>4, <2>5 DEF HeldInv, Holds, Seen
    <2>7. HeldInv'
        BY <2>1, <2>4, <2>6 DEF HeldInv, FactoryIds
    <2>8. MintedFactoriesHoldTheirId'
        BY <2>1, <2>5 DEF MintedFactoriesHoldTheirId, HeldInv, FactoryIds
    <2>9. QED BY <2>2, <2>3, <2>7, <2>8
<1>3. QED BY <1>1, <1>2

\* An id is given back only while no row has it.
LEMMA IdsRelease == ASSUME IdsInv, NEW o \in Ops, Release(o) PROVE IdsInv'
<1> USE DEF IdsInv, TypeInv, TypeOK
<1>1. /\ icid' \in {icid, icid \ {seen[o].temp}}
      /\ pc[o] = "release" /\ pc'[o] \in Failed
      /\ pc' \in [Ops -> Steps \cup Finished] /\ \A p \in Ops \ {o} : pc'[p] = pc[p]
      /\ UNCHANGED <<companies, assets, factories, call, seen>>
    BY DEF Release, Goto, Failed, Finished
<1>2. TypeInv'
    <2>1. FactoryStep(o) BY DEF FactoryStep
    <2>2. QED BY <2>1, TypeFactoryStep
<1>3. TempInv'
    BY <1>1 DEF TempInv, Saving, ByKey, FactoryId, Failed
<1>4. Holds(o)
    BY <1>1 DEF Holds, TempInv
<1>5. \A p \in Ops : Holds(p)' => Holds(p) /\ p # o
    BY <1>1 DEF Holds, Saving, Failed
<1>6. HeldInv'
    BY <1>1, <1>4, <1>5 DEF HeldInv
<1>7. MintedFactoriesHoldTheirId'
    BY <1>1, <1>4 DEF MintedFactoriesHoldTheirId, HeldInv
<1>8. QED BY <1>2, <1>3, <1>6, <1>7

LEMMA IdsFactoryStep ==
    ASSUME ~Reissue, IdsInv, NEW o \in Ops, FactoryStep(o) PROVE IdsInv'
<1>0. TypeInv /\ TypeInv'
    BY TypeFactoryStep DEF IdsInv
<1> USE <1>0 DEF TypeInv, TypeOK, Check, Proceed, Goto, Steps, Finished, Failed
<1>1. CASE LoadOwner(o)
    <2>1. CASE Throw(o)
        BY <1>1, <2>1, IdsThrow DEF LoadOwner
    <2>2. CASE ~Throw(o)
        <3>1. TempInv'
            BY <1>1, <2>2
               DEF LoadOwner, IdsInv, TempInv, CallInv, Saving, ByKey, FactoryId
        <3>2. \A p \in Ops : Holds(p)' => Holds(p) /\ seen'[p].temp = seen[p].temp
            BY <1>1, <2>2 DEF LoadOwner, Holds, Saving, IdsInv, TempInv
        <3>3. QED BY <1>1, <2>2, <3>1, <3>2, IdsKept DEF LoadOwner
    <2>3. QED BY <2>1, <2>2
<1>2. CASE Mint(o) BY <1>2, IdsMint
<1>3. CASE MintFails(o)
    BY <1>3, IdsThrow DEF MintFails
<1>4. CASE MintReplyLost(o)
    <2>1. TempInv'
        BY <1>4 DEF MintReplyLost, IdsInv, TempInv, Saving, ByKey, FactoryId
    <2>2. \A p \in Ops : Holds(p)' => Holds(p) /\ seen'[p].temp = seen[p].temp
        BY <1>4 DEF MintReplyLost, Holds, Saving
    <2>3. QED
        BY <1>4, <2>1, <2>2
           DEF MintReplyLost, IdsInv, HeldInv, MintedFactoriesHoldTheirId
<1>5. CASE CheckFactory(o)
    <2>1. CASE Throw(o)
        BY <1>5, <2>1, IdsThrow DEF CheckFactory
    <2>2. CASE ~Throw(o)
        <3>1. TempInv'
            BY <1>5, <2>2
               DEF CheckFactory, IdsInv, TempInv, Saving, ByKey, FactoryId
        <3>2. \A p \in Ops : Holds(p)' => Holds(p) /\ seen'[p].temp = seen[p].temp
            BY <1>5, <2>2 DEF CheckFactory, Holds, Saving
        <3>3. QED BY <1>5, <2>2, <3>1, <3>2, IdsKept DEF CheckFactory
    <2>3. QED BY <2>1, <2>2
<1>6. CASE SaveFactory(o) BY <1>6, IdsSave
<1>7. CASE Release(o) BY <1>7, IdsRelease
<1>8. CASE LoadFactory(o)
    BY <1>8, IdsThrow, IdsElsewhere DEF LoadFactory, Creating, Saving
<1>9. CASE UpdateFactory(o)
    BY <1>9, IdsThrow, IdsElsewhere DEF UpdateFactory, Creating, Saving
<1>10. CASE CheckAssets(o)
    BY <1>10, IdsThrow, IdsElsewhere DEF CheckAssets, Creating, Saving
<1>11. CASE DeleteFactory(o)
    BY <1>11, IdsElsewhere DEF DeleteFactory, Creating, Saving
<1>12. QED
    BY <1>1, <1>2, <1>3, <1>4, <1>5, <1>6, <1>7, <1>8, <1>9, <1>10, <1>11
       DEF FactoryStep

LEMMA IdsNext == ASSUME ~Reissue PROVE IdsInv /\ [Next]_vars => IdsInv'
<1> SUFFICES ASSUME IdsInv, [Next]_vars PROVE IdsInv'
    OBVIOUS
<1>1. CASE UNCHANGED vars
    <2>1. TypeInv' BY <1>1, TypeNext DEF IdsInv
    <2>2. TempInv'
        BY <1>1 DEF vars, IdsInv, TempInv, ByKey, FactoryId
    <2>3. \A p \in Ops : Holds(p)' => Holds(p) /\ seen'[p].temp = seen[p].temp
        BY <1>1 DEF vars, Holds
    <2>4. QED BY <1>1, <2>1, <2>2, <2>3, IdsKept DEF vars
<1>2. ASSUME NEW o \in Ops, PermissionDenied(o) \/ StatementFails(o) PROVE IdsInv'
    BY <1>2, IdsThrow DEF PermissionDenied, StatementFails, Writes, Failed
<1>3. QED
    BY <1>1, <1>2, IdsStart, IdsAssetStep, IdsFactoryStep, IdsCompanyStep
       DEF Next

\* If ICID never mints the same id twice, the compensation in createFactory's
\* catch block never takes away the id of a factory in the table, whatever
\* fails and however requests interleave.
THEOREM MintedIdsAreNotTakenAway ==
    ASSUME ~Reissue PROVE Spec => []MintedFactoriesHoldTheirId
<1>1. IdsInv /\ [Next]_vars => IdsInv'
    BY IdsNext
<1>2. IdsInv => MintedFactoriesHoldTheirId
    BY DEF IdsInv
<1>3. QED BY <1>1, <1>2, IdsInit, PTL DEF Spec

-----------------------------------------------------------------------------
(* Assets that name a factory which is gone.                               *)

\* Request q saved asset r at factory f while f went.
RacedTo(q, r, f) == q \in raced /\ call[q].factory = f /\ (r = q \/ seen[q].row = r)

AtFactory(r, f) == assets[r] # None /\ f # None /\ assets[r].factory = f

\* A factory that is gone, or that was counted empty and is about to go, is
\* named by assets of raced requests only; those requests are over.
RaceInv ==
    /\ \A q \in raced : pc[q] = "done"
    /\ \A r \in Ops, f \in FactoryIds :
         /\ AtFactory(r, f)
         /\ \/ factories[f] = None
            \/ \E p \in Ops : pc[p] = "deleteFactory" /\ call[p].id = f
         => \E q \in Ops : RacedTo(q, r, f)

\* A step that saves no asset and takes no factory away keeps it, provided that
\* what it lets go ahead with the deletion of a factory saw no asset there.
LEMMA RaceKept ==
    ASSUME TypeInv, RaceInv, UNCHANGED raced,
           \A q \in raced : /\ pc'[q] = pc[q] /\ call'[q] = call[q]
                            /\ seen'[q] = seen[q],
           \A r \in Ops : assets'[r] \in {assets[r], None},
           \A f \in FactoryIds : factories'[f] = None => factories[f] = None,
           \A p \in Ops : pc'[p] = "deleteFactory" =>
             \/ pc[p] = "deleteFactory" /\ call'[p] = call[p]
             \/ \A r \in Ops : ~AtFactory(r, call'[p].id)
    PROVE  RaceInv'
<1>1. \A q \in raced' : pc'[q] = "done"
    BY DEF RaceInv
<1>2. ASSUME NEW r \in Ops, NEW f \in FactoryIds, AtFactory(r, f)',
             \/ factories'[f] = None
             \/ \E p \in Ops : pc'[p] = "deleteFactory" /\ call'[p].id = f
      PROVE  \E q \in Ops : RacedTo(q, r, f)'
    <2>1. AtFactory(r, f)
        BY <1>2 DEF AtFactory
    <2>2. factories[f] = None
          \/ \E p \in Ops : pc[p] = "deleteFactory" /\ call[p].id = f
        BY <1>2, <2>1
    <2>3. PICK q \in Ops : RacedTo(q, r, f)
        BY <2>1, <2>2 DEF RaceInv
    <2>4. QED BY <2>3 DEF RacedTo
<1>3. QED BY <1>1, <1>2 DEF RaceInv

\* A request that has not been answered, and goes on elsewhere.
LEMMA RaceStep ==
    ASSUME TypeInv, RaceInv, NEW o \in Ops, pc[o] # "done", UNCHANGED raced,
           NEW l \in Steps \cup Finished, l # "deleteFactory", Goto(o, l),
           \A p \in Ops \ {o} : call'[p] = call[p] /\ seen'[p] = seen[p],
           \A r \in Ops : assets'[r] \in {assets[r], None},
           \A f \in FactoryIds : factories'[f] = None => factories[f] = None
    PROVE  RaceInv'
<1>1. \A p \in Ops : pc'[p] = IF p = o THEN l ELSE pc[p]
    BY DEF Goto, TypeInv, TypeOK
<1>2. \A q \in raced : q \in Ops \ {o}
    BY DEF TypeInv, TypeOK, RaceInv
<1>3. QED BY <1>1, <1>2, RaceKept

LEMMA RaceThrow ==
    ASSUME TypeInv, RaceInv, NEW o \in Ops, pc[o] # "done", Throw(o)
    PROVE  RaceInv'
BY RaceStep DEF Throw, Proceed, TypeInv, TypeOK, Steps, Finished, Failed

\* The request saves asset r at its own factory, or leaves the factory alone.
LEMMA RaceSave ==
    ASSUME TypeInv, RaceInv, NEW o \in Ops, NEW r \in Ops, NEW g,
           pc[o] \notin {"done", "deleteFactory"}, Goto(o, "done"), NoteRace(o, g),
           UNCHANGED <<factories, call, seen>>,
           \A q \in Ops \ {r} : assets'[q] = assets[q],
           assets'[r] # None => \/ assets[r] # None /\ assets'[r].factory = assets[r].factory
                                \/ /\ assets'[r].factory = g /\ call[o].factory = g
                                   /\ r = o \/ seen[o].row = r
    PROVE  RaceInv'
<1>1. \A p \in Ops : pc'[p] = IF p = o THEN "done" ELSE pc[p]
    BY DEF Goto, TypeInv, TypeOK
<1>2. \A q \in raced' : pc'[q] = "done"
    BY <1>1 DEF RaceInv, NoteRace, TypeInv, TypeOK
<1>3. ASSUME NEW s \in Ops, NEW f \in FactoryIds, AtFactory(s, f)',
             \/ factories'[f] = None
             \/ \E p \in Ops : pc'[p] = "deleteFactory" /\ call'[p].id = f
      PROVE  \E q \in Ops : RacedTo(q, s, f)'
    <2>1. factories[f] = None
          \/ \E p \in Ops : pc[p] = "deleteFactory" /\ call[p].id = f
        BY <1>1, <1>3
    <2>2. CASE AtFactory(s, f)
        <3>1. PICK q \in Ops : RacedTo(q, s, f)
            BY <2>1, <2>2 DEF RaceInv
        <3>2. QED BY <3>1 DEF RacedTo, NoteRace
    <2>3. CASE ~AtFactory(s, f)
        <3>1. s = r /\ g = f /\ f # None /\ call[o].factory = g
              /\ (r = o \/ seen[o].row = r)
            BY <1>3, <2>3 DEF AtFactory
        <3>2. o \in raced'
            BY <2>1, <3>1 DEF NoteRace
        <3>3. QED BY <3>1, <3>2 DEF RacedTo
    <2>4. QED BY <2>2, <2>3
<1>4. QED BY <1>2, <1>3 DEF RaceInv

LEMMA RaceAssetStep ==
    ASSUME TypeInv, RaceInv, NEW o \in Ops, AssetStep(o) PROVE RaceInv'
<1> USE RaceStep, RaceThrow
        DEF TypeInv, TypeOK, Check, Proceed, Remember, Remove, Steps, Finished
<1>1. CASE CheckCompany(o) BY <1>1 DEF CheckCompany
<1>2. CASE FindOwner(o) BY <1>2 DEF FindOwner
<1>3. CASE FindFactory(o) BY <1>3 DEF FindFactory
<1>4. CASE SaveAsset(o)
    <2>1. CASE Throw(o) BY <1>4, <2>1 DEF SaveAsset
    <2>2. CASE ~Throw(o)
        BY <1>4, <2>2, RaceSave DEF SaveAsset
    <2>3. QED BY <2>1, <2>2
<1>5. CASE LoadAsset(o)
    <2>1. CASE Throw(o) BY <1>5, <2>1 DEF LoadAsset
    <2>2. CASE ~Throw(o)
        <3>1. PICK r \in Ops, l \in {"findOwner", "deleteAsset"} :
                Remember(o, "row", r, l)
            BY <1>5, <2>2 DEF LoadAsset, Rows
        <3>2. QED BY <1>5, <3>1 DEF LoadAsset
    <2>3. QED BY <2>1, <2>2
<1>6. CASE UpdateAsset(o)
    <2>1. /\ pc[o] = "updateAsset" /\ Goto(o, "done")
          /\ NoteRace(o, call[o].factory)
          /\ UNCHANGED <<factories, call, seen>>
          /\ assets' = [r \in Ops |-> IF r = seen[o].row /\ assets[r] # None
                                        THEN Updated(o, assets[r]) ELSE assets[r]]
        BY <1>6 DEF UpdateAsset
    <2>2. CASE seen[o].row = None
        <3>1. assets' = assets
            BY <2>1, <2>2, AssetRegistryAssumption
        <3>2. QED BY <2>1, <3>1, RaceSave
    <2>3. CASE seen[o].row # None
        <3>1. PICK r \in Ops : seen[o].row = r
            BY <2>3 DEF Seen
        <3>2. assets[r] # None => assets[r] \in Asset
            OBVIOUS
        <3>3. assets[r] # None =>
                Updated(o, assets[r]).factory \in {assets[r].factory, call[o].factory}
            BY <3>2 DEF Updated, Given, Asset
        <3>4. assets'[r] # None =>
                assets[r] # None
                /\ assets'[r].factory \in {assets[r].factory, call[o].factory}
            BY <2>1, <3>1, <3>3
        <3>5. \A q \in Ops \ {r} : assets'[q] = assets[q]
            BY <2>1, <3>1
        <3>6. QED BY <2>1, <3>1, <3>4, <3>5, RaceSave
    <2>4. QED BY <2>2, <2>3
<1>7. CASE DeleteAsset(o) BY <1>7 DEF DeleteAsset
<1>8. CASE LoadAssets(o) BY <1>8 DEF LoadAssets
<1>9. CASE CheckOwners(o) BY <1>9 DEF CheckOwners
<1>10. CASE DeleteAssets(o) BY <1>10 DEF DeleteAssets
<1>11. QED
    BY <1>1, <1>2, <1>3, <1>4, <1>5, <1>6, <1>7, <1>8, <1>9, <1>10 DEF AssetStep

LEMMA RaceFactoryStep ==
    ASSUME TypeInv, RaceInv, NEW o \in Ops, FactoryStep(o) PROVE RaceInv'
<1> USE RaceStep, RaceThrow
        DEF TypeInv, TypeOK, Check, Proceed, Steps, Finished, Failed
<1>1. CASE LoadOwner(o) BY <1>1 DEF LoadOwner
<1>2. CASE Mint(o) BY <1>2 DEF Mint
<1>3. CASE MintFails(o) BY <1>3 DEF MintFails
<1>4. CASE MintReplyLost(o) BY <1>4 DEF MintReplyLost
<1>5. CASE CheckFactory(o) BY <1>5 DEF CheckFactory
<1>6. CASE SaveFactory(o)
    <2>1. call[o].company \in Companies
        BY <1>6, MintedId DEF SaveFactory, CallInv, Saving
    <2>2. call[o].company # None
        BY <2>1, AssetRegistryAssumption
    <2>3. QED BY <1>6, <2>2 DEF SaveFactory
<1>7. CASE Release(o) BY <1>7 DEF Release
<1>8. CASE LoadFactory(o) BY <1>8 DEF LoadFactory
<1>9. CASE UpdateFactory(o) BY <1>9 DEF UpdateFactory
<1>10. CASE CheckAssets(o)
    <2>1. CASE Throw(o) BY <1>10, <2>1 DEF CheckAssets
    <2>2. CASE ~Throw(o)
        <3>1. /\ pc[o] = "checkAssets"
              /\ \A r \in Ops : ~AtFactory(r, call[o].id)
              /\ Proceed(o, "deleteFactory")
            BY <1>10, <2>2 DEF CheckAssets, AtFactory
        <3>2. QED BY <3>1, RaceKept DEF Goto, RaceInv
    <2>3. QED BY <2>1, <2>2
<1>11. CASE DeleteFactory(o)
    <2>1. /\ pc[o] = "deleteFactory" /\ pc' = [pc EXCEPT ![o] = "done"]
          /\ factories' = [factories EXCEPT ![call[o].id] = None]
          /\ UNCHANGED <<companies, assets, icid, call, seen, raced>>
        BY <1>11 DEF DeleteFactory, Goto
    <2>2. \A q \in raced' : pc'[q] = "done"
        BY <2>1 DEF RaceInv
    <2>3. ASSUME NEW s \in Ops, NEW f \in FactoryIds, AtFactory(s, f)',
                 \/ factories'[f] = None
                 \/ \E p \in Ops : pc'[p] = "deleteFactory" /\ call'[p].id = f
          PROVE  \E q \in Ops : RacedTo(q, s, f)'
        <3>1. AtFactory(s, f)
            BY <2>1, <2>3 DEF AtFactory
        <3>2. factories[f] = None
              \/ \E p \in Ops : pc[p] = "deleteFactory" /\ call[p].id = f
            BY <2>1, <2>3
        <3>3. PICK q \in Ops : RacedTo(q, s, f)
            BY <3>1, <3>2 DEF RaceInv
        <3>4. QED BY <2>1, <3>3 DEF RacedTo
    <2>4. QED BY <2>2, <2>3 DEF RaceInv
<1>12. QED
    BY <1>1, <1>2, <1>3, <1>4, <1>5, <1>6, <1>7, <1>8, <1>9, <1>10, <1>11
       DEF FactoryStep

LEMMA RaceNext == TypeInv /\ RaceInv /\ [Next]_vars => RaceInv'
<1> SUFFICES ASSUME TypeInv, RaceInv, [Next]_vars PROVE RaceInv'
    OBVIOUS
<1>1. CASE UNCHANGED vars
    BY <1>1, RaceKept DEF vars
<1>2. ASSUME NEW o \in Ops, PermissionDenied(o) \/ StatementFails(o) PROVE RaceInv'
    BY <1>2, RaceThrow DEF PermissionDenied, StatementFails, Writes
<1>3. ASSUME NEW o \in Ops, CompanyStep(o) PROVE RaceInv'
    <2> USE RaceStep, RaceThrow
            DEF TypeInv, TypeOK, Check, Proceed, Remove, Steps, Finished
    <2>1. CASE LoadCompany(o) BY <2>1 DEF LoadCompany
    <2>2. CASE DeleteCompanyAssets(o) BY <2>2 DEF DeleteCompanyAssets
    <2>3. CASE DeleteCompany(o) BY <2>3 DEF DeleteCompany
    <2>4. QED BY <1>3, <2>1, <2>2, <2>3 DEF CompanyStep
<1>4. ASSUME NEW o \in Ops, Start(o) PROVE RaceInv'
    <2>1. PICK c \in Calls : call' = [call EXCEPT ![o] = c] /\ Goto(o, FirstStep(c))
        BY <1>4 DEF Start
    <2>2. FirstStep(c) \in Steps \ {"deleteFactory"}
        BY FirstSteps DEF Steps
    <2>3. QED BY <1>4, <2>1, <2>2, RaceStep DEF Start, TypeInv, TypeOK
<1>5. QED
    BY <1>1, <1>2, <1>3, <1>4, RaceAssetStep, RaceFactoryStep DEF Next

\* Whatever runs at once, an asset is left at a factory that is gone only by a
\* request that raced with the factory's deletion.
THEOREM OnlyRacesDangle == Spec => []DanglingIsARace
<1>1. Init => TypeInv /\ RaceInv
    <2>1. Init => RaceInv
        BY DEF Init, RaceInv, AtFactory
    <2>2. QED BY <2>1, TypeInit
<1>2. TypeInv /\ RaceInv /\ [Next]_vars => (TypeInv /\ RaceInv)'
    BY TypeNext, RaceNext
<1>3. TypeInv /\ RaceInv => DanglingIsARace
    <2> SUFFICES ASSUME TypeInv, RaceInv, NEW r \in Ops, assets[r] # None,
                        assets[r].factory # None, factories[assets[r].factory] = None
                 PROVE  \E o \in raced : /\ call[o].factory = assets[r].factory
                                         /\ r = o \/ seen[o].row = r
        BY DEF DanglingIsARace
    <2>1. assets[r].factory \in FactoryIds
        BY DEF TypeInv, TypeOK, Asset
    <2>2. QED BY <2>1 DEF RaceInv, AtFactory, RacedTo
<1>4. QED BY <1>1, <1>2, <1>3, PTL DEF Spec

-----------------------------------------------------------------------------
(* Whose assets a request changes.                                         *)

\* Request r created the asset row of the same name.
Created(r) == pc[r] = "done" /\ call[r] \in CreateAssetCalls

\* A row keeps the URN and the company it was asked for.
RowInv ==
    \A r \in Ops : assets[r] # None =>
      /\ Created(r)
      /\ assets[r].company = call[r].company /\ assets[r].urn = call[r].urn

\* A request past its checks works on rows of its caller.
OwnInv(o) ==
    /\ pc[o] = "idle" => seen[o] = Nothing
    /\ pc[o] \in {"checkCompany", "saveAsset"} => seen[o].row = None
    /\ pc[o] \in {"findOwner", "findFactory"} =>
         (call[o].kind = "createAsset" <=> seen[o].row = None)
    /\ pc[o] \in {"updateAsset", "deleteAsset"} => seen[o].row # None
    /\ pc[o] \notin Finished /\ seen[o].row # None =>
         /\ seen[o].row \in Ops /\ Created(seen[o].row)
         /\ call[seen[o].row].company = call[o].caller
         /\ call[seen[o].row].urn = call[o].urn
    /\ pc[o] \in {"checkOwners", "deleteAssets"} =>
         \A r \in seen[o].rows : Created(r)
    /\ pc[o] = "deleteAssets" =>
         \A r \in seen[o].rows :
           call[r].company \in companies => call[r].company = call[o].caller
    /\ pc[o] \in {"deleteCompanyAssets", "deleteCompany"} =>
         call[o].company = call[o].caller

TenantInv == TypeInv /\ RowInv /\ \A o \in Ops : OwnInv(o)

\* A step of one request that adds no row and leaves that request in order.
LEMMA TenantKept ==
    ASSUME TenantInv, TypeInv', NEW o \in Ops, pc[o] # "done", pc[o] \notin Failed,
           \A p \in Ops \ {o} : /\ pc'[p] = pc[p] /\ call'[p] = call[p]
                                /\ seen'[p] = seen[p],
           companies' \subseteq companies,
           \A r \in Ops : assets'[r] # None =>
             /\ assets[r] # None
             /\ assets'[r].company = assets[r].company
             /\ assets'[r].urn = assets[r].urn,
           OwnInv(o)'
    PROVE  TenantInv'
<1> USE DEF TenantInv, TypeInv, TypeOK
<1>1. \A r \in Ops : Created(r) => Created(r)' /\ call'[r] = call[r]
    BY DEF Created
<1>2. RowInv'
    BY <1>1 DEF RowInv
<1>3. ASSUME NEW p \in Ops \ {o} PROVE OwnInv(p)'
    <2>1. OwnInv(p)
        OBVIOUS
    <2>2. seen[p].row \in Ops \cup {None} /\ seen[p].rows \subseteq Ops
        BY DEF Seen
    <2>3. pc'[p] = pc[p] /\ call'[p] = call[p] /\ seen'[p] = seen[p]
        OBVIOUS
    <2>4. \A r \in seen[p].rows : Created(r) => Created(r)' /\ call'[r] = call[r]
        BY <1>1, <2>2
    <2>5. seen[p].row # None /\ Created(seen[p].row) =>
            Created(seen[p].row)' /\ call'[seen[p].row] = call[seen[p].row]
        BY <1>1, <2>2
    <2>6. pc[p] = "deleteAssets" =>
            \A r \in seen'[p].rows :
              call'[r].company \in companies' => call'[r].company = call'[p].caller
        BY <2>1, <2>3, <2>4 DEF OwnInv
    <2>7. pc[p] \notin Finished /\ seen[p].row # None =>
            /\ seen'[p].row \in Ops /\ Created(seen[p].row)'
            /\ call'[seen[p].row].company = call'[p].caller
            /\ call'[seen[p].row].urn = call'[p].urn
        BY <2>1, <2>3, <2>5 DEF OwnInv
    <2>8. pc[p] \in {"checkOwners", "deleteAssets"} =>
            \A r \in seen'[p].rows : Created(r)'
        BY <2>1, <2>3, <2>4 DEF OwnInv
    <2>9. QED
        BY <2>1, <2>3, <2>6, <2>7, <2>8 DEF OwnInv
<1>4. QED BY <1>2, <1>3

\* Going on with what was known before.
LEMMA TenantStep ==
    ASSUME TenantInv, TypeInv', NEW o \in Ops, pc[o] \notin Finished,
           NEW l \in Steps \cup Finished, Goto(o, l), UNCHANGED call,
           \A p \in Ops \ {o} : seen'[p] = seen[p],
           seen'[o].row = seen[o].row, seen'[o].rows = seen[o].rows,
           companies' \subseteq companies,
           \A r \in Ops : assets'[r] \in {assets[r], None},
           l \notin {"idle", "checkCompany", "checkOwners"},
           l \in {"saveAsset", "updateAsset", "findFactory"} =>
             pc[o] \in {"findOwner", "findFactory"},
           l = "saveAsset" => call[o].kind = "createAsset",
           l = "updateAsset" => call[o].kind # "createAsset",
           l = "findOwner" => pc[o] = "checkCompany" /\ call[o].kind = "createAsset",
           l # "deleteAsset",
           l = "deleteAssets" =>
             /\ pc[o] = "checkOwners"
             /\ {call[r].company : r \in seen[o].rows} \cap companies
                  \subseteq {call[o].caller},
           l \in {"deleteCompanyAssets", "deleteCompany"} =>
             call[o].company = call[o].caller
    PROVE  TenantInv'
<1> USE DEF TenantInv, TypeInv, TypeOK
<1>1. /\ pc'[o] = l
      /\ \A p \in Ops \ {o} : pc'[p] = pc[p] /\ call'[p] = call[p]
                              /\ seen'[p] = seen[p]
    BY DEF Goto
<1>2. \A r \in Ops : Created(r) => Created(r)'
    BY <1>1 DEF Created, Finished
<1>3. seen[o].row \in Ops \cup {None} /\ seen[o].rows \subseteq Ops
    BY DEF Seen
<1>4. OwnInv(o)
    OBVIOUS
<1>5. OwnInv(o)'
    BY <1>1, <1>2, <1>3, <1>4 DEF OwnInv, Finished
<1>6. QED
    BY <1>1, <1>5, TenantKept DEF Finished

LEMMA TenantThrow ==
    ASSUME TenantInv, TypeInv', NEW o \in Ops, pc[o] \notin Finished, Throw(o)
    PROVE  TenantInv'
BY TenantStep DEF Throw, Proceed, Steps, Finished, Failed

LEMMA TenantAssetStep ==
    ASSUME TenantInv, NEW o \in Ops, AssetStep(o) PROVE TenantInv'
<1>0. TypeInv /\ TypeInv'
    BY TypeAssetStep DEF TenantInv
<1> USE <1>0, TenantStep, TenantThrow
        DEF TypeInv, TypeOK, Check, Proceed, Remember, Remove, Steps, Finished, Failed
<1>1. CASE CheckCompany(o)
    <2>1. call[o].kind = "createAsset"
        BY <1>1 DEF CheckCompany, CallInv, CreateAssetCalls
    <2>2. QED BY <1>1, <2>1 DEF CheckCompany
<1>2. CASE FindOwner(o) BY <1>2 DEF FindOwner
<1>3. CASE FindFactory(o) BY <1>3 DEF FindFactory
<1>4. CASE SaveAsset(o)
    <2>1. CASE Throw(o) BY <1>4, <2>1 DEF SaveAsset
    <2>2. CASE ~Throw(o)
        <3>1. /\ pc[o] = "saveAsset" /\ pc' = [pc EXCEPT ![o] = "done"]
              /\ assets' = [assets EXCEPT ![o] =
                   [urn |-> call[o].urn, company |-> call[o].company,
                    owner |-> call[o].owner, factory |-> call[o].factory]]
              /\ UNCHANGED <<companies, call, seen>>
            BY <1>4, <2>2 DEF SaveAsset, Goto
        <3>2. call[o] \in CreateAssetCalls
            BY <3>1 DEF CallInv
        <3>3. \A r \in Ops : Created(r) => Created(r)'
            BY <3>1 DEF Created
        <3>4. Created(o)'
            BY <3>1, <3>2 DEF Created
        <3>5. RowInv'
            BY <3>1, <3>3, <3>4 DEF TenantInv, RowInv
        <3>6. ASSUME NEW p \in Ops PROVE OwnInv(p)'
            <4>1. OwnInv(p) /\ seen[p].row \in Ops \cup {None}
                  /\ seen[p].rows \subseteq Ops
                BY DEF TenantInv, Seen
            <4>2. QED BY <3>1, <3>3, <4>1 DEF OwnInv
        <3>7. QED BY <3>5, <3>6 DEF TenantInv
    <2>3. QED BY <2>1, <2>2
<1>5. CASE LoadAsset(o)
    <2>1. CASE Throw(o) BY <1>5, <2>1 DEF LoadAsset
    <2>2. CASE ~Throw(o)
        <3>1. PICK r \in Rows({call[o].urn}) :
                /\ IsCallers(o, assets[r].company)
                /\ Remember(o, "row", r, IF call[o].kind = "updateAsset"
                                           THEN "findOwner" ELSE "deleteAsset")
            BY <1>5, <2>2 DEF LoadAsset
        <3>2. /\ r \in Ops /\ assets[r] # None /\ assets[r].urn = call[o].urn
              /\ assets[r].company = call[o].caller
            BY <3>1 DEF Rows, IsCallers
        <3>3. Created(r) /\ call[r].company = call[o].caller
              /\ call[r].urn = call[o].urn
            BY <3>2 DEF TenantInv, RowInv
        <3>4. /\ seen'[o].row = r /\ seen'[o].rows = seen[o].rows
              /\ \A p \in Ops \ {o} : seen'[p] = seen[p]
              /\ pc'[o] \in {"findOwner", "deleteAsset"}
              /\ \A p \in Ops \ {o} : pc'[p] = pc[p]
              /\ UNCHANGED <<companies, assets, call>>
              /\ pc[o] = "loadAsset" /\ pc'[o] = "findOwner" => call[o].kind = "updateAsset"
            BY <3>1 DEF Goto, Seen
        <3>5. pc[o] = "loadAsset"
            BY <1>5 DEF LoadAsset
        <3>6. Created(r)'
            BY <3>2, <3>3, <3>4, <3>5 DEF Created
        <3>7. r # None
            BY <3>2, AssetRegistryAssumption
        <3>8. OwnInv(o)'
            BY <3>2, <3>3, <3>4, <3>5, <3>6, <3>7 DEF OwnInv
        <3>9. QED BY <3>4, <3>5, <3>8, TenantKept
    <2>3. QED BY <2>1, <2>2
<1>6. CASE UpdateAsset(o)
    <2>1. /\ pc[o] = "updateAsset" /\ pc' = [pc EXCEPT ![o] = "done"]
          /\ UNCHANGED <<companies, call, seen>>
          /\ assets' = [r \in Ops |-> IF r = seen[o].row /\ assets[r] # None
                                        THEN Updated(o, assets[r]) ELSE assets[r]]
        BY <1>6 DEF UpdateAsset, Goto
    <2>2. ASSUME NEW r \in Ops, assets'[r] # None
          PROVE  /\ assets[r] # None
                 /\ assets'[r].company = assets[r].company
                 /\ assets'[r].urn = assets[r].urn
        <3>1. assets[r] # None
            BY <2>1, <2>2
        <3>2. assets[r] \in Asset
            BY <3>1
        <3>3. Updated(o, assets[r]).company = assets[r].company
              /\ Updated(o, assets[r]).urn = assets[r].urn
            BY <3>2 DEF Updated, Asset
        <3>4. QED BY <2>1, <3>1, <3>3
    <2>3. OwnInv(o)'
        BY <2>1 DEF OwnInv
    <2>4. QED BY <2>1, <2>2, <2>3, TenantKept
<1>7. CASE DeleteAsset(o) BY <1>7 DEF DeleteAsset
<1>8. CASE LoadAssets(o)
    <2>1. /\ pc[o] = "loadAssets" /\ pc' = [pc EXCEPT ![o] = "checkOwners"]
          /\ seen'[o].rows = Rows(call[o].urns) /\ seen'[o].row = seen[o].row
          /\ \A p \in Ops \ {o} : seen'[p] = seen[p]
          /\ UNCHANGED <<companies, assets, call>>
        BY <1>8 DEF LoadAssets, Goto, Seen
    <2>2. \A r \in Ops : Created(r) => Created(r)'
        BY <2>1 DEF Created
    <2>3. \A r \in Rows(call[o].urns) : r \in Ops /\ Created(r)
        BY DEF TenantInv, RowInv, Rows
    <2>4. OwnInv(o) /\ seen[o].row \in Ops \cup {None}
        BY DEF TenantInv, Seen
    <2>5. OwnInv(o)'
        BY <2>1, <2>2, <2>3, <2>4 DEF OwnInv
    <2>6. QED BY <2>1, <2>5, TenantKept
<1>9. CASE CheckOwners(o) BY <1>9 DEF CheckOwners
<1>10. CASE DeleteAssets(o) BY <1>10 DEF DeleteAssets
<1>11. QED
    BY <1>1, <1>2, <1>3, <1>4, <1>5, <1>6, <1>7, <1>8, <1>9, <1>10 DEF AssetStep

LEMMA TenantFactoryStep ==
    ASSUME TenantInv, NEW o \in Ops, FactoryStep(o) PROVE TenantInv'
<1>0. TypeInv /\ TypeInv'
    BY TypeFactoryStep DEF TenantInv
<1> USE <1>0, TenantStep, TenantThrow
        DEF TypeInv, TypeOK, Check, Proceed, Steps, Finished, Failed
<1>1. CASE LoadOwner(o) BY <1>1 DEF LoadOwner
<1>2. CASE Mint(o) BY <1>2 DEF Mint, Seen
<1>3. CASE MintFails(o) BY <1>3 DEF MintFails
<1>4. CASE MintReplyLost(o) BY <1>4 DEF MintReplyLost
<1>5. CASE CheckFactory(o) BY <1>5 DEF CheckFactory
<1>6. CASE SaveFactory(o) BY <1>6 DEF SaveFactory
<1>7. CASE Release(o) BY <1>7 DEF Release
<1>8. CASE LoadFactory(o) BY <1>8 DEF LoadFactory
<1>9. CASE UpdateFactory(o) BY <1>9 DEF UpdateFactory
<1>10. CASE CheckAssets(o) BY <1>10 DEF CheckAssets
<1>11. CASE DeleteFactory(o) BY <1>11 DEF DeleteFactory
<1>12. QED
    BY <1>1, <1>2, <1>3, <1>4, <1>5, <1>6, <1>7, <1>8, <1>9, <1>10, <1>11
       DEF FactoryStep

LEMMA TenantCompanyStep ==
    ASSUME TenantInv, NEW o \in Ops, CompanyStep(o) PROVE TenantInv'
<1>0. TypeInv /\ TypeInv' /\ OwnInv(o)
    BY TypeCompanyStep DEF TenantInv
<1> USE <1>0, TenantStep, TenantThrow
        DEF TypeInv, TypeOK, Check, Proceed, Remove, Steps, Finished, Failed
<1>1. CASE LoadCompany(o) BY <1>1 DEF LoadCompany, IsCallers
<1>2. CASE DeleteCompanyAssets(o) BY <1>2 DEF DeleteCompanyAssets, OwnInv
<1>3. CASE DeleteCompany(o) BY <1>3 DEF DeleteCompany
<1>4. QED BY <1>1, <1>2, <1>3 DEF CompanyStep

LEMMA TenantNext == TenantInv /\ [Next]_vars => TenantInv'
<1> SUFFICES ASSUME TenantInv, [Next]_vars PROVE TenantInv'
    OBVIOUS
<1>0. TypeInv /\ TypeInv'
    BY TypeNext DEF TenantInv
<1>1. CASE UNCHANGED vars
    <2>1. \A r \in Ops : Created(r)' <=> Created(r)
        BY <1>1 DEF vars, Created
    <2>2. RowInv'
        BY <1>1, <2>1 DEF vars, TenantInv, RowInv
    <2>3. ASSUME NEW p \in Ops PROVE OwnInv(p)'
        <3>1. OwnInv(p) /\ seen[p].rows \subseteq Ops
            BY <1>0 DEF TenantInv, TypeInv, TypeOK, Seen
        <3>2. QED BY <1>1, <2>1, <3>1 DEF vars, OwnInv
    <2>4. QED BY <1>0, <2>2, <2>3 DEF TenantInv
<1>2. ASSUME NEW o \in Ops, PermissionDenied(o) \/ StatementFails(o)
      PROVE  TenantInv'
    BY <1>0, <1>2, TenantThrow
       DEF PermissionDenied, StatementFails, Writes, Finished, Failed
<1>3. ASSUME NEW o \in Ops, Start(o) PROVE TenantInv'
    <2>1. PICK c \in Calls : call' = [call EXCEPT ![o] = c] /\ Goto(o, FirstStep(c))
        BY <1>3 DEF Start
    <2>2. /\ pc[o] = "idle" /\ pc'[o] = FirstStep(c) /\ seen' = seen
          /\ companies' = companies /\ assets' = assets
          /\ \A p \in Ops \ {o} : pc'[p] = pc[p] /\ call'[p] = call[p]
        BY <1>0, <1>3, <2>1 DEF Start, Goto, TypeInv, TypeOK
    <2>3. seen[o] = Nothing
        BY <2>2 DEF TenantInv, OwnInv
    <2>4. OwnInv(o)'
        BY <2>2, <2>3, FirstSteps, AssetRegistryAssumption DEF OwnInv, Nothing
    <2>5. QED BY <1>0, <2>2, <2>4, TenantKept DEF Failed
<1>4. QED
    BY <1>1, <1>2, <1>3, TenantAssetStep, TenantFactoryStep, TenantCompanyStep
       DEF Next

LEMMA TenantInit == Init => TenantInv
BY TypeInit DEF Init, TenantInv, RowInv, OwnInv, Nothing, Finished

\* No company's assets are changed or deleted by another, if companies register
\* URNs of their own; but for the window of deleteAssets.
THEOREM AssetsAreTheirCompanys ==
    ASSUME \A c, d \in Companies : c # d => UrnsOf[c] \cap UrnsOf[d] = {}
    PROVE  Spec => AssetsStayInTenant
<1> DEFINE Excused(r) ==
      assets[r] # None /\ assets'[r] # assets[r] /\ assets[r].company \in companies
      => \E o \in Ops :
           /\ Running(o)
           /\ \/ call[o].caller = assets[r].company
              \/ pc[o] = "deleteAssets" /\ r \notin seen[o].rows
<1>1. TenantInv /\ [Next]_vars => [\A r \in Ops : Excused(r)]_vars
    <2> SUFFICES ASSUME TenantInv, NEW r \in Ops, NEW o \in Ops, assets[r] # None,
                        assets'[r] # assets[r], assets[r].company \in companies,
                        \/ Start(o) \/ AssetStep(o) \/ FactoryStep(o)
                        \/ CompanyStep(o) \/ PermissionDenied(o) \/ StatementFails(o)
                 PROVE  /\ Running(o)
                        /\ \/ call[o].caller = assets[r].company
                           \/ pc[o] = "deleteAssets" /\ r \notin seen[o].rows
        BY DEF Next
    <2>1. /\ OwnInv(o) /\ TypeInv /\ Created(r)
          /\ assets[r].company = call[r].company /\ assets[r].urn = call[r].urn
        BY DEF TenantInv, RowInv
    <2>2. call[r].urn \in UrnsOf[call[r].company] /\ call[r].company \in Companies
        BY <2>1 DEF Created, CreateAssetCalls
    <2> USE DEF Check, Throw, Proceed, Remember, Remove, Goto, Running, Finished, Failed
    <2>3. CASE SaveAsset(o)
        <3>1. r # o
            BY <2>1, <2>3 DEF SaveAsset, Created
        <3>2. assets'[r] = assets[r]
            BY <2>1, <2>3, <3>1 DEF SaveAsset, TypeInv, TypeOK
        <3>3. QED BY <3>2
    <2>4. CASE UpdateAsset(o)
        <3>1. pc[o] = "updateAsset" /\ seen[o].row = r
            BY <2>1, <2>4 DEF UpdateAsset, TypeInv, TypeOK
        <3>2. QED BY <2>1, <3>1, AssetRegistryAssumption DEF OwnInv
    <2>5. CASE DeleteAsset(o)
        <3>1. pc[o] = "deleteAsset" /\ assets[r].urn = call[o].urn
            BY <2>1, <2>5 DEF DeleteAsset, Rows, TypeInv, TypeOK
        <3>2. PICK s \in Ops : /\ Created(s) /\ call[s].company = call[o].caller
                               /\ call[s].urn = call[o].urn
            BY <2>1, <3>1 DEF OwnInv
        <3>3. call[s].urn \in UrnsOf[call[s].company] /\ call[s].company \in Companies
            BY <3>2 DEF Created, CreateAssetCalls
        <3>4. call[s].company = call[r].company
            BY <2>1, <2>2, <3>1, <3>2, <3>3
        <3>5. QED BY <2>1, <3>1, <3>2, <3>4
    <2>6. CASE DeleteAssets(o)
        <3>1. pc[o] = "deleteAssets"
            BY <2>6 DEF DeleteAssets
        <3>2. r \in seen[o].rows => call[r].company = call[o].caller
            BY <2>1, <3>1 DEF OwnInv
        <3>3. QED BY <2>1, <3>1, <3>2
    <2>7. CASE DeleteCompanyAssets(o)
        <3>1. pc[o] = "deleteCompanyAssets" /\ assets[r].company = call[o].company
            BY <2>1, <2>7 DEF DeleteCompanyAssets, Rows, TypeInv, TypeOK
        <3>2. QED BY <2>1, <3>1 DEF OwnInv
    <2>8. CASE assets' = assets
        BY <2>8
    <2>9. QED
        BY <2>3, <2>4, <2>5, <2>6, <2>7, <2>8
           DEF AssetStep, FactoryStep, CompanyStep, Start, PermissionDenied,
               StatementFails, CheckCompany, FindOwner, FindFactory, LoadAsset,
               LoadAssets, CheckOwners, LoadOwner, Mint, MintFails, MintReplyLost,
               CheckFactory, SaveFactory, Release, LoadFactory, UpdateFactory,
               CheckAssets, DeleteFactory, LoadCompany, DeleteCompany
<1>2. QED
    BY <1>1, TenantInit, TenantNext, PTL DEF Spec, AssetsStayInTenant

-----------------------------------------------------------------------------
(* Who answers for an id that ICID holds.                                  *)

Answers(o, f) ==
    \/ seen[o].temp = f /\ pc[o] # "failed"
    \/ pc[o] = "unanswered" /\ FactoryId(o) = f

\* Nothing is held before the mint.
HoldingInv ==
    /\ \A f \in icid : \E o \in Ops : Answers(o, f)
    /\ \A o \in Ops : pc[o] \in {"idle", "loadOwner", "mint"} => seen[o].temp = None

\* A step by a request that keeps what it holds, unless it gives it back.
LEMMA HoldingKept ==
    ASSUME TypeInv, HoldingInv, NEW o \in Ops, pc[o] \notin Finished \ {"idle"},
           NEW l \in Steps \cup Finished, Goto(o, l),
           \A p \in Ops \ {o} : call'[p] = call[p] /\ seen'[p] = seen[p],
           seen'[o].temp = seen[o].temp, icid' \subseteq icid,
           seen[o].temp # None =>
             /\ l \notin {"idle", "loadOwner", "mint"}
             /\ l = "failed" => seen[o].temp \notin icid'
    PROVE  HoldingInv'
<1> USE DEF TypeInv, TypeOK
<1>1. pc'[o] = l /\ \A p \in Ops \ {o} : pc'[p] = pc[p]
    BY DEF Goto
<1>2. ASSUME NEW f \in icid' PROVE \E q \in Ops : Answers(q, f)'
    <2>1. PICK q \in Ops : Answers(q, f)
        BY <1>2 DEF HoldingInv
    <2>2. CASE q = o
        <3>1. seen[o].temp = f /\ f # None
            BY <2>1, <2>2, AssetRegistryAssumption
               DEF Answers, Finished, Failed, FactoryIds
        <3>2. QED BY <1>1, <1>2, <3>1 DEF Answers
    <2>3. CASE q # o
        <3>1. Answers(q, f)'
            BY <1>1, <2>1, <2>3 DEF Answers, FactoryId, ByKey
        <3>2. QED BY <3>1
    <2>4. QED BY <2>2, <2>3
<1>3. QED BY <1>1, <1>2 DEF HoldingInv

LEMMA HoldingThrow ==
    ASSUME TypeInv, HoldingInv, NEW o \in Ops, pc[o] \notin Finished, Throw(o)
    PROVE  HoldingInv'
<1>0. /\ Goto(o, IF seen[o].temp # None THEN "release" ELSE "failed")
      /\ UNCHANGED <<icid, call, seen>>
    BY DEF Throw, Proceed
<1>1. CASE seen[o].temp # None
    BY <1>0, <1>1, HoldingKept DEF Steps
<1>2. CASE seen[o].temp = None
    <2>1. Goto(o, "failed") /\ "failed" \in Steps \cup Finished
        BY <1>0, <1>2 DEF Finished, Failed
    <2>2. QED BY <1>0, <1>2, <2>1, HoldingKept
<1>3. QED BY <1>1, <1>2

\* The id is ICID's at the moment it becomes this request's.
LEMMA HoldingMint ==
    ASSUME TypeInv, HoldingInv, NEW o \in Ops, pc[o] = "mint",
           icid' = icid \cup {FactoryId(o)}, UNCHANGED call,
           \/ Goto(o, "checkFactory") /\ seen' = [seen EXCEPT ![o].temp = FactoryId(o)]
           \/ Goto(o, "unanswered") /\ UNCHANGED seen
    PROVE  HoldingInv'
<1> USE DEF TypeInv, TypeOK
<1>1. /\ \A p \in Ops \ {o} : pc'[p] = pc[p] /\ seen'[p] = seen[p]
      /\ pc'[o] \in {"checkFactory", "unanswered"}
      /\ pc'[o] = "checkFactory" => seen'[o].temp = FactoryId(o)
    BY DEF Goto, Seen
<1>2. Answers(o, FactoryId(o))'
    BY <1>1 DEF Answers, FactoryId, ByKey, Goto
<1>3. seen[o].temp = None
    BY DEF HoldingInv
<1>4. ASSUME NEW f \in icid', f # FactoryId(o) PROVE \E q \in Ops : Answers(q, f)'
    <2>1. PICK q \in Ops : Answers(q, f)
        BY <1>4 DEF HoldingInv
    <2>2. f \in Minted /\ f # None
        BY <1>4, AssetRegistryAssumption DEF FactoryIds
    <2>3. q # o
        BY <1>3, <2>1, <2>2 DEF Answers
    <2>4. Answers(q, f)'
        BY <1>1, <2>1, <2>3 DEF Answers, FactoryId, ByKey
    <2>5. QED BY <2>4
<1>5. FactoryId(o)' = FactoryId(o)
    BY DEF FactoryId, ByKey
<1>6. QED BY <1>1, <1>2, <1>4, <1>5 DEF HoldingInv

LEMMA HoldingNext == TypeInv /\ HoldingInv /\ [Next]_vars => HoldingInv'
<1> SUFFICES ASSUME TypeInv, HoldingInv, [Next]_vars PROVE HoldingInv'
    OBVIOUS
<1> USE HoldingKept, HoldingThrow
        DEF TypeInv, TypeOK, Check, Proceed, Remember, Remove, Steps, Finished, Failed
<1>1. CASE UNCHANGED vars
    BY <1>1 DEF vars, HoldingInv, Answers, FactoryId, ByKey
<1>2. ASSUME NEW o \in Ops, PermissionDenied(o) \/ StatementFails(o)
      PROVE  HoldingInv'
    BY <1>2 DEF PermissionDenied, StatementFails, Writes
<1>3. ASSUME NEW o \in Ops, Start(o) PROVE HoldingInv'
    <2>1. PICK c \in Calls : call' = [call EXCEPT ![o] = c] /\ Goto(o, FirstStep(c))
        BY <1>3 DEF Start
    <2>2. seen[o].temp = None
        BY <1>3 DEF Start, HoldingInv
    <2>3. QED BY <1>3, <2>1, <2>2, FirstSteps DEF Start
<1>4. ASSUME NEW o \in Ops, AssetStep(o) PROVE HoldingInv'
    <2>1. CASE CheckCompany(o) BY <2>1 DEF CheckCompany
    <2>2. CASE FindOwner(o) BY <2>2 DEF FindOwner
    <2>3. CASE FindFactory(o) BY <2>3 DEF FindFactory
    <2>4. CASE SaveAsset(o) BY <2>4 DEF SaveAsset
    <2>5. CASE LoadAsset(o)
        <3>1. CASE Throw(o) BY <2>5, <3>1 DEF LoadAsset
        <3>2. CASE ~Throw(o)
            <4>1. PICK r \in Ops, l \in {"findOwner", "deleteAsset"} :
                    Remember(o, "row", r, l)
                BY <2>5, <3>2 DEF LoadAsset, Rows
            <4>2. seen'[o].temp = seen[o].temp
                BY <4>1 DEF Seen
            <4>3. pc[o] = "loadAsset" /\ \A p \in Ops \ {o} : seen'[p] = seen[p]
                BY <2>5, <4>1 DEF LoadAsset
            <4>4. QED BY <4>1, <4>2, <4>3
        <3>3. QED BY <3>1, <3>2
    <2>6. CASE UpdateAsset(o) BY <2>6 DEF UpdateAsset
    <2>7. CASE DeleteAsset(o) BY <2>7 DEF DeleteAsset
    <2>8. CASE LoadAssets(o)
        <3>1. seen'[o].temp = seen[o].temp
            BY <2>8 DEF LoadAssets, Seen
        <3>2. QED BY <2>8, <3>1 DEF LoadAssets
    <2>9. CASE CheckOwners(o) BY <2>9 DEF CheckOwners
    <2>10. CASE DeleteAssets(o) BY <2>10 DEF DeleteAssets
    <2>11. QED
        BY <1>4, <2>1, <2>2, <2>3, <2>4, <2>5, <2>6, <2>7, <2>8, <2>9, <2>10
           DEF AssetStep
<1>5. ASSUME NEW o \in Ops, FactoryStep(o) PROVE HoldingInv'
    <2>1. CASE LoadOwner(o)
        <3>1. seen[o].temp = None
            BY <2>1 DEF LoadOwner, HoldingInv
        <3>2. QED BY <2>1, <3>1 DEF LoadOwner
    <2>2. CASE Mint(o)
        <3>1. CASE Throw(o) BY <2>2, <3>1 DEF Mint
        <3>2. CASE ~Throw(o) BY <2>2, <3>2, HoldingMint DEF Mint
        <3>3. QED BY <3>1, <3>2
    <2>3. CASE MintFails(o) BY <2>3 DEF MintFails
    <2>4. CASE MintReplyLost(o) BY <2>4, HoldingMint DEF MintReplyLost
    <2>5. CASE CheckFactory(o) BY <2>5 DEF CheckFactory
    <2>6. CASE SaveFactory(o) BY <2>6 DEF SaveFactory
    <2>7. CASE Release(o)
        <3>1. CASE icid' = icid \ {seen[o].temp} /\ Goto(o, "failed")
            BY <2>7, <3>1 DEF Release
        <3>2. CASE icid' = icid /\ Goto(o, "unreleased")
            BY <2>7, <3>2 DEF Release
        <3>3. QED BY <2>7, <3>1, <3>2 DEF Release
    <2>8. CASE LoadFactory(o) BY <2>8 DEF LoadFactory
    <2>9. CASE UpdateFactory(o) BY <2>9 DEF UpdateFactory
    <2>10. CASE CheckAssets(o) BY <2>10 DEF CheckAssets
    <2>11. CASE DeleteFactory(o) BY <2>11 DEF DeleteFactory
    <2>12. QED
        BY <1>5, <2>1, <2>2, <2>3, <2>4, <2>5, <2>6, <2>7, <2>8, <2>9, <2>10,
           <2>11 DEF FactoryStep
<1>6. ASSUME NEW o \in Ops, CompanyStep(o) PROVE HoldingInv'
    <2>1. CASE LoadCompany(o) BY <2>1 DEF LoadCompany
    <2>2. CASE DeleteCompanyAssets(o) BY <2>2 DEF DeleteCompanyAssets
    <2>3. CASE DeleteCompany(o) BY <2>3 DEF DeleteCompany
    <2>4. QED BY <1>6, <2>1, <2>2, <2>3 DEF CompanyStep
<1>7. QED
    BY <1>1, <1>2, <1>3, <1>4, <1>5, <1>6 DEF Next

\* No id is lost at ICID without a trace, whatever fails and whether or not ICID
\* mints an id twice.
THEOREM NoIdIsLost == Spec => []IdsAreAccountedFor
<1>1. Init => TypeInv /\ HoldingInv
    <2>1. Init => HoldingInv
        BY DEF Init, HoldingInv, Nothing
    <2>2. QED BY <2>1, TypeInit
<1>2. TypeInv /\ HoldingInv /\ [Next]_vars => (TypeInv /\ HoldingInv)'
    BY TypeNext, HoldingNext
<1>3. HoldingInv => IdsAreAccountedFor
    BY DEF HoldingInv, Answers, IdsAreAccountedFor
<1>4. QED BY <1>1, <1>2, <1>3, PTL DEF Spec
=============================================================================
