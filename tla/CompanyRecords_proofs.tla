----------------------- MODULE CompanyRecords_proofs -----------------------
(***************************************************************************)
(* Proofs about CompanyRecords, for any number of requests, users and      *)
(* companies and for every set of faults.                                  *)
(*                                                                         *)
(* The argument: a row never changes the company it belongs to, so what a  *)
(* request compared with its claims before it waited still holds after; and *)
(* a permission that was read piece by piece was held at some moment,      *)
(* unless the grant was replaced between the pieces.                       *)
(*                                                                         *)
(* On EntitledInv, which says this, stand the four that tell of a table    *)
(* what has happened to it:                                                *)
(*   CategoryInv  who saves a category of its own has seen that a deletion *)
(*                took the other,                                          *)
(*   LateInv      a table that a deletion has come past holds only rows of *)
(*                requests that the deletion overtook,                     *)
(*   TwinsInv     a name that is taken when a role is saved was taken      *)
(*                after the look-up,                                       *)
(*   AnswersInv   every answer, in the cache or given, was made by a       *)
(*                request entitled to it, of a version that was current    *)
(*                when that request arrived.                               *)
(***************************************************************************)
EXTENDS CompanyRecords, FiniteSetTheorems, TLAPS

\* The kinds of calls that name a company, and those that name a row.
CompanyKinds ==
    {"createDevice", "createGroup", "setStatus", "updateCompany", "deleteCompany", "read"}
RowKinds == {"updateGroup", "deleteGroup", "deleteDevice"}

\* What a call of each kind has for arguments.
Fits(a) ==
    /\ a.kind \in CompanyKinds \cup RowKinds
    /\ a.caller \in Callers
    /\ "company" \in DOMAIN a <=> a.kind \in CompanyKinds
    /\ "row" \in DOMAIN a <=> a.kind \in RowKinds
    /\ a.kind \in CompanyKinds => a.company \in Companies
    /\ a.kind = "createGroup" => a.name \in GroupNames
    /\ a.kind = "updateCompany" => a.category \in BOOLEAN
    /\ a.kind \in {"updateGroup", "deleteGroup"} => a.row \in Groups
    /\ a.kind = "updateGroup" => a.patch \in Roles \cup GroupNames
    /\ a.kind = "deleteDevice" => a.row \in New

LEMMA CallsFit == \A a \in Calls : Fits(a)
BY DEF Calls, Fits, CompanyKinds, RowKinds

LEMMA CallersAre ==
    \A k \in Callers : IF IsUser(k) THEN k.user \in Users ELSE k.participant \in Companies
BY DEF Callers, IsUser

\* The calls of each kind of handler.
KindsAt(l) ==
    CASE l \in {"findName", "saveGroup"} -> {"createGroup"}
      [] l = "saveDevice" -> {"createDevice"}
      [] l \in {"findMapping", "saveMapping"} -> {"updateCompany"}
      [] l = "updateRow" -> {"setStatus", "updateCompany"}
      [] l \in {"deleteGroups", "deleteMappings", "deleteDevices", "deleteGrants",
                "deleteRow"} -> {"deleteCompany"}
      [] l \in RowKinds -> {l}
      [] l \in {"cached", "readRow", "project"} -> {"read"}
      [] l = "findOwner" -> RowKinds
      [] l = "load" -> (CompanyKinds \cup RowKinds) \ {"read"}
      [] OTHER -> CompanyKinds \cup RowKinds

\* The arguments of a request fit its place in the handler, and it holds what it
\* has read on the way.
InPlace(o) ==
    /\ o \in Past => pc[o] = "done"
    /\ pc[o] # "idle" => call[o] \in Calls
    /\ pc[o] # "idle" => Kind(o) \in KindsAt(pc[o])
    /\ pc[o] \in {"findGrant", "findGroup"} => IsUser(Caller(o))
    /\ pc[o] = "resolve" => ~IsUser(Caller(o))
    /\ pc[o] = "findGroup" => seen[o].group \in Groups
    /\ pc[o] = "findOwner" => seen[o].mapping \in Companies

Placed == \A o \in Ops : InPlace(o)
Typed == TypeOK /\ Placed

LEMMA TypedInit == Init => Typed
<1> SUFFICES ASSUME Init PROVE Typed
  OBVIOUS
<1>1. TypeOK
  <2>1. now \in Times
    BY CompanyRecordsAssumption DEF Init, Times
  <2>2. groups \in [Groups -> Group \cup {None}]
    <3>1. ASSUME NEW g \in Defaults
          PROVE [company |-> g[1], name |-> g[2],
                 may |-> IF g[2] = "admin" THEN Permissions ELSE {"read"}] \in Group
      BY <3>1 DEF Defaults, Group, Roles
    <3> QED  BY <3>1 DEF Init
  <2>3. cache \in [Companies -> Response \cup {None}]
    BY CompanyRecordsAssumption DEF Init, Made, Response, Versions, Times
  <2>4. call \in [Ops -> Calls \cup {None}]
    <3>1. ASSUME NEW o \in Past
          PROVE [kind |-> "read", caller |-> [participant |-> AskedFor[o]],
                 company |-> AskedFor[o]] \in Calls
      BY <3>1, CompanyRecordsAssumption DEF Calls, Callers
    <3> QED  BY <3>1 DEF Init, New, Past
  <2>5. seen \in [Ops -> Seen]
    BY CompanyRecordsAssumption DEF Init, Seen, Nothing, New, Past
  <2>6. answer \in [Ops -> Response \cup {None}]
    BY CompanyRecordsAssumption DEF Init, Made, Response, Versions, Times
  <2>7. history \in [Ops -> History]
    BY CompanyRecordsAssumption DEF Init, History, Unborn, Times
  <2> QED
    BY <2>1, <2>2, <2>3, <2>4, <2>5, <2>6, <2>7, CompanyRecordsAssumption
    DEF Init, TypeOK, Versions, Groups, Finished, Past, New
<1>2. Placed
  <2>1. ASSUME NEW o \in Ops, pc[o] # "idle" PROVE call[o] \in Calls
    BY <1>1, <2>1, CompanyRecordsAssumption DEF Init, Calls, Callers, Past, New
  <2>2. ASSUME NEW o \in Ops, pc[o] # "idle" PROVE Kind(o) \in KindsAt(pc[o])
    BY <2>2, CompanyRecordsAssumption DEF Init, KindsAt, Kind, Past, New, CompanyKinds, RowKinds
  <2> QED  BY <2>1, <2>2 DEF Placed, InPlace, Init, Past
<1> QED  BY <1>1, <1>2 DEF Typed

LEMMA WitnessTyped ==
    ASSUME TypeOK, Witness
    PROVE  /\ history' \in [Ops -> History]
           /\ replaced' \in [Companies -> [Versions -> Times \cup {None}]]
<1>1. \A o \in Ops : history'[o] \in History
  BY DEF TypeOK, Witness, History
<1>2. history' = [o \in Ops |-> history'[o]]
  BY DEF Witness
<1>3. \A c \in Companies, v \in Versions : replaced'[c][v] \in Times \cup {None}
  BY DEF TypeOK, Witness
<1>4. replaced' = [c \in Companies |-> [v \in Versions |-> replaced'[c][v]]]
  BY DEF Witness
<1> QED  BY <1>1, <1>2, <1>3, <1>4

\* A step of one request leaves the others in place.
LEMMA OthersStay ==
    ASSUME Placed, NEW o \in Ops, InPlace(o)',
           \A p \in Ops \ {o} : pc'[p] = pc[p] /\ call'[p] = call[p] /\ seen'[p] = seen[p]
    PROVE  Placed'
BY DEF Placed, InPlace, Kind, Caller

\* Work and Permission lead where calls of this kind belong.
LEMMA WorkFits ==
    ASSUME NEW o \in Ops, call[o] \in Calls
    PROVE  /\ Kind(o) \in KindsAt(Work(o))
           /\ Work(o) \in Steps \ {"findGrant", "findGroup", "resolve", "findOwner", "idle"}
           /\ Permission(o) \in {"findGrant", Work(o)}
           /\ Permission(o) = "findGrant" => IsUser(Caller(o))
           /\ Kind(o) \in KindsAt(Permission(o))
           /\ Permission(o) \in Steps
<1>1. Kind(o) \in CompanyKinds \cup RowKinds
  BY CallsFit DEF Fits, Kind
<1>2. /\ Kind(o) \in KindsAt(Work(o))
      /\ Work(o) \in Steps \ {"findGrant", "findGroup", "resolve", "findOwner", "idle"}
  <2>1. CASE Kind(o) = "createDevice"
    BY <2>1 DEF Work, KindsAt, Steps, Writes, RowKinds
  <2>2. CASE Kind(o) = "createGroup"
    BY <2>2 DEF Work, KindsAt, Steps, RowKinds
  <2>3. CASE Kind(o) = "setStatus"
    BY <2>3 DEF Work, KindsAt, Steps, Writes, RowKinds
  <2>4. CASE Kind(o) = "updateCompany"
    <3>1. Work(o) \in {"findMapping", "updateRow"}
      BY <2>4 DEF Work
    <3> QED  BY <2>4, <3>1 DEF KindsAt, Steps, Writes, RowKinds
  <2>5. CASE Kind(o) = "deleteCompany"
    BY <2>5 DEF Work, KindsAt, Steps, Writes, RowKinds
  <2>6. CASE Kind(o) = "read"
    BY <2>6 DEF Work, KindsAt, Steps, RowKinds
  <2>7. CASE Kind(o) \in RowKinds
    <3>1. Work(o) = Kind(o)
      BY <2>7 DEF Work, RowKinds
    <3>2. CASE Kind(o) = "updateGroup"  BY <3>1, <3>2 DEF KindsAt, Steps, Writes, RowKinds
    <3>3. CASE Kind(o) = "deleteGroup"  BY <3>1, <3>3 DEF KindsAt, Steps, Writes, RowKinds
    <3>4. CASE Kind(o) = "deleteDevice"  BY <3>1, <3>4 DEF KindsAt, Steps, Writes, RowKinds
    <3> QED  BY <2>7, <3>2, <3>3, <3>4 DEF RowKinds
  <2> QED  BY <1>1, <2>1, <2>2, <2>3, <2>4, <2>5, <2>6, <2>7 DEF CompanyKinds
<1> QED
  BY <1>1, <1>2 DEF Permission, KindsAt, Steps, Writes, RowKinds

LEMMA TypedStart ==
    ASSUME Typed, NEW o \in Ops, Start(o)
    PROVE  TypeOK' /\ InPlace(o)'
<1>1. PICK a \in Calls :
        /\ call' = [call EXCEPT ![o] = a]
        /\ IF IsUser(a.caller)
             THEN /\ seen' = [seen EXCEPT ![o].claims = EmployerOf[a.caller.user]]
                  /\ Goto(o, Entry(a))
             ELSE UNCHANGED seen /\ Goto(o, "resolve")
        /\ history' = [history EXCEPT ![o] = Arrival(a)]
  BY DEF Start
<1>2. Fits(a) /\ (IsUser(a.caller) => a.caller.user \in Users)
  BY CallsFit, CallersAre DEF Fits
<1>3. 0 \in Times /\ now \in Times
  BY CompanyRecordsAssumption DEF Times, Typed, TypeOK
<1>4. history' \in [Ops -> History]
  <2>1. Arrival(a) \in History
    BY <1>3 DEF Arrival, History, Holds, IsUser
  <2> QED  BY <1>1, <2>1 DEF Typed, TypeOK
<1>5. seen' \in [Ops -> Seen]
  <2>1. CASE IsUser(a.caller)
    <3>1. EmployerOf[a.caller.user] \in Companies
      BY <1>2, <2>1, CompanyRecordsAssumption
    <3>2. seen' = [seen EXCEPT ![o].claims = EmployerOf[a.caller.user]]
      BY <1>1, <2>1
    <3>3. seen[o] \in Seen
      BY DEF Typed, TypeOK
    <3>4. [seen[o] EXCEPT !.claims = EmployerOf[a.caller.user]] \in Seen
      BY <3>1, <3>3 DEF Seen
    <3> QED  BY <3>2, <3>4 DEF Typed, TypeOK
  <2>2. CASE ~IsUser(a.caller)
    BY <1>1, <2>2 DEF Typed, TypeOK
  <2> QED  BY <2>1, <2>2
<1>6. pc'[o] \in {Entry(a), "resolve"} /\ pc' \in [Ops -> Steps \cup Finished]
  BY <1>1 DEF Goto, Typed, TypeOK, Entry, Steps
<1>7. TypeOK'
  BY <1>1, <1>4, <1>5, <1>6 DEF Start, Typed, TypeOK, tables
<1>8. call'[o] = a /\ Kind(o)' \in KindsAt(pc'[o]) /\ (pc'[o] = "resolve" => ~IsUser(a.caller))
  BY <1>1, <1>2, <1>6 DEF Typed, TypeOK, Kind, KindsAt, Entry, Fits, CompanyKinds, RowKinds, Goto
<1>9. o \notin Past
  BY DEF Start, Typed, Placed, InPlace
<1> QED
  BY <1>6, <1>7, <1>8, <1>9 DEF InPlace, Kind, Caller, Entry

\* The ways in which a request goes on, each for any place l.
LEMMA ReadTyped ==
    ASSUME Typed, NEW o \in Ops, NEW l \in Steps, Read(o, l)
    PROVE  TypeOK' /\ pc'[o] = l
BY DEF Typed, TypeOK, Read, Goto, tables, ghosts

LEMMA EndsTyped ==
    ASSUME Typed, NEW o \in Ops, NEW l \in Finished, Ends(o, l)
    PROVE  /\ now' \in Times
           /\ cache' \in [Companies -> Response \cup {None}]
           /\ pc' \in [Ops -> Steps \cup Finished]
           /\ call' \in [Ops -> Calls \cup {None}]
           /\ seen' \in [Ops -> Seen]
           /\ answer' \in [Ops -> Response \cup {None}]
           /\ pc'[o] = l
<1>1. seen[o].claims \in Companies \cup {None}
  BY DEF Typed, TypeOK, Seen
<1>2. [Nothing EXCEPT !.claims = seen[o].claims] \in Seen
  BY <1>1 DEF Nothing, Seen
<1> QED
  BY <1>2 DEF Typed, TypeOK, Ends, Goto

LEMMA ThrowTyped ==
    ASSUME Typed, NEW o \in Ops, Throw(o)
    PROVE  TypeOK' /\ pc'[o] = "failed"
<1>1. "failed" \in Finished  BY DEF Finished
<1>2. Ends(o, "failed") /\ UNCHANGED <<tables, ghosts>>
  BY DEF Throw
<1> QED
  BY <1>1, <1>2, EndsTyped DEF Typed, TypeOK, tables, ghosts

LEMMA KeepTyped ==
    ASSUME Typed, NEW o \in Ops, NEW l \in Steps, NEW f, NEW x, Keep(o, f, x, l),
           \/ f = "claims" /\ x \in Companies
           \/ f = "group" /\ x \in Groups
           \/ f = "mapping" /\ x \in Companies \cup New
           \/ f = "version" /\ x \in Versions \cup {None}
    PROVE  TypeOK' /\ pc'[o] = l /\ seen'[o][f] = x
<1>1. seen[o] \in Seen
  BY DEF Typed, TypeOK
<1>2. [seen[o] EXCEPT ![f] = x] \in Seen
  BY <1>1 DEF Seen
<1>3. seen' = [seen EXCEPT ![o] = [seen[o] EXCEPT ![f] = x]]
  BY DEF Keep
<1>4. seen'[o][f] = x
  BY <1>1, <1>3 DEF Typed, TypeOK, Seen
<1> QED
  BY <1>2, <1>3, <1>4 DEF Typed, TypeOK, Keep, Goto, tables, ghosts

LEMMA PlacedAt ==
    ASSUME Typed, NEW o \in Ops, Running(o), UNCHANGED call,
           Kind(o) \in KindsAt(pc'[o]),
           pc'[o] \in {"findGrant", "findGroup"} => IsUser(Caller(o)),
           pc'[o] = "resolve" => ~IsUser(Caller(o)),
           pc'[o] = "findGroup" => seen'[o].group \in Groups,
           pc'[o] = "findOwner" => seen'[o].mapping \in Companies
    PROVE  InPlace(o)'
BY DEF Typed, Placed, InPlace, Kind, Caller, Running, Steps, Writes

LEMMA AnyKindEnds ==
    ASSUME Typed, NEW o \in Ops, Running(o), UNCHANGED call, pc'[o] \in Finished
    PROVE  InPlace(o)'
<1>1. Kind(o) \in CompanyKinds \cup RowKinds
  BY CallsFit DEF Typed, Placed, InPlace, Fits, Kind, Running, Steps, Writes
<1>2. Kind(o) \in KindsAt(pc'[o])
  BY <1>1 DEF KindsAt, Finished, RowKinds
<1> QED  BY <1>2, PlacedAt DEF Finished

\* A request that has been answered yes goes on to its work, or to its grant.
LEMMA PermissionPlaces ==
    ASSUME Typed, NEW o \in Ops, Running(o), UNCHANGED call, pc'[o] = Permission(o)
    PROVE  InPlace(o)'
<1>1. call[o] \in Calls  BY DEF Typed, Placed, InPlace, Running, Steps, Writes
<1> QED
  BY <1>1, WorkFits, PlacedAt

LEMMA WorkPlaces ==
    ASSUME Typed, NEW o \in Ops, Running(o), UNCHANGED call, pc'[o] = Work(o)
    PROVE  InPlace(o)'
<1>1. call[o] \in Calls  BY DEF Typed, Placed, InPlace, Running, Steps, Writes
<1> QED
  BY <1>1, WorkFits, PlacedAt

LEMMA TypedChecks ==
    ASSUME Typed, NEW o \in Ops, Checks(o)
    PROVE  TypeOK' /\ InPlace(o)'
<1>1. Running(o) /\ UNCHANGED call
  BY DEF Running, Steps, Writes, Checks, Resolve, Load, LoadRow, FindOwner, FindGrant, FindGroup, Keep, Read,
         Throw, Ends
<1>2. call[o] \in Calls /\ Kind(o) \in KindsAt(pc[o]) /\ Fits(call[o])
  BY <1>1, CallsFit DEF Typed, Placed, InPlace, Running, Steps, Writes
<1>3. ASSUME Throw(o) PROVE TypeOK' /\ InPlace(o)'
  BY <1>1, <1>3, ThrowTyped, AnyKindEnds DEF Finished
<1>4. Permission(o) \in Steps /\ Work(o) \in Steps
  BY <1>2, WorkFits
<1>5. CASE Resolve(o)
  <2>1. Entry(call[o]) \in Steps \ {"findGrant", "findGroup", "resolve", "findOwner"}
        /\ Kind(o) \in KindsAt(Entry(call[o]))
    BY <1>2 DEF Entry, Steps, KindsAt, Fits, Kind, CompanyKinds, RowKinds
  <2>2. Caller(o).participant \in Companies
    BY <1>2, <1>5, CallersAre DEF Resolve, Fits, Typed, Placed, InPlace, Caller
  <2>3. CASE details[Caller(o).participant] # None
    <3>1. Keep(o, "claims", Caller(o).participant, Entry(call[o]))
      BY <1>5, <2>3 DEF Resolve
    <3>2. TypeOK' /\ pc'[o] = Entry(call[o])
      BY <2>1, <2>2, <3>1, KeepTyped
    <3> QED  BY <1>1, <2>1, <3>2, PlacedAt
  <2>4. CASE details[Caller(o).participant] = None
    <3>1. Read(o, Entry(call[o]))
      BY <1>5, <2>4 DEF Resolve
    <3>2. TypeOK' /\ pc'[o] = Entry(call[o])
      BY <2>1, <3>1, ReadTyped
    <3> QED  BY <1>1, <2>1, <3>2, PlacedAt
  <2> QED  BY <2>3, <2>4
<1>6. CASE Load(o)
  <2>1. Throw(o) \/ Read(o, Permission(o))
    BY <1>6 DEF Load
  <2>2. ASSUME Read(o, Permission(o)) PROVE TypeOK' /\ InPlace(o)'
    BY <1>1, <1>4, <2>2, ReadTyped, PermissionPlaces
  <2> QED  BY <1>3, <2>1, <2>2
<1>7. CASE LoadRow(o)
  <2>1. Kind(o) \in RowKinds
    BY <1>2, <1>7 DEF LoadRow, Names, Fits, Kind
  <2>2. RowOwner(o) \in Companies \cup {None}
    BY <1>2, <2>1 DEF RowOwner, Fits, Kind, Typed, TypeOK, Group, RowKinds
  <2>3. ASSUME Ends(o, "done"), UNCHANGED <<tables, ghosts>> PROVE TypeOK' /\ InPlace(o)'
    <3>1. "done" \in Finished  BY DEF Finished
    <3> QED  BY <1>1, <2>3, <3>1, EndsTyped, AnyKindEnds DEF Typed, TypeOK, tables, ghosts
  <2>4. ASSUME RowOwner(o) # None, Keep(o, "mapping", RowOwner(o), "findOwner")
        PROVE  TypeOK' /\ InPlace(o)'
    <3>1. "findOwner" \in Steps /\ RowKinds = KindsAt("findOwner")
      BY DEF Steps, KindsAt, RowKinds
    <3>2. TypeOK' /\ pc'[o] = "findOwner" /\ seen'[o].mapping = RowOwner(o)
      BY <2>2, <2>4, <3>1, KeepTyped
    <3> QED  BY <1>1, <2>1, <2>2, <2>4, <3>1, <3>2, PlacedAt
  <2> QED  BY <1>3, <1>7, <2>3, <2>4 DEF LoadRow
<1>8. CASE FindOwner(o)
  <2>1. Throw(o) \/ Read(o, Permission(o))
    BY <1>8 DEF FindOwner
  <2>2. ASSUME Read(o, Permission(o)) PROVE TypeOK' /\ InPlace(o)'
    BY <1>1, <1>4, <2>2, ReadTyped, PermissionPlaces
  <2> QED  BY <1>3, <2>1, <2>2
<1>9. CASE FindGrant(o)
  <2>1. IsUser(Caller(o)) /\ Caller(o).user \in Users
    BY <1>2, <1>9, CallersAre DEF FindGrant, Typed, Placed, InPlace, Fits, Caller
  <2>2. grants[Caller(o).user] \in Groups \cup {None}
    BY <2>1 DEF Typed, TypeOK
  <2>3. ASSUME grants[Caller(o).user] # None,
               Keep(o, "group", grants[Caller(o).user], "findGroup")
        PROVE  TypeOK' /\ InPlace(o)'
    <3>1. "findGroup" \in Steps /\ Kind(o) \in KindsAt("findGroup")
      BY <1>2 DEF Steps, KindsAt, RowKinds, Fits, Kind
    <3>2. TypeOK' /\ pc'[o] = "findGroup" /\ seen'[o].group \in Groups
      BY <2>2, <2>3, <3>1, KeepTyped
    <3> QED  BY <1>1, <2>1, <3>1, <3>2, PlacedAt
  <2> QED  BY <1>3, <1>9, <2>3 DEF FindGrant
<1>10. CASE FindGroup(o)
  <2>1. Throw(o) \/ Read(o, Work(o))
    BY <1>10 DEF FindGroup
  <2>2. ASSUME Read(o, Work(o)) PROVE TypeOK' /\ InPlace(o)'
    BY <1>1, <1>4, <2>2, ReadTyped, WorkPlaces
  <2> QED  BY <1>3, <2>1, <2>2
<1> QED
  BY <1>5, <1>6, <1>7, <1>8, <1>9, <1>10 DEF Checks

\* A handler's last write, and one of several writes of a handler.
LEMMA LastWriteTyped ==
    ASSUME Typed, NEW o \in Ops, Running(o), Ends(o, "done"), Witness,
           details' \in [Companies -> Versions \cup {None}],
           grants' \in [Users -> Groups \cup {None}],
           groups' \in [Groups -> Group \cup {None}],
           mappings' \in [Companies \cup New -> Companies \cup {None}],
           devices' \in [New -> Companies \cup {None}]
    PROVE  TypeOK' /\ InPlace(o)'
<1>1. "done" \in Finished
  BY DEF Finished
<1>2. TypeOK' /\ pc'[o] = "done"
  BY <1>1, EndsTyped, WitnessTyped DEF Typed, TypeOK
<1>3. UNCHANGED call  BY DEF Ends
<1> QED  BY <1>1, <1>2, <1>3, AnyKindEnds

LEMMA WriteTyped ==
    ASSUME Typed, NEW o \in Ops, Running(o), NEW l \in Writes, Goto(o, l), Witness,
           UNCHANGED <<now, cache, call, seen, answer>>, Kind(o) \in KindsAt(l),
           details' \in [Companies -> Versions \cup {None}],
           grants' \in [Users -> Groups \cup {None}],
           groups' \in [Groups -> Group \cup {None}],
           mappings' \in [Companies \cup New -> Companies \cup {None}],
           devices' \in [New -> Companies \cup {None}]
    PROVE  TypeOK' /\ InPlace(o)'
<1>1. l \in Steps \ {"findGrant", "findGroup", "resolve", "findOwner"}
  BY DEF Steps, Writes
<1>2. TypeOK' /\ pc'[o] = l
  BY <1>1, WitnessTyped DEF Typed, TypeOK, Goto
<1> QED  BY <1>1, <1>2, PlacedAt

LEMMA TypedRecords ==
    ASSUME Typed, NEW o \in Ops, Records(o)
    PROVE  TypeOK' /\ InPlace(o)'
<1>1. Running(o) /\ UNCHANGED call
  BY DEF Records, SaveDevice, FindName, SaveGroup, UpdateGroup, DeleteGroup, DeleteDevice,
         Read, Throw, Ends, Running, Steps, Writes
<1>2. o \in New /\ call[o] \in Calls /\ Kind(o) \in KindsAt(pc[o]) /\ Fits(call[o])
  BY <1>1, CallsFit DEF Typed, Placed, InPlace, Running, Steps, Writes, New
<1>3. ASSUME Throw(o) PROVE TypeOK' /\ InPlace(o)'
  BY <1>1, <1>2, <1>3, ThrowTyped, AnyKindEnds DEF Finished
<1>4. CASE SaveDevice(o)
  <2>1. call[o].company \in Companies
    BY <1>2, <1>4 DEF SaveDevice, KindsAt, Fits, Kind, CompanyKinds, RowKinds
  <2> QED
    BY <1>1, <1>2, <1>4, <2>1, LastWriteTyped DEF SaveDevice, Typed, TypeOK
<1>5. CASE FindName(o)
  <2>1. Throw(o) \/ Read(o, "saveGroup")
    BY <1>5 DEF FindName
  <2>2. "saveGroup" \in Steps /\ KindsAt(pc[o]) = KindsAt("saveGroup")
    BY <1>5 DEF FindName, KindsAt, Steps, Writes, RowKinds
  <2>3. ASSUME Read(o, "saveGroup") PROVE TypeOK' /\ InPlace(o)'
    BY <1>1, <1>2, <2>2, <2>3, ReadTyped, PlacedAt
  <2> QED  BY <1>3, <2>1, <2>3
<1>6. CASE SaveGroup(o)
  <2>1. call[o].company \in Companies /\ call[o].name \in GroupNames
    BY <1>2, <1>6 DEF SaveGroup, KindsAt, Fits, Kind, CompanyKinds, RowKinds
  <2>2. PICK may \in Roles : groups' = [groups EXCEPT ![o] =
           [company |-> call[o].company, name |-> call[o].name, may |-> may]]
    BY <1>6 DEF SaveGroup
  <2>3. [company |-> call[o].company, name |-> call[o].name, may |-> may] \in Group
    BY <2>1 DEF Group
  <2> QED
    BY <1>1, <1>2, <1>6, <2>2, <2>3, LastWriteTyped DEF SaveGroup, Typed, TypeOK
<1>7. CASE UpdateGroup(o)
  <2>1. call[o].row \in Groups /\ call[o].patch \in Roles \cup GroupNames
    BY <1>2, <1>7 DEF UpdateGroup, KindsAt, Fits, Kind, RowKinds
  <2>2. CASE groups[call[o].row] = None
    BY <1>3, <1>7, <2>2 DEF UpdateGroup
  <2>3. CASE groups[call[o].row] # None
    <3>1. groups[call[o].row] \in Group
      BY <2>1, <2>3 DEF Typed, TypeOK
    <3>2. groups' \in [Groups -> Group \cup {None}]
      <4>1. CASE call[o].patch \in GroupNames
        <5>1. [groups[call[o].row] EXCEPT !.name = call[o].patch] \in Group
          BY <3>1, <4>1 DEF Group
        <5> QED  BY <1>7, <2>3, <4>1, <5>1 DEF UpdateGroup, Typed, TypeOK
      <4>2. CASE call[o].patch \notin GroupNames
        <5>1. [groups[call[o].row] EXCEPT !.may = call[o].patch] \in Group
          BY <2>1, <3>1, <4>2 DEF Group
        <5> QED  BY <1>7, <2>3, <4>2, <5>1 DEF UpdateGroup, Typed, TypeOK
      <4> QED  BY <4>1, <4>2
    <3> QED
      BY <1>1, <1>7, <2>3, <3>2, LastWriteTyped DEF UpdateGroup, Typed, TypeOK
  <2> QED  BY <2>2, <2>3
<1>8. CASE DeleteGroup(o)
  BY <1>1, <1>8, LastWriteTyped DEF DeleteGroup, Typed, TypeOK
<1>9. CASE DeleteDevice(o)
  BY <1>1, <1>9, LastWriteTyped DEF DeleteDevice, Typed, TypeOK
<1> QED
  BY <1>4, <1>5, <1>6, <1>7, <1>8, <1>9 DEF Records

LEMMA TypedCompany ==
    ASSUME Typed, NEW o \in Ops, Company(o)
    PROVE  TypeOK' /\ InPlace(o)'
<1>1. Running(o) /\ UNCHANGED call
  BY DEF Company, FindMapping, SaveMapping, UpdateRow, DeleteGroups, DeleteMappings,
         DeleteDevices, DeleteGrants, DeleteRow, Delete, Keep, Read, Throw, Ends, Running,
         Steps, Writes
<1>2. o \in New /\ call[o] \in Calls /\ Kind(o) \in KindsAt(pc[o]) /\ Fits(call[o])
  BY <1>1, CallsFit DEF Typed, Placed, InPlace, Running, Steps, Writes, New
<1>3. call[o].company \in Companies
  BY <1>2 DEF Company, FindMapping, SaveMapping, UpdateRow, DeleteGroups, DeleteMappings,
              DeleteDevices, DeleteGrants, DeleteRow, KindsAt, Fits, Kind, CompanyKinds, RowKinds
<1>4. CASE FindMapping(o)
  <2>1. "saveMapping" \in Steps /\ KindsAt(pc[o]) = KindsAt("saveMapping")
    BY <1>4 DEF FindMapping, KindsAt, Steps, Writes, RowKinds
  <2>2. ASSUME Throw(o) PROVE TypeOK' /\ InPlace(o)'
    BY <1>1, <1>2, <2>2, ThrowTyped, AnyKindEnds DEF Finished
  <2>3. ASSUME Read(o, "saveMapping") PROVE TypeOK' /\ InPlace(o)'
    BY <1>1, <1>2, <2>1, <2>3, ReadTyped, PlacedAt
  <2>4. ASSUME NEW x \in RowsOf(call[o].company), Keep(o, "mapping", x, "saveMapping")
        PROVE  TypeOK' /\ InPlace(o)'
    <3>1. x \in Companies \cup New
      BY DEF RowsOf, Typed, TypeOK
    <3>2. TypeOK' /\ pc'[o] = "saveMapping"
      BY <2>1, <2>4, <3>1, KeepTyped
    <3> QED  BY <1>1, <1>2, <2>1, <3>2, PlacedAt
  <2> QED  BY <1>4, <2>2, <2>3, <2>4 DEF FindMapping
<1>5. CASE SaveMapping(o)
  <2>1. "updateRow" \in Writes /\ Kind(o) \in KindsAt("updateRow")
    BY <1>2, <1>5 DEF SaveMapping, KindsAt, Writes, RowKinds
  <2> QED
    BY <1>1, <1>2, <1>3, <1>5, <2>1, WriteTyped DEF SaveMapping, Typed, TypeOK
<1>6. CASE UpdateRow(o)
  <2>1. details[call[o].company] # None => details[call[o].company] \cup {o} \in Versions
    BY <1>2, <1>3 DEF Typed, TypeOK, Versions
  <2> QED
    BY <1>1, <1>3, <1>6, <2>1, LastWriteTyped DEF UpdateRow, Typed, TypeOK
<1>7. CASE DeleteGroups(o)
  <2>1. "deleteMappings" \in Writes /\ Kind(o) \in KindsAt("deleteMappings")
    BY <1>2, <1>7 DEF DeleteGroups, KindsAt, Writes, RowKinds
  <2> QED
    BY <1>1, <1>7, <2>1, WriteTyped DEF DeleteGroups, Delete, Typed, TypeOK
<1>8. CASE DeleteMappings(o)
  <2>1. "deleteDevices" \in Writes /\ Kind(o) \in KindsAt("deleteDevices")
    BY <1>2, <1>8 DEF DeleteMappings, KindsAt, Writes, RowKinds
  <2> QED
    BY <1>1, <1>8, <2>1, WriteTyped DEF DeleteMappings, Delete, Typed, TypeOK
<1>9. CASE DeleteDevices(o)
  <2>1. "deleteGrants" \in Writes /\ Kind(o) \in KindsAt("deleteGrants")
    BY <1>2, <1>9 DEF DeleteDevices, KindsAt, Writes, RowKinds
  <2> QED
    BY <1>1, <1>9, <2>1, WriteTyped DEF DeleteDevices, Delete, Typed, TypeOK
<1>10. CASE DeleteGrants(o)
  <2>1. "deleteRow" \in Writes /\ Kind(o) \in KindsAt("deleteRow")
    BY <1>2, <1>10 DEF DeleteGrants, KindsAt, Writes, RowKinds
  <2> QED
    BY <1>1, <1>10, <2>1, WriteTyped DEF DeleteGrants, Delete, Typed, TypeOK
<1>11. CASE DeleteRow(o)
  BY <1>1, <1>11, LastWriteTyped DEF DeleteRow, Typed, TypeOK
<1> QED
  BY <1>4, <1>5, <1>6, <1>7, <1>8, <1>9, <1>10, <1>11 DEF Company

LEMMA TypedDirectory ==
    ASSUME Typed, NEW o \in Ops, Directory(o)
    PROVE  TypeOK' /\ InPlace(o)'
<1>1. Running(o) /\ UNCHANGED call
  BY DEF Directory, Cached, ReadRow, Respond, Keep, Read, Throw, Ends, Running, Steps, Writes
<1>2. call[o] \in Calls /\ Kind(o) = "read" /\ call[o].company \in Companies
  <2>1. call[o] \in Calls /\ Kind(o) \in KindsAt(pc[o]) /\ Fits(call[o])
    BY <1>1, CallsFit DEF Typed, Placed, InPlace, Running, Steps, Writes
  <2> QED
    BY <2>1 DEF Directory, Cached, ReadRow, Respond, KindsAt, Kind, Fits, CompanyKinds, RowKinds
<1>3. "done" \in Finished  BY DEF Finished
<1>4. CASE Cached(o)
  <2>1. ASSUME Throw(o) PROVE TypeOK' /\ InPlace(o)'
    BY <1>1, <2>1, ThrowTyped, AnyKindEnds DEF Finished
  <2>2. ASSUME Read(o, Permission(o)) PROVE TypeOK' /\ InPlace(o)'
    BY <1>1, <1>2, <2>2, WorkFits, ReadTyped, PermissionPlaces
  <2>3. ASSUME cache[call[o].company] # None, Goto(o, "done"),
               answer' = [answer EXCEPT ![o] = cache[call[o].company]],
               UNCHANGED <<now, tables, cache, call, seen, ghosts>>
        PROVE  TypeOK' /\ InPlace(o)'
    <3>1. TypeOK' /\ pc'[o] = "done"
      BY <1>2, <1>3, <2>3 DEF Typed, TypeOK, tables, ghosts, Goto
    <3> QED  BY <1>1, <1>3, <3>1, AnyKindEnds
  <2> QED  BY <1>4, <2>1, <2>2, <2>3 DEF Cached
<1>5. CASE ReadRow(o)
  <2>1. "project" \in Steps /\ Kind(o) \in KindsAt("project")
    BY <1>2 DEF Steps, KindsAt, RowKinds
  <2>2. details[call[o].company] \in Versions \cup {None}
    BY <1>2 DEF Typed, TypeOK
  <2>3. TypeOK' /\ pc'[o] = "project"
    BY <1>5, <2>1, <2>2, KeepTyped DEF ReadRow
  <2> QED  BY <1>1, <2>1, <2>3, PlacedAt
<1>6. CASE Respond(o)
  <2>1. [version |-> seen[o].version, full |-> IsOwn(o, call[o].company),
         by |-> o, stored |-> now] \in Response
    BY DEF Typed, TypeOK, Seen, Response, IsOwn
  <2>2. [seen[o] EXCEPT !.version = None, !.group = None] \in Seen
    <3>1. seen[o] \in Seen  BY DEF Typed, TypeOK
    <3> QED  BY <3>1 DEF Seen
  <2>3. TypeOK' /\ pc'[o] = "done"
    BY <1>2, <1>3, <1>6, <2>1, <2>2 DEF Respond, Typed, TypeOK, tables, ghosts, Goto
  <2> QED  BY <1>1, <1>3, <2>3, AnyKindEnds
<1> QED  BY <1>4, <1>5, <1>6 DEF Directory

\* The steps of a request disturb no other one.
LEMMA OthersAlone ==
    ASSUME Typed, NEW o \in Ops,
           Start(o) \/ StatementFails(o) \/ Checks(o) \/ Records(o) \/ Company(o) \/ Directory(o),
           NEW p \in Ops \ {o}
    PROVE  pc'[p] = pc[p] /\ call'[p] = call[p] /\ seen'[p] = seen[p]
<1> USE DEF Typed, TypeOK, Goto, Keep, Read, Ends, Throw
<1>1. CASE Start(o)  BY <1>1 DEF Start
<1>2. CASE StatementFails(o)  BY <1>2 DEF StatementFails
<1>3. CASE Checks(o)
  BY <1>3 DEF Checks, Resolve, Load, LoadRow, FindOwner, FindGrant, FindGroup
<1>4. CASE Records(o)
  BY <1>4 DEF Records, SaveDevice, FindName, SaveGroup, UpdateGroup, DeleteGroup, DeleteDevice
<1>5. CASE Company(o)
  BY <1>5 DEF Company, FindMapping, SaveMapping, UpdateRow, DeleteGroups, DeleteMappings,
         DeleteDevices, DeleteGrants, DeleteRow, Delete
<1>6. CASE Directory(o)
  BY <1>6 DEF Directory, Cached, ReadRow, Respond
<1> QED  BY <1>1, <1>2, <1>3, <1>4, <1>5, <1>6

LEMMA TypedNext == Typed /\ [Next]_vars => Typed'
<1> SUFFICES ASSUME Typed, [Next]_vars PROVE Typed'
  OBVIOUS
<1>1. ASSUME NEW o \in Ops,
             Start(o) \/ StatementFails(o) \/ Checks(o) \/ Records(o) \/ Company(o) \/ Directory(o)
      PROVE  Typed'
  <2>1. TypeOK' /\ InPlace(o)'
    <3>1. ASSUME StatementFails(o) PROVE TypeOK' /\ InPlace(o)'
      BY <3>1, ThrowTyped, AnyKindEnds DEF StatementFails, Throw, Ends, Finished
    <3> QED
      BY <1>1, <3>1, TypedStart, TypedChecks, TypedRecords, TypedCompany, TypedDirectory
  <2>2. \A p \in Ops \ {o} : pc'[p] = pc[p] /\ call'[p] = call[p] /\ seen'[p] = seen[p]
    BY <1>1, OthersAlone
  <2>3. Placed'
    BY <2>1, <2>2, OthersStay DEF Typed
  <2> QED  BY <2>1, <2>3 DEF Typed
<1>2. CASE Tick
  <2>1. now' \in Times
    BY <1>2, CompanyRecordsAssumption DEF Tick, Times, Typed, TypeOK
  <2>2. TypeOK'
    BY <1>2, <2>1 DEF Tick, Typed, TypeOK, tables, ghosts
  <2> QED
    BY <1>2, <2>2 DEF Tick, Typed, Placed, InPlace, Kind, Caller
<1>3. ASSUME NEW u \in Users, Regrant(u) PROVE Typed'
  <2>1. grants' \in [Users -> Groups \cup {None}]
    BY <1>3 DEF Regrant, Typed, TypeOK
  <2>2. TypeOK'
    BY <1>3, <2>1, WitnessTyped DEF Regrant, Typed, TypeOK
  <2> QED
    BY <1>3, <2>2 DEF Regrant, Typed, Placed, InPlace, Kind, Caller
<1>4. CASE UNCHANGED vars
  BY <1>4 DEF vars, tables, ghosts, Typed, TypeOK, Placed, InPlace, Kind, Caller
<1> QED
  BY <1>1, <1>2, <1>3, <1>4 DEF Next

\* Type correctness of CompanyRecords: the tables, the response cache and the
\* requests of the handlers of company.service.ts hold what they are declared to.
THEOREM TypeCorrect == Spec => []TypeOK
<1>1. Init => Typed  BY TypedInit
<1>2. Typed /\ [Next]_vars => Typed'  BY TypedNext
<1>3. Typed => TypeOK  BY DEF Typed
<1> QED  BY <1>1, <1>2, <1>3, PTL DEF Spec

-----------------------------------------------------------------------------
(* Rows keep their company, and a checked request is bound to one.         *)

\* The company a role belongs to as long as it exists.
HomeOf(g) == IF g \in Defaults THEN g[1] ELSE call[g].company

RowsStay ==
    /\ \A g \in Groups : groups[g] # None =>
         (g \in New => pc[g] # "idle") /\ groups[g].company = HomeOf(g)
    /\ \A x \in New :
         /\ mappings[x] # None => pc[x] # "idle" /\ mappings[x] = call[x].company
         /\ devices[x] # None => pc[x] # "idle" /\ devices[x] = call[x].company

Worked == {"findName", "findMapping", "readRow", "project"} \cup Writes
Checked == {"findGrant", "findGroup"} \cup Worked

\* The company that a request is about.
TargetOf(o) == IF Kind(o) \in RowKinds THEN HomeOf(call[o].row) ELSE call[o].company

IsBound(o) ==
    /\ pc[o] \in Checked /\ Kind(o) # "read" => seen[o].claims = TargetOf(o)
    /\ pc[o] \in Checked \cup {"findOwner"} /\ Kind(o) \in RowKinds =>
         (call[o].row \in New => pc[call[o].row] # "idle")
    /\ pc[o] = "findOwner" => seen[o].mapping = HomeOf(call[o].row)

\* What a user's request has learnt about its permission.
IsPermitted(o) ==
    IsUser(Caller(o)) =>
      /\ Running(o) /\ Holds(Caller(o).user, Needed(Kind(o))) => history[o].permitted
      /\ pc[o] = "findGroup" =>
           seen[o].group = grants[Caller(o).user] \/ history[o].regranted
      /\ pc[o] \in Worked => history[o].permitted \/ history[o].regranted

EntitledInv ==
    /\ Typed
    /\ RowsStay
    /\ \A o \in Ops : IsBound(o)
    /\ \A o \in Ops : pc[o] # "idle" => IsPermitted(o)

LEMMA EntitledInit == Init => EntitledInv
<1> SUFFICES ASSUME Init PROVE EntitledInv
  OBVIOUS
<1>1. Typed  BY TypedInit
<1>2. RowsStay
  <2>1. \A g \in Defaults : g \notin New
    BY CompanyRecordsAssumption DEF New
  <2> QED
    BY <2>1, CompanyRecordsAssumption DEF Init, RowsStay, HomeOf, Groups, New
<1>3. \A o \in Ops : pc[o] \in {"done", "idle"}
  BY DEF Init
<1>4. \A o \in Ops : IsBound(o)
  BY <1>3 DEF IsBound, Checked, Worked, Writes
<1>5. \A o \in Ops : IsPermitted(o)
  BY <1>3 DEF IsPermitted, Running, Steps, Writes, Worked
<1> QED  BY <1>1, <1>2, <1>4, <1>5 DEF EntitledInv

\* A request that has begun stays begun, with the same call.
LEMMA Onward ==
    ASSUME Typed, [Next]_vars, NEW x \in Ops, pc[x] # "idle"
    PROVE  pc'[x] # "idle" /\ call'[x] = call[x]
<1> USE DEF Typed, TypeOK
<1>1. ASSUME NEW o \in Ops,
             Start(o) \/ StatementFails(o) \/ Checks(o) \/ Records(o) \/ Company(o) \/ Directory(o)
      PROVE  pc'[x] # "idle" /\ call'[x] = call[x]
  <2>1. CASE x # o
    BY <1>1, <2>1, OthersAlone
  <2>2. CASE x = o
    <3>1. ~Start(o)
      BY <2>2 DEF Start
    <3>2. call'[x] = call[x]
      BY <1>1, <3>1 DEF StatementFails, Throw, Ends, Keep, Read, Checks, Resolve, Load,
        LoadRow, FindOwner, FindGrant, FindGroup, Records, SaveDevice, FindName, SaveGroup,
        UpdateGroup, DeleteGroup, DeleteDevice, Company, FindMapping, SaveMapping, UpdateRow,
        DeleteGroups, DeleteMappings, DeleteDevices, DeleteGrants, DeleteRow, Delete,
        Directory, Cached, ReadRow, Respond
    <3>3. pc'[o] # "idle"
      <4>1. call[o] \in Calls
        BY <2>2 DEF Placed, InPlace
      <4>2. Work(o) # "idle" /\ Permission(o) # "idle" /\ Entry(call[o]) # "idle"
        BY <4>1, WorkFits DEF Entry, Permission
      <4> QED
        BY <1>1, <3>1, <4>2 DEF Goto, StatementFails, Throw, Ends, Keep, Read, Checks, Resolve,
          Load, LoadRow, FindOwner, FindGrant, FindGroup, Records, SaveDevice, FindName,
          SaveGroup, UpdateGroup, DeleteGroup, DeleteDevice, Company, FindMapping, SaveMapping,
          UpdateRow, DeleteGroups, DeleteMappings, DeleteDevices, DeleteGrants, DeleteRow,
          Delete, Directory, Cached, ReadRow, Respond
    <3> QED  BY <2>2, <3>2, <3>3
  <2> QED  BY <2>1, <2>2
<1>2. CASE Tick  BY <1>2 DEF Tick
<1>3. ASSUME NEW u \in Users, Regrant(u) PROVE pc'[x] # "idle" /\ call'[x] = call[x]
  BY <1>3 DEF Regrant
<1>4. CASE UNCHANGED vars  BY <1>4 DEF vars
<1> QED  BY <1>1, <1>2, <1>3, <1>4 DEF Next

LEMMA HomeStays ==
    ASSUME Typed, [Next]_vars, NEW g \in Groups, g \in New => pc[g] # "idle"
    PROVE  HomeOf(g)' = HomeOf(g) /\ (g \in New => pc'[g] # "idle")
BY Onward DEF HomeOf, Groups, New

\* What the rows may become in a step: they stay, they go, or o saves its own.
RowsMove(o) ==
    /\ \A g \in Groups : groups'[g] # None =>
         \/ groups[g] # None /\ groups'[g].company = groups[g].company
         \/ g = o /\ groups'[g].company = call[o].company /\ pc[o] # "idle"
    /\ \A x \in New :
         /\ mappings'[x] # None =>
              mappings'[x] = mappings[x] \/ (x = o /\ mappings'[x] = call[o].company /\ pc[o] # "idle")
         /\ devices'[x] # None =>
              devices'[x] = devices[x] \/ (x = o /\ devices'[x] = call[o].company /\ pc[o] # "idle")

LEMMA RowsMoveOnly ==
    ASSUME Typed, NEW o \in Ops,
           Start(o) \/ StatementFails(o) \/ Checks(o) \/ Records(o) \/ Company(o) \/ Directory(o)
    PROVE  RowsMove(o)
<1> USE DEF Typed, TypeOK, RowsMove
<1>1. ASSUME UNCHANGED tables PROVE RowsMove(o)
  BY <1>1 DEF tables
<1>2. CASE Start(o)  BY <1>1, <1>2 DEF Start, tables
<1>3. CASE StatementFails(o)  BY <1>1, <1>3 DEF StatementFails, Throw
<1>4. CASE Checks(o)
  BY <1>1, <1>4 DEF Checks, Resolve, Load, LoadRow, FindOwner, FindGrant, FindGroup, Keep,
    Read, Throw
<1>5. CASE Directory(o)
  BY <1>1, <1>5 DEF Directory, Cached, ReadRow, Respond, Keep, Read, Throw
<1>6. CASE Records(o)
  <2>1. CASE SaveDevice(o)  BY <2>1 DEF SaveDevice
  <2>2. CASE FindName(o)  BY <1>1, <2>2 DEF FindName, Read, Throw
  <2>3. CASE SaveGroup(o)  BY <2>3 DEF SaveGroup
  <2>4. CASE UpdateGroup(o)
    <3>1. CASE groups[call[o].row] = None  BY <1>1, <2>4, <3>1 DEF UpdateGroup, Throw
    <3>2. CASE groups[call[o].row] # None
      <4>1. \A g \in Groups : groups[g] # None => groups[g] \in Group
        OBVIOUS
      <4>2. \A g \in Groups : groups'[g] # None =>
              groups[g] # None /\ groups'[g].company = groups[g].company
        BY <2>4, <3>2, <4>1 DEF UpdateGroup, Group
      <4> QED  BY <2>4, <3>2, <4>2 DEF UpdateGroup
    <3> QED  BY <3>1, <3>2
  <2>5. CASE DeleteGroup(o)  BY <2>5 DEF DeleteGroup
  <2>6. CASE DeleteDevice(o)  BY <2>6 DEF DeleteDevice
  <2> QED  BY <1>6, <2>1, <2>2, <2>3, <2>4, <2>5, <2>6 DEF Records
<1>7. CASE Company(o)
  <2>1. CASE FindMapping(o)  BY <1>1, <2>1 DEF FindMapping, Keep, Read, Throw
  <2>2. CASE SaveMapping(o)  BY <2>2 DEF SaveMapping
  <2>3. CASE UpdateRow(o)  BY <2>3 DEF UpdateRow
  <2>4. CASE DeleteGroups(o)  BY <2>4 DEF DeleteGroups
  <2>5. CASE DeleteMappings(o)  BY <2>5 DEF DeleteMappings
  <2>6. CASE DeleteDevices(o)  BY <2>6 DEF DeleteDevices
  <2>7. CASE DeleteGrants(o)  BY <2>7 DEF DeleteGrants
  <2>8. CASE DeleteRow(o)  BY <2>8 DEF DeleteRow
  <2> QED  BY <1>7, <2>1, <2>2, <2>3, <2>4, <2>5, <2>6, <2>7, <2>8 DEF Company
<1> QED  BY <1>2, <1>3, <1>4, <1>5, <1>6, <1>7

LEMMA RowsNext ==
    ASSUME Typed, RowsStay, [Next]_vars
    PROVE  RowsStay'
<1>1. ASSUME NEW o \in Ops, RowsMove(o) PROVE RowsStay'
  <2>1. o \notin Defaults /\ \A g \in Groups : g \in New \/ g \in Defaults
    BY CompanyRecordsAssumption DEF Groups
  <2>2. ASSUME NEW g \in Groups, groups'[g] # None
        PROVE  (g \in New => pc'[g] # "idle") /\ groups'[g].company = HomeOf(g)'
    <3>1. CASE groups[g] # None /\ groups'[g].company = groups[g].company
      BY <3>1, HomeStays DEF RowsStay
    <3>2. CASE g = o /\ groups'[g].company = call[o].company /\ pc[o] # "idle"
      BY <2>1, <3>2, HomeStays DEF HomeOf
    <3> QED  BY <1>1, <2>2, <3>1, <3>2 DEF RowsMove
  <2>3. ASSUME NEW x \in New
        PROVE /\ mappings'[x] # None => pc'[x] # "idle" /\ mappings'[x] = call'[x].company
              /\ devices'[x] # None => pc'[x] # "idle" /\ devices'[x] = call'[x].company
    <3>1. pc[x] # "idle" => pc'[x] # "idle" /\ call'[x] = call[x]
      BY Onward DEF New
    <3> QED  BY <1>1, <3>1 DEF RowsMove, RowsStay
  <2> QED  BY <2>2, <2>3 DEF RowsStay
<1>2. ASSUME UNCHANGED <<groups, mappings, devices>> PROVE RowsStay'
  <2>1. \A x \in New : pc[x] # "idle" => pc'[x] # "idle" /\ call'[x] = call[x]
    BY Onward DEF New
  <2> QED  BY <1>2, <2>1, HomeStays DEF RowsStay
<1>3. CASE Tick  BY <1>2, <1>3 DEF Tick, tables
<1>4. ASSUME NEW u \in Users, Regrant(u) PROVE RowsStay'  BY <1>2, <1>4 DEF Regrant
<1>5. CASE UNCHANGED vars  BY <1>2, <1>5 DEF vars, tables
<1> QED  BY <1>1, <1>3, <1>4, <1>5, RowsMoveOnly DEF Next

LEMMA BoundNext ==
    ASSUME EntitledInv, [Next]_vars, NEW p \in Ops
    PROVE  IsBound(p)'
<1> USE DEF EntitledInv
<1>1. ASSUME pc'[p] = pc[p], call'[p] = call[p], seen'[p] = seen[p] PROVE IsBound(p)'
  <2>1. CASE pc[p] \notin Checked \cup {"findOwner"}
    BY <1>1, <2>1 DEF IsBound
  <2>2. CASE pc[p] \in Checked \cup {"findOwner"} /\ Kind(p) \in RowKinds
    <3>1. call[p] \in Calls /\ call[p].row \in Groups
      BY <2>2, CallsFit DEF Typed, Placed, InPlace, Checked, Worked, Writes, Fits, Kind, RowKinds,
        Groups
    <3>2. call[p].row \in New => pc[call[p].row] # "idle"
      BY <2>2 DEF IsBound
    <3>3. HomeOf(call[p].row)' = HomeOf(call[p].row)
          /\ (call[p].row \in New => pc'[call[p].row] # "idle")
      BY <1>1, <3>1, <3>2, HomeStays DEF HomeOf
    <3> QED  BY <1>1, <2>2, <3>3 DEF IsBound, TargetOf, Kind
  <2>3. CASE pc[p] \in Checked \cup {"findOwner"} /\ Kind(p) \notin RowKinds
    <3>1. pc[p] # "findOwner"
      BY <2>3 DEF Typed, Placed, InPlace, KindsAt, RowKinds
    <3> QED  BY <1>1, <2>3, <3>1 DEF IsBound, TargetOf, Kind
  <2> QED  BY <2>1, <2>2, <2>3
<1>2. ASSUME Start(p) \/ StatementFails(p) \/ Checks(p) \/ Records(p) \/ Company(p) \/ Directory(p)
      PROVE  IsBound(p)'
  <2> USE DEF Typed, TypeOK
  <2>1. ASSUME pc'[p] \notin Checked \cup {"findOwner"} PROVE IsBound(p)'
    BY <2>1 DEF IsBound
  <2>2. ASSUME pc[p] # "idle", UNCHANGED call, pc[p] \in Checked, pc'[p] \in Checked,
               seen'[p].claims = seen[p].claims
        PROVE  IsBound(p)'
    <3>1. CASE Kind(p) \in RowKinds
      <4>1. call[p] \in Calls /\ call[p].row \in Groups
        BY <2>2, <3>1, CallsFit DEF Placed, InPlace, Fits, Kind, RowKinds, Groups
      <4>2. HomeOf(call[p].row)' = HomeOf(call[p].row)
            /\ (call[p].row \in New => pc'[call[p].row] # "idle")
        BY <2>2, <3>1, <4>1, HomeStays DEF IsBound, HomeOf
      <4> QED  BY <2>2, <3>1, <4>2 DEF IsBound, TargetOf, Kind, Checked, Worked, Writes
    <3>2. CASE Kind(p) \notin RowKinds
      BY <2>2, <3>2 DEF IsBound, TargetOf, Kind, Checked, Worked, Writes
    <3> QED  BY <3>1, <3>2
  <2>3. ASSUME Throw(p) PROVE IsBound(p)'
    BY <2>1, <2>3 DEF Throw, Ends, Goto, Checked, Worked, Writes
  <2>4. ASSUME Running(p) PROVE call[p] \in Calls /\ Fits(call[p]) /\ Kind(p) \in KindsAt(pc[p])
    BY <2>4, CallsFit DEF Placed, InPlace, Running, Steps, Writes
  <2>5. CASE Start(p)
    BY <2>1, <2>5 DEF Start, Goto, Entry, Checked, Worked, Writes
  <2>6. CASE StatementFails(p)
    BY <2>3, <2>6 DEF StatementFails
  <2>7. CASE Resolve(p)
    BY <2>1, <2>7 DEF Resolve, Keep, Read, Goto, Entry, Checked, Worked, Writes
  <2>8. CASE Load(p)
    <3>1. CASE Throw(p)  BY <2>3, <3>1
    <3>2. CASE Read(p, Permission(p)) /\ IsOwn(p, call[p].company)
      <4>1. Kind(p) \notin RowKinds /\ Permission(p) # "findOwner"
        BY <2>4, <2>8, WorkFits DEF Load, Running, Steps, Names, Fits, Kind, RowKinds, CompanyKinds
      <4> QED
        BY <3>2, <4>1 DEF Read, Goto, IsOwn, IsBound, TargetOf, Kind
    <3> QED  BY <2>8, <3>1, <3>2 DEF Load
  <2>9. CASE LoadRow(p)
    <3>1. CASE Throw(p)  BY <2>3, <3>1
    <3>2. CASE Ends(p, "done")
      BY <2>1, <3>2 DEF Ends, Goto, Checked, Worked, Writes
    <3>3. CASE RowOwner(p) # None /\ Keep(p, "mapping", RowOwner(p), "findOwner")
      <4>1. Kind(p) \in RowKinds /\ call[p].row \in Groups
            /\ (Kind(p) = "deleteDevice" => call[p].row \in New)
        BY <2>4, <2>9 DEF LoadRow, Running, Steps, Names, Fits, Kind, RowKinds, CompanyKinds, Groups
      <4>2. RowOwner(p) = HomeOf(call[p].row)
            /\ (call[p].row \in New => pc[call[p].row] # "idle")
        <5>1. CASE Kind(p) = "deleteDevice"
          <6>1. call[p].row \notin Defaults
            BY <4>1, <5>1, CompanyRecordsAssumption DEF New
          <6> QED  BY <3>3, <4>1, <5>1, <6>1 DEF RowOwner, RowsStay, HomeOf
        <5>2. CASE Kind(p) # "deleteDevice"
          BY <3>3, <4>1, <5>2 DEF RowOwner, RowsStay
        <5> QED  BY <5>1, <5>2
      <4>3. HomeOf(call[p].row)' = HomeOf(call[p].row)
            /\ (call[p].row \in New => pc'[call[p].row] # "idle") /\ call' = call
        BY <3>3, <4>1, <4>2, HomeStays DEF HomeOf, Keep
      <4>4. seen'[p].mapping = RowOwner(p) /\ pc'[p] = "findOwner"
        <5>1. seen[p] \in Seen  OBVIOUS
        <5> QED  BY <3>3, <5>1 DEF Keep, Goto, Seen
      <4> QED
        BY <4>1, <4>2, <4>3, <4>4 DEF IsBound, Checked, Worked, Writes, Kind
    <3> QED  BY <2>9, <3>1, <3>2, <3>3 DEF LoadRow
  <2>10. CASE FindOwner(p)
    <3>1. CASE Throw(p)  BY <2>3, <3>1
    <3>2. CASE Read(p, Permission(p)) /\ IsOwn(p, seen[p].mapping)
      <4>1. Kind(p) \in RowKinds /\ call[p].row \in Groups /\ Permission(p) # "findOwner"
        BY <2>4, <2>10, WorkFits
        DEF FindOwner, Running, Steps, KindsAt, Fits, Kind, RowKinds, Groups
      <4>2. HomeOf(call[p].row)' = HomeOf(call[p].row)
            /\ (call[p].row \in New => pc'[call[p].row] # "idle") /\ call' = call
        BY <2>10, <3>2, <4>1, HomeStays DEF HomeOf, Read, IsBound, FindOwner
      <4>3. seen[p].claims = HomeOf(call[p].row)
        BY <2>10, <3>2 DEF IsOwn, IsBound, FindOwner
      <4> QED
        BY <3>2, <4>1, <4>2, <4>3 DEF Read, Goto, IsBound, TargetOf, Kind
    <3> QED  BY <2>10, <3>1, <3>2 DEF FindOwner
  <2>11. CASE FindGrant(p)
    <3>1. CASE Throw(p)  BY <2>3, <3>1
    <3>2. CASE Keep(p, "group", grants[Caller(p).user], "findGroup")
      <4>1. seen[p] \in Seen  OBVIOUS
      <4>2. seen'[p].claims = seen[p].claims
        BY <3>2, <4>1 DEF Keep, Seen
      <4> QED
        BY <2>2, <2>11, <3>2, <4>2 DEF FindGrant, Keep, Goto, Checked
    <3> QED  BY <2>11, <3>1, <3>2 DEF FindGrant
  <2>12. CASE FindGroup(p)
    <3>1. CASE Throw(p)  BY <2>3, <3>1
    <3>2. CASE Read(p, Work(p))
      <4>1. Work(p) \in Worked
        BY <2>4, <2>12 DEF FindGroup, Running, Steps, Work, Worked, Writes, Kind, Fits,
          CompanyKinds, RowKinds
      <4> QED
        BY <2>2, <2>12, <3>2, <4>1 DEF FindGroup, Read, Goto, Checked
    <3> QED  BY <2>12, <3>1, <3>2 DEF FindGroup
  <2>13. CASE Records(p)
    <3>1. ASSUME Throw(p) \/ Ends(p, "done") PROVE IsBound(p)'
      BY <2>1, <2>3, <3>1 DEF Ends, Goto, Checked, Worked, Writes
    <3>2. ASSUME pc[p] = "findName", Read(p, "saveGroup") PROVE IsBound(p)'
      BY <2>2, <3>2 DEF Read, Goto, Checked, Worked, Writes
    <3> QED
      BY <2>13, <3>1, <3>2 DEF Records, SaveDevice, FindName, SaveGroup, UpdateGroup,
        DeleteGroup, DeleteDevice
  <2>14. CASE Company(p)
    <3>1. ASSUME Throw(p) \/ Ends(p, "done") PROVE IsBound(p)'
      BY <2>1, <2>3, <3>1 DEF Ends, Goto, Checked, Worked, Writes
    <3>2. ASSUME pc[p] \in Worked, Read(p, "saveMapping") PROVE IsBound(p)'
      BY <2>2, <3>2 DEF Read, Goto, Checked, Worked, Writes
    <3>3. ASSUME NEW x, pc[p] = "findMapping", Keep(p, "mapping", x, "saveMapping")
          PROVE  IsBound(p)'
      <4>1. seen[p] \in Seen  OBVIOUS
      <4>2. seen'[p].claims = seen[p].claims
        BY <3>3, <4>1 DEF Keep, Seen
      <4> QED  BY <2>2, <3>3, <4>2 DEF Keep, Goto, Checked, Worked, Writes
    <3>4. ASSUME pc[p] \in Writes, NEW l \in Writes, Goto(p, l), UNCHANGED <<call, seen>>
          PROVE  IsBound(p)'
      BY <2>2, <3>4 DEF Goto, Checked, Worked, Writes
    <3> QED
      BY <2>14, <3>1, <3>2, <3>3, <3>4 DEF Company, FindMapping, SaveMapping, UpdateRow,
        DeleteGroups, DeleteMappings, DeleteDevices, DeleteGrants, DeleteRow, Delete, Writes,
        Worked
  <2>15. CASE Directory(p)
    <3>1. Kind(p) = "read" /\ UNCHANGED call /\ pc'[p] # "findOwner"
      <4>1. Running(p)
        BY <2>15 DEF Directory, Cached, ReadRow, Respond, Running, Steps
      <4>2. Permission(p) # "findOwner"
        BY <2>4, <4>1, WorkFits
      <4> QED
        BY <2>4, <2>15, <4>1, <4>2 DEF Directory, Cached, ReadRow, Respond, KindsAt, RowKinds,
          Keep, Read, Throw, Ends, Goto
    <3> QED  BY <3>1 DEF IsBound, Kind, RowKinds
  <2> QED
    BY <1>2, <2>5, <2>6, <2>7, <2>8, <2>9, <2>10, <2>11, <2>12, <2>13, <2>14, <2>15 DEF Checks
<1>3. CASE Tick  BY <1>1, <1>3 DEF Tick
<1>4. ASSUME NEW u \in Users, Regrant(u) PROVE IsBound(p)'  BY <1>1, <1>4 DEF Regrant
<1>5. CASE UNCHANGED vars  BY <1>1, <1>5 DEF vars
<1>6. ASSUME NEW o \in Ops \ {p},
             Start(o) \/ StatementFails(o) \/ Checks(o) \/ Records(o) \/ Company(o) \/ Directory(o)
      PROVE  IsBound(p)'
  BY <1>1, <1>6, OthersAlone
<1> QED  BY <1>2, <1>3, <1>4, <1>5, <1>6 DEF Next

-----------------------------------------------------------------------------
(* A permission that is read in two pieces was held, unless it was replaced. *)

LEMMA NeededIs == \A a : Fits(a) => Needed(a.kind) \in Permissions
BY DEF Fits, Needed, Permissions, CompanyKinds, RowKinds

\* A step of another request, or of the world, leaves p permitted: what it writes
\* is witnessed.
LEMMA WitnessPermits ==
    ASSUME EntitledInv, NEW p \in Ops, Running(p), call'[p] = call[p],
           seen'[p] = seen[p] \/ pc'[p] # "findGroup",
           Witness \/ (UNCHANGED tables /\ history'[p] = history[p]),
           \/ pc'[p] = pc[p]
           \/ pc[p] \in Worked /\ pc'[p] # "findGroup"
           \/ pc'[p] \notin Worked \cup {"findGroup"}
    PROVE  IsPermitted(p)'
<1> USE DEF EntitledInv, Typed, TypeOK
<1>1. call[p] \in Calls /\ Fits(call[p])
  BY CallsFit DEF Placed, InPlace, Running, Steps, Writes
<1>2. pc[p] # "idle" /\ IsPermitted(p)
  BY DEF Running, Steps, Writes
<1>3. SUFFICES ASSUME IsUser(Caller(p)), Caller(p).user \in Users PROVE IsPermitted(p)'
  BY <1>1, CallersAre DEF IsPermitted, Caller, Fits
<1>4. Needed(Kind(p)) \in Permissions
  BY <1>1, NeededIs DEF Kind
<1>5. CASE Witness
  <2>1. /\ history'[p].permitted =
             (history[p].permitted \/ \E u \in Users, permission \in Permissions :
                Asks(p, u, permission) /\ Holds(u, permission)')
        /\ history'[p].regranted = (history[p].regranted \/
             (IsUser(Caller(p)) /\ grants'[Caller(p).user] # grants[Caller(p).user]))
    BY <1>5 DEF Witness
  <2>2. Asks(p, Caller(p).user, Needed(Kind(p)))
    BY <1>3 DEF Asks
  <2>3. Holds(Caller(p).user, Needed(Kind(p)))' => history'[p].permitted
    BY <1>3, <1>4, <2>1, <2>2 DEF Holds, Caller, Kind
  <2>4. history[p].permitted => history'[p].permitted
    BY <2>1
  <2>5. history[p].regranted => history'[p].regranted
    BY <2>1
  <2>6. grants'[Caller(p).user] # grants[Caller(p).user] => history'[p].regranted
    BY <1>3, <2>1
  <2> QED
    BY <1>2, <1>3, <2>3, <2>4, <2>5, <2>6 DEF IsPermitted, Kind, Caller, Holds, Worked, Writes
<1>6. CASE UNCHANGED tables /\ history'[p] = history[p]
  BY <1>2, <1>3, <1>6 DEF IsPermitted, Kind, Caller, Holds, Running, tables, Worked, Writes
<1> QED  BY <1>5, <1>6

\* A step of a request is witnessed, or it changes no table and no history but,
\* at its start, its own.
LEMMA StepsAreWitnessed ==
    ASSUME Typed, NEW o \in Ops,
           Start(o) \/ StatementFails(o) \/ Checks(o) \/ Records(o) \/ Company(o) \/ Directory(o)
    PROVE  \/ Witness
           \/ UNCHANGED tables /\ \A p \in Ops : history'[p] = history[p] \/ (Start(o) /\ p = o)
<1>1. CASE Start(o)  BY <1>1 DEF Start, Typed, TypeOK
<1>2. CASE StatementFails(o)  BY <1>2 DEF StatementFails, Throw, ghosts
<1>3. CASE Checks(o)
  BY <1>3 DEF Checks, Resolve, Load, LoadRow, FindOwner, FindGrant, FindGroup, Keep, Read,
    Throw, ghosts
<1>4. CASE Records(o)
  BY <1>4 DEF Records, SaveDevice, FindName, SaveGroup, UpdateGroup, DeleteGroup,
    DeleteDevice, Read, Throw, ghosts
<1>5. CASE Company(o)
  BY <1>5 DEF Company, FindMapping, SaveMapping, UpdateRow, DeleteGroups, DeleteMappings,
    DeleteDevices, DeleteGrants, DeleteRow, Delete, Keep, Read, Throw, ghosts
<1>6. CASE Directory(o)
  BY <1>6 DEF Directory, Cached, ReadRow, Respond, Keep, Read, Throw, ghosts
<1> QED  BY <1>1, <1>2, <1>3, <1>4, <1>5, <1>6

LEMMA PermittedStart ==
    ASSUME EntitledInv, NEW o \in Ops, Start(o)
    PROVE  IsPermitted(o)'
<1> USE DEF EntitledInv, Typed, TypeOK
<1>1. PICK a \in Calls :
        /\ call' = [call EXCEPT ![o] = a]
        /\ pc'[o] \in {Entry(a), "resolve"}
        /\ history' = [history EXCEPT ![o] = Arrival(a)]
  BY DEF Start, Goto
<1>2. history'[o].permitted = (IsUser(a.caller) /\ Holds(a.caller.user, Needed(a.kind)))
  BY <1>1 DEF Arrival
<1>3. UNCHANGED tables /\ call'[o] = a
  BY <1>1 DEF Start
<1> QED
  BY <1>1, <1>2, <1>3 DEF IsPermitted, Caller, Kind, Entry, Worked, Writes, Holds, tables

LEMMA PermittedNext ==
    ASSUME EntitledInv, [Next]_vars, NEW p \in Ops, pc'[p] # "idle"
    PROVE  IsPermitted(p)'
<1> USE DEF EntitledInv, Typed, TypeOK
<1>1. ASSUME pc[p] \in Finished, pc'[p] = pc[p], call'[p] = call[p]
      PROVE  IsPermitted(p)'
  BY <1>1 DEF IsPermitted, Finished, Running, Steps, Writes, Worked, Caller
<1>2. ASSUME pc'[p] = pc[p], call'[p] = call[p], seen'[p] = seen[p],
             Witness \/ (UNCHANGED tables /\ history'[p] = history[p])
      PROVE  IsPermitted(p)'
  BY <1>1, <1>2, WitnessPermits DEF Running
<1>3. ASSUME NEW o \in Ops \ {p},
             Start(o) \/ StatementFails(o) \/ Checks(o) \/ Records(o) \/ Company(o) \/ Directory(o)
      PROVE  IsPermitted(p)'
  BY <1>2, <1>3, OthersAlone, StepsAreWitnessed
<1>4. CASE Start(p)  BY <1>4, PermittedStart
<1>5. ASSUME StatementFails(p) \/ Checks(p) \/ Records(p) \/ Company(p) \/ Directory(p)
      PROVE  IsPermitted(p)'
  <2>1. Running(p) /\ ~Start(p) /\ call'[p] = call[p]
    <3>1. Running(p)
      BY <1>5 DEF StatementFails, Checks, Resolve, Load, LoadRow, FindOwner, FindGrant,
        FindGroup, Records, SaveDevice, FindName, SaveGroup, UpdateGroup, DeleteGroup,
        DeleteDevice, Company, FindMapping, SaveMapping, UpdateRow, DeleteGroups,
        DeleteMappings, DeleteDevices, DeleteGrants, DeleteRow, Directory, Cached, ReadRow,
        Respond, Running, Steps, Writes
    <3>2. ~Start(p)
      BY <3>1 DEF Start, Running, Steps, Writes
    <3>3. pc[p] # "idle"  BY <3>1 DEF Running, Steps, Writes
    <3> QED  BY <3>1, <3>2, <3>3, Onward
  <2>2. Witness \/ (UNCHANGED tables /\ history'[p] = history[p])
    BY <1>5, <2>1, StepsAreWitnessed
  <2>3. ASSUME pc'[p] \notin Worked \cup {"findGroup"} PROVE IsPermitted(p)'
    BY <2>1, <2>2, <2>3, WitnessPermits
  <2>4. ASSUME pc[p] \in Worked, pc'[p] # "findGroup" PROVE IsPermitted(p)'
    BY <2>1, <2>2, <2>4, WitnessPermits
  <2>5. call[p] \in Calls /\ Fits(call[p])
    BY <2>1, CallsFit DEF Placed, InPlace, Running, Steps, Writes
  <2>6. IsUser(Caller(p)) => Permission(p) = "findGrant"
    BY DEF Permission
  <2>7. ASSUME ~IsUser(Caller(p)) PROVE IsPermitted(p)'
    BY <2>1, <2>7 DEF IsPermitted, Caller
  <2>8. CASE StatementFails(p)
    BY <2>3, <2>8 DEF StatementFails, Throw, Ends, Goto, Worked, Writes
  <2>9. CASE Resolve(p)
    BY <2>3, <2>9 DEF Resolve, Keep, Read, Goto, Entry, Worked, Writes
  <2>10. CASE Load(p) \/ LoadRow(p) \/ FindOwner(p)
    BY <2>3, <2>6, <2>7, <2>10 DEF Load, LoadRow, FindOwner, Keep, Read, Throw, Ends, Goto,
      Worked, Writes
  <2>11. CASE FindGrant(p)
    <3>1. CASE Throw(p)
      BY <2>3, <3>1 DEF Throw, Ends, Goto, Worked, Writes
    <3>2. CASE Keep(p, "group", grants[Caller(p).user], "findGroup")
      <4>1. pc[p] # "idle" /\ IsPermitted(p)
        BY <2>1 DEF Running, Steps, Writes
      <4>2. seen[p] \in Seen  OBVIOUS
      <4>3. seen'[p].group = grants[Caller(p).user] /\ pc'[p] = "findGroup"
        BY <3>2, <4>2 DEF Keep, Goto, Seen
      <4>4. UNCHANGED tables /\ history' = history /\ call' = call
        BY <3>2 DEF Keep, ghosts
      <4> QED
        BY <2>1, <4>1, <4>3, <4>4 DEF IsPermitted, Kind, Caller, Holds, Running, tables, Worked,
          Writes
    <3> QED  BY <2>11, <3>1, <3>2 DEF FindGrant
  <2>12. CASE FindGroup(p)
    <3>1. CASE Throw(p)
      BY <2>3, <3>1 DEF Throw, Ends, Goto, Worked, Writes
    <3>2. CASE /\ groups[seen[p].group] # None
               /\ Needed(Kind(p)) \in groups[seen[p].group].may
               /\ Read(p, Work(p))
      <4>1. pc[p] = "findGroup" /\ pc[p] # "idle" /\ IsPermitted(p)
        BY <2>12 DEF FindGroup
      <4>2. IsUser(Caller(p)) /\ seen[p].group \in Groups
        BY <4>1 DEF Placed, InPlace
      <4>3. seen[p].group # None
        BY <4>2, CompanyRecordsAssumption DEF Groups, New
      <4>4. history[p].permitted \/ history[p].regranted
        BY <2>1, <3>2, <4>1, <4>2, <4>3 DEF IsPermitted, Holds
      <4>5. UNCHANGED tables /\ history' = history /\ call' = call /\ pc'[p] = Work(p)
        BY <3>2 DEF Read, Goto, ghosts
      <4>6. Work(p) # "findGroup"
        BY <2>5, WorkFits
      <4> QED
        BY <2>1, <4>1, <4>4, <4>5, <4>6 DEF IsPermitted, Kind, Caller, Holds, Running, tables
    <3> QED  BY <2>12, <3>1, <3>2 DEF FindGroup
  <2>13. CASE Records(p) \/ Company(p)
    <3>1. pc[p] \in Worked
      BY <2>13 DEF Records, SaveDevice, FindName, SaveGroup, UpdateGroup, DeleteGroup,
        DeleteDevice, Company, FindMapping, SaveMapping, UpdateRow, DeleteGroups,
        DeleteMappings, DeleteDevices, DeleteGrants, DeleteRow, Worked, Writes
    <3>2. pc'[p] # "findGroup"
      BY <2>13 DEF Records, SaveDevice, FindName, SaveGroup, UpdateGroup, DeleteGroup,
        DeleteDevice, Company, FindMapping, SaveMapping, UpdateRow, DeleteGroups,
        DeleteMappings, DeleteDevices, DeleteGrants, DeleteRow, Delete, Keep, Read, Throw,
        Ends, Goto
    <3> QED  BY <2>4, <3>1, <3>2
  <2>14. CASE Cached(p)
    BY <2>3, <2>6, <2>7, <2>14 DEF Cached, Read, Throw, Ends, Goto, Worked, Writes
  <2>15. CASE ReadRow(p) \/ Respond(p)
    BY <2>4, <2>15 DEF ReadRow, Respond, Keep, Goto, Worked
  <2> QED
    BY <1>5, <2>8, <2>9, <2>10, <2>11, <2>12, <2>13, <2>14, <2>15 DEF Checks, Directory
<1>6. CASE Tick
  BY <1>2, <1>6 DEF Tick, ghosts
<1>7. ASSUME NEW u \in Users, Regrant(u) PROVE IsPermitted(p)'
  BY <1>2, <1>7 DEF Regrant
<1>8. CASE UNCHANGED vars
  BY <1>2, <1>8 DEF vars, ghosts
<1> QED  BY <1>3, <1>4, <1>5, <1>6, <1>7, <1>8 DEF Next

LEMMA EntitledNext == EntitledInv /\ [Next]_vars => EntitledInv'
<1> SUFFICES ASSUME EntitledInv, [Next]_vars PROVE EntitledInv'
  OBVIOUS
<1>1. Typed'  BY TypedNext DEF EntitledInv
<1>2. RowsStay'  BY RowsNext DEF EntitledInv
<1>3. \A o \in Ops : IsBound(o)'  BY BoundNext
<1>4. \A o \in Ops : pc'[o] # "idle" => IsPermitted(o)'  BY PermittedNext
<1> QED  BY <1>1, <1>2, <1>3, <1>4 DEF EntitledInv

-----------------------------------------------------------------------------
(* Who changes the records of a company.                                   *)

\* The records of c stay when no row that is or becomes one of c's changes.
LEMMA RecordsStay ==
    ASSUME NEW c, details'[c] = details[c],
           \A g \in Groups : groups'[g] = groups[g] \/
             ((groups[g] # None => groups[g].company # c) /\
              (groups'[g] # None => groups'[g].company # c)),
           DOMAIN mappings' = DOMAIN mappings,
           \A x \in DOMAIN mappings : (mappings'[x] = c) <=> (mappings[x] = c),
           \A x \in New : (devices'[x] = c) <=> (devices[x] = c)
    PROVE  RecordsOf(c)' = RecordsOf(c)
<1> DEFINE Mine == {g \in Groups : groups[g] # None /\ groups[g].company = c}
<1>1. Mine' = Mine  OBVIOUS
<1>2. \A g \in Mine : groups'[g] = groups[g]  OBVIOUS
<1>3. [g \in Mine |-> groups[g]]' = [g \in Mine |-> groups[g]]
  BY <1>1, <1>2
<1>4. RowsOf(c)' = RowsOf(c)  BY DEF RowsOf
<1>5. {x \in New : devices[x] = c}' = {x \in New : devices[x] = c}  OBVIOUS
<1> QED  BY <1>3, <1>4, <1>5 DEF RecordsOf

\* A writing step of o touches the records of the company that o is about only.
LEMMA WritesAtHome ==
    ASSUME EntitledInv, NEW o \in Ops, Records(o) \/ Company(o), NEW c \in Companies,
           RecordsOf(c)' # RecordsOf(c)
    PROVE  pc[o] \in Writes /\ TargetOf(o) = c
<1> USE DEF EntitledInv, Typed, TypeOK
<1>1. ~UNCHANGED tables
  <2>1. ASSUME UNCHANGED tables PROVE RecordsOf(c)' = RecordsOf(c)
    BY <2>1 DEF tables, RecordsOf, RowsOf
  <2> QED  BY <2>1
<1>2. ~Throw(o)  BY <1>1 DEF Throw
<1>3. Running(o) /\ o \in New /\ o \notin Defaults
  BY CompanyRecordsAssumption DEF Records, SaveDevice, FindName, SaveGroup, UpdateGroup,
    DeleteGroup, DeleteDevice, Company, FindMapping, SaveMapping, UpdateRow, DeleteGroups,
    DeleteMappings, DeleteDevices, DeleteGrants, DeleteRow, Running, Steps, Writes, Placed,
    InPlace, New
<1>4. call[o] \in Calls /\ Fits(call[o]) /\ Kind(o) \in KindsAt(pc[o])
  BY <1>3, CallsFit DEF Placed, InPlace, Running, Steps, Writes
<1>5. CASE SaveDevice(o)
  <2>1. TargetOf(o) = call[o].company
    BY <1>4, <1>5 DEF SaveDevice, KindsAt, TargetOf, RowKinds
  <2>2. ASSUME c # call[o].company PROVE FALSE
    <3>1. \A x \in New : (devices'[x] = c) <=> (devices[x] = c)
      BY <1>3, <1>5, <2>2, CompanyRecordsAssumption DEF SaveDevice, RowsStay
    <3> QED  BY <1>5, <3>1, RecordsStay DEF SaveDevice
  <2> QED  BY <1>5, <2>1, <2>2 DEF SaveDevice, Writes
<1>6. CASE FindName(o)  BY <1>1, <1>2, <1>6 DEF FindName, Read
<1>7. CASE SaveGroup(o)
  <2>1. TargetOf(o) = call[o].company
    BY <1>4, <1>7 DEF SaveGroup, KindsAt, TargetOf, RowKinds
  <2>2. ASSUME c # call[o].company PROVE FALSE
    <3>1. PICK may \in Roles : groups' = [groups EXCEPT ![o] =
             [company |-> call[o].company, name |-> call[o].name, may |-> may]]
      BY <1>7 DEF SaveGroup
    <3>2. groups[o] # None => groups[o].company = call[o].company
      BY <1>3 DEF RowsStay, HomeOf, Groups
    <3>3. \A g \in Groups : groups'[g] = groups[g] \/
            ((groups[g] # None => groups[g].company # c) /\
             (groups'[g] # None => groups'[g].company # c))
      BY <2>2, <3>1, <3>2
    <3> QED  BY <1>7, <3>3, RecordsStay DEF SaveGroup
  <2> QED  BY <1>7, <2>1, <2>2 DEF SaveGroup, Writes
<1>8. CASE UpdateGroup(o)
  <2>1. call[o].row \in Groups /\ TargetOf(o) = HomeOf(call[o].row) /\ groups[call[o].row] # None
    BY <1>2, <1>4, <1>8 DEF UpdateGroup, KindsAt, TargetOf, RowKinds, Fits, Kind
  <2>2. groups[call[o].row] \in Group /\ groups[call[o].row].company = TargetOf(o)
    BY <2>1 DEF RowsStay
  <2>3. groups'[call[o].row].company = TargetOf(o)
    BY <1>8, <2>1, <2>2 DEF UpdateGroup, Group
  <2>4. ASSUME c # TargetOf(o) PROVE FALSE
    <3>1. \A g \in Groups : groups'[g] = groups[g] \/
            ((groups[g] # None => groups[g].company # c) /\
             (groups'[g] # None => groups'[g].company # c))
      BY <1>8, <2>1, <2>2, <2>3, <2>4 DEF UpdateGroup
    <3> QED  BY <1>8, <2>1, <3>1, RecordsStay DEF UpdateGroup
  <2> QED  BY <1>8, <2>4 DEF UpdateGroup, Writes
<1>9. CASE DeleteGroup(o)
  <2>1. call[o].row \in Groups /\ TargetOf(o) = HomeOf(call[o].row)
    BY <1>4, <1>9 DEF DeleteGroup, KindsAt, TargetOf, RowKinds, Fits, Kind
  <2>2. groups[call[o].row] # None => groups[call[o].row].company = TargetOf(o)
    BY <2>1 DEF RowsStay
  <2>3. ASSUME c # TargetOf(o) PROVE FALSE
    <3>1. \A g \in Groups : groups'[g] = groups[g] \/
            ((groups[g] # None => groups[g].company # c) /\
             (groups'[g] # None => groups'[g].company # c))
      BY <1>9, <2>1, <2>2, <2>3 DEF DeleteGroup
    <3> QED  BY <1>9, <3>1, RecordsStay DEF DeleteGroup
  <2> QED  BY <1>9, <2>3 DEF DeleteGroup, Writes
<1>10. CASE DeleteDevice(o)
  <2>1. call[o].row \in New /\ TargetOf(o) = HomeOf(call[o].row)
    BY <1>4, <1>10 DEF DeleteDevice, KindsAt, TargetOf, RowKinds, Fits, Kind
  <2>2. call[o].row \notin Defaults
    BY <2>1, CompanyRecordsAssumption DEF New
  <2>3. devices[call[o].row] # None => devices[call[o].row] = TargetOf(o)
    BY <2>1, <2>2 DEF RowsStay, HomeOf
  <2>4. ASSUME c # TargetOf(o) PROVE FALSE
    <3>1. \A x \in New : (devices'[x] = c) <=> (devices[x] = c)
      BY <1>10, <2>1, <2>3, <2>4, CompanyRecordsAssumption DEF DeleteDevice
    <3> QED  BY <1>10, <3>1, RecordsStay DEF DeleteDevice
  <2> QED  BY <1>10, <2>4 DEF DeleteDevice, Writes
<1>11. CASE Company(o)
  <2>1. TargetOf(o) = call[o].company
    <3>1. Kind(o) \notin RowKinds
      BY <1>4, <1>11 DEF Company, FindMapping, SaveMapping, UpdateRow, DeleteGroups,
        DeleteMappings, DeleteDevices, DeleteGrants, DeleteRow, KindsAt, RowKinds
    <3> QED  BY <3>1 DEF TargetOf
  <2>2. pc[o] \in Writes
    BY <1>1, <1>2, <1>11 DEF Company, FindMapping, SaveMapping, UpdateRow, DeleteGroups,
      DeleteMappings, DeleteDevices, DeleteGrants, DeleteRow, Writes, Read, Keep
  <2>3. ASSUME c # call[o].company PROVE FALSE
    <3>1. CASE FindMapping(o)  BY <1>1, <1>2, <3>1 DEF FindMapping, Read, Keep
    <3>2. CASE SaveMapping(o)
      <4>1. mappings[o] # None => mappings[o] = call[o].company
        BY <1>3 DEF RowsStay
      <4>2. DOMAIN mappings' = DOMAIN mappings
            /\ \A x \in DOMAIN mappings : (mappings'[x] = c) <=> (mappings[x] = c)
        BY <1>3, <2>3, <3>2, <4>1, CompanyRecordsAssumption DEF SaveMapping
      <4> QED  BY <3>2, <4>2, RecordsStay DEF SaveMapping
    <3>3. CASE UpdateRow(o)
      <4>1. details'[c] = details[c]
        BY <2>3, <3>3 DEF UpdateRow
      <4> QED  BY <3>3, <4>1, RecordsStay DEF UpdateRow
    <3>4. CASE DeleteGroups(o)
      <4>1. \A g \in Groups : groups'[g] = groups[g] \/
              ((groups[g] # None => groups[g].company # c) /\
               (groups'[g] # None => groups'[g].company # c))
        BY <2>3, <3>4 DEF DeleteGroups
      <4> QED  BY <3>4, <4>1, RecordsStay DEF DeleteGroups
    <3>5. CASE DeleteMappings(o)
      <4>1. DOMAIN mappings' = DOMAIN mappings
            /\ \A x \in DOMAIN mappings : (mappings'[x] = c) <=> (mappings[x] = c)
        BY <2>3, <3>5, CompanyRecordsAssumption DEF DeleteMappings
      <4> QED  BY <3>5, <4>1, RecordsStay DEF DeleteMappings
    <3>6. CASE DeleteDevices(o)
      <4>1. \A x \in New : (devices'[x] = c) <=> (devices[x] = c)
        BY <2>3, <3>6, CompanyRecordsAssumption DEF DeleteDevices
      <4> QED  BY <3>6, <4>1, RecordsStay DEF DeleteDevices
    <3>7. CASE DeleteGrants(o)  BY <3>7, RecordsStay DEF DeleteGrants
    <3>8. CASE DeleteRow(o)
      <4>1. details'[c] = details[c]
        BY <2>3, <3>8 DEF DeleteRow
      <4> QED  BY <3>8, <4>1, RecordsStay DEF DeleteRow
    <3> QED
      BY <1>11, <3>1, <3>2, <3>3, <3>4, <3>5, <3>6, <3>7, <3>8 DEF Company
  <2> QED  BY <2>1, <2>2, <2>3
<1> QED
  BY <1>5, <1>6, <1>7, <1>8, <1>9, <1>10, <1>11 DEF Records

\* A write moves its request on.
LEMMA WritesMoveOn ==
    ASSUME NEW o \in Ops, pc \in [Ops -> Steps \cup Finished], Records(o) \/ Company(o),
           pc[o] \in Writes
    PROVE  pc'[o] # pc[o]
BY DEF Records, SaveDevice, FindName, SaveGroup, UpdateGroup, DeleteGroup, DeleteDevice,
  Company, FindMapping, SaveMapping, UpdateRow, DeleteGroups, DeleteMappings, DeleteDevices,
  DeleteGrants, DeleteRow, Delete, Keep, Read, Throw, Ends, Goto, Writes

LEMMA EntitledStep ==
    ASSUME EntitledInv, [Next]_vars, NEW c \in Companies, RecordsOf(c)' # RecordsOf(c)
    PROVE  \E o \in Ops : /\ pc[o] \in Writes /\ pc'[o] # pc[o]
                          /\ seen[o].claims = c /\ Entitled(o)
<1> USE DEF EntitledInv, Typed, TypeOK
<1>1. ~UNCHANGED <<details, groups, mappings, devices>>
  <2>1. ASSUME UNCHANGED <<details, groups, mappings, devices>>
        PROVE  RecordsOf(c)' = RecordsOf(c)
    BY <2>1 DEF RecordsOf, RowsOf
  <2> QED  BY <2>1
<1>2. PICK o \in Ops : Records(o) \/ Company(o)
  <2>1. ~Tick /\ ~UNCHANGED vars /\ \A u \in Users : ~Regrant(u)
    BY <1>1 DEF Tick, vars, tables, Regrant
  <2>2. \A o \in Ops : ~(Start(o) \/ StatementFails(o) \/ Checks(o) \/ Directory(o))
    BY <1>1 DEF Start, StatementFails, Checks, Resolve, Load, LoadRow, FindOwner, FindGrant,
      FindGroup, Directory, Cached, ReadRow, Respond, Keep, Read, Throw, tables
  <2> QED  BY <2>1, <2>2 DEF Next
<1>3. pc[o] \in Writes /\ TargetOf(o) = c
  BY <1>2, WritesAtHome
<1>4. Kind(o) # "read" /\ pc[o] # "idle"
  BY <1>3 DEF Placed, InPlace, KindsAt, Writes, RowKinds
<1>5. seen[o].claims = c
  BY <1>3, <1>4 DEF IsBound, Checked, Worked
<1>6. Entitled(o)
  BY <1>3, <1>4 DEF IsPermitted, Entitled, Worked
<1> QED  BY <1>2, <1>3, <1>5, <1>6, WritesMoveOn

\* assertCompanyMatch and assertPermission, for any overlap of requests: a record of
\* a company changes only by a request of that company, whose user held the
\* permission at some moment since it arrived or was given another role meanwhile.
THEOREM OnlyEntitledChange == Spec => ChangesAreEntitled
<1>1. Init => EntitledInv  BY EntitledInit
<1>2. EntitledInv /\ [Next]_vars => EntitledInv'  BY EntitledNext
<1>3. EntitledInv /\ [Next]_vars =>
        [\A c \in Companies : RecordsOf(c)' # RecordsOf(c) =>
           \E o \in Ops : /\ pc[o] \in Writes /\ pc'[o] # pc[o]
                          /\ seen[o].claims = c /\ Entitled(o)]_tables
  BY EntitledStep DEF vars
<1> QED  BY <1>1, <1>2, <1>3, PTL DEF Spec, ChangesAreEntitled

-----------------------------------------------------------------------------
(* What a step may do to what was written down before.                     *)

\* Every step that writes to a table is witnessed; the others leave the history of
\* the requests that have begun.
LEMMA QuietOrWitnessed ==
    ASSUME Typed, [Next]_vars
    PROVE  \/ Witness
           \/ /\ UNCHANGED <<tables, replaced>>
              /\ \A x \in Ops : history'[x] = history[x] \/ Start(x)
<1> USE DEF ghosts, tables
<1>1. ASSUME NEW o \in Ops, Start(o)
      PROVE  /\ UNCHANGED <<tables, replaced>>
             /\ \A x \in Ops : history'[x] = history[x] \/ x = o
  BY <1>1 DEF Start, Typed, TypeOK
<1>2. ASSUME NEW o \in Ops, StatementFails(o) \/ Checks(o) \/ Directory(o)
      PROVE  UNCHANGED <<tables, replaced, history>>
  BY <1>2 DEF StatementFails, Checks, Resolve, Load, LoadRow, FindOwner, FindGrant, FindGroup,
    Directory, Cached, ReadRow, Respond, Keep, Read, Throw
<1>3. ASSUME NEW o \in Ops, Records(o) PROVE Witness \/ UNCHANGED <<tables, replaced, history>>
  BY <1>3 DEF Records, SaveDevice, FindName, SaveGroup, UpdateGroup, DeleteGroup, DeleteDevice,
    Read, Throw
<1>4. ASSUME NEW o \in Ops, Company(o) PROVE Witness \/ UNCHANGED <<tables, replaced, history>>
  BY <1>4 DEF Company, FindMapping, SaveMapping, UpdateRow, DeleteGroups, DeleteMappings,
    DeleteDevices, DeleteGrants, DeleteRow, Delete, Keep, Read, Throw
<1>5. CASE Tick  BY <1>5 DEF Tick
<1>6. ASSUME NEW u \in Users, Regrant(u) PROVE Witness  BY <1>6 DEF Regrant
<1>7. CASE UNCHANGED vars  BY <1>7 DEF vars
<1> QED  BY <1>1, <1>2, <1>3, <1>4, <1>5, <1>6, <1>7 DEF Next

\* What has been the case since a request arrived stays so, and when it is over
\* nothing more is written down about it.
LEMMA HistoryGrows ==
    ASSUME Typed, [Next]_vars, NEW x \in Ops, pc[x] # "idle"
    PROVE  /\ history'[x].at = history[x].at
           /\ history[x].overtaken => history'[x].overtaken
           /\ history[x].crossed => history'[x].crossed
           /\ ~Running(x) => history'[x] = history[x]
<1>1. history[x] \in History
  BY DEF Typed, TypeOK
<1>2. CASE Witness  BY <1>1, <1>2 DEF Witness, History
<1>3. CASE history'[x] = history[x]  BY <1>3
<1> QED  BY <1>2, <1>3, QuietOrWitnessed DEF Start

\* What is over stays as it was.
LEMMA OverStays ==
    ASSUME Typed, [Next]_vars, NEW x \in Ops, pc[x] \in {"done", "failed"}
    PROVE  /\ pc'[x] = pc[x] /\ call'[x] = call[x] /\ seen'[x] = seen[x]
           /\ answer'[x] = answer[x] /\ history'[x] = history[x]
<1>1. pc[x] # "idle" /\ ~Running(x)
  BY DEF Running, Steps, Writes
<1>2. history'[x] = history[x]
  BY <1>1, HistoryGrows
<1>3. ASSUME NEW o \in Ops,
             Start(o) \/ StatementFails(o) \/ Checks(o) \/ Records(o) \/ Company(o) \/ Directory(o)
      PROVE  /\ pc'[x] = pc[x] /\ call'[x] = call[x] /\ seen'[x] = seen[x]
             /\ answer'[x] = answer[x]
  <2>1. o # x
    BY <1>1, <1>3 DEF Start, StatementFails, Checks, Resolve, Load, LoadRow, FindOwner, FindGrant,
      FindGroup, Records, SaveDevice, FindName, SaveGroup, UpdateGroup, DeleteGroup,
      DeleteDevice, Company, FindMapping, SaveMapping, UpdateRow, DeleteGroups, DeleteMappings,
      DeleteDevices, DeleteGrants, DeleteRow, Directory, Cached, ReadRow, Respond
  <2>2. answer'[x] = answer[x]
    BY <1>3, <2>1 DEF Start, StatementFails, Checks, Resolve, Load, LoadRow, FindOwner, FindGrant,
      FindGroup, Records, SaveDevice, FindName, SaveGroup, UpdateGroup, DeleteGroup,
      DeleteDevice, Company, FindMapping, SaveMapping, UpdateRow, DeleteGroups, DeleteMappings,
      DeleteDevices, DeleteGrants, DeleteRow, Delete, Directory, Cached, ReadRow, Respond, Keep, Read,
      Throw, Ends, Typed, TypeOK
  <2>3. pc'[x] = pc[x] /\ call'[x] = call[x] /\ seen'[x] = seen[x]
    BY <1>3, <2>1, OthersAlone
  <2> QED  BY <2>2, <2>3
<1>4. CASE Tick  BY <1>2, <1>4 DEF Tick
<1>5. ASSUME NEW u \in Users, Regrant(u)
      PROVE  /\ pc'[x] = pc[x] /\ call'[x] = call[x] /\ seen'[x] = seen[x]
             /\ answer'[x] = answer[x]
  BY <1>5 DEF Regrant
<1>6. CASE UNCHANGED vars  BY <1>2, <1>6 DEF vars
<1> QED  BY <1>2, <1>3, <1>4, <1>5, <1>6 DEF Next

\* The row of a company: it stays, an update adds itself, or a deletion takes it.
LEMMA DetailsMove ==
    ASSUME Typed, [Next]_vars, NEW c \in Companies
    PROVE  \/ details'[c] = details[c]
           \/ details[c] # None /\ details'[c] # None
              /\ \E o \in New : details'[c] = details[c] \cup {o}
           \/ details'[c] = None /\ \E d \in Ops : pc[d] = "deleteRow" /\ call[d].company = c
<1> USE DEF Typed, TypeOK
<1>1. ASSUME NEW o \in Ops, Start(o) \/ StatementFails(o) \/ Checks(o) \/ Directory(o)
      PROVE  details' = details
  BY <1>1 DEF Start, StatementFails, Checks, Resolve, Load, LoadRow, FindOwner, FindGrant, FindGroup,
    Directory, Cached, ReadRow, Respond, Keep, Read, Throw, tables
<1>2. ASSUME NEW o \in Ops, Records(o) PROVE details' = details
  BY <1>2 DEF Records, SaveDevice, FindName, SaveGroup, UpdateGroup, DeleteGroup, DeleteDevice,
    Read, Throw, tables
<1>3. ASSUME NEW o \in Ops, Company(o)
      PROVE  \/ details'[c] = details[c]
             \/ details[c] # None /\ details'[c] # None
                /\ o \in New /\ details'[c] = details[c] \cup {o}
             \/ details'[c] = None /\ pc[o] = "deleteRow" /\ call[o].company = c
  <2>1. CASE UpdateRow(o)
    <3>1. o \in New
      BY <2>1 DEF UpdateRow, Placed, InPlace, New
    <3>2. details[c] # None => details[c] \cup {o} \in Versions
      BY <3>1 DEF Versions
    <3> QED
      BY <2>1, <3>1, <3>2, CompanyRecordsAssumption DEF UpdateRow, Versions
  <2>2. CASE DeleteRow(o)  BY <2>2 DEF DeleteRow
  <2> QED
    BY <1>3, <2>1, <2>2 DEF Company, FindMapping, SaveMapping, DeleteGroups, DeleteMappings,
      DeleteDevices, DeleteGrants, Keep, Read, Throw, tables
<1>4. CASE Tick  BY <1>4 DEF Tick, tables
<1>5. ASSUME NEW u \in Users, Regrant(u) PROVE details' = details  BY <1>5 DEF Regrant
<1>6. CASE UNCHANGED vars  BY <1>6 DEF vars, tables
<1> QED  BY <1>1, <1>2, <1>3, <1>4, <1>5, <1>6 DEF Next

\* The first steps of the work that a request is permitted to do.
Firsts == {"saveDevice", "findName", "updateRow", "findMapping", "deleteGroups", "readRow"}
          \cup RowKinds

LEMMA FirstsAre ==
    ASSUME NEW o \in Ops, call[o] \in Calls
    PROVE  Work(o) \in Firsts /\ Permission(o) \in Firsts \cup {"findGrant"}
<1>1. Kind(o) \in CompanyKinds \cup RowKinds
  BY CallsFit DEF Fits, Kind
<1>2. Work(o) \in Firsts
  BY <1>1 DEF Work, Firsts, CompanyKinds, RowKinds
<1> QED  BY <1>2 DEF Permission

\* How a request gets to a place.
CameFrom(x) ==
    \/ pc'[x] = pc[x] /\ call'[x] = call[x] /\ seen'[x] = seen[x]
    \/ pc'[x] \in {"done", "failed", "cached", "load", "resolve", "findOwner"}
    \/ FindGrant(x) /\ pc'[x] = "findGroup"
    \/ FindGroup(x) /\ pc'[x] \in Firsts
    \/ (Load(x) \/ FindOwner(x) \/ Cached(x)) /\ pc'[x] \in Firsts \cup {"findGrant"}
    \/ FindName(x) /\ pc'[x] = "saveGroup"
    \/ FindMapping(x) /\ pc'[x] = "saveMapping"
    \/ SaveMapping(x) /\ pc'[x] = "updateRow"
    \/ DeleteGroups(x) /\ pc'[x] = "deleteMappings"
    \/ DeleteMappings(x) /\ pc'[x] = "deleteDevices"
    \/ DeleteDevices(x) /\ pc'[x] = "deleteGrants"
    \/ DeleteGrants(x) /\ pc'[x] = "deleteRow"
    \/ ReadRow(x) /\ pc'[x] = "project"

LEMMA AllCameFrom ==
    ASSUME Typed, [Next]_vars, NEW x \in Ops
    PROVE  CameFrom(x)
<1> USE DEF CameFrom
<1>1. pc \in [Ops -> Steps \cup Finished]
  BY DEF Typed, TypeOK
<1>2. ASSUME Running(x) PROVE call[x] \in Calls
  BY <1>2 DEF Typed, Placed, InPlace, Running, Steps, Writes
<1>3. CASE Start(x)
  BY <1>1, <1>3 DEF Start, Goto, Entry
<1>4. CASE StatementFails(x)
  BY <1>1, <1>4 DEF StatementFails, Throw, Ends, Goto
<1>5. CASE Checks(x)
  <2>1. Work(x) \in Firsts /\ Permission(x) \in Firsts \cup {"findGrant"}
    BY <1>2, <1>5, FirstsAre DEF Running, Steps, Checks, Resolve, Load, LoadRow, FindOwner,
      FindGrant, FindGroup
  <2>2. CASE Resolve(x)
    BY <1>1, <2>2 DEF Resolve, Keep, Read, Goto, Entry
  <2>3. CASE Load(x)
    BY <1>1, <2>1, <2>3 DEF Load, Throw, Ends, Read, Goto
  <2>4. CASE LoadRow(x)
    BY <1>1, <2>4 DEF LoadRow, Throw, Ends, Keep, Goto
  <2>5. CASE FindOwner(x)
    BY <1>1, <2>1, <2>5 DEF FindOwner, Throw, Ends, Read, Goto
  <2>6. CASE FindGrant(x)
    BY <1>1, <2>6 DEF FindGrant, Throw, Ends, Keep, Goto
  <2>7. CASE FindGroup(x)
    BY <1>1, <2>1, <2>7 DEF FindGroup, Throw, Ends, Read, Goto
  <2> QED  BY <1>5, <2>2, <2>3, <2>4, <2>5, <2>6, <2>7 DEF Checks
<1>6. CASE Records(x)
  BY <1>1, <1>6 DEF Records, SaveDevice, FindName, SaveGroup, UpdateGroup, DeleteGroup,
    DeleteDevice, Throw, Ends, Read, Goto
<1>7. CASE Company(x)
  <2>1. CASE FindMapping(x)
    BY <1>1, <2>1 DEF FindMapping, Throw, Ends, Read, Keep, Goto
  <2>2. CASE SaveMapping(x) \/ UpdateRow(x)
    BY <1>1, <2>2 DEF SaveMapping, UpdateRow, Ends, Goto
  <2>3. CASE DeleteGroups(x) \/ DeleteMappings(x) \/ DeleteDevices(x) \/ DeleteGrants(x)
    BY <1>1, <2>3 DEF DeleteGroups, DeleteMappings, DeleteDevices, DeleteGrants, Delete, Goto
  <2>4. CASE DeleteRow(x)
    BY <1>1, <2>4 DEF DeleteRow, Ends, Goto
  <2> QED  BY <1>7, <2>1, <2>2, <2>3, <2>4 DEF Company
<1>8. CASE Directory(x)
  <2>1. Permission(x) \in Firsts \cup {"findGrant"}
    BY <1>2, <1>8, FirstsAre DEF Running, Steps, Directory, Cached, ReadRow, Respond
  <2> QED
    BY <1>1, <1>8, <2>1 DEF Directory, Cached, ReadRow, Respond, Throw, Ends, Read, Keep, Goto
<1>9. ASSUME NEW o \in Ops \ {x},
             Start(o) \/ StatementFails(o) \/ Checks(o) \/ Records(o) \/ Company(o) \/ Directory(o)
      PROVE  CameFrom(x)
  BY <1>9, OthersAlone
<1>10. CASE Tick  BY <1>10 DEF Tick
<1>11. ASSUME NEW u \in Users, Regrant(u) PROVE CameFrom(x)  BY <1>11 DEF Regrant
<1>12. CASE UNCHANGED vars  BY <1>12 DEF vars
<1> QED
  BY <1>3, <1>4, <1>5, <1>6, <1>7, <1>8, <1>9, <1>10, <1>11, <1>12 DEF Next

\* A deletion that has come to the categories goes on to the row, or fails.
LEMMA DeletionGoesOn ==
    ASSUME Typed, [Next]_vars, NEW d \in Ops, pc[d] \in Deleting
    PROVE  pc'[d] \in Deleting \/ DeleteRow(d)
<1> USE DEF Deleting
<1>1. pc \in [Ops -> Steps \cup Finished] /\ (pc[d] = "failed" => pc'[d] = "failed")
  BY OverStays DEF Typed, TypeOK
<1>2. ASSUME pc[d] # "failed",
             Start(d) \/ StatementFails(d) \/ Checks(d) \/ Records(d) \/ Company(d) \/ Directory(d)
      PROVE  pc'[d] \in Deleting \/ DeleteRow(d)
  <2>1. CASE StatementFails(d)
    BY <1>1, <2>1 DEF StatementFails, Throw, Ends, Goto
  <2>2. CASE DeleteDevices(d) \/ DeleteGrants(d)
    BY <1>1, <2>2 DEF DeleteDevices, DeleteGrants, Delete, Goto
  <2> QED
    BY <1>2, <2>1, <2>2 DEF Start, Checks, Resolve, Load, LoadRow, FindOwner, FindGrant,
      FindGroup, Records, SaveDevice, FindName, SaveGroup, UpdateGroup, DeleteGroup,
      DeleteDevice, Company, FindMapping, SaveMapping, UpdateRow, DeleteGroups, DeleteMappings,
      Directory, Cached, ReadRow, Respond
<1>3. ASSUME NEW o \in Ops \ {d},
             Start(o) \/ StatementFails(o) \/ Checks(o) \/ Records(o) \/ Company(o) \/ Directory(o)
      PROVE  pc'[d] \in Deleting
  BY <1>3, OthersAlone
<1>4. CASE Tick  BY <1>4 DEF Tick
<1>5. ASSUME NEW u \in Users, Regrant(u) PROVE pc'[d] \in Deleting  BY <1>5 DEF Regrant
<1>6. CASE UNCHANGED vars  BY <1>6 DEF vars
<1> QED  BY <1>1, <1>2, <1>3, <1>4, <1>5, <1>6 DEF Next

\* Which steps write to which table.
LEMMA TablesMove ==
    ASSUME [Next]_vars
    PROVE  /\ \/ groups' = groups
              \/ \E o \in Ops :
                   SaveGroup(o) \/ UpdateGroup(o) \/ DeleteGroup(o) \/ DeleteGroups(o)
           /\ \/ mappings' = mappings
              \/ \E o \in Ops : (SaveMapping(o) /\ seen[o].mapping = None) \/ DeleteMappings(o)
           /\ \/ devices' = devices
              \/ \E o \in Ops : SaveDevice(o) \/ DeleteDevice(o) \/ DeleteDevices(o)
<1>1. ASSUME NEW o \in Ops, Start(o) \/ StatementFails(o) \/ Checks(o) \/ Directory(o)
      PROVE  UNCHANGED <<groups, mappings, devices>>
  BY <1>1 DEF Start, StatementFails, Checks, Resolve, Load, LoadRow, FindOwner, FindGrant, FindGroup,
    Directory, Cached, ReadRow, Respond, Keep, Read, Throw, tables
<1>2. ASSUME NEW o \in Ops, Records(o)
      PROVE  /\ groups' = groups \/ SaveGroup(o) \/ UpdateGroup(o) \/ DeleteGroup(o)
             /\ mappings' = mappings
             /\ devices' = devices \/ SaveDevice(o) \/ DeleteDevice(o)
  BY <1>2 DEF Records, SaveDevice, FindName, SaveGroup, UpdateGroup, DeleteGroup, DeleteDevice,
    Read, Throw, tables
<1>3. ASSUME NEW o \in Ops, Company(o)
      PROVE  /\ groups' = groups \/ DeleteGroups(o)
             /\ \/ mappings' = mappings
                \/ SaveMapping(o) /\ seen[o].mapping = None
                \/ DeleteMappings(o)
             /\ devices' = devices \/ DeleteDevices(o)
  BY <1>3 DEF Company, FindMapping, SaveMapping, UpdateRow, DeleteGroups, DeleteMappings,
    DeleteDevices, DeleteGrants, DeleteRow, Keep, Read, Throw, tables
<1>4. CASE Tick  BY <1>4 DEF Tick, tables
<1>5. ASSUME NEW u \in Users, Regrant(u) PROVE UNCHANGED <<groups, mappings, devices>>
  BY <1>5 DEF Regrant
<1>6. CASE UNCHANGED vars  BY <1>6 DEF vars, tables
<1> QED  BY <1>1, <1>2, <1>3, <1>4, <1>5, <1>6 DEF Next

-----------------------------------------------------------------------------
(* The one category of a company.                                          *)

Gone(c) == \E d \in Ops :
    pc[d] \in Deleting /\ Kind(d) = "deleteCompany" /\ call[d].company = c

\* Who is about to save a row of its own has seen that a deletion took the other.
CategoryInv ==
    /\ EntitledInv
    /\ OneCategory
    /\ \A o \in Ops : pc[o] = "saveMapping" /\ seen[o].mapping = None =>
         details[call[o].company] = None \/ Gone(call[o].company)

LEMMA CategoryInit == Init => CategoryInv
<1> SUFFICES ASSUME Init PROVE CategoryInv
  OBVIOUS
<1>1. ASSUME NEW c \in Companies PROVE Cardinality(RowsOf(c)) = 1
  <2>1. RowsOf(c) = {c}
    BY CompanyRecordsAssumption DEF RowsOf, Init
  <2> QED  BY <2>1, FS_Singleton
<1>2. \A o \in Ops : pc[o] \in {"done", "idle"}
  BY DEF Init
<1> QED  BY <1>1, <1>2, EntitledInit DEF CategoryInv, OneCategory

LEMMA GoneStays ==
    ASSUME Typed, [Next]_vars, NEW c \in Companies, details[c] = None \/ Gone(c)
    PROVE  details'[c] = None \/ Gone(c)'
<1>1. CASE details[c] = None
  BY <1>1, DetailsMove
<1>2. CASE Gone(c)
  <2>1. PICK d \in Ops : pc[d] \in Deleting /\ Kind(d) = "deleteCompany" /\ call[d].company = c
    BY <1>2 DEF Gone
  <2>2. pc[d] # "idle"  BY <2>1 DEF Deleting
  <2>3. call'[d] = call[d]  BY <2>2, Onward
  <2>4. CASE pc'[d] \in Deleting
    BY <2>1, <2>3, <2>4 DEF Gone, Kind
  <2>5. CASE DeleteRow(d)
    BY <2>1, <2>5 DEF DeleteRow, Typed, TypeOK
  <2> QED  BY <2>1, <2>4, <2>5, DeletionGoesOn
<1> QED  BY <1>1, <1>2

\* The category rows of a company change only when it is being deleted.
LEMMA RowsOfMove ==
    ASSUME CategoryInv, [Next]_vars, NEW c \in Companies
    PROVE  RowsOf(c)' = RowsOf(c) \/ details'[c] = None \/ Gone(c)'
<1> USE DEF CategoryInv, EntitledInv, Typed, TypeOK
<1>1. CASE mappings' = mappings
  BY <1>1 DEF RowsOf
<1>2. ASSUME NEW o \in Ops, SaveMapping(o), seen[o].mapping = None
      PROVE  RowsOf(c)' = RowsOf(c) \/ details'[c] = None \/ Gone(c)'
  <2>1. CASE call[o].company = c
    BY <1>2, <2>1, GoneStays DEF SaveMapping
  <2>2. CASE call[o].company # c
    <3>1. o \in New /\ o \notin Companies
      BY <1>2, CompanyRecordsAssumption DEF SaveMapping, Placed, InPlace, New
    <3>2. mappings[o] # c
      BY <2>2, <3>1, CompanyRecordsAssumption DEF RowsStay
    <3>3. mappings' = [mappings EXCEPT ![o] = call[o].company]
      BY <1>2 DEF SaveMapping
    <3> QED  BY <2>2, <3>1, <3>2, <3>3 DEF RowsOf
  <2> QED  BY <2>1, <2>2
<1>3. ASSUME NEW o \in Ops, DeleteMappings(o)
      PROVE  RowsOf(c)' = RowsOf(c) \/ details'[c] = None \/ Gone(c)'
  <2>1. Kind(o) = "deleteCompany" /\ pc[o] # "idle"
    BY <1>3 DEF DeleteMappings, Placed, InPlace, KindsAt, RowKinds
  <2>2. CASE call[o].company = c
    <3>1. pc'[o] = "deleteDevices" /\ call'[o] = call[o]
      BY <1>3 DEF DeleteMappings, Delete, Goto
    <3> QED  BY <2>1, <2>2, <3>1 DEF Gone, Deleting, Kind
  <2>3. CASE call[o].company # c
    BY <1>3, <2>3, CompanyRecordsAssumption DEF DeleteMappings, RowsOf
  <2> QED  BY <2>2, <2>3
<1> QED  BY <1>1, <1>2, <1>3, TablesMove

LEMMA CategoryNext == CategoryInv /\ [Next]_vars => CategoryInv'
<1> SUFFICES ASSUME CategoryInv, [Next]_vars PROVE CategoryInv'
  OBVIOUS
<1>1. EntitledInv'
  BY EntitledNext DEF CategoryInv
<1>2. ASSUME NEW c \in Companies PROVE details'[c] = None \/ Cardinality(RowsOf(c))' = 1 \/ Gone(c)'
  <2>1. details[c] = None \/ Cardinality(RowsOf(c)) = 1 \/ Gone(c)
    BY DEF CategoryInv, OneCategory, Gone
  <2> QED  BY <2>1, RowsOfMove, GoneStays DEF CategoryInv, EntitledInv
<1>3. ASSUME NEW o \in Ops, pc'[o] = "saveMapping", seen'[o].mapping = None
      PROVE  details'[call'[o].company] = None \/ Gone(call[o].company)'
  <2>1. pc[o] \in {"saveMapping", "findMapping"}
        /\ (pc[o] = "saveMapping" => seen'[o] = seen[o])
        /\ (pc[o] = "findMapping" => FindMapping(o))
    <3>1. CameFrom(o)  BY AllCameFrom DEF CategoryInv, EntitledInv
    <3> QED
      BY <1>3, <3>1 DEF CameFrom, Firsts, RowKinds, FindMapping
  <2>2. call'[o] = call[o] /\ call[o].company \in Companies
    BY <2>1, Onward, CallsFit
    DEF CategoryInv, EntitledInv, Typed, Placed, InPlace, KindsAt, Fits, Kind, CompanyKinds, RowKinds
  <2>3. details[call[o].company] = None \/ Gone(call[o].company)
    <3>1. CASE pc[o] = "saveMapping"
      BY <1>3, <2>1, <3>1 DEF CategoryInv
    <3>2. CASE FindMapping(o)
      <4>1. ASSUME NEW x \in RowsOf(call[o].company), Keep(o, "mapping", x, "saveMapping")
            PROVE  FALSE
        <5>1. x # None
          BY CompanyRecordsAssumption DEF RowsOf, CategoryInv, EntitledInv, Typed, TypeOK, New
        <5>2. seen[o] \in Seen  BY DEF CategoryInv, EntitledInv, Typed, TypeOK
        <5>3. seen'[o].mapping = x
          BY <4>1, <5>2 DEF Keep, Seen, CategoryInv, EntitledInv, Typed, TypeOK
        <5> QED  BY <1>3, <5>1, <5>3
      <4>2. ~Throw(o)
        BY <1>3 DEF Throw, Ends, Goto, CategoryInv, EntitledInv, Typed, TypeOK
      <4>3. RowsOf(call[o].company) = {}
        BY <3>2, <4>1, <4>2 DEF FindMapping
      <4>4. Cardinality(RowsOf(call[o].company)) = 0
        BY <4>3, FS_EmptySet
      <4> QED  BY <2>2, <4>4 DEF CategoryInv, OneCategory, Gone
    <3> QED  BY <2>1, <3>1, <3>2
  <2> QED  BY <2>2, <2>3, GoneStays DEF CategoryInv, EntitledInv
<1>4. OneCategory'
  BY <1>2 DEF OneCategory, Gone
<1> QED  BY <1>1, <1>3, <1>4 DEF CategoryInv

\* updateCompany, for any overlap of updates and deletions: a company has exactly one
\* category row until a deletion of it has come past the categories.
THEOREM CategoryIsOne == Spec => []OneCategory
<1>1. Init => CategoryInv  BY CategoryInit
<1>2. CategoryInv /\ [Next]_vars => CategoryInv'  BY CategoryNext
<1>3. CategoryInv => OneCategory  BY DEF CategoryInv
<1> QED  BY <1>1, <1>2, <1>3, PTL DEF Spec

-----------------------------------------------------------------------------
(* What a deleted company leaves behind.                                   *)

GroupsLate(c) == \A g \in Groups : groups[g] # None /\ groups[g].company = c =>
                    g \in New /\ history[g].overtaken
RowsLate(c) == \A x \in RowsOf(c) : x \in New /\ history[x].overtaken
DevicesLate(c) == \A x \in New : devices[x] = c => history[x].overtaken

\* A deletion of c that is under way has come past a table.
Past3 == {"deleteGrants", "deleteRow"}
Past2 == Past3 \cup {"deleteDevices"}
Past1 == Past2 \cup {"deleteMappings"}
Swept(c, places) ==
    details[c] = None \/ \E d \in Ops : pc[d] \in places /\ call[d].company = c

\* Who may still save a row has found the company, and was there when it went.
Creators == {"createDevice", "createGroup", "updateCompany"}
LateInv ==
    /\ EntitledInv
    /\ \A c \in Companies :
         /\ Swept(c, Past1) => GroupsLate(c)
         /\ Swept(c, Past2) => RowsLate(c)
         /\ Swept(c, Past3) => DevicesLate(c)
    /\ \A o \in Ops : pc[o] \in Checked /\ Kind(o) \in Creators
                      /\ details[call[o].company] = None => history[o].overtaken

LEMMA LateInit == Init => LateInv
<1> SUFFICES ASSUME Init PROVE LateInv
  OBVIOUS
<1>1. \A o \in Ops : pc[o] \in {"done", "idle"}
  BY DEF Init
<1>2. \A c \in Companies : details[c] # None
  BY CompanyRecordsAssumption DEF Init
<1>3. \A c \in Companies : ~Swept(c, Past1) /\ ~Swept(c, Past2) /\ ~Swept(c, Past3)
  BY <1>1, <1>2 DEF Swept, Past1, Past2, Past3
<1> QED  BY <1>1, <1>3, EntitledInit DEF LateInv, Checked, Worked, Writes

\* A deletion takes the row only after it has come past all the tables.
LEMMA SweptBefore ==
    ASSUME EntitledInv, [Next]_vars, NEW c \in Companies,
           NEW places \in {Past1, Past2, Past3}, Swept(c, places)'
    PROVE  \/ Swept(c, places)
           \/ \E d \in Ops : /\ call[d].company = c
                             /\ \/ DeleteGroups(d) /\ places = Past1
                                \/ DeleteMappings(d) /\ places = Past2
                                \/ DeleteDevices(d) /\ places = Past3
<1> USE DEF EntitledInv
<1>1. CASE details'[c] = None
  <2>1. CASE details[c] = None
    BY <2>1 DEF Swept
  <2>2. CASE \E d \in Ops : pc[d] = "deleteRow" /\ call[d].company = c
    BY <2>2 DEF Swept, Past1, Past2, Past3
  <2> QED  BY <1>1, <2>1, <2>2, DetailsMove
<1>2. ASSUME NEW d \in Ops, pc'[d] \in places, call'[d].company = c
      PROVE  \/ Swept(c, places)
             \/ /\ call[d].company = c
                /\ \/ DeleteGroups(d) /\ places = Past1
                   \/ DeleteMappings(d) /\ places = Past2
                   \/ DeleteDevices(d) /\ places = Past3
  <2>1. pc[d] # "idle" => call'[d] = call[d]
    BY Onward
  <2>2. CameFrom(d)
    BY AllCameFrom
  <2> QED
    BY <1>2, <2>1, <2>2 DEF CameFrom, Swept, Past1, Past2, Past3, Firsts, RowKinds, DeleteGroups,
      DeleteMappings, DeleteDevices, DeleteGrants
<1> QED  BY <1>1, <1>2 DEF Swept

\* What is written while a deletion is under way is known to the company's requests.
LEMMA Overtakes ==
    ASSUME EntitledInv, [Next]_vars, ~UNCHANGED tables, NEW o \in Ops, pc[o] \in Checked,
           Kind(o) \in Creators, NEW d \in Ops, pc[d] \in Past1 \cup {"deleteGroups"},
           call[d].company = call[o].company
    PROVE  history'[o].overtaken
<1>1. Witness
  BY QuietOrWitnessed DEF EntitledInv
<1>2. Running(o) /\ pc[o] # "idle"
  BY DEF Running, Checked, Worked, Steps, Writes
<1>3. Names(o, "company")
  BY <1>2, CallsFit DEF EntitledInv, Typed, Placed, InPlace, Names, Fits, Creators, CompanyKinds, Kind
<1>4. Kind(d) = "deleteCompany"
  BY DEF EntitledInv, Typed, Placed, InPlace, KindsAt, Past1, Past2, Past3, RowKinds
<1>5. Deletes(d, call[o].company)
  BY <1>4 DEF Deletes, Past1, Past2, Past3, Writes
<1> QED
  BY <1>1, <1>2, <1>3, <1>5 DEF Witness, History

LEMMA CreatorsLate ==
    ASSUME LateInv, [Next]_vars, NEW o \in Ops, pc'[o] \in Checked, Kind(o)' \in Creators,
           details'[call'[o].company] = None
    PROVE  history'[o].overtaken
<1> USE DEF LateInv
<1>1. CameFrom(o)
  BY AllCameFrom DEF EntitledInv
<1>2. pc[o] # "idle" /\ (pc[o] \in Checked \/ Load(o) \/ FindOwner(o) \/ Cached(o))
  BY <1>1 DEF CameFrom, Checked, Worked, Writes, Load, FindOwner, Cached, FindGrant,
    FindGroup, FindName, FindMapping, SaveMapping, DeleteGroups, DeleteMappings, DeleteDevices,
    DeleteGrants, ReadRow
<1>3. call'[o] = call[o] /\ Kind(o) \in Creators
  BY <1>2, Onward DEF EntitledInv, Kind
<1>4. call[o].company \in Companies /\ Kind(o) \in KindsAt(pc[o])
  BY <1>2, <1>3, CallsFit
  DEF EntitledInv, Typed, Placed, InPlace, Fits, Creators, CompanyKinds, Kind
<1>5. CASE pc[o] \in Checked
  <2>1. CASE details[call[o].company] = None
    BY <1>2, <1>3, <1>5, <2>1, HistoryGrows DEF EntitledInv
  <2>2. CASE details[call[o].company] # None
    <3>1. ~UNCHANGED tables
      BY <1>3, <2>2 DEF tables
    <3>2. PICK d \in Ops : pc[d] = "deleteRow" /\ call[d].company = call[o].company
      BY <1>3, <1>4, <2>2, DetailsMove DEF EntitledInv
    <3> QED  BY <1>3, <1>5, <3>1, <3>2, Overtakes DEF Past1, Past2, Past3
  <2> QED  BY <2>1, <2>2
<1>6. CASE Load(o)
  <2>1. ~Throw(o)
    BY <1>6, <1>2 DEF Throw, Ends, Goto, Checked, Worked, Writes, EntitledInv, Typed, TypeOK
  <2>2. details[call[o].company] # None /\ details' = details
    BY <1>3, <1>6, <2>1 DEF Load, Creators, Read, tables
  <2> QED  BY <1>3, <2>2
<1>7. CASE FindOwner(o) \/ Cached(o)
  BY <1>3, <1>4, <1>7 DEF FindOwner, Cached, KindsAt, RowKinds, Creators
<1> QED  BY <1>2, <1>5, <1>6, <1>7

LEMMA PastsDiffer == Past1 # Past2 /\ Past1 # Past3 /\ Past2 # Past3
BY DEF Past1, Past2, Past3

\* A row that was late stays late.
LEMMA LateStays ==
    ASSUME EntitledInv, [Next]_vars, NEW x \in New, history[x].overtaken,
           \/ groups[x] # None
           \/ mappings[x] # None
           \/ devices[x] # None
    PROVE  history'[x].overtaken
<1>1. x \in Ops /\ x \in Groups /\ pc[x] # "idle"
  BY DEF EntitledInv, RowsStay, New, Groups
<1> QED  BY <1>1, HistoryGrows DEF EntitledInv

\* An update of a role leaves it where it is, and gives it at most the new name.
LEMMA UpdateKeeps ==
    ASSUME Typed, NEW o \in Ops, UpdateGroup(o), NEW g \in Groups, groups'[g] # None
    PROVE  /\ groups[g] # None /\ groups'[g].company = groups[g].company
           /\ \/ groups'[g].name = groups[g].name
              \/ g = call[o].row /\ groups'[g].name = call[o].patch /\ pc'[o] = "done"
<1> USE DEF Typed, TypeOK
<1>1. CASE groups[call[o].row] = None
  BY <1>1 DEF UpdateGroup, Throw, tables
<1>2. CASE groups[call[o].row] # None
  <2>1. groups[call[o].row] # None /\ Ends(o, "done")
    BY <1>2 DEF UpdateGroup
  <2>2. pc'[o] = "done"
    BY <2>1 DEF Ends, Goto
  <2>3. groups[g] # None /\ groups[g] \in Group
    BY <1>2 DEF UpdateGroup
  <2>4. CASE groups' = [groups EXCEPT ![call[o].row].name = call[o].patch]
    BY <2>2, <2>3, <2>4 DEF Group
  <2>5. CASE groups' = [groups EXCEPT ![call[o].row].may = call[o].patch]
    BY <2>3, <2>5 DEF Group
  <2> QED  BY <1>2, <2>4, <2>5 DEF UpdateGroup
<1> QED  BY <1>1, <1>2

LEMMA LateGroups ==
    ASSUME LateInv, [Next]_vars, NEW c \in Companies, Swept(c, Past1)'
    PROVE  GroupsLate(c)'
<1>1. Swept(c, Past1) \/ \E d \in Ops : DeleteGroups(d) /\ call[d].company = c
  BY SweptBefore, PastsDiffer DEF LateInv
<1> USE DEF LateInv, EntitledInv, Typed, TypeOK
<1>2. ASSUME NEW d \in Ops, DeleteGroups(d), call[d].company = c PROVE GroupsLate(c)'
  BY <1>2 DEF DeleteGroups, GroupsLate
<1>3. CASE Swept(c, Past1)
  <2> SUFFICES ASSUME NEW g \in Groups, groups'[g] # None, groups'[g].company = c
               PROVE  g \in New /\ history'[g].overtaken
    BY DEF GroupsLate
  <2>1. CASE groups[g] # None /\ groups[g].company = c
    BY <1>3, <2>1, LateStays DEF GroupsLate
  <2>2. CASE ~(groups[g] # None /\ groups[g].company = c)
    <3>1. groups' # groups
      BY <2>2
    <3>2. PICK o \in Ops :
            SaveGroup(o) \/ UpdateGroup(o) \/ DeleteGroup(o) \/ DeleteGroups(o)
      BY <3>1, TablesMove
    <3>3. RowsMove(o)
      BY <3>2, RowsMoveOnly DEF Records, Company
    <3>4. g = o /\ call[o].company = c /\ SaveGroup(o)
      <4>1. g = o /\ call[o].company = c
        BY <2>2, <3>3 DEF RowsMove
      <4>2. ~DeleteGroup(o) /\ ~DeleteGroups(o)
        BY <2>2 DEF DeleteGroup, DeleteGroups
      <4>3. ~UpdateGroup(o)
        BY <2>2, UpdateKeeps DEF EntitledInv, Typed
      <4> QED  BY <3>2, <4>1, <4>2, <4>3
    <3>5. pc[o] \in Checked /\ Kind(o) \in Creators /\ o \in New
      BY <3>4 DEF SaveGroup, Checked, Worked, Writes, Placed, InPlace, KindsAt, RowKinds,
        Creators, New
    <3>6. CASE details[c] = None
      BY <3>4, <3>5, <3>6, HistoryGrows DEF SaveGroup
    <3>7. CASE \E d \in Ops : pc[d] \in Past1 /\ call[d].company = c
      BY <3>1, <3>4, <3>5, <3>7, Overtakes DEF tables
    <3> QED  BY <1>3, <3>4, <3>5, <3>6, <3>7 DEF Swept
  <2> QED  BY <2>1, <2>2
<1> QED  BY <1>2, <1>3, <1>1

LEMMA LateRows ==
    ASSUME LateInv, [Next]_vars, NEW c \in Companies, Swept(c, Past2)'
    PROVE  RowsLate(c)'
<1>1. Swept(c, Past2) \/ \E d \in Ops : DeleteMappings(d) /\ call[d].company = c
  BY SweptBefore, PastsDiffer DEF LateInv
<1> USE DEF LateInv, EntitledInv, Typed, TypeOK
<1>2. ASSUME NEW d \in Ops, DeleteMappings(d), call[d].company = c PROVE RowsLate(c)'
  BY <1>2, CompanyRecordsAssumption DEF DeleteMappings, RowsLate, RowsOf
<1>3. CASE Swept(c, Past2)
  <2> SUFFICES ASSUME NEW x \in Companies \cup New, mappings'[x] = c
               PROVE  x \in New /\ history'[x].overtaken
    <3>1. Typed'  BY TypedNext
    <3> QED  BY <3>1 DEF RowsLate, RowsOf
  <2>1. CASE mappings[x] = c
    BY <1>3, <2>1, LateStays, CompanyRecordsAssumption DEF RowsLate, RowsOf
  <2>2. CASE mappings[x] # c
    <3>1. mappings' # mappings
      BY <2>2
    <3>2. PICK o \in Ops : (SaveMapping(o) /\ seen[o].mapping = None) \/ DeleteMappings(o)
      BY <3>1, TablesMove
    <3>3. x = o /\ call[o].company = c /\ SaveMapping(o)
      BY <2>2, <3>2, CompanyRecordsAssumption DEF SaveMapping, DeleteMappings
    <3>4. pc[o] \in Checked /\ Kind(o) \in Creators /\ o \in New
      BY <3>3 DEF SaveMapping, Checked, Worked, Writes, Placed, InPlace, KindsAt, RowKinds,
        Creators, New
    <3>5. CASE details[c] = None
      BY <3>3, <3>4, <3>5, HistoryGrows DEF SaveMapping
    <3>6. CASE \E d \in Ops : pc[d] \in Past2 /\ call[d].company = c
      BY <3>1, <3>3, <3>4, <3>6, Overtakes DEF tables, Past1
    <3> QED  BY <1>3, <3>3, <3>4, <3>5, <3>6 DEF Swept
  <2> QED  BY <2>1, <2>2
<1> QED  BY <1>2, <1>3, <1>1

LEMMA LateDevices ==
    ASSUME LateInv, [Next]_vars, NEW c \in Companies, Swept(c, Past3)'
    PROVE  DevicesLate(c)'
<1>1. Swept(c, Past3) \/ \E d \in Ops : DeleteDevices(d) /\ call[d].company = c
  BY SweptBefore, PastsDiffer DEF LateInv
<1> USE DEF LateInv, EntitledInv, Typed, TypeOK
<1>2. ASSUME NEW d \in Ops, DeleteDevices(d), call[d].company = c PROVE DevicesLate(c)'
  BY <1>2, CompanyRecordsAssumption DEF DeleteDevices, DevicesLate
<1>3. CASE Swept(c, Past3)
  <2> SUFFICES ASSUME NEW x \in New, devices'[x] = c
               PROVE  history'[x].overtaken
    BY DEF DevicesLate
  <2>1. CASE devices[x] = c
    BY <1>3, <2>1, LateStays, CompanyRecordsAssumption DEF DevicesLate
  <2>2. CASE devices[x] # c
    <3>1. devices' # devices
      BY <2>2
    <3>2. PICK o \in Ops : SaveDevice(o) \/ DeleteDevice(o) \/ DeleteDevices(o)
      BY <3>1, TablesMove
    <3>3. x = o /\ call[o].company = c /\ SaveDevice(o)
      BY <2>2, <3>2, CompanyRecordsAssumption DEF SaveDevice, DeleteDevice, DeleteDevices
    <3>4. pc[o] \in Checked /\ Kind(o) \in Creators /\ o \in New
      BY <3>3 DEF SaveDevice, Checked, Worked, Writes, Placed, InPlace, KindsAt, RowKinds,
        Creators, New
    <3>5. CASE details[c] = None
      BY <3>3, <3>4, <3>5, HistoryGrows DEF SaveDevice
    <3>6. CASE \E d \in Ops : pc[d] \in Past3 /\ call[d].company = c
      BY <3>1, <3>3, <3>4, <3>6, Overtakes DEF tables, Past1, Past2
    <3> QED  BY <1>3, <3>3, <3>4, <3>5, <3>6 DEF Swept
  <2> QED  BY <2>1, <2>2
<1> QED  BY <1>2, <1>3, <1>1

\* deleteCompany, for any overlap with requests of the same company: what is there
\* after the row of the company is gone was saved by requests that were on their way
\* while the deletion was.
THEOREM LatecomersOnly == Spec => []OnlyLatecomersRemain
<1>1. Init => LateInv  BY LateInit
<1>2. LateInv /\ [Next]_vars => LateInv'
  <2> SUFFICES ASSUME LateInv, [Next]_vars PROVE LateInv'
    OBVIOUS
  <2>1. EntitledInv'  BY EntitledNext DEF LateInv
  <2> QED  BY <2>1, LateGroups, LateRows, LateDevices, CreatorsLate DEF LateInv
<1>3. LateInv => OnlyLatecomersRemain
  BY DEF LateInv, OnlyLatecomersRemain, Swept, GroupsLate, RowsLate, DevicesLate
<1> QED  BY <1>1, <1>2, <1>3, PTL DEF Spec

-----------------------------------------------------------------------------
(* Roles of one name.                                                      *)

\* Another role of its company has the name that o is about to give.
Taken(o) == \E g \in Groups \ {o} : IsCalled(groups[g], call[o].company, call[o].name)

\* That is so only if the role got the name after o had looked it up.
TwinsInv ==
    /\ EntitledInv
    /\ TwinsCrossed
    /\ \A o \in Ops : pc[o] = "saveGroup" /\ Taken(o) => history[o].crossed

LEMMA TwinsInit == Init => TwinsInv
<1> SUFFICES ASSUME Init PROVE TwinsInv
  OBVIOUS
<1>1. \A o \in Ops : pc[o] \in {"done", "idle"}
  BY DEF Init
<1>2. ASSUME NEW g \in Groups, NEW h \in Groups, g # h, groups[g] # None,
             IsCalled(groups[h], groups[g].company, groups[g].name)
      PROVE  FALSE
  <2>1. g \in Defaults /\ h \in Defaults
    BY <1>2 DEF Init, IsCalled
  <2>2. groups[g].company = g[1] /\ groups[g].name = g[2]
        /\ groups[h].company = h[1] /\ groups[h].name = h[2]
    BY <2>1 DEF Init, Groups
  <2>3. g = <<g[1], g[2]>> /\ h = <<h[1], h[2]>>
    BY <2>1 DEF Defaults
  <2> QED  BY <1>2, <2>2, <2>3 DEF IsCalled
<1> QED  BY <1>1, <1>2, EntitledInit DEF TwinsInv, TwinsCrossed

LEMMA TakenCrossed ==
    ASSUME TwinsInv, [Next]_vars, NEW o \in Ops, pc'[o] = "saveGroup", Taken(o)'
    PROVE  history'[o].crossed
<1> USE DEF TwinsInv
<1>1. CameFrom(o)
  BY AllCameFrom DEF EntitledInv
<1>2. pc[o] = "saveGroup" \/ (FindName(o) /\ pc[o] = "findName")
  BY <1>1 DEF CameFrom, Firsts, RowKinds, FindName
<1>3. call'[o] = call[o] /\ pc[o] # "idle" /\ Running(o)
  BY <1>2, Onward DEF EntitledInv, Running, Steps, Writes
<1>4. Kind(o) = "createGroup"
  BY <1>2 DEF EntitledInv, Typed, Placed, InPlace, KindsAt, RowKinds
<1>5. PICK g \in Groups \ {o} : IsCalled(groups'[g], call[o].company, call[o].name)
  BY <1>3 DEF Taken
<1>6. CASE FindName(o)
  <2>1. Read(o, "saveGroup") /\ ~\E h \in Groups : IsCalled(groups[h], call[o].company, call[o].name)
    BY <1>2, <1>6, OverStays DEF FindName, Throw, Ends, Goto, EntitledInv, Typed, TypeOK
  <2> QED  BY <1>5, <2>1 DEF Read, tables
<1>7. CASE pc[o] = "saveGroup"
  <2>1. CASE IsCalled(groups[g], call[o].company, call[o].name)
    BY <1>3, <1>5, <1>7, <2>1, HistoryGrows DEF Taken, EntitledInv
  <2>2. CASE ~IsCalled(groups[g], call[o].company, call[o].name)
    <3>1. Witness
      BY <1>5, <2>2, QuietOrWitnessed DEF EntitledInv, tables
    <3> QED  BY <1>3, <1>4, <1>5, <2>2, <3>1 DEF Witness
  <2> QED  BY <2>1, <2>2
<1> QED  BY <1>2, <1>6, <1>7

\* What explains that a role has a name stays.
Explained(x, name) == Renamed(x, name) \/ (x \in New /\ history[x].crossed)

LEMMA ExplainedStays ==
    ASSUME EntitledInv, [Next]_vars, NEW x \in Groups, NEW name, Explained(x, name),
           groups[x] # None
    PROVE  Explained(x, name)'
<1>1. CASE Renamed(x, name)
  <2>1. PICK o \in Ops : pc[o] = "done" /\ Kind(o) = "updateGroup" /\ call[o].row = x
                         /\ call[o].patch = name
    BY <1>1 DEF Renamed
  <2>2. pc'[o] = "done" /\ call'[o] = call[o]
    BY <2>1, OverStays DEF EntitledInv
  <2> QED  BY <2>1, <2>2 DEF Explained, Renamed, Kind
<1>2. CASE x \in New /\ history[x].crossed
  <2>1. x \in Ops /\ pc[x] # "idle"
    BY <1>2 DEF New, EntitledInv, RowsStay
  <2> QED  BY <1>2, <2>1, HistoryGrows DEF Explained, EntitledInv
<1> QED  BY <1>1, <1>2 DEF Explained

\* How a role gets its name: it had it, it was saved with it, or an update gave it.
LEMMA NamesMove ==
    ASSUME EntitledInv, [Next]_vars, NEW x \in Groups, groups'[x] # None
    PROVE  \/ /\ groups[x] # None
              /\ groups'[x].company = groups[x].company /\ groups'[x].name = groups[x].name
           \/ SaveGroup(x) /\ x \in New
           \/ Renamed(x, groups[x].name)'
<1>1. CASE groups' = groups  BY <1>1
<1>2. ASSUME NEW o \in Ops, SaveGroup(o), x # o PROVE groups'[x] = groups[x]
  BY <1>2 DEF SaveGroup, EntitledInv, Typed, TypeOK
<1>3. ASSUME NEW o \in Ops, SaveGroup(o) PROVE o \in New
  BY <1>3 DEF SaveGroup, EntitledInv, Typed, Placed, InPlace, New
<1>4. ASSUME NEW o \in Ops, UpdateGroup(o)
      PROVE  \/ /\ groups[x] # None
                /\ groups'[x].company = groups[x].company /\ groups'[x].name = groups[x].name
             \/ Renamed(x, groups[x].name)'
  <2>1. /\ groups[x] # None /\ groups'[x].company = groups[x].company
        /\ \/ groups'[x].name = groups[x].name
           \/ x = call[o].row /\ groups'[x].name = call[o].patch /\ pc'[o] = "done"
    BY <1>4, UpdateKeeps DEF EntitledInv
  <2>2. pc[o] = "updateGroup" /\ Kind(o) = "updateGroup" /\ call'[o] = call[o]
    BY <1>4, Onward DEF UpdateGroup, EntitledInv, Typed, Placed, InPlace, KindsAt, RowKinds
  <2> QED  BY <2>1, <2>2 DEF Renamed, Kind
<1>5. ASSUME NEW o \in Ops, DeleteGroup(o) \/ DeleteGroups(o) PROVE groups'[x] = groups[x]
  BY <1>5 DEF DeleteGroup, DeleteGroups, EntitledInv, Typed, TypeOK
<1> QED  BY <1>1, <1>2, <1>3, <1>4, <1>5, TablesMove

\* A role that is saved beside another of its name was crossed by that one.
LEMMA SavedBeside ==
    ASSUME TwinsInv, [Next]_vars, NEW g \in New, SaveGroup(g), NEW h \in Groups \ {g},
           groups'[h] # None, groups'[g] # None,
           groups'[h].company = groups'[g].company, groups'[h].name = groups'[g].name
    PROVE  history'[g].crossed
<1>1. g \in Ops /\ g \in Groups /\ pc[g] = "saveGroup"
  BY DEF SaveGroup, New, Groups
<1>2. groups'[h] = groups[h] /\ groups'[g].company = call[g].company
      /\ groups'[g].name = call[g].name
  BY <1>1 DEF SaveGroup, TwinsInv, EntitledInv, Typed, TypeOK
<1>3. Taken(g)
  BY <1>2 DEF Taken, IsCalled
<1> QED  BY <1>1, <1>3, HistoryGrows DEF TwinsInv, EntitledInv

LEMMA TwinsNext ==
    ASSUME TwinsInv, [Next]_vars, NEW g \in Groups, NEW h \in Groups, g # h, groups'[g] # None,
           IsCalled(groups'[h], groups'[g].company, groups'[g].name)
    PROVE  \E x \in {g, h} : Explained(x, groups[g].name)'
<1>1. groups'[h] # None /\ groups'[h].company = groups'[g].company
      /\ groups'[h].name = groups'[g].name
  BY DEF IsCalled
<1>2. CASE SaveGroup(g) /\ g \in New
  BY <1>1, <1>2, SavedBeside DEF Explained
<1>3. CASE SaveGroup(h) /\ h \in New
  BY <1>1, <1>3, SavedBeside DEF Explained
<1>4. CASE Renamed(g, groups[g].name)' \/ Renamed(h, groups[h].name)'
  BY <1>1, <1>4 DEF Explained
<1>5. CASE /\ groups[g] # None /\ groups[h] # None
           /\ groups'[g].company = groups[g].company /\ groups'[g].name = groups[g].name
           /\ groups'[h].company = groups[h].company /\ groups'[h].name = groups[h].name
  <2>1. IsCalled(groups[h], groups[g].company, groups[g].name)
    BY <1>1, <1>5 DEF IsCalled
  <2>2. PICK name : name = groups[g].name /\ name = groups'[g].name
    BY <1>5
  <2>3. PICK x \in {g, h} : Explained(x, name)
    BY <1>5, <2>1, <2>2 DEF TwinsInv, TwinsCrossed, Explained
  <2>4. Explained(x, name)'
    BY <1>5, <2>3, ExplainedStays DEF TwinsInv
  <2> QED  BY <2>2, <2>4 DEF Explained, Renamed
<1> QED  BY <1>1, <1>2, <1>3, <1>4, <1>5, NamesMove DEF TwinsInv

\* createAccessGroup and updateAccessGroup, for any overlap of requests: a company has
\* two roles of one name only if an update gave one of them the name, or if one was
\* saved while the other was between its look-up and its insertion.
THEOREM TwinsOnlyCrossed == Spec => []TwinsCrossed
<1>1. Init => TwinsInv  BY TwinsInit
<1>2. TwinsInv /\ [Next]_vars => TwinsInv'
  <2> SUFFICES ASSUME TwinsInv, [Next]_vars PROVE TwinsInv'
    OBVIOUS
  <2>1. EntitledInv'  BY EntitledNext DEF TwinsInv
  <2>2. TwinsCrossed'
    BY TwinsNext DEF TwinsCrossed, Explained
  <2> QED  BY <2>1, <2>2, TakenCrossed DEF TwinsInv
<1>3. TwinsInv => TwinsCrossed  BY DEF TwinsInv
<1> QED  BY <1>1, <1>2, <1>3, PTL DEF Spec

-----------------------------------------------------------------------------
(* Answers out of the cache.                                               *)

\* Version v of c was not replaced before request p arrived.
StillTrue(p, c, v) == v = None \/ replaced[c][v] = None \/ replaced[c][v] >= history[p].at

\* The response was made by a request for c that was entitled to it.
Vouched(response, c) ==
    LET p == response.by IN
    /\ c \in Companies
    /\ pc[p] = "done" /\ Entitled(p) /\ call[p].company = c
    /\ response.full <=> seen[p].claims = c
    /\ StillTrue(p, c, response.version)

AnswersInv ==
    /\ EntitledInv
    /\ \A o \in Ops : history[o].at <= now
    /\ \A o \in Ops : pc[o] = "idle" => answer[o] = None
    /\ \A o \in Ops : answer[o] # None =>
         /\ Vouched(answer[o], call[o].company)
         /\ answer[o].by = o \/ answer[o].stored + Ttl > history[o].at
    /\ \A c \in Companies : cache[c] # None => Vouched(cache[c], c) /\ cache[c].stored + Ttl > now
    /\ \A o \in Ops : pc[o] = "project" => StillTrue(o, call[o].company, seen[o].version)
    \* A version that was replaced is older than the one that the row has.
    /\ \A c \in Companies, v \in Versions : replaced[c][v] # None =>
         details[c] = None \/ (v \subseteq details[c] /\ v # details[c])

LEMMA AnswersInit == Init => AnswersInv
<1> SUFFICES ASSUME Init PROVE AnswersInv
  OBVIOUS
<1>1. TypeOK  BY TypedInit DEF Typed
<1>2. now = 0 /\ Ttl > 0 /\ now + Ttl > 0
  BY CompanyRecordsAssumption DEF Init
<1>3. ASSUME NEW o \in Past
      PROVE  Vouched(Made(o), AskedFor[o])
  <2>1. o \in Ops /\ o \notin New /\ AskedFor[o] \in Companies
    BY CompanyRecordsAssumption DEF New
  <2>2. pc[o] = "done" /\ call[o] = [kind |-> "read", caller |-> [participant |-> AskedFor[o]],
                                     company |-> AskedFor[o]]
    BY <1>3, <2>1 DEF Init
  <2>3. Entitled(o)
    BY <2>2 DEF Entitled, IsUser, Caller
  <2>4. seen[o].claims = AskedFor[o]
    BY <2>1 DEF Init, Nothing
  <2>5. StillTrue(o, AskedFor[o], {})
    BY <2>1 DEF StillTrue, Init, Versions
  <2> QED  BY <2>1, <2>2, <2>3, <2>4, <2>5 DEF Vouched, Made
<1>4. ASSUME NEW o \in Ops, answer[o] # None
      PROVE  Vouched(answer[o], call[o].company) /\ answer[o].by = o
  <2>1. o \in Past /\ answer[o] = Made(o) /\ call[o].company = AskedFor[o]
    BY <1>4 DEF Init, New
  <2> QED  BY <1>3, <2>1 DEF Made
<1>5. ASSUME NEW c \in Companies, cache[c] # None
      PROVE  Vouched(cache[c], c) /\ cache[c].stored + Ttl > now
  <2>1. PICK o \in Past : AskedFor[o] = c /\ cache[c] = Made(o)
    BY <1>5 DEF Init
  <2> QED  BY <1>2, <1>3, <2>1 DEF Made
<1>6. \A o \in Ops : history[o].at <= now /\ pc[o] \in {"done", "idle"}
                     /\ (pc[o] = "idle" => answer[o] = None)
  BY <1>2 DEF Init, Unborn
<1>7. \A c \in Companies, v \in Versions : replaced[c][v] = None
  BY DEF Init
<1> QED  BY <1>4, <1>5, <1>6, <1>7, EntitledInit DEF AnswersInv

\* Time goes on, and what a step replaces is replaced now.
LEMMA ReplacedNow ==
    ASSUME Typed, [Next]_vars, NEW c \in Companies, NEW v \in Versions
    PROVE  \/ replaced'[c][v] = replaced[c][v]
           \/ replaced'[c][v] = now /\ details[c] = v /\ details'[c] # v
<1>1. CASE Witness  BY <1>1 DEF Witness
<1> QED  BY <1>1, QuietOrWitnessed

LEMMA TimeGoesOn == ASSUME Typed, [Next]_vars PROVE now' >= now /\ now \in Nat
<1>1. ASSUME NEW o \in Ops, Start(o) \/ StatementFails(o) \/ Checks(o) PROVE now' = now
  BY <1>1 DEF Start, StatementFails, Checks, Resolve, Load, LoadRow, FindOwner, FindGrant, FindGroup,
    Keep, Read, Throw, Ends
<1>2. ASSUME NEW o \in Ops, Records(o) PROVE now' = now
  BY <1>2 DEF Records, SaveDevice, FindName, SaveGroup, UpdateGroup, DeleteGroup, DeleteDevice,
    Keep, Read, Throw, Ends
<1>3. ASSUME NEW o \in Ops, Company(o) PROVE now' = now
  BY <1>3 DEF Company, FindMapping, SaveMapping, UpdateRow, DeleteGroups, DeleteMappings,
    DeleteDevices, DeleteGrants, DeleteRow, Delete, Keep, Read, Throw, Ends
<1>4. ASSUME NEW o \in Ops, Directory(o) PROVE now' = now
  BY <1>4 DEF Directory, Cached, ReadRow, Respond, Keep, Read, Throw, Ends
<1>5. now' = now \/ now' = now + 1
  BY <1>1, <1>2, <1>3, <1>4 DEF Next, Tick, Regrant, vars
<1> QED  BY <1>5, CompanyRecordsAssumption DEF Typed, TypeOK, Times

LEMMA StillTrueStays ==
    ASSUME AnswersInv, [Next]_vars, NEW p \in Ops, NEW c \in Companies,
           NEW v \in Versions \cup {None}, StillTrue(p, c, v), history'[p].at = history[p].at
    PROVE  StillTrue(p, c, v)'
<1>1. CASE v = None  BY <1>1 DEF StillTrue
<1>2. CASE v \in Versions
  <2>1. history[p].at <= now
    BY DEF AnswersInv
  <2> QED
    BY <1>2, <2>1, ReplacedNow DEF StillTrue, AnswersInv, EntitledInv
<1> QED  BY <1>1, <1>2

LEMMA VouchedStays ==
    ASSUME AnswersInv, [Next]_vars, NEW c \in Companies, NEW response \in Response,
           Vouched(response, c)
    PROVE  Vouched(response, c)'
<1> DEFINE p == response.by
<1>1. p \in Ops /\ response.version \in Versions \cup {None} /\ pc[p] = "done"
  BY DEF Response, Vouched
<1>2. pc'[p] = "done" /\ call'[p] = call[p] /\ seen'[p] = seen[p] /\ history'[p] = history[p]
  BY <1>1, OverStays DEF AnswersInv, EntitledInv
<1>3. StillTrue(p, c, response.version)'
  BY <1>1, <1>2, StillTrueStays DEF Vouched
<1>4. Entitled(p)'
  BY <1>2 DEF Vouched, Entitled, Caller
<1> QED  BY <1>2, <1>3, <1>4 DEF Vouched

\* The answers and the cache: what they hold they held, or they got it from the
\* cache, or it was made in this step.
LEMMA AnswersMove ==
    ASSUME Typed, [Next]_vars
    PROVE  /\ \A o \in Ops : answer'[o] = answer[o]
                             \/ (Cached(o) /\ answer'[o] = cache[call[o].company]
                                 /\ answer'[o] # None)
                             \/ Respond(o)
           /\ \A c \in Companies : cache'[c] = cache[c] \/ cache'[c] = None
                                   \/ \E o \in Ops : Respond(o) /\ call[o].company = c
           /\ \A c \in Companies : now' # now /\ cache'[c] # None => cache'[c].stored + Ttl > now'
<1> USE DEF Typed, TypeOK
<1>1. ASSUME NEW o \in Ops, Start(o) \/ StatementFails(o) \/ Checks(o)
      PROVE  UNCHANGED <<now, cache, answer>>
  BY <1>1 DEF Start, StatementFails, Checks, Resolve, Load, LoadRow, FindOwner, FindGrant, FindGroup,
    Keep, Read, Throw, Ends
<1>2. ASSUME NEW o \in Ops, Records(o) PROVE UNCHANGED <<now, cache, answer>>
  BY <1>2 DEF Records, SaveDevice, FindName, SaveGroup, UpdateGroup, DeleteGroup, DeleteDevice,
    Read, Throw, Ends
<1>3. ASSUME NEW o \in Ops, Company(o) PROVE UNCHANGED <<now, cache, answer>>
  BY <1>3 DEF Company, FindMapping, SaveMapping, UpdateRow, DeleteGroups, DeleteMappings,
    DeleteDevices, DeleteGrants, DeleteRow, Delete, Keep, Read, Throw, Ends
<1>4. ASSUME NEW o \in Ops, Cached(o)
      PROVE  /\ UNCHANGED <<now, cache>> /\ \A p \in Ops \ {o} : answer'[p] = answer[p]
             /\ \/ answer'[o] = answer[o]
                \/ answer'[o] = cache[call[o].company] /\ answer'[o] # None
  BY <1>4 DEF Cached, Read, Throw, Ends
<1>5. ASSUME NEW o \in Ops, ReadRow(o) PROVE UNCHANGED <<now, cache, answer>>
  BY <1>5 DEF ReadRow, Keep
<1>6. ASSUME NEW o \in Ops, Respond(o)
      PROVE  /\ now' = now
             /\ \A p \in Ops \ {o} : answer'[p] = answer[p]
             /\ \A c \in Companies \ {call[o].company} : cache'[c] = cache[c]
  BY <1>6 DEF Respond
<1>7. CASE Tick
  <2>1. answer' = answer  BY <1>7 DEF Tick
  <2>2. \A c \in Companies : /\ cache'[c] = cache[c] \/ cache'[c] = None
                             /\ cache'[c] # None => ~Expired(cache[c], now')
    BY <1>7 DEF Tick
  <2>3. \A c \in Companies : cache'[c] # None => cache'[c].stored + Ttl > now'
    <3> SUFFICES ASSUME NEW c \in Companies, cache'[c] # None
                 PROVE  cache'[c].stored + Ttl > now'
      OBVIOUS
    <3>1. cache'[c] = cache[c] /\ cache[c] \in Response /\ ~(cache[c].stored + Ttl <= now')
      BY <2>2 DEF Expired
    <3>2. cache[c].stored \in Nat /\ now' \in Nat /\ Ttl \in Nat
      BY <1>7, <3>1, CompanyRecordsAssumption DEF Response, Times, Tick
    <3> QED  BY <3>1, <3>2
  <2> QED  BY <2>1, <2>2, <2>3
<1>8. ASSUME NEW u \in Users, Regrant(u) PROVE UNCHANGED <<now, cache, answer>>
  BY <1>8 DEF Regrant
<1>9. CASE UNCHANGED vars  BY <1>9 DEF vars
<1> QED
  <2>1. ASSUME NEW o \in Ops, Directory(o) PROVE Cached(o) \/ ReadRow(o) \/ Respond(o)
    BY <2>1 DEF Directory
  <2> QED
    BY <1>1, <1>2, <1>3, <1>4, <1>5, <1>6, <1>7, <1>8, <1>9, <2>1 DEF Next

LEMMA ArrivedBefore ==
    ASSUME AnswersInv, [Next]_vars, NEW o \in Ops
    PROVE  history'[o].at <= now'
<1>1. now' >= now /\ now \in Nat /\ history[o].at <= now /\ history[o].at \in Nat
  <2>1. history[o].at \in Times
    BY DEF AnswersInv, EntitledInv, Typed, TypeOK, History
  <2> QED
    BY <2>1, TimeGoesOn, CompanyRecordsAssumption DEF AnswersInv, EntitledInv, Times
<1>2. now' \in Nat
  BY TypedNext, CompanyRecordsAssumption DEF AnswersInv, EntitledInv, Typed, TypeOK, Times
<1>3. CASE Start(o)
  <2>1. history'[o].at \in {now, 0}
    BY <1>3 DEF Start, Arrival, AnswersInv, EntitledInv, Typed, TypeOK
  <2> QED  BY <1>1, <1>2, <2>1
<1>4. CASE pc[o] # "idle"
  BY <1>1, <1>2, <1>4, HistoryGrows DEF AnswersInv, EntitledInv
<1>5. CASE pc[o] = "idle" /\ ~Start(o)
  <2>1. CASE Witness
    BY <1>1, <1>2, <1>5, <2>1 DEF Witness, Running, Steps, Writes
  <2>2. CASE ~Witness
    <3>1. history'[o] = history[o]
      BY <1>5, <2>2, QuietOrWitnessed DEF AnswersInv, EntitledInv
    <3> QED  BY <1>1, <1>2, <3>1
  <2> QED  BY <2>1, <2>2
<1> QED  BY <1>3, <1>4, <1>5

\* The response that a handler makes out of what it has read.
LEMMA Responded ==
    ASSUME AnswersInv, [Next]_vars, NEW o \in Ops, Respond(o)
    PROVE  /\ now' = now /\ call' = call /\ call[o].company \in Companies
           /\ answer'[o] \in Response /\ answer'[o].by = o /\ answer'[o].stored = now
           /\ cache'[call[o].company] = answer'[o]
           /\ Vouched(answer[o], call[o].company)'
<1> DEFINE response == [version |-> seen[o].version, full |-> IsOwn(o, call[o].company),
                        by |-> o, stored |-> now]
<1> USE DEF AnswersInv, EntitledInv, Typed, TypeOK
<1>1. call[o].company \in Companies /\ pc[o] = "project" /\ pc[o] # "idle" /\ Kind(o) = "read"
  BY CallsFit DEF Respond, Placed, InPlace, KindsAt, Fits, Kind, CompanyKinds, RowKinds
<1>2. seen[o] \in Seen
  OBVIOUS
<1>3. /\ now' = now /\ call' = call /\ history' = history /\ replaced' = replaced
      /\ answer'[o] = response /\ cache'[call[o].company] = response
      /\ pc'[o] = "done" /\ seen'[o].claims = seen[o].claims
  BY <1>1, <1>2 DEF Respond, Goto, Seen, ghosts
<1>4. response \in Response
  BY <1>2 DEF Response, Seen, IsOwn
<1>5. Entitled(o)
  BY <1>1 DEF IsPermitted, Entitled, Worked
<1>6. StillTrue(o, call[o].company, response.version)
  BY <1>1
<1>7. Vouched(answer[o], call[o].company)'
  <2>1. answer'[o].by = o /\ answer'[o].version = seen[o].version
    BY <1>3
  <2>2. answer'[o].full <=> seen'[o].claims = call'[o].company
    <3>1. answer'[o].full = IsOwn(o, call[o].company)
      BY <1>3
    <3>2. IsOwn(o, call[o].company) <=> seen'[o].claims = call'[o].company
      BY <1>3, Zenon DEF IsOwn
    <3> QED  BY <3>1, <3>2, Zenon
  <2>3. Entitled(o)'
    BY <1>3, <1>5 DEF Entitled, Caller
  <2>4. StillTrue(o, call[o].company, answer[o].version)'
    BY <1>3, <1>6, <2>1 DEF StillTrue
  <2> QED  BY <1>1, <1>3, <2>1, <2>2, <2>3, <2>4 DEF Vouched
<1> QED  BY <1>1, <1>3, <1>4, <1>7

LEMMA AnswersVouched ==
    ASSUME AnswersInv, [Next]_vars, NEW o \in Ops, answer'[o] # None
    PROVE  /\ Vouched(answer[o], call[o].company)'
           /\ answer'[o].by = o \/ answer'[o].stored + Ttl > history'[o].at
<1> USE DEF AnswersInv, EntitledInv
<1>1. CASE Respond(o)
  BY <1>1, Responded
<1>2. ASSUME NEW response \in Response, answer'[o] = response, pc[o] # "idle",
             call[o].company \in Companies, Vouched(response, call[o].company),
             response.by = o \/ response.stored + Ttl > history[o].at
      PROVE  /\ Vouched(answer[o], call[o].company)'
             /\ answer'[o].by = o \/ answer'[o].stored + Ttl > history'[o].at
  <2>1. call'[o] = call[o] /\ history'[o].at = history[o].at
    BY <1>2, Onward, HistoryGrows
  <2>2. PICK c \in Companies : c = call[o].company
    BY <1>2
  <2>3. Vouched(response, c)'
    BY <1>2, <2>2, VouchedStays
  <2> QED  BY <1>2, <2>1, <2>2, <2>3 DEF Vouched
<1>3. CASE answer'[o] = answer[o]
  <2>1. pc[o] # "idle" /\ answer[o] \in Response /\ Vouched(answer[o], call[o].company)
    BY <1>3 DEF Typed, TypeOK
  <2>2. call[o].company \in Companies
    BY <2>1 DEF Vouched
  <2> QED  BY <1>2, <1>3, <2>1, <2>2
<1>4. CASE Cached(o) /\ answer'[o] = cache[call[o].company]
  <2>1. pc[o] # "idle" /\ call[o].company \in Companies
    BY <1>4, CallsFit DEF Cached, Typed, Placed, InPlace, KindsAt, Fits, Kind, CompanyKinds, RowKinds
  <2>2. cache[call[o].company] \in Response /\ Vouched(cache[call[o].company], call[o].company)
        /\ cache[call[o].company].stored + Ttl > now
    BY <1>4, <2>1 DEF Typed, TypeOK
  <2>3. cache[call[o].company].stored + Ttl > history[o].at
    <3>1. /\ history[o].at <= now /\ history[o].at \in Nat /\ now \in Nat
          /\ cache[call[o].company].stored \in Nat /\ Ttl \in Nat
      BY <2>2, CompanyRecordsAssumption DEF Typed, TypeOK, Times, History, Response
    <3> QED  BY <2>2, <3>1
  <2> QED  BY <1>2, <1>4, <2>1, <2>2, <2>3
<1> QED  BY <1>1, <1>3, <1>4, AnswersMove

LEMMA CacheVouched ==
    ASSUME AnswersInv, [Next]_vars, NEW c \in Companies, cache'[c] # None
    PROVE  Vouched(cache[c], c)' /\ cache'[c].stored + Ttl > now'
<1> USE DEF AnswersInv, EntitledInv
<1>1. ASSUME NEW o \in Ops, Respond(o), call[o].company = c
      PROVE  Vouched(cache[c], c)' /\ cache'[c].stored + Ttl > now'
  <2>1. /\ now' = now /\ call' = call /\ cache'[c] = answer'[o] /\ answer'[o].stored = now
        /\ Vouched(answer[o], call[o].company)'
    BY <1>1, Responded
  <2>2. now + Ttl > now
    BY CompanyRecordsAssumption, TimeGoesOn
  <2> QED  BY <1>1, <2>1, <2>2 DEF Vouched
<1>2. CASE cache'[c] = cache[c] /\ ~\E o \in Ops : Respond(o) /\ call[o].company = c
  <2>1. PICK response \in Response : response = cache[c]
    BY <1>2 DEF Typed, TypeOK
  <2>2. Vouched(response, c)'
    BY <1>2, <2>1, VouchedStays
  <2>3. cache'[c].stored + Ttl > now'
    BY <1>2, AnswersMove
  <2> QED  BY <1>2, <2>1, <2>2, <2>3 DEF Vouched
<1> QED  BY <1>1, <1>2, AnswersMove

LEMMA ProjectsTruth ==
    ASSUME AnswersInv, [Next]_vars, NEW o \in Ops, pc'[o] = "project"
    PROVE  StillTrue(o, call[o].company, seen[o].version)'
<1> USE DEF AnswersInv, EntitledInv
<1>1. (pc[o] = "project" /\ seen'[o] = seen[o]) \/ (ReadRow(o) /\ pc[o] = "readRow")
  <2>1. CameFrom(o)  BY AllCameFrom
  <2> QED  BY <2>1 DEF CameFrom, Firsts, RowKinds, ReadRow
<1>2. call[o].company \in Companies /\ call'[o] = call[o] /\ history'[o].at = history[o].at
  BY <1>1, CallsFit, Onward, HistoryGrows
  DEF Typed, Placed, InPlace, KindsAt, Fits, Kind, CompanyKinds, RowKinds
<1>3. PICK c \in Companies : c = call[o].company /\ c = call'[o].company
  BY <1>2
<1>4. CASE pc[o] = "project" /\ seen'[o] = seen[o]
  <2>1. PICK v \in Versions \cup {None} : v = seen[o].version /\ v = seen'[o].version
    BY <1>4 DEF Typed, TypeOK, Seen
  <2>2. StillTrue(o, c, v)'
    BY <1>2, <1>3, <1>4, <2>1, StillTrueStays
  <2> QED  BY <1>3, <2>1, <2>2 DEF StillTrue
<1>5. CASE ReadRow(o)
  <2>1. seen[o] \in Seen  BY DEF Typed, TypeOK
  <2>2. seen'[o].version = details[c] /\ replaced' = replaced /\ details' = details
    BY <1>3, <1>5, <2>1 DEF ReadRow, Keep, ghosts, tables, Seen, Typed, TypeOK
  <2>3. details[c] = None \/ (details[c] \in Versions /\ replaced[c][details[c]] = None)
    BY DEF Typed, TypeOK
  <2> QED  BY <1>3, <2>2, <2>3 DEF StillTrue
<1> QED  BY <1>1, <1>4, <1>5

LEMMA ReplacedOlder ==
    ASSUME AnswersInv, [Next]_vars, NEW c \in Companies, NEW v \in Versions,
           replaced'[c][v] # None
    PROVE  details'[c] = None \/ (v \subseteq details'[c] /\ v # details'[c])
<1> USE DEF AnswersInv, EntitledInv
<1>1. CASE details'[c] = None  BY <1>1
<1>2. CASE details'[c] = details[c]
  BY <1>2, ReplacedNow
<1>3. ASSUME NEW o \in New, details[c] # None, details'[c] = details[c] \cup {o}
      PROVE  v \subseteq details'[c] /\ v # details'[c]
  <2>1. CASE details[c] = v /\ details'[c] # v
    BY <1>3, <2>1
  <2>2. CASE replaced[c][v] # None
    BY <1>3, <2>2
  <2> QED  BY <2>1, <2>2, ReplacedNow
<1> QED  BY <1>1, <1>2, <1>3, DetailsMove

\* The response cache of AppModule before getCompanyDetails: a response was made by a
\* request that was entitled to it, in full only for the company itself, from a row
\* that was still the company's when that request arrived, and is handed out for less
\* than its time to live.
THEOREM RecentAnswers == Spec => []AnswersAreRecent
<1>1. Init => AnswersInv  BY AnswersInit
<1>2. AnswersInv /\ [Next]_vars => AnswersInv'
  <2> SUFFICES ASSUME AnswersInv, [Next]_vars PROVE AnswersInv'
    OBVIOUS
  <2>1. EntitledInv'  BY EntitledNext DEF AnswersInv
  <2>2. ASSUME NEW o \in Ops, pc'[o] = "idle" PROVE answer'[o] = None
    <3>1. pc[o] = "idle"
      BY <2>2, Onward DEF AnswersInv, EntitledInv
    <3> QED
      BY <3>1, AnswersMove DEF AnswersInv, EntitledInv, Cached, Respond
  <2> QED
    BY <2>1, <2>2, ArrivedBefore, AnswersVouched, CacheVouched, ProjectsTruth, ReplacedOlder
    DEF AnswersInv
<1>3. AnswersInv => AnswersAreRecent
  BY DEF AnswersInv, AnswersAreRecent, Vouched, StillTrue
<1> QED  BY <1>1, <1>2, <1>3, PTL DEF Spec
=============================================================================
