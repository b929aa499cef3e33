------------------------ MODULE Certificates_proofs ------------------------
(* Proofs about Certificates, for any number of requests, companies and    *)
(* certificates, for every clock, batch size and time to live, and for     *)
(* every set of faults.                                                    *)
(*                                                                         *)
(* The argument: rows of certificates only come, and keep what orders and  *)
(* dates them; revocations and deletions of keys only come, too.  So what  *)
(* a request read a while ago still speaks for the time it arrived.        *)
EXTENDS Certificates, FiniteSetTheorems, WellFoundedInduction, TLAPS

-----------------------------------------------------------------------------
(* Bounded sets of naturals have a largest member.                         *)

Below == {p \in Nat \X Nat : p[1] < p[2]}

LEMMA BelowIs == Below = OpToRel(<, Nat)
BY DEF Below, OpToRel

LEMMA HasSmallest ==
    ASSUME NEW T, T \subseteq Nat, T # {} PROVE \E x \in T : \A y \in T : x <= y
<1>1. IsWellFoundedOn(Below, Nat)
  BY BelowIs, NatLessThanWellFounded
<1>2. PICK x \in T : \A y \in T : <<y, x>> \notin Below
  BY <1>1, WFMin
<1>3. ASSUME NEW y \in T PROVE x <= y
  <2>1. <<y, x>> \in Below <=> y < x
    BY <1>3 DEF Below
  <2> QED  BY <1>2, <1>3, <2>1
<1> QED  BY <1>3

LEMMA HasLargest ==
    ASSUME NEW K \in Nat, NEW T, T \subseteq 0 .. K, T # {}
    PROVE  \E x \in T : \A y \in T : y <= x
<1> DEFINE U == {n \in Nat : \E x \in T : n = K - x}
<1>1. \A x \in T : K - x \in U
  OBVIOUS
<1>2. PICK u \in U : \A v \in U : u <= v
  <2>1. U \subseteq Nat /\ U # {}
    BY <1>1
  <2> HIDE DEF U
  <2> QED  BY <2>1, HasSmallest
<1>3. PICK x \in T : u = K - x
  BY <1>2
<1>4. \A y \in T : y <= x
  BY <1>1, <1>2, <1>3
<1> QED  BY <1>4

-----------------------------------------------------------------------------
\* The kinds of calls that come to each place.
KindsAt(l) ==
    CASE l = "cached" -> {"reveal", "list"}
      [] l = "load" -> AllKinds \ {"list"}
      [] l \in {"issue", "findUser", "save"} -> {"create"}
      [] l = "readLatest" -> {"reveal", "deleteKey", "verify"}
      [] l = "blankKey" -> {"deleteKey"}
      [] l = "askIcid" -> {"verify"}
      [] l \in {"listCompanies", "loadAll", "readAll", "batch"} -> {"list"}
      [] l = "deleteCompany" -> {"deleteCompany"}
      [] OTHER -> AllKinds

Kind(o) == call[o].kind
Questions == AllKinds \ {"create", "deleteCompany"}

\* Whether o still stands for something: it runs, or it was answered.
Alive(o) == pc[o] \notin {"idle", "failed", "degraded"}

\* The arguments of a request fit its place, and what it holds is there.
InPlace(o) ==
    /\ Alive(o) => call[o] \in Calls /\ Kind(o) \in KindsAt(pc[o])
    /\ Alive(o) /\ Kind(o) \in Questions => began[o] \in Arrival
    /\ pc[o] \in {"blankKey", "askIcid"} => seen[o].row \in RowsOf(call[o].company)
    /\ pc[o] = "batch" => seen[o].rest \subseteq Rows
    /\ pc[o] = "done" /\ Kind(o) \in {"reveal", "verify", "list"} => answer[o] \in Response
    /\ certificates[o] # None => pc[o] = "done"

\* All stamps are below some number.
StampsAreBounded ==
    \E K \in Nat : /\ \A o \in Ops : seen[o].created <= K
                   /\ \A x \in Rows : certificates[x].created <= K

Typed ==
    /\ TypeOK
    /\ \A o \in Ops : InPlace(o)
    /\ StampsAreBounded

LEMMA CallsFit ==
    \A a \in Calls :
      /\ a.kind \in AllKinds
      /\ a.kind # "list" => a.company \in Companies
      /\ a.kind = "create" => a.expiry \in Times
BY DEF Calls, AllKinds

LEMMA RowsAre ==
    ASSUME TypeOK
    PROVE  /\ Rows \subseteq Names
           /\ \A x \in Rows : certificates[x] \in Certificate
           /\ \A c : RowsOf(c) \subseteq Rows /\ Latest(c) \subseteq RowsOf(c)
BY DEF TypeOK, Rows, RowsOf, Latest

LEMMA TypedInit == Init => Typed
<1> SUFFICES ASSUME Init PROVE Typed
  OBVIOUS
<1> USE CertificatesAssumption
<1>1. PICK old \in [Old -> OldRows] :
        certificates = [x \in Names |-> IF x \in Old THEN old[x] ELSE None]
  BY DEF Init
<1>2. Cardinality(Old) \in Nat
  BY FS_CardinalityType
<1>3. ASSUME NEW r \in OldRows
      PROVE  r \in Certificate /\ r.created <= Cardinality(Old)
  <2>1. r.created \in 1 .. Cardinality(Old)
    BY <1>3 DEF OldRows
  <2>2. r.created \in Nat /\ r.created <= Cardinality(Old)
    BY <1>2, <2>1
  <2> QED  BY <1>3, <2>2 DEF OldRows, Certificate
<1>4. certificates \in [Names -> Certificate \cup {None}]
  BY <1>1, <1>3
<1>5. PICK shown \in SUBSET Companies :
        cache = [k \in Pages |-> IF k \in shown
                   THEN [what |-> Latest(k), by |-> None, stored |-> 0] ELSE None]
  BY DEF Init
<1>6. \A c : Latest(c) \in SUBSET Names
  BY DEF Latest, RowsOf, Rows
<1>7. cache \in [Pages -> Response \cup {None}]
  <2>1. ASSUME NEW k \in Pages
        PROVE  [what |-> Latest(k), by |-> None, stored |-> 0] \in Response
    <3>1. Latest(k) \in SUBSET Names
      BY <1>6
    <3>2. 0 \in Times
      BY DEF Times
    <3>3. Latest(k) \in Answers
      BY <3>1 DEF Answers
    <3> QED  BY <3>2, <3>3 DEF Response
  <2> QED  BY <1>5, <2>1
<1>8. TypeOK
  BY <1>4, <1>7
  DEF Init, TypeOK, Times, Names, Finished, Steps, Seen, Nothing
<1>9. \A o \in Ops : InPlace(o)
  BY <1>1 DEF Init, InPlace, Alive, Names
<1>10. StampsAreBounded
  <2>1. \A x \in Rows : certificates[x].created <= Cardinality(Old)
    BY <1>1, <1>3 DEF Rows
  <2>2. \A o \in Ops : seen[o].created <= Cardinality(Old)
    BY <1>2 DEF Init, Nothing
  <2> QED  BY <1>2, <2>1, <2>2 DEF StampsAreBounded
<1> QED  BY <1>8, <1>9, <1>10 DEF Typed

-----------------------------------------------------------------------------
(* What only grows.                                                        *)

\* A row that is there stays, and changes nothing but its key, which it loses.
RowStays(x) ==
    /\ certificates'[x] # None
    /\ certificates'[x].company = certificates[x].company
    /\ certificates'[x].expiry = certificates[x].expiry
    /\ certificates'[x].created = certificates[x].created
    /\ certificates'[x].filed = certificates[x].filed
    /\ certificates'[x].key => certificates[x].key

LEMMA RowsStay ==
    ASSUME Typed, [Next]_vars, NEW x \in Rows
    PROVE  RowStays(x)
<1> USE CertificatesAssumption DEF Typed, TypeOK
<1>1. x \in Names /\ certificates[x] # None /\ certificates[x] \in Certificate
  BY DEF Rows
<1>2. CASE certificates' = certificates
  BY <1>1, <1>2 DEF RowStays
<1>3. ASSUME NEW o \in Ops, Save(o) PROVE RowStays(x)
  <2>1. pc[o] # "done" /\ \A y \in Names \ {o} : certificates'[y] = certificates[y]
    BY <1>3 DEF Save
  <2>2. x # o
    BY <1>1, <2>1 DEF InPlace
  <2> QED  BY <1>1, <2>1, <2>2 DEF RowStays
<1>4. ASSUME NEW o \in Ops, BlankKey(o) PROVE RowStays(x)
  <2>1. certificates' = [certificates EXCEPT ![seen[o].row].key = FALSE]
    BY <1>4 DEF BlankKey
  <2>2. CASE x = seen[o].row
    <3>1. certificates'[x] = [certificates[x] EXCEPT !.key = FALSE]
      BY <1>1, <2>1, <2>2
    <3>2. certificates'[x] = [company |-> certificates[x].company,
             expiry |-> certificates[x].expiry, created |-> certificates[x].created,
             filed |-> certificates[x].filed, key |-> FALSE]
      BY <1>1, <3>1 DEF Certificate
    <3>3. certificates'[x] \in Certificate
      BY <1>1, <3>2 DEF Certificate
    <3>4. ~certificates'[x].key
      BY <3>2
    <3>5. certificates'[x] # None
      BY <3>3
    <3>6. /\ certificates'[x].company = certificates[x].company
          /\ certificates'[x].expiry = certificates[x].expiry
          /\ certificates'[x].created = certificates[x].created
          /\ certificates'[x].filed = certificates[x].filed
      BY <3>2
    <3> QED  BY <3>4, <3>5, <3>6 DEF RowStays
  <2>3. CASE x # seen[o].row
    BY <1>1, <2>1, <2>3 DEF RowStays
  <2> QED  BY <2>2, <2>3
<1>5. ASSUME NEW o \in Ops,
             Start(o) \/ Refused(o) \/ Cached(o) \/ LoadCompany(o) \/ DeleteCompany(o)
      PROVE  certificates' = certificates
  BY <1>5 DEF Start, Refused, Throw, Drop, Cached, LoadCompany, Read, DeleteCompany, tables, stores
<1>6. ASSUME NEW o \in Ops, Create(o), ~Save(o)
      PROVE  certificates' = certificates
  BY <1>6
  DEF Create, Issue, IssueFails, IssueReplyLost, FindUser, NoUser, Throw, Drop, tables, stores
<1>7. ASSUME NEW o \in Ops, NoCertificate(o) \/ Reveal(o) \/ FindLatest(o)
      PROVE  certificates' = certificates
  BY <1>7 DEF NoCertificate, Reveal, FindLatest, Hold, Reply, Throw, Drop, tables, stores
<1>8. ASSUME NEW o \in Ops, Verify(o) \/ List(o)
      PROVE  certificates' = certificates
  BY <1>8
  DEF Verify, Judge, AskIcid, AskIcidFails, List, ListCompanies, LoadAll, ReadAll, Batch, Listed,
      Hold, Reply, Throw, Drop, tables, stores
<1>9. ASSUME Tick \/ (\E y \in Names : Revoke(y)) \/ UNCHANGED vars
      PROVE  certificates' = certificates
  BY <1>9 DEF Tick, Revoke, tables, stores, vars
<1> QED
  BY <1>2, <1>3, <1>4, <1>5, <1>6, <1>7, <1>8, <1>9 DEF Next, Create

\* A request that was answered keeps its answer, and nothing is forgotten.
LEMMA DoneStays ==
    ASSUME Typed, [Next]_vars, NEW o \in Ops, pc[o] = "done"
    PROVE  /\ pc'[o] = "done" /\ call'[o] = call[o] /\ seen'[o] = seen[o]
           /\ answer'[o] = answer[o] /\ began'[o] = began[o]
<1> USE DEF Typed, TypeOK
<1>1. ASSUME NEW p \in Ops,
         \/ Start(p) \/ Refused(p) \/ Cached(p) \/ LoadCompany(p) \/ Create(p)
         \/ NoCertificate(p) \/ Reveal(p) \/ FindLatest(p) \/ BlankKey(p)
         \/ Verify(p) \/ List(p) \/ DeleteCompany(p)
      PROVE  /\ pc'[o] = "done" /\ call'[o] = call[o] /\ seen'[o] = seen[o]
             /\ answer'[o] = answer[o] /\ began'[o] = began[o]
  <2>1. p # o
    BY <1>1
    DEF Start, Refused, Running, Steps, Cached, LoadCompany, Create, Issue, IssueFails,
        IssueReplyLost, FindUser, NoUser, Save, NoCertificate, Reveal, FindLatest, BlankKey,
        Verify, Judge, AskIcid, AskIcidFails, List, ListCompanies, LoadAll, ReadAll, Batch,
        Listed, DeleteCompany
  <2> QED
    BY <1>1, <2>1
    DEF Start, Refused, Throw, Drop, Cached, LoadCompany, Read, Create, Issue, IssueFails,
        IssueReplyLost, FindUser, NoUser, Save, NoCertificate, Reply, Reveal, FindLatest, Hold,
        BlankKey, Verify, Judge, AskIcid, AskIcidFails, List, ListCompanies, LoadAll, ReadAll,
        Batch, Listed, DeleteCompany, Goto, Keep, icid, stores, tables
<1> QED
  BY <1>1 DEF Next, Tick, Revoke, vars

-----------------------------------------------------------------------------
(* Types.  Lemmas about the ways a step may end come first.                *)

\* A row that was found for a company is still one of its rows.
LEMMA RowsOfGrow ==
    ASSUME Typed, [Next]_vars
    PROVE  Rows \subseteq Rows' /\ \A c : RowsOf(c) \subseteq RowsOf(c)'
<1>1. \A x \in Rows : x \in Names /\ RowStays(x)
  BY RowsStay DEF Rows
<1> QED  BY <1>1 DEF RowStays, Rows, RowsOf

\* Nobody but o moves.
Alone(o) ==
    \A p \in Ops \ {o} :
      /\ pc'[p] = pc[p] /\ call'[p] = call[p] /\ seen'[p] = seen[p]
      /\ answer'[p] = answer[p] /\ began'[p] = began[p]
      /\ certificates'[p] # None => certificates[p] # None

LEMMA OthersInPlace ==
    ASSUME Typed, [Next]_vars, NEW o \in Ops, Alone(o), InPlace(o)'
    PROVE  \A p \in Ops : InPlace(p)'
<1> SUFFICES ASSUME NEW p \in Ops \ {o} PROVE InPlace(p)'
  OBVIOUS
<1>1. InPlace(p)
  BY DEF Typed
<1>2. Rows \subseteq Rows'
  BY RowsOfGrow
<1>3. \A c : \A x \in RowsOf(c) : x \in Rows' /\ certificates'[x].company = c
  BY RowsOfGrow DEF RowsOf
<1> QED  BY <1>1, <1>2, <1>3 DEF Alone, InPlace, Alive, Kind, RowsOf

LEMMA StampsStay ==
    ASSUME Typed, UNCHANGED certificates, \A p \in Ops : seen'[p].created \in {0, seen[p].created}
    PROVE  StampsAreBounded'
<1>1. PICK K \in Nat : /\ \A o \in Ops : seen[o].created <= K
                       /\ \A x \in Rows : certificates[x].created <= K
  BY DEF Typed, StampsAreBounded
<1>2. Rows' = Rows
  BY DEF Rows
<1> QED  BY <1>1, <1>2 DEF StampsAreBounded

LEMMA TypedDrop ==
    ASSUME Typed, [Next]_vars, NEW o \in Ops, Running(o), Drop(o),
           issued' \subseteq Names, revoked' \subseteq issued'
    PROVE  Typed'
<1> USE DEF Typed, TypeOK, Drop
<1>1. pc' \in [Ops -> Steps \cup Finished] /\ pc'[o] \in {"failed", "degraded"}
  BY DEF Goto, Finished
<1>2. [what |-> None, by |-> None, stored |-> now] \in Response
  BY DEF Response
<1>3. cache' \in [Pages -> Response \cup {None}]
  BY <1>2 DEF Pages
<1>4. Nothing \in Seen
  BY DEF Nothing, Seen
<1>5. TypeOK'
  BY <1>1, <1>3, <1>4 DEF tables
<1>6. certificates[o] = None
  BY DEF InPlace, Running, Steps
<1>7. InPlace(o)'
  BY <1>1, <1>6 DEF InPlace, Alive, tables
<1>8. Alone(o)
  BY DEF Alone, Goto, tables
<1>9. StampsAreBounded'
  BY StampsStay DEF tables, Nothing
<1> QED  BY <1>5, <1>7, <1>8, <1>9, OthersInPlace

LEMMA TypedThrow ==
    ASSUME Typed, [Next]_vars, NEW o \in Ops, Running(o), Throw(o) PROVE Typed'
<1>1. issued' \subseteq Names /\ revoked' \subseteq issued'
  BY DEF Throw, icid, Typed, TypeOK
<1> QED  BY <1>1, TypedDrop DEF Throw

LEMMA TypedReply ==
    ASSUME Typed, [Next]_vars, NEW o \in Ops, NEW what \in Answers, Reply(o, what), Running(o),
           Kind(o) \in {"reveal", "verify", "list"}
    PROVE  Typed'
<1> DEFINE response == [what |-> what, by |-> o, stored |-> now]
<1> USE DEF Typed, TypeOK
<1>1. response \in Response
  BY DEF Response
<1>2. call[o] \in Calls /\ began[o] \in Arrival /\ certificates[o] = None
  BY DEF InPlace, Alive, Running, Steps, Questions, AllKinds, Kind
<1>3. PageOf(o) \in Pages
  BY <1>2, CallsFit DEF PageOf, Pages
<1>4. /\ answer' = [answer EXCEPT ![o] = response]
      /\ cache' = IF call[o].kind \in {"reveal", "list"}
                    THEN [cache EXCEPT ![PageOf(o)] = response] ELSE cache
      /\ pc' = [pc EXCEPT ![o] = "done"]
      /\ UNCHANGED <<now, tables, icid, call, seen, began>>
  BY DEF Reply, Goto
<1>5. cache' \in [Pages -> Response \cup {None}] /\ answer' \in [Ops -> Response \cup {None}]
  BY <1>1, <1>3, <1>4
<1>6. pc' \in [Ops -> Steps \cup Finished]
  BY <1>4 DEF Finished
<1>7. TypeOK'
  BY <1>4, <1>5, <1>6 DEF tables, icid
<1>8. InPlace(o)'
  BY <1>1, <1>2, <1>4, CallsFit DEF InPlace, Alive, Kind, KindsAt, tables
<1>9. Alone(o)
  BY <1>4 DEF Alone, tables
<1>10. StampsAreBounded'
  BY <1>4, StampsStay DEF tables
<1> QED  BY <1>7, <1>8, <1>9, <1>10, OthersInPlace

\* A step that leaves everything but pc alone.
LEMMA TypedRead ==
    ASSUME Typed, [Next]_vars, NEW o \in Ops, Running(o),
           NEW l \in Steps \ {"blankKey", "askIcid", "batch"}, Read(o, l), Kind(o) \in KindsAt(l)
    PROVE  Typed'
<1> USE DEF Typed, TypeOK
<1>1. pc' = [pc EXCEPT ![o] = l] /\ UNCHANGED <<now, stores, icid, call, seen, answer, began>>
  BY DEF Read, Goto
<1>2. TypeOK'
  BY <1>1 DEF stores, tables, icid
<1>3. certificates[o] = None /\ Alive(o)
  BY DEF InPlace, Running, Steps, Alive
<1>4. InPlace(o)'
  BY <1>1, <1>3 DEF InPlace, Alive, Kind, stores, tables, Steps
<1>5. Alone(o)
  BY <1>1 DEF Alone, stores, tables
<1>6. StampsAreBounded'
  BY <1>1, StampsStay DEF stores, tables
<1> QED  BY <1>2, <1>4, <1>5, <1>6, OthersInPlace

\* A step that keeps something and goes on.
LEMMA TypedKeep ==
    ASSUME Typed, [Next]_vars, NEW o \in Ops, Running(o), NEW l \in Steps,
           Goto(o, l), UNCHANGED <<now, stores, call, answer, began>>,
           issued' \subseteq Names, revoked' \subseteq issued',
           NEW h \in Seen, seen' = [seen EXCEPT ![o] = h],
           Kind(o) \in KindsAt(l),
           l \in {"blankKey", "askIcid"} => h.row \in RowsOf(call[o].company),
           l = "batch" => h.rest \subseteq Rows,
           StampsAreBounded'
    PROVE  Typed'
<1> USE DEF Typed, TypeOK
<1>1. TypeOK'
  BY DEF Goto, stores, tables
<1>2. certificates[o] = None /\ Alive(o)
  BY DEF InPlace, Running, Steps, Alive
<1>3. UNCHANGED certificates /\ UNCHANGED Rows /\ pc'[o] = l /\ seen'[o] = h
  BY DEF stores, tables, Rows, Goto
<1>4. InPlace(o)'
  BY <1>2, <1>3 DEF InPlace, Alive, Kind, RowsOf, Steps
<1>5. Alone(o)
  BY <1>3 DEF Alone, Goto
<1> QED  BY <1>1, <1>4, <1>5, OthersInPlace

\* The same for one field of what is held, when the stamp is not touched.
LEMMA TypedHold ==
    ASSUME Typed, [Next]_vars, NEW o \in Ops, Running(o), NEW x \in Names, NEW l \in Steps,
           Hold(o, x, l), Kind(o) \in KindsAt(l), x \in RowsOf(call[o].company), l # "batch"
    PROVE  Typed'
<1> DEFINE h == [seen[o] EXCEPT !.row = x]
<1>1. seen \in [Ops -> Seen] /\ issued \subseteq Names /\ revoked \subseteq issued
  BY DEF Typed, TypeOK
<1>2. seen[o] \in Seen
  BY <1>1
<1>3. h \in Seen /\ h.row = x /\ h.created = seen[o].created
  BY <1>2 DEF Seen
<1>4. seen' = [seen EXCEPT ![o] = h]
  BY <1>1, <1>2 DEF Hold, Keep
<1>5. StampsAreBounded'
  BY <1>1, <1>3, <1>4, StampsStay DEF Hold, stores, tables
<1>6. issued' \subseteq Names /\ revoked' \subseteq issued'
  BY <1>1 DEF Hold, icid
<1> HIDE DEF h
<1> QED  BY <1>3, <1>4, <1>5, <1>6, TypedKeep DEF Hold

LEMMA TypedStart ==
    ASSUME Typed, [Next]_vars, NEW o \in Ops, Start(o) PROVE Typed'
<1> USE DEF Typed, TypeOK
<1>1. PICK a \in Calls :
        /\ call' = [call EXCEPT ![o] = a]
        /\ Goto(o, IF a.kind \in {"reveal", "list"} THEN "cached" ELSE "load")
        /\ began' = IF a.kind \in {"create", "deleteCompany"} THEN began
                    ELSE [began EXCEPT ![o] = Arrived]
  BY DEF Start
<1>2. UNCHANGED <<now, stores, icid, seen, answer>> /\ pc[o] = "idle"
  BY DEF Start
<1>3. Arrived \in Arrival
  BY DEF Arrived, Arrival, Rows
<1>4. TypeOK'
  BY <1>1, <1>2, <1>3 DEF Goto, stores, tables, icid, Steps
<1>5. InPlace(o)'
  BY <1>1, <1>2, <1>3, CallsFit DEF InPlace, Alive, Kind, KindsAt, Goto, Questions, stores, tables
<1>6. Alone(o)
  BY <1>1, <1>2 DEF Alone, Goto, stores, tables
<1>7. StampsAreBounded'
  BY <1>2, StampsStay DEF stores, tables
<1> QED  BY <1>4, <1>5, <1>6, <1>7, OthersInPlace

LEMMA TypedCached ==
    ASSUME Typed, [Next]_vars, NEW o \in Ops, Cached(o) PROVE Typed'
<1> USE DEF Typed, TypeOK
<1> DEFINE response == cache[PageOf(o)]
<1>1. Running(o) /\ pc[o] = "cached" /\ Kind(o) \in {"reveal", "list"} /\ call[o] \in Calls
      /\ certificates[o] = None /\ began[o] \in Arrival
  BY DEF Cached, Running, Steps, InPlace, Alive, KindsAt, Kind, Questions, AllKinds
<1>2. CASE response = None
  <2>1. Read(o, IF call[o].kind = "list" THEN "listCompanies" ELSE "load")
    BY <1>2 DEF Cached
  <2>2. CASE call[o].kind = "list"
    BY <1>1, <2>1, <2>2, TypedRead DEF Kind, KindsAt, Steps
  <2>3. CASE call[o].kind = "reveal"
    <3>1. Read(o, "load")
      BY <2>1, <2>3
    <3>2. Kind(o) \in KindsAt("load")
      BY <2>3 DEF Kind, KindsAt, AllKinds
    <3>3. "load" \in Steps \ {"blankKey", "askIcid", "batch"}
      BY DEF Steps
    <3> QED  BY <1>1, <3>1, <3>2, <3>3, TypedRead
  <2> QED  BY <1>1, <2>2, <2>3 DEF Kind
<1>3. CASE response # None
  <2>1. /\ answer' = [answer EXCEPT ![o] = response]
        /\ Goto(o, IF response.what = None THEN "degraded" ELSE "done")
        /\ UNCHANGED <<now, stores, icid, call, seen, began>>
    BY <1>3 DEF Cached
  <2>2. PageOf(o) \in Pages
    BY <1>1, CallsFit DEF PageOf, Pages, Kind
  <2>3. response \in Response
    BY <1>3, <2>2
  <2> HIDE DEF response
  <2>4. TypeOK'
    BY <2>1, <2>3 DEF Goto, Finished, stores, tables, icid
  <2>5. InPlace(o)'
    BY <1>1, <2>1, <2>3, CallsFit DEF InPlace, Alive, Goto, Kind, KindsAt, stores, tables
  <2>6. Alone(o)
    BY <2>1 DEF Alone, Goto, stores, tables
  <2>7. StampsAreBounded'
    BY <2>1, StampsStay DEF stores, tables
  <2> QED  BY <2>4, <2>5, <2>6, <2>7, OthersInPlace
<1> QED  BY <1>2, <1>3

LEMMA TypedLoadCompany ==
    ASSUME Typed, [Next]_vars, NEW o \in Ops, LoadCompany(o) PROVE Typed'
<1> USE DEF Typed, TypeOK
<1>1. Running(o) /\ Kind(o) \in AllKinds \ {"list"}
  BY DEF LoadCompany, Running, Steps, InPlace, Alive, KindsAt, Kind
<1>2. CASE call[o].company \notin registered
  BY <1>1, <1>2, TypedThrow DEF LoadCompany
<1>3. CASE call[o].company \in registered
  <2>1. CASE Kind(o) = "create"
    <3>1. Read(o, "issue")
      BY <1>3, <2>1 DEF LoadCompany, Kind
    <3> QED  BY <1>1, <2>1, <3>1, TypedRead DEF KindsAt, Steps
  <2>2. CASE Kind(o) = "deleteCompany"
    <3>1. Read(o, "deleteCompany")
      BY <1>3, <2>2 DEF LoadCompany, Kind
    <3> QED  BY <1>1, <2>2, <3>1, TypedRead DEF KindsAt, Steps
  <2>3. CASE Kind(o) \in {"reveal", "deleteKey", "verify"}
    <3>1. Read(o, "readLatest")
      BY <1>3, <2>3 DEF LoadCompany, Kind
    <3> QED  BY <1>1, <2>3, <3>1, TypedRead DEF KindsAt, Steps
  <2> QED  BY <1>1, <2>1, <2>2, <2>3 DEF AllKinds
<1> QED  BY <1>2, <1>3

LEMMA TypedIssue ==
    ASSUME Typed, [Next]_vars, NEW o \in Ops, Issue(o) PROVE Typed'
<1>1. /\ seen \in [Ops -> Seen] /\ issued \subseteq Names /\ revoked \subseteq issued
      /\ InPlace(o)
  BY DEF Typed, TypeOK
<1>2. PICK filed \in BOOLEAN : Keep(o, "filed", filed)
  BY DEF Issue
<1> DEFINE h == [seen[o] EXCEPT !.filed = filed]
<1>3. seen[o] \in Seen
  BY <1>1
<1>4. h \in Seen /\ h.created = seen[o].created
  BY <1>3 DEF Seen
<1>5. seen' = [seen EXCEPT ![o] = h]
  BY <1>1, <1>2, <1>3 DEF Keep
<1>6. StampsAreBounded'
  BY <1>1, <1>4, <1>5, StampsStay DEF Issue, stores, tables
<1>7. Running(o) /\ Kind(o) \in KindsAt("findUser") /\ "findUser" \in Steps
  BY <1>1 DEF Issue, Running, Steps, InPlace, Alive, KindsAt
<1>8. issued' \subseteq Names /\ revoked' \subseteq issued'
  BY <1>1 DEF Issue, Names
<1> HIDE DEF h
<1> QED  BY <1>4, <1>5, <1>6, <1>7, <1>8, TypedKeep DEF Issue

LEMMA TypedIssueReplyLost ==
    ASSUME Typed, [Next]_vars, NEW o \in Ops, IssueReplyLost(o) PROVE Typed'
<1>1. Running(o) /\ issued' \subseteq Names /\ revoked' \subseteq issued'
  BY DEF IssueReplyLost, Running, Steps, Typed, TypeOK, Names
<1> QED  BY <1>1, TypedDrop DEF IssueReplyLost

\* The stamp of FindUser is later than every stamp there is.
LEMMA Stamps ==
    ASSUME Typed, NEW o \in Ops, FindUser(o)
    PROVE  \E n \in Nat :
             /\ Keep(o, "created", n)
             /\ \A p \in Ops : seen[p].created < n
             /\ \A x \in Rows : certificates[x].created < n
<1> DEFINE S == {seen[p].created : p \in Ops} \cup {certificates[x].created : x \in Rows}
<1>1. PICK K \in Nat : /\ \A p \in Ops : seen[p].created <= K
                       /\ \A x \in Rows : certificates[x].created <= K
  BY DEF Typed, StampsAreBounded
<1>2. \A p \in Ops : seen[p].created \in Nat
  BY DEF Typed, TypeOK, Seen
<1>3. \A x \in Rows : certificates[x].created \in Nat
  <2>1. \A x \in Rows : certificates[x] \in Certificate
    BY RowsAre DEF Typed
  <2> QED  BY <2>1 DEF Certificate
<1>4. S \subseteq 0 .. K /\ S # {}
  <2>1. {seen[p].created : p \in Ops} \subseteq 0 .. K
    BY <1>1, <1>2
  <2>2. {certificates[x].created : x \in Rows} \subseteq 0 .. K
    BY <1>1, <1>3
  <2>3. seen[o].created \in S
    OBVIOUS
  <2> QED  BY <2>1, <2>2, <2>3
<1>5. PICK m \in S : \A y \in S : y <= m
  <2> HIDE DEF S
  <2> QED  BY <1>4, HasLargest
<1>6. Max(S) \in S /\ \A y \in S : Max(S) >= y
  <2>1. m \in S /\ \A y \in S : m >= y
    <3> HIDE DEF S
    <3> QED  BY <1>4, <1>5
  <2> HIDE DEF S
  <2> QED  BY <2>1 DEF Max
<1>7. Keep(o, "created", 1 + Max(S))
  BY DEF FindUser
<1>8. Max(S) \in Nat
  <2>1. S \subseteq Nat
    BY <1>1, <1>4
  <2> HIDE DEF S
  <2> QED  BY <1>6, <2>1
<1>9. \A p \in Ops : seen[p].created < 1 + Max(S)
  <2>1. \A p \in Ops : seen[p].created \in S
    OBVIOUS
  <2> HIDE DEF S
  <2> QED  BY <1>2, <1>6, <1>8, <2>1
<1>10. \A x \in Rows : certificates[x].created < 1 + Max(S)
  <2>1. \A x \in Rows : certificates[x].created \in S
    OBVIOUS
  <2> HIDE DEF S
  <2> QED  BY <1>3, <1>6, <1>8, <2>1
<1> HIDE DEF S
<1>11. 1 + Max(S) \in Nat
  BY <1>8
<1> QED  BY <1>7, <1>9, <1>10, <1>11

LEMMA TypedFindUser ==
    ASSUME Typed, [Next]_vars, NEW o \in Ops, FindUser(o) PROVE Typed'
<1>1. /\ seen \in [Ops -> Seen] /\ issued \subseteq Names /\ revoked \subseteq issued
      /\ InPlace(o)
  BY DEF Typed, TypeOK
<1>2. PICK n \in Nat : /\ Keep(o, "created", n)
                       /\ \A p \in Ops : seen[p].created < n
                       /\ \A x \in Rows : certificates[x].created < n
  BY Stamps
<1> DEFINE h == [seen[o] EXCEPT !.created = n]
<1>3. seen[o] \in Seen
  BY <1>1
<1>4. h \in Seen /\ h.created = n
  BY <1>3 DEF Seen
<1>5. seen' = [seen EXCEPT ![o] = h]
  BY <1>1, <1>2, <1>3 DEF Keep
<1>6. StampsAreBounded'
  <2>1. \A p \in Ops : seen'[p].created <= n
    <3>1. ASSUME NEW p \in Ops PROVE seen[p].created \in Nat
      BY <1>1 DEF Seen
    <3>2. ASSUME NEW p \in Ops PROVE seen'[p].created \in {n, seen[p].created}
      BY <1>1, <1>4, <1>5
    <3> QED  BY <1>2, <3>1, <3>2
  <2>2. Rows' = Rows /\ certificates' = certificates
    BY DEF FindUser, stores, tables, Rows
  <2>3. \A x \in Rows : certificates[x].created \in Nat
    <3>1. \A x \in Rows : certificates[x] \in Certificate
      BY RowsAre DEF Typed
    <3> QED  BY <3>1 DEF Certificate
  <2> QED  BY <1>2, <2>1, <2>2, <2>3 DEF StampsAreBounded
<1>7. Running(o) /\ Kind(o) \in KindsAt("save") /\ "save" \in Steps
  BY <1>1 DEF FindUser, Running, Steps, InPlace, Alive, KindsAt
<1>8. issued' \subseteq Names /\ revoked' \subseteq issued'
  BY <1>1 DEF FindUser, icid
<1> HIDE DEF h
<1> QED  BY <1>4, <1>5, <1>6, <1>7, <1>8, TypedKeep DEF FindUser

LEMMA TypedSave ==
    ASSUME Typed, [Next]_vars, NEW o \in Ops, Save(o) PROVE Typed'
<1> USE DEF Typed, TypeOK
<1> DEFINE row == [company |-> call[o].company, expiry |-> call[o].expiry,
                   created |-> seen[o].created, filed |-> seen[o].filed, key |-> TRUE]
<1>1. /\ certificates' = [certificates EXCEPT ![o] = row]
      /\ seen' = [seen EXCEPT ![o] = Nothing] /\ Goto(o, "done") /\ pc[o] = "save"
      /\ UNCHANGED <<now, registered, cache, icid, call, answer, began>>
  BY DEF Save
<1>2. Kind(o) = "create" /\ call[o] \in Calls /\ seen[o] \in Seen /\ o \in Names
  BY <1>1 DEF InPlace, Alive, Kind, KindsAt, Names
<1>3. row \in Certificate
  BY <1>2, CallsFit DEF Certificate, Seen, Kind
<1>4. row # None
  BY <1>3, CertificatesAssumption
<1> HIDE DEF row
<1>5. Nothing \in Seen
  BY DEF Nothing, Seen
<1>6. TypeOK'
  BY <1>1, <1>2, <1>3, <1>5 DEF Goto, Finished, icid
<1>7. InPlace(o)'
  BY <1>1, <1>2, CallsFit DEF InPlace, Alive, Kind, KindsAt, Questions, Goto
<1>8. Alone(o)
  BY <1>1 DEF Alone, Goto, Names
<1>9. StampsAreBounded'
  <2>1. PICK K \in Nat : /\ \A p \in Ops : seen[p].created <= K
                         /\ \A x \in Rows : certificates[x].created <= K
    BY DEF StampsAreBounded
  <2>2. ASSUME NEW x \in Rows' PROVE certificates'[x].created <= K
    <3>1. CASE x = o
      <4>1. certificates'[x] = row
        BY <1>1, <1>2, <3>1
      <4>2. row.created = seen[o].created
        BY DEF row
      <4> QED  BY <2>1, <4>1, <4>2
    <3>2. CASE x # o
      BY <1>1, <2>1, <2>2, <3>2 DEF Rows
    <3> QED  BY <3>1, <3>2
  <2>3. ASSUME NEW p \in Ops PROVE seen'[p].created <= K
    BY <1>1, <2>1 DEF Nothing
  <2> QED  BY <2>1, <2>2, <2>3 DEF StampsAreBounded
<1> QED  BY <1>6, <1>7, <1>8, <1>9, OthersInPlace

LEMMA TypedReadLatest ==
    ASSUME Typed, [Next]_vars, NEW o \in Ops,
           NoCertificate(o) \/ Reveal(o) \/ FindLatest(o) \/ Judge(o)
    PROVE  Typed'
<1> USE DEF Typed
<1>1. /\ pc[o] = "readLatest" /\ Running(o)
      /\ Kind(o) \in {"reveal", "deleteKey", "verify"} /\ call[o].company \in Companies
  BY CallsFit
  DEF NoCertificate, Reveal, FindLatest, Judge, Running, Steps, InPlace, Alive, Kind, KindsAt
<1>2. CASE Throw(o)
  BY <1>1, <1>2, TypedThrow
<1>3. ASSUME NEW what \in Answers, Reply(o, what), Kind(o) \in {"reveal", "verify"}
      PROVE  Typed'
  BY <1>1, <1>3, TypedReply
<1>4. {} \in Answers /\ {call[o].company} \in Answers
  BY <1>1 DEF Answers
<1>5. \A x \in Latest(call[o].company) : x \in RowsOf(call[o].company) /\ x \in Names
  BY RowsAre
<1>6. CASE NoCertificate(o)
  <2>1. Throw(o) \/ (Reply(o, {}) /\ Kind(o) = "verify")
    BY <1>6 DEF NoCertificate, Kind
  <2> QED  BY <1>2, <1>3, <1>4, <2>1
<1>7. CASE Reveal(o)
  <2>1. PICK x \in Latest(call[o].company) : Reply(o, {x}) \/ Throw(o)
    BY <1>7 DEF Reveal
  <2>2. {x} \in Answers /\ Kind(o) = "reveal"
    BY <1>5, <1>7, <2>1 DEF Answers, Reveal, Kind
  <2> QED  BY <1>2, <1>3, <2>1, <2>2
<1>8. CASE FindLatest(o)
  <2>1. PICK x \in Latest(call[o].company) : Hold(o, x, "blankKey")
    BY <1>8 DEF FindLatest
  <2>2. Kind(o) \in KindsAt("blankKey") /\ "blankKey" \in Steps
    BY <1>8 DEF FindLatest, Kind, KindsAt, Steps
  <2> QED  BY <1>1, <1>5, <2>1, <2>2, TypedHold
<1>9. CASE Judge(o)
  <2>1. PICK x \in Latest(call[o].company) :
          Reply(o, {}) \/ Reply(o, {call[o].company}) \/ Hold(o, x, "askIcid")
    BY <1>9 DEF Judge
  <2>2. Kind(o) = "verify" /\ Kind(o) \in KindsAt("askIcid") /\ "askIcid" \in Steps
    BY <1>9 DEF Judge, Kind, KindsAt, Steps
  <2>3. CASE Hold(o, x, "askIcid")
    BY <1>1, <1>5, <2>1, <2>2, <2>3, TypedHold
  <2> QED  BY <1>3, <1>4, <2>1, <2>2, <2>3
<1> QED  BY <1>6, <1>7, <1>8, <1>9

LEMMA TypedBlankKey ==
    ASSUME Typed, [Next]_vars, NEW o \in Ops, BlankKey(o) PROVE Typed'
<1> USE DEF Typed, TypeOK
<1> DEFINE r == seen[o].row
<1>1. /\ certificates' = [certificates EXCEPT ![r].key = FALSE]
      /\ Goto(o, "done") /\ pc[o] = "blankKey"
      /\ UNCHANGED <<now, registered, cache, icid, call, seen, answer, began>>
  BY DEF BlankKey
<1>2. r \in Names /\ certificates[r] # None
  BY <1>1 DEF InPlace, RowsOf, Rows
<1>3. certificates[r] \in Certificate
  BY <1>2
<1> HIDE DEF r
<1>4. certificates'[r] = [certificates[r] EXCEPT !.key = FALSE]
  BY <1>1, <1>2
<1>5. [certificates[r] EXCEPT !.key = FALSE] \in Certificate
  BY <1>3 DEF Certificate
<1>6. certificates' \in [Names -> Certificate \cup {None}]
  BY <1>1, <1>2, <1>5
<1>7. TypeOK'
  BY <1>1, <1>6 DEF Goto, Finished, icid
<1>8. Kind(o) = "deleteKey" /\ call[o] \in Calls /\ began[o] \in Arrival
  BY <1>1 DEF InPlace, Alive, Kind, KindsAt, Questions, AllKinds
<1>9. InPlace(o)'
  BY <1>1, <1>8, CallsFit DEF InPlace, Alive, Kind, KindsAt, Goto
<1>10. \A x \in Names : certificates'[x] # None => certificates[x] # None
  BY <1>1, <1>2
<1>11. Alone(o)
  BY <1>1, <1>10 DEF Alone, Goto, Names
<1>12. StampsAreBounded'
  <2>1. PICK K \in Nat : /\ \A p \in Ops : seen[p].created <= K
                         /\ \A x \in Rows : certificates[x].created <= K
    BY DEF StampsAreBounded
  <2>2. ASSUME NEW x \in Rows' PROVE certificates'[x].created <= K
    <3>1. x \in Rows
      BY <1>10, <2>2 DEF Rows
    <3> QED  BY <2>1, <3>1, RowsStay DEF RowStays
  <2> QED  BY <1>1, <2>1, <2>2 DEF StampsAreBounded
<1> QED  BY <1>7, <1>9, <1>11, <1>12, OthersInPlace

LEMMA TypedAskIcid ==
    ASSUME Typed, [Next]_vars, NEW o \in Ops, AskIcid(o) \/ AskIcidFails(o) PROVE Typed'
<1>1. Running(o)
  BY DEF AskIcid, AskIcidFails, Running, Steps
<1>2. CASE AskIcidFails(o)
  BY <1>1, <1>2, TypedThrow DEF AskIcidFails
<1>3. CASE AskIcid(o)
  <2>1. Kind(o) = "verify" /\ call[o].company \in Companies
    BY <1>3, CallsFit DEF AskIcid, Typed, InPlace, Alive, Kind, KindsAt
  <2>2. {} \in Answers /\ {call[o].company} \in Answers
    BY <2>1 DEF Answers
  <2>3. Reply(o, {}) \/ Reply(o, {call[o].company})
    BY <1>3 DEF AskIcid
  <2> QED  BY <1>1, <2>1, <2>2, <2>3, TypedReply
<1> QED  BY <1>2, <1>3

LEMMA CertifiedIs ==
    ASSUME Typed, NEW rows, rows \subseteq Rows
    PROVE  Certified(rows) \subseteq Companies
<1>1. \A x \in rows : certificates[x] \in Certificate
  BY RowsAre DEF Typed
<1> QED  BY <1>1 DEF Certified, Certificate

LEMMA TypedList ==
    ASSUME Typed, [Next]_vars, NEW o \in Ops, List(o) PROVE Typed'
<1>1. /\ seen \in [Ops -> Seen] /\ registered \subseteq Companies
      /\ issued \subseteq Names /\ revoked \subseteq issued /\ InPlace(o)
  BY DEF Typed, TypeOK
<1>2. seen[o] \in Seen
  BY <1>1
<1>3. /\ pc[o] \in {"listCompanies", "loadAll", "readAll", "batch"} /\ Running(o)
      /\ Kind(o) = "list"
  BY <1>1
  DEF List, ListCompanies, LoadAll, ReadAll, Batch, Listed, Running, Steps, InPlace, Alive, KindsAt
<1>4. ASSUME NEW h \in Seen, seen' = [seen EXCEPT ![o] = h], h.created = seen[o].created,
             NEW l \in {"loadAll", "readAll", "batch"}, Goto(o, l),
             l = "batch" => h.rest \subseteq Rows,
             UNCHANGED <<now, stores, icid, call, answer, began>>
      PROVE  Typed'
  <2>1. StampsAreBounded'
    BY <1>1, <1>4, StampsStay DEF stores, tables
  <2>2. issued' \subseteq Names /\ revoked' \subseteq issued'
    BY <1>1, <1>4 DEF icid
  <2>3. l \in Steps /\ Kind(o) \in KindsAt(l)
    BY <1>3, <1>4 DEF Steps, KindsAt
  <2> QED  BY <1>3, <1>4, <2>1, <2>2, <2>3, TypedKeep
<1>5. CASE ListCompanies(o)
  <2> DEFINE h == [seen[o] EXCEPT !.companies = registered]
  <2>1. h \in Seen /\ h.created = seen[o].created
    BY <1>1, <1>2 DEF Seen
  <2>2. seen' = [seen EXCEPT ![o] = h]
    BY <1>1, <1>2, <1>5 DEF ListCompanies, Keep
  <2> HIDE DEF h
  <2> QED  BY <1>4, <1>5, <2>1, <2>2 DEF ListCompanies
<1>6. CASE LoadAll(o)
  <2>1. CASE Throw(o)
    BY <1>3, <2>1, TypedThrow
  <2>2. CASE ~Throw(o)
    <3> DEFINE h == [seen[o] EXCEPT !.companies = seen[o].companies \cap registered]
    <3>1. h \in Seen /\ h.created = seen[o].created
      BY <1>1, <1>2 DEF Seen
    <3>2. seen' = [seen EXCEPT ![o] = h]
      BY <1>1, <1>2, <1>6, <2>2 DEF LoadAll, Keep
    <3> HIDE DEF h
    <3> QED  BY <1>4, <1>6, <2>2, <3>1, <3>2 DEF LoadAll
  <2> QED  BY <2>1, <2>2
<1>7. CASE ReadAll(o)
  <2> DEFINE rest == UNION {Latest(c) : c \in seen[o].companies}
             h == [seen[o] EXCEPT !.rest = rest]
  <2>1. rest \subseteq Rows /\ Rows \subseteq Names
    BY RowsAre DEF Typed
  <2>2. h \in Seen /\ h.created = seen[o].created /\ h.rest = rest
    <3> HIDE DEF rest
    <3> QED  BY <1>2, <2>1 DEF Seen
  <2>3. seen' = [seen EXCEPT ![o] = h]
    BY <1>1, <1>2, <1>7 DEF ReadAll, Keep
  <2> HIDE DEF h, rest
  <2> QED  BY <1>4, <1>7, <2>1, <2>2, <2>3 DEF ReadAll
<1>8. CASE Batch(o)
  <2>1. PICK batch \in SUBSET seen[o].rest :
          seen' = [seen EXCEPT ![o].rest = @ \ batch,
                               ![o].certified = @ \cup Certified(batch)]
    BY <1>8 DEF Batch
  <2>2. seen[o].rest \subseteq Rows
    BY <1>1, <1>8 DEF Batch, InPlace
  <2>3. Certified(batch) \subseteq Companies
    BY <2>1, <2>2, CertifiedIs
  <2> DEFINE h == [seen[o] EXCEPT !.rest = @ \ batch, !.certified = @ \cup Certified(batch)]
  <2>4. h \in Seen /\ h.created = seen[o].created /\ h.rest \subseteq Rows
    BY <1>2, <2>2, <2>3 DEF Seen
  <2>5. seen' = [seen EXCEPT ![o] = h]
    BY <1>1, <1>2, <2>1
  <2>6. Goto(o, "batch")
    BY <1>8 DEF Batch, Goto, Typed, TypeOK
  <2> HIDE DEF h
  <2> QED  BY <1>4, <1>8, <2>4, <2>5, <2>6 DEF Batch
<1>9. CASE Listed(o)
  <2>1. seen[o].certified \in Answers
    BY <1>2 DEF Seen, Answers
  <2> QED  BY <1>3, <1>9, <2>1, TypedReply DEF Listed
<1> QED  BY <1>5, <1>6, <1>7, <1>8, <1>9 DEF List

\* A certificate is issued before it has a row.
IssuedFirst ==
    /\ Rows \subseteq issued
    /\ \A o \in Ops : pc[o] \in {"findUser", "save"} => o \in issued

LEMMA IssuedFirstInit == Init => IssuedFirst
<1> SUFFICES ASSUME Init PROVE IssuedFirst
  OBVIOUS
<1>1. Rows \subseteq Old
  <2>1. PICK old \in [Old -> OldRows] :
          certificates = [x \in Names |-> IF x \in Old THEN old[x] ELSE None]
    BY DEF Init
  <2> QED  BY <2>1 DEF Rows
<1> QED  BY <1>1 DEF Init, IssuedFirst

LEMMA IssuedFirstNext ==
    ASSUME Typed, [Next]_vars, IssuedFirst PROVE IssuedFirst'
<1> USE DEF Typed, TypeOK
<1>1. ASSUME issued \subseteq issued', certificates' = certificates,
             \A o \in Ops : pc'[o] \in {"findUser", "save"} => pc[o] = pc'[o] \/ o \in issued'
      PROVE  IssuedFirst'
  BY <1>1 DEF IssuedFirst, Rows
<1>2. ASSUME NEW o \in Ops, Create(o) PROVE IssuedFirst'
  <2>1. CASE Issue(o)
    BY <1>1, <2>1 DEF Issue, Goto, stores, tables
  <2>2. CASE IssueFails(o) \/ NoUser(o)
    BY <1>1, <2>2 DEF IssueFails, NoUser, Throw, Drop, Goto, tables, icid
  <2>3. CASE IssueReplyLost(o)
    BY <1>1, <2>3 DEF IssueReplyLost, Drop, Goto, tables
  <2>4. CASE FindUser(o)
    BY <1>1, <2>4 DEF FindUser, Goto, stores, tables, icid, IssuedFirst
  <2>5. CASE Save(o)
    <3>1. Rows' \subseteq Rows \cup {o}
      BY <2>5 DEF Save, Rows
    <3>2. issued' = issued /\ o \in issued
      BY <2>5 DEF Save, icid, IssuedFirst
    <3>3. pc' = [pc EXCEPT ![o] = "done"]
      BY <2>5 DEF Save, Goto
    <3> QED  BY <3>1, <3>2, <3>3 DEF IssuedFirst
  <2> QED  BY <1>2, <2>1, <2>2, <2>3, <2>4, <2>5 DEF Create
<1>3. ASSUME NEW o \in Ops,
             Start(o) \/ Refused(o) \/ Cached(o) \/ LoadCompany(o) \/ DeleteCompany(o)
      PROVE  IssuedFirst'
  BY <1>1, <1>3
  DEF Start, Refused, Throw, Drop, Cached, LoadCompany, Read, DeleteCompany, Goto, tables,
      stores, icid
<1>4. ASSUME NEW o \in Ops, NoCertificate(o) \/ Reveal(o) \/ FindLatest(o)
      PROVE  IssuedFirst'
  BY <1>1, <1>4
  DEF NoCertificate, Reveal, FindLatest, Hold, Reply, Throw, Drop, Goto, tables, stores, icid
<1>5. ASSUME NEW o \in Ops, BlankKey(o) PROVE IssuedFirst'
  <2>1. Rows' \subseteq Rows
    BY <1>5 DEF BlankKey, Rows, InPlace, RowsOf
  <2> QED  BY <1>5, <2>1 DEF BlankKey, Goto, icid, IssuedFirst
<1>6. ASSUME NEW o \in Ops, Verify(o) \/ List(o)
      PROVE  IssuedFirst'
  BY <1>1, <1>6
  DEF Verify, Judge, AskIcid, AskIcidFails, List, ListCompanies, LoadAll, ReadAll, Batch, Listed,
      Hold, Reply, Throw, Drop, Goto, tables, stores, icid
<1>7. ASSUME Tick \/ (\E y \in Names : Revoke(y)) \/ UNCHANGED vars
      PROVE  IssuedFirst'
  BY <1>1, <1>7 DEF Tick, Revoke, tables, stores, vars, icid
<1> QED  BY <1>2, <1>3, <1>4, <1>5, <1>6, <1>7 DEF Next

\* Steps of the rest of the world move no request.
LEMMA TypedWorld ==
    ASSUME Typed, [Next]_vars, IssuedFirst,
           Tick \/ (\E x \in Names : Revoke(x)) \/ UNCHANGED vars
    PROVE  Typed'
<1> USE DEF Typed, TypeOK
<1>1. UNCHANGED <<tables, issued, pc, call, seen, answer, began>>
  BY DEF Tick, Revoke, vars, icid, stores, tables
<1>2. now' \in Times
  BY CertificatesAssumption DEF Tick, Revoke, vars, Times
<1>3. revoked' \subseteq issued'
  <2>1. CASE Tick \/ UNCHANGED vars
    BY <2>1 DEF Tick, vars, icid
  <2>2. ASSUME NEW x \in Names, Revoke(x) PROVE revoked' \subseteq issued'
    BY <2>2 DEF Revoke, IssuedFirst
  <2> QED  BY <2>1, <2>2
<1>4. cache' \in [Pages -> Response \cup {None}]
  <2>1. CASE Tick
    BY <2>1 DEF Tick
  <2>2. CASE ~Tick
    BY <2>2 DEF Revoke, vars, stores
  <2> QED  BY <2>1, <2>2
<1>5. TypeOK'
  BY <1>1, <1>2, <1>3, <1>4 DEF tables
<1>6. \A o \in Ops : InPlace(o)'
  BY <1>1 DEF InPlace, Alive, Kind, RowsOf, Rows, tables
<1>7. StampsAreBounded'
  BY <1>1, StampsStay DEF tables
<1> QED  BY <1>5, <1>6, <1>7

LEMMA TypedDeleteCompany ==
    ASSUME Typed, [Next]_vars, NEW o \in Ops, DeleteCompany(o) PROVE Typed'
<1> USE DEF Typed, TypeOK
<1>1. /\ registered' \subseteq registered /\ Goto(o, "done") /\ pc[o] = "deleteCompany"
      /\ UNCHANGED <<now, certificates, cache, icid, call, seen, answer, began>>
  BY DEF DeleteCompany
<1>2. Kind(o) = "deleteCompany" /\ call[o] \in Calls
  BY <1>1 DEF InPlace, Alive, Kind, KindsAt
<1>3. TypeOK'
  BY <1>1 DEF Goto, Finished, icid
<1>4. InPlace(o)'
  BY <1>1, <1>2, CallsFit DEF InPlace, Alive, Kind, KindsAt, Questions, Goto
<1>5. Alone(o)
  BY <1>1 DEF Alone, Goto
<1>6. StampsAreBounded'
  BY <1>1, StampsStay
<1> QED  BY <1>3, <1>4, <1>5, <1>6, OthersInPlace

LEMMA TypedRefused ==
    ASSUME Typed, [Next]_vars, NEW o \in Ops,
           Refused(o) \/ IssueFails(o) \/ NoUser(o)
    PROVE  Typed'
<1>1. Running(o) /\ Throw(o)
  BY DEF Refused, IssueFails, NoUser, Running, Steps
<1> QED  BY <1>1, TypedThrow

LEMMA TypedNext ==
    ASSUME Typed, IssuedFirst, [Next]_vars PROVE Typed'
<1>1. ASSUME NEW o \in Ops, Create(o) PROVE Typed'
  BY <1>1, TypedIssue, TypedIssueReplyLost, TypedRefused, TypedFindUser, TypedSave DEF Create
<1>2. ASSUME NEW o \in Ops, Verify(o) PROVE Typed'
  BY <1>2, TypedReadLatest, TypedAskIcid DEF Verify
<1>3. ASSUME NEW o \in Ops,
         \/ Start(o) \/ Refused(o) \/ Cached(o) \/ LoadCompany(o) \/ Create(o)
         \/ NoCertificate(o) \/ Reveal(o) \/ FindLatest(o) \/ BlankKey(o)
         \/ Verify(o) \/ List(o) \/ DeleteCompany(o)
      PROVE  Typed'
  BY <1>1, <1>2, <1>3, TypedStart, TypedRefused, TypedCached, TypedLoadCompany,
     TypedReadLatest, TypedBlankKey, TypedList, TypedDeleteCompany
<1> QED  BY <1>3, TypedWorld DEF Next

\* The variables hold what they should: in particular what a request reads from a
\* row it found earlier is still there.
THEOREM TypeCorrect == Spec => []TypeOK
<1>1. Init => Typed /\ IssuedFirst
  BY TypedInit, IssuedFirstInit
<1>2. Typed /\ IssuedFirst /\ [Next]_vars => Typed' /\ IssuedFirst'
  BY TypedNext, IssuedFirstNext
<1>3. Typed => TypeOK
  BY DEF Typed
<1> QED  BY <1>1, <1>2, <1>3, PTL DEF Spec

-----------------------------------------------------------------------------
(* Where answers come from.                                                *)

LEMMA OnlyGrow ==
    ASSUME Typed, [Next]_vars
    PROVE  /\ now \in Int /\ now' \in Int /\ now <= now'
           /\ issued \subseteq issued' /\ revoked \subseteq revoked'
<1>1. now \in Int
  BY CertificatesAssumption DEF Typed, TypeOK, Times
<1>2. CASE Tick \/ (\E x \in Names : Revoke(x)) \/ UNCHANGED vars
  BY <1>1, <1>2 DEF Tick, Revoke, vars, icid
<1>3. ASSUME NEW o \in Ops, Create(o)
      PROVE  now' = now /\ issued \subseteq issued' /\ revoked' = revoked
  BY <1>3 DEF Create, Issue, IssueFails, IssueReplyLost, FindUser, NoUser, Save, Throw, Drop, icid
<1>4. ASSUME NEW o \in Ops,
         \/ Start(o) \/ Refused(o) \/ Cached(o) \/ LoadCompany(o)
         \/ NoCertificate(o) \/ Reveal(o) \/ FindLatest(o) \/ BlankKey(o)
         \/ Verify(o) \/ List(o) \/ DeleteCompany(o)
      PROVE  now' = now /\ issued' = issued /\ revoked' = revoked
  BY <1>4
  DEF Start, Refused, Throw, Drop, Cached, LoadCompany, Read, NoCertificate, Reply, Reveal,
      FindLatest, Hold, BlankKey, Verify, Judge, AskIcid, AskIcidFails, List, ListCompanies,
      LoadAll, ReadAll, Batch, Listed, DeleteCompany, icid
<1> QED  BY <1>1, <1>2, <1>3, <1>4 DEF Next

\* A request that stands for something did so before, or arrives.
LEMMA Arrives ==
    ASSUME Typed, [Next]_vars, NEW o \in Ops, Alive(o)'
    PROVE  \/ Alive(o) /\ call'[o] = call[o] /\ began'[o] = began[o]
           \/ Start(o)
<1> USE DEF Typed, TypeOK
<1>1. ASSUME NEW p \in Ops, Throw(p) \/ Drop(p)
      PROVE  Alive(o) /\ call'[o] = call[o] /\ began'[o] = began[o]
  BY <1>1 DEF Throw, Drop, Goto, Alive
<1>2. ASSUME NEW p \in Ops, Running(p), UNCHANGED <<call, began>>,
             \A q \in Ops \ {p} : pc'[q] = pc[q]
      PROVE  Alive(o) /\ call'[o] = call[o] /\ began'[o] = began[o]
  BY <1>2 DEF Alive, Running, Steps
<1>3. ASSUME NEW p \in Ops, Start(p), ~Start(o)
      PROVE  Alive(o) /\ call'[o] = call[o] /\ began'[o] = began[o]
  BY <1>3 DEF Start, Goto, Alive
<1>4. ASSUME NEW p \in Ops, Refused(p) \/ LoadCompany(p) \/ Cached(p) \/ DeleteCompany(p)
      PROVE  Alive(o) /\ call'[o] = call[o] /\ began'[o] = began[o]
  BY <1>1, <1>2, <1>4
  DEF Refused, LoadCompany, Cached, DeleteCompany, Read, Goto, Running, Steps
<1>5. ASSUME NEW p \in Ops, Create(p)
      PROVE  Alive(o) /\ call'[o] = call[o] /\ began'[o] = began[o]
  BY <1>1, <1>2, <1>5
  DEF Create, Issue, IssueFails, IssueReplyLost, FindUser, NoUser, Save, Goto, Running, Steps
<1>6. ASSUME NEW p \in Ops, NoCertificate(p) \/ Reveal(p) \/ FindLatest(p) \/ BlankKey(p)
      PROVE  Alive(o) /\ call'[o] = call[o] /\ began'[o] = began[o]
  BY <1>1, <1>2, <1>6
  DEF NoCertificate, Reveal, FindLatest, BlankKey, Reply, Hold, Goto, Running, Steps
<1>7. ASSUME NEW p \in Ops, Verify(p) \/ List(p)
      PROVE  Alive(o) /\ call'[o] = call[o] /\ began'[o] = began[o]
  BY <1>1, <1>2, <1>7
  DEF Verify, Judge, AskIcid, AskIcidFails, List, ListCompanies, LoadAll, ReadAll, Batch, Listed,
      Reply, Hold, Goto, Running, Steps
<1>8. CASE Tick \/ (\E x \in Names : Revoke(x)) \/ UNCHANGED vars
  BY <1>8 DEF Tick, Revoke, vars, Alive
<1> QED  BY <1>3, <1>4, <1>5, <1>6, <1>7, <1>8 DEF Next

Deletions == {d \in Ops : pc[d] = "done" /\ Kind(d) = "deleteKey"}

\* What was there when o arrived is still there.
ArrivedBefore(o) ==
    Alive(o) /\ Kind(o) \in Questions =>
      /\ began[o].time <= now
      /\ began[o].rows \subseteq Rows
      /\ began[o].revoked \subseteq revoked
      /\ began[o].deleted \subseteq Deletions

LEMMA ArrivedBeforeNext ==
    ASSUME Typed, [Next]_vars, NEW o \in Ops, ArrivedBefore(o)
    PROVE  ArrivedBefore(o)'
<1> SUFFICES ASSUME Alive(o)', Kind(o)' \in Questions
             PROVE  /\ began'[o].time <= now'
                    /\ began'[o].rows \subseteq Rows'
                    /\ began'[o].revoked \subseteq revoked'
                    /\ began'[o].deleted \subseteq Deletions'
  BY DEF ArrivedBefore
<1>1. now \in Int /\ now' \in Int /\ now <= now' /\ revoked \subseteq revoked'
  BY OnlyGrow
<1>2. Rows \subseteq Rows'
  BY RowsOfGrow
<1>3. Deletions \subseteq Deletions'
  BY DoneStays DEF Deletions, Kind
<1>4. CASE Alive(o) /\ call'[o] = call[o] /\ began'[o] = began[o]
  <2>1. began[o] \in Arrival /\ began[o].time \in Int
    BY <1>4, CertificatesAssumption DEF Typed, InPlace, Kind, Arrival, Times
  <2> QED  BY <1>1, <1>2, <1>3, <1>4, <2>1 DEF ArrivedBefore, Kind
<1>5. CASE Start(o)
  <2>1. began'[o] = Arrived
    BY <1>5 DEF Start, Kind, Questions, AllKinds, Typed, TypeOK
  <2>2. Arrived.time = now /\ Arrived.rows = Rows /\ Arrived.revoked = revoked
        /\ Arrived.deleted = Deletions
    BY DEF Arrived, Deletions, Kind
  <2> QED  BY <1>1, <1>2, <1>3, <2>1, <2>2
<1> QED  BY <1>4, <1>5, Arrives

\* A cached response is the answer to a request of this page, or one of the past.
MadeBy(response, k) ==
    LET p == response.by IN
    p # None => /\ pc[p] = "done" /\ Kind(p) \in {"reveal", "list"}
                /\ PageOf(p) = k /\ answer[p] = response

\* The past left nothing for list.
Fits(response, k) ==
    /\ response \in Response
    /\ MadeBy(response, k)
    /\ response.by = None /\ k = "all" => response.what = None

CacheIsMade ==
    \A k \in Pages : cache[k] # None =>
      /\ Fits(cache[k], k)
      /\ cache[k].stored <= now /\ now < cache[k].stored + Ttl

AnswerIsMade(o) ==
    pc[o] = "done" /\ Kind(o) \in {"reveal", "verify", "list"} =>
      /\ Fresh(o)
      /\ Kind(o) = "verify" => answer[o].by = o
      /\ Kind(o) # "verify" => Fits(answer[o], PageOf(o))
      /\ Kind(o) = "list" => answer[o].by # None

SourceInv ==
    /\ Typed /\ IssuedFirst /\ CacheIsMade
    /\ \A o \in Ops : ArrivedBefore(o) /\ AnswerIsMade(o)

LEMMA SourceInit == Init => SourceInv
<1> SUFFICES ASSUME Init PROVE SourceInv
  OBVIOUS
<1>1. Typed /\ IssuedFirst
  BY TypedInit, IssuedFirstInit
<1>2. PICK shown \in SUBSET Companies :
        cache = [k \in Pages |-> IF k \in shown
                   THEN [what |-> Latest(k), by |-> None, stored |-> 0] ELSE None]
  BY DEF Init
<1>3. CacheIsMade
  <2> SUFFICES ASSUME NEW k \in Pages, cache[k] # None
               PROVE  /\ Fits(cache[k], k)
                      /\ cache[k].stored <= now /\ now < cache[k].stored + Ttl
    BY DEF CacheIsMade
  <2>1. k \in shown /\ cache[k] = [what |-> Latest(k), by |-> None, stored |-> 0]
    BY <1>2
  <2>2. k # "all"
    BY <2>1, CertificatesAssumption
  <2>3. cache[k] \in Response
    BY <1>1 DEF Typed, TypeOK
  <2> QED
    BY <2>1, <2>2, <2>3, CertificatesAssumption DEF Fits, MadeBy, Init
<1>4. \A o \in Ops : ArrivedBefore(o) /\ AnswerIsMade(o)
  BY DEF Init, ArrivedBefore, AnswerIsMade, Alive
<1> QED  BY <1>1, <1>3, <1>4 DEF SourceInv

LEMMA FitsStays ==
    ASSUME Typed, [Next]_vars
    PROVE  \A response, k : Fits(response, k) => Fits(response, k)'
<1>1. \A p \in Ops : pc[p] = "done" => /\ pc'[p] = "done" /\ call'[p] = call[p]
                                       /\ answer'[p] = answer[p]
  BY DoneStays
<1> QED  BY <1>1 DEF Fits, MadeBy, PageOf, Kind, Response

\* What a reply puts into the cache and sends out.
LEMMA ReplyFits ==
    ASSUME Typed, NEW o \in Ops, NEW what \in Answers, Reply(o, what),
           Kind(o) \in {"reveal", "list"}
    PROVE  /\ Fits([what |-> what, by |-> o, stored |-> now], PageOf(o))'
           /\ answer'[o] = [what |-> what, by |-> o, stored |-> now]'
<1> DEFINE response == [what |-> what, by |-> o, stored |-> now]
<1>1. response \in Response /\ response.by = o /\ o # None
  BY CertificatesAssumption DEF Response, Typed, TypeOK
<1>2. /\ answer'[o] = response /\ pc'[o] = "done" /\ call' = call /\ now' = now
  BY DEF Reply, Typed, TypeOK, Goto
<1>3. response' = response /\ PageOf(o)' = PageOf(o) /\ Kind(o)' = Kind(o)
  BY <1>2 DEF PageOf, Kind
<1> HIDE DEF response
<1>4. Fits(response, PageOf(o))'
  BY <1>1, <1>2, <1>3 DEF Fits, MadeBy
<1> QED  BY <1>2, <1>3, <1>4 DEF response

LEMMA Replies ==
    ASSUME Typed, [Next]_vars
    PROVE  \/ UNCHANGED <<now, cache>>
           \/ \E o \in Ops : Drop(o)
           \/ \E o \in Ops : \E what \in Answers : Reply(o, what)
           \/ Tick
<1> DEFINE G == \/ UNCHANGED <<now, cache>>
                \/ \E o \in Ops : Drop(o)
                \/ \E o \in Ops : \E what \in Answers : Reply(o, what)
                \/ Tick
<1>1. ASSUME NEW o \in Ops, Throw(o) \/ Drop(o) PROVE G
  BY <1>1 DEF Throw
<1>2. ASSUME NEW o \in Ops, NEW what \in Answers, Reply(o, what) PROVE G
  BY <1>2
<1>3. ASSUME UNCHANGED <<now, cache>> PROVE G
  BY <1>3
<1> HIDE DEF G
<1>4. ASSUME NEW o \in Ops, Kind(o) # "list", pc[o] \in {"readLatest", "askIcid"}
      PROVE  {} \in Answers /\ {call[o].company} \in Answers
  BY <1>4, CallsFit DEF Answers, Typed, InPlace, Alive, Kind
<1>5. ASSUME NEW o \in Ops, pc[o] \in {"readLatest", "askIcid"} PROVE Kind(o) # "list"
  BY <1>5 DEF Typed, InPlace, Alive, KindsAt
<1>6. ASSUME NEW o \in Ops, NoCertificate(o) PROVE G
  <2>1. Throw(o) \/ Reply(o, {})
    BY <1>6 DEF NoCertificate
  <2> QED  BY <1>1, <1>2, <1>4, <1>5, <1>6, <2>1 DEF NoCertificate
<1>7. ASSUME NEW o \in Ops, Reveal(o) PROVE G
  <2>1. PICK x \in Latest(call[o].company) : Reply(o, {x}) \/ Throw(o)
    BY <1>7 DEF Reveal
  <2>2. {x} \in Answers
    BY <2>1, RowsAre DEF Answers, Typed
  <2> QED  BY <1>1, <1>2, <2>1, <2>2
<1>8. ASSUME NEW o \in Ops, Judge(o) \/ AskIcid(o) PROVE G
  <2>1. \/ Reply(o, {}) \/ Reply(o, {call[o].company})
        \/ \E x \in Latest(call[o].company) : Hold(o, x, "askIcid")
    BY <1>8 DEF Judge, AskIcid
  <2>2. ASSUME NEW x \in Latest(call[o].company), Hold(o, x, "askIcid") PROVE G
    BY <1>3, <2>2 DEF Hold, stores
  <2>3. {} \in Answers /\ {call[o].company} \in Answers
    BY <1>4, <1>5, <1>8 DEF Judge, AskIcid
  <2> QED  BY <1>2, <2>1, <2>2, <2>3
<1>9. ASSUME NEW o \in Ops, List(o) PROVE G
  <2>1. CASE Listed(o)
    <3>1. seen[o].certified \in Answers
      BY DEF Typed, TypeOK, Seen, Answers
    <3> QED  BY <1>2, <2>1, <3>1 DEF Listed
  <2>2. CASE ~Listed(o)
    BY <1>1, <1>3, <1>9, <2>2 DEF List, ListCompanies, LoadAll, ReadAll, Batch, stores
  <2> QED  BY <2>1, <2>2
<1>10. ASSUME NEW o \in Ops, Create(o) PROVE G
  BY <1>1, <1>3, <1>10
  DEF Create, Issue, IssueFails, IssueReplyLost, FindUser, NoUser, Save, stores
<1>11. ASSUME NEW o \in Ops,
         \/ Start(o) \/ Refused(o) \/ Cached(o) \/ LoadCompany(o)
         \/ FindLatest(o) \/ BlankKey(o) \/ AskIcidFails(o) \/ DeleteCompany(o)
      PROVE  G
  BY <1>1, <1>3, <1>11
  DEF Start, Refused, Cached, LoadCompany, Read, FindLatest, Hold, BlankKey, AskIcidFails,
      DeleteCompany, stores
<1>12. ASSUME Tick \/ (\E x \in Names : Revoke(x)) \/ UNCHANGED vars PROVE G
  BY <1>3, <1>12 DEF Revoke, vars, stores, G
<1>13. G
  BY <1>6, <1>7, <1>8, <1>9, <1>10, <1>11, <1>12 DEF Next, Verify
<1> QED  BY <1>13 DEF G

LEMMA CacheIsMadeNext ==
    ASSUME Typed, [Next]_vars, CacheIsMade PROVE CacheIsMade'
<1> SUFFICES ASSUME NEW k \in Pages, cache'[k] # None
             PROVE  /\ Fits(cache[k], k)'
                    /\ cache'[k].stored <= now' /\ now' < cache'[k].stored + Ttl
  BY DEF CacheIsMade
<1>1. now \in Nat /\ cache \in [Pages -> Response \cup {None}] /\ Ttl \in Nat /\ Ttl > 0
  BY CertificatesAssumption DEF Typed, TypeOK, Times
<1>2. ASSUME now' = now, cache'[k] = cache[k]
      PROVE  /\ Fits(cache[k], k)'
             /\ cache'[k].stored <= now' /\ now' < cache'[k].stored + Ttl
  BY <1>2, FitsStays DEF CacheIsMade
<1>3. CASE UNCHANGED <<now, cache>>
  BY <1>2, <1>3
<1>4. ASSUME NEW o \in Ops, Drop(o)
      PROVE  /\ Fits(cache[k], k)'
             /\ cache'[k].stored <= now' /\ now' < cache'[k].stored + Ttl
  <2>1. now' = now /\ (cache'[k] = cache[k]
                      \/ cache'[k] = [what |-> None, by |-> None, stored |-> now])
    BY <1>1, <1>4 DEF Drop
  <2>2. [what |-> None, by |-> None, stored |-> now] \in Response
    BY DEF Response, Typed, TypeOK
  <2>3. CASE cache'[k] = [what |-> None, by |-> None, stored |-> now]
    <3>1. Fits(cache[k], k)'
      BY <2>2, <2>3 DEF Fits, MadeBy, Response
    <3> QED  BY <1>1, <2>1, <2>3, <3>1
  <2> QED  BY <1>2, <2>1, <2>3
<1>5. ASSUME NEW o \in Ops, NEW what \in Answers, Reply(o, what)
      PROVE  /\ Fits(cache[k], k)'
             /\ cache'[k].stored <= now' /\ now' < cache'[k].stored + Ttl
  <2> DEFINE response == [what |-> what, by |-> o, stored |-> now]
  <2>1. now' = now /\ (cache'[k] = cache[k]
           \/ (Kind(o) \in {"reveal", "list"} /\ k = PageOf(o) /\ cache'[k] = response))
    BY <1>1, <1>5 DEF Reply, Kind
  <2>2. CASE Kind(o) \in {"reveal", "list"} /\ k = PageOf(o) /\ cache'[k] = response
    <3>1. Fits(response, PageOf(o))'
      BY <1>5, <2>2, ReplyFits
    <3>2. PageOf(o)' = PageOf(o) /\ response' = response
      BY <1>5 DEF Reply, PageOf
    <3>3. Fits(cache[k], k)'
      BY <2>2, <3>1, <3>2 DEF Fits, MadeBy, PageOf
    <3> QED  BY <1>1, <2>1, <2>2, <3>3
  <2> QED  BY <1>2, <2>1, <2>2
<1>6. CASE Tick
  <2>1. cache'[k] = cache[k] /\ now' = now + 1 /\ ~(cache[k].stored + Ttl <= now')
    BY <1>6 DEF Tick
  <2>2. cache[k].stored \in Nat
    BY <1>1, <2>1 DEF Response, Times
  <2>3. Fits(cache[k], k)'
    BY <2>1, FitsStays DEF CacheIsMade
  <2>4. cache[k].stored <= now
    BY <2>1 DEF CacheIsMade
  <2> QED  BY <1>1, <2>1, <2>2, <2>3, <2>4
<1> QED  BY <1>3, <1>4, <1>5, <1>6, Replies

\* A question is answered by one of these steps.
LEMMA Finishes ==
    ASSUME Typed, [Next]_vars, NEW o \in Ops, pc[o] # "done", pc'[o] = "done",
           Kind(o)' \in {"reveal", "verify", "list"}
    PROVE  \/ Cached(o) \/ Reveal(o) \/ Listed(o)
           \/ NoCertificate(o) \/ Judge(o) \/ AskIcid(o)
<1> USE DEF Typed, TypeOK
<1>1. ASSUME NEW p \in Ops, Throw(p) \/ Drop(p) PROVE FALSE
  BY <1>1 DEF Throw, Drop, Goto
<1>2. ASSUME NEW p \in Ops, NEW l \in Steps, Goto(p, l) PROVE FALSE
  BY <1>2 DEF Goto, Steps
<1>3. ASSUME NEW p \in Ops, Goto(p, "done"), p # o PROVE FALSE
  BY <1>3 DEF Goto
<1>4. ASSUME NEW p \in Ops, UNCHANGED pc PROVE FALSE
  BY <1>4
<1>5. ASSUME NEW p \in Ops, Start(p) \/ Refused(p) \/ LoadCompany(p) PROVE FALSE
  <2>1. Goto(p, "cached") \/ Goto(p, "load") \/ Throw(p)
        \/ (\E l \in {"issue", "deleteCompany", "readLatest"} : Goto(p, l))
    BY <1>5 DEF Start, Refused, LoadCompany, Read
  <2> QED  BY <1>1, <1>2, <2>1 DEF Steps
<1>6. ASSUME NEW p \in Ops, Create(p) PROVE FALSE
  <2>1. CASE Save(p)
    <3>1. p = o
      BY <1>3, <2>1 DEF Save
    <3>2. Kind(p) = "create" /\ call' = call
      BY <2>1 DEF Save, InPlace, Alive, Kind, KindsAt
    <3> QED  BY <3>1, <3>2 DEF Kind
  <2>2. CASE ~Save(p)
    BY <1>1, <1>2, <1>6, <2>2
    DEF Create, Issue, IssueFails, IssueReplyLost, FindUser, NoUser, Steps
  <2> QED  BY <2>1, <2>2
<1>7. ASSUME NEW p \in Ops, BlankKey(p) \/ DeleteCompany(p) PROVE FALSE
  <2>1. p = o
    BY <1>3, <1>7 DEF BlankKey, DeleteCompany
  <2>2. Kind(p) \in {"deleteKey", "deleteCompany"} /\ call' = call
    BY <1>7 DEF BlankKey, DeleteCompany, InPlace, Alive, Kind, KindsAt
  <2> QED  BY <2>1, <2>2 DEF Kind
<1>8. ASSUME NEW p \in Ops, FindLatest(p) \/ AskIcidFails(p) PROVE FALSE
  BY <1>1, <1>2, <1>8 DEF FindLatest, AskIcidFails, Hold, Steps
<1>9. ASSUME NEW p \in Ops, List(p), ~Listed(o) PROVE FALSE
  <2>1. CASE Listed(p)
    BY <1>3, <1>9, <2>1 DEF Listed, Reply
  <2>2. CASE ~Listed(p)
    BY <1>1, <1>2, <1>4, <1>9, <2>2 DEF List, ListCompanies, LoadAll, ReadAll, Batch, Steps
  <2> QED  BY <2>1, <2>2
<1>10. ASSUME NEW p \in Ops, p # o,
              Cached(p) \/ Reveal(p) \/ NoCertificate(p) \/ Judge(p) \/ AskIcid(p)
       PROVE  FALSE
  <2>1. pc'[o] = pc[o]
    BY <1>10
    DEF Cached, Read, Reveal, NoCertificate, Judge, AskIcid, Reply, Throw, Drop, Hold, Goto
  <2> QED  BY <2>1
<1>11. ASSUME Tick \/ (\E x \in Names : Revoke(x)) \/ UNCHANGED vars PROVE FALSE
  BY <1>11 DEF Tick, Revoke, vars
<1> QED
  BY <1>5, <1>6, <1>7, <1>8, <1>9, <1>10, <1>11 DEF Next, Verify

\* What a reply leaves.
LEMMA AfterReply ==
    ASSUME Typed, NEW o \in Ops, NEW what, Reply(o, what)
    PROVE  /\ answer'[o] = [what |-> what, by |-> o, stored |-> now]
           /\ UNCHANGED <<now, registered, certificates, issued, revoked, call, seen, began>>
BY DEF Reply, Typed, TypeOK, tables, icid

\* A question that is answered is answered with what was found, or with what the
\* cache has.
LEMMA WhatIsAnswered ==
    ASSUME Typed, [Next]_vars, NEW o \in Ops, pc[o] # "done", pc'[o] = "done",
           Kind(o)' \in {"reveal", "verify", "list"}
    PROVE  /\ UNCHANGED <<now, registered, certificates, issued, revoked, call, seen, began>>
           /\ \/ \E what \in Answers : Reply(o, what)
              \/ /\ Kind(o) \in {"reveal", "list"}
                 /\ PageOf(o) \in Pages /\ cache[PageOf(o)] # None
                 /\ cache[PageOf(o)].what # None
                 /\ answer'[o] = cache[PageOf(o)]
<1> USE DEF Typed
<1>1. ASSUME NEW what \in Answers, Reply(o, what)
      PROVE  /\ UNCHANGED <<now, registered, certificates, issued, revoked, call, seen, began>>
             /\ \E w \in Answers : Reply(o, w)
  BY <1>1, AfterReply
<1>2. ~Throw(o)
  BY DEF Throw, Drop, Goto, TypeOK
<1>3. \A x \in Names : ~Hold(o, x, "askIcid")
  BY DEF Hold, Goto, TypeOK
<1>4. ASSUME pc[o] \in {"readLatest", "askIcid"}
      PROVE  {} \in Answers /\ {call[o].company} \in Answers
  BY <1>4, CallsFit DEF Answers, InPlace, Alive, Kind, KindsAt
<1>5. \A x \in Latest(call[o].company) : x \in Names /\ {x} \in Answers
  BY RowsAre DEF Answers
<1>6. CASE NoCertificate(o)
  BY <1>1, <1>2, <1>4, <1>6 DEF NoCertificate
<1>7. CASE Reveal(o)
  BY <1>1, <1>2, <1>5, <1>7 DEF Reveal
<1>8. CASE Judge(o)
  <2>1. \/ Reply(o, {}) \/ Reply(o, {call[o].company})
        \/ \E x \in Latest(call[o].company) : Hold(o, x, "askIcid")
    BY <1>8 DEF Judge
  <2> QED  BY <1>1, <1>3, <1>4, <1>5, <1>8, <2>1 DEF Judge
<1>9. CASE AskIcid(o)
  <2>1. Reply(o, {}) \/ Reply(o, {call[o].company})
    BY <1>9 DEF AskIcid
  <2> QED  BY <1>1, <1>4, <1>9, <2>1 DEF AskIcid
<1>10. CASE Listed(o)
  <2>1. seen[o].certified \in Answers
    BY DEF TypeOK, Seen, Answers
  <2> QED  BY <1>1, <1>10, <2>1 DEF Listed
<1>11. CASE Cached(o)
  <2>1. Kind(o) \in {"reveal", "list"} /\ call[o] \in Calls
    BY <1>11 DEF Cached, InPlace, Alive, KindsAt
  <2>2. PageOf(o) \in Pages
    BY <2>1, CallsFit DEF PageOf, Pages, Kind
  <2>3. \A l \in Steps : ~Read(o, l)
    BY DEF Read, Goto, TypeOK, Steps
  <2>4. cache[PageOf(o)] # None
    BY <1>11, <2>3 DEF Cached, Steps
  <2>5. /\ answer' = [answer EXCEPT ![o] = cache[PageOf(o)]]
        /\ Goto(o, IF cache[PageOf(o)].what = None THEN "degraded" ELSE "done")
        /\ UNCHANGED <<now, stores, icid, call, seen, began>>
    BY <1>11, <2>4 DEF Cached
  <2>6. cache[PageOf(o)].what # None
    BY <2>5 DEF Goto, TypeOK
  <2>7. answer'[o] = cache[PageOf(o)]
    BY <2>5 DEF TypeOK
  <2> QED  BY <2>1, <2>2, <2>4, <2>5, <2>6, <2>7 DEF stores, tables, icid
<1> QED  BY <1>6, <1>7, <1>8, <1>9, <1>10, <1>11, Finishes

LEMMA AnswerIsMadeNext ==
    ASSUME Typed, [Next]_vars, CacheIsMade, NEW o \in Ops, ArrivedBefore(o), AnswerIsMade(o)
    PROVE  AnswerIsMade(o)'
<1> SUFFICES ASSUME pc'[o] = "done", Kind(o)' \in {"reveal", "verify", "list"}
             PROVE  /\ Fresh(o)'
                    /\ Kind(o)' = "verify" => answer'[o].by = o
                    /\ Kind(o)' # "verify" => Fits(answer[o], PageOf(o))'
                    /\ Kind(o)' = "list" => answer'[o].by # None
  BY DEF AnswerIsMade
<1>1. CASE pc[o] = "done"
  <2>1. /\ call'[o] = call[o] /\ answer'[o] = answer[o] /\ began'[o] = began[o]
    BY <1>1, DoneStays
  <2>2. Kind(o)' = Kind(o) /\ PageOf(o)' = PageOf(o) /\ Fresh(o)' = Fresh(o)
    BY <2>1 DEF Kind, PageOf, Fresh
  <2>3. Fits(answer[o], PageOf(o)) => Fits(answer[o], PageOf(o))'
    BY <2>1, <2>2, FitsStays DEF Fits, MadeBy
  <2> QED  BY <1>1, <2>1, <2>2, <2>3 DEF AnswerIsMade
<1>2. CASE pc[o] # "done"
  <2>1. /\ UNCHANGED <<now, registered, certificates, issued, revoked, call, seen, began>>
        /\ \/ \E what \in Answers : Reply(o, what)
           \/ /\ Kind(o) \in {"reveal", "list"}
              /\ PageOf(o) \in Pages /\ cache[PageOf(o)] # None
              /\ cache[PageOf(o)].what # None
              /\ answer'[o] = cache[PageOf(o)]
    BY <1>2, WhatIsAnswered
  <2>2. Kind(o)' = Kind(o) /\ PageOf(o)' = PageOf(o)
    BY <2>1 DEF Kind, PageOf
  <2>3. ASSUME NEW what \in Answers, Reply(o, what)
        PROVE  /\ Fresh(o)' /\ answer'[o].by = o /\ o # None
               /\ Kind(o)' # "verify" => Fits(answer[o], PageOf(o))'
    <3> DEFINE response == [what |-> what, by |-> o, stored |-> now]
    <3>1. answer'[o] = response
      BY <2>3, AfterReply
    <3>2. o # None
      BY CertificatesAssumption
    <3>3. ASSUME Kind(o)' # "verify" PROVE Fits(answer[o], PageOf(o))'
      <4>1. Fits(response, PageOf(o))'
        BY <2>2, <2>3, <3>3, ReplyFits
      <4>2. response' = response
        BY <2>1
      <4> HIDE DEF response
      <4> QED  BY <3>1, <4>1, <4>2 DEF Fits, MadeBy
    <3> QED  BY <3>1, <3>2, <3>3 DEF Fresh
  <2>4. ASSUME /\ Kind(o) \in {"reveal", "list"}
               /\ PageOf(o) \in Pages /\ cache[PageOf(o)] # None
               /\ cache[PageOf(o)].what # None
               /\ answer'[o] = cache[PageOf(o)]
        PROVE  /\ Fresh(o)' /\ Kind(o) # "verify"
               /\ Fits(answer[o], PageOf(o))'
               /\ Kind(o)' = "list" => answer'[o].by # None
    <3> DEFINE response == cache[PageOf(o)]
    <3>1. /\ Fits(response, PageOf(o))
          /\ response.stored <= now /\ now < response.stored + Ttl
      BY <2>4 DEF CacheIsMade
    <3>2. Alive(o)
      BY <1>2, Arrives DEF Start, Goto, Alive, Typed, TypeOK
    <3>3. began[o].time <= now /\ began[o].time \in Nat
      BY <2>4, <3>2, CertificatesAssumption
      DEF ArrivedBefore, Questions, AllKinds, Typed, InPlace, Arrival, Times
    <3>4. response \in Response /\ response.stored \in Nat /\ now \in Nat
      BY <3>1, CertificatesAssumption DEF Fits, Response, Times, Typed, TypeOK
    <3>5. Fresh(o)'
      <4>1. response.stored + Ttl > began[o].time
        BY <3>1, <3>3, <3>4, CertificatesAssumption
      <4> QED  BY <2>1, <2>4, <4>1 DEF Fresh
    <3>6. Kind(o) = "list" => response.by # None
      BY <2>4, <3>1 DEF Fits, PageOf, Kind
    <3>7. Fits(answer[o], PageOf(o))'
      BY <2>2, <2>4, <3>1, FitsStays DEF Fits, MadeBy
    <3> QED  BY <2>2, <2>4, <3>5, <3>6, <3>7
  <2> QED  BY <2>1, <2>2, <2>3, <2>4
<1> QED  BY <1>1, <1>2

LEMMA SourceNext == SourceInv /\ [Next]_vars => SourceInv'
BY TypedNext, IssuedFirstNext, CacheIsMadeNext, ArrivedBeforeNext, AnswerIsMadeNext
DEF SourceInv

-----------------------------------------------------------------------------
(* Who moves a request.                                                    *)

Step(o) ==
    \/ Start(o) \/ Refused(o) \/ Cached(o) \/ LoadCompany(o) \/ Create(o)
    \/ NoCertificate(o) \/ Reveal(o) \/ FindLatest(o) \/ BlankKey(o)
    \/ Verify(o) \/ List(o) \/ DeleteCompany(o)

LEMMA OwnStep ==
    ASSUME Typed, [Next]_vars, NEW o \in Ops, ~Step(o)
    PROVE  /\ pc'[o] = pc[o] /\ seen'[o] = seen[o] /\ call'[o] = call[o]
           /\ began'[o] = began[o] /\ answer'[o] = answer[o]
<1> USE DEF Typed, TypeOK
<1> DEFINE Same == /\ pc'[o] = pc[o] /\ seen'[o] = seen[o] /\ call'[o] = call[o]
                   /\ began'[o] = began[o] /\ answer'[o] = answer[o]
<1>1. ASSUME NEW p \in Ops, p # o, Throw(p) \/ Drop(p) PROVE Same
  BY <1>1 DEF Throw, Drop, Goto
<1>2. ASSUME NEW p \in Ops, p # o, NEW what, Reply(p, what) PROVE Same
  BY <1>2 DEF Reply, Goto
<1>3. ASSUME NEW p \in Ops, p # o, NEW x, NEW l, Hold(p, x, l) PROVE Same
  BY <1>3 DEF Hold, Keep, Goto
<1>4. ASSUME NEW p \in Ops, p # o, NEW l, Read(p, l) PROVE Same
  BY <1>4 DEF Read, Goto
<1>5. ASSUME NEW p \in Ops, p # o, Start(p) \/ Refused(p) \/ Cached(p) \/ LoadCompany(p)
      PROVE  Same
  BY <1>1, <1>4, <1>5 DEF Start, Refused, Cached, LoadCompany, Goto
<1>6. ASSUME NEW p \in Ops, p # o, Create(p) PROVE Same
  BY <1>1, <1>6
  DEF Create, Issue, IssueFails, IssueReplyLost, FindUser, NoUser, Save, Keep, Goto
<1>7. ASSUME NEW p \in Ops, p # o, NoCertificate(p) \/ Reveal(p) \/ FindLatest(p)
      PROVE  Same
  BY <1>1, <1>2, <1>3, <1>7 DEF NoCertificate, Reveal, FindLatest
<1>8. ASSUME NEW p \in Ops, p # o, BlankKey(p) \/ DeleteCompany(p) PROVE Same
  BY <1>8 DEF BlankKey, DeleteCompany, Goto
<1>9. ASSUME NEW p \in Ops, p # o, Verify(p) PROVE Same
  BY <1>1, <1>2, <1>3, <1>9 DEF Verify, Judge, AskIcid, AskIcidFails
<1>10. ASSUME NEW p \in Ops, p # o, List(p) PROVE Same
  BY <1>1, <1>2, <1>10
  DEF List, ListCompanies, LoadAll, ReadAll, Batch, Listed, Keep, Goto
<1>11. ASSUME Tick \/ (\E x \in Names : Revoke(x)) \/ UNCHANGED vars PROVE Same
  BY <1>11 DEF Tick, Revoke, vars
<1> QED
  BY <1>5, <1>6, <1>7, <1>8, <1>9, <1>10, <1>11 DEF Next, Step

\* Before list has read any certificate.
Early == {"idle", "cached", "listCompanies", "loadAll", "readAll"}

\* Where a request goes tells what it did.
LEMMA StepsTo ==
    ASSUME Typed, NEW o \in Ops, Step(o)
    PROVE  /\ pc'[o] = "blankKey" => FindLatest(o)
           /\ pc'[o] = "askIcid" => Judge(o)
           /\ pc'[o] = "batch" => ReadAll(o) \/ Batch(o)
           /\ pc'[o] = "done" /\ Kind(o) = "deleteKey" => BlankKey(o)
           /\ pc'[o] \in Early => Start(o) \/ Cached(o) \/ ListCompanies(o) \/ LoadAll(o)
<1> USE DEF Typed, TypeOK, Early
<1> DEFINE G == /\ pc'[o] = "blankKey" => FindLatest(o)
                /\ pc'[o] = "askIcid" => Judge(o)
                /\ pc'[o] = "batch" => ReadAll(o) \/ Batch(o)
                /\ pc'[o] = "done" /\ Kind(o) = "deleteKey" => BlankKey(o)
                /\ pc'[o] \in Early => Start(o) \/ Cached(o) \/ ListCompanies(o) \/ LoadAll(o)
<1>1. ASSUME Throw(o) \/ Drop(o) PROVE G
  BY <1>1 DEF Throw, Drop, Goto
<1>2. ASSUME NEW l \in {"load", "issue", "findUser", "save", "readLatest", "deleteCompany"},
             Goto(o, l)
      PROVE  G
  BY <1>2 DEF Goto
<1>3. ASSUME Goto(o, "done"), Kind(o) # "deleteKey" PROVE G
  BY <1>3 DEF Goto
<1>4. ASSUME NEW what, Reply(o, what), Kind(o) # "deleteKey" PROVE G
  BY <1>3, <1>4 DEF Reply
<1>5. CASE Start(o) \/ Refused(o) \/ LoadCompany(o)
  <2>1. (Start(o) /\ Goto(o, "cached")) \/ Goto(o, "load") \/ Throw(o)
        \/ (\E l \in {"issue", "deleteCompany", "readLatest"} : Goto(o, l))
    BY <1>5 DEF Start, Refused, LoadCompany, Read
  <2>2. CASE Start(o) /\ Goto(o, "cached")
    BY <2>2 DEF Goto
  <2> QED  BY <1>1, <1>2, <2>1, <2>2
<1>6. CASE Cached(o)
  <2>1. Goto(o, "listCompanies") \/ Goto(o, "load") \/ Goto(o, "done") \/ Goto(o, "degraded")
    BY <1>6 DEF Cached, Read
  <2>2. Kind(o) # "deleteKey"
    BY <1>6 DEF Cached, InPlace, Alive, KindsAt
  <2>3. CASE Goto(o, "degraded") \/ Goto(o, "listCompanies")
    BY <1>6, <2>3 DEF Goto
  <2> QED  BY <1>2, <1>3, <2>1, <2>2, <2>3
<1>7. CASE Create(o)
  <2>1. CASE Save(o)
    <3>1. Kind(o) # "deleteKey"
      BY <2>1 DEF Save, InPlace, Alive, KindsAt
    <3> QED  BY <1>3, <2>1, <3>1 DEF Save
  <2>2. CASE ~Save(o)
    BY <1>1, <1>2, <1>7, <2>2
    DEF Create, Issue, IssueFails, IssueReplyLost, FindUser, NoUser
  <2> QED  BY <2>1, <2>2
<1>8. CASE NoCertificate(o) \/ Reveal(o)
  <2>1. Throw(o) \/ (Kind(o) # "deleteKey" /\ \E what : Reply(o, what))
    BY <1>8 DEF NoCertificate, Reveal, Kind
  <2> QED  BY <1>1, <1>4, <2>1
<1>9. CASE FindLatest(o) \/ BlankKey(o)
  BY <1>9 DEF FindLatest, Hold, BlankKey, Goto
<1>10. CASE DeleteCompany(o)
  <2>1. Kind(o) # "deleteKey"
    BY <1>10 DEF DeleteCompany, InPlace, Alive, KindsAt
  <2> QED  BY <1>3, <1>10, <2>1 DEF DeleteCompany
<1>11. CASE Verify(o)
  <2>1. CASE Judge(o)
    <3>1. Kind(o) # "deleteKey"
      BY <2>1 DEF Judge, Kind
    <3>2. (\E what : Reply(o, what)) \/ (\E x \in Names : Hold(o, x, "askIcid"))
      BY <2>1, RowsAre DEF Judge
    <3>3. ASSUME NEW x \in Names, Hold(o, x, "askIcid") PROVE G
      BY <2>1, <3>3 DEF Hold, Goto
    <3> QED  BY <1>4, <3>1, <3>2, <3>3
  <2>2. CASE AskIcid(o)
    <3>1. Kind(o) # "deleteKey"
      BY <2>2 DEF AskIcid, InPlace, Alive, KindsAt
    <3> QED  BY <1>4, <2>2, <3>1 DEF AskIcid
  <2>3. CASE AskIcidFails(o)
    BY <1>1, <2>3 DEF AskIcidFails
  <2> QED  BY <1>11, <2>1, <2>2, <2>3 DEF Verify
<1>12. CASE List(o)
  <2>1. Kind(o) # "deleteKey"
    BY <1>12
    DEF List, ListCompanies, LoadAll, ReadAll, Batch, Listed, InPlace, Alive, KindsAt
  <2>2. CASE Listed(o)
    BY <1>4, <2>1, <2>2 DEF Listed
  <2>3. CASE ListCompanies(o) \/ LoadAll(o)
    <3>1. Throw(o) \/ Goto(o, "loadAll") \/ Goto(o, "readAll")
      BY <2>3 DEF ListCompanies, LoadAll
    <3> QED  BY <1>1, <2>3, <3>1 DEF Goto
  <2>4. CASE ReadAll(o) \/ Batch(o)
    BY <2>4 DEF ReadAll, Batch, Goto
  <2> QED  BY <1>12, <2>2, <2>3, <2>4 DEF List
<1> QED  BY <1>5, <1>6, <1>7, <1>8, <1>9, <1>10, <1>11, <1>12 DEF Step

-----------------------------------------------------------------------------
(* Deleted keys.                                                           *)

\* What the deletion has still to blank comes first of all that was there.
Chosen(o) ==
    pc[o] = "blankKey" =>
      \A y \in (began[o].rows \cap RowsOf(call[o].company)) \ {seen[o].row} :
        Before(seen[o].row, y)

\* What was there has lost its key, or comes after another certificate.
Deleted(o) ==
    pc[o] = "done" /\ Kind(o) = "deleteKey" =>
      \A y \in began[o].rows \cap RowsOf(call[o].company) :
        \/ ~certificates[y].key
        \/ \E x \in RowsOf(call[o].company) : Before(x, y)

Hidden(o) ==
    pc[o] = "done" /\ Kind(o) = "reveal" /\ answer[o].by # None =>
      \A x \in answer[o].what, d \in began[answer[o].by].deleted :
        call[d].company = call[o].company => x \notin began[d].rows

HiddenInv == SourceInv /\ \A o \in Ops : Chosen(o) /\ Deleted(o) /\ Hidden(o)

LEMMA BeforeStays ==
    ASSUME Typed, [Next]_vars, NEW x \in Rows, NEW y \in Rows
    PROVE  Before(x, y)' <=> Before(x, y)
<1>1. RowStays(x) /\ RowStays(y)
  BY RowsStay
<1> QED  BY <1>1 DEF RowStays, Before

LEMMA BeforeIsStrict ==
    ASSUME Typed, NEW x \in Rows, NEW y \in Rows, Before(x, y)
    PROVE  ~Before(y, x) /\ x # y
<1>1. certificates[x] \in Certificate /\ certificates[y] \in Certificate
  BY RowsAre DEF Typed
<1>2. /\ certificates[x].expiry \in Int /\ certificates[y].expiry \in Int
      /\ certificates[x].created \in Int /\ certificates[y].created \in Int
  BY <1>1, CertificatesAssumption DEF Certificate, Times
<1> QED  BY <1>2 DEF Before

\* Of the rows that were there when o arrived, none comes to its company later.
LEMMA OldRowsStay ==
    ASSUME Typed, [Next]_vars, NEW c, NEW x \in Rows
    PROVE  x \in {y \in Rows' : certificates'[y].company = c} <=> x \in RowsOf(c)
<1>1. RowStays(x)
  BY RowsStay
<1> QED  BY <1>1 DEF RowStays, Rows, RowsOf

LEMMA ChosenNext ==
    ASSUME SourceInv, [Next]_vars, NEW o \in Ops, Chosen(o) PROVE Chosen(o)'
<1> USE DEF SourceInv
<1> SUFFICES ASSUME pc'[o] = "blankKey",
                    NEW y \in (began'[o].rows \cap RowsOf(call[o].company)') \ {seen'[o].row}
             PROVE  Before(seen[o].row, y)'
  BY DEF Chosen
<1>1. y \in Rows' /\ certificates'[y].company = call'[o].company
  BY DEF RowsOf
<1>2. CASE ~Step(o)
  <2>1. /\ pc[o] = "blankKey" /\ seen'[o] = seen[o] /\ call'[o] = call[o]
        /\ began'[o] = began[o]
    BY <1>2, OwnStep
  <2>2. Alive(o) /\ Kind(o) \in Questions
    BY <2>1 DEF Alive, Typed, InPlace, KindsAt, Questions, AllKinds
  <2>3. y \in Rows
    BY <2>1, <2>2 DEF ArrivedBefore
  <2>4. y \in RowsOf(call[o].company)
    BY <1>1, <2>1, <2>3, OldRowsStay
  <2>5. Before(seen[o].row, y) /\ seen[o].row \in Rows
    BY <2>1, <2>4, RowsAre DEF Chosen, Typed, InPlace
  <2>6. Before(seen[o].row, y)' <=> Before(seen[o].row, y)
    BY <2>1, <2>3, <2>5, BeforeStays DEF Before
  <2> QED  BY <2>5, <2>6
<1>3. CASE Step(o)
  <2>1. FindLatest(o)
    BY <1>3, StepsTo
  <2>2. PICK x \in Latest(call[o].company) : Hold(o, x, "blankKey")
    BY <2>1 DEF FindLatest
  <2>3. /\ seen'[o].row = x
        /\ UNCHANGED <<certificates, call, began>>
    BY <2>2 DEF Hold, Keep, stores, tables, Typed, TypeOK, Seen
  <2>4. y \in RowsOf(call[o].company) \ {x}
    BY <1>1, <2>3 DEF RowsOf, Rows
  <2>5. Before(x, y)
    BY <2>4 DEF Latest
  <2> QED  BY <2>3, <2>5 DEF Before
<1> QED  BY <1>2, <1>3

LEMMA DeletedNext ==
    ASSUME SourceInv, [Next]_vars, NEW o \in Ops, Chosen(o), Deleted(o) PROVE Deleted(o)'
<1> USE DEF SourceInv
<1> SUFFICES ASSUME pc'[o] = "done", Kind(o)' = "deleteKey",
                    NEW y \in began'[o].rows \cap RowsOf(call[o].company)'
             PROVE  \/ ~certificates'[y].key
                    \/ \E x \in RowsOf(call[o].company)' : Before(x, y)'
  BY DEF Deleted
<1>1. y \in Rows' /\ certificates'[y].company = call'[o].company
  BY DEF RowsOf
<1>2. ASSUME call'[o] = call[o], y \in Rows,
             NEW x \in RowsOf(call[o].company), Before(x, y)
      PROVE  \E z \in RowsOf(call[o].company)' : Before(z, y)'
  <2>1. x \in Rows
    BY <1>2, RowsAre DEF Typed
  <2>2. Before(x, y)'
    BY <1>2, <2>1, BeforeStays
  <2>3. x \in {z \in Rows' : certificates'[z].company = call'[o].company}
    BY <1>2, <2>1, OldRowsStay
  <2> QED  BY <2>2, <2>3 DEF RowsOf
<1>3. CASE pc[o] = "done"
  <2>1. call'[o] = call[o] /\ began'[o] = began[o]
    BY <1>3, DoneStays
  <2>2. Kind(o) = "deleteKey" /\ Alive(o) /\ Kind(o) \in Questions
    BY <1>3, <2>1 DEF Alive, Questions, AllKinds, Kind
  <2>3. y \in Rows
    BY <2>1, <2>2 DEF ArrivedBefore
  <2>4. y \in RowsOf(call[o].company)
    BY <1>1, <2>1, <2>3, OldRowsStay
  <2>5. \/ ~certificates[y].key
        \/ \E x \in RowsOf(call[o].company) : Before(x, y)
    BY <1>3, <2>1, <2>2, <2>4 DEF Deleted
  <2>6. ~certificates[y].key => ~certificates'[y].key
    BY <2>3, RowsStay DEF RowStays
  <2> QED  BY <1>2, <2>1, <2>3, <2>5, <2>6
<1>4. CASE pc[o] # "done"
  <2>1. Step(o)
    BY <1>4, OwnStep
  <2>2. Alive(o) /\ call'[o] = call[o]
    BY <1>4, Arrives DEF Alive, Start, Goto, Typed, TypeOK
  <2>3. BlankKey(o)
    BY <2>1, <2>2, StepsTo DEF Kind
  <2>4. /\ certificates' = [certificates EXCEPT ![seen[o].row].key = FALSE]
        /\ UNCHANGED <<call, seen, began>> /\ pc[o] = "blankKey"
    BY <2>3 DEF BlankKey
  <2>5. Kind(o) \in Questions
    BY <2>2, <2>4 DEF Typed, InPlace, KindsAt, Questions, AllKinds
  <2>6. y \in Rows
    BY <2>2, <2>4, <2>5 DEF ArrivedBefore
  <2>7. y \in RowsOf(call[o].company)
    BY <1>1, <2>4, <2>6, OldRowsStay
  <2>8. CASE y = seen[o].row
    <3>1. certificates[y] \in Certificate /\ y \in Names
      BY <2>6, RowsAre DEF Typed
    <3>2. certificates'[y] = [certificates[y] EXCEPT !.key = FALSE]
      BY <2>4, <2>8, <3>1 DEF Typed, TypeOK
    <3>3. ~certificates'[y].key
      BY <3>1, <3>2 DEF Certificate
    <3> QED  BY <3>3
  <2>9. CASE y # seen[o].row
    <3>1. Before(seen[o].row, y)
      BY <2>4, <2>7, <2>9 DEF Chosen
    <3>2. seen[o].row \in RowsOf(call[o].company)
      BY <2>4 DEF Typed, InPlace
    <3> QED  BY <1>2, <2>4, <2>6, <3>1, <3>2
  <2> QED  BY <2>8, <2>9
<1> QED  BY <1>3, <1>4

LEMMA HiddenNext ==
    ASSUME HiddenInv, [Next]_vars, NEW o \in Ops PROVE Hidden(o)'
<1> USE DEF HiddenInv, SourceInv
<1> DEFINE p == answer'[o].by
<1> SUFFICES ASSUME pc'[o] = "done", Kind(o)' = "reveal", p # None,
                    NEW x \in answer'[o].what, NEW d \in began'[p].deleted,
                    call'[d].company = call'[o].company
             PROVE  x \notin began'[d].rows
  BY DEF Hidden
<1>1. ASSUME NEW q \in Ops, Alive(q), Kind(q) = "reveal",
             NEW e \in began[q].deleted
      PROVE  /\ pc[e] = "done" /\ Kind(e) = "deleteKey" /\ e \in Ops
             /\ call'[e] = call[e] /\ began'[e] = began[e]
  <2>1. e \in Deletions
    BY <1>1 DEF ArrivedBefore, Questions, AllKinds
  <2> QED  BY <2>1, DoneStays DEF Deletions
<1>2. ASSUME NEW q \in Ops, pc[q] = "done", Kind(q) = "reveal", answer[q].by = p,
             pc[p] = "done", Kind(p) = "reveal", p \in Ops,
             call'[o].company = call[q].company, answer'[o] = answer[q],
             began'[p] = began[p]
      PROVE  x \notin began'[d].rows
  <2>1. call'[d] = call[d] /\ began'[d] = began[d] /\ d \in began[p].deleted
    BY <1>1, <1>2 DEF Alive
  <2> QED  BY <1>2, <2>1 DEF Hidden
<1>3. CASE pc[o] = "done"
  <2>1. call'[o] = call[o] /\ answer'[o] = answer[o] /\ Kind(o) = "reveal"
    BY <1>3, DoneStays DEF Kind
  <2>2. Fits(answer[o], PageOf(o))
    BY <1>3, <2>1 DEF AnswerIsMade
  <2>3. p \in Ops /\ pc[p] = "done" /\ PageOf(p) = PageOf(o) /\ Kind(p) \in {"reveal", "list"}
    BY <2>1, <2>2 DEF Fits, MadeBy, Response
  <2>4. Kind(p) = "reveal"
    <3>1. PageOf(o) # "all"
      BY <1>3, <2>1, CallsFit, CertificatesAssumption DEF PageOf, Kind, Typed, InPlace, Alive
    <3> QED  BY <2>3, <3>1 DEF PageOf, Kind
  <2>5. began'[p] = began[p]
    BY <2>3, DoneStays
  <2> QED  BY <1>2, <1>3, <2>1, <2>3, <2>4, <2>5
<1>4. CASE pc[o] # "done"
  <2>1. /\ UNCHANGED <<now, registered, certificates, issued, revoked, call, seen, began>>
        /\ \/ \E what \in Answers : Reply(o, what)
           \/ /\ Kind(o) \in {"reveal", "list"}
              /\ PageOf(o) \in Pages /\ cache[PageOf(o)] # None
              /\ cache[PageOf(o)].what # None
              /\ answer'[o] = cache[PageOf(o)]
    BY <1>4, WhatIsAnswered
  <2>2. Kind(o) = "reveal"
    BY <2>1 DEF Kind
  <2>3. Alive(o)
    BY <1>4, Arrives DEF Start, Goto, Alive, Typed, TypeOK
  <2>4. ASSUME PageOf(o) \in Pages, cache[PageOf(o)] # None, answer'[o] = cache[PageOf(o)]
        PROVE  x \notin began'[d].rows
    <3>1. Fits(cache[PageOf(o)], PageOf(o))
      BY <2>4 DEF CacheIsMade
    <3>2. /\ p \in Ops /\ pc[p] = "done" /\ PageOf(p) = PageOf(o) /\ answer[p] = answer'[o]
          /\ Kind(p) \in {"reveal", "list"}
      BY <2>4, <3>1 DEF Fits, MadeBy, Response
    <3>3. PageOf(o) # "all"
      BY <2>2, <2>3, CallsFit, CertificatesAssumption DEF PageOf, Kind, Typed, InPlace
    <3>4. Kind(p) = "reveal" /\ call[p].company = call[o].company
      BY <2>2, <3>2, <3>3 DEF PageOf, Kind
    <3> QED  BY <1>2, <2>1, <3>2, <3>4
  <2>5. ASSUME NEW what \in Answers, Reply(o, what)
        PROVE  x \notin began'[d].rows
    <3>1. p = o /\ answer'[o].what = what
      <4>1. answer'[o] = [what |-> what, by |-> o, stored |-> now]
        BY <2>5, AfterReply
      <4> QED  BY <4>1
    <3>2. Reveal(o) \/ Cached(o)
      <4>1. ~Throw(o)
        BY DEF Throw, Drop, Goto, Typed, TypeOK
      <4>2. pc[o] = "askIcid" => Kind(o) = "verify"
        BY DEF Typed, InPlace, Alive, KindsAt
      <4>3. pc[o] = "batch" => Kind(o) = "list"
        BY DEF Typed, InPlace, Alive, KindsAt
      <4> QED
        BY <1>4, <2>2, <4>1, <4>2, <4>3, Finishes
        DEF NoCertificate, Judge, AskIcid, Listed, Kind
    <3>3. CASE Cached(o)
      <4>1. cache[PageOf(o)] # None
        <5>1. \A l \in Steps : ~Read(o, l)
          BY DEF Read, Goto, Typed, TypeOK, Steps
        <5> QED  BY <3>3, <5>1 DEF Cached, Steps
      <4>2. answer' = [answer EXCEPT ![o] = cache[PageOf(o)]]
        BY <3>3, <4>1 DEF Cached
      <4>3. PageOf(o) \in Pages
        BY <2>2, <2>3, CallsFit DEF PageOf, Pages, Kind, Typed, InPlace
      <4> QED  BY <2>4, <4>1, <4>2, <4>3 DEF Typed, TypeOK
    <3>4. CASE Reveal(o)
      <4>1. PICK z \in Latest(call[o].company) :
              IF certificates[z].key THEN Reply(o, {z}) ELSE Throw(o)
        BY <3>4 DEF Reveal
      <4>2. ~Throw(o)
        BY DEF Throw, Drop, Goto, Typed, TypeOK
      <4>3. certificates[z].key /\ Reply(o, {z})
        BY <4>1, <4>2
      <4>4. x = z
        <5>1. answer'[o] = [what |-> {z}, by |-> o, stored |-> now]
          BY <4>3, AfterReply
        <5> QED  BY <5>1
      <4>5. /\ pc[d] = "done" /\ Kind(d) = "deleteKey" /\ d \in Ops
            /\ call'[d] = call[d] /\ began'[d] = began[d]
        BY <1>1, <2>1, <2>2, <2>3, <3>1
      <4>6. call[d].company = call[o].company
        BY <2>1, <4>5
      <4>7. z \in RowsOf(call[o].company) /\ z \in Rows
        BY <4>1, RowsAre DEF Typed
      <4>8. ASSUME z \in began[d].rows PROVE FALSE
        <5>1. PICK y \in RowsOf(call[o].company) : Before(y, z)
          BY <4>3, <4>5, <4>6, <4>7, <4>8 DEF Deleted
        <5>2. y \in Rows /\ y # z /\ ~Before(z, y)
          BY <4>7, <5>1, RowsAre, BeforeIsStrict DEF Typed
        <5>3. Before(z, y)
          BY <4>1, <5>1, <5>2 DEF Latest
        <5> QED  BY <5>2, <5>3
      <4> QED  BY <4>4, <4>5, <4>8
    <3> QED  BY <3>2, <3>3, <3>4
  <2> QED  BY <2>1, <2>4, <2>5
<1> QED  BY <1>3, <1>4

\* deletePrivateKey: a key that is deleted is not shown again, but by the cache, for
\* any number of deletions, reveals and new certificates.
THEOREM KeysStayDeleted == Spec => []DeletedKeysStayHidden
<1>1. Init => HiddenInv
  BY SourceInit DEF Init, HiddenInv, Chosen, Deleted, Hidden
<1>2. HiddenInv /\ [Next]_vars => HiddenInv'
  <2> SUFFICES ASSUME HiddenInv, [Next]_vars PROVE HiddenInv'
    OBVIOUS
  <2>1. SourceInv'
    BY SourceNext DEF HiddenInv
  <2>2. \A o \in Ops : Chosen(o)' /\ Deleted(o)' /\ Hidden(o)'
    BY ChosenNext, DeletedNext, HiddenNext DEF HiddenInv
  <2> QED  BY <2>1, <2>2 DEF HiddenInv
<1>3. HiddenInv => DeletedKeysStayHidden
  BY DEF HiddenInv, SourceInv, AnswerIsMade, Hidden, DeletedKeysStayHidden, Kind
<1> QED  BY <1>1, <1>2, <1>3, PTL DEF Spec

-----------------------------------------------------------------------------
(* Verdicts.                                                               *)

\* Whoever made the answer to a GET answered the same question, with this answer.
LEMMA SameQuestion ==
    ASSUME SourceInv, NEW o \in Ops, Alive(o), Kind(o) \in {"reveal", "list"},
           NEW response, Fits(response, PageOf(o)), response.by # None
    PROVE  LET p == response.by IN
           /\ p \in Ops /\ pc[p] = "done" /\ Kind(p) = Kind(o) /\ answer[p] = response
           /\ Kind(o) = "reveal" => call[p].company = call[o].company
<1> DEFINE p == response.by
<1>1. /\ p \in Ops /\ pc[p] = "done" /\ Kind(p) \in {"reveal", "list"}
      /\ PageOf(p) = PageOf(o) /\ answer[p] = response
  BY DEF Fits, MadeBy, Response
<1>2. ASSUME NEW q \in Ops, Alive(q), Kind(q) = "reveal"
      PROVE  PageOf(q) = call[q].company /\ PageOf(q) # "all"
  BY <1>2, CallsFit, CertificatesAssumption DEF PageOf, Kind, SourceInv, Typed, InPlace
<1>3. Alive(p)
  BY <1>1 DEF Alive
<1> QED  BY <1>1, <1>2, <1>3 DEF PageOf, Kind

Backs(o, c) ==
    \E x \in RowsOf(c) :
      /\ x \in issued
      /\ certificates[x].expiry >= began[o].time
      /\ certificates[x].filed => x \notin began[o].revoked

LEMMA BackStays ==
    ASSUME SourceInv, [Next]_vars, NEW o \in Ops, Alive(o), Alive(o)'
    PROVE  \A c : Backs(o, c) => Backs(o, c)'
<1>1. began'[o] = began[o]
  BY Arrives DEF SourceInv, Start, Alive
<1>2. issued \subseteq issued'
  BY OnlyGrow DEF SourceInv
<1>3. ASSUME NEW c, NEW x \in RowsOf(c)
      PROVE  x \in RowsOf(c)' /\ RowStays(x)
  BY <1>3, RowsOfGrow, RowsStay, RowsAre DEF SourceInv, Typed
<1> QED  BY <1>1, <1>2, <1>3 DEF Backs, RowStays

\* A row that is valid now was valid when o arrived.
LEMMA ValidBacks ==
    ASSUME SourceInv, NEW o \in Ops, Alive(o), Kind(o) \in Questions,
           NEW c, NEW x \in RowsOf(c), certificates[x].expiry >= began[o].time,
           certificates[x].filed => x \notin revoked
    PROVE  Backs(o, c)
<1>1. x \in issued
  BY RowsAre DEF SourceInv, Typed, IssuedFirst
<1>2. began[o].revoked \subseteq revoked
  BY DEF SourceInv, ArrivedBefore
<1> QED  BY <1>1, <1>2 DEF Backs

LEMMA NotExpired ==
    ASSUME SourceInv, NEW o \in Ops, Alive(o), Kind(o) \in Questions,
           NEW x \in Rows, ~Expired(x)
    PROVE  certificates[x].expiry >= began[o].time
<1>1. certificates[x] \in Certificate
  BY RowsAre DEF SourceInv, Typed
<1>2. certificates[x].expiry \in Int /\ now \in Int /\ began[o].time \in Int /\ began[o].time <= now
  BY <1>1, CertificatesAssumption
  DEF Certificate, Times, SourceInv, ArrivedBefore, Typed, TypeOK, InPlace, Arrival
<1> QED  BY <1>2 DEF Expired

\* What ICID is asked about had not expired, and has a file.
Asking(o) ==
    pc[o] = "askIcid" =>
      /\ certificates[seen[o].row].expiry >= began[o].time
      /\ certificates[seen[o].row].filed

Listing(o) ==
    /\ pc[o] \in Early => seen[o].certified = {}
    /\ pc[o] = "batch" => \A c \in seen[o].certified : Backs(o, c)

Backed(o) ==
    Answered(o) => \A c \in answer[o].what : Backs(answer[o].by, c)

BackInv == SourceInv /\ \A o \in Ops : Asking(o) /\ Listing(o) /\ Backed(o)

LEMMA AskingNext ==
    ASSUME BackInv, [Next]_vars, NEW o \in Ops PROVE Asking(o)'
<1> USE DEF BackInv, SourceInv
<1> SUFFICES ASSUME pc'[o] = "askIcid"
             PROVE  /\ certificates'[seen'[o].row].expiry >= began'[o].time
                    /\ certificates'[seen'[o].row].filed
  BY DEF Asking
<1>1. CASE ~Step(o)
  <2>1. pc[o] = "askIcid" /\ seen'[o] = seen[o] /\ began'[o] = began[o]
    BY <1>1, OwnStep
  <2>2. seen[o].row \in Rows
    BY <2>1, RowsAre DEF Typed, InPlace
  <2> QED  BY <2>1, <2>2, RowsStay DEF RowStays, Asking
<1>2. CASE Step(o)
  <2>1. Judge(o)
    BY <1>2, StepsTo
  <2>2. PICK x \in Latest(call[o].company) :
          IF Expired(x) THEN Reply(o, {})
          ELSE IF ~certificates[x].filed THEN Reply(o, {call[o].company})
          ELSE Hold(o, x, "askIcid")
    BY <2>1 DEF Judge
  <2>3. \A what : ~Reply(o, what)
    BY DEF Reply, Goto, Typed, TypeOK
  <2>4. ~Expired(x) /\ certificates[x].filed /\ Hold(o, x, "askIcid")
    BY <2>2, <2>3
  <2>5. x \in Rows /\ Alive(o) /\ Kind(o) \in Questions
    BY <2>1, <2>2, RowsAre DEF Typed, Judge, Alive, Kind, Questions, AllKinds
  <2>6. certificates[x].expiry >= began[o].time
    BY <2>4, <2>5, NotExpired
  <2>7. seen'[o].row = x /\ UNCHANGED <<certificates, began>>
    BY <2>4 DEF Hold, Keep, stores, tables, Typed, TypeOK, Seen
  <2> QED  BY <2>4, <2>6, <2>7
<1> QED  BY <1>1, <1>2

LEMMA ListingNext ==
    ASSUME BackInv, [Next]_vars, NEW o \in Ops PROVE Listing(o)'
<1> USE DEF BackInv, SourceInv
<1>1. CASE ~Step(o)
  <2>1. pc'[o] = pc[o] /\ seen'[o] = seen[o]
    BY <1>1, OwnStep
  <2>2. pc[o] = "batch" => Alive(o) /\ Alive(o)'
    BY <2>1 DEF Alive
  <2>3. pc[o] = "batch" => \A c : Backs(o, c) => Backs(o, c)'
    BY <2>2, BackStays
  <2> QED  BY <2>1, <2>3 DEF Listing
<1>2. CASE Step(o) /\ pc'[o] \in Early
  <2>1. Start(o) \/ Cached(o) \/ ListCompanies(o) \/ LoadAll(o)
    BY <1>2, StepsTo
  <2>2. pc[o] \in Early
    BY <2>1 DEF Start, Cached, ListCompanies, LoadAll, Early
  <2>3. seen'[o].certified = seen[o].certified \/ seen'[o] = Nothing
    <3>1. seen[o] \in Seen
      BY DEF Typed, TypeOK
    <3>2. CASE Start(o) \/ Cached(o)
      BY <3>2 DEF Start, Cached, Read
    <3>3. ASSUME NEW s, Keep(o, "companies", s)
          PROVE  seen'[o].certified = seen[o].certified
      BY <3>1, <3>3 DEF Keep, Seen, Typed, TypeOK
    <3>4. CASE ListCompanies(o)
      BY <3>3, <3>4 DEF ListCompanies
    <3>5. CASE LoadAll(o)
      BY <3>3, <3>5 DEF LoadAll, Throw, Drop, Typed, TypeOK
    <3> QED  BY <2>1, <3>2, <3>4, <3>5
  <2> QED  BY <1>2, <2>2, <2>3 DEF Listing, Nothing, Early
<1>3. CASE Step(o) /\ pc'[o] = "batch"
  <2>1. ReadAll(o) \/ Batch(o)
    BY <1>3, StepsTo
  <2>2. seen[o] \in Seen /\ seen \in [Ops -> Seen]
    BY DEF Typed, TypeOK
  <2>3. CASE ReadAll(o)
    <3>1. seen'[o].certified = seen[o].certified
      BY <2>2, <2>3 DEF ReadAll, Keep, Seen
    <3> QED  BY <1>3, <2>3, <3>1 DEF ReadAll, Listing, Early
  <2>4. CASE Batch(o)
    <3>1. PICK batch \in SUBSET seen[o].rest :
            seen' = [seen EXCEPT ![o].rest = @ \ batch,
                                 ![o].certified = @ \cup Certified(batch)]
      BY <2>4 DEF Batch
    <3>2. seen'[o].certified = seen[o].certified \cup Certified(batch)
      BY <2>2, <3>1 DEF Seen
    <3>3. Alive(o) /\ Alive(o)' /\ Kind(o) \in Questions /\ seen[o].rest \subseteq Rows
      BY <1>3, <2>4 DEF Batch, Alive, Typed, InPlace, KindsAt, Questions, AllKinds
    <3>4. ASSUME NEW c \in Certified(batch) PROVE Backs(o, c)
      <4>1. PICK x \in batch : /\ c = certificates[x].company /\ ~Expired(x)
                               /\ certificates[x].filed => x \notin revoked
        BY <3>4 DEF Certified
      <4>2. x \in Rows /\ x \in RowsOf(c)
        BY <3>3, <4>1 DEF RowsOf
      <4>3. certificates[x].expiry >= began[o].time
        BY <3>3, <4>1, <4>2, NotExpired
      <4> QED  BY <3>3, <4>1, <4>2, <4>3, ValidBacks
    <3>5. \A c \in seen[o].certified : Backs(o, c)
      BY <2>4 DEF Batch, Listing
    <3>6. \A c \in seen'[o].certified : Backs(o, c)'
      <4>1. \A c : Backs(o, c) => Backs(o, c)'
        BY <3>3, BackStays
      <4> QED  BY <3>2, <3>4, <3>5, <4>1
    <3> QED  BY <1>3, <3>6 DEF Listing, Early
  <2> QED  BY <2>1, <2>3, <2>4
<1> QED  BY <1>1, <1>2, <1>3 DEF Listing

\* The verdict of a request that has just made its answer.
LEMMA ReplyBacked ==
    ASSUME BackInv, [Next]_vars, NEW o \in Ops, pc[o] # "done", pc'[o] = "done",
           Kind(o) \in {"verify", "list"}, Alive(o), ~Cached(o), call' = call,
           NEW what, Reply(o, what), NEW c \in what
    PROVE  Backs(o, c)
<1> USE DEF BackInv, SourceInv
<1>1. ~Throw(o)
  BY DEF Throw, Drop, Goto, Typed, TypeOK
<1>2. ASSUME NEW w, Reply(o, w) PROVE w = what
  <2>1. /\ answer'[o] = [what |-> what, by |-> o, stored |-> now]
        /\ answer'[o] = [what |-> w, by |-> o, stored |-> now]
    BY <1>2, AfterReply
  <2> QED  BY <2>1
<1>3. \A x : \A l \in Steps : ~Hold(o, x, l)
  BY DEF Hold, Goto, Typed, TypeOK, Steps
<1>4. Kind(o) \in Questions
  BY DEF Questions, AllKinds
<1>5. CASE NoCertificate(o)
  <2>1. Reply(o, {})
    BY <1>1, <1>5 DEF NoCertificate
  <2> QED  BY <1>2, <2>1
<1>6. CASE Judge(o)
  <2>1. PICK x \in Latest(call[o].company) :
          IF Expired(x) THEN Reply(o, {})
          ELSE IF ~certificates[x].filed THEN Reply(o, {call[o].company})
          ELSE Hold(o, x, "askIcid")
    BY <1>6 DEF Judge
  <2>2. CASE Expired(x)
    BY <1>2, <2>1, <2>2
  <2>3. CASE ~Expired(x) /\ ~certificates[x].filed
    <3>1. what = {call[o].company}
      BY <1>2, <2>1, <2>3
    <3>2. x \in RowsOf(c) /\ x \in Rows
      BY <2>1, <3>1, RowsAre DEF Typed
    <3>3. certificates[x].expiry >= began[o].time
      BY <1>4, <2>3, <3>2, NotExpired
    <3> QED  BY <1>4, <2>3, <3>2, <3>3, ValidBacks
  <2>4. CASE ~Expired(x) /\ certificates[x].filed
    BY <1>3, <2>1, <2>4 DEF Steps
  <2> QED  BY <2>2, <2>3, <2>4
<1>7. CASE AskIcid(o)
  <2>1. CASE seen[o].row \in revoked
    BY <1>2, <1>7, <2>1 DEF AskIcid
  <2>2. CASE seen[o].row \notin revoked
    <3>1. what = {call[o].company}
      BY <1>2, <1>7, <2>2 DEF AskIcid
    <3>2. seen[o].row \in RowsOf(c)
      BY <1>7, <3>1 DEF AskIcid, Typed, InPlace
    <3>3. certificates[seen[o].row].expiry >= began[o].time
      BY <1>7 DEF AskIcid, Asking
    <3> QED  BY <1>4, <2>2, <3>2, <3>3, ValidBacks
  <2> QED  BY <2>1, <2>2
<1>8. CASE Listed(o)
  <2>1. what = seen[o].certified
    BY <1>2, <1>8 DEF Listed
  <2> QED  BY <1>8, <2>1 DEF Listed, Listing
<1>9. ~Reveal(o)
  BY DEF Reveal, Kind
<1>10. Kind(o)' = Kind(o)
  BY DEF Kind
<1> QED  BY <1>5, <1>6, <1>7, <1>8, <1>9, <1>10, Finishes

LEMMA BackedNext ==
    ASSUME BackInv, [Next]_vars, NEW o \in Ops PROVE Backed(o)'
<1> USE DEF BackInv, SourceInv
<1> SUFFICES ASSUME pc'[o] = "done", Kind(o)' \in {"verify", "list"},
                    NEW c \in answer'[o].what
             PROVE  Backs(answer[o].by, c)'
  BY DEF Backed, Answered, Kind
<1>1. ASSUME NEW p \in Ops, answer'[o].by = p, pc[p] = "done", Backs(p, c)
      PROVE  Backs(answer[o].by, c)'
  <2>1. Alive(p) /\ Alive(p)'
    BY <1>1, DoneStays DEF Alive
  <2>2. Backs(p, c)'
    BY <1>1, <2>1, BackStays
  <2> QED  BY <1>1, <2>2 DEF Backs
<1>2. ASSUME Alive(o), NEW response, Fits(response, PageOf(o)), Kind(o) = "list",
             response.by # None, answer'[o] = response
      PROVE  Backs(answer[o].by, c)'
  <2>1. /\ response.by \in Ops /\ pc[response.by] = "done" /\ Kind(response.by) = "list"
        /\ answer[response.by] = response
    BY <1>2, SameQuestion
  <2>2. Backs(response.by, c)
    BY <1>2, <2>1 DEF Backed, Answered, Kind
  <2> QED  BY <1>1, <1>2, <2>1, <2>2
<1>3. CASE pc[o] = "done"
  <2>1. call'[o] = call[o] /\ answer'[o] = answer[o] /\ Kind(o)' = Kind(o) /\ Alive(o)
    BY <1>3, DoneStays DEF Kind, Alive
  <2>2. CASE Kind(o) = "verify"
    <3>1. answer[o].by = o
      BY <1>3, <2>2 DEF AnswerIsMade
    <3>2. Backs(o, c)
      BY <1>3, <2>1, <2>2, <3>1 DEF Backed, Answered, Kind
    <3> QED  BY <1>1, <1>3, <2>1, <3>1, <3>2
  <2>3. CASE Kind(o) = "list"
    <3>1. Fits(answer[o], PageOf(o)) /\ answer[o].by # None
      BY <1>3, <2>3 DEF AnswerIsMade
    <3> QED  BY <1>2, <2>1, <2>3, <3>1
  <2> QED  BY <2>1, <2>2, <2>3
<1>4. CASE pc[o] # "done"
  <2>1. /\ UNCHANGED <<now, registered, certificates, issued, revoked, call, seen, began>>
        /\ \/ \E what \in Answers : Reply(o, what)
           \/ /\ Kind(o) \in {"reveal", "list"}
              /\ PageOf(o) \in Pages /\ cache[PageOf(o)] # None
              /\ cache[PageOf(o)].what # None
              /\ answer'[o] = cache[PageOf(o)]
    BY <1>4, WhatIsAnswered
  <2>2. Alive(o) /\ Kind(o) \in {"verify", "list"}
    BY <1>4, <2>1, Arrives DEF Start, Goto, Alive, Typed, TypeOK, Kind
  <2>3. ASSUME /\ Kind(o) \in {"reveal", "list"}
               /\ PageOf(o) \in Pages /\ cache[PageOf(o)] # None
               /\ cache[PageOf(o)].what # None
               /\ answer'[o] = cache[PageOf(o)]
        PROVE  Backs(answer[o].by, c)'
    <3>1. Fits(cache[PageOf(o)], PageOf(o)) /\ Kind(o) = "list"
      BY <2>2, <2>3 DEF CacheIsMade
    <3>2. cache[PageOf(o)].by # None
      BY <2>3, <3>1 DEF Fits, PageOf, Kind
    <3> QED  BY <1>2, <2>2, <2>3, <3>1, <3>2
  <2>4. ASSUME NEW what \in Answers, Reply(o, what)
        PROVE  Backs(answer[o].by, c)'
    <3>1. answer'[o] = [what |-> what, by |-> o, stored |-> now]
      BY <2>4, AfterReply
    <3>2. CASE Cached(o)
      <4>1. cache[PageOf(o)] # None
        <5>1. \A l \in Steps : ~Read(o, l)
          BY DEF Read, Goto, Typed, TypeOK, Steps
        <5> QED  BY <3>2, <5>1 DEF Cached, Steps
      <4>2. /\ answer' = [answer EXCEPT ![o] = cache[PageOf(o)]] /\ pc[o] = "cached"
            /\ Goto(o, IF cache[PageOf(o)].what = None THEN "degraded" ELSE "done")
        BY <3>2, <4>1 DEF Cached
      <4>3. Kind(o) = "list"
        BY <2>2, <4>2 DEF Typed, InPlace, Alive, KindsAt
      <4>4. PageOf(o) \in Pages /\ cache[PageOf(o)].what # None /\ answer'[o] = cache[PageOf(o)]
        BY <4>2, <4>3 DEF PageOf, Pages, Kind, Goto, Typed, TypeOK
      <4> QED  BY <2>3, <4>1, <4>3, <4>4
    <3>3. CASE ~Cached(o)
      <4>1. c \in what
        BY <3>1
      <4>2. Backs(o, c)
        BY <1>4, <2>1, <2>2, <2>4, <3>3, <4>1, ReplyBacked
      <4>3. Alive(o)' /\ began' = began
        BY <2>1 DEF Alive
      <4>4. Backs(o, c)'
        BY <2>2, <4>2, <4>3, BackStays
      <4> QED  BY <3>1, <4>4 DEF Backs
    <3> QED  BY <3>2, <3>3
  <2> QED  BY <2>1, <2>3, <2>4
<1> QED  BY <1>3, <1>4

\* verifyCompanyCertificate, verifyAllCompanyCertificate: no read that is overtaken by
\* the clock, a revocation, a new certificate or the cache makes a verdict up.
THEOREM VerdictsHold == Spec => []VerdictsAreBacked
<1>1. Init => BackInv
  <2> SUFFICES ASSUME Init PROVE BackInv
    OBVIOUS
  <2>1. \A o \in Ops : pc[o] = "idle" /\ seen[o].certified = {}
    BY DEF Init, Nothing
  <2> QED
    BY <2>1, SourceInit DEF BackInv, Asking, Listing, Backed, Answered
<1>2. BackInv /\ [Next]_vars => BackInv'
  BY AskingNext, ListingNext, BackedNext, SourceNext DEF BackInv
<1>3. BackInv => VerdictsAreBacked
  BY DEF BackInv, SourceInv, AnswerIsMade, Backed, Backs, Answered, VerdictsAreBacked, Kind
<1> QED  BY <1>1, <1>2, <1>3, PTL DEF Spec

-----------------------------------------------------------------------------
(* No certificate is overlooked.                                           *)

\* No two rows are equally new.
StampsDiffer ==
    /\ \A x, y \in Rows : x # y => certificates[x].created # certificates[y].created
    /\ \A o \in Ops : pc[o] = "save" =>
         /\ \A x \in Rows : certificates[x].created # seen[o].created
         /\ \A p \in Ops \ {o} : pc[p] = "save" => seen[p].created # seen[o].created

LEMMA StampsDifferInit == Init => StampsDiffer
<1> SUFFICES ASSUME Init PROVE StampsDiffer
  OBVIOUS
<1>1. PICK old \in [Old -> OldRows] :
        /\ \A x, y \in Old : x # y => old[x].created # old[y].created
        /\ certificates = [x \in Names |-> IF x \in Old THEN old[x] ELSE None]
  BY DEF Init
<1>2. \A x \in Rows : x \in Old /\ certificates[x] = old[x]
  BY <1>1 DEF Rows
<1> QED  BY <1>1, <1>2 DEF StampsDiffer, Init

LEMMA StampsDifferNext ==
    ASSUME Typed, [Next]_vars, StampsDiffer PROVE StampsDiffer'
<1>1. ASSUME Rows' \subseteq Rows,
             \A o \in Ops : pc'[o] = "save" => pc[o] = "save" /\ seen'[o] = seen[o]
      PROVE  StampsDiffer'
  <2>1. \A x \in Rows' : x \in Rows /\ certificates'[x].created = certificates[x].created
    BY <1>1, RowsStay DEF RowStays
  <2> QED  BY <1>1, <2>1 DEF StampsDiffer
<1>2. ASSUME NEW o \in Ops, FindUser(o) PROVE StampsDiffer'
  <2>1. PICK n \in Nat : /\ Keep(o, "created", n)
                         /\ \A p \in Ops : seen[p].created < n
                         /\ \A x \in Rows : certificates[x].created < n
    BY <1>2, Stamps
  <2>2. /\ seen \in [Ops -> Seen] /\ pc \in [Ops -> Steps \cup Finished]
        /\ \A x \in Rows : certificates[x].created \in Nat
    <3>1. \A x \in Rows : certificates[x] \in Certificate
      BY RowsAre DEF Typed
    <3> QED  BY <3>1 DEF Typed, TypeOK, Certificate
  <2>3. seen'[o].created = n /\ \A p \in Ops \ {o} : seen'[p] = seen[p] /\ pc'[p] = pc[p]
    BY <1>2, <2>1, <2>2 DEF FindUser, Keep, Goto, Seen
  <2>4. Rows' = Rows /\ certificates' = certificates
    BY <1>2 DEF FindUser, stores, tables, Rows
  <2>5. \A p \in Ops : seen[p].created \in Nat
    BY <2>2 DEF Seen
  <2>6. \A x \in Rows : certificates[x].created # n
    BY <2>1, <2>2
  <2>7. \A p \in Ops : seen[p].created # n
    BY <2>1, <2>5
  <2> QED  BY <2>3, <2>4, <2>6, <2>7 DEF StampsDiffer
<1>3. ASSUME NEW o \in Ops, Save(o) PROVE StampsDiffer'
  <2> DEFINE row == [company |-> call[o].company, expiry |-> call[o].expiry,
                     created |-> seen[o].created, filed |-> seen[o].filed, key |-> TRUE]
  <2>1. /\ certificates' = [certificates EXCEPT ![o] = row] /\ pc[o] = "save"
        /\ seen' = [seen EXCEPT ![o] = Nothing] /\ pc' = [pc EXCEPT ![o] = "done"]
    BY <1>3 DEF Save, Goto
  <2>2. row.created = seen[o].created /\ o \in Names
    BY DEF Names
  <2> HIDE DEF row
  <2>3. certificates'[o].created = seen[o].created
    BY <2>1, <2>2 DEF Typed, TypeOK
  <2>4. \A x \in Rows' \ {o} : x \in Rows /\ certificates'[x] = certificates[x]
    BY <2>1 DEF Rows, Typed, TypeOK
  <2>5. \A p \in Ops : pc'[p] = "save" => p # o /\ pc[p] = "save" /\ seen'[p] = seen[p]
    BY <2>1 DEF Typed, TypeOK
  <2> QED  BY <2>1, <2>3, <2>4, <2>5 DEF StampsDiffer
<1>4. ASSUME NEW o \in Ops, BlankKey(o) PROVE StampsDiffer'
  <2>1. Rows' \subseteq Rows
    BY <1>4 DEF BlankKey, Rows, RowsOf, Typed, TypeOK, InPlace
  <2> QED  BY <1>1, <1>4, <2>1 DEF BlankKey, Goto, Typed, TypeOK
<1>5. ASSUME certificates' = certificates,
             \A o \in Ops : pc'[o] = "save" => pc[o] = "save" /\ seen'[o] = seen[o]
      PROVE  StampsDiffer'
  <2>1. Rows' = Rows
    BY <1>5 DEF Rows
  <2> QED  BY <1>1, <1>5, <2>1
<1>6. ASSUME NEW o \in Ops, Drop(o) PROVE StampsDiffer'
  <2>1. certificates' = certificates
    BY <1>6 DEF Drop, tables
  <2>2. \A p \in Ops : pc'[p] = "save" => pc[p] = "save" /\ seen'[p] = seen[p]
    BY <1>6 DEF Drop, Goto, Typed, TypeOK
  <2> QED  BY <1>5, <2>1, <2>2
<1>7. ASSUME NEW o \in Ops, NEW l, l # "save", Goto(o, l), certificates' = certificates,
             \A p \in Ops \ {o} : seen'[p] = seen[p]
      PROVE  StampsDiffer'
  BY <1>5, <1>7 DEF Goto, Typed, TypeOK
<1>8. ASSUME NEW o \in Ops, NEW l, l # "save", Goto(o, l), UNCHANGED <<certificates, seen>>
      PROVE  StampsDiffer'
  BY <1>7, <1>8
<1>9. ASSUME NEW o \in Ops, NEW what, Reply(o, what) PROVE StampsDiffer'
  BY <1>8, <1>9 DEF Reply, tables
<1>10. ASSUME NEW o \in Ops, NEW f, NEW v, Keep(o, f, v), NEW l, l # "save", Goto(o, l),
              certificates' = certificates
       PROVE  StampsDiffer'
  BY <1>7, <1>10 DEF Keep, Typed, TypeOK
<1>11. ASSUME NEW o \in Ops, Start(o) \/ DeleteCompany(o) PROVE StampsDiffer'
  <2>1. UNCHANGED <<certificates, seen>>
        /\ (Goto(o, "cached") \/ Goto(o, "load") \/ Goto(o, "done"))
    BY <1>11 DEF Start, DeleteCompany, stores, tables
  <2> QED  BY <1>8, <2>1
<1>12. ASSUME NEW o \in Ops, Refused(o) \/ IssueFails(o) \/ NoUser(o) \/ AskIcidFails(o)
                             \/ IssueReplyLost(o)
       PROVE  StampsDiffer'
  BY <1>6, <1>12 DEF Refused, IssueFails, NoUser, AskIcidFails, IssueReplyLost, Throw
<1>13. ASSUME NEW o \in Ops, Cached(o) \/ LoadCompany(o) PROVE StampsDiffer'
  <2>1. \/ Drop(o)
        \/ /\ UNCHANGED <<certificates, seen>>
           /\ \E l \in {"listCompanies", "load", "done", "degraded", "issue", "deleteCompany",
                        "readLatest"} : Goto(o, l)
    BY <1>13 DEF Cached, LoadCompany, Throw, Read, stores, tables
  <2> QED  BY <1>6, <1>8, <2>1
<1>14. ASSUME NEW o \in Ops, Issue(o) PROVE StampsDiffer'
  BY <1>10, <1>14 DEF Issue, stores, tables
<1>15. ASSUME NEW o \in Ops, NoCertificate(o) \/ Reveal(o) \/ FindLatest(o) \/ Judge(o)
       PROVE  StampsDiffer'
  <2>1. ASSUME NEW x, NEW l, Hold(o, x, l), l # "save" PROVE StampsDiffer'
    BY <1>10, <2>1 DEF Hold, stores, tables
  <2>2. CASE NoCertificate(o)
    BY <1>6, <1>9, <2>2 DEF NoCertificate, Throw
  <2>3. CASE Reveal(o)
    BY <1>6, <1>9, <2>3 DEF Reveal, Throw
  <2>4. CASE FindLatest(o)
    BY <2>1, <2>4 DEF FindLatest
  <2>5. CASE Judge(o)
    BY <1>9, <2>1, <2>5 DEF Judge
  <2> QED  BY <1>15, <2>2, <2>3, <2>4, <2>5
<1>16. ASSUME NEW o \in Ops, AskIcid(o) \/ Listed(o) PROVE StampsDiffer'
  BY <1>9, <1>16 DEF AskIcid, Listed
<1>17. ASSUME NEW o \in Ops, ListCompanies(o) \/ LoadAll(o) \/ ReadAll(o)
       PROVE  StampsDiffer'
  <2>1. \/ Drop(o)
        \/ /\ certificates' = certificates
           /\ \E f, v : Keep(o, f, v)
           /\ \E l \in {"loadAll", "readAll", "batch"} : Goto(o, l)
    BY <1>17 DEF ListCompanies, LoadAll, ReadAll, Throw, stores, tables
  <2> QED  BY <1>6, <1>10, <2>1
<1>18. ASSUME NEW o \in Ops, Batch(o) PROVE StampsDiffer'
  BY <1>5, <1>18 DEF Batch, stores, tables, Typed, TypeOK
<1>19. CASE Tick \/ (\E x \in Names : Revoke(x)) \/ UNCHANGED vars
  BY <1>5, <1>19 DEF Tick, Revoke, vars, stores, tables
<1> QED
  BY <1>2, <1>3, <1>4, <1>11, <1>12, <1>13, <1>14, <1>15, <1>16, <1>17, <1>18, <1>19
  DEF Next, Create, Verify, List

\* ORDER BY: a company with certificates has a latest one.
LEMMA HasLatest ==
    ASSUME Typed, StampsDiffer, NEW c, RowsOf(c) # {} PROVE Latest(c) # {}
<1>1. \A x \in RowsOf(c) : certificates[x] \in Certificate /\ x \in Rows
  BY RowsAre DEF Typed
<1>2. \A x \in RowsOf(c) : certificates[x].expiry \in 0 .. MaxTime
                           /\ certificates[x].created \in Nat
  BY <1>1 DEF Certificate, Times
<1> DEFINE E == {certificates[x].expiry : x \in RowsOf(c)}
<1>3. PICK e \in E : \A f \in E : f <= e
  <2>1. E \subseteq 0 .. MaxTime /\ E # {}
    BY <1>2
  <2> HIDE DEF E
  <2> QED  BY <2>1, HasLargest, CertificatesAssumption
<1> DEFINE F == {x \in RowsOf(c) : certificates[x].expiry = e}
           S == {certificates[x].created : x \in F}
<1>4. PICK s \in S : \A t \in S : t <= s
  <2>1. PICK K \in Nat : \A x \in Rows : certificates[x].created <= K
    BY DEF Typed, StampsAreBounded
  <2>2. \A x \in RowsOf(c) : certificates[x].created \in 0 .. K
    BY <1>1, <1>2, <2>1
  <2>3. S \subseteq 0 .. K /\ S # {}
    BY <1>3, <2>2
  <2> HIDE DEF S
  <2> QED  BY <2>3, HasLargest
<1>5. PICK x \in F : certificates[x].created = s
  BY <1>4
<1>6. ASSUME NEW y \in RowsOf(c) \ {x} PROVE Before(x, y)
  <2>1. certificates[x].created # certificates[y].created
    BY <1>1, <1>5, <1>6 DEF StampsDiffer
  <2>2. certificates[y].expiry <= certificates[x].expiry
    BY <1>3, <1>5, <1>6
  <2>3. certificates[y].expiry = certificates[x].expiry
          => certificates[y].created <= certificates[x].created
    BY <1>4, <1>5, <1>6
  <2>4. x \in RowsOf(c)
    BY <1>5
  <2>5. /\ certificates[x].expiry \in Int /\ certificates[y].expiry \in Int
        /\ certificates[x].created \in Int /\ certificates[y].created \in Int
    BY <1>2, <1>6, <2>4
  <2> QED  BY <2>1, <2>2, <2>3, <2>5 DEF Before
<1> QED  BY <1>5, <1>6 DEF Latest

Alarm(c) ==
    \E x \in RowsOf(c) : Expired(x) \/ (certificates[x].filed /\ x \in revoked)

\* Nobody is called uncertified without a reason, for what o may know.
Reason(o, c) == began[o].rows \cap RowsOf(c) # {} => Alarm(c)

\* What has not been dealt with has a row left to deal with.
Pending(o) ==
    pc[o] = "batch" =>
      \A c \in seen[o].companies \ seen[o].certified :
        Reason(o, c) \/ seen[o].rest \cap RowsOf(c) # {}

AskedAbout(o) ==
    IF Kind(o) = "list" THEN seen[answer[o].by].companies ELSE {call[o].company}

Heard(o) ==
    Answered(o) => \A c \in AskedAbout(o) \ answer[o].what : Reason(answer[o].by, c)

AlarmInv == BackInv /\ StampsDiffer /\ \A o \in Ops : Pending(o) /\ Heard(o)

LEMMA AlarmStays ==
    ASSUME Typed, [Next]_vars PROVE \A c : Alarm(c) => Alarm(c)'
<1> SUFFICES ASSUME NEW c, NEW x \in RowsOf(c),
                    Expired(x) \/ (certificates[x].filed /\ x \in revoked)
             PROVE  Alarm(c)'
  BY DEF Alarm
<1>1. x \in RowsOf(c)' /\ RowStays(x) /\ certificates[x] \in Certificate
  BY RowsOfGrow, RowsStay, RowsAre DEF Typed
<1>2. certificates[x].expiry \in Int
  BY <1>1, CertificatesAssumption DEF Certificate, Times
<1>3. now \in Int /\ now' \in Int /\ now <= now' /\ revoked \subseteq revoked'
  BY OnlyGrow
<1>4. Expired(x) => Expired(x)'
  BY <1>1, <1>2, <1>3 DEF Expired, RowStays
<1> QED  BY <1>1, <1>3, <1>4 DEF Alarm, RowStays

LEMMA ReasonStays ==
    ASSUME SourceInv, [Next]_vars, NEW o \in Ops, Alive(o), Alive(o)', Kind(o) \in Questions
    PROVE  \A c : Reason(o, c) => Reason(o, c)'
<1> SUFFICES ASSUME NEW c, Reason(o, c), began'[o].rows \cap RowsOf(c)' # {}
             PROVE  Alarm(c)'
  BY DEF Reason
<1>1. began'[o] = began[o] /\ began[o].rows \subseteq Rows
  BY Arrives DEF SourceInv, Start, Alive, ArrivedBefore
<1>2. PICK x \in Rows : x \in began[o].rows /\ x \in RowsOf(c)'
  BY <1>1
<1>3. x \in RowsOf(c)
  BY <1>2, OldRowsStay DEF SourceInv, RowsOf
<1>4. Alarm(c)
  BY <1>2, <1>3 DEF Reason
<1> QED  BY <1>4, AlarmStays DEF SourceInv

LEMMA PendingNext ==
    ASSUME AlarmInv, [Next]_vars, NEW o \in Ops PROVE Pending(o)'
<1> USE DEF AlarmInv, BackInv, SourceInv
<1> SUFFICES ASSUME pc'[o] = "batch", NEW c \in seen'[o].companies \ seen'[o].certified
             PROVE  Reason(o, c)' \/ seen'[o].rest \cap RowsOf(c)' # {}
  BY DEF Pending
<1>1. seen[o] \in Seen /\ seen \in [Ops -> Seen]
  BY DEF Typed, TypeOK
<1>2. CASE ~Step(o)
  <2>1. pc[o] = "batch" /\ seen'[o] = seen[o]
    BY <1>2, OwnStep
  <2>2. Alive(o) /\ Alive(o)' /\ Kind(o) \in Questions
    BY <2>1 DEF Alive, Typed, InPlace, KindsAt, Questions, AllKinds
  <2>3. Reason(o, c) \/ seen[o].rest \cap RowsOf(c) # {}
    BY <2>1 DEF Pending
  <2>4. RowsOf(c) \subseteq RowsOf(c)'
    BY RowsOfGrow
  <2>5. Reason(o, c) => Reason(o, c)'
    BY <2>2, ReasonStays
  <2> QED  BY <2>1, <2>3, <2>4, <2>5
<1>3. CASE Step(o)
  <2>1. ReadAll(o) \/ Batch(o)
    BY <1>3, StepsTo
  <2>2. CASE ReadAll(o)
    <3> DEFINE rest == UNION {Latest(d) : d \in seen[o].companies}
    <3>1. /\ seen'[o].rest = rest /\ seen'[o].companies = seen[o].companies
          /\ UNCHANGED <<certificates, began>>
      <4>1. Keep(o, "rest", rest)
        BY <2>2 DEF ReadAll
      <4> HIDE DEF rest
      <4> QED  BY <1>1, <2>2, <4>1 DEF ReadAll, Keep, Seen, stores, tables
    <3>2. RowsOf(c)' = RowsOf(c)
      BY <3>1 DEF RowsOf, Rows
    <3>3. CASE RowsOf(c) = {}
      BY <3>2, <3>3 DEF Reason
    <3>4. CASE RowsOf(c) # {}
      <4>1. PICK x : x \in Latest(c)
        BY <3>4, HasLatest
      <4>2. x \in rest /\ x \in RowsOf(c)
        BY <3>1, <4>1, RowsAre DEF Typed
      <4> HIDE DEF rest
      <4> QED  BY <3>1, <3>2, <4>2
    <3> QED  BY <3>3, <3>4
  <2>3. CASE Batch(o)
    <3>1. PICK batch \in SUBSET seen[o].rest :
            seen' = [seen EXCEPT ![o].rest = @ \ batch,
                                 ![o].certified = @ \cup Certified(batch)]
      BY <2>3 DEF Batch
    <3>2. /\ seen'[o].certified = seen[o].certified \cup Certified(batch)
          /\ seen'[o].rest = seen[o].rest \ batch
          /\ seen'[o].companies = seen[o].companies
      BY <1>1, <3>1 DEF Seen
    <3>3. /\ pc[o] = "batch" /\ Alive(o) /\ Alive(o)' /\ Kind(o) \in Questions
          /\ UNCHANGED <<certificates, began>>
      BY <1>3, <2>3
      DEF Batch, Alive, Typed, InPlace, KindsAt, Questions, AllKinds, stores, tables
    <3>4. RowsOf(c)' = RowsOf(c)
      BY <3>3 DEF RowsOf, Rows
    <3>5. Reason(o, c) \/ seen[o].rest \cap RowsOf(c) # {}
      BY <3>2, <3>3 DEF Pending
    <3>6. CASE Reason(o, c)
      BY <3>3, <3>6, ReasonStays
    <3>7. ASSUME NEW x \in seen[o].rest \cap RowsOf(c)
          PROVE  Reason(o, c)' \/ seen'[o].rest \cap RowsOf(c)' # {}
      <4>1. CASE x \notin batch
        BY <3>2, <3>4, <3>7, <4>1
      <4>2. CASE x \in batch
        <5>1. certificates[x].company = c
          BY <3>7 DEF RowsOf
        <5>2. c \notin Certified(batch)
          BY <3>2
        <5>3. Expired(x) \/ (certificates[x].filed /\ x \in revoked)
          BY <4>2, <5>1, <5>2 DEF Certified
        <5>4. Reason(o, c)
          BY <3>7, <5>3 DEF Reason, Alarm
        <5> QED  BY <3>3, <5>4, ReasonStays
      <4> QED  BY <4>1, <4>2
    <3> QED  BY <3>5, <3>6, <3>7
  <2> QED  BY <2>1, <2>2, <2>3
<1> QED  BY <1>2, <1>3

LEMMA ReplyHeard ==
    ASSUME AlarmInv, [Next]_vars, NEW o \in Ops, pc[o] # "done", pc'[o] = "done",
           Kind(o) \in {"verify", "list"}, Alive(o), ~Cached(o), call' = call,
           NEW what, Reply(o, what),
           NEW c, c \notin what,
           c \in IF Kind(o) = "list" THEN seen[o].companies ELSE {call[o].company}
    PROVE  Reason(o, c)
<1> USE DEF AlarmInv, BackInv, SourceInv
<1>1. ~Throw(o)
  BY DEF Throw, Drop, Goto, Typed, TypeOK
<1>2. ASSUME NEW w, Reply(o, w) PROVE w = what
  <2>1. /\ answer'[o] = [what |-> what, by |-> o, stored |-> now]
        /\ answer'[o] = [what |-> w, by |-> o, stored |-> now]
    BY <1>2, AfterReply
  <2> QED  BY <2>1
<1>3. \A x : \A l \in Steps : ~Hold(o, x, l)
  BY DEF Hold, Goto, Typed, TypeOK, Steps
<1>4. pc[o] \in {"readLatest", "askIcid"} => Kind(o) = "verify" /\ c = call[o].company
  BY DEF Typed, InPlace, KindsAt
<1>5. CASE NoCertificate(o)
  BY <1>4, <1>5 DEF NoCertificate, Reason
<1>6. CASE Judge(o)
  <2>1. PICK x \in Latest(call[o].company) :
          IF Expired(x) THEN Reply(o, {})
          ELSE IF ~certificates[x].filed THEN Reply(o, {call[o].company})
          ELSE Hold(o, x, "askIcid")
    BY <1>6 DEF Judge
  <2>2. c = call[o].company
    BY <1>4, <1>6 DEF Judge
  <2>3. CASE Expired(x)
    <3>1. x \in RowsOf(c)
      BY <2>1, <2>2, RowsAre DEF Typed
    <3> QED  BY <2>3, <3>1 DEF Reason, Alarm
  <2>4. CASE ~Expired(x) /\ ~certificates[x].filed
    <3>1. what = {call[o].company}
      BY <1>2, <2>1, <2>4
    <3> QED  BY <2>2, <3>1
  <2>5. CASE ~Expired(x) /\ certificates[x].filed
    BY <1>3, <2>1, <2>5 DEF Steps
  <2> QED  BY <2>3, <2>4, <2>5
<1>7. CASE AskIcid(o)
  <2>1. c = call[o].company /\ pc[o] = "askIcid"
    BY <1>4, <1>7 DEF AskIcid
  <2>2. CASE seen[o].row \in revoked
    <3>1. seen[o].row \in RowsOf(c) /\ certificates[seen[o].row].filed
      BY <2>1 DEF Typed, InPlace, Asking
    <3> QED  BY <2>2, <3>1 DEF Reason, Alarm
  <2>3. CASE seen[o].row \notin revoked
    <3>1. what = {call[o].company}
      BY <1>2, <1>7, <2>3 DEF AskIcid
    <3> QED  BY <2>1, <3>1
  <2> QED  BY <2>2, <2>3
<1>8. CASE Listed(o)
  <2>1. what = seen[o].certified /\ pc[o] = "batch" /\ seen[o].rest = {}
    BY <1>2, <1>8 DEF Listed
  <2>2. Kind(o) = "list"
    BY <2>1 DEF Typed, InPlace, KindsAt
  <2> QED  BY <2>1, <2>2 DEF Pending
<1>9. ~Reveal(o)
  BY DEF Reveal, Kind
<1>10. Kind(o)' = Kind(o)
  BY DEF Kind
<1> QED  BY <1>5, <1>6, <1>7, <1>8, <1>9, <1>10, Finishes

LEMMA HeardNext ==
    ASSUME AlarmInv, [Next]_vars, NEW o \in Ops PROVE Heard(o)'
<1> USE DEF AlarmInv, BackInv, SourceInv
<1> SUFFICES ASSUME pc'[o] = "done", Kind(o)' \in {"verify", "list"},
                    NEW c \in AskedAbout(o)' \ answer'[o].what
             PROVE  Reason(answer[o].by, c)'
  BY DEF Heard, Answered, Kind
<1>1. ASSUME NEW p \in Ops, answer'[o].by = p, pc[p] = "done", Kind(p) \in Questions,
             Reason(p, c)
      PROVE  Reason(answer[o].by, c)'
  <2>1. Alive(p) /\ Alive(p)'
    BY <1>1, DoneStays DEF Alive
  <2>2. Reason(p, c)'
    BY <1>1, <2>1, ReasonStays
  <2> QED  BY <1>1, <2>2 DEF Reason
<1>2. ASSUME Alive(o), NEW response, Fits(response, PageOf(o)), Kind(o) = "list",
             Kind(o)' = "list", response.by # None, answer'[o] = response
      PROVE  Reason(answer[o].by, c)'
  <2>1. /\ response.by \in Ops /\ pc[response.by] = "done" /\ Kind(response.by) = "list"
        /\ answer[response.by] = response
    BY <1>2, SameQuestion
  <2>2. seen'[response.by] = seen[response.by]
    BY <2>1, DoneStays
  <2>3. c \in AskedAbout(response.by) \ response.what
    BY <1>2, <2>1, <2>2 DEF AskedAbout
  <2>4. Reason(response.by, c)
    BY <2>1, <2>3 DEF Heard, Answered, Kind
  <2> QED  BY <1>1, <1>2, <2>1, <2>4 DEF Questions, AllKinds
<1>3. CASE pc[o] = "done"
  <2>1. /\ call'[o] = call[o] /\ answer'[o] = answer[o] /\ seen'[o] = seen[o]
        /\ Kind(o)' = Kind(o) /\ Alive(o)
    BY <1>3, DoneStays DEF Kind, Alive
  <2>2. CASE Kind(o) = "verify"
    <3>1. answer[o].by = o
      BY <1>3, <2>2 DEF AnswerIsMade
    <3>2. c \in AskedAbout(o)
      BY <2>1, <2>2 DEF AskedAbout
    <3>3. Reason(o, c)
      BY <1>3, <2>1, <2>2, <3>1, <3>2 DEF Heard, Answered, Kind
    <3> QED  BY <1>1, <1>3, <2>1, <2>2, <3>1, <3>3 DEF Questions, AllKinds
  <2>3. CASE Kind(o) = "list"
    <3>1. Fits(answer[o], PageOf(o)) /\ answer[o].by # None
      BY <1>3, <2>3 DEF AnswerIsMade
    <3> QED  BY <1>2, <2>1, <2>3, <3>1
  <2> QED  BY <2>1, <2>2, <2>3
<1>4. CASE pc[o] # "done"
  <2>1. /\ UNCHANGED <<now, registered, certificates, issued, revoked, call, seen, began>>
        /\ \/ \E what \in Answers : Reply(o, what)
           \/ /\ Kind(o) \in {"reveal", "list"}
              /\ PageOf(o) \in Pages /\ cache[PageOf(o)] # None
              /\ cache[PageOf(o)].what # None
              /\ answer'[o] = cache[PageOf(o)]
    BY <1>4, WhatIsAnswered
  <2>2. Alive(o) /\ Kind(o) \in {"verify", "list"} /\ Kind(o)' = Kind(o)
    BY <1>4, <2>1, Arrives DEF Start, Goto, Alive, Typed, TypeOK, Kind
  <2>3. ASSUME /\ Kind(o) \in {"reveal", "list"}
               /\ PageOf(o) \in Pages /\ cache[PageOf(o)] # None
               /\ cache[PageOf(o)].what # None
               /\ answer'[o] = cache[PageOf(o)]
        PROVE  Reason(answer[o].by, c)'
    <3>1. Fits(cache[PageOf(o)], PageOf(o)) /\ Kind(o) = "list"
      BY <2>2, <2>3 DEF CacheIsMade
    <3>2. cache[PageOf(o)].by # None
      BY <2>3, <3>1 DEF Fits, PageOf, Kind
    <3> QED  BY <1>2, <2>2, <2>3, <3>1, <3>2
  <2>4. ASSUME NEW what \in Answers, Reply(o, what)
        PROVE  Reason(answer[o].by, c)'
    <3>1. answer'[o] = [what |-> what, by |-> o, stored |-> now]
      BY <2>4, AfterReply
    <3>2. CASE Cached(o)
      <4>1. cache[PageOf(o)] # None
        <5>1. \A l \in Steps : ~Read(o, l)
          BY DEF Read, Goto, Typed, TypeOK, Steps
        <5> QED  BY <3>2, <5>1 DEF Cached, Steps
      <4>2. /\ answer' = [answer EXCEPT ![o] = cache[PageOf(o)]] /\ pc[o] = "cached"
            /\ Goto(o, IF cache[PageOf(o)].what = None THEN "degraded" ELSE "done")
        BY <3>2, <4>1 DEF Cached
      <4>3. Kind(o) = "list"
        BY <2>2, <4>2 DEF Typed, InPlace, Alive, KindsAt
      <4>4. PageOf(o) \in Pages /\ cache[PageOf(o)].what # None /\ answer'[o] = cache[PageOf(o)]
        BY <4>2, <4>3 DEF PageOf, Pages, Kind, Goto, Typed, TypeOK
      <4> QED  BY <2>3, <4>1, <4>3, <4>4
    <3>3. CASE ~Cached(o)
      <4>1. c \notin what /\ answer'[o].by = o
        BY <3>1
      <4>2. c \in IF Kind(o) = "list" THEN seen[o].companies ELSE {call[o].company}
        BY <2>1, <2>2, <4>1 DEF AskedAbout
      <4>3. Reason(o, c)
        BY <1>4, <2>1, <2>2, <2>4, <3>3, <4>1, <4>2, ReplyHeard
      <4>4. Alive(o)' /\ Kind(o) \in Questions
        BY <2>2 DEF Alive, Questions, AllKinds
      <4>5. Reason(o, c)'
        BY <2>2, <4>3, <4>4, ReasonStays
      <4> QED  BY <4>1, <4>5 DEF Reason
    <3> QED  BY <3>2, <3>3
  <2> QED  BY <2>1, <2>3, <2>4
<1> QED  BY <1>3, <1>4

\* verifyCompanyCertificate, verifyAllCompanyCertificate: however many batches there
\* are and whatever is issued meanwhile, nobody is called uncertified by mistake.
THEOREM NoneIsOverlooked == Spec => []NoFalseAlarm
<1>1. Init => AlarmInv
  <2> SUFFICES ASSUME Init PROVE AlarmInv
    OBVIOUS
  <2>1. \A o \in Ops : pc[o] = "idle" /\ seen[o].certified = {}
    BY DEF Init, Nothing
  <2> QED
    BY <2>1, SourceInit, StampsDifferInit
    DEF AlarmInv, BackInv, Asking, Listing, Backed, Pending, Heard, Answered
<1>2. AlarmInv /\ [Next]_vars => AlarmInv'
  BY AskingNext, ListingNext, BackedNext, SourceNext, StampsDifferNext, PendingNext, HeardNext
  DEF AlarmInv, BackInv, SourceInv
<1>3. AlarmInv => NoFalseAlarm
  BY DEF AlarmInv, Heard, AskedAbout, Reason, Alarm, Answered, NoFalseAlarm, Kind
<1> QED  BY <1>1, <1>2, <1>3, PTL DEF Spec

-----------------------------------------------------------------------------
(* What ICID knows and the table does not.                                 *)

Settled(o) ==
    /\ o \in issued \ Rows => pc[o] \in {"findUser", "save", "failed"}
    /\ pc[o] = "done" /\ Kind(o) = "create" => o \in Rows

SettledInv ==
    /\ Typed /\ IssuedFirst
    /\ Old \subseteq Rows
    /\ \A o \in Ops : Settled(o)

\* Only Issue makes a certificate known to ICID; so a step leaves a request
\* settled that fails, or that never issued.
LEMMA SettledStep ==
    ASSUME Typed, SettledInv, [Next]_vars, NEW o \in Ops, Step(o)
    PROVE  Settled(o)'
<1> USE DEF Typed, TypeOK
<1>0. Typed /\ Settled(o) /\ Rows \subseteq Rows'
  BY RowsOfGrow DEF SettledInv
<1>1. ASSUME pc'[o] = "failed" PROVE Settled(o)'
  BY <1>1 DEF Settled
<1>2. ASSUME issued' = issued, pc[o] \notin {"findUser", "save", "failed"},
             pc'[o] = "done" => Kind(o)' # "create"
      PROVE  Settled(o)'
  BY <1>0, <1>2 DEF Settled
<1>3. ASSUME Throw(o), Running(o) PROVE Settled(o)'
  <2>1. CASE pc[o] \in Caught
    <3>1. pc'[o] = "degraded" /\ issued' = issued
      BY <1>3, <2>1 DEF Throw, Drop, Goto, icid
    <3> QED  BY <1>2, <2>1, <3>1 DEF Caught
  <2>2. CASE pc[o] \notin Caught
    <3>1. pc'[o] = "failed"
      BY <1>3, <2>2 DEF Throw, Drop, Goto
    <3> QED  BY <1>1, <3>1
  <2> QED  BY <2>1, <2>2
<1>4. CASE Create(o)
  <2>1. CASE Issue(o)
    BY <2>1 DEF Issue, Goto, Settled
  <2>2. CASE IssueFails(o) \/ NoUser(o)
    BY <1>3, <2>2 DEF IssueFails, NoUser, Running, Steps
  <2>3. CASE IssueReplyLost(o)
    <3>1. pc'[o] = "failed"
      BY <2>3 DEF IssueReplyLost, Drop, Caught, Goto
    <3> QED  BY <1>1, <3>1
  <2>4. CASE FindUser(o)
    BY <2>4 DEF FindUser, Goto, Settled
  <2>5. CASE Save(o)
    <3>1. o \in Rows'
      <4>1. certificates'[o] = [company |-> call[o].company, expiry |-> call[o].expiry,
                                created |-> seen[o].created, filed |-> seen[o].filed,
                                key |-> TRUE]
        BY <2>5 DEF Save, Names
      <4>2. certificates'[o] # None
        <5>1. Kind(o) = "create" /\ call[o] \in Calls /\ seen[o] \in Seen
          BY <2>5 DEF Save, InPlace, Alive, Kind, KindsAt
        <5>2. certificates'[o] \in Certificate
          BY <4>1, <5>1, CallsFit DEF Certificate, Seen, Kind
        <5> QED  BY <5>2, CertificatesAssumption
      <4> QED  BY <4>2 DEF Rows, Names
    <3> QED  BY <3>1 DEF Settled
  <2> QED  BY <1>4, <2>1, <2>2, <2>3, <2>4, <2>5 DEF Create
<1>5. ASSUME NEW l \in Steps, Goto(o, l), issued' = issued,
             pc[o] \notin {"findUser", "save", "failed"}
      PROVE  Settled(o)'
  BY <1>2, <1>5 DEF Goto, Steps
<1>6. ASSUME NEW what, Reply(o, what), Kind(o) # "create",
             pc[o] \notin {"findUser", "save", "failed"}
      PROVE  Settled(o)'
  BY <1>2, <1>6 DEF Reply, Kind, icid
<1>7. CASE Start(o) \/ LoadCompany(o) \/ Cached(o)
  <2>1. CASE Start(o)
    <3>1. issued' = issued /\ pc[o] = "idle" /\ pc'[o] \in {"cached", "load"}
      BY <2>1 DEF Start, Goto, icid
    <3> QED  BY <1>2, <3>1
  <2>2. CASE LoadCompany(o)
    <3>1. pc[o] = "load" /\ \/ Throw(o)
                            \/ \E l \in {"issue", "deleteCompany", "readLatest"} : Read(o, l)
      BY <2>2 DEF LoadCompany
    <3> QED  BY <1>3, <1>5, <3>1 DEF Read, icid, Running, Steps
  <2>3. CASE Cached(o)
    <3>1. Kind(o) # "create" /\ pc[o] = "cached" /\ issued' = issued /\ call' = call
      BY <2>3 DEF Cached, Read, InPlace, Alive, KindsAt, icid
    <3> QED  BY <1>2, <3>1 DEF Kind
  <2> QED  BY <1>7, <2>1, <2>2, <2>3
<1>8. CASE Refused(o)
  BY <1>3, <1>8 DEF Refused, Running, Steps
<1>9. CASE NoCertificate(o) \/ Reveal(o)
  <2>1. pc[o] = "readLatest" /\ Kind(o) # "create"
    BY <1>9 DEF NoCertificate, Reveal, InPlace, Alive, KindsAt
  <2>2. Throw(o) \/ \E what : Reply(o, what)
    BY <1>9 DEF NoCertificate, Reveal
  <2> QED  BY <1>3, <1>6, <2>1, <2>2 DEF Running, Steps
<1>10. CASE FindLatest(o) \/ BlankKey(o) \/ DeleteCompany(o)
  <2>1. /\ Kind(o) # "create" /\ issued' = issued /\ call' = call
        /\ pc[o] \in {"readLatest", "blankKey", "deleteCompany"}
    BY <1>10
    DEF FindLatest, Hold, BlankKey, DeleteCompany, InPlace, Alive, KindsAt, icid
  <2> QED  BY <1>2, <2>1 DEF Kind
<1>11. CASE Verify(o)
  <2>1. pc[o] \in {"readLatest", "askIcid", "batch"} /\ Kind(o) # "create"
    BY <1>11 DEF Verify, Judge, AskIcid, AskIcidFails, InPlace, Alive, KindsAt
  <2>2. Throw(o) \/ (\E what : Reply(o, what)) \/ (\E x : Hold(o, x, "askIcid"))
    BY <1>11 DEF Verify, Judge, AskIcid, AskIcidFails
  <2> QED  BY <1>3, <1>5, <1>6, <2>1, <2>2 DEF Hold, icid, Running, Steps
<1>12. CASE List(o)
  <2>1. /\ pc[o] \in {"listCompanies", "loadAll", "readAll", "batch"}
        /\ Kind(o) # "create"
    BY <1>12
    DEF List, ListCompanies, LoadAll, ReadAll, Batch, Listed, InPlace, Alive, KindsAt
  <2>2. CASE Listed(o)
    BY <1>6, <2>1, <2>2 DEF Listed
  <2>3. CASE ListCompanies(o) \/ LoadAll(o) \/ ReadAll(o) \/ Batch(o)
    <3>1. \/ Throw(o)
          \/ issued' = issued /\ call' = call
      BY <2>3 DEF ListCompanies, LoadAll, ReadAll, Batch, icid
    <3> QED  BY <1>2, <1>3, <2>1, <3>1 DEF Kind, Running, Steps
  <2> QED  BY <1>12, <2>2, <2>3 DEF List
<1> QED
  BY <1>4, <1>7, <1>8, <1>9, <1>10, <1>11, <1>12 DEF Step

LEMMA SettledNext == SettledInv /\ [Next]_vars => SettledInv'
<1> SUFFICES ASSUME SettledInv, [Next]_vars PROVE SettledInv'
  OBVIOUS
<1>1. Typed' /\ IssuedFirst' /\ Rows \subseteq Rows' /\ Typed
  BY TypedNext, IssuedFirstNext, RowsOfGrow DEF SettledInv
<1>2. ASSUME NEW o \in Ops, ~Step(o) PROVE Settled(o)'
  <2>1. pc'[o] = pc[o] /\ Kind(o)' = Kind(o)
    BY <1>1, <1>2, OwnStep DEF Kind
  <2>2. o \in issued' => o \in issued
    <3>1. ASSUME NEW p \in Ops, Create(p) PROVE issued' \subseteq issued \cup {p}
      BY <3>1
      DEF Create, Issue, IssueFails, IssueReplyLost, FindUser, NoUser, Save, Throw, Drop, icid
    <3>2. CASE \A p \in Ops : ~Create(p)
      <4>1. issued' = issued
        BY <3>2
        DEF Next, vars, icid, Tick, Revoke, Start, Refused, Throw, Drop, Cached, LoadCompany,
            Read, NoCertificate, Reply, Reveal, FindLatest, Hold, BlankKey, Verify, Judge,
            AskIcid, AskIcidFails, List, ListCompanies, LoadAll, ReadAll, Batch, Listed,
            DeleteCompany
      <4> QED  BY <4>1
    <3> QED  BY <1>2, <3>1, <3>2 DEF Step
  <2> QED  BY <1>1, <2>1, <2>2 DEF SettledInv, Settled
<1>3. \A o \in Ops : Settled(o)'
  BY <1>1, <1>2, SettledStep
<1> QED  BY <1>1, <1>3 DEF SettledInv

\* generateCompanyCertificate: what ICID issued and the table lacks is the work of a
\* request that failed or is still at it; there is no other way to lose one, however
\* many requests there are and whatever fails.
THEOREM NoneIsLost == Spec => []OnlyFailuresAreUnknown
<1>1. Init => SettledInv
  <2> SUFFICES ASSUME Init PROVE SettledInv
    OBVIOUS
  <2>1. PICK old \in [Old -> OldRows] :
          certificates = [x \in Names |-> IF x \in Old THEN old[x] ELSE None]
    BY DEF Init
  <2>2. Typed /\ IssuedFirst
    BY TypedInit, IssuedFirstInit
  <2>3. \A x \in Old : certificates[x] # None
    <3>1. \A x \in Old : old[x] \in Certificate
      <4>1. Cardinality(Old) \in Nat
        BY FS_CardinalityType, CertificatesAssumption
      <4>2. ASSUME NEW r \in OldRows PROVE r \in Certificate
        <5>1. r.created \in Nat
          BY <4>1, <4>2 DEF OldRows
        <5> QED  BY <4>2, <5>1 DEF OldRows, Certificate
      <4> QED  BY <4>2
    <3> QED  BY <2>1, <3>1, CertificatesAssumption DEF Names
  <2> QED  BY <2>2, <2>3, CertificatesAssumption DEF Init, SettledInv, Settled, Rows, Names
<1>2. SettledInv => OnlyFailuresAreUnknown
  <2> SUFFICES ASSUME SettledInv PROVE OnlyFailuresAreUnknown
    OBVIOUS
  <2>1. issued \subseteq Old \cup Ops
    BY DEF SettledInv, Typed, TypeOK, Names
  <2> QED  BY <2>1 DEF SettledInv, Settled, IssuedFirst, OnlyFailuresAreUnknown, Kind
<1> QED  BY <1>1, <1>2, SettledNext, PTL DEF Spec
=============================================================================
