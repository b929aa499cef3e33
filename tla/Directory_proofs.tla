------------------------- MODULE Directory_proofs -------------------------
(***************************************************************************)
(* Proofs about Directory, for any number of companies, users, roles,      *)
(* factories and assets, any number of changes and every set of faults.    *)
(*                                                                         *)
(* The argument: what a query still has to do says what it has done, for   *)
(* every plan has its steps in the order of their ranks.  Of each step     *)
(* that is done there is a record: Known, what it holds and when that was  *)
(* true; Granted, whose grants it holds; Barred, which check let it pass;  *)
(* Secret, whose own the facts are that it has found; and True, how each   *)
(* of them is one that the query asks for.  Together they are Sound, which *)
(* every read keeps and which no change to the world can break: nothing in *)
(* it speaks of the present, only of what was so since the query arrived.  *)
(*                                                                         *)
(* That nothing is missing needs the opposite of it.  LastInv says of what *)
(* has been true all along: Covers, that a read that is done has missed    *)
(* none of it; Owing, that every such fact the query asks for has been     *)
(* found, need not be answered, or comes with a step still ahead; Denied,  *)
(* that a query that was refused had no right that lasted.  A change can   *)
(* only make less last, and at the end of a plan nothing lies ahead.       *)
(***************************************************************************)
EXTENDS Directory, SequenceTheorems, TLAPS

-----------------------------------------------------------------------------
(* The steps of a query.                                                   *)

\* The steps that are left.
Steps(s) == {s[i] : i \in DOMAIN s}

\* The steps of each query, but for the permission.
Base(kind) ==
    CASE kind \in {"details", "record"} -> {"company", "show"}
      [] kind = "roster" -> {"company", "home", "mapping", "users", "eachGrant"}
      [] kind = "owners" -> {"company", "match", "twins", "named"}
      [] kind = "category" -> {"company", "mapping"}
      [] kind = "taken" -> {"name", "number"}
      [] kind = "all" -> {"every", "mappings", "certificates"}
      [] kind = "listed" -> {"mapped", "named"}
      [] kind = "both" -> {"mapped", "present", "show"}
      [] kind = "page" -> {"mapped", "some"}
      [] kind = "groups" -> {"company", "match", "groups"}
      [] kind = "group" -> {"role", "itsCompany"}
      [] kind = "namedGroup" -> {"itsCompany", "roleNamed"}
      [] kind = "users" -> {"company", "match", "users"}
      [] kind = "access" -> {"company", "match", "users", "grants", "names"}
      [] kind = "user" -> {"user", "itsCompany"}
      [] kind = "profile" -> {"company", "match", "grants", "names"}
      [] kind = "grant" -> {"grantOf"}
      [] kind = "indexed" -> {"user", "given", "mapping", "grants", "names"}
      [] kind = "factories" -> {"match", "ownSites"}
      [] kind = "directory" -> {"factories"}
      [] kind = "factory" -> {"site", "match"}
      [] kind = "factoryOwner" -> {"site", "match", "present", "show"}
      [] kind = "factoryAssets" -> {"site", "match", "assetsThere"}
      [] kind \in {"made", "owned"} -> {"company", "match", "assets"}
      [] kind = "pair" -> {"company", "partner", "assets"}
      [] kind = "asset" -> {"asset", "party"}
      [] kind \in {"maker", "owner"} -> {"asset", "party", "present", "show"}
      [] kind = "location" -> {"asset", "party", "siteThere"}

\* The queries without a permission.
Open == {"category", "taken", "all", "listed", "both", "page", "grant", "indexed"}

\* Who has to have the permission.
Asks(q) == IsUser(q.caller) /\ q.kind \notin Open

\* The place of each step in the plans that have it.
Rank(s) ==
    CASE s \in {"every", "mapped", "site", "asset", "role", "user", "company", "name"} -> 1
      [] s \in {"match", "partner", "party", "itsCompany", "home", "number", "given"} -> 2
      [] s \in {"mapping", "mappings", "twins"} -> 3
      [] s \in {"users", "certificates", "eachGroup"} -> 4
      [] s \in {"names", "show"} -> 6
      [] OTHER -> 5

AllSteps ==
    {"company", "show", "home", "mapping", "users", "eachGrant", "eachGroup", "match",
     "twins", "named", "name", "number", "every", "mappings", "certificates", "mapped",
     "present", "some", "groups", "role", "itsCompany", "roleNamed", "grants", "names",
     "user", "grantOf", "given", "ownSites", "factories", "site", "assetsThere",
     "assets", "partner", "asset", "party", "siteThere", "grant", "group"}

\* Whether company c is the caller's.
Mine(q, c) == Claims(q.caller) = c

\* In order; the grant is read just before the role.
Late == {"home", "users", "eachGrant"}
MayPrecede(x, y) ==
    /\ x \notin {"grant", "group"} /\ y \notin {"grant", "group"} => Rank(x) < Rank(y)
    /\ y \in {"grant", "group"} => x \notin Late
    /\ x = "group" => y # "grant"
InOrder(td) == \A i, j \in DOMAIN td : i < j => MayPrecede(td[i], td[j])
Adjacent(td) == \A i \in DOMAIN td : td[i] = "group" => i > 1 /\ td[i-1] = "grant"

\* What a query that still has td to do looks like.
Shape(q, td) ==
    /\ q.kind \in Kinds /\ q.caller \in Callers /\ q.target \in Targets(q.kind)
    /\ td \in Seq(AllSteps)
    /\ InOrder(td)
    /\ \A i \in DOMAIN td : td[i] = "eachGroup" => i = 1
    /\ \A y \in Base(q.kind) \ Steps(td), z \in Steps(td) \cap Base(q.kind) :
         Rank(y) < Rank(z)
    /\ Steps(td) \subseteq Base(q.kind)
         \cup (IF Asks(q) THEN {"grant", "group"} ELSE {})
         \cup (IF q.kind = "roster" THEN {"eachGroup"} ELSE {})
         \cup (IF q.kind = "roster" /\ ~Mine(q, q.target) THEN {"show"} ELSE {})

\* What is no longer to do has been done.
Did(q, td, x) == x \in Base(q.kind) /\ x \notin Steps(td)

\* The company and the user that a query names, and its categories.
CompanyOf(q) == IF q.kind \in {"profile", "pair", "taken", "namedGroup", "indexed"}
                  THEN q.target[1] ELSE q.target
UserOf(q) == IF q.kind \in {"profile", "indexed"} THEN q.target[2] ELSE q.target
SiteKinds == {"factory", "factoryOwner", "factoryAssets"}
Wanted(q) == IF q.kind = "both" THEN Listed ELSE {q.target}

\* What each read that is done has left in what the query holds.
Known(q, td, sn, ev) ==
    /\ Did(q, td, "company") =>
         sn.company = CompanyOf(q) /\ CompanyOf(q) \in Companies
               /\ <<"company", CompanyOf(q)>> \in ev
    /\ Did(q, td, "company") /\ q.kind \in {"details", "record", "roster"} =>
         sn.listed = {CompanyOf(q)}
    /\ Did(q, td, "site") =>
         sn.company = HomeOf[q.target] /\ <<"site", q.target, sn.company>> \in ev
    /\ Did(q, td, "role") => sn.company = HomeOf[q.target]
    /\ Did(q, td, "user") =>
         sn.company = HomeOf[UserOf(q)] /\ <<"user", UserOf(q), sn.company>> \in ev
    /\ Did(q, td, "asset") =>
         /\ sn.row \in Asset /\ sn.row # None /\ <<"asset", q.target, sn.row>> \in ev
         /\ q.kind = "owner" => sn.row.owner # None
         /\ q.kind = "location" => sn.row.site # None
    /\ Did(q, td, "every") => \A c \in sn.listed : <<"company", c>> \in ev
    /\ Did(q, td, "mapped") => \A c \in sn.listed : \E k \in Wanted(q) : <<"category", c, k>> \in ev
    /\ Did(q, td, "twins") => \A c \in sn.listed : \E a \in Assets, row \in Asset :
         <<"asset", a, row>> \in ev /\ row.maker = q.target /\ row.owner = c
    /\ Did(q, td, "present") => \A c \in sn.listed :
         /\ <<"company", c>> \in ev
         /\ q.kind = "maker" => c = sn.row.maker
         /\ q.kind = "owner" => c = sn.row.owner
         /\ q.kind = "factoryOwner" => c = sn.company
    /\ Did(q, td, "partner") => <<"company", q.target[2]>> \in ev
    /\ Did(q, td, "users") /\ (q.kind = "access" \/ (q.kind = "roster" /\ Mine(q, q.target))) =>
         \A u \in sn.users : HomeOf[u] = q.target /\ <<"user", u, q.target>> \in ev

\* Whose grants it holds; of a user without it is known that it has no role.
Granted(q, td, sn, ev) ==
    /\ Did(q, td, "grants") =>
         /\ q.kind # "access" => sn.users = {UserOf(q)}
         /\ \A h \in sn.held : <<"grant", h[1], h[2]>> \in ev
         /\ \A g, h \in sn.held : g[1] = h[1] => g = h
         /\ \A u \in sn.users : (\E h \in sn.held : h[1] = u) \/ <<"role", u, None>> \in ev
    /\ "eachGroup" \in Steps(td) =>
         /\ sn.held # {}
         /\ \A h \in sn.held : /\ <<"grant", h[1], h[2]>> \in ev
                               /\ HomeOf[h[1]] = q.target /\ <<"user", h[1], q.target>> \in ev
         /\ \A g, h \in sn.held : g = h

\* Whose grant was replaced.
Swapped(ev, u) == \E g, h \in Groups \cup {None} :
    g # h /\ <<"grant", u, g>> \in ev /\ <<"grant", u, h>> \in ev

\* What each check that is done has asked.
Barred(q, td, sn, ev) ==
    /\ Did(q, td, "match") => Mine(q, IF q.kind \in SiteKinds THEN sn.company ELSE CompanyOf(q))
    /\ Did(q, td, "itsCompany") =>
         Mine(q, IF q.kind = "namedGroup" THEN CompanyOf(q) ELSE sn.company)
    /\ Did(q, td, "party") => \E c \in Companies : Mine(q, c) /\ c \in {sn.row.maker, sn.row.owner}
    /\ Did(q, td, "partner") => Mine(q, q.target[1]) \/ Mine(q, q.target[2])
    /\ Did(q, td, "home") => Mine(q, q.target) \/ td = <<"show">> \/ td = <<>>
    /\ Asks(q) =>
         /\ \/ "grant" \in Steps(td)
            \/ sn.grant \in Groups /\ <<"grant", q.caller.user, sn.grant>> \in ev
         /\ \/ "group" \in Steps(td)
            \/ <<"reader", q.caller.user>> \in ev \/ Swapped(ev, q.caller.user)

\* Whose own the facts found are, or which check is still ahead.
Secret(q, td, sn, fd) ==
    \A f \in fd : f[1] \notin Public =>
      /\ q.kind \notin Open \/ q.kind \in {"grant", "indexed"}
      /\ q.kind \notin {"profile", "grant", "indexed"} =>
         \/ \E c \in OwnersOf(f) : Mine(q, c)
         \/ /\ q.kind \in {"group", "user", "factory"} /\ HomeOf[q.target] \in OwnersOf(f)
            /\ "itsCompany" \in Steps(td) \/ "match" \in Steps(td)
         \/ /\ q.kind = "asset" /\ Did(q, td, "asset") /\ "party" \in Steps(td)
            /\ OwnersOf(f) = {sn.row.maker, sn.row.owner}
         \/ q.kind = "location" /\ Did(q, td, "asset") /\ f[2] = sn.row.site

\* Facts of a company that was there, and those of the row of one.
There(ev, c) == <<"company", c>> \in ev
OfProfile(ev, f, c) == f[1] \in {"company", "category"} /\ f[2] = c /\ There(ev, c)
OfRow(q, ev, f, c) ==
    \/ f[1] = "record" /\ f[2] = c /\ Mine(q, c)
    \/ OfProfile(ev, f, c) /\ ~Mine(q, c)

\* That fact f was true, and that q asks for it.
Told(q, ev, f) == f \in ev /\
    CASE q.kind \in {"details", "record"} -> OfRow(q, ev, f, q.target)
      [] q.kind = "roster" -> There(ev, q.target) /\
           (\/ OfProfile(ev, f, q.target)
            \/ Mine(q, q.target) /\ f[1] = "user" /\ f[3] = q.target
            \/ Mine(q, q.target) /\ f[1] = "role" /\ <<"user", f[2], q.target>> \in ev)
      [] q.kind = "owners" -> There(ev, q.target) /\ f[1] = "company" /\
           \E a \in Assets, row \in Asset :
             <<"asset", a, row>> \in ev /\ row.maker = q.target /\ row.owner = f[2]
      [] q.kind = "category" -> There(ev, q.target) /\ f[1] = "category" /\ f[2] = q.target
      [] q.kind = "taken" -> f[1] = "company" /\ f[2] \in {q.target[1], q.target[2]}
      [] q.kind = "all" -> There(ev, f[2]) /\ f[2] \in Companies
                             /\ f[1] \in {"company", "category", "certified"}
      [] q.kind \in {"listed", "page", "both"} -> OfProfile(ev, f, f[2])
             /\ \E k \in Wanted(q) : <<"category", f[2], k>> \in ev
      [] q.kind = "groups" -> There(ev, q.target) /\ f[1] = "group" /\ HomeOf[f[2]] = q.target
      [] q.kind = "group" -> f[1] = "group" /\ f[2] = q.target
      [] q.kind = "namedGroup" ->
           f[1] = "group" /\ HomeOf[f[2]] = q.target[1] /\ f[3].name = q.target[2]
      [] q.kind = "users" -> There(ev, q.target) /\ f[1] = "user" /\ f[3] = q.target
      [] q.kind = "access" -> There(ev, q.target) /\
           (\/ f[1] = "user" /\ f[3] = q.target
            \/ f[1] = "role" /\ <<"user", f[2], q.target>> \in ev)
      [] q.kind = "user" -> f[1] = "user" /\ f[2] = q.target
      [] q.kind = "profile" -> There(ev, q.target[1]) /\ f[1] = "role" /\ f[2] = q.target[2]
      [] q.kind = "grant" -> f[1] = "grant" /\ f[2] = q.target
      [] q.kind = "indexed" ->
           \/ f[1] = "company" /\ f[2] = q.target[1]
           \/ f[1] \in {"user", "role"} /\ f[2] = q.target[2]
           \/ f[1] = "category" /\ <<"user", q.target[2], f[2]>> \in ev
      [] q.kind = "factories" -> f[1] = "site" /\ f[3] = q.target
      [] q.kind = "directory" -> f[1] = "factory" /\ f[2] \in Factories
      [] q.kind = "factory" -> f[1] = "site" /\ f[2] = q.target
      [] q.kind = "factoryOwner" ->
           \E c \in Companies : <<"site", q.target, c>> \in ev /\ OfRow(q, ev, f, c)
      [] q.kind = "factoryAssets" -> f[1] = "stands" /\ f[3] = q.target /\
           \E c \in Companies : <<"site", q.target, c>> \in ev
      [] q.kind = "made" -> There(ev, q.target) /\ f[1] = "asset" /\ f[3].maker = q.target
      [] q.kind = "owned" -> There(ev, q.target) /\ f[1] = "asset" /\ f[3].owner = q.target
      [] q.kind = "pair" -> There(ev, q.target[1]) /\ There(ev, q.target[2]) /\ f[1] = "asset"
                              /\ f[3].maker = q.target[1] /\ f[3].owner = q.target[2]
      [] q.kind = "asset" -> f[1] = "asset" /\ f[2] = q.target
      [] q.kind = "maker" -> \E row \in Asset :
           <<"asset", q.target, row>> \in ev /\ OfRow(q, ev, f, row.maker)
      [] q.kind = "owner" -> \E row \in Asset :
           <<"asset", q.target, row>> \in ev /\ OfRow(q, ev, f, row.owner)
      [] q.kind = "location" -> f[1] = "site" /\ \E row \in Asset :
           <<"asset", q.target, row>> \in ev /\ f[2] = row.site
True(q, ev, fd) == \A f \in fd : Told(q, ev, f) \/ (f[1] = "role" /\ Swapped(ev, f[2]))

\* What a query can hold.
Holding == [grant : Groups \cup {None}, company : Companies \cup {None},
            listed : SUBSET Companies, users : SUBSET Users,
            held : SUBSET (Users \X Groups), row : Asset \cup {None},
            silent : BOOLEAN]

\* A role is read by the grant before it.
Ready(td, sn) ==
    \A i \in DOMAIN td : td[i] = "group" =>
      (i > 1 /\ td[i - 1] = "grant") \/ (i = 1 /\ sn.grant # None)

\* All of it.
Sound(q, td, sn, fd, ev) ==
    /\ Shape(q, td) /\ sn \in Holding /\ Ready(td, sn)
    /\ Known(q, td, sn, ev) /\ Granted(q, td, sn, ev) /\ Barred(q, td, sn, ev)
    /\ Secret(q, td, sn, fd) /\ True(q, ev, fd)

-----------------------------------------------------------------------------
(* Plans are put together from pieces that are in order.                   *)

\* A piece of a plan.
Fit(s) == s \in Seq(AllSteps) /\ InOrder(s) /\ Adjacent(s)

\* The steps of two pieces, one after the other.
LEMMA ConcatSteps ==
    ASSUME NEW S, NEW s \in Seq(S), NEW t \in Seq(S)
    PROVE  Steps(s \o t) = Steps(s) \cup Steps(t)
<1>1. s \o t \in Seq(S) /\ Len(s \o t) = Len(s) + Len(t)
  OBVIOUS
<1>2. \A i \in 1 .. Len(s) + Len(t) : (s \o t)[i] = IF i <= Len(s) THEN s[i] ELSE t[i - Len(s)]
  OBVIOUS
<1>3. ASSUME NEW i \in 1 .. Len(t)
      PROVE  (s \o t)[i + Len(s)] = t[i] /\ i + Len(s) \in 1 .. Len(s) + Len(t)
  BY <1>2
<1>4. \A i \in 1 .. Len(s) + Len(t) : (s \o t)[i] \in Steps(s) \cup Steps(t)
  <2> TAKE i \in 1 .. Len(s) + Len(t)
  <2>1. CASE i <= Len(s)  BY <2>1, <1>2 DEF Steps
  <2>2. CASE i > Len(s)
    <3>1. i - Len(s) \in 1 .. Len(t) /\ (s \o t)[i] = t[i - Len(s)]  BY <2>2, <1>2
    <3> QED  BY <3>1 DEF Steps
  <2> QED  BY <2>1, <2>2
<1>5. Steps(s) \subseteq Steps(s \o t)
  BY <1>1, <1>2 DEF Steps
<1>6. Steps(t) \subseteq Steps(s \o t)
  <2> SUFFICES ASSUME NEW i \in 1 .. Len(t) PROVE t[i] \in Steps(s \o t)
    BY DEF Steps
  <2>1. i + Len(s) \in DOMAIN (s \o t) /\ (s \o t)[i + Len(s)] = t[i]  BY <1>1, <1>3
  <2> QED  BY <2>1 DEF Steps
<1>7. Steps(s \o t) \subseteq Steps(s) \cup Steps(t)
  <2> SUFFICES ASSUME NEW x \in Steps(s \o t) PROVE x \in Steps(s) \cup Steps(t)
    OBVIOUS
  <2>1. PICK i \in DOMAIN (s \o t) : x = (s \o t)[i]  BY DEF Steps
  <2> QED  BY <2>1, <1>1, <1>4
<1> QED  BY <1>5, <1>6, <1>7

\* Pieces in order make a plan in order.
LEMMA ConcatFits ==
    ASSUME NEW s, NEW t, Fit(s), Fit(t),
           \A a \in Steps(s), b \in Steps(t) : MayPrecede(a, b)
    PROVE  Fit(s \o t)
<1>1. s \o t \in Seq(AllSteps) /\ Len(s \o t) = Len(s) + Len(t)
  BY DEF Fit
<1>2. \A i \in 1 .. Len(s) + Len(t) : (s \o t)[i] = IF i <= Len(s) THEN s[i] ELSE t[i - Len(s)]
  BY DEF Fit
<1>3. InOrder(s \o t)
  BY <1>1, <1>2 DEF Fit, InOrder, Steps
<1>4. Adjacent(s \o t)
  <2> SUFFICES ASSUME NEW i \in 1 .. Len(s) + Len(t), (s \o t)[i] = "group"
               PROVE  i > 1 /\ (s \o t)[i - 1] = "grant"
    <3>1. DOMAIN (s \o t) = 1 .. Len(s) + Len(t)  BY <1>1
    <3> QED  BY <3>1 DEF Adjacent
  <2> s \in Seq(AllSteps) /\ t \in Seq(AllSteps)  BY DEF Fit
  <2>1. CASE i <= Len(s)
    <3>1. i \in DOMAIN s /\ s[i] = "group"  BY <2>1, <1>2
    <3>2. i > 1 /\ s[i - 1] = "grant"  BY <3>1 DEF Fit, Adjacent
    <3> QED  BY <2>1, <3>1, <3>2, <1>2
  <2>2. CASE i > Len(s)
    <3>1. i - Len(s) \in DOMAIN t /\ t[i - Len(s)] = "group"  BY <2>2, <1>2
    <3>2. i - Len(s) > 1 /\ t[(i - Len(s)) - 1] = "grant"  BY <3>1 DEF Fit, Adjacent
    <3>3. i - 1 \in 1 .. Len(s) + Len(t) /\ ~(i - 1 <= Len(s))
          /\ (i - 1) - Len(s) = (i - Len(s)) - 1
      BY <3>2, <2>2
    <3> QED  BY <3>2, <3>3, <1>2
  <2> QED  BY <2>1, <2>2
<1> QED  BY <1>1, <1>3, <1>4 DEF Fit

\* Pieces of one step to five, in order when their ranks are.
LEMMA Fit1 ==
    ASSUME NEW a \in AllSteps \ {"grant", "group"}
    PROVE  Fit(<<a>>) /\ Steps(<<a>>) = {a}
<1> DEFINE s == <<a>>
<1>1. s \in Seq(AllSteps) /\ DOMAIN s = 1 .. 1 /\ s[1] = a
  OBVIOUS
<1> HIDE DEF s
<1>0. Rank(a) \in Int  BY DEF Rank
<1>2. InOrder(s)  BY <1>0, <1>1 DEF InOrder, MayPrecede
<1>3. Adjacent(s)  BY <1>1 DEF Adjacent
<1>4. Steps(s) = {a}  BY <1>1 DEF Steps
<1> QED  BY <1>1, <1>2, <1>3, <1>4 DEF Fit, s

LEMMA Fit2 ==
    ASSUME NEW a \in AllSteps \ {"grant", "group"}, NEW b \in AllSteps \ {"grant", "group"},
           Rank(a) < Rank(b)
    PROVE  Fit(<<a, b>>) /\ Steps(<<a, b>>) = {a, b}
<1> DEFINE s == <<a, b>>
<1>1. s \in Seq(AllSteps) /\ DOMAIN s = 1 .. 2 /\ s[1] = a /\ s[2] = b
  OBVIOUS
<1> HIDE DEF s
<1>0. Rank(a) \in Int /\ Rank(b) \in Int  BY DEF Rank
<1>2. InOrder(s)  BY <1>0, <1>1 DEF InOrder, MayPrecede
<1>3. Adjacent(s)  BY <1>1 DEF Adjacent
<1>4. Steps(s) = {a, b}  BY <1>1 DEF Steps
<1> QED  BY <1>1, <1>2, <1>3, <1>4 DEF Fit, s

LEMMA Fit3 ==
    ASSUME NEW a \in AllSteps \ {"grant", "group"}, NEW b \in AllSteps \ {"grant", "group"},
           NEW c \in AllSteps \ {"grant", "group"},
           Rank(a) < Rank(b), Rank(b) < Rank(c)
    PROVE  Fit(<<a, b, c>>) /\ Steps(<<a, b, c>>) = {a, b, c}
<1> DEFINE s == <<a, b, c>>
<1>1. s \in Seq(AllSteps) /\ DOMAIN s = 1 .. 3 /\ s[1] = a /\ s[2] = b /\ s[3] = c
  OBVIOUS
<1> HIDE DEF s
<1>0. Rank(a) \in Int /\ Rank(b) \in Int /\ Rank(c) \in Int  BY DEF Rank
<1>2. InOrder(s)  BY <1>0, <1>1 DEF InOrder, MayPrecede
<1>3. Adjacent(s)  BY <1>1 DEF Adjacent
<1>4. Steps(s) = {a, b, c}  BY <1>1 DEF Steps
<1> QED  BY <1>1, <1>2, <1>3, <1>4 DEF Fit, s

LEMMA Fit4 ==
    ASSUME NEW a \in AllSteps \ {"grant", "group"}, NEW b \in AllSteps \ {"grant", "group"},
           NEW c \in AllSteps \ {"grant", "group"}, NEW d \in AllSteps \ {"grant", "group"},
           Rank(a) < Rank(b), Rank(b) < Rank(c), Rank(c) < Rank(d)
    PROVE  Fit(<<a, b, c, d>>) /\ Steps(<<a, b, c, d>>) = {a, b, c, d}
<1> DEFINE s == <<a, b, c, d>>
<1>1. s \in Seq(AllSteps) /\ DOMAIN s = 1 .. 4 /\ s[1] = a /\ s[2] = b /\ s[3] = c /\ s[4] = d
  OBVIOUS
<1> HIDE DEF s
<1>0. Rank(a) \in Int /\ Rank(b) \in Int /\ Rank(c) \in Int /\ Rank(d) \in Int  BY DEF Rank
<1>2. InOrder(s)  BY <1>0, <1>1 DEF InOrder, MayPrecede
<1>3. Adjacent(s)  BY <1>1 DEF Adjacent
<1>4. Steps(s) = {a, b, c, d}  BY <1>1 DEF Steps
<1> QED  BY <1>1, <1>2, <1>3, <1>4 DEF Fit, s

LEMMA Fit5 ==
    ASSUME NEW a \in AllSteps \ {"grant", "group"}, NEW b \in AllSteps \ {"grant", "group"},
           NEW c \in AllSteps \ {"grant", "group"}, NEW d \in AllSteps \ {"grant", "group"},
                 NEW e \in AllSteps \ {"grant", "group"},
           Rank(a) < Rank(b), Rank(b) < Rank(c), Rank(c) < Rank(d), Rank(d) < Rank(e)
    PROVE  Fit(<<a, b, c, d, e>>) /\ Steps(<<a, b, c, d, e>>) = {a, b, c, d, e}
<1> DEFINE s == <<a, b, c, d, e>>
<1>1. s \in Seq(AllSteps) /\ DOMAIN s = 1 .. 5 /\ s[1] = a /\ s[2] = b /\ s[3] = c /\ s[4] = d
      /\ s[5] = e
  OBVIOUS
<1> HIDE DEF s
<1>0. Rank(a) \in Int /\ Rank(b) \in Int /\ Rank(c) \in Int /\ Rank(d) \in Int /\ Rank(e) \in Int
  BY DEF Rank
<1>2. InOrder(s)  BY <1>0, <1>1 DEF InOrder, MayPrecede
<1>3. Adjacent(s)  BY <1>1 DEF Adjacent
<1>4. Steps(s) = {a, b, c, d, e}  BY <1>1 DEF Steps
<1> QED  BY <1>1, <1>2, <1>3, <1>4 DEF Fit, s

\* The permission is a piece too.
LEMMA PermissionFits ==
    ASSUME NEW k
    PROVE  /\ Fit(Permission(k))
           /\ Steps(Permission(k)) = IF IsUser(k) THEN {"grant", "group"} ELSE {}
<1> DEFINE s == <<"grant", "group">>
<1>1. s \in Seq(AllSteps) /\ DOMAIN s = 1 .. 2 /\ s[1] = "grant" /\ s[2] = "group"
  <2>1. "grant" \in AllSteps /\ "group" \in AllSteps  BY DEF AllSteps
  <2> QED  BY <2>1
<1> HIDE DEF s
<1>2. InOrder(s) /\ Adjacent(s)
  <2>1. InOrder(s)  BY <1>1 DEF InOrder, MayPrecede, Late
  <2>2. Adjacent(s)  BY <1>1 DEF Adjacent
  <2> QED  BY <2>1, <2>2
<1>3. Steps(s) = {"grant", "group"}  BY <1>1 DEF Steps
<1>4. Fit(s)  BY <1>1, <1>2 DEF Fit
<1>5. Fit(<<>>) /\ Steps(<<>>) = {}
  BY DEF Fit, InOrder, Adjacent, Steps
<1> QED  BY <1>3, <1>4, <1>5 DEF Permission, s

\* The permission is asked for at the end of a plan, at its start, or between.
LEMMA PermissionLast ==
    ASSUME NEW s, Fit(s), Steps(s) \cap (Late \cup {"group"}) = {}, NEW k
    PROVE  Fit(s \o Permission(k)) /\ Steps(s \o Permission(k)) = Steps(s) \cup Steps(Permission(k))
<1> DEFINE p == Permission(k)
<1>1. Fit(p) /\ Steps(p) \subseteq {"grant", "group"}  BY PermissionFits
<1> HIDE DEF p
<1>2. Fit(s \o p)
  <2>1. \A a \in Steps(s), b \in Steps(p) : MayPrecede(a, b)  BY <1>1 DEF MayPrecede
  <2> QED  BY <1>1, <2>1, ConcatFits
<1> QED  BY <1>1, <1>2, ConcatSteps DEF Fit, p

LEMMA PermissionFirst ==
    ASSUME NEW s, Fit(s), "grant" \notin Steps(s), NEW k
    PROVE  Fit(Permission(k) \o s) /\ Steps(Permission(k) \o s) = Steps(s) \cup Steps(Permission(k))
<1> DEFINE p == Permission(k)
<1>1. Fit(p) /\ Steps(p) \subseteq {"grant", "group"}  BY PermissionFits
<1> HIDE DEF p
<1>2. Fit(p \o s)
  <2>1. \A a \in Steps(p), b \in Steps(s) : MayPrecede(a, b)  BY <1>1 DEF MayPrecede, Late
  <2> QED  BY <1>1, <2>1, ConcatFits
<1> QED  BY <1>1, <1>2, ConcatSteps DEF Fit, p

LEMMA PermissionBetween ==
    ASSUME NEW s, NEW t, Fit(s), Fit(t), "grant" \notin Steps(t),
           Steps(s) \cap (Late \cup {"group"}) = {}, NEW k,
           \A a \in Steps(s), b \in Steps(t) : MayPrecede(a, b)
    PROVE  /\ Fit(s \o Permission(k) \o t)
           /\ Steps(s \o Permission(k) \o t) = Steps(s) \cup Steps(t) \cup Steps(Permission(k))
<1> DEFINE sp == s \o Permission(k)
<1>1. Fit(sp) /\ Steps(sp) = Steps(s) \cup Steps(Permission(k))  BY PermissionLast
<1>2. Steps(Permission(k)) \subseteq {"grant", "group"}  BY PermissionFits
<1> HIDE DEF sp
<1>3. \A a \in Steps(sp), b \in Steps(t) : MayPrecede(a, b)
  BY <1>1, <1>2 DEF MayPrecede, Late
<1>4. Fit(sp \o t)  BY <1>1, <1>3, ConcatFits
<1>5. Steps(sp \o t) = Steps(sp) \cup Steps(t)  BY <1>1, ConcatSteps DEF Fit
<1> QED  BY <1>1, <1>4, <1>5 DEF sp

\* A plan with a step is not empty.
LEMMA FullOfSteps == ASSUME NEW s, Fit(s), Steps(s) # {} PROVE s # <<>>
BY DEF Fit, Steps

\* The pieces of the plans.
LEMMA PiecesFit ==
    /\ Fit(<<"company", "show">>) /\ Steps(<<"company", "show">>) = {"company", "show"}
    /\ Fit(<<"company">>) /\ Steps(<<"company">>) = {"company"}
    /\ Fit(<<"show">>) /\ Steps(<<"show">>) = {"show"}
    /\ Fit(<<"home", "mapping", "users", "eachGrant">>)
          /\ Steps(<<"home", "mapping", "users", "eachGrant">>)
                = {"home", "mapping", "users", "eachGrant"}
    /\ Fit(<<"company", "match">>) /\ Steps(<<"company", "match">>) = {"company", "match"}
    /\ Fit(<<"twins", "named">>) /\ Steps(<<"twins", "named">>) = {"twins", "named"}
    /\ Fit(<<"company", "mapping">>) /\ Steps(<<"company", "mapping">>) = {"company", "mapping"}
    /\ Fit(<<"name", "number">>) /\ Steps(<<"name", "number">>) = {"name", "number"}
    /\ Fit(<<"every", "mappings", "certificates">>)
          /\ Steps(<<"every", "mappings", "certificates">>) = {"every", "mappings", "certificates"}
    /\ Fit(<<"mapped", "named">>) /\ Steps(<<"mapped", "named">>) = {"mapped", "named"}
    /\ Fit(<<"mapped", "present", "show">>) /\ Steps(<<"mapped", "present", "show">>)
          = {"mapped", "present", "show"}
    /\ Fit(<<"mapped", "some">>) /\ Steps(<<"mapped", "some">>) = {"mapped", "some"}
    /\ Fit(<<"groups">>) /\ Steps(<<"groups">>) = {"groups"}
    /\ Fit(<<"role", "itsCompany">>) /\ Steps(<<"role", "itsCompany">>) = {"role", "itsCompany"}
    /\ Fit(<<"itsCompany">>) /\ Steps(<<"itsCompany">>) = {"itsCompany"}
    /\ Fit(<<"roleNamed">>) /\ Steps(<<"roleNamed">>) = {"roleNamed"}
    /\ Fit(<<"users">>) /\ Steps(<<"users">>) = {"users"}
    /\ Fit(<<"users", "grants", "names">>) /\ Steps(<<"users", "grants", "names">>)
          = {"users", "grants", "names"}
    /\ Fit(<<"user", "itsCompany">>) /\ Steps(<<"user", "itsCompany">>) = {"user", "itsCompany"}
    /\ Fit(<<"grants", "names">>) /\ Steps(<<"grants", "names">>) = {"grants", "names"}
    /\ Fit(<<"grantOf">>) /\ Steps(<<"grantOf">>) = {"grantOf"}
    /\ Fit(<<"user", "given", "mapping", "grants", "names">>)
          /\ Steps(<<"user", "given", "mapping", "grants", "names">>)
                = {"user", "given", "mapping", "grants", "names"}
    /\ Fit(<<"match", "ownSites">>) /\ Steps(<<"match", "ownSites">>) = {"match", "ownSites"}
    /\ Fit(<<"factories">>) /\ Steps(<<"factories">>) = {"factories"}
    /\ Fit(<<"site", "match">>) /\ Steps(<<"site", "match">>) = {"site", "match"}
    /\ Fit(<<"present", "show">>) /\ Steps(<<"present", "show">>) = {"present", "show"}
    /\ Fit(<<"assetsThere">>) /\ Steps(<<"assetsThere">>) = {"assetsThere"}
    /\ Fit(<<"assets">>) /\ Steps(<<"assets">>) = {"assets"}
    /\ Fit(<<"company", "partner">>) /\ Steps(<<"company", "partner">>) = {"company", "partner"}
    /\ Fit(<<"asset", "party">>) /\ Steps(<<"asset", "party">>) = {"asset", "party"}
    /\ Fit(<<"siteThere">>) /\ Steps(<<"siteThere">>) = {"siteThere"}
<1>1. Fit(<<"company", "show">>) /\ Steps(<<"company", "show">>) = {"company", "show"}
  BY Fit2 DEF AllSteps, Rank
<1>2. Fit(<<"company">>) /\ Steps(<<"company">>) = {"company"}
  BY Fit1 DEF AllSteps, Rank
<1>3. Fit(<<"show">>) /\ Steps(<<"show">>) = {"show"}
  BY Fit1 DEF AllSteps, Rank
<1>4. Fit(<<"home", "mapping", "users", "eachGrant">>)
      /\ Steps(<<"home", "mapping", "users", "eachGrant">>)
            = {"home", "mapping", "users", "eachGrant"}
  BY Fit4 DEF AllSteps, Rank
<1>5. Fit(<<"company", "match">>) /\ Steps(<<"company", "match">>) = {"company", "match"}
  BY Fit2 DEF AllSteps, Rank
<1>6. Fit(<<"twins", "named">>) /\ Steps(<<"twins", "named">>) = {"twins", "named"}
  BY Fit2 DEF AllSteps, Rank
<1>7. Fit(<<"company", "mapping">>) /\ Steps(<<"company", "mapping">>) = {"company", "mapping"}
  BY Fit2 DEF AllSteps, Rank
<1>8. Fit(<<"name", "number">>) /\ Steps(<<"name", "number">>) = {"name", "number"}
  BY Fit2 DEF AllSteps, Rank
<1>9. Fit(<<"every", "mappings", "certificates">>)
      /\ Steps(<<"every", "mappings", "certificates">>) = {"every", "mappings", "certificates"}
  BY Fit3 DEF AllSteps, Rank
<1>10. Fit(<<"mapped", "named">>) /\ Steps(<<"mapped", "named">>) = {"mapped", "named"}
  BY Fit2 DEF AllSteps, Rank
<1>11. Fit(<<"mapped", "present", "show">>) /\ Steps(<<"mapped", "present", "show">>)
      = {"mapped", "present", "show"}
  BY Fit3 DEF AllSteps, Rank
<1>12. Fit(<<"mapped", "some">>) /\ Steps(<<"mapped", "some">>) = {"mapped", "some"}
  BY Fit2 DEF AllSteps, Rank
<1>13. Fit(<<"groups">>) /\ Steps(<<"groups">>) = {"groups"}
  BY Fit1 DEF AllSteps, Rank
<1>14. Fit(<<"role", "itsCompany">>) /\ Steps(<<"role", "itsCompany">>) = {"role", "itsCompany"}
  BY Fit2 DEF AllSteps, Rank
<1>15. Fit(<<"itsCompany">>) /\ Steps(<<"itsCompany">>) = {"itsCompany"}
  BY Fit1 DEF AllSteps, Rank
<1>16. Fit(<<"roleNamed">>) /\ Steps(<<"roleNamed">>) = {"roleNamed"}
  BY Fit1 DEF AllSteps, Rank
<1>17. Fit(<<"users">>) /\ Steps(<<"users">>) = {"users"}
  BY Fit1 DEF AllSteps, Rank
<1>18. Fit(<<"users", "grants", "names">>) /\ Steps(<<"users", "grants", "names">>)
      = {"users", "grants", "names"}
  BY Fit3 DEF AllSteps, Rank
<1>19. Fit(<<"user", "itsCompany">>) /\ Steps(<<"user", "itsCompany">>) = {"user", "itsCompany"}
  BY Fit2 DEF AllSteps, Rank
<1>20. Fit(<<"grants", "names">>) /\ Steps(<<"grants", "names">>) = {"grants", "names"}
  BY Fit2 DEF AllSteps, Rank
<1>21. Fit(<<"grantOf">>) /\ Steps(<<"grantOf">>) = {"grantOf"}
  BY Fit1 DEF AllSteps, Rank
<1>22. Fit(<<"user", "given", "mapping", "grants", "names">>)
      /\ Steps(<<"user", "given", "mapping", "grants", "names">>)
            = {"user", "given", "mapping", "grants", "names"}
  BY Fit5 DEF AllSteps, Rank
<1>23. Fit(<<"match", "ownSites">>) /\ Steps(<<"match", "ownSites">>) = {"match", "ownSites"}
  BY Fit2 DEF AllSteps, Rank
<1>24. Fit(<<"factories">>) /\ Steps(<<"factories">>) = {"factories"}
  BY Fit1 DEF AllSteps, Rank
<1>25. Fit(<<"site", "match">>) /\ Steps(<<"site", "match">>) = {"site", "match"}
  BY Fit2 DEF AllSteps, Rank
<1>26. Fit(<<"present", "show">>) /\ Steps(<<"present", "show">>) = {"present", "show"}
  BY Fit2 DEF AllSteps, Rank
<1>27. Fit(<<"assetsThere">>) /\ Steps(<<"assetsThere">>) = {"assetsThere"}
  BY Fit1 DEF AllSteps, Rank
<1>28. Fit(<<"assets">>) /\ Steps(<<"assets">>) = {"assets"}
  BY Fit1 DEF AllSteps, Rank
<1>29. Fit(<<"company", "partner">>) /\ Steps(<<"company", "partner">>) = {"company", "partner"}
  BY Fit2 DEF AllSteps, Rank
<1>30. Fit(<<"asset", "party">>) /\ Steps(<<"asset", "party">>) = {"asset", "party"}
  BY Fit2 DEF AllSteps, Rank
<1>31. Fit(<<"siteThere">>) /\ Steps(<<"siteThere">>) = {"siteThere"}
  BY Fit1 DEF AllSteps, Rank
<1> QED  BY <1>1, <1>2, <1>3, <1>4, <1>5, <1>6, <1>7, <1>8, <1>9, <1>10, <1>11, <1>12, <1>13,
      <1>14, <1>15, <1>16, <1>17, <1>18, <1>19, <1>20, <1>21, <1>22, <1>23, <1>24, <1>25, <1>26,
            <1>27, <1>28, <1>29, <1>30, <1>31

\* Plans put together, which are in order when their pieces are.
LEMMA PlanFits ==
    ASSUME NEW kind \in AllKinds, NEW k
    PROVE  /\ Fit(Plan(kind, k)) /\ Plan(kind, k) # <<>>
           /\ Steps(Plan(kind, k)) = Base(kind) \cup
                (IF IsUser(k) /\ kind \notin Open THEN {"grant", "group"} ELSE {})
<1> DEFINE p == Permission(k)
<1>0. Steps(p) = IF IsUser(k) THEN {"grant", "group"} ELSE {}  BY PermissionFits
<1> HIDE DEF p
<1>1. CASE kind = "details"
  <2>1. Plan(kind, k) = p \o <<"company", "show">>
    BY <1>1 DEF Plan, CompanyPlan, p
  <2>2. Fit(p \o <<"company", "show">>) /\ Steps(p \o <<"company", "show">>) = Steps(p)
        \cup {"company", "show"}
    <3>1. Fit(<<"company", "show">>) /\ Steps(<<"company", "show">>) = {"company", "show"}
      BY PiecesFit
    <3> QED  BY <3>1, PermissionFirst DEF p
  <2> QED  BY <1>1, <2>1, <2>2, <1>0, FullOfSteps DEF Base, Open
<1>2. CASE kind = "record"
  <2>1. Plan(kind, k) = <<"company">> \o p \o <<"show">>
    BY <1>2 DEF Plan, CompanyPlan, p
  <2>2. Fit(<<"company">> \o p \o <<"show">>) /\ Steps(<<"company">> \o p \o <<"show">>)
        = {"company", "show"} \cup Steps(p)
    <3>1. Fit(<<"company">>) /\ Steps(<<"company">>) = {"company"} /\ Fit(<<"show">>)
          /\ Steps(<<"show">>) = {"show"}
      BY PiecesFit
    <3>2. \A a \in Steps(<<"company">>), b \in Steps(<<"show">>) : MayPrecede(a, b)
      BY <3>1 DEF Rank, MayPrecede
    <3> QED  BY <3>1, <3>2, PermissionBetween DEF p, Late
  <2> QED  BY <1>2, <2>1, <2>2, <1>0, FullOfSteps DEF Base, Open
<1>3. CASE kind = "roster"
  <2>1. Plan(kind, k) = <<"company">> \o p \o <<"home", "mapping", "users", "eachGrant">>
    BY <1>3 DEF Plan, CompanyPlan, p
  <2>2. Fit(<<"company">> \o p \o <<"home", "mapping", "users", "eachGrant">>)
        /\ Steps(<<"company">> \o p \o <<"home", "mapping", "users", "eachGrant">>)
              = {"company", "home", "mapping", "users", "eachGrant"} \cup Steps(p)
    <3>1. Fit(<<"company">>) /\ Steps(<<"company">>) = {"company"}
          /\ Fit(<<"home", "mapping", "users", "eachGrant">>)
                /\ Steps(<<"home", "mapping", "users", "eachGrant">>)
                      = {"home", "mapping", "users", "eachGrant"}
      BY PiecesFit
    <3>2. \A a \in Steps(<<"company">>),
          b \in Steps(<<"home", "mapping", "users", "eachGrant">>) : MayPrecede(a, b)
      BY <3>1 DEF Rank, MayPrecede
    <3> QED  BY <3>1, <3>2, PermissionBetween DEF p, Late
  <2> QED  BY <1>3, <2>1, <2>2, <1>0, FullOfSteps DEF Base, Open
<1>4. CASE kind = "owners"
  <2>1. Plan(kind, k) = <<"company", "match">> \o p \o <<"twins", "named">>
    BY <1>4 DEF Plan, CompanyPlan, p
  <2>2. Fit(<<"company", "match">> \o p \o <<"twins", "named">>)
        /\ Steps(<<"company", "match">> \o p \o <<"twins", "named">>)
              = {"company", "match", "twins", "named"} \cup Steps(p)
    <3>1. Fit(<<"company", "match">>) /\ Steps(<<"company", "match">>) = {"company", "match"}
          /\ Fit(<<"twins", "named">>) /\ Steps(<<"twins", "named">>) = {"twins", "named"}
      BY PiecesFit
    <3>2. \A a \in Steps(<<"company", "match">>),
          b \in Steps(<<"twins", "named">>) : MayPrecede(a, b)
      BY <3>1 DEF Rank, MayPrecede
    <3> QED  BY <3>1, <3>2, PermissionBetween DEF p, Late
  <2> QED  BY <1>4, <2>1, <2>2, <1>0, FullOfSteps DEF Base, Open
<1>5. CASE kind = "category"
  <2>1. Plan(kind, k) = <<"company", "mapping">>
    BY <1>5 DEF Plan, CompanyPlan
  <2>2. Fit(<<"company", "mapping">>) /\ Steps(<<"company", "mapping">>) = {"company", "mapping"}
    BY PiecesFit
  <2>3. Base(kind) = {"company", "mapping"} /\ kind \in Open  BY <1>5 DEF Base, Open
  <2> QED  BY <2>1, <2>2, <2>3, FullOfSteps
<1>6. CASE kind = "taken"
  <2>1. Plan(kind, k) = <<"name", "number">>
    BY <1>6 DEF Plan, CompanyPlan
  <2>2. Fit(<<"name", "number">>) /\ Steps(<<"name", "number">>) = {"name", "number"}
    BY PiecesFit
  <2>3. Base(kind) = {"name", "number"} /\ kind \in Open  BY <1>6 DEF Base, Open
  <2> QED  BY <2>1, <2>2, <2>3, FullOfSteps
<1>7. CASE kind = "all"
  <2>1. Plan(kind, k) = <<"every", "mappings", "certificates">>
    BY <1>7 DEF Plan, ListPlan
  <2>2. Fit(<<"every", "mappings", "certificates">>)
        /\ Steps(<<"every", "mappings", "certificates">>) = {"every", "mappings", "certificates"}
    BY PiecesFit
  <2>3. Base(kind) = {"every", "mappings", "certificates"} /\ kind \in Open  BY <1>7 DEF Base, Open
  <2> QED  BY <2>1, <2>2, <2>3, FullOfSteps
<1>8. CASE kind = "listed"
  <2>1. Plan(kind, k) = <<"mapped", "named">>
    BY <1>8 DEF Plan, ListPlan
  <2>2. Fit(<<"mapped", "named">>) /\ Steps(<<"mapped", "named">>) = {"mapped", "named"}
    BY PiecesFit
  <2>3. Base(kind) = {"mapped", "named"} /\ kind \in Open  BY <1>8 DEF Base, Open
  <2> QED  BY <2>1, <2>2, <2>3, FullOfSteps
<1>9. CASE kind = "both"
  <2>1. Plan(kind, k) = <<"mapped", "present", "show">>
    BY <1>9 DEF Plan, ListPlan
  <2>2. Fit(<<"mapped", "present", "show">>) /\ Steps(<<"mapped", "present", "show">>)
        = {"mapped", "present", "show"}
    BY PiecesFit
  <2>3. Base(kind) = {"mapped", "present", "show"} /\ kind \in Open  BY <1>9 DEF Base, Open
  <2> QED  BY <2>1, <2>2, <2>3, FullOfSteps
<1>10. CASE kind = "page"
  <2>1. Plan(kind, k) = <<"mapped", "some">>
    BY <1>10 DEF Plan, ListPlan
  <2>2. Fit(<<"mapped", "some">>) /\ Steps(<<"mapped", "some">>) = {"mapped", "some"}
    BY PiecesFit
  <2>3. Base(kind) = {"mapped", "some"} /\ kind \in Open  BY <1>10 DEF Base, Open
  <2> QED  BY <2>1, <2>2, <2>3, FullOfSteps
<1>11. CASE kind = "groups"
  <2>1. Plan(kind, k) = <<"company", "match">> \o p \o <<"groups">>
    BY <1>11 DEF Plan, PeoplePlan, p
  <2>2. Fit(<<"company", "match">> \o p \o <<"groups">>)
        /\ Steps(<<"company", "match">> \o p \o <<"groups">>) = {"company", "match", "groups"}
              \cup Steps(p)
    <3>1. Fit(<<"company", "match">>) /\ Steps(<<"company", "match">>) = {"company", "match"}
          /\ Fit(<<"groups">>) /\ Steps(<<"groups">>) = {"groups"}
      BY PiecesFit
    <3>2. \A a \in Steps(<<"company", "match">>), b \in Steps(<<"groups">>) : MayPrecede(a, b)
      BY <3>1 DEF Rank, MayPrecede
    <3> QED  BY <3>1, <3>2, PermissionBetween DEF p, Late
  <2> QED  BY <1>11, <2>1, <2>2, <1>0, FullOfSteps DEF Base, Open
<1>12. CASE kind = "group"
  <2>1. Plan(kind, k) = <<"role", "itsCompany">> \o p
    BY <1>12 DEF Plan, PeoplePlan, p
  <2>2. Fit(<<"role", "itsCompany">> \o p) /\ Steps(<<"role", "itsCompany">> \o p)
        = {"role", "itsCompany"} \cup Steps(p)
    <3>1. Fit(<<"role", "itsCompany">>) /\ Steps(<<"role", "itsCompany">>) = {"role", "itsCompany"}
      BY PiecesFit
    <3> QED  BY <3>1, PermissionLast DEF p, Late
  <2> QED  BY <1>12, <2>1, <2>2, <1>0, FullOfSteps DEF Base, Open
<1>13. CASE kind = "namedGroup"
  <2>1. Plan(kind, k) = <<"itsCompany">> \o p \o <<"roleNamed">>
    BY <1>13 DEF Plan, PeoplePlan, p
  <2>2. Fit(<<"itsCompany">> \o p \o <<"roleNamed">>)
        /\ Steps(<<"itsCompany">> \o p \o <<"roleNamed">>) = {"itsCompany", "roleNamed"}
              \cup Steps(p)
    <3>1. Fit(<<"itsCompany">>) /\ Steps(<<"itsCompany">>) = {"itsCompany"}
          /\ Fit(<<"roleNamed">>) /\ Steps(<<"roleNamed">>) = {"roleNamed"}
      BY PiecesFit
    <3>2. \A a \in Steps(<<"itsCompany">>), b \in Steps(<<"roleNamed">>) : MayPrecede(a, b)
      BY <3>1 DEF Rank, MayPrecede
    <3> QED  BY <3>1, <3>2, PermissionBetween DEF p, Late
  <2> QED  BY <1>13, <2>1, <2>2, <1>0, FullOfSteps DEF Base, Open
<1>14. CASE kind = "users"
  <2>1. Plan(kind, k) = <<"company", "match">> \o p \o <<"users">>
    BY <1>14 DEF Plan, PeoplePlan, p
  <2>2. Fit(<<"company", "match">> \o p \o <<"users">>)
        /\ Steps(<<"company", "match">> \o p \o <<"users">>) = {"company", "match", "users"}
              \cup Steps(p)
    <3>1. Fit(<<"company", "match">>) /\ Steps(<<"company", "match">>) = {"company", "match"}
          /\ Fit(<<"users">>) /\ Steps(<<"users">>) = {"users"}
      BY PiecesFit
    <3>2. \A a \in Steps(<<"company", "match">>), b \in Steps(<<"users">>) : MayPrecede(a, b)
      BY <3>1 DEF Rank, MayPrecede
    <3> QED  BY <3>1, <3>2, PermissionBetween DEF p, Late
  <2> QED  BY <1>14, <2>1, <2>2, <1>0, FullOfSteps DEF Base, Open
<1>15. CASE kind = "access"
  <2>1. Plan(kind, k) = <<"company", "match">> \o p \o <<"users", "grants", "names">>
    BY <1>15 DEF Plan, PeoplePlan, p
  <2>2. Fit(<<"company", "match">> \o p \o <<"users", "grants", "names">>)
        /\ Steps(<<"company", "match">> \o p \o <<"users", "grants", "names">>)
              = {"company", "match", "users", "grants", "names"} \cup Steps(p)
    <3>1. Fit(<<"company", "match">>) /\ Steps(<<"company", "match">>) = {"company", "match"}
          /\ Fit(<<"users", "grants", "names">>) /\ Steps(<<"users", "grants", "names">>)
                = {"users", "grants", "names"}
      BY PiecesFit
    <3>2. \A a \in Steps(<<"company", "match">>),
          b \in Steps(<<"users", "grants", "names">>) : MayPrecede(a, b)
      BY <3>1 DEF Rank, MayPrecede
    <3> QED  BY <3>1, <3>2, PermissionBetween DEF p, Late
  <2> QED  BY <1>15, <2>1, <2>2, <1>0, FullOfSteps DEF Base, Open
<1>16. CASE kind = "user"
  <2>1. Plan(kind, k) = <<"user", "itsCompany">> \o p
    BY <1>16 DEF Plan, PeoplePlan, p
  <2>2. Fit(<<"user", "itsCompany">> \o p) /\ Steps(<<"user", "itsCompany">> \o p)
        = {"user", "itsCompany"} \cup Steps(p)
    <3>1. Fit(<<"user", "itsCompany">>) /\ Steps(<<"user", "itsCompany">>) = {"user", "itsCompany"}
      BY PiecesFit
    <3> QED  BY <3>1, PermissionLast DEF p, Late
  <2> QED  BY <1>16, <2>1, <2>2, <1>0, FullOfSteps DEF Base, Open
<1>17. CASE kind = "profile"
  <2>1. Plan(kind, k) = <<"company", "match">> \o p \o <<"grants", "names">>
    BY <1>17 DEF Plan, PeoplePlan, p
  <2>2. Fit(<<"company", "match">> \o p \o <<"grants", "names">>)
        /\ Steps(<<"company", "match">> \o p \o <<"grants", "names">>)
              = {"company", "match", "grants", "names"} \cup Steps(p)
    <3>1. Fit(<<"company", "match">>) /\ Steps(<<"company", "match">>) = {"company", "match"}
          /\ Fit(<<"grants", "names">>) /\ Steps(<<"grants", "names">>) = {"grants", "names"}
      BY PiecesFit
    <3>2. \A a \in Steps(<<"company", "match">>),
          b \in Steps(<<"grants", "names">>) : MayPrecede(a, b)
      BY <3>1 DEF Rank, MayPrecede
    <3> QED  BY <3>1, <3>2, PermissionBetween DEF p, Late
  <2> QED  BY <1>17, <2>1, <2>2, <1>0, FullOfSteps DEF Base, Open
<1>18. CASE kind = "grant"
  <2>1. Plan(kind, k) = <<"grantOf">>
    BY <1>18 DEF Plan, PeoplePlan
  <2>2. Fit(<<"grantOf">>) /\ Steps(<<"grantOf">>) = {"grantOf"}
    BY PiecesFit
  <2>3. Base(kind) = {"grantOf"} /\ kind \in Open  BY <1>18 DEF Base, Open
  <2> QED  BY <2>1, <2>2, <2>3, FullOfSteps
<1>19. CASE kind = "indexed"
  <2>1. Plan(kind, k) = <<"user", "given", "mapping", "grants", "names">>
    BY <1>19 DEF Plan, PeoplePlan
  <2>2. Fit(<<"user", "given", "mapping", "grants", "names">>)
        /\ Steps(<<"user", "given", "mapping", "grants", "names">>)
              = {"user", "given", "mapping", "grants", "names"}
    BY PiecesFit
  <2>3. Base(kind) = {"user", "given", "mapping", "grants", "names"} /\ kind \in Open
    BY <1>19 DEF Base, Open
  <2> QED  BY <2>1, <2>2, <2>3, FullOfSteps
<1>20. CASE kind = "factories"
  <2>1. Plan(kind, k) = p \o <<"match", "ownSites">>
    BY <1>20 DEF Plan, FactoryPlan, p
  <2>2. Fit(p \o <<"match", "ownSites">>) /\ Steps(p \o <<"match", "ownSites">>) = Steps(p)
        \cup {"match", "ownSites"}
    <3>1. Fit(<<"match", "ownSites">>) /\ Steps(<<"match", "ownSites">>) = {"match", "ownSites"}
      BY PiecesFit
    <3> QED  BY <3>1, PermissionFirst DEF p
  <2> QED  BY <1>20, <2>1, <2>2, <1>0, FullOfSteps DEF Base, Open
<1>21. CASE kind = "directory"
  <2>1. Plan(kind, k) = p \o <<"factories">>
    BY <1>21 DEF Plan, FactoryPlan, p
  <2>2. Fit(p \o <<"factories">>) /\ Steps(p \o <<"factories">>) = Steps(p) \cup {"factories"}
    <3>1. Fit(<<"factories">>) /\ Steps(<<"factories">>) = {"factories"}
      BY PiecesFit
    <3> QED  BY <3>1, PermissionFirst DEF p
  <2> QED  BY <1>21, <2>1, <2>2, <1>0, FullOfSteps DEF Base, Open
<1>22. CASE kind = "factory"
  <2>1. Plan(kind, k) = <<"site", "match">> \o p
    BY <1>22 DEF Plan, FactoryPlan, p
  <2>2. Fit(<<"site", "match">> \o p) /\ Steps(<<"site", "match">> \o p) = {"site", "match"}
        \cup Steps(p)
    <3>1. Fit(<<"site", "match">>) /\ Steps(<<"site", "match">>) = {"site", "match"}
      BY PiecesFit
    <3> QED  BY <3>1, PermissionLast DEF p, Late
  <2> QED  BY <1>22, <2>1, <2>2, <1>0, FullOfSteps DEF Base, Open
<1>23. CASE kind = "factoryOwner"
  <2>1. Plan(kind, k) = <<"site", "match">> \o p \o <<"present", "show">>
    BY <1>23 DEF Plan, FactoryPlan, p
  <2>2. Fit(<<"site", "match">> \o p \o <<"present", "show">>)
        /\ Steps(<<"site", "match">> \o p \o <<"present", "show">>)
              = {"site", "match", "present", "show"} \cup Steps(p)
    <3>1. Fit(<<"site", "match">>) /\ Steps(<<"site", "match">>) = {"site", "match"}
          /\ Fit(<<"present", "show">>) /\ Steps(<<"present", "show">>) = {"present", "show"}
      BY PiecesFit
    <3>2. \A a \in Steps(<<"site", "match">>), b \in Steps(<<"present", "show">>) : MayPrecede(a, b)
      BY <3>1 DEF Rank, MayPrecede
    <3> QED  BY <3>1, <3>2, PermissionBetween DEF p, Late
  <2> QED  BY <1>23, <2>1, <2>2, <1>0, FullOfSteps DEF Base, Open
<1>24. CASE kind = "factoryAssets"
  <2>1. Plan(kind, k) = <<"site", "match">> \o p \o <<"assetsThere">>
    BY <1>24 DEF Plan, FactoryPlan, p
  <2>2. Fit(<<"site", "match">> \o p \o <<"assetsThere">>)
        /\ Steps(<<"site", "match">> \o p \o <<"assetsThere">>)
              = {"site", "match", "assetsThere"} \cup Steps(p)
    <3>1. Fit(<<"site", "match">>) /\ Steps(<<"site", "match">>) = {"site", "match"}
          /\ Fit(<<"assetsThere">>) /\ Steps(<<"assetsThere">>) = {"assetsThere"}
      BY PiecesFit
    <3>2. \A a \in Steps(<<"site", "match">>), b \in Steps(<<"assetsThere">>) : MayPrecede(a, b)
      BY <3>1 DEF Rank, MayPrecede
    <3> QED  BY <3>1, <3>2, PermissionBetween DEF p, Late
  <2> QED  BY <1>24, <2>1, <2>2, <1>0, FullOfSteps DEF Base, Open
<1>25. CASE kind = "made"
  <2>1. Plan(kind, k) = <<"company", "match">> \o p \o <<"assets">>
    BY <1>25 DEF Plan, AssetPlan, p
  <2>2. Fit(<<"company", "match">> \o p \o <<"assets">>)
        /\ Steps(<<"company", "match">> \o p \o <<"assets">>) = {"company", "match", "assets"}
              \cup Steps(p)
    <3>1. Fit(<<"company", "match">>) /\ Steps(<<"company", "match">>) = {"company", "match"}
          /\ Fit(<<"assets">>) /\ Steps(<<"assets">>) = {"assets"}
      BY PiecesFit
    <3>2. \A a \in Steps(<<"company", "match">>), b \in Steps(<<"assets">>) : MayPrecede(a, b)
      BY <3>1 DEF Rank, MayPrecede
    <3> QED  BY <3>1, <3>2, PermissionBetween DEF p, Late
  <2> QED  BY <1>25, <2>1, <2>2, <1>0, FullOfSteps DEF Base, Open
<1>26. CASE kind = "owned"
  <2>1. Plan(kind, k) = <<"company", "match">> \o p \o <<"assets">>
    BY <1>26 DEF Plan, AssetPlan, p
  <2>2. Fit(<<"company", "match">> \o p \o <<"assets">>)
        /\ Steps(<<"company", "match">> \o p \o <<"assets">>) = {"company", "match", "assets"}
              \cup Steps(p)
    <3>1. Fit(<<"company", "match">>) /\ Steps(<<"company", "match">>) = {"company", "match"}
          /\ Fit(<<"assets">>) /\ Steps(<<"assets">>) = {"assets"}
      BY PiecesFit
    <3>2. \A a \in Steps(<<"company", "match">>), b \in Steps(<<"assets">>) : MayPrecede(a, b)
      BY <3>1 DEF Rank, MayPrecede
    <3> QED  BY <3>1, <3>2, PermissionBetween DEF p, Late
  <2> QED  BY <1>26, <2>1, <2>2, <1>0, FullOfSteps DEF Base, Open
<1>27. CASE kind = "pair"
  <2>1. Plan(kind, k) = <<"company", "partner">> \o p \o <<"assets">>
    BY <1>27 DEF Plan, AssetPlan, p
  <2>2. Fit(<<"company", "partner">> \o p \o <<"assets">>)
        /\ Steps(<<"company", "partner">> \o p \o <<"assets">>)
              = {"company", "partner", "assets"} \cup Steps(p)
    <3>1. Fit(<<"company", "partner">>) /\ Steps(<<"company", "partner">>)
          = {"company", "partner"} /\ Fit(<<"assets">>) /\ Steps(<<"assets">>) = {"assets"}
      BY PiecesFit
    <3>2. \A a \in Steps(<<"company", "partner">>), b \in Steps(<<"assets">>) : MayPrecede(a, b)
      BY <3>1 DEF Rank, MayPrecede
    <3> QED  BY <3>1, <3>2, PermissionBetween DEF p, Late
  <2> QED  BY <1>27, <2>1, <2>2, <1>0, FullOfSteps DEF Base, Open
<1>28. CASE kind = "asset"
  <2>1. Plan(kind, k) = <<"asset", "party">> \o p
    BY <1>28 DEF Plan, AssetPlan, p
  <2>2. Fit(<<"asset", "party">> \o p) /\ Steps(<<"asset", "party">> \o p) = {"asset", "party"}
        \cup Steps(p)
    <3>1. Fit(<<"asset", "party">>) /\ Steps(<<"asset", "party">>) = {"asset", "party"}
      BY PiecesFit
    <3> QED  BY <3>1, PermissionLast DEF p, Late
  <2> QED  BY <1>28, <2>1, <2>2, <1>0, FullOfSteps DEF Base, Open
<1>29. CASE kind = "maker"
  <2>1. Plan(kind, k) = <<"asset", "party">> \o p \o <<"present", "show">>
    BY <1>29 DEF Plan, AssetPlan, p
  <2>2. Fit(<<"asset", "party">> \o p \o <<"present", "show">>)
        /\ Steps(<<"asset", "party">> \o p \o <<"present", "show">>)
              = {"asset", "party", "present", "show"} \cup Steps(p)
    <3>1. Fit(<<"asset", "party">>) /\ Steps(<<"asset", "party">>) = {"asset", "party"}
          /\ Fit(<<"present", "show">>) /\ Steps(<<"present", "show">>) = {"present", "show"}
      BY PiecesFit
    <3>2. \A a \in Steps(<<"asset", "party">>),
          b \in Steps(<<"present", "show">>) : MayPrecede(a, b)
      BY <3>1 DEF Rank, MayPrecede
    <3> QED  BY <3>1, <3>2, PermissionBetween DEF p, Late
  <2> QED  BY <1>29, <2>1, <2>2, <1>0, FullOfSteps DEF Base, Open
<1>30. CASE kind = "owner"
  <2>1. Plan(kind, k) = <<"asset", "party">> \o p \o <<"present", "show">>
    BY <1>30 DEF Plan, AssetPlan, p
  <2>2. Fit(<<"asset", "party">> \o p \o <<"present", "show">>)
        /\ Steps(<<"asset", "party">> \o p \o <<"present", "show">>)
              = {"asset", "party", "present", "show"} \cup Steps(p)
    <3>1. Fit(<<"asset", "party">>) /\ Steps(<<"asset", "party">>) = {"asset", "party"}
          /\ Fit(<<"present", "show">>) /\ Steps(<<"present", "show">>) = {"present", "show"}
      BY PiecesFit
    <3>2. \A a \in Steps(<<"asset", "party">>),
          b \in Steps(<<"present", "show">>) : MayPrecede(a, b)
      BY <3>1 DEF Rank, MayPrecede
    <3> QED  BY <3>1, <3>2, PermissionBetween DEF p, Late
  <2> QED  BY <1>30, <2>1, <2>2, <1>0, FullOfSteps DEF Base, Open
<1>31. CASE kind = "location"
  <2>1. Plan(kind, k) = <<"asset", "party">> \o p \o <<"siteThere">>
    BY <1>31 DEF Plan, AssetPlan, p
  <2>2. Fit(<<"asset", "party">> \o p \o <<"siteThere">>)
        /\ Steps(<<"asset", "party">> \o p \o <<"siteThere">>)
              = {"asset", "party", "siteThere"} \cup Steps(p)
    <3>1. Fit(<<"asset", "party">>) /\ Steps(<<"asset", "party">>) = {"asset", "party"}
          /\ Fit(<<"siteThere">>) /\ Steps(<<"siteThere">>) = {"siteThere"}
      BY PiecesFit
    <3>2. \A a \in Steps(<<"asset", "party">>), b \in Steps(<<"siteThere">>) : MayPrecede(a, b)
      BY <3>1 DEF Rank, MayPrecede
    <3> QED  BY <3>1, <3>2, PermissionBetween DEF p, Late
  <2> QED  BY <1>31, <2>1, <2>2, <1>0, FullOfSteps DEF Base, Open
<1> QED  BY <1>1, <1>2, <1>3, <1>4, <1>5, <1>6, <1>7, <1>8, <1>9, <1>10, <1>11, <1>12, <1>13,
      <1>14, <1>15, <1>16, <1>17, <1>18, <1>19, <1>20, <1>21, <1>22, <1>23, <1>24, <1>25, <1>26,
            <1>27, <1>28, <1>29, <1>30, <1>31 DEF AllKinds

-----------------------------------------------------------------------------
(* What is left of a plan after a step.                                    *)

\* One step less.
LEMMA TailOf ==
    ASSUME NEW q, NEW td, Shape(q, td), td # <<>>
    PROVE  /\ Shape(q, Tail(td))
           /\ Head(td) \in Steps(td) /\ Steps(td) = {Head(td)} \cup Steps(Tail(td))
           /\ \A y : Did(q, Tail(td), y) => Did(q, td, y) \/ y = Head(td)
<1>1. td \in Seq(AllSteps) /\ Tail(td) \in Seq(AllSteps) /\ Len(Tail(td)) = Len(td) - 1
      /\ Len(td) \in Nat \ {0} /\ Head(td) = td[1]
  BY DEF Shape
<1>2. \A i \in 1 .. Len(td) - 1 : Tail(td)[i] = td[i + 1]
  BY <1>1
<1>3. DOMAIN td = 1 .. Len(td) /\ DOMAIN Tail(td) = 1 .. Len(td) - 1
  BY <1>1
<1>4. Head(td) \in Steps(td)
  BY <1>1, <1>3 DEF Steps
<1>5. Steps(Tail(td)) \subseteq Steps(td)
  BY <1>1, <1>2, <1>3 DEF Steps
<1>6. Steps(td) \subseteq {Head(td)} \cup Steps(Tail(td))
  <2> SUFFICES ASSUME NEW i \in 1 .. Len(td), i # 1 PROVE td[i] \in Steps(Tail(td))
    BY <1>1, <1>3 DEF Steps
  <2>1. i - 1 \in DOMAIN Tail(td) /\ Tail(td)[i - 1] = td[i]
    BY <1>1, <1>2, <1>3
  <2> QED  BY <2>1 DEF Steps
<1>7. InOrder(Tail(td))
  <2> SUFFICES ASSUME NEW i \in 1 .. Len(td) - 1, NEW j \in 1 .. Len(td) - 1, i < j
               PROVE  MayPrecede(Tail(td)[i], Tail(td)[j])
    BY <1>3 DEF InOrder
  <2>1. i + 1 \in DOMAIN td /\ j + 1 \in DOMAIN td /\ i + 1 < j + 1
    BY <1>1, <1>3
  <2> QED  BY <2>1, <1>2 DEF Shape, InOrder
<1>8. "eachGroup" \notin Steps(Tail(td))
  <2> SUFFICES ASSUME NEW i \in 1 .. Len(td) - 1, Tail(td)[i] = "eachGroup" PROVE FALSE
    BY <1>3 DEF Steps
  <2>1. i + 1 \in DOMAIN td /\ td[i + 1] = "eachGroup"  BY <1>1, <1>2, <1>3
  <2>2. i + 1 = 1  BY <2>1 DEF Shape
  <2> QED  BY <2>2
<1>9. ASSUME NEW y \in Base(q.kind) \ Steps(Tail(td)),
             NEW z \in Steps(Tail(td)) \cap Base(q.kind)
      PROVE  Rank(y) < Rank(z)
  <2>1. CASE y \notin Steps(td)  BY <2>1, <1>5 DEF Shape
  <2>2. CASE y \in Steps(td)
    <3>1. y = td[1]  BY <2>2, <1>1, <1>6
    <3>2. PICK i \in 1 .. Len(td) - 1 : z = td[i + 1]  BY <1>2, <1>3 DEF Steps
    <3>3. \A k \in AllKinds : \A x \in Base(k) : x \notin {"grant", "group"}
      BY DEF AllKinds, Base
    <3>4. y \notin {"grant", "group"} /\ z \notin {"grant", "group"}
      BY <3>3, DirectoryAssumption DEF Shape
    <3>5. 1 \in DOMAIN td /\ i + 1 \in DOMAIN td /\ 1 < i + 1  BY <1>1, <1>3
    <3> QED  BY <3>1, <3>2, <3>4, <3>5 DEF Shape, InOrder, MayPrecede
  <2> QED  BY <2>1, <2>2
<1>10. Shape(q, Tail(td))
  BY <1>1, <1>5, <1>7, <1>8, <1>9 DEF Shape, Steps
<1> QED  BY <1>4, <1>5, <1>6, <1>10 DEF Did

\* A step is done once.
LEMMA TailOnce ==
    ASSUME NEW q, NEW td, Shape(q, td), td # <<>>
    PROVE  /\ "eachGroup" \notin Steps(Tail(td))
           /\ Head(td) \notin {"grant", "group"} => Head(td) \notin Steps(Tail(td))
<1>1. td \in Seq(AllSteps) /\ Tail(td) \in Seq(AllSteps) /\ Len(Tail(td)) = Len(td) - 1
      /\ Len(td) \in Nat \ {0} /\ Head(td) = td[1]
  BY DEF Shape
<1>2. \A i \in 1 .. Len(td) - 1 : Tail(td)[i] = td[i + 1]
  BY <1>1
<1>3. DOMAIN td = 1 .. Len(td) /\ DOMAIN Tail(td) = 1 .. Len(td) - 1
  BY <1>1
<1>4. "eachGroup" \notin Steps(Tail(td))
  <2> SUFFICES ASSUME NEW i \in 1 .. Len(td) - 1, Tail(td)[i] = "eachGroup" PROVE FALSE
    BY <1>3 DEF Steps
  <2>1. i + 1 \in DOMAIN td /\ td[i + 1] = "eachGroup"  BY <1>1, <1>2, <1>3
  <2>2. i + 1 = 1  BY <2>1 DEF Shape
  <2> QED  BY <2>2
<1>5. ASSUME Head(td) \notin {"grant", "group"} PROVE Head(td) \notin Steps(Tail(td))
  <2> SUFFICES ASSUME NEW i \in 1 .. Len(td) - 1, td[i + 1] = td[1] PROVE FALSE
    BY <1>1, <1>2, <1>3 DEF Steps
  <2>1. 1 \in DOMAIN td /\ i + 1 \in DOMAIN td /\ 1 < i + 1  BY <1>1, <1>3
  <2>2. Rank(td[1]) < Rank(td[1])  BY <1>1, <1>5, <2>1 DEF Shape, InOrder, MayPrecede
  <2>3. Rank(td[1]) \in Int  BY DEF Rank
  <2> QED  BY <2>2, <2>3
<1> QED  BY <1>4, <1>5

\* What comes before the next step has been done.
LEMMA Earlier ==
    ASSUME NEW q, NEW td, Shape(q, td), td # <<>>, NEW y \in Base(q.kind), y # Head(td),
           Head(td) \notin {"grant", "group"}, y \notin {"grant", "group"},
           Rank(y) < Rank(Head(td))
    PROVE  Did(q, td, y)
<1> SUFFICES ASSUME NEW i \in DOMAIN td, td[i] = y PROVE FALSE
  BY DEF Did, Steps
<1>1. td \in Seq(AllSteps) /\ Len(td) \in Nat \ {0} /\ Head(td) = td[1] /\ DOMAIN td = 1 .. Len(td)
  BY DEF Shape
<1>2. 1 \in DOMAIN td /\ 1 < i  BY <1>1
<1>3. Rank(td[1]) < Rank(td[i])  BY <1>1, <1>2 DEF Shape, InOrder, MayPrecede
<1>4. Rank(y) \in Int /\ Rank(Head(td)) \in Int  BY DEF Rank
<1> QED  BY <1>1, <1>3, <1>4

\* What comes after it has not.
LEMMA Later ==
    ASSUME NEW q, NEW td, Shape(q, td), td # <<>>, NEW y, Did(q, td, y),
           Head(td) \in Base(q.kind)
    PROVE  Rank(y) < Rank(Head(td))
BY TailOf DEF Shape, Did

\* A role is only read with the grant that names it.
LEMMA ReadyTail ==
    ASSUME NEW q, NEW td, NEW sn, NEW s2, Shape(q, td), td # <<>>, Ready(td, sn),
           Head(td) = "grant" => s2.grant # None
    PROVE  Ready(Tail(td), s2)
<1>1. td \in Seq(AllSteps) /\ Tail(td) \in Seq(AllSteps) /\ Len(Tail(td)) = Len(td) - 1
      /\ Len(td) \in Nat \ {0} /\ Head(td) = td[1]
  BY DEF Shape
<1>2. \A i \in 1 .. Len(td) - 1 : Tail(td)[i] = td[i + 1]
  BY <1>1
<1>3. DOMAIN td = 1 .. Len(td) /\ DOMAIN Tail(td) = 1 .. Len(td) - 1
  BY <1>1
<1> SUFFICES ASSUME NEW i \in 1 .. Len(td) - 1, Tail(td)[i] = "group"
             PROVE  (i > 1 /\ Tail(td)[i - 1] = "grant") \/ (i = 1 /\ s2.grant # None)
  BY <1>3 DEF Ready
<1>4. i + 1 \in DOMAIN td /\ td[i + 1] = "group"  BY <1>1, <1>2, <1>3
<1>5. (i + 1) - 1 = i /\ i + 1 # 1  OBVIOUS
<1>6. td[i] = "grant"  BY <1>4, <1>5 DEF Ready
<1>7. CASE i = 1  BY <1>1, <1>6, <1>7
<1>8. CASE i > 1
  <2>1. i - 1 \in 1 .. Len(td) - 1 /\ (i - 1) + 1 = i  BY <1>8
  <2> QED  BY <1>2, <1>6, <1>8, <2>1
<1> QED  BY <1>7, <1>8

\* The permission has been asked for before the later reads.
LEMMA Permitted ==
    ASSUME NEW q, NEW td, Shape(q, td), td # <<>>, Head(td) \in Late
    PROVE  "grant" \notin Steps(td) /\ "group" \notin Steps(td)
<1> SUFFICES ASSUME NEW i \in DOMAIN td, td[i] \in {"grant", "group"} PROVE FALSE
  BY DEF Steps
<1>1. td \in Seq(AllSteps) /\ Len(td) \in Nat \ {0} /\ Head(td) = td[1] /\ DOMAIN td = 1 .. Len(td)
  BY DEF Shape
<1>2. td[1] # td[i]  BY <1>1 DEF Late
<1>3. 1 \in DOMAIN td /\ 1 < i  BY <1>1, <1>2
<1> QED  BY <1>1, <1>3 DEF Shape, InOrder, MayPrecede

\* The queries with a step.
KindsWith(x) ==
    CASE x = "company" -> {"details", "record", "roster", "owners", "category", "groups", "users",
          "access", "profile", "made", "owned", "pair"}
      [] x = "show" -> {"details", "record", "both", "factoryOwner", "maker", "owner", "roster"}
      [] x = "home" -> {"roster"}
      [] x = "mapping" -> {"roster", "category", "indexed"}
      [] x = "users" -> {"roster", "users", "access"}
      [] x = "eachGrant" -> {"roster"}
      [] x = "match" -> {"owners", "groups", "users", "access", "profile", "factories", "factory",
            "factoryOwner", "factoryAssets", "made", "owned"}
      [] x = "twins" -> {"owners"}
      [] x = "named" -> {"owners", "listed"}
      [] x = "name" -> {"taken"}
      [] x = "number" -> {"taken"}
      [] x = "every" -> {"all"}
      [] x = "mappings" -> {"all"}
      [] x = "certificates" -> {"all"}
      [] x = "mapped" -> {"listed", "both", "page"}
      [] x = "present" -> {"both", "factoryOwner", "maker", "owner"}
      [] x = "some" -> {"page"}
      [] x = "groups" -> {"groups"}
      [] x = "role" -> {"group"}
      [] x = "itsCompany" -> {"group", "namedGroup", "user"}
      [] x = "roleNamed" -> {"namedGroup"}
      [] x = "grants" -> {"access", "profile", "indexed"}
      [] x = "names" -> {"access", "profile", "indexed"}
      [] x = "user" -> {"user", "indexed"}
      [] x = "grantOf" -> {"grant"}
      [] x = "given" -> {"indexed"}
      [] x = "ownSites" -> {"factories"}
      [] x = "factories" -> {"directory"}
      [] x = "site" -> {"factory", "factoryOwner", "factoryAssets"}
      [] x = "assetsThere" -> {"factoryAssets"}
      [] x = "assets" -> {"made", "owned", "pair"}
      [] x = "partner" -> {"pair"}
      [] x = "asset" -> {"asset", "maker", "owner", "location"}
      [] x = "party" -> {"asset", "maker", "owner", "location"}
      [] x = "siteThere" -> {"location"}
      [] x = "eachGroup" -> {"roster"}
      [] OTHER -> AllKinds \ Open

LEMMA KindsOf ==
    ASSUME NEW q, NEW td, Shape(q, td), td # <<>>
    PROVE  /\ q.kind \in KindsWith(Head(td)) /\ q.kind \in AllKinds
           /\ Head(td) \in {"grant", "group"} => Asks(q)
           /\ Head(td) \in Base(q.kind) \cup {"grant", "group", "show", "eachGroup"}
<1>1. Head(td) \in Steps(td) BY TailOf
<1>2. q.kind \in AllKinds BY DirectoryAssumption DEF Shape
<1>3. \/ Head(td) \in Base(q.kind)
      \/ q.kind = "roster" /\ Head(td) \in {"show", "eachGroup"}
      \/ Asks(q) /\ Head(td) \in {"grant", "group"}
  BY <1>1 DEF Shape
<1>4. CASE Asks(q) /\ Head(td) \in {"grant", "group"}
  BY <1>2, <1>4 DEF Asks, KindsWith
<1>5. CASE q.kind = "roster" /\ Head(td) \in {"show", "eachGroup"}
  BY <1>2, <1>5 DEF KindsWith
<1>6. CASE Head(td) \in Base(q.kind)
  <2>1. \A k \in AllKinds : \A x \in Base(k) : k \in KindsWith(x) /\ x \notin {"grant", "group"}
    BY DEF AllKinds, Base, KindsWith
  <2> QED  BY <1>2, <1>6, <2>1
<1> QED  BY <1>3, <1>4, <1>5, <1>6

-----------------------------------------------------------------------------
(* What a step leaves alone of the records of the others.                  *)

\* The reads whose results the query keeps, and the checks.
Keeping == {"company", "site", "role", "user", "asset", "every", "mapped", "twins",
            "present", "partner", "users"}
Checking == {"match", "itsCompany", "party", "partner", "home", "grant", "group"}

\* A step that keeps nothing leaves what is known.
LEMMA KnownStays ==
    ASSUME NEW q, NEW td, NEW sn, NEW s2, NEW ev, Shape(q, td), td # <<>>, Known(q, td, sn, ev),
           Head(td) \notin Keeping, s2.company = sn.company, s2.listed = sn.listed,
           s2.row = sn.row, s2.users = sn.users
    PROVE  Known(q, Tail(td), s2, ev)
<1>1. \A y \in Keeping : Did(q, Tail(td), y) => Did(q, td, y)
  BY TailOf
<1> QED  BY <1>1 DEF Known, Keeping

\* A step other than those of the grants leaves what is known of them.
LEMMA GrantedStays ==
    ASSUME NEW q, NEW td, NEW sn, NEW s2, NEW ev, Shape(q, td), td # <<>>, Granted(q, td, sn, ev),
           Head(td) # "grants", s2.users = sn.users, s2.held = sn.held
    PROVE  Granted(q, Tail(td), s2, ev)
<1>1. Did(q, Tail(td), "grants") => Did(q, td, "grants")
  BY TailOf
<1>2. "eachGroup" \notin Steps(Tail(td))
  BY TailOnce
<1> QED  BY <1>1, <1>2 DEF Granted

\* A step that is no check leaves the checks that were passed.
LEMMA BarredStays ==
    ASSUME NEW q, NEW td, NEW sn, NEW s2, NEW ev, Shape(q, td), td # <<>>, Barred(q, td, sn, ev),
           Head(td) \notin Checking, s2.company = sn.company, s2.row = sn.row, s2.grant = sn.grant
    PROVE  Barred(q, Tail(td), s2, ev)
<1>1. \A y \in Checking : Did(q, Tail(td), y) => Did(q, td, y)
  BY TailOf
<1>2. "grant" \notin Steps(Tail(td)) => "grant" \notin Steps(td)
  BY TailOf DEF Checking
<1>3. "group" \notin Steps(Tail(td)) => "group" \notin Steps(td)
  BY TailOf DEF Checking
<1>4. td = <<"show">> => Tail(td) = <<>>
  OBVIOUS
<1> QED  BY <1>1, <1>2, <1>3, <1>4 DEF Barred, Checking

\* A step that is no check leaves whose own the facts are.
LEMMA SecretStays ==
    ASSUME NEW q, NEW td, NEW sn, NEW s2, NEW fd, Shape(q, td), td # <<>>, Secret(q, td, sn, fd),
           Head(td) \notin {"match", "itsCompany", "party", "asset"}, s2.row = sn.row
    PROVE  Secret(q, Tail(td), s2, fd)
<1>1. \A y \in {"match", "itsCompany", "party"} : y \in Steps(td) => y \in Steps(Tail(td))
  BY TailOf
<1>2. Did(q, td, "asset") => Did(q, Tail(td), "asset")  BY TailOf DEF Did
<1> QED  BY <1>1, <1>2 DEF Secret

\* Facts can be looked at one at a time.
LEMMA SecretAdd ==
    ASSUME NEW q, NEW td, NEW sn, NEW fd, NEW facts, Secret(q, td, sn, fd), Secret(q, td, sn, facts)
    PROVE  Secret(q, td, sn, fd \cup facts)
BY DEF Secret

LEMMA TrueAdd ==
    ASSUME NEW q, NEW ev, NEW fd, NEW facts, True(q, ev, fd), True(q, ev, facts)
    PROVE  True(q, ev, fd \cup facts)
BY DEF True

LEMMA NothingSecret == ASSUME NEW q, NEW td, NEW sn, NEW ev PROVE Secret(q, td, sn, {})
      /\ True(q, ev, {})
BY DEF Secret, True

\* A read that keeps nothing but whether ICID was silent.
LEMMA ReadOn ==
    ASSUME NEW q, NEW td, NEW sn, NEW s2, NEW fd, NEW ev, NEW facts,
           Sound(q, td, sn, fd, ev), td # <<>>,
           Head(td) \notin Keeping \cup Checking \cup {"grants"},
           \E b \in BOOLEAN : s2 = [sn EXCEPT !.silent = b],
           Secret(q, Tail(td), sn, facts), True(q, ev, facts)
    PROVE  Sound(q, Tail(td), s2, fd \cup facts, ev)
<1>1. s2 \in Holding /\ s2.company = sn.company /\ s2.listed = sn.listed /\ s2.row = sn.row
      /\ s2.users = sn.users /\ s2.held = sn.held /\ s2.grant = sn.grant
  BY DEF Sound, Holding
<1>2. Shape(q, Tail(td))  BY TailOf DEF Sound
<1>3. Known(q, Tail(td), s2, ev)  BY <1>1, KnownStays DEF Sound
<1>4. Granted(q, Tail(td), s2, ev)  BY <1>1, GrantedStays DEF Sound
<1>5. Barred(q, Tail(td), s2, ev)  BY <1>1, BarredStays DEF Sound
<1>6. Secret(q, Tail(td), s2, fd)  BY <1>1, SecretStays DEF Sound, Checking, Keeping
<1>7. Secret(q, Tail(td), s2, facts)  BY <1>1 DEF Secret
<1>8. Secret(q, Tail(td), s2, fd \cup facts)  BY <1>6, <1>7, SecretAdd
<1>9. True(q, ev, fd \cup facts)  BY TrueAdd DEF Sound
<1>10. Ready(Tail(td), s2)  BY ReadyTail DEF Sound, Checking
<1> QED  BY <1>1, <1>2, <1>3, <1>4, <1>5, <1>8, <1>9, <1>10 DEF Sound

-----------------------------------------------------------------------------
(* Each check keeps a query sound.                                         *)

Subject(q, sn) == IF q.kind \in SiteKinds THEN sn.company ELSE CompanyOf(q)
Record(q, sn) == IF q.kind = "namedGroup" THEN CompanyOf(q) ELSE sn.company

\* isOwnCompany.
LEMMA MatchOn ==
    ASSUME NEW q, NEW td, NEW sn, NEW fd, NEW ev, Sound(q, td, sn, fd, ev), td # <<>>,
           Head(td) = "match", Mine(q, Subject(q, sn))
    PROVE  Sound(q, Tail(td), sn, fd, ev)
<1>0. Shape(q, td) /\ sn \in Holding /\ q.kind \in KindsWith("match")  BY KindsOf DEF Sound
<1>1. Shape(q, Tail(td))  BY TailOf DEF Sound
<1>2. Known(q, Tail(td), sn, ev)  BY KnownStays DEF Sound, Keeping
<1>3. Granted(q, Tail(td), sn, ev)  BY GrantedStays DEF Sound
<1>4. Barred(q, Tail(td), sn, ev)
  <2>1. \A y \in Checking \ {"match"} : Did(q, Tail(td), y) => Did(q, td, y)
    BY <1>0, TailOf
  <2>2. "grant" \notin Steps(Tail(td)) => "grant" \notin Steps(td)
    BY <1>0, TailOf
  <2>3. "group" \notin Steps(Tail(td)) => "group" \notin Steps(td)
    BY <1>0, TailOf
  <2>4. ~Did(q, td, "home")  BY <1>0 DEF KindsWith, Did, Base
  <2> QED  BY <2>1, <2>2, <2>3, <2>4 DEF Sound, Barred, Checking, Subject
<1>5. Secret(q, Tail(td), sn, fd)
  <2>1. \A y \in {"itsCompany", "party"} : y \in Steps(td) => y \in Steps(Tail(td))
    BY <1>0, TailOf
  <2>2. "itsCompany" \notin Steps(td)
    BY <1>0 DEF KindsWith, Shape, Base, Asks
  <2>3. CASE q.kind = "factory"
    <3>1. "site" \in Base(q.kind) /\ Rank("site") = 1 /\ Rank("match") = 2  BY <2>3 DEF Base, Rank
    <3>2. Did(q, td, "site")  BY <1>0, <3>1, Earlier
    <3>3. sn.company = HomeOf[q.target]  BY <3>2 DEF Sound, Known
    <3> QED  BY <2>3, <2>1, <2>2, <3>3 DEF Sound, Secret, Subject, SiteKinds
  <2>4. CASE q.kind # "factory"
    <3>1. q.kind \notin {"group", "user", "asset", "location"}  BY <1>0 DEF KindsWith
    <3> QED  BY <2>4, <3>1 DEF Sound, Secret
  <2> QED  BY <2>3, <2>4
<1>7. Ready(Tail(td), sn)  BY <1>0, ReadyTail DEF Sound
<1> QED  BY <1>0, <1>1, <1>2, <1>3, <1>4, <1>5, <1>7 DEF Sound

\* assertCallerOwnsCompanyRecord and assertCallerOwnsUsersCompany.
LEMMA ItsCompanyOn ==
    ASSUME NEW q, NEW td, NEW sn, NEW fd, NEW ev, Sound(q, td, sn, fd, ev), td # <<>>,
           Head(td) = "itsCompany", Mine(q, Record(q, sn))
    PROVE  Sound(q, Tail(td), sn, fd, ev)
<1>0. Shape(q, td) /\ sn \in Holding /\ q.kind \in KindsWith("itsCompany")  BY KindsOf DEF Sound
<1>1. Shape(q, Tail(td))  BY TailOf DEF Sound
<1>2. Known(q, Tail(td), sn, ev)  BY KnownStays DEF Sound, Keeping
<1>3. Granted(q, Tail(td), sn, ev)  BY GrantedStays DEF Sound
<1>4. Barred(q, Tail(td), sn, ev)
  <2>1. \A y \in Checking \ {"itsCompany"} : Did(q, Tail(td), y) => Did(q, td, y)
    BY <1>0, TailOf
  <2>2. "grant" \notin Steps(Tail(td)) => "grant" \notin Steps(td)
    BY <1>0, TailOf
  <2>3. "group" \notin Steps(Tail(td)) => "group" \notin Steps(td)
    BY <1>0, TailOf
  <2>4. ~Did(q, td, "home")  BY <1>0 DEF KindsWith, Did, Base
  <2> QED  BY <2>1, <2>2, <2>3, <2>4 DEF Sound, Barred, Checking, Record
<1>5. Secret(q, Tail(td), sn, fd)
  <2>1. CASE q.kind = "namedGroup"  BY <2>1 DEF Sound, Secret
  <2>2. CASE q.kind \in {"group", "user"}
    <3>1. \E y \in {"role", "user"} : y \in Base(q.kind) /\ Rank(y) = 1 /\ Rank("itsCompany") = 2
      BY <2>2 DEF Base, Rank
    <3>2. Did(q, td, "role") \/ Did(q, td, "user")  BY <1>0, <3>1, Earlier
    <3>3. sn.company = HomeOf[q.target]  BY <2>2, <3>2 DEF Sound, Known, UserOf
    <3> QED  BY <2>2, <3>3 DEF Sound, Secret, Record
  <2> QED  BY <1>0, <2>1, <2>2 DEF KindsWith
<1>7. Ready(Tail(td), sn)  BY <1>0, ReadyTail DEF Sound
<1> QED  BY <1>0, <1>1, <1>2, <1>3, <1>4, <1>5, <1>7 DEF Sound

\* assertCallerIsPartyTo.
LEMMA PartyOn ==
    ASSUME NEW q, NEW td, NEW sn, NEW fd, NEW ev, Sound(q, td, sn, fd, ev), td # <<>>,
           Head(td) = "party", NEW c \in Companies, Mine(q, c), c \in {sn.row.maker, sn.row.owner}
    PROVE  Sound(q, Tail(td), sn, fd, ev)
<1>0. Shape(q, td) /\ sn \in Holding /\ q.kind \in KindsWith("party")  BY KindsOf DEF Sound
<1>1. Shape(q, Tail(td))  BY TailOf DEF Sound
<1>2. Known(q, Tail(td), sn, ev)  BY KnownStays DEF Sound, Keeping
<1>3. Granted(q, Tail(td), sn, ev)  BY GrantedStays DEF Sound
<1>4. Barred(q, Tail(td), sn, ev)
  <2>1. \A y \in Checking \ {"party"} : Did(q, Tail(td), y) => Did(q, td, y)
    BY <1>0, TailOf
  <2>2. "grant" \notin Steps(Tail(td)) => "grant" \notin Steps(td)
    BY <1>0, TailOf
  <2>3. "group" \notin Steps(Tail(td)) => "group" \notin Steps(td)
    BY <1>0, TailOf
  <2>4. ~Did(q, td, "home")  BY <1>0 DEF KindsWith, Did, Base
  <2> QED  BY <2>1, <2>2, <2>3, <2>4 DEF Sound, Barred, Checking
<1>5. Secret(q, Tail(td), sn, fd)
  <2>1. q.kind \notin {"group", "user", "factory"}  BY <1>0 DEF KindsWith
  <2>2. Did(q, td, "asset") => Did(q, Tail(td), "asset")  BY <1>0, TailOf DEF Did
  <2> QED  BY <2>1, <2>2 DEF Sound, Secret
<1>7. Ready(Tail(td), sn)  BY <1>0, ReadyTail DEF Sound
<1> QED  BY <1>0, <1>1, <1>2, <1>3, <1>4, <1>5, <1>7 DEF Sound

\* The comparison of getManufacturerOwnerAssets.
LEMMA PartnerOn ==
    ASSUME NEW q, NEW td, NEW sn, NEW fd, NEW ev, Sound(q, td, sn, fd, ev), td # <<>>,
           Head(td) = "partner", Mine(q, q.target[1]) \/ Mine(q, q.target[2]),
           <<"company", q.target[2]>> \in ev
    PROVE  Sound(q, Tail(td), sn, fd, ev)
<1>0. Shape(q, td) /\ sn \in Holding /\ q.kind = "pair"  BY KindsOf DEF Sound, KindsWith
<1>1. Shape(q, Tail(td))  BY TailOf DEF Sound
<1>2. Known(q, Tail(td), sn, ev)
  <2>1. \A y \in Keeping \ {"partner"} : Did(q, Tail(td), y) => Did(q, td, y)
    BY <1>0, TailOf
  <2> QED  BY <2>1 DEF Sound, Known, Keeping
<1>3. Granted(q, Tail(td), sn, ev)  BY GrantedStays DEF Sound
<1>4. Barred(q, Tail(td), sn, ev)
  <2>1. \A y \in Checking \ {"partner"} : Did(q, Tail(td), y) => Did(q, td, y)
    BY <1>0, TailOf
  <2>2. "grant" \notin Steps(Tail(td)) => "grant" \notin Steps(td)
    BY <1>0, TailOf
  <2>3. "group" \notin Steps(Tail(td)) => "group" \notin Steps(td)
    BY <1>0, TailOf
  <2>4. ~Did(q, td, "home")  BY <1>0 DEF KindsWith, Did, Base
  <2> QED  BY <2>1, <2>2, <2>3, <2>4 DEF Sound, Barred, Checking
<1>5. Secret(q, Tail(td), sn, fd)  BY SecretStays DEF Sound
<1>7. Ready(Tail(td), sn)  BY <1>0, ReadyTail DEF Sound
<1> QED  BY <1>0, <1>1, <1>2, <1>3, <1>4, <1>5, <1>7 DEF Sound

\* assertPermission, its first read.
LEMMA GrantOn ==
    ASSUME NEW q, NEW td, NEW sn, NEW fd, NEW ev, Sound(q, td, sn, fd, ev), td # <<>>,
           Head(td) = "grant", NEW g \in Groups, <<"grant", q.caller.user, g>> \in ev
    PROVE  Sound(q, Tail(td), [sn EXCEPT !.grant = g], fd, ev)
<1> DEFINE s2 == [sn EXCEPT !.grant = g]
<1>0. Shape(q, td) /\ sn \in Holding  BY DEF Sound
<1>1. Shape(q, Tail(td))  BY TailOf DEF Sound
<1>6. s2 \in Holding /\ s2.company = sn.company /\ s2.listed = sn.listed /\ s2.row = sn.row
      /\ s2.users = sn.users /\ s2.held = sn.held /\ s2.grant = g
  BY <1>0 DEF Holding
<1> HIDE DEF s2
<1>2. Known(q, Tail(td), s2, ev)  BY <1>6, KnownStays DEF Sound, Keeping
<1>3. Granted(q, Tail(td), s2, ev)  BY <1>6, GrantedStays DEF Sound
<1>4. Barred(q, Tail(td), s2, ev)
  <2>1. \A y \in Checking \ {"grant"} : Did(q, Tail(td), y) => Did(q, td, y)
    BY <1>0, TailOf
  <2>3. "group" \notin Steps(Tail(td)) => "group" \notin Steps(td)
    BY <1>0, TailOf
  <2>4. td # <<"show">>  OBVIOUS
  <2> QED  BY <1>6, <2>1, <2>3, <2>4 DEF Sound, Barred, Checking
<1>5. Secret(q, Tail(td), s2, fd)  BY <1>6, SecretStays DEF Sound
<1>7. Ready(Tail(td), s2)
  <2>1. None \notin Groups  BY DirectoryAssumption
  <2> QED  BY <1>0, <1>6, <2>1, ReadyTail DEF Sound
<1> QED  BY <1>0, <1>1, <1>2, <1>3, <1>4, <1>5, <1>6, <1>7 DEF Sound, s2

\* assertPermission, its second read: the role that the grant named gave the
\* permission at some moment, and unless it was replaced the user had it.
LEMMA GroupOn ==
    ASSUME NEW q, NEW td, NEW sn, NEW fd, NEW ev, Sound(q, td, sn, fd, ev), td # <<>>,
           Head(td) = "group",
           <<"reader", q.caller.user>> \in ev \/ Swapped(ev, q.caller.user)
    PROVE  Sound(q, Tail(td), sn, fd, ev)
<1>0. Shape(q, td) /\ sn \in Holding  BY DEF Sound
<1>1. Shape(q, Tail(td))  BY TailOf DEF Sound
<1>2. Known(q, Tail(td), sn, ev)  BY KnownStays DEF Sound, Keeping
<1>3. Granted(q, Tail(td), sn, ev)  BY GrantedStays DEF Sound
<1>4. Barred(q, Tail(td), sn, ev)
  <2>1. \A y \in Checking \ {"group"} : Did(q, Tail(td), y) => Did(q, td, y)
    BY <1>0, TailOf
  <2>2. "grant" \notin Steps(Tail(td)) => "grant" \notin Steps(td)
    BY <1>0, TailOf
  <2>4. td # <<"show">>  OBVIOUS
  <2> QED  BY <2>1, <2>2, <2>4 DEF Sound, Barred, Checking
<1>5. Secret(q, Tail(td), sn, fd)  BY SecretStays DEF Sound
<1>7. Ready(Tail(td), sn)  BY <1>0, ReadyTail DEF Sound
<1> QED  BY <1>0, <1>1, <1>2, <1>3, <1>4, <1>5, <1>7 DEF Sound

-----------------------------------------------------------------------------
(* Each read that keeps something for later does.                          *)

\* In the query at hand, nothing else that is kept depends on what this read keeps.
LEMMA CompanyOn ==
    ASSUME NEW q, NEW td, NEW sn, NEW fd, NEW ev, Sound(q, td, sn, fd, ev), td # <<>>,
           Head(td) = "company",
           CompanyOf(q) \in Companies,
           <<"company", CompanyOf(q)>> \in ev
    PROVE  Sound(q, Tail(td), [sn EXCEPT !.company = CompanyOf(q), !.listed = {CompanyOf(q)}], fd,
           ev)
<1> DEFINE s2 == [sn EXCEPT !.company = CompanyOf(q), !.listed = {CompanyOf(q)}]
<1>0. Shape(q, td) /\ sn \in Holding /\ q.kind \in KindsWith("company")  BY KindsOf DEF Sound
<1>1. Shape(q, Tail(td))  BY TailOf DEF Sound
<1>2. s2 \in Holding /\ s2.company = CompanyOf(q) /\ s2.listed = {CompanyOf(q)}
      /\ s2.row = sn.row /\ s2.users = sn.users /\ s2.held = sn.held /\ s2.grant = sn.grant
  BY <1>0 DEF Holding
<1> HIDE DEF s2
<1>3. \A y \in Keeping : Did(q, Tail(td), y) => y \in {"company"}
      /\ (Did(q, td, y) \/ y = "company")
  <2>1. \A y : Did(q, Tail(td), y) => Did(q, td, y) \/ y = "company"  BY <1>0, TailOf
  <2>2. "company" \in Base(q.kind)  BY <1>0 DEF KindsWith, Base
  <2>3. \A y \in Keeping : Did(q, td, y) => y \in Base(q.kind) /\ Rank(y) < Rank("company")
    BY <1>0, <2>2, Later DEF Did
  <2>4. \A y \in Keeping \cap Base(q.kind) : Rank(y) < Rank("company") => y \in {"company"}
    BY <1>0 DEF KindsWith, Base, Keeping, Rank
  <2>5. "company" \in {"company"}  OBVIOUS
  <2> QED  BY <2>1, <2>3, <2>4, <2>5
<1>4. Known(q, Tail(td), s2, ev)
  BY <1>0, <1>2, <1>3 DEF Sound, Known, Keeping, Holding
<1>5. Granted(q, Tail(td), s2, ev)
  <2>1. ~Did(q, Tail(td), "grants")
    <3>1. "company" \in Base(q.kind)  BY <1>0 DEF KindsWith, Base
    <3>2. Rank("grants") = 5 /\ Rank("company") = 1  BY DEF Rank
    <3>3. ~Did(q, td, "grants")  BY <1>0, <3>1, <3>2, Later
    <3> QED  BY <1>0, <3>3, TailOf
  <2>2. "eachGroup" \notin Steps(Tail(td))  BY <1>0, TailOnce
  <2> QED  BY <2>1, <2>2 DEF Granted
<1>6. Barred(q, Tail(td), s2, ev)
  <2>1. \A y \in Checking : Did(q, Tail(td), y) => Did(q, td, y)
    BY <1>0, TailOf DEF Checking
  <2>2. \A y \in {"match", "itsCompany", "party"} :
          ~Did(q, td, y) \/ q.kind \notin SiteKinds
                \cup {"group", "user", "asset", "maker", "owner", "location"}
    <3>1. "company" \in Base(q.kind)  BY <1>0 DEF KindsWith, Base
    <3>2. \A y \in {"match", "itsCompany", "party"} : Rank(y) > Rank("company")  BY DEF Rank
    <3>3. Rank("company") \in Int /\ \A y \in {"match", "itsCompany", "party"} : Rank(y) \in Int
      BY DEF Rank
    <3> QED  BY <1>0, <3>1, <3>2, <3>3, Later
  <2>3. "grant" \notin Steps(Tail(td)) => "grant" \notin Steps(td)  BY <1>0, TailOf
  <2>4. "group" \notin Steps(Tail(td)) => "group" \notin Steps(td)  BY <1>0, TailOf
  <2>5. td # <<"show">>  BY <1>0
  <2>6. Did(q, td, "party") => q.kind \in {"asset", "maker", "owner", "location"}
    BY <1>0, KindsOf DEF Did, Base, AllKinds
  <2>7. Did(q, td, "itsCompany") => q.kind \in {"group", "user", "namedGroup"}
    BY <1>0, KindsOf DEF Did, Base, AllKinds
  <2> QED  BY <1>2, <2>1, <2>2, <2>3, <2>4, <2>5, <2>6, <2>7 DEF Sound, Barred, Checking
<1>7. Secret(q, Tail(td), s2, fd)
  BY <1>0, <1>2, SecretStays DEF Sound
<1>10. Ready(Tail(td), s2)  BY <1>0, ReadyTail DEF Sound
<1> QED  BY <1>0, <1>1, <1>2, <1>4, <1>5, <1>6, <1>7, <1>10 DEF Sound, s2

LEMMA SiteOn ==
    ASSUME NEW q, NEW td, NEW sn, NEW fd, NEW ev, Sound(q, td, sn, fd, ev), td # <<>>,
           Head(td) = "site",
           HomeOf[q.target] \in Companies,
           <<"site", q.target, HomeOf[q.target]>> \in ev,
           NEW facts, Secret(q, Tail(td), [sn EXCEPT !.company = HomeOf[q.target]], facts),
                 True(q, ev, facts)
    PROVE  Sound(q, Tail(td), [sn EXCEPT !.company = HomeOf[q.target]], fd \cup facts, ev)
<1> DEFINE s2 == [sn EXCEPT !.company = HomeOf[q.target]]
<1>0. Shape(q, td) /\ sn \in Holding /\ q.kind \in KindsWith("site")  BY KindsOf DEF Sound
<1>1. Shape(q, Tail(td))  BY TailOf DEF Sound
<1>2. s2 \in Holding /\ s2.company = HomeOf[q.target] /\ s2.listed = sn.listed /\ s2.row = sn.row
      /\ s2.users = sn.users /\ s2.held = sn.held /\ s2.grant = sn.grant
  BY <1>0 DEF Holding
<1> HIDE DEF s2
<1>3. \A y \in Keeping : Did(q, Tail(td), y) => y \in {"site"} /\ (Did(q, td, y) \/ y = "site")
  <2>1. \A y : Did(q, Tail(td), y) => Did(q, td, y) \/ y = "site"  BY <1>0, TailOf
  <2>2. "site" \in Base(q.kind)  BY <1>0 DEF KindsWith, Base
  <2>3. \A y \in Keeping : Did(q, td, y) => y \in Base(q.kind) /\ Rank(y) < Rank("site")
    BY <1>0, <2>2, Later DEF Did
  <2>4. \A y \in Keeping \cap Base(q.kind) : Rank(y) < Rank("site") => y \in {"site"}
    BY <1>0 DEF KindsWith, Base, Keeping, Rank
  <2>5. "site" \in {"site"}  OBVIOUS
  <2> QED  BY <2>1, <2>3, <2>4, <2>5
<1>4. Known(q, Tail(td), s2, ev)
  BY <1>0, <1>2, <1>3 DEF Sound, Known, Keeping, Holding
<1>5. Granted(q, Tail(td), s2, ev)
  <2>1. ~Did(q, Tail(td), "grants")
    <3>1. "site" \in Base(q.kind)  BY <1>0 DEF KindsWith, Base
    <3>2. Rank("grants") = 5 /\ Rank("site") = 1  BY DEF Rank
    <3>3. ~Did(q, td, "grants")  BY <1>0, <3>1, <3>2, Later
    <3> QED  BY <1>0, <3>3, TailOf
  <2>2. "eachGroup" \notin Steps(Tail(td))  BY <1>0, TailOnce
  <2> QED  BY <2>1, <2>2 DEF Granted
<1>6. Barred(q, Tail(td), s2, ev)
  <2>1. \A y \in Checking : Did(q, Tail(td), y) => Did(q, td, y)
    BY <1>0, TailOf DEF Checking
  <2>2. \A y \in {"match", "itsCompany", "party"} :
          ~Did(q, td, y) \/ q.kind \notin SiteKinds
                \cup {"group", "user", "asset", "maker", "owner", "location"}
    <3>1. "site" \in Base(q.kind)  BY <1>0 DEF KindsWith, Base
    <3>2. \A y \in {"match", "itsCompany", "party"} : Rank(y) > Rank("site")  BY DEF Rank
    <3>3. Rank("site") \in Int /\ \A y \in {"match", "itsCompany", "party"} : Rank(y) \in Int
      BY DEF Rank
    <3> QED  BY <1>0, <3>1, <3>2, <3>3, Later
  <2>3. "grant" \notin Steps(Tail(td)) => "grant" \notin Steps(td)  BY <1>0, TailOf
  <2>4. "group" \notin Steps(Tail(td)) => "group" \notin Steps(td)  BY <1>0, TailOf
  <2>5. td # <<"show">>  BY <1>0
  <2>6. Did(q, td, "party") => q.kind \in {"asset", "maker", "owner", "location"}
    BY <1>0, KindsOf DEF Did, Base, AllKinds
  <2>7. Did(q, td, "itsCompany") => q.kind \in {"group", "user", "namedGroup"}
    BY <1>0, KindsOf DEF Did, Base, AllKinds
  <2> QED  BY <1>2, <2>1, <2>2, <2>3, <2>4, <2>5, <2>6, <2>7 DEF Sound, Barred, Checking
<1>7. Secret(q, Tail(td), s2, fd)
  BY <1>0, <1>2, SecretStays DEF Sound
<1>8. Secret(q, Tail(td), s2, fd \cup facts)  BY <1>7, SecretAdd DEF s2
<1>9. True(q, ev, fd \cup facts)  BY TrueAdd DEF Sound
<1>10. Ready(Tail(td), s2)  BY <1>0, ReadyTail DEF Sound
<1> QED  BY <1>0, <1>1, <1>2, <1>4, <1>5, <1>6, <1>8, <1>9, <1>10 DEF Sound, s2

LEMMA RoleOn ==
    ASSUME NEW q, NEW td, NEW sn, NEW fd, NEW ev, Sound(q, td, sn, fd, ev), td # <<>>,
           Head(td) = "role",
           HomeOf[q.target] \in Companies,
           NEW facts, Secret(q, Tail(td), [sn EXCEPT !.company = HomeOf[q.target]], facts),
                 True(q, ev, facts)
    PROVE  Sound(q, Tail(td), [sn EXCEPT !.company = HomeOf[q.target]], fd \cup facts, ev)
<1> DEFINE s2 == [sn EXCEPT !.company = HomeOf[q.target]]
<1>0. Shape(q, td) /\ sn \in Holding /\ q.kind \in KindsWith("role")  BY KindsOf DEF Sound
<1>1. Shape(q, Tail(td))  BY TailOf DEF Sound
<1>2. s2 \in Holding /\ s2.company = HomeOf[q.target] /\ s2.listed = sn.listed /\ s2.row = sn.row
      /\ s2.users = sn.users /\ s2.held = sn.held /\ s2.grant = sn.grant
  BY <1>0 DEF Holding
<1> HIDE DEF s2
<1>3. \A y \in Keeping : Did(q, Tail(td), y) => y \in {"role"} /\ (Did(q, td, y) \/ y = "role")
  <2>1. \A y : Did(q, Tail(td), y) => Did(q, td, y) \/ y = "role"  BY <1>0, TailOf
  <2>2. "role" \in Base(q.kind)  BY <1>0 DEF KindsWith, Base
  <2>3. \A y \in Keeping : Did(q, td, y) => y \in Base(q.kind) /\ Rank(y) < Rank("role")
    BY <1>0, <2>2, Later DEF Did
  <2>4. \A y \in Keeping \cap Base(q.kind) : Rank(y) < Rank("role") => y \in {"role"}
    BY <1>0 DEF KindsWith, Base, Keeping, Rank
  <2>5. "role" \in {"role"}  OBVIOUS
  <2> QED  BY <2>1, <2>3, <2>4, <2>5
<1>4. Known(q, Tail(td), s2, ev)
  BY <1>0, <1>2, <1>3 DEF Sound, Known, Keeping, Holding
<1>5. Granted(q, Tail(td), s2, ev)
  <2>1. ~Did(q, Tail(td), "grants")
    <3>1. "role" \in Base(q.kind)  BY <1>0 DEF KindsWith, Base
    <3>2. Rank("grants") = 5 /\ Rank("role") = 1  BY DEF Rank
    <3>3. ~Did(q, td, "grants")  BY <1>0, <3>1, <3>2, Later
    <3> QED  BY <1>0, <3>3, TailOf
  <2>2. "eachGroup" \notin Steps(Tail(td))  BY <1>0, TailOnce
  <2> QED  BY <2>1, <2>2 DEF Granted
<1>6. Barred(q, Tail(td), s2, ev)
  <2>1. \A y \in Checking : Did(q, Tail(td), y) => Did(q, td, y)
    BY <1>0, TailOf DEF Checking
  <2>2. \A y \in {"match", "itsCompany", "party"} :
          ~Did(q, td, y) \/ q.kind \notin SiteKinds
                \cup {"group", "user", "asset", "maker", "owner", "location"}
    <3>1. "role" \in Base(q.kind)  BY <1>0 DEF KindsWith, Base
    <3>2. \A y \in {"match", "itsCompany", "party"} : Rank(y) > Rank("role")  BY DEF Rank
    <3>3. Rank("role") \in Int /\ \A y \in {"match", "itsCompany", "party"} : Rank(y) \in Int
      BY DEF Rank
    <3> QED  BY <1>0, <3>1, <3>2, <3>3, Later
  <2>3. "grant" \notin Steps(Tail(td)) => "grant" \notin Steps(td)  BY <1>0, TailOf
  <2>4. "group" \notin Steps(Tail(td)) => "group" \notin Steps(td)  BY <1>0, TailOf
  <2>5. td # <<"show">>  BY <1>0
  <2>6. Did(q, td, "party") => q.kind \in {"asset", "maker", "owner", "location"}
    BY <1>0, KindsOf DEF Did, Base, AllKinds
  <2>7. Did(q, td, "itsCompany") => q.kind \in {"group", "user", "namedGroup"}
    BY <1>0, KindsOf DEF Did, Base, AllKinds
  <2> QED  BY <1>2, <2>1, <2>2, <2>3, <2>4, <2>5, <2>6, <2>7 DEF Sound, Barred, Checking
<1>7. Secret(q, Tail(td), s2, fd)
  BY <1>0, <1>2, SecretStays DEF Sound
<1>8. Secret(q, Tail(td), s2, fd \cup facts)  BY <1>7, SecretAdd DEF s2
<1>9. True(q, ev, fd \cup facts)  BY TrueAdd DEF Sound
<1>10. Ready(Tail(td), s2)  BY <1>0, ReadyTail DEF Sound
<1> QED  BY <1>0, <1>1, <1>2, <1>4, <1>5, <1>6, <1>8, <1>9, <1>10 DEF Sound, s2

LEMMA UserOn ==
    ASSUME NEW q, NEW td, NEW sn, NEW fd, NEW ev, Sound(q, td, sn, fd, ev), td # <<>>,
           Head(td) = "user",
           HomeOf[UserOf(q)] \in Companies,
           <<"user", UserOf(q), HomeOf[UserOf(q)]>> \in ev,
           NEW facts, Secret(q, Tail(td), [sn EXCEPT !.company = HomeOf[UserOf(q)]], facts),
                 True(q, ev, facts)
    PROVE  Sound(q, Tail(td), [sn EXCEPT !.company = HomeOf[UserOf(q)]], fd \cup facts, ev)
<1> DEFINE s2 == [sn EXCEPT !.company = HomeOf[UserOf(q)]]
<1>0. Shape(q, td) /\ sn \in Holding /\ q.kind \in KindsWith("user")  BY KindsOf DEF Sound
<1>1. Shape(q, Tail(td))  BY TailOf DEF Sound
<1>2. s2 \in Holding /\ s2.company = HomeOf[UserOf(q)] /\ s2.listed = sn.listed
      /\ s2.row = sn.row /\ s2.users = sn.users /\ s2.held = sn.held /\ s2.grant = sn.grant
  BY <1>0 DEF Holding
<1> HIDE DEF s2
<1>3. \A y \in Keeping : Did(q, Tail(td), y) => y \in {"user"} /\ (Did(q, td, y) \/ y = "user")
  <2>1. \A y : Did(q, Tail(td), y) => Did(q, td, y) \/ y = "user"  BY <1>0, TailOf
  <2>2. "user" \in Base(q.kind)  BY <1>0 DEF KindsWith, Base
  <2>3. \A y \in Keeping : Did(q, td, y) => y \in Base(q.kind) /\ Rank(y) < Rank("user")
    BY <1>0, <2>2, Later DEF Did
  <2>4. \A y \in Keeping \cap Base(q.kind) : Rank(y) < Rank("user") => y \in {"user"}
    BY <1>0 DEF KindsWith, Base, Keeping, Rank
  <2>5. "user" \in {"user"}  OBVIOUS
  <2> QED  BY <2>1, <2>3, <2>4, <2>5
<1>4. Known(q, Tail(td), s2, ev)
  BY <1>0, <1>2, <1>3 DEF Sound, Known, Keeping, Holding
<1>5. Granted(q, Tail(td), s2, ev)
  <2>1. ~Did(q, Tail(td), "grants")
    <3>1. "user" \in Base(q.kind)  BY <1>0 DEF KindsWith, Base
    <3>2. Rank("grants") = 5 /\ Rank("user") = 1  BY DEF Rank
    <3>3. ~Did(q, td, "grants")  BY <1>0, <3>1, <3>2, Later
    <3> QED  BY <1>0, <3>3, TailOf
  <2>2. "eachGroup" \notin Steps(Tail(td))  BY <1>0, TailOnce
  <2> QED  BY <2>1, <2>2 DEF Granted
<1>6. Barred(q, Tail(td), s2, ev)
  <2>1. \A y \in Checking : Did(q, Tail(td), y) => Did(q, td, y)
    BY <1>0, TailOf DEF Checking
  <2>2. \A y \in {"match", "itsCompany", "party"} :
          ~Did(q, td, y) \/ q.kind \notin SiteKinds
                \cup {"group", "user", "asset", "maker", "owner", "location"}
    <3>1. "user" \in Base(q.kind)  BY <1>0 DEF KindsWith, Base
    <3>2. \A y \in {"match", "itsCompany", "party"} : Rank(y) > Rank("user")  BY DEF Rank
    <3>3. Rank("user") \in Int /\ \A y \in {"match", "itsCompany", "party"} : Rank(y) \in Int
      BY DEF Rank
    <3> QED  BY <1>0, <3>1, <3>2, <3>3, Later
  <2>3. "grant" \notin Steps(Tail(td)) => "grant" \notin Steps(td)  BY <1>0, TailOf
  <2>4. "group" \notin Steps(Tail(td)) => "group" \notin Steps(td)  BY <1>0, TailOf
  <2>5. td # <<"show">>  BY <1>0
  <2>6. Did(q, td, "party") => q.kind \in {"asset", "maker", "owner", "location"}
    BY <1>0, KindsOf DEF Did, Base, AllKinds
  <2>7. Did(q, td, "itsCompany") => q.kind \in {"group", "user", "namedGroup"}
    BY <1>0, KindsOf DEF Did, Base, AllKinds
  <2> QED  BY <1>2, <2>1, <2>2, <2>3, <2>4, <2>5, <2>6, <2>7 DEF Sound, Barred, Checking
<1>7. Secret(q, Tail(td), s2, fd)
  BY <1>0, <1>2, SecretStays DEF Sound
<1>8. Secret(q, Tail(td), s2, fd \cup facts)  BY <1>7, SecretAdd DEF s2
<1>9. True(q, ev, fd \cup facts)  BY TrueAdd DEF Sound
<1>10. Ready(Tail(td), s2)  BY <1>0, ReadyTail DEF Sound
<1> QED  BY <1>0, <1>1, <1>2, <1>4, <1>5, <1>6, <1>8, <1>9, <1>10 DEF Sound, s2

LEMMA AssetOn ==
    ASSUME NEW q, NEW td, NEW sn, NEW fd, NEW ev, Sound(q, td, sn, fd, ev), td # <<>>,
           Head(td) = "asset",
           NEW row \in Asset,
           row # None,
           <<"asset", q.target, row>> \in ev,
           q.kind = "owner" => row.owner # None,
           q.kind = "location" => row.site # None,
           NEW facts, Secret(q, Tail(td), [sn EXCEPT !.row = row], facts), True(q, ev, facts)
    PROVE  Sound(q, Tail(td), [sn EXCEPT !.row = row], fd \cup facts, ev)
<1> DEFINE s2 == [sn EXCEPT !.row = row]
<1>0. Shape(q, td) /\ sn \in Holding /\ q.kind \in KindsWith("asset")  BY KindsOf DEF Sound
<1>1. Shape(q, Tail(td))  BY TailOf DEF Sound
<1>2. s2 \in Holding /\ s2.company = sn.company /\ s2.listed = sn.listed /\ s2.row = row
      /\ s2.users = sn.users /\ s2.held = sn.held /\ s2.grant = sn.grant
  BY <1>0 DEF Holding
<1> HIDE DEF s2
<1>3. \A y \in Keeping : Did(q, Tail(td), y) => y \in {"asset"} /\ (Did(q, td, y) \/ y = "asset")
  <2>1. \A y : Did(q, Tail(td), y) => Did(q, td, y) \/ y = "asset"  BY <1>0, TailOf
  <2>2. "asset" \in Base(q.kind)  BY <1>0 DEF KindsWith, Base
  <2>3. \A y \in Keeping : Did(q, td, y) => y \in Base(q.kind) /\ Rank(y) < Rank("asset")
    BY <1>0, <2>2, Later DEF Did
  <2>4. \A y \in Keeping \cap Base(q.kind) : Rank(y) < Rank("asset") => y \in {"asset"}
    BY <1>0 DEF KindsWith, Base, Keeping, Rank
  <2>5. "asset" \in {"asset"}  OBVIOUS
  <2> QED  BY <2>1, <2>3, <2>4, <2>5
<1>4. Known(q, Tail(td), s2, ev)
  BY <1>0, <1>2, <1>3 DEF Sound, Known, Keeping, Holding
<1>5. Granted(q, Tail(td), s2, ev)
  <2>1. ~Did(q, Tail(td), "grants")
    <3>1. "asset" \in Base(q.kind)  BY <1>0 DEF KindsWith, Base
    <3>2. Rank("grants") = 5 /\ Rank("asset") = 1  BY DEF Rank
    <3>3. ~Did(q, td, "grants")  BY <1>0, <3>1, <3>2, Later
    <3> QED  BY <1>0, <3>3, TailOf
  <2>2. "eachGroup" \notin Steps(Tail(td))  BY <1>0, TailOnce
  <2> QED  BY <2>1, <2>2 DEF Granted
<1>6. Barred(q, Tail(td), s2, ev)
  <2>1. \A y \in Checking : Did(q, Tail(td), y) => Did(q, td, y)
    BY <1>0, TailOf DEF Checking
  <2>2. \A y \in {"match", "itsCompany", "party"} :
          ~Did(q, td, y) \/ q.kind \notin SiteKinds
                \cup {"group", "user", "asset", "maker", "owner", "location"}
    <3>1. "asset" \in Base(q.kind)  BY <1>0 DEF KindsWith, Base
    <3>2. \A y \in {"match", "itsCompany", "party"} : Rank(y) > Rank("asset")  BY DEF Rank
    <3>3. Rank("asset") \in Int /\ \A y \in {"match", "itsCompany", "party"} : Rank(y) \in Int
      BY DEF Rank
    <3> QED  BY <1>0, <3>1, <3>2, <3>3, Later
  <2>3. "grant" \notin Steps(Tail(td)) => "grant" \notin Steps(td)  BY <1>0, TailOf
  <2>4. "group" \notin Steps(Tail(td)) => "group" \notin Steps(td)  BY <1>0, TailOf
  <2>5. td # <<"show">>  BY <1>0
  <2>6. Did(q, td, "party") => q.kind \in {"asset", "maker", "owner", "location"}
    BY <1>0, KindsOf DEF Did, Base, AllKinds
  <2>7. Did(q, td, "itsCompany") => q.kind \in {"group", "user", "namedGroup"}
    BY <1>0, KindsOf DEF Did, Base, AllKinds
  <2> QED  BY <1>2, <2>1, <2>2, <2>3, <2>4, <2>5, <2>6, <2>7 DEF Sound, Barred, Checking
<1>7. Secret(q, Tail(td), s2, fd)
  <2>1. ~Did(q, td, "asset")  BY <1>0, TailOf DEF Did
  <2>2. q.kind \notin {"group", "user", "factory"}  BY <1>0 DEF KindsWith
  <2> QED  BY <2>1, <2>2 DEF Sound, Secret
<1>8. Secret(q, Tail(td), s2, fd \cup facts)  BY <1>7, SecretAdd DEF s2
<1>9. True(q, ev, fd \cup facts)  BY TrueAdd DEF Sound
<1>10. Ready(Tail(td), s2)  BY <1>0, ReadyTail DEF Sound
<1> QED  BY <1>0, <1>1, <1>2, <1>4, <1>5, <1>6, <1>8, <1>9, <1>10 DEF Sound, s2

LEMMA EveryOn ==
    ASSUME NEW q, NEW td, NEW sn, NEW fd, NEW ev, Sound(q, td, sn, fd, ev), td # <<>>,
           Head(td) = "every",
           NEW cs \in SUBSET Companies,
           \A c \in cs : <<"company", c>> \in ev,
           NEW facts, Secret(q, Tail(td), [sn EXCEPT !.listed = cs], facts), True(q, ev, facts)
    PROVE  Sound(q, Tail(td), [sn EXCEPT !.listed = cs], fd \cup facts, ev)
<1> DEFINE s2 == [sn EXCEPT !.listed = cs]
<1>0. Shape(q, td) /\ sn \in Holding /\ q.kind \in KindsWith("every")  BY KindsOf DEF Sound
<1>1. Shape(q, Tail(td))  BY TailOf DEF Sound
<1>2. s2 \in Holding /\ s2.company = sn.company /\ s2.listed = cs /\ s2.row = sn.row
      /\ s2.users = sn.users /\ s2.held = sn.held /\ s2.grant = sn.grant
  BY <1>0 DEF Holding
<1> HIDE DEF s2
<1>3. \A y \in Keeping : Did(q, Tail(td), y) => y \in {"every"} /\ (Did(q, td, y) \/ y = "every")
  <2>1. \A y : Did(q, Tail(td), y) => Did(q, td, y) \/ y = "every"  BY <1>0, TailOf
  <2>2. "every" \in Base(q.kind)  BY <1>0 DEF KindsWith, Base
  <2>3. \A y \in Keeping : Did(q, td, y) => y \in Base(q.kind) /\ Rank(y) < Rank("every")
    BY <1>0, <2>2, Later DEF Did
  <2>4. \A y \in Keeping \cap Base(q.kind) : Rank(y) < Rank("every") => y \in {"every"}
    BY <1>0 DEF KindsWith, Base, Keeping, Rank
  <2>5. "every" \in {"every"}  OBVIOUS
  <2> QED  BY <2>1, <2>3, <2>4, <2>5
<1>4. Known(q, Tail(td), s2, ev)
  BY <1>0, <1>2, <1>3 DEF Sound, Known, Keeping, Holding
<1>5. Granted(q, Tail(td), s2, ev)
  <2>1. ~Did(q, Tail(td), "grants")
    <3>1. "every" \in Base(q.kind)  BY <1>0 DEF KindsWith, Base
    <3>2. Rank("grants") = 5 /\ Rank("every") = 1  BY DEF Rank
    <3>3. ~Did(q, td, "grants")  BY <1>0, <3>1, <3>2, Later
    <3> QED  BY <1>0, <3>3, TailOf
  <2>2. "eachGroup" \notin Steps(Tail(td))  BY <1>0, TailOnce
  <2> QED  BY <2>1, <2>2 DEF Granted
<1>6. Barred(q, Tail(td), s2, ev)
  BY <1>0, <1>2, BarredStays DEF Sound, Checking
<1>7. Secret(q, Tail(td), s2, fd)
  BY <1>0, <1>2, SecretStays DEF Sound
<1>8. Secret(q, Tail(td), s2, fd \cup facts)  BY <1>7, SecretAdd DEF s2
<1>9. True(q, ev, fd \cup facts)  BY TrueAdd DEF Sound
<1>10. Ready(Tail(td), s2)  BY <1>0, ReadyTail DEF Sound
<1> QED  BY <1>0, <1>1, <1>2, <1>4, <1>5, <1>6, <1>8, <1>9, <1>10 DEF Sound, s2

LEMMA MappedOn ==
    ASSUME NEW q, NEW td, NEW sn, NEW fd, NEW ev, Sound(q, td, sn, fd, ev), td # <<>>,
           Head(td) = "mapped",
           NEW cs \in SUBSET Companies,
           \A c \in cs : \E k \in Wanted(q) : <<"category", c, k>> \in ev
    PROVE  Sound(q, Tail(td), [sn EXCEPT !.listed = cs], fd, ev)
<1> DEFINE s2 == [sn EXCEPT !.listed = cs]
<1>0. Shape(q, td) /\ sn \in Holding /\ q.kind \in KindsWith("mapped")  BY KindsOf DEF Sound
<1>1. Shape(q, Tail(td))  BY TailOf DEF Sound
<1>2. s2 \in Holding /\ s2.company = sn.company /\ s2.listed = cs /\ s2.row = sn.row
      /\ s2.users = sn.users /\ s2.held = sn.held /\ s2.grant = sn.grant
  BY <1>0 DEF Holding
<1> HIDE DEF s2
<1>3. \A y \in Keeping : Did(q, Tail(td), y) => y \in {"mapped"} /\ (Did(q, td, y) \/ y = "mapped")
  <2>1. \A y : Did(q, Tail(td), y) => Did(q, td, y) \/ y = "mapped"  BY <1>0, TailOf
  <2>2. "mapped" \in Base(q.kind)  BY <1>0 DEF KindsWith, Base
  <2>3. \A y \in Keeping : Did(q, td, y) => y \in Base(q.kind) /\ Rank(y) < Rank("mapped")
    BY <1>0, <2>2, Later DEF Did
  <2>4. \A y \in Keeping \cap Base(q.kind) : Rank(y) < Rank("mapped") => y \in {"mapped"}
    BY <1>0 DEF KindsWith, Base, Keeping, Rank
  <2>5. "mapped" \in {"mapped"}  OBVIOUS
  <2> QED  BY <2>1, <2>3, <2>4, <2>5
<1>4. Known(q, Tail(td), s2, ev)
  BY <1>0, <1>2, <1>3 DEF Sound, Known, Keeping, Holding
<1>5. Granted(q, Tail(td), s2, ev)
  <2>1. ~Did(q, Tail(td), "grants")
    <3>1. "mapped" \in Base(q.kind)  BY <1>0 DEF KindsWith, Base
    <3>2. Rank("grants") = 5 /\ Rank("mapped") = 1  BY DEF Rank
    <3>3. ~Did(q, td, "grants")  BY <1>0, <3>1, <3>2, Later
    <3> QED  BY <1>0, <3>3, TailOf
  <2>2. "eachGroup" \notin Steps(Tail(td))  BY <1>0, TailOnce
  <2> QED  BY <2>1, <2>2 DEF Granted
<1>6. Barred(q, Tail(td), s2, ev)
  BY <1>0, <1>2, BarredStays DEF Sound, Checking
<1>7. Secret(q, Tail(td), s2, fd)
  BY <1>0, <1>2, SecretStays DEF Sound
<1>10. Ready(Tail(td), s2)  BY <1>0, ReadyTail DEF Sound
<1> QED  BY <1>0, <1>1, <1>2, <1>4, <1>5, <1>6, <1>7, <1>10 DEF Sound, s2

LEMMA TwinsOn ==
    ASSUME NEW q, NEW td, NEW sn, NEW fd, NEW ev, Sound(q, td, sn, fd, ev), td # <<>>,
           Head(td) = "twins",
           NEW cs \in SUBSET Companies,
           \A c \in cs : \E a \in Assets, row \in Asset :
             <<"asset", a, row>> \in ev /\ row.maker = q.target /\ row.owner = c
    PROVE  Sound(q, Tail(td), [sn EXCEPT !.listed = cs], fd, ev)
<1> DEFINE s2 == [sn EXCEPT !.listed = cs]
<1>0. Shape(q, td) /\ sn \in Holding /\ q.kind \in KindsWith("twins")  BY KindsOf DEF Sound
<1>1. Shape(q, Tail(td))  BY TailOf DEF Sound
<1>2. s2 \in Holding /\ s2.company = sn.company /\ s2.listed = cs /\ s2.row = sn.row
      /\ s2.users = sn.users /\ s2.held = sn.held /\ s2.grant = sn.grant
  BY <1>0 DEF Holding
<1> HIDE DEF s2
<1>3. \A y \in Keeping : Did(q, Tail(td), y) => y \in {"company", "twins"}
      /\ (Did(q, td, y) \/ y = "twins")
  <2>1. \A y : Did(q, Tail(td), y) => Did(q, td, y) \/ y = "twins"  BY <1>0, TailOf
  <2>2. "twins" \in Base(q.kind)  BY <1>0 DEF KindsWith, Base
  <2>3. \A y \in Keeping : Did(q, td, y) => y \in Base(q.kind) /\ Rank(y) < Rank("twins")
    BY <1>0, <2>2, Later DEF Did
  <2>4. \A y \in Keeping \cap Base(q.kind) : Rank(y) < Rank("twins") => y \in {"company", "twins"}
    BY <1>0 DEF KindsWith, Base, Keeping, Rank
  <2>5. "twins" \in {"company", "twins"}  OBVIOUS
  <2> QED  BY <2>1, <2>3, <2>4, <2>5
<1>4. Known(q, Tail(td), s2, ev)
  <2>1. q.kind = "owners"  BY <1>0 DEF KindsWith
  <2>2. \A y \in Keeping \ {"company", "twins"} : ~Did(q, Tail(td), y)  BY <1>3
  <2>3. Did(q, Tail(td), "company") => Did(q, td, "company")  BY <1>3 DEF Keeping
  <2> QED  BY <1>2, <2>1, <2>2, <2>3 DEF Sound, Known, Keeping
<1>5. Granted(q, Tail(td), s2, ev)
  <2>1. ~Did(q, Tail(td), "grants")
    <3>1. "twins" \in Base(q.kind)  BY <1>0 DEF KindsWith, Base
    <3>2. Rank("grants") = 5 /\ Rank("twins") = 3  BY DEF Rank
    <3>3. ~Did(q, td, "grants")  BY <1>0, <3>1, <3>2, Later
    <3> QED  BY <1>0, <3>3, TailOf
  <2>2. "eachGroup" \notin Steps(Tail(td))  BY <1>0, TailOnce
  <2> QED  BY <2>1, <2>2 DEF Granted
<1>6. Barred(q, Tail(td), s2, ev)
  BY <1>0, <1>2, BarredStays DEF Sound, Checking
<1>7. Secret(q, Tail(td), s2, fd)
  BY <1>0, <1>2, SecretStays DEF Sound
<1>10. Ready(Tail(td), s2)  BY <1>0, ReadyTail DEF Sound
<1> QED  BY <1>0, <1>1, <1>2, <1>4, <1>5, <1>6, <1>7, <1>10 DEF Sound, s2

LEMMA PresentOn ==
    ASSUME NEW q, NEW td, NEW sn, NEW fd, NEW ev, Sound(q, td, sn, fd, ev), td # <<>>,
           Head(td) = "present",
           NEW cs \in SUBSET Companies,
           q.kind = "both" => cs \subseteq sn.listed,
           \A c \in cs :
             /\ <<"company", c>> \in ev
             /\ q.kind = "maker" => c = sn.row.maker
             /\ q.kind = "owner" => c = sn.row.owner
             /\ q.kind = "factoryOwner" => c = sn.company
    PROVE  Sound(q, Tail(td), [sn EXCEPT !.listed = cs], fd, ev)
<1> DEFINE s2 == [sn EXCEPT !.listed = cs]
<1>0. Shape(q, td) /\ sn \in Holding /\ q.kind \in KindsWith("present")  BY KindsOf DEF Sound
<1>1. Shape(q, Tail(td))  BY TailOf DEF Sound
<1>2. s2 \in Holding /\ s2.company = sn.company /\ s2.listed = cs /\ s2.row = sn.row
      /\ s2.users = sn.users /\ s2.held = sn.held /\ s2.grant = sn.grant
  BY <1>0 DEF Holding
<1> HIDE DEF s2
<1>3. \A y \in Keeping : Did(q, Tail(td), y) => y \in {"present", "mapped", "site", "asset"}
      /\ (Did(q, td, y) \/ y = "present")
  <2>1. \A y : Did(q, Tail(td), y) => Did(q, td, y) \/ y = "present"  BY <1>0, TailOf
  <2>2. "present" \in Base(q.kind)  BY <1>0 DEF KindsWith, Base
  <2>3. \A y \in Keeping : Did(q, td, y) => y \in Base(q.kind) /\ Rank(y) < Rank("present")
    BY <1>0, <2>2, Later DEF Did
  <2>4. \A y \in Keeping \cap Base(q.kind) : Rank(y) < Rank("present")
        => y \in {"present", "mapped", "site", "asset"}
    BY <1>0 DEF KindsWith, Base, Keeping, Rank
  <2>5. "present" \in {"present", "mapped", "site", "asset"}  OBVIOUS
  <2> QED  BY <2>1, <2>3, <2>4, <2>5
<1>4. Known(q, Tail(td), s2, ev)
  <2>1. Did(q, td, "mapped") => q.kind = "both"
    BY <1>0 DEF Did, Base, KindsWith
  <2> QED  BY <1>0, <1>2, <1>3, <2>1 DEF Sound, Known, Keeping, KindsWith
<1>5. Granted(q, Tail(td), s2, ev)
  <2>1. ~Did(q, Tail(td), "grants")
    <3>1. "present" \in Base(q.kind)  BY <1>0 DEF KindsWith, Base
    <3>2. "grants" \notin Base(q.kind)  BY <1>0 DEF KindsWith, Base
    <3> QED  BY <3>2 DEF Did
  <2>2. "eachGroup" \notin Steps(Tail(td))  BY <1>0, TailOnce
  <2> QED  BY <2>1, <2>2 DEF Granted
<1>6. Barred(q, Tail(td), s2, ev)
  BY <1>0, <1>2, BarredStays DEF Sound, Checking
<1>7. Secret(q, Tail(td), s2, fd)
  BY <1>0, <1>2, SecretStays DEF Sound
<1>10. Ready(Tail(td), s2)  BY <1>0, ReadyTail DEF Sound
<1> QED  BY <1>0, <1>1, <1>2, <1>4, <1>5, <1>6, <1>7, <1>10 DEF Sound, s2

LEMMA UsersOn ==
    ASSUME NEW q, NEW td, NEW sn, NEW fd, NEW ev, Sound(q, td, sn, fd, ev), td # <<>>,
           Head(td) = "users",
           NEW us \in SUBSET Users,
           \A u \in us : HomeOf[u] = q.target /\ <<"user", u, q.target>> \in ev,
           NEW facts, Secret(q, Tail(td), [sn EXCEPT !.users = us], facts), True(q, ev, facts)
    PROVE  Sound(q, Tail(td), [sn EXCEPT !.users = us], fd \cup facts, ev)
<1> DEFINE s2 == [sn EXCEPT !.users = us]
<1>0. Shape(q, td) /\ sn \in Holding /\ q.kind \in KindsWith("users")  BY KindsOf DEF Sound
<1>1. Shape(q, Tail(td))  BY TailOf DEF Sound
<1>2. s2 \in Holding /\ s2.company = sn.company /\ s2.listed = sn.listed /\ s2.row = sn.row
      /\ s2.users = us /\ s2.held = sn.held /\ s2.grant = sn.grant
  BY <1>0 DEF Holding
<1> HIDE DEF s2
<1>3. \A y \in Keeping : Did(q, Tail(td), y) => y \in {"company", "users"}
      /\ (Did(q, td, y) \/ y = "users")
  <2>1. \A y : Did(q, Tail(td), y) => Did(q, td, y) \/ y = "users"  BY <1>0, TailOf
  <2>2. "users" \in Base(q.kind)  BY <1>0 DEF KindsWith, Base
  <2>3. \A y \in Keeping : Did(q, td, y) => y \in Base(q.kind) /\ Rank(y) < Rank("users")
    BY <1>0, <2>2, Later DEF Did
  <2>4. \A y \in Keeping \cap Base(q.kind) : Rank(y) < Rank("users") => y \in {"company", "users"}
    BY <1>0 DEF KindsWith, Base, Keeping, Rank
  <2>5. "users" \in {"company", "users"}  OBVIOUS
  <2> QED  BY <2>1, <2>3, <2>4, <2>5
<1>4. Known(q, Tail(td), s2, ev)
  <2>1. CompanyOf(q) = q.target  BY <1>0 DEF CompanyOf, KindsWith
  <2> QED  BY <1>0, <1>2, <1>3, <2>1 DEF Sound, Known, Keeping
<1>5. Granted(q, Tail(td), s2, ev)
  <2>1. ~Did(q, Tail(td), "grants")
    <3>1. "users" \in Base(q.kind)  BY <1>0 DEF KindsWith, Base
    <3>2. Rank("grants") = 5 /\ Rank("users") = 4  BY DEF Rank
    <3>3. ~Did(q, td, "grants")  BY <1>0, <3>1, <3>2, Later
    <3> QED  BY <1>0, <3>3, TailOf
  <2>2. "eachGroup" \notin Steps(Tail(td))  BY <1>0, TailOnce
  <2> QED  BY <2>1, <2>2 DEF Granted
<1>6. Barred(q, Tail(td), s2, ev)
  BY <1>0, <1>2, BarredStays DEF Sound, Checking
<1>7. Secret(q, Tail(td), s2, fd)
  BY <1>0, <1>2, SecretStays DEF Sound
<1>8. Secret(q, Tail(td), s2, fd \cup facts)  BY <1>7, SecretAdd DEF s2
<1>9. True(q, ev, fd \cup facts)  BY TrueAdd DEF Sound
<1>10. Ready(Tail(td), s2)  BY <1>0, ReadyTail DEF Sound
<1> QED  BY <1>0, <1>1, <1>2, <1>4, <1>5, <1>6, <1>8, <1>9, <1>10 DEF Sound, s2

-----------------------------------------------------------------------------
(* The reads of grants, and the shorter ways out.                          *)

LEMMA GrantsOn ==
    ASSUME NEW q, NEW td, NEW sn, NEW fd, NEW ev, Sound(q, td, sn, fd, ev), td # <<>>,
           Head(td) = "grants",
           NEW us \in SUBSET Users, NEW held \in SUBSET (Users \X Groups),
           us = IF q.kind = "access" THEN sn.users ELSE {UserOf(q)},
           \A h \in held : <<"grant", h[1], h[2]>> \in ev,
           \A g, h \in held : g[1] = h[1] => g = h,
           \A u \in us : (\E h \in held : h[1] = u) \/ <<"role", u, None>> \in ev
    PROVE  Sound(q, Tail(td), [sn EXCEPT !.users = us, !.held = held], fd, ev)
<1> DEFINE s2 == [sn EXCEPT !.users = us, !.held = held]
<1>0. Shape(q, td) /\ sn \in Holding /\ q.kind \in {"access", "profile", "indexed"}
  BY KindsOf DEF Sound, KindsWith
<1>1. Shape(q, Tail(td))  BY TailOf DEF Sound
<1>2. s2 \in Holding /\ s2.company = sn.company /\ s2.listed = sn.listed /\ s2.row = sn.row
      /\ s2.users = us /\ s2.held = held /\ s2.grant = sn.grant
  BY <1>0 DEF Holding
<1> HIDE DEF s2
<1>3. \A y \in Keeping : Did(q, Tail(td), y) => Did(q, td, y)  BY <1>0, TailOf DEF Keeping
<1>4. Known(q, Tail(td), s2, ev)
  BY <1>0, <1>2, <1>3 DEF Sound, Known, Keeping
<1>5. Granted(q, Tail(td), s2, ev)
  <2>2. "eachGroup" \notin Steps(Tail(td))  BY <1>0, TailOnce
  <2> QED  BY <1>2, <2>2 DEF Granted
<1>6. Barred(q, Tail(td), s2, ev)
  BY <1>0, <1>2, BarredStays DEF Sound, Checking
<1>7. Secret(q, Tail(td), s2, fd)
  BY <1>0, <1>2, SecretStays DEF Sound
<1>10. Ready(Tail(td), s2)  BY <1>0, ReadyTail DEF Sound
<1> QED  BY <1>0, <1>1, <1>2, <1>4, <1>5, <1>6, <1>7, <1>10 DEF Sound, s2

LEMMA OwnHomeOn ==
    ASSUME NEW q, NEW td, NEW sn, NEW fd, NEW ev, Sound(q, td, sn, fd, ev), td # <<>>,
           Head(td) = "home", Mine(q, q.target)
    PROVE  Sound(q, Tail(td), sn, fd, ev)
<1>0. Shape(q, td) /\ sn \in Holding /\ q.kind = "roster"  BY KindsOf DEF Sound, KindsWith
<1>1. Shape(q, Tail(td))  BY TailOf DEF Sound
<1>2. Known(q, Tail(td), sn, ev)  BY KnownStays DEF Sound, Keeping
<1>3. Granted(q, Tail(td), sn, ev)  BY GrantedStays DEF Sound
<1>4. Barred(q, Tail(td), sn, ev)
  <2>1. \A y \in Checking \ {"home"} : Did(q, Tail(td), y) => Did(q, td, y)
    BY <1>0, TailOf
  <2>2. "grant" \notin Steps(Tail(td)) => "grant" \notin Steps(td)
    BY <1>0, TailOf
  <2>3. "group" \notin Steps(Tail(td)) => "group" \notin Steps(td)
    BY <1>0, TailOf
  <2> QED  BY <2>1, <2>2, <2>3 DEF Sound, Barred, Checking
<1>5. Secret(q, Tail(td), sn, fd)  BY SecretStays DEF Sound
<1>7. Ready(Tail(td), sn)  BY <1>0, ReadyTail DEF Sound
<1> QED  BY <1>0, <1>1, <1>2, <1>3, <1>4, <1>5, <1>7 DEF Sound

\* getCompanyAndUserDetails leaves out the rest: for a foreign caller, who is shown
\* the profile, and when there are no users.
LEMMA JumpOn ==
    ASSUME NEW q, NEW td, NEW sn, NEW fd, NEW ev, Sound(q, td, sn, fd, ev), td # <<>>,
           q.kind = "roster", Head(td) \in {"home", "users"},
           NEW rest \in {<<>>, <<"show">>},
           rest # <<>> => ~Mine(q, q.target),
           NEW us \in SUBSET Users, us = {} \/ ~Mine(q, q.target)
    PROVE  Sound(q, rest, [sn EXCEPT !.users = us], fd, ev)
<1> DEFINE s2 == [sn EXCEPT !.users = us]
<1>0. Shape(q, td) /\ sn \in Holding  BY DEF Sound
<1>2. s2 \in Holding /\ s2.company = sn.company /\ s2.listed = sn.listed /\ s2.row = sn.row
      /\ s2.users = us /\ s2.held = sn.held /\ s2.grant = sn.grant
  BY <1>0 DEF Holding
<1> HIDE DEF s2
<1>3. rest \in Seq(AllSteps) /\ DOMAIN rest \subseteq {1} /\ \A i \in DOMAIN rest : rest[i] = "show"
  <2>1. "show" \in AllSteps  BY DEF AllSteps
  <2>2. <<>> \in Seq(AllSteps) /\ DOMAIN <<>> = {}  OBVIOUS
  <2>3. <<"show">> \in Seq(AllSteps) /\ DOMAIN <<"show">> = {1} /\ <<"show">>[1] = "show"  BY <2>1
  <2> QED  BY <2>2, <2>3
<1>4. Steps(rest) \subseteq IF Mine(q, q.target) THEN {} ELSE {"show"}
  <2>1. rest = <<>> => DOMAIN rest = {}  OBVIOUS
  <2> QED  BY <1>3, <2>1 DEF Steps
<1>1. Shape(q, rest)
  <2>1. InOrder(rest)  BY <1>3 DEF InOrder
  <2>2. \A i \in DOMAIN rest : rest[i] = "eachGroup" => i = 1  BY <1>3
  <2>3. Base(q.kind) = {"company", "home", "mapping", "users", "eachGrant"}  BY DEF Base
  <2> QED  BY <1>0, <1>3, <1>4, <2>1, <2>2, <2>3 DEF Shape
<1>5. Did(q, td, "company")
  <2>1. "company" \in Base(q.kind) /\ Rank("company") = 1 /\ Rank("home") = 2 /\ Rank("users") = 4
    BY DEF Base, Rank
  <2> QED  BY <1>0, <2>1, Earlier
<1>6. \A y \in Keeping : Did(q, rest, y) => y \in {"company", "users"}
  BY DEF Did, Base, Keeping
<1>7. Known(q, rest, s2, ev)
  BY <1>2, <1>5, <1>6 DEF Sound, Known, Keeping
<1>8. Granted(q, rest, s2, ev)
  <2>1. ~Did(q, rest, "grants")  BY DEF Did, Base
  <2> QED  BY <1>4, <2>1 DEF Granted
<1>9. Barred(q, rest, s2, ev)
  <2>1. \A y \in {"match", "itsCompany", "party", "partner"} : ~Did(q, rest, y)  BY DEF Did, Base
  <2>2. "grant" \notin Steps(td) /\ "group" \notin Steps(td)  BY <1>0, Permitted DEF Late
  <2>3. Asks(q) => /\ sn.grant \in Groups /\ <<"grant", q.caller.user, sn.grant>> \in ev
                   /\ <<"reader", q.caller.user>> \in ev \/ Swapped(ev, q.caller.user)
    BY <2>2 DEF Sound, Barred
  <2> QED  BY <1>2, <2>1, <2>3 DEF Barred
<1>10. Secret(q, rest, s2, fd)  BY DEF Sound, Secret
<1>11. Ready(rest, s2)  BY <1>3 DEF Ready
<1> QED  BY <1>1, <1>2, <1>7, <1>8, <1>9, <1>10, <1>11 DEF Sound, s2

-----------------------------------------------------------------------------
(* getCompanyAndUserDetails, user by user.                                 *)

\* What comes after the grants of the users.
LEMMA AtEachGrant ==
    ASSUME NEW q, NEW td, NEW sn, NEW fd, NEW ev, Sound(q, td, sn, fd, ev), td # <<>>,
           Head(td) \in {"eachGrant", "eachGroup"}
    PROVE  /\ q.kind = "roster" /\ Mine(q, q.target) /\ There(ev, q.target)
           /\ Head(td) = "eachGrant" =>
                /\ "eachGroup" \notin Steps(td)
                /\ "grant" \notin Steps(td) /\ "group" \notin Steps(td)
                /\ \A x \in Steps(td) : Rank(x) > 4
                /\ \A u \in sn.users : HomeOf[u] = q.target /\ <<"user", u, q.target>> \in ev
<1>0. Shape(q, td) /\ q.kind = "roster"  BY KindsOf DEF Sound, KindsWith
<1>1. {"company", "home", "users"} \subseteq Base(q.kind)  BY <1>0 DEF Base
<1>2. Rank("company") = 1 /\ Rank("home") = 2 /\ Rank("users") = 4 /\ Rank("eachGrant") = 5
      /\ Rank("eachGroup") = 4
  BY DEF Rank
<1>3. Did(q, td, "company") /\ Did(q, td, "home")  BY <1>0, <1>1, <1>2, Earlier
<1>4. Mine(q, q.target)
  <2>1. td # <<"show">> /\ td # <<>>  OBVIOUS
  <2> QED  BY <1>3, <2>1 DEF Sound, Barred
<1>5. There(ev, q.target)  BY <1>0, <1>3 DEF Sound, Known, CompanyOf, There
<1>6. ASSUME Head(td) = "eachGrant"
      PROVE  /\ "eachGroup" \notin Steps(td)
             /\ "grant" \notin Steps(td) /\ "group" \notin Steps(td)
             /\ \A x \in Steps(td) : Rank(x) > 4
             /\ \A u \in sn.users : HomeOf[u] = q.target /\ <<"user", u, q.target>> \in ev
  <2>1. td \in Seq(AllSteps) /\ Len(td) \in Nat \ {0} /\ Head(td) = td[1]
        /\ DOMAIN td = 1 .. Len(td)
    BY <1>0 DEF Shape
  <2>2. "eachGroup" \notin Steps(td)  BY <1>0, <1>6, <2>1 DEF Shape, Steps
  <2>3. "grant" \notin Steps(td) /\ "group" \notin Steps(td)  BY <1>0, <1>6, Permitted DEF Late
  <2>4. ASSUME NEW i \in DOMAIN td PROVE Rank(td[i]) > 4
    <3>1. CASE i = 1  BY <1>6, <1>2, <2>1, <3>1
    <3>2. CASE i > 1
      <4>1. 1 \in DOMAIN td /\ 1 < i /\ td[i] \notin {"grant", "group"}
        BY <2>1, <2>3, <3>2 DEF Steps
      <4>2. Rank(td[1]) < Rank(td[i])
        BY <1>0, <1>6, <2>1, <4>1 DEF Shape, InOrder, MayPrecede
      <4>3. Rank(td[i]) \in Int  BY DEF Rank
      <4> QED  BY <1>2, <1>6, <2>1, <4>2, <4>3
    <3> QED  BY <2>1, <3>1, <3>2
  <2>5. Did(q, td, "users")  BY <1>0, <1>1, <1>2, <1>6, Earlier
  <2>6. \A u \in sn.users : HomeOf[u] = q.target /\ <<"user", u, q.target>> \in ev
    BY <1>0, <1>4, <2>5 DEF Sound, Known
  <2>7. \A x \in Steps(td) : Rank(x) > 4  BY <2>4 DEF Steps
  <2> QED  BY <2>2, <2>3, <2>6, <2>7
<1> QED  BY <1>0, <1>4, <1>5, <1>6

\* One user less to look up.
LEMMA EachGrantOn ==
    ASSUME NEW q, NEW td, NEW sn, NEW fd, NEW ev, Sound(q, td, sn, fd, ev), td # <<>>,
           Head(td) = "eachGrant", NEW rest \in {td, Tail(td)},
           NEW us \in SUBSET sn.users, NEW held \in SUBSET (Users \X Groups)
    PROVE  Sound(q, rest, [sn EXCEPT !.users = us, !.held = held], fd, ev)
<1> DEFINE s2 == [sn EXCEPT !.users = us, !.held = held]
<1>0. Shape(q, td) /\ sn \in Holding  BY DEF Sound
<1>2. s2 \in Holding /\ s2.company = sn.company /\ s2.listed = sn.listed /\ s2.row = sn.row
      /\ s2.users = us /\ s2.held = held /\ s2.grant = sn.grant
  BY <1>0 DEF Holding
<1> HIDE DEF s2
<1>3. /\ q.kind = "roster" /\ Mine(q, q.target)
      /\ "eachGroup" \notin Steps(td) /\ "grant" \notin Steps(td) /\ "group" \notin Steps(td)
  BY AtEachGrant
<1>1. Shape(q, rest)  BY <1>0, TailOf
<1>4. Steps(rest) \subseteq Steps(td)  BY <1>0, TailOf
<1>5. \A y \in Keeping : Did(q, rest, y) => Did(q, td, y)
  BY <1>0, TailOf DEF Keeping
<1>7. Known(q, rest, s2, ev)
  BY <1>2, <1>3, <1>5 DEF Sound, Known, Keeping
<1>8. Granted(q, rest, s2, ev)
  <2>1. ~Did(q, rest, "grants")  BY <1>3 DEF Did, Base
  <2> QED  BY <1>3, <1>4, <2>1 DEF Granted
<1>9. Barred(q, rest, s2, ev)
  <2>1. \A y \in {"match", "itsCompany", "party", "partner"} : ~Did(q, rest, y)
    BY <1>3 DEF Did, Base
  <2>3. Asks(q) => /\ sn.grant \in Groups /\ <<"grant", q.caller.user, sn.grant>> \in ev
                   /\ <<"reader", q.caller.user>> \in ev \/ Swapped(ev, q.caller.user)
    BY <1>3 DEF Sound, Barred
  <2> QED  BY <1>2, <1>3, <2>1, <2>3 DEF Barred
<1>10. Secret(q, rest, s2, fd)  BY <1>3 DEF Sound, Secret
<1>11. Ready(rest, s2)
  BY <1>0, <1>3, <1>4 DEF Ready, Steps
<1> QED  BY <1>1, <1>2, <1>7, <1>8, <1>9, <1>10, <1>11 DEF Sound, s2

\* And the role of that user to look up before the others.
LEMMA RoleNext ==
    ASSUME NEW q, NEW td, NEW sn, NEW fd, NEW ev, Sound(q, td, sn, fd, ev),
           q.kind = "roster", Mine(q, q.target),
           "grant" \notin Steps(td), "group" \notin Steps(td), "eachGroup" \notin Steps(td),
           \A x \in Steps(td) : Rank(x) > 4,
           sn.held # {}, \A g, h \in sn.held : g = h,
           \A h \in sn.held : /\ <<"grant", h[1], h[2]>> \in ev
                              /\ HomeOf[h[1]] = q.target /\ <<"user", h[1], q.target>> \in ev
    PROVE  Sound(q, <<"eachGroup">> \o td, sn, fd, ev)
<1> DEFINE s1 == <<"eachGroup">>
           t2 == s1 \o td
<1>0. Shape(q, td) /\ sn \in Holding /\ td \in Seq(AllSteps)  BY DEF Sound, Shape
<1>1. "eachGroup" \in AllSteps  BY DEF AllSteps
<1>2. s1 \in Seq(AllSteps)  BY <1>1
<1>2a. Len(s1) = 1 /\ s1[1] = "eachGroup" /\ DOMAIN s1 = {1}  OBVIOUS
<1> HIDE DEF s1
<1>3. t2 \in Seq(AllSteps) /\ Len(t2) = 1 + Len(td) /\ Len(td) \in Nat
  <2>1. t2 \in Seq(AllSteps) /\ Len(t2) = Len(s1) + Len(td) /\ Len(td) \in Nat  BY <1>0, <1>2
  <2> HIDE DEF t2
  <2> QED  BY <1>2a, <2>1
<1>4. \A i \in 1 .. 1 + Len(td) : t2[i] = IF i = 1 THEN "eachGroup" ELSE td[i - 1]
  <2>1. \A i \in 1 .. Len(s1) + Len(td) : t2[i] = IF i <= Len(s1) THEN s1[i] ELSE td[i - Len(s1)]
    BY <1>0, <1>2
  <2> HIDE DEF t2
  <2> QED  BY <1>2a, <1>3, <2>1
<1>5. Steps(t2) = {"eachGroup"} \cup Steps(td)
  <2>1. Steps(s1) = {"eachGroup"}  BY <1>2a DEF Steps
  <2> QED  BY <1>0, <1>2, <2>1, ConcatSteps
<1> HIDE DEF t2
<1>6. DOMAIN t2 = 1 .. 1 + Len(td) /\ DOMAIN td = 1 .. Len(td)  BY <1>0, <1>3
<1>7. InOrder(t2)
  <2> SUFFICES ASSUME NEW i \in 1 .. 1 + Len(td), NEW j \in 1 .. 1 + Len(td), i < j
               PROVE  MayPrecede(t2[i], t2[j])
    BY <1>6 DEF InOrder
  <2>1. j - 1 \in 1 .. Len(td) /\ t2[j] = td[j - 1]  BY <1>3, <1>4
  <2>2. CASE i = 1
    <3>1. t2[i] = "eachGroup" /\ Rank("eachGroup") = 4  BY <2>2, <1>4 DEF Rank
    <3>2. td[j - 1] \in Steps(td)  BY <1>6, <2>1 DEF Steps
    <3>3. td[j - 1] \notin {"grant", "group"} /\ Rank(td[j - 1]) > 4 /\ Rank(td[j - 1]) \in Int
      BY <3>2 DEF Rank
    <3> QED  BY <2>1, <3>1, <3>3 DEF MayPrecede
  <2>3. CASE i > 1
    <3>1. i - 1 \in 1 .. Len(td) /\ t2[i] = td[i - 1] /\ i - 1 < j - 1  BY <2>3, <1>3, <1>4
    <3> QED  BY <1>0, <1>6, <2>1, <3>1 DEF Shape, InOrder
  <2> QED  BY <2>2, <2>3
<1>8. \A i \in DOMAIN t2 : t2[i] = "eachGroup" => i = 1
  <2> SUFFICES ASSUME NEW i \in 1 .. 1 + Len(td), i > 1, t2[i] = "eachGroup" PROVE FALSE
    BY <1>6
  <2>1. i - 1 \in DOMAIN td /\ t2[i] = td[i - 1]  BY <1>3, <1>4, <1>6
  <2> QED  BY <2>1 DEF Steps
<1>9. Base(q.kind) = {"company", "home", "mapping", "users", "eachGrant"}  BY DEF Base
<1>10. Shape(q, t2)
  <2>1. \A y \in Base(q.kind) \ Steps(t2), z \in Steps(t2) \cap Base(q.kind) : Rank(y) < Rank(z)
    BY <1>0, <1>5, <1>9 DEF Shape
  <2>2. Steps(t2) \subseteq Base(q.kind) \cup (IF Asks(q) THEN {"grant", "group"} ELSE {})
          \cup {"eachGroup"} \cup (IF q.kind = "roster" /\ ~Mine(q, q.target) THEN {"show"} ELSE {})
    BY <1>0, <1>5 DEF Shape
  <2> QED  BY <1>0, <1>3, <1>7, <1>8, <2>1, <2>2 DEF Shape
<1>11. \A y : Did(q, t2, y) <=> Did(q, td, y)
  BY <1>5, <1>9 DEF Did
<1>12. Known(q, t2, sn, ev)  BY <1>11 DEF Sound, Known
<1>13. Granted(q, t2, sn, ev)
  <2>1. ~Did(q, t2, "grants")  BY <1>9 DEF Did
  <2> QED  BY <2>1 DEF Granted
<1>14. Barred(q, t2, sn, ev)  BY <1>5, <1>11 DEF Sound, Barred
<1>15. Secret(q, t2, sn, fd)  BY DEF Sound, Secret
<1>16. Ready(t2, sn)
  <2>1. "group" \notin Steps(t2)  BY <1>5
  <2> QED  BY <2>1 DEF Ready, Steps
<1> QED  BY <1>0, <1>10, <1>12, <1>13, <1>14, <1>15, <1>16 DEF Sound, t2, s1

LEMMA EachGroupOn ==
    ASSUME NEW q, NEW td, NEW sn, NEW fd, NEW ev, Sound(q, td, sn, fd, ev), td # <<>>,
           Head(td) = "eachGroup",
           NEW facts, Secret(q, Tail(td), sn, facts), True(q, ev, facts)
    PROVE  Sound(q, Tail(td), [sn EXCEPT !.held = {}], fd \cup facts, ev)
<1> DEFINE s2 == [sn EXCEPT !.held = {}]
<1>0. Shape(q, td) /\ sn \in Holding /\ q.kind = "roster"  BY KindsOf DEF Sound, KindsWith
<1>2. s2 \in Holding /\ s2.company = sn.company /\ s2.listed = sn.listed /\ s2.row = sn.row
      /\ s2.users = sn.users /\ s2.held = {} /\ s2.grant = sn.grant
  BY <1>0 DEF Holding
<1> HIDE DEF s2
<1>1. Shape(q, Tail(td))  BY <1>0, TailOf
<1>4. Known(q, Tail(td), s2, ev)  BY <1>0, <1>2, KnownStays DEF Sound, Keeping
<1>5. Granted(q, Tail(td), s2, ev)
  <2>1. ~Did(q, Tail(td), "grants")  BY <1>0 DEF Did, Base
  <2>2. "eachGroup" \notin Steps(Tail(td))  BY <1>0, TailOnce
  <2> QED  BY <2>1, <2>2 DEF Granted
<1>6. Barred(q, Tail(td), s2, ev)  BY <1>0, <1>2, BarredStays DEF Sound, Checking
<1>7. Secret(q, Tail(td), s2, fd)  BY <1>0, <1>2, SecretStays DEF Sound
<1>8. Secret(q, Tail(td), s2, facts)  BY <1>0 DEF Secret
<1>9. Secret(q, Tail(td), s2, fd \cup facts) /\ True(q, ev, fd \cup facts)
  BY <1>7, <1>8, SecretAdd, TrueAdd DEF Sound
<1>10. Ready(Tail(td), s2)  BY <1>0, ReadyTail DEF Sound
<1> QED  BY <1>1, <1>2, <1>4, <1>5, <1>6, <1>9, <1>10 DEF Sound, s2

-----------------------------------------------------------------------------
(* The invariant.                                                          *)

Tables ==
    /\ companies \subseteq Companies /\ certified \subseteq Companies
    /\ category \in [Companies -> Categories \cup {None}]
    /\ employer \in [Users -> Companies \cup {None}]
    /\ grants \in [Users -> Groups \cup {None}]
    /\ groups \in [Groups -> Group \cup {None}]
    /\ sites \in [Factories -> Companies \cup {None}]
    /\ assets \in [Assets -> Asset \cup {None}]
    /\ changes \in 0 .. MaxChanges

\* Neither a user nor a factory changes its company.
Settled ==
    /\ \A u \in Users : employer[u] \in {HomeOf[u], None}
    /\ \A f \in Factories : sites[f] \in {HomeOf[f], None}
Recorded ==
    pc = "running" => /\ Truth \subseteq ever
                      /\ \A c : <<"company", c>> \in ever => <<"record", c>> \in ever
Underway == pc = "running" => todo # <<>> /\ Sound(call, todo, seen, found, ever)
Answered == pc = "answered" =>
    found = {} \/ \E sn \in Holding : Sound(call, <<>>, sn, found, ever)
Between ==
    /\ pc \in {"idle", "running", "answered", "refused", "failed"}
    /\ pc # "running" => todo = <<>> /\ seen \in Holding
    /\ pc = "idle" => seen = Nothing /\ found = {}
DirInv == Tables /\ Settled /\ Recorded /\ Underway /\ Answered /\ Between

\* What is true.
LEMMA TruthHas ==
    /\ \A c \in companies : <<"company", c>> \in Truth /\ <<"record", c>> \in Truth
    /\ \A c \in Companies : category[c] # None => <<"category", c, category[c]>> \in Truth
    /\ \A c \in certified : <<"certified", c>> \in Truth
    /\ \A u \in Users : employer[u] # None => <<"user", u, employer[u]>> \in Truth
    /\ \A u \in Users : <<"grant", u, grants[u]>> \in Truth /\ <<"role", u, RoleOf(u)>> \in Truth
    /\ \A u \in Users : Reads(u) => <<"reader", u>> \in Truth
    /\ \A g \in Groups : groups[g] # None => <<"group", g, groups[g]>> \in Truth
    /\ \A f \in Factories : sites[f] # None =>
         <<"factory", f, sites[f]>> \in Truth /\ <<"site", f, sites[f]>> \in Truth
    /\ \A a \in Assets : assets[a] # None =>
         <<"asset", a, assets[a]>> \in Truth /\ <<"stands", a, assets[a].site>> \in Truth
<1>1. \A c \in companies : <<"company", c>> \in Truth /\ <<"record", c>> \in Truth  BY DEF Truth
<1>2. \A c \in Companies : category[c] # None => <<"category", c, category[c]>> \in Truth
  BY DEF Truth
<1>3. \A c \in certified : <<"certified", c>> \in Truth  BY DEF Truth
<1>4. \A u \in Users : employer[u] # None => <<"user", u, employer[u]>> \in Truth  BY DEF Truth
<1>5. \A u \in Users : <<"grant", u, grants[u]>> \in Truth  BY DEF Truth
<1>6. \A u \in Users : <<"role", u, RoleOf(u)>> \in Truth  BY DEF Truth
<1>7. \A u \in Users : Reads(u) => <<"reader", u>> \in Truth  BY DEF Truth
<1>8. \A g \in Groups : groups[g] # None => <<"group", g, groups[g]>> \in Truth  BY DEF Truth
<1>9. \A f \in Factories : sites[f] # None =>
         <<"factory", f, sites[f]>> \in Truth /\ <<"site", f, sites[f]>> \in Truth  BY DEF Truth
<1>10. \A a \in Assets : assets[a] # None =>
         <<"asset", a, assets[a]>> \in Truth /\ <<"stands", a, assets[a].site>> \in Truth
           BY DEF Truth
<1> QED  BY <1>1, <1>2, <1>3, <1>4, <1>5, <1>6, <1>7, <1>8, <1>9, <1>10

\* The only facts of companies in Truth come in pairs.
LEMMA TruthOfCompanies ==
    \A c : <<"company", c>> \in Truth => c \in companies
BY DEF Truth

\* What a query is asked about.
LEMMA Typed ==
    ASSUME NEW q, NEW td, Shape(q, td)
    PROVE  /\ q.kind \in {"details", "record", "roster", "owners", "category", "groups",
                          "users", "access", "factories", "made", "owned"} =>
                q.target \in Companies /\ CompanyOf(q) = q.target
           /\ q.kind \in {"listed", "page"} => q.target \in Listed
           /\ q.kind \in {"taken", "pair"} =>
                q.target[1] \in Companies /\ q.target[2] \in Companies /\ CompanyOf(q) = q.target[1]
           /\ q.kind = "namedGroup" => q.target[1] \in Companies /\ CompanyOf(q) = q.target[1]
           /\ q.kind = "group" => q.target \in Groups
           /\ q.kind \in {"user", "grant"} => q.target \in Users /\ UserOf(q) = q.target
           /\ q.kind \in {"profile", "indexed"} =>
                /\ q.target[1] \in Companies /\ CompanyOf(q) = q.target[1]
                /\ q.target[2] \in Users /\ UserOf(q) = q.target[2]
           /\ q.kind \in SiteKinds => q.target \in Factories
           /\ q.kind \in {"asset", "maker", "owner", "location"} => q.target \in Assets
           /\ IsUser(q.caller) => q.caller.user \in Users
<1>1. q.target \in Targets(q.kind) /\ q.caller \in Callers  BY DEF Shape
<1>2. IsUser(q.caller) => q.caller.user \in Users
  BY <1>1 DEF Callers, IsUser
<1> QED  BY <1>1, <1>2 DEF Targets, CompanyOf, UserOf, SiteKinds

\* The names of the model for the query, and those of its parts.
LEMMA QueryNames ==
    /\ Kind = call.kind /\ Caller = call.caller /\ Target = call.target
    /\ Asked = CompanyOf(call) /\ AskedUser = UserOf(call)
    /\ \A c : IsOwn(c) <=> Mine(call, c)
BY DEF Kind, Caller, Target, Asked, AskedUser, IsOwn, Mine, CompanyOf, UserOf

\* A read leaves the query in a sound state.
Kept == Underway' /\ Answered' /\ Between' /\ UNCHANGED World

\* A step that goes on from a sound query to a sound query.
LEMMA Proceeds ==
    ASSUME DirInv, pc = "running", NEW rest, NEW holds, Proceed(rest, holds), UNCHANGED World,
           holds \in Holding,
           \E sn \in Holding : (rest # <<>> => sn = holds) /\ Sound(call, rest, sn, found', ever)
    PROVE  Kept
<1>0. PICK sn \in Holding : (rest # <<>> => sn = holds) /\ Sound(call, rest, sn, found', ever)
  OBVIOUS
<1>1. call' = call /\ ever' = ever  BY DEF World
<1>2. CASE rest = <<>>
  <2>1. pc' = "answered" /\ todo' = <<>> /\ seen' = [Nothing EXCEPT !.silent = holds.silent]
    BY <1>2 DEF Proceed, Ends
  <2>2. seen' \in Holding  BY <2>1 DEF Nothing, Holding
  <2> QED  BY <1>0, <1>1, <1>2, <2>1, <2>2 DEF Kept, Underway, Answered, Between
<1>3. CASE rest # <<>>
  <2>1. pc' = pc /\ todo' = rest /\ seen' = holds  BY <1>3 DEF Proceed
  <2> QED  BY <1>0, <1>1, <1>3, <2>1 DEF Kept, Underway, Answered, Between
<1> QED  BY <1>2, <1>3

LEMMA Reading ==
    ASSUME DirInv, pc = "running", NEW facts, NEW holds, Read(facts, holds),
           Sound(call, Tail(todo), holds, found \cup facts, ever)
    PROVE  Kept
<1>1. holds \in Holding /\ found' = found \cup facts  BY DEF Sound, Read
<1>2. Proceed(Tail(todo), holds) /\ UNCHANGED World  BY DEF Read
<1> QED  BY <1>1, <1>2, Proceeds

\* Nothing is known of an answer without facts.
LEMMA Ending ==
    ASSUME DirInv, pc = "running", Empty \/ Refuse \/ StatementFails
    PROVE  Kept
<1>1. seen.silent \in BOOLEAN  BY DEF DirInv, Underway, Sound, Holding
<1> QED  BY <1>1 DEF Empty, Refuse, StatementFails, Ends, Kept, Underway, Answered, Between,
               Nothing, Holding

-----------------------------------------------------------------------------
(* The steps of AccessControlService keep it.                              *)

\* What is known when a step is next.
LEMMA Here ==
    ASSUME DirInv, NEW x, At(x)
    PROVE  /\ pc = "running" /\ todo # <<>> /\ Head(todo) = x
           /\ Sound(call, todo, seen, found, ever) /\ Shape(call, todo) /\ seen \in Holding
           /\ Truth \subseteq ever /\ Tables /\ Settled
           /\ call.kind \in KindsWith(x) /\ call.kind \in AllKinds
BY KindsOf DEF DirInv, At, Underway, Recorded, Sound

\* A check keeps nothing.
LEMMA NoFacts == \A S : S \cup {} = S
OBVIOUS

LEMMA MatchKept == ASSUME DirInv, Match PROVE Kept
<1>1. At("match")  BY DEF Match
<1>2. /\ todo # <<>> /\ Head(todo) = "match" /\ pc = "running"
      /\ Sound(call, todo, seen, found, ever)
  BY <1>1, Here
<1>3. CASE Mine(call, Subject(call, seen))
  <2>1. Read({}, seen)  BY <1>3, QueryNames DEF Match, Subject, SiteKinds
  <2>2. Sound(call, Tail(todo), seen, found, ever)  BY <1>2, <1>3, MatchOn
  <2> QED  BY <1>2, <2>1, <2>2, NoFacts, Reading
<1>4. CASE ~Mine(call, Subject(call, seen))
  <2>1. Refuse  BY <1>4, QueryNames DEF Match, Subject, SiteKinds
  <2> QED  BY <1>2, <2>1, Ending
<1> QED  BY <1>3, <1>4

LEMMA FindGrantKept == ASSUME DirInv, FindGrant PROVE Kept
<1>1. At("grant")  BY DEF FindGrant
<1>2. /\ todo # <<>> /\ Head(todo) = "grant" /\ pc = "running"
      /\ Sound(call, todo, seen, found, ever) /\ Shape(call, todo) /\ Truth \subseteq ever /\ Tables
  BY <1>1, Here
<1> DEFINE u == call.caller.user
<1>3. u \in Users
  <2>1. IsUser(call.caller)  BY <1>2, KindsOf DEF Asks
  <2> QED  BY <1>2, <2>1, Typed
<1>4. CASE grants[u] # None
  <2>1. Read({}, [seen EXCEPT !.grant = grants[u]])  BY <1>4, QueryNames DEF FindGrant
  <2>2. grants[u] \in Groups /\ <<"grant", u, grants[u]>> \in ever
    BY <1>2, <1>3, <1>4, TruthHas DEF Tables
  <2>3. Sound(call, Tail(todo), [seen EXCEPT !.grant = grants[u]], found, ever)
    BY <1>2, <2>2, GrantOn
  <2> QED  BY <1>2, <2>1, <2>3, NoFacts, Reading
<1>5. CASE grants[u] = None
  <2>1. Refuse  BY <1>5, QueryNames DEF FindGrant
  <2> QED  BY <1>2, <2>1, Ending
<1> QED  BY <1>4, <1>5

\* Either the grant that was read is still there and its role allows it, or the grant has changed.
LEMMA FindGroupKept == ASSUME DirInv, FindGroup PROVE Kept
<1>1. At("group")  BY DEF FindGroup
<1>2. /\ todo # <<>> /\ Head(todo) = "group" /\ pc = "running"
      /\ Sound(call, todo, seen, found, ever) /\ Shape(call, todo) /\ Truth \subseteq ever /\ Tables
  BY <1>1, Here
<1> DEFINE u == call.caller.user
<1>0. Asks(call)  BY <1>2, KindsOf
<1>3. u \in Users  BY <1>0, <1>2, Typed DEF Asks
<1>6. seen.grant \in Groups /\ <<"grant", u, seen.grant>> \in ever
  <2>1. "grant" \notin Steps(todo)
    <3> SUFFICES ASSUME NEW i \in DOMAIN todo, todo[i] = "grant" PROVE FALSE
      BY DEF Steps
    <3>1. todo \in Seq(AllSteps) /\ DOMAIN todo = 1 .. Len(todo) /\ Head(todo) = todo[1]
          /\ Len(todo) \in Nat \ {0}
      BY <1>2 DEF Shape
    <3>2. 1 \in DOMAIN todo /\ 1 < i  BY <1>2, <3>1
    <3>3. MayPrecede("group", "grant")  BY <1>2, <3>1, <3>2 DEF Shape, InOrder
    <3> QED  BY <1>2, <3>3 DEF MayPrecede
  <2> QED  BY <1>0, <1>2, <2>1 DEF Sound, Barred
<1>4. CASE groups[seen.grant] # None /\ groups[seen.grant].reads
  <2>1. Read({}, seen)  BY <1>4 DEF FindGroup
  <2>2. <<"reader", u>> \in ever \/ Swapped(ever, u)
    <3>1. CASE grants[u] = seen.grant
      <4>1. Reads(u)
        <5>1. None \notin Groups  BY DirectoryAssumption
        <5> QED  BY <1>4, <1>6, <3>1, <5>1 DEF Reads
      <4> QED  BY <1>2, <1>3, <4>1, TruthHas
    <3>2. CASE grants[u] # seen.grant
      <4>1. <<"grant", u, grants[u]>> \in ever /\ grants[u] \in Groups \cup {None}
        BY <1>2, <1>3, TruthHas DEF Tables
      <4> QED  BY <1>6, <3>2, <4>1 DEF Swapped
    <3> QED  BY <3>1, <3>2
  <2>3. Sound(call, Tail(todo), seen, found, ever)  BY <1>2, <2>2, GroupOn
  <2> QED  BY <1>2, <2>1, <2>3, NoFacts, Reading
<1>5. CASE ~(groups[seen.grant] # None /\ groups[seen.grant].reads)
  <2>1. Refuse  BY <1>5 DEF FindGroup
  <2> QED  BY <1>2, <2>1, Ending
<1> QED  BY <1>4, <1>5

LEMMA OwnRecordKept == ASSUME DirInv, OwnRecord PROVE Kept
<1>1. At("itsCompany")  BY DEF OwnRecord
<1>2. /\ todo # <<>> /\ Head(todo) = "itsCompany" /\ pc = "running"
      /\ Sound(call, todo, seen, found, ever)
  BY <1>1, Here
<1>3. CASE Record(call, seen) \in companies /\ Mine(call, Record(call, seen))
  <2>1. Read({}, seen)  BY <1>3, QueryNames DEF OwnRecord, Record
  <2>2. Sound(call, Tail(todo), seen, found, ever)  BY <1>2, <1>3, ItsCompanyOn
  <2> QED  BY <1>2, <2>1, <2>2, NoFacts, Reading
<1>4. CASE ~(Record(call, seen) \in companies /\ Mine(call, Record(call, seen)))
  <2>1. Refuse  BY <1>4, QueryNames DEF OwnRecord, Record
  <2> QED  BY <1>2, <2>1, Ending
<1> QED  BY <1>3, <1>4

LEMMA PartyKept == ASSUME DirInv, Party PROVE Kept
<1>1. At("party")  BY DEF Party
<1>2. /\ todo # <<>> /\ Head(todo) = "party" /\ pc = "running"
      /\ Sound(call, todo, seen, found, ever) /\ Tables
  BY <1>1, Here
<1>3. CASE \E c \in companies : Mine(call, c) /\ c \in {seen.row.maker, seen.row.owner}
  <2>1. Read({}, seen)  BY <1>3, QueryNames DEF Party
  <2>2. PICK c \in Companies : Mine(call, c) /\ c \in {seen.row.maker, seen.row.owner}
    BY <1>2, <1>3 DEF Tables
  <2>3. Sound(call, Tail(todo), seen, found, ever)  BY <1>2, <2>2, PartyOn
  <2> QED  BY <1>2, <2>1, <2>3, NoFacts, Reading
<1>4. CASE ~\E c \in companies : Mine(call, c) /\ c \in {seen.row.maker, seen.row.owner}
  <2>1. Refuse  BY <1>4, QueryNames DEF Party
  <2> QED  BY <1>2, <2>1, Ending
<1> QED  BY <1>3, <1>4

LEMMA PartnerKept == ASSUME DirInv, Partner PROVE Kept
<1>1. At("partner")  BY DEF Partner
<1>2. /\ todo # <<>> /\ Head(todo) = "partner" /\ pc = "running"
      /\ Sound(call, todo, seen, found, ever) /\ Truth \subseteq ever /\ Tables
  BY <1>1, Here
<1>3. CASE call.target[2] \notin companies
  <2>1. Empty  BY <1>3, QueryNames DEF Partner
  <2> QED  BY <1>2, <2>1, Ending
<1>4. CASE /\ call.target[2] \in companies
           /\ \E c \in Companies : Mine(call, c) /\ c \in {call.target[1], call.target[2]}
  <2>1. Read({}, seen)  BY <1>4, QueryNames DEF Partner
  <2>2. <<"company", call.target[2]>> \in ever  BY <1>2, <1>4, TruthHas
  <2>3. Sound(call, Tail(todo), seen, found, ever)  BY <1>2, <1>4, <2>2, PartnerOn
  <2> QED  BY <1>2, <2>1, <2>3, NoFacts, Reading
<1>5. CASE /\ call.target[2] \in companies
           /\ ~\E c \in Companies : Mine(call, c) /\ c \in {call.target[1], call.target[2]}
  <2>1. Refuse  BY <1>5, QueryNames DEF Partner
  <2> QED  BY <1>2, <2>1, Ending
<1> QED  BY <1>3, <1>4, <1>5

LEMMA ChecksKept == ASSUME DirInv, Checks PROVE Kept
BY MatchKept, FindGrantKept, FindGroupKept, OwnRecordKept, PartyKept, PartnerKept DEF Checks

-----------------------------------------------------------------------------
(* The reads of companies keep it.                                         *)

\* Of what anybody may know nothing is a secret.
LEMMA PublicIsOpen ==
    ASSUME NEW q, NEW td, NEW sn, NEW facts, \A f \in facts : f[1] \in Public
    PROVE  Secret(q, td, sn, facts)
BY DEF Secret

LEMMA ToldIsTrue ==
    ASSUME NEW q, NEW ev, NEW facts, \A f \in facts : Told(q, ev, f)
    PROVE  True(q, ev, facts)
BY DEF True

\* A read that keeps nothing for later.
LEMMA PlainRead ==
    ASSUME DirInv, NEW x, At(x), x \notin Keeping \cup Checking \cup {"grants"},
           NEW facts, Read(facts, seen),
           Secret(call, Tail(todo), seen, facts), True(call, ever, facts)
    PROVE  Kept
<1>1. /\ todo # <<>> /\ Head(todo) = x /\ pc = "running"
      /\ Sound(call, todo, seen, found, ever) /\ seen \in Holding
  BY Here
<1>2. seen = [seen EXCEPT !.silent = seen.silent] /\ seen.silent \in BOOLEAN
  BY <1>1 DEF Holding
<1>3. Sound(call, Tail(todo), seen, found \cup facts, ever)
  BY <1>1, <1>2, ReadOn
<1> QED  BY <1>1, <1>3, Reading

\* What company a listed one is, by the time rows are shown.
LEMMA ShownBefore ==
    ASSUME DirInv, At("show")
    PROVE  \A c \in seen.listed :
             /\ There(ever, c)
             /\ call.kind \in {"details", "record", "roster"} => c = call.target
             /\ call.kind = "both" => \E k \in Wanted(call) : <<"category", c, k>> \in ever
             /\ call.kind = "factoryOwner" =>
                  c \in Companies /\ <<"site", call.target, c>> \in ever
             /\ call.kind \in {"maker", "owner"} =>
                  seen.row \in Asset /\ <<"asset", call.target, seen.row>> \in ever
             /\ call.kind = "maker" => c = seen.row.maker
             /\ call.kind = "owner" => c = seen.row.owner
             /\ call.kind = "roster" => ~Mine(call, call.target)
<1>1. /\ todo # <<>> /\ Head(todo) = "show" /\ Shape(call, todo)
      /\ Known(call, todo, seen, ever) /\ seen \in Holding
      /\ call.kind \in KindsWith("show")
  BY Here DEF Sound
<1>2. Rank("company") = 1 /\ Rank("mapped") = 1 /\ Rank("site") = 1 /\ Rank("asset") = 1
      /\ Rank("present") = 5 /\ Rank("show") = 6
  BY DEF Rank
<1>3. seen.listed \subseteq Companies /\ seen.company \in Companies \cup {None}  BY <1>1 DEF Holding
<1>4. CASE call.kind \in {"details", "record", "roster"}
  <2>1. "company" \in Base(call.kind)  BY <1>4 DEF Base
  <2>2. Did(call, todo, "company")  BY <1>1, <1>2, <2>1, Earlier
  <2>3. call.kind = "roster" => ~Mine(call, call.target)
    <3>1. "show" \in Steps(todo)  BY <1>1, TailOf
    <3> QED  BY <1>1, <3>1 DEF Shape, Base
  <2> QED  BY <1>1, <1>4, <2>2, <2>3 DEF Known, There, CompanyOf
<1>5. CASE call.kind = "both"
  <2>1. "present" \in Base(call.kind) /\ "mapped" \in Base(call.kind)  BY <1>5 DEF Base
  <2>2. Did(call, todo, "present") /\ Did(call, todo, "mapped")  BY <1>1, <1>2, <2>1, Earlier
  <2> QED  BY <1>1, <1>5, <2>2 DEF Known, There
<1>6. CASE call.kind = "factoryOwner"
  <2>1. "present" \in Base(call.kind) /\ "site" \in Base(call.kind)  BY <1>6 DEF Base
  <2>2. Did(call, todo, "present") /\ Did(call, todo, "site")  BY <1>1, <1>2, <2>1, Earlier
  <2> QED  BY <1>1, <1>3, <1>6, <2>2 DEF Known, There
<1>7. CASE call.kind \in {"maker", "owner"}
  <2>1. "present" \in Base(call.kind) /\ "asset" \in Base(call.kind)  BY <1>7 DEF Base
  <2>2. Did(call, todo, "present") /\ Did(call, todo, "asset")  BY <1>1, <1>2, <2>1, Earlier
  <2> QED  BY <1>1, <1>7, <2>2 DEF Known, There
<1> QED  BY <1>1, <1>4, <1>5, <1>6, <1>7 DEF KindsWith

LEMMA ShowKept == ASSUME DirInv, Show PROVE Kept
<1> DEFINE own == {c \in seen.listed : Mine(call, c) /\ call.kind # "both"}
           rest == seen.listed \ own
           facts == {<<"record", c>> : c \in own} \cup {<<"company", c>> : c \in rest}
                    \cup {<<"category", c, category[c]>> : c \in {c \in rest : category[c] # None}}
<1>1. At("show") /\ Read(facts, seen)  BY QueryNames, Zenon DEF Show
<1>2. /\ Truth \subseteq ever /\ seen \in Holding /\ call.kind \in KindsWith("show")
  BY <1>1, Here
<1>3. \A c \in seen.listed : There(ever, c) /\ <<"record", c>> \in ever /\ c \in Companies
  BY <1>1, <1>2, ShownBefore DEF DirInv, Recorded, At, There, Holding
<1>4. ASSUME NEW f \in facts
      PROVE  \E c \in seen.listed : /\ f \in ever
               /\ \/ call.kind # "both" /\ Mine(call, c) /\ f[1] = "record" /\ f[2] = c
                  \/ (call.kind = "both" \/ ~Mine(call, c)) /\ OfProfile(ever, f, c)
  <2>1. CASE \E c \in own : f = <<"record", c>>
    <3>1. PICK c \in own : f = <<"record", c>>  BY <2>1
    <3>2. c \in seen.listed /\ Mine(call, c) /\ call.kind # "both"  OBVIOUS
    <3> QED  BY <1>3, <3>1, <3>2
  <2>2. CASE \E c \in rest : f = <<"company", c>>
    <3>1. PICK c \in rest : f = <<"company", c>>  BY <2>2
    <3>2. c \in seen.listed /\ (call.kind = "both" \/ ~Mine(call, c))  OBVIOUS
    <3> QED  BY <1>3, <3>1, <3>2 DEF OfProfile, There
  <2>3. CASE \E c \in rest : category[c] # None /\ f = <<"category", c, category[c]>>
    <3>1. PICK c \in rest : category[c] # None /\ f = <<"category", c, category[c]>>  BY <2>3
    <3>2. c \in seen.listed /\ (call.kind = "both" \/ ~Mine(call, c))  OBVIOUS
    <3>3. f \in ever  BY <1>2, <1>3, <3>1, <3>2, TruthHas
    <3> QED  BY <1>3, <3>1, <3>2, <3>3 DEF OfProfile
  <2> QED  BY <2>1, <2>2, <2>3
<1> HIDE DEF facts
<1>5. Secret(call, Tail(todo), seen, facts)
  <2> SUFFICES ASSUME NEW f \in facts, f[1] \notin Public
               PROVE  /\ call.kind \notin Open
                      /\ \E c \in OwnersOf(f) : Mine(call, c)
    BY DEF Secret
  <2>1. PICK c \in seen.listed : call.kind # "both" /\ Mine(call, c) /\ f[1] = "record" /\ f[2] = c
    BY <1>4 DEF OfProfile, Public
  <2>2. OwnersOf(f) = {c}  BY <2>1 DEF OwnersOf
  <2> QED  BY <1>2, <2>1, <2>2 DEF KindsWith, Open
<1>6. True(call, ever, facts)
  <2> SUFFICES ASSUME NEW f \in facts PROVE Told(call, ever, f)
    BY ToldIsTrue
  <2>1. PICK c \in seen.listed : /\ f \in ever
               /\ \/ call.kind # "both" /\ Mine(call, c) /\ f[1] = "record" /\ f[2] = c
                  \/ (call.kind = "both" \/ ~Mine(call, c)) /\ OfProfile(ever, f, c)
    BY <1>4
  <2>2. call.kind # "both" => OfRow(call, ever, f, c)  BY <2>1 DEF OfRow
  <2>3. f[2] = c  BY <2>1 DEF OfProfile
  <2>4. CASE call.kind \in {"details", "record"}
    BY <1>1, <2>1, <2>2, <2>4, ShownBefore DEF Told
  <2>5. CASE call.kind = "roster"
    BY <1>1, <2>1, <2>5, ShownBefore DEF Told
  <2>6. CASE call.kind = "both"
    BY <1>1, <2>1, <2>3, <2>6, ShownBefore DEF Told
  <2>7. CASE call.kind = "factoryOwner"
    BY <1>1, <2>1, <2>2, <2>7, ShownBefore DEF Told
  <2>8. CASE call.kind = "maker"
    BY <1>1, <2>1, <2>2, <2>8, ShownBefore DEF Told
  <2>9. CASE call.kind = "owner"
    BY <1>1, <2>1, <2>2, <2>9, ShownBefore DEF Told
  <2> QED  BY <1>2, <2>4, <2>5, <2>6, <2>7, <2>8, <2>9 DEF KindsWith
<1> QED  BY <1>1, <1>5, <1>6, PlainRead DEF Keeping, Checking

LEMMA HomeKept == ASSUME DirInv, Home PROVE Kept
<1>1. At("home")  BY DEF Home
<1>2. /\ todo # <<>> /\ Head(todo) = "home" /\ pc = "running"
      /\ Sound(call, todo, seen, found, ever) /\ seen \in Holding /\ Shape(call, todo)
      /\ call.kind = "roster"
  BY <1>1, Here DEF KindsWith
<1>3. UNCHANGED <<World, found, seen, pc>>  BY DEF Home
<1>4. CompanyOf(call) = call.target  BY <1>2 DEF CompanyOf
<1>5. call' = call /\ ever' = ever  BY <1>3 DEF World
<1>6. CASE Mine(call, call.target)
  <2>1. todo' = Tail(todo)  BY <1>4, <1>6, QueryNames DEF Home
  <2>2. Sound(call, Tail(todo), seen, found, ever)  BY <1>2, <1>6, OwnHomeOn
  <2>3. Tail(todo) # <<>>
    <3>1. "mapping" \in Base(call.kind) /\ "home" \in Base(call.kind) /\ Rank("mapping") = 3
          /\ Rank("home") = 2
      BY <1>2 DEF Base, Rank
    <3>2. ~Did(call, todo, "mapping")  BY <1>2, <3>1, Later
    <3>3. "mapping" \in Steps(Tail(todo))  BY <1>2, <3>1, <3>2, TailOf DEF Did
    <3> QED  BY <3>3 DEF Steps
  <2> QED  BY <1>2, <1>3, <1>5, <2>1, <2>2, <2>3 DEF Kept, Underway, Answered, Between
<1>7. CASE ~Mine(call, call.target)
  <2>1. todo' = <<"show">>  BY <1>4, <1>7, QueryNames DEF Home
  <2>2. seen.users \in SUBSET Users /\ seen = [seen EXCEPT !.users = seen.users]
    BY <1>2 DEF Holding
  <2>5. Sound(call, <<"show">>, [seen EXCEPT !.users = seen.users], found, ever)
    BY <1>2, <1>7, <2>2, JumpOn
  <2>3. Sound(call, <<"show">>, seen, found, ever)  BY <2>2, <2>5, Zenon
  <2>4. <<"show">> # <<>>  OBVIOUS
  <2> QED  BY <1>2, <1>3, <1>5, <2>1, <2>3, <2>4 DEF Kept, Underway, Answered, Between
<1> QED  BY <1>6, <1>7

LEMMA FindCompanyKept == ASSUME DirInv, FindCompany PROVE Kept
<1> DEFINE c == CompanyOf(call)
<1>1. At("company")  BY DEF FindCompany
<1>2. /\ todo # <<>> /\ Head(todo) = "company" /\ pc = "running" /\ Tables
      /\ Sound(call, todo, seen, found, ever) /\ Truth \subseteq ever
  BY <1>1, Here
<1>3. CASE c \notin companies
  <2>1. Empty  BY <1>3, QueryNames DEF FindCompany
  <2> QED  BY <1>2, <2>1, Ending
<1>4. CASE c \in companies
  <2>1. Read({}, [seen EXCEPT !.company = c, !.listed = {c}])
    BY <1>4, QueryNames DEF FindCompany
  <2>2. c \in Companies /\ <<"company", c>> \in ever  BY <1>2, <1>4, TruthHas DEF Tables
  <2>3. Sound(call, Tail(todo), [seen EXCEPT !.company = c, !.listed = {c}], found, ever)
    BY <1>2, <2>2, CompanyOn
  <2> QED  BY <1>2, <2>1, <2>3, NoFacts, Reading
<1> QED  BY <1>3, <1>4

LEMMA FindMappingKept == ASSUME DirInv, FindMapping PROVE Kept
<1> DEFINE c == seen.company
           facts == (Truth \cap {<<"category", c, category[c]>>})
                    \cup (IF call.kind = "roster" THEN {<<"company", c>>} ELSE {})
<1>1. At("mapping") /\ (Empty \/ Read(facts, seen))  BY QueryNames DEF FindMapping
<1>2. /\ todo # <<>> /\ Head(todo) = "mapping" /\ pc = "running"
      /\ Known(call, todo, seen, ever) /\ Truth \subseteq ever
      /\ Shape(call, todo) /\ call.kind \in {"roster", "category", "indexed"}
  BY <1>1, Here DEF KindsWith, Sound
<1>3. CASE Empty  BY <1>2, <1>3, Ending
<1>4. CASE Read(facts, seen)
  <2>1. ASSUME NEW f \in facts
        PROVE  f[2] = c /\ ((f[1] = "category" /\ f \in ever)
                            \/ (call.kind = "roster" /\ f = <<"company", c>>))
    BY <1>2
  <2> HIDE DEF facts
  <2>2. Secret(call, Tail(todo), seen, facts)  BY <2>1, PublicIsOpen DEF Public
  <2>3. Rank("company") = 1 /\ Rank("user") = 1 /\ Rank("mapping") = 3  BY DEF Rank
  <2>4. CASE call.kind \in {"roster", "category"}
    <3>1. "company" \in Base(call.kind)  BY <2>4 DEF Base
    <3>2. Did(call, todo, "company")  BY <1>2, <2>3, <3>1, Earlier
    <3>3. c = call.target /\ There(ever, c)  BY <1>2, <2>4, <3>2 DEF Known, There, CompanyOf
    <3>4. \A f \in facts : Told(call, ever, f)
      <4>1. CASE call.kind = "roster"
        BY <2>1, <3>3, <4>1 DEF Told, OfProfile, There
      <4>2. CASE call.kind = "category"
        BY <2>1, <3>3, <4>2 DEF Told
      <4> QED  BY <2>4, <4>1, <4>2
    <3> QED  BY <1>1, <1>4, <2>2, <3>4, ToldIsTrue, PlainRead DEF Keeping, Checking
  <2>5. CASE call.kind = "indexed"
    <3>1. "user" \in Base(call.kind)  BY <2>5 DEF Base
    <3>2. Did(call, todo, "user")  BY <1>2, <2>3, <3>1, Earlier
    <3>3. <<"user", call.target[2], c>> \in ever  BY <1>2, <2>5, <3>2 DEF Known, UserOf
    <3>4. \A f \in facts : Told(call, ever, f)
      BY <2>1, <3>3, <2>5 DEF Told
    <3> QED  BY <1>1, <1>4, <2>2, <3>4, ToldIsTrue, PlainRead DEF Keeping, Checking
  <2> QED  BY <1>2, <2>4, <2>5
<1> QED  BY <1>1, <1>3, <1>4

LEMMA TakenKept == ASSUME DirInv, Taken PROVE Kept
<1> DEFINE c == IF Head(todo) = "name" THEN call.target[1] ELSE call.target[2]
           facts == {<<"company", c>>} \cap Truth
<1>1. (At("name") \/ At("number")) /\ Read(facts, seen)  BY QueryNames DEF Taken
<1>2. Truth \subseteq ever /\ call.kind = "taken"  BY <1>1, Here DEF KindsWith
<1>3. \A f \in facts : f[1] = "company" /\ f \in ever /\ f[2] \in {call.target[1], call.target[2]}
  BY <1>2
<1> HIDE DEF facts
<1>4. Secret(call, Tail(todo), seen, facts)  BY <1>3, PublicIsOpen DEF Public
<1>5. \A f \in facts : Told(call, ever, f)  BY <1>2, <1>3 DEF Told
<1> QED  BY <1>1, <1>4, <1>5, ToldIsTrue, PlainRead DEF Keeping, Checking

LEMMA FindAllKept == ASSUME DirInv, FindAll PROVE Kept
<1> DEFINE facts == {<<"company", c>> : c \in companies}
<1>1. At("every")  BY DEF FindAll
<1>2. /\ todo # <<>> /\ Head(todo) = "every" /\ pc = "running" /\ Tables
      /\ Sound(call, todo, seen, found, ever) /\ Truth \subseteq ever /\ call.kind = "all"
  BY <1>1, Here DEF KindsWith
<1>3. CASE Empty  BY <1>2, <1>3, Ending
<1>4. CASE Read(facts, [seen EXCEPT !.listed = companies])
  <2>1. \A f \in facts : f[1] = "company" /\ f \in ever /\ f[2] \in Companies /\ There(ever, f[2])
    <3>1. \A c \in companies : <<"company", c>> \in ever  BY <1>2, TruthHas
    <3> QED  BY <1>2, <3>1 DEF Tables, There
  <2>2. \A c \in companies : <<"company", c>> \in ever  BY <1>2, TruthHas
  <2> HIDE DEF facts
  <2>3. Secret(call, Tail(todo), [seen EXCEPT !.listed = companies], facts)
    BY <2>1, PublicIsOpen DEF Public
  <2>4. \A f \in facts : Told(call, ever, f)  BY <1>2, <2>1 DEF Told
  <2>5. True(call, ever, facts)  BY <2>4, ToldIsTrue
  <2>6. companies \in SUBSET Companies  BY <1>2 DEF Tables
  <2>7. Sound(call, Tail(todo), [seen EXCEPT !.listed = companies], found \cup facts, ever)
    BY <1>2, <2>2, <2>3, <2>5, <2>6, EveryOn
  <2> QED  BY <1>2, <1>4, <2>7, Reading
<1> QED  BY <1>3, <1>4 DEF FindAll

\* The companies listed so far.
LEMMA ListedAll ==
    ASSUME DirInv, NEW x \in {"mappings", "certificates"}, At(x)
    PROVE  call.kind = "all" /\ \A c \in seen.listed : c \in Companies /\ There(ever, c)
<1>2. /\ todo # <<>> /\ Head(todo) = x /\ Known(call, todo, seen, ever) /\ seen \in Holding
      /\ Shape(call, todo) /\ call.kind = "all"
  BY Here DEF KindsWith, Sound
<1>3. "every" \in Base(call.kind) /\ Rank("every") = 1 /\ Rank("mappings") = 3
      /\ Rank("certificates") = 4
  BY <1>2 DEF Base, Rank
<1>4. Did(call, todo, "every")  BY <1>2, <1>3, Earlier
<1> QED  BY <1>2, <1>4 DEF Known, There, Holding

LEMMA FindMappingsKept == ASSUME DirInv, FindMappings PROVE Kept
<1> DEFINE facts ==
      {<<"category", c, category[c]>> : c \in {c \in seen.listed : category[c] # None}}
<1>1. At("mappings") /\ Read(facts, seen)  BY DEF FindMappings
<1>2. call.kind = "all" /\ \A c \in seen.listed : c \in Companies /\ There(ever, c)
  BY <1>1, ListedAll
<1>3. Truth \subseteq ever  BY <1>1, Here
<1>4. \A f \in facts : f[1] = "category" /\ f \in ever /\ f[2] \in Companies /\ There(ever, f[2])
  BY <1>2, <1>3, TruthHas
<1> HIDE DEF facts
<1>5. Secret(call, Tail(todo), seen, facts)  BY <1>4, PublicIsOpen DEF Public
<1>6. \A f \in facts : Told(call, ever, f)  BY <1>2, <1>4 DEF Told
<1> QED  BY <1>1, <1>5, <1>6, ToldIsTrue, PlainRead DEF Keeping, Checking

LEMMA CertifyKept == ASSUME DirInv, Certify PROVE Kept
<1> DEFINE facts == {<<"certified", c>> : c \in seen.listed \cap certified}
<1>1. At("certificates") /\ (Read(facts, seen) \/ Read({}, [seen EXCEPT !.silent = TRUE]))
  BY DEF Certify
<1>2. call.kind = "all" /\ \A c \in seen.listed : c \in Companies /\ There(ever, c)
  BY <1>1, ListedAll
<1>3. /\ todo # <<>> /\ Head(todo) = "certificates" /\ pc = "running"
      /\ Sound(call, todo, seen, found, ever) /\ Truth \subseteq ever
  BY <1>1, Here
<1>4. \A f \in facts : f[1] = "certified" /\ f \in ever /\ f[2] \in Companies /\ There(ever, f[2])
  BY <1>2, <1>3, TruthHas
<1> HIDE DEF facts
<1>5. Secret(call, Tail(todo), seen, facts)  BY <1>4, PublicIsOpen DEF Public
<1>6. \A f \in facts : Told(call, ever, f)  BY <1>2, <1>4 DEF Told
<1>7. CASE Read(facts, seen)
  BY <1>1, <1>5, <1>6, <1>7, ToldIsTrue, PlainRead DEF Keeping, Checking
<1>8. CASE Read({}, [seen EXCEPT !.silent = TRUE])
  <2>1. \E b \in BOOLEAN : [seen EXCEPT !.silent = TRUE] = [seen EXCEPT !.silent = b]
    OBVIOUS
  <2>2. Sound(call, Tail(todo), [seen EXCEPT !.silent = TRUE], found \cup {}, ever)
    BY <1>3, <2>1, NothingSecret, ReadOn DEF Keeping, Checking
  <2> QED  BY <1>3, <1>8, <2>2, Reading
<1> QED  BY <1>1, <1>7, <1>8

LEMMA FindMappedKept == ASSUME DirInv, FindMapped PROVE Kept
<1> DEFINE hits == {c \in Companies : category[c] \in Wanted(call)}
<1>1. At("mapped") /\ (Empty \/ Read({}, [seen EXCEPT !.listed = hits]))
  BY QueryNames DEF FindMapped, Wanted
<1>2. /\ todo # <<>> /\ Head(todo) = "mapped" /\ pc = "running" /\ Shape(call, todo)
      /\ Sound(call, todo, seen, found, ever) /\ Truth \subseteq ever
      /\ call.kind \in {"listed", "both", "page"}
  BY <1>1, Here DEF KindsWith
<1>3. CASE Empty  BY <1>2, <1>3, Ending
<1>4. CASE Read({}, [seen EXCEPT !.listed = hits])
  <2>1. None \notin Wanted(call)
    BY <1>2, Typed, DirectoryAssumption DEF Wanted
  <2>2. \A c \in hits : \E k \in Wanted(call) : <<"category", c, k>> \in ever
    BY <1>2, <2>1, TruthHas
  <2>3. hits \in SUBSET Companies  OBVIOUS
  <2> HIDE DEF hits
  <2>4. Sound(call, Tail(todo), [seen EXCEPT !.listed = hits], found, ever)
    BY <1>2, <2>2, <2>3, MappedOn
  <2> QED  BY <1>2, <1>4, <2>4, NoFacts, Reading
<1> QED  BY <1>1, <1>3, <1>4

LEMMA FindNamedKept == ASSUME DirInv, FindNamed PROVE Kept
<1> DEFINE there == seen.listed \cap companies
           facts == UNION {{<<"company", c>>} \cup Label(c) : c \in there}
<1>1. At("named") /\ Read(facts, seen)  BY DEF FindNamed
<1>2. /\ todo # <<>> /\ Head(todo) = "named" /\ pc = "running" /\ Shape(call, todo)
      /\ Known(call, todo, seen, ever) /\ Truth \subseteq ever
      /\ call.kind \in {"listed", "owners"}
  BY <1>1, Here DEF KindsWith, Sound
<1>3. \A f \in facts : \E c \in there :
        f = <<"company", c>> \/ (call.kind = "listed" /\ f = <<"category", c, call.target>>)
  BY QueryNames DEF Label
<1>4. \A c \in there : There(ever, c) /\ c \in seen.listed  BY <1>2, TruthHas DEF There
<1> HIDE DEF facts, there
<1>5. Secret(call, Tail(todo), seen, facts)
  <2>1. \A f \in facts : f[1] \in Public  BY <1>3 DEF Public
  <2> QED  BY <2>1, PublicIsOpen
<1>6. Rank("mapped") = 1 /\ Rank("company") = 1 /\ Rank("twins") = 3 /\ Rank("named") = 5
  BY DEF Rank
<1>7. \A f \in facts : Told(call, ever, f)
  <2>1. CASE call.kind = "listed"
    <3>1. "mapped" \in Base(call.kind)  BY <2>1 DEF Base
    <3>2. Did(call, todo, "mapped")  BY <1>2, <1>6, <3>1, Earlier
    <3>3. \A c \in seen.listed : <<"category", c, call.target>> \in ever
      BY <1>2, <2>1, <3>2 DEF Known, Wanted
    <3>4. ASSUME NEW f \in facts PROVE Told(call, ever, f)
      <4>1. PICK c \in there : f = <<"company", c>> \/ f = <<"category", c, call.target>>
        BY <1>3
      <4>2. OfProfile(ever, f, c) /\ f[2] = c /\ f \in ever
        BY <1>4, <3>3, <4>1 DEF OfProfile, There
      <4>3. call.target \in Wanted(call)  BY <2>1 DEF Wanted
      <4>4. <<"category", c, call.target>> \in ever  BY <1>4, <3>3
      <4> QED  BY <2>1, <4>2, <4>3, <4>4 DEF Told
    <3> QED  BY <3>4
  <2>2. CASE call.kind = "owners"
    <3>1. "twins" \in Base(call.kind) /\ "company" \in Base(call.kind)  BY <2>2 DEF Base
    <3>2. Did(call, todo, "twins") /\ Did(call, todo, "company")  BY <1>2, <1>6, <3>1, Earlier
    <3>3. There(ever, call.target)  BY <1>2, <2>2, <3>2 DEF Known, CompanyOf, There
    <3>4. \A c \in seen.listed : \E a \in Assets, row \in Asset :
             <<"asset", a, row>> \in ever /\ row.maker = call.target /\ row.owner = c
      BY <1>2, <3>2 DEF Known
    <3>5. ASSUME NEW f \in facts PROVE Told(call, ever, f)
      <4>1. PICK c \in there : f = <<"company", c>>  BY <1>3, <2>2
      <4>2. f \in ever /\ f[1] = "company" /\ f[2] = c /\ c \in seen.listed
        BY <1>4, <4>1 DEF There
      <4>3. \E a \in Assets, row \in Asset :
             <<"asset", a, row>> \in ever /\ row.maker = call.target /\ row.owner = f[2]
        BY <3>4, <4>2
      <4> QED  BY <2>2, <3>3, <4>2, <4>3 DEF Told
    <3> QED  BY <3>5
  <2> QED  BY <1>2, <2>1, <2>2
<1> QED  BY <1>1, <1>5, <1>7, ToldIsTrue, PlainRead DEF Keeping, Checking

LEMMA FindSomeKept == ASSUME DirInv, FindSome PROVE Kept
<1>0. At("some")  BY DEF FindSome
<1>1. PICK page \in SUBSET (seen.listed \cap companies) :
         Read({<<"company", c>> : c \in page}
              \cup {<<"category", c, call.target>> : c \in page}, seen)
  BY QueryNames, Zenon DEF FindSome
<1> DEFINE facts == {<<"company", c>> : c \in page}
      \cup {<<"category", c, call.target>> : c \in page}
<1>2. /\ todo # <<>> /\ Head(todo) = "some" /\ pc = "running" /\ Shape(call, todo)
      /\ Known(call, todo, seen, ever) /\ Truth \subseteq ever
      /\ call.kind = "page"
  BY <1>0, Here DEF KindsWith, Sound
<1>3. \A c \in page : There(ever, c) /\ <<"category", c, call.target>> \in ever
  <2>1. "mapped" \in Base(call.kind) /\ Rank("mapped") = 1 /\ Rank("some") = 5
    BY <1>2 DEF Base, Rank
  <2>2. Did(call, todo, "mapped")  BY <1>2, <2>1, Earlier
  <2> QED  BY <1>2, <2>2, TruthHas DEF Known, Wanted, There
<1>4. \A f \in facts : \E c \in page : f = <<"company", c>> \/ f = <<"category", c, call.target>>
  OBVIOUS
<1>5. Read(facts, seen)  BY <1>1, Zenon
<1> HIDE DEF facts
<1>6. Secret(call, Tail(todo), seen, facts)
  <2>1. \A f \in facts : f[1] \in Public  BY <1>4 DEF Public
  <2> QED  BY <2>1, PublicIsOpen
<1>7. ASSUME NEW f \in facts PROVE Told(call, ever, f)
  <2>1. PICK c \in page : f = <<"company", c>> \/ f = <<"category", c, call.target>>
    BY <1>4
  <2>2. OfProfile(ever, f, c) /\ f[2] = c /\ f \in ever
    <3>1. There(ever, c) /\ <<"category", c, call.target>> \in ever  BY <1>3
    <3>2. CASE f = <<"company", c>>  BY <3>1, <3>2 DEF OfProfile, There
    <3>3. CASE f = <<"category", c, call.target>>  BY <3>1, <3>3 DEF OfProfile
    <3> QED  BY <2>1, <3>2, <3>3
  <2>3. call.target \in Wanted(call)  BY <1>2 DEF Wanted
  <2> QED  BY <1>2, <1>3, <2>2, <2>3 DEF Told
<1> QED  BY <1>0, <1>5, <1>6, <1>7, ToldIsTrue, PlainRead DEF Keeping, Checking

LEMMA FindPresentKept == ASSUME DirInv, FindPresent PROVE Kept
<1> DEFINE wanted == CASE call.kind = "maker" -> {seen.row.maker}
                       [] call.kind = "owner" -> {seen.row.owner}
                       [] call.kind = "factoryOwner" -> {seen.company}
                       [] OTHER -> seen.listed
           cs == wanted \cap companies
<1>1. At("present") /\ (Empty \/ Read({}, [seen EXCEPT !.listed = cs]))
  BY QueryNames DEF FindPresent
<1>2. /\ todo # <<>> /\ Head(todo) = "present" /\ pc = "running" /\ Tables
      /\ Sound(call, todo, seen, found, ever) /\ Truth \subseteq ever
      /\ call.kind \in {"both", "factoryOwner", "maker", "owner"}
  BY <1>1, Here DEF KindsWith
<1>3. CASE Empty  BY <1>2, <1>3, Ending
<1>4. CASE Read({}, [seen EXCEPT !.listed = cs])
  <2>1. cs \in SUBSET Companies  BY <1>2 DEF Tables
  <2>2. \A c \in cs : <<"company", c>> \in ever  BY <1>2, TruthHas
  <2>3. /\ call.kind = "both" => cs \subseteq seen.listed
        /\ \A c \in cs : /\ call.kind = "maker" => c = seen.row.maker
                         /\ call.kind = "owner" => c = seen.row.owner
                         /\ call.kind = "factoryOwner" => c = seen.company
    OBVIOUS
  <2> HIDE DEF cs
  <2>4. Sound(call, Tail(todo), [seen EXCEPT !.listed = cs], found, ever)
    BY <1>2, <2>1, <2>2, <2>3, PresentOn
  <2> QED  BY <1>2, <1>4, <2>4, NoFacts, Reading
<1> QED  BY <1>1, <1>3, <1>4

LEMMA FindGivenKept == ASSUME DirInv, FindGiven PROVE Kept
<1> DEFINE c == CompanyOf(call)
           facts == {<<"company", c>>}
<1>1. At("given")  BY DEF FindGiven
<1>2. /\ todo # <<>> /\ Head(todo) = "given" /\ pc = "running" /\ Shape(call, todo)
      /\ Truth \subseteq ever /\ call.kind = "indexed"
  BY <1>1, Here DEF KindsWith
<1>3. CASE c \notin companies
  <2>1. Empty  BY <1>3, QueryNames DEF FindGiven
  <2> QED  BY <1>2, <2>1, Ending
<1>4. CASE c \in companies
  <2>1. Read(facts, seen)  BY <1>4, QueryNames DEF FindGiven
  <2>2. \A f \in facts : f[1] = "company" /\ f \in ever /\ f[2] = call.target[1]
    <3>1. c = call.target[1]  BY <1>2, Typed
    <3>2. <<"company", c>> \in ever  BY <1>2, <1>4, TruthHas
    <3> QED  BY <3>1, <3>2
  <2> HIDE DEF facts
  <2>3. Secret(call, Tail(todo), seen, facts)  BY <2>2, PublicIsOpen DEF Public
  <2>4. \A f \in facts : Told(call, ever, f)  BY <1>2, <2>2 DEF Told
  <2> QED  BY <1>1, <2>1, <2>3, <2>4, ToldIsTrue, PlainRead DEF Keeping, Checking
<1> QED  BY <1>3, <1>4

LEMMA CompanyReadsKept == ASSUME DirInv, CompanyReads PROVE Kept
BY FindCompanyKept, ShowKept, HomeKept, FindMappingKept, TakenKept, FindAllKept,
   FindMappingsKept, CertifyKept, FindMappedKept, FindNamedKept, FindSomeKept,
   FindPresentKept, FindGivenKept DEF CompanyReads

-----------------------------------------------------------------------------
(* The reads of users, grants and roles keep it.                           *)

\* What comes after the next step is still to do.
LEMMA Ahead ==
    ASSUME NEW q, NEW td, Shape(q, td), td # <<>>, NEW y \in Base(q.kind),
           Head(td) \in Base(q.kind), Rank(y) > Rank(Head(td))
    PROVE  y \in Steps(Tail(td))
<1>0. Rank(y) \in Int /\ Rank(Head(td)) \in Int  BY DEF Rank
<1>1. y \in Steps(td)
  <2>1. ~Did(q, td, y)  BY <1>0, Later
  <2> QED  BY <2>1 DEF Did
<1>2. y # Head(td)  BY <1>0
<1> QED  BY <1>1, <1>2, TailOf

LEMMA FindUserKept == ASSUME DirInv, FindUser PROVE Kept
<1> DEFINE u == UserOf(call)
           facts == {<<"user", u, HomeOf[u]>>}
           s2 == [seen EXCEPT !.company = HomeOf[u]]
<1>1. At("user")  BY DEF FindUser
<1>2. /\ todo # <<>> /\ Head(todo) = "user" /\ pc = "running" /\ Shape(call, todo)
      /\ Sound(call, todo, seen, found, ever) /\ Truth \subseteq ever /\ Settled
      /\ call.kind \in {"user", "indexed"}
  BY <1>1, Here DEF KindsWith
<1>3. u \in Users /\ HomeOf[u] \in Companies  BY <1>2, Typed, DirectoryAssumption
<1>4. CASE employer[u] = None
  <2>1. Empty  BY <1>4, QueryNames DEF FindUser
  <2> QED  BY <1>2, <2>1, Ending
<1>5. CASE employer[u] # None
  <2>1. employer[u] = HomeOf[u]  BY <1>2, <1>3, <1>5 DEF Settled
  <2>2. Read(facts, s2)  BY <1>5, <2>1, QueryNames DEF FindUser
  <2>3. <<"user", u, HomeOf[u]>> \in ever  BY <1>2, <1>3, <1>5, <2>1, TruthHas
  <2>4. ASSUME NEW f \in facts PROVE f[1] = "user" /\ f[2] = u /\ f[3] = HomeOf[u] /\ f \in ever
    BY <2>3
  <2>5. \A f \in facts : OwnersOf(f) = {HomeOf[u]}  BY <2>4 DEF OwnersOf
  <2> HIDE DEF facts, s2
  <2>6. Secret(call, Tail(todo), s2, facts)
    <3>1. CASE call.kind = "user"
      <4>1. "user" \in Base(call.kind) /\ "itsCompany" \in Base(call.kind)
            /\ Rank("itsCompany") = 2 /\ Rank("user") = 1
        BY <3>1 DEF Base, Rank
      <4>2. "itsCompany" \in Steps(Tail(todo))  BY <1>2, <4>1, Ahead
      <4>3. call.target = u /\ call.kind \notin Open  BY <1>2, <3>1, Typed DEF Open
      <4> QED  BY <2>5, <3>1, <4>2, <4>3 DEF Secret
    <3>2. CASE call.kind = "indexed"  BY <3>2 DEF Secret
    <3> QED  BY <1>2, <3>1, <3>2
  <2>7. \A f \in facts : Told(call, ever, f)
    <3>1. CASE call.kind = "user"
      <4>1. call.target = u  BY <1>2, <3>1, Typed
      <4> QED  BY <2>4, <3>1, <4>1 DEF Told
    <3>2. CASE call.kind = "indexed"
      <4>1. call.target[2] = u  BY <1>2, <3>2, Typed
      <4> QED  BY <2>4, <3>2, <4>1 DEF Told
    <3> QED  BY <1>2, <3>1, <3>2
  <2>8. Sound(call, Tail(todo), s2, found \cup facts, ever)
    BY <1>2, <1>3, <2>3, <2>6, <2>7, ToldIsTrue, UserOn DEF s2
  <2> QED  BY <1>2, <2>2, <2>8, Reading
<1> QED  BY <1>4, <1>5

LEMMA FindUsersKept == ASSUME DirInv, FindUsers PROVE Kept
<1> DEFINE c == call.target
           us == {u \in Users : employer[u] = c}
           facts == {<<"user", u, c>> : u \in us}
           s2 == [seen EXCEPT !.users = us]
<1>1. At("users")  BY DEF FindUsers
<1>2. /\ todo # <<>> /\ Head(todo) = "users" /\ pc = "running" /\ Shape(call, todo)
      /\ Sound(call, todo, seen, found, ever) /\ Truth \subseteq ever /\ Settled /\ seen \in Holding
      /\ call.kind \in {"roster", "users", "access"}
  BY <1>1, Here DEF KindsWith
<1>3. c \in Companies /\ CompanyOf(call) = c  BY <1>2, Typed
<1>4. CASE us = {} /\ call.kind # "roster"
  <2>1. Empty  BY <1>3, <1>4, QueryNames DEF FindUsers
  <2> QED  BY <1>2, <2>1, Ending
<1>5. CASE us = {} /\ call.kind = "roster"
  <2>1. Proceed(<<>>, seen) /\ UNCHANGED World /\ found' = found
    BY <1>3, <1>5, QueryNames DEF FindUsers
  <2>2. Sound(call, <<>>, [seen EXCEPT !.users = {}], found, ever)
    BY <1>2, <1>5, JumpOn
  <2>3. [seen EXCEPT !.users = {}] \in Holding  BY <1>2 DEF Holding
  <2>4. \E sn \in Holding : (<<>> # <<>> => sn = seen) /\ Sound(call, <<>>, sn, found', ever)
    BY <2>1, <2>2, <2>3
  <2> QED  BY <1>2, <2>1, <2>4, Proceeds
<1>6. CASE us # {}
  <2>1. Read(facts, s2)  BY <1>3, <1>6, QueryNames DEF FindUsers
  <2>2. \A u \in us : HomeOf[u] = c /\ <<"user", u, c>> \in ever
    <3>1. None \notin Companies  BY DirectoryAssumption
    <3>2. \A u \in us : HomeOf[u] = c  BY <1>2, <1>3, <3>1 DEF Settled
    <3>3. \A u \in Users : employer[u] # None => <<"user", u, employer[u]>> \in ever
      BY <1>2, TruthHas
    <3> QED  BY <1>3, <3>1, <3>2, <3>3
  <2>3. ASSUME NEW f \in facts PROVE f[1] = "user" /\ f[3] = c /\ f \in ever
    BY <2>2
  <2>4. \A f \in facts : OwnersOf(f) = {c}  BY <2>3 DEF OwnersOf
  <2>5. us \in SUBSET Users  OBVIOUS
  <2>10. Rank("company") = 1 /\ Rank("match") = 2 /\ Rank("home") = 2 /\ Rank("users") = 4
    BY DEF Rank
  <2> HIDE DEF facts, us
  <2>6. Mine(call, c) /\ There(ever, c)
    <3>1. "company" \in Base(call.kind)  BY <1>2 DEF Base
    <3>2. Did(call, todo, "company")  BY <1>2, <2>10, <3>1, Earlier
    <3>3. There(ever, c)  BY <1>2, <1>3, <3>2 DEF Sound, Known, There
    <3>4. CASE call.kind = "roster"
      <4>1. "home" \in Base(call.kind)  BY <3>4 DEF Base
      <4>2. Did(call, todo, "home")  BY <1>2, <2>10, <4>1, Earlier
      <4>3. todo # <<"show">>  BY <1>2
      <4> QED  BY <1>2, <3>3, <4>2, <4>3 DEF Sound, Barred
    <3>5. CASE call.kind \in {"users", "access"}
      <4>1. "match" \in Base(call.kind)  BY <3>5 DEF Base
      <4>2. Did(call, todo, "match")  BY <1>2, <2>10, <4>1, Earlier
      <4> QED  BY <1>2, <1>3, <3>3, <3>5, <4>2 DEF Sound, Barred, SiteKinds
    <3> QED  BY <1>2, <3>4, <3>5
  <2> HIDE DEF s2
  <2>7. Secret(call, Tail(todo), s2, facts)
    <3>1. call.kind \notin Open  BY <1>2 DEF Open
    <3> QED  BY <2>4, <2>6, <3>1 DEF Secret
  <2>8. \A f \in facts : Told(call, ever, f)
    <3>1. CASE call.kind = "roster"  BY <2>3, <2>6, <3>1 DEF Told
    <3>2. CASE call.kind = "users"  BY <2>3, <2>6, <3>2 DEF Told
    <3>3. CASE call.kind = "access"  BY <2>3, <2>6, <3>3 DEF Told
    <3> QED  BY <1>2, <3>1, <3>2, <3>3
  <2>9. Sound(call, Tail(todo), s2, found \cup facts, ever)
    BY <1>2, <2>2, <2>5, <2>7, <2>8, ToldIsTrue, UsersOn DEF s2
  <2> QED  BY <1>2, <2>1, <2>9, Reading
<1> QED  BY <1>4, <1>5, <1>6

LEMMA FindGrantsKept == ASSUME DirInv, FindGrants PROVE Kept
<1> DEFINE us == IF call.kind = "access" THEN seen.users ELSE {UserOf(call)}
           granted == {u \in us : grants[u] # None}
           held == {<<u, grants[u]>> : u \in granted}
<1>1. At("grants") /\ (Empty \/ Read({}, [seen EXCEPT !.users = us, !.held = held]))
  BY QueryNames DEF FindGrants
<1>2. /\ todo # <<>> /\ Head(todo) = "grants" /\ pc = "running" /\ Shape(call, todo) /\ Tables
      /\ Sound(call, todo, seen, found, ever) /\ Truth \subseteq ever /\ seen \in Holding
      /\ call.kind \in {"access", "profile", "indexed"}
  BY <1>1, Here DEF KindsWith
<1>3. CASE Empty  BY <1>2, <1>3, Ending
<1>4. CASE Read({}, [seen EXCEPT !.users = us, !.held = held])
  <2>1. us \in SUBSET Users  BY <1>2, Typed DEF Holding
  <2>2. held \in SUBSET (Users \X Groups)  BY <1>2, <2>1 DEF Tables
  <2>3. \A h \in held : \E u \in us : h[1] = u /\ h[2] = grants[u]
        /\ <<"grant", h[1], h[2]>> \in ever
    <3>1. \A u \in us : <<"grant", u, grants[u]>> \in ever  BY <1>2, <2>1, TruthHas
    <3> QED  BY <3>1
  <2>4. \A g, h \in held : g[1] = h[1] => g = h  OBVIOUS
  <2>5. ASSUME NEW u \in us
        PROVE  (\E h \in held : h[1] = u) \/ <<"role", u, None>> \in ever
    <3>1. CASE grants[u] # None
      <4>1. <<u, grants[u]>> \in held  BY <3>1
      <4> QED  BY <4>1
    <3>2. CASE grants[u] = None
      <4>1. RoleOf(u) = None  BY <3>2 DEF RoleOf
      <4>2. <<"role", u, RoleOf(u)>> \in ever  BY <1>2, <2>1, TruthHas
      <4> QED  BY <4>1, <4>2
    <3> QED  BY <3>1, <3>2
  <2>6. us = IF call.kind = "access" THEN seen.users ELSE {UserOf(call)}  OBVIOUS
  <2> HIDE DEF us, held
  <2>7. Sound(call, Tail(todo), [seen EXCEPT !.users = us, !.held = held], found, ever)
    BY <1>2, <2>1, <2>2, <2>3, <2>4, <2>5, <2>6, GrantsOn
  <2> QED  BY <1>2, <1>4, <2>7, NoFacts, Reading
<1> QED  BY <1>1, <1>3, <1>4

\* The role that is joined of two reads was the user's at one moment, unless its grant was
\* replaced.
LEMMA NameSettles ==
    ASSUME Tables, Truth \subseteq ever, NEW u \in Users, NEW held \in SUBSET (Users \X Groups),
           \A h \in held : <<"grant", h[1], h[2]>> \in ever,
           \A g, h \in held : g[1] = h[1] => g = h,
           (\E h \in held : h[1] = u) \/ <<"role", u, None>> \in ever
    PROVE  <<"role", u, NameOf(u, held)>> \in ever \/ Swapped(ever, u)
<1> DEFINE named == {h \in held : h[1] = u /\ groups[h[2]] # None}
<1>1. NameOf(u, held) = IF named = {} THEN None ELSE groups[(CHOOSE h \in named : TRUE)[2]].name
  BY Zenon DEF NameOf
<1>2. CASE ~\E h \in held : h[1] = u
  <2>1. named = {}  BY <1>2
  <2>2. NameOf(u, held) = None  BY <1>1, <2>1
  <2> QED  BY <1>2, <2>2
<1>3. CASE \E h \in held : h[1] = u
  <2>1. PICK h \in held : h[1] = u  BY <1>3
  <2> DEFINE g == h[2]
  <2>2. g \in Groups /\ <<"grant", u, g>> \in ever  BY <2>1
  <2>3. named = IF groups[g] # None THEN {h} ELSE {}  BY <2>1
  <2>4. NameOf(u, held) = IF groups[g] # None THEN groups[g].name ELSE None
    <3>1. CASE groups[g] # None
      <4>1. named = {h}  BY <2>3, <3>1
      <4>2. (CHOOSE x \in named : TRUE) \in named  BY <4>1
      <4>3. (CHOOSE x \in named : TRUE) = h  BY <4>1, <4>2
      <4> QED  BY <1>1, <3>1, <4>1, <4>3
    <3>2. CASE groups[g] = None  BY <1>1, <2>3, <3>2
    <3> QED  BY <3>1, <3>2
  <2> HIDE DEF g
  <2>5. CASE grants[u] = g
    <3>1. None \notin Groups  BY DirectoryAssumption
    <3>2. RoleOf(u) = NameOf(u, held)  BY <2>2, <2>4, <2>5, <3>1 DEF RoleOf
    <3>3. <<"role", u, RoleOf(u)>> \in ever  BY TruthHas
    <3> QED  BY <3>2, <3>3
  <2>6. CASE grants[u] # g
    <3>1. <<"grant", u, grants[u]>> \in ever /\ grants[u] \in Groups \cup {None}
      BY TruthHas DEF Tables
    <3> QED  BY <2>2, <2>6, <3>1 DEF Swapped
  <2> QED  BY <2>5, <2>6
<1> QED  BY <1>2, <1>3

LEMMA FindNamesKept == ASSUME DirInv, FindNames PROVE Kept
<1> DEFINE facts == {<<"role", u, NameOf(u, seen.held)>> : u \in seen.users}
<1>1. At("names") /\ Read(facts, seen)  BY DEF FindNames
<1>2. /\ todo # <<>> /\ Head(todo) = "names" /\ pc = "running" /\ Shape(call, todo) /\ Tables
      /\ Sound(call, todo, seen, found, ever) /\ Truth \subseteq ever /\ seen \in Holding
      /\ call.kind \in {"access", "profile", "indexed"}
  BY <1>1, Here DEF KindsWith
<1>3. Rank("company") = 1 /\ Rank("match") = 2 /\ Rank("users") = 4 /\ Rank("grants") = 5
      /\ Rank("names") = 6
  BY DEF Rank
<1>4. Did(call, todo, "grants")
  <2>1. "grants" \in Base(call.kind)  BY <1>2 DEF Base
  <2> QED  BY <1>2, <1>3, <2>1, Earlier
<1>5. \A u \in seen.users : <<"role", u, NameOf(u, seen.held)>> \in ever \/ Swapped(ever, u)
  <2> TAKE u \in seen.users
  <2>1. u \in Users /\ seen.held \in SUBSET (Users \X Groups)  BY <1>2 DEF Holding
  <2>2. /\ \A h \in seen.held : <<"grant", h[1], h[2]>> \in ever
        /\ \A g, h \in seen.held : g[1] = h[1] => g = h
        /\ (\E h \in seen.held : h[1] = u) \/ <<"role", u, None>> \in ever
    BY <1>2, <1>4 DEF Sound, Granted
  <2> QED  BY <1>2, <2>1, <2>2, NameSettles
<1>6. \A f \in facts : \E u \in seen.users : f[1] = "role" /\ f[2] = u
      /\ (f \in ever \/ Swapped(ever, u))
  BY <1>5
<1> HIDE DEF facts
<1>7. CASE call.kind = "access"
  <2>1. {"company", "match", "users"} \subseteq Base(call.kind)  BY <1>7 DEF Base
  <2>2. Did(call, todo, "company") /\ Did(call, todo, "match") /\ Did(call, todo, "users")
    BY <1>2, <1>3, <2>1, Earlier
  <2>3. call.target \in Companies /\ CompanyOf(call) = call.target  BY <1>2, <1>7, Typed
  <2>4. There(ever, call.target) /\ Mine(call, call.target)
        /\ \A u \in seen.users : HomeOf[u] = call.target /\ <<"user", u, call.target>> \in ever
    BY <1>2, <1>7, <2>2, <2>3 DEF Sound, Known, Barred, There, SiteKinds
  <2>5. Secret(call, Tail(todo), seen, facts)
    <3>1. \A f \in facts : OwnersOf(f) = {call.target}  BY <1>6, <2>4 DEF OwnersOf
    <3> QED  BY <1>7, <2>4, <3>1 DEF Secret, Open
  <2>6. True(call, ever, facts)
    <3> SUFFICES ASSUME NEW f \in facts PROVE Told(call, ever, f) \/ (f[1] = "role"
          /\ Swapped(ever, f[2]))
      BY DEF True
    <3>1. PICK u \in seen.users : f[1] = "role" /\ f[2] = u /\ (f \in ever \/ Swapped(ever, u))
      BY <1>6
    <3>2. <<"user", f[2], call.target>> \in ever  BY <2>4, <3>1
    <3> QED  BY <1>7, <2>4, <3>1, <3>2 DEF Told
  <2> QED  BY <1>1, <2>5, <2>6, PlainRead DEF Keeping, Checking
<1>8. CASE call.kind \in {"profile", "indexed"}
  <2>1. seen.users = {call.target[2]}
    BY <1>2, <1>4, <1>8, Typed DEF Sound, Granted
  <2>2. Secret(call, Tail(todo), seen, facts)  BY <1>8 DEF Secret, Open
  <2>3. True(call, ever, facts)
    <3> SUFFICES ASSUME NEW f \in facts PROVE Told(call, ever, f) \/ (f[1] = "role"
          /\ Swapped(ever, f[2]))
      BY DEF True
    <3>1. f[1] = "role" /\ f[2] = call.target[2] /\ (f \in ever \/ Swapped(ever, f[2]))
      BY <1>6, <2>1
    <3>2. CASE call.kind = "profile"
      <4>1. "company" \in Base(call.kind)  BY <3>2 DEF Base
      <4>2. Did(call, todo, "company")  BY <1>2, <1>3, <4>1, Earlier
      <4>3. There(ever, call.target[1])
        BY <1>2, <3>2, <4>2, Typed DEF Sound, Known, There
      <4> QED  BY <3>1, <3>2, <4>3 DEF Told
    <3>3. CASE call.kind = "indexed"
      BY <3>1, <3>3 DEF Told
    <3> QED  BY <1>8, <3>2, <3>3
  <2> QED  BY <1>1, <2>2, <2>3, PlainRead DEF Keeping, Checking
<1> QED  BY <1>2, <1>7, <1>8

LEMMA EachGroupKept == ASSUME DirInv, EachGroup PROVE Kept
<1>1. At("eachGroup")  BY DEF EachGroup
<1>2. PICK h \in seen.held :
         Read({<<"role", h[1], NameOf(h[1], seen.held)>>}, [seen EXCEPT !.held = {}])
  BY DEF EachGroup
<1> DEFINE u == h[1]
           facts == {<<"role", u, NameOf(u, seen.held)>>}
<1>3. /\ todo # <<>> /\ Head(todo) = "eachGroup" /\ pc = "running" /\ Shape(call, todo) /\ Tables
      /\ Sound(call, todo, seen, found, ever) /\ Truth \subseteq ever /\ seen \in Holding
  BY <1>1, Here
<1>4. call.kind = "roster" /\ Mine(call, call.target) /\ There(ever, call.target)
  BY <1>3, AtEachGrant
<1>5. "eachGroup" \in Steps(todo)  BY <1>3, TailOf
<1>6. /\ \A x \in seen.held : /\ <<"grant", x[1], x[2]>> \in ever
                              /\ HomeOf[x[1]] = call.target /\ <<"user", x[1],
                                    call.target>> \in ever
      /\ \A g, x \in seen.held : g = x
  BY <1>3, <1>5 DEF Sound, Granted
<1>7. u \in Users /\ seen.held \in SUBSET (Users \X Groups)  BY <1>3 DEF Holding
<1>8. <<"role", u, NameOf(u, seen.held)>> \in ever \/ Swapped(ever, u)
  BY <1>3, <1>6, <1>7, NameSettles
<1>9. ASSUME NEW f \in facts
      PROVE f[1] = "role" /\ f[2] = u /\ (f \in ever \/ Swapped(ever, u))
  BY <1>8
<1>10. Read(facts, [seen EXCEPT !.held = {}])  BY <1>2, Zenon
<1>11. HomeOf[u] = call.target /\ <<"user", u, call.target>> \in ever  BY <1>6
<1> HIDE DEF facts, u
<1>12. Secret(call, Tail(todo), seen, facts)
  <2>1. \A f \in facts : OwnersOf(f) = {call.target}  BY <1>9, <1>11 DEF OwnersOf
  <2> QED  BY <1>4, <2>1 DEF Secret, Open
<1>13. True(call, ever, facts)
  <2> SUFFICES ASSUME NEW f \in facts PROVE Told(call, ever, f) \/ (f[1] = "role"
        /\ Swapped(ever, f[2]))
    BY DEF True
  <2>1. <<"user", f[2], call.target>> \in ever  BY <1>9, <1>11
  <2> QED  BY <1>4, <1>9, <2>1 DEF Told
<1>14. Sound(call, Tail(todo), [seen EXCEPT !.held = {}], found \cup facts, ever)
  BY <1>3, <1>12, <1>13, EachGroupOn
<1> QED  BY <1>3, <1>10, <1>14, Reading

LEMMA EachGrantKept == ASSUME DirInv, EachGrant PROVE Kept
<1>1. At("eachGrant")  BY DEF EachGrant
<1>2. /\ todo # <<>> /\ Head(todo) = "eachGrant" /\ pc = "running" /\ Shape(call, todo) /\ Tables
      /\ Sound(call, todo, seen, found, ever) /\ Truth \subseteq ever /\ seen \in Holding
  BY <1>1, Here
<1>3. /\ call.kind = "roster" /\ Mine(call, call.target) /\ There(ever, call.target)
      /\ "eachGroup" \notin Steps(todo)
      /\ "grant" \notin Steps(todo) /\ "group" \notin Steps(todo)
      /\ \A x \in Steps(todo) : Rank(x) > 4
      /\ \A u \in seen.users : HomeOf[u] = call.target /\ <<"user", u, call.target>> \in ever
  BY <1>2, AtEachGrant
<1>4. PICK u \in seen.users :
         /\ found' = IF grants[u] = None THEN found \cup {<<"role", u, None>>} ELSE found
         /\ LET rest == [seen EXCEPT !.users = @ \ {u}, !.held =
                           {<<u, g>> : g \in {grants[u]} \ {None}}]
                then == IF rest.users = {} THEN Tail(todo) ELSE todo
            IN Proceed(IF grants[u] = None THEN then ELSE <<"eachGroup">> \o then, rest)
  BY DEF EachGrant
<1> DEFINE us == seen.users \ {u}
           held == {<<u, g>> : g \in {grants[u]} \ {None}}
           s2 == [seen EXCEPT !.users = us, !.held = held]
           then == IF us = {} THEN Tail(todo) ELSE todo
<1>5. Proceed(IF grants[u] = None THEN then ELSE <<"eachGroup">> \o then, s2)
  <2>1. s2.users = us  BY <1>2 DEF Holding
  <2>2. s2 = [seen EXCEPT !.users = @ \ {u}, !.held = {<<u, g>> : g \in {grants[u]} \ {None}}]
    BY <1>2 DEF Holding
  <2> QED  BY <1>4, <2>1, <2>2
<1>6. UNCHANGED World  BY DEF EachGrant
<1>7. u \in Users /\ grants[u] \in Groups \cup {None}  BY <1>2 DEF Holding, Tables
<1>8. held \in SUBSET (Users \X Groups) /\ us \in SUBSET seen.users  BY <1>7
<1>9. then \in {todo, Tail(todo)}  OBVIOUS
<1>10. <<"grant", u, grants[u]>> \in ever /\ <<"role", u, RoleOf(u)>> \in ever
  BY <1>2, <1>7, TruthHas
<1>11. HomeOf[u] = call.target /\ <<"user", u, call.target>> \in ever  BY <1>3
<1>12. s2 \in Holding  BY <1>2, <1>8 DEF Holding
<1>13. Sound(call, then, s2, found, ever)  BY <1>2, <1>8, <1>9, EachGrantOn
<1>14. CASE grants[u] = None
  <2> DEFINE facts == {<<"role", u, None>>}
  <2>1. RoleOf(u) = None  BY <1>14 DEF RoleOf
  <2>2. ASSUME NEW f \in facts PROVE f[1] = "role" /\ f[2] = u /\ f \in ever
    BY <1>10, <2>1
  <2> HIDE DEF facts, then, s2
  <2>3. Secret(call, then, s2, facts)
    <3>1. \A f \in facts : OwnersOf(f) = {call.target}  BY <1>11, <2>2 DEF OwnersOf
    <3> QED  BY <1>3, <3>1 DEF Secret, Open
  <2>4. \A f \in facts : Told(call, ever, f)
    <3> TAKE f \in facts
    <3>1. <<"user", f[2], call.target>> \in ever  BY <1>11, <2>2
    <3> QED  BY <1>3, <2>2, <3>1 DEF Told
  <2>5. Sound(call, then, s2, found \cup facts, ever)
    BY <1>13, <2>3, <2>4, ToldIsTrue, SecretAdd, TrueAdd DEF Sound
  <2>6. found' = found \cup facts /\ Proceed(then, s2)  BY <1>4, <1>5, <1>14 DEF facts
  <2> QED  BY <1>2, <1>6, <1>12, <2>5, <2>6, Proceeds
<1>15. CASE grants[u] # None
  <2>1. Proceed(<<"eachGroup">> \o then, s2) /\ found' = found  BY <1>4, <1>5, <1>15
  <2>2. s2.held = held  BY <1>2 DEF Holding
  <2>3. held # {} /\ \A g, h \in held : g = h  BY <1>15
  <2>4. \A h \in held : /\ <<"grant", h[1], h[2]>> \in ever
                        /\ HomeOf[h[1]] = call.target /\ <<"user", h[1], call.target>> \in ever
    BY <1>10, <1>11
  <2>5. Steps(then) \subseteq Steps(todo)  BY <1>2, <1>9, TailOf
  <2> HIDE DEF then, s2, held
  <2>6. Sound(call, <<"eachGroup">> \o then, s2, found, ever)
    BY <1>3, <1>13, <2>2, <2>3, <2>4, <2>5, RoleNext
  <2> QED  BY <1>2, <1>6, <1>12, <2>1, <2>6, Proceeds
<1> QED  BY <1>14, <1>15

LEMMA FindGrantOfKept == ASSUME DirInv, FindGrantOf PROVE Kept
<1> DEFINE u == call.target
           facts == {<<"grant", u, grants[u]>>}
<1>1. At("grantOf")  BY DEF FindGrantOf
<1>2. Shape(call, todo) /\ Truth \subseteq ever /\ call.kind = "grant"
  BY <1>1, Here DEF KindsWith
<1>3. u \in Users /\ UserOf(call) = u  BY <1>2, Typed
<1>4. Read(facts, seen)  BY <1>3, QueryNames DEF FindGrantOf
<1>5. <<"grant", u, grants[u]>> \in ever  BY <1>2, <1>3, TruthHas
<1>6. \A f \in facts : f[1] = "grant" /\ f[2] = call.target /\ f \in ever  BY <1>5
<1> HIDE DEF facts
<1>7. Secret(call, Tail(todo), seen, facts)  BY <1>2 DEF Secret
<1>8. \A f \in facts : Told(call, ever, f)  BY <1>2, <1>6 DEF Told
<1> QED  BY <1>1, <1>4, <1>7, <1>8, ToldIsTrue, PlainRead DEF Keeping, Checking

LEMMA FindGroupsKept == ASSUME DirInv, FindGroups PROVE Kept
<1> DEFINE c == call.target
           facts == {<<"group", g, groups[g]>> : g \in {g \in Groups : groups[g] # None
                 /\ HomeOf[g] = c}}
<1>1. At("groups")  BY DEF FindGroups
<1>2. /\ todo # <<>> /\ Head(todo) = "groups" /\ Shape(call, todo)
      /\ Sound(call, todo, seen, found, ever) /\ Truth \subseteq ever /\ call.kind = "groups"
  BY <1>1, Here DEF KindsWith
<1>3. CompanyOf(call) = c  BY <1>2, Typed
<1>4. Read(facts, seen)  BY <1>3, QueryNames DEF FindGroups
<1>5. \A f \in facts : f[1] = "group" /\ HomeOf[f[2]] = c /\ f \in ever
  <2>1. \A g \in Groups : groups[g] # None => <<"group", g, groups[g]>> \in ever
    BY <1>2, TruthHas
  <2> QED  BY <2>1
<1> HIDE DEF facts
<1>6. Mine(call, c) /\ There(ever, c)
  <2>1. "company" \in Base(call.kind) /\ "match" \in Base(call.kind)
        /\ Rank("company") = 1 /\ Rank("match") = 2 /\ Rank("groups") = 5
    BY <1>2 DEF Base, Rank
  <2>2. Did(call, todo, "company") /\ Did(call, todo, "match")  BY <1>2, <2>1, Earlier
  <2> QED  BY <1>2, <1>3, <2>2 DEF Sound, Known, Barred, There, SiteKinds
<1>7. Secret(call, Tail(todo), seen, facts)
  <2>1. \A f \in facts : OwnersOf(f) = {c}  BY <1>5 DEF OwnersOf
  <2> QED  BY <1>2, <1>6, <2>1 DEF Secret, Open
<1>8. \A f \in facts : Told(call, ever, f)  BY <1>2, <1>5, <1>6 DEF Told
<1> QED  BY <1>1, <1>4, <1>7, <1>8, ToldIsTrue, PlainRead DEF Keeping, Checking

LEMMA FindRoleKept == ASSUME DirInv, FindRole PROVE Kept
<1> DEFINE g == call.target
           facts == {<<"group", g, groups[g]>>}
           s2 == [seen EXCEPT !.company = HomeOf[g]]
<1>1. At("role")  BY DEF FindRole
<1>2. /\ todo # <<>> /\ Head(todo) = "role" /\ pc = "running" /\ Shape(call, todo)
      /\ Sound(call, todo, seen, found, ever) /\ Truth \subseteq ever /\ call.kind = "group"
  BY <1>1, Here DEF KindsWith
<1>3. g \in Groups /\ HomeOf[g] \in Companies  BY <1>2, Typed, DirectoryAssumption
<1>4. CASE groups[g] = None
  <2>1. Empty  BY <1>4, QueryNames DEF FindRole
  <2> QED  BY <1>2, <2>1, Ending
<1>5. CASE groups[g] # None
  <2>1. Read(facts, s2)  BY <1>5, QueryNames DEF FindRole
  <2>2. <<"group", g, groups[g]>> \in ever  BY <1>2, <1>3, <1>5, TruthHas
  <2>3. \A f \in facts : f[1] = "group" /\ f[2] = call.target /\ f \in ever  BY <2>2
  <2> HIDE DEF facts, s2
  <2>4. Secret(call, Tail(todo), s2, facts)
    <3>1. "role" \in Base(call.kind) /\ "itsCompany" \in Base(call.kind)
          /\ Rank("itsCompany") = 2 /\ Rank("role") = 1
      BY <1>2 DEF Base, Rank
    <3>2. "itsCompany" \in Steps(Tail(todo))  BY <1>2, <3>1, Ahead
    <3>3. \A f \in facts : OwnersOf(f) = {HomeOf[call.target]}  BY <2>3 DEF OwnersOf
    <3> QED  BY <1>2, <3>2, <3>3 DEF Secret, Open
  <2>5. \A f \in facts : Told(call, ever, f)  BY <1>2, <2>3 DEF Told
  <2>6. Sound(call, Tail(todo), s2, found \cup facts, ever)
    BY <1>2, <1>3, <2>4, <2>5, ToldIsTrue, RoleOn DEF s2
  <2> QED  BY <1>2, <2>1, <2>6, Reading
<1> QED  BY <1>4, <1>5

LEMMA FindRoleNamedKept == ASSUME DirInv, FindRoleNamed PROVE Kept
<1> DEFINE named == {g \in Groups : HomeOf[g] = call.target[1] /\ groups[g] # None
                                      /\ groups[g].name = call.target[2]}
<1>1. At("roleNamed")  BY DEF FindRoleNamed
<1>2. /\ todo # <<>> /\ Head(todo) = "roleNamed" /\ pc = "running" /\ Shape(call, todo)
      /\ Sound(call, todo, seen, found, ever) /\ Truth \subseteq ever /\ call.kind = "namedGroup"
  BY <1>1, Here DEF KindsWith
<1>3. CompanyOf(call) = call.target[1]  BY <1>2, Typed
<1>4. Empty \/ \E g \in named : Read({<<"group", g, groups[g]>>}, seen)
  BY <1>3, QueryNames DEF FindRoleNamed
<1>5. CASE Empty  BY <1>2, <1>5, Ending
<1>6. CASE \E g \in named : Read({<<"group", g, groups[g]>>}, seen)
  <2>1. PICK g \in named : Read({<<"group", g, groups[g]>>}, seen)  BY <1>6
  <2> DEFINE facts == {<<"group", g, groups[g]>>}
  <2>2. <<"group", g, groups[g]>> \in ever  BY <1>2, TruthHas
  <2>3. \A f \in facts : /\ f[1] = "group" /\ f \in ever /\ HomeOf[f[2]] = call.target[1]
                         /\ f[3].name = call.target[2]
    BY <2>2
  <2>7. Read(facts, seen)  BY <2>1
  <2> HIDE DEF facts
  <2>4. Mine(call, call.target[1])
    <3>1. "itsCompany" \in Base(call.kind) /\ Rank("itsCompany") = 2 /\ Rank("roleNamed") = 5
      BY <1>2 DEF Base, Rank
    <3>2. Did(call, todo, "itsCompany")  BY <1>2, <3>1, Earlier
    <3> QED  BY <1>2, <1>3, <3>2 DEF Sound, Barred
  <2>5. Secret(call, Tail(todo), seen, facts)
    <3>1. \A f \in facts : OwnersOf(f) = {call.target[1]}  BY <2>3 DEF OwnersOf
    <3> QED  BY <1>2, <2>4, <3>1 DEF Secret, Open
  <2>6. \A f \in facts : Told(call, ever, f)  BY <1>2, <2>3 DEF Told
  <2> QED  BY <1>1, <2>5, <2>6, <2>7, ToldIsTrue, PlainRead DEF Keeping, Checking
<1> QED  BY <1>4, <1>5, <1>6

LEMMA PeopleReadsKept == ASSUME DirInv, PeopleReads PROVE Kept
BY FindUserKept, FindUsersKept, FindGrantsKept, FindNamesKept, EachGrantKept, EachGroupKept,
   FindGrantOfKept, FindGroupsKept, FindRoleKept, FindRoleNamedKept DEF PeopleReads

-----------------------------------------------------------------------------
(* The reads of factories and assets keep it.                              *)

LEMMA FindSitesKept == ASSUME DirInv, FindSites PROVE Kept
<1>1. At("ownSites") \/ At("factories")  BY DEF FindSites
<1>2. CASE At("ownSites")
  <2> DEFINE c == call.target
             facts == {<<"site", f, sites[f]>> : f \in {f \in Factories : sites[f] # None
                   /\ sites[f] = c}}
  <2>1. /\ todo # <<>> /\ Head(todo) = "ownSites" /\ Shape(call, todo)
        /\ Sound(call, todo, seen, found, ever) /\ Truth \subseteq ever /\ call.kind = "factories"
    BY <1>2, Here DEF KindsWith
  <2>2. CompanyOf(call) = c  BY <2>1, Typed
  <2>3. Read(facts, seen)  BY <2>1, <2>2, QueryNames DEF FindSites
  <2>4. \A f \in facts : f[1] = "site" /\ f[3] = c /\ f \in ever
    <3>1. \A f \in Factories : sites[f] # None => <<"site", f, sites[f]>> \in ever
      BY <2>1, TruthHas
    <3> QED  BY <3>1
  <2> HIDE DEF facts
  <2>5. Mine(call, c)
    <3>1. "match" \in Base(call.kind) /\ Rank("match") = 2 /\ Rank("ownSites") = 5
      BY <2>1 DEF Base, Rank
    <3>2. Did(call, todo, "match")  BY <2>1, <3>1, Earlier
    <3> QED  BY <2>1, <2>2, <3>2 DEF Sound, Barred, SiteKinds
  <2>6. Secret(call, Tail(todo), seen, facts)
    <3>1. \A f \in facts : OwnersOf(f) = {c}  BY <2>4 DEF OwnersOf
    <3> QED  BY <2>1, <2>5, <3>1 DEF Secret, Open
  <2>7. \A f \in facts : Told(call, ever, f)  BY <2>1, <2>4 DEF Told
  <2> QED  BY <1>2, <2>3, <2>6, <2>7, ToldIsTrue, PlainRead DEF Keeping, Checking
<1>3. CASE At("factories")
  <2> DEFINE facts == {<<"factory", f, sites[f]>> : f \in {f \in Factories : sites[f] # None}}
  <2>1. Head(todo) = "factories" /\ Truth \subseteq ever /\ call.kind = "directory"
    BY <1>3, Here DEF KindsWith
  <2>3. Read(facts, seen)  BY <2>1 DEF FindSites
  <2>4. \A f \in facts : f[1] = "factory" /\ f[2] \in Factories /\ f \in ever
    <3>1. \A f \in Factories : sites[f] # None => <<"factory", f, sites[f]>> \in ever
      BY <2>1, TruthHas
    <3> QED  BY <3>1
  <2> HIDE DEF facts
  <2>6. Secret(call, Tail(todo), seen, facts)  BY <2>4, PublicIsOpen DEF Public
  <2>7. \A f \in facts : Told(call, ever, f)  BY <2>1, <2>4 DEF Told
  <2> QED  BY <1>3, <2>3, <2>6, <2>7, ToldIsTrue, PlainRead DEF Keeping, Checking
<1> QED  BY <1>1, <1>2, <1>3

LEMMA FindSiteKept == ASSUME DirInv, FindSite PROVE Kept
<1> DEFINE f0 == call.target
           facts == IF call.kind = "factory" THEN {<<"site", f0, HomeOf[f0]>>} ELSE {}
           s2 == [seen EXCEPT !.company = HomeOf[f0]]
<1>1. At("site")  BY DEF FindSite
<1>2. /\ todo # <<>> /\ Head(todo) = "site" /\ pc = "running" /\ Shape(call, todo) /\ Settled
      /\ Sound(call, todo, seen, found, ever) /\ Truth \subseteq ever
      /\ call.kind \in {"factory", "factoryOwner", "factoryAssets"}
  BY <1>1, Here DEF KindsWith
<1>3. f0 \in Factories /\ HomeOf[f0] \in Companies
  BY <1>2, Typed, DirectoryAssumption DEF SiteKinds
<1>4. CASE sites[f0] = None
  <2>1. Empty  BY <1>4, QueryNames DEF FindSite
  <2> QED  BY <1>2, <2>1, Ending
<1>5. CASE sites[f0] # None
  <2>1. sites[f0] = HomeOf[f0]  BY <1>2, <1>3, <1>5 DEF Settled
  <2>2. Read(facts, s2)  BY <1>5, <2>1, QueryNames DEF FindSite
  <2>3. <<"site", f0, HomeOf[f0]>> \in ever  BY <1>2, <1>3, <1>5, <2>1, TruthHas
  <2>4. \A f \in facts : /\ f[1] = "site" /\ f[2] = f0 /\ f[3] = HomeOf[f0] /\ f \in ever
                         /\ call.kind = "factory"
    BY <2>3
  <2> HIDE DEF facts, s2
  <2>5. Secret(call, Tail(todo), s2, facts)
    <3> SUFFICES ASSUME call.kind = "factory" PROVE Secret(call, Tail(todo), s2, facts)
      BY <2>4 DEF Secret
    <3>1. "site" \in Base(call.kind) /\ "match" \in Base(call.kind)
          /\ Rank("match") = 2 /\ Rank("site") = 1
      BY DEF Base, Rank
    <3>2. "match" \in Steps(Tail(todo))  BY <1>2, <3>1, Ahead
    <3>3. \A f \in facts : OwnersOf(f) = {HomeOf[f0]}  BY <2>4 DEF OwnersOf
    <3> QED  BY <3>2, <3>3 DEF Secret, Open
  <2>6. \A f \in facts : Told(call, ever, f)  BY <2>4 DEF Told
  <2>7. Sound(call, Tail(todo), s2, found \cup facts, ever)
    BY <1>2, <1>3, <2>3, <2>5, <2>6, ToldIsTrue, SiteOn DEF s2
  <2> QED  BY <1>2, <2>2, <2>7, Reading
<1> QED  BY <1>4, <1>5

LEMMA FindSiteThereKept == ASSUME DirInv, FindSiteThere PROVE Kept
<1> DEFINE f0 == seen.row.site
           facts == {<<"site", f0, sites[f0]>>}
<1>1. At("siteThere")  BY DEF FindSiteThere
<1>2. /\ todo # <<>> /\ Head(todo) = "siteThere" /\ pc = "running" /\ Shape(call, todo)
      /\ Sound(call, todo, seen, found, ever) /\ Truth \subseteq ever /\ call.kind = "location"
  BY <1>1, Here DEF KindsWith
<1>3. "asset" \in Base(call.kind) /\ Rank("asset") = 1 /\ Rank("siteThere") = 5
  BY <1>2 DEF Base, Rank
<1>4. Did(call, todo, "asset")  BY <1>2, <1>3, Earlier
<1>5. seen.row \in Asset /\ <<"asset", call.target, seen.row>> \in ever /\ f0 # None
  BY <1>2, <1>4 DEF Sound, Known
<1>6. f0 \in Factories  BY <1>5 DEF Asset
<1>7. CASE sites[f0] = None
  <2>1. Empty  BY <1>7 DEF FindSiteThere
  <2> QED  BY <1>2, <2>1, Ending
<1>8. CASE sites[f0] # None
  <2>1. Read(facts, seen)  BY <1>8 DEF FindSiteThere
  <2>2. <<"site", f0, sites[f0]>> \in ever  BY <1>2, <1>6, <1>8, TruthHas
  <2>3. \A f \in facts : f[1] = "site" /\ f[2] = f0 /\ f \in ever  BY <2>2
  <2> HIDE DEF facts
  <2>4. Did(call, Tail(todo), "asset")  BY <1>2, <1>4, TailOf DEF Did
  <2>5. Secret(call, Tail(todo), seen, facts)  BY <1>2, <2>3, <2>4 DEF Secret, Open
  <2>6. \A f \in facts : Told(call, ever, f)  BY <1>2, <1>5, <2>3 DEF Told
  <2> QED  BY <1>1, <2>1, <2>5, <2>6, ToldIsTrue, PlainRead DEF Keeping, Checking
<1> QED  BY <1>7, <1>8

LEMMA FindAssetKept == ASSUME DirInv, FindAsset PROVE Kept
<1> DEFINE a == call.target
           row == assets[a]
           facts == IF call.kind = "asset" THEN {<<"asset", a, row>>} ELSE {}
           s2 == [seen EXCEPT !.row = row]
<1>1. At("asset")  BY DEF FindAsset
<1>2. /\ todo # <<>> /\ Head(todo) = "asset" /\ pc = "running" /\ Shape(call, todo) /\ Tables
      /\ Sound(call, todo, seen, found, ever) /\ Truth \subseteq ever /\ seen \in Holding
      /\ call.kind \in {"asset", "maker", "owner", "location"}
  BY <1>1, Here DEF KindsWith
<1>3. a \in Assets  BY <1>2, Typed
<1>4. CASE \/ row = None
           \/ call.kind = "owner" /\ row.owner = None
           \/ call.kind = "location" /\ row.site = None
  <2>1. Empty  BY <1>4, QueryNames DEF FindAsset
  <2> QED  BY <1>2, <2>1, Ending
<1>5. CASE ~(\/ row = None
             \/ call.kind = "owner" /\ row.owner = None
             \/ call.kind = "location" /\ row.site = None)
  <2>1. Read(facts, s2)  BY <1>5, QueryNames DEF FindAsset
  <2>2. row \in Asset /\ row # None  BY <1>2, <1>3, <1>5 DEF Tables
  <2>3. <<"asset", a, row>> \in ever  BY <1>2, <1>3, <2>2, TruthHas
  <2>4. \A f \in facts : /\ f[1] = "asset" /\ f[2] = a /\ f[3] = row /\ f \in ever
                         /\ call.kind = "asset"
    BY <2>3
  <2>5. s2.row = row  BY <1>2 DEF Holding
  <2>9. call.kind = "owner" => row.owner # None  BY <1>5
  <2>10. call.kind = "location" => row.site # None  BY <1>5
  <2> HIDE DEF facts, s2, row
  <2>6. Secret(call, Tail(todo), s2, facts)
    <3> SUFFICES ASSUME call.kind = "asset" PROVE Secret(call, Tail(todo), s2, facts)
      BY <2>4 DEF Secret
    <3>1. "asset" \in Base(call.kind) /\ "party" \in Base(call.kind)
          /\ Rank("party") = 2 /\ Rank("asset") = 1
      BY DEF Base, Rank
    <3>2. "party" \in Steps(Tail(todo))  BY <1>2, <3>1, Ahead
    <3>3. Did(call, Tail(todo), "asset")  BY <1>2, <3>1, TailOnce DEF Did
    <3>4. \A f \in facts : OwnersOf(f) = {row.maker, row.owner}  BY <2>4 DEF OwnersOf
    <3> QED  BY <2>5, <3>2, <3>3, <3>4 DEF Secret, Open
  <2>7. \A f \in facts : Told(call, ever, f)  BY <2>4 DEF Told
  <2>8. Sound(call, Tail(todo), s2, found \cup facts, ever)
    BY <1>2, <2>2, <2>3, <2>6, <2>7, <2>9, <2>10, ToldIsTrue, AssetOn DEF s2
  <2> QED  BY <1>2, <2>1, <2>8, Reading
<1> QED  BY <1>4, <1>5

LEMMA FindAssetsKept == ASSUME DirInv, FindAssets PROVE Kept
<1> DEFINE wanted ==
             CASE call.kind = "made" -> AssetsMade
               [] call.kind = "owned" -> {a \in Assets : assets[a] # None
                     /\ assets[a].owner = Asked}
               [] call.kind = "pair" -> {a \in AssetsMade : assets[a].owner = call.target[2]}
           facts == {<<"asset", a, assets[a]>> : a \in wanted}
<1>1. At("assets")  BY DEF FindAssets
<1>2. /\ todo # <<>> /\ Head(todo) = "assets" /\ Shape(call, todo)
      /\ Sound(call, todo, seen, found, ever) /\ Truth \subseteq ever
      /\ call.kind \in {"made", "owned", "pair"}
  BY <1>1, Here DEF KindsWith
<1>9. call.kind \in {"made", "owned"} => CompanyOf(call) = call.target  BY <1>2, Typed
<1>3. Read(facts, seen)  BY <1>2, QueryNames DEF FindAssets
<1>10. ASSUME NEW a \in wanted
       PROVE  /\ a \in Assets /\ assets[a] # None
              /\ call.kind \in {"made", "pair"} => assets[a].maker = CompanyOf(call)
              /\ call.kind = "owned" => assets[a].owner = call.target
              /\ call.kind = "pair" => assets[a].owner = call.target[2]
  <2>1. CASE call.kind = "made"  BY <2>1, QueryNames DEF AssetsMade
  <2>2. CASE call.kind = "owned"  BY <1>9, <2>2, QueryNames
  <2>3. CASE call.kind = "pair"  BY <2>3, QueryNames DEF AssetsMade
  <2> QED  BY <1>2, <2>1, <2>2, <2>3
<1> HIDE DEF wanted
<1>4. \A f \in facts : /\ f[1] = "asset" /\ f \in ever
                       /\ call.kind \in {"made", "pair"} => f[3].maker = CompanyOf(call)
                       /\ call.kind = "owned" => f[3].owner = call.target
                       /\ call.kind = "pair" => f[3].owner = call.target[2]
  <2>1. \A a \in wanted : <<"asset", a, assets[a]>> \in ever
    BY <1>2, <1>10, TruthHas
  <2> QED  BY <1>10, <2>1
<1> HIDE DEF facts
<1>5. \A f \in facts : OwnersOf(f) = {f[3].maker, f[3].owner}  BY <1>4 DEF OwnersOf
<1>6. Rank("company") = 1 /\ Rank("match") = 2 /\ Rank("partner") = 2 /\ Rank("assets") = 5
  BY DEF Rank
<1>7. CASE call.kind \in {"made", "owned"}
  <2>1. "company" \in Base(call.kind) /\ "match" \in Base(call.kind)  BY <1>7 DEF Base
  <2>2. Did(call, todo, "company") /\ Did(call, todo, "match")  BY <1>2, <1>6, <2>1, Earlier
  <2>3. Mine(call, call.target) /\ There(ever, call.target)
    BY <1>2, <1>7, <1>9, <2>2 DEF Sound, Known, Barred, There, SiteKinds
  <2>4. Secret(call, Tail(todo), seen, facts)
    <3>1. \A f \in facts : call.target \in OwnersOf(f)  BY <1>4, <1>5, <1>7, <1>9
    <3> QED  BY <1>7, <2>3, <3>1 DEF Secret, Open
  <2>5. \A f \in facts : Told(call, ever, f)
    <3>1. CASE call.kind = "made"  BY <1>4, <1>9, <2>3, <3>1 DEF Told
    <3>2. CASE call.kind = "owned"  BY <1>4, <2>3, <3>2 DEF Told
    <3> QED  BY <1>7, <3>1, <3>2
  <2> QED  BY <1>1, <1>3, <2>4, <2>5, ToldIsTrue, PlainRead DEF Keeping, Checking
<1>8. CASE call.kind = "pair"
  <2>1. "company" \in Base(call.kind) /\ "partner" \in Base(call.kind)  BY <1>8 DEF Base
  <2>2. Did(call, todo, "company") /\ Did(call, todo, "partner")  BY <1>2, <1>6, <2>1, Earlier
  <2>3. CompanyOf(call) = call.target[1]  BY <1>2, <1>8, Typed
  <2>4. /\ There(ever, call.target[1]) /\ There(ever, call.target[2])
        /\ Mine(call, call.target[1]) \/ Mine(call, call.target[2])
    BY <1>2, <2>2, <2>3 DEF Sound, Known, Barred, There
  <2>5. Secret(call, Tail(todo), seen, facts)
    <3>1. \A f \in facts : OwnersOf(f) = {call.target[1], call.target[2]}  BY <1>4, <1>5, <1>8, <2>3
    <3> QED  BY <1>8, <2>4, <3>1 DEF Secret, Open
  <2>6. \A f \in facts : Told(call, ever, f)  BY <1>4, <1>8, <2>3, <2>4 DEF Told
  <2> QED  BY <1>1, <1>3, <2>5, <2>6, ToldIsTrue, PlainRead DEF Keeping, Checking
<1> QED  BY <1>2, <1>7, <1>8

LEMMA FindAssetsThereKept == ASSUME DirInv, FindAssetsThere PROVE Kept
<1> DEFINE f0 == call.target
           facts == {<<"stands", a, f0>> : a \in {a \in Assets : assets[a] # None
                 /\ assets[a].site = f0}}
<1>1. At("assetsThere") /\ Read(facts, seen)  BY QueryNames DEF FindAssetsThere
<1>2. /\ todo # <<>> /\ Head(todo) = "assetsThere" /\ Shape(call, todo)
      /\ Sound(call, todo, seen, found, ever) /\ Truth \subseteq ever
      /\ call.kind = "factoryAssets"
  BY <1>1, Here DEF KindsWith
<1>3. \A f \in facts : f[1] = "stands" /\ f[3] = f0 /\ f \in ever
  <2>1. \A a \in Assets : assets[a] # None => <<"stands", a, assets[a].site>> \in ever
    BY <1>2, TruthHas
  <2> QED  BY <2>1
<1> HIDE DEF facts
<1>4. "site" \in Base(call.kind) /\ "match" \in Base(call.kind)
      /\ Rank("site") = 1 /\ Rank("match") = 2 /\ Rank("assetsThere") = 5
  BY <1>2 DEF Base, Rank
<1>5. Did(call, todo, "site") /\ Did(call, todo, "match")  BY <1>2, <1>4, Earlier
<1>6. /\ Mine(call, HomeOf[f0]) /\ <<"site", f0, HomeOf[f0]>> \in ever /\ HomeOf[f0] \in Companies
  <2>1. f0 \in Factories  BY <1>2, Typed DEF SiteKinds
  <2> QED  BY <1>2, <1>5, <2>1, DirectoryAssumption DEF Sound, Known, Barred, SiteKinds
<1>7. Secret(call, Tail(todo), seen, facts)
  <2>1. \A f \in facts : OwnersOf(f) = {HomeOf[f0]}  BY <1>3 DEF OwnersOf
  <2> QED  BY <1>2, <1>6, <2>1 DEF Secret, Open
<1>8. \A f \in facts : Told(call, ever, f)  BY <1>2, <1>3, <1>6 DEF Told
<1> QED  BY <1>1, <1>7, <1>8, ToldIsTrue, PlainRead DEF Keeping, Checking

LEMMA FindTwinsKept == ASSUME DirInv, FindTwins PROVE Kept
<1> DEFINE owners == {assets[a].owner : a \in AssetsMade} \ {None}
<1>1. At("twins") /\ (Empty \/ Read({}, [seen EXCEPT !.listed = owners]))
  BY DEF FindTwins
<1>2. /\ todo # <<>> /\ Head(todo) = "twins" /\ pc = "running" /\ Shape(call, todo) /\ Tables
      /\ Sound(call, todo, seen, found, ever) /\ Truth \subseteq ever /\ call.kind = "owners"
  BY <1>1, Here DEF KindsWith
<1>3. CASE Empty  BY <1>2, <1>3, Ending
<1>4. CASE Read({}, [seen EXCEPT !.listed = owners])
  <2>1. CompanyOf(call) = call.target  BY <1>2, Typed
  <2>2. \A a \in AssetsMade : /\ a \in Assets /\ assets[a] \in Asset /\ assets[a].maker = call.target
                              /\ <<"asset", a, assets[a]>> \in ever
    BY <1>2, <2>1, QueryNames, TruthHas DEF AssetsMade, Tables
  <2>3. owners \in SUBSET Companies  BY <2>2 DEF Asset
  <2>4. \A c \in owners : \E a \in Assets, row \in Asset :
             <<"asset", a, row>> \in ever /\ row.maker = call.target /\ row.owner = c
    BY <2>2
  <2> HIDE DEF owners
  <2>5. Sound(call, Tail(todo), [seen EXCEPT !.listed = owners], found, ever)
    BY <1>2, <2>3, <2>4, TwinsOn
  <2> QED  BY <1>2, <1>4, <2>5, NoFacts, Reading
<1> QED  BY <1>1, <1>3, <1>4

LEMMA AssetReadsKept == ASSUME DirInv, AssetReads PROVE Kept
BY FindSitesKept, FindSiteKept, FindSiteThereKept, FindAssetKept, FindAssetsKept,
   FindAssetsThereKept, FindTwinsKept DEF AssetReads

-----------------------------------------------------------------------------
(* The arrival of a query and the changes of its world keep it.            *)

\* What was once true remains so of the past.
LEMMA SoundStays ==
    ASSUME NEW q, NEW td, NEW sn, NEW fd, NEW ev, NEW ev2,
           Sound(q, td, sn, fd, ev), ev \subseteq ev2
    PROVE  Sound(q, td, sn, fd, ev2)
<1>1. Known(q, td, sn, ev2)  BY DEF Sound, Known
<1>2. Granted(q, td, sn, ev2)  BY DEF Sound, Granted
<1>3. \A u : Swapped(ev, u) => Swapped(ev2, u)  BY DEF Swapped
<1>4. Barred(q, td, sn, ev2)  BY <1>3 DEF Sound, Barred
<1>5. ASSUME NEW f, Told(q, ev, f) PROVE Told(q, ev2, f)
  <2>1. /\ \A c : There(ev, c) => There(ev2, c)
        /\ \A c : OfProfile(ev, f, c) => OfProfile(ev2, f, c)
        /\ \A c : OfRow(q, ev, f, c) => OfRow(q, ev2, f, c)
    BY DEF There, OfProfile, OfRow
  <2>2. q.kind \in AllKinds  BY DirectoryAssumption DEF Sound, Shape
  <2>3. CASE q.kind \in {"details", "record", "roster", "owners", "category", "taken"}
    BY <1>5, <2>1, <2>3 DEF Told
  <2>4. CASE q.kind \in {"all", "listed", "both", "page", "groups", "group", "namedGroup", "users"}
    BY <1>5, <2>1, <2>4 DEF Told
  <2>5. CASE q.kind \in {"access", "user", "profile", "grant", "indexed", "factories", "directory"}
    BY <1>5, <2>1, <2>5 DEF Told
  <2>6. CASE q.kind \in {"factory", "factoryOwner", "factoryAssets", "made", "owned", "pair"}
    BY <1>5, <2>1, <2>6 DEF Told
  <2>7. CASE q.kind \in {"asset", "maker", "owner", "location"}
    BY <1>5, <2>1, <2>7 DEF Told
  <2> QED  BY <2>2, <2>3, <2>4, <2>5, <2>6, <2>7 DEF AllKinds
<1>6. True(q, ev2, fd)  BY <1>3, <1>5 DEF Sound, True
<1> QED  BY <1>1, <1>2, <1>4, <1>6 DEF Sound

\* Every query starts with all its checks ahead of it.
LEMMA StartKept == ASSUME DirInv, Start PROVE DirInv'
<1>1. PICK kind \in Kinds, caller \in Callers : \E target \in Targets(kind) :
        /\ call' = [kind |-> kind, caller |-> caller, target |-> target]
        /\ todo' = Plan(kind, caller)
  BY DEF Start
<1>2. PICK target \in Targets(kind) : call' = [kind |-> kind, caller |-> caller, target |-> target]
  BY <1>1
<1>3. /\ pc = "idle" /\ pc' = "running" /\ ever' = Truth /\ always' = Truth
      /\ UNCHANGED <<tables, changes, seen, found>>
  BY DEF Start
<1>4. call'.kind = kind /\ call'.caller = caller /\ call'.target = target  BY <1>2
<1> DEFINE q == call'
           td == todo'
<1>5. seen = Nothing /\ found = {} /\ seen \in Holding
  BY <1>3 DEF DirInv, Between, Nothing, Holding
<1>6. Fit(td) /\ td # <<>> /\ Steps(td) = Base(kind)
      \cup (IF Asks(q) THEN {"grant", "group"} ELSE {})
  <2>1. kind \in AllKinds  BY DirectoryAssumption
  <2> QED  BY <1>1, <1>4, <2>1, PlanFits DEF Asks
<1> HIDE DEF q, td
<1>7. \A x : ~Did(q, td, x)  BY <1>4, <1>6 DEF Did, q
<1>8. "eachGroup" \notin Steps(td)
  <2>1. kind \in AllKinds  BY DirectoryAssumption
  <2> QED  BY <1>6, <2>1 DEF Base, AllKinds
<1>9. Shape(q, td)
  <2>1. \A i \in DOMAIN td : td[i] = "eachGroup" => i = 1  BY <1>8 DEF Steps
  <2>2. q.kind = kind /\ q.caller = caller /\ q.target = target  BY <1>4 DEF q
  <2> QED  BY <1>6, <2>1, <2>2 DEF Shape, Fit
<1>10. Known(q, td, seen, Truth)  BY <1>7 DEF Known
<1>11. Granted(q, td, seen, Truth)  BY <1>7, <1>8 DEF Granted
<1>12. Barred(q, td, seen, Truth)  BY <1>6, <1>7 DEF Barred
<1>13. Ready(td, seen)  BY <1>6 DEF Fit, Adjacent, Ready
<1>14. Sound(q, td, seen, found, Truth)
  BY <1>5, <1>9, <1>10, <1>11, <1>12, <1>13, NothingSecret DEF Sound
<1>15. Underway'  BY <1>3, <1>6, <1>14 DEF Underway, q, td
<1>16. Truth' = Truth  BY <1>3 DEF tables, Truth, RoleOf, Reads
<1>17. Recorded'
  <2>1. \A c : <<"company", c>> \in Truth => <<"record", c>> \in Truth
    BY TruthHas, TruthOfCompanies
  <2> QED  BY <1>3, <1>16, <2>1 DEF Recorded
<1>18. Tables' /\ Settled'  BY <1>3 DEF DirInv, Tables, Settled, tables
<1>19. Answered' /\ Between'  BY <1>3 DEF Answered, Between
<1> QED  BY <1>15, <1>17, <1>18, <1>19 DEF DirInv

\* The world stands still during a read.
LEMMA ReadsKept == ASSUME DirInv, Kept, pc = "running" PROVE DirInv'
<1>1. UNCHANGED <<tables, changes, ever>>  BY DEF Kept, World
<1>2. Truth' = Truth  BY <1>1 DEF tables, Truth, RoleOf, Reads
<1>3. Tables' /\ Settled'  BY <1>1 DEF DirInv, Tables, Settled, tables
<1>4. Recorded'  BY <1>1, <1>2 DEF DirInv, Recorded
<1> QED  BY <1>3, <1>4 DEF DirInv, Kept

\* A change only adds to what has been true.
LEMMA ChangesKept == ASSUME DirInv, Changes, Tables', Settled' PROVE DirInv'
<1>1. /\ pc = "running" /\ pc' = pc /\ UNCHANGED <<call, todo, seen, found>>
      /\ ever' = ever \cup Truth'
  BY DEF Changes, query
<1>2. Underway'
  <2>1. Sound(call, todo, seen, found, ever) /\ todo # <<>>  BY <1>1 DEF DirInv, Underway
  <2>2. Sound(call, todo, seen, found, ever')  BY <1>1, <2>1, SoundStays
  <2> QED  BY <1>1, <2>1, <2>2 DEF Underway
<1>3. Recorded'
  <2>1. \A c : <<"company", c>> \in Truth' => <<"record", c>> \in Truth'
    <3>1. \A c : <<"company", c>> \in Truth' => c \in companies'  BY DEF Truth
    <3>2. \A c \in companies' : <<"record", c>> \in Truth'  BY DEF Truth
    <3> QED  BY <3>1, <3>2
  <2> QED  BY <1>1, <2>1 DEF DirInv, Recorded
<1>4. Answered' /\ Between'  BY <1>1 DEF DirInv, Answered, Between
<1> QED  BY <1>2, <1>3, <1>4 DEF DirInv

LEMMA OthersKept == ASSUME DirInv, Others PROVE DirInv'
<1>1. Changes /\ Tables /\ Settled
  BY DEF DirInv, Others, DropCompany, MoveCategory, Recertify, DropUser, Regrant, EditGroup,
         DropFactory, ChangeAsset
<1>2. changes' \in 0 .. MaxChanges  BY <1>1, DirectoryAssumption DEF Changes, Tables
<1>3. Tables' /\ Settled'
  <2>1. CASE DropCompany  BY <1>1, <1>2, <2>1 DEF DropCompany, Tables, Settled
  <2>2. CASE MoveCategory  BY <1>1, <1>2, <2>2 DEF MoveCategory, Tables, Settled
  <2>3. CASE Recertify  BY <1>1, <1>2, <2>3 DEF Recertify, Tables, Settled
  <2>4. CASE DropUser  BY <1>1, <1>2, <2>4 DEF DropUser, Tables, Settled
  <2>5. CASE Regrant  BY <1>1, <1>2, <2>5 DEF Regrant, Tables, Settled
  <2>6. CASE EditGroup  BY <1>1, <1>2, <2>6 DEF EditGroup, Tables, Settled
  <2>7. CASE DropFactory  BY <1>1, <1>2, <2>7 DEF DropFactory, Tables, Settled
  <2>8. CASE ChangeAsset  BY <1>1, <1>2, <2>8 DEF ChangeAsset, Tables, Settled
  <2> QED  BY <2>1, <2>2, <2>3, <2>4, <2>5, <2>6, <2>7, <2>8 DEF Others
<1> QED  BY <1>1, <1>3, ChangesKept

\* The invariant.
LEMMA DirInit == ASSUME Init PROVE DirInv
<1>1. Tables
  BY DirectoryAssumption DEF Init, Tables
<1>2. Settled  BY DEF Init, Settled
<1>3. Recorded /\ Underway /\ Answered  BY DEF Init, Recorded, Underway, Answered
<1>4. Between  BY DEF Init, Between, Nothing, Holding
<1> QED  BY <1>1, <1>2, <1>3, <1>4 DEF DirInv

LEMMA DirNext == DirInv /\ [Next]_vars => DirInv'
<1> SUFFICES ASSUME DirInv, [Next]_vars PROVE DirInv'
  OBVIOUS
<1>1. CASE Start  BY <1>1, StartKept
<1>2. CASE StatementFails
  <2>1. pc = "running"  BY <1>2 DEF StatementFails
  <2> QED  BY <1>2, <2>1, Ending, ReadsKept
<1>3. CASE Checks
  <2>1. pc = "running"
    BY <1>3 DEF Checks, Match, FindGrant, FindGroup, OwnRecord, Party, Partner, At
  <2> QED  BY <1>3, <2>1, ChecksKept, ReadsKept
<1>4. CASE CompanyReads
  <2>1. pc = "running"
    BY <1>4 DEF CompanyReads, FindCompany, Show, Home, FindMapping, Taken, FindAll, FindMappings,
                Certify, FindMapped, FindNamed, FindSome, FindPresent, FindGiven, At
  <2> QED  BY <1>4, <2>1, CompanyReadsKept, ReadsKept
<1>5. CASE PeopleReads
  <2>1. pc = "running"
    BY <1>5 DEF PeopleReads, FindUser, FindUsers, FindGrants, FindNames, EachGrant, EachGroup,
                FindGrantOf, FindGroups, FindRole, FindRoleNamed, At
  <2> QED  BY <1>5, <2>1, PeopleReadsKept, ReadsKept
<1>6. CASE AssetReads
  <2>1. pc = "running"
    BY <1>6 DEF AssetReads, FindSites, FindSite, FindSiteThere, FindAsset, FindAssets,
                FindAssetsThere, FindTwins, At
  <2> QED  BY <1>6, <2>1, AssetReadsKept, ReadsKept
<1>7. CASE Others  BY <1>7, OthersKept
<1>8. CASE UNCHANGED vars
  <2>1. UNCHANGED <<tables, changes, call, pc, todo, seen, found, ever>>  BY <1>8 DEF vars, query
  <2>2. Truth' = Truth  BY <2>1 DEF tables, Truth, RoleOf, Reads
  <2>3. Tables' /\ Settled'  BY <2>1 DEF DirInv, Tables, Settled, tables
  <2>4. Recorded' /\ Underway' /\ Answered' /\ Between'
    BY <2>1, <2>2 DEF DirInv, Recorded, Underway, Answered, Between
  <2> QED  BY <2>3, <2>4 DEF DirInv
<1> QED  BY <1>1, <1>2, <1>3, <1>4, <1>5, <1>6, <1>7, <1>8 DEF Next

LEMMA DirInvariant == Spec => []DirInv
BY DirInit, DirNext, PTL DEF Spec

-----------------------------------------------------------------------------
(* What it gives.                                                          *)

\* What a query has done when it answers: everything.
LEMMA AllDone ==
    ASSUME NEW q
    PROVE  /\ Steps(<<>>) = {}
           /\ \A x \in Base(q.kind) : Did(q, <<>>, x)
<1>1. Steps(<<>>) = {}  BY DEF Steps
<1> QED  BY <1>1 DEF Did

\* Types; and no read goes by what was not found.
LEMMA TypesHold == DirInv => TypeOK
<1> SUFFICES ASSUME DirInv PROVE TypeOK
  OBVIOUS
<1>1. Tables /\ Between  BY DEF DirInv
<1>2. seen \in Holding
  <2>1. CASE pc = "running"  BY <2>1 DEF DirInv, Underway, Sound
  <2>2. CASE pc # "running"  BY <2>2 DEF DirInv, Between
  <2> QED  BY <2>1, <2>2
<1>3. ASSUME todo # <<>>
      PROVE  /\ Head(todo) = "group" => seen.grant # None
             /\ Head(todo) \in {"party", "siteThere"} => seen.row # None
  <2>1. Sound(call, todo, seen, found, ever) /\ Shape(call, todo)
    BY <1>3 DEF DirInv, Between, Underway, Sound
  <2>2. todo \in Seq(AllSteps) /\ 1 \in DOMAIN todo /\ Head(todo) = todo[1]
    BY <1>3, <2>1 DEF Shape
  <2>3. Head(todo) = "group" => seen.grant # None
    BY <2>1, <2>2 DEF Sound, Ready
  <2>4. ASSUME Head(todo) \in {"party", "siteThere"} PROVE seen.row # None
    <3>1. call.kind \in {"asset", "maker", "owner", "location"}
      BY <1>3, <2>1, <2>4, KindsOf DEF KindsWith
    <3>2. "asset" \in Base(call.kind)  BY <3>1 DEF Base
    <3>3. Rank("asset") < Rank(Head(todo))  BY <2>4 DEF Rank
    <3>4. Did(call, todo, "asset")  BY <1>3, <2>1, <2>4, <3>2, <3>3, Earlier
    <3> QED  BY <2>1, <3>4 DEF Sound, Known
  <2> QED  BY <2>3, <2>4
<1> QED  BY <1>1, <1>2, <1>3 DEF TypeOK, Tables, Between, Holding

\* A user with two grants was granted anew.
LEMMA SwappedIsRegranted == \A u : Swapped(ever, u) => Regranted(u)
<1> SUFFICES ASSUME NEW u, Swapped(ever, u) PROVE Regranted(u)
  OBVIOUS
<1>1. PICK g, h \in Groups \cup {None} :
        g # h /\ <<"grant", u, g>> \in ever /\ <<"grant", u, h>> \in ever
  BY DEF Swapped
<1> DEFINE x == <<"grant", u, g>>
           y == <<"grant", u, h>>
<1>2. x[1] = "grant" /\ y[1] = "grant" /\ x[2] = u /\ y[2] = u /\ x # y
  BY <1>1
<1> QED  BY <1>1, <1>2 DEF Regranted

\* What the checks that were passed say of an answer.
LEMMA PrivateHolds == DirInv => PrivateFactsStayHome
<1> SUFFICES ASSUME DirInv, pc = "answered", Kind \notin {"profile", "grant", "indexed"},
                    NEW f \in found, f[1] \notin Public
             PROVE  /\ \/ \E c \in OwnersOf(f) : IsOwn(c)
                       \/ Kind = "location" /\ \E g \in ever :
                            g[1] = "asset" /\ g[3].site = f[2] /\ \E c \in OwnersOf(g) : IsOwn(c)
                    /\ IsUser(Caller) => <<"reader",
                          Caller.user>> \in ever \/ Regranted(Caller.user)
  BY DEF PrivateFactsStayHome
<1>1. PICK sn \in Holding : Sound(call, <<>>, sn, found, ever)
  BY DEF DirInv, Answered
<1>2. Secret(call, <<>>, sn, found) /\ Barred(call, <<>>, sn, ever) /\ Known(call, <<>>, sn, ever)
      /\ Shape(call, <<>>)
  BY <1>1 DEF Sound
<1>3. Kind = call.kind /\ Caller = call.caller /\ \A c : IsOwn(c) <=> Mine(call, c)
  BY QueryNames
<1>4. call.kind \notin Open  BY <1>2, <1>3 DEF Secret
<1>5. \/ \E c \in OwnersOf(f) : Mine(call, c)
      \/ call.kind = "location" /\ Did(call, <<>>, "asset") /\ f[2] = sn.row.site
  BY <1>2, <1>3, AllDone DEF Secret
<1>6. ASSUME call.kind = "location", Did(call, <<>>, "asset"), f[2] = sn.row.site
      PROVE  \E g \in ever :
               g[1] = "asset" /\ g[3].site = f[2] /\ \E c \in OwnersOf(g) : IsOwn(c)
  <2> DEFINE g == <<"asset", call.target, sn.row>>
  <2>1. g \in ever  BY <1>2, <1>6 DEF Known
  <2>2. g[1] = "asset" /\ g[3] = sn.row  OBVIOUS
  <2>3. OwnersOf(g) = {sn.row.maker, sn.row.owner}  BY <2>2 DEF OwnersOf
  <2>4. "party" \in Base(call.kind)  BY <1>6 DEF Base
  <2>5. \E c \in {sn.row.maker, sn.row.owner} : Mine(call, c)
    BY <1>2, <2>4, AllDone DEF Barred
  <2> QED  BY <1>3, <1>6, <2>1, <2>2, <2>3, <2>5
<1>7. ASSUME IsUser(Caller)
      PROVE  <<"reader", Caller.user>> \in ever \/ Regranted(Caller.user)
  <2>1. Asks(call)  BY <1>3, <1>4, <1>7 DEF Asks
  <2>2. <<"reader", call.caller.user>> \in ever \/ Swapped(ever, call.caller.user)
    BY <1>2, <2>1, AllDone DEF Barred
  <2> QED  BY <1>3, <2>2, SwappedIsRegranted
<1> QED  BY <1>3, <1>5, <1>6, <1>7

\* Rows as About has them.
Existing(F) == {f[2] : f \in {f \in F : f[1] = "company"}}
RowsAbout(F, cs) ==
    {f \in F : f[1] \in {"record"} /\ f[2] \in cs \cap {Claims(Caller)}}
    \cup {f \in F : f[1] \in {"company", "category"}
                     /\ f[2] \in (cs \ {Claims(Caller)}) \cap Existing(F)}

LEMMA ThereIsExisting == \A F, c : There(F, c) => c \in Existing(F)
<1> SUFFICES ASSUME NEW F, NEW c, There(F, c) PROVE c \in Existing(F)
  OBVIOUS
<1> DEFINE x == <<"company", c>>
<1>1. x \in F /\ x[1] = "company" /\ x[2] = c  BY DEF There
<1> QED  BY <1>1 DEF Existing

LEMMA OfRowIsAbout ==
    ASSUME NEW F, NEW cs, NEW c \in cs, NEW f \in F, OfRow(call, F, f, c)
    PROVE  f \in RowsAbout(F, cs)
<1>1. Claims(Caller) = c <=> Mine(call, c)  BY DEF Mine, Caller
<1> QED  BY <1>1, ThereIsExisting DEF RowsAbout, OfRow, OfProfile

\* What is recorded of a fact is what the query asks for.
LEMMA ToldIsAbout ==
    ASSUME NEW f, Told(call, ever, f), Shape(call, <<>>)
    PROVE  f \in About(ever)
<1>1. Kind = call.kind /\ Caller = call.caller /\ Target = call.target /\ Asked = CompanyOf(call)
      /\ AskedUser = UserOf(call) /\ \A c : IsOwn(c) <=> Mine(call, c)
  BY QueryNames
<1>2. f \in ever  BY DEF Told
<1>3. call.kind \in AllKinds  BY DirectoryAssumption DEF Shape
<1>4. CASE call.kind = "details"
  <2>1. OfRow(call, ever, f, Target)  BY <1>1, <1>4 DEF Told
  <2>2. About(ever) = RowsAbout(ever, {Target})
    BY <1>1, <1>4 DEF About, RowsAbout, Existing
  <2> QED  BY <1>2, <2>1, <2>2, OfRowIsAbout
<1>5. CASE call.kind = "record"
  <2>1. OfRow(call, ever, f, Target)  BY <1>1, <1>5 DEF Told
  <2>2. About(ever) = RowsAbout(ever, {Target})
    BY <1>1, <1>5 DEF About, RowsAbout, Existing
  <2> QED  BY <1>2, <2>1, <2>2, OfRowIsAbout
<1>6. CASE call.kind = "roster"
  BY <1>1, <1>2, <1>6, Typed DEF Told, About, There, OfProfile, Mine, Wanted, SiteKinds
<1>7. CASE call.kind = "owners"
  <2>1. PICK a \in Assets, row \in Asset :
          <<"asset", a, row>> \in ever /\ row.maker = Target /\ row.owner = f[2]
    BY <1>1, <1>7 DEF Told
  <2> DEFINE g == <<"asset", a, row>>
             all == {h \in ever : h[1] = "asset"}
             those == {h \in all : h[3].maker = Target /\ Target \in Existing(ever)}
  <2>2. There(ever, Target) /\ f[1] = "company"  BY <1>1, <1>7 DEF Told
  <2>3. g \in ever /\ g[1] = "asset" /\ g[3] = row  BY <2>1
  <2>4. g \in those  BY <2>1, <2>2, <2>3, ThereIsExisting
  <2>5. f[2] \in {h[3].owner : h \in those}  BY <2>1, <2>3, <2>4
  <2>6. About(ever) = {h \in ever : h[1] \in {"company"} /\ h[2] \in {e[3].owner : e \in those}}
    BY <1>1, <1>7 DEF About, Existing
  <2> QED  BY <1>2, <2>2, <2>5, <2>6
<1>8. CASE call.kind = "category"
  BY <1>1, <1>2, <1>8, Typed DEF Told, About, There, OfProfile, Mine, Wanted, SiteKinds
<1>9. CASE call.kind = "taken"
  BY <1>1, <1>2, <1>9, Typed DEF Told, About, There, OfProfile, Mine, Wanted, SiteKinds
<1>10. CASE call.kind = "all"
  BY <1>1, <1>2, <1>10, Typed DEF Told, About, There, OfProfile, Mine, Wanted, SiteKinds
<1>11. CASE call.kind = "listed"
  BY <1>1, <1>2, <1>11, Typed DEF Told, About, There, OfProfile, Mine, Wanted, SiteKinds
<1>12. CASE call.kind = "both"
  <2>1. PICK k \in Listed : <<"category", f[2], k>> \in ever
    BY <1>12 DEF Told, Wanted
  <2> DEFINE g == <<"category", f[2], k>>
             in == {h[2] : h \in {h \in ever : h[1] = "category" /\ h[3] \in Listed}}
  <2>2. g \in ever /\ g[1] = "category" /\ g[2] = f[2] /\ g[3] \in Listed  BY <2>1
  <2>3. f[2] \in in  BY <2>2
  <2>4. f[1] \in {"company", "category"} /\ f[2] \in Existing(ever)
    BY <1>12, ThereIsExisting DEF Told, OfProfile
  <2>5. About(ever) = {h \in ever : h[1] \in {"company", "category"}
        /\ h[2] \in in \cap Existing(ever)}
    BY <1>1, <1>12 DEF About, Existing
  <2> QED  BY <1>2, <2>3, <2>4, <2>5
<1>13. CASE call.kind = "page"
  BY <1>1, <1>2, <1>13, Typed DEF Told, About, There, OfProfile, Mine, Wanted, SiteKinds
<1>14. CASE call.kind = "groups"
  BY <1>1, <1>2, <1>14, Typed DEF Told, About, There, OfProfile, Mine, Wanted, SiteKinds
<1>15. CASE call.kind = "group"
  BY <1>1, <1>2, <1>15, Typed DEF Told, About, There, OfProfile, Mine, Wanted, SiteKinds
<1>16. CASE call.kind = "namedGroup"
  BY <1>1, <1>2, <1>16, Typed DEF Told, About, There, OfProfile, Mine, Wanted, SiteKinds
<1>17. CASE call.kind = "users"
  BY <1>1, <1>2, <1>17, Typed DEF Told, About, There, OfProfile, Mine, Wanted, SiteKinds
<1>18. CASE call.kind = "access"
  BY <1>1, <1>2, <1>18, Typed DEF Told, About, There, OfProfile, Mine, Wanted, SiteKinds
<1>19. CASE call.kind = "user"
  BY <1>1, <1>2, <1>19, Typed DEF Told, About, There, OfProfile, Mine, Wanted, SiteKinds
<1>20. CASE call.kind = "profile"
  BY <1>1, <1>2, <1>20, Typed DEF Told, About, There, OfProfile, Mine, Wanted, SiteKinds
<1>21. CASE call.kind = "grant"
  BY <1>1, <1>2, <1>21, Typed DEF Told, About, There, OfProfile, Mine, Wanted, SiteKinds
<1>22. CASE call.kind = "indexed"
  BY <1>1, <1>2, <1>22, Typed DEF Told, About, There, OfProfile, Mine, Wanted, SiteKinds
<1>23. CASE call.kind = "factories"
  BY <1>1, <1>2, <1>23, Typed DEF Told, About, There, OfProfile, Mine, Wanted, SiteKinds
<1>24. CASE call.kind = "directory"
  BY <1>1, <1>2, <1>24, Typed DEF Told, About, There, OfProfile, Mine, Wanted, SiteKinds
<1>25. CASE call.kind = "factory"
  BY <1>1, <1>2, <1>25, Typed DEF Told, About, There, OfProfile, Mine, Wanted, SiteKinds
<1>26. CASE call.kind = "factoryOwner"
  <2>1. PICK c \in Companies : <<"site", Target, c>> \in ever /\ OfRow(call, ever, f, c)
    BY <1>1, <1>26 DEF Told
  <2> DEFINE g == <<"site", Target, c>>
             cs == {h[3] : h \in {h \in ever : h[1] \in {"site"} /\ h[2] \in {Target}}}
  <2>2. g \in ever /\ g[1] = "site" /\ g[2] = Target /\ g[3] = c  BY <2>1
  <2>3. c \in cs  BY <2>2
  <2>4. About(ever) = RowsAbout(ever, cs)
    BY <1>1, <1>26 DEF About, RowsAbout, Existing
  <2> HIDE DEF cs
  <2> QED  BY <1>2, <2>1, <2>3, <2>4, OfRowIsAbout
<1>27. CASE call.kind = "factoryAssets"
  <2>1. PICK c \in Companies : <<"site", Target, c>> \in ever
    BY <1>1, <1>27 DEF Told
  <2> DEFINE g == <<"site", Target, c>>
             there == {h \in ever : h[1] \in {"site"} /\ h[2] \in {Target}}
  <2>2. g \in ever /\ g[1] = "site" /\ g[2] = Target  BY <2>1
  <2>3. there # {}  BY <2>2
  <2>4. f[1] = "stands" /\ f[3] = Target  BY <1>1, <1>27 DEF Told
  <2>5. About(ever) = {h \in ever : h[1] = "stands" /\ h[3] = Target /\ there # {}}
    BY <1>1, <1>27 DEF About
  <2> QED  BY <1>2, <2>3, <2>4, <2>5
<1>28. CASE call.kind = "made"
  BY <1>1, <1>2, <1>28, Typed DEF Told, About, There, OfProfile, Mine, Wanted, SiteKinds
<1>29. CASE call.kind = "owned"
  BY <1>1, <1>2, <1>29, Typed DEF Told, About, There, OfProfile, Mine, Wanted, SiteKinds
<1>30. CASE call.kind = "pair"
  BY <1>1, <1>2, <1>30, Typed DEF Told, About, There, OfProfile, Mine, Wanted, SiteKinds
<1>31. CASE call.kind = "asset"
  BY <1>1, <1>2, <1>31, Typed DEF Told, About, There, OfProfile, Mine, Wanted, SiteKinds
<1>32. CASE call.kind = "maker"
  <2>1. PICK row \in Asset : <<"asset", Target, row>> \in ever /\ OfRow(call, ever, f, row.maker)
    BY <1>1, <1>32 DEF Told
  <2> DEFINE g == <<"asset", Target, row>>
             cs == {h[3].maker : h \in {h \in ever : h[1] \in {"asset"} /\ h[2] \in {Target}}}
  <2>2. g \in ever /\ g[1] = "asset" /\ g[2] = Target /\ g[3] = row  BY <2>1
  <2>3. row.maker \in cs  BY <2>2
  <2>4. About(ever) = RowsAbout(ever, cs)
    BY <1>1, <1>32 DEF About, RowsAbout, Existing
  <2> HIDE DEF cs
  <2> QED  BY <1>2, <2>1, <2>3, <2>4, OfRowIsAbout
<1>33. CASE call.kind = "owner"
  <2>1. PICK row \in Asset : <<"asset", Target, row>> \in ever /\ OfRow(call, ever, f, row.owner)
    BY <1>1, <1>33 DEF Told
  <2> DEFINE g == <<"asset", Target, row>>
             cs == {h[3].owner : h \in {h \in ever : h[1] \in {"asset"} /\ h[2] \in {Target}}}
  <2>2. g \in ever /\ g[1] = "asset" /\ g[2] = Target /\ g[3] = row  BY <2>1
  <2>3. row.owner \in cs  BY <2>2
  <2>4. About(ever) = RowsAbout(ever, cs)
    BY <1>1, <1>33 DEF About, RowsAbout, Existing
  <2> HIDE DEF cs
  <2> QED  BY <1>2, <2>1, <2>3, <2>4, OfRowIsAbout
<1>34. CASE call.kind = "location"
  <2>1. PICK row \in Asset : <<"asset", Target, row>> \in ever /\ f[2] = row.site
    BY <1>1, <1>34 DEF Told
  <2> DEFINE g == <<"asset", Target, row>>
             fs == {h[3].site : h \in {h \in ever : h[1] \in {"asset"} /\ h[2] \in {Target}}}
  <2>2. g \in ever /\ g[1] = "asset" /\ g[2] = Target /\ g[3] = row  BY <2>1
  <2>3. f[2] \in fs  BY <2>1, <2>2
  <2>4. f[1] = "site"  BY <1>34 DEF Told
  <2>5. About(ever) = {h \in ever : h[1] \in {"site"} /\ h[2] \in fs}
    BY <1>1, <1>34 DEF About
  <2> HIDE DEF fs
  <2> QED  BY <1>2, <2>3, <2>4, <2>5
<1> QED  BY <1>3, <1>4, <1>5, <1>6, <1>7, <1>8, <1>9, <1>10, <1>11, <1>12, <1>13, <1>14, <1>15,
      <1>16, <1>17, <1>18, <1>19, <1>20, <1>21, <1>22, <1>23, <1>24, <1>25, <1>26, <1>27, <1>28,
            <1>29, <1>30, <1>31, <1>32, <1>33, <1>34 DEF AllKinds

\* Each fact of an answer was true and asked for.
LEMMA AnswersHold == DirInv => AnswersWereTrue
<1> SUFFICES ASSUME DirInv, pc = "answered", NEW f \in found
             PROVE  f \in About(ever) \/ Torn(f)
  BY DEF AnswersWereTrue
<1>1. PICK sn \in Holding : Sound(call, <<>>, sn, found, ever)
  BY DEF DirInv, Answered
<1>2. Told(call, ever, f) \/ (f[1] = "role" /\ Swapped(ever, f[2]))
  BY <1>1 DEF Sound, True
<1>3. CASE Told(call, ever, f)  BY <1>1, <1>3, ToldIsAbout DEF Sound
<1>4. CASE f[1] = "role" /\ Swapped(ever, f[2])  BY <1>4, SwappedIsRegranted DEF Torn
<1> QED  BY <1>2, <1>3, <1>4

\* The types of every table and of what a query holds; and no handler ever reads a
\* role by a grant, or a factory by a row, that it has not found.
THEOREM TypesStay == Spec => []TypeOK
BY DirInvariant, TypesHold, PTL

\* Whatever is read, in whatever order the changes of others fall between the reads:
\* a fact that is a company's own is answered only to that company, or for the place
\* of a machine to its builder and owner, and to a user who had the permission at
\* some moment since the query arrived or whose grant was replaced meanwhile.
THEOREM NothingLeaks == Spec => []PrivateFactsStayHome
BY DirInvariant, PrivateHolds, PTL

\* Every fact of an answer, those joined from several reads too, was true at some
\* moment since the query arrived, and is one the query asks for; but the role of a
\* user whose grant was replaced meanwhile.
THEOREM NothingMadeUp == Spec => []AnswersWereTrue
BY DirInvariant, AnswersHold, PTL

-----------------------------------------------------------------------------
(* The forms of facts.                                                     *)

\* The shapes of facts.
Formed(f) ==
    \/ \E c \in Companies : f \in {<<"company", c>>, <<"record", c>>, <<"certified", c>>}
    \/ \E c \in Companies, k \in Categories : f = <<"category", c, k>>
    \/ \E u \in Users : f \in {<<"user", u, HomeOf[u]>>, <<"reader", u>>}
    \/ \E u \in Users, g \in Groups \cup {None} : f = <<"grant", u, g>>
    \/ \E u \in Users, n \in Names \cup {None} : f = <<"role", u, n>>
    \/ \E g \in Groups, row \in Group : f = <<"group", g, row>>
    \/ \E x \in Factories : f \in {<<"factory", x, HomeOf[x]>>, <<"site", x, HomeOf[x]>>}
    \/ \E a \in Assets, row \in Asset : f \in {<<"asset", a, row>>, <<"stands", a, row.site>>}

\* What a fact of each kind says.
LEMMA TruthForms ==
    ASSUME NEW f \in Truth
    PROVE  \/ f[1] \in {"company", "record"} /\ f = <<f[1], f[2]>> /\ f[2] \in companies
           \/ /\ f[1] = "category" /\ f[2] \in Companies /\ category[f[2]] # None
              /\ f = <<"category", f[2], category[f[2]]>>
           \/ f[1] = "certified" /\ f = <<"certified", f[2]>> /\ f[2] \in certified
           \/ /\ f[1] = "user" /\ f[2] \in Users /\ employer[f[2]] # None
              /\ f = <<"user", f[2], employer[f[2]]>>
           \/ f[1] = "grant" /\ f[2] \in Users /\ f = <<"grant", f[2], grants[f[2]]>>
           \/ f[1] = "role" /\ f[2] \in Users /\ f = <<"role", f[2], RoleOf(f[2])>>
           \/ f[1] = "reader" /\ f[2] \in Users /\ Reads(f[2]) /\ f = <<"reader", f[2]>>
           \/ /\ f[1] = "group" /\ f[2] \in Groups /\ groups[f[2]] # None
              /\ f = <<"group", f[2], groups[f[2]]>>
           \/ /\ f[1] \in {"factory", "site"} /\ f[2] \in Factories /\ sites[f[2]] # None
              /\ f = <<f[1], f[2], sites[f[2]]>>
           \/ /\ f[1] = "asset" /\ f[2] \in Assets /\ assets[f[2]] # None
              /\ f = <<"asset", f[2], assets[f[2]]>>
           \/ /\ f[1] = "stands" /\ f[2] \in Assets /\ assets[f[2]] # None
              /\ f = <<"stands", f[2], assets[f[2]].site>>
<1>1. CASE \E what \in {"company", "record"}, c \in companies : f = <<what, c>>  BY <1>1
<1>2. CASE \E c \in Companies : category[c] # None /\ f = <<"category", c, category[c]>>  BY <1>2
<1>3. CASE \E c \in certified : f = <<"certified", c>>  BY <1>3
<1>4. CASE \E u \in Users : employer[u] # None /\ f = <<"user", u, employer[u]>>  BY <1>4
<1>5. CASE \E u \in Users : f = <<"grant", u, grants[u]>>  BY <1>5
<1>6. CASE \E u \in Users : f = <<"role", u, RoleOf(u)>>  BY <1>6
<1>7. CASE \E u \in Users : Reads(u) /\ f = <<"reader", u>>  BY <1>7
<1>8. CASE \E g \in Groups : groups[g] # None /\ f = <<"group", g, groups[g]>>  BY <1>8
<1>9. CASE \E what \in {"factory", "site"}, x \in Factories :
             sites[x] # None /\ f = <<what, x, sites[x]>>
  BY <1>9
<1>10. CASE \E a \in Assets : assets[a] # None /\ f = <<"asset", a, assets[a]>>  BY <1>10
<1>11. CASE \E a \in Assets : assets[a] # None /\ f = <<"stands", a, assets[a].site>>  BY <1>11
<1>12. \/ \E what \in {"company", "record"}, c \in companies : f = <<what, c>>
       \/ \E c \in Companies : category[c] # None /\ f = <<"category", c, category[c]>>
       \/ \E c \in certified : f = <<"certified", c>>
       \/ \E u \in Users : employer[u] # None /\ f = <<"user", u, employer[u]>>
       \/ \E u \in Users : f = <<"grant", u, grants[u]>>
       \/ \E u \in Users : f = <<"role", u, RoleOf(u)>>
       \/ \E u \in Users : Reads(u) /\ f = <<"reader", u>>
       \/ \E g \in Groups : groups[g] # None /\ f = <<"group", g, groups[g]>>
       \/ \E what \in {"factory", "site"}, x \in Factories :
             sites[x] # None /\ f = <<what, x, sites[x]>>
       \/ \E a \in Assets : assets[a] # None /\ f = <<"asset", a, assets[a]>>
       \/ \E a \in Assets : assets[a] # None /\ f = <<"stands", a, assets[a].site>>
  BY DEF Truth
<1> QED
  BY <1>1, <1>2, <1>3, <1>4, <1>5, <1>6, <1>7, <1>8, <1>9, <1>10, <1>11, <1>12

\* What is true has one of the forms of a fact.
LEMMA TruthIsFormed ==
    ASSUME Tables, Settled, NEW f \in Truth
    PROVE  Formed(f)
<1> USE DEF Tables, Settled
<1>1. CASE f[1] \in {"company", "record", "certified"}
  <2>1. f = <<f[1], f[2]>> /\ f[2] \in Companies  BY <1>1, TruthForms
  <2> QED  BY <1>1, <2>1 DEF Formed
<1>2. CASE f[1] = "category"
  <2>1. f[2] \in Companies /\ category[f[2]] \in Categories
        /\ f = <<"category", f[2], category[f[2]]>>
    BY <1>2, TruthForms
  <2> QED  BY <2>1 DEF Formed
<1>3. CASE f[1] \in {"user", "reader"}
  <2>1. f[2] \in Users /\ f \in {<<"user", f[2], HomeOf[f[2]]>>, <<"reader", f[2]>>}
    BY <1>3, TruthForms
  <2> QED  BY <2>1 DEF Formed
<1>4. CASE f[1] = "grant"
  <2>1. f[2] \in Users /\ grants[f[2]] \in Groups \cup {None} /\ f = <<"grant", f[2], grants[f[2]]>>
    BY <1>4, TruthForms
  <2> QED  BY <2>1 DEF Formed
<1>5. CASE f[1] = "role"
  <2>1. f[2] \in Users /\ f = <<"role", f[2], RoleOf(f[2])>>  BY <1>5, TruthForms
  <2>2. RoleOf(f[2]) \in Names \cup {None}  BY <2>1 DEF RoleOf, Group
  <2> QED  BY <2>1, <2>2 DEF Formed
<1>6. CASE f[1] = "group"
  <2>1. f[2] \in Groups /\ groups[f[2]] \in Group /\ f = <<"group", f[2], groups[f[2]]>>
    BY <1>6, TruthForms
  <2> QED  BY <2>1 DEF Formed
<1>7. CASE f[1] \in {"factory", "site"}
  <2>1. f[2] \in Factories /\ f = <<f[1], f[2], HomeOf[f[2]]>>  BY <1>7, TruthForms
  <2> QED  BY <1>7, <2>1 DEF Formed
<1>8. CASE f[1] \in {"asset", "stands"}
  <2>1. f[2] \in Assets /\ assets[f[2]] \in Asset
        /\ f \in {<<"asset", f[2], assets[f[2]]>>, <<"stands", f[2], assets[f[2]].site>>}
    BY <1>8, TruthForms
  <2> QED  BY <2>1 DEF Formed
<1>9. f[1] \in {"company", "record", "certified", "category", "user", "reader", "grant", "role",
                "group", "factory", "site", "asset", "stands"}
  BY TruthForms
<1> QED  BY <1>1, <1>2, <1>3, <1>4, <1>5, <1>6, <1>7, <1>8, <1>9

\* The first word of a fact tells its form.
LEMMA FormsOf ==
    ASSUME NEW f, Formed(f)
    PROVE  /\ f[1] \in {"company", "record", "certified"} => f = <<f[1], f[2]>> /\ f[2] \in Companies
           /\ f[1] = "category" =>
                f = <<"category", f[2], f[3]>> /\ f[2] \in Companies /\ f[3] \in Categories
           /\ f[1] = "user" => f = <<"user", f[2], f[3]>> /\ f[2] \in Users /\ f[3] = HomeOf[f[2]]
           /\ f[1] = "reader" => f = <<"reader", f[2]>> /\ f[2] \in Users
           /\ f[1] = "grant" =>
                f = <<"grant", f[2], f[3]>> /\ f[2] \in Users /\ f[3] \in Groups \cup {None}
           /\ f[1] = "role" => f = <<"role", f[2], f[3]>> /\ f[2] \in Users
           /\ f[1] = "group" => f = <<"group", f[2], f[3]>> /\ f[2] \in Groups /\ f[3] \in Group
           /\ f[1] \in {"site", "factory"} =>
                f = <<f[1], f[2], f[3]>> /\ f[2] \in Factories /\ f[3] = HomeOf[f[2]]
           /\ f[1] = "asset" => f = <<"asset", f[2], f[3]>> /\ f[2] \in Assets /\ f[3] \in Asset
           /\ f[1] = "stands" => f = <<"stands", f[2], f[3]>> /\ f[2] \in Assets
<1>1. CASE \E c \in Companies : f \in {<<"company", c>>, <<"record", c>>, <<"certified", c>>}
  BY <1>1
<1>2. CASE \E c \in Companies, k \in Categories : f = <<"category", c, k>>  BY <1>2
<1>3. CASE \E u \in Users : f \in {<<"user", u, HomeOf[u]>>, <<"reader", u>>}  BY <1>3
<1>4. CASE \E u \in Users, g \in Groups \cup {None} : f = <<"grant", u, g>>  BY <1>4
<1>5. CASE \E u \in Users, n \in Names \cup {None} : f = <<"role", u, n>>  BY <1>5
<1>6. CASE \E g \in Groups, row \in Group : f = <<"group", g, row>>  BY <1>6
<1>7. CASE \E x \in Factories : f \in {<<"factory", x, HomeOf[x]>>, <<"site", x, HomeOf[x]>>}
  BY <1>7
<1>8. CASE \E a \in Assets, row \in Asset : f \in {<<"asset", a, row>>, <<"stands", a, row.site>>}
  BY <1>8
<1> QED  BY <1>1, <1>2, <1>3, <1>4, <1>5, <1>6, <1>7, <1>8 DEF Formed

\* A company of which something is known is there.
LEMMA ExistingIsThere ==
    ASSUME NEW F, \A f \in F : Formed(f), NEW c \in Existing(F)
    PROVE  There(F, c) /\ c \in Companies
<1>1. PICK f \in F : f[1] = "company" /\ f[2] = c  BY DEF Existing
<1> QED  BY <1>1, FormsOf DEF There

\* The rows of a company are its facts.
LEMMA RowsAboutAreOf ==
    ASSUME NEW F, \A f \in F : Formed(f), NEW cs, NEW f \in RowsAbout(F, cs)
    PROVE  f \in F /\ f[2] \in cs /\ OfRow(call, F, f, f[2])
<1>1. \A c : Claims(Caller) = c <=> Mine(call, c)  BY DEF Mine, Caller
<1> QED  BY <1>1, ExistingIsThere DEF RowsAbout, OfRow, OfProfile

\* What the property counts as asked for is what the proof does.
LEMMA AboutIsTold ==
    ASSUME NEW F, \A g \in F : Formed(g), NEW f \in About(F), NEW td, Shape(call, td)
    PROVE  Told(call, F, f)
<1>1. Kind = call.kind /\ Caller = call.caller /\ Target = call.target /\ Asked = CompanyOf(call)
      /\ AskedUser = UserOf(call) /\ \A c : IsOwn(c) <=> Mine(call, c)
  BY QueryNames
<1>2. call.kind \in AllKinds  BY DirectoryAssumption DEF Shape
<1>3. \A c : (\E g \in F : g[1] = "company" /\ g[2] = c) => There(F, c) /\ c \in Companies
  BY ExistingIsThere DEF Existing
<1>4. CASE call.kind = "details"
  <2>1. About(F) = RowsAbout(F, {Target})
    BY <1>1, <1>4 DEF About, RowsAbout, Existing
  <2> QED  BY <1>1, <1>4, <2>1, RowsAboutAreOf DEF Told
<1>5. CASE call.kind = "record"
  <2>1. About(F) = RowsAbout(F, {Target})
    BY <1>1, <1>5 DEF About, RowsAbout, Existing
  <2> QED  BY <1>1, <1>5, <2>1, RowsAboutAreOf DEF Told
<1>6. CASE call.kind = "roster"
  BY <1>1, <1>3, <1>6, Typed, FormsOf, DirectoryAssumption DEF Told, About, OfProfile, Mine,
        Wanted, SiteKinds
<1>7. CASE call.kind = "owners"
  <2> DEFINE those == {h \in {h \in F : h[1] = "asset"} :
                         h[3].maker = Target /\ Target \in Existing(F)}
  <2>1. About(F) = {h \in F : h[1] \in {"company"} /\ h[2] \in {e[3].owner : e \in those}}
    BY <1>1, <1>7 DEF About, Existing
  <2>2. f \in F /\ f[1] = "company"  BY <2>1
  <2>3. PICK e \in those : f[2] = e[3].owner  BY <2>1
  <2>4. e \in F /\ e[1] = "asset" /\ e[3].maker = Target /\ There(F, Target)
    BY <2>3, ExistingIsThere
  <2>5. <<"asset", e[2], e[3]>> \in F /\ e[2] \in Assets /\ e[3] \in Asset  BY <2>4, FormsOf
  <2> QED  BY <1>1, <1>7, <2>2, <2>3, <2>4, <2>5 DEF Told
<1>8. CASE call.kind = "category"
  BY <1>1, <1>3, <1>8, Typed, FormsOf, DirectoryAssumption DEF Told, About, OfProfile, Mine,
        Wanted, SiteKinds
<1>9. CASE call.kind = "taken"
  BY <1>1, <1>3, <1>9, Typed, FormsOf, DirectoryAssumption DEF Told, About, OfProfile, Mine,
        Wanted, SiteKinds
<1>10. CASE call.kind = "all"
  BY <1>1, <1>3, <1>10, Typed, FormsOf, DirectoryAssumption DEF Told, About, OfProfile, Mine,
        Wanted, SiteKinds
<1>11. CASE call.kind = "listed"
  BY <1>1, <1>3, <1>11, Typed, FormsOf, DirectoryAssumption DEF Told, About, OfProfile, Mine,
        Wanted, SiteKinds
<1>12. CASE call.kind = "both"
  BY <1>1, <1>3, <1>12, Typed, FormsOf, DirectoryAssumption DEF Told, About, OfProfile, Mine,
        Wanted, SiteKinds
<1>13. CASE call.kind = "page"
  BY <1>1, <1>3, <1>13, Typed, FormsOf, DirectoryAssumption DEF Told, About, OfProfile, Mine,
        Wanted, SiteKinds
<1>14. CASE call.kind = "groups"
  BY <1>1, <1>3, <1>14, Typed, FormsOf, DirectoryAssumption DEF Told, About, OfProfile, Mine,
        Wanted, SiteKinds
<1>15. CASE call.kind = "group"
  BY <1>1, <1>3, <1>15, Typed, FormsOf, DirectoryAssumption DEF Told, About, OfProfile, Mine,
        Wanted, SiteKinds
<1>16. CASE call.kind = "namedGroup"
  BY <1>1, <1>3, <1>16, Typed, FormsOf, DirectoryAssumption DEF Told, About, OfProfile, Mine,
        Wanted, SiteKinds
<1>17. CASE call.kind = "users"
  BY <1>1, <1>3, <1>17, Typed, FormsOf, DirectoryAssumption DEF Told, About, OfProfile, Mine,
        Wanted, SiteKinds
<1>18. CASE call.kind = "access"
  BY <1>1, <1>3, <1>18, Typed, FormsOf, DirectoryAssumption DEF Told, About, OfProfile, Mine,
        Wanted, SiteKinds
<1>19. CASE call.kind = "user"
  BY <1>1, <1>3, <1>19, Typed, FormsOf, DirectoryAssumption DEF Told, About, OfProfile, Mine,
        Wanted, SiteKinds
<1>20. CASE call.kind = "profile"
  BY <1>1, <1>3, <1>20, Typed, FormsOf, DirectoryAssumption DEF Told, About, OfProfile, Mine,
        Wanted, SiteKinds
<1>21. CASE call.kind = "grant"
  BY <1>1, <1>3, <1>21, Typed, FormsOf, DirectoryAssumption DEF Told, About, OfProfile, Mine,
        Wanted, SiteKinds
<1>22. CASE call.kind = "indexed"
  BY <1>1, <1>3, <1>22, Typed, FormsOf, DirectoryAssumption DEF Told, About, OfProfile, Mine,
        Wanted, SiteKinds
<1>23. CASE call.kind = "factories"
  BY <1>1, <1>3, <1>23, Typed, FormsOf, DirectoryAssumption DEF Told, About, OfProfile, Mine,
        Wanted, SiteKinds
<1>24. CASE call.kind = "directory"
  BY <1>1, <1>3, <1>24, Typed, FormsOf, DirectoryAssumption DEF Told, About, OfProfile, Mine,
        Wanted, SiteKinds
<1>25. CASE call.kind = "factory"
  BY <1>1, <1>3, <1>25, Typed, FormsOf, DirectoryAssumption DEF Told, About, OfProfile, Mine,
        Wanted, SiteKinds
<1>26. CASE call.kind = "factoryOwner"
  <2> DEFINE cs == {h[3] : h \in {h \in F : h[1] \in {"site"} /\ h[2] \in {Target}}}
  <2>1. About(F) = RowsAbout(F, cs)
    BY <1>1, <1>26 DEF About, RowsAbout, Existing
  <2>2. \A c \in cs : <<"site", Target, c>> \in F /\ c \in Companies
    BY FormsOf, DirectoryAssumption
  <2> HIDE DEF cs
  <2> QED  BY <1>1, <1>26, <2>1, <2>2, RowsAboutAreOf DEF Told
<1>27. CASE call.kind = "factoryAssets"
  BY <1>1, <1>3, <1>27, Typed, FormsOf, DirectoryAssumption DEF Told, About, OfProfile, Mine,
        Wanted, SiteKinds
<1>28. CASE call.kind = "made"
  BY <1>1, <1>3, <1>28, Typed, FormsOf, DirectoryAssumption DEF Told, About, OfProfile, Mine,
        Wanted, SiteKinds
<1>29. CASE call.kind = "owned"
  BY <1>1, <1>3, <1>29, Typed, FormsOf, DirectoryAssumption DEF Told, About, OfProfile, Mine,
        Wanted, SiteKinds
<1>30. CASE call.kind = "pair"
  BY <1>1, <1>3, <1>30, Typed, FormsOf, DirectoryAssumption DEF Told, About, OfProfile, Mine,
        Wanted, SiteKinds
<1>31. CASE call.kind = "asset"
  BY <1>1, <1>3, <1>31, Typed, FormsOf, DirectoryAssumption DEF Told, About, OfProfile, Mine,
        Wanted, SiteKinds
<1>32. CASE call.kind = "maker"
  <2> DEFINE cs == {h[3].maker : h \in {h \in F : h[1] \in {"asset"} /\ h[2] \in {Target}}}
  <2>1. About(F) = RowsAbout(F, cs)
    BY <1>1, <1>32 DEF About, RowsAbout, Existing
  <2>2. \A c \in cs : \E row \in Asset : <<"asset", Target, row>> \in F /\ c = row.maker
    BY FormsOf
  <2> HIDE DEF cs
  <2>3. f \in F /\ f[2] \in cs /\ OfRow(call, F, f, f[2])  BY <2>1, RowsAboutAreOf
  <2> QED  BY <1>1, <1>32, <2>2, <2>3 DEF Told
<1>33. CASE call.kind = "owner"
  <2> DEFINE cs == {h[3].owner : h \in {h \in F : h[1] \in {"asset"} /\ h[2] \in {Target}}}
  <2>1. About(F) = RowsAbout(F, cs)
    BY <1>1, <1>33 DEF About, RowsAbout, Existing
  <2>2. \A c \in cs : \E row \in Asset : <<"asset", Target, row>> \in F /\ c = row.owner
    BY FormsOf
  <2> HIDE DEF cs
  <2>3. f \in F /\ f[2] \in cs /\ OfRow(call, F, f, f[2])  BY <2>1, RowsAboutAreOf
  <2> QED  BY <1>1, <1>33, <2>2, <2>3 DEF Told
<1>34. CASE call.kind = "location"
  <2> DEFINE fs == {h[3].site : h \in {h \in F : h[1] \in {"asset"} /\ h[2] \in {Target}}}
  <2>1. About(F) = {h \in F : h[1] \in {"site"} /\ h[2] \in fs}
    BY <1>1, <1>34 DEF About
  <2>2. \A x \in fs : \E row \in Asset : <<"asset", Target, row>> \in F /\ x = row.site
    BY FormsOf
  <2> HIDE DEF fs
  <2> QED  BY <1>1, <1>34, <2>1, <2>2 DEF Told
<1> QED  BY <1>2, <1>4, <1>5, <1>6, <1>7, <1>8, <1>9, <1>10, <1>11, <1>12, <1>13, <1>14, <1>15,
      <1>16, <1>17, <1>18, <1>19, <1>20, <1>21, <1>22, <1>23, <1>24, <1>25, <1>26, <1>27, <1>28,
            <1>29, <1>30, <1>31, <1>32, <1>33, <1>34 DEF AllKinds

-----------------------------------------------------------------------------
(* What lasts is not missing: what a query still owes.                     *)

\* What has to last for an answer to be complete.
Whole(q, av) ==
    /\ q.kind \notin {"page", "namedGroup"}
    /\ q.kind = "indexed" => \E c \in Companies, k \in Categories, g \in Groups :
         {<<"company", q.target[1]>>, <<"user", q.target[2], c>>, <<"category", c, k>>,
          <<"grant", q.target[2], g>>} \subseteq av

\* The company whose row is looked for last.
Sought(q, sn) ==
    CASE q.kind = "maker" -> sn.row.maker
      [] q.kind = "owner" -> sn.row.owner
      [] OTHER -> sn.company

\* That a read that is done has missed nothing that lasts.
Covers(q, td, sn, av, ev) ==
    /\ Did(q, td, "mapped") => \A c :
         There(av, c) /\ (\E k \in Wanted(q) : <<"category", c, k>> \in av) => c \in sn.listed
    /\ Did(q, td, "every") => \A c : There(av, c) => c \in sn.listed
    /\ Did(q, td, "twins") => \A a, row :
         <<"asset", a, row>> \in av /\ row.maker = q.target => row.owner \in sn.listed \cup {None}
    /\ Did(q, td, "present") /\ q.kind # "both"
          => (There(av, Sought(q, sn)) => Sought(q, sn) \in sn.listed)
    /\ Did(q, td, "asset") => \A row : <<"asset", q.target, row>> \in av => row = sn.row
    /\ Did(q, td, "users") /\ q.kind = "access" =>
         \A u : <<"user", u, q.target>> \in av => u \in sn.users
    /\ Did(q, td, "grants") => \A u \in sn.users :
         (\E h \in sn.held : h[1] = u) \/ <<"grant", u, None>> \in ev

\* The step that answers with fact f.
Source(q, f) ==
    CASE q.kind \in {"details", "record", "both", "factoryOwner", "maker", "owner"} -> "show"
      [] q.kind \in {"owners", "listed"} -> "named"
      [] q.kind = "category" -> "mapping"
      [] q.kind = "taken" -> IF f[2] = q.target[1] THEN "name" ELSE "number"
      [] q.kind = "all" -> (CASE f[1] = "company" -> "every" [] f[1] = "category" -> "mappings"
                              [] OTHER -> "certificates")
      [] q.kind = "roster" -> IF f[1] = "user" THEN "users" ELSE "mapping"
      [] q.kind = "access" -> IF f[1] = "user" THEN "users" ELSE "names"
      [] q.kind = "profile" -> "names"
      [] q.kind = "grant" -> "grantOf"
      [] q.kind = "indexed" -> (CASE f[1] = "company" -> "given" [] f[1] = "user" -> "user"
                                  [] f[1] = "category" -> "mapping" [] OTHER -> "names")
      [] q.kind = "groups" -> "groups"
      [] q.kind = "group" -> "role"
      [] q.kind = "users" -> "users"
      [] q.kind = "user" -> "user"
      [] q.kind = "factories" -> "ownSites"
      [] q.kind = "directory" -> "factories"
      [] q.kind = "factory" -> "site"
      [] q.kind = "factoryAssets" -> "assetsThere"
      [] q.kind \in {"made", "owned", "pair"} -> "assets"
      [] q.kind = "asset" -> "asset"
      [] OTHER -> "siteThere"
RoleInRoster(q, f) == q.kind = "roster" /\ f[1] = "role"

\* Whether step x answers with fact f; a role of the roster comes in its own way.
Yields(q, f, x) ==
    ~RoleInRoster(q, f) /\ (x = Source(q, f) \/ (q.kind = "roster" /\ x = "show"))

\* What is still to come.
Due(q, td, sn, f) ==
    \/ \E x \in Steps(td) : Yields(q, f, x)
    \/ /\ RoleInRoster(q, f)
       /\ \/ "users" \in Steps(td)
          \/ "eachGrant" \in Steps(td) /\ f[2] \in sn.users
          \/ "eachGroup" \in Steps(td) /\ \E h \in sn.held : h[1] = f[2]

\* What an answer may lack.
Spared(f, sn, ev) == (f[1] = "role" /\ Swapped(ev, f[2])) \/ (f[1] = "certified" /\ sn.silent)

\* Each fact that lasts and is asked for is found, spared or due.
Owing(q, td, sn, fd, av, ev) ==
    Whole(q, av) => \A f : (Told(q, av, f) => f \in fd \/ Spared(f, sn, ev) \/ Due(q, td, sn, f))

\* No right that lasted.
Denied ==
    \/ IsUser(Caller) /\ (<<"reader", Caller.user>> \notin always \/ Regranted(Caller.user))
    \/ ~Entitled

\* All of it.
LastInv ==
    /\ DirInv
    /\ always \subseteq ever /\ \A f \in ever : Formed(f)
    /\ \A c : <<"record", c>> \in always => <<"company", c>> \in always
    /\ pc = "running" => /\ always \subseteq Truth
                         /\ Covers(call, todo, seen, always, ever)
                         /\ Owing(call, todo, seen, found, always, ever)
    /\ pc = "answered" => Shape(call, <<>>) /\ Owing(call, <<>>, seen, found, always, ever)
    /\ pc = "refused" => Denied

\* A read keeps it.
Paid ==
    /\ pc' = "running" => /\ Covers(call, todo', seen', always, ever)
                          /\ Owing(call, todo', seen', found', always, ever)
    /\ pc' = "answered" => Owing(call, <<>>, seen', found', always, ever)
    /\ pc' = "refused" => Denied

\* At the end nothing is ahead.
LEMMA NoSteps == Steps(<<>>) = {}
BY DEF Steps

\* An answer forgets what was held, but not whether ICID was silent.
LEMMA OwingAtEnd ==
    ASSUME NEW q, NEW sn, NEW s2, NEW fd, NEW av, NEW ev,
           Owing(q, <<>>, sn, fd, av, ev), s2.silent = sn.silent
    PROVE  Owing(q, <<>>, s2, fd, av, ev)
BY NoSteps DEF Owing, Due, Spared

\* A step that goes on pays when what it leaves is covered and owed.
LEMMA PaidOnGoing ==
    ASSUME pc = "running", NEW rest, NEW holds, Proceed(rest, holds),
           Covers(call, rest, holds, always, ever),
           Owing(call, rest, holds, found', always, ever)
    PROVE  Paid
<1>1. CASE rest = <<>>
  <2>1. pc' = "answered" /\ seen' = [Nothing EXCEPT !.silent = holds.silent]
    BY <1>1 DEF Proceed, Ends
  <2>2. seen'.silent = holds.silent  BY <2>1 DEF Nothing
  <2> QED  BY <1>1, <2>1, <2>2, OwingAtEnd DEF Paid
<1>2. CASE rest # <<>>
  <2>1. pc' = pc /\ todo' = rest /\ seen' = holds  BY <1>2 DEF Proceed
  <2> QED  BY <2>1 DEF Paid
<1> QED  BY <1>1, <1>2

\* An empty answer pays when nothing that lasts was asked for.
LEMMA PaidWithNothing ==
    ASSUME Empty, \A f : Whole(call, always) => ~Told(call, always, f)
    PROVE  Paid
BY DEF Empty, Ends, Paid, Owing

\* So does a refusal of one who had no right that lasted.
LEMMA PaidByRefusing == ASSUME Refuse, Denied PROVE Paid
BY DEF Refuse, Ends, Paid

\* A read pays what it yields.
LEMMA PaidByReading ==
    ASSUME LastInv, NEW x, At(x), NEW facts, NEW holds, Read(facts, holds),
           call.kind = "roster" =>
             x \notin {"users", "eachGrant", "eachGroup"} /\ holds.users = seen.users
                   /\ holds.held = seen.held,
           seen.silent => holds.silent,
           Covers(call, Tail(todo), holds, always, ever),
           \A f : Whole(call, always) /\ Told(call, always, f) /\ Yields(call, f, x) =>
                    f \in facts \/ Spared(f, holds, ever)
    PROVE  Paid
<1>1. /\ pc = "running" /\ todo # <<>> /\ Head(todo) = x /\ Shape(call, todo)
      /\ Owing(call, todo, seen, found, always, ever)
  BY Here DEF LastInv, At
<1>2. Steps(todo) = {x} \cup Steps(Tail(todo))  BY <1>1, TailOf
<1>3. Proceed(Tail(todo), holds) /\ found' = found \cup facts  BY DEF Read
<1>4. Owing(call, Tail(todo), holds, found', always, ever)
  <2> SUFFICES ASSUME Whole(call, always), NEW f, Told(call, always, f)
               PROVE  f \in found' \/ Spared(f, holds, ever) \/ Due(call, Tail(todo), holds, f)
    BY DEF Owing
  <2>1. f \in found \/ Spared(f, seen, ever) \/ Due(call, todo, seen, f)  BY <1>1 DEF Owing
  <2>2. Spared(f, seen, ever) => Spared(f, holds, ever)  BY DEF Spared
  <2>3. ASSUME Due(call, todo, seen, f), ~Due(call, Tail(todo), holds, f)
        PROVE  Yields(call, f, x)
    BY <1>2, <2>3 DEF Due, RoleInRoster
  <2> QED  BY <1>3, <2>1, <2>2, <2>3
<1> QED  BY <1>1, <1>3, <1>4, PaidOnGoing

\* The reads whose result Covers speaks of.
Gathering == {"mapped", "every", "twins", "present", "asset", "users", "grants"}

\* What the other reads have covered stays covered.
LEMMA CoversStays ==
    ASSUME NEW q, NEW td, NEW sn, NEW s2, NEW av, NEW ev, Shape(q, td), td # <<>>,
           Covers(q, td, sn, av, ev), Head(td) \notin Gathering,
           s2.listed = sn.listed, s2.users = sn.users, s2.held = sn.held, s2.row = sn.row,
           s2.company = sn.company
    PROVE  Covers(q, Tail(td), s2, av, ev)
<1>1. \A y \in Gathering : Did(q, Tail(td), y) => Did(q, td, y)  BY TailOf
<1>2. Sought(q, s2) = Sought(q, sn)  BY DEF Sought
<1> QED  BY <1>1, <1>2 DEF Covers, Gathering

\* A read that gathers nothing and yields nothing.
LEMMA PaidPlainly ==
    ASSUME LastInv, NEW x, At(x), x \notin Gathering \cup {"eachGrant", "eachGroup"}, NEW facts,
           NEW holds, Read(facts, holds),
           holds.listed = seen.listed, holds.users = seen.users, holds.held = seen.held,
           holds.row = seen.row, holds.company = seen.company, seen.silent => holds.silent,
           \A f : Whole(call, always) /\ Told(call, always, f) /\ Yields(call, f, x) =>
                    f \in facts \/ Spared(f, holds, ever)
    PROVE  Paid
<1>1. todo # <<>> /\ Head(todo) = x /\ Shape(call, todo) /\ Covers(call, todo, seen, always, ever)
  BY Here DEF LastInv, At
<1>2. Covers(call, Tail(todo), holds, always, ever)  BY <1>1, CoversStays
<1> QED  BY <1>2, PaidByReading DEF Gathering

\* What the invariant says when a step is next.
LEMMA Now ==
    ASSUME LastInv, NEW x, At(x)
    PROVE  /\ always \subseteq Truth /\ always \subseteq ever /\ \A f \in ever : Formed(f)
           /\ \A c : <<"record", c>> \in always => <<"company", c>> \in always
           /\ Covers(call, todo, seen, always, ever) /\ DirInv
BY DEF LastInv, At

-----------------------------------------------------------------------------
(* The checks pay nothing and owe nothing more.                            *)

\* The checks yield nothing.
Silent == {"match", "grant", "group", "itsCompany", "party", "partner", "home", "company",
           "mapped", "present", "twins", "grants"}

\* No fact comes from a step that only checks or gathers.
LEMMA SilentSteps == \A q, f : \A x \in Silent : ~Yields(q, f, x)
<1> SUFFICES ASSUME NEW q, NEW f PROVE \A x \in Silent : ~Yields(q, f, x)
  OBVIOUS
<1>1. Source(q, f) \notin Silent
  BY DEF Silent, Source
<1> QED  BY <1>1 DEF Yields, Silent

\* A check that passes.
LEMMA PaidByChecking ==
    ASSUME LastInv, NEW x, At(x), x \in {"match", "grant", "group", "itsCompany", "party",
           "partner"},
           NEW holds, Read({}, holds),
           holds.listed = seen.listed, holds.users = seen.users, holds.held = seen.held,
           holds.row = seen.row, holds.company = seen.company, holds.silent = seen.silent
    PROVE  Paid
<1>1. x \notin Gathering \cup {"eachGrant", "eachGroup"}  BY DEF Gathering
<1>2. \A f : ~Yields(call, f, x)  BY SilentSteps DEF Silent
<1> QED  BY <1>1, <1>2, PaidPlainly

\* Whose user or factory it is does not change.
LEMMA HomesLast ==
    ASSUME LastInv, NEW f \in always, f[1] \in {"user", "site"}
    PROVE  f[3] = HomeOf[f[2]]
BY FormsOf DEF LastInv

LEMMA MatchPaid == ASSUME LastInv, Match PROVE Paid
<1>1. At("match")  BY DEF Match
<1> DEFINE c == IF call.kind \in SiteKinds THEN seen.company ELSE CompanyOf(call)
<1>2. IF Mine(call, c) THEN Read({}, seen) ELSE Refuse
  BY QueryNames DEF Match, SiteKinds
<1>3. CASE Mine(call, c)  BY <1>1, <1>2, <1>3, PaidByChecking
<1>4. CASE ~Mine(call, c)
  <2>1. /\ Sound(call, todo, seen, found, ever) /\ Shape(call, todo) /\ todo # <<>>
        /\ Head(todo) = "match" /\ call.kind \in KindsWith("match")
    BY <1>1, Here DEF LastInv
  <2>2. Kind = call.kind /\ Target = call.target /\ Asked = CompanyOf(call)
        /\ \A k : IsOwn(k) <=> Mine(call, k)
    BY QueryNames
  <2>3. CASE call.kind \in SiteKinds
    <3>1. "site" \in Base(call.kind)  BY <2>3 DEF SiteKinds, Base
    <3>2. Did(call, todo, "site")  BY <2>1, <3>1, Earlier DEF Rank
    <3>3. seen.company = HomeOf[call.target]  BY <2>1, <3>2 DEF Sound, Known
    <3>4. \A f \in always : f[1] \in {"user", "site"} /\ f[2] = Target => ~Lasting(f[3])
      BY <1>4, <2>2, <2>3, <3>3, HomesLast DEF Lasting
    <3>5. ~Entitled  BY <2>2, <2>3, <3>4 DEF Entitled, SiteKinds
    <3> QED  BY <1>2, <1>4, <3>5, PaidByRefusing DEF Denied
  <2>4. CASE call.kind \notin SiteKinds
    <3>1. ~IsOwn(Asked)  BY <1>4, <2>2, <2>4
    <3>2. call.kind \in {"owners", "groups", "users", "access", "profile", "factories", "made",
          "owned"}
      BY <2>1, <2>4 DEF KindsWith, SiteKinds
    <3>3. ~Entitled  BY <2>2, <3>1, <3>2 DEF Entitled, Lasting
    <3> QED  BY <1>2, <1>4, <3>3, PaidByRefusing DEF Denied
  <2> QED  BY <2>3, <2>4
<1> QED  BY <1>3, <1>4

LEMMA FindGrantPaid == ASSUME LastInv, FindGrant PROVE Paid
<1>1. At("grant")  BY DEF FindGrant
<1>2. CASE grants[Caller.user] = None
  <2>1. ~Reads(Caller.user)  BY <1>2 DEF Reads
  <2>2. <<"reader", Caller.user>> \notin always
    <3>1. <<"reader", Caller.user>> \notin Truth  BY <2>1, TruthForms
    <3> QED  BY <1>1, <3>1, Now
  <2>3. IsUser(Caller)
    <3>1. Asks(call)  BY <1>1, Here, KindsOf DEF LastInv
    <3> QED  BY <3>1, QueryNames DEF Asks
  <2> QED  BY <1>2, <2>2, <2>3, PaidByRefusing DEF FindGrant, Denied
<1>3. CASE grants[Caller.user] # None
  <2>1. Read({}, [seen EXCEPT !.grant = grants[Caller.user]])  BY <1>3 DEF FindGrant
  <2>2. seen \in Holding  BY <1>1, Here DEF LastInv
  <2> QED  BY <1>1, <2>1, <2>2, PaidByChecking DEF Holding
<1> QED  BY <1>2, <1>3

LEMMA FindGroupPaid == ASSUME LastInv, FindGroup PROVE Paid
<1>1. At("group")  BY DEF FindGroup
<1>2. CASE groups[seen.grant] # None /\ groups[seen.grant].reads
  BY <1>1, <1>2, PaidByChecking DEF FindGroup
<1>3. CASE ~(groups[seen.grant] # None /\ groups[seen.grant].reads)
  <2>1. /\ Sound(call, todo, seen, found, ever) /\ Shape(call, todo) /\ todo # <<>>
        /\ Head(todo) = "group" /\ Truth \subseteq ever /\ Tables
    BY <1>1, Here DEF LastInv
  <2> DEFINE u == Caller.user
  <2>2. Asks(call) /\ Caller = call.caller  BY <2>1, KindsOf, QueryNames
  <2>3. u \in Users  BY <2>1, <2>2, Typed DEF Asks
  <2>4. "grant" \notin Steps(todo)
    <3>1. todo \in Seq(AllSteps) /\ Head(todo) = todo[1] /\ 1 \in DOMAIN todo
      BY <2>1 DEF Shape
    <3>2. \A i \in DOMAIN todo : todo[i] = "grant" => i # 1  BY <2>1, <3>1
    <3>3. \A i \in DOMAIN todo : i # 1 => 1 < i  BY <3>1
    <3> QED  BY <2>1, <3>1, <3>2, <3>3 DEF Steps, Shape, InOrder, MayPrecede
  <2>5. seen.grant \in Groups /\ <<"grant", u, seen.grant>> \in ever
    BY <2>1, <2>2, <2>4 DEF Sound, Barred
  <2>6. <<"grant", u, grants[u]>> \in ever /\ grants[u] \in Groups \cup {None}
    BY <2>1, <2>3, TruthHas DEF Tables
  <2>7. CASE grants[u] = seen.grant
    <3>1. ~Reads(u)  BY <1>3, <2>7 DEF Reads
    <3>2. <<"reader", u>> \notin Truth  BY <3>1, TruthForms
    <3>3. Denied  BY <1>1, <2>2, <3>2, Now DEF Denied, Asks
    <3> QED  BY <1>3, <3>3, PaidByRefusing DEF FindGroup
  <2>8. CASE grants[u] # seen.grant
    <3>1. Swapped(ever, u)  BY <2>5, <2>6, <2>8 DEF Swapped
    <3>2. Denied  BY <2>2, <3>1, SwappedIsRegranted DEF Denied, Asks
    <3> QED  BY <1>3, <3>2, PaidByRefusing DEF FindGroup
  <2> QED  BY <2>7, <2>8
<1> QED  BY <1>2, <1>3

LEMMA OwnRecordPaid == ASSUME LastInv, OwnRecord PROVE Paid
<1>1. At("itsCompany")  BY DEF OwnRecord
<1> DEFINE c == IF call.kind = "namedGroup" THEN CompanyOf(call) ELSE seen.company
<1>2. IF c \in companies /\ Mine(call, c) THEN Read({}, seen) ELSE Refuse
  BY QueryNames DEF OwnRecord
<1>3. CASE c \in companies /\ Mine(call, c)  BY <1>1, <1>2, <1>3, PaidByChecking
<1>4. CASE ~(c \in companies /\ Mine(call, c))
  <2>1. /\ Sound(call, todo, seen, found, ever) /\ Shape(call, todo) /\ todo # <<>>
        /\ Head(todo) = "itsCompany" /\ call.kind \in {"group", "namedGroup", "user"}
    BY <1>1, Here DEF LastInv, KindsWith
  <2>2. Kind = call.kind /\ Target = call.target /\ Asked = CompanyOf(call)
        /\ \A k : IsOwn(k) <=> Mine(call, k)
    BY QueryNames
  <2>3. ~Lasting(c)
    <3>1. ASSUME <<"company", c>> \in always PROVE c \in companies
      BY <1>1, <3>1, Now, TruthForms
    <3> QED  BY <1>4, <2>2, <3>1 DEF Lasting
  <2>4. ~Entitled
    <3>1. CASE call.kind = "namedGroup"  BY <2>2, <2>3, <3>1 DEF Entitled
    <3>2. CASE call.kind = "group"
      <4>1. "role" \in Base(call.kind)  BY <3>2 DEF Base
      <4>2. Did(call, todo, "role")  BY <2>1, <4>1, Earlier DEF Rank
      <4>3. seen.company = HomeOf[call.target]  BY <2>1, <4>2 DEF Sound, Known
      <4> QED  BY <2>2, <2>3, <3>2, <4>3 DEF Entitled
    <3>3. CASE call.kind = "user"
      <4>1. "user" \in Base(call.kind)  BY <3>3 DEF Base
      <4>2. Did(call, todo, "user")  BY <2>1, <4>1, Earlier DEF Rank
      <4>3. seen.company = HomeOf[call.target]  BY <2>1, <3>3, <4>2 DEF Sound, Known, UserOf
      <4>4. \A f \in always : f[1] \in {"user", "site"} /\ f[2] = Target => ~Lasting(f[3])
        BY <2>2, <2>3, <3>3, <4>3, HomesLast
      <4> QED  BY <2>2, <3>3, <4>4 DEF Entitled
    <3> QED  BY <2>1, <3>1, <3>2, <3>3
  <2> QED  BY <1>2, <1>4, <2>4, PaidByRefusing DEF Denied
<1> QED  BY <1>3, <1>4

LEMMA PartyPaid == ASSUME LastInv, Party PROVE Paid
<1>1. At("party")  BY DEF Party
<1>2. CASE \E c \in companies : IsOwn(c) /\ c \in {seen.row.maker, seen.row.owner}
  BY <1>1, <1>2, PaidByChecking DEF Party
<1>3. CASE ~\E c \in companies : IsOwn(c) /\ c \in {seen.row.maker, seen.row.owner}
  <2>1. /\ Shape(call, todo) /\ todo # <<>> /\ Head(todo) = "party"
        /\ call.kind \in {"asset", "maker", "owner", "location"}
    BY <1>1, Here DEF LastInv, KindsWith
  <2>2. Kind = call.kind /\ Target = call.target  BY QueryNames
  <2>3. "asset" \in Base(call.kind)  BY <2>1 DEF Base
  <2>4. Did(call, todo, "asset")  BY <2>1, <2>3, Earlier DEF Rank
  <2>5. ASSUME NEW f \in always, f[1] = "asset", f[2] = Target, NEW c \in OwnersOf(f), Lasting(c)
        PROVE  FALSE
    <3>1. f = <<"asset", call.target, f[3]>>  BY <1>1, <2>2, <2>5, Now, FormsOf
    <3>2. f[3] = seen.row  BY <1>1, <2>4, <3>1, Now DEF Covers
    <3>3. c \in {seen.row.maker, seen.row.owner}  BY <2>5, <3>2 DEF OwnersOf
    <3>4. <<"company", c>> \in Truth /\ IsOwn(c)  BY <1>1, <2>5, Now DEF Lasting
    <3>5. c \in companies  BY <3>4, TruthForms
    <3> QED  BY <1>3, <3>3, <3>4, <3>5
  <2>6. ~Entitled  BY <2>1, <2>2, <2>5 DEF Entitled
  <2> QED  BY <1>3, <2>6, PaidByRefusing DEF Party, Denied
<1> QED  BY <1>2, <1>3

LEMMA PartnerPaid == ASSUME LastInv, Partner PROVE Paid
<1>1. At("partner") /\ call.kind = "pair"  BY Here DEF LastInv, Partner, KindsWith
<1>2. Kind = call.kind /\ Target = call.target /\ Asked = call.target[1]
      /\ \A k : IsOwn(k) <=> Mine(call, k)
  BY <1>1, QueryNames DEF CompanyOf
<1>3. CASE Target[2] \notin companies
  <2>1. ~There(always, Target[2])  BY <1>1, <1>3, Now, TruthForms DEF There
  <2>2. \A f : ~Told(call, always, f)  BY <1>1, <1>2, <2>1 DEF Told
  <2> QED  BY <1>3, <2>2, PaidWithNothing DEF Partner
<1>4. CASE Target[2] \in companies /\ \E c \in Companies : IsOwn(c) /\ c \in {Target[1], Target[2]}
  BY <1>1, <1>4, PaidByChecking DEF Partner
<1>5. CASE Target[2] \in companies /\ ~\E c \in Companies : IsOwn(c) /\ c \in {Target[1], Target[2]}
  <2>1. Target[1] \in Companies /\ Target[2] \in Companies
    BY <1>1, <1>2, Here, Typed DEF LastInv
  <2>2. ~IsOwn(Asked) /\ ~IsOwn(Target[2])  BY <1>2, <1>5, <2>1
  <2>3. ~Entitled  BY <1>1, <1>2, <2>2 DEF Entitled
  <2> QED  BY <1>5, <2>3, PaidByRefusing DEF Partner, Denied
<1> QED  BY <1>3, <1>4, <1>5

LEMMA ChecksPaid == ASSUME LastInv, Checks PROVE Paid
BY MatchPaid, FindGrantPaid, FindGroupPaid, OwnRecordPaid, PartyPaid, PartnerPaid DEF Checks

-----------------------------------------------------------------------------
(* The reads of companies pay what they owe.                               *)

\* After the first step nothing else has been done.
LEMMA FirstDone ==
    ASSUME NEW q, NEW td, Shape(q, td), td # <<>>, Head(td) \in Base(q.kind), Rank(Head(td)) = 1,
           NEW y, Did(q, Tail(td), y)
    PROVE  y = Head(td)
<1> SUFFICES ASSUME y # Head(td) PROVE FALSE
  OBVIOUS
<1>1. Did(q, td, y)  BY TailOf
<1>2. Rank(y) < 1  BY <1>1, Later
<1> QED  BY <1>2 DEF Rank

\* A step that is no check belongs to the plan of its kind.
LEMMA InBase ==
    ASSUME NEW q, NEW td, Shape(q, td), td # <<>>,
           Head(td) \notin {"grant", "group", "show", "eachGroup"}
    PROVE  Head(td) \in Base(q.kind)
BY KindsOf

\* What is so all along is so now.
LEMMA NowTrue ==
    ASSUME LastInv, pc = "running"
    PROVE  /\ \A c : There(always, c) => c \in companies
           /\ \A c : <<"record", c>> \in always => There(always, c)
           /\ \A c, k : <<"category", c, k>> \in always => c \in Companies /\ category[c] = k
                 /\ k # None
           /\ \A u, c : <<"user", u, c>> \in always =>
                u \in Users /\ employer[u] = c /\ c # None /\ c = HomeOf[u]
           /\ \A u, g : <<"grant", u, g>> \in always => u \in Users /\ grants[u] = g
           /\ \A x, c : <<"site", x, c>> \in always =>
                x \in Factories /\ sites[x] = c /\ c # None /\ c = HomeOf[x]
           /\ \A a, row : <<"asset", a, row>> \in always => a \in Assets /\ assets[a] = row
                 /\ row # None
<1>1. always \subseteq Truth /\ \A c : <<"record", c>> \in always => <<"company", c>> \in always
  BY DEF LastInv
<1>2. \A c : There(always, c) => c \in companies  BY <1>1, TruthForms DEF There
<1>3. \A c : <<"record", c>> \in always => There(always, c)  BY <1>1 DEF There
<1>4. \A c, k : <<"category", c, k>> \in always => c \in Companies /\ category[c] = k /\ k # None
  BY <1>1, TruthForms
<1>5. \A u, c : <<"user", u, c>> \in always => u \in Users /\ employer[u] = c /\ c # None
  BY <1>1, TruthForms
<1>6. \A u, g : <<"grant", u, g>> \in always => u \in Users /\ grants[u] = g
  BY <1>1, TruthForms
<1>7. \A x, c : <<"site", x, c>> \in always => x \in Factories /\ sites[x] = c /\ c # None
  BY <1>1, TruthForms
<1>8. \A a, row : <<"asset", a, row>> \in always => a \in Assets /\ assets[a] = row /\ row # None
  BY <1>1, TruthForms
<1>9. Settled  BY DEF LastInv, DirInv
<1> QED  BY <1>2, <1>3, <1>4, <1>5, <1>6, <1>7, <1>8, <1>9 DEF Settled

LEMMA FindCompanyPaid == ASSUME LastInv, FindCompany PROVE Paid
<1>1. At("company") /\ pc = "running"  BY DEF FindCompany, At
<1>2. /\ Shape(call, todo) /\ todo # <<>> /\ Head(todo) = "company" /\ seen \in Holding
      /\ call.kind \in KindsWith("company")
  BY <1>1, Here DEF LastInv
<1>3. CASE CompanyOf(call) \notin companies
  <2>1. ~There(always, CompanyOf(call)) /\ <<"record", CompanyOf(call)>> \notin always
    BY <1>1, <1>3, NowTrue
  <2>2. ASSUME NEW f, Told(call, always, f) PROVE FALSE
    <3>1. f \in always /\ Formed(f)  BY <1>1, <2>2, Now DEF Told
    <3>2. f[1] = "record" => f = <<"record", f[2]>>  BY <3>1, FormsOf
    <3>3. CASE call.kind \in {"details", "record"}
      BY <2>1, <2>2, <3>1, <3>2, <3>3, Typed, <1>2 DEF Told, OfRow, OfProfile
    <3>4. CASE call.kind \in {"roster", "owners", "category", "groups", "users", "access", "made",
          "owned"}
      BY <2>1, <2>2, <3>4, Typed, <1>2 DEF Told
    <3>5. CASE call.kind \in {"profile", "pair"}
      BY <2>1, <2>2, <3>5, Typed, <1>2 DEF Told
    <3> QED  BY <1>2, <3>3, <3>4, <3>5 DEF KindsWith
  <2> QED  BY <1>3, <2>2, PaidWithNothing, QueryNames DEF FindCompany
<1>4. CASE CompanyOf(call) \in companies
  <2> DEFINE s2 == [seen EXCEPT !.company = CompanyOf(call), !.listed = {CompanyOf(call)}]
  <2>1. Read({}, s2)  BY <1>4, QueryNames DEF FindCompany
  <2>2. s2.users = seen.users /\ s2.held = seen.held /\ s2.silent = seen.silent  BY <1>2 DEF Holding
  <2> HIDE DEF s2
  <2>3. \A y : Did(call, Tail(todo), y) => y = "company"
    BY <1>2, InBase, FirstDone DEF Rank
  <2>4. Covers(call, Tail(todo), s2, always, ever)  BY <2>3 DEF Covers
  <2>5. \A f : ~Yields(call, f, "company")  BY SilentSteps DEF Silent
  <2> QED  BY <1>1, <2>1, <2>2, <2>4, <2>5, PaidByReading
<1> QED  BY <1>3, <1>4

LEMMA ShowPaid == ASSUME LastInv, Show PROVE Paid
<1> DEFINE own == {c \in seen.listed : Mine(call, c) /\ call.kind # "both"}
           rest == seen.listed \ own
           facts == {<<"record", c>> : c \in own} \cup {<<"company", c>> : c \in rest}
                    \cup {<<"category", c, category[c]>> : c \in {c \in rest : category[c] # None}}
<1>1. At("show") /\ Read(facts, seen)  BY QueryNames, Zenon DEF Show
<1>2. /\ Sound(call, todo, seen, found, ever) /\ Shape(call, todo) /\ todo # <<>>
      /\ Head(todo) = "show" /\ call.kind \in KindsWith("show") /\ pc = "running"
  BY <1>1, Here DEF LastInv
<1>3. ASSUME NEW f \in always, NEW c \in seen.listed, OfRow(call, always, f, c), call.kind # "both"
      PROVE  f \in facts
  <2>1. Formed(f)  BY <1>1, Now
  <2>2. CASE f[1] = "record" /\ f[2] = c /\ Mine(call, c)
    <3>1. f = <<"record", c>> /\ c \in own  BY <1>3, <2>1, <2>2, FormsOf
    <3> QED  BY <3>1
  <2>3. CASE OfProfile(always, f, c) /\ ~Mine(call, c)
    <3>1. c \in rest  BY <2>3
    <3>2. CASE f[1] = "company"
      <4>1. f = <<"company", c>>  BY <2>1, <2>3, <3>2, FormsOf DEF OfProfile
      <4> QED  BY <3>1, <4>1
    <3>3. CASE f[1] = "category"
      <4>1. f = <<"category", c, category[c]>> /\ category[c] # None
        BY <1>2, <2>1, <2>3, <3>3, FormsOf, NowTrue DEF OfProfile
      <4> QED  BY <3>1, <4>1
    <3> QED  BY <2>3, <3>2, <3>3 DEF OfProfile
  <2> QED  BY <1>3, <2>2, <2>3 DEF OfRow
<1>4. ASSUME NEW f \in always, NEW c \in seen.listed, OfProfile(always, f, c), call.kind = "both"
      PROVE  f \in facts
  <2>1. Formed(f) /\ c \in rest  BY <1>1, <1>4, Now
  <2>2. CASE f[1] = "company"
    <3>1. f = <<"company", c>>  BY <1>4, <2>1, <2>2, FormsOf DEF OfProfile
    <3> QED  BY <2>1, <3>1
  <2>3. CASE f[1] = "category"
    <3>1. f = <<"category", c, category[c]>> /\ category[c] # None
      BY <1>2, <1>4, <2>1, <2>3, FormsOf, NowTrue DEF OfProfile
    <3> QED  BY <2>1, <3>1
  <2> QED  BY <1>4, <2>2, <2>3 DEF OfProfile
<1> HIDE DEF facts
<1>5. ASSUME NEW f, Told(call, always, f), ~RoleInRoster(call, f) PROVE f \in facts
  <2>1. f \in always  BY <1>5 DEF Told
  <2>2. Covers(call, todo, seen, always, ever)  BY <1>1, Now
  <2>3. CASE call.kind \in {"details", "record", "roster"}
    <3>1. "company" \in Base(call.kind)  BY <2>3 DEF Base
    <3>2. Did(call, todo, "company")  BY <1>2, <3>1, Earlier DEF Rank
    <3>3. seen.listed = {call.target}
      BY <1>2, <2>3, <3>2 DEF Sound, Known, CompanyOf
    <3>4. CASE call.kind = "roster"
      <4>1. ~Mine(call, call.target)
        <5>1. "show" \in Steps(todo)  BY <1>2, TailOf
        <5> QED  BY <1>2, <3>4, <5>1 DEF Shape, Base
      <4>2. OfRow(call, always, f, call.target)  BY <1>5, <3>4, <4>1 DEF Told, OfRow
      <4> QED  BY <1>3, <2>1, <3>3, <3>4, <4>2
    <3>5. CASE call.kind # "roster"
      <4>1. OfRow(call, always, f, call.target)  BY <1>5, <2>3, <3>5 DEF Told
      <4> QED  BY <1>3, <2>1, <2>3, <3>3, <4>1
    <3> QED  BY <3>4, <3>5
  <2>4. CASE call.kind = "both"
    <3>1. "mapped" \in Base(call.kind)  BY <2>4 DEF Base
    <3>2. Did(call, todo, "mapped")  BY <1>2, <3>1, Earlier DEF Rank
    <3>3. OfProfile(always, f, f[2]) /\ \E k \in Wanted(call) : <<"category", f[2], k>> \in always
      BY <1>5, <2>4 DEF Told
    <3>4. f[2] \in seen.listed  BY <2>2, <3>2, <3>3 DEF Covers, OfProfile
    <3> QED  BY <1>4, <2>1, <2>4, <3>3, <3>4
  <2>5. CASE call.kind \in {"maker", "owner", "factoryOwner"}
    <3>1. "present" \in Base(call.kind)  BY <2>5 DEF Base
    <3>2. Did(call, todo, "present")  BY <1>2, <3>1, Earlier DEF Rank
    <3> DEFINE c == Sought(call, seen)
    <3>3. OfRow(call, always, f, c)
      <4>1. CASE call.kind \in {"maker", "owner"}
        <5>1. "asset" \in Base(call.kind)  BY <4>1 DEF Base
        <5>2. Did(call, todo, "asset")  BY <1>2, <5>1, Earlier DEF Rank
        <5>3. \A row : <<"asset", call.target, row>> \in always => row = seen.row
          BY <2>2, <5>2 DEF Covers
        <5>4. CASE call.kind = "maker"  BY <1>5, <5>3, <5>4 DEF Told, Sought
        <5>5. CASE call.kind = "owner"  BY <1>5, <5>3, <5>5 DEF Told, Sought
        <5> QED  BY <4>1, <5>4, <5>5
      <4>2. CASE call.kind = "factoryOwner"
        <5>1. "site" \in Base(call.kind)  BY <4>2 DEF Base
        <5>2. Did(call, todo, "site")  BY <1>2, <5>1, Earlier DEF Rank
        <5>3. seen.company = HomeOf[call.target]  BY <1>2, <5>2 DEF Sound, Known
        <5>4. \A k : <<"site", call.target, k>> \in always => k = seen.company
          BY <1>2, <5>3, NowTrue
        <5> QED  BY <1>5, <4>2, <5>4 DEF Told, Sought
      <4> QED  BY <2>5, <4>1, <4>2
    <3>4. There(always, c)
      <4>1. f[1] = "record" => f = <<"record", f[2]>>  BY <1>1, <2>1, Now, FormsOf
      <4> QED  BY <1>2, <2>1, <3>3, <4>1, NowTrue DEF OfRow, OfProfile
    <3>5. c \in seen.listed  BY <2>2, <2>5, <3>2, <3>4 DEF Covers
    <3> QED  BY <1>3, <2>1, <2>5, <3>3, <3>5
  <2> QED  BY <1>2, <2>3, <2>4, <2>5 DEF KindsWith
<1> QED  BY <1>1, <1>5, PaidPlainly DEF Gathering, Yields

LEMMA FindMappingPaid == ASSUME LastInv, FindMapping PROVE Paid
<1> DEFINE c == seen.company
<1>1. At("mapping")  BY DEF FindMapping
<1>2. /\ Sound(call, todo, seen, found, ever) /\ Shape(call, todo) /\ todo # <<>> /\ pc = "running"
      /\ Head(todo) = "mapping" /\ call.kind \in {"roster", "category", "indexed"}
  BY <1>1, Here DEF LastInv, KindsWith
<1>3. c = IF call.kind = "indexed" THEN HomeOf[call.target[2]] ELSE call.target
  <2>1. CASE call.kind \in {"roster", "category"}
    <3>1. "company" \in Base(call.kind)  BY <2>1 DEF Base
    <3>2. Did(call, todo, "company")  BY <1>2, <3>1, Earlier DEF Rank
    <3> QED  BY <1>2, <2>1, <3>2 DEF Sound, Known, CompanyOf
  <2>2. CASE call.kind = "indexed"
    <3>1. "user" \in Base(call.kind)  BY <2>2 DEF Base
    <3>2. Did(call, todo, "user")  BY <1>2, <3>1, Earlier DEF Rank
    <3> QED  BY <1>2, <2>2, <3>2 DEF Sound, Known, UserOf
  <2> QED  BY <1>2, <2>1, <2>2
<1>4. ASSUME NEW f, Told(call, always, f), Yields(call, f, "mapping")
      PROVE  /\ f[1] = "category" =>
                  f \in Truth /\ f = <<"category", c, category[c]>> /\ category[c] # None
             /\ f[1] # "category" => call.kind = "roster" /\ f = <<"company", c>>
  <2>1. f \in always /\ f \in Truth /\ Formed(f)  BY <1>1, <1>4, Now DEF Told
  <2>2. f[1] \in {"company", "category"} /\ f[2] = c
    <3>1. CASE call.kind = "roster"
      BY <1>3, <1>4, <3>1 DEF Told, OfProfile, Yields, Source, RoleInRoster
    <3>2. CASE call.kind = "category"  BY <1>3, <1>4, <3>2 DEF Told
    <3>3. CASE call.kind = "indexed"
      BY <1>2, <1>3, <1>4, <3>3, NowTrue DEF Told, Yields, Source
    <3> QED  BY <1>2, <3>1, <3>2, <3>3
  <2>3. f[1] # "category" => call.kind = "roster"
    BY <1>2, <1>4, <2>2 DEF Told, Yields, Source
  <2>4. f[1] = "category" => f = <<"category", c, category[c]>> /\ category[c] # None
    BY <1>2, <2>1, <2>2, FormsOf, NowTrue
  <2>5. f[1] = "company" => f = <<"company", c>>  BY <2>1, <2>2, FormsOf
  <2> QED  BY <2>1, <2>2, <2>3, <2>4, <2>5
<1>5. CASE category[c] = None /\ call.kind # "roster"
  <2>1. Empty  BY <1>5, QueryNames DEF FindMapping
  <2>2. ASSUME Whole(call, always), NEW f, Told(call, always, f) PROVE FALSE
    <3>1. CASE call.kind = "category"
      <4>1. f[1] = "category" /\ f[2] = c /\ f \in always  BY <1>3, <2>2, <3>1 DEF Told
      <4>2. Formed(f)  BY <1>1, <4>1, Now
      <4> QED  BY <1>2, <1>5, <4>1, <4>2, FormsOf, NowTrue
    <3>2. CASE call.kind = "indexed"
      <4>1. PICK d \in Companies, k \in Categories :
              <<"user", call.target[2], d>> \in always /\ <<"category", d, k>> \in always
        BY <2>2, <3>2 DEF Whole
      <4>2. d = c /\ category[d] = k /\ k # None  BY <1>2, <1>3, <3>2, <4>1, NowTrue
      <4> QED  BY <1>5, <4>2
    <3> QED  BY <1>2, <1>5, <3>1, <3>2
  <2> QED  BY <2>1, <2>2, PaidWithNothing
<1>6. CASE ~(category[c] = None /\ call.kind # "roster")
  <2> DEFINE facts == (Truth \cap {<<"category", c, category[c]>>})
                      \cup (IF call.kind = "roster" THEN {<<"company", c>>} ELSE {})
  <2>1. Read(facts, seen)  BY <1>6, QueryNames, Zenon DEF FindMapping
  <2>2. \A f : Told(call, always, f) /\ Yields(call, f, "mapping") => f \in facts
    BY <1>4
  <2> HIDE DEF facts
  <2> QED  BY <1>1, <2>1, <2>2, PaidPlainly DEF Gathering
<1> QED  BY <1>5, <1>6

LEMMA TakenPaid == ASSUME LastInv, Taken PROVE Paid
<1> DEFINE c == IF Head(todo) = "name" THEN call.target[1] ELSE call.target[2]
<1>1. (At("name") \/ At("number")) /\ Read({<<"company", c>>} \cap Truth, seen)
  BY QueryNames, Zenon DEF Taken
<1>2. ASSUME NEW x \in {"name", "number"}, At(x), NEW f, Told(call, always, f), Yields(call, f, x)
      PROVE  f \in {<<"company", c>>} \cap Truth
  <2>1. call.kind = "taken" /\ Head(todo) = x  BY <1>2, Here DEF LastInv, KindsWith
  <2>2. f \in always /\ f \in Truth /\ Formed(f) /\ f[1] = "company"
        /\ f[2] \in {call.target[1], call.target[2]}
    BY <1>2, <2>1, Now DEF Told
  <2>3. f[2] = c  BY <1>2, <2>1, <2>2 DEF Yields, Source
  <2>4. f = <<"company", f[2]>>  BY <2>2, FormsOf
  <2> QED  BY <2>2, <2>3, <2>4
<1>3. CASE At("name")  BY <1>1, <1>2, <1>3, PaidPlainly DEF Gathering
<1>4. CASE At("number")  BY <1>1, <1>2, <1>4, PaidPlainly DEF Gathering
<1> QED  BY <1>1, <1>3, <1>4

LEMMA FindAllPaid == ASSUME LastInv, FindAll PROVE Paid
<1>1. At("every") /\ pc = "running"  BY DEF FindAll, At
<1>2. /\ Shape(call, todo) /\ todo # <<>> /\ Head(todo) = "every" /\ seen \in Holding
      /\ call.kind = "all"
  BY <1>1, Here DEF LastInv, KindsWith
<1>3. CASE companies = {}
  <2>1. \A f : ~Told(call, always, f)  BY <1>1, <1>2, <1>3, NowTrue DEF Told
  <2> QED  BY <1>3, <2>1, PaidWithNothing DEF FindAll
<1>4. CASE companies # {}
  <2> DEFINE s2 == [seen EXCEPT !.listed = companies]
             facts == {<<"company", c>> : c \in companies}
  <2>1. Read(facts, s2)  BY <1>4 DEF FindAll
  <2>2. s2.silent = seen.silent /\ s2.listed = companies  BY <1>2 DEF Holding
  <2>3. \A f : Told(call, always, f) /\ Yields(call, f, "every") => f \in facts
    <3> SUFFICES ASSUME NEW f, Told(call, always, f), Yields(call, f, "every")
                 PROVE  f \in facts
      OBVIOUS
    <3>1. f[1] = "company" /\ f \in always /\ There(always, f[2])
      BY <1>2 DEF Told, Yields, Source
    <3>2. f = <<"company", f[2]>>  BY <1>1, <3>1, Now, FormsOf
    <3>3. f[2] \in companies  BY <1>1, <3>1, NowTrue
    <3> QED  BY <3>2, <3>3
  <2> HIDE DEF s2, facts
  <2>4. \A y : Did(call, Tail(todo), y) => y = "every"
    BY <1>2, InBase, FirstDone DEF Rank
  <2>5. Covers(call, Tail(todo), s2, always, ever)  BY <1>1, <2>2, <2>4, NowTrue DEF Covers
  <2> QED  BY <1>1, <1>2, <2>1, <2>2, <2>3, <2>5, PaidByReading
<1> QED  BY <1>3, <1>4

LEMMA FindMappingsPaid == ASSUME LastInv, FindMappings PROVE Paid
<1> DEFINE facts ==
      {<<"category", c, category[c]>> : c \in {c \in seen.listed : category[c] # None}}
<1>1. At("mappings") /\ Read(facts, seen) /\ pc = "running"  BY DEF FindMappings, At
<1>2. /\ Shape(call, todo) /\ todo # <<>> /\ Head(todo) = "mappings" /\ call.kind = "all"
  BY <1>1, Here DEF LastInv, KindsWith
<1>3. ASSUME NEW f, Told(call, always, f), Yields(call, f, "mappings") PROVE f \in facts
  <2>1. f \in always /\ There(always, f[2]) /\ f[1] = "category"
    BY <1>2, <1>3 DEF Told, Yields, Source
  <2>2. "every" \in Base(call.kind)  BY <1>2 DEF Base
  <2>3. Did(call, todo, "every")  BY <1>2, <2>2, Earlier DEF Rank
  <2>4. f[2] \in seen.listed  BY <1>1, <2>1, <2>3, Now DEF Covers
  <2>5. f = <<"category", f[2], f[3]>>  BY <1>1, <2>1, Now, FormsOf
  <2>6. category[f[2]] = f[3] /\ f[3] # None  BY <1>1, <2>1, <2>5, NowTrue
  <2> QED  BY <2>4, <2>5, <2>6
<1> HIDE DEF facts
<1> QED  BY <1>1, <1>3, PaidPlainly DEF Gathering

LEMMA CertifyPaid == ASSUME LastInv, Certify PROVE Paid
<1> DEFINE facts == {<<"certified", c>> : c \in seen.listed \cap certified}
<1>1. At("certificates") /\ pc = "running"  BY DEF Certify, At
<1>2. /\ Shape(call, todo) /\ todo # <<>> /\ Head(todo) = "certificates" /\ call.kind = "all"
      /\ seen \in Holding
  BY <1>1, Here DEF LastInv, KindsWith
<1>3. ASSUME NEW f, Told(call, always, f), Yields(call, f, "certificates")
      PROVE  f \in facts /\ f[1] = "certified"
  <2>1. f \in always /\ There(always, f[2]) /\ f[1] = "certified"
    BY <1>2, <1>3 DEF Told, Yields, Source
  <2>2. "every" \in Base(call.kind)  BY <1>2 DEF Base
  <2>3. Did(call, todo, "every")  BY <1>2, <2>2, Earlier DEF Rank
  <2>4. f[2] \in seen.listed  BY <1>1, <2>1, <2>3, Now DEF Covers
  <2>5. f = <<"certified", f[2]>> /\ f[2] \in certified  BY <1>1, <2>1, Now, TruthForms
  <2> QED  BY <2>1, <2>4, <2>5
<1>6. Read(facts, seen) \/ Read({}, [seen EXCEPT !.silent = TRUE])  BY Zenon DEF Certify
<1> HIDE DEF facts
<1>4. CASE Read(facts, seen)  BY <1>1, <1>3, <1>4, PaidPlainly DEF Gathering
<1>5. CASE Read({}, [seen EXCEPT !.silent = TRUE])
  <2> DEFINE s2 == [seen EXCEPT !.silent = TRUE]
  <2>1. /\ s2.silent /\ s2.listed = seen.listed /\ s2.users = seen.users /\ s2.held = seen.held
        /\ s2.row = seen.row /\ s2.company = seen.company
    BY <1>2 DEF Holding
  <2>2. Read({}, s2)  BY <1>5
  <2> HIDE DEF s2
  <2>3. \A f : Told(call, always, f) /\ Yields(call, f, "certificates") => Spared(f, s2, ever)
    BY <1>3, <2>1 DEF Spared
  <2> QED  BY <1>1, <2>1, <2>2, <2>3, PaidPlainly DEF Gathering
<1> QED  BY <1>4, <1>5, <1>6

LEMMA FindMappedPaid == ASSUME LastInv, FindMapped PROVE Paid
<1> DEFINE hits == {c \in Companies : category[c] \in Wanted(call)}
<1>1. At("mapped") /\ pc = "running"  BY DEF FindMapped, At
<1>2. /\ Shape(call, todo) /\ todo # <<>> /\ Head(todo) = "mapped" /\ seen \in Holding
      /\ call.kind \in {"listed", "both", "page"}
  BY <1>1, Here DEF LastInv, KindsWith
<1>3. IF hits = {} THEN Empty ELSE Read({}, [seen EXCEPT !.listed = hits])
  BY QueryNames, Zenon DEF FindMapped, Wanted
<1>4. \A c : (\E k \in Wanted(call) : <<"category", c, k>> \in always) => c \in hits
  BY <1>1, NowTrue
<1>5. CASE hits = {}
  <2>1. \A f : ~Told(call, always, f)  BY <1>2, <1>4, <1>5 DEF Told
  <2> QED  BY <1>3, <1>5, <2>1, PaidWithNothing
<1>6. CASE hits # {}
  <2> DEFINE s2 == [seen EXCEPT !.listed = hits]
  <2>1. Read({}, s2)  BY <1>3, <1>6
  <2>2. s2.silent = seen.silent /\ s2.listed = hits  BY <1>2 DEF Holding
  <2> HIDE DEF s2, hits
  <2>4. \A y : Did(call, Tail(todo), y) => y = "mapped"
    BY <1>2, InBase, FirstDone DEF Rank
  <2>5. Covers(call, Tail(todo), s2, always, ever)  BY <1>4, <2>2, <2>4 DEF Covers
  <2>6. \A f : ~Yields(call, f, "mapped")  BY SilentSteps DEF Silent
  <2> QED  BY <1>1, <1>2, <2>1, <2>2, <2>5, <2>6, PaidByReading
<1> QED  BY <1>5, <1>6

LEMMA FindNamedPaid == ASSUME LastInv, FindNamed PROVE Paid
<1> DEFINE there == seen.listed \cap companies
           label(c) == IF call.kind = "listed" THEN {<<"category", c, call.target>>} ELSE {}
           facts == UNION {{<<"company", c>>} \cup label(c) : c \in there}
<1>1. At("named") /\ pc = "running"  BY DEF FindNamed, At
<1>2. /\ Shape(call, todo) /\ todo # <<>> /\ Head(todo) = "named"
      /\ call.kind \in {"owners", "listed"}
      /\ Tables
  BY <1>1, Here DEF LastInv, KindsWith
<1>3. Read(facts, seen)
  <2>1. \A c : Label(c) = label(c)  BY QueryNames DEF Label
  <2>2. Read(UNION {{<<"company", c>>} \cup Label(c) : c \in there}, seen)  BY Zenon DEF FindNamed
  <2>3. UNION {{<<"company", c>>} \cup Label(c) : c \in there} = facts  BY <2>1
  <2> HIDE DEF facts
  <2> QED  BY <2>2, <2>3
<1>4. ASSUME NEW f, Told(call, always, f) PROVE f \in facts
  <2>1. f \in always /\ Formed(f) /\ Covers(call, todo, seen, always, ever)
    BY <1>1, <1>4, Now DEF Told
  <2>2. CASE call.kind = "owners"
    <3>1. f[1] = "company" /\ \E a \in Assets, row \in Asset :
            <<"asset", a, row>> \in always /\ row.maker = call.target /\ row.owner = f[2]
      BY <1>4, <2>2 DEF Told
    <3>2. f = <<"company", f[2]>>  BY <2>1, <3>1, FormsOf
    <3>3. f[2] \in companies  BY <1>1, <2>1, <3>1, <3>2, NowTrue DEF There
    <3>4. "twins" \in Base(call.kind)  BY <2>2 DEF Base
    <3>5. Did(call, todo, "twins")  BY <1>2, <3>4, Earlier DEF Rank
    <3>6. f[2] \in seen.listed \cup {None}  BY <2>1, <3>1, <3>5 DEF Covers
    <3>7. f[2] # None  BY <1>2, <3>3, DirectoryAssumption DEF Tables
    <3> QED  BY <3>2, <3>3, <3>6, <3>7
  <2>3. CASE call.kind = "listed"
    <3>1. OfProfile(always, f, f[2]) /\ <<"category", f[2], call.target>> \in always
      BY <1>4, <2>3 DEF Told, Wanted
    <3>2. "mapped" \in Base(call.kind)  BY <2>3 DEF Base
    <3>3. Did(call, todo, "mapped")  BY <1>2, <3>2, Earlier DEF Rank
    <3>4. f[2] \in seen.listed  BY <2>1, <2>3, <3>1, <3>3 DEF Covers, OfProfile, Wanted
    <3>5. f[2] \in companies  BY <1>1, <3>1, NowTrue DEF OfProfile
    <3>6. f[1] = "company" => f = <<"company", f[2]>>  BY <2>1, FormsOf
    <3>7. f[1] = "category" => f = <<"category", f[2], call.target>>
      BY <1>1, <2>1, <3>1, FormsOf, NowTrue
    <3> QED  BY <2>3, <3>1, <3>4, <3>5, <3>6, <3>7 DEF OfProfile
  <2> QED  BY <1>2, <2>2, <2>3
<1> HIDE DEF facts
<1> QED  BY <1>1, <1>3, <1>4, PaidPlainly DEF Gathering

LEMMA FindSomePaid == ASSUME LastInv, FindSome PROVE Paid
<1>1. At("some") /\ call.kind = "page"  BY Here DEF LastInv, FindSome, KindsWith
<1>2. PICK page \in SUBSET (seen.listed \cap companies) :
        Read({<<"company", c>> : c \in page} \cup {<<"category", c, Target>> : c \in page}, seen)
  BY DEF FindSome
<1>3. ~Whole(call, always)  BY <1>1 DEF Whole
<1> QED  BY <1>1, <1>2, <1>3, PaidPlainly DEF Gathering

LEMMA FindPresentPaid == ASSUME LastInv, FindPresent PROVE Paid
<1> DEFINE wanted == IF call.kind = "both" THEN seen.listed ELSE {Sought(call, seen)}
<1>1. At("present") /\ pc = "running"  BY DEF FindPresent, At
<1>2. /\ Sound(call, todo, seen, found, ever) /\ Shape(call, todo) /\ todo # <<>>
      /\ Head(todo) = "present" /\ seen \in Holding
      /\ call.kind \in {"both", "factoryOwner", "maker", "owner"} /\ Tables
  BY <1>1, Here DEF LastInv, KindsWith
<1>3. IF wanted \cap companies = {} THEN Empty
      ELSE Read({}, [seen EXCEPT !.listed = wanted \cap companies])
  <2>1. CASE call.kind = "both"  BY <2>1, QueryNames DEF FindPresent
  <2>2. CASE call.kind = "maker"  BY <2>2, QueryNames DEF FindPresent, Sought
  <2>3. CASE call.kind = "owner"  BY <2>3, QueryNames DEF FindPresent, Sought
  <2>4. CASE call.kind = "factoryOwner"  BY <2>4, QueryNames DEF FindPresent, Sought
  <2> QED  BY <1>2, <2>1, <2>2, <2>3, <2>4
<1>4. Covers(call, todo, seen, always, ever)  BY <1>1, Now
<1>5. CASE wanted \cap companies = {}
  <2>1. ASSUME NEW f, Told(call, always, f) PROVE FALSE
    <3>1. f \in always /\ Formed(f)  BY <1>1, <2>1, Now DEF Told
    <3>2. CASE call.kind = "both"
      <4>1. OfProfile(always, f, f[2]) /\ \E k \in Wanted(call) : <<"category", f[2], k>> \in always
        BY <2>1, <3>2 DEF Told
      <4>2. "mapped" \in Base(call.kind)  BY <3>2 DEF Base
      <4>3. Did(call, todo, "mapped")  BY <1>2, <4>2, Earlier DEF Rank
      <4>4. f[2] \in seen.listed  BY <1>4, <4>1, <4>3 DEF Covers, OfProfile
      <4> QED  BY <1>1, <1>5, <3>2, <4>1, <4>4, NowTrue DEF OfProfile
    <3>3. CASE call.kind # "both"
      <4>1. OfRow(call, always, f, Sought(call, seen))
        <5>1. CASE call.kind \in {"maker", "owner"}
          <6>1. "asset" \in Base(call.kind)  BY <5>1 DEF Base
          <6>2. Did(call, todo, "asset")  BY <1>2, <6>1, Earlier DEF Rank
          <6>3. \A row : <<"asset", call.target, row>> \in always => row = seen.row
            BY <1>4, <6>2 DEF Covers
          <6>4. CASE call.kind = "maker"  BY <2>1, <6>3, <6>4 DEF Told, Sought
          <6>5. CASE call.kind = "owner"  BY <2>1, <6>3, <6>5 DEF Told, Sought
          <6> QED  BY <5>1, <6>4, <6>5
        <5>2. CASE call.kind = "factoryOwner"
          <6>1. "site" \in Base(call.kind)  BY <5>2 DEF Base
          <6>2. Did(call, todo, "site")  BY <1>2, <6>1, Earlier DEF Rank
          <6>3. seen.company = HomeOf[call.target]  BY <1>2, <6>2 DEF Sound, Known
          <6>4. \A k : <<"site", call.target, k>> \in always => k = seen.company
            BY <1>1, <6>3, NowTrue
          <6> QED  BY <2>1, <5>2, <6>4 DEF Told, Sought
        <5> QED  BY <1>2, <3>3, <5>1, <5>2
      <4>2. There(always, Sought(call, seen))
        <5>1. f[1] = "record" => f = <<"record", f[2]>>  BY <3>1, FormsOf
        <5> QED  BY <1>1, <3>1, <4>1, <5>1, NowTrue DEF OfRow, OfProfile
      <4> QED  BY <1>1, <1>5, <3>3, <4>2, NowTrue
    <3> QED  BY <3>2, <3>3
  <2> QED  BY <1>3, <1>5, <2>1, PaidWithNothing
<1>6. CASE wanted \cap companies # {}
  <2> DEFINE s2 == [seen EXCEPT !.listed = wanted \cap companies]
  <2>1. Read({}, s2)  BY <1>3, <1>6
  <2>2. /\ s2.silent = seen.silent /\ s2.listed = wanted \cap companies /\ s2.row = seen.row
        /\ s2.company = seen.company
    BY <1>2 DEF Holding
  <2> HIDE DEF s2
  <2>3. Sought(call, s2) = Sought(call, seen)  BY <2>2 DEF Sought
  <2>4. \A c : There(always, c) => c \in companies  BY <1>1, NowTrue
  <2>5. \A y : Did(call, Tail(todo), y) => Did(call, todo, y) \/ y = "present"
    BY <1>2, TailOf
  <2>6. Covers(call, Tail(todo), s2, always, ever)
    <3>1. CASE call.kind = "both"
      <4>1. \A y : Did(call, Tail(todo), y) => y \in {"mapped", "present", "show"}
        BY <3>1 DEF Did, Base
      <4> QED  BY <1>4, <2>2, <2>4, <2>5, <3>1, <4>1 DEF Covers
    <3>2. CASE call.kind # "both"
      <4>1. \A y : Did(call, Tail(todo), y)
            => y \in {"site", "match", "asset", "party", "present", "show"}
        BY <1>2, <3>2 DEF Did, Base
      <4> QED  BY <1>4, <2>2, <2>3, <2>4, <2>5, <3>2, <4>1 DEF Covers
    <3> QED  BY <3>1, <3>2
  <2>7. \A f : ~Yields(call, f, "present")  BY SilentSteps DEF Silent
  <2> QED  BY <1>1, <1>2, <2>1, <2>2, <2>6, <2>7, PaidByReading
<1> QED  BY <1>5, <1>6

LEMMA FindGivenPaid == ASSUME LastInv, FindGiven PROVE Paid
<1>1. At("given") /\ pc = "running" /\ call.kind = "indexed"
  BY Here DEF LastInv, FindGiven, KindsWith, At
<1>2. Asked = call.target[1]  BY <1>1, QueryNames DEF CompanyOf
<1>3. CASE call.target[1] \notin companies
  <2>1. ~Whole(call, always)  BY <1>1, <1>3, NowTrue DEF Whole, There
  <2> QED  BY <1>2, <1>3, <2>1, PaidWithNothing DEF FindGiven
<1>4. CASE call.target[1] \in companies
  <2> DEFINE facts == {<<"company", call.target[1]>>}
  <2>1. Read(facts, seen)  BY <1>2, <1>4 DEF FindGiven
  <2>2. ASSUME NEW f, Told(call, always, f), Yields(call, f, "given") PROVE f \in facts
    <3>1. f[1] = "company" /\ f[2] = call.target[1] /\ f \in always
      BY <1>1, <2>2 DEF Told, Yields, Source
    <3>2. f = <<"company", f[2]>>  BY <1>1, <3>1, Now, FormsOf
    <3> QED  BY <3>1, <3>2
  <2> HIDE DEF facts
  <2> QED  BY <1>1, <2>1, <2>2, PaidPlainly DEF Gathering
<1> QED  BY <1>3, <1>4

\* getCompanyAndUserDetails has nothing that Covers speaks of.
LEMMA RosterCovers ==
    ASSUME NEW q, q.kind = "roster", NEW td, NEW sn, NEW av, NEW ev
    PROVE  Covers(q, td, sn, av, ev)
<1>1. \A y : Did(q, td, y) => y \in {"company", "home", "mapping", "users", "eachGrant"}
  BY DEF Did, Base
<1> QED  BY <1>1 DEF Covers

LEMMA HomePaid == ASSUME LastInv, Home PROVE Paid
<1>1. At("home")  BY DEF Home
<1>2. /\ Shape(call, todo) /\ todo # <<>> /\ Head(todo) = "home" /\ pc = "running"
      /\ call.kind = "roster"
  BY <1>1, Here DEF LastInv, KindsWith
<1>3. UNCHANGED <<found, seen, pc>>  BY DEF Home
<1>4. todo' = IF Mine(call, call.target) THEN Tail(todo) ELSE <<"show">>
  BY <1>2, QueryNames DEF Home, CompanyOf
<1>5. Covers(call, todo', seen', always, ever)  BY <1>2, RosterCovers
<1>6. Owing(call, todo', seen, found, always, ever)
  <2> SUFFICES ASSUME Whole(call, always), NEW f, Told(call, always, f)
               PROVE  f \in found \/ Spared(f, seen, ever) \/ Due(call, todo', seen, f)
    BY DEF Owing
  <2>1. f \in found \/ Spared(f, seen, ever) \/ Due(call, todo, seen, f)
    BY <1>2 DEF LastInv, Owing
  <2>2. CASE Mine(call, call.target)
    <3>1. Steps(todo) = {"home"} \cup Steps(todo')  BY <1>2, <1>4, <2>2, TailOf
    <3>2. ~Yields(call, f, "home")  BY SilentSteps DEF Silent
    <3>3. Due(call, todo, seen, f) => Due(call, todo', seen, f)  BY <3>1, <3>2 DEF Due
    <3> QED  BY <2>1, <3>3
  <2>3. CASE ~Mine(call, call.target)
    <3>1. f[1] \in {"company", "category"}  BY <1>2, <2>3 DEF Told, OfProfile
    <3>2. Yields(call, f, "show")  BY <1>2, <3>1 DEF Yields, RoleInRoster
    <3>3. "show" \in Steps(<<"show">>)  BY DEF Steps
    <3> QED  BY <1>4, <2>3, <3>2, <3>3 DEF Due
  <2> QED  BY <2>2, <2>3
<1> QED  BY <1>2, <1>3, <1>5, <1>6 DEF Paid

LEMMA CompanyReadsPaid == ASSUME LastInv, CompanyReads PROVE Paid
BY FindCompanyPaid, ShowPaid, HomePaid, FindMappingPaid, TakenPaid, FindAllPaid, FindMappingsPaid,
   CertifyPaid, FindMappedPaid, FindNamedPaid, FindSomePaid, FindPresentPaid, FindGivenPaid
   DEF CompanyReads

-----------------------------------------------------------------------------
(* The reads of users, grants and roles do.                                *)

LEMMA FindUserPaid == ASSUME LastInv, FindUser PROVE Paid
<1> DEFINE u == UserOf(call)
           facts == {<<"user", u, employer[u]>>}
           s2 == [seen EXCEPT !.company = employer[u]]
<1>1. At("user") /\ pc = "running"  BY DEF FindUser, At
<1>2. /\ todo # <<>> /\ Head(todo) = "user" /\ Shape(call, todo) /\ seen \in Holding
      /\ call.kind \in {"user", "indexed"}
  BY <1>1, Here DEF LastInv, KindsWith
<1>3. u = IF call.kind = "user" THEN call.target ELSE call.target[2]  BY <1>2 DEF UserOf
<1>4. CASE employer[u] = None
  <2>1. Empty  BY <1>4, QueryNames DEF FindUser
  <2>2. ASSUME Whole(call, always), NEW f, Told(call, always, f) PROVE FALSE
    <3>1. CASE call.kind = "user"
      <4>1. f \in always /\ f[1] = "user" /\ f[2] = u  BY <1>3, <2>2, <3>1 DEF Told
      <4>2. f = <<"user", u, f[3]>>  BY <1>1, <4>1, Now, FormsOf
      <4> QED  BY <1>1, <1>4, <4>1, <4>2, NowTrue
    <3>2. CASE call.kind = "indexed"
      <4>1. \E c : <<"user", u, c>> \in always  BY <1>3, <2>2, <3>2 DEF Whole
      <4> QED  BY <1>1, <1>4, <4>1, NowTrue
    <3> QED  BY <1>2, <3>1, <3>2
  <2> QED  BY <2>1, <2>2, PaidWithNothing
<1>5. CASE employer[u] # None
  <2>1. Read(facts, s2)  BY <1>5, QueryNames DEF FindUser
  <2>2. s2.silent = seen.silent  BY <1>2 DEF Holding
  <2>3. ASSUME NEW f, Told(call, always, f), Yields(call, f, "user") PROVE f \in facts
    <3>1. f \in always /\ f[1] = "user" /\ f[2] = u
      BY <1>2, <1>3, <2>3 DEF Told, Yields, Source
    <3>2. f = <<"user", u, f[3]>>  BY <1>1, <3>1, Now, FormsOf
    <3> QED  BY <1>1, <3>1, <3>2, NowTrue
  <2> HIDE DEF facts, s2
  <2>4. \A y : Did(call, Tail(todo), y) => y = "user"
    BY <1>2, InBase, FirstDone DEF Rank
  <2>5. Covers(call, Tail(todo), s2, always, ever)  BY <2>4 DEF Covers
  <2> QED  BY <1>1, <1>2, <2>1, <2>2, <2>3, <2>5, PaidByReading
<1> QED  BY <1>4, <1>5

LEMMA FindUsersPaid == ASSUME LastInv, FindUsers PROVE Paid
<1> DEFINE c == call.target
           us == {u \in Users : employer[u] = c}
           facts == {<<"user", u, c>> : u \in us}
           s2 == [seen EXCEPT !.users = us]
<1>1. At("users") /\ pc = "running"  BY DEF FindUsers, At
<1>2. /\ todo # <<>> /\ Head(todo) = "users" /\ Shape(call, todo) /\ seen \in Holding
      /\ Sound(call, todo, seen, found, ever) /\ call.kind \in {"roster", "users", "access"}
  BY <1>1, Here DEF LastInv, KindsWith
<1>3. CompanyOf(call) = c  BY <1>2, Typed
<1>4. \A u : <<"user", u, c>> \in always => u \in us  BY <1>1, NowTrue
<1>5. ASSUME NEW f \in always, f[1] = "user", f[3] = c PROVE f[2] \in us /\ f \in facts
  <2>1. f = <<"user", f[2], c>>  BY <1>1, <1>5, Now, FormsOf
  <2> QED  BY <1>4, <1>5, <2>1
<1>6. s2.silent = seen.silent /\ s2.users = us  BY <1>2 DEF Holding
<1>7. CASE call.kind \in {"users", "access"}
  <2>1. CASE us = {}
    <3>1. Empty  BY <1>3, <1>7, <2>1, QueryNames DEF FindUsers
    <3>2. \A f : ~Told(call, always, f)
      BY <1>4, <1>5, <1>7, <2>1 DEF Told
    <3> QED  BY <3>1, <3>2, PaidWithNothing
  <2>2. CASE us # {}
    <3>1. Read(facts, s2)  BY <1>3, <2>2, QueryNames DEF FindUsers
    <3>2. \A f : Told(call, always, f) /\ Yields(call, f, "users") => f \in facts
      BY <1>5, <1>7 DEF Told, Yields, Source
    <3> HIDE DEF facts, s2, us
    <3>3. \A y : Did(call, Tail(todo), y) => y \in {"company", "match", "users"}
      <4> TAKE y
      <4> HAVE Did(call, Tail(todo), y)
      <4>1. y \in {"company", "match", "users", "grants", "names"}
        BY <1>7 DEF Did, Base
      <4>2. y # "users" => Did(call, todo, y) /\ Rank(y) < 4
        <5>1. Head(todo) \in Base(call.kind)  BY <1>2, InBase
        <5>2. Rank(Head(todo)) = 4  BY <1>2 DEF Rank
        <5>3. y # "users" => Did(call, todo, y)  BY <1>2, TailOf
        <5> QED  BY <1>2, <5>1, <5>2, <5>3, Later
      <4> QED  BY <4>1, <4>2 DEF Rank
    <3>4. Covers(call, Tail(todo), s2, always, ever)  BY <1>4, <1>6, <3>3 DEF Covers
    <3> QED  BY <1>1, <1>6, <1>7, <3>1, <3>2, <3>4, PaidByReading
  <2> QED  BY <2>1, <2>2
<1>8. CASE call.kind = "roster"
  <2>1. Base(call.kind) = {"company", "home", "mapping", "users", "eachGrant"}
    BY <1>8 DEF Base
  <2>2. Did(call, todo, "home") /\ Did(call, todo, "mapping")
    BY <1>2, <2>1, Earlier DEF Rank
  <2>3. Mine(call, c)
    <3>1. todo # <<"show">>  BY <1>2
    <3> QED  BY <1>2, <2>2, <3>1 DEF Sound, Barred
  <2>4. "show" \notin Steps(todo)
    BY <1>2, <1>8, <2>1, <2>3 DEF Shape
  <2>5. "mapping" \notin Steps(todo)  BY <2>2 DEF Did
  <2>6. ASSUME NEW f, Whole(call, always), Told(call, always, f)
        PROVE  \/ f \in found \/ Spared(f, seen, ever)
               \/ f \in facts /\ us # {}
               \/ RoleInRoster(call, f) /\ f[2] \in us
    <3>1. f \in found \/ Spared(f, seen, ever) \/ Due(call, todo, seen, f)
      BY <1>1, <2>6 DEF LastInv, Owing
    <3>2. CASE f[1] = "user"  BY <1>5, <1>8, <2>6, <3>2 DEF Told, OfProfile
    <3>3. CASE f[1] = "role"
      <4>1. <<"user", f[2], c>> \in always  BY <1>8, <2>6, <3>3 DEF Told, OfProfile
      <4> QED  BY <1>4, <1>8, <3>3, <4>1 DEF RoleInRoster
    <3>4. CASE f[1] \in {"company", "category"}
      <4>1. ~Due(call, todo, seen, f)
        <5>1. ~RoleInRoster(call, f) /\ Source(call, f) = "mapping"
          BY <1>8, <3>4 DEF RoleInRoster, Source
        <5> QED  BY <2>4, <2>5, <5>1 DEF Due, Yields
      <4> QED  BY <3>1, <4>1
    <3> QED  BY <1>8, <2>6, <3>2, <3>3, <3>4 DEF Told, OfProfile
  <2>7. CASE us = {}
    <3>1. Proceed(<<>>, seen) /\ found' = found  BY <1>3, <1>8, <2>7, QueryNames DEF FindUsers
    <3>2. Owing(call, <<>>, seen, found', always, ever)  BY <2>6, <2>7, <3>1 DEF Owing
    <3> QED  BY <1>1, <1>8, <3>1, <3>2, RosterCovers, PaidOnGoing
  <2>8. CASE us # {}
    <3>1. Read(facts, s2)  BY <1>3, <2>8, QueryNames DEF FindUsers
    <3> HIDE DEF facts, s2, us
    <3>2. Proceed(Tail(todo), s2) /\ found' = found \cup facts  BY <3>1 DEF Read
    <3>3. "eachGrant" \in Steps(Tail(todo))
      BY <1>2, <2>1, Ahead DEF Rank
    <3>4. Owing(call, Tail(todo), s2, found', always, ever)
      BY <1>6, <2>6, <3>2, <3>3 DEF Owing, Due, Spared
    <3> QED  BY <1>1, <1>8, <3>2, <3>4, RosterCovers, PaidOnGoing
  <2> QED  BY <2>7, <2>8
<1> QED  BY <1>2, <1>7, <1>8

LEMMA FindGrantsPaid == ASSUME LastInv, FindGrants PROVE Paid
<1> DEFINE us == IF call.kind = "access" THEN seen.users ELSE {UserOf(call)}
           granted == {u \in us : grants[u] # None}
           held == {<<u, grants[u]>> : u \in granted}
           s2 == [seen EXCEPT !.users = us, !.held = held]
<1>1. At("grants") /\ pc = "running"  BY DEF FindGrants, At
<1>2. /\ todo # <<>> /\ Head(todo) = "grants" /\ Shape(call, todo) /\ Tables
      /\ Truth \subseteq ever /\ seen \in Holding /\ call.kind \in {"access", "profile", "indexed"}
  BY <1>1, Here DEF LastInv, KindsWith
<1>3. IF granted = {} /\ call.kind = "indexed" THEN Empty ELSE Read({}, s2)
  BY QueryNames, Zenon DEF FindGrants
<1>4. CASE granted = {} /\ call.kind = "indexed"
  <2>1. ASSUME Whole(call, always) PROVE FALSE
    <3>1. PICK g \in Groups : <<"grant", call.target[2], g>> \in always
      BY <1>4, <2>1 DEF Whole
    <3>2. grants[call.target[2]] = g /\ g # None
      BY <1>1, <3>1, NowTrue, DirectoryAssumption
    <3> QED  BY <1>4, <3>2 DEF UserOf
  <2> QED  BY <1>3, <1>4, <2>1, PaidWithNothing
<1>5. CASE ~(granted = {} /\ call.kind = "indexed")
  <2>1. Read({}, s2)  BY <1>3, <1>5
  <2>2. s2.silent = seen.silent /\ s2.users = us /\ s2.held = held  BY <1>2 DEF Holding
  <2>3. us \in SUBSET Users  BY <1>2, Typed DEF Holding
  <2>4. ASSUME NEW u \in us
        PROVE  (\E h \in held : h[1] = u) \/ <<"grant", u, None>> \in ever
    <3>1. CASE grants[u] # None
      <4>1. <<u, grants[u]>> \in held  BY <3>1
      <4> QED  BY <4>1
    <3>2. CASE grants[u] = None
      <4>1. <<"grant", u, grants[u]>> \in ever  BY <1>2, <2>3, TruthHas
      <4> QED  BY <3>2, <4>1
    <3> QED  BY <3>1, <3>2
  <2>5. call.kind = "access" => us = seen.users  OBVIOUS
  <2> HIDE DEF us, held, s2
  <2>6. Did(call, Tail(todo), "users") => Did(call, todo, "users")  BY <1>2, TailOf
  <2>7. \A y : Did(call, Tail(todo), y) => y \in Base(call.kind)  BY DEF Did
  <2>8. Base(call.kind) \subseteq {"company", "match", "users", "user", "given", "mapping",
        "grants", "names"}
    BY <1>2 DEF Base
  <2>9. Covers(call, todo, seen, always, ever)  BY <1>1, Now
  <2>10. Covers(call, Tail(todo), s2, always, ever)
    BY <2>2, <2>4, <2>5, <2>6, <2>7, <2>8, <2>9 DEF Covers
  <2>11. \A f : ~Yields(call, f, "grants")  BY SilentSteps DEF Silent
  <2> QED  BY <1>1, <1>2, <2>1, <2>2, <2>10, <2>11, PaidByReading
<1> QED  BY <1>4, <1>5

\* The role that is joined of two reads is the user's, unless its grant was replaced.
LEMMA NameIsRole ==
    ASSUME Tables, Truth \subseteq ever, NEW u \in Users, NEW held \in SUBSET (Users \X Groups),
           \A h \in held : <<"grant", h[1], h[2]>> \in ever,
           \A g, h \in held : g[1] = h[1] => g = h,
           (\E h \in held : h[1] = u) \/ <<"grant", u, None>> \in ever
    PROVE  NameOf(u, held) = RoleOf(u) \/ Swapped(ever, u)
<1> DEFINE named == {h \in held : h[1] = u /\ groups[h[2]] # None}
<1>1. NameOf(u, held) = IF named = {} THEN None ELSE groups[(CHOOSE h \in named : TRUE)[2]].name
  BY Zenon DEF NameOf
<1>2. <<"grant", u, grants[u]>> \in ever /\ grants[u] \in Groups \cup {None} /\ None \notin Groups
  BY TruthHas, DirectoryAssumption DEF Tables
<1>3. CASE ~\E h \in held : h[1] = u
  <2>1. named = {}  BY <1>3
  <2>2. NameOf(u, held) = None  BY <1>1, <2>1
  <2>3. CASE grants[u] = None  BY <2>2, <2>3 DEF RoleOf
  <2>4. CASE grants[u] # None  BY <1>2, <1>3, <2>4 DEF Swapped
  <2> QED  BY <2>3, <2>4
<1>4. CASE \E h \in held : h[1] = u
  <2>1. PICK h \in held : h[1] = u  BY <1>4
  <2> DEFINE g == h[2]
  <2>2. g \in Groups /\ <<"grant", u, g>> \in ever  BY <2>1
  <2>3. named = IF groups[g] # None THEN {h} ELSE {}  BY <2>1
  <2>4. NameOf(u, held) = IF groups[g] # None THEN groups[g].name ELSE None
    <3>1. CASE groups[g] # None
      <4>1. named = {h}  BY <2>3, <3>1
      <4>2. (CHOOSE x \in named : TRUE) \in named  BY <4>1
      <4>3. (CHOOSE x \in named : TRUE) = h  BY <4>1, <4>2
      <4> QED  BY <1>1, <3>1, <4>1, <4>3
    <3>2. CASE groups[g] = None  BY <1>1, <2>3, <3>2
    <3> QED  BY <3>1, <3>2
  <2> HIDE DEF g
  <2>5. CASE grants[u] = g  BY <1>2, <2>2, <2>4, <2>5 DEF RoleOf
  <2>6. CASE grants[u] # g  BY <1>2, <2>2, <2>6 DEF Swapped
  <2> QED  BY <2>5, <2>6
<1> QED  BY <1>3, <1>4

LEMMA FindNamesPaid == ASSUME LastInv, FindNames PROVE Paid
<1> DEFINE facts == {<<"role", u, NameOf(u, seen.held)>> : u \in seen.users}
<1>1. At("names") /\ pc = "running" /\ Read(facts, seen)  BY DEF FindNames, At
<1>2. /\ todo # <<>> /\ Head(todo) = "names" /\ Shape(call, todo) /\ Tables
      /\ Sound(call, todo, seen, found, ever) /\ Truth \subseteq ever /\ seen \in Holding
      /\ call.kind \in {"access", "profile", "indexed"}
  BY <1>1, Here DEF LastInv, KindsWith
<1>3. "grants" \in Base(call.kind)  BY <1>2 DEF Base
<1>4. Did(call, todo, "grants")  BY <1>2, <1>3, Earlier DEF Rank
<1>5. Covers(call, todo, seen, always, ever)  BY <1>1, Now
<1>6. ASSUME NEW u \in seen.users
      PROVE  NameOf(u, seen.held) = RoleOf(u) \/ Swapped(ever, u)
  <2>1. u \in Users /\ seen.held \in SUBSET (Users \X Groups)  BY <1>2 DEF Holding
  <2>2. /\ \A h \in seen.held : <<"grant", h[1], h[2]>> \in ever
        /\ \A g, h \in seen.held : g[1] = h[1] => g = h
    BY <1>2, <1>4 DEF Sound, Granted
  <2>3. (\E h \in seen.held : h[1] = u) \/ <<"grant", u, None>> \in ever
    BY <1>4, <1>5 DEF Covers
  <2> QED  BY <1>2, <2>1, <2>2, <2>3, NameIsRole
<1>7. ASSUME NEW f, Told(call, always, f), Yields(call, f, "names")
      PROVE  f \in facts \/ Spared(f, seen, ever)
  <2>1. f \in always /\ f \in Truth /\ f[1] = "role"
    BY <1>1, <1>2, <1>7, Now DEF Told, Yields, Source
  <2>2. f = <<"role", f[2], RoleOf(f[2])>>  BY <2>1, TruthForms
  <2>3. f[2] \in seen.users
    <3>1. CASE call.kind = "access"
      <4>1. <<"user", f[2], call.target>> \in always  BY <1>7, <2>1, <3>1 DEF Told
      <4>2. "users" \in Base(call.kind)  BY <3>1 DEF Base
      <4>3. Did(call, todo, "users")  BY <1>2, <4>2, Earlier DEF Rank
      <4> QED  BY <1>5, <3>1, <4>1, <4>3 DEF Covers
    <3>2. CASE call.kind \in {"profile", "indexed"}
      <4>1. seen.users = {call.target[2]}
        BY <1>2, <1>4, <3>2, Typed DEF Sound, Granted
      <4>2. f[2] = call.target[2]
        <5>1. CASE call.kind = "profile"  BY <1>7, <5>1 DEF Told
        <5>2. CASE call.kind = "indexed"  BY <1>7, <2>1, <5>2 DEF Told
        <5> QED  BY <3>2, <5>1, <5>2
      <4> QED  BY <4>1, <4>2
    <3> QED  BY <1>2, <3>1, <3>2
  <2>4. CASE NameOf(f[2], seen.held) = RoleOf(f[2])  BY <2>2, <2>3, <2>4
  <2>5. CASE Swapped(ever, f[2])  BY <2>1, <2>5 DEF Spared
  <2> QED  BY <1>6, <2>3, <2>4, <2>5
<1> HIDE DEF facts
<1> QED  BY <1>1, <1>7, PaidPlainly DEF Gathering

\* What the steps of getCompanyAndUserDetails are answerable for, but for the roles.
LEMMA RosterYields ==
    ASSUME NEW q, q.kind = "roster", NEW f, NEW x, Yields(q, f, x)
    PROVE  x \in {"mapping", "users", "show"}
BY DEF Yields, Source

LEMMA EachGrantPaid == ASSUME LastInv, EachGrant PROVE Paid
<1>1. At("eachGrant")  BY DEF EachGrant
<1>2. /\ todo # <<>> /\ Head(todo) = "eachGrant" /\ pc = "running" /\ Shape(call, todo) /\ Tables
      /\ seen \in Holding /\ call.kind = "roster"
  BY <1>1, Here DEF LastInv, KindsWith
<1>3. PICK u \in seen.users :
         /\ found' = IF grants[u] = None THEN found \cup {<<"role", u, None>>} ELSE found
         /\ LET rest == [seen EXCEPT !.users = @ \ {u}, !.held =
                           {<<u, g>> : g \in {grants[u]} \ {None}}]
                then == IF rest.users = {} THEN Tail(todo) ELSE todo
            IN Proceed(IF grants[u] = None THEN then ELSE <<"eachGroup">> \o then, rest)
  BY DEF EachGrant
<1> DEFINE us == seen.users \ {u}
           held == {<<u, g>> : g \in {grants[u]} \ {None}}
           s2 == [seen EXCEPT !.users = us, !.held = held]
           then == IF us = {} THEN Tail(todo) ELSE todo
           next == IF grants[u] = None THEN then ELSE <<"eachGroup">> \o then
<1>4. s2.users = us /\ s2.held = held /\ s2.silent = seen.silent  BY <1>2 DEF Holding
<1>5. Proceed(next, s2)
  <2>1. s2 = [seen EXCEPT !.users = @ \ {u}, !.held = {<<u, g>> : g \in {grants[u]} \ {None}}]
    BY <1>2 DEF Holding
  <2> QED  BY <1>3, <1>4, <2>1
<1>6. Steps(todo) = {"eachGrant"} \cup Steps(Tail(todo)) /\ Shape(call, Tail(todo))  BY <1>2, TailOf
<1>7. "eachGroup" \notin Steps(todo)  BY <1>2, <1>6, TailOnce
<1>8. /\ Steps(Tail(todo)) \subseteq Steps(next)
      /\ us # {} => "eachGrant" \in Steps(next)
      /\ grants[u] # None => "eachGroup" \in Steps(next)
  <2>1. then \in Seq(AllSteps)  BY <1>2, <1>6 DEF Shape
  <2>2. Steps(Tail(todo)) \subseteq Steps(then) /\ (us # {} => "eachGrant" \in Steps(then))
    BY <1>6
  <2> HIDE DEF then
  <2>3. "eachGroup" \in AllSteps \ {"grant", "group"}  BY DEF AllSteps
  <2>4. Steps(<<"eachGroup">>) = {"eachGroup"}  BY <2>3, Fit1
  <2>5. Steps(<<"eachGroup">> \o then) = {"eachGroup"} \cup Steps(then)
    <3> DEFINE one == <<"eachGroup">>
    <3>1. one \in Seq(AllSteps)  BY <2>3
    <3> HIDE DEF one
    <3>2. Steps(one \o then) = Steps(one) \cup Steps(then)  BY <2>1, <3>1, ConcatSteps
    <3> QED  BY <2>4, <3>2 DEF one
  <2> QED  BY <2>2, <2>5
<1>9. grants[u] # None => <<u, grants[u]>> \in held  OBVIOUS
<1>10. grants[u] = None => <<"role", u, None>> \in found'  BY <1>3
<1>11. found \subseteq found'  BY <1>3
<1>12. us = seen.users \ {u}  OBVIOUS
<1> HIDE DEF us, held, s2, then, next
<1>13. Owing(call, next, s2, found', always, ever)
  <2> SUFFICES ASSUME Whole(call, always), NEW f, Told(call, always, f)
               PROVE  f \in found' \/ Spared(f, s2, ever) \/ Due(call, next, s2, f)
    BY DEF Owing
  <2>1. f \in found \/ Spared(f, seen, ever) \/ Due(call, todo, seen, f)
    BY <1>2 DEF LastInv, Owing
  <2>2. CASE f \in found \/ Spared(f, seen, ever)  BY <1>4, <1>11, <2>2 DEF Spared
  <2>3. CASE \E x \in Steps(todo) : Yields(call, f, x)
    BY <1>2, <1>6, <1>8, <2>3, RosterYields DEF Due
  <2>4. CASE RoleInRoster(call, f) /\ "users" \in Steps(todo)
    BY <1>6, <1>8, <2>4 DEF Due
  <2>5. CASE RoleInRoster(call, f) /\ f[2] \in seen.users
    <3>1. CASE f[2] # u
      BY <1>4, <1>8, <1>12, <2>5, <3>1 DEF Due
    <3>2. CASE f[2] = u /\ grants[u] # None
      <4>1. \E h \in s2.held : h[1] = f[2]
        <5> DEFINE h == <<u, grants[u]>>
        <5>1. h \in s2.held /\ h[1] = f[2]  BY <1>4, <1>9, <3>2
        <5> QED  BY <5>1
      <4> QED  BY <1>8, <2>5, <3>2, <4>1 DEF Due
    <3>3. CASE f[2] = u /\ grants[u] = None
      <4>1. f \in Truth /\ f[1] = "role"  BY <1>1, <2>5, Now DEF Told, RoleInRoster
      <4>2. f = <<"role", u, RoleOf(u)>>  BY <3>3, <4>1, TruthForms
      <4>3. RoleOf(u) = None  BY <3>3 DEF RoleOf
      <4> QED  BY <1>10, <3>3, <4>2, <4>3
    <3> QED  BY <3>1, <3>2, <3>3
  <2> QED  BY <1>7, <2>1, <2>2, <2>3, <2>4, <2>5 DEF Due
<1> QED  BY <1>2, <1>5, <1>13, RosterCovers, PaidOnGoing

LEMMA EachGroupPaid == ASSUME LastInv, EachGroup PROVE Paid
<1>1. At("eachGroup")  BY DEF EachGroup
<1>2. /\ todo # <<>> /\ Head(todo) = "eachGroup" /\ pc = "running" /\ Shape(call, todo) /\ Tables
      /\ Sound(call, todo, seen, found, ever) /\ Truth \subseteq ever
      /\ seen \in Holding /\ call.kind = "roster"
  BY <1>1, Here DEF LastInv, KindsWith
<1> DEFINE s2 == [seen EXCEPT !.held = {}]
<1>3. PICK h \in seen.held : Read({<<"role", h[1], NameOf(h[1], seen.held)>>}, s2)
  BY DEF EachGroup
<1>4. s2.users = seen.users /\ s2.silent = seen.silent  BY <1>2 DEF Holding
<1>5. Proceed(Tail(todo), s2) /\ found' = found \cup {<<"role", h[1], NameOf(h[1], seen.held)>>}
  BY <1>3 DEF Read
<1> HIDE DEF s2
<1>6. Steps(todo) = {"eachGroup"} \cup Steps(Tail(todo))  BY <1>2, TailOf
<1>7. /\ \A g \in seen.held : g = h
      /\ \A g \in seen.held : <<"grant", g[1], g[2]>> \in ever
  BY <1>2, <1>6 DEF Sound, Granted
<1>8. NameOf(h[1], seen.held) = RoleOf(h[1]) \/ Swapped(ever, h[1])
  <2>1. h[1] \in Users /\ seen.held \in SUBSET (Users \X Groups)  BY <1>2 DEF Holding
  <2> QED  BY <1>2, <1>7, <2>1, NameIsRole
<1>9. Owing(call, Tail(todo), s2, found', always, ever)
  <2> SUFFICES ASSUME Whole(call, always), NEW f, Told(call, always, f)
               PROVE  f \in found' \/ Spared(f, s2, ever) \/ Due(call, Tail(todo), s2, f)
    BY DEF Owing
  <2>1. f \in found \/ Spared(f, seen, ever) \/ Due(call, todo, seen, f)
    BY <1>2 DEF LastInv, Owing
  <2>2. CASE f \in found \/ Spared(f, seen, ever)  BY <1>4, <1>5, <2>2 DEF Spared
  <2>3. CASE \E x \in Steps(todo) : Yields(call, f, x)
    BY <1>2, <1>6, <2>3, RosterYields DEF Due
  <2>4. CASE RoleInRoster(call, f) /\ "users" \in Steps(todo)
    BY <1>6, <2>4 DEF Due
  <2>5. CASE RoleInRoster(call, f) /\ "eachGrant" \in Steps(todo) /\ f[2] \in seen.users
    BY <1>4, <1>6, <2>5 DEF Due
  <2>6. CASE RoleInRoster(call, f) /\ \E g \in seen.held : g[1] = f[2]
    <3>1. f[2] = h[1]  BY <1>7, <2>6
    <3>2. f \in Truth /\ f[1] = "role"  BY <1>1, <2>6, Now DEF Told, RoleInRoster
    <3>3. f = <<"role", h[1], RoleOf(h[1])>>  BY <3>1, <3>2, TruthForms
    <3> QED  BY <1>5, <1>8, <3>1, <3>2, <3>3 DEF Spared
  <2> QED  BY <2>1, <2>2, <2>3, <2>4, <2>5, <2>6 DEF Due
<1> QED  BY <1>2, <1>5, <1>9, RosterCovers, PaidOnGoing

LEMMA FindGrantOfPaid == ASSUME LastInv, FindGrantOf PROVE Paid
<1> DEFINE facts == {<<"grant", call.target, grants[call.target]>>}
<1>1. At("grantOf") /\ pc = "running" /\ call.kind = "grant"
  BY Here DEF LastInv, FindGrantOf, KindsWith, At
<1>2. Read(facts, seen)  BY <1>1, QueryNames DEF FindGrantOf, UserOf
<1>3. ASSUME NEW f, Told(call, always, f), Yields(call, f, "grantOf") PROVE f \in facts
  <2>1. f \in Truth /\ f[1] = "grant" /\ f[2] = call.target
    BY <1>1, <1>3, Now DEF Told
  <2> QED  BY <2>1, TruthForms
<1> HIDE DEF facts
<1> QED  BY <1>1, <1>2, <1>3, PaidPlainly DEF Gathering

LEMMA FindGroupsPaid == ASSUME LastInv, FindGroups PROVE Paid
<1> DEFINE facts == {<<"group", g, groups[g]>> :
                       g \in {g \in Groups : groups[g] # None /\ HomeOf[g] = CompanyOf(call)}}
<1>1. At("groups") /\ pc = "running" /\ call.kind = "groups" /\ Shape(call, todo)
  BY Here DEF LastInv, FindGroups, KindsWith, At
<1>2. Read(facts, seen)  BY QueryNames DEF FindGroups
<1>3. ASSUME NEW f, Told(call, always, f), Yields(call, f, "groups") PROVE f \in facts
  <2>1. f \in Truth /\ f[1] = "group" /\ HomeOf[f[2]] = CompanyOf(call)
    BY <1>1, <1>3, Now, Typed DEF Told
  <2> QED  BY <2>1, TruthForms
<1> HIDE DEF facts
<1> QED  BY <1>1, <1>2, <1>3, PaidPlainly DEF Gathering

LEMMA FindRolePaid == ASSUME LastInv, FindRole PROVE Paid
<1> DEFINE g == call.target
           facts == {<<"group", g, groups[g]>>}
           s2 == [seen EXCEPT !.company = HomeOf[g]]
<1>1. At("role") /\ pc = "running"  BY DEF FindRole, At
<1>2. /\ todo # <<>> /\ Head(todo) = "role" /\ Shape(call, todo) /\ seen \in Holding
      /\ call.kind = "group"
  BY <1>1, Here DEF LastInv, KindsWith
<1>3. ASSUME NEW f, Told(call, always, f) PROVE f \in facts /\ groups[g] # None
  <2>1. f \in Truth /\ f[1] = "group" /\ f[2] = g  BY <1>1, <1>2, <1>3, Now DEF Told
  <2> QED  BY <2>1, TruthForms
<1>4. CASE groups[g] = None
  <2>1. Empty  BY <1>4, QueryNames DEF FindRole
  <2> QED  BY <1>3, <1>4, <2>1, PaidWithNothing
<1>5. CASE groups[g] # None
  <2>1. Read(facts, s2)  BY <1>5, QueryNames DEF FindRole
  <2>2. s2.silent = seen.silent  BY <1>2 DEF Holding
  <2> HIDE DEF facts, s2
  <2>3. \A y : Did(call, Tail(todo), y) => y = "role"
    BY <1>2, InBase, FirstDone DEF Rank
  <2>4. Covers(call, Tail(todo), s2, always, ever)  BY <2>3 DEF Covers
  <2> QED  BY <1>1, <1>2, <1>3, <2>1, <2>2, <2>4, PaidByReading
<1> QED  BY <1>4, <1>5

\* Two roles of a company may have one name; which of them is answered is open.
LEMMA FindRoleNamedPaid == ASSUME LastInv, FindRoleNamed PROVE Paid
<1>1. At("roleNamed") /\ call.kind = "namedGroup"
  BY Here DEF LastInv, FindRoleNamed, KindsWith
<1>2. ~Whole(call, always)  BY <1>1 DEF Whole
<1>3. CASE Empty  BY <1>2, <1>3, PaidWithNothing
<1>4. CASE \E g \in Groups : Read({<<"group", g, groups[g]>>}, seen)
  <2>1. PICK g \in Groups : Read({<<"group", g, groups[g]>>}, seen)  BY <1>4
  <2> QED  BY <1>1, <1>2, <2>1, PaidPlainly DEF Gathering
<1>5. Empty \/ \E g \in Groups : Read({<<"group", g, groups[g]>>}, seen)
  BY DEF FindRoleNamed
<1> QED  BY <1>3, <1>4, <1>5

LEMMA PeopleReadsPaid == ASSUME LastInv, PeopleReads PROVE Paid
BY FindUserPaid, FindUsersPaid, FindGrantsPaid, FindNamesPaid, EachGrantPaid, EachGroupPaid,
   FindGrantOfPaid, FindGroupsPaid, FindRolePaid, FindRoleNamedPaid
   DEF PeopleReads

-----------------------------------------------------------------------------
(* The reads of factories and assets do.                                   *)

LEMMA FindSitesPaid == ASSUME LastInv, FindSites PROVE Paid
<1>1. At("ownSites") \/ At("factories")  BY DEF FindSites
<1>2. CASE At("ownSites")
  <2> DEFINE facts == {<<"site", f, sites[f]>> :
                         f \in {f \in Factories : sites[f] # None /\ sites[f] = CompanyOf(call)}}
  <2>1. Head(todo) = "ownSites" /\ Shape(call, todo) /\ call.kind = "factories" /\ pc = "running"
    BY <1>2, Here DEF LastInv, KindsWith
  <2>2. Read(facts, seen)  BY <2>1, QueryNames DEF FindSites
  <2>3. ASSUME NEW f, Told(call, always, f), Yields(call, f, "ownSites") PROVE f \in facts
    <3>1. f \in always /\ f[1] = "site" /\ f[3] = CompanyOf(call)
      BY <2>1, <2>3, Typed DEF Told
    <3>2. f = <<"site", f[2], f[3]>>  BY <1>2, <3>1, Now, FormsOf
    <3> QED  BY <2>1, <3>1, <3>2, NowTrue
  <2> HIDE DEF facts
  <2> QED  BY <1>2, <2>2, <2>3, PaidPlainly DEF Gathering
<1>3. CASE At("factories")
  <2> DEFINE facts == {<<"factory", f, sites[f]>> : f \in {f \in Factories : sites[f] # None}}
  <2>1. Head(todo) = "factories" /\ call.kind = "directory"
    BY <1>3, Here DEF LastInv, KindsWith
  <2>2. Read(facts, seen)  BY <2>1 DEF FindSites
  <2>3. ASSUME NEW f, Told(call, always, f), Yields(call, f, "factories") PROVE f \in facts
    <3>1. f \in Truth /\ f[1] = "factory"  BY <1>3, <2>1, <2>3, Now DEF Told
    <3> QED  BY <3>1, TruthForms
  <2> HIDE DEF facts
  <2> QED  BY <1>3, <2>2, <2>3, PaidPlainly DEF Gathering
<1> QED  BY <1>1, <1>2, <1>3

LEMMA FindSitePaid == ASSUME LastInv, FindSite PROVE Paid
<1> DEFINE f0 == call.target
           facts == IF call.kind = "factory" THEN {<<"site", f0, sites[f0]>>} ELSE {}
           s2 == [seen EXCEPT !.company = sites[f0]]
<1>1. At("site") /\ pc = "running"  BY DEF FindSite, At
<1>2. /\ todo # <<>> /\ Head(todo) = "site" /\ Shape(call, todo) /\ seen \in Holding
      /\ call.kind \in {"factory", "factoryOwner", "factoryAssets"}
  BY <1>1, Here DEF LastInv, KindsWith
<1>3. ASSUME NEW f, Told(call, always, f)
      PROVE  sites[f0] # None /\ (call.kind = "factory" => f \in facts)
  <2>1. CASE call.kind = "factory"
    <3>1. f \in always /\ f[1] = "site" /\ f[2] = f0  BY <1>3, <2>1 DEF Told
    <3>2. f = <<"site", f0, f[3]>>  BY <1>1, <3>1, Now, FormsOf
    <3> QED  BY <1>1, <2>1, <3>1, <3>2, NowTrue
  <2>2. CASE call.kind \in {"factoryOwner", "factoryAssets"}
    <3>1. \E c \in Companies : <<"site", f0, c>> \in always
      <4>1. CASE call.kind = "factoryOwner"  BY <1>3, <4>1 DEF Told
      <4>2. CASE call.kind = "factoryAssets"  BY <1>3, <4>2 DEF Told
      <4> QED  BY <2>2, <4>1, <4>2
    <3> QED  BY <1>1, <2>2, <3>1, NowTrue
  <2> QED  BY <1>2, <2>1, <2>2
<1>4. CASE sites[f0] = None
  <2>1. Empty  BY <1>4, QueryNames DEF FindSite
  <2> QED  BY <1>3, <1>4, <2>1, PaidWithNothing
<1>5. CASE sites[f0] # None
  <2>1. Read(facts, s2)  BY <1>5, QueryNames DEF FindSite
  <2>2. s2.silent = seen.silent  BY <1>2 DEF Holding
  <2> HIDE DEF facts, s2
  <2>3. \A y : Did(call, Tail(todo), y) => y = "site"
    BY <1>2, InBase, FirstDone DEF Rank
  <2>4. Covers(call, Tail(todo), s2, always, ever)  BY <2>3 DEF Covers
  <2>5. \A f : Yields(call, f, "site") => call.kind = "factory"
    BY <1>2 DEF Yields, Source
  <2> QED  BY <1>1, <1>2, <1>3, <2>1, <2>2, <2>4, <2>5, PaidByReading
<1> QED  BY <1>4, <1>5

LEMMA FindSiteTherePaid == ASSUME LastInv, FindSiteThere PROVE Paid
<1> DEFINE f0 == seen.row.site
           facts == {<<"site", f0, sites[f0]>>}
<1>1. At("siteThere") /\ pc = "running"  BY DEF FindSiteThere, At
<1>2. /\ todo # <<>> /\ Head(todo) = "siteThere" /\ Shape(call, todo) /\ call.kind = "location"
  BY <1>1, Here DEF LastInv, KindsWith
<1>3. "asset" \in Base(call.kind)  BY <1>2 DEF Base
<1>4. Did(call, todo, "asset")  BY <1>2, <1>3, Earlier DEF Rank
<1>5. \A row : <<"asset", call.target, row>> \in always => row = seen.row
  BY <1>1, <1>4, Now DEF Covers
<1>6. ASSUME NEW f, Told(call, always, f) PROVE sites[f0] # None /\ f \in facts
  <2>1. f \in always /\ f[1] = "site" /\ f[2] = f0  BY <1>2, <1>5, <1>6 DEF Told
  <2>2. f = <<"site", f0, f[3]>>  BY <1>1, <2>1, Now, FormsOf
  <2> QED  BY <1>1, <2>1, <2>2, NowTrue
<1>7. CASE sites[f0] = None
  <2>1. Empty  BY <1>7 DEF FindSiteThere
  <2> QED  BY <1>6, <1>7, <2>1, PaidWithNothing
<1>8. CASE sites[f0] # None
  <2>1. Read(facts, seen)  BY <1>8 DEF FindSiteThere
  <2> HIDE DEF facts
  <2> QED  BY <1>1, <1>6, <2>1, PaidPlainly DEF Gathering
<1> QED  BY <1>7, <1>8

LEMMA FindAssetPaid == ASSUME LastInv, FindAsset PROVE Paid
<1> DEFINE a == call.target
           row == assets[a]
           facts == IF call.kind = "asset" THEN {<<"asset", a, row>>} ELSE {}
           s2 == [seen EXCEPT !.row = row]
           none == \/ row = None
                   \/ call.kind = "owner" /\ row.owner = None
                   \/ call.kind = "location" /\ row.site = None
<1>1. At("asset") /\ pc = "running"  BY DEF FindAsset, At
<1>2. /\ todo # <<>> /\ Head(todo) = "asset" /\ Shape(call, todo) /\ seen \in Holding
      /\ Tables /\ call.kind \in {"asset", "maker", "owner", "location"}
  BY <1>1, Here DEF LastInv, KindsWith
<1>3. \A r : <<"asset", a, r>> \in always => r = row /\ r # None  BY <1>1, NowTrue
<1>4. ASSUME NEW f, Told(call, always, f) PROVE ~none /\ (call.kind = "asset" => f \in facts)
  <2>1. f \in always /\ Formed(f)  BY <1>1, <1>4, Now DEF Told
  <2>2. CASE call.kind = "asset"
    <3>1. f = <<"asset", a, f[3]>>  BY <1>4, <2>1, <2>2, FormsOf DEF Told
    <3> QED  BY <1>3, <2>1, <2>2, <3>1
  <2>3. CASE call.kind = "maker"
    <3>1. \E r \in Asset : <<"asset", a, r>> \in always  BY <1>4, <2>3 DEF Told
    <3> QED  BY <1>3, <2>3, <3>1
  <2>4. CASE call.kind = "owner"
    <3>1. PICK r \in Asset : <<"asset", a, r>> \in always /\ OfRow(call, always, f, r.owner)
      BY <1>4, <2>4 DEF Told
    <3>2. There(always, r.owner)
      <4>1. f[1] = "record" => f = <<"record", f[2]>>  BY <2>1, FormsOf
      <4> QED  BY <1>1, <2>1, <3>1, <4>1, NowTrue DEF OfRow, OfProfile
    <3>3. r.owner \in companies  BY <1>1, <3>2, NowTrue
    <3>4. r.owner # None  BY <1>2, <3>3, DirectoryAssumption DEF Tables
    <3> QED  BY <1>3, <2>4, <3>1, <3>4
  <2>5. CASE call.kind = "location"
    <3>1. PICK r \in Asset : <<"asset", a, r>> \in always /\ f[2] = r.site /\ f[1] = "site"
      BY <1>4, <2>5 DEF Told
    <3>2. f[2] \in Factories  BY <2>1, <3>1, FormsOf
    <3>3. r.site # None  BY <3>1, <3>2, DirectoryAssumption
    <3> QED  BY <1>3, <2>5, <3>1, <3>3
  <2> QED  BY <1>2, <2>2, <2>3, <2>4, <2>5
<1>5. IF none THEN Empty ELSE Read(facts, s2)  BY QueryNames DEF FindAsset
<1>6. CASE none  BY <1>4, <1>5, <1>6, PaidWithNothing
<1>7. CASE ~none
  <2>1. Read(facts, s2)  BY <1>5, <1>7
  <2>2. s2.silent = seen.silent /\ s2.row = row  BY <1>2 DEF Holding
  <2> HIDE DEF facts, s2, none, row
  <2>3. \A y : Did(call, Tail(todo), y) => y = "asset"
    BY <1>2, InBase, FirstDone DEF Rank
  <2>4. Covers(call, Tail(todo), s2, always, ever)  BY <1>3, <2>2, <2>3 DEF Covers
  <2>5. \A f : Yields(call, f, "asset") => call.kind = "asset"
    BY <1>2 DEF Yields, Source
  <2> QED  BY <1>1, <1>2, <1>4, <2>1, <2>2, <2>4, <2>5, PaidByReading
<1> QED  BY <1>6, <1>7

LEMMA FindAssetsPaid == ASSUME LastInv, FindAssets PROVE Paid
<1> DEFINE made == {a \in Assets : assets[a] # None /\ assets[a].maker = CompanyOf(call)}
           wanted ==
             CASE call.kind = "made" -> made
               [] call.kind = "owned" -> {a \in Assets : assets[a] # None
                     /\ assets[a].owner = CompanyOf(call)}
               [] call.kind = "pair" -> {a \in made : assets[a].owner = call.target[2]}
           facts == {<<"asset", a, assets[a]>> : a \in wanted}
<1>1. At("assets") /\ pc = "running"  BY DEF FindAssets, At
<1>2. Shape(call, todo) /\ call.kind \in {"made", "owned", "pair"}
  BY <1>1, Here DEF LastInv, KindsWith
<1>3. Read(facts, seen)
  <2>1. AssetsMade = made  BY QueryNames DEF AssetsMade
  <2> QED  BY <1>2, <2>1, QueryNames DEF FindAssets
<1>4. ASSUME NEW f, Told(call, always, f) PROVE f \in facts
  <2>1. f \in always /\ f[1] = "asset"
    <3>1. CASE call.kind = "made"  BY <1>4, <3>1 DEF Told
    <3>2. CASE call.kind = "owned"  BY <1>4, <3>2 DEF Told
    <3>3. CASE call.kind = "pair"  BY <1>4, <3>3 DEF Told
    <3> QED  BY <1>2, <3>1, <3>2, <3>3
  <2>2. f = <<"asset", f[2], f[3]>>  BY <1>1, <2>1, Now, FormsOf
  <2>3. f[2] \in Assets /\ assets[f[2]] = f[3] /\ f[3] # None
    BY <1>1, <2>1, <2>2, NowTrue
  <2>4. f[2] \in wanted
    <3>1. CASE call.kind = "made"
      <4>1. f[3].maker = CompanyOf(call)  BY <1>2, <1>4, <3>1, Typed DEF Told
      <4> QED  BY <2>3, <3>1, <4>1
    <3>2. CASE call.kind = "owned"
      <4>1. f[3].owner = CompanyOf(call)  BY <1>2, <1>4, <3>2, Typed DEF Told
      <4> QED  BY <2>3, <3>2, <4>1
    <3>3. CASE call.kind = "pair"
      <4>1. f[3].maker = CompanyOf(call) /\ f[3].owner = call.target[2]
        BY <1>2, <1>4, <3>3, Typed DEF Told
      <4> QED  BY <2>3, <3>3, <4>1
    <3> QED  BY <1>2, <3>1, <3>2, <3>3
  <2> HIDE DEF wanted
  <2> QED  BY <2>2, <2>3, <2>4
<1> HIDE DEF facts
<1> QED  BY <1>1, <1>3, <1>4, PaidPlainly DEF Gathering

LEMMA FindAssetsTherePaid == ASSUME LastInv, FindAssetsThere PROVE Paid
<1> DEFINE f0 == call.target
           facts == {<<"stands", a, f0>> : a \in {a \in Assets : assets[a] # None
                 /\ assets[a].site = f0}}
<1>1. At("assetsThere") /\ Read(facts, seen)  BY QueryNames DEF FindAssetsThere
<1>2. call.kind = "factoryAssets"  BY <1>1, Here DEF LastInv, KindsWith
<1>3. ASSUME NEW f, Told(call, always, f) PROVE f \in facts
  <2>1. f \in Truth /\ f[1] = "stands" /\ f[3] = f0  BY <1>1, <1>2, <1>3, Now DEF Told
  <2>2. f[2] \in Assets /\ assets[f[2]] # None /\ f = <<"stands", f[2], assets[f[2]].site>>
    BY <2>1, TruthForms
  <2> QED  BY <2>1, <2>2
<1> HIDE DEF facts
<1> QED  BY <1>1, <1>3, PaidPlainly DEF Gathering

LEMMA FindTwinsPaid == ASSUME LastInv, FindTwins PROVE Paid
<1> DEFINE owners == {assets[a].owner : a \in AssetsMade} \ {None}
           s2 == [seen EXCEPT !.listed = owners]
<1>1. At("twins") /\ pc = "running"  BY DEF FindTwins, At
<1>2. /\ todo # <<>> /\ Head(todo) = "twins" /\ Shape(call, todo) /\ seen \in Holding
      /\ Tables /\ call.kind = "owners"
  BY <1>1, Here DEF LastInv, KindsWith
<1>3. \A a, row : <<"asset", a, row>> \in always /\ row.maker = call.target
                    => row.owner \in owners \cup {None}
  <2> SUFFICES ASSUME NEW a, NEW row, <<"asset", a, row>> \in always, row.maker = call.target,
                      row.owner # None
               PROVE  row.owner \in owners
    OBVIOUS
  <2>1. a \in Assets /\ assets[a] = row /\ row # None  BY <1>1, NowTrue
  <2>2. a \in AssetsMade  BY <1>2, <2>1, Typed, QueryNames DEF AssetsMade
  <2> QED  BY <2>1, <2>2
<1>4. IF owners = {} THEN Empty ELSE Read({}, s2)  BY Zenon DEF FindTwins
<1>5. CASE owners = {}
  <2>1. ASSUME NEW f, Told(call, always, f) PROVE FALSE
    <3>1. f \in always /\ f[1] = "company" /\ \E a \in Assets, row \in Asset :
            <<"asset", a, row>> \in always /\ row.maker = call.target /\ row.owner = f[2]
      BY <1>2, <2>1 DEF Told
    <3>2. f = <<"company", f[2]>>  BY <1>1, <3>1, Now, FormsOf
    <3>3. f[2] \in companies  BY <1>1, <3>1, <3>2, NowTrue DEF There
    <3>4. f[2] # None  BY <1>2, <3>3, DirectoryAssumption DEF Tables
    <3>5. f[2] \in owners \cup {None}  BY <1>3, <3>1
    <3> QED  BY <1>5, <3>4, <3>5
  <2> QED  BY <1>4, <1>5, <2>1, PaidWithNothing
<1>6. CASE owners # {}
  <2>1. Read({}, s2)  BY <1>4, <1>6
  <2>2. s2.silent = seen.silent /\ s2.listed = owners  BY <1>2 DEF Holding
  <2> HIDE DEF owners, s2
  <2>3. \A y : Did(call, Tail(todo), y) => y \in {"company", "match", "twins", "named"}
    BY <1>2 DEF Did, Base
  <2>4. Covers(call, Tail(todo), s2, always, ever)  BY <1>3, <2>2, <2>3 DEF Covers
  <2>5. \A f : ~Yields(call, f, "twins")  BY SilentSteps DEF Silent
  <2> QED  BY <1>1, <1>2, <2>1, <2>2, <2>4, <2>5, PaidByReading
<1> QED  BY <1>5, <1>6

LEMMA AssetReadsPaid == ASSUME LastInv, AssetReads PROVE Paid
BY FindSitesPaid, FindSitePaid, FindSiteTherePaid, FindAssetPaid, FindAssetsPaid,
   FindAssetsTherePaid, FindTwinsPaid DEF AssetReads

-----------------------------------------------------------------------------
(* A query that arrives owes all; a change of its world only leaves less to owe.*)

\* A plan that has ended has its shape still.
LEMMA ShapeAtEnd ==
    ASSUME NEW q, NEW td, Shape(q, td)
    PROVE  Shape(q, <<>>)
<1> DEFINE e == <<>>
<1>1. e \in Seq(AllSteps) /\ DOMAIN e = {} /\ Steps(e) = {}  BY NoSteps
<1> HIDE DEF e
<1>2. InOrder(e)  BY <1>1 DEF InOrder
<1>3. Shape(q, e)  BY <1>1, <1>2 DEF Shape
<1> QED  BY <1>3 DEF e

\* A read that pays keeps the invariant.
LEMMA PayingKeeps == ASSUME LastInv, Kept, Paid, pc = "running" PROVE LastInv'
<1>1. UNCHANGED <<tables, changes, call, ever, always>>  BY DEF Kept, World
<1>2. Truth' = Truth  BY <1>1 DEF tables, Truth, RoleOf, Reads
<1>3. DirInv /\ DirInv'  BY ReadsKept DEF LastInv
<1>4. Denied' = Denied
  BY <1>1 DEF Denied, Entitled, Regranted, Lasting, IsOwn, OwnersOf, Asked, Kind, Caller, Target
<1>5. Shape(call, <<>>)
  <2>1. Shape(call, todo)  BY <1>3 DEF DirInv, Underway, Sound
  <2> QED  BY <2>1, ShapeAtEnd
<1> QED  BY <1>1, <1>2, <1>3, <1>4, <1>5 DEF LastInv, Paid

\* When it arrives a query has everything ahead of it.
LEMMA AllAhead ==
    ASSUME Start
    PROVE  call'.kind \in AllKinds /\ Base(call'.kind) \subseteq Steps(todo')
<1>1. PICK kind \in Kinds, caller \in Callers : \E target \in Targets(kind) :
        /\ call' = [kind |-> kind, caller |-> caller, target |-> target]
        /\ todo' = Plan(kind, caller)
  BY DEF Start
<1>2. call'.kind = kind  BY <1>1
<1>3. kind \in AllKinds  BY DirectoryAssumption
<1> QED  BY <1>1, <1>2, <1>3, PlanFits

\* The step that answers with a fact is one of the plan.
LEMMA SourceInBase ==
    ASSUME NEW q, q.kind \in AllKinds \ {"page", "namedGroup"}, NEW f
    PROVE  Source(q, f) \in Base(q.kind)
<1>1. CASE q.kind \in {"details", "record", "roster", "owners", "category", "taken", "all",
                       "listed", "both"}
  BY <1>1 DEF Source, Base
<1>2. CASE q.kind \in {"groups", "group", "users", "access", "user", "profile", "grant", "indexed"}
  BY <1>2 DEF Source, Base
<1>3. CASE q.kind \in {"factories", "directory", "factory", "factoryOwner", "factoryAssets"}
  BY <1>3 DEF Source, Base
<1>4. CASE q.kind \in {"made", "owned", "pair", "asset", "maker", "owner", "location"}
  BY <1>4 DEF Source, Base
<1> QED  BY <1>1, <1>2, <1>3, <1>4 DEF AllKinds

\* The forms, of all that is true.
LEMMA TruthsAreFormed == Tables /\ Settled => \A f \in Truth : Formed(f)
BY TruthIsFormed

LEMMA StartPays == ASSUME LastInv, Start PROVE LastInv'
<1>1. /\ pc' = "running" /\ ever' = Truth /\ always' = Truth
      /\ UNCHANGED <<tables, changes, seen, found>>
  BY DEF Start
<1>2. Truth' = Truth  BY <1>1 DEF tables, Truth, RoleOf, Reads
<1>3. DirInv /\ DirInv'  BY StartKept DEF LastInv
<1>4. \A f \in Truth : Formed(f)  BY <1>3, TruthsAreFormed DEF DirInv
<1>5. \A c : <<"record", c>> \in Truth => <<"company", c>> \in Truth
  <2> SUFFICES ASSUME NEW c, <<"record", c>> \in Truth PROVE <<"company", c>> \in Truth
    OBVIOUS
  <2>1. c \in companies  BY TruthForms
  <2> QED  BY <2>1, TruthHas
<1> DEFINE q == call'
           td == todo'
<1>6. q.kind \in AllKinds /\ Base(q.kind) \subseteq Steps(td)  BY AllAhead
<1> HIDE DEF q, td
<1>7. \A y : ~Did(q, td, y)  BY <1>6 DEF Did
<1>8. Covers(q, td, seen, Truth, Truth)  BY <1>7 DEF Covers
<1>9. Owing(q, td, seen, found, Truth, Truth)
  <2> SUFFICES ASSUME Whole(q, Truth), NEW f
               PROVE  Due(q, td, seen, f)
    BY DEF Owing
  <2>1. q.kind \in AllKinds \ {"page", "namedGroup"}  BY <1>6 DEF Whole
  <2>2. Source(q, f) \in Steps(td)  BY <1>6, <2>1, SourceInBase
  <2>3. CASE RoleInRoster(q, f)
    <3>1. "users" \in Base(q.kind)  BY <2>3 DEF RoleInRoster, Base
    <3> QED  BY <1>6, <2>3, <3>1 DEF Due
  <2>4. CASE ~RoleInRoster(q, f)
    <3>1. Yields(q, f, Source(q, f))  BY <2>4 DEF Yields
    <3> QED  BY <2>2, <3>1 DEF Due
  <2> QED  BY <2>3, <2>4
<1>10. Covers(call', todo', seen', always', ever')
      /\ Owing(call', todo', seen', found', always', ever')
  BY <1>1, <1>8, <1>9 DEF q, td
<1> QED  BY <1>1, <1>2, <1>3, <1>4, <1>5, <1>10 DEF LastInv

\* What a query asks for of some facts it asks for of more.
LEMMA ToldGrows ==
    ASSUME NEW q, q.kind \in AllKinds, NEW ev, NEW ev2, ev \subseteq ev2, NEW f, Told(q, ev, f)
    PROVE  Told(q, ev2, f)
<1>1. /\ \A c : There(ev, c) => There(ev2, c)
      /\ \A c : OfProfile(ev, f, c) => OfProfile(ev2, f, c)
      /\ \A c : OfRow(q, ev, f, c) => OfRow(q, ev2, f, c)
  BY DEF There, OfProfile, OfRow
<1>2. CASE q.kind \in {"details", "record", "roster", "owners", "category", "taken"}
  BY <1>1, <1>2 DEF Told
<1>3. CASE q.kind \in {"all", "listed", "both", "page", "groups", "group", "namedGroup", "users"}
  BY <1>1, <1>3 DEF Told
<1>4. CASE q.kind \in {"access", "user", "profile", "grant", "indexed", "factories", "directory"}
  BY <1>1, <1>4 DEF Told
<1>5. CASE q.kind \in {"factory", "factoryOwner", "factoryAssets", "made", "owned", "pair"}
  BY <1>1, <1>5 DEF Told
<1>6. CASE q.kind \in {"asset", "maker", "owner", "location"}
  BY <1>1, <1>6 DEF Told
<1> QED  BY <1>2, <1>3, <1>4, <1>5, <1>6 DEF AllKinds

\* The world's changes only make less last.
LEMMA LessLasts ==
    ASSUME NEW q, q.kind \in AllKinds, NEW td, NEW sn, NEW fd, NEW av, NEW ev, NEW av2, NEW ev2,
           av2 \subseteq av, ev \subseteq ev2,
           Covers(q, td, sn, av, ev), Owing(q, td, sn, fd, av, ev)
    PROVE  Covers(q, td, sn, av2, ev2) /\ Owing(q, td, sn, fd, av2, ev2)
<1>1. Covers(q, td, sn, av2, ev2)
  <2>1. \A c : There(av2, c) => There(av, c)  BY DEF There
  <2> QED  BY <2>1 DEF Covers
<1>2. Owing(q, td, sn, fd, av2, ev2)
  <2> SUFFICES ASSUME Whole(q, av2), NEW f, Told(q, av2, f)
               PROVE  f \in fd \/ Spared(f, sn, ev2) \/ Due(q, td, sn, f)
    BY DEF Owing
  <2>1. Whole(q, av)
    <3>1. CASE q.kind # "indexed"  BY <3>1 DEF Whole
    <3>2. CASE q.kind = "indexed"
      <4>1. PICK c \in Companies, k \in Categories, g \in Groups :
              {<<"company", q.target[1]>>, <<"user", q.target[2], c>>, <<"category", c, k>>,
               <<"grant", q.target[2], g>>} \subseteq av2
        BY <3>2 DEF Whole
      <4>2. {<<"company", q.target[1]>>, <<"user", q.target[2], c>>, <<"category", c, k>>,
             <<"grant", q.target[2], g>>} \subseteq av
        BY <4>1
      <4> QED  BY <3>2, <4>2 DEF Whole
    <3> QED  BY <3>1, <3>2
  <2>2. Told(q, av, f)  BY ToldGrows
  <2>3. Spared(f, sn, ev) => Spared(f, sn, ev2)  BY DEF Spared, Swapped
  <2> QED  BY <2>1, <2>2, <2>3 DEF Owing
<1> QED  BY <1>1, <1>2

LEMMA OthersPay == ASSUME LastInv, Others PROVE LastInv'
<1>1. Changes
  BY DEF Others, DropCompany, MoveCategory, Recertify, DropUser, Regrant, EditGroup,
         DropFactory, ChangeAsset
<1>2. /\ pc = "running" /\ pc' = pc /\ UNCHANGED <<call, todo, seen, found>>
      /\ ever' = ever \cup Truth' /\ always' = always \cap Truth'
  BY <1>1 DEF Changes, query
<1>3. DirInv /\ DirInv'  BY OthersKept DEF LastInv
<1>4. (\A f \in Truth : Formed(f))'
  <2>1. Tables' /\ Settled'  BY <1>3 DEF DirInv
  <2>2. (Tables /\ Settled => \A f \in Truth : Formed(f))'  BY TruthsAreFormed, PTL
  <2> QED  BY <2>1, <2>2
<1>5. \A f \in ever' : Formed(f)  BY <1>2, <1>4 DEF LastInv
<1>6. \A c : <<"record", c>> \in always' => <<"company", c>> \in always'
  <2> SUFFICES ASSUME NEW c, <<"record", c>> \in always' PROVE <<"company", c>> \in always'
    OBVIOUS
  <2>1. <<"company", c>> \in always  BY <1>2 DEF LastInv
  <2>2. c \in companies'  BY <1>2 DEF Truth
  <2>3. <<"company", c>> \in Truth'  BY <2>2 DEF Truth
  <2> QED  BY <1>2, <2>1, <2>3
<1>7. Covers(call, todo, seen, always', ever') /\ Owing(call, todo, seen, found, always', ever')
  <2>1. call.kind \in AllKinds
    BY <1>2, <1>3, DirectoryAssumption DEF DirInv, Underway, Sound, Shape
  <2>2. Covers(call, todo, seen, always, ever) /\ Owing(call, todo, seen, found, always, ever)
    BY <1>2 DEF LastInv
  <2>3. always' \subseteq always /\ ever \subseteq ever'  BY <1>2
  <2> QED  BY <2>1, <2>2, <2>3, LessLasts
<1>8. always' \subseteq ever' /\ always' \subseteq Truth'  BY <1>2
<1> QED  BY <1>2, <1>3, <1>5, <1>6, <1>7, <1>8 DEF LastInv

-----------------------------------------------------------------------------
(* What that gives.                                                        *)

\* The invariant.
LEMMA LastInit == ASSUME Init PROVE LastInv
<1>1. DirInv  BY DirInit
<1> QED  BY <1>1 DEF Init, LastInv

LEMMA LastNext == LastInv /\ [Next]_vars => LastInv'
<1> SUFFICES ASSUME LastInv, [Next]_vars PROVE LastInv'
  OBVIOUS
<1>0. DirInv  BY DEF LastInv
<1>1. CASE Start  BY <1>1, StartPays
<1>2. CASE StatementFails
  <2>1. pc = "running" /\ pc' = "failed"  BY <1>2 DEF StatementFails, Ends
  <2>2. Paid  BY <2>1 DEF Paid
  <2> QED  BY <1>0, <1>2, <2>1, <2>2, Ending, PayingKeeps
<1>3. CASE Checks
  <2>1. pc = "running"
    BY <1>3 DEF Checks, Match, FindGrant, FindGroup, OwnRecord, Party, Partner, At
  <2> QED  BY <1>0, <1>3, <2>1, ChecksKept, ChecksPaid, PayingKeeps
<1>4. CASE CompanyReads
  <2>1. pc = "running"
    BY <1>4 DEF CompanyReads, FindCompany, Show, Home, FindMapping, Taken, FindAll, FindMappings,
                Certify, FindMapped, FindNamed, FindSome, FindPresent, FindGiven, At
  <2> QED  BY <1>0, <1>4, <2>1, CompanyReadsKept, CompanyReadsPaid, PayingKeeps
<1>5. CASE PeopleReads
  <2>1. pc = "running"
    BY <1>5 DEF PeopleReads, FindUser, FindUsers, FindGrants, FindNames, EachGrant, EachGroup,
                FindGrantOf, FindGroups, FindRole, FindRoleNamed, At
  <2> QED  BY <1>0, <1>5, <2>1, PeopleReadsKept, PeopleReadsPaid, PayingKeeps
<1>6. CASE AssetReads
  <2>1. pc = "running"
    BY <1>6 DEF AssetReads, FindSites, FindSite, FindSiteThere, FindAsset, FindAssets,
                FindAssetsThere, FindTwins, At
  <2> QED  BY <1>0, <1>6, <2>1, AssetReadsKept, AssetReadsPaid, PayingKeeps
<1>7. CASE Others  BY <1>7, OthersPay
<1>8. CASE UNCHANGED vars
  <2>1. UNCHANGED <<tables, changes, call, pc, todo, seen, found, ever, always>>
    BY <1>8 DEF vars, query
  <2>2. Truth' = Truth  BY <2>1 DEF tables, Truth, RoleOf, Reads
  <2>3. DirInv'  BY <1>0, <1>8, DirNext
  <2>4. Denied' = Denied
    BY <2>1 DEF Denied, Entitled, Regranted, Lasting, IsOwn, OwnersOf, Asked, Kind, Caller, Target
  <2> QED  BY <2>1, <2>2, <2>3, <2>4 DEF LastInv
<1> QED  BY <1>1, <1>2, <1>3, <1>4, <1>5, <1>6, <1>7, <1>8 DEF Next

LEMMA LastInvariant == Spec => []LastInv
BY LastInit, LastNext, PTL DEF Spec

\* Where all that getIndexedData needs has lasted it has an answer.
LEMMA CompleteIsWhole ==
    ASSUME LastInv, Shape(call, <<>>), call.kind \notin {"page", "namedGroup"},
           call.kind = "indexed" => Complete
    PROVE  Whole(call, always)
<1>1. CASE call.kind # "indexed"  BY <1>1 DEF Whole
<1>2. CASE call.kind = "indexed"
  <2> DEFINE u == call.target[2]
  <2>1. Asked = call.target[1] /\ AskedUser = u  BY <1>2, QueryNames DEF CompanyOf, UserOf
  <2>2. PICK f \in always, g \in always, h \in always :
          /\ f[1] = "user" /\ f[2] = u
          /\ g[1] = "category" /\ g[2] = f[3]
          /\ h[1] = "grant" /\ h[2] = u /\ h[3] # None
    BY <1>2, <2>1 DEF Complete
  <2>3. Formed(f) /\ Formed(g) /\ Formed(h)  BY DEF LastInv
  <2>4. f = <<"user", u, f[3]>> /\ g = <<"category", f[3], g[3]>> /\ h = <<"grant", u, h[3]>>
    BY <2>2, <2>3, FormsOf
  <2>5. f[3] \in Companies /\ g[3] \in Categories /\ h[3] \in Groups
    BY <2>2, <2>3, FormsOf
  <2>6. <<"company", call.target[1]>> \in always  BY <1>2, <2>1 DEF Complete
  <2>7. {<<"company", call.target[1]>>, <<"user", call.target[2], f[3]>>,
         <<"category", f[3], g[3]>>, <<"grant", call.target[2], h[3]>>} \subseteq always
    BY <2>4, <2>6
  <2> QED  BY <1>2, <2>5, <2>7 DEF Whole
<1> QED  BY <1>1, <1>2

LEMMA LastHolds == LastInv => WhatLastsIsAnswered
<1> SUFFICES ASSUME LastInv PROVE WhatLastsIsAnswered
  OBVIOUS
<1>1. ASSUME pc = "refused"
      PROVE  \/ IsUser(Caller) /\ (<<"reader", Caller.user>> \notin always \/ Regranted(Caller.user))
             \/ ~Entitled
  BY <1>1 DEF LastInv, Denied
<1>2. ASSUME pc = "answered", Kind \notin {"page", "namedGroup"}, Kind = "indexed" => Complete,
             NEW f \in About(always)
      PROVE  f \in found \/ Torn(f) \/ (f[1] = "certified" /\ seen.silent)
  <2>1. Shape(call, <<>>) /\ Owing(call, <<>>, seen, found, always, ever)
    BY <1>2 DEF LastInv
  <2>2. Whole(call, always)  BY <1>2, <2>1, CompleteIsWhole DEF Kind
  <2>3. \A g \in always : Formed(g)  BY DEF LastInv
  <2>4. Told(call, always, f)  BY <1>2, <2>1, <2>3, AboutIsTold
  <2>5. f \in found \/ Spared(f, seen, ever)
    BY <2>1, <2>2, <2>4, NoSteps DEF Owing, Due
  <2> QED  BY <2>5, SwappedIsRegranted DEF Spared, Torn
<1> QED  BY <1>1, <1>2 DEF WhatLastsIsAnswered

\* However the reads of a query fall between the changes of others, what is true all
\* along is answered: a caller whose right lasts is not refused, and no fact that
\* lasts is left out of what was asked for, but the role of a user whose grant was
\* replaced, what ICID did not vouch for, and the rows of other pages.
THEOREM NothingMissing == Spec => []WhatLastsIsAnswered
BY LastInvariant, LastHolds, PTL
=============================================================================
