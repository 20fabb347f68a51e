-------------------------- MODULE InvestigationProofs --------------------------
(* Theorems about the investigation of a service: on both backends it keeps the  *)
(* promise of ServiceAnswer while collectors write, and SQLite shows a proof of  *)
(* every object within the caller's limit.                                       *)
EXTENDS Investigation, FiniteSetTheorems, WellFoundedInduction, TLAPS

--------------------------------------------------------------------------------
(* What is reached from the service is the least closed set.                     *)

\* The objects that an investigation looks behind, and what it finds there.
Behind(p) == p = Svc \/ Opens(p)
Finds(p, o, among) == Behind(p) /\ InEvidence(o) /\ Promise!Linked(p, o, among)

Closed(X, among) == \A p \in X, o \in Objects : Finds(p, o, among) => o \in X

Spread(X, among) ==
  X \cup {o \in Objects : InEvidence(o) /\ \E p \in X : Behind(p) /\ Promise!Linked(p, o, among)}

Spreads(f, n, among) ==
  f = [i \in 0 .. n |-> IF i = 0 THEN {Svc} ELSE Spread(f[i - 1], among)]

\* A set of natural numbers has a least one.
LEMMA LeastNumber ==
  ASSUME NEW T \in SUBSET Nat, T # {}
  PROVE  \E x \in T : \A y \in T : x <= y
<1> DEFINE R == {ss \in Nat \X Nat : ss[1] < ss[2]}
<1>1. IsWellFoundedOn(R, Nat)
  BY NatLessThanWellFounded DEF OpToRel
<1>2. PICK x \in T : \A y \in T : <<y, x>> \notin R
  BY <1>1, WFMin
<1>3. \A y \in T : x <= y
  <2> SUFFICES ASSUME NEW y \in T, ~(x <= y) PROVE FALSE
    OBVIOUS
  <2>1. x \in Nat /\ y \in Nat /\ y < x
    OBVIOUS
  <2>2. <<y, x>> \in R
    BY <2>1
  <2>3. QED
    BY <1>2, <2>2
<1>4. QED
  BY <1>3

\* The rounds of a search can be counted to any number ...
LEMMA SpreadsExist ==
  ASSUME NEW among, NEW n \in Nat
  PROVE  \E f : Spreads(f, n, among)
<1> DEFINE T == {m \in Nat : ~ \E f : Spreads(f, m, among)}
<1>1. SUFFICES ASSUME T # {} PROVE FALSE
  OBVIOUS
<1>2. PICK m \in T : \A k \in T : m <= k
  BY <1>1, LeastNumber, Zenon
<1>3. CASE m = 0
  <2>1. Spreads([i \in 0 .. 0 |-> {Svc}], 0, among)
    BY DEF Spreads
  <2> QED BY <1>3, <2>1
<1>4. CASE m # 0
  <2>1. m - 1 \in Nat /\ m - 1 \notin T
    BY <1>2, <1>4
  <2>2. PICK g : Spreads(g, m - 1, among)
    BY <2>1
  <2> DEFINE h == [i \in 0 .. m |-> IF i = m THEN Spread(g[m - 1], among) ELSE g[i]]
  <2>3. \A i \in 0 .. (m - 1) : h[i] = g[i]
    BY <2>1
  <2>4. h[m] = Spread(h[m - 1], among)
    BY <2>1, <2>3
  <2>5. \A i \in 0 .. m : h[i] = IF i = 0 THEN {Svc} ELSE Spread(h[i - 1], among)
    <3> SUFFICES ASSUME NEW i \in 0 .. m
                 PROVE  h[i] = IF i = 0 THEN {Svc} ELSE Spread(h[i - 1], among)
      OBVIOUS
    <3>1. CASE i = m
      BY <1>4, <2>4, <3>1
    <3>2. CASE i # m
      <4>1. i \in 0 .. (m - 1)
        BY <3>2
      <4>2. g[i] = IF i = 0 THEN {Svc} ELSE Spread(g[i - 1], among)
        BY <2>2, <4>1 DEF Spreads
      <4>3. i # 0 => i - 1 \in 0 .. (m - 1)
        BY <4>1
      <4> HIDE DEF h
      <4> QED BY <2>3, <4>1, <4>2, <4>3
    <3> QED BY <3>1, <3>2
  <2>6. DOMAIN h = 0 .. m
    OBVIOUS
  <2>7. h = [i \in DOMAIN h |-> h[i]]
    OBVIOUS
  <2> HIDE DEF h
  <2>8. Spreads(h, m, among)
    BY <2>5, <2>6, <2>7 DEF Spreads
  <2> QED BY <2>8
<1> QED BY <1>3, <1>4

\* ... and Reach is the last of as many as there are objects.
LEMMA ReachIsLast ==
  ASSUME NEW among
  PROVE  \E f : /\ Spreads(f, Cardinality(Objects), among)
               /\ Promise!Reach(among) = f[Cardinality(Objects)] \ {Svc}
<1> DEFINE N == Cardinality(Objects)
           F == CHOOSE f : Spreads(f, N, among)
<1>1. N \in Nat
  BY InvestigationAssumption, FS_CardinalityType
<1>2. Spreads(F, N, among)
  BY <1>1, SpreadsExist
<1>3. Promise!Cardinality(Objects) = N
  BY Zenon DEF Promise!Cardinality, Cardinality
<1>4. Promise!Reach(among) = F[N] \ {Svc}
  BY <1>3, Zenon DEF Promise!Reach, Spreads, Spread, Behind, InEvidence, Opens, Promise!InEvidence, Promise!Opens
<1> HIDE DEF F
<1> QED BY <1>2, <1>4

\* A round that finds nothing ends the search; each other one adds an object.
LEMMA RoundsGrow ==
  ASSUME NEW among, NEW f, Spreads(f, Cardinality(Objects), among),
         NEW n \in 0 .. Cardinality(Objects)
  PROVE  /\ f[n] \subseteq Objects /\ Svc \in f[n]
         /\ Closed(f[n], among) \/ Cardinality(f[n]) > n
<1> DEFINE N == Cardinality(Objects)
           P(m) == /\ f[m] \subseteq Objects /\ Svc \in f[m]
                   /\ Closed(f[m], among) \/ Cardinality(f[m]) > m
           T == {m \in 0 .. N : ~P(m)}
<1>1. N \in Nat /\ IsFiniteSet(Objects)
  BY InvestigationAssumption, FS_CardinalityType
<1>2. SUFFICES ASSUME T # {} PROVE FALSE
  OBVIOUS
<1>3. T \in SUBSET Nat
  BY <1>1
<1>4. PICK m \in T : \A k \in T : m <= k
  BY <1>2, <1>3, LeastNumber, Zenon
<1>5. m \in 0 .. N /\ ~P(m)
  BY <1>4
<1>6. CASE m = 0
  <2>1. f[0] = {Svc}
    BY <1>5, <1>6 DEF Spreads
  <2>2. Cardinality({Svc}) = 1
    BY FS_Singleton
  <2>3. P(0)
    BY <2>1, <2>2, InvestigationAssumption
  <2> QED BY <1>5, <1>6, <2>3
<1>7. CASE m # 0
  <2> DEFINE k == m - 1
  <2>1. k \in 0 .. N /\ k < m /\ m = k + 1
    BY <1>1, <1>5, <1>7
  <2>2. f[m] = Spread(f[k], among)
    BY <1>5, <1>7 DEF Spreads
  <2> HIDE DEF k
  <2>3. k \notin T
    BY <1>4, <2>1
  <2>4. P(k)
    BY <2>1, <2>3
  <2>5. f[m] \subseteq Objects /\ Svc \in f[m] /\ f[k] \subseteq f[m]
    BY <2>2, <2>4 DEF Spread
  <2>6. CASE Closed(f[k], among)
    <3>1. f[m] = f[k]
      BY <2>2, <2>6 DEF Spread, Closed, Finds
    <3> QED BY <1>5, <2>5, <2>6, <3>1
  <2>7. CASE ~Closed(f[k], among)
    <3>1. f[m] # f[k]
      BY <2>2, <2>7 DEF Spread, Closed, Finds
    <3>2. IsFiniteSet(f[m])
      BY <1>1, <2>5, FS_Subset
    <3>3. Cardinality(f[k]) <= Cardinality(f[m]) /\ Cardinality(f[k]) # Cardinality(f[m])
      BY <2>5, <3>1, <3>2, FS_Subset
    <3>4. Cardinality(f[k]) \in Nat /\ Cardinality(f[m]) \in Nat
      BY <2>5, <3>2, FS_Subset, FS_CardinalityType
    <3>5. Cardinality(f[k]) > k
      BY <2>4, <2>7
    <3>6. Cardinality(f[m]) > m
      BY <2>1, <3>3, <3>4, <3>5
    <3> QED BY <1>5, <2>5, <3>6
  <2> QED BY <2>6, <2>7
<1> QED BY <1>6, <1>7

\* No round leaves a closed set that has the service.
LEMMA RoundsStayInside ==
  ASSUME NEW among, NEW f, Spreads(f, Cardinality(Objects), among),
         NEW X, Svc \in X, Closed(X, among),
         NEW n \in 0 .. Cardinality(Objects)
  PROVE  f[n] \subseteq X
<1> DEFINE N == Cardinality(Objects)
           T == {m \in 0 .. N : ~(f[m] \subseteq X)}
<1>1. N \in Nat
  BY InvestigationAssumption, FS_CardinalityType
<1>2. SUFFICES ASSUME T # {} PROVE FALSE
  OBVIOUS
<1>3. T \in SUBSET Nat
  BY <1>1
<1>4. PICK m \in T : \A k \in T : m <= k
  BY <1>2, <1>3, LeastNumber, Zenon
<1>5. m \in 0 .. N /\ ~(f[m] \subseteq X)
  BY <1>4
<1>6. m # 0
  BY <1>5 DEF Spreads
<1> DEFINE k == m - 1
<1>7. k \in 0 .. N /\ k < m
  BY <1>1, <1>5, <1>6
<1>8. f[m] = Spread(f[k], among)
  BY <1>5, <1>6 DEF Spreads
<1> HIDE DEF k
<1>9. f[k] \subseteq X
  BY <1>4, <1>7
<1> QED BY <1>5, <1>8, <1>9 DEF Spread, Closed, Finds

\* What is reached, with the service, is closed, and the least that is.
LEMMA ReachIsLeast ==
  ASSUME NEW among
  PROVE  /\ Promise!Reach(among) \subseteq Objects \ {Svc}
         /\ Closed(Promise!Reach(among) \cup {Svc}, among)
         /\ \A X : Svc \in X /\ Closed(X, among) => Promise!Reach(among) \subseteq X
<1> DEFINE N == Cardinality(Objects)
<1>1. N \in Nat /\ IsFiniteSet(Objects)
  BY InvestigationAssumption, FS_CardinalityType
<1>2. PICK f : Spreads(f, N, among) /\ Promise!Reach(among) = f[N] \ {Svc}
  BY ReachIsLast
<1>3. f[N] \subseteq Objects /\ Svc \in f[N] /\ (Closed(f[N], among) \/ Cardinality(f[N]) > N)
  BY <1>1, <1>2, RoundsGrow
<1>4. Cardinality(f[N]) <= N /\ Cardinality(f[N]) \in Nat
  BY <1>1, <1>3, FS_Subset, FS_CardinalityType
<1>5. Closed(f[N], among)
  BY <1>1, <1>3, <1>4
<1>6. Promise!Reach(among) \cup {Svc} = f[N]
  BY <1>2, <1>3
<1>7. \A X : Svc \in X /\ Closed(X, among) => f[N] \subseteq X
  BY <1>1, <1>2, RoundsStayInside
<1> QED BY <1>2, <1>3, <1>5, <1>6, <1>7

\* More is reached over more links.
LEMMA ReachGrows ==
  ASSUME NEW few, NEW many, few \subseteq many
  PROVE  Promise!Reach(few) \subseteq Promise!Reach(many)
<1> DEFINE X == Promise!Reach(many) \cup {Svc}
<1>1. Closed(X, few)
  BY ReachIsLeast DEF Closed, Finds, Promise!Linked
<1>2. Promise!Reach(few) \subseteq X /\ Svc \notin Promise!Reach(few)
  BY <1>1, ReachIsLeast
<1> QED BY <1>2
\* Nothing is reached that an answer does not hold.
LEMMA ReachIsEvidence ==
  ASSUME NEW among
  PROVE  \A o \in Promise!Reach(among) : o \in Objects /\ o # Svc /\ InEvidence(o)
<1> DEFINE X == {o \in Promise!Reach(among) : InEvidence(o)} \cup {Svc}
<1>1. Closed(X, among)
  BY ReachIsLeast DEF Closed, Finds
<1>2. Promise!Reach(among) \subseteq X
  BY <1>1, ReachIsLeast
<1> QED BY <1>2, ReachIsLeast

--------------------------------------------------------------------------------
(* The inductive invariant.                                                      *)

Ids == {"uid", "path"} \X Objects
Edges == [src : Objects, dst : Objects, name : {"row", "uid", "path"}, from : Nat]

\* What is related to the service at this moment.
Related == Promise!Reach(Links)
Near(o) == o = Svc \/ o \in Related

DataOK ==
  /\ now \in Nat /\ backend \in Backends /\ opts \in Options
  /\ versions \in [Objects -> Seq(Nat)]
  /\ aliases \subseteq Objects /\ edges \subseteq Edges
  /\ batch \in [next : {"none", "aliases", "versions", "edges"}, objects : SUBSET Objects,
                edges : SUBSET Edges, at : Nat]

\* A name by uid is registered before it is used.
NamesOK ==
  backend = "clickhouse" =>
    /\ Seen \subseteq aliases
    /\ \A e \in edges : e.src \in aliases /\ (e.name = "uid" => e.dst \in aliases)
    /\ batch.next \in {"versions", "edges"} => batch.objects \subseteq aliases
    /\ \A e \in batch.edges : e.src \in batch.objects /\ (e.name = "uid" => e.dst \in batch.objects)

\* The fields of a query, and what goes with its phases.
QueryOK ==
  /\ DOMAIN q = {"phase", "asked", "cut", "reply", "visited", "queue", "ids", "topology",
                 "known", "records", "found", "ranked"}
  /\ q.phase \in {"no", "walk", "hydrate", "bundle", "done"}
  /\ q.phase = "no" => q = NoQuery
  /\ q.phase \in {"hydrate", "bundle"} => backend = "clickhouse"
  /\ \A o \in q.asked.reach : o \in Objects /\ o # Svc /\ InEvidence(o)
  /\ q.phase \in {"walk", "hydrate", "bundle"} =>
       q.asked.open /\ q.asked.seen \subseteq Seen /\ q.reply = NoQuery.reply

\* The edges E were there when the question came.
LinksOf(E) == { <<e.src, e.dst>> : e \in {x \in E : InWindow(x)} }
AskedOver(E) == E \subseteq edges /\ q.asked.reach = Promise!Reach(LinksOf(E))

--------------------------------------------------------------------------------
\* SQLite.  What is visited and gathered is related to the service, ...

Visited == {id[2] : id \in q.visited}

VisitedIsRelated ==
  /\ \A id \in q.visited : id \in Ids /\ (id = UidOf(Svc) \/ id[2] \in Related)
  /\ \A p \in q.queue : p \in Objects /\ Behind(p) /\ Near(p)
GatheredIsRelated ==
  /\ \A id \in q.records : id \in Ids /\ id[2] \in Related
  /\ \A b \in q.found : b.object \in Related /\ b.object \in Seen
  /\ \E S : q.ranked \in Seq(S)
  /\ \A i \in DOMAIN q.ranked : q.ranked[i].object \in Related /\ q.ranked[i].object \in Seen

\* ... what was looked behind has shown all that E relates it to, ...
SearchIsThorough(E) ==
  /\ Svc \in Visited
  /\ \A p \in Visited : Behind(p) =>
       p \in q.queue \/ \A o \in Objects : Finds(p, o, LinksOf(E)) => o \in Visited

\* ... and what had a document then is gathered.
Gathered(o) ==
  \/ \E id \in q.records : id[2] = o
  \/ \E b \in q.found : b.object = o
  \/ \E i \in DOMAIN q.ranked : q.ranked[i].object = o
NothingIsDropped == \A o \in Visited : o \in q.asked.seen /\ o # Svc => Gathered(o)

SqliteOK ==
  backend = "sqlite" /\ q.phase = "walk" =>
    /\ VisitedIsRelated /\ GatheredIsRelated /\ NothingIsDropped
    /\ \E E : AskedOver(E) /\ SearchIsThorough(E)

--------------------------------------------------------------------------------
\* ClickHouse.  What the rows name is related to the service, ...

Ends(r) == {r[1], r[2]}
RowsAreRelated ==
  \A r \in q.topology : \A id \in Ends(r) :
    id \in Ids /\ (InEvidence(id[2]) => id[2] \in Related)

NamesAreRelated ==
  /\ UidOf(Svc) \in q.visited /\ q.queue \subseteq q.visited
  /\ \A id \in q.visited :
       /\ id \in Ids /\ Near(id[2]) /\ (id = UidOf(id[2]) => id[2] \in aliases)
       /\ id = UidOf(Svc) \/ \E r \in q.topology : id \in Ends(r)
  /\ \A id \in q.queue : Behind(id[2])
  /\ \A id \in q.ids : id \in Ids /\ Behind(id[2]) /\ Near(id[2])

\* ... every name whose object is to be looked behind waits, is about to bring
\* its rows or has brought them, and each name of a row that counts is visited.
RowOf(e) == <<SrcOf(e), DstOf(e)>>
About(p, E) == {e \in E : InWindow(e) /\ p \in {e.src, e.dst}}
LookedBehind(id, E) ==
  \/ id \in q.queue
  \/ q.ids # {} /\ \A e \in About(id[2], E) : Ends(RowOf(e)) \cap q.ids # {}
  \/ \A e \in About(id[2], E) : RowOf(e) \in q.topology
RowsAreThorough(E) ==
  /\ \A id \in q.visited : Behind(id[2]) => LookedBehind(id, E)
  /\ \A r \in q.topology : \A id \in Ends(r) : InEvidence(id[2]) => id \in q.visited

WalkOK ==
  backend = "clickhouse" /\ q.phase = "walk" =>
    /\ RowsAreRelated /\ NamesAreRelated
    /\ ~q.cut => \E E : AskedOver(E) /\ RowsAreThorough(E)

\* In the end the rows speak of all that was reached when the question came.
HydrateOK ==
  q.phase = "hydrate" =>
    /\ RowsAreRelated /\ q.asked.seen \subseteq q.known
    /\ ~q.cut => \A o \in q.asked.reach : \E r \in q.topology : \E id \in Ends(r) : id[2] = o

BundleOK ==
  q.phase = "bundle" =>
    /\ \A id \in q.records :
         id \in Ids /\ id[2] \in Related /\ (id[2] \in q.asked.seen => id = UidOf(id[2]))
    /\ ~q.cut => \A o \in q.asked.reach : \E id \in q.records : id[2] = o

\* SQLite never cuts an answer.
AnswerInv ==
  /\ DataOK /\ NamesOK /\ QueryOK /\ SqliteOK /\ WalkOK /\ HydrateOK /\ BundleOK

--------------------------------------------------------------------------------
(* What is related, and what a writer does to it.                                *)

\* What a related object that is looked behind has an edge with is related.
LEMMA NextToRelated ==
  ASSUME NEW e \in edges, InWindow(e), e.src \in Objects, e.dst \in Objects,
         NEW p \in {e.src, e.dst}, Behind(p), Near(p),
         NEW o \in {e.src, e.dst}, InEvidence(o)
  PROVE  o \in Related
<1>1. o # Svc
  BY InvestigationAssumption DEF InEvidence
<1>2. CASE o = p
  BY <1>1, <1>2 DEF Near
<1>3. CASE o # p
  <2>1. <<e.src, e.dst>> \in Links
    BY DEF Links
  <2>2. Promise!Linked(p, o, Links)
    BY <1>3, <2>1 DEF Promise!Linked
  <2>3. Finds(p, o, Links) /\ o \in Objects
    BY <2>2 DEF Finds
  <2>4. p \in Related \cup {Svc}
    BY DEF Near
  <2>5. Closed(Related \cup {Svc}, Links)
    BY ReachIsLeast, Zenon DEF Related
  <2> QED BY <1>1, <2>3, <2>4, <2>5 DEF Closed
<1> QED BY <1>2, <1>3

\* A step that only adds to what is stored.
Gain ==
  /\ Seen \subseteq Seen' /\ edges \subseteq edges' /\ aliases \subseteq aliases'
  /\ UNCHANGED <<backend, opts>>

LEMMA RelatedGrows == Gain => Links \subseteq Links' /\ Related \subseteq Related'
<1> SUFFICES ASSUME Gain PROVE Links \subseteq Links' /\ Related \subseteq Related'
  OBVIOUS
<1>1. Links \subseteq Links'
  BY DEF Gain, Links, InWindow
<1>2. Promise!Reach(Links) \subseteq Promise!Reach(Links')
  BY <1>1, ReachGrows
<1> QED BY <1>1, <1>2 DEF Related

\* The empty sequence is not what a version is appended to.
LEMMA AppendIsSome ==
  ASSUME NEW s \in Seq(Nat), NEW x \in Nat
  PROVE  Append(s, x) \in Seq(Nat) /\ Append(s, x) # <<>>
<1>1. Append(s, x) \in Seq(Nat) /\ Len(Append(s, x)) = Len(s) + 1 /\ Len(s) \in Nat
  OBVIOUS
<1>2. Len(<<>>) = 0
  OBVIOUS
<1> QED BY <1>1, <1>2

\* The tables only grow, and keep their types.
LEMMA WritersGain ==
  DataOK /\ Write => DataOK' /\ Gain /\ UNCHANGED q
<1> SUFFICES ASSUME DataOK, Write PROVE DataOK' /\ Gain /\ UNCHANGED q
  OBVIOUS
<1> USE DEF DataOK, Gain, Seen
<1>1. ASSUME NEW o \in Objects, NEW targets \in Targets[o], PutObservation(o, targets)
      PROVE  DataOK' /\ Gain /\ UNCHANGED q
  <2> DEFINE rows == {[src |-> o, dst |-> t, name |-> "row", from |-> now'] : t \in targets}
  <2>1. targets \subseteq Objects
    BY InvestigationAssumption
  <2>2. now' \in Nat /\ versions' = [versions EXCEPT ![o] = Append(@, now')]
    BY <1>1 DEF PutObservation
  <2>3. versions' \in [Objects -> Seq(Nat)] /\ \A x \in Objects : versions[x] # <<>> => versions'[x] # <<>>
    <3>1. Append(versions[o], now') \in Seq(Nat) /\ Append(versions[o], now') # <<>>
      BY <2>2, AppendIsSome
    <3> QED BY <2>2, <3>1
  <2>4. rows \subseteq Edges
    BY <2>1, <2>2 DEF Edges
  <2>5. edges' = edges \cup rows
    BY <1>1 DEF PutObservation
  <2> HIDE DEF rows
  <2>6. UNCHANGED <<backend, opts, aliases, batch, q>>
    BY <1>1 DEF PutObservation
  <2> QED BY <2>2, <2>3, <2>4, <2>5, <2>6
<1>2. ASSUME NEW os \in SUBSET Objects, NEW pending \in [os -> UNION {Targets[o] : o \in os}],
             \A o \in os : pending[o] \in Targets[o], Build(pending)
      PROVE  DataOK' /\ Gain /\ UNCHANGED q
  <2>1. now' \in Nat /\ batch' = [next |-> "aliases", objects |-> os, edges |-> EdgeRows(pending, now'), at |-> now']
    BY <1>2 DEF Build
  <2>2. EdgeRows(pending, now') \subseteq Edges
    <3> DEFINE pairs == {y \in Objects \X Objects : y[1] \in DOMAIN pending /\ y[2] \in pending[y[1]]}
    <3>1. \A x \in pairs : x[1] \in Objects /\ x[2] \in Objects
      OBVIOUS
    <3>2. EdgeRows(pending, now') =
            {[src |-> x[1], dst |-> x[2], name |-> IF x[2] \in DOMAIN pending THEN "uid" ELSE "path", from |-> now'] : x \in pairs}
      BY DEF EdgeRows
    <3> HIDE DEF pairs
    <3> QED BY <2>1, <3>1, <3>2 DEF Edges
  <2>3. UNCHANGED <<backend, opts, versions, aliases, edges, q>>
    BY <1>2 DEF Build
  <2> QED BY <2>1, <2>2, <2>3
<1>3. CASE InsertAliases
  BY <1>3 DEF InsertAliases
<1>4. CASE InsertVersions
  <2>1. \A o \in Objects : Append(versions[o], batch.at) \in Seq(Nat) /\ Append(versions[o], batch.at) # <<>>
    BY AppendIsSome
  <2>2. UNCHANGED <<backend, opts, now, aliases, edges, q>> /\ batch' = [batch EXCEPT !.next = "edges"]
    BY <1>4 DEF InsertVersions
  <2>3. versions' = [o \in Objects |-> IF o \in batch.objects THEN Append(versions[o], batch.at) ELSE versions[o]]
    BY <1>4 DEF InsertVersions
  <2>4. versions' \in [Objects -> Seq(Nat)] /\ \A x \in Objects : versions[x] # <<>> => versions'[x] # <<>>
    BY <2>1, <2>3
  <2> QED BY <2>2, <2>4
<1>5. CASE InsertEdges
  BY <1>5 DEF InsertEdges, NoBatch
<1>6. CASE InsertFails
  BY <1>6 DEF InsertFails, NoBatch
<1>7. QED
  BY <1>1, <1>2, <1>3, <1>4, <1>5, <1>6 DEF Write

\* Every writer registers a name before it uses it.
LEMMA WritersKeepNames ==
  DataOK /\ NamesOK /\ Write => NamesOK'
<1> SUFFICES ASSUME DataOK, NamesOK, Write, backend' = "clickhouse"
             PROVE  /\ Seen' \subseteq aliases'
                    /\ \A e \in edges' : e.src \in aliases' /\ (e.name = "uid" => e.dst \in aliases')
                    /\ batch'.next \in {"versions", "edges"} => batch'.objects \subseteq aliases'
                    /\ \A e \in batch'.edges : e.src \in batch'.objects /\ (e.name = "uid" => e.dst \in batch'.objects)
  BY DEF NamesOK
<1>0. /\ backend = "clickhouse" /\ Seen \subseteq aliases
      /\ \A e \in edges : e.src \in aliases /\ (e.name = "uid" => e.dst \in aliases)
      /\ batch.next \in {"versions", "edges"} => batch.objects \subseteq aliases
      /\ \A e \in batch.edges : e.src \in batch.objects /\ (e.name = "uid" => e.dst \in batch.objects)
  BY WritersGain DEF NamesOK, Gain
<1> USE <1>0 DEF DataOK
<1>1. ASSUME NEW o \in Objects, NEW targets \in Targets[o], PutObservation(o, targets) PROVE FALSE
  BY <1>1 DEF PutObservation
<1>2. ASSUME NEW os \in SUBSET Objects, NEW pending \in [os -> UNION {Targets[o] : o \in os}], Build(pending)
      PROVE  /\ UNCHANGED <<versions, aliases, edges>> /\ batch'.next = "aliases"
             /\ \A e \in batch'.edges : e.src \in batch'.objects /\ (e.name = "uid" => e.dst \in batch'.objects)
  <2>1. batch' = [next |-> "aliases", objects |-> os, edges |-> EdgeRows(pending, now'), at |-> now']
    BY <1>2 DEF Build
  <2>2. \A e \in EdgeRows(pending, now') : e.src \in os /\ (e.name = "uid" => e.dst \in os)
    BY DEF EdgeRows
  <2>3. UNCHANGED <<versions, aliases, edges>>
    BY <1>2 DEF Build
  <2> QED BY <2>1, <2>2, <2>3
<1>3. CASE InsertAliases
  BY <1>3 DEF InsertAliases, Seen
<1>4. CASE InsertVersions
  <2>1. UNCHANGED <<aliases, edges>> /\ batch' = [batch EXCEPT !.next = "edges"] /\ batch.next = "versions"
    BY <1>4 DEF InsertVersions
  <2>2. versions' = [o \in Objects |-> IF o \in batch.objects THEN Append(versions[o], batch.at) ELSE versions[o]]
    BY <1>4 DEF InsertVersions
  <2>3. \A o \in Objects : o \notin batch.objects => versions'[o] = versions[o]
    BY <2>2
  <2>4. Seen' \subseteq Seen \cup batch.objects
    BY <2>3 DEF Seen
  <2>5. batch'.objects = batch.objects /\ batch'.edges = batch.edges
    BY <2>1
  <2> QED BY <2>1, <2>4, <2>5
<1>5. CASE InsertEdges
  BY <1>5 DEF InsertEdges, NoBatch, Seen
<1>6. CASE InsertFails
  BY <1>6 DEF InsertFails, NoBatch, Seen
<1>7. QED
  <2>1. (\E os \in SUBSET Objects : \E pending \in [os -> UNION {Targets[o] : o \in os}] : Build(pending)) =>
          /\ UNCHANGED <<versions, aliases, edges>> /\ batch'.next = "aliases"
          /\ \A e \in batch'.edges : e.src \in batch'.objects /\ (e.name = "uid" => e.dst \in batch'.objects)
    BY <1>2
  <2>2. CASE \E os \in SUBSET Objects : \E pending \in [os -> UNION {Targets[o] : o \in os}] : Build(pending)
    BY <2>1, <2>2 DEF Seen
  <2> QED BY <1>1, <1>3, <1>4, <1>5, <1>6, <2>2 DEF Write

\* What is true of a query stays true while more is written.
LEMMA QueriesOutliveWrites ==
  AnswerInv /\ Gain /\ UNCHANGED q => QueryOK' /\ SqliteOK' /\ WalkOK' /\ HydrateOK' /\ BundleOK'
<1> SUFFICES ASSUME AnswerInv, Gain, UNCHANGED q
             PROVE  QueryOK' /\ SqliteOK' /\ WalkOK' /\ HydrateOK' /\ BundleOK'
  OBVIOUS
<1>1. /\ q' = q /\ backend' = backend /\ opts' = opts /\ Related \subseteq Related'
      /\ Seen \subseteq Seen' /\ edges \subseteq edges' /\ aliases \subseteq aliases'
  BY RelatedGrows DEF Gain
<1>2. \A E : LinksOf(E)' = LinksOf(E)
  BY <1>1 DEF LinksOf, InWindow
<1>3. \A E : AskedOver(E) => AskedOver(E)'
  BY <1>1, <1>2 DEF AskedOver
<1>4. QueryOK'
  BY <1>1 DEF AnswerInv, QueryOK
<1>5. SqliteOK'
  <2> SUFFICES ASSUME backend = "sqlite", q.phase = "walk"
               PROVE  /\ VisitedIsRelated' /\ GatheredIsRelated' /\ NothingIsDropped'
                      /\ \E E : AskedOver(E)' /\ SearchIsThorough(E)'
    BY <1>1 DEF SqliteOK
  <2>1. VisitedIsRelated /\ GatheredIsRelated /\ NothingIsDropped
    BY DEF AnswerInv, SqliteOK
  <2>2. PICK E : AskedOver(E) /\ SearchIsThorough(E)
    BY DEF AnswerInv, SqliteOK
  <2>3. VisitedIsRelated'
    BY <1>1, <2>1 DEF VisitedIsRelated, Near
  <2>4. GatheredIsRelated'
    BY <1>1, <2>1 DEF GatheredIsRelated
  <2>5. NothingIsDropped'
    BY <1>1, <2>1 DEF NothingIsDropped, Visited, Gathered
  <2>6. Visited' = Visited
    BY <1>1 DEF Visited
  <2>7. SearchIsThorough(E)'
    BY <1>1, <1>2, <2>2, <2>6 DEF SearchIsThorough
  <2> QED BY <1>3, <2>2, <2>3, <2>4, <2>5, <2>7
<1>6. WalkOK'
  <2> SUFFICES ASSUME backend = "clickhouse", q.phase = "walk"
               PROVE  /\ RowsAreRelated' /\ NamesAreRelated'
                      /\ ~q.cut => \E E : AskedOver(E)' /\ RowsAreThorough(E)'
    BY <1>1 DEF WalkOK
  <2>1. RowsAreRelated /\ NamesAreRelated /\ (~q.cut => \E E : AskedOver(E) /\ RowsAreThorough(E))
    BY DEF AnswerInv, WalkOK
  <2>2. RowsAreRelated' /\ NamesAreRelated'
    BY <1>1, <2>1 DEF RowsAreRelated, NamesAreRelated, Near
  <2>3. \A E : RowsAreThorough(E) => RowsAreThorough(E)'
    <3>1. \A p, E : About(p, E)' = About(p, E)
      BY <1>1 DEF About, InWindow
    <3> QED BY <1>1, <3>1 DEF RowsAreThorough, LookedBehind
  <2> QED BY <1>3, <2>1, <2>2, <2>3
<1>7. HydrateOK' /\ BundleOK'
  BY <1>1 DEF AnswerInv, HydrateOK, BundleOK, RowsAreRelated
<1> QED BY <1>4, <1>5, <1>6, <1>7

--------------------------------------------------------------------------------
(* The steps of a reader.                                                        *)

LEMMA ReadersOnlyRead ==
  ASSUME UNCHANGED <<backend, opts, data>>
  PROVE  /\ Seen' = Seen /\ Links' = Links /\ Related' = Related
         /\ edges' = edges /\ aliases' = aliases /\ versions' = versions /\ backend' = backend /\ opts' = opts
         /\ \A E : LinksOf(E)' = LinksOf(E)
         /\ \A p, E : About(p, E)' = About(p, E)
         /\ (DataOK => DataOK') /\ (NamesOK => NamesOK')
<1>1. /\ now' = now /\ versions' = versions /\ aliases' = aliases /\ edges' = edges /\ batch' = batch
      /\ backend' = backend /\ opts' = opts
  BY DEF data
<1>2. Seen' = Seen
  BY <1>1 DEF Seen
<1>3. Links' = Links
  BY <1>1 DEF Links, InWindow
<1>4. Related' = Related
  BY <1>3 DEF Related
<1>5. (\A E : LinksOf(E)' = LinksOf(E)) /\ (\A p, E : About(p, E)' = About(p, E))
  BY <1>1 DEF LinksOf, About, InWindow
<1>6. (DataOK => DataOK') /\ (NamesOK => NamesOK')
  BY <1>1, <1>2 DEF DataOK, NamesOK
<1> QED BY <1>1, <1>2, <1>3, <1>4, <1>5, <1>6

LEMMA BeginKeeps ==
  ASSUME AnswerInv, NEW root, Begin(root), root = IF backend = "sqlite" THEN Svc ELSE UidOf(Svc)
  PROVE  AnswerInv'
<1>1. UNCHANGED <<backend, opts, data>> /\ Svc \in Seen /\ DataOK /\ NamesOK
  BY DEF Begin, AnswerInv
<1>2. q' = [NoQuery EXCEPT !.phase = "walk", !.visited = {UidOf(Svc)}, !.queue = {root},
              !.asked = [open |-> TRUE, seen |-> Seen, reach |-> Related]]
  BY DEF Begin, Related
<1>3. /\ DOMAIN q' = {"phase", "asked", "cut", "reply", "visited", "queue", "ids", "topology",
                      "known", "records", "found", "ranked"}
      /\ q'.phase = "walk" /\ q'.visited = {UidOf(Svc)} /\ q'.queue = {root}
      /\ q'.asked = [open |-> TRUE, seen |-> Seen, reach |-> Related]
      /\ q'.reply = NoQuery.reply /\ q'.ids = {} /\ q'.topology = {} /\ q'.records = {}
      /\ q'.found = {} /\ q'.ranked = <<>>
  BY <1>2 DEF NoQuery
<1>4. /\ Seen' = Seen /\ Links' = Links /\ Related' = Related
      /\ edges' = edges /\ aliases' = aliases /\ backend' = backend
      /\ \A E : LinksOf(E)' = LinksOf(E)
      /\ DataOK' /\ NamesOK'
  BY <1>1, ReadersOnlyRead
<1>5. \A o \in Related : o \in Objects /\ o # Svc /\ InEvidence(o)
  BY ReachIsEvidence DEF Related
<1>6. QueryOK'
  BY <1>3, <1>4, <1>5 DEF QueryOK
<1>7. PICK E0 : E0 = edges
  OBVIOUS
<1>8. AskedOver(E0)'
  <2>1. LinksOf(E0) = Links
    BY <1>7 DEF LinksOf, Links
  <2> QED BY <1>3, <1>4, <1>7, <2>1 DEF AskedOver, Related
<1>9. UidOf(Svc) \in Ids /\ UidOf(Svc)[2] = Svc /\ Near(Svc)' /\ Behind(Svc)
  BY InvestigationAssumption DEF UidOf, Ids, Near, Behind
<1>10. SqliteOK'
  <2> SUFFICES ASSUME backend = "sqlite"
               PROVE  /\ VisitedIsRelated' /\ GatheredIsRelated' /\ NothingIsDropped'
                      /\ AskedOver(E0)' /\ SearchIsThorough(E0)'
    BY <1>4 DEF SqliteOK
  <2>1. Visited' = {Svc} /\ q'.queue = {Svc}
    BY <1>3, <1>9 DEF Visited
  <2>2. VisitedIsRelated'
    BY <1>3, <1>9, <2>1, InvestigationAssumption DEF VisitedIsRelated
  <2>3. NothingIsDropped' /\ SearchIsThorough(E0)'
    BY <1>3, <2>1 DEF NothingIsDropped, SearchIsThorough
  <2>4. GatheredIsRelated'
    <3>1. q'.ranked \in Seq({}) /\ DOMAIN q'.ranked = {}
      BY <1>3
    <3> QED BY <1>3, <3>1 DEF GatheredIsRelated
  <2> QED BY <1>8, <2>2, <2>3, <2>4
<1>11. WalkOK'
  <2> SUFFICES ASSUME backend = "clickhouse"
               PROVE  /\ RowsAreRelated' /\ NamesAreRelated'
                      /\ AskedOver(E0)' /\ RowsAreThorough(E0)'
    BY <1>4 DEF WalkOK
  <2>1. q'.queue = {UidOf(Svc)} /\ Svc \in aliases
    BY <1>1, <1>3 DEF NamesOK
  <2>2. NamesAreRelated'
    BY <1>3, <1>4, <1>9, <2>1 DEF NamesAreRelated
  <2>3. RowsAreRelated' /\ RowsAreThorough(E0)'
    BY <1>3, <2>1 DEF RowsAreRelated, RowsAreThorough, LookedBehind
  <2> QED BY <1>8, <2>2, <2>3
<1>12. HydrateOK' /\ BundleOK'
  BY <1>3 DEF HydrateOK, BundleOK
<1> QED BY <1>4, <1>6, <1>10, <1>11, <1>12 DEF AnswerInv

\* What SQLite's search starts from, and what a step of it has to show.
SqliteStep ==
  /\ UNCHANGED <<backend, opts, data>> /\ backend = "sqlite" /\ q.phase = "walk"
  /\ DOMAIN q' = DOMAIN q /\ q'.asked = q.asked /\ q'.reply = q.reply

LEMMA SqliteStepKeeps ==
  ASSUME AnswerInv, SqliteStep, q'.phase = "walk",
         VisitedIsRelated', GatheredIsRelated', NothingIsDropped',
         NEW E, AskedOver(E), SearchIsThorough(E)'
  PROVE  AnswerInv'
<1>1. /\ Seen' = Seen /\ edges' = edges /\ backend' = backend
      /\ \A X : LinksOf(X)' = LinksOf(X)
      /\ DataOK' /\ NamesOK'
  BY ReadersOnlyRead DEF SqliteStep, AnswerInv
<1>2. QueryOK'
  BY <1>1 DEF AnswerInv, QueryOK, SqliteStep
<1>3. AskedOver(E)'
  BY <1>1 DEF AskedOver, SqliteStep
<1>4. SqliteOK'
  BY <1>3 DEF SqliteOK
<1>5. WalkOK' /\ HydrateOK' /\ BundleOK'
  BY <1>1 DEF WalkOK, HydrateOK, BundleOK, SqliteStep
<1> QED BY <1>1, <1>2, <1>4, <1>5 DEF AnswerInv

LEMMA RelatedEdgesKeeps ==
  ASSUME AnswerInv, NEW o \in q.queue, RelatedEdges(o)
  PROVE  AnswerInv'
<1> DEFINE fresh == New(o)
           ids == {LogicalID(p) : p \in fresh}
<1>1. /\ backend = "sqlite" /\ q.phase = "walk" /\ UNCHANGED <<backend, opts, data>>
      /\ q' = [q EXCEPT !.visited = @ \cup ids, !.records = @ \cup ids,
                        !.queue = (@ \ {o}) \cup {p \in fresh : Opens(p)}]
  BY DEF RelatedEdges
<1>2. /\ VisitedIsRelated /\ GatheredIsRelated /\ NothingIsDropped /\ DataOK
      /\ DOMAIN q = {"phase", "asked", "cut", "reply", "visited", "queue", "ids", "topology",
                     "known", "records", "found", "ranked"}
  BY <1>1 DEF AnswerInv, SqliteOK, QueryOK
<1>3. PICK E : AskedOver(E) /\ SearchIsThorough(E)
  BY <1>1 DEF AnswerInv, SqliteOK
<1>4. /\ Seen' = Seen /\ Links' = Links /\ Related' = Related /\ edges' = edges
      /\ \A X : LinksOf(X)' = LinksOf(X)
  BY <1>1, ReadersOnlyRead
<1>5. /\ DOMAIN q' = DOMAIN q /\ q'.phase = q.phase /\ q'.asked = q.asked /\ q'.reply = q.reply
      /\ q'.visited = q.visited \cup ids /\ q'.records = q.records \cup ids
      /\ q'.queue = (q.queue \ {o}) \cup {p \in fresh : Opens(p)}
      /\ q'.found = q.found /\ q'.ranked = q.ranked
  <2> HIDE DEF ids, fresh
  <2> QED BY <1>1, <1>2
<1>6. \A p \in fresh : /\ p \in Objects /\ InEvidence(p) /\ p \in Related
                       /\ LogicalID(p) \in Ids /\ LogicalID(p)[2] = p
  <2> SUFFICES ASSUME NEW p \in fresh
               PROVE  p \in Objects /\ InEvidence(p) /\ p \in Related /\ LogicalID(p) \in Ids /\ LogicalID(p)[2] = p
    OBVIOUS
  <2>1. InEvidence(p) /\ p \in Touching(o)
    BY DEF New
  <2>2. PICK e \in edges : InWindow(e) /\ o \in {e.src, e.dst} /\ p \in {e.src, e.dst}
    BY <2>1 DEF Touching
  <2>3. e.src \in Objects /\ e.dst \in Objects
    BY <1>2 DEF DataOK, Edges
  <2>4. Behind(o) /\ Near(o)
    BY <1>2 DEF VisitedIsRelated
  <2>5. p \in Related
    BY <2>1, <2>2, <2>3, <2>4, NextToRelated
  <2> QED BY <2>1, <2>2, <2>3, <2>5 DEF LogicalID, UidOf, PathOf, Ids
<1>7. Visited' = Visited \cup fresh
  <2>1. {id[2] : id \in ids} = fresh
    BY <1>6
  <2> HIDE DEF ids, fresh
  <2> QED BY <1>5, <2>1 DEF Visited
<1>8. \A x \in Objects : Finds(o, x, LinksOf(E)) => x \in Visited \cup fresh
  <2> SUFFICES ASSUME NEW x \in Objects, Finds(o, x, LinksOf(E)), x \notin Visited
               PROVE  x \in fresh
    OBVIOUS
  <2>1. PICK e \in edges : InWindow(e) /\ o \in {e.src, e.dst} /\ x \in {e.src, e.dst}
    BY <1>3 DEF Finds, Promise!Linked, LinksOf, AskedOver
  <2>2. x \in Touching(o)
    BY <2>1 DEF Touching
  <2>3. LogicalID(x)[2] = x
    BY DEF LogicalID, UidOf, PathOf
  <2>4. LogicalID(x) \notin q.visited
    BY <2>3 DEF Visited
  <2> QED BY <2>2, <2>4 DEF New, Finds
<1>9. VisitedIsRelated'
  <2>1. \A p \in fresh : Opens(p) => p \in Objects /\ Behind(p) /\ Near(p)
    BY <1>6 DEF Behind, Near
  <2>2. \A id \in ids : id \in Ids /\ id[2] \in Related
    BY <1>6
  <2> HIDE DEF ids, fresh
  <2> QED BY <1>2, <1>4, <1>5, <2>1, <2>2 DEF VisitedIsRelated, Near
<1>10. GatheredIsRelated'
  <2>1. \A id \in ids : id \in Ids /\ id[2] \in Related
    BY <1>6
  <2> HIDE DEF ids, fresh
  <2> QED BY <1>2, <1>4, <1>5, <2>1 DEF GatheredIsRelated
<1>11. NothingIsDropped'
  <2>1. \A p \in fresh : \E id \in ids : id[2] = p
    BY <1>6
  <2>2. \A p \in fresh : Gathered(p)'
    <3> HIDE DEF ids, fresh
    <3> QED BY <1>5, <2>1 DEF Gathered
  <2>3. \A p : Gathered(p) => Gathered(p)'
    <3> HIDE DEF ids, fresh
    <3> QED BY <1>5 DEF Gathered
  <2> HIDE DEF ids, fresh
  <2> QED BY <1>2, <1>5, <1>7, <2>2, <2>3 DEF NothingIsDropped
<1>12. SearchIsThorough(E)'
  <2>1. \A p \in fresh : Behind(p) => Opens(p)
    BY <1>6, InvestigationAssumption DEF Behind, InEvidence
  <2>2. q'.queue = (q.queue \ {o}) \cup {p \in fresh : Opens(p)}
    BY <1>5
  <2> HIDE DEF ids, fresh
  <2> QED BY <1>3, <1>4, <1>7, <1>8, <2>1, <2>2 DEF SearchIsThorough
<1> HIDE DEF ids, fresh
<1>13. SqliteStep /\ q'.phase = "walk"
  BY <1>1, <1>5 DEF SqliteStep
<1> QED BY <1>3, <1>9, <1>10, <1>11, <1>12, <1>13, SqliteStepKeeps

LEMMA BundleForRecordKeeps ==
  ASSUME AnswerInv, NEW id \in q.records, BundleForRecord(id)
  PROVE  AnswerInv'
<1> DEFINE b == [id |-> id, object |-> id[2], score |-> Score(id[2])]
<1>1. /\ backend = "sqlite" /\ q.phase = "walk" /\ UNCHANGED <<backend, opts, data>>
      /\ q' = [q EXCEPT !.records = @ \ {id}, !.found = IF id[2] \in Seen THEN @ \cup {b} ELSE @]
  BY DEF BundleForRecord
<1>2. /\ VisitedIsRelated /\ GatheredIsRelated /\ NothingIsDropped /\ q.asked.seen \subseteq Seen
      /\ DOMAIN q = {"phase", "asked", "cut", "reply", "visited", "queue", "ids", "topology",
                     "known", "records", "found", "ranked"}
  BY <1>1 DEF AnswerInv, SqliteOK, QueryOK
<1>3. PICK E : AskedOver(E) /\ SearchIsThorough(E)
  BY <1>1 DEF AnswerInv, SqliteOK
<1>4. /\ Seen' = Seen /\ Related' = Related /\ \A X : LinksOf(X)' = LinksOf(X)
  BY <1>1, ReadersOnlyRead
<1>5. b.object = id[2]
  OBVIOUS
<1> HIDE DEF b
<1>6. /\ DOMAIN q' = DOMAIN q /\ q'.phase = q.phase /\ q'.asked = q.asked /\ q'.reply = q.reply
      /\ q'.visited = q.visited /\ q'.records = q.records \ {id} /\ q'.queue = q.queue /\ q'.ranked = q.ranked
      /\ q'.found = IF id[2] \in Seen THEN q.found \cup {b} ELSE q.found
  BY <1>1, <1>2
<1>7. VisitedIsRelated' /\ GatheredIsRelated'
  BY <1>2, <1>4, <1>5, <1>6 DEF VisitedIsRelated, GatheredIsRelated, Near
<1>8. Visited' = Visited
  BY <1>6 DEF Visited
<1>9. NothingIsDropped'
  <2> SUFFICES ASSUME NEW o \in Visited, o \in q.asked.seen, o # Svc PROVE Gathered(o)'
    BY <1>6, <1>8 DEF NothingIsDropped
  <2>1. Gathered(o) /\ o \in Seen
    BY <1>2 DEF NothingIsDropped
  <2>2. CASE id[2] = o
    BY <1>5, <1>6, <2>1, <2>2 DEF Gathered
  <2>3. CASE id[2] # o
    BY <1>6, <2>1, <2>3 DEF Gathered
  <2> QED BY <2>2, <2>3
<1>10. SearchIsThorough(E)'
  BY <1>3, <1>4, <1>6, <1>8 DEF SearchIsThorough
<1>11. SqliteStep /\ q'.phase = "walk"
  BY <1>1, <1>6 DEF SqliteStep
<1> QED BY <1>3, <1>7, <1>9, <1>10, <1>11, SqliteStepKeeps

\* Of some versions the newest are some.
LEMMA NewestIsSome ==
  ASSUME NEW times \in Seq(Nat), times # <<>>, NEW most \in Nat, most > 0
  PROVE  Newest(times, most) # <<>>
<1> DEFINE n == Len(times)
           s == IF n > most THEN n - most + 1 ELSE 1
<1>1. n \in Nat /\ n > 0
  OBVIOUS
<1>2. s \in 1 .. n /\ n \in 1 .. n
  BY <1>1
<1> HIDE DEF s
<1>3. Len(SubSeq(times, s, n)) = n - s + 1 /\ Len(<<>>) = 0
  BY <1>2
<1>4. Len(SubSeq(times, s, n)) # Len(<<>>)
  <2>1. n - s + 1 # 0
    BY <1>1, <1>2
  <2> QED BY <1>3, <2>1
<1>5. SubSeq(times, s, n) # <<>>
  BY <1>4, Zenon
<1> QED BY <1>5 DEF Newest, s

\* A document that has versions shows one, inside the window or outside.
LEMMA VersionEvidenceIsSome ==
  ASSUME DataOK, NEW o \in Seen, NEW most \in Nat, most > 0
  PROVE  VersionEvidence(o, most) # <<>>
<1>1. versions[o] \in Seq(Nat) /\ versions[o] # <<>>
  BY DEF DataOK, Seen
<1>2. Newest(versions[o], 1) # <<>> /\ Newest(versions[o], most) # <<>>
  BY <1>1, NewestIsSome
<1>3. CASE opts.to = 0
  <2>1. Within(o) = versions[o]
    BY <1>3 DEF Within
  <2> QED BY <1>2, <1>3, <2>1 DEF VersionEvidence
<1>4. CASE opts.to # 0
  BY <1>2, <1>4 DEF VersionEvidence
<1> QED BY <1>3, <1>4

\* What is appended is the last, and the rest is as it was.
LEMMA AppendToRanking ==
  ASSUME NEW S, NEW s \in Seq(S), NEW x
  PROVE  /\ Append(s, x) \in Seq(S \cup {x})
         /\ DOMAIN Append(s, x) = DOMAIN s \cup {Len(s) + 1}
         /\ \A i \in DOMAIN s : Append(s, x)[i] = s[i]
         /\ Append(s, x)[Len(s) + 1] = x
         /\ Len(s) \in Nat /\ DOMAIN s = 1 .. Len(s)
<1>1. s \in Seq(S \cup {x}) /\ x \in S \cup {x}
  OBVIOUS
<1> QED BY <1>1

LEMMA AttachVersionsKeeps ==
  ASSUME AnswerInv, ProofIsShown, AttachVersions
  PROVE  AnswerInv' /\ ProofIsShown'
<1>1. backend = "sqlite" /\ q.phase = "walk" /\ UNCHANGED <<backend, opts, data>>
  BY DEF AttachVersions
<1>2. PICK b \in q.found :
        q' = [q EXCEPT !.found = @ \ {b},
                       !.ranked = Append(@, [object |-> b.object,
                          shown |-> IF Len(@) < Limit(opts.objects, 5)
                                    THEN VersionEvidence(b.object, Limit(opts.versions, 3)) ELSE <<>>])]
  BY DEF AttachVersions
<1> DEFINE x == [object |-> b.object,
                 shown |-> IF Len(q.ranked) < Limit(opts.objects, 5)
                           THEN VersionEvidence(b.object, Limit(opts.versions, 3)) ELSE <<>>]
<1>3. /\ VisitedIsRelated /\ GatheredIsRelated /\ NothingIsDropped /\ DataOK
      /\ DOMAIN q = {"phase", "asked", "cut", "reply", "visited", "queue", "ids", "topology",
                     "known", "records", "found", "ranked"}
  BY <1>1 DEF AnswerInv, SqliteOK, QueryOK
<1>4. PICK E : AskedOver(E) /\ SearchIsThorough(E)
  BY <1>1 DEF AnswerInv, SqliteOK
<1>5. Seen' = Seen /\ Related' = Related /\ opts' = opts /\ \A X : LinksOf(X)' = LinksOf(X)
  BY <1>1, ReadersOnlyRead
<1>6. x.object = b.object /\ (Len(q.ranked) < Limit(opts.objects, 5) => x.shown # <<>>)
  <2>1. opts.versions \in Nat
    BY <1>3, InvestigationAssumption DEF DataOK
  <2>2. Limit(opts.versions, 3) \in Nat /\ Limit(opts.versions, 3) > 0
    BY <2>1 DEF Limit
  <2>3. b.object \in Seen
    BY <1>3 DEF GatheredIsRelated
  <2>4. VersionEvidence(b.object, Limit(opts.versions, 3)) # <<>>
    BY <1>3, <2>2, <2>3, VersionEvidenceIsSome
  <2> QED BY <2>4
<1>7. /\ DOMAIN q' = DOMAIN q /\ q'.phase = q.phase /\ q'.asked = q.asked /\ q'.reply = q.reply
      /\ q'.visited = q.visited /\ q'.records = q.records /\ q'.queue = q.queue
      /\ q'.found = q.found \ {b} /\ q'.ranked = Append(q.ranked, x)
  BY <1>2, <1>3
<1> HIDE DEF x
<1>8. PICK S : q.ranked \in Seq(S)
  BY <1>3 DEF GatheredIsRelated
<1>9. /\ q'.ranked \in Seq(S \cup {x}) /\ DOMAIN q'.ranked = DOMAIN q.ranked \cup {Len(q.ranked) + 1}
      /\ \A i \in DOMAIN q.ranked : q'.ranked[i] = q.ranked[i]
      /\ q'.ranked[Len(q.ranked) + 1] = x
      /\ Len(q.ranked) \in Nat /\ DOMAIN q.ranked = 1 .. Len(q.ranked)
  BY <1>7, <1>8, AppendToRanking
<1>10. VisitedIsRelated' /\ SearchIsThorough(E)'
  BY <1>3, <1>4, <1>5, <1>7 DEF VisitedIsRelated, Near, SearchIsThorough, Visited
<1>11. GatheredIsRelated'
  <2>1. b.object \in Related /\ b.object \in Seen
    BY <1>3 DEF GatheredIsRelated
  <2>2. \A i \in DOMAIN q'.ranked : q'.ranked[i].object \in Related /\ q'.ranked[i].object \in Seen
    BY <1>3, <1>6, <1>9, <2>1 DEF GatheredIsRelated
  <2>3. \E X : q'.ranked \in Seq(X)
    BY <1>9
  <2> QED BY <1>3, <1>5, <1>7, <2>2, <2>3 DEF GatheredIsRelated
<1>12. NothingIsDropped'
  <2> SUFFICES ASSUME NEW o \in Visited, o \in q.asked.seen, o # Svc PROVE Gathered(o)'
    BY <1>7 DEF NothingIsDropped, Visited
  <2>1. Gathered(o)
    BY <1>3 DEF NothingIsDropped
  <2>2. CASE b.object = o
    BY <1>6, <1>9, <2>2 DEF Gathered
  <2>3. CASE b.object # o
    BY <1>7, <1>9, <2>1, <2>3 DEF Gathered
  <2> QED BY <2>2, <2>3
<1>13. SqliteStep /\ q'.phase = "walk"
  BY <1>1, <1>7 DEF SqliteStep
<1>14. AnswerInv'
  BY <1>4, <1>10, <1>11, <1>12, <1>13, SqliteStepKeeps
<1>15. ProofIsShown'
  <2> SUFFICES ASSUME NEW i \in DOMAIN q'.ranked, i <= Limit(opts.objects, 5)
               PROVE  q'.ranked[i].shown # <<>>
    BY <1>5 DEF ProofIsShown
  <2>1. CASE i \in DOMAIN q.ranked
    BY <1>1, <1>9, <2>1 DEF ProofIsShown
  <2>2. CASE i = Len(q.ranked) + 1
    <3>1. Limit(opts.objects, 5) \in Nat
      BY <1>3, InvestigationAssumption DEF DataOK, Limit
    <3>2. Len(q.ranked) < Limit(opts.objects, 5)
      BY <1>9, <2>2, <3>1
    <3> QED BY <1>6, <1>9, <2>2, <3>2
  <2> QED BY <1>9, <2>1, <2>2
<1> QED BY <1>14, <1>15

LEMMA ReturnKeeps ==
  ASSUME AnswerInv, Return
  PROVE  AnswerInv' /\ q'.ranked = q.ranked
<1>1. /\ backend = "sqlite" /\ q.phase = "walk" /\ UNCHANGED <<backend, opts, data>>
      /\ q' = [q EXCEPT !.phase = "done",
                        !.reply = [how |-> "given", objects |-> {q.ranked[i].object : i \in DOMAIN q.ranked}]]
  BY DEF Return
<1>2. /\ QueryOK
      /\ DOMAIN q = {"phase", "asked", "cut", "reply", "visited", "queue", "ids", "topology",
                     "known", "records", "found", "ranked"}
  BY DEF AnswerInv, QueryOK
<1>3. DOMAIN q' = DOMAIN q /\ q'.phase = "done" /\ q'.asked = q.asked /\ q'.ranked = q.ranked
  BY <1>1, <1>2
<1>4. DataOK' /\ NamesOK'
  BY <1>1, ReadersOnlyRead DEF AnswerInv
<1>5. QueryOK'
  BY <1>2, <1>3 DEF QueryOK
<1>6. SqliteOK' /\ WalkOK' /\ HydrateOK' /\ BundleOK'
  BY <1>3 DEF SqliteOK, WalkOK, HydrateOK, BundleOK
<1> QED BY <1>3, <1>4, <1>5, <1>6 DEF AnswerInv

--------------------------------------------------------------------------------

\* What a step of ClickHouse's reader leaves as it is.
ClickHouseStep ==
  /\ UNCHANGED <<backend, opts, data>> /\ backend = "clickhouse"
  /\ q.phase \in {"walk", "hydrate", "bundle"} /\ q'.phase \in {"walk", "hydrate", "bundle", "done"}
  /\ DOMAIN q' = DOMAIN q /\ q'.asked = q.asked /\ (q'.phase # "done" => q'.reply = q.reply)

LEMMA ClickHouseStepKeeps ==
  ASSUME AnswerInv, ClickHouseStep
  PROVE  DataOK' /\ NamesOK' /\ QueryOK' /\ SqliteOK'
<1>1. Seen' = Seen /\ backend' = backend /\ DataOK' /\ NamesOK'
  BY ReadersOnlyRead DEF ClickHouseStep, AnswerInv
<1>2. QueryOK'
  BY <1>1 DEF AnswerInv, QueryOK, ClickHouseStep
<1>3. SqliteOK'
  BY <1>1 DEF SqliteOK, ClickHouseStep
<1> QED BY <1>1, <1>2, <1>3

\* One of the names of its object is what an edge calls it, if that is known.
LEMMA AliasesCover ==
  ASSUME DataOK, NamesOK, backend = "clickhouse",
         NEW id \in Ids, id = UidOf(id[2]) => id[2] \in aliases,
         NEW e \in edges, id[2] \in {e.src, e.dst}
  PROVE  Ends(RowOf(e)) \cap AliasIDs(id) # {}
<1> DEFINE p == id[2]
<1>1. e.src \in aliases /\ (e.name = "uid" => e.dst \in aliases)
  BY DEF NamesOK
<1>2. Ends(RowOf(e)) = {SrcOf(e), DstOf(e)}
  BY DEF Ends, RowOf
<1>3. CASE p \in aliases
  <2>1. AliasIDs(id) = {UidOf(p), PathOf(p)}
    BY <1>3 DEF AliasIDs
  <2>2. SrcOf(e) \in {UidOf(p), PathOf(p)} \/ DstOf(e) \in {UidOf(p), PathOf(p)}
    BY DEF SrcOf, DstOf
  <2> QED BY <1>2, <2>1, <2>2
<1>4. CASE p \notin aliases
  <2>1. AliasIDs(id) = {id}
    BY <1>4 DEF AliasIDs
  <2>2. id = PathOf(p)
    BY <1>4 DEF Ids, UidOf, PathOf
  <2>3. DstOf(e) = PathOf(p)
    BY <1>1, <1>4 DEF DstOf
  <2> QED BY <1>2, <2>1, <2>2, <2>3
<1> QED BY <1>3, <1>4

LEMMA ObjectAndAliasIDsKeeps ==
  ASSUME AnswerInv, NEW id \in q.queue, ObjectAndAliasIDs(id)
  PROVE  AnswerInv'
<1>1. /\ backend = "clickhouse" /\ q.phase = "walk" /\ q.ids = {} /\ UNCHANGED <<backend, opts, data>>
      /\ q' = [q EXCEPT !.queue = @ \ {id}, !.ids = AliasIDs(id)]
  BY DEF ObjectAndAliasIDs
<1>2. /\ RowsAreRelated /\ NamesAreRelated /\ DataOK /\ NamesOK
      /\ ~q.cut => \E E : AskedOver(E) /\ RowsAreThorough(E)
      /\ DOMAIN q = {"phase", "asked", "cut", "reply", "visited", "queue", "ids", "topology",
                     "known", "records", "found", "ranked"}
  BY <1>1 DEF AnswerInv, WalkOK, QueryOK
<1>3. /\ Related' = Related /\ edges' = edges /\ aliases' = aliases /\ backend' = backend
      /\ (\A X : LinksOf(X)' = LinksOf(X)) /\ (\A p, X : About(p, X)' = About(p, X))
  BY <1>1, ReadersOnlyRead
<1>4. /\ DOMAIN q' = DOMAIN q /\ q'.phase = q.phase /\ q'.asked = q.asked /\ q'.reply = q.reply
      /\ q'.visited = q.visited /\ q'.topology = q.topology /\ q'.cut = q.cut
      /\ q'.queue = q.queue \ {id} /\ q'.ids = AliasIDs(id)
  BY <1>1, <1>2
<1>5. /\ id \in q.visited /\ id \in Ids /\ Behind(id[2]) /\ Near(id[2])
      /\ id = UidOf(id[2]) => id[2] \in aliases
  BY <1>2 DEF NamesAreRelated
<1>6. AliasIDs(id) # {} /\ \A a \in AliasIDs(id) : a \in Ids /\ a[2] = id[2]
  BY <1>5 DEF AliasIDs, Ids, UidOf, PathOf
<1>7. RowsAreRelated'
  BY <1>2, <1>3, <1>4 DEF RowsAreRelated
<1>8. NamesAreRelated'
  BY <1>2, <1>3, <1>4, <1>5, <1>6 DEF NamesAreRelated, Near
<1>9. ASSUME NEW E, AskedOver(E), RowsAreThorough(E)
      PROVE  AskedOver(E)' /\ RowsAreThorough(E)'
  <2>1. AskedOver(E)' /\ E \subseteq edges
    BY <1>3, <1>4, <1>9 DEF AskedOver
  <2>2. \A e \in About(id[2], E) : Ends(RowOf(e)) \cap AliasIDs(id) # {}
    BY <1>1, <1>2, <1>5, <2>1, AliasesCover DEF About
  <2>3. LookedBehind(id, E)'
    BY <1>3, <1>4, <1>6, <2>2 DEF LookedBehind
  <2>4. \A n \in q.visited : n # id /\ LookedBehind(n, E) => LookedBehind(n, E)'
    BY <1>1, <1>3, <1>4 DEF LookedBehind
  <2>5. RowsAreThorough(E)'
    BY <1>4, <1>9, <2>3, <2>4 DEF RowsAreThorough
  <2> QED BY <2>1, <2>5
<1>10. WalkOK'
  BY <1>2, <1>4, <1>7, <1>8, <1>9 DEF WalkOK
<1>11. HydrateOK' /\ BundleOK'
  BY <1>1, <1>4 DEF HydrateOK, BundleOK
<1>12. ClickHouseStep
  BY <1>1, <1>4 DEF ClickHouseStep
<1> QED BY <1>10, <1>11, <1>12, ClickHouseStepKeeps DEF AnswerInv

LEMMA RelatedTopologyEdgeRowsKeeps ==
  ASSUME AnswerInv, RelatedTopologyEdgeRows
  PROVE  AnswerInv'
<1> DEFINE rows == Rows(q.ids)
           new == {id \in UNION {{r[1], r[2]} : r \in rows} : id \notin q.visited /\ InEvidence(id[2])}
<1>1. backend = "clickhouse" /\ q.phase = "walk" /\ q.ids # {} /\ UNCHANGED <<backend, opts, data>>
  BY DEF RelatedTopologyEdgeRows
<1>2. PICK taken \in Some(new, MaxObjects - Cardinality(q.records)) :
        q' = [q EXCEPT !.ids = {}, !.topology = @ \cup rows, !.visited = @ \cup taken, !.records = @ \cup taken,
                       !.queue = @ \cup {id \in taken : Opens(id[2])}, !.cut = @ \/ taken # new]
  BY DEF RelatedTopologyEdgeRows
<1>3. taken \subseteq new
  BY <1>2 DEF Some
<1>4. /\ RowsAreRelated /\ NamesAreRelated /\ DataOK /\ NamesOK
      /\ ~q.cut => \E E : AskedOver(E) /\ RowsAreThorough(E)
      /\ DOMAIN q = {"phase", "asked", "cut", "reply", "visited", "queue", "ids", "topology",
                     "known", "records", "found", "ranked"}
  BY <1>1 DEF AnswerInv, WalkOK, QueryOK
<1>5. /\ Related' = Related /\ edges' = edges /\ aliases' = aliases /\ backend' = backend
      /\ (\A X : LinksOf(X)' = LinksOf(X)) /\ (\A p, X : About(p, X)' = About(p, X))
  BY <1>1, ReadersOnlyRead
<1>6. \A r \in rows : \A id \in Ends(r) :
        /\ id \in Ids /\ (InEvidence(id[2]) => id[2] \in Related)
        /\ id = UidOf(id[2]) => id[2] \in aliases
  <2> SUFFICES ASSUME NEW r \in rows, NEW id \in Ends(r)
               PROVE  /\ id \in Ids /\ (InEvidence(id[2]) => id[2] \in Related)
                      /\ id = UidOf(id[2]) => id[2] \in aliases
    OBVIOUS
  <2>1. PICK e \in edges : /\ InWindow(e) /\ r = <<SrcOf(e), DstOf(e)>>
                           /\ {SrcOf(e), DstOf(e)} \cap q.ids # {}
    BY DEF Rows
  <2>2. e.src \in Objects /\ e.dst \in Objects /\ e.src \in aliases /\ (e.name = "uid" => e.dst \in aliases)
    BY <1>1, <1>4 DEF DataOK, NamesOK, Edges
  <2>3. /\ SrcOf(e) \in Ids /\ SrcOf(e)[2] = e.src /\ DstOf(e) \in Ids /\ DstOf(e)[2] = e.dst
        /\ SrcOf(e)[1] = "uid" /\ DstOf(e)[1] = IF e.name = "uid" THEN "uid" ELSE "path"
    BY <2>2 DEF SrcOf, DstOf, UidOf, PathOf, Ids
  <2>4. PICK a \in q.ids : a \in {SrcOf(e), DstOf(e)}
    BY <2>1
  <2>5. Behind(a[2]) /\ Near(a[2]) /\ a[2] \in {e.src, e.dst}
    BY <1>4, <2>3, <2>4 DEF NamesAreRelated
  <2>6. id \in {SrcOf(e), DstOf(e)}
    BY <2>1 DEF Ends
  <2>7. InEvidence(id[2]) => id[2] \in Related
    <3>1. id[2] \in {e.src, e.dst}
      BY <2>3, <2>6
    <3> QED BY <2>1, <2>2, <2>5, <3>1, NextToRelated
  <2>8. id = UidOf(id[2]) => id[2] \in aliases
    BY <2>2, <2>3, <2>6 DEF UidOf
  <2> QED BY <2>3, <2>6, <2>7, <2>8
<1>7. \A id \in new : /\ id \in Ids /\ id[2] \in Related /\ InEvidence(id[2])
                      /\ (id = UidOf(id[2]) => id[2] \in aliases) /\ \E r \in rows : id \in Ends(r)
  <2> SUFFICES ASSUME NEW id \in new
               PROVE  /\ id \in Ids /\ id[2] \in Related /\ InEvidence(id[2])
                      /\ (id = UidOf(id[2]) => id[2] \in aliases) /\ \E r \in rows : id \in Ends(r)
    OBVIOUS
  <2>1. InEvidence(id[2]) /\ \E r \in rows : id \in Ends(r)
    BY DEF Ends
  <2> QED BY <1>6, <2>1
<1>8. ASSUME NEW r \in rows, NEW id \in Ends(r), InEvidence(id[2])
      PROVE  id \in q.visited \cup new
  BY <1>8 DEF Ends
<1>9. \A e \in edges : InWindow(e) /\ Ends(RowOf(e)) \cap q.ids # {} => RowOf(e) \in rows
  BY DEF Rows, Ends, RowOf
<1> HIDE DEF rows, new
<1>10. /\ DOMAIN q' = DOMAIN q /\ q'.phase = q.phase /\ q'.asked = q.asked /\ q'.reply = q.reply
       /\ q'.visited = q.visited \cup taken /\ q'.topology = q.topology \cup rows
       /\ q'.queue = q.queue \cup {id \in taken : Opens(id[2])} /\ q'.ids = {}
       /\ q'.cut = (q.cut \/ taken # new)
  BY <1>2, <1>4
<1>11. RowsAreRelated'
  BY <1>4, <1>5, <1>6, <1>10 DEF RowsAreRelated
<1>12. NamesAreRelated'
  <2>1. \A id \in q.visited : /\ id \in Ids /\ Near(id[2])' /\ (id = UidOf(id[2]) => id[2] \in aliases')
                              /\ id = UidOf(Svc) \/ \E r \in q'.topology : id \in Ends(r)
    BY <1>4, <1>5, <1>10 DEF NamesAreRelated, Near
  <2>2. \A id \in taken : /\ id \in Ids /\ Near(id[2])' /\ (id = UidOf(id[2]) => id[2] \in aliases')
                          /\ \E r \in q'.topology : id \in Ends(r)
    BY <1>3, <1>5, <1>7, <1>10 DEF Near
  <2>3. \A id \in q'.queue : Behind(id[2])
    BY <1>4, <1>10 DEF NamesAreRelated, Behind
  <2>4. q'.queue \subseteq q'.visited /\ UidOf(Svc) \in q'.visited
    BY <1>4, <1>10 DEF NamesAreRelated
  <2> QED BY <1>10, <2>1, <2>2, <2>3, <2>4 DEF NamesAreRelated
<1>13. ASSUME NEW E, AskedOver(E), RowsAreThorough(E), taken = new
       PROVE  AskedOver(E)' /\ RowsAreThorough(E)'
  <2>1. AskedOver(E)' /\ E \subseteq edges
    BY <1>5, <1>10, <1>13 DEF AskedOver
  <2>2. ASSUME NEW id \in q.visited, LookedBehind(id, E) PROVE LookedBehind(id, E)'
    <3>1. CASE id \in q.queue
      BY <1>10, <3>1 DEF LookedBehind
    <3>2. CASE \A e \in About(id[2], E) : Ends(RowOf(e)) \cap q.ids # {}
      <4>1. \A e \in About(id[2], E) : RowOf(e) \in rows
        BY <1>9, <2>1, <3>2 DEF About
      <4> QED BY <1>5, <1>10, <4>1 DEF LookedBehind
    <3>3. CASE \A e \in About(id[2], E) : RowOf(e) \in q.topology
      BY <1>5, <1>10, <3>3 DEF LookedBehind
    <3> QED BY <2>2, <3>1, <3>2, <3>3 DEF LookedBehind
  <2>3. ASSUME NEW id \in taken, Behind(id[2]) PROVE LookedBehind(id, E)'
    <3>1. InEvidence(id[2])
      BY <1>3, <1>7
    <3>2. Opens(id[2])
      BY <2>3, <3>1, InvestigationAssumption DEF Behind, InEvidence
    <3> QED BY <1>10, <3>2 DEF LookedBehind
  <2>4. \A r \in q'.topology : \A id \in Ends(r) : InEvidence(id[2]) => id \in q'.visited
    BY <1>8, <1>10, <1>13 DEF RowsAreThorough
  <2>5. \A id \in q'.visited : Behind(id[2]) => LookedBehind(id, E)'
    BY <1>10, <1>13, <2>2, <2>3 DEF RowsAreThorough
  <2>6. RowsAreThorough(E)'
    BY <2>4, <2>5 DEF RowsAreThorough
  <2> QED BY <2>1, <2>6
<1>14. WalkOK'
  BY <1>4, <1>10, <1>11, <1>12, <1>13 DEF WalkOK
<1>15. HydrateOK' /\ BundleOK'
  BY <1>1, <1>10 DEF HydrateOK, BundleOK
<1>16. ClickHouseStep
  BY <1>1, <1>10 DEF ClickHouseStep
<1> QED BY <1>14, <1>15, <1>16, ClickHouseStepKeeps DEF AnswerInv

\* When nothing waits, the rows speak of all that the question reached.
LEMMA RowsReachAll ==
  ASSUME NamesAreRelated, q.queue = {}, q.ids = {},
         NEW E, AskedOver(E), RowsAreThorough(E),
         NEW o \in q.asked.reach
  PROVE  \E r \in q.topology : \E id \in Ends(r) : id[2] = o
<1>1. ASSUME NEW p \in Visited, NEW x \in Objects, Finds(p, x, LinksOf(E))
      PROVE  x \in Visited
  <2>1. PICK id \in q.visited : id[2] = p
    BY DEF Visited
  <2>2. PICK e \in E : InWindow(e) /\ p \in {e.src, e.dst} /\ x \in {e.src, e.dst}
    BY <1>1 DEF Finds, Promise!Linked, LinksOf
  <2>3. RowOf(e) \in q.topology
    BY <1>1, <2>1, <2>2 DEF RowsAreThorough, LookedBehind, About, Finds
  <2>4. PICK n \in Ends(RowOf(e)) : n[2] = x
    BY <2>2 DEF Ends, RowOf, SrcOf, DstOf, UidOf, PathOf
  <2>5. n \in q.visited
    BY <1>1, <2>3, <2>4 DEF RowsAreThorough, Finds
  <2> QED BY <2>4, <2>5 DEF Visited
<1>2. Svc \in Visited
  BY DEF NamesAreRelated, Visited, UidOf
<1>3. Closed(Visited, LinksOf(E))
  BY <1>1 DEF Closed
<1>4. q.asked.reach \subseteq Visited
  BY <1>2, <1>3, ReachIsLeast DEF AskedOver
<1>5. PICK id \in q.visited : id[2] = o
  BY <1>4 DEF Visited
<1>6. o # Svc
  BY ReachIsEvidence DEF AskedOver
<1>7. id # UidOf(Svc)
  BY <1>5, <1>6 DEF UidOf
<1>8. \E r \in q.topology : id \in Ends(r)
  BY <1>7 DEF NamesAreRelated
<1> QED BY <1>5, <1>8

LEMMA CanonicalObjectIDsKeeps ==
  ASSUME AnswerInv, CanonicalObjectIDs
  PROVE  AnswerInv'
<1>1. /\ backend = "clickhouse" /\ q.phase = "walk" /\ q.ids = {} /\ q.queue = {}
      /\ UNCHANGED <<backend, opts, data>>
      /\ q' = [q EXCEPT !.phase = "hydrate", !.known = aliases]
  BY DEF CanonicalObjectIDs
<1>2. /\ RowsAreRelated /\ NamesAreRelated /\ NamesOK /\ q.asked.seen \subseteq Seen
      /\ ~q.cut => \E E : AskedOver(E) /\ RowsAreThorough(E)
      /\ DOMAIN q = {"phase", "asked", "cut", "reply", "visited", "queue", "ids", "topology",
                     "known", "records", "found", "ranked"}
  BY <1>1 DEF AnswerInv, WalkOK, QueryOK
<1>3. Related' = Related
  BY <1>1, ReadersOnlyRead
<1>4. /\ DOMAIN q' = DOMAIN q /\ q'.phase = "hydrate" /\ q'.asked = q.asked /\ q'.reply = q.reply
      /\ q'.topology = q.topology /\ q'.cut = q.cut /\ q'.known = aliases
  BY <1>1, <1>2
<1>5. RowsAreRelated'
  BY <1>2, <1>3, <1>4 DEF RowsAreRelated
<1>6. q'.asked.seen \subseteq q'.known
  BY <1>1, <1>2, <1>4 DEF NamesOK
<1>7. ~q.cut => \A o \in q.asked.reach : \E r \in q.topology : \E id \in Ends(r) : id[2] = o
  BY <1>1, <1>2, RowsReachAll
<1>8. HydrateOK' /\ WalkOK' /\ BundleOK'
  BY <1>4, <1>5, <1>6, <1>7 DEF HydrateOK, WalkOK, BundleOK
<1>9. ClickHouseStep
  BY <1>1, <1>4 DEF ClickHouseStep
<1> QED BY <1>8, <1>9, ClickHouseStepKeeps DEF AnswerInv

LEMMA ObjectsByIDKeeps ==
  ASSUME AnswerInv, ObjectsByID
  PROVE  AnswerInv'
<1> DEFINE all == {Hydrated(id) : id \in UNION {{r[1], r[2]} : r \in q.topology}}
           fit == {id \in all : id # UidOf(Svc) /\ InEvidence(id[2])}
<1>1. q.phase = "hydrate" /\ UNCHANGED <<backend, opts, data>>
  BY DEF ObjectsByID
<1>2. PICK taken \in Some(fit, MaxObjects) :
        q' = [q EXCEPT !.phase = "bundle", !.records = taken, !.cut = @ \/ taken # fit]
  BY DEF ObjectsByID
<1>3. taken \subseteq fit
  BY <1>2 DEF Some
<1>4. /\ backend = "clickhouse" /\ RowsAreRelated /\ q.asked.seen \subseteq q.known /\ q.asked.seen \subseteq Seen
      /\ \A o \in q.asked.reach : o \in Objects /\ o # Svc /\ InEvidence(o)
      /\ ~q.cut => \A o \in q.asked.reach : \E r \in q.topology : \E id \in Ends(r) : id[2] = o
      /\ DOMAIN q = {"phase", "asked", "cut", "reply", "visited", "queue", "ids", "topology",
                     "known", "records", "found", "ranked"}
  BY <1>1 DEF AnswerInv, HydrateOK, QueryOK
<1>5. Related' = Related
  BY <1>1, ReadersOnlyRead
<1>6. ASSUME NEW id \in Ids
      PROVE  /\ Hydrated(id) \in Ids /\ Hydrated(id)[2] = id[2]
             /\ id[2] \in q.asked.seen => Hydrated(id) = UidOf(id[2])
  BY <1>4 DEF Hydrated, Canonical, UidOf, Ids
<1>7. \A id \in fit : id \in Ids /\ id[2] \in Related /\ (id[2] \in q.asked.seen => id = UidOf(id[2]))
  <2> SUFFICES ASSUME NEW id \in fit
               PROVE  id \in Ids /\ id[2] \in Related /\ (id[2] \in q.asked.seen => id = UidOf(id[2]))
    OBVIOUS
  <2>1. InEvidence(id[2])
    OBVIOUS
  <2>0. PICK r \in q.topology : \E n \in Ends(r) : id = Hydrated(n)
    BY DEF Ends
  <2>2. PICK n \in Ends(r) : id = Hydrated(n)
    BY <2>0
  <2>3. n \in Ids /\ (InEvidence(n[2]) => n[2] \in Related)
    BY <1>4, <2>2 DEF RowsAreRelated
  <2> HIDE DEF fit
  <2> QED BY <1>6, <2>1, <2>2, <2>3
<1>8. ~q.cut => \A o \in q.asked.reach : \E id \in fit : id[2] = o
  <2> SUFFICES ASSUME ~q.cut, NEW o \in q.asked.reach PROVE \E id \in fit : id[2] = o
    OBVIOUS
  <2>0. PICK r \in q.topology : \E n \in Ends(r) : n[2] = o
    BY <1>4
  <2>1. PICK n \in Ends(r) : n[2] = o
    BY <2>0
  <2>2. n \in Ids
    BY <1>4, <2>1 DEF RowsAreRelated
  <2>3. Hydrated(n)[2] = o
    BY <1>6, <2>1, <2>2
  <2>4. Hydrated(n) \in all
    BY <2>1 DEF Ends
  <2>5. Hydrated(n) # UidOf(Svc) /\ InEvidence(Hydrated(n)[2])
    BY <1>4, <2>3 DEF UidOf
  <2> QED BY <2>3, <2>4, <2>5
<1> HIDE DEF all, fit
<1>9. /\ DOMAIN q' = DOMAIN q /\ q'.phase = "bundle" /\ q'.asked = q.asked /\ q'.reply = q.reply
      /\ q'.records = taken /\ q'.cut = (q.cut \/ taken # fit)
  BY <1>2, <1>4
<1>10. BundleOK'
  BY <1>3, <1>5, <1>7, <1>8, <1>9 DEF BundleOK
<1>11. WalkOK' /\ HydrateOK'
  BY <1>9 DEF WalkOK, HydrateOK
<1>12. ClickHouseStep
  BY <1>1, <1>4, <1>9 DEF ClickHouseStep
<1> QED BY <1>10, <1>11, <1>12, ClickHouseStepKeeps DEF AnswerInv

LEMMA EvidenceBundlesKeeps ==
  ASSUME AnswerInv, EvidenceBundles
  PROVE  AnswerInv'
<1>1. q.phase = "bundle" /\ UNCHANGED <<backend, opts, data>>
  BY DEF EvidenceBundles
<1>2. /\ backend = "clickhouse"
      /\ DOMAIN q = {"phase", "asked", "cut", "reply", "visited", "queue", "ids", "topology",
                     "known", "records", "found", "ranked"}
  BY <1>1 DEF AnswerInv, QueryOK
<1>3. DOMAIN q' = DOMAIN q /\ q'.phase = "done" /\ q'.asked = q.asked
  BY <1>2 DEF EvidenceBundles
<1>4. WalkOK' /\ HydrateOK' /\ BundleOK'
  BY <1>3 DEF WalkOK, HydrateOK, BundleOK
<1>5. ClickHouseStep
  BY <1>1, <1>2, <1>3 DEF ClickHouseStep
<1> QED BY <1>4, <1>5, ClickHouseStepKeeps DEF AnswerInv

--------------------------------------------------------------------------------
(* The invariant of the whole.                                                   *)

\* Before the question there is nothing that could be wrong.
LEMMA AnswerInvInit == Init => AnswerInv /\ ProofIsShown
<1> SUFFICES ASSUME Init PROVE AnswerInv /\ ProofIsShown
  OBVIOUS
<1>1. DataOK
  BY DEF Init, DataOK, NoBatch
<1>2. Seen = {}
  BY DEF Init, Seen
<1>3. NamesOK
  BY <1>2 DEF Init, NamesOK, NoBatch
<1>4. q = NoQuery /\ q.phase = "no" /\ q.asked.reach = {} /\ q.ranked = <<>>
  BY DEF Init, NoQuery
<1>5. DOMAIN NoQuery = {"phase", "asked", "cut", "reply", "visited", "queue", "ids", "topology",
                        "known", "records", "found", "ranked"}
  BY DEF NoQuery
<1>6. QueryOK /\ SqliteOK /\ WalkOK /\ HydrateOK /\ BundleOK
  BY <1>4, <1>5 DEF QueryOK, SqliteOK, WalkOK, HydrateOK, BundleOK
<1> QED BY <1>1, <1>3, <1>4, <1>6 DEF AnswerInv, ProofIsShown

LEMMA StutterKeeps == AnswerInv /\ UNCHANGED vars => AnswerInv' /\ UNCHANGED q
<1> SUFFICES ASSUME AnswerInv, UNCHANGED vars PROVE AnswerInv'
  BY DEF vars
<1>1. UNCHANGED <<backend, opts, data>> /\ UNCHANGED q
  BY DEF vars
<1>2. Gain /\ DataOK' /\ NamesOK'
  BY <1>1, ReadersOnlyRead DEF Gain, AnswerInv
<1> QED BY <1>1, <1>2, QueriesOutliveWrites DEF AnswerInv

\* Every step keeps it.
LEMMA AnswerInvNext == AnswerInv /\ ProofIsShown /\ [Next]_vars => AnswerInv' /\ ProofIsShown'
<1> SUFFICES ASSUME AnswerInv, ProofIsShown, [Next]_vars PROVE AnswerInv' /\ ProofIsShown'
  OBVIOUS
<1>1. CASE Write
  <2>1. DataOK' /\ Gain /\ UNCHANGED q
    BY <1>1, WritersGain DEF AnswerInv
  <2>2. NamesOK'
    BY <1>1, WritersKeepNames DEF AnswerInv
  <2>3. ProofIsShown'
    BY <2>1 DEF ProofIsShown, Gain
  <2> QED BY <2>1, <2>2, <2>3, QueriesOutliveWrites DEF AnswerInv
<1>2. CASE InvestigateService
  <2>1. AnswerInv'
    BY <1>2, BeginKeeps DEF InvestigateService
  <2>2. q'.ranked = <<>>
    BY <1>2 DEF InvestigateService, Begin, NoQuery
  <2> QED BY <2>1, <2>2 DEF ProofIsShown
<1>3. CASE AttachVersions
  BY <1>3, AttachVersionsKeeps
<1>4. CASE Return
  <2>1. backend' = backend /\ opts' = opts
    BY <1>4 DEF Return
  <2> QED BY <1>4, <2>1, ReturnKeeps DEF ProofIsShown
<1>5. ASSUME NEW o \in q.queue, RelatedEdges(o) PROVE AnswerInv' /\ ProofIsShown'
  <2>1. backend' = backend /\ opts' = opts /\ q'.ranked = q.ranked
    BY <1>5 DEF RelatedEdges, AnswerInv, QueryOK
  <2> QED BY <1>5, <2>1, RelatedEdgesKeeps DEF ProofIsShown
<1>6. ASSUME NEW id \in q.records, BundleForRecord(id) PROVE AnswerInv' /\ ProofIsShown'
  <2>1. backend' = backend /\ opts' = opts /\ q'.ranked = q.ranked
    BY <1>6 DEF BundleForRecord, AnswerInv, QueryOK
  <2> QED BY <1>6, <2>1, BundleForRecordKeeps DEF ProofIsShown
<1>7. CASE ClickHouse
  <2>1. AnswerInv'
    <3>1. CASE InvestigateServiceByName
      BY <3>1, BeginKeeps DEF InvestigateServiceByName
    <3>2. ASSUME NEW id \in q.queue, ObjectAndAliasIDs(id) PROVE AnswerInv'
      BY <3>2, ObjectAndAliasIDsKeeps
    <3> QED BY <1>7, <3>1, <3>2, RelatedTopologyEdgeRowsKeeps, CanonicalObjectIDsKeeps, ObjectsByIDKeeps,
              EvidenceBundlesKeeps DEF ClickHouse
  <2>2. backend = "clickhouse" /\ backend' = backend
    BY <1>7 DEF ClickHouse, InvestigateServiceByName, Begin, ObjectAndAliasIDs, RelatedTopologyEdgeRows,
              CanonicalObjectIDs, ObjectsByID, EvidenceBundles, AnswerInv, QueryOK
  <2> QED BY <2>1, <2>2 DEF ProofIsShown
<1>8. CASE UNCHANGED vars
  <2>1. UNCHANGED q /\ UNCHANGED backend /\ UNCHANGED opts
    BY <1>8 DEF vars
  <2> QED BY <1>8, <2>1, StutterKeeps DEF ProofIsShown
<1> QED BY <1>1, <1>2, <1>3, <1>4, <1>5, <1>6, <1>7, <1>8 DEF Next, Sqlite

\* In every run what an investigation has gathered is related to the service, and
\* what it has not looked at yet still waits (service_investigate.go, read_service.go).
THEOREM AnswersAreGathered == Spec => [](AnswerInv /\ ProofIsShown)
<1>1. Init => AnswerInv /\ ProofIsShown
  BY AnswerInvInit
<1>2. AnswerInv /\ ProofIsShown /\ [Next]_vars => AnswerInv' /\ ProofIsShown'
  BY AnswerInvNext
<1> QED BY <1>1, <1>2, PTL DEF Spec

\* Every object that SQLite ranks within the caller's limit comes with a version
\* to read, however the window lies (versionEvidence).
THEOREM ProofShown == Spec => []ProofIsShown
BY AnswersAreGathered, PTL

--------------------------------------------------------------------------------
(* The promise of ServiceAnswer is kept.                                         *)

\* A step that writes, or gathers, is a Learn of the promise.
LEMMA GatheringLearns ==
  ASSUME Gain, q'.asked = q.asked, q'.reply = q.reply, q.cut => q'.cut
  PROVE  Promise!Next
<1>1. Seen \subseteq Seen' /\ Links \subseteq Links' /\ backend' = backend
  BY RelatedGrows DEF Gain
<1>2. Promise!Learn
  BY <1>1 DEF Promise!Learn
<1> QED BY <1>2 DEF Promise!Next

LEMMA ReadersGain == UNCHANGED <<backend, opts, data>> => Gain
BY ReadersOnlyRead DEF Gain

LEMMA BeginAsks ==
  ASSUME AnswerInv, NEW root, Begin(root)
  PROVE  Promise!Next
<1>1. /\ UNCHANGED <<backend, opts, data>> /\ Svc \in Seen /\ q = NoQuery
      /\ q' = [NoQuery EXCEPT !.phase = "walk", !.visited = {UidOf(Svc)}, !.queue = {root},
                 !.asked = [open |-> TRUE, seen |-> Seen, reach |-> Promise!Reach(Links)]]
  BY DEF Begin, AnswerInv, QueryOK
<1>2. /\ q.asked.open = FALSE /\ q.reply = NoQuery.reply /\ q'.reply = NoQuery.reply
      /\ q.cut = FALSE /\ q'.asked = [open |-> TRUE, seen |-> Seen, reach |-> Promise!Reach(Links)]
  BY <1>1 DEF NoQuery
<1>3. Seen' = Seen /\ Links' = Links /\ backend' = backend
  BY <1>1, ReadersOnlyRead
<1>4. Promise!Ask
  BY <1>1, <1>2, <1>3 DEF Promise!Ask
<1> QED BY <1>2, <1>4 DEF Promise!Next

\* SQLite's answer holds all that was reached and had a document.
LEMMA ReturnReplies ==
  ASSUME AnswerInv, Return
  PROVE  Promise!Next
<1> DEFINE shown == {q.ranked[i].object : i \in DOMAIN q.ranked}
<1>1. /\ backend = "sqlite" /\ q.phase = "walk" /\ UNCHANGED <<backend, opts, data>>
      /\ q.queue = {} /\ q.records = {} /\ q.found = {}
      /\ q' = [q EXCEPT !.phase = "done", !.reply = [how |-> "given", objects |-> shown]]
  BY DEF Return
<1>2. /\ GatheredIsRelated /\ NothingIsDropped /\ q.asked.open /\ q.reply = NoQuery.reply
      /\ DOMAIN q = {"phase", "asked", "cut", "reply", "visited", "queue", "ids", "topology",
                     "known", "records", "found", "ranked"}
  BY <1>1 DEF AnswerInv, SqliteOK, QueryOK
<1>3. PICK E : AskedOver(E) /\ SearchIsThorough(E)
  BY <1>1 DEF AnswerInv, SqliteOK
<1>4. shown \subseteq Promise!Reach(Links) \cap Seen
  BY <1>2 DEF GatheredIsRelated, Related
<1>5. q.asked.reach \cap q.asked.seen \subseteq shown
  <2>1. Closed(Visited, LinksOf(E)) /\ Svc \in Visited
    BY <1>1, <1>3 DEF Closed, SearchIsThorough, Finds
  <2>2. q.asked.reach \subseteq Visited
    BY <1>3, <2>1, ReachIsLeast DEF AskedOver
  <2>3. \A o \in q.asked.reach : o # Svc
    BY <1>3, ReachIsEvidence DEF AskedOver
  <2>4. \A o \in q.asked.reach \cap q.asked.seen : Gathered(o)
    BY <1>2, <2>2, <2>3 DEF NothingIsDropped
  <2> QED BY <1>1, <2>4 DEF Gathered
<1> HIDE DEF shown
<1>6. q'.asked = q.asked /\ q'.cut = q.cut /\ q'.reply = [how |-> "given", objects |-> shown]
  BY <1>1, <1>2
<1>7. Seen' = Seen /\ Links' = Links /\ backend' = backend
  BY <1>1, ReadersOnlyRead
<1>8. q.reply.how = "none"
  BY <1>2 DEF NoQuery
<1>9. q'.reply.objects = shown /\ q'.reply \in [how : {"given"}, objects : SUBSET (Promise!Reach(Links) \cap Seen)]
  BY <1>4, <1>6
<1>10. Promise!Reply
  BY <1>2, <1>5, <1>6, <1>7, <1>8, <1>9 DEF Promise!Reply
<1> QED BY <1>6, <1>10 DEF Promise!Next

\* ClickHouse's answer does too unless it is cut, and is refused for what is new.
LEMMA EvidenceBundlesReplies ==
  ASSUME AnswerInv, EvidenceBundles
  PROVE  Promise!Next
<1> DEFINE objects == {id[2] : id \in q.records}
<1>1. q.phase = "bundle" /\ UNCHANGED <<backend, opts, data>>
  BY DEF EvidenceBundles
<1>2. /\ backend = "clickhouse" /\ q.asked.open /\ q.reply = NoQuery.reply /\ q.asked.seen \subseteq Seen
      /\ \A id \in q.records : id \in Ids /\ id[2] \in Related /\ (id[2] \in q.asked.seen => id = UidOf(id[2]))
      /\ ~q.cut => \A o \in q.asked.reach : \E id \in q.records : id[2] = o
      /\ DOMAIN q = {"phase", "asked", "cut", "reply", "visited", "queue", "ids", "topology",
                     "known", "records", "found", "ranked"}
  BY <1>1 DEF AnswerInv, QueryOK, BundleOK
<1>3. Seen' = Seen /\ Links' = Links /\ backend' = backend
  BY <1>1, ReadersOnlyRead
<1>4. q.reply.how = "none"
  BY <1>2 DEF NoQuery
<1>5. q'.asked = q.asked /\ q'.cut = q.cut
  BY <1>2 DEF EvidenceBundles
<1>6. CASE \A id \in q.records : Documented(id)
  <2>1. q'.reply = [how |-> "given", objects |-> objects]
    BY <1>2, <1>6 DEF EvidenceBundles
  <2>2. objects \subseteq Promise!Reach(Links) \cap Seen
    BY <1>2, <1>6 DEF Documented, Related
  <2>3. q.cut \/ q.asked.reach \cap q.asked.seen \subseteq objects
    BY <1>2
  <2> HIDE DEF objects
  <2>4. /\ q'.reply.objects = objects
        /\ q'.reply \in [how : {"given"}, objects : SUBSET (Promise!Reach(Links) \cap Seen)]
    BY <2>1, <2>2
  <2>5. Promise!Reply
    BY <1>2, <1>3, <1>4, <1>5, <2>3, <2>4 DEF Promise!Reply
  <2> QED BY <1>5, <2>5 DEF Promise!Next
<1>7. CASE ~ \A id \in q.records : Documented(id)
  <2>1. q'.reply = [how |-> "refused", objects |-> {}]
    BY <1>2, <1>7 DEF EvidenceBundles
  <2>2. PICK id \in q.records : ~Documented(id)
    BY <1>7
  <2>3. id[2] \in Promise!Reach(Links) /\ id[2] \notin q.asked.seen
    BY <1>2, <2>2 DEF Documented, Related
  <2>4. Promise!Refuse
    BY <1>2, <1>3, <1>4, <1>5, <2>1, <2>3 DEF Promise!Refuse
  <2> QED BY <1>5, <2>4 DEF Promise!Next
<1> QED BY <1>6, <1>7

LEMMA StepsKeepThePromise == AnswerInv /\ [Next]_vars => Promise!Next
<1> SUFFICES ASSUME AnswerInv, [Next]_vars PROVE Promise!Next
  OBVIOUS
<1>0. DOMAIN q = {"phase", "asked", "cut", "reply", "visited", "queue", "ids", "topology",
                  "known", "records", "found", "ranked"}
  BY DEF AnswerInv, QueryOK
<1>1. CASE Write
  <2>1. Gain /\ UNCHANGED q
    BY <1>1, WritersGain DEF AnswerInv
  <2> QED BY <2>1, GatheringLearns
<1>2. CASE InvestigateService \/ InvestigateServiceByName
  BY <1>2, BeginAsks DEF InvestigateService, InvestigateServiceByName
<1>3. CASE Return
  BY <1>3, ReturnReplies
<1>4. CASE EvidenceBundles
  BY <1>4, EvidenceBundlesReplies
<1>5. CASE AttachVersions
  <2>1. Gain
    BY <1>5, ReadersGain DEF AttachVersions
  <2>2. q'.asked = q.asked /\ q'.reply = q.reply /\ q'.cut = q.cut
    BY <1>0, <1>5 DEF AttachVersions
  <2> QED BY <2>1, <2>2, GatheringLearns
<1>6. ASSUME NEW o \in q.queue, RelatedEdges(o) \/ ObjectAndAliasIDs(o) PROVE Promise!Next
  <2>1. Gain
    BY <1>6, ReadersGain DEF RelatedEdges, ObjectAndAliasIDs
  <2>2. q'.asked = q.asked /\ q'.reply = q.reply /\ q'.cut = q.cut
    BY <1>0, <1>6 DEF RelatedEdges, ObjectAndAliasIDs
  <2> QED BY <2>1, <2>2, GatheringLearns
<1>7. ASSUME NEW id \in q.records, BundleForRecord(id) PROVE Promise!Next
  <2>1. Gain
    BY <1>7, ReadersGain DEF BundleForRecord
  <2>2. q'.asked = q.asked /\ q'.reply = q.reply /\ q'.cut = q.cut
    BY <1>0, <1>7 DEF BundleForRecord
  <2> QED BY <2>1, <2>2, GatheringLearns
<1>8. CASE RelatedTopologyEdgeRows \/ CanonicalObjectIDs \/ ObjectsByID
  <2>1. Gain
    BY <1>8, ReadersGain DEF RelatedTopologyEdgeRows, CanonicalObjectIDs, ObjectsByID
  <2>2. q'.asked = q.asked /\ q'.reply = q.reply /\ (q.cut => q'.cut)
    BY <1>0, <1>8 DEF RelatedTopologyEdgeRows, CanonicalObjectIDs, ObjectsByID
  <2> QED BY <2>1, <2>2, GatheringLearns
<1>9. CASE UNCHANGED vars
  <2>1. Gain /\ UNCHANGED q
    BY <1>9, ReadersGain DEF vars
  <2> QED BY <2>1, GatheringLearns
<1> QED BY <1>1, <1>2, <1>3, <1>4, <1>5, <1>6, <1>7, <1>8, <1>9 DEF Next, Sqlite, ClickHouse

\* Both backends implement ServiceAnswer: whatever collectors write meanwhile, an
\* answer that is not cut holds every object that was related to the service and
\* documented when the question came and nothing unrelated; SQLite always answers
\* and ClickHouse refuses only for a neighbour that had no document then.
THEOREM PromiseKept == Spec => KeepsThePromise
<1>1. Init => Promise!Init
  <2> SUFFICES ASSUME Init PROVE Promise!Init
    OBVIOUS
  <2>1. Seen = {} /\ Links = {}
    BY DEF Init, Seen, Links
  <2>2. /\ q.asked = [open |-> FALSE, seen |-> {}, reach |-> {}] /\ q.cut = FALSE
        /\ q.reply = [how |-> "none", objects |-> {}]
    BY DEF Init, NoQuery
  <2> QED BY <2>1, <2>2 DEF Promise!Init
<1>2. AnswerInv /\ [Next]_vars =>
        [Promise!Next]_<<Seen, Links, q.asked, q.cut, backend = "clickhouse", q.reply>>
  BY StepsKeepThePromise
<1> QED BY <1>1, <1>2, AnswersAreGathered, PTL DEF Spec, KeepsThePromise, Promise!Spec
================================================================================
