--------------------------- MODULE SqliteUpkeepProofs ---------------------------
(* Proofs about SqliteUpkeep, for any documents, filters, histories that are   *)
(* found, batches and any order of commands, crashes and writes between them.  *)
EXTENDS SqliteUpkeep, FiniteSetTheorems, WellFoundedInduction, TLAPS

-----------------------------------------------------------------------------
(* What holds of the tables.                                                   *)

Pos == Nat \ {0}

VersionsOK ==
  /\ IsFiniteSet(versions)
  /\ versions \subseteq [id : Pos, obj : Objects, seq : Pos, doc : Docs]
  /\ \A v \in versions : \A w \in versions : v.id = w.id => v = w
  /\ \A v \in versions : \A w \in versions : v.obj = w.obj => (v.seq < w.seq <=> v.id < w.id)

\* The newest version of an object.
Heads(o, id) == \E v \in History(o) : v.id = id /\ \A w \in History(o) : w.seq <= v.seq

PointersOK ==
  /\ DOMAIN latest = Objects /\ index = latest
  /\ \A o \in Objects : latest[o] \in Nat
  /\ \A o \in Objects : latest[o] = 0 => History(o) = {}
  /\ \A o \in Objects : latest[o] # 0 => Heads(o, latest[o])

\* Sightings are numbered, and a later one is of no older version.
SightingsOK ==
  /\ IsFiniteSet(observations)
  /\ observations \subseteq [obj : Objects, n : Pos, del : BOOLEAN, ver : Pos]
  /\ \A b \in observations : \A c \in observations : b.obj = c.obj /\ b.n = c.n => b = c
  /\ \A b \in observations : \E v \in History(b.obj) : v.id = b.ver
  /\ \A b \in observations : \A c \in observations : b.obj = c.obj /\ b.n < c.n => b.ver <= c.ver

Seen(v) == v.id \in Observed

\* From s to v the documents of the object are v's.
SameFrom(s, v) ==
  /\ s \in History(v.obj) /\ s.id <= v.id
  /\ \A w \in History(v.obj) : s.id <= w.id /\ w.id <= v.id => w.doc = v.doc

\* A database of an older version holds versions that no observation refers to,
\* but each belongs to a run of equal documents that was seen.
RunIsSeen(v) == \E s \in versions : Seen(s) /\ SameFrom(s, v)

RunsAreSeen ==
  /\ opened => \A v \in versions : RunIsSeen(v)
  /\ setting.retention => \A v \in versions : Seen(v)

-----------------------------------------------------------------------------
(* What holds of a plan that has waited.                                       *)

\* No version has been given this id since, nor will be.
Given(id) == id \in Pos /\ \E v \in versions : id <= v.id

PrunedIn(plan) == {p.id : p \in plan.prunes}

UpdatesOK(plan) ==
  \A u \in plan.updates :
    Given(u.id) /\ \A v \in versions : v.id = u.id => v.doc = u.doc /\ v.obj \in plan.objects

\* Where the version and the one that takes its place are still there, all
\* between them goes too, and the two say the same.
Replaces(plan, p, v) ==
  /\ v.obj \in plan.objects /\ v.doc = p.doc
  /\ \A w \in History(v.obj) : p.canonical < w.id /\ w.id <= v.id => w.id \in PrunedIn(plan)
  /\ \A c \in versions : c.id = p.canonical => c.obj = v.obj /\ Normal[c.doc] = Normal[v.doc]

PrunesOK(plan) ==
  /\ \A p \in plan.prunes : Given(p.id) /\ p.canonical \in Pos /\ p.canonical < p.id
  /\ \A p \in plan.prunes : \A q \in plan.prunes : p.id = q.id => p = q
  /\ \A p \in plan.prunes : p.canonical \notin PrunedIn(plan)
  /\ \A p \in plan.prunes : \A v \in versions : v.id = p.id => Replaces(plan, p, v)
  /\ ~setting.retention => \A p \in plan.prunes : p.canonical \in Ids

\* What no observation refers to goes.
UnseenGo(plan) ==
  \A v \in versions : v.obj \in plan.objects /\ ~Seen(v) => v.id \in PrunedIn(plan)

BackfillOK(plan) ==
  /\ DOMAIN plan = {"objects", "updates", "prunes"}
  /\ UpdatesOK(plan) /\ PrunesOK(plan) /\ UnseenGo(plan)

JobOK ==
  /\ DOMAIN job = {"kind", "cursor", "plan"}
  /\ ~opened => job = Idle /\ observations = {}
  /\ job.kind = "backfill" /\ job.plan # NoPlan => BackfillOK(job.plan)
  /\ job.kind \notin {"backfill", "reindex"} => job.plan = NoPlan

UpkeepInv == VersionsOK /\ PointersOK /\ SightingsOK /\ RunsAreSeen /\ JobOK

-----------------------------------------------------------------------------
(* What holds of the evidence, beside that.                                    *)

Proves(e, v) == v.id = e.ver /\ Normal[v.doc] = Normal[e.doc] /\ (e.del <=> SeenDeleted(v))

EvidenceOK ==
  /\ {e.ver : e \in evidence} = Ids
  /\ \A e \in evidence : \E v \in versions : Proves(e, v)

\* What a reindex is about to store is still so.
ItemsOK ==
  job.kind = "reindex" /\ job.plan # NoPlan =>
    \A i \in job.plan.items : \E v \in versions : Proves(MadeFrom(i.ver, i.doc, i.del), v)

EvidenceInv == UpkeepInv /\ EvidenceOK /\ ItemsOK

-----------------------------------------------------------------------------
(* Least and greatest numbers. *)

LEMMA LeastNumber ==
  ASSUME NEW T \in SUBSET Nat, T # {}
  PROVE  \E x \in T : \A y \in T : x <= y
<1> DEFINE R == {ss \in Nat \X Nat : ss[1] < ss[2]}
<1>1. IsWellFoundedOn(R, Nat)
  BY NatLessThanWellFounded DEF OpToRel
<1>2. PICK x \in T : \A y \in T : <<y, x>> \notin R
  BY <1>1, WFMin
<1>3. \A y \in T : x <= y
  <2> SUFFICES ASSUME NEW y \in T, ~(x <= y) PROVE FALSE
    OBVIOUS
  <2>1. x \in Nat /\ y \in Nat /\ y < x
    OBVIOUS
  <2>2. <<y, x>> \in R
    BY <2>1
  <2>3. QED
    BY <1>2, <2>2
<1>4. QED
  BY <1>3

LEMMA GreatestNumber ==
  ASSUME NEW S \in SUBSET Nat, IsFiniteSet(S), S # {}
  PROVE  Greatest(S) \in S /\ \A m \in S : Greatest(S) >= m
<1> DEFINE Top(T) == \E n \in T : \A m \in T : n >= m
           Bad    == {T \in SUBSET S : T # {} /\ ~Top(T)}
           Sizes  == {Cardinality(T) : T \in Bad}
<1>1. \A T \in Bad : IsFiniteSet(T) /\ Cardinality(T) \in Nat
  BY FS_Subset, FS_CardinalityType
<1>2. Bad = {}
  <2> SUFFICES ASSUME Bad # {} PROVE FALSE
    OBVIOUS
  <2>1. Sizes \in SUBSET Nat /\ Sizes # {}
    BY <1>1
  <2> HIDE DEF Sizes
  <2>2. PICK k \in Sizes : \A j \in Sizes : k <= j
    BY <2>1, LeastNumber
  <2>3. PICK T \in Bad : Cardinality(T) = k
    BY <2>2 DEF Sizes
  <2>4. PICK x \in T : TRUE
    BY <2>3
  <2> DEFINE U == T \ {x}
  <2>5. IsFiniteSet(T) /\ Cardinality(T) \in Nat /\ Cardinality(U) = Cardinality(T) - 1
    BY <1>1, <2>3, <2>4, FS_RemoveElement
  <2>6. Cardinality(U) \notin Sizes
    BY <2>1, <2>2, <2>3, <2>5
  <2>7. U \notin Bad
    BY <2>6 DEF Sizes
  <2>8. CASE U = {}
    <3>1. T = {x} /\ x \in Nat
      BY <2>4, <2>8
    <3>2. Top(T)
      BY <3>1
    <3>3. QED
      BY <2>3, <3>2
  <2>9. CASE U # {}
    <3>1. Top(U)
      BY <2>7, <2>9
    <3>2. PICK n \in U : \A m \in U : n >= m
      BY <3>1
    <3>3. n \in T /\ n \in Nat /\ x \in Nat /\ \A m \in T : m \in U \/ m = x
      BY <2>4, <3>2
    <3>4. CASE n >= x
      BY <2>3, <3>2, <3>3, <3>4
    <3>5. CASE ~(n >= x)
      <4>1. \A m \in T : m \in Nat
        OBVIOUS
      <4>2. \A m \in T : x >= m
        BY <3>2, <3>3, <3>5, <4>1
      <4>3. QED
        BY <2>3, <2>4, <4>2
    <3>6. QED
      BY <3>4, <3>5
  <2>10. QED
    BY <2>8, <2>9
<1>3. Top(S)
  BY <1>2
<1>4. QED
  BY <1>3 DEF Greatest

\* The image of a finite set.
LEMMA ImageFinite ==
  ASSUME NEW S, NEW f, IsFiniteSet(S), f \in [S -> Range(f)]
  PROVE  IsFiniteSet(Range(f))
<1>1. f \in Surjection(S, Range(f))
  BY DEF Range, Surjection
<1>2. QED
  BY <1>1, FS_Surjection

\* The number after the greatest is above them all.
LEMMA NextIsAbove ==
  ASSUME NEW S \in SUBSET Nat, IsFiniteSet(S)
  PROVE  LET next == 1 + Greatest({0} \cup S)
         IN  next \in Nat \ {0} /\ \A m \in S : next > m
<1> DEFINE T == {0} \cup S
<1>1. T \in SUBSET Nat /\ T # {} /\ IsFiniteSet(T)
  <2>1. IsFiniteSet(S \cup {0})
    BY FS_AddElement
  <2>2. T = S \cup {0}
    OBVIOUS
  <2>3. QED
    BY <2>1, <2>2
<1> HIDE DEF T
<1>2. Greatest(T) \in T /\ \A m \in T : Greatest(T) >= m
  BY <1>1, GreatestNumber
<1>3. Greatest(T) \in Nat /\ \A m \in S : m \in T /\ m \in Nat
  BY <1>1, <1>2 DEF T
<1>4. QED
  BY <1>2, <1>3 DEF T


\* The numbers that a finite set is given.
LEMMA Numbers ==
  ASSUME NEW S, IsFiniteSet(S), NEW f \in [S -> Nat]
  PROVE  {f[x] : x \in S} \in SUBSET Nat /\ IsFiniteSet({f[x] : x \in S})
<1>1. Range(f) = {f[x] : x \in S} /\ f \in [S -> Range(f)]
  BY DEF Range
<1> QED BY <1>1, ImageFinite

LEMMA Topmost ==
  ASSUME NEW S, IsFiniteSet(S), S # {}, NEW f \in [S -> Nat]
  PROVE  \E x \in S : \A y \in S : f[y] <= f[x]
<1> DEFINE F == {f[x] : x \in S}
<1>1. F \in SUBSET Nat /\ IsFiniteSet(F) /\ F # {}
  BY Numbers
<1> HIDE DEF F
<1>2. Greatest(F) \in F /\ \A m \in F : Greatest(F) >= m
  BY <1>1, GreatestNumber
<1>3. PICK x \in S : Greatest(F) = f[x]
  BY <1>2 DEF F
<1>4. \A y \in S : f[y] \in F /\ f[y] \in Nat /\ f[x] \in Nat
  BY DEF F
<1> QED BY <1>2, <1>3, <1>4

LEMMA Lowest ==
  ASSUME NEW S, S # {}, NEW f \in [S -> Nat]
  PROVE  \E x \in S : \A y \in S : f[x] <= f[y]
<1> DEFINE F == {f[x] : x \in S}
<1>1. F \in SUBSET Nat /\ F # {}
  OBVIOUS
<1> HIDE DEF F
<1>2. PICK m \in F : \A k \in F : m <= k
  BY <1>1, LeastNumber
<1> QED BY <1>2 DEF F

-----------------------------------------------------------------------------
(* Versions. *)

LEMMA VersionFacts ==
  ASSUME VersionsOK
  PROVE  /\ \A v \in versions : v.id \in Pos /\ v.obj \in Objects /\ v.seq \in Pos /\ v.doc \in Docs
         /\ \A v \in versions : \A w \in versions : v.id = w.id => v = w
         /\ \A v \in versions : \A w \in versions :
              v.obj = w.obj => (v.seq < w.seq <=> v.id < w.id) /\ (v.seq <= w.seq <=> v.id <= w.id)
  BY DEF VersionsOK, Pos

LEMMA SightingFacts ==
  ASSUME SightingsOK
  PROVE  \A b \in observations : b.obj \in Objects /\ b.n \in Pos /\ b.del \in BOOLEAN /\ b.ver \in Pos
  BY DEF SightingsOK

\* The document of an id.
LEMMA DocIs ==
  ASSUME VersionsOK, NEW v \in versions
  PROVE  DocOf(v.id) = v.doc
<1>1. \A w \in versions : w.id = v.id => w = v
  BY DEF VersionsOK
<1> QED BY <1>1 DEF DocOf

LEMMA FirstVersion ==
  ASSUME VersionsOK, NEW S \in SUBSET versions, S # {}
  PROVE  \E v \in S : \A w \in S : v.id <= w.id
<1> DEFINE f == [v \in S |-> v.id]
<1>1. f \in [S -> Nat] /\ \A v \in S : f[v] = v.id
  BY VersionFacts DEF Pos
<1> HIDE DEF f
<1> QED BY <1>1, Lowest

LEMMA LastVersion ==
  ASSUME VersionsOK, NEW S \in SUBSET versions, S # {}
  PROVE  \E v \in S : \A w \in S : w.id <= v.id
<1> DEFINE f == [v \in S |-> v.id]
<1>1. f \in [S -> Nat] /\ \A v \in S : f[v] = v.id
  BY VersionFacts DEF Pos
<1>2. IsFiniteSet(S)
  BY FS_Subset DEF VersionsOK
<1> HIDE DEF f
<1> QED BY <1>1, <1>2, Topmost

\* The newest version of an object has the greatest id of it.
LEMMA HeadIsLast ==
  ASSUME VersionsOK, PointersOK, NEW o \in Objects, History(o) # {}
  PROVE  \E v \in History(o) : v.id = latest[o] /\ \A w \in History(o) : w.id <= v.id
<1>1. PICK v \in History(o) : v.id = latest[o] /\ \A w \in History(o) : w.seq <= v.seq
  BY DEF PointersOK, Heads
<1>2. \A w \in History(o) : w \in versions /\ v \in versions /\ w.obj = v.obj
  BY DEF History
<1> QED BY <1>1, <1>2, VersionFacts

\* The last version of all is the newest of its object.
LEMMA LastOfAll ==
  ASSUME VersionsOK, PointersOK, versions # {}
  PROVE  \E g \in versions : g.id = latest[g.obj] /\ \A w \in versions : w.id <= g.id
<1>1. PICK g \in versions : \A w \in versions : w.id <= g.id
  BY LastVersion
<1>2. g \in History(g.obj) /\ g.obj \in Objects
  BY VersionFacts DEF History
<1>3. PICK v \in History(g.obj) : v.id = latest[g.obj] /\ \A w \in History(g.obj) : w.id <= v.id
  BY <1>2, HeadIsLast
<1>4. v \in versions /\ v.id <= g.id /\ g.id <= v.id
  BY <1>1, <1>2, <1>3 DEF History
<1>5. v.id = g.id
  BY <1>4, VersionFacts DEF Pos
<1> QED BY <1>1, <1>3, <1>5

-----------------------------------------------------------------------------
(* The beginning, and steps that leave the tables alone.                       *)

\* Of a database of an older version every version stands by itself, and a
\* database with retention is a new one.
RetentionIsNew == \A d \in Databases : d.retention => d.found = <<>>

LEMMA InitUpkeep ==
  ASSUME RetentionIsNew, Init
  PROVE  UpkeepInv
<1>1. PICK d \in Databases :
        /\ versions = {[id |-> i, obj |-> 1, seq |-> i, doc |-> d.found[i]] : i \in DOMAIN d.found}
        /\ latest = [o \in Objects |-> IF o = 1 THEN Len(d.found) ELSE 0]
        /\ setting = d
  BY DEF Init
<1>2. /\ d.found \in Seq(Docs) /\ Len(d.found) \in Nat /\ DOMAIN d.found = 1 .. Len(d.found)
      /\ 1 \in Objects
  BY UpkeepAssumption DEF UpkeepAssumption, Objects
<1> DEFINE N == Len(d.found)
           V(i) == [id |-> i, obj |-> 1, seq |-> i, doc |-> d.found[i]]
<1>3. /\ \A i \in 1 .. N : V(i) \in versions /\ V(i) \in [id : Pos, obj : Objects, seq : Pos, doc : Docs]
      /\ \A v \in versions : v.id \in 1 .. N /\ v = V(v.id) /\ v.seq = v.id /\ v.obj = 1
  <2>1. \A i \in 1 .. N : d.found[i] \in Docs
    BY <1>2
  <2> QED BY <1>1, <1>2, <2>1 DEF Pos
<1>4. IsFiniteSet(versions)
  <2> DEFINE f == [i \in 1 .. N |-> V(i)]
  <2>1. Range(f) = versions /\ f \in [1 .. N -> Range(f)]
    BY <1>1, <1>2 DEF Range
  <2>2. IsFiniteSet(1 .. N)
    BY <1>2, FS_Interval
  <2> QED BY <2>1, <2>2, ImageFinite
<1>5. VersionsOK
  BY <1>3, <1>4 DEF VersionsOK
<1>6. PointersOK
  <2> SUFFICES ASSUME NEW o \in Objects
               PROVE  /\ latest[o] \in Nat
                      /\ latest[o] = 0 => History(o) = {}
                      /\ latest[o] # 0 => Heads(o, latest[o])
    BY <1>1 DEF Init, PointersOK
  <2>1. CASE o # 1
    <3>1. latest[o] = 0
      BY <1>1, <2>1
    <3>2. History(o) = {}
      BY <1>3, <2>1 DEF History
    <3> QED BY <3>1, <3>2
  <2>2. CASE o = 1 /\ N = 0
    <3>1. latest[o] = 0
      BY <1>1, <2>2
    <3>2. History(o) = {}
      BY <1>3, <2>2 DEF History
    <3> QED BY <3>1, <3>2
  <2>3. CASE o = 1 /\ N # 0
    <3>1. latest[o] = N /\ N \in 1 .. N
      BY <1>1, <1>2, <2>3
    <3>2. V(N) \in History(o) /\ V(N).id = N /\ \A w \in History(o) : w.seq <= V(N).seq
      BY <1>3, <2>3, <3>1 DEF History
    <3> QED BY <1>2, <2>3, <3>1, <3>2 DEF Heads
  <2> QED BY <2>1, <2>2, <2>3
<1>7. SightingsOK
  BY FS_EmptySet DEF Init, SightingsOK
<1>8. RunsAreSeen
  <2>1. setting.retention => versions = {}
    <3>1. d.retention => DOMAIN d.found = {}
      BY DEF RetentionIsNew
    <3> QED BY <1>1, <3>1
  <2> QED BY <2>1 DEF RunsAreSeen, Init
<1>9. JobOK
  BY DEF Init, JobOK, Idle
<1> QED BY <1>5, <1>6, <1>7, <1>8, <1>9 DEF UpkeepInv

LEMMA SameVersions ==
  ASSUME VersionsOK, UNCHANGED versions
  PROVE  VersionsOK'
  BY DEF VersionsOK

LEMMA SamePointers ==
  ASSUME PointersOK, UNCHANGED <<versions, latest, index>>
  PROVE  PointersOK'
  BY DEF PointersOK, Heads, History

LEMMA SameSightings ==
  ASSUME SightingsOK, UNCHANGED <<versions, observations>>
  PROVE  SightingsOK'
  BY DEF SightingsOK, History

LEMMA SameRuns ==
  ASSUME RunsAreSeen, UNCHANGED <<versions, observations, opened, setting>>
  PROVE  RunsAreSeen'
  BY DEF RunsAreSeen, RunIsSeen, Seen, Observed, SameFrom, History

LEMMA SamePlan ==
  ASSUME UNCHANGED <<versions, observations, setting>>, NEW plan, BackfillOK(plan)
  PROVE  BackfillOK(plan)'
  BY DEF BackfillOK, UpdatesOK, PrunesOK, UnseenGo, Given, PrunedIn, Replaces, History, Ids, Seen, Observed

\* Where the tables stay, the command has to be right.
LEMMA SameTables ==
  ASSUME UpkeepInv, UNCHANGED <<versions, observations, latest, index, opened, setting>>, JobOK'
  PROVE  UpkeepInv'
  BY SameVersions, SamePointers, SameSightings, SameRuns DEF UpkeepInv

LEMMA SameJob ==
  ASSUME JobOK, UNCHANGED <<versions, observations, opened, setting, job>>
  PROVE  JobOK'
<1>1. job.kind = "backfill" /\ job.plan # NoPlan => BackfillOK(job.plan)'
  BY SamePlan DEF JobOK
<1> QED BY <1>1 DEF JobOK

\* A command that waits for its next batch.
LEMMA JobWaits ==
  ASSUME opened', DOMAIN job' = {"kind", "cursor", "plan"}, job'.plan = NoPlan
  PROVE  JobOK'
  BY DEF JobOK

-----------------------------------------------------------------------------
(* The collector's writing.                                                    *)

\* Versions are only added, with ids above all others, and are seen.
Grows ==
  /\ versions \subseteq versions' /\ observations \subseteq observations'
  /\ \A v \in versions' \ versions : v.id \in Observed' /\ \A w \in versions : w.id < v.id

LEMMA SeenGrows ==
  ASSUME Grows, NEW v \in versions, Seen(v)
  PROVE  Seen(v)'
  BY DEF Grows, Seen, Observed

LEMMA RunsGrow ==
  ASSUME VersionsOK, VersionsOK', Grows, NEW v \in versions, RunIsSeen(v)
  PROVE  RunIsSeen(v)'
<1>1. PICK s \in versions : Seen(s) /\ SameFrom(s, v)
  BY DEF RunIsSeen
<1>2. Seen(s)' /\ s \in versions'
  BY <1>1, SeenGrows DEF Grows
<1>3. SameFrom(s, v)'
  <2>1. s.obj = v.obj /\ s.id <= v.id
    BY <1>1 DEF SameFrom, History
  <2>2. ASSUME NEW w \in versions', w.obj = v.obj, s.id <= w.id, w.id <= v.id
        PROVE  w.doc = v.doc
    <3>1. w \in versions
      <4> SUFFICES ASSUME w \notin versions PROVE FALSE
        OBVIOUS
      <4>1. v.id < w.id /\ w.id \in Observed'
        BY DEF Grows
      <4>2. v.id \in Nat /\ w.id \in Nat
        BY VersionFacts DEF VersionsOK, Pos
      <4> QED BY <2>2, <4>1, <4>2
    <3> QED BY <1>1, <2>2, <3>1 DEF SameFrom, History
  <2> QED BY <1>2, <2>1, <2>2 DEF SameFrom, History
<1> QED BY <1>2, <1>3 DEF RunIsSeen

LEMMA PlanGrows ==
  ASSUME VersionsOK, VersionsOK', Grows, UNCHANGED setting, NEW plan, BackfillOK(plan)
  PROVE  BackfillOK(plan)'
<1>1. \A v \in versions : v \in versions'
  BY DEF Grows
<1>2. ASSUME NEW id, Given(id)
      PROVE  /\ Given(id)'
             /\ \A v \in versions' : v.id <= id => v \in versions
  <2>1. PICK g \in versions : id <= g.id /\ id \in Pos /\ g.id \in Pos
    BY <1>2, VersionFacts DEF Given
  <2>2. ASSUME NEW v \in versions', v.id <= id, v \notin versions
        PROVE  FALSE
    <3>1. g.id < v.id /\ v.id \in Pos
      BY <2>2, VersionFacts DEF Grows, VersionsOK, Pos
    <3> QED BY <2>1, <2>2, <3>1 DEF Pos
  <2> QED BY <1>1, <2>1, <2>2 DEF Given
<1>3. UpdatesOK(plan)'
  <2>1. ASSUME NEW u \in plan.updates
        PROVE  /\ Given(u.id)'
               /\ \A v \in versions' : v.id = u.id => v.doc = u.doc /\ v.obj \in plan.objects
    <3>1. /\ Given(u.id)
          /\ \A v \in versions : v.id = u.id => v.doc = u.doc /\ v.obj \in plan.objects
      BY DEF BackfillOK, UpdatesOK
    <3>2. u.id <= u.id
      BY <3>1 DEF Given, Pos
    <3> QED BY <1>2, <3>1, <3>2
  <2> QED BY <2>1 DEF UpdatesOK
<1>4. ASSUME NEW p \in plan.prunes
      PROVE  /\ Given(p.id)' /\ p.canonical \in Pos /\ p.canonical < p.id
             /\ \A v \in versions' : v.id = p.id => Replaces(plan, p, v)'
             /\ ~setting.retention => p.canonical \in Ids'
  <2>1. /\ Given(p.id) /\ p.canonical \in Pos /\ p.canonical < p.id
        /\ \A v \in versions : v.id = p.id => Replaces(plan, p, v)
        /\ ~setting.retention => p.canonical \in Ids
    BY DEF BackfillOK, PrunesOK
  <2>2. p.id \in Pos
    BY <2>1 DEF Given
  <2>3. ASSUME NEW v \in versions', v.id = p.id
        PROVE  Replaces(plan, p, v)'
    <3>1. v \in versions /\ \A w \in versions' : w.id <= p.id => w \in versions
      BY <1>2, <2>1, <2>2, <2>3 DEF Pos
    <3>2. Replaces(plan, p, v)
      BY <2>1, <2>3, <3>1
    <3>3. \A c \in versions' : c.id = p.canonical => c \in versions
      BY <2>1, <2>2, <3>1 DEF Pos
    <3> QED BY <2>3, <3>1, <3>2, <3>3 DEF Replaces, History, PrunedIn
  <2>4. Ids \subseteq Ids'
    BY <1>1 DEF Ids
  <2> QED BY <1>2, <2>1, <2>3, <2>4
<1>5. PrunesOK(plan)'
  BY <1>4 DEF BackfillOK, PrunesOK, PrunedIn
<1>6. UnseenGo(plan)'
  <2> SUFFICES ASSUME NEW v \in versions', v.obj \in plan.objects, ~Seen(v)'
               PROVE  v.id \in PrunedIn(plan)
    BY DEF UnseenGo, PrunedIn
  <2>1. v \in versions
    BY DEF Grows, Seen
  <2>2. ~Seen(v)
    BY <2>1, SeenGrows
  <2> QED BY <2>1, <2>2 DEF BackfillOK, UnseenGo
<1> QED BY <1>3, <1>5, <1>6 DEF BackfillOK

LEMMA JobGrows ==
  ASSUME VersionsOK, VersionsOK', Grows, UNCHANGED <<setting, job, opened>>, opened, JobOK
  PROVE  JobOK'
<1>1. job.kind = "backfill" /\ job.plan # NoPlan => BackfillOK(job.plan)'
  BY PlanGrows DEF JobOK
<1> QED BY <1>1 DEF JobOK

LEMMA RunsStaySeen ==
  ASSUME VersionsOK, VersionsOK', Grows, UNCHANGED <<setting, opened>>, RunsAreSeen
  PROVE  RunsAreSeen'
<1>1. ASSUME NEW v \in versions', v \notin versions
      PROVE  Seen(v)' /\ RunIsSeen(v)'
  <2>1. Seen(v)'
    BY <1>1 DEF Grows, Seen
  <2>2. SameFrom(v, v)'
    <3>1. v.id \in Nat /\ \A w \in versions' : w.id \in Nat /\ (w.id = v.id => w = v)
      BY VersionFacts DEF VersionsOK, Pos
    <3> QED BY <3>1 DEF SameFrom, History
  <2> QED BY <2>1, <2>2 DEF RunIsSeen
<1>2. opened' => \A v \in versions' : RunIsSeen(v)'
  BY <1>1, RunsGrow DEF RunsAreSeen
<1>3. setting'.retention => \A v \in versions' : Seen(v)'
  BY <1>1, SeenGrows DEF RunsAreSeen
<1> QED BY <1>2, <1>3 DEF RunsAreSeen

\* The sighting of a version that is the newest of its object.
LEMMA SightingAdded ==
  ASSUME VersionsOK, VersionsOK', SightingsOK, versions \subseteq versions',
         NEW o \in Objects, NEW del \in BOOLEAN, NEW b,
         NEW v \in versions', v.obj = o, \A w \in versions' : w.obj = o => w.id <= v.id,
         b = [obj |-> o, n |-> 1 + Greatest({0} \cup {c.n : c \in Sightings(o)}), del |-> del,
              ver |-> v.id],
         observations' = observations \cup {b}
  PROVE  /\ SightingsOK'
         /\ \A c \in observations : c.obj = o => c.n < b.n
<1> DEFINE S == {c.n : c \in Sightings(o)}
<1>1. S \in SUBSET Nat /\ IsFiniteSet(S)
  <2> DEFINE f == [c \in Sightings(o) |-> c.n]
  <2>1. f \in [Sightings(o) -> Nat] /\ S = {f[c] : c \in Sightings(o)}
    BY SightingFacts DEF Sightings, Pos
  <2>2. IsFiniteSet(Sightings(o))
    BY FS_Subset DEF Sightings, SightingsOK
  <2> HIDE DEF f, S
  <2> QED BY <2>1, <2>2, Numbers
<1>2. b.n \in Pos /\ \A m \in S : b.n > m
  BY <1>1, NextIsAbove DEF Pos
<1>3. \A c \in observations : c.obj = o => c.n \in S
  BY DEF Sightings
<1> HIDE DEF S
<1>4. b.obj = o /\ b.del = del /\ b.ver = v.id /\ b.ver \in Pos
  BY DEF VersionsOK
<1>5. b \in [obj : Objects, n : Pos, del : BOOLEAN, ver : Pos]
  BY <1>2, <1>4
<1>6. \A c \in observations : c.obj = o => c.n < b.n
  BY <1>1, <1>2, <1>3 DEF Pos
<1>7. \A c \in observations : c.obj = o => c.ver <= b.ver
  <2> SUFFICES ASSUME NEW c \in observations, c.obj = o PROVE c.ver <= b.ver
    OBVIOUS
  <2>1. PICK w \in History(c.obj) : w.id = c.ver
    BY DEF SightingsOK
  <2> QED BY <1>4, <2>1 DEF History
<1>8. IsFiniteSet(observations')
  BY FS_AddElement DEF SightingsOK
<1>9. observations' \subseteq [obj : Objects, n : Pos, del : BOOLEAN, ver : Pos]
  BY <1>5 DEF SightingsOK
<1>10. \A c \in observations' : \E w \in History(c.obj)' : w.id = c.ver
  <2>1. \A c \in observations : \E w \in History(c.obj) : w.id = c.ver
    BY DEF SightingsOK
  <2> QED BY <1>4, <2>1 DEF History
<1>11. \A c \in observations' : \A d \in observations' :
         c.obj = d.obj => (c.n = d.n => c = d) /\ (c.n < d.n => c.ver <= d.ver)
  <2> SUFFICES ASSUME NEW c \in observations', NEW d \in observations', c.obj = d.obj
               PROVE  (c.n = d.n => c = d) /\ (c.n < d.n => c.ver <= d.ver)
    OBVIOUS
  <2>1. c.n \in Nat /\ d.n \in Nat /\ c.ver \in Nat /\ d.ver \in Nat
    BY <1>9 DEF Pos
  <2>2. CASE c \in observations /\ d \in observations
    BY <2>2 DEF SightingsOK
  <2>3. CASE c = b /\ d \in observations
    BY <1>4, <1>6, <2>1, <2>3
  <2>4. CASE d = b /\ c \in observations
    BY <1>4, <1>6, <1>7, <2>1, <2>4
  <2>5. CASE c = b /\ d = b
    BY <2>1, <2>5
  <2> QED BY <2>2, <2>3, <2>4, <2>5
<1>12. SightingsOK'
  BY <1>8, <1>9, <1>10, <1>11 DEF SightingsOK
<1> QED BY <1>6, <1>12

\* The version that an observation adds.
NewVersion(o, doc) ==
  [id |-> 1 + Greatest({0} \cup Ids), obj |-> o,
   seq |-> 1 + Greatest({0} \cup {v.seq : v \in History(o)}), doc |-> doc]

LEMMA NewVersionIsLast ==
  ASSUME VersionsOK, NEW o \in Objects, NEW doc \in Docs, NEW v, v = NewVersion(o, doc)
  PROVE  /\ v.id \in Pos /\ v.obj = o /\ v.seq \in Pos /\ v.doc = doc
         /\ v \in [id : Pos, obj : Objects, seq : Pos, doc : Docs]
         /\ \A w \in versions : w.id < v.id
         /\ \A w \in versions : w.obj = o => w.seq < v.seq
<1>1. Ids \in SUBSET Nat /\ IsFiniteSet(Ids)
  <2> DEFINE f == [w \in versions |-> w.id]
  <2>1. f \in [versions -> Nat] /\ Ids = {f[w] : w \in versions}
    BY VersionFacts DEF Ids, Pos
  <2> HIDE DEF f
  <2> QED BY <2>1, Numbers DEF VersionsOK
<1> DEFINE S == {w.seq : w \in History(o)}
<1>2. S \in SUBSET Nat /\ IsFiniteSet(S)
  <2> DEFINE f == [w \in History(o) |-> w.seq]
  <2>1. f \in [History(o) -> Nat] /\ S = {f[w] : w \in History(o)}
    BY VersionFacts DEF History, Pos
  <2>2. IsFiniteSet(History(o))
    BY FS_Subset DEF History, VersionsOK
  <2> HIDE DEF f
  <2> QED BY <2>1, <2>2, Numbers
<1>3. v.id \in Pos /\ \A m \in Ids : v.id > m
  BY <1>1, NextIsAbove DEF NewVersion, Pos
<1>4. v.seq \in Pos /\ \A m \in S : v.seq > m
  BY <1>2, NextIsAbove DEF NewVersion, Pos
<1>5. \A w \in versions : w.id \in Ids /\ (w.obj = o => w.seq \in S)
  BY DEF Ids, History
<1> HIDE DEF S
<1>6. \A w \in versions : w.id < v.id /\ (w.obj = o => w.seq < v.seq)
  BY <1>1, <1>2, <1>3, <1>4, <1>5 DEF Pos
<1>7. v.obj = o /\ v.doc = doc /\ v = [id |-> v.id, obj |-> o, seq |-> v.seq, doc |-> doc]
  BY DEF NewVersion
<1>8. v \in [id : Pos, obj : Objects, seq : Pos, doc : Docs]
  BY <1>3, <1>4, <1>7
<1> QED BY <1>3, <1>4, <1>6, <1>7, <1>8

LEMMA ObserveSame ==
  ASSUME UpkeepInv, NEW o \in Objects, NEW b,
         b = [obj |-> o, n |-> 1 + Greatest({0} \cup {c.n : c \in Sightings(o)}), del |-> FALSE,
              ver |-> latest[o]],
         latest[o] \in Ids, opened, observations' = observations \cup {b},
         UNCHANGED <<versions, latest, index, opened, setting, job>>
  PROVE  UpkeepInv' /\ \A c \in observations : c.obj = o => c.n < b.n
<1>0. VersionsOK /\ PointersOK /\ SightingsOK /\ RunsAreSeen /\ JobOK
  BY DEF UpkeepInv
<1>1. VersionsOK' /\ PointersOK'
  BY <1>0, SameVersions, SamePointers
<1>2. History(o) # {}
  <2>1. latest[o] # 0
    BY <1>0, VersionFacts DEF Ids, Pos
  <2>2. Heads(o, latest[o])
    BY <1>0, <2>1 DEF PointersOK
  <2> QED BY <2>2 DEF Heads
<1>3. PICK v \in History(o) : v.id = latest[o] /\ \A w \in History(o) : w.id <= v.id
  BY <1>0, <1>2, HeadIsLast
<1>4. v \in versions' /\ v.obj = o /\ \A w \in versions' : w.obj = o => w.id <= v.id
  BY <1>3 DEF History
<1>5. b = [obj |-> o, n |-> 1 + Greatest({0} \cup {c.n : c \in Sightings(o)}), del |-> FALSE,
           ver |-> v.id]
  BY <1>3
<1>6. SightingsOK' /\ \A c \in observations : c.obj = o => c.n < b.n
  BY <1>0, <1>1, <1>4, <1>5, SightingAdded
<1>7. Grows
  BY DEF Grows
<1> QED BY <1>0, <1>1, <1>6, <1>7, JobGrows, RunsStaySeen DEF UpkeepInv

LEMMA ObserveNew ==
  ASSUME UpkeepInv, NEW o \in Objects, NEW doc \in Docs, NEW del \in BOOLEAN, NEW b, NEW ver,
         ver = NewVersion(o, doc),
         b = [obj |-> o, n |-> 1 + Greatest({0} \cup {c.n : c \in Sightings(o)}), del |-> del,
              ver |-> ver.id],
         opened, versions' = versions \cup {ver}, observations' = observations \cup {b},
         latest' = [latest EXCEPT ![o] = ver.id], index' = [index EXCEPT ![o] = ver.id],
         UNCHANGED <<opened, setting, job>>
  PROVE  UpkeepInv' /\ \A c \in observations : c.obj = o => c.n < b.n
<1>0. VersionsOK /\ PointersOK /\ SightingsOK /\ RunsAreSeen /\ JobOK
  BY DEF UpkeepInv
<1>1. /\ ver.id \in Pos /\ ver.obj = o /\ ver.seq \in Pos /\ ver.doc = doc
      /\ ver \in [id : Pos, obj : Objects, seq : Pos, doc : Docs]
      /\ \A w \in versions : w.id < ver.id
      /\ \A w \in versions : w.obj = o => w.seq < ver.seq
  BY <1>0, NewVersionIsLast
<1>2. VersionsOK'
  <2>1. IsFiniteSet(versions')
    BY <1>0, FS_AddElement DEF VersionsOK
  <2>2. versions' \subseteq [id : Pos, obj : Objects, seq : Pos, doc : Docs]
    BY <1>0, <1>1 DEF VersionsOK
  <2>3. \A v \in versions' : v.id \in Nat /\ v.seq \in Nat
    BY <2>2 DEF Pos
  <2>4. ASSUME NEW v \in versions', NEW w \in versions'
        PROVE  (v.id = w.id => v = w) /\ (v.obj = w.obj => (v.seq < w.seq <=> v.id < w.id))
    <3>1. CASE v \in versions /\ w \in versions
      BY <1>0, <3>1 DEF VersionsOK
    <3>2. CASE v = ver /\ w \in versions
      BY <1>1, <2>3, <3>2
    <3>3. CASE v \in versions /\ w = ver
      BY <1>1, <2>3, <3>3
    <3>4. CASE v = ver /\ w = ver
      BY <2>3, <3>4
    <3> QED BY <3>1, <3>2, <3>3, <3>4
  <2> QED BY <2>1, <2>2, <2>4 DEF VersionsOK
<1>3. PointersOK'
  <2>1. DOMAIN latest' = Objects /\ index' = latest' /\ latest'[o] = ver.id
    BY <1>0 DEF PointersOK
  <2>2. ASSUME NEW p \in Objects, p # o
        PROVE  /\ latest'[p] \in Nat
               /\ latest'[p] = 0 => History(p)' = {}
               /\ latest'[p] # 0 => Heads(p, latest[p])'
    <3>1. latest'[p] = latest[p] /\ History(p)' = History(p)
      BY <1>0, <1>1, <2>2 DEF PointersOK, History
    <3>2. Heads(p, latest[p])' <=> Heads(p, latest[p])
      BY <3>1 DEF Heads
    <3> QED BY <1>0, <3>1, <3>2 DEF PointersOK
  <2>3. Heads(o, latest[o])' /\ latest'[o] \in Nat /\ latest'[o] # 0
    <3>1. ver \in History(o)' /\ \A w \in History(o)' : w.seq <= ver.seq
      <4> SUFFICES ASSUME NEW w \in versions', w.obj = o PROVE w.seq <= ver.seq
        BY <1>1 DEF History
      <4> QED BY <1>0, <1>1, VersionFacts DEF Pos
    <3> QED BY <1>1, <2>1, <3>1 DEF Heads, Pos
  <2> QED BY <2>1, <2>2, <2>3 DEF PointersOK
<1>4. /\ ver \in versions' /\ versions \subseteq versions'
      /\ \A w \in versions' : w.obj = o => w.id <= ver.id
  BY <1>0, <1>1, VersionFacts DEF Pos
<1>5. SightingsOK' /\ \A c \in observations : c.obj = o => c.n < b.n
  <2>1. ver.obj = o
    BY <1>1
  <2> QED BY ONLY <1>0, <1>2, <1>4, <2>1, SightingAdded, observations' = observations \cup {b},
                  o \in Objects, del \in BOOLEAN,
                  b = [obj |-> o, n |-> 1 + Greatest({0} \cup {c.n : c \in Sightings(o)}),
                       del |-> del, ver |-> ver.id]
<1>6. Grows
  BY <1>1 DEF Grows, Observed
<1> QED BY <1>0, <1>2, <1>3, <1>5, <1>6, JobGrows, RunsStaySeen DEF UpkeepInv

LEMMA ObserveUpkeep ==
  ASSUME UpkeepInv, NEW o \in Objects, NEW doc \in Docs, NEW del \in BOOLEAN, Observe(o, doc, del)
  PROVE  UpkeepInv'
<1>1. CASE ~del /\ latest[o] \in Ids /\ DocOf(latest[o]) = doc
  BY <1>1, ObserveSame DEF Observe
<1>2. CASE ~(~del /\ latest[o] \in Ids /\ DocOf(latest[o]) = doc)
  <2> DEFINE ver == NewVersion(o, doc)
             b == [obj |-> o, n |-> 1 + Greatest({0} \cup {c.n : c \in Sightings(o)}),
                   del |-> del, ver |-> ver.id]
  <2>1. /\ opened /\ versions' = versions \cup {ver} /\ observations' = observations \cup {b}
        /\ latest' = [latest EXCEPT ![o] = ver.id] /\ index' = [index EXCEPT ![o] = ver.id]
        /\ UNCHANGED <<opened, setting, job>>
    BY <1>2 DEF Observe, NewVersion
  <2> HIDE DEF ver
  <2>2. ver = NewVersion(o, doc)
    BY DEF ver
  <2> QED BY <2>1, <2>2, ObserveNew
<1> QED BY <1>1, <1>2

-----------------------------------------------------------------------------
(* Retention.                                                                  *)

\* A version that is seen is a run of its own.
LEMMA SeenIsRun ==
  ASSUME VersionsOK, NEW v \in versions, Seen(v)
  PROVE  RunIsSeen(v)
<1>1. v.id \in Nat /\ \A w \in versions : w.id \in Nat /\ (w.id = v.id => w = v)
  BY VersionFacts DEF VersionsOK, Pos
<1>2. SameFrom(v, v)
  BY <1>1 DEF SameFrom, History
<1> QED BY <1>2 DEF RunIsSeen

\* The versions of some ids go, with what saw them.
Forgets(gone) ==
  /\ versions' = {v \in versions : v.id \notin gone}
  /\ observations' = {b \in observations : b.ver \notin gone}

LEMMA PlanShrinks ==
  ASSUME VersionsOK, PointersOK, NEW gone, Forgets(gone), setting.retention, UNCHANGED setting,
         \A v \in versions : Seen(v), \A o \in Objects : latest[o] \notin gone,
         NEW plan, BackfillOK(plan)
  PROVE  BackfillOK(plan)'
<1>1. versions' \subseteq versions
  BY DEF Forgets
<1>2. \A v \in versions' : Seen(v)'
  BY DEF Forgets, Seen, Observed
<1>3. ASSUME NEW id, Given(id)
      PROVE  Given(id)'
  <2>1. PICK v \in versions : id <= v.id /\ id \in Pos
    BY <1>3 DEF Given
  <2>2. PICK g \in versions : g.id = latest[g.obj] /\ \A w \in versions : w.id <= g.id
    BY <2>1, LastOfAll
  <2>3. g \in versions' /\ v.id <= g.id /\ g.id \in Pos /\ v.id \in Pos
    BY <2>1, <2>2, VersionFacts DEF Forgets
  <2> QED BY <2>1, <2>3 DEF Given, Pos
<1>4. UpdatesOK(plan)'
  BY <1>1, <1>3 DEF BackfillOK, UpdatesOK
<1>5. \A p \in plan.prunes : Given(p.id)' /\ p.canonical \in Pos /\ p.canonical < p.id
  BY <1>3 DEF BackfillOK, PrunesOK
<1>6. ASSUME NEW p \in plan.prunes, NEW v \in versions', v.id = p.id
      PROVE  Replaces(plan, p, v)'
  <2>1. Replaces(plan, p, v)
    BY <1>1, <1>6 DEF BackfillOK, PrunesOK
  <2> QED BY <1>1, <2>1 DEF Replaces, History, PrunedIn
<1>7. PrunesOK(plan)'
  BY <1>5, <1>6 DEF BackfillOK, PrunesOK, PrunedIn
<1>8. UnseenGo(plan)'
  BY <1>2 DEF UnseenGo
<1> QED BY <1>4, <1>7, <1>8 DEF BackfillOK

LEMMA Forgetting ==
  ASSUME UpkeepInv, NEW gone, Forgets(gone), opened, setting.retention,
         \A o \in Objects : latest[o] \notin gone,
         UNCHANGED <<latest, index, opened, setting, job>>
  PROVE  UpkeepInv'
<1>0. VersionsOK /\ PointersOK /\ SightingsOK /\ RunsAreSeen /\ JobOK
  BY DEF UpkeepInv
<1>1. versions' \subseteq versions
  BY DEF Forgets
<1>2. VersionsOK'
  <2>1. IsFiniteSet(versions')
    BY <1>0, <1>1, FS_Subset DEF VersionsOK
  <2> QED BY <1>0, <1>1, <2>1 DEF VersionsOK
<1>3. PointersOK'
  <2>1. ASSUME NEW o \in Objects, latest[o] # 0
        PROVE  Heads(o, latest[o])'
    <3>1. PICK v \in History(o) : v.id = latest[o] /\ \A w \in History(o) : w.seq <= v.seq
      BY <1>0, <2>1 DEF PointersOK, Heads
    <3>2. v \in History(o)' /\ \A w \in History(o)' : w \in History(o)
      BY <1>1, <3>1 DEF Forgets, History
    <3> QED BY <3>1, <3>2 DEF Heads
  <2>2. \A o \in Objects : History(o) = {} => History(o)' = {}
    BY <1>1 DEF History
  <2> QED BY <1>0, <2>1, <2>2 DEF PointersOK
<1>4. SightingsOK'
  <2>1. observations' \subseteq observations
    BY DEF Forgets
  <2>2. IsFiniteSet(observations')
    BY <1>0, <2>1, FS_Subset DEF SightingsOK
  <2>3. \A b \in observations' : \E v \in History(b.obj)' : v.id = b.ver
    BY <1>0 DEF SightingsOK, Forgets, History
  <2> QED BY <1>0, <2>1, <2>2, <2>3 DEF SightingsOK
<1>5. \A v \in versions : Seen(v)
  BY <1>0 DEF RunsAreSeen
<1>6. \A v \in versions' : Seen(v)'
  BY <1>5 DEF Forgets, Seen, Observed
<1>7. \A v \in versions' : RunIsSeen(v)'
  <2> SUFFICES ASSUME NEW v \in versions' PROVE RunIsSeen(v)'
    OBVIOUS
  <2>1. v.id \in Nat /\ \A w \in versions' : w.id \in Nat /\ (w.id = v.id => w = v)
    BY <1>2 DEF VersionsOK, Pos
  <2>2. SameFrom(v, v)'
    BY <2>1 DEF SameFrom, History
  <2> QED BY <1>6, <2>2 DEF RunIsSeen
<1>8. JobOK'
  <2>1. job.kind = "backfill" /\ job.plan # NoPlan => BackfillOK(job.plan)'
    BY <1>0, <1>5, PlanShrinks DEF JobOK
  <2> QED BY <1>0, <2>1 DEF JobOK
<1> QED BY <1>2, <1>3, <1>4, <1>6, <1>7, <1>8 DEF UpkeepInv, RunsAreSeen

LEMMA RetentionUpkeep ==
  ASSUME UpkeepInv, NEW o \in Objects, NEW below, ApplyRetention(o, below)
  PROVE  UpkeepInv'
<1> DEFINE gone == {v.id : v \in {w \in History(o) : w.seq < below}}
                     \ ({latest[p] : p \in Objects} \cup {index[p] : p \in Objects})
<1>1. /\ opened /\ setting.retention /\ UNCHANGED <<latest, index, opened, setting, job>>
      /\ versions' = {v \in versions : v.id \notin gone}
      /\ observations' = {b \in observations : b.ver \notin gone}
  BY DEF ApplyRetention
<1>2. \A p \in Objects : latest[p] \notin gone
  OBVIOUS
<1> HIDE DEF gone
<1> QED BY <1>1, <1>2, Forgetting DEF Forgets

-----------------------------------------------------------------------------
(* The migrations.                                                             *)

LEMMA BeforeIs ==
  ASSUME VersionsOK, NEW v \in versions
  PROVE  Before(v) = {w \in versions : w.obj = v.obj /\ w.id < v.id}
<1>1. \A w \in versions : w.obj = v.obj => (w.seq < v.seq <=> w.id < v.id)
  BY VersionFacts
<1> QED BY <1>1 DEF Before, History

\* Where a run starts: as far back as the documents are equal, and no farther.
Starts(c, v) ==
  /\ SameFrom(c, v)
  /\ \A w \in History(v.obj) : w.id < c.id =>
       \E b \in History(v.obj) : w.id <= b.id /\ b.id < c.id /\ b.doc # v.doc

LEMMA RunStartStarts ==
  ASSUME VersionsOK, NEW v \in versions
  PROVE  RunStart(v) \in versions /\ Starts(RunStart(v), v)
<1> DEFINE B == Before(v) \cup {v}
           S == {c \in B : \A w \in B : w.seq >= c.seq => w.doc = v.doc}
<1>1. \A w \in versions : w \in B <=> w.obj = v.obj /\ w.id <= v.id
  <2>1. \A w \in versions : w.id \in Nat /\ v.id \in Nat /\ (w.id = v.id => w = v)
    BY VersionFacts DEF Pos
  <2> QED BY <2>1, BeforeIs
<1>2. B \subseteq versions
  BY BeforeIs
<1>3. v \in S
  <2> SUFFICES ASSUME NEW w \in B, w.seq >= v.seq PROVE w.doc = v.doc
    OBVIOUS
  <2>1. w \in versions /\ w.obj = v.obj /\ w.id <= v.id
    BY <1>1, <1>2
  <2>2. v.id <= w.id
    BY <2>1, VersionFacts DEF Pos
  <2> QED BY <2>1, <2>2, VersionFacts DEF Pos
<1>4. PICK c \in S : \A x \in S : c.id <= x.id
  BY <1>2, <1>3, FirstVersion
<1>5. c \in versions /\ c \in B /\ c.obj = v.obj /\ c.id <= v.id
  BY <1>1, <1>2, <1>4
<1>6. ASSUME NEW w \in Before(c)
      PROVE  \E b \in Before(c) : b.seq >= w.seq /\ b.doc # v.doc
  <2>1. w \in versions /\ w.obj = v.obj /\ w.id < c.id /\ w \in B
    BY <1>1, <1>5, BeforeIs, VersionFacts DEF Pos
  <2> SUFFICES ASSUME \A b \in Before(c) : b.seq >= w.seq => b.doc = v.doc
               PROVE  FALSE
    OBVIOUS
  <2>2. ASSUME NEW x \in B, x.seq >= w.seq
        PROVE  x.doc = v.doc
    <3>1. x \in versions /\ x.obj = v.obj
      BY <1>1, <1>2
    <3>2. CASE x.id < c.id
      BY <1>5, <2>2, <3>1, <3>2, BeforeIs
    <3>3. CASE ~(x.id < c.id)
      <4>1. x.seq >= c.seq
        BY <1>5, <3>1, <3>3, VersionFacts DEF Pos
      <4> QED BY <1>4, <4>1
    <3> QED BY <3>2, <3>3
  <2>3. w \in S
    BY <2>1, <2>2
  <2>4. c.id <= w.id /\ c.id \in Nat /\ w.id \in Nat
    BY <1>4, <1>5, <2>1, <2>3, VersionFacts DEF Pos
  <2> QED BY <2>1, <2>4
<1> DEFINE R == RunStart(v)
<1>7. /\ R \in B /\ \A w \in B : w.seq >= R.seq => w.doc = v.doc
      /\ \A w \in Before(R) : \E b \in Before(R) : b.seq >= w.seq /\ b.doc # v.doc
  BY <1>4, <1>5, <1>6 DEF RunStart
<1> HIDE DEF R
<1>8. R \in versions /\ R.obj = v.obj /\ R.id <= v.id
  BY <1>1, <1>2, <1>7
<1>9. SameFrom(R, v)
  <2> SUFFICES ASSUME NEW w \in versions, w.obj = v.obj, R.id <= w.id, w.id <= v.id
               PROVE  w.doc = v.doc
    BY <1>8 DEF SameFrom, History
  <2>1. w \in B /\ w.seq >= R.seq
    BY <1>1, <1>8, VersionFacts DEF Pos
  <2> QED BY <1>7, <2>1
<1>10. ASSUME NEW w \in versions, w.obj = v.obj, w.id < R.id
       PROVE  \E b \in History(v.obj) : w.id <= b.id /\ b.id < R.id /\ b.doc # v.doc
  <2>1. w \in Before(R)
    BY <1>8, <1>10, BeforeIs
  <2>2. PICK b \in Before(R) : b.seq >= w.seq /\ b.doc # v.doc
    BY <1>7, <2>1
  <2>3. b \in versions /\ b.obj = v.obj /\ b.id < R.id
    BY <1>8, <2>2, BeforeIs
  <2>4. w.id <= b.id
    BY <1>10, <2>2, <2>3, VersionFacts DEF Pos
  <2> QED BY <2>2, <2>3, <2>4 DEF History
<1> QED BY <1>8, <1>9, <1>10 DEF Starts, History, R

\* Later versions belong to the same run or to a later one.
LEMMA StartsInOrder ==
  ASSUME VersionsOK, NEW v \in versions, NEW w \in versions, v.obj = w.obj, v.id <= w.id,
         NEW c \in versions, Starts(c, v), NEW d \in versions, Starts(d, w)
  PROVE  c.id <= d.id
<1> SUFFICES ASSUME d.id < c.id PROVE FALSE
  BY VersionFacts DEF Pos
<1>1. d \in History(v.obj) /\ c.id <= v.id
  BY DEF Starts, SameFrom, History
<1>2. PICK b \in History(v.obj) : d.id <= b.id /\ b.id < c.id /\ b.doc # v.doc
  BY <1>1 DEF Starts
<1>3. b \in versions /\ b.obj = w.obj /\ b.id \in Nat /\ v.id \in Nat /\ w.id \in Nat
      /\ d.id \in Nat /\ c.id \in Nat
  BY <1>2, VersionFacts DEF History, Pos
<1>4. \A x \in versions : x.obj = w.obj /\ d.id <= x.id /\ x.id <= w.id => x.doc = w.doc
  BY DEF Starts, SameFrom, History
<1>5. b.id <= w.id /\ d.id <= v.id
  BY <1>1, <1>2, <1>3
<1>6. b.doc = w.doc /\ v.doc = w.doc
  BY <1>2, <1>3, <1>4, <1>5
<1> QED BY <1>2, <1>6

LEMMA MadeSightings ==
  ASSUME VersionsOK, UNCHANGED versions, observations' = Made
  PROVE  SightingsOK' /\ \A v \in versions : RunIsSeen(v)'
<1> DEFINE B(v) == [obj |-> v.obj, n |-> v.seq, del |-> FALSE, ver |-> RunStart(v).id]
<1>1. observations' = {B(v) : v \in versions}
  BY DEF Made
<1>2. \A v \in versions : RunStart(v) \in versions /\ Starts(RunStart(v), v)
  BY RunStartStarts
<1>3. \A v \in versions : RunStart(v).obj = v.obj /\ RunStart(v).id \in Pos
  BY <1>2, VersionFacts DEF Starts, SameFrom, History
<1>4. IsFiniteSet(observations')
  <2> DEFINE f == [v \in versions |-> B(v)]
  <2>1. Range(f) = observations' /\ f \in [versions -> Range(f)]
    BY <1>1 DEF Range
  <2> HIDE DEF f
  <2> QED BY <2>1, ImageFinite DEF VersionsOK
<1>5. observations' \subseteq [obj : Objects, n : Pos, del : BOOLEAN, ver : Pos]
  <2>1. \A v \in versions : v.obj \in Objects /\ v.seq \in Pos /\ RunStart(v).id \in Pos
    BY <1>3, VersionFacts
  <2>2. \A v \in versions : B(v) \in [obj : Objects, n : Pos, del : BOOLEAN, ver : Pos]
    BY <2>1
  <2> HIDE DEF B
  <2> QED BY <1>1, <2>2
<1>6. \A b \in observations' : \E v \in History(b.obj)' : v.id = b.ver
  BY <1>1, <1>2, <1>3 DEF History
<1>7. ASSUME NEW b \in observations', NEW c \in observations', b.obj = c.obj
      PROVE  (b.n = c.n => b = c) /\ (b.n < c.n => b.ver <= c.ver)
  <2>1. PICK v \in versions : b = B(v)
    BY <1>1
  <2>2. PICK w \in versions : c = B(w)
    BY <1>1
  <2>3. v.obj = w.obj /\ b.n = v.seq /\ c.n = w.seq /\ b.ver = RunStart(v).id /\ c.ver = RunStart(w).id
    BY <1>7, <2>1, <2>2
  <2>4. b.n = c.n => b = c
    <3> SUFFICES ASSUME v.seq = w.seq PROVE v = w
      BY <2>1, <2>2, <2>3
    <3>1. v.seq \in Nat /\ v.id \in Nat /\ w.id \in Nat
      BY VersionFacts DEF Pos
    <3>2. v.id <= w.id /\ w.id <= v.id
      BY <2>3, <3>1, VersionFacts
    <3> QED BY <3>1, <3>2, VersionFacts
  <2>5. b.n < c.n => b.ver <= c.ver
    <3> SUFFICES ASSUME v.seq < w.seq PROVE RunStart(v).id <= RunStart(w).id
      BY <2>3
    <3>1. v.id <= w.id
      BY <2>3, VersionFacts DEF Pos
    <3> QED BY <1>2, <2>3, <3>1, StartsInOrder
  <2> QED BY <2>4, <2>5
<1>8. SightingsOK'
  BY <1>4, <1>5, <1>6, <1>7 DEF SightingsOK
<1>9. ASSUME NEW v \in versions
      PROVE  RunIsSeen(v)'
  <2>1. PICK s \in versions : s = RunStart(v) /\ Starts(s, v)
    BY <1>2
  <2>2. s.id \in Observed'
    <3>1. B(v) \in observations' /\ B(v).ver = s.id
      BY <1>1, <2>1
    <3> HIDE DEF B
    <3> QED BY <3>1 DEF Observed
  <2>3. SameFrom(s, v)'
    BY <2>1 DEF Starts, SameFrom, History
  <2> QED BY <2>1, <2>2, <2>3 DEF RunIsSeen, Seen
<1> QED BY <1>8, <1>9

LEMMA OpenUpkeep ==
  ASSUME UpkeepInv, Open
  PROVE  UpkeepInv'
<1>0. VersionsOK /\ PointersOK /\ SightingsOK /\ RunsAreSeen /\ JobOK
  BY DEF UpkeepInv
<1>1. CASE observations # {}
  <2>1. opened
    BY <1>0, <1>1 DEF JobOK
  <2>2. UNCHANGED <<versions, observations, latest, index, opened, setting, job>>
    BY <1>1, <2>1 DEF Open
  <2> QED BY <1>0, <2>2, SameJob, SameTables
<1>2. CASE opened /\ observations = {}
  <2>1. versions = {}
    BY <1>0, <1>2 DEF RunsAreSeen, RunIsSeen, Seen, Observed
  <2>2. UNCHANGED <<versions, observations, latest, index, opened, setting, job>>
    BY <1>2, <2>1 DEF Open, Made
  <2> QED BY <1>0, <2>2, SameJob, SameTables
<1>3. CASE ~opened
  <2>1. job = Idle /\ observations = {}
    BY <1>0, <1>3 DEF JobOK
  <2>2. observations' = Made /\ opened' /\ UNCHANGED <<versions, latest, index, setting, job>>
    BY <2>1 DEF Open
  <2>3. VersionsOK' /\ PointersOK'
    BY <1>0, <2>2, SameVersions, SamePointers
  <2>4. SightingsOK' /\ \A v \in versions : RunIsSeen(v)'
    BY <1>0, <2>2, MadeSightings
  <2>5. setting.retention => versions = {}
    BY <1>0, <2>1 DEF RunsAreSeen, Seen, Observed
  <2>6. RunsAreSeen'
    BY <2>2, <2>4, <2>5 DEF RunsAreSeen
  <2>7. JobOK'
    BY <2>1, <2>2 DEF JobOK, Idle
  <2> QED BY <2>3, <2>4, <2>6, <2>7 DEF UpkeepInv
<1> QED BY <1>1, <1>2, <1>3

-----------------------------------------------------------------------------
(* The plan of a backfill.                                                     *)

LEMMA NotDiffers ==
  ASSUME VersionsOK, NEW v \in versions, ~Differs(v)
  PROVE  \E w \in Before(v) : (\A x \in Before(v) : x.id <= w.id) /\ Normal[w.doc] = Normal[v.doc]
<1>1. Before(v) # {} /\ Before(v) \subseteq versions
  BY BeforeIs DEF Differs
<1>2. PICK w \in Before(v) : \A x \in Before(v) : x.id <= w.id
  BY <1>1, LastVersion
<1>3. \A x \in Before(v) : x.seq <= w.seq
  BY <1>1, <1>2, BeforeIs, VersionFacts
<1> QED BY <1>2, <1>3 DEF Differs

\* What repeats the version before it does not differ.
LEMMA RepeatIsNoChange ==
  ASSUME VersionsOK, NEW v \in versions, NEW s \in versions, SameFrom(s, v), s # v
  PROVE  ~Differs(v)
<1>1. s \in Before(v)
  <2>1. s.obj = v.obj /\ s.id <= v.id /\ s.id # v.id
    BY VersionFacts DEF SameFrom, History
  <2>2. s.id < v.id
    BY <2>1, VersionFacts DEF Pos
  <2> QED BY <2>1, <2>2, BeforeIs
<1> SUFFICES ASSUME NEW w \in Before(v), \A x \in Before(v) : x.seq <= w.seq,
                    Normal[w.doc] # Normal[v.doc]
             PROVE  FALSE
  BY <1>1 DEF Differs
<1>2. w \in versions /\ w.obj = v.obj /\ w.id < v.id /\ s.seq <= w.seq /\ s.obj = w.obj
  BY <1>1, BeforeIs
<1>3. s.id <= w.id /\ w.id <= v.id
  BY <1>2, VersionFacts DEF Pos
<1>4. w.doc = v.doc
  BY <1>2, <1>3 DEF SameFrom, History
<1> QED BY <1>4

\* The version that a pruned one is moved to.
Keeps(c, v) ==
  /\ c \in versions /\ c.obj = v.obj /\ c.id < v.id /\ Differs(c)
  /\ \A w \in versions : w.obj = v.obj /\ c.id < w.id /\ w.id <= v.id => ~Differs(w)
  /\ Normal[c.doc] = Normal[v.doc]

LEMMA LastKeptKeeps ==
  ASSUME VersionsOK, NEW v \in versions, ~Differs(v)
  PROVE  Keeps(LastKept(v), v)
<1> DEFINE K == {w \in Before(v) : Differs(w)}
<1>1. Before(v) # {} /\ Before(v) \subseteq versions
  BY NotDiffers, BeforeIs
<1>2. PICK f \in Before(v) : \A w \in Before(v) : f.id <= w.id
  BY <1>1, FirstVersion
<1>3. f \in K
  <2>1. f \in versions /\ f.obj = v.obj /\ f.id < v.id
    BY <1>2, BeforeIs
  <2>2. ASSUME NEW w \in Before(f) PROVE FALSE
    <3>1. w \in versions /\ w.obj = v.obj /\ w.id < f.id /\ w.id \in Nat /\ f.id \in Nat /\ v.id \in Nat
      BY <2>1, BeforeIs, VersionFacts DEF Pos
    <3>2. w \in Before(v)
      BY <2>1, <3>1, BeforeIs
    <3> QED BY <1>2, <3>1, <3>2
  <2>3. Before(f) = {}
    BY <2>2
  <2> QED BY <2>3 DEF Differs
<1>4. K \subseteq versions
  BY <1>1
<1>5. PICK k \in K : \A w \in K : w.id <= k.id
  BY <1>3, <1>4, LastVersion
<1>6. \A w \in K : w.seq <= k.seq
  BY <1>4, <1>5, BeforeIs, VersionFacts
<1>7. k \in Before(v) /\ Differs(k) /\ \A x \in Before(v) : Differs(x) => x.seq <= k.seq
  BY <1>5, <1>6
<1> DEFINE c == LastKept(v)
<1>8. c \in Before(v) /\ Differs(c) /\ \A x \in Before(v) : Differs(x) => x.seq <= c.seq
  BY <1>7 DEF LastKept
<1> HIDE DEF c, K
<1>9. c \in versions /\ c.obj = v.obj /\ c.id < v.id
  BY <1>8, BeforeIs
<1>10. ASSUME NEW w \in versions, w.obj = v.obj, c.id < w.id, w.id <= v.id
       PROVE  ~Differs(w)
  <2>1. CASE w = v
    BY <2>1
  <2>2. CASE w # v
    <3>1. w.id < v.id
      BY <1>10, <2>2, VersionFacts DEF Pos
    <3>2. w \in Before(v)
      BY <1>10, <3>1, BeforeIs
    <3>3. ~(w.seq <= c.seq)
      BY <1>9, <1>10, VersionFacts DEF Pos
    <3> QED BY <1>8, <3>2, <3>3
  <2> QED BY <2>1, <2>2
<1>11. Normal[c.doc] = Normal[v.doc]
  <2> DEFINE X == {x \in versions : x.obj = v.obj /\ c.id <= x.id /\ x.id <= v.id
                                      /\ Normal[x.doc] # Normal[c.doc]}
  <2> SUFFICES ASSUME X # {} PROVE FALSE
    <3>1. v.id \in Nat /\ c.id \in Nat
      BY <1>9, VersionFacts DEF Pos
    <3>2. c.id <= v.id /\ v.id <= v.id
      BY <1>9, <3>1
    <3> QED BY <3>2
  <2>1. PICK x \in X : \A y \in X : x.id <= y.id
    BY FirstVersion
  <2>2. x \in versions /\ x.obj = v.obj /\ c.id < x.id /\ x.id <= v.id
    <3>1. x # c
      BY <2>1
    <3>2. x.id # c.id
      BY <1>9, <2>1, <3>1, VersionFacts
    <3> QED BY <1>9, <2>1, <3>2, VersionFacts DEF Pos
  <2>3. ~Differs(x)
    BY <1>10, <2>2
  <2>4. PICK w \in Before(x) : (\A y \in Before(x) : y.id <= w.id) /\ Normal[w.doc] = Normal[x.doc]
    BY <2>2, <2>3, NotDiffers
  <2>5. w \in versions /\ w.obj = v.obj /\ w.id < x.id
    BY <2>2, <2>4, BeforeIs
  <2>6. c \in Before(x)
    BY <1>9, <2>2, BeforeIs
  <2>7. c.id <= w.id
    BY <2>4, <2>6
  <2>8. w.id <= v.id /\ ~(x.id <= w.id)
    BY <2>2, <2>5, VersionFacts DEF Pos
  <2>9. w \in X
    BY <2>1, <2>4, <2>5, <2>7, <2>8
  <2> QED BY <2>1, <2>8, <2>9
<1> QED BY <1>8, <1>9, <1>10, <1>11 DEF Keeps, c

\* The plan that is made now.
PlanOf(objects) ==
  LET scanned == {v \in versions : v.obj \in objects}
  IN  [objects |-> objects,
       updates |-> {v \in scanned : Differs(v) /\ Normal[v.doc] # v.doc},
       prunes  |-> {[id |-> v.id, canonical |-> Canonical(v), doc |-> v.doc]
                      : v \in {w \in scanned : ~Differs(w)}}]

LEMMA PlanIsRight ==
  ASSUME VersionsOK, RunsAreSeen, opened, NEW objects, NEW plan, plan = PlanOf(objects)
  PROVE  BackfillOK(plan)
<1> DEFINE Out == {v \in versions : v.obj \in objects /\ ~Differs(v)}
           P(v) == [id |-> v.id, canonical |-> Canonical(v), doc |-> v.doc]
<1>1. /\ DOMAIN plan = {"objects", "updates", "prunes"} /\ plan.objects = objects
      /\ plan.updates = {v \in versions : v.obj \in objects /\ Differs(v) /\ Normal[v.doc] # v.doc}
      /\ plan.prunes = {P(v) : v \in Out}
  BY DEF PlanOf
<1>2. \A v \in versions : Given(v.id)
  <2> SUFFICES ASSUME NEW v \in versions PROVE Given(v.id)
    OBVIOUS
  <2>1. v.id \in Pos /\ v.id <= v.id
    BY VersionFacts DEF Pos
  <2> QED BY <2>1 DEF Given
<1>3. \A v \in versions : \A w \in versions : v.id = w.id => v = w
  BY VersionFacts
<1>4. \A v \in versions : v.id \in PrunedIn(plan) <=> v \in Out
  <2>1. PrunedIn(plan) = {v.id : v \in Out}
    <3>1. \A v : P(v).id = v.id
      OBVIOUS
    <3> HIDE DEF P, Out
    <3> QED BY <1>1, <3>1 DEF PrunedIn
  <2> QED BY <1>3, <2>1
<1>5. ASSUME NEW v \in Out
      PROVE  \E c \in versions : P(v).canonical = c.id /\ Keeps(c, v)
  BY LastKeptKeeps DEF Keeps, Canonical
<1>6. UpdatesOK(plan)
  BY <1>1, <1>2, <1>3 DEF UpdatesOK
<1>7. ASSUME NEW p \in plan.prunes
      PROVE  /\ Given(p.id) /\ p.canonical \in Pos /\ p.canonical < p.id
             /\ \A q \in plan.prunes : p.id = q.id => p = q
             /\ p.canonical \notin PrunedIn(plan) /\ p.canonical \in Ids
             /\ \A v \in versions : v.id = p.id => Replaces(plan, p, v)
  <2>1. PICK v \in Out : p = P(v)
    BY <1>1
  <2>2. p.id = v.id /\ p.doc = v.doc /\ v \in versions /\ v.obj \in objects
    BY <2>1
  <2>3. PICK c \in versions : p.canonical = c.id /\ Keeps(c, v)
    BY <1>5, <2>1
  <2>4. c.obj = v.obj /\ c.id < v.id /\ Differs(c) /\ Normal[c.doc] = Normal[v.doc]
    BY <2>3 DEF Keeps
  <2>5. \A q \in plan.prunes : p.id = q.id => p = q
    <3> SUFFICES ASSUME NEW q \in plan.prunes, p.id = q.id PROVE p = q
      OBVIOUS
    <3>1. PICK w \in Out : q = P(w)
      BY <1>1
    <3>2. w \in versions /\ w.id = v.id
      BY <2>2, <3>1
    <3> QED BY <1>3, <2>1, <2>2, <3>1, <3>2
  <2>6. Replaces(plan, p, v)
    <3>1. ASSUME NEW w \in versions, w.obj = v.obj, c.id < w.id, w.id <= v.id
          PROVE  w.id \in PrunedIn(plan)
      <4>1. ~Differs(w)
        BY <2>3, <3>1 DEF Keeps
      <4> QED BY <1>4, <2>2, <3>1, <4>1
    <3>2. \A d \in versions : d.id = p.canonical => d = c
      BY <1>3, <2>3
    <3> QED BY <1>1, <2>2, <2>3, <2>4, <3>1, <3>2 DEF Replaces, History
  <2>7. c \notin Out
    BY <2>4
  <2> QED BY <1>2, <1>3, <1>4, <2>2, <2>3, <2>4, <2>5, <2>6, <2>7, VersionFacts DEF Ids
<1>8. PrunesOK(plan)
  BY <1>7 DEF PrunesOK
<1>9. UnseenGo(plan)
  <2> SUFFICES ASSUME NEW v \in versions, v.obj \in objects, ~Seen(v)
               PROVE  v.id \in PrunedIn(plan)
    BY <1>1 DEF UnseenGo
  <2>1. PICK s \in versions : Seen(s) /\ SameFrom(s, v)
    BY DEF RunsAreSeen, RunIsSeen
  <2>2. ~Differs(v)
    BY <2>1, RepeatIsNoChange
  <2> QED BY <1>4, <2>2
<1> QED BY <1>1, <1>6, <1>8, <1>9 DEF BackfillOK

LEMMA PlanBackfillUpkeep ==
  ASSUME UpkeepInv, PlanBackfill
  PROVE  UpkeepInv'
<1>0. VersionsOK /\ RunsAreSeen /\ JobOK /\ job.kind = "backfill"
  BY DEF UpkeepInv, PlanBackfill
<1>1. opened
  BY <1>0 DEF JobOK, Idle
<1> DEFINE plan == PlanOf(NextObjects(job.cursor))
<1>2. BackfillOK(plan)
  BY <1>0, <1>1, PlanIsRight
<1>3. /\ UNCHANGED <<versions, observations, latest, index, opened, setting>>
      /\ job' = [job EXCEPT !.cursor = Greatest(plan.objects), !.plan = plan]
  BY DEF PlanBackfill, PlanOf, Planned, tables
<1>4. job'.plan = plan /\ DOMAIN job' = {"kind", "cursor", "plan"} /\ job'.kind = "backfill"
  BY <1>0, <1>3 DEF JobOK
<1> HIDE DEF plan
<1>5. PICK q : q = plan
  OBVIOUS
<1>6. BackfillOK(q)'
  BY <1>2, <1>3, <1>5, SamePlan
<1>7. JobOK'
  BY <1>1, <1>3, <1>4, <1>5, <1>6 DEF JobOK
<1> QED BY <1>3, <1>7, SameTables

LEMMA OtherJobsUpkeep ==
  ASSUME UpkeepInv, Quit \/ PlanReindex \/ ApplyReindex \/ Compact
                    \/ (\E kind \in {"backfill", "reindex", "compact"} : Start(kind))
  PROVE  UpkeepInv'
<1>0. JobOK
  BY DEF UpkeepInv
<1>1. UNCHANGED <<versions, observations, latest, index, opened, setting>>
  BY DEF Quit, PlanReindex, ApplyReindex, Compact, Start, tables
<1>2. opened
  BY <1>0 DEF JobOK, Quit, PlanReindex, ApplyReindex, Compact, Start, Idle
<1>3. /\ DOMAIN job' = {"kind", "cursor", "plan"}
      /\ job'.plan = NoPlan \/ job'.kind = "reindex"
  <2>1. CASE Quit \/ Compact
    BY <2>1 DEF Quit, Compact, Idle
  <2>2. CASE PlanReindex
    <3>1. PICK c, p : job' = [job EXCEPT !.cursor = c, !.plan = p] /\ job.kind = "reindex"
      BY <2>2 DEF PlanReindex, Planned
    <3> QED BY <1>0, <3>1 DEF JobOK
  <2>3. CASE ApplyReindex
    BY <1>0, <2>3 DEF JobOK, ApplyReindex, Applied
  <2>4. CASE \E kind \in {"backfill", "reindex", "compact"} : Start(kind)
    BY <2>4 DEF Start, Idle
  <2> QED BY <2>1, <2>2, <2>3, <2>4
<1>4. JobOK'
  BY <1>1, <1>2, <1>3 DEF JobOK
<1> QED BY <1>1, <1>4, SameTables

-----------------------------------------------------------------------------
(* db compact: pruning what was not seen.                                      *)

LEMMA SeenBy ==
  ASSUME VersionsOK, SightingsOK, NEW v \in versions, Seen(v)
  PROVE  \E b \in Sightings(v.obj) : b.ver = v.id
<1>1. PICK b \in observations : b.ver = v.id
  BY DEF Seen, Observed
<1>2. PICK w \in History(b.obj) : w.id = b.ver
  BY DEF SightingsOK
<1>3. w = v
  BY <1>1, <1>2, VersionFacts DEF History
<1> QED BY <1>1, <1>2, <1>3 DEF Sightings, History

\* An object with versions was seen.
LEMMA HasSightings ==
  ASSUME VersionsOK, SightingsOK, RunsAreSeen, opened, NEW v \in versions
  PROVE  Sightings(v.obj) # {}
<1>1. PICK s \in versions : Seen(s) /\ SameFrom(s, v)
  BY DEF RunsAreSeen, RunIsSeen
<1>2. s.obj = v.obj
  BY <1>1 DEF SameFrom, History
<1>3. PICK b \in Sightings(s.obj) : TRUE
  BY <1>1, SeenBy
<1> QED BY <1>2, <1>3

LEMMA NewestIs ==
  ASSUME SightingsOK, NEW o, Sightings(o) # {}
  PROVE  \E b \in Sightings(o) :
           Newest(o) = b.ver /\ \A c \in Sightings(o) : c.n <= b.n /\ c.ver <= b.ver
<1> DEFINE S == Sightings(o)
           f == [b \in S |-> b.n]
<1>1. S \subseteq observations /\ IsFiniteSet(S)
  BY FS_Subset DEF Sightings, SightingsOK
<1>2. f \in [S -> Nat] /\ \A b \in S : f[b] = b.n
  BY <1>1, SightingFacts DEF Pos
<1> HIDE DEF f, S
<1>3. PICK t \in S : \A c \in S : f[c] <= f[t]
  BY <1>1, <1>2, Topmost DEF S
<1>4. \A c \in S : c.n <= t.n
  BY <1>2, <1>3
<1> DEFINE b == CHOOSE b \in S : \A c \in S : c.n <= b.n
<1>5. b \in S /\ \A c \in S : c.n <= b.n
  BY <1>4
<1>6. Newest(o) = b.ver
  BY DEF Newest, S
<1> HIDE DEF b
<1>7. ASSUME NEW c \in S
      PROVE  c.ver <= b.ver
  <2>1. c \in observations /\ b \in observations /\ c.obj = b.obj /\ c.n <= b.n
    BY <1>1, <1>5 DEF S, Sightings
  <2>2. c.n \in Nat /\ b.n \in Nat /\ c.ver \in Nat /\ b.ver \in Nat
    BY <2>1, SightingFacts DEF Pos
  <2>3. CASE c.n = b.n
    BY <2>1, <2>2, <2>3 DEF SightingsOK
  <2>4. CASE c.n < b.n
    BY <2>1, <2>4 DEF SightingsOK
  <2> QED BY <2>1, <2>2, <2>3, <2>4
<1> QED BY <1>5, <1>6, <1>7 DEF S

\* The pointers after a prune.
PrunedPointers ==
  /\ versions' = {v \in versions : v.id \notin Ids \ Observed}
  /\ index' = [o \in Objects |-> IF index[o] \in Ids \ Observed THEN Newest(o) ELSE index[o]]
  /\ latest' = [o \in Objects |-> IF latest[o] \in Ids \ Observed THEN index'[o] ELSE latest[o]]

LEMMA PruneKeepsPointers ==
  ASSUME UpkeepInv, opened, PrunedPointers
  PROVE  PointersOK'
<1>0. VersionsOK /\ PointersOK /\ SightingsOK /\ RunsAreSeen
  BY DEF UpkeepInv
<1>1. \A v \in versions' : v \in versions /\ Seen(v)
  BY DEF PrunedPointers, Seen, Ids
<1>2. \A v \in versions : Seen(v) => v \in versions'
  BY DEF PrunedPointers, Seen
<1>3. ASSUME NEW o \in Objects, latest[o] \in Ids \ Observed
      PROVE  \E i \in Pos : i = Newest(o) /\ Heads(o, i)'
  <2>1. PICK h \in versions : h.id = latest[o]
    BY <1>3 DEF Ids
  <2>2. latest[o] # 0
    BY <1>0, <2>1, VersionFacts DEF Pos
  <2>3. PICK v \in History(o) : TRUE
    BY <1>0, <2>2 DEF PointersOK, Heads
  <2>4. PICK b \in Sightings(o) :
          Newest(o) = b.ver /\ \A c \in Sightings(o) : c.n <= b.n /\ c.ver <= b.ver
    BY <1>0, <2>3, HasSightings, NewestIs DEF History
  <2>5. b \in observations /\ b.obj = o
    BY <2>4 DEF Sightings
  <2>6. PICK w \in History(o) : w.id = b.ver
    BY <1>0, <2>5 DEF SightingsOK
  <2>7. w \in versions /\ w.obj = o /\ Seen(w)
    BY <2>5, <2>6 DEF Seen, Observed, History
  <2>8. w \in versions'
    BY <1>2, <2>7
  <2>9. ASSUME NEW x \in versions', x.obj = o
        PROVE  x.seq <= w.seq
    <3>1. x \in versions /\ Seen(x)
      BY <1>1
    <3>2. PICK c \in Sightings(o) : c.ver = x.id
      BY <1>0, <2>9, <3>1, SeenBy
    <3>3. x.id <= w.id
      BY <2>4, <2>6, <3>2
    <3> QED BY <1>0, <2>7, <2>9, <3>1, <3>3, VersionFacts
  <2>10. w \in History(o)' /\ \A x \in History(o)' : x.seq <= w.seq
    BY <2>7, <2>8, <2>9 DEF History
  <2>11. w.id \in Pos
    BY <1>0, <2>7, VersionFacts
  <2>12. w.id = Newest(o) /\ Heads(o, w.id)'
    BY <2>4, <2>6, <2>10 DEF Heads
  <2> QED BY <2>11, <2>12
<1>4. ASSUME NEW o \in Objects, latest[o] \notin Ids \ Observed, latest[o] # 0
      PROVE  Heads(o, latest[o])'
  <2>1. PICK h \in History(o) : h.id = latest[o] /\ \A w \in History(o) : w.seq <= h.seq
    BY <1>0, <1>4 DEF PointersOK, Heads
  <2>2. latest'[o] = h.id /\ h \in versions'
    BY <1>0, <1>4, <2>1 DEF PrunedPointers, History
  <2>3. h \in History(o)' /\ \A w \in History(o)' : w.seq <= h.seq
    BY <1>1, <2>1, <2>2 DEF History
  <2> QED BY <2>2, <2>3 DEF Heads
<1>5. ASSUME NEW o \in Objects
      PROVE  /\ latest'[o] \in Nat /\ index'[o] = latest'[o]
             /\ latest'[o] = 0 => History(o)' = {}
             /\ latest'[o] # 0 => Heads(o, latest[o])'
  <2>1. CASE latest[o] \in Ids \ Observed
    <3>1. PICK i \in Pos : i = Newest(o) /\ Heads(o, i)'
      BY <1>3, <2>1
    <3>2. latest'[o] = i /\ index'[o] = i
      BY <1>0, <2>1, <3>1 DEF PrunedPointers, PointersOK
    <3> QED BY <3>1, <3>2 DEF Heads, Pos
  <2>2. CASE latest[o] \notin Ids \ Observed
    <3>1. latest'[o] = latest[o] /\ index'[o] = latest[o]
      BY <1>0, <2>2 DEF PrunedPointers, PointersOK
    <3>2. latest[o] = 0 => History(o)' = {}
      BY <1>0, <1>1 DEF PointersOK, History
    <3> QED BY <1>0, <1>4, <2>2, <3>1, <3>2 DEF PointersOK
  <2> QED BY <2>1, <2>2
<1>6. DOMAIN latest' = Objects /\ DOMAIN index' = Objects
  BY DEF PrunedPointers
<1>7. index' = latest'
  BY <1>5, <1>6 DEF PrunedPointers
<1> QED BY <1>5, <1>6, <1>7 DEF PointersOK

LEMMA PruneUpkeep ==
  ASSUME UpkeepInv, PruneUnchanged
  PROVE  UpkeepInv'
<1>0. VersionsOK /\ SightingsOK /\ RunsAreSeen /\ JobOK
  BY DEF UpkeepInv
<1>1. opened /\ job.plan = NoPlan /\ UNCHANGED <<opened, setting, observations>>
  BY <1>0 DEF PruneUnchanged, JobOK, Idle, tables
<1>2. JobOK'
  <2>1. job' = Idle \/ job' = [job EXCEPT !.cursor = 1]
    BY DEF PruneUnchanged
  <2>2. DOMAIN job' = {"kind", "cursor", "plan"} /\ job'.plan = NoPlan
    BY <1>0, <1>1, <2>1 DEF JobOK, Idle
  <2> QED BY <1>1, <2>2, JobWaits
<1>3. CASE UNCHANGED tables
  BY <1>1, <1>2, <1>3, SameTables DEF tables
<1>4. CASE ~UNCHANGED tables
  <2>1. PrunedPointers
    BY <1>4 DEF PruneUnchanged, PrunedPointers
  <2>2. PointersOK'
    BY <1>1, <2>1, PruneKeepsPointers
  <2>3. \A v \in versions' : v \in versions /\ Seen(v) /\ Seen(v)'
    BY <1>1, <2>1 DEF PrunedPointers, Seen, Ids, Observed
  <2>4. \A v \in versions : Seen(v) => v \in versions'
    BY <2>1 DEF PrunedPointers, Seen
  <2>5. VersionsOK'
    <3>1. versions' \subseteq versions /\ IsFiniteSet(versions')
      BY <1>0, <2>3, FS_Subset DEF VersionsOK
    <3> QED BY <1>0, <3>1 DEF VersionsOK
  <2>6. SightingsOK'
    <3>1. ASSUME NEW b \in observations
          PROVE  \E v \in History(b.obj)' : v.id = b.ver
      <4>1. PICK v \in History(b.obj) : v.id = b.ver
        BY <1>0 DEF SightingsOK
      <4>2. v \in versions /\ Seen(v)
        BY <4>1 DEF History, Seen, Observed
      <4> QED BY <2>4, <4>1, <4>2 DEF History
    <3> QED BY <1>0, <1>1, <3>1 DEF SightingsOK
  <2>7. RunsAreSeen'
    <3>1. ASSUME NEW v \in versions'
          PROVE  RunIsSeen(v)'
      <4>1. v.id \in Nat /\ \A w \in versions' : w.id \in Nat /\ (w.id = v.id => w = v)
        BY <2>5 DEF VersionsOK, Pos
      <4>2. SameFrom(v, v)'
        BY <4>1 DEF SameFrom, History
      <4> QED BY <2>3, <4>2 DEF RunIsSeen
    <3> QED BY <2>3, <3>1 DEF RunsAreSeen
  <2> QED BY <1>2, <2>2, <2>5, <2>6, <2>7 DEF UpkeepInv
<1> QED BY <1>3, <1>4

-----------------------------------------------------------------------------
(* Applying the plan of a backfill.                                            *)

LEMMA MovedIs ==
  ASSUME NEW plan, PrunesOK(plan)
  PROVE  /\ \A p \in plan.prunes : Moved(plan.prunes, p.id) = p.canonical
         /\ \A id : id \notin PrunedIn(plan) => Moved(plan.prunes, id) = id
<1>1. ASSUME NEW p \in plan.prunes
      PROVE  Moved(plan.prunes, p.id) = p.canonical
  <2>1. \A q \in plan.prunes : q.id = p.id => q = p
    BY DEF PrunesOK
  <2> QED BY <2>1 DEF Moved
<1> QED BY <1>1 DEF Moved, PrunedIn

\* Where a version is moved that is still there, or stays.
Lands(c, v, plan) ==
  /\ c \in versions /\ c.id = Moved(plan.prunes, v.id) /\ c.obj = v.obj /\ c.id <= v.id
  /\ c.id \notin PrunedIn(plan) /\ Normal[c.doc] = Normal[v.doc]

LEMMA MovedLands ==
  ASSUME VersionsOK, NEW plan, PrunesOK(plan), NEW v \in versions, Moved(plan.prunes, v.id) \in Ids
  PROVE  \E c \in versions : Lands(c, v, plan)
<1>1. PICK c \in versions : c.id = Moved(plan.prunes, v.id)
  BY DEF Ids
<1>2. CASE v.id \notin PrunedIn(plan)
  <2>1. c = v /\ v.id <= v.id
    BY <1>1, <1>2, MovedIs, VersionFacts DEF Pos
  <2> QED BY <1>1, <1>2, <2>1 DEF Lands
<1>3. CASE v.id \in PrunedIn(plan)
  <2>1. PICK p \in plan.prunes : p.id = v.id
    BY <1>3 DEF PrunedIn
  <2>2. c.id = p.canonical
    BY <1>1, <2>1, MovedIs
  <2>3. p.canonical < p.id /\ p.canonical \notin PrunedIn(plan) /\ Replaces(plan, p, v)
    BY <2>1 DEF PrunesOK
  <2>4. c.obj = v.obj /\ Normal[c.doc] = Normal[v.doc]
    BY <2>2, <2>3 DEF Replaces
  <2>5. c.id <= v.id
    BY <2>1, <2>2, <2>3, VersionFacts DEF Pos
  <2> QED BY <1>1, <2>2, <2>3, <2>4, <2>5 DEF Lands
<1> QED BY <1>2, <1>3

LEMMA MovedInOrder ==
  ASSUME VersionsOK, NEW plan, PrunesOK(plan),
         NEW v \in versions, NEW w \in versions, v.obj = w.obj, v.id <= w.id,
         NEW c \in versions, Lands(c, v, plan), NEW d \in versions, Lands(d, w, plan)
  PROVE  c.id <= d.id
<1>1. /\ c.id \in Nat /\ d.id \in Nat /\ v.id \in Nat /\ w.id \in Nat
      /\ c.id <= v.id /\ c.obj = w.obj /\ c.id \notin PrunedIn(plan)
  BY VersionFacts DEF Lands, Pos
<1>2. CASE w.id \notin PrunedIn(plan)
  <2>1. d.id = w.id
    BY <1>2, MovedIs DEF Lands
  <2> QED BY <1>1, <2>1
<1>3. CASE w.id \in PrunedIn(plan)
  <2>1. PICK p \in plan.prunes : p.id = w.id
    BY <1>3 DEF PrunedIn
  <2>2. d.id = p.canonical /\ Replaces(plan, p, w)
    BY <2>1, MovedIs DEF Lands, PrunesOK
  <2>3. \A x \in versions : x.obj = w.obj /\ d.id < x.id /\ x.id <= w.id => x.id \in PrunedIn(plan)
    BY <2>2 DEF Replaces, History
  <2>4. c.id <= w.id
    BY <1>1
  <2>5. ~(d.id < c.id)
    BY <1>1, <2>3, <2>4
  <2> QED BY <1>1, <2>5
<1> QED BY <1>2, <1>3

\* A version that stays, before and after it is rewritten.
Like(w, v) ==
  /\ w.id = v.id /\ w.obj = v.obj /\ w.seq = v.seq /\ w.doc \in Docs
  /\ Normal[w.doc] = Normal[v.doc]

LEMMA RewrittenIsLike ==
  ASSUME VersionsOK, NEW plan, UpdatesOK(plan), NEW v \in versions
  PROVE  /\ Like(Rewritten(plan.updates, v), v)
         /\ Rewritten(plan.updates, v) \in [id : Pos, obj : Objects, seq : Pos, doc : Docs]
         /\ v.obj \notin plan.objects => Rewritten(plan.updates, v) = v
<1>1. v \in [id : Pos, obj : Objects, seq : Pos, doc : Docs]
  BY DEF VersionsOK
<1>2. CASE \E u \in plan.updates : u.id = v.id
  <2> DEFINE u == CHOOSE u \in plan.updates : u.id = v.id
  <2>1. u \in plan.updates /\ u.id = v.id
    BY <1>2
  <2>2. Rewritten(plan.updates, v) = [v EXCEPT !.doc = Normal[u.doc]]
    BY <1>2 DEF Rewritten
  <2> HIDE DEF u
  <2>3. u.doc = v.doc /\ v.obj \in plan.objects
    BY <2>1 DEF UpdatesOK
  <2>4. Normal[v.doc] \in Docs /\ Normal[Normal[v.doc]] = Normal[v.doc]
    BY <1>1, UpkeepAssumption DEF UpkeepAssumption
  <2> QED BY <1>1, <2>2, <2>3, <2>4 DEF Like
<1>3. CASE ~\E u \in plan.updates : u.id = v.id
  <2>1. Rewritten(plan.updates, v) = v
    BY <1>3 DEF Rewritten
  <2> QED BY <1>1, <2>1 DEF Like
<1> QED BY <1>2, <1>3

\* The tables after the transaction.
Backfilled(plan) ==
  /\ versions' = {Rewritten(plan.updates, v) : v \in {w \in versions : w.id \notin PrunedIn(plan)}}
  /\ observations' = Repointed(observations, plan.prunes)
  /\ index' = MovedPointers(index, plan.prunes)
  /\ latest' = [o \in Objects |-> IF latest[o] \in PrunedIn(plan) THEN index'[o] ELSE latest[o]]
  /\ ~Dangles(Repointed(observations, plan.prunes))

\* The versions that stay.
Stays(plan) ==
  /\ \A w \in versions' : \E v \in versions : Like(w, v) /\ v.id \notin PrunedIn(plan)
                                              /\ (v.obj \notin plan.objects => w = v)
  /\ \A v \in versions : v.id \notin PrunedIn(plan) => \E w \in versions' : Like(w, v)

LEMMA BackfillStays ==
  ASSUME VersionsOK, NEW plan, BackfillOK(plan), Backfilled(plan)
  PROVE  VersionsOK' /\ Stays(plan)
<1> DEFINE K == {w \in versions : w.id \notin PrunedIn(plan)}
           R(v) == Rewritten(plan.updates, v)
<1>1. \A v \in K : /\ v \in versions /\ Like(R(v), v)
                   /\ R(v) \in [id : Pos, obj : Objects, seq : Pos, doc : Docs]
                   /\ v.obj \notin plan.objects => R(v) = v
  BY RewrittenIsLike DEF BackfillOK
<1>2. versions' = {R(v) : v \in K}
  BY DEF Backfilled
<1> HIDE DEF R
<1>3. IsFiniteSet(versions')
  <2> DEFINE f == [v \in K |-> R(v)]
  <2>1. Range(f) = versions' /\ f \in [K -> Range(f)]
    BY <1>2 DEF Range
  <2>2. IsFiniteSet(K)
    BY FS_Subset DEF VersionsOK
  <2> HIDE DEF f, K
  <2> QED BY <2>1, <2>2, ImageFinite
<1>4. ASSUME NEW x \in versions', NEW y \in versions'
      PROVE  (x.id = y.id => x = y) /\ (x.obj = y.obj => (x.seq < y.seq <=> x.id < y.id))
  <2>1. PICK v \in K : x = R(v)
    BY <1>2
  <2>2. PICK w \in K : y = R(w)
    BY <1>2
  <2>3. /\ x.id = v.id /\ x.obj = v.obj /\ x.seq = v.seq /\ v \in versions
        /\ y.id = w.id /\ y.obj = w.obj /\ y.seq = w.seq /\ w \in versions
    BY <1>1, <2>1, <2>2 DEF Like
  <2>4. v.id = w.id => v = w
    BY <2>3 DEF VersionsOK
  <2>5. v.obj = w.obj => (v.seq < w.seq <=> v.id < w.id)
    BY <2>3 DEF VersionsOK
  <2> QED BY <2>1, <2>2, <2>3, <2>4, <2>5
<1>5. VersionsOK'
  <2>1. versions' \subseteq [id : Pos, obj : Objects, seq : Pos, doc : Docs]
    BY <1>1, <1>2
  <2> QED BY <1>3, <1>4, <2>1 DEF VersionsOK
<1>6. Stays(plan)
  BY <1>1, <1>2 DEF Stays
<1> QED BY <1>5, <1>6

\* Nothing that is there is moved to what is gone: without retention nothing was
\* lost since the plan, and with it the foreign key of the observation says so.
LEMMA EachMoves ==
  ASSUME VersionsOK, RunsAreSeen, NEW plan, BackfillOK(plan), Backfilled(plan), NEW v \in versions
  PROVE  Moved(plan.prunes, v.id) \in Ids
<1>0. PrunesOK(plan)
  BY DEF BackfillOK
<1>1. CASE v.id \notin PrunedIn(plan)
  BY <1>0, <1>1, MovedIs DEF Ids
<1>2. CASE v.id \in PrunedIn(plan) /\ ~setting.retention
  BY <1>0, <1>2, MovedIs DEF PrunesOK, PrunedIn
<1>3. CASE setting.retention
  <2>1. PICK b \in observations : b.ver = v.id
    BY <1>3 DEF RunsAreSeen, Seen, Observed
  <2>2. [b EXCEPT !.ver = Moved(plan.prunes, @)].ver \in Ids
    BY <2>1 DEF Backfilled, Dangles, Repointed
  <2>3. DOMAIN b = DOMAIN b /\ (b.ver = v.id)
    BY <2>1
  <2> QED BY <2>2, <2>3
<1> QED BY <1>1, <1>2, <1>3

LEMMA BackfillKeepsPointers ==
  ASSUME UpkeepInv, NEW plan, BackfillOK(plan), Backfilled(plan)
  PROVE  PointersOK'
<1>0. VersionsOK /\ PointersOK /\ RunsAreSeen /\ PrunesOK(plan)
  BY DEF UpkeepInv, BackfillOK
<1>1. VersionsOK' /\ Stays(plan)
  BY <1>0, BackfillStays
<1>2. ASSUME NEW o \in Objects
      PROVE  latest'[o] = Moved(plan.prunes, latest[o]) /\ index'[o] = latest'[o]
  BY <1>0, <1>2, MovedIs DEF Backfilled, MovedPointers, PointersOK
<1>3. ASSUME NEW o \in Objects, latest[o] = 0
      PROVE  latest'[o] = 0 /\ History(o)' = {}
  <2>1. 0 \notin PrunedIn(plan)
    BY <1>0 DEF PrunesOK, PrunedIn, Given, Pos
  <2>2. latest'[o] = 0
    BY <1>0, <1>2, <1>3, <2>1, MovedIs
  <2>3. History(o) = {}
    BY <1>0, <1>3 DEF PointersOK
  <2>4. ASSUME NEW w \in versions', w.obj = o PROVE FALSE
    <3>1. PICK v \in versions : Like(w, v)
      BY <1>1 DEF Stays
    <3> QED BY <2>3, <2>4, <3>1 DEF Like, History
  <2> QED BY <2>2, <2>4 DEF History
<1>4. ASSUME NEW o \in Objects, latest[o] # 0
      PROVE  \E i \in Pos : i = latest'[o] /\ Heads(o, i)'
  <2>1. History(o) # {}
    BY <1>0, <1>4 DEF PointersOK, Heads
  <2>2. PICK h \in History(o) : h.id = latest[o] /\ \A w \in History(o) : w.id <= h.id
    BY <1>0, <2>1, HeadIsLast
  <2>3. h \in versions /\ h.obj = o
    BY <2>2 DEF History
  <2>4. PICK c \in versions : Lands(c, h, plan)
    BY <1>0, <2>3, EachMoves, MovedLands
  <2>5. c.id = latest'[o] /\ c.obj = o /\ c.id \notin PrunedIn(plan)
    BY <1>2, <2>2, <2>3, <2>4 DEF Lands
  <2>6. PICK d \in versions' : Like(d, c)
    BY <1>1, <2>5 DEF Stays
  <2>7. ASSUME NEW x \in versions', x.obj = o
        PROVE  x.seq <= d.seq
    <3>1. PICK v \in versions : Like(x, v) /\ v.id \notin PrunedIn(plan)
      BY <1>1 DEF Stays
    <3>2. v.obj = o /\ v.id <= h.id
      BY <2>2, <2>7, <3>1 DEF Like, History
    <3>3. Lands(v, v, plan)
      BY <1>0, <3>1, MovedIs, VersionFacts DEF Lands, Pos
    <3>4. v.id <= c.id
      BY <1>0, <2>3, <2>4, <3>2, <3>3, MovedInOrder
    <3>5. x.id <= d.id /\ x.obj = d.obj
      BY <2>5, <2>6, <2>7, <3>1, <3>4 DEF Like
    <3>6. v.seq <= c.seq
      BY <1>0, <2>5, <3>2, <3>4, VersionFacts
    <3> QED BY <2>6, <3>1, <3>6 DEF Like
  <2>8. d \in History(o)' /\ \A x \in History(o)' : x.seq <= d.seq
    BY <2>5, <2>6, <2>7 DEF History, Like
  <2>9. d.id = c.id /\ c.id \in Pos
    BY <1>0, <2>6, VersionFacts DEF Like
  <2> QED BY <2>5, <2>8, <2>9 DEF Heads
<1>5. ASSUME NEW o \in Objects
      PROVE  /\ latest'[o] \in Nat
             /\ latest'[o] = 0 => History(o)' = {}
             /\ latest'[o] # 0 => Heads(o, latest[o])'
  <2>1. CASE latest[o] = 0
    BY <1>3, <2>1
  <2>2. CASE latest[o] # 0
    <3>1. PICK i \in Pos : i = latest'[o] /\ Heads(o, i)'
      BY <1>4, <2>2
    <3> QED BY <3>1 DEF Heads, Pos
  <2> QED BY <2>1, <2>2
<1>6. DOMAIN latest' = Objects /\ DOMAIN index' = Objects
  BY DEF Backfilled, MovedPointers
<1>7. index' = latest'
  <2>1. latest' = [o \in Objects |-> latest'[o]]
    BY DEF Backfilled
  <2>2. index' = [o \in Objects |-> index'[o]]
    BY DEF Backfilled, MovedPointers
  <2> QED BY <1>2, <2>1, <2>2
<1> QED BY <1>5, <1>6, <1>7 DEF PointersOK

\* A sighting, and what becomes of it.
Moves(c, b, plan) ==
  /\ c.obj = b.obj /\ c.n = b.n /\ c.del = b.del
  /\ c.ver = Moved(plan.prunes, b.ver)

LEMMA SightingsMove ==
  ASSUME SightingsOK, NEW plan, observations' = Repointed(observations, plan.prunes)
  PROVE  /\ \A c \in observations' : \E b \in observations : Moves(c, b, plan)
         /\ \A b \in observations : \E c \in observations' : Moves(c, b, plan)
<1> DEFINE M(b) == [b EXCEPT !.ver = Moved(plan.prunes, @)]
<1>1. observations' = {M(b) : b \in observations}
  BY DEF Repointed
<1>2. \A b \in observations : Moves(M(b), b, plan)
  <2> SUFFICES ASSUME NEW b \in observations PROVE Moves(M(b), b, plan)
    OBVIOUS
  <2>1. b \in [obj : Objects, n : Pos, del : BOOLEAN, ver : Pos]
    BY DEF SightingsOK
  <2> QED BY <2>1 DEF Moves
<1> HIDE DEF M
<1> QED BY <1>1, <1>2

LEMMA BackfillKeepsSightings ==
  ASSUME UpkeepInv, NEW plan, BackfillOK(plan), Backfilled(plan)
  PROVE  SightingsOK'
<1>0. VersionsOK /\ SightingsOK /\ RunsAreSeen /\ PrunesOK(plan)
  BY DEF UpkeepInv, BackfillOK
<1>1. VersionsOK' /\ Stays(plan)
  BY <1>0, BackfillStays
<1>2. observations' = Repointed(observations, plan.prunes)
  BY DEF Backfilled
<1>3. /\ \A c \in observations' : \E b \in observations : Moves(c, b, plan)
      /\ \A b \in observations : \E c \in observations' : Moves(c, b, plan)
  BY <1>0, <1>2, SightingsMove
<1>4. ASSUME NEW b \in observations
      PROVE  \E v \in versions : v.id = b.ver /\ v.obj = b.obj
               /\ \E d \in versions : Lands(d, v, plan)
  <2>1. PICK v \in History(b.obj) : v.id = b.ver
    BY <1>0 DEF SightingsOK
  <2>2. v \in versions /\ v.obj = b.obj
    BY <2>1 DEF History
  <2> QED BY <1>0, <2>1, <2>2, EachMoves, MovedLands
<1>5. IsFiniteSet(observations')
  <2> DEFINE M(b) == [b EXCEPT !.ver = Moved(plan.prunes, @)]
             f == [b \in observations |-> M(b)]
  <2>1. observations' = {M(b) : b \in observations}
    BY <1>2 DEF Repointed
  <2> HIDE DEF M
  <2>2. Range(f) = observations' /\ f \in [observations -> Range(f)]
    BY <2>1 DEF Range
  <2> HIDE DEF f
  <2> QED BY <1>0, <2>2, ImageFinite DEF SightingsOK
<1>6. observations' \subseteq [obj : Objects, n : Pos, del : BOOLEAN, ver : Pos]
  <2> DEFINE M(b) == [b EXCEPT !.ver = Moved(plan.prunes, @)]
  <2>1. ASSUME NEW b \in observations
        PROVE  M(b) \in [obj : Objects, n : Pos, del : BOOLEAN, ver : Pos]
    <3>1. b \in [obj : Objects, n : Pos, del : BOOLEAN, ver : Pos]
      BY <1>0 DEF SightingsOK
    <3>2. Moved(plan.prunes, b.ver) \in Pos
      <4>1. PICK v \in versions : v.id = b.ver /\ \E d \in versions : Lands(d, v, plan)
        BY <1>4
      <4> QED BY <1>0, <4>1, VersionFacts DEF Lands
    <3> QED BY <3>1, <3>2
  <2>2. observations' = {M(b) : b \in observations}
    BY <1>2 DEF Repointed
  <2> HIDE DEF M
  <2> QED BY <2>1, <2>2
<1>7. ASSUME NEW x \in observations'
      PROVE  \E w \in History(x.obj)' : w.id = x.ver
  <2>1. PICK b \in observations : Moves(x, b, plan)
    BY <1>3
  <2>2. PICK v \in versions : v.id = b.ver /\ v.obj = b.obj /\ \E d \in versions : Lands(d, v, plan)
    BY <1>4
  <2>3. PICK d \in versions : Lands(d, v, plan)
    BY <2>2
  <2>4. PICK w \in versions' : Like(w, d)
    BY <1>1, <2>3 DEF Lands, Stays
  <2> QED BY <2>1, <2>2, <2>3, <2>4 DEF Moves, Lands, Like, History
<1>8. ASSUME NEW x \in observations', NEW y \in observations', x.obj = y.obj
      PROVE  (x.n = y.n => x = y) /\ (x.n < y.n => x.ver <= y.ver)
  <2>1. PICK b \in observations : Moves(x, b, plan)
    BY <1>3
  <2>2. PICK c \in observations : Moves(y, c, plan)
    BY <1>3
  <2>3. b.obj = c.obj /\ x.n = b.n /\ y.n = c.n
    BY <1>8, <2>1, <2>2 DEF Moves
  <2>4. x.n = y.n => x = y
    <3> SUFFICES ASSUME x.n = y.n PROVE x = y
      OBVIOUS
    <3>1. b = c
      BY <1>0, <2>3 DEF SightingsOK
    <3>2. x.obj = y.obj /\ x.n = y.n /\ x.del = y.del /\ x.ver = y.ver
      BY <2>1, <2>2, <3>1 DEF Moves
    <3>3. /\ x \in [obj : Objects, n : Pos, del : BOOLEAN, ver : Pos]
          /\ y \in [obj : Objects, n : Pos, del : BOOLEAN, ver : Pos]
      BY <1>6
    <3> QED BY <3>2, <3>3
  <2>5. x.n < y.n => x.ver <= y.ver
    <3> SUFFICES ASSUME x.n < y.n PROVE x.ver <= y.ver
      OBVIOUS
    <3>1. b.ver <= c.ver
      BY <1>0, <2>3 DEF SightingsOK
    <3>2. PICK v \in versions : v.id = b.ver /\ v.obj = b.obj /\ \E d \in versions : Lands(d, v, plan)
      BY <1>4
    <3>3. PICK w \in versions : w.id = c.ver /\ w.obj = c.obj /\ \E d \in versions : Lands(d, w, plan)
      BY <1>4
    <3>4. PICK d \in versions : Lands(d, v, plan)
      BY <3>2
    <3>5. PICK e \in versions : Lands(e, w, plan)
      BY <3>3
    <3>6. v.obj = w.obj /\ v.id <= w.id
      BY <2>3, <3>1, <3>2, <3>3
    <3>7. d.id <= e.id
      BY <1>0, <3>4, <3>5, <3>6, MovedInOrder
    <3> QED BY <2>1, <2>2, <3>2, <3>3, <3>4, <3>5, <3>7 DEF Moves, Lands
  <2> QED BY <2>4, <2>5
<1> QED BY <1>5, <1>6, <1>7, <1>8 DEF SightingsOK

LEMMA BackfillKeepsRuns ==
  ASSUME UpkeepInv, NEW plan, BackfillOK(plan), Backfilled(plan), opened,
         UNCHANGED <<opened, setting>>
  PROVE  RunsAreSeen'
<1>0. VersionsOK /\ SightingsOK /\ RunsAreSeen /\ PrunesOK(plan) /\ UnseenGo(plan)
  BY DEF UpkeepInv, BackfillOK
<1>1. VersionsOK' /\ Stays(plan)
  BY <1>0, BackfillStays
<1>2. \A b \in observations : \E c \in observations' : Moves(c, b, plan)
  BY <1>0, SightingsMove DEF Backfilled
<1>3. ASSUME NEW w \in versions', NEW v \in versions, Like(w, v), v.id \notin PrunedIn(plan), Seen(v)
      PROVE  Seen(w)'
  <2>1. PICK b \in observations : b.ver = v.id
    BY <1>3 DEF Seen, Observed
  <2>2. PICK c \in observations' : Moves(c, b, plan)
    BY <1>2
  <2>3. c.ver = w.id
    BY <1>0, <1>3, <2>1, <2>2, MovedIs DEF Moves, Like
  <2> QED BY <2>3 DEF Seen, Observed
<1>4. ASSUME NEW w \in versions', Seen(w)'
      PROVE  RunIsSeen(w)'
  <2>1. w.id \in Nat /\ \A x \in versions' : x.id \in Nat /\ (x.id = w.id => x = w)
    BY <1>1 DEF VersionsOK, Pos
  <2>2. SameFrom(w, w)'
    BY <2>1 DEF SameFrom, History
  <2> QED BY <1>4, <2>2 DEF RunIsSeen
<1>5. ASSUME NEW w \in versions', setting.retention
      PROVE  Seen(w)'
  <2>1. PICK v \in versions : Like(w, v) /\ v.id \notin PrunedIn(plan)
    BY <1>1 DEF Stays
  <2>2. Seen(v)
    BY <1>0, <1>5 DEF RunsAreSeen
  <2> QED BY <1>3, <2>1, <2>2
<1>6. ASSUME NEW w \in versions'
      PROVE  RunIsSeen(w)'
  <2>1. PICK v \in versions : /\ Like(w, v) /\ v.id \notin PrunedIn(plan)
                              /\ v.obj \notin plan.objects => w = v
    BY <1>1 DEF Stays
  <2>2. CASE Seen(v)
    BY <1>3, <1>4, <2>1, <2>2
  <2>3. CASE ~Seen(v)
    <3>1. v.obj \notin plan.objects /\ w = v
      BY <1>0, <2>1, <2>3 DEF UnseenGo
    <3>2. PICK s \in versions : Seen(s) /\ SameFrom(s, v)
      BY <1>0 DEF RunsAreSeen, RunIsSeen
    <3>3. s.obj = v.obj /\ s.id <= v.id
      BY <3>2 DEF SameFrom, History
    <3>4. s.id \notin PrunedIn(plan)
      BY <1>0, <3>1, <3>3 DEF PrunesOK, PrunedIn, Replaces
    <3>5. PICK t \in versions' : Like(t, s)
      BY <1>1, <3>4 DEF Stays
    <3>6. Seen(t)'
      BY <1>3, <3>2, <3>4, <3>5
    <3>7. ASSUME NEW x \in versions', x.obj = v.obj
          PROVE  x \in versions
      <4>1. PICK y \in versions : Like(x, y) /\ (y.obj \notin plan.objects => x = y)
        BY <1>1 DEF Stays
      <4> QED BY <3>1, <3>7, <4>1 DEF Like
    <3>8. t.id = s.id /\ t.obj = v.obj
      BY <3>3, <3>5 DEF Like
    <3>9. SameFrom(t, v)'
      BY <3>2, <3>3, <3>7, <3>8 DEF SameFrom, History
    <3> QED BY <3>1, <3>6, <3>9 DEF RunIsSeen
  <2> QED BY <2>2, <2>3
<1> QED BY <1>5, <1>6 DEF RunsAreSeen

LEMMA ApplyBackfillUpkeep ==
  ASSUME UpkeepInv, ApplyBackfill
  PROVE  UpkeepInv'
<1>0. VersionsOK /\ JobOK /\ job.kind = "backfill" /\ job.plan # NoPlan
  BY DEF UpkeepInv, ApplyBackfill
<1>1. opened /\ UNCHANGED <<opened, setting>>
  BY <1>0 DEF JobOK, Idle, ApplyBackfill
<1>2. JobOK'
  <2>1. job' = Idle \/ job' = [job EXCEPT !.plan = NoPlan]
    BY DEF ApplyBackfill, Applied
  <2>2. DOMAIN job' = {"kind", "cursor", "plan"} /\ job'.plan = NoPlan
    BY <1>0, <2>1 DEF JobOK, Idle
  <2> QED BY <1>1, <2>2, JobWaits
<1>3. CASE UNCHANGED tables
  BY <1>1, <1>2, <1>3, SameTables DEF tables
<1>4. CASE ~UNCHANGED tables
  <2>1. PICK plan : plan = job.plan
    OBVIOUS
  <2>2. Backfilled(plan)
    BY <1>4, <2>1 DEF ApplyBackfill, Backfilled, PrunedIn
  <2>3. BackfillOK(plan)
    BY <1>0, <2>1 DEF JobOK
  <2>4. VersionsOK'
    BY <1>0, <2>2, <2>3, BackfillStays
  <2> QED BY <1>1, <1>2, <2>2, <2>3, <2>4, BackfillKeepsPointers, BackfillKeepsSightings,
             BackfillKeepsRuns DEF UpkeepInv
<1> QED BY <1>3, <1>4

LEMMA NextUpkeep ==
  ASSUME UpkeepInv, [Next]_vars
  PROVE  UpkeepInv'
<1>1. CASE Open
  BY <1>1, OpenUpkeep
<1>2. CASE \E o \in Objects, doc \in Docs, del \in BOOLEAN : Observe(o, doc, del)
  BY <1>2, ObserveUpkeep
<1>3. CASE \E o \in Objects, below \in 2..setting.room : ApplyRetention(o, below)
  BY <1>3, RetentionUpkeep
<1>4. CASE PlanBackfill
  BY <1>4, PlanBackfillUpkeep
<1>5. CASE ApplyBackfill
  BY <1>5, ApplyBackfillUpkeep
<1>6. CASE PruneUnchanged
  BY <1>6, PruneUpkeep
<1>7. CASE Quit \/ PlanReindex \/ ApplyReindex \/ Compact
             \/ (\E kind \in {"backfill", "reindex", "compact"} : Start(kind))
  BY <1>7, OtherJobsUpkeep
<1>8. CASE UNCHANGED vars
  BY <1>8, SameJob, SameTables DEF UpkeepInv, vars, tables
<1> QED BY <1>1, <1>2, <1>3, <1>4, <1>5, <1>6, <1>7, <1>8 DEF Next

-----------------------------------------------------------------------------
(* The pointers.                                                               *)

LEMMA PointersFollow == UpkeepInv => PointersHold
<1> SUFFICES ASSUME UpkeepInv, NEW o \in Objects
             PROVE  /\ latest[o] = index[o]
                    /\ latest[o] = 0 <=> History(o) = {}
                    /\ latest[o] # 0 => Heads(o, latest[o])
                    /\ Sightings(o) # {} =>
                         /\ Newest(o) \in Ids /\ latest[o] \in Ids
                         /\ DocOf(Newest(o)) = DocOf(latest[o])
  BY DEF PointersHold, Heads
<1>0. VersionsOK /\ PointersOK /\ SightingsOK /\ RunsAreSeen /\ JobOK
  BY DEF UpkeepInv
<1>1. /\ latest[o] = index[o] /\ (latest[o] = 0 => History(o) = {})
      /\ latest[o] # 0 => Heads(o, latest[o])
  BY <1>0 DEF PointersOK
<1>2. ASSUME Sightings(o) # {}
      PROVE  /\ Newest(o) \in Ids /\ latest[o] \in Ids
             /\ DocOf(Newest(o)) = DocOf(latest[o])
  <2>1. opened
    BY <1>0, <1>2 DEF JobOK, Sightings
  <2>2. PICK b \in Sightings(o) :
          Newest(o) = b.ver /\ \A c \in Sightings(o) : c.n <= b.n /\ c.ver <= b.ver
    BY <1>0, <1>2, NewestIs
  <2>3. PICK w \in History(o) : w.id = b.ver
    BY <1>0, <2>2 DEF SightingsOK, Sightings
  <2>4. PICK h \in History(o) : h.id = latest[o] /\ \A x \in History(o) : x.id <= h.id
    BY <1>0, <2>3, HeadIsLast
  <2>5. w \in versions /\ h \in versions /\ w.obj = o /\ h.obj = o /\ w.id <= h.id
    BY <2>3, <2>4 DEF History
  <2>6. PICK s \in versions : Seen(s) /\ SameFrom(s, h)
    BY <1>0, <2>1, <2>5 DEF RunsAreSeen, RunIsSeen
  <2>7. s.obj = o
    BY <2>5, <2>6 DEF SameFrom, History
  <2>8. PICK c \in Sightings(o) : c.ver = s.id
    BY <1>0, <2>6, <2>7, SeenBy
  <2>9. s.id <= w.id
    BY <2>2, <2>3, <2>8
  <2>10. w.doc = h.doc
    BY <2>5, <2>6, <2>9 DEF SameFrom, History
  <2>11. DocOf(w.id) = w.doc /\ DocOf(h.id) = h.doc
    BY <1>0, <2>5, DocIs
  <2> QED BY <2>2, <2>3, <2>4, <2>5, <2>10, <2>11 DEF Ids
<1> QED BY <1>1, <1>2 DEF Heads

\* Whatever the migrations and commands rewrite, merge and delete, and whatever
\* the collector writes between a plan and its application, the two pointers of
\* an object name one version, the newest it has, with what was seen last.
THEOREM PointersStay ==
  ASSUME RetentionIsNew
  PROVE  Spec => []PointersHold
<1>1. Init => UpkeepInv
  BY InitUpkeep
<1>2. UpkeepInv /\ [Next]_vars => UpkeepInv'
  BY NextUpkeep
<1> QED BY <1>1, <1>2, PointersFollow, PTL DEF Spec

-----------------------------------------------------------------------------
(* The evidence.                                                               *)

\* db reindex is documented as a command for a time without retention.
ReindexIsOffline == "reindex" \in Offline \/ \A d \in Databases : ~d.retention

\* A version that stays, seen as before.
Remains(v) == v \in versions' /\ (SeenDeleted(v)' <=> SeenDeleted(v))

LEMMA StillProves ==
  ASSUME NEW e, NEW v \in versions, Proves(e, v), Remains(v)
  PROVE  \E w \in versions' : Proves(e, w)'
  BY DEF Proves, Remains

LEMMA InitEvidence ==
  ASSUME Init, UpkeepInv
  PROVE  EvidenceInv
<1>1. evidence = {MadeFrom(v.id, v.doc, FALSE) : v \in versions} /\ observations = {} /\ job = Idle
  BY DEF Init
<1>2. \A v \in versions : ~SeenDeleted(v)
  BY <1>1 DEF SeenDeleted, SightingsOf
<1>3. {e.ver : e \in evidence} = Ids
  <2>1. \A v \in versions : MadeFrom(v.id, v.doc, FALSE).ver = v.id
    BY DEF MadeFrom
  <2> QED BY <1>1, <2>1 DEF Ids
<1>4. \A e \in evidence : \E v \in versions : Proves(e, v)
  BY <1>1, <1>2 DEF MadeFrom, Proves
<1> QED BY <1>1, <1>3, <1>4 DEF EvidenceInv, EvidenceOK, ItemsOK, Idle

LEMMA SameRemains ==
  ASSUME UNCHANGED <<versions, observations>>, NEW v \in versions
  PROVE  Remains(v)
  BY DEF Remains, SeenDeleted, SightingsOf

LEMMA SameEvidence ==
  ASSUME EvidenceOK, UNCHANGED evidence, Ids' = Ids, \A v \in versions : Remains(v)
  PROVE  EvidenceOK'
<1>1. ASSUME NEW e \in evidence
      PROVE  \E w \in versions' : Proves(e, w)'
  <2>1. PICK v \in versions : Proves(e, v)
    BY DEF EvidenceOK
  <2> QED BY <2>1, StillProves
<1> QED BY <1>1 DEF EvidenceOK

LEMMA SameItems ==
  ASSUME ItemsOK, UNCHANGED job, \A v \in versions : Remains(v)
  PROVE  ItemsOK'
<1> SUFFICES ASSUME job.kind = "reindex", job.plan # NoPlan, NEW i \in job.plan.items
             PROVE  \E w \in versions' : Proves(MadeFrom(i.ver, i.doc, i.del), w)'
  BY DEF ItemsOK, MadeFrom, Proves
<1> DEFINE m == MadeFrom(i.ver, i.doc, i.del)
<1>1. PICK v \in versions : Proves(m, v)
  BY DEF ItemsOK
<1>2. PICK e : e = m
  OBVIOUS
<1>3. \E w \in versions' : Proves(e, w)'
  BY <1>1, <1>2, StillProves
<1> QED BY <1>2, <1>3 DEF MadeFrom, Proves

\* The first sighting of a version that is seen stays the first.
LEMMA LaterSighting ==
  ASSUME SightingsOK, NEW b, observations' = observations \cup {b},
         \A c \in observations : c.obj = b.obj => c.n < b.n, b.n \in Pos,
         UNCHANGED versions, NEW v \in versions, VersionsOK,
         b.ver = v.id => b.obj = v.obj /\ b.del = FALSE
  PROVE  Remains(v)
<1>1. \A c \in SightingsOf(v) : c \in observations /\ c.obj = v.obj /\ c.n \in Nat
  <2> SUFFICES ASSUME NEW c \in SightingsOf(v) PROVE c \in observations /\ c.obj = v.obj /\ c.n \in Nat
    OBVIOUS
  <2>1. c \in observations /\ c.ver = v.id
    BY DEF SightingsOf
  <2>2. PICK w \in History(c.obj) : w.id = c.ver
    BY <2>1 DEF SightingsOK
  <2>3. w = v
    BY <2>1, <2>2, VersionFacts DEF History
  <2> QED BY <2>1, <2>2, <2>3, SightingFacts DEF History, Pos
<1>2. CASE b.ver # v.id
  <2>1. SightingsOf(v)' = SightingsOf(v)
    BY <1>2 DEF SightingsOf
  <2> QED BY <2>1 DEF Remains, SeenDeleted
<1>3. CASE b.ver = v.id
  <2>1. SightingsOf(v)' = SightingsOf(v) \cup {b}
    BY <1>3 DEF SightingsOf
  <2>2. \A c \in SightingsOf(v) : c.n < b.n /\ c.n \in Nat /\ b.n \in Nat
    BY <1>1, <1>3 DEF Pos
  <2>3. b.del = FALSE
    BY <1>3
  <2>4. SeenDeleted(v)' <=> SeenDeleted(v)
    <3>1. ASSUME SeenDeleted(v) PROVE SeenDeleted(v)'
      <4>1. PICK f \in SightingsOf(v) : f.del /\ \A c \in SightingsOf(v) : c.n >= f.n
        BY <3>1 DEF SeenDeleted
      <4>2. \A c \in SightingsOf(v)' : c.n >= f.n
        BY <2>1, <2>2, <4>1
      <4> QED BY <2>1, <4>1, <4>2 DEF SeenDeleted
    <3>2. ASSUME SeenDeleted(v)' PROVE SeenDeleted(v)
      <4>1. PICK f \in SightingsOf(v)' : f.del /\ \A c \in SightingsOf(v)' : c.n >= f.n
        BY <3>2 DEF SeenDeleted
      <4>2. f \in SightingsOf(v)
        BY <2>1, <2>3, <4>1
      <4> QED BY <2>1, <4>1, <4>2 DEF SeenDeleted
    <3> QED BY <3>1, <3>2
  <2> QED BY <2>4 DEF Remains
<1> QED BY <1>2, <1>3

\* A version that stays, rewritten or not, seen as before.
Still(w, v) ==
  /\ w \in versions' /\ w.id = v.id /\ Normal[w.doc] = Normal[v.doc]
  /\ SeenDeleted(w)' <=> SeenDeleted(v)

\* Versions go with their evidence.
LEMMA EvidenceGoes ==
  ASSUME EvidenceOK, NEW gone, evidence' = {e \in evidence : e.ver \notin gone}, Ids' = Ids \ gone,
         \A v \in versions : v.id \notin gone => \E w : Still(w, v)
  PROVE  EvidenceOK'
<1>1. ASSUME NEW e \in evidence'
      PROVE  \E w \in versions' : Proves(e, w)'
  <2>1. PICK v \in versions : Proves(e, v)
    BY <1>1 DEF EvidenceOK
  <2>2. PICK w : Still(w, v)
    BY <1>1, <2>1 DEF Proves
  <2> QED BY <2>1, <2>2 DEF Proves, Still
<1>2. {e.ver : e \in evidence'} = Ids'
  BY DEF EvidenceOK
<1> QED BY <1>1, <1>2 DEF EvidenceOK

\* A new version comes with its evidence.
LEMMA EvidenceComes ==
  ASSUME EvidenceOK, NEW m, evidence' = evidence \cup {m}, Ids' = Ids \cup {m.ver},
         \A v \in versions : Remains(v), NEW w \in versions', Proves(m, w)'
  PROVE  EvidenceOK'
<1>1. ASSUME NEW e \in evidence
      PROVE  \E x \in versions' : Proves(e, x)'
  <2>1. PICK v \in versions : Proves(e, v)
    BY DEF EvidenceOK
  <2> QED BY <2>1, StillProves
<1>2. {e.ver : e \in evidence'} = Ids'
  BY DEF EvidenceOK
<1> QED BY <1>1, <1>2 DEF EvidenceOK

LEMMA ObserveEvidence ==
  ASSUME EvidenceInv, NEW o \in Objects, NEW doc \in Docs, NEW del \in BOOLEAN, Observe(o, doc, del)
  PROVE  EvidenceInv'
<1>0. UpkeepInv /\ VersionsOK /\ PointersOK /\ SightingsOK /\ EvidenceOK /\ ItemsOK
  BY DEF EvidenceInv, UpkeepInv
<1>1. UpkeepInv' /\ VersionsOK' /\ SightingsOK'
  BY <1>0, ObserveUpkeep DEF UpkeepInv
<1>2. CASE ~del /\ latest[o] \in Ids /\ DocOf(latest[o]) = doc
  <2> DEFINE b == [obj |-> o, n |-> 1 + Greatest({0} \cup {c.n : c \in Sightings(o)}), del |-> FALSE,
                   ver |-> latest[o]]
  <2>1. /\ opened /\ observations' = observations \cup {b}
        /\ UNCHANGED <<versions, latest, index, evidence, opened, setting, job>>
    BY <1>2 DEF Observe
  <2>2. \A c \in observations : c.obj = o => c.n < b.n
    BY <1>0, <1>2, <2>1, ObserveSame
  <2>3. b.obj = o /\ b.del = FALSE /\ b.ver = latest[o]
    OBVIOUS
  <2>4. b.n \in Pos
    <3>1. b \in observations'
      BY <2>1
    <3> HIDE DEF b
    <3> QED BY <1>1, <3>1 DEF SightingsOK
  <2> HIDE DEF b
  <2>5. ASSUME NEW v \in versions, v.id = latest[o]
        PROVE  v.obj = o
    <3>1. latest[o] # 0
      BY <1>0, <2>5, VersionFacts DEF Pos
    <3>2. PICK h \in History(o) : h.id = latest[o]
      BY <1>0, <3>1 DEF PointersOK, Heads
    <3> QED BY <1>0, <2>5, <3>2, VersionFacts DEF History
  <2>6. \A v \in versions : Remains(v)
    <3> SUFFICES ASSUME NEW v \in versions PROVE Remains(v)
      OBVIOUS
    <3>1. b.ver = v.id => b.obj = v.obj /\ b.del = FALSE
      BY <2>3, <2>5
    <3>2. \A c \in observations : c.obj = b.obj => c.n < b.n
      BY <2>2, <2>3
    <3>3. UNCHANGED versions /\ observations' = observations \cup {b}
      BY <2>1
    <3> QED BY ONLY <1>0, <2>4, <3>1, <3>2, <3>3, LaterSighting, v \in versions
  <2>7. Ids' = Ids
    BY <2>1 DEF Ids
  <2> QED BY <1>0, <1>1, <2>1, <2>6, <2>7, SameEvidence, SameItems DEF EvidenceInv
<1>3. CASE ~(~del /\ latest[o] \in Ids /\ DocOf(latest[o]) = doc)
  <2> DEFINE ver == NewVersion(o, doc)
             b == [obj |-> o, n |-> 1 + Greatest({0} \cup {c.n : c \in Sightings(o)}),
                   del |-> del, ver |-> ver.id]
  <2>1. /\ versions' = versions \cup {ver} /\ observations' = observations \cup {b}
        /\ evidence' = evidence \cup {MadeFrom(ver.id, doc, del)} /\ UNCHANGED job
    BY <1>3 DEF Observe, NewVersion
  <2>2. PICK x : x = ver
    OBVIOUS
  <2> HIDE DEF ver
  <2>3. x.id \in Pos /\ x.obj = o /\ x.doc = doc /\ \A w \in versions : w.id < x.id
    BY <1>0, <2>2, NewVersionIsLast DEF ver
  <2>4. PICK y : y = b
    OBVIOUS
  <2>5. y.ver = x.id /\ y.del = del /\ observations' = observations \cup {y}
    BY <2>1, <2>2, <2>4
  <2>6. versions' = versions \cup {x} /\ Ids' = Ids \cup {x.id}
    BY <2>1, <2>2 DEF Ids
  <2>7. x.id \notin Ids
    BY <1>0, <2>3, VersionFacts DEF Ids, Pos
  <2>8. \A c \in observations : c.ver \in Ids
    BY <1>0 DEF SightingsOK, History, Ids
  <2>9. \A v \in versions : Remains(v)
    <3> SUFFICES ASSUME NEW v \in versions PROVE Remains(v)
      OBVIOUS
    <3>1. v.id # x.id
      BY <2>7 DEF Ids
    <3>2. SightingsOf(v)' = SightingsOf(v)
      BY <2>5, <3>1 DEF SightingsOf
    <3> QED BY <2>6, <3>2 DEF Remains, SeenDeleted
  <2>10. SeenDeleted(x)' <=> del
    <3>1. SightingsOf(x)' = {y}
      BY <2>5, <2>7, <2>8 DEF SightingsOf
    <3>2. y.n \in Nat
      BY <1>1, <2>5 DEF SightingsOK, Pos
    <3> QED BY <2>5, <3>1, <3>2 DEF SeenDeleted
  <2>11. PICK m : m = MadeFrom(x.id, doc, del)
    OBVIOUS
  <2>12. m.ver = x.id /\ m.doc = doc /\ m.del = del /\ evidence' = evidence \cup {m}
    BY <2>1, <2>2, <2>11 DEF MadeFrom
  <2>13. Proves(m, x)' /\ x \in versions'
    BY <2>3, <2>6, <2>10, <2>12 DEF Proves
  <2>14. EvidenceOK'
    BY ONLY <1>0, <2>6, <2>9, <2>12, <2>13, EvidenceComes
  <2> QED BY <1>0, <1>1, <2>1, <2>9, <2>14, SameItems DEF EvidenceInv
<1> QED BY <1>2, <1>3

\* While retention is on no reindex waits.
LEMMA RetentionEvidence ==
  ASSUME ReindexIsOffline, setting \in Databases, EvidenceInv,
         NEW o \in Objects, NEW below, ApplyRetention(o, below)
  PROVE  EvidenceInv'
<1> DEFINE gone == {v.id : v \in {w \in History(o) : w.seq < below}}
                     \ ({latest[p] : p \in Objects} \cup {index[p] : p \in Objects})
<1>0. UpkeepInv /\ EvidenceOK /\ UpkeepInv'
  BY RetentionUpkeep DEF EvidenceInv
<1>1. /\ setting.retention /\ job.kind \notin Offline /\ UNCHANGED job
      /\ versions' = {v \in versions : v.id \notin gone}
      /\ observations' = {b \in observations : b.ver \notin gone}
      /\ evidence' = {e \in evidence : e.ver \notin gone}
  BY DEF ApplyRetention
<1> HIDE DEF gone
<1>2. ASSUME NEW v \in versions, v.id \notin gone
      PROVE  Still(v, v)
  <2>1. SightingsOf(v)' = SightingsOf(v)
    BY <1>1, <1>2 DEF SightingsOf
  <2> QED BY <1>1, <1>2, <2>1 DEF Still, SeenDeleted
<1>3. Ids' = Ids \ gone
  BY <1>1 DEF Ids
<1>4. EvidenceOK'
  <2>1. \A v \in versions : v.id \notin gone => \E w : Still(w, v)
    BY <1>2
  <2> QED BY ONLY <1>0, <1>1, <1>3, <2>1, EvidenceGoes
<1>5. job.kind # "reindex"
  BY <1>1 DEF ReindexIsOffline
<1> QED BY <1>0, <1>1, <1>4, <1>5 DEF EvidenceInv, ItemsOK

LEMMA OpenEvidence ==
  ASSUME EvidenceInv, Open
  PROVE  EvidenceInv'
<1>0. UpkeepInv /\ EvidenceOK /\ ItemsOK /\ UpkeepInv' /\ VersionsOK /\ RunsAreSeen /\ JobOK
  BY OpenUpkeep DEF EvidenceInv, UpkeepInv
<1>1. UNCHANGED <<versions, evidence, job>> /\ Ids' = Ids
  BY DEF Open, Ids
<1>2. ASSUME NEW v \in versions
      PROVE  Remains(v)
  <2>1. CASE observations # {}
    <3>1. UNCHANGED <<versions, observations>>
      BY <2>1 DEF Open
    <3> QED BY <3>1, SameRemains
  <2>2. CASE observations = {}
    <3>1. observations' = Made
      BY <2>2 DEF Open
    <3>2. \A b \in observations' : b.del = FALSE
      BY <3>1 DEF Made
    <3>3. ~SeenDeleted(v) /\ ~SeenDeleted(v)'
      BY <2>2, <3>2 DEF SeenDeleted, SightingsOf
    <3> QED BY <1>1, <3>3 DEF Remains
  <2> QED BY <2>1, <2>2
<1> QED BY <1>0, <1>1, <1>2, SameEvidence, SameItems DEF EvidenceInv

LEMMA PruneEvidence ==
  ASSUME EvidenceInv, PruneUnchanged
  PROVE  EvidenceInv'
<1>0. UpkeepInv /\ EvidenceOK /\ UpkeepInv' /\ JobOK /\ job.kind = "compact"
  BY PruneUpkeep DEF EvidenceInv, UpkeepInv, PruneUnchanged
<1>1. ItemsOK'
  <2>1. job' = Idle \/ job' = [job EXCEPT !.cursor = 1]
    BY DEF PruneUnchanged
  <2>2. job'.kind # "reindex"
    BY <1>0, <2>1 DEF JobOK, Idle
  <2> QED BY <2>2 DEF ItemsOK
<1>2. CASE UNCHANGED tables
  <2>1. UNCHANGED <<versions, observations, evidence>> /\ Ids' = Ids
    BY <1>2 DEF tables, Ids
  <2>2. \A v \in versions : Remains(v)
    BY <2>1, SameRemains
  <2> QED BY <1>0, <1>1, <2>1, <2>2, SameEvidence DEF EvidenceInv
<1>3. CASE ~UNCHANGED tables
  <2> DEFINE gone == Ids \ Observed
  <2>1. /\ versions' = {v \in versions : v.id \notin gone} /\ UNCHANGED observations
        /\ evidence' = {e \in evidence : e.ver \notin gone}
    BY <1>3 DEF PruneUnchanged
  <2> HIDE DEF gone
  <2>2. ASSUME NEW v \in versions, v.id \notin gone
        PROVE  Still(v, v)
    <3>1. SightingsOf(v)' = SightingsOf(v)
      BY <2>1 DEF SightingsOf
    <3> QED BY <2>1, <2>2, <3>1 DEF Still, SeenDeleted
  <2>3. Ids' = Ids \ gone
    BY <2>1 DEF Ids
  <2>4. EvidenceOK'
    <3>1. \A v \in versions : v.id \notin gone => \E w : Still(w, v)
      BY <2>2
    <3> QED BY ONLY <1>0, <2>1, <2>3, <3>1, EvidenceGoes
  <2> QED BY <1>0, <1>1, <2>4 DEF EvidenceInv
<1> QED BY <1>2, <1>3

\* What is moved to a version that was seen was seen after it.
LEMMA MovedLater ==
  ASSUME VersionsOK, SightingsOK, NEW plan, PrunesOK(plan), NEW v \in versions,
         NEW b \in observations, Moved(plan.prunes, b.ver) = v.id, b.ver # v.id
  PROVE  /\ v.obj \in plan.objects /\ v.id \notin PrunedIn(plan)
         /\ \A d \in SightingsOf(v) : d.n < b.n
<1>1. b.ver \in PrunedIn(plan)
  BY MovedIs
<1>2. PICK p \in plan.prunes : p.id = b.ver
  BY <1>1 DEF PrunedIn
<1>3. p.canonical = v.id /\ p.canonical < p.id /\ p.canonical \notin PrunedIn(plan)
  BY <1>2, MovedIs DEF PrunesOK
<1>4. PICK u \in History(b.obj) : u.id = b.ver
  BY DEF SightingsOK
<1>5. Replaces(plan, p, u) /\ u.obj = b.obj
  BY <1>2, <1>4 DEF PrunesOK, History
<1>6. v.obj = b.obj /\ v.obj \in plan.objects
  BY <1>3, <1>5 DEF Replaces
<1>7. ASSUME NEW d \in SightingsOf(v)
      PROVE  d.n < b.n
  <2>1. d \in observations /\ d.ver = v.id
    BY DEF SightingsOf
  <2>2. PICK w \in History(d.obj) : w.id = d.ver
    BY <2>1 DEF SightingsOK
  <2>3. d.obj = b.obj
    BY <1>6, <2>1, <2>2, VersionFacts DEF History
  <2>4. d.ver < b.ver /\ d.ver \in Nat /\ b.ver \in Nat /\ d.n \in Nat /\ b.n \in Nat
    BY <1>2, <1>3, <2>1, SightingFacts DEF Pos
  <2>5. d.n # b.n /\ ~(b.n < d.n)
    BY <2>1, <2>3, <2>4 DEF SightingsOK
  <2> QED BY <2>4, <2>5
<1> QED BY <1>3, <1>6, <1>7

\* A version that stays is the deletion that it was, whatever is moved to it.
LEMMA BackfillSeen ==
  ASSUME VersionsOK, SightingsOK, NEW plan, BackfillOK(plan), Backfilled(plan),
         NEW v \in versions, v.id \notin PrunedIn(plan), NEW w, w.id = v.id
  PROVE  SeenDeleted(w)' <=> SeenDeleted(v)
<1>0. PrunesOK(plan) /\ UnseenGo(plan) /\ Moved(plan.prunes, v.id) = v.id
  BY MovedIs DEF BackfillOK
<1>1. /\ \A c \in observations' : \E b \in observations : Moves(c, b, plan)
      /\ \A b \in observations : \E c \in observations' : Moves(c, b, plan)
  BY SightingsMove DEF Backfilled
<1>2. ASSUME NEW b \in SightingsOf(v)
      PROVE  \E c \in SightingsOf(w)' : c.n = b.n /\ c.del = b.del
  <2>1. b \in observations /\ b.ver = v.id
    BY DEF SightingsOf
  <2>2. PICK c \in observations' : Moves(c, b, plan)
    BY <1>1, <2>1
  <2> QED BY <1>0, <2>1, <2>2 DEF Moves, SightingsOf
<1>3. ASSUME NEW c \in SightingsOf(w)'
      PROVE  \E b \in observations :
               /\ c.n = b.n /\ c.del = b.del /\ SightingsOf(v) # {}
               /\ b \in SightingsOf(v) \/ \A d \in SightingsOf(v) : d.n < b.n
  <2>1. c \in observations' /\ c.ver = v.id
    BY DEF SightingsOf
  <2>2. PICK b \in observations : Moves(c, b, plan)
    BY <1>1, <2>1
  <2>3. CASE b.ver = v.id
    BY <2>2, <2>3 DEF Moves, SightingsOf
  <2>4. CASE b.ver # v.id
    <3>1. /\ v.obj \in plan.objects /\ v.id \notin PrunedIn(plan)
          /\ \A d \in SightingsOf(v) : d.n < b.n
      BY <1>0, <2>1, <2>2, <2>4, MovedLater DEF Moves
    <3>2. Seen(v)
      BY <1>0, <3>1 DEF UnseenGo
    <3>3. SightingsOf(v) # {}
      BY <3>2 DEF Seen, Observed, SightingsOf
    <3> QED BY <2>2, <3>1, <3>3 DEF Moves
  <2> QED BY <2>3, <2>4
<1>4. \A b \in observations : b.n \in Nat
  BY SightingFacts DEF Pos
<1>5. \A b \in SightingsOf(v) : b \in observations
  BY DEF SightingsOf
<1>6. ASSUME SeenDeleted(v) PROVE SeenDeleted(w)'
  <2>1. PICK f \in SightingsOf(v) : f.del /\ \A d \in SightingsOf(v) : d.n >= f.n
    BY <1>6 DEF SeenDeleted
  <2>2. PICK g \in SightingsOf(w)' : g.n = f.n /\ g.del = f.del
    BY <1>2
  <2>3. ASSUME NEW c \in SightingsOf(w)' PROVE c.n >= g.n
    <3>1. PICK b \in observations :
            /\ c.n = b.n
            /\ b \in SightingsOf(v) \/ \A d \in SightingsOf(v) : d.n < b.n
      BY <1>3
    <3>2. b.n >= f.n
      BY <1>4, <1>5, <2>1, <3>1
    <3> QED BY <2>2, <3>1, <3>2
  <2> QED BY <2>1, <2>2, <2>3 DEF SeenDeleted
<1>7. ASSUME SeenDeleted(w)' PROVE SeenDeleted(v)
  <2>1. PICK g \in SightingsOf(w)' : g.del /\ \A c \in SightingsOf(w)' : c.n >= g.n
    BY <1>7 DEF SeenDeleted
  <2>2. PICK b \in observations :
          /\ g.n = b.n /\ g.del = b.del /\ SightingsOf(v) # {}
          /\ b \in SightingsOf(v) \/ \A d \in SightingsOf(v) : d.n < b.n
    BY <1>3
  <2>3. \A d \in SightingsOf(v) : d.n >= b.n
    BY <1>2, <2>1, <2>2
  <2>4. b \in SightingsOf(v)
    BY <1>4, <1>5, <2>2, <2>3
  <2> QED BY <2>1, <2>2, <2>3, <2>4 DEF SeenDeleted
<1> QED BY <1>6, <1>7

LEMMA BackfillEvidence ==
  ASSUME EvidenceInv, ApplyBackfill
  PROVE  EvidenceInv'
<1>0. /\ UpkeepInv /\ EvidenceOK /\ UpkeepInv' /\ JobOK /\ VersionsOK /\ SightingsOK
      /\ job.kind = "backfill" /\ job.plan # NoPlan
  BY ApplyBackfillUpkeep DEF EvidenceInv, UpkeepInv, ApplyBackfill
<1>1. ItemsOK'
  <2>1. job' = Idle \/ job' = [job EXCEPT !.plan = NoPlan]
    BY DEF ApplyBackfill, Applied
  <2>2. job'.kind # "reindex"
    BY <1>0, <2>1 DEF JobOK, Idle
  <2> QED BY <2>2 DEF ItemsOK
<1>2. CASE UNCHANGED tables
  <2>1. UNCHANGED <<versions, observations, evidence>> /\ Ids' = Ids
    BY <1>2 DEF tables, Ids
  <2>2. \A v \in versions : Remains(v)
    BY <2>1, SameRemains
  <2> QED BY <1>0, <1>1, <2>1, <2>2, SameEvidence DEF EvidenceInv
<1>3. CASE ~UNCHANGED tables
  <2>1. PICK plan : plan = job.plan
    OBVIOUS
  <2>2. Backfilled(plan) /\ evidence' = {e \in evidence : e.ver \notin PrunedIn(plan)}
    BY <1>3, <2>1 DEF ApplyBackfill, Backfilled, PrunedIn
  <2>3. BackfillOK(plan)
    BY <1>0, <2>1 DEF JobOK
  <2>4. Stays(plan)
    BY <1>0, <2>2, <2>3, BackfillStays
  <2>5. Ids' = Ids \ PrunedIn(plan)
    BY <2>4 DEF Stays, Like, Ids
  <2>6. ASSUME NEW v \in versions, v.id \notin PrunedIn(plan)
        PROVE  \E w : Still(w, v)
    <3>1. PICK w \in versions' : Like(w, v)
      BY <2>4, <2>6 DEF Stays
    <3>2. w.id = v.id /\ Normal[w.doc] = Normal[v.doc]
      BY <3>1 DEF Like
    <3>3. SeenDeleted(w)' <=> SeenDeleted(v)
      BY <1>0, <2>2, <2>3, <2>6, <3>2, BackfillSeen
    <3> QED BY <3>1, <3>2, <3>3 DEF Still
  <2>7. EvidenceOK'
    <3>1. PICK gone : gone = PrunedIn(plan)
      OBVIOUS
    <3> QED BY ONLY <1>0, <2>2, <2>5, <2>6, <3>1, EvidenceGoes
  <2> QED BY <1>0, <1>1, <2>7 DEF EvidenceInv
<1> QED BY <1>2, <1>3

LEMMA PlanReindexEvidence ==
  ASSUME EvidenceInv, PlanReindex
  PROVE  EvidenceInv'
<1>0. UpkeepInv /\ EvidenceOK /\ UpkeepInv' /\ JobOK
  BY OtherJobsUpkeep DEF EvidenceInv, UpkeepInv
<1>1. UNCHANGED <<versions, observations, evidence>> /\ Ids' = Ids
  BY DEF PlanReindex, tables, Ids
<1>2. \A v \in versions : Remains(v)
  BY <1>1, SameRemains
<1>3. EvidenceOK'
  BY <1>0, <1>1, <1>2, SameEvidence
<1> DEFINE objects == NextObjects(job.cursor)
           I(v) == [ver |-> v.id, doc |-> v.doc, del |-> SeenDeleted(v), obj |-> v.obj]
           items == {I(v) : v \in {w \in versions : w.obj \in objects}}
<1>4. job'.plan.items = items
  <2>1. job' = [job EXCEPT !.cursor = Greatest(objects), !.plan = [objects |-> objects, items |-> items]]
    BY DEF PlanReindex, Planned
  <2> QED BY <1>0, <2>1 DEF JobOK
<1>5. ASSUME NEW v \in versions
      PROVE  Proves(MadeFrom(I(v).ver, I(v).doc, I(v).del), v)'
  <2>1. SeenDeleted(v)' <=> SeenDeleted(v)
    BY <1>2 DEF Remains
  <2>2. /\ I(v).ver = v.id /\ I(v).doc = v.doc /\ I(v).del = SeenDeleted(v)
        /\ UNCHANGED <<I(v).ver, I(v).doc, I(v).del>>
    BY <1>1 DEF SeenDeleted, SightingsOf
  <2> HIDE DEF I
  <2> QED BY <2>1, <2>2 DEF Proves, MadeFrom
<1>6. ItemsOK'
  <2> SUFFICES ASSUME NEW i \in items
               PROVE  \E v \in versions' : Proves(MadeFrom(i.ver, i.doc, i.del), v)'
    BY <1>4 DEF ItemsOK, Proves, MadeFrom
  <2>1. PICK v \in versions : i = I(v)
    OBVIOUS
  <2>2. SeenDeleted(v)' <=> SeenDeleted(v)
    BY <1>2 DEF Remains
  <2>3. i.ver = v.id /\ i.doc = v.doc /\ (i.del <=> SeenDeleted(v))
    BY <2>1
  <2> QED BY <1>1, <2>2, <2>3 DEF Proves, MadeFrom
<1> QED BY <1>0, <1>3, <1>6 DEF EvidenceInv

LEMMA ApplyReindexEvidence ==
  ASSUME EvidenceInv, ApplyReindex
  PROVE  EvidenceInv'
<1>0. UpkeepInv /\ EvidenceOK /\ ItemsOK /\ UpkeepInv' /\ JobOK
  BY OtherJobsUpkeep DEF EvidenceInv, UpkeepInv
<1>1. UNCHANGED <<versions, observations>> /\ Ids' = Ids
  BY DEF ApplyReindex, Ids
<1>2. \A v \in versions : Remains(v)
  BY <1>1, SameRemains
<1>3. ItemsOK'
  <2>1. job'.plan = NoPlan
    BY <1>0 DEF ApplyReindex, Applied, JobOK
  <2> QED BY <2>1 DEF ItemsOK
<1>4. PICK items : items = job.plan.items
  OBVIOUS
<1>5. evidence' = EvidenceWithout(items) \cup {MadeFrom(i.ver, i.doc, i.del) : i \in items}
  BY <1>4 DEF ApplyReindex
<1>6. \A i \in items : \E v \in versions : Proves(MadeFrom(i.ver, i.doc, i.del), v)
  BY <1>0, <1>4 DEF ItemsOK, ApplyReindex
<1>7. ASSUME NEW e \in evidence'
      PROVE  \E w \in versions' : Proves(e, w)'
  <2>1. \E v \in versions : Proves(e, v)
    BY <1>0, <1>5, <1>6 DEF EvidenceOK, EvidenceWithout
  <2> QED BY <1>2, <2>1, StillProves
<1>8. {e.ver : e \in evidence'} = Ids'
  <2>1. ASSUME NEW id \in Ids
        PROVE  \E e \in evidence' : e.ver = id
    <3>1. CASE \E i \in items : i.ver = id
      <4>1. PICK i \in items : i.ver = id
        BY <3>1
      <4>2. MadeFrom(i.ver, i.doc, i.del).ver = id
        BY <4>1 DEF MadeFrom
      <4> QED BY <1>5, <4>2
    <3>2. CASE ~\E i \in items : i.ver = id
      <4>1. PICK e \in evidence : e.ver = id
        BY <1>0 DEF EvidenceOK
      <4> QED BY <1>5, <3>2, <4>1 DEF EvidenceWithout
    <3> QED BY <3>1, <3>2
  <2>2. ASSUME NEW e \in evidence'
        PROVE  e.ver \in Ids
    <3>1. PICK w \in versions' : Proves(e, w)'
      BY <1>7
    <3> QED BY <1>1, <3>1 DEF Proves, Ids
  <2> QED BY <1>1, <2>1, <2>2
<1> QED BY <1>0, <1>3, <1>7, <1>8 DEF EvidenceInv, EvidenceOK

LEMMA OtherEvidence ==
  ASSUME EvidenceInv, UNCHANGED vars \/ Quit \/ PlanBackfill \/ Compact
                      \/ (\E kind \in {"backfill", "reindex", "compact"} : Start(kind)),
         UpkeepInv'
  PROVE  EvidenceInv'
<1>0. EvidenceOK /\ ItemsOK /\ JobOK
  BY DEF EvidenceInv, UpkeepInv
<1>1. UNCHANGED <<versions, observations, evidence>> /\ Ids' = Ids
  BY DEF Quit, PlanBackfill, Compact, Start, vars, tables, Ids
<1>2. \A v \in versions : Remains(v)
  BY <1>1, SameRemains
<1>3. ItemsOK'
  <2>1. CASE UNCHANGED vars
    BY <1>0, <1>2, <2>1, SameItems DEF vars
  <2>2. CASE PlanBackfill
    <3>1. PICK c, p : job' = [job EXCEPT !.cursor = c, !.plan = p] /\ job.kind = "backfill"
      BY <2>2 DEF PlanBackfill, Planned
    <3> QED BY <1>0, <3>1 DEF JobOK, ItemsOK
  <2>3. CASE Quit \/ Compact \/ (\E kind \in {"backfill", "reindex", "compact"} : Start(kind))
    <3>1. job'.plan = NoPlan
      BY <2>3 DEF Quit, Compact, Start, Idle
    <3> QED BY <3>1 DEF ItemsOK
  <2> QED BY <2>1, <2>2, <2>3
<1> QED BY <1>0, <1>1, <1>2, <1>3, SameEvidence DEF EvidenceInv

LEMMA NextEvidence ==
  ASSUME ReindexIsOffline, setting \in Databases, EvidenceInv, [Next]_vars
  PROVE  EvidenceInv' /\ setting' \in Databases
<1>0. UpkeepInv'
  BY NextUpkeep DEF EvidenceInv
<1>1. CASE Open
  BY <1>1, OpenEvidence DEF Open
<1>2. CASE \E o \in Objects, doc \in Docs, del \in BOOLEAN : Observe(o, doc, del)
  <2>1. PICK o \in Objects, doc \in Docs, del \in BOOLEAN : Observe(o, doc, del)
    BY <1>2
  <2> QED BY <2>1, ObserveEvidence DEF Observe
<1>3. CASE \E o \in Objects, below \in 2..setting.room : ApplyRetention(o, below)
  <2>1. PICK o \in Objects, below \in 2..setting.room : ApplyRetention(o, below)
    BY <1>3
  <2> QED BY <2>1, RetentionEvidence DEF ApplyRetention
<1>4. CASE PlanReindex
  BY <1>4, PlanReindexEvidence DEF PlanReindex
<1>5. CASE ApplyReindex
  BY <1>5, ApplyReindexEvidence DEF ApplyReindex
<1>6. CASE ApplyBackfill
  BY <1>6, BackfillEvidence DEF ApplyBackfill
<1>7. CASE PruneUnchanged
  BY <1>7, PruneEvidence DEF PruneUnchanged
<1>8. CASE UNCHANGED vars \/ Quit \/ PlanBackfill \/ Compact
           \/ (\E kind \in {"backfill", "reindex", "compact"} : Start(kind))
  <2>1. UNCHANGED setting
    BY <1>8 DEF vars, Quit, PlanBackfill, Compact, Start
  <2> QED BY <1>0, <1>8, <2>1, OtherEvidence
<1> QED BY <1>1, <1>2, <1>3, <1>4, <1>5, <1>6, <1>7, <1>8 DEF Next

\* Every stored version has the evidence that is made of it, all evidence cites
\* a stored version, and says of it what its document and its first sighting
\* say: also after a reindex that was planned before the collector wrote, and a
\* backfill that merged versions.
THEOREM EvidenceStays ==
  ASSUME RetentionIsNew, ReindexIsOffline
  PROVE  Spec => []EvidenceHasProof
<1>1. Init => EvidenceInv /\ setting \in Databases
  BY InitUpkeep, InitEvidence DEF Init
<1>2. EvidenceInv /\ setting \in Databases /\ [Next]_vars => (EvidenceInv /\ setting \in Databases)'
  BY NextEvidence
<1>3. EvidenceInv => EvidenceHasProof
  BY DEF EvidenceInv, EvidenceOK, EvidenceHasProof, Proves
<1> QED BY <1>1, <1>2, <1>3, PTL DEF Spec

-----------------------------------------------------------------------------
(* The story that is told.                                                     *)

LEMMA SameStory ==
  ASSUME UNCHANGED <<versions, observations>>, NEW o
  PROVE  Story(o)' = Story(o)
  BY DEF Story, Sightings, History, DocOf

LEMMA DocIsThen ==
  ASSUME VersionsOK', NEW v \in versions'
  PROVE  DocOf(v.id)' = v.doc
<1>1. \A w \in versions' : w.id = v.id => w = v
  BY DEF VersionsOK
<1> QED BY <1>1 DEF DocOf

\* A sighting of the same content, up to the filters.
Retold(c, b) ==
  /\ c.obj = b.obj /\ c.n = b.n /\ c.del = b.del
  /\ Normal[DocOf(c.ver)'] = Normal[DocOf(b.ver)]

LEMMA StoryRetold ==
  ASSUME VersionsOK, SightingsOK, RunsAreSeen, opened,
         \A c \in observations' : \E b \in observations : Retold(c, b),
         \A b \in observations : \E c \in observations' : Retold(c, b),
         \A w \in versions' : \E v \in versions : w.obj = v.obj,
         NEW o
  PROVE  Story(o)' = Story(o)
<1> DEFINE F(b) == <<b.n, b.del, Normal[DocOf(b.ver)]>>
           G(c) == <<c.n, c.del, Normal[DocOf(c.ver)']>>
<1>1. \A c, b : Retold(c, b) => G(c) = F(b) /\ c.obj = b.obj
  BY DEF Retold
<1> HIDE DEF F, G
<1>2. {G(c) : c \in Sightings(o)'} = {F(b) : b \in Sightings(o)}
  BY <1>1 DEF Sightings
<1>3. Sightings(o)' = {} <=> Sightings(o) = {}
  BY <1>1 DEF Sightings
<1>4. CASE Sightings(o) # {}
  <2>1. Story(o) = {F(b) : b \in Sightings(o)}
    BY <1>4 DEF Story, F
  <2>2. Story(o)' = {G(c) : c \in Sightings(o)'}
    BY <1>3, <1>4 DEF Story, G
  <2> QED BY <1>2, <2>1, <2>2
<1>5. CASE Sightings(o) = {}
  <2>1. History(o) = {}
    BY <1>5, HasSightings DEF History
  <2>2. History(o)' = {}
    BY <2>1 DEF History
  <2> QED BY <1>3, <1>5, <2>1, <2>2 DEF Story
<1> QED BY <1>4, <1>5

LEMMA BackfillTellsTheSame ==
  ASSUME UpkeepInv, ApplyBackfill, NEW o
  PROVE  Story(o)' = Story(o)
<1>0. /\ VersionsOK /\ SightingsOK /\ RunsAreSeen /\ JobOK /\ VersionsOK'
      /\ job.kind = "backfill" /\ job.plan # NoPlan
  BY ApplyBackfillUpkeep DEF UpkeepInv, ApplyBackfill
<1>1. CASE UNCHANGED tables
  BY <1>1, SameStory DEF tables
<1>2. CASE ~UNCHANGED tables
  <2>1. PICK plan : plan = job.plan
    OBVIOUS
  <2>2. Backfilled(plan)
    BY <1>2, <2>1 DEF ApplyBackfill, Backfilled, PrunedIn
  <2>3. BackfillOK(plan) /\ PrunesOK(plan)
    BY <1>0, <2>1 DEF JobOK, BackfillOK
  <2>4. Stays(plan)
    BY <1>0, <2>2, <2>3, BackfillStays
  <2>5. /\ \A c \in observations' : \E b \in observations : Moves(c, b, plan)
        /\ \A b \in observations : \E c \in observations' : Moves(c, b, plan)
    BY <1>0, <2>2, SightingsMove DEF Backfilled
  <2>6. ASSUME NEW b \in observations, NEW c \in observations', Moves(c, b, plan)
        PROVE  Retold(c, b)
    <3>1. PICK v \in History(b.obj) : v.id = b.ver
      BY <1>0 DEF SightingsOK
    <3>2. v \in versions
      BY <3>1 DEF History
    <3>3. PICK d \in versions : Lands(d, v, plan)
      BY <1>0, <2>2, <2>3, <3>2, EachMoves, MovedLands
    <3>4. PICK w \in versions' : Like(w, d)
      BY <2>4, <3>3 DEF Stays, Lands
    <3>5. w.id = c.ver /\ Normal[w.doc] = Normal[v.doc]
      BY <2>6, <3>1, <3>3, <3>4 DEF Moves, Lands, Like
    <3>6. DocOf(w.id)' = w.doc /\ DocOf(v.id) = v.doc
      BY <1>0, <3>2, <3>4, DocIs, DocIsThen
    <3> QED BY <2>6, <3>1, <3>5, <3>6 DEF Moves, Retold
  <2>7. \A w \in versions' : \E v \in versions : w.obj = v.obj
    BY <2>4 DEF Stays, Like
  <2>8. opened
    BY <1>0 DEF JobOK, Idle
  <2> QED BY <1>0, <2>5, <2>6, <2>7, <2>8, StoryRetold
<1> QED BY <1>1, <1>2

LEMMA PruneTellsTheSame ==
  ASSUME UpkeepInv, PruneUnchanged, NEW o
  PROVE  Story(o)' = Story(o)
<1>0. VersionsOK /\ SightingsOK /\ RunsAreSeen /\ JobOK /\ VersionsOK' /\ job.kind = "compact"
  BY PruneUpkeep DEF UpkeepInv, PruneUnchanged
<1>1. CASE UNCHANGED tables
  BY <1>1, SameStory DEF tables
<1>2. CASE ~UNCHANGED tables
  <2>1. versions' = {v \in versions : v.id \notin Ids \ Observed} /\ UNCHANGED observations
    BY <1>2 DEF PruneUnchanged
  <2>2. ASSUME NEW b \in observations
        PROVE  Retold(b, b)
    <3>1. PICK v \in versions : v.id = b.ver
      BY <1>0 DEF SightingsOK, History
    <3>2. v \in versions'
      BY <2>1, <3>1 DEF Observed
    <3>3. DocOf(v.id)' = v.doc /\ DocOf(v.id) = v.doc
      BY <1>0, <3>1, <3>2, DocIs, DocIsThen
    <3> QED BY <3>1, <3>3 DEF Retold
  <2>3. opened
    BY <1>0 DEF JobOK, Idle
  <2> QED BY <1>0, <2>1, <2>2, <2>3, StoryRetold
<1> QED BY <1>1, <1>2

\* The sightings that a migration makes tell what the versions told.
LEMMA OpenTellsTheSame ==
  ASSUME UpkeepInv, Open, NEW o
  PROVE  Story(o)' = Story(o)
<1>0. VersionsOK
  BY DEF UpkeepInv
<1>1. CASE observations # {}
  <2>1. UNCHANGED <<versions, observations>>
    BY <1>1 DEF Open
  <2> QED BY <2>1, SameStory
<1>2. CASE observations = {}
  <2> DEFINE B(v) == [obj |-> v.obj, n |-> v.seq, del |-> FALSE, ver |-> RunStart(v).id]
             F(v) == <<v.seq, FALSE, Normal[v.doc]>>
             G(c) == <<c.n, c.del, Normal[DocOf(c.ver)]>>
  <2>1. observations' = {B(v) : v \in versions} /\ UNCHANGED versions
    BY <1>2 DEF Open, Made
  <2>2. \A v \in versions : G(B(v)) = F(v)
    <3> SUFFICES ASSUME NEW v \in versions PROVE G(B(v)) = F(v)
      OBVIOUS
    <3>1. PICK r \in versions : r = RunStart(v) /\ Starts(r, v)
      BY <1>0, RunStartStarts
    <3>2. v.id \in Nat /\ r.id \in Nat /\ r \in History(v.obj) /\ r.id <= v.id
      BY <1>0, <3>1, VersionFacts DEF Starts, SameFrom, Pos
    <3>3. r.doc = v.doc
      BY <3>1, <3>2 DEF Starts, SameFrom
    <3>4. DocOf(r.id) = v.doc
      BY <1>0, <3>3, DocIs
    <3> QED BY <3>1, <3>4
  <2>3. \A v \in versions : B(v).obj = v.obj
    OBVIOUS
  <2> HIDE DEF B
  <2>4. Sightings(o)' = {B(v) : v \in History(o)}
    BY <2>1, <2>3 DEF Sightings, History
  <2>5. Story(o) = {F(v) : v \in History(o)}
    BY <1>2 DEF Story, Sightings
  <2>6. {G(c) : c \in Sightings(o)'} = {F(v) : v \in History(o)}
    <3> HIDE DEF F, G
    <3>1. \A v \in History(o) : v \in versions
      BY DEF History
    <3> QED BY <2>2, <2>4, <3>1
  <2>7. CASE History(o) # {}
    <3>1. Sightings(o)' # {}
      BY <2>4, <2>7
    <3>2. Story(o)' = {G(c) : c \in Sightings(o)'}
      BY <2>1, <3>1 DEF Story, DocOf
    <3> QED BY <2>5, <2>6, <3>2
  <2>8. CASE History(o) = {}
    BY <2>1, <2>4, <2>5, <2>8 DEF Story, History
  <2> QED BY <2>7, <2>8
<1> QED BY <1>1, <1>2

LEMMA NextTellsTheSame ==
  ASSUME UpkeepInv, [Next]_vars, job' # job \/ opened' # opened, NEW o \in Objects
  PROVE  Story(o)' = Story(o)
<1>1. CASE Open
  BY <1>1, OpenTellsTheSame
<1>2. CASE ApplyBackfill
  BY <1>2, BackfillTellsTheSame
<1>3. CASE PruneUnchanged
  BY <1>3, PruneTellsTheSame
<1>4. CASE Quit \/ PlanBackfill \/ PlanReindex \/ ApplyReindex \/ Compact
           \/ (\E kind \in {"backfill", "reindex", "compact"} : Start(kind))
  <2>1. UNCHANGED <<versions, observations>>
    BY <1>4 DEF Quit, PlanBackfill, PlanReindex, ApplyReindex, Compact, Start, tables
  <2> QED BY <2>1, SameStory
<1>5. CASE UNCHANGED vars
  BY <1>5, SameStory DEF vars, tables
<1>6. CASE \E p \in Objects, doc \in Docs, del \in BOOLEAN : Observe(p, doc, del)
  <2>1. UNCHANGED <<job, opened>>
    BY <1>6 DEF Observe
  <2> QED BY <2>1
<1>7. CASE \E p \in Objects, below \in 2..setting.room : ApplyRetention(p, below)
  <2>1. UNCHANGED <<job, opened>>
    BY <1>7 DEF ApplyRetention
  <2> QED BY <2>1
<1> QED BY <1>1, <1>2, <1>3, <1>4, <1>5, <1>6, <1>7 DEF Next

\* No migration, no backfill, no reindex and no compaction changes what an object
\* was seen as, one sighting after the other, although they make, move, merge
\* and delete what the sightings refer to.
THEOREM StoryStays ==
  ASSUME RetentionIsNew
  PROVE  Spec => StoryIsKept
<1>1. Init => UpkeepInv
  BY InitUpkeep
<1>2. UpkeepInv /\ [Next]_vars => UpkeepInv'
  BY NextUpkeep
<1>3. UpkeepInv /\ [Next]_vars => [job' # job \/ opened' # opened => \A o \in Objects : Story(o)' = Story(o)]_vars
  BY NextTellsTheSame
<1> QED BY <1>1, <1>2, <1>3, PTL DEF Spec, StoryIsKept
=============================================================================
