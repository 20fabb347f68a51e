------------------------------ MODULE SqliteUpkeep ------------------------------
(***************************************************************************)
(* The maintenance commands of the SQLite store, beside a collector that   *)
(* keeps writing: the migrations made whenever the database is opened,     *)
(* db backfill, db reindex and db compact.  SqliteStore has the writing of *)
(* observations and the identity of objects; here an object is a number    *)
(* and its writing is one step.                                            *)
(*                                                                         *)
(* Backfill and reindex work object by object in batches.  Each batch is   *)
(* planned by a query and applied by a transaction; the collector and its  *)
(* retention may come between the two, and the command may end anywhere.   *)
(* Dry runs change nothing and are left out.                               *)
(***************************************************************************)
EXTENDS Integers, Sequences, FiniteSets

CONSTANTS
  LastObject,   \* objects are 1..LastObject, in the order of their ids
  Docs,         \* documents
  Contents,     \* the documents each object may have
  Normal,       \* what the filter chain now in force makes of a document
  Refers,       \* the documents of object 1 that name object 2
  Batch,        \* objects per batch
  Databases,    \* the documents found for object 1, with retention or not, and
                \* bound: the observations of all objects
  Offline       \* the commands that are run while retention is not

Objects == 1..LastObject

ASSUME UpkeepAssumption ==
  /\ LastObject \in Nat \ {0} /\ Batch \in Nat \ {0}
  /\ IsFiniteSet(Docs) /\ Refers \subseteq Docs
  /\ Normal \in [Docs -> Docs] /\ \A d \in Docs : Normal[Normal[d]] = Normal[d]
  /\ Contents \in [Objects -> SUBSET Docs]
  /\ Databases \subseteq [found : Seq(Docs), retention : BOOLEAN, room : Nat]
  /\ Offline \subseteq {"backfill", "reindex", "compact"}

VARIABLES
  \* the database
  versions,     \* [id, obj, seq, doc]; ids are given by the highest that is stored
  observations, \* [obj, n, del, ver]: the n-th of an object saw that version of it
  latest,       \* objects.latest_version_id, 0 for none
  index,        \* latest_index.latest_version_id, 0 for no row
  deleted,      \* objects.deleted_at is set
  raw,          \* the object has a row in latest_raw_index
  evidence,     \* facts, changes and edges: [ver, doc, del], what they were made of
  blobs,        \* the documents stored
  \* the processes
  opened,       \* the database was opened by this version of the program
  setting,      \* the database that was found
  job           \* the command under way, the last object it planned, its plan

tables == <<versions, observations, latest, index, deleted, raw, evidence, blobs>>
vars   == <<tables, opened, setting, job>>

NoPlan == [objects |-> {}]
Idle   == [kind |-> "none", cursor |-> 0, plan |-> NoPlan]

Greatest(S) == CHOOSE n \in S : \A m \in S : n >= m

History(o) == {v \in versions : v.obj = o}
Sightings(o) == {b \in observations : b.obj = o}
Ids        == {v.id : v \in versions}
DocOf(id)  == (CHOOSE v \in versions : v.id = id).doc

\* The facts, changes and edges that are stored with a version.
MadeFrom(id, doc, del) == [ver |-> id, doc |-> doc, del |-> del]

Before(v) == {w \in History(v.obj) : w.seq < v.seq}

--------------------------------------------------------------------------------
\* A new database is empty.  One of an older version has no observations and no
\* raw documents, and a version for every sighting, changed or not.
Init ==
  /\ \E d \in Databases :
       /\ versions = {[id |-> i, obj |-> 1, seq |-> i, doc |-> d.found[i]] : i \in DOMAIN d.found}
       /\ latest = [o \in Objects |-> IF o = 1 THEN Len(d.found) ELSE 0]
       /\ setting = d
  /\ index = latest
  /\ evidence = {MadeFrom(v.id, v.doc, FALSE) : v \in versions}
  /\ blobs = {v.doc : v \in versions}
  /\ observations = {}
  /\ deleted = [o \in Objects |-> FALSE]
  /\ raw = [o \in Objects |-> FALSE]
  /\ opened = FALSE
  /\ job = Idle

--------------------------------------------------------------------------------
\* Opening: the migrations.

\* Mutant: the first version with the same document, whatever came between.
FirstAlike(v) ==
  CHOOSE c \in History(v.obj) :
    /\ c.doc = v.doc
    /\ \A w \in History(v.obj) : w.doc = v.doc => c.seq <= w.seq

\* The first version of the run of equal documents that v belongs to.
RunStart(v) ==
  CHOOSE c \in Before(v) \cup {v} :
    /\ \A w \in Before(v) \cup {v} : w.seq >= c.seq => w.doc = v.doc
    /\ \A w \in Before(c) : \E b \in Before(c) : b.seq >= w.seq /\ b.doc # v.doc

\* One observation for each version, in the order of their numbers.
Made == {[obj |-> v.obj, n |-> v.seq, del |-> FALSE, ver |-> RunStart(v).id] : v \in versions}

\* backfillLatestRawIndex: of deleted objects too.
RawMade == IF \E o \in Objects : raw[o] THEN raw ELSE [o \in Objects |-> index[o] # 0]

\* migrate.
Open ==
  /\ opened' = TRUE
  /\ raw' = RawMade
  /\ observations' = IF observations # {} THEN observations ELSE Made
  /\ UNCHANGED <<versions, latest, index, deleted, evidence, blobs, setting, job>>

--------------------------------------------------------------------------------
\* The collector.

Names2(o, doc) == o = 1 /\ doc \in Refers /\ 2 \in Objects

\* An edge looks its target up, or makes it, as an object that is not deleted.
Touched(del, o, docs) ==
  [p \in Objects |-> IF p = 2 /\ \E d \in docs : Names2(o, d) THEN FALSE ELSE del[p]]

\* PutRawLatest and PutObservation.  The first has cleared the deletion mark when
\* the second looks whether the content has changed.
Observe(o, doc, del) ==
  LET same == ~del /\ latest[o] \in Ids /\ DocOf(latest[o]) = doc
      ver  == [id |-> 1 + Greatest({0} \cup Ids), obj |-> o,
               seq |-> 1 + Greatest({0} \cup {v.seq : v \in History(o)}), doc |-> doc]
      seen(id) == [obj |-> o, n |-> 1 + Greatest({0} \cup {b.n : b \in Sightings(o)}),
                   del |-> del, ver |-> id]
      mark == [deleted EXCEPT ![o] = del]
  IN  /\ opened /\ doc \in Contents[o] /\ Cardinality(observations) < setting.room
      /\ raw' = [raw EXCEPT ![o] = ~del]
      /\ \/ /\ same
            /\ observations' = observations \cup {seen(latest[o])}
            /\ deleted' = mark
            /\ UNCHANGED <<versions, latest, index, evidence, blobs>>
         \/ /\ ~same
            /\ versions' = versions \cup {ver}
            /\ observations' = observations \cup {seen(ver.id)}
            /\ latest' = [latest EXCEPT ![o] = ver.id]
            /\ index' = [index EXCEPT ![o] = ver.id]
            /\ evidence' = evidence \cup {MadeFrom(ver.id, doc, del)}
            /\ blobs' = blobs \cup {doc}
            /\ deleted' = Touched(mark, o, {doc})
      /\ UNCHANGED <<opened, setting, job>>

\* Retention takes the older versions of an object with what is made of them;
\* SqliteStore says which.
ApplyRetention(o, below) ==
  LET gone == {v.id : v \in {w \in History(o) : w.seq < below}} \ ({latest[p] : p \in Objects} \cup {index[p] : p \in Objects})
      kept == {v \in versions : v.id \notin gone}
  IN  /\ opened /\ setting.retention /\ job.kind \notin Offline /\ gone # {}
      /\ versions' = kept
      /\ observations' = {b \in observations : b.ver \notin gone}
      /\ evidence' = {e \in evidence : e.ver \notin gone}
      /\ blobs' = {v.doc : v \in kept}
      /\ UNCHANGED <<latest, index, deleted, raw, opened, setting, job>>

--------------------------------------------------------------------------------
\* db backfill and db reindex: the walk over the objects.

\* nextBackfillObjectIDs.
NextObjects(cursor) ==
  LET ahead == {o \in Objects : o > cursor /\ History(o) # {}}
  IN  {o \in ahead : Cardinality({p \in ahead : p < o}) < Batch}

Start(kind) ==
  /\ opened /\ job.kind = "none"
  /\ job' = [Idle EXCEPT !.kind = kind]
  /\ UNCHANGED <<tables, opened, setting>>

\* The last batch, an error, or the process is stopped between two transactions.
Quit ==
  /\ job # Idle
  /\ job' = Idle
  /\ UNCHANGED <<tables, opened, setting>>

Planned(plan) == job' = [job EXCEPT !.cursor = Greatest(plan.objects), !.plan = plan]
Applied       == job' = [job EXCEPT !.plan = NoPlan]

--------------------------------------------------------------------------------
\* db backfill.

\* A version is kept unless its normal form is that of the version before it.
Differs(v) ==
  \/ Before(v) = {}
  \/ \E w \in Before(v) : (\A x \in Before(v) : x.seq <= w.seq) /\ Normal[w.doc] # Normal[v.doc]

\* Mutant: the version pruned into is the first one that is kept.
FirstKept(v) == CHOOSE w \in Before(v) : Before(w) = {}

LastKept(v) == CHOOSE w \in Before(v) :
  Differs(w) /\ \A x \in Before(v) : Differs(x) => x.seq <= w.seq

Canonical(v) == LastKept(v).id

\* planBackfillBatch: the versions to rewrite and those to prune, as they are now.
PlanBackfill ==
  LET objects == NextObjects(job.cursor)
      scanned == {v \in versions : v.obj \in objects}
  IN  /\ job.kind = "backfill" /\ job.plan = NoPlan /\ objects # {}
      /\ Planned([objects |-> objects,
                  updates |-> {v \in scanned : Differs(v) /\ Normal[v.doc] # v.doc},
                  prunes  |-> {[id |-> v.id, canonical |-> Canonical(v), doc |-> v.doc]
                                 : v \in {w \in scanned : ~Differs(w)}}])
      /\ UNCHANGED <<tables, opened, setting>>

\* The version that takes the place of a pruned one.
Moved(prunes, id) ==
  IF \E p \in prunes : p.id = id THEN (CHOOSE p \in prunes : p.id = id).canonical ELSE id

Rewritten(updates, v) ==
  IF \E u \in updates : u.id = v.id THEN [v EXCEPT !.doc = Normal[(CHOOSE u \in updates : u.id = v.id).doc]] ELSE v

\* An observation of a pruned version has seen no change any more.
Repointed(obs, prunes) == {[b EXCEPT !.ver = Moved(prunes, @)] : b \in obs}

MovedPointers(ptr, prunes) == [o \in Objects |-> Moved(prunes, ptr[o])]

\* The one foreign key on versions is that of the observations: the transaction
\* fails when one would be moved to a version that is gone.
Dangles(obs) == \E b \in obs : b.ver \notin Ids

\* The documents that the batch may have left without a version.
Candidates(plan) == {u.doc : u \in plan.updates} \cup {p.doc : p \in plan.prunes}

BlobsAfter(plan, kept) ==
  (blobs \cup {Normal[u.doc] : u \in plan.updates}) \ (Candidates(plan) \ {v.doc : v \in kept})

\* applyBackfillBatch.
ApplyBackfill ==
  LET plan   == job.plan
      pruned == {p.id : p \in plan.prunes}
      kept   == {Rewritten(plan.updates, v) : v \in {w \in versions : w.id \notin pruned}}
      moved  == Repointed(observations, plan.prunes)
  IN  /\ job.kind = "backfill" /\ plan # NoPlan
      /\ \/ /\ Dangles(moved)
            /\ job' = Idle
            /\ UNCHANGED tables
         \/ /\ ~Dangles(moved)
            /\ versions' = kept
            /\ observations' = moved
            /\ index' = MovedPointers(index, plan.prunes)
            /\ latest' = [o \in Objects |-> IF latest[o] \in pruned THEN index'[o] ELSE latest[o]]
            /\ evidence' = {e \in evidence : e.ver \notin pruned}
            /\ blobs' = BlobsAfter(plan, kept)
            /\ Applied
            /\ UNCHANGED <<deleted, raw>>
      /\ UNCHANGED <<opened, setting>>

--------------------------------------------------------------------------------
\* db reindex.

\* The observations of a version.
SightingsOf(v) == {b \in observations : b.ver = v.id}

\* Mutant: a version is taken for what its last observation says.
LastSeenAs(v) == \E b \in SightingsOf(v) : b.del /\ \A c \in SightingsOf(v) : c.n <= b.n

\* The first observation of a version says whether it is that of a deletion.
SeenDeleted(v) == \E b \in SightingsOf(v) : b.del /\ \A c \in SightingsOf(v) : c.n >= b.n

\* planEvidenceReindex: what the extractors now make of every version.
PlanReindex ==
  LET objects == NextObjects(job.cursor)
  IN  /\ job.kind = "reindex" /\ job.plan = NoPlan /\ objects # {}
      /\ Planned([objects |-> objects,
                  items |-> {[ver |-> v.id, doc |-> v.doc, del |-> SeenDeleted(v), obj |-> v.obj]
                               : v \in {w \in versions : w.obj \in objects}}])
      /\ UNCHANGED <<tables, opened, setting>>

\* deleteVersionEvidence.
EvidenceWithout(items) == {e \in evidence : \A i \in items : i.ver # e.ver}

\* applyEvidenceReindexBatch.  Facts, changes and edges have no foreign key on
\* versions; the targets of the edges are touched as by an observation.
ApplyReindex ==
  LET items == job.plan.items
  IN  /\ job.kind = "reindex" /\ job.plan # NoPlan
      /\ evidence' = EvidenceWithout(items) \cup {MadeFrom(i.ver, i.doc, i.del) : i \in items}
      /\ deleted' = Touched(deleted, 1, {i.doc : i \in {j \in items : j.obj = 1}})
      /\ Applied
      /\ UNCHANGED <<versions, observations, latest, index, raw, blobs, opened, setting>>

--------------------------------------------------------------------------------
\* db compact.

Observed == {b.ver : b \in observations}

\* Mutant: the oldest observation, not the newest.
Oldest(o) ==
  IF Sightings(o) = {} THEN 0 ELSE (CHOOSE b \in Sightings(o) : \A c \in Sightings(o) : c.n >= b.n).ver

Newest(o) ==
  IF Sightings(o) = {} THEN 0 ELSE (CHOOSE b \in Sightings(o) : \A c \in Sightings(o) : c.n <= b.n).ver

\* PruneUnchangedVersions: the versions that no observation refers to go, and
\* their blobs.  It fails while there are no observations, or when the newest
\* observation that a latest pointer needs is not there.
PruneUnchanged ==
  LET gone  == Ids \ Observed
      fails == \/ Ids # {} /\ Observed = {}
               \/ \E o \in Objects : index[o] \in gone /\ Newest(o) = 0
      kept  == {v \in versions : v.id \notin gone}
  IN  /\ job.kind = "compact" /\ job.cursor = 0
      /\ \/ /\ fails
            /\ job' = Idle
            /\ UNCHANGED tables
         \/ /\ ~fails
            /\ versions' = kept
            /\ index' = [o \in Objects |-> IF index[o] \in gone THEN Newest(o) ELSE index[o]]
            /\ latest' = [o \in Objects |-> IF latest[o] \in gone THEN index'[o] ELSE latest[o]]
            /\ evidence' = {e \in evidence : e.ver \notin gone}
            /\ blobs' = IF Ids = {} THEN blobs ELSE {v.doc : v \in kept}
            /\ job' = [job EXCEPT !.cursor = 1]
            /\ UNCHANGED <<observations, deleted, raw>>
      /\ UNCHANGED <<opened, setting>>

\* DeleteRawLatestForDeletedObjects, with or without a prune before it; then
\* the file is vacuumed.
Compact ==
  /\ job.kind = "compact"
  /\ raw' = [o \in Objects |-> raw[o] /\ ~deleted[o]]
  /\ job' = Idle
  /\ UNCHANGED <<versions, observations, latest, index, deleted, evidence, blobs, opened, setting>>

--------------------------------------------------------------------------------

Next ==
  \/ Open \/ Quit
  \/ \E o \in Objects, doc \in Docs, del \in BOOLEAN : Observe(o, doc, del)
  \/ \E o \in Objects, below \in 2..setting.room : ApplyRetention(o, below)
  \/ \E kind \in {"backfill", "reindex", "compact"} : Start(kind)
  \/ PlanBackfill \/ ApplyBackfill
  \/ PlanReindex \/ ApplyReindex
  \/ PruneUnchanged \/ Compact

Spec == Init /\ [][Next]_vars

--------------------------------------------------------------------------------

\* The two latest pointers of an object name one version, the newest of its own
\* history, through rewriting, pruning and what the collector does in between;
\* and what it shows is what was seen last.
PointersHold ==
  \A o \in Objects :
    /\ latest[o] = index[o]
    /\ latest[o] = 0 <=> History(o) = {}
    /\ latest[o] # 0 =>
         \E v \in History(o) : v.id = latest[o] /\ \A w \in History(o) : w.seq <= v.seq
    /\ Sightings(o) # {} =>
         {Newest(o), latest[o]} \subseteq Ids /\ DocOf(Newest(o)) = DocOf(latest[o])

\* What an object was seen as, one sighting after the other, up to the filters.
Story(o) ==
  IF Sightings(o) # {}
  THEN {<<b.n, b.del, Normal[DocOf(b.ver)]>> : b \in Sightings(o)}
  ELSE {<<v.seq, FALSE, Normal[v.doc]>> : v \in History(o)}

\* "This preserves observation history while removing duplicate retained content
\* versions": no migration and no maintenance command changes what an object
\* was seen as, although they rewrite, merge and delete its versions.
StoryIsKept ==
  [][job' # job \/ opened' # opened => \A o \in Objects : Story(o)' = Story(o)]_vars

\* Every version has its evidence and all evidence cites a stored version: it
\* was made of that document, up to the filters, seen as that version was.
EvidenceHasProof ==
  /\ {e.ver : e \in evidence} = Ids
  /\ \A e \in evidence : \E v \in versions :
       /\ v.id = e.ver /\ Normal[v.doc] = Normal[e.doc]
       /\ e.del <=> SeenDeleted(v)
================================================================================
