------------------------------ MODULE Investigation ------------------------------
(***************************************************************************)
(* The investigation of a service while collectors write, on both backends.*)
(*                                                                         *)
(* SQLite (storage/sqlite/service_investigate.go): a writer's transaction  *)
(* is one step, every query of the reader another.  A row of objects is    *)
(* named by its path while only edges speak of it and by its uid once it   *)
(* was observed, so a name read early may be out of date when it is used.  *)
(*                                                                         *)
(* ClickHouse (storage/clickhouse/read_service.go): a batch reaches its    *)
(* tables one after the other, may be lost between two of them, and names  *)
(* the targets of its edges by uid or by path, as the batch happens to know*)
(* them; the alias table tells that two names are one object.              *)
(*                                                                         *)
(* One incarnation of every object; documents and facts are left out.      *)
(***************************************************************************)
EXTENDS Naturals, Sequences, FiniteSets, SequencesExt

CONSTANTS
  Objects, KindOf, Svc,  \* as in ServiceAnswer
  Targets,               \* the sets of targets that an object's edges may have
  Backends, Options,     \* what the process was configured with, and was asked for
  MaxTime, MaxBatch      \* bounds: steps of the clock per backend, objects of one ClickHouse batch

ASSUME InvestigationAssumption ==
  /\ IsFiniteSet(Objects) /\ Svc \in Objects /\ KindOf[Svc] = "Service"
  /\ Targets \in [Objects -> SUBSET SUBSET Objects]
  /\ Backends \subseteq {"sqlite", "clickhouse"}
  /\ Options \subseteq [to : Nat, objects : Nat, versions : Nat]
  /\ MaxTime \in [Backends -> Nat] /\ MaxBatch \in Nat

VARIABLES
  backend, opts,         \* opts: [to, objects, versions], zero where not given
  now,                   \* the clock, advanced by every observation
  versions,              \* per object, the times of its versions
  aliases,               \* ClickHouse: the objects whose names are registered
  edges,                 \* [src, dst, name, from]: name is how dst is written
  batch,                 \* ClickHouse: the batch between two of its tables
  q                      \* the query in progress

data == <<now, versions, aliases, edges, batch>>
vars == <<backend, opts, data, q>>

Seen == {o \in Objects : versions[o] # <<>>}

\* edgeInWindow, edgeWindowFilter: extractors leave ValidTo open.
InWindow(e) == opts.to = 0 \/ e.from <= opts.to
Links == { <<e.src, e.dst>> : e \in {x \in edges : InWindow(x)} }

Promise == INSTANCE ServiceAnswer WITH
  seen <- Seen, links <- Links, asked <- q.asked, cut <- q.cut,
  frail <- (backend = "clickhouse"), reply <- q.reply

InEvidence(o) == KindOf[o] \in {"EndpointSlice", "Pod", "Node", "Event"}
Opens(o) == KindOf[o] \in {"EndpointSlice", "Pod"}

UidOf(o)  == <<"uid", o>>
PathOf(o) == <<"path", o>>

NoBatch == [next |-> "none", objects |-> {}, edges |-> {}, at |-> 0]
NoQuery == [phase |-> "no", asked |-> [open |-> FALSE, seen |-> {}, reach |-> {}], cut |-> FALSE,
            reply |-> [how |-> "none", objects |-> {}], visited |-> {}, queue |-> {},
            ids |-> {}, topology |-> {}, known |-> {}, records |-> {}, found |-> {}, ranked |-> <<>>]

Init ==
  /\ backend \in Backends /\ opts \in Options
  /\ now = 0 /\ versions = [o \in Objects |-> <<>>]
  /\ aliases = {} /\ edges = {} /\ batch = NoBatch /\ q = NoQuery

--------------------------------------------------------------------------------
(* The writers. *)

\* One transaction: the version, and the edges with rows for their targets.
PutObservation(o, targets) ==
  /\ backend = "sqlite" /\ now < MaxTime[backend] /\ now' = now + 1
  /\ versions' = [versions EXCEPT ![o] = Append(@, now')]
  /\ edges' = edges \cup {[src |-> o, dst |-> t, name |-> "row", from |-> now'] : t \in targets}
  /\ UNCHANGED <<backend, opts, aliases, batch, q>>

\* A target that is in the same batch is written by its uid, another by its path.
EdgeRows(pending, at) ==
  { [src |-> x[1], dst |-> x[2], name |-> IF x[2] \in DOMAIN pending THEN "uid" ELSE "path", from |-> at] :
      x \in {y \in Objects \X Objects : y[1] \in DOMAIN pending /\ y[2] \in pending[y[1]]} }

Build(pending) ==
  /\ backend = "clickhouse" /\ batch.next = "none" /\ now < MaxTime[backend] /\ now' = now + 1
  /\ batch' = [next |-> "aliases", objects |-> DOMAIN pending, edges |-> EdgeRows(pending, now'), at |-> now']
  /\ UNCHANGED <<backend, opts, versions, aliases, edges, q>>

\* The tables in their order; the names come before what uses them.
InsertAliases ==
  /\ batch.next = "aliases" /\ batch' = [batch EXCEPT !.next = "versions"]
  /\ aliases' = aliases \cup batch.objects
  /\ UNCHANGED <<backend, opts, now, versions, edges, q>>

InsertVersions ==
  /\ batch.next = "versions" /\ batch' = [batch EXCEPT !.next = "edges"]
  /\ versions' = [o \in Objects |-> IF o \in batch.objects THEN Append(versions[o], batch.at) ELSE versions[o]]
  /\ UNCHANGED <<backend, opts, now, aliases, edges, q>>

InsertEdges ==
  /\ batch.next = "edges" /\ batch' = NoBatch
  /\ edges' = edges \cup batch.edges
  /\ UNCHANGED <<backend, opts, now, versions, aliases, q>>

\* A request fails: what is in the tables stays, the rest is not sent again.
InsertFails ==
  /\ batch.next # "none" /\ batch' = NoBatch
  /\ UNCHANGED <<backend, opts, now, versions, aliases, edges, q>>

\* Nothing is written after the answer: a bound, as nobody looks again.
Write ==
  /\ q.phase # "done"
  /\ \/ \E o \in Objects : \E targets \in Targets[o] : PutObservation(o, targets)
     \/ \E os \in SUBSET Objects \ {{}} : Cardinality(os) <= MaxBatch /\
          \E pending \in [os -> UNION {Targets[o] : o \in os}] :
             (\A o \in os : pending[o] \in Targets[o]) /\ Build(pending)
     \/ InsertAliases \/ InsertVersions \/ InsertEdges \/ InsertFails

--------------------------------------------------------------------------------
(* What both readers share. *)

\* findObject; the question is refused for a service without a document.
Begin(root) ==
  /\ q.phase = "no" /\ Svc \in Seen
  /\ q' = [NoQuery EXCEPT !.phase = "walk", !.visited = {UidOf(Svc)}, !.queue = {root},
                          !.asked = [open |-> TRUE, seen |-> Seen, reach |-> Promise!Reach(Links)]]
  /\ UNCHANGED <<backend, opts, data>>

Limit(given, default) == IF given = 0 THEN default ELSE given

\* The newest of the versions in the window, at most so many.
Within(o) == IF opts.to = 0 THEN versions[o] ELSE SelectSeq(versions[o], LAMBDA t : t <= opts.to)
Newest(times, most) == SubSeq(times, IF Len(times) > most THEN Len(times) - most + 1 ELSE 1, Len(times))

\* Any choice of at most so many.
Some(set, most) == {x \in SUBSET set : Cardinality(x) = IF Cardinality(set) > most THEN most ELSE Cardinality(set)}

--------------------------------------------------------------------------------
(* SQLite. *)

\* logicalID: what a row is called at this moment.
LogicalID(o) == IF o \in Seen THEN UidOf(o) ELSE PathOf(o)

Touching(o) == UNION {{e.src, e.dst} : e \in {x \in edges : InWindow(x) /\ o \in {x.src, x.dst}}}

InvestigateService == backend = "sqlite" /\ Begin(Svc)

\* relatedEdges of one row; the names are those of this query.
New(o) == {p \in Touching(o) : LogicalID(p) \notin q.visited /\ InEvidence(p)}

RelatedEdges(o) ==
  /\ backend = "sqlite" /\ q.phase = "walk" /\ o \in q.queue
  /\ LET ids == {LogicalID(p) : p \in New(o)} IN
     q' = [q EXCEPT !.visited = @ \cup ids, !.records = @ \cup ids,
                    !.queue = (@ \ {o}) \cup {p \in New(o) : Opens(p)}]
  /\ UNCHANGED <<backend, opts, data>>

\* What the bundle of an object holds in the window: its edges, and the changes
\* that every version but the first brought.  An edge scores one, a change three.
OwnEdges(o) == {e \in edges : e.src = o /\ InWindow(e)}
Changes(o) == {i \in 2..Len(versions[o]) : opts.to = 0 \/ versions[o][i] <= opts.to}
Score(o) == Cardinality(OwnEdges(o)) + 3 * Cardinality(Changes(o))

\* bundleForRecordWithOptions: a record without a document is left out.
BundleForRecord(id) ==
  /\ backend = "sqlite" /\ q.phase = "walk" /\ q.queue = {} /\ id \in q.records
  /\ q' = [q EXCEPT !.records = @ \ {id},
                    !.found = IF id[2] \in Seen THEN @ \cup {[id |-> id, object |-> id[2], score |-> Score(id[2])]} ELSE @]
  /\ UNCHANGED <<backend, opts, data>>

KindPriority(o) ==
  CASE KindOf[o] = "EndpointSlice" -> 0 [] KindOf[o] = "Pod" -> 1 [] KindOf[o] = "Node" -> 2
    [] KindOf[o] = "Event" -> 3 [] OTHER -> 4

\* rankServiceEvidence; what is left of its order is any.
Ahead(a, b) ==
  \/ a.score > b.score
  \/ a.score = b.score /\ KindPriority(a.object) < KindPriority(b.object)

\* Mutant: nothing is shown outside the window.
VersionEvidenceInside(o, most) == Newest(Within(o), most)

\* versionEvidence: an object that is quiet in the window shows its newest version.
VersionEvidence(o, most) ==
  LET inside == Newest(Within(o), most) IN
  IF inside = <<>> /\ opts.to # 0 THEN Newest(versions[o], 1) ELSE inside

\* The next of the ranking; the first ones get their versions.
AttachVersions ==
  /\ backend = "sqlite" /\ q.phase = "walk" /\ q.queue = {} /\ q.records = {}
  /\ \E b \in q.found :
       /\ ~ \E c \in q.found : Ahead(c, b)
       /\ q' = [q EXCEPT !.found = @ \ {b},
                         !.ranked = Append(@, [object |-> b.object,
                            shown |-> IF Len(@) < Limit(opts.objects, 5)
                                      THEN VersionEvidence(b.object, Limit(opts.versions, 3)) ELSE <<>>])]
  /\ UNCHANGED <<backend, opts, data>>

Return ==
  /\ backend = "sqlite" /\ q.phase = "walk" /\ q.queue = {} /\ q.records = {} /\ q.found = {}
  /\ q' = [q EXCEPT !.phase = "done", !.reply = [how |-> "given", objects |-> {q.ranked[i].object : i \in DOMAIN q.ranked}]]
  /\ UNCHANGED <<backend, opts, data>>

Sqlite ==
  \/ InvestigateService \/ AttachVersions \/ Return
  \/ \E o \in q.queue : RelatedEdges(o)
  \/ \E id \in q.records : BundleForRecord(id)

--------------------------------------------------------------------------------
(* ClickHouse: everything is read by name. *)

SrcOf(e) == UidOf(e.src)
DstOf(e) == IF e.name = "uid" THEN UidOf(e.dst) ELSE PathOf(e.dst)

\* canonicalObjectIDs, with the aliases that were read.
Canonical(id, known) == IF id[2] \in known THEN UidOf(id[2]) ELSE id

MaxObjects == Limit(opts.objects, 20)

InvestigateServiceByName == backend = "clickhouse" /\ Begin(UidOf(Svc))

\* Mutant: an object is looked for under the one name only.
JustID(id) == {id}

AliasIDs(id) == IF id[2] \in aliases THEN {UidOf(id[2]), PathOf(id[2])} ELSE {id}

ObjectAndAliasIDs(id) ==
  /\ backend = "clickhouse" /\ q.phase = "walk" /\ q.ids = {} /\ id \in q.queue
  /\ q' = [q EXCEPT !.queue = @ \ {id}, !.ids = AliasIDs(id)]
  /\ UNCHANGED <<backend, opts, data>>

Rows(ids) == {<<SrcOf(e), DstOf(e)>> : e \in {x \in edges : InWindow(x) /\ {SrcOf(x), DstOf(x)} \cap ids # {}}}

\* The rows that name one of them; each new name counts, up to the limit.
RelatedTopologyEdgeRows ==
  /\ backend = "clickhouse" /\ q.phase = "walk" /\ q.ids # {}
  /\ LET rows == Rows(q.ids)
         new  == {id \in UNION {{r[1], r[2]} : r \in rows} : id \notin q.visited /\ InEvidence(id[2])}
     IN \E taken \in Some(new, MaxObjects - Cardinality(q.records)) :
          q' = [q EXCEPT !.ids = {}, !.topology = @ \cup rows, !.visited = @ \cup taken, !.records = @ \cup taken,
                         !.queue = @ \cup {id \in taken : Opens(id[2])}, !.cut = @ \/ taken # new]
  /\ UNCHANGED <<backend, opts, data>>

CanonicalObjectIDs ==
  /\ backend = "clickhouse" /\ q.phase = "walk" /\ q.ids = {} /\ q.queue = {}
  /\ q' = [q EXCEPT !.phase = "hydrate", !.known = aliases]
  /\ UNCHANGED <<backend, opts, data>>

\* A name becomes that of a stored object, or stays as the edge has it.
Hydrated(id) == LET c == Canonical(id, q.known) IN IF c = UidOf(id[2]) /\ id[2] \in Seen THEN c ELSE id

ObjectsByID ==
  /\ q.phase = "hydrate"
  /\ LET all == {Hydrated(id) : id \in UNION {{r[1], r[2]} : r \in q.topology}}
         fit == {id \in all : id # UidOf(Svc) /\ InEvidence(id[2])}
     IN \E taken \in Some(fit, MaxObjects) :
          q' = [q EXCEPT !.phase = "bundle", !.records = taken, !.cut = @ \/ taken # fit]
  /\ UNCHANGED <<backend, opts, data>>

\* latestDocumentsByObject, versionEvidenceByObject: both are stored under the uid.
Documented(id) == id = UidOf(id[2]) /\ id[2] \in Seen
VersionsByObject(o) == Newest(Within(o), Limit(opts.versions, 3))

\* One that is missing fails the whole answer.
EvidenceBundles ==
  /\ q.phase = "bundle"
  /\ IF \A id \in q.records : Documented(id)
     THEN q' = [q EXCEPT !.phase = "done", !.reply = [how |-> "given", objects |-> {id[2] : id \in q.records}],
                         !.ranked = SetToSeq({[object |-> id[2], shown |-> VersionsByObject(id[2])] :
                                                id \in q.records})]
     ELSE q' = [q EXCEPT !.phase = "done", !.reply = [how |-> "refused", objects |-> {}]]
  /\ UNCHANGED <<backend, opts, data>>

ClickHouse ==
  \/ InvestigateServiceByName \/ RelatedTopologyEdgeRows \/ CanonicalObjectIDs \/ ObjectsByID \/ EvidenceBundles
  \/ \E id \in q.queue : ObjectAndAliasIDs(id)

Next == Write \/ Sqlite \/ ClickHouse

Spec == Init /\ [][Next]_vars

--------------------------------------------------------------------------------

\* Both backends keep the promise of ServiceAnswer: nothing that was related to
\* the service when it was asked about is missing unless the answer is cut, nothing
\* unrelated is added, SQLite always answers, and ClickHouse refuses only for a
\* neighbour that had no document.
KeepsThePromise == Promise!Spec

\* Every object that SQLite ranks within the caller's limit comes with a version
\* to read as proof, be it older or newer than the window.
ProofIsShown ==
  backend = "sqlite" =>
    \A i \in DOMAIN q.ranked : i <= Limit(opts.objects, 5) => q.ranked[i].shown # <<>>
==================================================================================
