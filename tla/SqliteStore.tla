------------------------------ MODULE SqliteStore ------------------------------
(***************************************************************************)
(* The SQLite evidence store of one cluster, below the collector workers:  *)
(* object rows, their version history, the latest pointers, the raw latest *)
(* documents and the topology edges, with the maintenance that runs beside *)
(* the workers.                                                            *)
(*                                                                         *)
(* The store has one connection, so every transaction is one step.  An     *)
(* observation takes two, PutRawLatest and PutObservation, and the second  *)
(* may never come: a discard_change filter, an error or a crash.  Workers  *)
(* of different resources interleave there.  WatchWorker models what a     *)
(* worker reads from the API server; here it is only the observations a    *)
(* worker can make that matter, in the order it can make them.             *)
(*                                                                         *)
(* A name stands for (kind, namespace, name).  It has incarnations, each   *)
(* with its UID.  An edge names its target without a UID, which is why an  *)
(* object row may exist before any observation of its object: a stub.      *)
(***************************************************************************)
EXTENDS Integers, Sequences, FiniteSets

CONSTANTS
  Names,        \* kind, namespace and name of an object
  Uids,         \* incarnations
  NoUid,        \* the UID of a stub; no edge target
  NameOf,       \* the name of each incarnation
  Earlier,      \* the earlier incarnations of the same name
  Contents,     \* the contents each incarnation may have
  Target,       \* the name that doc "a" of an incarnation refers to, or NoUid
  Rules,        \* retention: the global rule and the policies, in order
  MaxVersions,  \* bound: versions per history of the cluster
  MaxClock      \* bound: the wall clock

ASSUME ConstantsAssumption ==
  /\ IsFiniteSet(Uids)
  /\ NoUid \notin Uids /\ NoUid \notin Names
  /\ NameOf \in [Uids -> Names]
  /\ Earlier \in [Uids -> SUBSET Uids]
  /\ Contents \in [Uids -> SUBSET {"a", "b"}]
  /\ Target \in [Uids -> Names \cup {NoUid}]
  /\ Rules \in Seq([age : Nat, min : Nat, names : SUBSET Names])
  /\ MaxVersions \in Nat /\ MaxClock \in Nat

VARIABLES
  seen,         \* what the workers have observed: "no", "yes" or "deleted"
  inflight,     \* by name, the observation between its two transactions
  clock,        \* wall clock, in units of the retention ages
  \* the database
  rows,         \* objects by id, each with its latest_index and raw row
  versions,     \* id order is insertion order
  edges,        \* by the version that stated them
  retention     \* how the last retention run ended

database == <<rows, versions, edges>>
vars     == <<seen, inflight, clock, rows, versions, edges, retention>>

\* "a" and "b" are contents; "bare" is the metadata a relist deletion carries.
Docs          == {"a", "b", "bare"}
Rows          == [name : Names, uid : Uids \cup {NoUid}, deleted : BOOLEAN,
                  latest : Nat, index : Nat, raw : BOOLEAN]
Versions      == [id : Nat \ {0}, obj : Nat \ {0}, seq : Nat \ {0}, at : Nat, doc : Docs]
Edges         == [ver : Nat \ {0}, dst : Nat \ {0}]
Observations  == [uid : Uids, del : BOOLEAN, doc : Docs, at : Nat]
NoObservation == [uid |-> NoUid, del |-> FALSE, doc |-> "bare", at |-> 0]

Least(S)    == CHOOSE n \in S : \A m \in S : n <= m
Greatest(S) == CHOOSE n \in S : \A m \in S : n >= m

History(i) == {v \in versions : v.obj = i}

--------------------------------------------------------------------------------
\* ensureObjectRecord.

\* Mutant: a stub is not looked for.
CandidatesWithoutStubs(rs, name, uid) ==
  IF uid # NoUid
  THEN {i \in DOMAIN rs : rs[i].uid = uid}
  ELSE {i \in DOMAIN rs : rs[i].name = name}

\* The rows an observation or an edge may mean: with a UID, the row of the UID
\* or else a stub of the name; without, an observed row of the name or else any.
Candidates(rs, name, uid) ==
  LET named == {i \in DOMAIN rs : rs[i].name = name}
      exact == {i \in DOMAIN rs : rs[i].uid = uid}
      stubs == {i \in named : rs[i].uid = NoUid}
  IN  IF uid # NoUid
      THEN IF exact # {} THEN exact ELSE stubs
      ELSE IF named \ stubs # {} THEN named \ stubs ELSE named

RowFor(rs, name, uid) ==
  IF Candidates(rs, name, uid) = {} THEN Len(rs) + 1 ELSE Least(Candidates(rs, name, uid))

\* The row is inserted, or takes the UID and, whatever it said before, the
\* deletion mark of this observation.
Ensured(rs, name, uid, deleted) ==
  IF Candidates(rs, name, uid) = {}
  THEN Append(rs, [name |-> name, uid |-> uid, deleted |-> deleted,
                   latest |-> 0, index |-> 0, raw |-> FALSE])
  ELSE LET id == RowFor(rs, name, uid)
       IN  [rs EXCEPT ![id].uid = IF uid = NoUid THEN @ ELSE uid, ![id].deleted = deleted]

--------------------------------------------------------------------------------

Init ==
  /\ seen = [u \in Uids |-> "no"]
  /\ inflight = [n \in Names |-> NoObservation]
  /\ clock = 0
  /\ rows = <<>> /\ versions = {} /\ edges = {}
  /\ retention = "ok"

Tick ==
  /\ clock < MaxClock
  /\ clock' = clock + 1
  /\ UNCHANGED <<seen, inflight, database, retention>>

--------------------------------------------------------------------------------

\* LatestResourceRefs: what a relist may find missing.
Referenced(u) ==
  \E i \in DOMAIN rows : rows[i].uid = u /\ rows[i].index # 0 /\ ~rows[i].deleted

\* What a worker can observe next: a content, unless it knows that the object or
\* its name has moved on; the DELETED event; or a deletion reconciled from a
\* list, for an object that the store still takes for live.  The cluster may lag
\* behind or be ahead in any way, so nothing more is asked of it.
Observable(ob) ==
  IF ob.del
  THEN \/ ob.doc \in Contents[ob.uid] /\ seen[ob.uid] # "deleted"
       \/ ob.doc = "bare" /\ Referenced(ob.uid)
  ELSE /\ ob.doc \in Contents[ob.uid] /\ seen[ob.uid] # "deleted"
       /\ \A u \in Uids : ob.uid \in Earlier[u] => seen[u] = "no"

\* Mutant: the raw document of a deleted object stays.
RawAfterDelete(ob, raw) == raw \/ ~ob.del

\* The raw document of an object is kept while it is live.
RawAfter(ob, raw) == ~ob.del

PutRawLatest(ob) ==
  LET name == NameOf[ob.uid]
  IN  /\ inflight[name] = NoObservation /\ Observable(ob)
      /\ LET kept == Ensured(rows, name, ob.uid, ob.del)
         IN  rows' = [kept EXCEPT ![RowFor(rows, name, ob.uid)].raw = RawAfter(ob, @)]
      /\ inflight' = [inflight EXCEPT ![name] = ob]
      /\ seen' = [seen EXCEPT ![ob.uid] = IF ob.del THEN "deleted" ELSE "yes"]
      /\ UNCHANGED <<clock, versions, edges, retention>>

\* shouldSkipUnchangedObservation; ob's row is id.
Unchanged(ob, id) ==
  /\ ~ob.del
  /\ id \in DOMAIN rows /\ ~rows[id].deleted
  /\ \E v \in versions : v.id = rows[id].latest /\ v.doc = ob.doc

\* Mutant: versions are numbered by counting them.
CountedSeq(id) == 1 + Cardinality(History(id))

NextSeq(id) == 1 + Greatest({0} \cup {v.seq : v \in History(id)})

NextVersion(ob, id) ==
  [id |-> 1 + Greatest({0} \cup {v.id : v \in versions}), obj |-> id,
   seq |-> NextSeq(id), at |-> ob.at, doc |-> ob.doc]

\* Mutant: latest_index keeps pointing at the version before.
PointToOld(rs, id, ver) ==
  [rs EXCEPT ![id].latest = ver, ![id].index = IF @ = 0 THEN ver ELSE @]

\* putVersion and updateLatest.
PointTo(rs, id, ver) == [rs EXCEPT ![id].latest = ver, ![id].index = ver]

\* A new version with its edges.  The target of an edge is looked up, or made,
\* as an object that is not deleted.
Store(ob, id) ==
  LET name   == NameOf[ob.uid]
      ver    == NextVersion(ob, id)
      stored == PointTo(Ensured(rows, name, ob.uid, ob.del), id, ver.id)
      target == IF ob.doc = "a" THEN Target[ob.uid] ELSE NoUid
  IN  /\ ver.id <= MaxVersions
      /\ versions' = versions \cup {ver}
      /\ \/ /\ target = NoUid
            /\ rows' = stored
            /\ UNCHANGED edges
         \/ /\ target # NoUid
            /\ rows' = Ensured(stored, target, NoUid, FALSE)
            /\ edges' = edges \cup {[ver |-> ver.id, dst |-> RowFor(stored, target, NoUid)]}

PutObservation(name) ==
  LET ob == inflight[name]
      id == RowFor(rows, name, ob.uid)
  IN  /\ ob # NoObservation
      /\ \/ /\ Unchanged(ob, id)
            /\ rows' = Ensured(rows, name, ob.uid, ob.del)
            /\ UNCHANGED <<versions, edges>>
         \/ ~Unchanged(ob, id) /\ Store(ob, id)
      /\ inflight' = [inflight EXCEPT ![name] = NoObservation]
      /\ UNCHANGED <<seen, clock, retention>>

\* The second transaction does not come: discard_change, an error, a crash.
Abandon(name) ==
  /\ inflight[name] # NoObservation
  /\ inflight' = [inflight EXCEPT ![name] = NoObservation]
  /\ UNCHANGED <<seen, clock, database, retention>>

--------------------------------------------------------------------------------
\* Maintenance.

Rank(v) ==
  Cardinality({w \in History(v.obj) : w.at > v.at \/ (w.at = v.at /\ w.id >= v.id)})

\* Mutant: one version less than the minimum is kept.
BeyondMinimumOrAt(v, min) == min > 0 => Rank(v) >= min

BeyondMinimum(v, min) == min > 0 => Rank(v) > min

\* selectRetentionVersions: the expired versions of one rule.
Selected(rule) ==
  {v \in versions :
     /\ v.at < clock - rule.age
     /\ rows[v.obj].name \in rule.names
     /\ BeyondMinimum(v, rule.min)
     /\ \A i \in DOMAIN rows : v.id \notin {rows[i].latest, rows[i].index}}

\* Mutant: the edges of a deleted version stay.
EdgesStay(gone) == edges

EdgesWithout(gone) == {e \in edges : \A v \in gone : v.id # e.ver}

\* The rules fill one table whose key is the version, with plain inserts: a
\* version that two of them select fails the whole transaction.
ApplyRetention ==
  LET gone    == UNION {Selected(Rules[r]) : r \in DOMAIN Rules}
      clashes == \E r, s \in DOMAIN Rules : r # s /\ Selected(Rules[r]) \cap Selected(Rules[s]) # {}
  IN  /\ \/ /\ clashes
            /\ retention' = "failed"
            /\ UNCHANGED database
         \/ /\ ~clashes /\ gone # {}
            /\ versions' = versions \ gone
            /\ edges' = EdgesWithout(gone)
            /\ retention' = "ok"
            /\ UNCHANGED rows
      /\ UNCHANGED <<seen, clock, inflight>>

\* DeleteCluster deletes no raw rows, which refer to the objects it deletes: it
\* can only commit when there are none.
DeleteCluster ==
  /\ rows # <<>> /\ \A i \in DOMAIN rows : ~rows[i].raw
  /\ rows' = <<>> /\ versions' = {} /\ edges' = {}
  /\ UNCHANGED <<seen, clock, inflight, retention>>

--------------------------------------------------------------------------------

Next ==
  \/ Tick
  \/ \E u \in Uids, del \in BOOLEAN, doc \in Docs :
       PutRawLatest([uid |-> u, del |-> del, doc |-> doc, at |-> clock])
  \/ \E n \in Names : PutObservation(n) \/ Abandon(n)
  \/ ApplyRetention \/ DeleteCluster

Spec == Init /\ [][Next]_vars

--------------------------------------------------------------------------------

\* objects.latest_version_id and latest_index agree, and point at the newest
\* version of their own object, which exists.  Only an object never stored has none.
PointersAgree ==
  \A i \in DOMAIN rows :
    /\ rows[i].index = rows[i].latest
    /\ rows[i].latest = 0 <=> History(i) = {}
    /\ History(i) # {} =>
         \E v \in History(i) : v.id = rows[i].latest /\ \A w \in History(i) : w.seq <= v.seq

\* One row per incarnation, and a stub only until its name is observed: the
\* history of an object is never split over two rows.
OneRowPerObject ==
  \A i, j \in DOMAIN rows :
    i # j /\ rows[i].name = rows[j].name =>
      rows[i].uid # rows[j].uid /\ rows[i].uid # NoUid

\* The raw latest documents show no deleted object, whichever of the two
\* transactions of its deletion or of an edge to it came last.
RawIsLive == \A i \in DOMAIN rows : rows[i].raw => ~rows[i].deleted

\* Every edge can be proved by a stored version and leads to an object.
EdgesHaveProof ==
  \A e \in edges :
    /\ e.dst \in DOMAIN rows
    /\ \E v \in versions : v.id = e.ver

\* The tables tell one story, through retention, stubs, skipped observations,
\* deletions and workers that stop between their two transactions.
TablesAgree == PointersAgree /\ OneRowPerObject /\ RawIsLive /\ EdgesHaveProof

\* A version number is never given twice within an object, not even after the
\* versions that had it were deleted: proofs cite versions by it.
NumbersAreNotReused ==
  \A v \in versions' \ versions : \A w \in versions :
    v.obj = w.obj => v.seq > w.seq /\ v.id > w.id

\* Retention never takes an object below the smallest minimum of its rules.
EnoughIsKept ==
  \A i \in DOMAIN rows' :
    ~(History(i) \subseteq History(i)') =>
      \E r \in DOMAIN Rules :
        /\ rows[i].name \in Rules[r].names
        /\ Cardinality(History(i)') >= Rules[r].min

\* No step makes a proof mean another version or takes too many away.
HistoryIsKept == [][NumbersAreNotReused /\ EnoughIsKept]_vars
================================================================================
