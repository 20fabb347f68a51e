--------------------------- MODULE SqliteStoreProofs ---------------------------
(* Theorems about the SQLite evidence store: the tables tell one story, no       *)
(* version number is given twice, and retention leaves every object its minimum, *)
(* through stubs, skipped observations, deletions, and workers that stop between *)
(* their two transactions.                                                       *)
EXTENDS SqliteStore, FiniteSetTheorems, WellFoundedInduction, TLAPS

--------------------------------------------------------------------------------
(* The inductive invariant.                                                      *)

StoreTypeOK ==
  /\ clock \in Nat
  /\ rows \in Seq(Rows)
  /\ versions \in SUBSET Versions /\ IsFiniteSet(versions)
  /\ edges \in SUBSET Edges
  /\ inflight \in [Names -> Observations \cup {NoObservation}]
  /\ \A n \in Names : inflight[n] # NoObservation => NameOf[inflight[n].uid] = n

\* A row that has a UID has the name of that incarnation.
UidsKnow(rs) ==
  \A i \in DOMAIN rs : rs[i].uid # NoUid => rs[i].name = NameOf[rs[i].uid]

\* OneRowPerObject and RawIsLive, of any table of rows.
OneEach(rs) ==
  \A i, j \in DOMAIN rs :
    i # j /\ rs[i].name = rs[j].name => rs[i].uid # rs[j].uid /\ rs[i].uid # NoUid
RawLive(rs) == \A i \in DOMAIN rs : rs[i].raw => ~rs[i].deleted

GoodRows(rs) == rs \in Seq(Rows) /\ UidsKnow(rs) /\ OneEach(rs) /\ RawLive(rs)

\* PointersAgree, of any row and any versions.
Of(vs, i) == {v \in vs : v.obj = i}
GoodPointer(row, hist) ==
  /\ row.index = row.latest
  /\ row.latest = 0 <=> hist = {}
  /\ hist # {} => \E v \in hist : v.id = row.latest /\ \A w \in hist : w.seq <= v.seq
GoodPointers(rs, vs) == \A i \in DOMAIN rs : GoodPointer(rs[i], Of(vs, i))

\* Each version is of a row, and no two have the same id.
GoodVersions(rs, vs) ==
  /\ \A v \in vs : v.obj \in DOMAIN rs
  /\ \A v, w \in vs : v.id = w.id => v = w

GoodEdges(rs, vs, es) == \A e \in es : e.dst \in DOMAIN rs /\ \E v \in vs : v.id = e.ver

\* A deletion between its two transactions has left no raw document, neither in the
\* row of its UID nor in a stub that would take the UID.
GoneFromRaw(rs, n, ob) ==
  ob # NoObservation /\ ob.del =>
    \A i \in DOMAIN rs : rs[i].name = n /\ rs[i].uid \in {ob.uid, NoUid} => ~rs[i].raw
DeletionsAreGone == \A n \in Names : GoneFromRaw(rows, n, inflight[n])

StoreInv ==
  /\ StoreTypeOK
  /\ GoodRows(rows)
  /\ GoodPointers(rows, versions)
  /\ GoodVersions(rows, versions)
  /\ GoodEdges(rows, versions, edges)
  /\ DeletionsAreGone

LEMMA StoreInvAgrees == StoreInv => TablesAgree
<1>1. StoreInv => PointersAgree
  BY DEF StoreInv, GoodPointers, GoodPointer, PointersAgree, Of, History
<1>2. StoreInv => OneRowPerObject /\ RawIsLive /\ EdgesHaveProof
  BY DEF StoreInv, GoodRows, OneEach, RawLive, GoodEdges, OneRowPerObject, RawIsLive, EdgesHaveProof
<1>3. QED
  BY <1>1, <1>2 DEF TablesAgree

--------------------------------------------------------------------------------
(* Least and greatest numbers.                                                   *)

\* A set of natural numbers has a least one.
LEMMA LeastNumber ==
  ASSUME NEW T \in SUBSET Nat, T # {}
  PROVE  \E x \in T : \A y \in T : x <= y
<1> DEFINE R == {ss \in Nat \X Nat : ss[1] < ss[2]}
<1>1. IsWellFoundedOn(R, Nat)
  BY NatLessThanWellFounded DEF OpToRel
<1>2. PICK x \in T : \A y \in T : <<y, x>> \notin R
  BY <1>1, WFMin
<1>3. \A y \in T : x <= y
  <2> SUFFICES ASSUME NEW y \in T, ~(x <= y) PROVE FALSE
    OBVIOUS
  <2>1. x \in Nat /\ y \in Nat /\ y < x
    OBVIOUS
  <2>2. <<y, x>> \in R
    BY <2>1
  <2>3. QED
    BY <1>2, <2>2
<1>4. QED
  BY <1>3

LEMMA LeastIsLeast ==
  ASSUME NEW T \in SUBSET Nat, T # {}
  PROVE  Least(T) \in T
BY LeastNumber DEF Least

\* A finite set of natural numbers has a greatest one: else there is a smallest set
\* that has none, and it has none either without one of its numbers.
LEMMA GreatestNumber ==
  ASSUME NEW S \in SUBSET Nat, IsFiniteSet(S), S # {}
  PROVE  Greatest(S) \in S /\ \A m \in S : Greatest(S) >= m
<1> DEFINE Top(T) == \E n \in T : \A m \in T : n >= m
           Bad    == {T \in SUBSET S : T # {} /\ ~Top(T)}
           Sizes  == {Cardinality(T) : T \in Bad}
<1>1. \A T \in Bad : IsFiniteSet(T) /\ Cardinality(T) \in Nat
  BY FS_Subset, FS_CardinalityType
<1>2. Bad = {}
  <2> SUFFICES ASSUME Bad # {} PROVE FALSE
    OBVIOUS
  <2>1. Sizes \in SUBSET Nat /\ Sizes # {}
    BY <1>1
  <2> HIDE DEF Sizes
  <2>2. PICK k \in Sizes : \A j \in Sizes : k <= j
    BY <2>1, LeastNumber
  <2>3. PICK T \in Bad : Cardinality(T) = k
    BY <2>2 DEF Sizes
  <2>4. PICK x \in T : TRUE
    BY <2>3
  <2> DEFINE U == T \ {x}
  <2>5. IsFiniteSet(T) /\ Cardinality(T) \in Nat /\ Cardinality(U) = Cardinality(T) - 1
    BY <1>1, <2>3, <2>4, FS_RemoveElement
  <2>6. Cardinality(U) \notin Sizes
    BY <2>1, <2>2, <2>3, <2>5
  <2>7. U \notin Bad
    BY <2>6 DEF Sizes
  <2>8. CASE U = {}
    <3>1. T = {x} /\ x \in Nat
      BY <2>4, <2>8
    <3>2. Top(T)
      BY <3>1
    <3>3. QED
      BY <2>3, <3>2
  <2>9. CASE U # {}
    <3>1. Top(U)
      BY <2>7, <2>9
    <3>2. PICK n \in U : \A m \in U : n >= m
      BY <3>1
    <3>3. n \in T /\ n \in Nat /\ x \in Nat /\ \A m \in T : m \in U \/ m = x
      BY <2>4, <3>2
    <3>4. CASE n >= x
      BY <2>3, <3>2, <3>3, <3>4
    <3>5. CASE ~(n >= x)
      <4>1. \A m \in T : m \in Nat
        OBVIOUS
      <4>2. \A m \in T : x >= m
        BY <3>2, <3>3, <3>5, <4>1
      <4>3. QED
        BY <2>3, <2>4, <4>2
    <3>6. QED
      BY <3>4, <3>5
  <2>10. QED
    BY <2>8, <2>9
<1>3. Top(S)
  BY <1>2
<1>4. QED
  BY <1>3 DEF Greatest

\* The image of a finite set.
LEMMA ImageFinite ==
  ASSUME NEW S, NEW f, IsFiniteSet(S), f \in [S -> Range(f)]
  PROVE  IsFiniteSet(Range(f))
<1>1. f \in Surjection(S, Range(f))
  BY DEF Range, Surjection
<1>2. QED
  BY <1>1, FS_Surjection

\* The number after the greatest is above them all.
LEMMA NextIsAbove ==
  ASSUME NEW S \in SUBSET Nat, IsFiniteSet(S)
  PROVE  LET next == 1 + Greatest({0} \cup S)
         IN  next \in Nat \ {0} /\ \A m \in S : next > m
<1> DEFINE T == {0} \cup S
<1>1. T \in SUBSET Nat /\ T # {} /\ IsFiniteSet(T)
  <2>1. IsFiniteSet(S \cup {0})
    BY FS_AddElement
  <2>2. T = S \cup {0}
    OBVIOUS
  <2>3. QED
    BY <2>1, <2>2
<1> HIDE DEF T
<1>2. Greatest(T) \in T /\ \A m \in T : Greatest(T) >= m
  BY <1>1, GreatestNumber
<1>3. Greatest(T) \in Nat /\ \A m \in S : m \in T /\ m \in Nat
  BY <1>1, <1>2 DEF T
<1>4. QED
  BY <1>2, <1>3 DEF T

--------------------------------------------------------------------------------
(* ensureObjectRecord.                                                           *)

\* The row found or made, and nothing else, is changed.
RowEnsured(rs, name, uid, deleted) ==
  LET c  == Candidates(rs, name, uid)
      r  == RowFor(rs, name, uid)
      es == Ensured(rs, name, uid, deleted)
  IN  /\ es \in Seq(Rows)
      /\ c \subseteq DOMAIN rs
      /\ r \in DOMAIN es /\ DOMAIN rs \subseteq DOMAIN es
      /\ \A i \in DOMAIN es : i # r => i \in DOMAIN rs /\ es[i] = rs[i]
      /\ c # {} =>
           /\ r \in c
           /\ es[r] = [rs[r] EXCEPT !.uid = IF uid = NoUid THEN rs[r].uid ELSE uid,
                                    !.deleted = deleted]
      /\ c = {} =>
           /\ r \notin DOMAIN rs
           /\ es[r] = [name |-> name, uid |-> uid, deleted |-> deleted,
                       latest |-> 0, index |-> 0, raw |-> FALSE]

LEMMA EnsuredRow ==
  ASSUME NEW rs \in Seq(Rows), NEW name \in Names, NEW uid \in Uids \cup {NoUid},
         NEW deleted \in BOOLEAN
  PROVE  RowEnsured(rs, name, uid, deleted)
<1> DEFINE c   == Candidates(rs, name, uid)
           r   == RowFor(rs, name, uid)
           es  == Ensured(rs, name, uid, deleted)
           new == [name |-> name, uid |-> uid, deleted |-> deleted,
                   latest |-> 0, index |-> 0, raw |-> FALSE]
<1>1. c \subseteq DOMAIN rs /\ DOMAIN rs = 1..Len(rs) /\ Len(rs) \in Nat
  BY DEF Candidates
<1>2. CASE c = {}
  <2>1. r = Len(rs) + 1 /\ es = Append(rs, new)
    BY <1>2 DEF RowFor, Ensured
  <2>2. new \in Rows
    BY DEF Rows
  <2> HIDE DEF new, es, r, c
  <2>3. /\ es \in Seq(Rows) /\ DOMAIN es = 1..(Len(rs) + 1)
        /\ es[r] = new /\ \A i \in 1..Len(rs) : es[i] = rs[i]
    BY <2>1, <2>2, <1>1
  <2>4. \A i \in DOMAIN es : i # r => i \in DOMAIN rs
    BY <1>1, <2>1, <2>3
  <2>5. r \in DOMAIN es /\ DOMAIN rs \subseteq DOMAIN es /\ r \notin DOMAIN rs
    BY <1>1, <2>1, <2>3
  <2>6. QED
    BY <1>1, <1>2, <2>3, <2>4, <2>5 DEF new, es, r, c, RowEnsured
<1>3. CASE c # {}
  <2> DEFINE row == [rs[r] EXCEPT !.uid = IF uid = NoUid THEN rs[r].uid ELSE uid,
                                  !.deleted = deleted]
  <2>1. /\ r = Least(c)
        /\ es = [rs EXCEPT ![r].uid = IF uid = NoUid THEN @ ELSE uid, ![r].deleted = deleted]
    <3>1. r = Least(c)
      BY <1>3 DEF RowFor
    <3>2. QED
      BY <1>3, <3>1, Zenon DEF Ensured
  <2>2. r \in c /\ r \in DOMAIN rs
    <3> HIDE DEF c, r
    <3>1. c \in SUBSET Nat
      BY <1>1
    <3>2. QED
      BY <1>1, <1>3, <2>1, <3>1, LeastIsLeast
  <2>3. row \in Rows
    <3> HIDE DEF c, r
    <3>1. rs[r] \in Rows
      BY <1>1, <2>2
    <3>2. QED
      BY <3>1 DEF Rows
  <2> HIDE DEF es, r, c
  <2>5. DOMAIN es = DOMAIN rs /\ es[r] = row /\ \A i \in DOMAIN rs : i # r => es[i] = rs[i]
    BY <2>1, <2>2
  <2>6. es = [rs EXCEPT ![r] = row]
    BY <2>1, <2>2, <2>5
  <2> HIDE DEF row
  <2>4. es \in Seq(Rows)
    BY <2>2, <2>3, <2>6
  <2>7. QED
    BY <1>1, <1>3, <2>2, <2>4, <2>5 DEF row, es, r, c, RowEnsured
<1>4. QED
  BY <1>2, <1>3

\* Rows may come, that point nowhere; those there are keep their pointers.
KeepsPointers(rs, ts) ==
  /\ DOMAIN rs \subseteq DOMAIN ts
  /\ \A i \in DOMAIN rs : ts[i].latest = rs[i].latest /\ ts[i].index = rs[i].index
  /\ \A i \in DOMAIN ts \ DOMAIN rs : ts[i].latest = 0 /\ ts[i].index = 0

\* Rows may come without a raw document; a row keeps its own, its name and its UID.
KeepsRaw(rs, ts) ==
  /\ \A i \in DOMAIN rs :
       /\ ts[i].name = rs[i].name /\ ts[i].raw = rs[i].raw
       /\ rs[i].uid # NoUid => ts[i].uid = rs[i].uid
  /\ \A i \in DOMAIN ts \ DOMAIN rs : ~ts[i].raw

\* What it says of the rows: the one found or made is of the name, has the UID and
\* the mark; no other changes, and no row loses its UID, pointers or raw document.
LEMMA EnsuredFields ==
  ASSUME NEW rs, GoodRows(rs), NEW name \in Names, NEW uid \in Uids \cup {NoUid},
         NEW deleted \in BOOLEAN, uid # NoUid => NameOf[uid] = name
  PROVE  LET r  == RowFor(rs, name, uid)
             es == Ensured(rs, name, uid, deleted)
         IN  /\ es \in Seq(Rows)
             /\ r \in DOMAIN es
             /\ es[r].name = name /\ es[r].deleted = deleted
             /\ uid # NoUid => es[r].uid = uid
             /\ \A i \in DOMAIN es : i # r => i \in DOMAIN rs /\ es[i] = rs[i]
             /\ KeepsPointers(rs, es) /\ KeepsRaw(rs, es)
<1> DEFINE c  == Candidates(rs, name, uid)
           r  == RowFor(rs, name, uid)
           es == Ensured(rs, name, uid, deleted)
<1>1. rs \in Seq(Rows)
  BY DEF GoodRows
<1>r. RowEnsured(rs, name, uid, deleted)
  BY <1>1, EnsuredRow
<1>2. /\ es \in Seq(Rows)
      /\ c \subseteq DOMAIN rs
      /\ r \in DOMAIN es /\ DOMAIN rs \subseteq DOMAIN es
      /\ \A i \in DOMAIN es : i # r => i \in DOMAIN rs /\ es[i] = rs[i]
      /\ c # {} =>
           /\ r \in c
           /\ es[r] = [rs[r] EXCEPT !.uid = IF uid = NoUid THEN rs[r].uid ELSE uid,
                                    !.deleted = deleted]
      /\ c = {} =>
           /\ r \notin DOMAIN rs
           /\ es[r] = [name |-> name, uid |-> uid, deleted |-> deleted,
                       latest |-> 0, index |-> 0, raw |-> FALSE]
  BY <1>r, Zenon DEF RowEnsured
<1>3. ASSUME NEW i \in c
      PROVE  rs[i].name = name /\ (uid # NoUid => rs[i].uid \in {uid, NoUid})
  BY <1>3 DEF Candidates, GoodRows, UidsKnow
<1> HIDE DEF c, r, es
<1>4. CASE c = {}
  <2>1. /\ es[r].name = name /\ es[r].deleted = deleted /\ es[r].uid = uid
        /\ ~es[r].raw /\ es[r].latest = 0 /\ es[r].index = 0
    BY <1>2, <1>4
  <2>2. \A i \in DOMAIN rs : es[i] = rs[i]
    BY <1>2, <1>4
  <2>3. KeepsPointers(rs, es) /\ KeepsRaw(rs, es)
    BY <1>2, <2>1, <2>2 DEF KeepsPointers, KeepsRaw
  <2>4. QED
    BY <1>2, <1>4, <2>1, <2>3 DEF c, r, es
<1>5. CASE c # {}
  <2>1. r \in c /\ r \in DOMAIN rs /\ rs[r] \in Rows
    BY <1>1, <1>2, <1>5
  <2>2. /\ es[r].name = rs[r].name /\ es[r].deleted = deleted
        /\ es[r].uid = (IF uid = NoUid THEN rs[r].uid ELSE uid)
        /\ es[r].raw = rs[r].raw /\ es[r].latest = rs[r].latest /\ es[r].index = rs[r].index
    BY <1>2, <1>5, <2>1 DEF Rows
  <2>3. rs[r].name = name /\ (uid # NoUid => rs[r].uid \in {uid, NoUid})
    BY <1>3, <2>1
  <2>4. \A i \in DOMAIN es : i \in DOMAIN rs
    BY <1>2, <2>1
  <2>5. \A i \in DOMAIN rs : i # r => es[i] = rs[i]
    BY <1>2
  <2>6. ASSUME NEW i \in DOMAIN rs
        PROVE  /\ es[i].name = rs[i].name /\ es[i].raw = rs[i].raw
               /\ es[i].latest = rs[i].latest /\ es[i].index = rs[i].index
               /\ rs[i].uid # NoUid => es[i].uid = rs[i].uid
    BY <2>2, <2>3, <2>5
  <2>7. KeepsPointers(rs, es) /\ KeepsRaw(rs, es)
    BY <1>2, <2>4, <2>6 DEF KeepsPointers, KeepsRaw
  <2>8. QED
    BY <1>2, <2>2, <2>3, <2>7 DEF c, r, es
<1>6. QED
  BY <1>4, <1>5

\* Ensuring a row keeps one row to an object.
LEMMA EnsuredOneEach ==
  ASSUME NEW rs, GoodRows(rs), NEW name \in Names, NEW uid \in Uids \cup {NoUid},
         NEW deleted \in BOOLEAN, uid # NoUid => NameOf[uid] = name
  PROVE  OneEach(Ensured(rs, name, uid, deleted))
<1> DEFINE c  == Candidates(rs, name, uid)
           r  == RowFor(rs, name, uid)
           es == Ensured(rs, name, uid, deleted)
<1>1. /\ rs \in Seq(Rows) /\ OneEach(rs) /\ UidsKnow(rs)
  BY DEF GoodRows
<1>r. RowEnsured(rs, name, uid, deleted)
  BY <1>1, EnsuredRow
<1>2. /\ es \in Seq(Rows)
      /\ c \subseteq DOMAIN rs
      /\ r \in DOMAIN es /\ DOMAIN rs \subseteq DOMAIN es
      /\ \A i \in DOMAIN es : i # r => i \in DOMAIN rs /\ es[i] = rs[i]
      /\ c # {} =>
           /\ r \in c
           /\ es[r] = [rs[r] EXCEPT !.uid = IF uid = NoUid THEN rs[r].uid ELSE uid,
                                    !.deleted = deleted]
      /\ c = {} =>
           /\ r \notin DOMAIN rs
           /\ es[r] = [name |-> name, uid |-> uid, deleted |-> deleted,
                       latest |-> 0, index |-> 0, raw |-> FALSE]
  BY <1>r, Zenon DEF RowEnsured
<1>3. es[r].name = name
  BY EnsuredFields
<1>4. ASSUME NEW i \in DOMAIN rs, i # r, rs[i].name = name
      PROVE  rs[i].uid # es[r].uid /\ rs[i].uid # NoUid /\ es[r].uid # NoUid
  <2>1. CASE c = {}
    <3>1. uid # NoUid /\ rs[i].uid # uid /\ rs[i].uid # NoUid
      BY <1>4, <2>1 DEF Candidates
    <3>2. es[r].uid = uid
      BY <1>2, <2>1
    <3>3. QED
      BY <3>1, <3>2
  <2>2. CASE c # {}
    <3>1. r \in DOMAIN rs /\ r \in c /\ rs[r] \in Rows
      BY <1>1, <1>2, <2>2
    <3>2. es[r].uid = (IF uid = NoUid THEN rs[r].uid ELSE uid)
      BY <1>2, <2>2, <3>1 DEF Rows
    <3>3. rs[r].name = name /\ (uid # NoUid => rs[r].uid \in {uid, NoUid})
      BY <1>1, <3>1 DEF Candidates, UidsKnow
    <3>4. rs[i].uid # rs[r].uid /\ rs[i].uid # NoUid /\ rs[r].uid # NoUid
      BY <1>1, <1>4, <3>1, <3>3 DEF OneEach
    <3>5. QED
      BY <3>2, <3>3, <3>4
  <2>3. QED
    BY <2>1, <2>2
<1> HIDE DEF c, r, es
<1>5. ASSUME NEW i \in DOMAIN es, NEW j \in DOMAIN es, i # j, es[i].name = es[j].name
      PROVE  es[i].uid # es[j].uid /\ es[i].uid # NoUid
  <2>1. CASE i = r
    BY <1>2, <1>3, <1>4, <1>5, <2>1
  <2>2. CASE j = r
    BY <1>2, <1>3, <1>4, <1>5, <2>2
  <2>3. CASE i # r /\ j # r
    BY <1>1, <1>2, <1>5, <2>3 DEF OneEach
  <2>4. QED
    BY <2>1, <2>2, <2>3
<1>6. QED
  BY <1>5 DEF OneEach, es

LEMMA EnsuredKnow ==
  ASSUME NEW rs, GoodRows(rs), NEW name \in Names, NEW uid \in Uids \cup {NoUid},
         NEW deleted \in BOOLEAN, uid # NoUid => NameOf[uid] = name
  PROVE  UidsKnow(Ensured(rs, name, uid, deleted))
<1> DEFINE r  == RowFor(rs, name, uid)
           es == Ensured(rs, name, uid, deleted)
<1>1. RowEnsured(rs, name, uid, deleted)
  BY EnsuredRow DEF GoodRows
<1>2. /\ r \in DOMAIN es /\ es[r].name = name
      /\ uid # NoUid => es[r].uid = uid
      /\ \A i \in DOMAIN es : i # r => i \in DOMAIN rs /\ es[i] = rs[i]
      /\ \A i \in DOMAIN rs : es[i].name = rs[i].name
  BY EnsuredFields DEF KeepsRaw
<1>3. UidsKnow(rs)
  BY DEF GoodRows
<1>4. ASSUME uid = NoUid, r \in DOMAIN rs
      PROVE  es[r].uid # NoUid => es[r].uid = rs[r].uid
  <2>1. rs[r] \in Rows /\ rs \in Seq(Rows)
    BY <1>4 DEF GoodRows
  <2>2. QED
    BY <1>1, <1>4, <2>1 DEF Rows, RowEnsured
<1>5. ASSUME uid = NoUid, r \notin DOMAIN rs
      PROVE  es[r].uid = NoUid
  BY <1>1, <1>5 DEF RowEnsured
<1> HIDE DEF r, es
<1>6. UidsKnow(es)
  BY <1>2, <1>3, <1>4, <1>5 DEF UidsKnow
<1>7. QED
  BY <1>6 DEF es

\* Ensuring a row leaves a good table, if a deletion finds no raw document.
LEMMA EnsuredGood ==
  ASSUME NEW rs, GoodRows(rs), NEW name \in Names, NEW uid \in Uids \cup {NoUid},
         NEW deleted \in BOOLEAN, uid # NoUid => NameOf[uid] = name,
         deleted => \A i \in DOMAIN rs :
                      rs[i].name = name /\ rs[i].uid \in {uid, NoUid} => ~rs[i].raw,
         deleted => uid # NoUid
  PROVE  GoodRows(Ensured(rs, name, uid, deleted))
<1> DEFINE r  == RowFor(rs, name, uid)
           es == Ensured(rs, name, uid, deleted)
<1>1. /\ es \in Seq(Rows)
      /\ r \in DOMAIN es
      /\ es[r].name = name /\ es[r].deleted = deleted
      /\ uid # NoUid => es[r].uid = uid
      /\ \A i \in DOMAIN es : i # r => i \in DOMAIN rs /\ es[i] = rs[i]
      /\ KeepsRaw(rs, es)
  BY EnsuredFields
<1>2. OneEach(es) /\ UidsKnow(es)
  BY EnsuredOneEach, EnsuredKnow
<1>3. RawLive(rs)
  BY DEF GoodRows
<1> HIDE DEF r, es
<1>4. ASSUME deleted, es[r].raw
      PROVE  FALSE
  <2>1. r \in DOMAIN rs /\ rs[r].raw /\ rs[r].name = name
    BY <1>1, <1>4 DEF KeepsRaw
  <2>2. rs[r].uid \in {uid, NoUid}
    BY <1>1, <1>4, <2>1 DEF KeepsRaw
  <2>3. QED
    BY <1>4, <2>1, <2>2
<1>5. RawLive(es)
  BY <1>1, <1>3, <1>4 DEF RawLive
<1>6. QED
  BY <1>1, <1>2, <1>5 DEF GoodRows, es

--------------------------------------------------------------------------------
(* Rows that change in part.                                                     *)

LEMMA PointersKept ==
  ASSUME NEW rs, NEW ts, KeepsPointers(rs, ts), NEW vs, NEW es,
         GoodPointers(rs, vs), GoodVersions(rs, vs), GoodEdges(rs, vs, es)
  PROVE  GoodPointers(ts, vs) /\ GoodVersions(ts, vs) /\ GoodEdges(ts, vs, es)
<1>1. GoodVersions(ts, vs) /\ GoodEdges(ts, vs, es)
  BY DEF KeepsPointers, GoodVersions, GoodEdges
<1>2. ASSUME NEW i \in DOMAIN ts
      PROVE  GoodPointer(ts[i], Of(vs, i))
  <2>1. CASE i \in DOMAIN rs
    BY <2>1 DEF KeepsPointers, GoodPointers, GoodPointer
  <2>2. CASE i \notin DOMAIN rs
    <3>1. Of(vs, i) = {}
      BY <2>2 DEF GoodVersions, Of
    <3>2. QED
      BY <2>2, <3>1 DEF KeepsPointers, GoodPointer
  <2>3. QED
    BY <2>1, <2>2
<1>3. QED
  BY <1>1, <1>2 DEF GoodPointers

LEMMA GoneKept ==
  ASSUME NEW rs, NEW ts, KeepsRaw(rs, ts), NEW n, NEW ob, GoneFromRaw(rs, n, ob)
  PROVE  GoneFromRaw(ts, n, ob)
BY DEF KeepsRaw, GoneFromRaw

\* Rows that change only what GoodRows does not tell apart.
LEMMA SameRowsGood ==
  ASSUME NEW rs, NEW ts \in Seq(Rows), GoodRows(rs), DOMAIN ts = DOMAIN rs,
         \A i \in DOMAIN rs : /\ ts[i].name = rs[i].name /\ ts[i].uid = rs[i].uid
                              /\ ts[i].deleted = rs[i].deleted /\ ts[i].raw = rs[i].raw
  PROVE  GoodRows(ts)
BY DEF GoodRows, OneEach, UidsKnow, RawLive

\* A version newer than those of its row, to which the row then points.
LEMMA VersionAdded ==
  ASSUME NEW rs, GoodRows(rs), NEW vs, GoodPointers(rs, vs), GoodVersions(rs, vs),
         vs \in SUBSET Versions, NEW id \in DOMAIN rs, NEW ver \in Versions, ver.obj = id,
         \A v \in vs : v.id < ver.id, \A v \in Of(vs, id) : v.seq < ver.seq
  PROVE  /\ GoodRows(PointTo(rs, id, ver.id)) /\ KeepsRaw(rs, PointTo(rs, id, ver.id))
         /\ DOMAIN PointTo(rs, id, ver.id) = DOMAIN rs
         /\ GoodPointers(PointTo(rs, id, ver.id), vs \cup {ver})
         /\ GoodVersions(PointTo(rs, id, ver.id), vs \cup {ver})
<1> DEFINE ts == PointTo(rs, id, ver.id)
           ws == vs \cup {ver}
<1>1. ts = [rs EXCEPT ![id].latest = ver.id, ![id].index = ver.id]
  BY DEF PointTo
<1>2. rs \in Seq(Rows) /\ rs[id] \in Rows /\ ver.id \in Nat \ {0} /\ ver.seq \in Nat
  BY DEF GoodRows, Versions
<1> HIDE DEF ts, ws
<1>3. /\ DOMAIN ts = DOMAIN rs /\ \A i \in DOMAIN rs : i # id => ts[i] = rs[i]
      /\ ts[id] = [rs[id] EXCEPT !.latest = ver.id, !.index = ver.id]
  BY <1>1, <1>2
<1>4. /\ ts[id] \in Rows /\ ts[id].name = rs[id].name /\ ts[id].uid = rs[id].uid
      /\ ts[id].deleted = rs[id].deleted /\ ts[id].raw = rs[id].raw
      /\ ts[id].latest = ver.id /\ ts[id].index = ver.id
  BY <1>2, <1>3 DEF Rows
<1>5. ts \in Seq(Rows)
  <2>1. ts = [rs EXCEPT ![id] = ts[id]]
    BY <1>1, <1>2, <1>3
  <2>2. QED
    BY <1>2, <1>4, <2>1
<1>6. GoodRows(ts) /\ KeepsRaw(rs, ts)
  <2>1. \A i \in DOMAIN rs : /\ ts[i].name = rs[i].name /\ ts[i].uid = rs[i].uid
                             /\ ts[i].deleted = rs[i].deleted /\ ts[i].raw = rs[i].raw
    BY <1>3, <1>4
  <2>2. GoodRows(ts)
    BY <1>3, <1>5, <2>1, SameRowsGood
  <2>3. KeepsRaw(rs, ts)
    BY <1>3, <2>1 DEF KeepsRaw
  <2>4. QED
    BY <2>2, <2>3
<1>7. GoodVersions(ts, ws)
  <2>1. \A v \in vs : v.id \in Nat /\ v.id # ver.id
    BY <1>2 DEF Versions
  <2>2. QED
    BY <1>3, <2>1 DEF GoodVersions, ws
<1>8. ASSUME NEW i \in DOMAIN rs
      PROVE  GoodPointer(ts[i], Of(ws, i))
  <2>1. CASE i # id
    <3>1. Of(ws, i) = Of(vs, i)
      BY <2>1 DEF Of, ws
    <3>2. GoodPointer(rs[i], Of(vs, i))
      BY DEF GoodPointers
    <3>3. QED
      BY <1>3, <2>1, <3>1, <3>2
  <2>2. CASE i = id
    <3>1. Of(ws, id) = Of(vs, id) \cup {ver}
      BY DEF Of, ws
    <3>2. \A w \in Of(vs, id) : w.seq <= ver.seq
      BY <1>2 DEF Of, Versions
    <3>3. \A w \in Of(ws, id) : w.seq <= ver.seq
      BY <1>2, <3>1, <3>2
    <3>4. ts[id].latest # 0 /\ ver \in Of(ws, id)
      BY <1>2, <1>4, <3>1
    <3>5. QED
      BY <1>4, <2>2, <3>3, <3>4 DEF GoodPointer
  <2>3. QED
    BY <2>1, <2>2
<1>9. QED
  BY <1>3, <1>6, <1>7, <1>8 DEF GoodPointers, ts, ws

\* The version that an observation makes is newer than all there are, and its
\* number is above those of its object.
LEMMA NextVersionIsNext ==
  ASSUME StoreTypeOK, NEW ob \in Observations, NEW id \in Nat \ {0}
  PROVE  /\ NextVersion(ob, id) \in Versions /\ NextVersion(ob, id).obj = id
         /\ \A v \in versions : v.id < NextVersion(ob, id).id
         /\ \A v \in Of(versions, id) : v.seq < NextVersion(ob, id).seq
<1> DEFINE Ids  == {v.id : v \in versions}
           Seqs == {v.seq : v \in History(id)}
<1>1. versions \in SUBSET Versions /\ IsFiniteSet(versions)
  BY DEF StoreTypeOK
<1>2. History(id) \in SUBSET versions /\ IsFiniteSet(History(id)) /\ Of(versions, id) = History(id)
  BY <1>1, FS_Subset DEF History, Of
<1>3. Ids \in SUBSET Nat /\ IsFiniteSet(Ids)
  <2> DEFINE f == [v \in versions |-> v.id]
  <2>1. f \in [versions -> Range(f)] /\ Range(f) = Ids
    BY DEF Range
  <2>2. IsFiniteSet(Ids)
    BY <1>1, <2>1, ImageFinite
  <2>3. QED
    BY <1>1, <2>2 DEF Versions
<1>4. Seqs \in SUBSET Nat /\ IsFiniteSet(Seqs)
  <2> DEFINE f == [v \in History(id) |-> v.seq]
  <2>1. f \in [History(id) -> Range(f)] /\ Range(f) = Seqs
    BY DEF Range
  <2>2. IsFiniteSet(Seqs)
    BY <1>2, <2>1, ImageFinite
  <2>3. QED
    BY <1>1, <1>2, <2>2 DEF Versions
<1>5. /\ 1 + Greatest({0} \cup Ids) \in Nat \ {0}
      /\ \A m \in Ids : 1 + Greatest({0} \cup Ids) > m
  <2> HIDE DEF Ids
  <2>1. QED
    BY <1>3, NextIsAbove
<1>6. /\ 1 + Greatest({0} \cup Seqs) \in Nat \ {0}
      /\ \A m \in Seqs : 1 + Greatest({0} \cup Seqs) > m
  <2> HIDE DEF Seqs
  <2>1. QED
    BY <1>4, NextIsAbove
<1> DEFINE topId  == 1 + Greatest({0} \cup Ids)
           topSeq == 1 + Greatest({0} \cup Seqs)
<1>7. NextVersion(ob, id) = [id |-> topId, obj |-> id, seq |-> topSeq, at |-> ob.at, doc |-> ob.doc]
  BY Zenon DEF NextVersion, NextSeq
<1>8. /\ topId \in Nat \ {0} /\ \A v \in versions : topId > v.id
      /\ topSeq \in Nat \ {0} /\ \A v \in History(id) : topSeq > v.seq
  BY <1>5, <1>6, Zenon
<1> HIDE DEF topId, topSeq
<1>9. NextVersion(ob, id) \in Versions
  BY <1>7, <1>8 DEF Versions, Observations
<1>10. \A v \in versions : v.id \in Nat /\ v.seq \in Nat
  BY <1>1 DEF Versions
<1>11. QED
  BY <1>2, <1>7, <1>8, <1>9, <1>10

--------------------------------------------------------------------------------
(* Every step preserves the invariant.                                           *)

LEMMA StoreInit == Init => StoreInv
<1> SUFFICES ASSUME Init PROVE StoreInv
  OBVIOUS
<1>1. rows = <<>> /\ rows \in Seq(Rows) /\ DOMAIN rows = {} /\ versions = {} /\ edges = {}
  BY DEF Init
<1>2. \A n \in Names : inflight[n] = NoObservation
  BY DEF Init
<1>3. StoreTypeOK
  BY <1>1, <1>2, FS_EmptySet DEF Init, StoreTypeOK
<1>4. GoodRows(rows) /\ GoodPointers(rows, versions) /\ GoodVersions(rows, versions)
  BY <1>1 DEF GoodRows, UidsKnow, OneEach, RawLive, GoodPointers, GoodVersions
<1>5. GoodEdges(rows, versions, edges) /\ DeletionsAreGone
  BY <1>1, <1>2 DEF GoodEdges, DeletionsAreGone, GoneFromRaw
<1>6. QED
  BY <1>3, <1>4, <1>5 DEF StoreInv

\* The first transaction: the row is ensured and its raw document put or deleted.
LEMMA PutRawLatestKeeps ==
  ASSUME StoreInv, NEW u \in Uids, NEW del \in BOOLEAN, NEW doc \in Docs,
         PutRawLatest([uid |-> u, del |-> del, doc |-> doc, at |-> clock])
  PROVE  StoreInv'
<1> DEFINE ob   == [uid |-> u, del |-> del, doc |-> doc, at |-> clock]
           name == NameOf[u]
           id   == RowFor(rows, name, u)
           kept == Ensured(rows, name, u, del)
<1>1. /\ name \in Names /\ u # NoUid
      /\ ob \in Observations /\ ob # NoObservation
  <2>1. clock \in Nat
    BY DEF StoreInv, StoreTypeOK
  <2>2. u # NoUid /\ NameOf \in [Uids -> Names]
    BY ConstantsAssumption
  <2>3. ob.uid # NoObservation.uid
    BY <2>2 DEF NoObservation
  <2>4. QED
    BY <2>1, <2>2, <2>3 DEF Observations
<1>2. /\ rows' = [kept EXCEPT ![id].raw = ~del]
      /\ inflight' = [inflight EXCEPT ![name] = ob]
      /\ UNCHANGED <<clock, versions, edges>>
  BY DEF PutRawLatest, RawAfter
<1>3. GoodRows(rows)
  BY DEF StoreInv
<1>4. /\ kept \in Seq(Rows)
      /\ id \in DOMAIN kept
      /\ kept[id].name = name /\ kept[id].deleted = del /\ kept[id].uid = u
      /\ \A i \in DOMAIN kept : i # id => i \in DOMAIN rows /\ kept[i] = rows[i]
      /\ KeepsPointers(rows, kept) /\ KeepsRaw(rows, kept)
  BY <1>1, <1>3, EnsuredFields
<1>5. OneEach(kept) /\ UidsKnow(kept) /\ RawLive(rows)
  BY <1>1, <1>3, EnsuredOneEach, EnsuredKnow DEF GoodRows
<1> HIDE DEF ob, name, id, kept
<1>6. /\ rows' \in Seq(Rows) /\ DOMAIN rows' = DOMAIN kept
      /\ \A i \in DOMAIN kept : i # id => rows'[i] = kept[i]
      /\ rows'[id].name = name /\ rows'[id].uid = u /\ rows'[id].deleted = del
      /\ rows'[id].raw = ~del
      /\ rows'[id].latest = kept[id].latest /\ rows'[id].index = kept[id].index
  <2>1. kept[id] \in Rows
    BY <1>4
  <2>2. /\ DOMAIN rows' = DOMAIN kept
        /\ rows'[id] = [kept[id] EXCEPT !.raw = ~del]
        /\ \A i \in DOMAIN kept : i # id => rows'[i] = kept[i]
    BY <1>2, <1>4
  <2>3. rows'[id] \in Rows
    BY <2>1, <2>2 DEF Rows
  <2>4. rows' = [kept EXCEPT ![id] = rows'[id]]
    BY <1>2, <1>4, <2>2
  <2>5. rows' \in Seq(Rows)
    BY <1>4, <2>3, <2>4
  <2>6. QED
    BY <1>4, <2>1, <2>2, <2>5 DEF Rows
<1>7. \A i \in DOMAIN kept : rows'[i].name = kept[i].name /\ rows'[i].uid = kept[i].uid
  BY <1>4, <1>6
<1>8. GoodRows(rows)'
  <2>1. OneEach(rows') /\ UidsKnow(rows')
    BY <1>5, <1>6, <1>7 DEF OneEach, UidsKnow
  <2>2. RawLive(rows')
    BY <1>4, <1>5, <1>6 DEF RawLive
  <2>3. QED
    BY <1>6, <2>1, <2>2 DEF GoodRows
<1>9. KeepsPointers(rows, rows')
  BY <1>4, <1>6 DEF KeepsPointers
<1>10. GoodPointers(rows, versions)' /\ GoodVersions(rows, versions)' /\ GoodEdges(rows, versions, edges)'
  BY <1>2, <1>9, PointersKept DEF StoreInv
<1>11. StoreTypeOK'
  BY <1>1, <1>2, <1>6 DEF StoreInv, StoreTypeOK, ob, name
<1>12. DeletionsAreGone'
  <2>1. ASSUME NEW n \in Names, n # name
        PROVE  GoneFromRaw(rows', n, inflight'[n])
    <3>1. inflight'[n] = inflight[n]
      BY <1>2, <2>1 DEF StoreInv, StoreTypeOK
    <3>2. GoneFromRaw(kept, n, inflight[n])
      BY <1>4, GoneKept DEF StoreInv, DeletionsAreGone
    <3>3. QED
      BY <1>6, <2>1, <3>1, <3>2 DEF GoneFromRaw
  <2>2. GoneFromRaw(rows', name, ob)
    <3>1. ASSUME NEW i \in DOMAIN rows', rows'[i].name = name, rows'[i].uid \in {u, NoUid}, del
          PROVE  ~rows'[i].raw
      <4>1. OneEach(rows')
        BY <1>8 DEF GoodRows
      <4>2. i = id
        BY <1>1, <1>4, <1>6, <3>1, <4>1 DEF OneEach
      <4>3. QED
        BY <1>6, <3>1, <4>2
    <3>2. QED
      BY <3>1 DEF GoneFromRaw, ob
  <2>3. inflight'[name] = ob
    BY <1>1, <1>2 DEF StoreInv, StoreTypeOK
  <2>4. QED
    BY <2>1, <2>2, <2>3 DEF DeletionsAreGone
<1>13. QED
  BY <1>8, <1>10, <1>11, <1>12 DEF StoreInv

\* What is known of the observation that is between its two transactions, and of
\* the table once its row is ensured.
LEMMA ObservationEnsured ==
  ASSUME StoreInv, NEW n \in Names, inflight[n] # NoObservation
  PROVE  LET ob   == inflight[n]
             kept == Ensured(rows, n, ob.uid, ob.del)
             id   == RowFor(rows, n, ob.uid)
         IN  /\ ob \in Observations /\ NameOf[ob.uid] = n
             /\ id \in Nat \ {0} /\ id \in DOMAIN kept
             /\ GoodRows(kept) /\ KeepsPointers(rows, kept) /\ KeepsRaw(rows, kept)
<1> DEFINE ob   == inflight[n]
           kept == Ensured(rows, n, ob.uid, ob.del)
           id   == RowFor(rows, n, ob.uid)
<1>1. ob \in Observations /\ NameOf[ob.uid] = n
  BY DEF StoreInv, StoreTypeOK
<1>2. /\ ob.uid \in Uids \cup {NoUid} /\ ob.uid # NoUid /\ ob.del \in BOOLEAN
  <2>1. NoUid \notin Uids
    BY ConstantsAssumption
  <2>2. QED
    BY <1>1, <2>1 DEF Observations
<1>3. GoodRows(rows)
  BY DEF StoreInv
<1>4. kept \in Seq(Rows) /\ id \in DOMAIN kept /\ KeepsPointers(rows, kept) /\ KeepsRaw(rows, kept)
  BY <1>1, <1>2, <1>3, EnsuredFields
<1>5. ob.del => \A i \in DOMAIN rows :
                  rows[i].name = n /\ rows[i].uid \in {ob.uid, NoUid} => ~rows[i].raw
  BY DEF StoreInv, DeletionsAreGone, GoneFromRaw
<1>6. GoodRows(kept)
  BY <1>1, <1>2, <1>3, <1>5, EnsuredGood
<1> HIDE DEF ob, kept, id
<1>7. id \in Nat \ {0}
  BY <1>4
<1>8. QED
  BY <1>1, <1>4, <1>6, <1>7 DEF ob, kept, id

\* The second transaction stores a version and perhaps an edge.
LEMMA StoreKeeps ==
  ASSUME StoreInv, NEW n \in Names, inflight[n] # NoObservation,
         Store(inflight[n], RowFor(rows, n, inflight[n].uid))
  PROVE  /\ GoodRows(rows)' /\ KeepsRaw(rows, rows')
         /\ GoodPointers(rows, versions)' /\ GoodVersions(rows, versions)'
         /\ GoodEdges(rows, versions, edges)'
         /\ versions' \in SUBSET Versions /\ IsFiniteSet(versions') /\ edges' \in SUBSET Edges
<1> DEFINE ob     == inflight[n]
           id     == RowFor(rows, n, ob.uid)
           kept   == Ensured(rows, n, ob.uid, ob.del)
           ver    == NextVersion(ob, id)
           stored == PointTo(kept, id, ver.id)
           target == IF ob.doc = "a" THEN Target[ob.uid] ELSE NoUid
<1>1. /\ ob \in Observations /\ NameOf[ob.uid] = n
      /\ id \in Nat \ {0} /\ id \in DOMAIN kept
      /\ GoodRows(kept) /\ KeepsPointers(rows, kept) /\ KeepsRaw(rows, kept)
  BY ObservationEnsured
<1>2. /\ versions' = versions \cup {ver}
      /\ \/ /\ target = NoUid
            /\ rows' = stored
            /\ UNCHANGED edges
         \/ /\ target # NoUid
            /\ rows' = Ensured(stored, target, NoUid, FALSE)
            /\ edges' = edges \cup {[ver |-> ver.id, dst |-> RowFor(stored, target, NoUid)]}
  BY <1>1, Zenon DEF Store
<1>3. /\ ver \in Versions /\ ver.obj = id
      /\ \A v \in versions : v.id < ver.id
      /\ \A v \in Of(versions, id) : v.seq < ver.seq
  BY <1>1, NextVersionIsNext DEF StoreInv
<1>4. versions \in SUBSET Versions /\ IsFiniteSet(versions) /\ edges \in SUBSET Edges
  BY DEF StoreInv, StoreTypeOK
<1>5. target # NoUid => target \in Names
  <2>1. Target \in [Uids -> Names \cup {NoUid}]
    BY ConstantsAssumption
  <2>2. QED
    BY <1>1, <2>1 DEF Observations
<1> HIDE DEF ob, id, kept, ver, target
<1>6. GoodPointers(kept, versions) /\ GoodVersions(kept, versions) /\ GoodEdges(kept, versions, edges)
  BY <1>1, PointersKept DEF StoreInv
<1>7. /\ GoodRows(stored) /\ KeepsRaw(kept, stored) /\ DOMAIN stored = DOMAIN kept
      /\ GoodPointers(stored, versions \cup {ver}) /\ GoodVersions(stored, versions \cup {ver})
  BY <1>1, <1>3, <1>4, <1>6, VersionAdded
<1> HIDE DEF stored
<1>8. KeepsRaw(rows, stored)
  BY <1>1, <1>7 DEF KeepsRaw, KeepsPointers
<1>9. GoodEdges(stored, versions', edges)
  BY <1>2, <1>6, <1>7 DEF GoodEdges
<1>10. versions' \in SUBSET Versions /\ IsFiniteSet(versions')
  BY <1>2, <1>3, <1>4, FS_AddElement
<1>11. CASE target = NoUid
  <2>1. rows' = stored /\ edges' = edges
    BY <1>2, <1>11
  <2>2. QED
    BY <1>2, <1>4, <1>7, <1>8, <1>9, <1>10, <2>1
<1>12. CASE target # NoUid
  <2> DEFINE dst == RowFor(stored, target, NoUid)
             end == Ensured(stored, target, NoUid, FALSE)
  <2>1. rows' = end /\ edges' = edges \cup {[ver |-> ver.id, dst |-> dst]}
    BY <1>2, <1>12
  <2>2. target \in Names /\ NoUid \in Uids \cup {NoUid} /\ FALSE \in BOOLEAN
    BY <1>5, <1>12
  <2>3. /\ end \in Seq(Rows) /\ dst \in DOMAIN end
        /\ KeepsPointers(stored, end) /\ KeepsRaw(stored, end)
    BY <1>7, <2>2, EnsuredFields
  <2>4. GoodRows(end)
    BY <1>7, <2>2, EnsuredGood
  <2> HIDE DEF dst, end
  <2>5. GoodPointers(end, versions') /\ GoodVersions(end, versions') /\ GoodEdges(end, versions', edges)
    BY <1>2, <1>7, <1>9, <2>3, PointersKept
  <2>6. KeepsRaw(rows, end)
    BY <1>1, <1>7, <1>8, <2>3 DEF KeepsRaw, KeepsPointers
  <2>7. GoodEdges(end, versions', edges')
    BY <1>2, <2>1, <2>3, <2>5 DEF GoodEdges
  <2>8. edges' \in SUBSET Edges
    <3>1. ver.id \in Nat \ {0} /\ dst \in Nat \ {0}
      BY <1>3, <2>3 DEF Versions
    <3>2. QED
      BY <1>4, <2>1, <3>1 DEF Edges
  <2>9. QED
    BY <1>10, <2>1, <2>4, <2>5, <2>6, <2>7, <2>8
<1>13. QED
  BY <1>11, <1>12

LEMMA PutObservationKeeps ==
  ASSUME StoreInv, NEW n \in Names, PutObservation(n)
  PROVE  StoreInv'
<1> DEFINE ob   == inflight[n]
           id   == RowFor(rows, n, ob.uid)
           kept == Ensured(rows, n, ob.uid, ob.del)
<1>1. /\ ob # NoObservation
      /\ inflight' = [inflight EXCEPT ![n] = NoObservation]
      /\ UNCHANGED clock
      /\ \/ rows' = kept /\ UNCHANGED <<versions, edges>>
         \/ Store(ob, id)
  BY DEF PutObservation
<1>2. GoodRows(kept) /\ KeepsPointers(rows, kept) /\ KeepsRaw(rows, kept)
  BY <1>1, ObservationEnsured
<1>3. /\ GoodRows(rows)' /\ KeepsRaw(rows, rows')
      /\ GoodPointers(rows, versions)' /\ GoodVersions(rows, versions)'
      /\ GoodEdges(rows, versions, edges)'
      /\ versions' \in SUBSET Versions /\ IsFiniteSet(versions') /\ edges' \in SUBSET Edges
  <2>1. CASE rows' = kept /\ UNCHANGED <<versions, edges>>
    <3> HIDE DEF kept
    <3>1. GoodPointers(kept, versions) /\ GoodVersions(kept, versions) /\ GoodEdges(kept, versions, edges)
      BY <1>2, PointersKept DEF StoreInv
    <3>2. QED
      BY <1>2, <2>1, <3>1 DEF StoreInv, StoreTypeOK
  <2>2. CASE Store(ob, id)
    BY <1>1, <2>2, StoreKeeps
  <2>3. QED
    BY <1>1, <2>1, <2>2
<1> HIDE DEF id, kept
<1>4. StoreTypeOK'
  BY <1>1, <1>3 DEF StoreInv, StoreTypeOK, GoodRows
<1>5. DeletionsAreGone'
  <2>1. ASSUME NEW m \in Names
        PROVE  GoneFromRaw(rows', m, inflight'[m])
    <3>1. inflight'[m] = NoObservation \/ inflight'[m] = inflight[m]
      BY <1>1 DEF StoreInv, StoreTypeOK
    <3>2. GoneFromRaw(rows', m, inflight[m])
      BY <1>3, GoneKept DEF StoreInv, DeletionsAreGone
    <3>3. QED
      BY <3>1, <3>2 DEF GoneFromRaw
  <2>2. QED
    BY <2>1 DEF DeletionsAreGone
<1>6. QED
  BY <1>3, <1>4, <1>5 DEF StoreInv

LEMMA AbandonKeeps ==
  ASSUME StoreInv, NEW n \in Names, Abandon(n)
  PROVE  StoreInv'
<1>1. /\ inflight' = [inflight EXCEPT ![n] = NoObservation]
      /\ UNCHANGED <<clock, rows, versions, edges>>
  BY DEF Abandon, database
<1>2. \A m \in Names : inflight'[m] = NoObservation \/ inflight'[m] = inflight[m]
  BY <1>1 DEF StoreInv, StoreTypeOK
<1>3. StoreTypeOK'
  BY <1>1, <1>2 DEF StoreInv, StoreTypeOK
<1>4. DeletionsAreGone'
  BY <1>1, <1>2 DEF StoreInv, DeletionsAreGone, GoneFromRaw
<1>5. QED
  BY <1>1, <1>3, <1>4 DEF StoreInv

\* What retention deletes no row points at.
LEMMA RetentionTakes ==
  ASSUME StoreInv, ApplyRetention
  PROVE  /\ UNCHANGED <<clock, rows, inflight>>
         /\ \/ UNCHANGED <<versions, edges>>
            \/ \E gone \in SUBSET versions :
                 /\ versions' = versions \ gone
                 /\ edges' = EdgesWithout(gone)
                 /\ \A v \in gone : \E r \in DOMAIN Rules : v \in Selected(Rules[r])
<1> DEFINE gone == UNION {Selected(Rules[r]) : r \in DOMAIN Rules}
<1>1. /\ UNCHANGED <<clock, rows, inflight>>
      /\ \/ UNCHANGED <<versions, edges>>
         \/ versions' = versions \ gone /\ edges' = EdgesWithout(gone)
  BY DEF ApplyRetention, database
<1>2. gone \in SUBSET versions /\ \A v \in gone : \E r \in DOMAIN Rules : v \in Selected(Rules[r])
  BY DEF Selected
<1> HIDE DEF gone
<1>3. QED
  BY <1>1, <1>2

LEMMA ApplyRetentionKeeps ==
  ASSUME StoreInv, ApplyRetention
  PROVE  StoreInv'
<1>1. UNCHANGED <<clock, rows, inflight>>
  BY RetentionTakes
<1>2. CASE UNCHANGED <<versions, edges>>
  BY <1>1, <1>2 DEF StoreInv, StoreTypeOK, DeletionsAreGone
<1>3. ASSUME NEW gone \in SUBSET versions,
             versions' = versions \ gone,
             edges' = EdgesWithout(gone),
             \A v \in gone : \E r \in DOMAIN Rules : v \in Selected(Rules[r])
      PROVE  StoreInv'
  <2>1. \A v \in gone : \A i \in DOMAIN rows : v.id # rows[i].latest
    BY <1>3 DEF Selected
  <2>2. IsFiniteSet(versions') /\ versions' \subseteq versions /\ edges' \subseteq edges
    <3>1. IsFiniteSet(versions)
      BY DEF StoreInv, StoreTypeOK
    <3>2. QED
      BY <1>3, <3>1, FS_Subset DEF EdgesWithout
  <2>3. StoreTypeOK'
    BY <1>1, <2>2 DEF StoreInv, StoreTypeOK
  <2>4. GoodVersions(rows, versions)'
    BY <1>1, <2>2 DEF StoreInv, GoodVersions
  <2>5. GoodEdges(rows, versions, edges)'
    <3>1. \A e \in edges' : \E v \in versions' : v.id = e.ver
      BY <1>3 DEF StoreInv, GoodEdges, EdgesWithout
    <3>2. QED
      BY <1>1, <2>2, <3>1 DEF StoreInv, GoodEdges
  <2>6. ASSUME NEW i \in DOMAIN rows
        PROVE  GoodPointer(rows[i], Of(versions', i))
    <3>1. GoodPointer(rows[i], Of(versions, i))
      BY DEF StoreInv, GoodPointers
    <3>2. Of(versions', i) \subseteq Of(versions, i)
      BY <2>2 DEF Of
    <3>3. CASE Of(versions, i) = {}
      BY <3>1, <3>2, <3>3 DEF GoodPointer
    <3>4. CASE Of(versions, i) # {}
      <4>1. PICK v \in Of(versions, i) : v.id = rows[i].latest /\ \A w \in Of(versions, i) : w.seq <= v.seq
        BY <3>1, <3>4 DEF GoodPointer
      <4>2. v \in Of(versions', i)
        BY <1>3, <2>1, <4>1 DEF Of
      <4>3. QED
        BY <3>1, <3>2, <4>1, <4>2 DEF GoodPointer
    <3>5. QED
      BY <3>3, <3>4
  <2>7. GoodPointers(rows, versions)'
    BY <1>1, <2>6 DEF GoodPointers
  <2>8. GoodRows(rows)' /\ DeletionsAreGone'
    BY <1>1 DEF StoreInv, DeletionsAreGone
  <2>9. QED
    BY <2>3, <2>4, <2>5, <2>7, <2>8 DEF StoreInv
<1>4. QED
  BY <1>2, <1>3, RetentionTakes

LEMMA DeleteClusterKeeps ==
  ASSUME StoreInv, DeleteCluster
  PROVE  StoreInv'
<1>1. /\ rows' = <<>> /\ versions' = {} /\ edges' = {}
      /\ UNCHANGED <<clock, inflight>>
  BY DEF DeleteCluster
<1>2. rows' \in Seq(Rows) /\ DOMAIN rows' = {}
  BY <1>1
<1>3. StoreTypeOK'
  BY <1>1, <1>2, FS_EmptySet DEF StoreInv, StoreTypeOK
<1>4. GoodRows(rows)' /\ GoodPointers(rows, versions)' /\ GoodVersions(rows, versions)'
  BY <1>1, <1>2 DEF GoodRows, UidsKnow, OneEach, RawLive, GoodPointers, GoodVersions
<1>5. GoodEdges(rows, versions, edges)' /\ DeletionsAreGone'
  BY <1>1, <1>2 DEF GoodEdges, DeletionsAreGone, GoneFromRaw
<1>6. QED
  BY <1>3, <1>4, <1>5 DEF StoreInv

LEMMA StoreStep ==
  ASSUME StoreInv, [Next]_vars
  PROVE  StoreInv'
<1>1. CASE Tick
  BY <1>1 DEF Tick, StoreInv, StoreTypeOK, DeletionsAreGone, database
<1>2. CASE \E u \in Uids, del \in BOOLEAN, doc \in Docs :
             PutRawLatest([uid |-> u, del |-> del, doc |-> doc, at |-> clock])
  BY <1>2, PutRawLatestKeeps
<1>3. CASE \E n \in Names : PutObservation(n) \/ Abandon(n)
  BY <1>3, PutObservationKeeps, AbandonKeeps
<1>4. CASE ApplyRetention
  BY <1>4, ApplyRetentionKeeps
<1>5. CASE DeleteCluster
  BY <1>5, DeleteClusterKeeps
<1>6. CASE UNCHANGED vars
  BY <1>6 DEF vars, StoreInv, StoreTypeOK, DeletionsAreGone, database
<1>7. QED
  BY <1>1, <1>2, <1>3, <1>4, <1>5, <1>6 DEF Next

LEMMA StoreInvariance == Spec => []StoreInv
<1>1. Init => StoreInv
  BY StoreInit
<1>2. StoreInv /\ [Next]_vars => StoreInv'
  BY StoreStep
<1>3. QED
  BY <1>1, <1>2, PTL DEF Spec

\* The tables of the store tell one story: pointers, raw documents, rows and edges
\* agree after every transaction, for every set of objects and retention rules.
THEOREM TablesStayAgreed == Spec => []TablesAgree
<1>1. StoreInv => TablesAgree
  BY StoreInvAgrees
<1>2. QED
  BY <1>1, StoreInvariance, PTL

--------------------------------------------------------------------------------
(* What a step may do to a history.                                              *)

\* The versions of the object of v that are not older than v.
NotOlder(v) == {w \in History(v.obj) : w.at > v.at \/ (w.at = v.at /\ w.id >= v.id)}

\* A newer version ranks higher.
LEMMA NewerRanksHigher ==
  ASSUME StoreInv, NEW v \in versions, NEW w \in NotOlder(v), w # v
  PROVE  /\ Rank(v) \in Nat /\ Rank(w) \in Nat /\ Rank(w) < Rank(v)
<1>1. w \in versions /\ w.obj = v.obj /\ v \in History(v.obj)
  BY DEF NotOlder, History
<1>2. \A x \in versions : x.id \in Nat /\ x.at \in Nat
  BY DEF StoreInv, StoreTypeOK, Versions
<1>3. v.id # w.id
  BY <1>1 DEF StoreInv, GoodVersions
<1>4. v \in NotOlder(v)
  BY <1>1, <1>2 DEF NotOlder
<1>5. v \notin NotOlder(w)
  <2>1. w.at > v.at \/ (w.at = v.at /\ w.id >= v.id)
    BY DEF NotOlder
  <2>2. ~(v.at > w.at \/ (v.at = w.at /\ v.id >= w.id))
    BY <1>1, <1>2, <1>3, <2>1
  <2>3. QED
    BY <2>2 DEF NotOlder
<1>6. ASSUME NEW x \in NotOlder(w)
      PROVE  x \in NotOlder(v)
  <2>1. x \in versions /\ x \in History(v.obj) /\ (x.at > w.at \/ (x.at = w.at /\ x.id >= w.id))
    BY <1>1 DEF NotOlder, History
  <2>2. w.at > v.at \/ (w.at = v.at /\ w.id >= v.id)
    BY DEF NotOlder
  <2>3. x.at > v.at \/ (x.at = v.at /\ x.id >= v.id)
    BY <1>1, <1>2, <2>1, <2>2
  <2>4. QED
    BY <2>1, <2>3 DEF NotOlder
<1>7. IsFiniteSet(NotOlder(v))
  <2>1. IsFiniteSet(versions) /\ NotOlder(v) \in SUBSET versions
    BY DEF StoreInv, StoreTypeOK, NotOlder, History
  <2>2. QED
    BY <2>1, FS_Subset
<1>8. /\ IsFiniteSet(NotOlder(v) \ {v}) /\ Cardinality(NotOlder(v) \ {v}) = Cardinality(NotOlder(v)) - 1
  BY <1>4, <1>7, FS_RemoveElement
<1>9. NotOlder(w) \in SUBSET (NotOlder(v) \ {v})
  BY <1>5, <1>6
<1>10. IsFiniteSet(NotOlder(w)) /\ Cardinality(NotOlder(w)) <= Cardinality(NotOlder(v) \ {v})
  BY <1>8, <1>9, FS_Subset
<1>11. Cardinality(NotOlder(v)) \in Nat /\ Cardinality(NotOlder(w)) \in Nat
  BY <1>7, <1>10, FS_CardinalityType
<1>12. Rank(v) = Cardinality(NotOlder(v)) /\ Rank(w) = Cardinality(NotOlder(w))
  BY DEF Rank, NotOlder
<1>13. QED
  BY <1>8, <1>10, <1>11, <1>12

\* Of the versions of a row that retention takes, the newest is beyond the minimum
\* of its rule: what is newer than it is kept, and enough.
LEMMA RetentionKeepsEnough ==
  ASSUME StoreInv, ApplyRetention, NEW i \in DOMAIN rows, ~(History(i) \subseteq History(i)')
  PROVE  \E r \in DOMAIN Rules :
           rows[i].name \in Rules[r].names /\ Cardinality(History(i)') >= Rules[r].min
<1>1. PICK gone \in SUBSET versions :
        /\ versions' = versions \ gone
        /\ \A v \in gone : \E r \in DOMAIN Rules : v \in Selected(Rules[r])
  BY RetentionTakes DEF History
<1> DEFINE taken == gone \cap History(i)
           ranks == {Rank(v) : v \in taken}
<1>2. taken # {} /\ History(i)' = History(i) \ taken
  BY <1>1 DEF History
<1>3. \A v \in versions : IsFiniteSet(NotOlder(v)) /\ Cardinality(NotOlder(v)) \in Nat /\ Rank(v) = Cardinality(NotOlder(v))
  <2>1. IsFiniteSet(versions) /\ \A v \in versions : NotOlder(v) \in SUBSET versions
    BY DEF StoreInv, StoreTypeOK, NotOlder, History
  <2>2. \A v \in versions : IsFiniteSet(NotOlder(v)) /\ Cardinality(NotOlder(v)) \in Nat
    BY <2>1, FS_Subset, FS_CardinalityType
  <2>3. QED
    BY <2>2 DEF Rank, NotOlder
<1>4. ranks \in SUBSET Nat /\ ranks # {}
  BY <1>1, <1>2, <1>3
<1> HIDE DEF ranks
<1>5. PICK k \in ranks : \A j \in ranks : k <= j
  BY <1>4, LeastNumber
<1>6. PICK v \in taken : Rank(v) = k
  BY <1>5 DEF ranks
<1>7. v \in versions /\ v.obj = i /\ v \in NotOlder(v)
  <2>1. v \in versions /\ v.obj = i /\ v \in History(v.obj)
    BY <1>6 DEF History
  <2>2. v.id \in Nat /\ v.at \in Nat
    BY <2>1 DEF StoreInv, StoreTypeOK, Versions
  <2>3. QED
    BY <2>1, <2>2 DEF NotOlder
<1>8. PICK r \in DOMAIN Rules : v \in Selected(Rules[r])
  BY <1>1, <1>6
<1>9. NotOlder(v) \ {v} \subseteq History(i)'
  <2>1. ASSUME NEW w \in NotOlder(v), w # v
        PROVE  w \notin taken
    <3>1. Rank(v) \in Nat /\ Rank(w) \in Nat /\ Rank(w) < Rank(v)
      BY <1>7, <2>1, NewerRanksHigher
    <3>2. w \in taken => Rank(w) \in ranks
      BY DEF ranks
    <3>3. QED
      BY <1>5, <1>6, <3>1, <3>2
  <2>2. NotOlder(v) \subseteq History(i)
    BY <1>7 DEF NotOlder
  <2>3. QED
    BY <1>2, <2>1, <2>2
<1>10. /\ Cardinality(NotOlder(v) \ {v}) = Rank(v) - 1
       /\ Rank(v) \in Nat
       /\ Cardinality(NotOlder(v) \ {v}) <= Cardinality(History(i)')
       /\ Cardinality(History(i)') \in Nat
  <2>1. IsFiniteSet(NotOlder(v)) /\ Rank(v) \in Nat /\ Rank(v) = Cardinality(NotOlder(v))
    BY <1>3, <1>7
  <2>2. Cardinality(NotOlder(v) \ {v}) = Cardinality(NotOlder(v)) - 1
    BY <1>7, <2>1, FS_RemoveElement
  <2>3. IsFiniteSet(History(i)')
    <3>1. IsFiniteSet(versions) /\ History(i)' \in SUBSET versions
      BY <1>1 DEF StoreInv, StoreTypeOK, History
    <3>2. QED
      BY <3>1, FS_Subset
  <2>4. NotOlder(v) \ {v} \in SUBSET (History(i)')
    BY <1>9
  <2>5. Cardinality(NotOlder(v) \ {v}) <= Cardinality(History(i)') /\ Cardinality(History(i)') \in Nat
    BY <2>3, <2>4, FS_Subset, FS_CardinalityType
  <2>6. QED
    BY <2>1, <2>2, <2>5
<1>11. rows[i].name \in Rules[r].names /\ (Rules[r].min > 0 => Rank(v) > Rules[r].min)
  BY <1>7, <1>8 DEF Selected, BeyondMinimum
<1>12. Rules[r].min \in Nat
  <2> DEFINE R == [age : Nat, min : Nat, names : SUBSET Names]
  <2>1. Rules \in Seq(R) /\ r \in DOMAIN Rules
    BY <1>8, ConstantsAssumption
  <2>2. Rules[r] \in R
    <3> HIDE DEF R
    <3>1. QED
      BY <2>1
  <2>3. QED
    BY <2>2
<1>13. Cardinality(History(i)') >= Rules[r].min
  <2> DEFINE left == Cardinality(History(i)')
             rank == Rank(v)
             min  == Rules[r].min
  <2>1. left \in Nat /\ rank \in Nat /\ min \in Nat /\ rank - 1 <= left /\ (min > 0 => rank > min)
    BY <1>10, <1>11, <1>12
  <2> HIDE DEF left, rank, min
  <2>2. left >= min
    BY <2>1
  <2>3. QED
    BY <2>2 DEF left, min
<1>14. QED
  BY <1>11, <1>13

LEMMA HistoryStep ==
  ASSUME StoreInv, [Next]_vars
  PROVE  [NumbersAreNotReused /\ EnoughIsKept]_vars
<1>1. ASSUME versions \subseteq versions'
      PROVE  EnoughIsKept
  BY <1>1 DEF EnoughIsKept, History
<1>2. ASSUME versions' \subseteq versions
      PROVE  NumbersAreNotReused
  BY <1>2 DEF NumbersAreNotReused
<1>3. ASSUME UNCHANGED versions
      PROVE  NumbersAreNotReused /\ EnoughIsKept
  BY <1>1, <1>2, <1>3
<1>4. ASSUME NEW n \in Names, PutObservation(n)
      PROVE  NumbersAreNotReused /\ EnoughIsKept
  <2> DEFINE id  == RowFor(rows, n, inflight[n].uid)
             ver == NextVersion(inflight[n], id)
  <2>1. inflight[n] # NoObservation /\ (UNCHANGED versions \/ versions' = versions \cup {ver})
    BY <1>4 DEF PutObservation, Store
  <2>2. inflight[n] \in Observations /\ id \in Nat \ {0}
    BY <2>1, ObservationEnsured
  <2>3. /\ ver.obj = id /\ ver \in Versions
        /\ \A v \in versions : v.id < ver.id
        /\ \A v \in Of(versions, id) : v.seq < ver.seq
    BY <2>2, NextVersionIsNext DEF StoreInv
  <2> HIDE DEF id, ver
  <2>4. ASSUME versions' = versions \cup {ver}
        PROVE  NumbersAreNotReused
    <3>1. \A w \in versions : w.id \in Nat /\ w.seq \in Nat /\ ver.id \in Nat /\ ver.seq \in Nat
      BY <2>3 DEF StoreInv, StoreTypeOK, Versions
    <3>2. \A w \in versions : ver.obj = w.obj => ver.seq > w.seq /\ ver.id > w.id
      BY <2>3, <3>1 DEF Of
    <3>3. QED
      BY <2>4, <3>2 DEF NumbersAreNotReused
  <2>5. QED
    BY <1>1, <1>3, <2>1, <2>4
<1>5. CASE Tick
  BY <1>3, <1>5 DEF Tick, database
<1>6. CASE \E u \in Uids, del \in BOOLEAN, doc \in Docs :
             PutRawLatest([uid |-> u, del |-> del, doc |-> doc, at |-> clock])
  BY <1>3, <1>6 DEF PutRawLatest
<1>7. CASE \E n \in Names : PutObservation(n) \/ Abandon(n)
  BY <1>3, <1>4, <1>7 DEF Abandon, database
<1>8. CASE ApplyRetention
  <2>1. rows' = rows /\ versions' \subseteq versions
    BY <1>8, RetentionTakes
  <2>2. EnoughIsKept
    BY <1>8, <2>1, RetentionKeepsEnough DEF EnoughIsKept
  <2>3. QED
    BY <1>2, <2>1, <2>2
<1>9. CASE DeleteCluster
  <2>1. versions' = {} /\ DOMAIN rows' = {}
    BY <1>9 DEF DeleteCluster
  <2>2. QED
    BY <2>1 DEF NumbersAreNotReused, EnoughIsKept
<1>10. QED
  BY <1>5, <1>6, <1>7, <1>8, <1>9 DEF Next

\* A version number is never given twice within an object, and no step takes an
\* object below the minimum of the rule that takes its newest deleted version.
THEOREM HistoryStaysKept == Spec => HistoryIsKept
<1>1. StoreInv /\ [Next]_vars => [NumbersAreNotReused /\ EnoughIsKept]_vars
  BY HistoryStep
<1>2. QED
  BY <1>1, StoreInvariance, PTL DEF Spec, HistoryIsKept

================================================================================
