---------------------------- MODULE CollectorProofs ----------------------------
(***************************************************************************)
(* Proofs about the two specifications of the collector, which share no    *)
(* variable: WatchWorker here and StreamScheduler at the end.              *)
(*                                                                         *)
(* For every set of objects, log length, mode, retry limit and choice of   *)
(* faults: WatchWorker keeps its types, the store never says that an       *)
(* object was deleted unless the API server deleted it, and an idle stream *)
(* of a resource watched on its own is caught up.  For every retry limit   *)
(* where the store does not fail: evidence is never replaced by older      *)
(* evidence (the default limit is enough where it does), and the offset    *)
(* never runs ahead of it.                                                 *)
(*                                                                         *)
(* None of them is inductive.  A DELETED observation is invented for a     *)
(* reference read from the store before the list, so the argument for the  *)
(* first is that a list can only miss such an object because it is gone,   *)
(* never because the snapshot is older than the object: KnownIsBorn and    *)
(* KnownIsCovered say that whatever the store knows was created no later   *)
(* than the version the next list asks for.  The others add to this IInv   *)
(* one invariant each: LifeInv (what is in hand and what is stored make up *)
(* what the version seen says), OrderInv (what is in hand is newer than    *)
(* what is stored) and DurableInv (what is recorded has been seen, and is  *)
(* stored).                                                                *)
(***************************************************************************)
EXTENDS WatchWorker, StreamScheduler, FiniteSetTheorems, SequenceTheorems, TLAPS

\* Whatever the store knows has been created.
KnownIsBorn == \A o \in Objects : row[o] # "none" => Born(o, Len(log))

\* In the loops that list again from the last version seen, that version covers
\* everything the store knows.
KnownIsCovered ==
  job # "stream" /\ rv # NoVersion =>
    \A o \in Objects : row[o] # "none" => Born(o, rv)

\* The version a list will ask for is none or the last one seen; a stream's
\* relist asks for none.
AsksForLastSeen ==
  /\ job = "stream" => listRV = NoVersion
  /\ pc \in {"refs", "list", "backoff", "sleep"} /\ listRV # NoVersion => listRV = rv

\* An open watch continues from the last version seen.
StreamFollows ==
  \/ pc \in {"announce", "top", "wait", "mark"}
  \/ phase = "watch" /\ pc \in {"ingest", "put", "commit"}
  => rv = cursor

\* Listing happens in the list phase, and what follows it has a version.
ListComesFirst ==
  /\ pc \in {"refs", "list"} => phase = "list"
  /\ job # "stream" /\ pc \in {"ingest", "put", "commit", "open", "announce", "top", "wait", "mark"}
       => rv # NoVersion

\* The references a list will be compared with are known to the store.
PreviousIsKnown == \A o \in prev : row[o] # "none"

\* An observation on its way into the store says what happened in the cluster.
Truthful(ob) ==
  /\ ob.op = "put" => Born(ob.obj, rv)
  /\ ob.op = "del" => Died(ob.obj, Len(log)) /\ Born(ob.obj, rv)

WorkIsTruthful ==
  /\ \A ob \in todo : Truthful(ob)
  /\ pc = "put" => cur \in todo

\* Only a list or an event that is being ingested has observations left.
WorkIsOver == pc \notin {"ingest", "put"} => todo = {}

SeenIsLogged == 1 <= Len(log) /\ rv <= Len(log) /\ base <= Len(log)

\* The API server deletes only what it has created.
DeletedWasBorn ==
  \A o \in Objects : \A i \in 1..Len(log) : log[i] = Del(o) => Born(o, i)

IInv ==
  /\ TypeOK /\ SeenIsLogged /\ DeletedWasBorn
  /\ KnownIsBorn /\ KnownIsCovered /\ AsksForLastSeen /\ StreamFollows
  /\ ListComesFirst /\ PreviousIsKnown
  /\ WorkIsTruthful /\ WorkIsOver /\ NoFalseDelete

--------------------------------------------------------------------------------
\* Types.

LEMMA InitTypeOK == Init => TypeOK
  <1> SUFFICES ASSUME Init PROVE TypeOK
    OBVIOUS
  <1> USE DEF Init, NoVersion
  <1>1. log \in Seq(Writes)
    <2>1. Elsewhere \in Writes
      BY DEF Writes
    <2> QED
      BY <2>1
  <1>2. /\ compacted \in Nat /\ faulty \in BOOLEAN /\ phase \in {"list", "watch"}
        /\ rv \in Nat /\ base \in Nat /\ listRV \in Nat /\ cursor \in Nat
        /\ needsList \in BOOLEAN /\ attempts \in Nat /\ late \in BOOLEAN
        /\ prev \subseteq Objects /\ todo \subseteq Observations
        /\ cur \in Observations \cup {NoObservation}
    OBVIOUS
  <1>3. pc \in PCs /\ job \in {"single", "initial", "refresh", "stream"}
    BY DEF PCs, FirstJobs
  <1>4. /\ row \in [Objects -> {"none", "live", "deleted"}]
        /\ latest \in [Objects -> Versions]
        /\ offset \in [rv : Nat, status : Statuses]
    BY DEF Versions, Statuses
  <1> QED
    BY <1>1, <1>2, <1>3, <1>4 DEF TypeOK

LEMMA NextTypeOK == TypeOK /\ [Next]_vars => TypeOK'
  <1> SUFFICES ASSUME TypeOK, [Next]_vars PROVE TypeOK'
    OBVIOUS
  <1> USE ConstantsAssumption DEF TypeOK, server, list, store, loop, Statuses, PCs, NoVersion
  <1>1. ASSUME NEW write \in Writes, Happens(write) PROVE TypeOK'
    <2>1. log' \in Seq(Writes)
      BY <1>1 DEF Happens
    <2> QED
      BY <1>1, <2>1 DEF Happens
  <1>2. \A o \in Objects : Put(o) \in Writes /\ Del(o) \in Writes
    BY DEF Put, Del, Writes
  <1>3. Elsewhere \in Writes
    BY DEF Writes
  <1>4. CASE Compact
    BY <1>4 DEF Compact
  <1>5. CASE Heal
    <2>1. faulty' \in BOOLEAN
      BY <1>5 DEF Heal
    <2>2. UNCHANGED <<log, compacted, pc, loop, rv, late, list, cursor, store>>
      BY <1>5 DEF Heal
    <2> QED
      BY <2>1, <2>2
  <1>6. CASE Deadline
    BY <1>6 DEF Deadline
  <1>7. CASE Crash
    BY <1>7 DEF Crash, FirstJobs
  <1>8. ASSUME NEW kind, Fail(kind) PROVE TypeOK'
    <2> USE DEF RecordOffset, RetryStatus, CountAttempt, Abandon
    <2>1. CASE FailSingle(kind)
      BY <1>8, <2>1 DEF Fail, FailSingle
    <2>2. CASE FailList(kind)
      BY <1>8, <2>2 DEF Fail, FailList
    <2>3. CASE FailStream(kind)
      <3>1. needsList' \in BOOLEAN
        BY <2>3 DEF FailStream, StreamReturns, StreamDies
      <3>2. /\ pc' \in PCs /\ job' = job /\ phase' = phase /\ listRV' = listRV
            /\ base' \in Nat /\ attempts' \in Nat
        BY <2>3 DEF FailStream, StreamReturns, StreamDies
      <3>3. offset' \in [rv : Nat, status : Statuses]
        BY <2>3 DEF FailStream, StreamReturns, StreamDies
      <3> QED
        BY <1>8, <3>1, <3>2, <3>3 DEF Fail
    <2> QED
      BY <1>8, <2>1, <2>2, <2>3 DEF Fail
  <1>9. CASE BackOff
    BY <1>9 DEF BackOff, StreamDies
  <1>10. CASE Wake
    BY <1>10 DEF Wake
  <1>11. CASE ReadRefs
    BY <1>11 DEF ReadRefs, LatestRefs
  <1>12. CASE ListResource
    BY <1>12 DEF ListResource, Snapshots, Items, Missing, Observations
  <1>13. CASE PutRawLatest
    <2>1. row' \in [Objects -> {"none", "live", "deleted"}] /\ cur' \in Observations
      BY <1>13 DEF PutRawLatest, Observations
    <2> QED
      BY <1>13, <2>1 DEF PutRawLatest
  <1>14. CASE PutObservation
    <2>1. row' \in [Objects -> {"none", "live", "deleted"}]
      BY <1>14 DEF PutObservation
    <2>2. [op |-> cur.op, rv |-> cur.rv] \in Versions
      BY DEF Versions, Observations, NoObservation
    <2>3. latest' \in [Objects -> Versions]
      BY <1>14, <2>2 DEF PutObservation
    <2> QED
      BY <1>14, <2>1, <2>3 DEF PutObservation
  <1>15. CASE Ingested
    BY <1>15 DEF Ingested
  <1>16. CASE CommitList
    <2>1. needsList' \in BOOLEAN /\ phase' \in {"list", "watch"}
      BY <1>16 DEF CommitList
    <2>2. pc' \in PCs /\ base' \in Nat /\ offset' \in [rv : Nat, status : Statuses]
      BY <1>16 DEF CommitList
    <2>3. UNCHANGED <<server, job, attempts, rv, late, list, cursor, row, latest>>
      BY <1>16 DEF CommitList
    <2> QED
      BY <2>1, <2>2, <2>3
  <1>17. CASE Requeue
    BY <1>17 DEF Requeue, RecordOffset
  <1>18. CASE Queue
    BY <1>18 DEF Queue, RecordOffset
  <1>19. CASE RefreshQueued
    BY <1>19 DEF RefreshQueued
  <1>20. CASE StartStream
    BY <1>20 DEF StartStream
  <1>21. CASE OpenWatch \/ Announce
    BY <1>21 DEF OpenWatch, Announce
  <1>22. CASE LoopTop
    BY <1>22 DEF LoopTop, StreamReturns
  <1>23. CASE DeliverEvent
    BY <1>23 DEF DeliverEvent, Pending, Observations, Writes, Elsewhere
  <1>24. CASE CommitEvent \/ DeliverBookmark \/ CommitBookmark
    BY <1>24 DEF CommitEvent, DeliverBookmark, CommitBookmark
  <1>25. CASE UNCHANGED vars
    BY <1>25 DEF vars
  <1> QED
    BY <1>1, <1>2, <1>3, <1>4, <1>5, <1>6, <1>7, <1>8, <1>9, <1>10, <1>11, <1>12, <1>13,
       <1>14, <1>15, <1>16, <1>17, <1>18, <1>19, <1>20, <1>21, <1>22, <1>23, <1>24, <1>25
    DEF Next, Environment, Worker, ServerPut, ServerDelete, ServerElsewhere, ReadRefsFails,
        ListFails, OpenWatchFails, StreamBreaks, StreamTimesOut, StoreFails

\* Every reachable state is well typed.
THEOREM TypeCorrect == Spec => []TypeOK
  BY InitTypeOK, NextTypeOK, PTL DEF Spec

--------------------------------------------------------------------------------
\* No false deletion.

LEMMA InitIInv == Init => IInv
  <1> SUFFICES ASSUME Init PROVE IInv
    OBVIOUS
  <1>1. TypeOK
    BY InitTypeOK
  <1>2. Len(log) = 1 /\ log[1] = Elsewhere
    BY DEF Init
  <1>3. DeletedWasBorn
    BY <1>2 DEF DeletedWasBorn, Elsewhere, Del
  <1> QED
    BY <1>1, <1>2, <1>3 DEF Init, IInv, SeenIsLogged, KnownIsBorn, KnownIsCovered,
       AsksForLastSeen, StreamFollows, ListComesFirst, PreviousIsKnown, WorkIsTruthful,
       WorkIsOver, NoFalseDelete, NoVersion

\* Appending to the log changes nothing it already says.
LEMMA LogGrows ==
  ASSUME TypeOK, NEW write \in Writes, log' = Append(log, write)
  PROVE  /\ Len(log') = Len(log) + 1 /\ log'[Len(log) + 1] = write
         /\ \A i \in 1..Len(log) : log'[i] = log[i]
         /\ \A o, r : r \in 0..Len(log) /\ Born(o, r) => \E i \in 1..r : log'[i] = Put(o)
         /\ \A o, r : r \in 0..Len(log) /\ Died(o, r) => \E i \in 1..r : log'[i] = Del(o)
  <1>1. /\ Len(log') = Len(log) + 1 /\ log'[Len(log) + 1] = write
        /\ \A i \in 1..Len(log) : log'[i] = log[i]
    BY DEF TypeOK
  <1> QED
    BY <1>1 DEF Born, Died, TypeOK

LEMMA HappensIInv ==
  ASSUME IInv, TypeOK', NEW write \in Writes, Happens(write),
         \A o \in Objects : write = Del(o) => Born(o, Len(log))
  PROVE  IInv'
  <1>1. /\ log' = Append(log, write)
        /\ UNCHANGED <<pc, job, phase, rv, base, listRV, prev, todo, cur, cursor, row, latest>>
    BY DEF Happens, list, loop, store
  <1>2. /\ Len(log') = Len(log) + 1 /\ log'[Len(log) + 1] = write
        /\ \A i \in 1..Len(log) : log'[i] = log[i]
        /\ \A o, r : r \in 0..Len(log) /\ Born(o, r) => \E i \in 1..r : log'[i] = Put(o)
        /\ \A o, r : r \in 0..Len(log) /\ Died(o, r) => \E i \in 1..r : log'[i] = Del(o)
    BY <1>1, LogGrows DEF IInv
  <1>3. /\ rv \in 0..Len(log) /\ base \in 0..Len(log) /\ Len(log) \in Nat
    BY DEF IInv, SeenIsLogged, TypeOK
  <1>4. \A o \in Objects :
          /\ Born(o, rv) => Born(o, rv)'
          /\ Born(o, Len(log)) => Born(o, Len(log))'
          /\ Died(o, Len(log)) => Died(o, Len(log))'
    BY <1>1, <1>2, <1>3 DEF Born, Died
  <1>5. SeenIsLogged'
    BY <1>1, <1>2, <1>3 DEF SeenIsLogged
  <1>6. DeletedWasBorn'
    <2> SUFFICES ASSUME NEW o \in Objects, NEW i \in 1..Len(log'), log'[i] = Del(o)
                 PROVE  \E j \in 1..i : log'[j] = Put(o)
      BY DEF DeletedWasBorn, Born
    <2>1. CASE i \in 1..Len(log)
      BY <2>1, <1>2, <1>3 DEF IInv, DeletedWasBorn
    <2>2. CASE i = Len(log) + 1
      BY <2>2, <1>2, <1>3 DEF Born
    <2> QED
      BY <2>1, <2>2, <1>2, <1>3
  <1>7. KnownIsBorn' /\ KnownIsCovered'
    BY <1>1, <1>4 DEF IInv, KnownIsBorn, KnownIsCovered
  <1>8. AsksForLastSeen' /\ StreamFollows' /\ ListComesFirst' /\ PreviousIsKnown' /\ WorkIsOver'
    BY <1>1 DEF IInv, AsksForLastSeen, StreamFollows, ListComesFirst, PreviousIsKnown, WorkIsOver
  <1>9. WorkIsTruthful'
    <2>1. \A ob \in todo : ob.obj \in Objects
      BY DEF IInv, TypeOK, Observations
    <2> QED
      BY <1>1, <1>4, <2>1 DEF IInv, WorkIsTruthful, Truthful
  <1>10. NoFalseDelete'
    BY <1>1, <1>4 DEF IInv, NoFalseDelete
  <1> QED
    BY <1>5, <1>6, <1>7, <1>8, <1>9, <1>10 DEF IInv

\* A step that leaves the log alone and changes neither what the store knows nor
\* what was seen: only the control state has to be looked at.
LEMMA ControlIInv ==
  ASSUME IInv, TypeOK', UNCHANGED <<log, rv, prev, row, latest>>,
         base' \in {base, rv}, job' = job \/ job' = "stream",
         todo' \in {{}, todo}, pc' = "put" => pc = "put" /\ cur' = cur /\ todo' = todo,
         AsksForLastSeen', StreamFollows', ListComesFirst', WorkIsOver'
  PROVE  IInv'
  <1>1. SeenIsLogged' /\ DeletedWasBorn' /\ KnownIsBorn' /\ PreviousIsKnown' /\ NoFalseDelete'
    BY DEF IInv, SeenIsLogged, DeletedWasBorn, KnownIsBorn, PreviousIsKnown, NoFalseDelete,
       Born, Died
  <1>2. KnownIsCovered'
    BY DEF IInv, KnownIsCovered, Born
  <1>3. WorkIsTruthful'
    BY DEF IInv, WorkIsTruthful, Truthful, Born, Died
  <1> QED
    BY <1>1, <1>2, <1>3 DEF IInv

LEMMA FailIInv ==
  ASSUME IInv, TypeOK', NEW kind, Fail(kind)
  PROVE  IInv'
  <1>1. /\ UNCHANGED <<log, rv, prev, row, latest, job, phase, cursor>> /\ todo' = {}
        /\ base' \in {base, rv} /\ pc' \in {"dead", "backoff", "requeue", "acquire"}
    BY DEF Fail, Abandon, server, FailSingle, FailList, FailStream, StreamReturns, StreamDies
  <1>2. listRV' \in {listRV, NoVersion, rv}
    BY DEF Fail, FailSingle, FailList, FailStream, StreamReturns, StreamDies
  <1>3. pc' = "backoff" /\ job # "stream" => listRV' \in {NoVersion, rv}
    BY DEF Fail, FailSingle, FailList, FailStream, StreamReturns, StreamDies
  <1>4. job = "stream" => listRV' = listRV
    BY DEF Fail, FailSingle, FailList, FailStream, StreamReturns, StreamDies
  <1>5. AsksForLastSeen' /\ StreamFollows' /\ ListComesFirst' /\ WorkIsOver'
    BY <1>1, <1>2, <1>3, <1>4 DEF IInv, AsksForLastSeen, StreamFollows, ListComesFirst, WorkIsOver
  <1> QED
    BY <1>1, <1>5, ControlIInv

\* A list sees everything the store knew when it was asked for, so what it does
\* not contain is gone.
LEMMA ListIInv ==
  ASSUME IInv, TypeOK', ListResource
  PROVE  IInv'
  <1>1. PICK r \in Snapshots(listRV) : rv' = r /\ todo' = Items(r) \cup Missing(prev, r)
    BY DEF ListResource
  <1>2. /\ pc = "list" /\ pc' = "ingest"
        /\ UNCHANGED <<log, base, job, phase, listRV, prev, cur, cursor, row, latest>>
    BY DEF ListResource, server, loop, store
  <1>3. Len(log) \in Nat /\ rv \in Nat /\ listRV \in Nat /\ prev \subseteq Objects
    BY DEF IInv, TypeOK
  <1>4. r \in 0..Len(log) /\ (listRV = NoVersion => r = Len(log)) /\ (listRV # NoVersion => rv <= r)
    BY <1>2, <1>3 DEF Snapshots, IInv, AsksForLastSeen, SeenIsLogged, NoVersion
  <1>5. \A o \in Objects : row[o] # "none" => Born(o, r)
    <2>1. CASE listRV = NoVersion
      BY <2>1, <1>4 DEF IInv, KnownIsBorn
    <2>2. CASE listRV # NoVersion
      <3>1. \A o \in Objects : row[o] # "none" => Born(o, rv)
        BY <2>2, <1>2 DEF IInv, AsksForLastSeen, KnownIsCovered
      <3> QED
        BY <2>2, <3>1, <1>3, <1>4 DEF Born
    <2> QED
      BY <2>1, <2>2
  <1>6. \A ob \in todo' : Truthful(ob)'
    <2>1. \A ob \in Items(r) : ob.op = "put" /\ Born(ob.obj, r)
      BY DEF Items, Holds, Born
    <2>2. \A ob \in Missing(prev, r) :
            ob.op = "del" /\ Died(ob.obj, Len(log)) /\ Born(ob.obj, r)
      <3> SUFFICES ASSUME NEW o \in prev, ~Live(o, r)
                   PROVE  Died(o, Len(log)) /\ Born(o, r)
        BY DEF Missing
      <3>1. Born(o, r)
        BY <1>3, <1>5 DEF IInv, PreviousIsKnown
      <3> QED
        BY <3>1, <1>3, <1>4 DEF Live, Died
    <2>3. \A o : (Born(o, r) => Born(o, rv)') /\ (Died(o, Len(log)) => Died(o, Len(log))')
      BY <1>1, <1>2 DEF Born, Died
    <2> QED
      BY <1>1, <2>1, <2>2, <2>3 DEF Truthful
  <1>7. SeenIsLogged' /\ DeletedWasBorn' /\ KnownIsBorn' /\ PreviousIsKnown' /\ NoFalseDelete'
    BY <1>1, <1>2, <1>3, <1>4 DEF IInv, SeenIsLogged, DeletedWasBorn, KnownIsBorn,
       PreviousIsKnown, NoFalseDelete, Born, Died
  <1>8. KnownIsCovered' /\ WorkIsTruthful' /\ WorkIsOver'
    BY <1>1, <1>2, <1>5, <1>6 DEF KnownIsCovered, WorkIsTruthful, WorkIsOver, Born
  <1>9. AsksForLastSeen' /\ StreamFollows'
    <2>1. phase = "list"
      BY <1>2 DEF IInv, ListComesFirst
    <2> QED
      BY <1>2, <2>1 DEF IInv, AsksForLastSeen, StreamFollows
  <1>10. ListComesFirst'
    <2>1. r # NoVersion
      BY <1>2, <1>3, <1>4 DEF Snapshots, IInv, SeenIsLogged, NoVersion
    <2> QED
      BY <1>1, <1>2, <2>1 DEF ListComesFirst
  <1> QED
    BY <1>7, <1>8, <1>9, <1>10 DEF IInv

\* Either transaction of an observation tells the store what the observation says.
LEMMA StoreIInv ==
  ASSUME IInv, TypeOK', PutRawLatest \/ PutObservation
  PROVE  IInv'
  <1>1. PICK ob \in todo :
          /\ row' = [row EXCEPT ![ob.obj] = IF ob.op = "del" THEN "deleted" ELSE "live"]
          /\ \/ latest' = latest /\ pc' = "put" /\ cur' = ob /\ todo' = todo
             \/ /\ latest' = [latest EXCEPT ![ob.obj] = [op |-> ob.op, rv |-> ob.rv]]
                /\ todo' = todo \ {ob} /\ pc' = "ingest"
    BY DEF PutRawLatest, PutObservation, IInv, WorkIsTruthful
  <1>2. UNCHANGED <<log, rv, base, job, phase, listRV, prev, cursor>>
    BY DEF PutRawLatest, PutObservation, server, loop
  <1>3. ob.obj \in Objects /\ ob.op \in {"put", "del"} /\ Truthful(ob)
    BY DEF IInv, TypeOK, Observations, WorkIsTruthful
  <1>4. Born(ob.obj, rv) /\ Born(ob.obj, Len(log)) /\ (ob.op = "del" => Died(ob.obj, Len(log)))
    <2>1. Born(ob.obj, rv) /\ (ob.op = "del" => Died(ob.obj, Len(log)))
      BY <1>3 DEF Truthful
    <2>2. rv \in Nat /\ Len(log) \in Nat /\ rv <= Len(log)
      BY DEF IInv, SeenIsLogged, TypeOK
    <2> QED
      BY <2>1, <2>2 DEF Born
  <1>5. \A o, r : (Born(o, r) <=> \E i \in 1..r : log'[i] = Put(o))
               /\ (Died(o, r) <=> \E i \in 1..r : log'[i] = Del(o))
    BY <1>2 DEF Born, Died
  <1>6. \A o \in Objects :
          /\ o # ob.obj => row'[o] = row[o] /\ latest'[o] = latest[o]
          /\ row'[ob.obj] # "none" /\ (row'[ob.obj] = "deleted" => ob.op = "del")
          /\ latest'[ob.obj].op = "del" => ob.op = "del" \/ latest[ob.obj].op = "del"
    BY <1>1, <1>3 DEF IInv, TypeOK
  <1>7. NoFalseDelete'
    BY <1>2, <1>3, <1>4, <1>6 DEF IInv, NoFalseDelete, Died
  <1>8. KnownIsBorn' /\ KnownIsCovered' /\ PreviousIsKnown'
    <2>1. prev \subseteq Objects
      BY DEF IInv, TypeOK
    <2> QED
      BY <1>2, <1>4, <1>6, <2>1 DEF IInv, KnownIsBorn, KnownIsCovered, PreviousIsKnown, Born
  <1>9. WorkIsTruthful' /\ WorkIsOver'
    BY <1>1, <1>2 DEF IInv, WorkIsTruthful, WorkIsOver, Truthful, Born, Died
  <1>10. SeenIsLogged' /\ DeletedWasBorn' /\ AsksForLastSeen'
    BY <1>1, <1>2 DEF IInv, SeenIsLogged, DeletedWasBorn, AsksForLastSeen, Born
  <1>11. StreamFollows' /\ ListComesFirst'
    BY <1>2 DEF IInv, StreamFollows, ListComesFirst, PutRawLatest, PutObservation
  <1> QED
    BY <1>7, <1>8, <1>9, <1>10, <1>11 DEF IInv

\* An event moves the version seen forward and is a write of the log.
LEMMA DeliverIInv ==
  ASSUME IInv, TypeOK', DeliverEvent
  PROVE  IInv'
  <1>1. PICK i \in Pending :
          /\ rv' = i /\ cursor' = i
          /\ todo' = {[obj |-> log[i].obj, op |-> log[i].op, rv |-> i]}
    BY DEF DeliverEvent
  <1>2. /\ pc = "wait" /\ pc' = "ingest"
        /\ UNCHANGED <<log, base, job, phase, listRV, prev, cur, row, latest>>
    BY DEF DeliverEvent, server, loop, store
  <1>3. i \in 1..Len(log) /\ rv < i /\ log[i] # Elsewhere /\ log[i] \in Writes
    BY <1>2 DEF Pending, IInv, TypeOK, StreamFollows
  <1>4. Len(log) \in Nat /\ rv \in Nat
    BY DEF IInv, TypeOK
  <1>5. PICK o \in Objects : log[i] = Put(o) \/ log[i] = Del(o)
    BY <1>3 DEF Writes, Put, Del
  <1>6. Born(o, i) /\ (log[i] = Del(o) => Died(o, Len(log)))
    BY <1>3, <1>4, <1>5 DEF IInv, DeletedWasBorn, Born, Died
  <1>7. WorkIsTruthful' /\ WorkIsOver'
    BY <1>1, <1>2, <1>5, <1>6 DEF WorkIsTruthful, WorkIsOver, Truthful, Put, Del, Born, Died
  <1>8. KnownIsCovered'
    <2>1. \A p \in Objects : Born(p, rv) => Born(p, i)
      BY <1>3, <1>4 DEF Born
    <2>2. CASE rv = NoVersion
      BY <2>2, <1>2 DEF IInv, ListComesFirst, KnownIsCovered
    <2>3. CASE rv # NoVersion
      BY <2>1, <2>3, <1>1, <1>2 DEF IInv, KnownIsCovered, Born
    <2> QED
      BY <2>2, <2>3
  <1>9. SeenIsLogged' /\ DeletedWasBorn' /\ KnownIsBorn' /\ PreviousIsKnown' /\ NoFalseDelete'
    BY <1>1, <1>2, <1>3, <1>4 DEF IInv, SeenIsLogged, DeletedWasBorn, KnownIsBorn,
       PreviousIsKnown, NoFalseDelete, Born, Died
  <1>10. AsksForLastSeen' /\ StreamFollows' /\ ListComesFirst'
    BY <1>1, <1>2, <1>3 DEF IInv, AsksForLastSeen, StreamFollows, ListComesFirst, NoVersion
  <1> QED
    BY <1>7, <1>8, <1>9, <1>10 DEF IInv

\* A queued worker has no work in hand, so it may start over from any version.
LEMMA QueueIInv ==
  ASSUME IInv, TypeOK', RefreshQueued \/ StartStream
  PROVE  IInv'
  <1>1. /\ pc \in {"acquire", "queued"}
        /\ UNCHANGED <<log, base, prev, todo, cursor, row, latest>>
        /\ rv' \in {NoVersion, base} /\ listRV' = NoVersion
    BY DEF RefreshQueued, StartStream, server, store
  <1>2. \/ job' = "refresh" /\ phase' = "list" /\ pc' = "refs" /\ rv' = NoVersion
        \/ job' = "stream" /\ phase' = "watch" /\ pc' = "open"
    BY DEF RefreshQueued, StartStream
  <1>3. todo = {}
    BY <1>1 DEF IInv, WorkIsOver
  <1>4. SeenIsLogged'
    BY <1>1 DEF IInv, SeenIsLogged, NoVersion, TypeOK
  <1>5. DeletedWasBorn' /\ KnownIsBorn' /\ PreviousIsKnown' /\ NoFalseDelete'
    BY <1>1 DEF IInv, DeletedWasBorn, KnownIsBorn, PreviousIsKnown, NoFalseDelete, Born, Died
  <1>6. KnownIsCovered' /\ AsksForLastSeen' /\ StreamFollows' /\ ListComesFirst'
    BY <1>1, <1>2 DEF KnownIsCovered, AsksForLastSeen, StreamFollows, ListComesFirst
  <1>7. WorkIsTruthful' /\ WorkIsOver'
    BY <1>1, <1>2, <1>3 DEF WorkIsTruthful, WorkIsOver
  <1> QED
    BY <1>4, <1>5, <1>6, <1>7 DEF IInv

\* A bookmark only moves the version seen forward.
LEMMA BookmarkIInv ==
  ASSUME IInv, TypeOK', DeliverBookmark
  PROVE  IInv'
  <1>1. /\ pc = "wait" /\ pc' = "mark" /\ rv' = Len(log) /\ cursor' = Len(log)
        /\ UNCHANGED <<log, base, job, phase, listRV, prev, todo, row, latest>>
    BY DEF DeliverBookmark, server, loop, list, store
  <1>2. todo = {}
    BY <1>1 DEF IInv, WorkIsOver
  <1>3. SeenIsLogged'
    BY <1>1 DEF IInv, SeenIsLogged, TypeOK
  <1>4. DeletedWasBorn' /\ KnownIsBorn' /\ PreviousIsKnown' /\ NoFalseDelete'
    BY <1>1 DEF IInv, DeletedWasBorn, KnownIsBorn, PreviousIsKnown, NoFalseDelete, Born, Died
  <1>5. KnownIsCovered'
    BY <1>1 DEF IInv, KnownIsCovered, KnownIsBorn, Born
  <1>6. AsksForLastSeen' /\ StreamFollows' /\ ListComesFirst'
    BY <1>1, <1>3 DEF IInv, AsksForLastSeen, StreamFollows, ListComesFirst, SeenIsLogged, NoVersion
  <1>7. WorkIsTruthful' /\ WorkIsOver'
    BY <1>1, <1>2 DEF WorkIsTruthful, WorkIsOver
  <1> QED
    BY <1>3, <1>4, <1>5, <1>6, <1>7 DEF IInv

LEMMA NextIInv == IInv /\ [Next]_vars => IInv'
  <1> SUFFICES ASSUME IInv, [Next]_vars PROVE IInv'
    OBVIOUS
  <1> USE DEF server, list, loop, store
  <1>1. TypeOK'
    BY NextTypeOK DEF IInv
  <1>2. ASSUME NEW o \in Objects, ServerPut(o) PROVE IInv'
    <2>1. Put(o) \in Writes /\ \A p \in Objects : Put(o) # Del(p)
      BY DEF Put, Del, Writes
    <2> QED
      BY <1>1, <1>2, <2>1, HappensIInv DEF ServerPut
  <1>3. ASSUME NEW o \in Objects, ServerDelete(o) PROVE IInv'
    <2>1. Del(o) \in Writes /\ \A p \in Objects : Del(o) = Del(p) => p = o
      BY DEF Del, Writes
    <2> QED
      BY <1>1, <1>3, <2>1, HappensIInv DEF ServerDelete, Live
  <1>4. CASE ServerElsewhere
    <2>1. Elsewhere \in Writes /\ \A p \in Objects : Elsewhere # Del(p)
      BY DEF Elsewhere, Del, Writes
    <2> QED
      BY <1>1, <1>4, <2>1, HappensIInv DEF ServerElsewhere
  <1>5. CASE Crash
    <2>1. /\ UNCHANGED <<log, row, latest>> /\ rv' = NoVersion /\ base' = NoVersion
          /\ prev' = {} /\ todo' = {} /\ pc' = "refs" /\ phase' = "list" /\ listRV' = NoVersion
      BY <1>5 DEF Crash
    <2> QED
      BY <1>1, <2>1 DEF IInv, SeenIsLogged, DeletedWasBorn, KnownIsBorn, KnownIsCovered,
         AsksForLastSeen, StreamFollows, ListComesFirst, PreviousIsKnown, WorkIsTruthful,
         WorkIsOver, NoFalseDelete, Born, Died, NoVersion, TypeOK
  <1>6. ASSUME NEW kind, Fail(kind) PROVE IInv'
    BY <1>1, <1>6, FailIInv
  <1>7. CASE ListResource
    BY <1>1, <1>7, ListIInv
  <1>8. CASE PutRawLatest \/ PutObservation
    BY <1>1, <1>8, StoreIInv
  <1>9. CASE DeliverEvent
    BY <1>1, <1>9, DeliverIInv
  <1>10. CASE ReadRefs
    <2>1. PreviousIsKnown'
      BY <1>10 DEF ReadRefs, LatestRefs, PreviousIsKnown
    <2> QED
      BY <1>1, <1>10, <2>1 DEF ReadRefs, IInv, SeenIsLogged, DeletedWasBorn, KnownIsBorn,
         KnownIsCovered, AsksForLastSeen, StreamFollows, ListComesFirst, WorkIsTruthful,
         WorkIsOver, Truthful, NoFalseDelete, Born, Died
  <1>11. CASE RefreshQueued \/ StartStream
    BY <1>1, <1>11, QueueIInv
  <1>12. CASE DeliverBookmark
    BY <1>1, <1>12, BookmarkIInv
  <1>13. CASE \/ Compact \/ Heal \/ Deadline \/ BackOff \/ Wake \/ Ingested \/ CommitList
              \/ Requeue \/ Queue \/ OpenWatch \/ Announce \/ LoopTop \/ CommitEvent
              \/ CommitBookmark \/ UNCHANGED vars
    <2> USE DEF IInv, AsksForLastSeen, StreamFollows, ListComesFirst, WorkIsOver
    <2>1. CASE Compact \/ Heal \/ Deadline \/ UNCHANGED vars
      BY <1>1, <2>1, ControlIInv DEF Compact, Heal, Deadline, vars
    <2>2. CASE BackOff
      BY <1>1, <2>2, ControlIInv DEF BackOff, StreamDies
    <2>3. CASE Wake
      BY <1>1, <2>3, ControlIInv DEF Wake
    <2>4. CASE Ingested \/ CommitList
      BY <1>1, <2>4, ControlIInv DEF Ingested, CommitList
    <2>5. CASE Requeue \/ Queue
      BY <1>1, <2>5, ControlIInv DEF Requeue, Queue
    <2>6. CASE OpenWatch \/ Announce
      BY <1>1, <2>6, ControlIInv DEF OpenWatch, Announce
    <2>7. CASE LoopTop
      BY <1>1, <2>7, ControlIInv DEF LoopTop, StreamReturns
    <2>8. CASE CommitEvent \/ CommitBookmark
      BY <1>1, <2>8, ControlIInv DEF CommitEvent, CommitBookmark
    <2> QED
      BY <1>13, <2>1, <2>2, <2>3, <2>4, <2>5, <2>6, <2>7, <2>8
  <1> QED
    BY <1>2, <1>3, <1>4, <1>5, <1>6, <1>7, <1>8, <1>9, <1>10, <1>11, <1>12, <1>13
    DEF Next, Environment, Worker, ReadRefsFails, ListFails, OpenWatchFails, StreamBreaks,
        StreamTimesOut, StoreFails

\* In every reachable state, whatever failed on the way, an object the store calls
\* deleted has been deleted in the cluster.
THEOREM NoFalseDeletion == Spec => []NoFalseDelete
  <1>1. IInv => NoFalseDelete
    BY DEF IInv
  <1> QED
    BY InitIInv, NextIInv, <1>1, PTL DEF Spec

--------------------------------------------------------------------------------
\* What a stream has shown.

\* An object comes to an end once.
LogIsLife ==
  \A o \in Objects : \A i, j \in 1..Len(log) :
    i < j /\ log[i] = Del(o) => log[j] \notin {Put(o), Del(o)}

\* The version an observation carries is that of the write it stands for, or of
\* the list that missed the object.
Logged(ob) ==
  /\ ob.rv \in 1..rv
  /\ ob.op = "put" => Holds(ob.obj, ob.rv, rv)
  /\ ob.op = "del" => Died(ob.obj, ob.rv)

WorkIsLogged == \A ob \in todo : Logged(ob)

\* Nothing reaches the store between the references and the list.
RefsAreCurrent == pc = "list" => prev = LatestRefs

\* The part of Reflects(rv) that is about one object.
Shown(o) ==
  /\ Died(o, rv) => o \notin LatestRefs
  /\ \A i \in 1..rv : Holds(o, i, rv) => latest[o].op # "none" /\ latest[o].rv >= i

\* What the last version seen says is in the store, but for the work in hand.
NothingMissed == \A o \in Objects : Shown(o) \/ \E ob \in todo : ob.obj = o

\* So it is once a list has arrived, until the list or the stream fails.
Following == pc \in {"ingest", "put", "commit", "open", "announce", "top", "wait", "mark"}
CaughtUp  == job = "single" /\ Following => NothingMissed

LifeInv == LogIsLife /\ WorkIsLogged /\ RefsAreCurrent /\ CaughtUp

LEMMA InitLife == Init => LifeInv
  BY DEF Init, LifeInv, LogIsLife, WorkIsLogged, RefsAreCurrent, CaughtUp, Following

\* What the log says of a version it has reached does not change.
LEMMA PastIsFixed ==
  ASSUME TypeOK, NEW write \in Writes, log' = Append(log, write)
  PROVE  \A o : \A r \in 0..Len(log) :
           /\ Died(o, r)' <=> Died(o, r)
           /\ \A i : Holds(o, i, r)' <=> Holds(o, i, r)
  <1>1. Len(log) \in Nat /\ \A i \in 1..Len(log) : log'[i] = log[i]
    BY LogGrows DEF TypeOK
  <1>2. \A r \in 0..Len(log) : 1..r \subseteq 1..Len(log)
    BY <1>1
  <1>3. \A r \in 0..Len(log) : \A i \in 1..r : (i + 1)..r \subseteq 1..Len(log)
    BY <1>1
  <1> QED
    BY <1>1, <1>2, <1>3 DEF Died, Holds

LEMMA HappensLife ==
  ASSUME IInv, LifeInv, NEW write \in Writes, Happens(write),
         \A o \in Objects : write \in {Put(o), Del(o)} => ~Died(o, Len(log))
  PROVE  LifeInv'
  <1>1. /\ log' = Append(log, write)
        /\ UNCHANGED <<pc, job, rv, prev, todo, row, latest>>
    BY DEF Happens, list, loop, store
  <1>2. /\ Len(log') = Len(log) + 1 /\ log'[Len(log) + 1] = write
        /\ \A i \in 1..Len(log) : log'[i] = log[i]
        /\ Len(log) \in Nat /\ rv \in 0..Len(log)
    BY <1>1, LogGrows DEF IInv, SeenIsLogged, TypeOK
  <1>3. \A o : \A r \in 0..Len(log) :
          /\ Died(o, r)' <=> Died(o, r)
          /\ \A i : Holds(o, i, r)' <=> Holds(o, i, r)
    BY <1>1, PastIsFixed DEF IInv
  <1>4. LogIsLife'
    <2> SUFFICES ASSUME NEW o \in Objects, NEW i \in 1..Len(log'), NEW j \in 1..Len(log'),
                        i < j, log'[i] = Del(o)
                 PROVE  log'[j] \notin {Put(o), Del(o)}
      BY DEF LogIsLife, Put, Del
    <2>1. i \in 1..Len(log) /\ log[i] = Del(o) /\ (j \in 1..Len(log) \/ j = Len(log) + 1)
      BY <1>2
    <2>2. CASE j \in 1..Len(log)
      BY <1>2, <2>1, <2>2 DEF LifeInv, LogIsLife
    <2>3. CASE j = Len(log) + 1
      BY <1>2, <2>1, <2>3 DEF Died
    <2> QED
      BY <2>1, <2>2, <2>3
  <1>5. WorkIsLogged'
    <2> SUFFICES ASSUME NEW ob \in todo PROVE Logged(ob)'
      BY <1>1 DEF WorkIsLogged
    <2>1. Logged(ob) /\ ob.rv \in 0..Len(log)
      BY <1>2 DEF LifeInv, WorkIsLogged, Logged
    <2> QED
      BY <1>1, <1>2, <1>3, <2>1 DEF Logged
  <1>6. LatestRefs' = LatestRefs
    BY <1>1 DEF LatestRefs
  <1>7. \A o \in Objects : Shown(o)' <=> Shown(o)
    BY <1>1, <1>2, <1>3, <1>6 DEF Shown
  <1>8. RefsAreCurrent' /\ CaughtUp'
    BY <1>1, <1>6, <1>7 DEF LifeInv, RefsAreCurrent, CaughtUp, Following, NothingMissed
  <1> QED
    BY <1>4, <1>5, <1>8 DEF LifeInv

\* A step that leaves the log, the version seen and the store alone.
LEMMA ControlLife ==
  ASSUME LifeInv, UNCHANGED <<log, rv, row, latest>>, todo' \subseteq todo,
         pc' = "list" => pc = "list" /\ prev' = prev,
         job' = "single" /\ Following' => job = "single" /\ Following /\ todo' = todo
  PROVE  LifeInv'
  <1>1. LogIsLife' /\ WorkIsLogged'
    BY DEF LifeInv, LogIsLife, WorkIsLogged, Logged, Holds, Died
  <1>2. LatestRefs' = LatestRefs
    BY DEF LatestRefs
  <1>3. \A o \in Objects : Shown(o)' <=> Shown(o)
    BY <1>2 DEF Shown, Holds, Died
  <1>4. RefsAreCurrent' /\ CaughtUp'
    BY <1>2, <1>3 DEF LifeInv, RefsAreCurrent, CaughtUp, NothingMissed
  <1> QED
    BY <1>1, <1>4 DEF LifeInv

\* A list leaves in hand all that it has and the store may not have.
LEMMA ListShows ==
  ASSUME IInv, LifeInv, ListResource
  PROVE  NothingMissed'
  <1> SUFFICES ASSUME NEW o \in Objects, ~(\E ob \in todo' : ob.obj = o) PROVE Shown(o)'
    BY DEF NothingMissed
  <1>1. PICK r \in Snapshots(listRV) : rv' = r /\ todo' = Items(r) \cup Missing(prev, r)
    BY DEF ListResource
  <1>2. pc = "list" /\ UNCHANGED <<log, prev, row, latest>>
    BY DEF ListResource, server, loop, store
  <1>3. prev = LatestRefs /\ LatestRefs' = LatestRefs
    BY <1>2 DEF LifeInv, RefsAreCurrent, LatestRefs
  <1>4. ~(o \in LatestRefs /\ Died(o, r))
    <2> SUFFICES ASSUME o \in LatestRefs, Died(o, r) PROVE FALSE
      OBVIOUS
    <2> DEFINE ob == [obj |-> o, op |-> "del", rv |-> r]
    <2>1. ob \in Missing(prev, r)
      BY <1>3 DEF Missing, Live
    <2> QED
      BY <1>1, <2>1
  <1>5. ASSUME NEW i \in 1..r, Holds(o, i, r)
        PROVE  FALSE
    <2> DEFINE ob == [obj |-> o, op |-> "put", rv |-> i]
    <2>1. ob \in Items(r)
      BY <1>5 DEF Items
    <2> QED
      BY <1>1, <2>1
  <1> QED
    BY <1>1, <1>2, <1>3, <1>4, <1>5 DEF Shown, Died, Holds

LEMMA ListLife ==
  ASSUME IInv, IInv', LifeInv, ListResource
  PROVE  LifeInv'
  <1>1. PICK r \in Snapshots(listRV) : rv' = r /\ todo' = Items(r) \cup Missing(prev, r)
    BY DEF ListResource
  <1>2. /\ pc = "list" /\ pc' = "ingest"
        /\ UNCHANGED <<log, job, prev, row, latest>>
    BY DEF ListResource, server, loop, store
  <1>3. r \in 1..Len(log) /\ Len(log) \in Nat
    BY <1>1, <1>2 DEF Snapshots, IInv, TypeOK, SeenIsLogged, NoVersion
  <1>4. WorkIsLogged'
    <2>1. ASSUME NEW ob \in Items(r)
          PROVE  ob.rv \in 1..r /\ ob.op = "put" /\ Holds(ob.obj, ob.rv, r)
      BY DEF Items
    <2>2. ASSUME NEW ob \in Missing(prev, r)
          PROVE  ob.rv = r /\ ob.op = "del" /\ Died(ob.obj, r)
      <3>1. PICK o \in prev : ~Live(o, r) /\ ob = [obj |-> o, op |-> "del", rv |-> r]
        BY DEF Missing
      <3>2. Truthful(ob)'
        BY <1>1 DEF IInv, WorkIsTruthful
      <3>3. Born(o, r)
        BY <1>1, <1>2, <3>1, <3>2 DEF Truthful, Born
      <3> QED
        BY <3>1, <3>3 DEF Live
    <2>3. \A ob \in todo' : ob.rv \in 1..r
      BY <1>1, <1>3, <2>1, <2>2
    <2> QED
      BY <1>1, <1>2, <2>1, <2>2, <2>3 DEF WorkIsLogged, Logged, Holds, Died
  <1>5. LogIsLife' /\ RefsAreCurrent' /\ CaughtUp'
    BY <1>2, ListShows DEF LifeInv, LogIsLife, RefsAreCurrent, CaughtUp
  <1> QED
    BY <1>4, <1>5 DEF LifeInv

\* An object that has a live content in the log at rv has not come to an end there.
LEMMA HeldIsAlive ==
  ASSUME TypeOK, LogIsLife, NEW o \in Objects, NEW r \in 0..Len(log), NEW i \in 1..r,
         Holds(o, i, r)
  PROVE  ~Died(o, r)
  <1> SUFFICES ASSUME NEW d \in 1..r, log[d] = Del(o) PROVE FALSE
    BY DEF Died
  <1>1. i \in 1..Len(log) /\ d \in 1..Len(log) /\ Len(log) \in Nat
    BY DEF TypeOK
  <1>2. log[i] = Put(o) /\ log[i] # log[d]
    BY DEF Holds, Put, Del
  <1>3. CASE d < i
    BY <1>1, <1>2, <1>3 DEF LogIsLife
  <1>4. CASE i < d
    <2>1. d \in (i + 1)..r
      BY <1>1, <1>4
    <2> QED
      BY <2>1 DEF Holds
  <1> QED
    BY <1>1, <1>2, <1>3, <1>4

\* The first transaction only says that the object is there, or that it is gone.
LEMMA RawShows ==
  ASSUME IInv, NothingMissed, PutRawLatest
  PROVE  NothingMissed'
  <1>1. PICK ob \in todo : row' = [row EXCEPT ![ob.obj] = IF ob.op = "del" THEN "deleted" ELSE "live"]
    BY DEF PutRawLatest
  <1>2. UNCHANGED <<log, rv, todo, latest>>
    BY DEF PutRawLatest, server, loop
  <1> SUFFICES ASSUME NEW o \in Objects, Shown(o), ~(\E other \in todo : other.obj = o)
               PROVE  Shown(o)'
    BY <1>2 DEF NothingMissed
  <1>3. row'[o] = row[o]
    BY <1>1 DEF IInv, TypeOK
  <1>4. o \in LatestRefs' => o \in LatestRefs
    BY <1>2, <1>3 DEF LatestRefs
  <1> QED
    BY <1>2, <1>4 DEF Shown, Died, Holds

LEMMA RawLife ==
  ASSUME IInv, LifeInv, PutRawLatest
  PROVE  LifeInv'
  <1>1. /\ pc = "ingest" /\ pc' = "put"
        /\ UNCHANGED <<log, job, rv, prev, todo, latest>>
    BY DEF PutRawLatest, server, loop
  <1>2. CaughtUp'
    BY <1>1, RawShows DEF LifeInv, CaughtUp, Following
  <1> QED
    BY <1>1, <1>2 DEF LifeInv, LogIsLife, WorkIsLogged, Logged, RefsAreCurrent, Died, Holds

\* The second shows what the observation says.
LEMMA ObservationShows ==
  ASSUME IInv, LifeInv, NothingMissed, PutObservation
  PROVE  NothingMissed'
  <1>1. PICK ob \in todo :
        /\ row' = [row EXCEPT ![ob.obj] = IF ob.op = "del" THEN "deleted" ELSE "live"]
        /\ latest' = [latest EXCEPT ![ob.obj] = [op |-> ob.op, rv |-> ob.rv]]
        /\ todo' = todo \ {ob}
        /\ UNCHANGED <<log, rv>>
    BY DEF PutObservation, server, loop, IInv, WorkIsTruthful
  <1>2. ob.obj \in Objects /\ ob.op \in {"put", "del"} /\ Logged(ob)
    BY <1>1 DEF IInv, TypeOK, Observations, LifeInv, WorkIsLogged
  <1>3. rv \in 0..Len(log) /\ ob.rv \in 1..rv /\ Len(log) \in Nat /\ rv \in Nat /\ TypeOK
    BY <1>2 DEF IInv, SeenIsLogged, TypeOK, Logged
  <1>4. /\ row'[ob.obj] = (IF ob.op = "del" THEN "deleted" ELSE "live")
        /\ latest'[ob.obj].op = ob.op /\ latest'[ob.obj].rv = ob.rv
        /\ \A o \in Objects : o # ob.obj => row'[o] = row[o] /\ latest'[o] = latest[o]
    BY <1>1, <1>2 DEF IInv, TypeOK
  <1>5. Shown(ob.obj)'
    <2>1. CASE ob.op = "put"
      <3>1. Holds(ob.obj, ob.rv, rv) /\ ~Died(ob.obj, rv)
        BY <1>2, <1>3, <2>1, HeldIsAlive DEF Logged, LifeInv
      <3>2. ASSUME NEW i \in 1..rv, Holds(ob.obj, i, rv)
            PROVE  i <= ob.rv
        <4>1. log[i] = Put(ob.obj) /\ \A j \in (ob.rv + 1)..rv : log[j] # Put(ob.obj)
          BY <3>1, <3>2 DEF Holds
        <4>2. i \notin (ob.rv + 1)..rv
          BY <4>1
        <4> QED
          BY <1>3, <4>2
      <3>3. \A i \in 1..rv : Holds(ob.obj, i, rv) => ob.rv >= i
        BY <1>3, <3>2
      <3> QED
        BY <1>1, <1>4, <2>1, <3>1, <3>3 DEF Shown, Died, Holds
    <2>2. CASE ob.op = "del"
      <3>1. Died(ob.obj, rv)
        BY <1>2, <1>3, <2>2 DEF Logged, Died
      <3>2. \A i \in 1..rv : ~Holds(ob.obj, i, rv)
        BY <1>2, <1>3, <3>1, HeldIsAlive DEF LifeInv
      <3>3. ob.obj \notin LatestRefs'
        BY <1>4, <2>2 DEF LatestRefs
      <3> QED
        BY <1>1, <3>2, <3>3 DEF Shown, Holds
    <2> QED
      BY <1>2, <2>1, <2>2
  <1>6. ASSUME NEW o \in Objects, o # ob.obj, Shown(o)
        PROVE  Shown(o)'
    <2>1. o \in LatestRefs' <=> o \in LatestRefs
      BY <1>4, <1>6 DEF LatestRefs
    <2> QED
      BY <1>1, <1>4, <1>6, <2>1 DEF Shown, Died, Holds
  <1> SUFFICES ASSUME NEW o \in Objects, ~(\E other \in todo' : other.obj = o)
               PROVE  Shown(o)'
    BY DEF NothingMissed
  <1>7. CASE o = ob.obj
    BY <1>5, <1>7
  <1>8. CASE o # ob.obj
    <2>1. ~(\E other \in todo : other.obj = o)
      BY <1>1, <1>8
    <2> QED
      BY <1>6, <1>8, <2>1 DEF NothingMissed
  <1> QED
    BY <1>7, <1>8

LEMMA ObservationLife ==
  ASSUME IInv, LifeInv, PutObservation
  PROVE  LifeInv'
  <1>1. /\ pc = "put" /\ pc' = "ingest" /\ todo' \subseteq todo
        /\ UNCHANGED <<log, job, rv, prev>>
    BY DEF PutObservation, server, loop
  <1>2. CaughtUp'
    BY <1>1, ObservationShows DEF LifeInv, CaughtUp, Following
  <1> QED
    BY <1>1, <1>2 DEF LifeInv, LogIsLife, WorkIsLogged, Logged, RefsAreCurrent, Died, Holds

\* Between the version seen and the next event nothing happened to the resource.
LEMMA DeliverShows ==
  ASSUME IInv, LifeInv, NothingMissed, DeliverEvent
  PROVE  NothingMissed'
  <1>1. PICK i \in Pending :
          /\ \A j \in Pending : i <= j
          /\ rv' = i
          /\ todo' = {[obj |-> log[i].obj, op |-> log[i].op, rv |-> i]}
    BY DEF DeliverEvent
  <1>2. pc = "wait" /\ todo = {} /\ UNCHANGED <<log, row, latest>>
    BY DEF DeliverEvent, server, store, IInv, WorkIsOver
  <1>3. /\ i \in 1..Len(log) /\ rv < i /\ log[i] # Elsewhere /\ log[i] \in Writes
        /\ Len(log) \in Nat /\ rv \in Nat
    BY <1>2 DEF Pending, IInv, TypeOK, StreamFollows
  <1>4. \A j \in (rv + 1)..(i - 1) : log[j] = Elsewhere
    <2> SUFFICES ASSUME NEW j \in (rv + 1)..(i - 1), log[j] # Elsewhere PROVE FALSE
      OBVIOUS
    <2>1. cursor = rv
      BY <1>2 DEF IInv, StreamFollows
    <2>2. j \in Pending
      BY <1>3, <2>1 DEF Pending
    <2> QED
      BY <1>1, <1>3, <2>2
  <1>5. PICK p \in Objects : log[i] = Put(p) \/ log[i] = Del(p)
    BY <1>3 DEF Writes, Put, Del
  <1>6. todo' = {[obj |-> p, op |-> log[i].op, rv |-> i]}
    BY <1>1, <1>5 DEF Put, Del
  <1>7. ASSUME NEW o \in Objects, o # p, Shown(o)
        PROVE  Shown(o)'
    <2>1. \A j \in (rv + 1)..i : log[j] \notin {Put(o), Del(o)}
      <3>1. \A j \in (rv + 1)..i : j \in (rv + 1)..(i - 1) \/ j = i
        BY <1>3
      <3>2. Elsewhere \notin {Put(o), Del(o)} /\ log[i] \notin {Put(o), Del(o)}
        BY <1>5, <1>7, ConstantsAssumption DEF Elsewhere, Put, Del
      <3> QED
        BY <1>4, <3>1, <3>2
    <2>2. Died(o, i) => Died(o, rv)
      <3> SUFFICES ASSUME NEW j \in 1..i, log[j] = Del(o) PROVE j \in 1..rv
        BY DEF Died
      <3>1. j \notin (rv + 1)..i
        BY <2>1
      <3> QED
        BY <1>3, <3>1
    <2>3. ASSUME NEW j \in 1..i, Holds(o, j, i)
          PROVE  j \in 1..rv /\ Holds(o, j, rv)
      <3>1. j \notin (rv + 1)..i
        BY <2>1, <2>3 DEF Holds
      <3>2. j \in 1..rv /\ (j + 1)..rv \subseteq (j + 1)..i
        BY <1>3, <3>1
      <3> QED
        BY <2>3, <3>2 DEF Holds
    <2>4. LatestRefs' = LatestRefs
      BY <1>2 DEF LatestRefs
    <2> QED
      BY <1>1, <1>2, <1>7, <2>2, <2>3, <2>4 DEF Shown, Died, Holds
  <1> QED
    BY <1>2, <1>6, <1>7 DEF NothingMissed

LEMMA DeliverLife ==
  ASSUME IInv, LifeInv, DeliverEvent
  PROVE  LifeInv'
  <1>1. PICK i \in Pending :
          /\ rv' = i
          /\ todo' = {[obj |-> log[i].obj, op |-> log[i].op, rv |-> i]}
    BY DEF DeliverEvent
  <1>2. /\ pc = "wait" /\ pc' = "ingest"
        /\ UNCHANGED <<log, job, prev, row, latest>>
    BY DEF DeliverEvent, server, loop, store
  <1>3. /\ i \in 1..Len(log) /\ rv < i /\ log[i] # Elsewhere /\ log[i] \in Writes
        /\ Len(log) \in Nat /\ rv \in Nat
    BY <1>2 DEF Pending, IInv, TypeOK, StreamFollows
  <1>4. PICK p \in Objects : log[i] = Put(p) \/ log[i] = Del(p)
    BY <1>3 DEF Writes, Put, Del
  <1>5. todo' = {[obj |-> p, op |-> log[i].op, rv |-> i]}
    BY <1>1, <1>4 DEF Put, Del
  <1>6. WorkIsLogged'
    <2>1. log[i].op = "put" => Holds(p, i, i)
      <3>1. (i + 1)..i = {} /\ i \in 1..i
        BY <1>3
      <3> QED
        BY <1>4, <3>1 DEF Holds, Put, Del
    <2>2. log[i].op = "del" => Died(p, i)
      BY <1>3, <1>4 DEF Died, Put, Del
    <2> QED
      BY <1>1, <1>2, <1>3, <1>5, <2>1, <2>2 DEF WorkIsLogged, Logged, Holds, Died
  <1>7. CaughtUp'
    BY <1>2, DeliverShows DEF LifeInv, CaughtUp, Following
  <1> QED
    BY <1>2, <1>6, <1>7 DEF LifeInv, LogIsLife, RefsAreCurrent

\* So it is with a bookmark.
LEMMA BookmarkShows ==
  ASSUME IInv, NothingMissed, DeliverBookmark
  PROVE  NothingMissed'
  <1>1. pc = "wait" /\ rv' = Len(log) /\ Pending = {} /\ UNCHANGED <<log, row, latest>>
    BY DEF DeliverBookmark, server, store
  <1>2. todo = {} /\ cursor = rv /\ Len(log) \in Nat /\ rv \in Nat /\ rv <= Len(log)
    BY <1>1 DEF IInv, WorkIsOver, StreamFollows, SeenIsLogged, TypeOK
  <1>3. \A j \in (rv + 1)..Len(log) : log[j] = Elsewhere
    BY <1>1, <1>2 DEF Pending
  <1>4. ASSUME NEW o \in Objects, Shown(o)
        PROVE  Shown(o)'
    <2>1. \A j \in (rv + 1)..Len(log) : log[j] \notin {Put(o), Del(o)}
      BY <1>3, ConstantsAssumption DEF Elsewhere, Put, Del
    <2>2. Died(o, Len(log)) => Died(o, rv)
      <3> SUFFICES ASSUME NEW j \in 1..Len(log), log[j] = Del(o) PROVE j \in 1..rv
        BY DEF Died
      <3>1. j \notin (rv + 1)..Len(log)
        BY <2>1
      <3> QED
        BY <1>2, <3>1
    <2>3. ASSUME NEW j \in 1..Len(log), Holds(o, j, Len(log))
          PROVE  j \in 1..rv /\ Holds(o, j, rv)
      <3>1. j \notin (rv + 1)..Len(log)
        BY <2>1, <2>3 DEF Holds
      <3>2. j \in 1..rv /\ (j + 1)..rv \subseteq (j + 1)..Len(log)
        BY <1>2, <3>1
      <3> QED
        BY <2>3, <3>2 DEF Holds
    <2>4. LatestRefs' = LatestRefs
      BY <1>1 DEF LatestRefs
    <2> QED
      BY <1>1, <1>4, <2>2, <2>3, <2>4 DEF Shown, Died, Holds
  <1> QED
    BY <1>2, <1>4 DEF NothingMissed

LEMMA BookmarkLife ==
  ASSUME IInv, LifeInv, DeliverBookmark
  PROVE  LifeInv'
  <1>1. /\ pc = "wait" /\ pc' = "mark" /\ todo = {}
        /\ UNCHANGED <<log, job, prev, todo, row, latest>>
    BY DEF DeliverBookmark, server, loop, list, store, IInv, WorkIsOver
  <1>2. CaughtUp'
    BY <1>1, BookmarkShows DEF LifeInv, CaughtUp, Following
  <1> QED
    BY <1>1, <1>2 DEF LifeInv, LogIsLife, WorkIsLogged, RefsAreCurrent

LEMMA StartOverLife ==
  ASSUME IInv, LifeInv, Crash \/ RefreshQueued \/ StartStream
  PROVE  LifeInv'
  <1>1. /\ UNCHANGED <<log, row, latest>> /\ todo' = {}
        /\ pc' = "refs" \/ (pc' = "open" /\ job' = "stream")
    <2>1. CASE Crash
      BY <2>1 DEF Crash, server, store
    <2>2. CASE RefreshQueued \/ StartStream
      <3>1. todo = {}
        BY <2>2 DEF IInv, WorkIsOver, RefreshQueued, StartStream
      <3> QED
        BY <2>2, <3>1 DEF RefreshQueued, StartStream, server, store
    <2> QED
      BY <2>1, <2>2
  <1> QED
    BY <1>1 DEF LifeInv, LogIsLife, WorkIsLogged, RefsAreCurrent, CaughtUp, Following

LEMMA LifeStep ==
  ASSUME IInv, LifeInv, [Next]_vars
  PROVE  LifeInv'
  <1> USE DEF server, list, loop, store, Following
  <1>1. IInv'
    BY NextIInv
  <1>2. ASSUME NEW o \in Objects, ServerPut(o) PROVE LifeInv'
    <2>1. Put(o) \in Writes /\ \A p \in Objects : Put(o) \in {Put(p), Del(p)} => p = o
      BY DEF Put, Del, Writes
    <2> QED
      BY <1>2, <2>1, HappensLife DEF ServerPut
  <1>3. ASSUME NEW o \in Objects, ServerDelete(o) PROVE LifeInv'
    <2>1. Del(o) \in Writes /\ \A p \in Objects : Del(o) \in {Put(p), Del(p)} => p = o
      BY DEF Put, Del, Writes
    <2> QED
      BY <1>3, <2>1, HappensLife DEF ServerDelete, Live
  <1>4. CASE ServerElsewhere
    <2>1. Elsewhere \in Writes /\ \A p \in Objects : Elsewhere \notin {Put(p), Del(p)}
      BY DEF Elsewhere, Put, Del, Writes
    <2> QED
      BY <1>4, <2>1, HappensLife DEF ServerElsewhere
  <1>5. ASSUME NEW kind, Fail(kind) PROVE LifeInv'
    <2>1. /\ UNCHANGED <<log, rv, row, latest, job>> /\ todo' = {}
          /\ pc' \in {"dead", "backoff", "requeue", "acquire"}
      BY <1>5 DEF Fail, Abandon, FailSingle, FailList, FailStream, StreamReturns, StreamDies
    <2> QED
      BY <2>1, ControlLife
  <1>6. CASE Crash \/ RefreshQueued \/ StartStream
    BY <1>6, StartOverLife
  <1>7. CASE ListResource
    BY <1>1, <1>7, ListLife
  <1>8. CASE PutRawLatest
    BY <1>8, RawLife
  <1>9. CASE PutObservation
    BY <1>9, ObservationLife
  <1>10. CASE DeliverEvent
    BY <1>10, DeliverLife
  <1>11. CASE DeliverBookmark
    BY <1>11, BookmarkLife
  <1>12. CASE ReadRefs
    BY <1>12 DEF ReadRefs, LifeInv, LogIsLife, WorkIsLogged, Logged, RefsAreCurrent, CaughtUp,
       NothingMissed, Shown, LatestRefs, Holds, Died
  <1>13. CASE \/ Compact \/ Heal \/ Deadline \/ BackOff \/ Wake \/ Ingested \/ CommitList
              \/ Requeue \/ Queue \/ OpenWatch \/ Announce \/ LoopTop \/ CommitEvent
              \/ CommitBookmark \/ UNCHANGED vars
    <2>1. CASE Compact \/ Heal \/ Deadline \/ UNCHANGED vars
      BY <2>1, ControlLife DEF Compact, Heal, Deadline, vars
    <2>2. CASE BackOff \/ Wake
      BY <2>2, ControlLife DEF BackOff, StreamDies, Wake
    <2>3. CASE Ingested \/ CommitList
      BY <2>3, ControlLife DEF Ingested, CommitList
    <2>4. CASE Requeue \/ Queue
      BY <2>4, ControlLife DEF Requeue, Queue
    <2>5. CASE OpenWatch \/ Announce
      BY <2>5, ControlLife DEF OpenWatch, Announce
    <2>6. CASE LoopTop
      BY <2>6, ControlLife DEF LoopTop, StreamReturns
    <2>7. CASE CommitEvent \/ CommitBookmark
      BY <2>7, ControlLife DEF CommitEvent, CommitBookmark
    <2> QED
      BY <1>13, <2>1, <2>2, <2>3, <2>4, <2>5, <2>6, <2>7
  <1> QED
    BY <1>2, <1>3, <1>4, <1>5, <1>6, <1>7, <1>8, <1>9, <1>10, <1>11, <1>12, <1>13
    DEF Next, Environment, Worker, ReadRefsFails, ListFails, OpenWatchFails, StreamBreaks,
        StreamTimesOut, StoreFails

LEMMA LifeInvariance == Spec => [](IInv /\ LifeInv)
  <1>1. Init => IInv /\ LifeInv
    BY InitIInv, InitLife
  <1>2. IInv /\ LifeInv /\ [Next]_vars => (IInv /\ LifeInv)'
    BY NextIInv, LifeStep
  <1> QED
    BY <1>1, <1>2, PTL DEF Spec

\* The idle stream of a resource watched on its own has put everything it was
\* shown into the store, whatever failed, broke or was retried before.
THEOREM StreamStaysCaughtUp == Spec => []StreamCaughtUp
  <1>1. IInv /\ LifeInv => StreamCaughtUp
    BY DEF IInv, WorkIsOver, LifeInv, CaughtUp, Following, NothingMissed, Shown, StreamCaughtUp,
       Reflects
  <1> QED
    BY LifeInvariance, <1>1, PTL

--------------------------------------------------------------------------------
\* Evidence in order.  A refresh of a queued worker that the store fails and that
\* gives up leaves versions that are newer than the version its stream starts
\* from, and the stream puts older ones after them.  With the default retries it
\* never gives up.

\* What is stored is in the log.
LatestIsLogged ==
  \A o \in Objects :
    /\ latest[o].rv <= Len(log)
    /\ latest[o].op = "none" => latest[o].rv = 0
    /\ latest[o].op = "put" => latest[o].rv > 0 /\ log[latest[o].rv] = Put(o)
    /\ latest[o].op = "del" => Died(o, latest[o].rv)

\* A stream, or a list that is not the first, has seen all that is stored.
LatestIsSeen == job = "stream" \/ rv # NoVersion => \A o \in Objects : latest[o].rv <= rv

\* The version a stream will start from covers all that is stored.  A refresh
\* that has to try again has stored nothing yet, unless the store failed it.
BaseIsSeen ==
  \/ pc \in {"acquire", "queued", "requeue"}
  \/ job = "refresh" /\ pc \in {"refs", "list", "backoff", "sleep"} /\ "store" \notin Faults
  => \A o \in Objects : latest[o].rv <= base

LiveIsNotDeleted == \A o \in Objects : row[o] = "live" => latest[o].op # "del"

\* Only the pool has lists to refresh, slots to wait for and deadlines, and a
\* refresh does nothing but list.
PoolIsPool ==
  /\ job # "single" \/ late \/ pc \in {"acquire", "queued", "requeue"} => "pool" \in Modes
  /\ job = "refresh" => phase = "list" /\ pc \notin {"open", "announce", "top", "wait", "mark"}

\* An observation in hand is what is stored of its object, or newer; there is one
\* for each object.
Newer(ob) ==
  \/ latest[ob.obj] = [op |-> ob.op, rv |-> ob.rv]
  \/ latest[ob.obj].op # "del" /\ ob.rv > latest[ob.obj].rv

WorkIsNewer ==
  /\ \A ob \in todo : Newer(ob)
  /\ \A a, b \in todo : a.obj = b.obj => a = b

OrderInv ==
  /\ LatestIsLogged /\ LatestIsSeen /\ BaseIsSeen
  /\ LiveIsNotDeleted /\ PoolIsPool /\ WorkIsNewer

LEMMA InitOrder == Init => OrderInv
  <1> SUFFICES ASSUME Init PROVE OrderInv
    OBVIOUS
  <1>1. Len(log) = 1
    BY DEF Init
  <1>2. LatestIsLogged /\ LatestIsSeen /\ BaseIsSeen /\ LiveIsNotDeleted /\ WorkIsNewer
    BY <1>1 DEF Init, LatestIsLogged, LatestIsSeen, BaseIsSeen, LiveIsNotDeleted, WorkIsNewer, NoVersion
  <1>3. PoolIsPool
    BY ConstantsAssumption DEF Init, PoolIsPool, FirstJobs
  <1> QED
    BY <1>2, <1>3 DEF OrderInv

LEMMA HappensOrder ==
  ASSUME IInv, OrderInv, NEW write \in Writes, Happens(write)
  PROVE  OrderInv'
  <1>1. /\ log' = Append(log, write)
        /\ UNCHANGED <<pc, job, phase, late, rv, base, todo, row, latest>>
    BY DEF Happens, list, loop, store
  <1>2. /\ Len(log') = Len(log) + 1 /\ Len(log) \in Nat
        /\ \A i \in 1..Len(log) : log'[i] = log[i]
    BY <1>1, LogGrows DEF IInv, TypeOK
  <1>3. \A o : \A r \in 0..Len(log) : Died(o, r)' <=> Died(o, r)
    BY <1>1, PastIsFixed DEF IInv
  <1>4. LatestIsLogged'
    <2> SUFFICES ASSUME NEW o \in Objects
                 PROVE  /\ latest[o].rv <= Len(log')
                        /\ latest[o].op = "none" => latest[o].rv = 0
                        /\ latest[o].op = "put" => latest[o].rv > 0 /\ log'[latest[o].rv] = Put(o)
                        /\ latest[o].op = "del" => Died(o, latest[o].rv)'
      BY <1>1 DEF LatestIsLogged, Put
    <2>1. latest[o].rv \in Nat
      BY DEF IInv, TypeOK, Versions
    <2>2. latest[o].rv \in 0..Len(log)
      BY <1>2, <2>1 DEF OrderInv, LatestIsLogged
    <2>3. latest[o].op = "put" => latest[o].rv \in 1..Len(log) /\ log[latest[o].rv] = Put(o)
      BY <2>2 DEF OrderInv, LatestIsLogged
    <2>4. latest[o].op = "del" => Died(o, latest[o].rv)'
      <3> DEFINE r == latest[o].rv
      <3>1. latest[o].op = "del" => Died(o, r)
        BY DEF OrderInv, LatestIsLogged
      <3> QED
        BY <1>1, <1>3, <2>2, <3>1 DEF Died
    <2> QED
      BY <1>2, <2>2, <2>3, <2>4 DEF OrderInv, LatestIsLogged
  <1> QED
    BY <1>1, <1>4 DEF OrderInv, LatestIsSeen, BaseIsSeen, LiveIsNotDeleted, PoolIsPool,
       WorkIsNewer, Newer

\* A step that leaves the log, the version seen and the store alone.
LEMMA ControlOrder ==
  ASSUME OrderInv, UNCHANGED <<log, rv, row, latest, job>>, todo' \in {{}, todo},
         BaseIsSeen', PoolIsPool'
  PROVE  OrderInv'
  <1>1. LatestIsLogged' /\ LatestIsSeen' /\ LiveIsNotDeleted'
    BY DEF OrderInv, LatestIsLogged, LatestIsSeen, LiveIsNotDeleted, Died
  <1>2. WorkIsNewer'
    BY DEF OrderInv, WorkIsNewer, Newer
  <1> QED
    BY <1>1, <1>2 DEF OrderInv

\* The version a stream hands back covers what is stored.
LEMMA StreamReturnsSeen ==
  ASSUME TypeOK, OrderInv, StreamReturns \/ StreamDies, job = "stream" \/ rv # NoVersion,
         UNCHANGED latest
  PROVE  \A o \in Objects : latest'[o].rv <= base'
  <1>1. base' = IF rv = NoVersion THEN base ELSE rv
    BY DEF StreamReturns, StreamDies
  <1>2. \A o \in Objects : latest[o].rv \in Nat /\ latest[o].rv <= rv
    BY DEF OrderInv, LatestIsSeen, TypeOK, Versions
  <1> QED
    BY <1>1, <1>2 DEF TypeOK, NoVersion

LEMMA FailOrder ==
  ASSUME IInv, OrderInv, NEW kind, Fail(kind),
         "store" \in Faults \/ pc \in {"refs", "list", "open", "wait"},
         "pool" \in Modes /\ "store" \in Faults => MaxRetries < 0
  PROVE  OrderInv'
  <1>1. /\ UNCHANGED <<log, rv, row, latest, job, phase, late>> /\ todo' = {}
    BY DEF Fail, Abandon, server, FailSingle, FailList, FailStream, StreamReturns, StreamDies
  <1>2. \/ pc' \in {"dead", "backoff"}
        \/ pc' = "requeue" /\ job = "refresh" /\ GiveUp
        \/ pc' = "acquire" /\ job = "stream" /\ StreamReturns
    BY DEF Fail, FailSingle, FailList, FailStream, StreamReturns, StreamDies
  <1>3. job = "refresh" /\ GiveUp => pc \in {"refs", "list"} /\ "store" \notin Faults
    BY ConstantsAssumption DEF OrderInv, PoolIsPool, GiveUp
  <1>4. BaseIsSeen'
    <2>1. CASE pc' = "acquire"
      BY <1>1, <1>2, <2>1, StreamReturnsSeen DEF IInv, BaseIsSeen
    <2>2. CASE job = "refresh" /\ pc' # "acquire"
      <3>1. base' = base
        BY <2>2 DEF Fail, FailSingle, FailList, FailStream
      <3>2. "store" \notin Faults => pc \in {"refs", "list"}
        BY <2>2 DEF OrderInv, PoolIsPool
      <3>3. pc' = "requeue" => "store" \notin Faults
        BY <1>2, <1>3
      <3> QED
        BY <1>1, <1>2, <2>2, <3>1, <3>2, <3>3 DEF OrderInv, BaseIsSeen
    <2>3. CASE job # "refresh" /\ pc' # "acquire"
      BY <1>1, <1>2, <2>3 DEF BaseIsSeen
    <2> QED
      BY <2>1, <2>2, <2>3
  <1>5. PoolIsPool'
    BY <1>1, <1>2 DEF OrderInv, PoolIsPool
  <1> QED
    BY <1>1, <1>4, <1>5, ControlOrder

LEMMA ListOrder ==
  ASSUME IInv, LifeInv, LifeInv', OrderInv, ListResource
  PROVE  OrderInv'
  <1>1. PICK r \in Snapshots(listRV) : rv' = r /\ todo' = Items(r) \cup Missing(prev, r)
    BY DEF ListResource
  <1>2. /\ pc = "list" /\ pc' = "ingest"
        /\ UNCHANGED <<log, job, phase, late, base, prev, row, latest>>
    BY DEF ListResource, server, loop, store
  <1>3. r \in 1..Len(log) /\ Len(log) \in Nat
    BY <1>1, <1>2 DEF Snapshots, IInv, TypeOK, SeenIsLogged, NoVersion
  <1>4. \A o \in Objects : latest[o] \in Versions /\ latest[o].rv \in Nat /\ latest[o].op \in {"none", "put", "del"}
    BY DEF IInv, TypeOK, Versions
  <1>5. \A o \in Objects : latest[o].rv <= r
    <2>1. CASE listRV = NoVersion
      BY <1>1, <2>1 DEF Snapshots, OrderInv, LatestIsLogged
    <2>2. CASE listRV # NoVersion
      <3>1. listRV = rv /\ rv # NoVersion /\ r >= rv /\ rv \in Nat
        BY <1>1, <1>2, <2>2 DEF IInv, AsksForLastSeen, Snapshots, TypeOK
      <3> QED
        BY <1>3, <1>4, <3>1 DEF OrderInv, LatestIsSeen
    <2> QED
      BY <2>1, <2>2
  <1>6. ASSUME NEW ob \in Items(r)
        PROVE  Newer(ob)
    <2> DEFINE o == ob.obj
               i == ob.rv
    <2>1. o \in Objects /\ ob.op = "put" /\ i \in 1..r /\ Holds(o, i, r)
      BY DEF Items
    <2>2. ~Died(o, r)
      BY <1>3, <2>1, HeldIsAlive DEF IInv, LifeInv
    <2>3. latest[o].op # "del"
      <3>1. Died(o, latest[o].rv) => Died(o, r)
        BY <1>3, <1>4, <1>5, <2>1 DEF Died
      <3> QED
        BY <2>1, <2>2, <3>1 DEF OrderInv, LatestIsLogged
    <2>4. CASE latest[o].op = "none"
      BY <1>3, <2>1, <2>4 DEF OrderInv, LatestIsLogged, Newer
    <2>5. CASE latest[o].op = "put"
      <3> DEFINE j == latest[o].rv
      <3>1. j > 0 /\ j <= r /\ j \in Nat /\ log[j] = Put(o)
        BY <1>4, <1>5, <2>1, <2>5 DEF OrderInv, LatestIsLogged
      <3>2. j \notin (i + 1)..r
        BY <2>1, <3>1 DEF Holds
      <3>3. j <= i
        BY <1>3, <2>1, <3>1, <3>2
      <3>4. latest[o] = [op |-> "put", rv |-> j]
        BY <1>4, <2>1, <2>5 DEF Versions
      <3> QED
        BY <1>3, <2>1, <2>3, <3>1, <3>3, <3>4 DEF Newer
    <2> QED
      BY <1>4, <2>1, <2>3, <2>4, <2>5
  <1>7. ASSUME NEW ob \in Missing(prev, r)
        PROVE  Newer(ob)
    <2>1. PICK o \in prev : ob = [obj |-> o, op |-> "del", rv |-> r]
      BY DEF Missing
    <2>2. o \in Objects /\ row[o] = "live" /\ latest[o].op = "put"
      BY <1>2, <1>4, <2>1 DEF LifeInv, RefsAreCurrent, LatestRefs, OrderInv, LiveIsNotDeleted
    <2>3. Died(o, r)
      <3>1. Logged(ob)'
        BY <1>1 DEF LifeInv, WorkIsLogged
      <3> QED
        BY <1>2, <2>1, <3>1 DEF Logged, Died
    <2>4. latest[o].rv # r
      <3> SUFFICES ASSUME latest[o].rv = r PROVE FALSE
        OBVIOUS
      <3>1. log[r] = Put(o)
        BY <2>2 DEF OrderInv, LatestIsLogged
      <3>2. r \in 1..r /\ (r + 1)..r = {}
        BY <1>3
      <3>3. Holds(o, r, r)
        BY <3>1, <3>2 DEF Holds
      <3> QED
        BY <1>3, <2>2, <2>3, <3>2, <3>3, HeldIsAlive DEF IInv, LifeInv
    <2> QED
      BY <1>3, <1>4, <1>5, <2>1, <2>2, <2>4 DEF Newer
  <1>8. ASSUME NEW a \in todo', NEW b \in todo', a.obj = b.obj
        PROVE  a = b
    <2>1. ASSUME NEW x \in Items(r)
          PROVE  Holds(x.obj, x.rv, r) /\ Live(x.obj, r) /\ x = [obj |-> x.obj, op |-> "put", rv |-> x.rv]
      <3>1. x.obj \in Objects /\ x.rv \in 1..r /\ Holds(x.obj, x.rv, r) /\ x = [obj |-> x.obj, op |-> "put", rv |-> x.rv]
        BY DEF Items
      <3>2. ~Died(x.obj, r)
        BY <1>3, <3>1, HeldIsAlive DEF IInv, LifeInv
      <3>3. Born(x.obj, r)
        BY <3>1 DEF Holds, Born
      <3> QED
        BY <3>1, <3>2, <3>3 DEF Live
    <2>2. \A x \in Missing(prev, r) : ~Live(x.obj, r) /\ x = [obj |-> x.obj, op |-> "del", rv |-> r]
      BY DEF Missing
    <2>3. CASE a \in Items(r) /\ b \in Items(r)
      <3>1. a.rv \in 1..r /\ b.rv \in 1..r
        BY <2>3 DEF Items
      <3>2. a.rv \notin (b.rv + 1)..r /\ b.rv \notin (a.rv + 1)..r
        BY <1>8, <2>1, <2>3 DEF Holds
      <3>3. a.rv = b.rv
        BY <1>3, <3>1, <3>2
      <3> QED
        BY <1>8, <2>1, <2>3, <3>3
    <2>4. CASE a \in Missing(prev, r) /\ b \in Missing(prev, r)
      BY <1>8, <2>2, <2>4
    <2> QED
      BY <1>1, <1>8, <2>1, <2>2, <2>3, <2>4
  <1>9. WorkIsNewer'
    BY <1>1, <1>2, <1>6, <1>7, <1>8 DEF WorkIsNewer, Newer
  <1>10. LatestIsLogged' /\ LatestIsSeen' /\ BaseIsSeen' /\ LiveIsNotDeleted' /\ PoolIsPool'
    BY <1>1, <1>2, <1>5 DEF OrderInv, LatestIsLogged, LatestIsSeen, BaseIsSeen, LiveIsNotDeleted,
       PoolIsPool, Died
  <1> QED
    BY <1>9, <1>10 DEF OrderInv

LEMMA RawOrder ==
  ASSUME IInv, OrderInv, PutRawLatest
  PROVE  OrderInv'
  <1>1. PICK ob \in todo : row' = [row EXCEPT ![ob.obj] = IF ob.op = "del" THEN "deleted" ELSE "live"]
    BY DEF PutRawLatest
  <1>2. /\ pc = "ingest" /\ pc' = "put"
        /\ UNCHANGED <<log, job, phase, late, rv, base, todo, latest>>
    BY DEF PutRawLatest, server, loop
  <1>3. ob.obj \in Objects /\ ob.op \in {"put", "del"} /\ Newer(ob)
    BY DEF IInv, TypeOK, Observations, OrderInv, WorkIsNewer
  <1>4. LiveIsNotDeleted'
    <2> SUFFICES ASSUME NEW o \in Objects, row'[o] = "live" PROVE latest[o].op # "del"
      BY <1>2 DEF LiveIsNotDeleted
    <2>1. CASE o = ob.obj
      <3>1. ob.op = "put"
        BY <1>1, <1>3, <2>1 DEF IInv, TypeOK
      <3> QED
        BY <1>3, <2>1, <3>1 DEF Newer
    <2>2. CASE o # ob.obj
      BY <1>1, <1>3, <2>2 DEF IInv, TypeOK, OrderInv, LiveIsNotDeleted
    <2> QED
      BY <2>1, <2>2
  <1> QED
    BY <1>2, <1>4 DEF OrderInv, LatestIsLogged, LatestIsSeen, BaseIsSeen, PoolIsPool,
       WorkIsNewer, Newer, Died

\* A version is stored after the one it is newer than.
LEMMA ObservationOrder ==
  ASSUME IInv, LifeInv, OrderInv, PutObservation
  PROVE  /\ OrderInv'
         /\ \A o \in Objects :
              latest'[o] # latest[o] => latest[o].op # "del" /\ latest'[o].rv > latest[o].rv
  <1>1. PICK ob \in todo :
        /\ pc' = "ingest"
        /\ row' = [row EXCEPT ![ob.obj] = IF ob.op = "del" THEN "deleted" ELSE "live"]
        /\ latest' = [latest EXCEPT ![ob.obj] = [op |-> ob.op, rv |-> ob.rv]]
        /\ todo' = todo \ {ob}
        /\ UNCHANGED <<log, job, phase, late, rv, base>>
    BY DEF PutObservation, server, loop, IInv, WorkIsTruthful
  <1>2. ob.obj \in Objects /\ ob.op \in {"put", "del"} /\ Logged(ob) /\ Newer(ob)
    BY DEF IInv, TypeOK, Observations, LifeInv, WorkIsLogged, OrderInv, WorkIsNewer
  <1>3. rv \in 0..Len(log) /\ ob.rv \in 1..rv /\ Len(log) \in Nat /\ rv \in Nat
    BY <1>2 DEF IInv, SeenIsLogged, TypeOK, Logged
  <1>4. /\ row'[ob.obj] = (IF ob.op = "del" THEN "deleted" ELSE "live")
        /\ latest'[ob.obj] = [op |-> ob.op, rv |-> ob.rv]
        /\ \A o \in Objects : o # ob.obj => row'[o] = row[o] /\ latest'[o] = latest[o]
    BY <1>1, <1>2 DEF IInv, TypeOK
  <1>5. LatestIsLogged'
    <2> SUFFICES ASSUME NEW o \in Objects
                 PROVE  /\ latest'[o].rv <= Len(log)
                        /\ latest'[o].op = "none" => latest'[o].rv = 0
                        /\ latest'[o].op = "put" => latest'[o].rv > 0 /\ log[latest'[o].rv] = Put(o)
                        /\ latest'[o].op = "del" => Died(o, latest'[o].rv)
      BY <1>1 DEF LatestIsLogged, Died
    <2>1. CASE o = ob.obj
      <3>1. ob.op = "put" => log[ob.rv] = Put(o)
        BY <1>2, <2>1 DEF Logged, Holds
      <3>2. ob.op = "del" => Died(o, ob.rv)
        BY <1>2, <2>1 DEF Logged
      <3> QED
        BY <1>2, <1>3, <1>4, <2>1, <3>1, <3>2
    <2>2. CASE o # ob.obj
      BY <1>4, <2>2 DEF OrderInv, LatestIsLogged
    <2> QED
      BY <2>1, <2>2
  <1>6. LatestIsSeen' /\ LiveIsNotDeleted'
    BY <1>1, <1>2, <1>3, <1>4 DEF OrderInv, LatestIsSeen, LiveIsNotDeleted
  <1>7. WorkIsNewer'
    <2>1. ASSUME NEW other \in todo'
          PROVE  Newer(other)'
      <3>1. other \in todo /\ other # ob /\ other.obj \in Objects
        BY <1>1 DEF IInv, TypeOK, Observations
      <3>2. other.obj # ob.obj
        BY <3>1 DEF OrderInv, WorkIsNewer
      <3> QED
        BY <1>4, <3>1, <3>2 DEF OrderInv, WorkIsNewer, Newer
    <2> QED
      BY <1>1, <2>1 DEF OrderInv, WorkIsNewer
  <1>8. BaseIsSeen' /\ PoolIsPool'
    BY <1>1 DEF OrderInv, BaseIsSeen, PoolIsPool
  <1>9. \A o \in Objects :
          latest'[o] # latest[o] => latest[o].op # "del" /\ latest'[o].rv > latest[o].rv
    BY <1>2, <1>4 DEF Newer
  <1> QED
    BY <1>5, <1>6, <1>7, <1>8, <1>9 DEF OrderInv

LEMMA DeliverOrder ==
  ASSUME IInv, LifeInv, OrderInv, DeliverEvent
  PROVE  OrderInv'
  <1>1. PICK i \in Pending :
          /\ rv' = i
          /\ todo' = {[obj |-> log[i].obj, op |-> log[i].op, rv |-> i]}
    BY DEF DeliverEvent
  <1>2. /\ pc = "wait" /\ pc' = "ingest"
        /\ UNCHANGED <<log, job, phase, late, base, row, latest>>
    BY DEF DeliverEvent, server, loop, store
  <1>3. /\ i \in 1..Len(log) /\ rv < i /\ log[i] # Elsewhere /\ log[i] \in Writes
        /\ Len(log) \in Nat /\ rv \in Nat
    BY <1>2 DEF Pending, IInv, TypeOK, StreamFollows
  <1>4. PICK p \in Objects : log[i] = Put(p) \/ log[i] = Del(p)
    BY <1>3 DEF Writes, Put, Del
  <1>5. todo' = {[obj |-> p, op |-> log[i].op, rv |-> i]}
    BY <1>1, <1>4 DEF Put, Del
  <1>6. \A o \in Objects : latest[o].rv \in Nat /\ latest[o].rv <= rv
    BY <1>2 DEF IInv, ListComesFirst, OrderInv, LatestIsSeen, TypeOK, Versions
  <1>7. latest[p].op # "del"
    <2> SUFFICES ASSUME latest[p].op = "del" PROVE FALSE
      OBVIOUS
    <2>1. PICK d \in 1..latest[p].rv : log[d] = Del(p)
      BY DEF OrderInv, LatestIsLogged, Died
    <2>2. d \in 1..Len(log) /\ d < i
      BY <1>3, <1>6, <2>1
    <2> QED
      BY <1>3, <1>4, <2>1, <2>2 DEF LifeInv, LogIsLife
  <1>8. WorkIsNewer'
    BY <1>2, <1>3, <1>5, <1>6, <1>7 DEF WorkIsNewer, Newer
  <1>9. LatestIsSeen'
    BY <1>1, <1>2, <1>3, <1>6 DEF LatestIsSeen
  <1> QED
    BY <1>2, <1>8, <1>9 DEF OrderInv, LatestIsLogged, BaseIsSeen, LiveIsNotDeleted, PoolIsPool, Died

LEMMA SeenOrder ==
  ASSUME IInv, OrderInv, DeliverBookmark \/ Crash \/ RefreshQueued \/ StartStream
  PROVE  OrderInv'
  <1>1. UNCHANGED <<log, row, latest>> /\ todo' \in {{}, todo}
        /\ pc' \in {"mark", "refs", "open"}
    BY DEF DeliverBookmark, Crash, RefreshQueued, StartStream, server, store, list
  <1>2. \A o \in Objects : latest[o].rv \in Nat
    BY DEF IInv, TypeOK, Versions
  <1>3. LatestIsSeen'
    <2>1. CASE DeliverBookmark
      <3>1. rv' = Len(log)
        BY <2>1 DEF DeliverBookmark
      <3> QED
        BY <1>1, <3>1 DEF OrderInv, LatestIsLogged, LatestIsSeen
    <2>2. CASE Crash
      <3>1. rv' = NoVersion /\ job' # "stream"
        BY <2>2 DEF Crash, FirstJobs
      <3> QED
        BY <3>1 DEF LatestIsSeen
    <2>3. CASE RefreshQueued
      <3>1. rv' = NoVersion /\ job' = "refresh"
        BY <2>3 DEF RefreshQueued
      <3> QED
        BY <3>1 DEF LatestIsSeen
    <2>4. CASE StartStream
      <3>1. rv' = base /\ pc \in {"acquire", "queued"}
        BY <2>4 DEF StartStream
      <3> QED
        BY <1>1, <3>1 DEF OrderInv, BaseIsSeen, LatestIsSeen
    <2> QED
      BY <2>1, <2>2, <2>3, <2>4
  <1>4. PoolIsPool' /\ BaseIsSeen'
    <2>1. CASE DeliverBookmark
      <3>1. pc = "wait" /\ pc' = "mark" /\ UNCHANGED <<job, phase, late>>
        BY <2>1 DEF DeliverBookmark, loop
      <3> QED
        BY <3>1 DEF OrderInv, PoolIsPool, BaseIsSeen
    <2>2. CASE Crash
      <3>1. late' = FALSE /\ pc' = "refs" /\ job' \in FirstJobs
        BY <2>2 DEF Crash
      <3>2. job' \in {"single", "initial"} /\ (job' = "initial" => "pool" \in Modes)
        BY <3>1, ConstantsAssumption DEF FirstJobs
      <3> QED
        BY <3>1, <3>2 DEF PoolIsPool, BaseIsSeen
    <2>3. CASE RefreshQueued
      <3>1. pc = "queued" /\ pc' = "refs" /\ phase' = "list" /\ UNCHANGED <<late, base, latest>>
        BY <2>3 DEF RefreshQueued, store
      <3> QED
        BY <3>1 DEF OrderInv, PoolIsPool, BaseIsSeen
    <2>4. CASE StartStream
      BY <2>4 DEF StartStream, OrderInv, PoolIsPool, BaseIsSeen
    <2> QED
      BY <2>1, <2>2, <2>3, <2>4
  <1>5. LatestIsLogged' /\ LiveIsNotDeleted' /\ WorkIsNewer'
    BY <1>1 DEF OrderInv, LatestIsLogged, LiveIsNotDeleted, WorkIsNewer, Newer, Died
  <1> QED
    BY <1>3, <1>4, <1>5 DEF OrderInv

LEMMA OrderStep ==
  ASSUME IInv, LifeInv, OrderInv, [Next]_vars,
         "pool" \in Modes /\ "store" \in Faults => MaxRetries < 0
  PROVE  OrderInv'
  <1> USE DEF server, list, loop, store
  <1>1. ASSUME NEW o \in Objects, ServerPut(o) \/ ServerDelete(o) PROVE OrderInv'
    <2>1. Put(o) \in Writes /\ Del(o) \in Writes
      BY DEF Put, Del, Writes
    <2> QED
      BY <1>1, <2>1, HappensOrder DEF ServerPut, ServerDelete
  <1>2. CASE ServerElsewhere
    <2>1. Elsewhere \in Writes
      BY DEF Writes
    <2> QED
      BY <1>2, <2>1, HappensOrder DEF ServerElsewhere
  <1>3. ASSUME NEW kind, Fail(kind),
               "store" \in Faults \/ pc \in {"refs", "list", "open", "wait"}
        PROVE  OrderInv'
    BY <1>3, FailOrder
  <1>4. CASE DeliverBookmark \/ Crash \/ RefreshQueued \/ StartStream
    BY <1>4, SeenOrder
  <1>5. CASE ListResource
    <2>1. LifeInv'
      BY <1>5, LifeStep DEF Next, Worker
    <2> QED
      BY <1>5, <2>1, ListOrder
  <1>6. CASE PutRawLatest
    BY <1>6, RawOrder
  <1>7. CASE PutObservation
    BY <1>7, ObservationOrder
  <1>8. CASE DeliverEvent
    BY <1>8, DeliverOrder
  <1>9. CASE ReadRefs
    BY <1>9 DEF ReadRefs, OrderInv, LatestIsLogged, LatestIsSeen, BaseIsSeen, LiveIsNotDeleted,
       PoolIsPool, WorkIsNewer, Newer, Died
  <1>10. CASE \/ Compact \/ Heal \/ Deadline \/ BackOff \/ Wake \/ Ingested \/ CommitList
              \/ Requeue \/ Queue \/ OpenWatch \/ Announce \/ LoopTop \/ CommitEvent
              \/ CommitBookmark \/ UNCHANGED vars
    <2> USE DEF OrderInv, BaseIsSeen, PoolIsPool
    <2>1. CASE Compact \/ Heal \/ Deadline \/ UNCHANGED vars
      BY <2>1, ControlOrder DEF Compact, Heal, Deadline, vars
    <2>2. CASE BackOff
      BY <2>2, ControlOrder DEF BackOff, StreamDies
    <2>3. CASE Wake \/ Ingested
      BY <2>3, ControlOrder DEF Wake, Ingested
    <2>4. CASE CommitList
      <3>1. job # "stream" => rv # NoVersion
        BY <2>4 DEF CommitList, IInv, ListComesFirst
      <3>2. BaseIsSeen' /\ PoolIsPool'
        BY <2>4, <3>1 DEF CommitList, LatestIsSeen
      <3> QED
        BY <2>4, <3>2, ControlOrder DEF CommitList
    <2>5. CASE Requeue \/ Queue
      BY <2>5, ControlOrder DEF Requeue, Queue
    <2>6. CASE OpenWatch \/ Announce
      BY <2>6, ControlOrder DEF OpenWatch, Announce
    <2>7. CASE LoopTop
      <3>1. job # "stream" => rv # NoVersion
        BY <2>7 DEF LoopTop, IInv, ListComesFirst
      <3>2. BaseIsSeen'
        BY <2>7, <3>1, StreamReturnsSeen DEF LoopTop, IInv
      <3> QED
        BY <2>7, <3>2, ControlOrder DEF LoopTop, StreamReturns
    <2>8. CASE CommitEvent \/ CommitBookmark
      <3>1. pc' = "top" /\ UNCHANGED <<log, job, phase, late, rv, base, todo, row, latest>>
        <4>1. CASE CommitEvent
          BY <4>1 DEF CommitEvent
        <4>2. CASE CommitBookmark
          BY <4>2 DEF CommitBookmark
        <4> QED
          BY <2>8, <4>1, <4>2
      <3>2. job # "refresh"
        BY <2>8 DEF CommitEvent, CommitBookmark
      <3> QED
        BY <3>1, <3>2, ControlOrder
    <2> QED
      BY <1>10, <2>1, <2>2, <2>3, <2>4, <2>5, <2>6, <2>7, <2>8
  <1> QED
    BY <1>1, <1>2, <1>3, <1>4, <1>5, <1>6, <1>7, <1>8, <1>9, <1>10
    DEF Next, Environment, Worker, ReadRefsFails, ListFails, OpenWatchFails, StreamBreaks,
        StreamTimesOut, StoreFails, Failing

\* No step but the second transaction of an observation makes a version.
LEMMA OnlyObservations ==
  ASSUME TypeOK, [Next]_vars, ~PutObservation
  PROVE  UNCHANGED latest
  <1> USE DEF server, list, loop, store
  <1>1. ASSUME NEW kind, Fail(kind) PROVE UNCHANGED latest
    BY <1>1 DEF Fail
  <1>2. CASE \/ Environment \/ BackOff \/ Wake \/ ReadRefs \/ ListResource \/ PutRawLatest
             \/ Ingested \/ UNCHANGED vars
    BY <1>2 DEF Environment, ServerPut, ServerDelete, ServerElsewhere, Happens, Compact, Heal,
       Deadline, Crash, BackOff, Wake, ReadRefs, ListResource, PutRawLatest, Ingested, vars
  <1>3. CASE \/ CommitList \/ Requeue \/ Queue \/ StartStream \/ RefreshQueued \/ OpenWatch
             \/ Announce \/ LoopTop \/ DeliverEvent \/ DeliverBookmark \/ CommitEvent
             \/ CommitBookmark
    BY <1>3 DEF CommitList, Requeue, Queue, StartStream, RefreshQueued, OpenWatch, Announce,
       LoopTop, DeliverEvent, DeliverBookmark, CommitEvent, CommitBookmark
  <1> QED
    BY <1>1, <1>2, <1>3 DEF Next, Worker, ReadRefsFails, ListFails, OpenWatchFails, StreamBreaks,
       StreamTimesOut, StoreFails

\* Evidence is never replaced by older evidence and a recorded deletion is final,
\* with any retries when resources are watched on their own or the store does not
\* fail, and with the default ones in any case.
THEOREM EvidenceNeverRegresses ==
  ASSUME "pool" \in Modes /\ "store" \in Faults => MaxRetries < 0
  PROVE  Spec => NeverRegresses
  <1>1. Init => IInv /\ LifeInv /\ OrderInv
    BY InitIInv, InitLife, InitOrder
  <1>2. IInv /\ LifeInv /\ OrderInv /\ [Next]_vars => (IInv /\ LifeInv /\ OrderInv)'
    BY NextIInv, LifeStep, OrderStep
  <1>3. IInv /\ LifeInv /\ OrderInv /\ [Next]_vars =>
          [\A o \in Objects :
             latest'[o] # latest[o] => latest[o].op # "del" /\ latest'[o].rv > latest[o].rv]_vars
    BY ObservationOrder, OnlyObservations DEF IInv
  <1> QED
    BY <1>1, <1>2, <1>3, PTL DEF Spec, NeverRegresses

--------------------------------------------------------------------------------
\* The offset.  Where the calls of the store succeed, everything up to a version
\* that the collector has seen is stored before the version is recorded.  Where
\* they do not, an offset can pass over an event that was not stored: its version
\* is taken before it is ingested, and the next event or bookmark records more.

\* What is recorded, and what a stream will start from, has been seen.
OffsetIsSeen ==
  /\ offset.rv <= Len(log)
  /\ job = "stream" \/ rv # NoVersion => offset.rv <= rv /\ base <= rv
  /\ pc \in {"acquire", "queued", "requeue"} => offset.rv <= base

\* A refresh that has to try again has seen nothing.
RefreshIsFresh == job = "refresh" /\ pc \in {"refs", "list", "backoff", "sleep"} => rv = NoVersion

DurableInv ==
  /\ OffsetIsSeen /\ RefreshIsFresh
  /\ \A r \in {offset.rv, base} : Reflects(r)
  /\ NothingMissed

\* Nothing has happened before the first version.
LEMMA NothingToReflect == Reflects(NoVersion) /\ (rv = NoVersion => \A o \in Objects : Shown(o))
  BY DEF Reflects, Shown, Died, NoVersion

LEMMA InitDurable == Init => DurableInv
  <1> SUFFICES ASSUME Init PROVE DurableInv
    OBVIOUS
  <1>1. Len(log) = 1 /\ rv = NoVersion /\ base = NoVersion /\ offset.rv = NoVersion
    BY DEF Init
  <1>2. OffsetIsSeen /\ RefreshIsFresh
    BY <1>1 DEF Init, OffsetIsSeen, RefreshIsFresh, NoVersion, FirstJobs
  <1> QED
    BY <1>1, <1>2, NothingToReflect DEF DurableInv, NothingMissed

\* A step that leaves the log and the tables alone and has nothing in hand records,
\* keeps and resumes only what is shown.
LEMMA ControlDurable ==
  ASSUME DurableInv, UNCHANGED <<log, row, latest>>, todo = {},
         offset'.rv \in {offset.rv, base, rv}, base' \in {base, rv},
         rv' \in {rv, base, NoVersion},
         OffsetIsSeen', RefreshIsFresh'
  PROVE  DurableInv'
  <1>1. \A r : Reflects(r)' <=> Reflects(r)
    BY DEF Reflects, LatestRefs, Died, Holds
  <1>2. Reflects(rv)
    BY DEF DurableInv, NothingMissed, Shown, Reflects
  <1>3. \A r \in {offset.rv, base, rv, NoVersion} : Reflects(r)'
    BY <1>1, <1>2, NothingToReflect DEF DurableInv
  <1>4. NothingMissed'
    <2>1. PICK k : k = rv'
      OBVIOUS
    <2>2. Reflects(k)'
      BY <1>3, <2>1
    <2> QED
      BY <2>1, <2>2 DEF Reflects, NothingMissed, Shown
  <1> QED
    BY <1>3, <1>4 DEF DurableInv

LEMMA HappensDurable ==
  ASSUME IInv, DurableInv, NEW write \in Writes, Happens(write)
  PROVE  DurableInv'
  <1>1. /\ log' = Append(log, write)
        /\ UNCHANGED <<pc, job, rv, base, todo, row, latest, offset>>
    BY DEF Happens, list, loop, store
  <1>2. Len(log') = Len(log) + 1 /\ Len(log) \in Nat
    BY <1>1, LogGrows DEF IInv, TypeOK
  <1>3. rv \in 0..Len(log) /\ base \in 0..Len(log) /\ offset.rv \in 0..Len(log)
    BY <1>2 DEF IInv, TypeOK, SeenIsLogged, DurableInv, OffsetIsSeen
  <1>4. \A o : \A r \in 0..Len(log) :
          /\ Died(o, r)' <=> Died(o, r)
          /\ \A i : Holds(o, i, r)' <=> Holds(o, i, r)
    BY <1>1, PastIsFixed DEF IInv
  <1>5. LatestRefs' = LatestRefs
    BY <1>1 DEF LatestRefs
  <1>6. \A r \in 0..Len(log) : Reflects(r)' <=> Reflects(r)
    BY <1>1, <1>4, <1>5 DEF Reflects
  <1>7. \A o \in Objects : Shown(o)' <=> Shown(o)
    BY <1>1, <1>3, <1>4, <1>5 DEF Shown
  <1>8. OffsetIsSeen' /\ RefreshIsFresh'
    BY <1>1, <1>2, <1>3 DEF DurableInv, OffsetIsSeen, RefreshIsFresh
  <1> QED
    BY <1>1, <1>3, <1>6, <1>7, <1>8 DEF DurableInv, NothingMissed

\* An observation in hand says at least what the store shows of its object up to a
\* version already seen.
LEMMA HandKeeps ==
  ASSUME IInv, LifeInv, NEW ob \in todo, NEW r \in 0..rv
  PROVE  ob.op = "put" => ~Died(ob.obj, r)
  <1> SUFFICES ASSUME ob.op = "put", Died(ob.obj, r) PROVE FALSE
    OBVIOUS
  <1>1. ob.obj \in Objects /\ Logged(ob)
    BY DEF IInv, TypeOK, Observations, LifeInv, WorkIsLogged
  <1>2. rv \in 0..Len(log) /\ ob.rv \in 1..rv /\ Holds(ob.obj, ob.rv, rv)
    BY <1>1 DEF Logged, IInv, TypeOK, SeenIsLogged
  <1>3. ~Died(ob.obj, rv)
    BY <1>1, <1>2, HeldIsAlive DEF IInv, LifeInv
  <1> QED
    BY <1>2, <1>3 DEF Died

LEMMA RawKeeps ==
  ASSUME IInv, LifeInv, PutRawLatest, NEW r \in 0..rv, Reflects(r)
  PROVE  Reflects(r)'
  <1>1. PICK ob \in todo : row' = [row EXCEPT ![ob.obj] = IF ob.op = "del" THEN "deleted" ELSE "live"]
    BY DEF PutRawLatest
  <1>2. UNCHANGED <<log, latest>>
    BY DEF PutRawLatest, server
  <1>3. ob.obj \in Objects
    BY DEF IInv, TypeOK, Observations
  <1>4. ASSUME NEW o \in Objects, Died(o, r), o \in LatestRefs'
        PROVE  FALSE
    <2>1. CASE o = ob.obj
      <3>1. ob.op # "del"
        BY <1>1, <1>3, <1>4, <2>1 DEF LatestRefs, IInv, TypeOK
      <3>2. ob.op = "put"
        BY <3>1 DEF IInv, TypeOK, Observations
      <3> QED
        BY <1>4, <2>1, <3>2, HandKeeps
    <2>2. CASE o # ob.obj
      <3>1. o \in LatestRefs
        BY <1>1, <1>2, <1>4, <2>2 DEF LatestRefs, IInv, TypeOK
      <3> QED
        BY <1>4, <3>1 DEF Reflects
    <2> QED
      BY <2>1, <2>2
  <1> QED
    BY <1>2, <1>4 DEF Reflects, Died, Holds

LEMMA ObservationKeeps ==
  ASSUME IInv, LifeInv, OrderInv, PutObservation, NEW r \in 0..rv, Reflects(r)
  PROVE  Reflects(r)'
  <1>1. PICK ob \in todo :
        /\ row' = [row EXCEPT ![ob.obj] = IF ob.op = "del" THEN "deleted" ELSE "live"]
        /\ latest' = [latest EXCEPT ![ob.obj] = [op |-> ob.op, rv |-> ob.rv]]
        /\ log' = log
    BY DEF PutObservation, server, IInv, WorkIsTruthful
  <1>2. ob.obj \in Objects /\ ob.op \in {"put", "del"} /\ ob.rv \in Nat /\ Newer(ob)
    BY DEF IInv, TypeOK, Observations, OrderInv, WorkIsNewer
  <1>3. /\ row'[ob.obj] = (IF ob.op = "del" THEN "deleted" ELSE "live")
        /\ latest'[ob.obj].op = ob.op /\ latest'[ob.obj].rv = ob.rv
        /\ \A o \in Objects : o # ob.obj => row'[o] = row[o] /\ latest'[o] = latest[o]
    BY <1>1, <1>2 DEF IInv, TypeOK
  <1>4. ASSUME NEW o \in Objects, Died(o, r), o \in LatestRefs'
        PROVE  FALSE
    <2>1. CASE o = ob.obj
      <3>1. ob.op = "put"
        BY <1>2, <1>3, <1>4, <2>1 DEF LatestRefs
      <3> QED
        BY <1>4, <2>1, <3>1, HandKeeps
    <2>2. CASE o # ob.obj
      <3>1. o \in LatestRefs
        BY <1>3, <1>4, <2>2 DEF LatestRefs
      <3> QED
        BY <1>4, <3>1 DEF Reflects
    <2> QED
      BY <2>1, <2>2
  <1>5. ASSUME NEW o \in Objects, NEW i \in 1..r, Holds(o, i, r)
        PROVE  latest'[o].op # "none" /\ latest'[o].rv >= i
    <2>1. latest[o].op # "none" /\ latest[o].rv >= i
      BY <1>5 DEF Reflects
    <2>2. latest[o].rv \in Nat /\ i \in Nat
      BY DEF IInv, TypeOK, Versions
    <2>3. CASE o = ob.obj
      <3>1. ob.rv >= latest[o].rv
        BY <1>2, <2>2, <2>3 DEF Newer
      <3> QED
        BY <1>2, <1>3, <2>1, <2>2, <2>3, <3>1
    <2>4. CASE o # ob.obj
      BY <1>3, <2>1, <2>4
    <2> QED
      BY <2>3, <2>4
  <1> QED
    BY <1>1, <1>4, <1>5 DEF Reflects, Died, Holds

\* While something is in hand, what is recorded is a version already seen.
LEMMA RecordedIsSeen ==
  ASSUME IInv, DurableInv, pc \in {"ingest", "put", "commit", "wait", "announce", "top", "mark"}
  PROVE  /\ offset.rv \in 0..rv /\ base \in 0..rv
         /\ rv \in Nat /\ (job = "stream" \/ rv # NoVersion)
  <1>1. rv \in Nat /\ base \in Nat /\ offset.rv \in Nat
    BY DEF IInv, TypeOK
  <1>2. job = "stream" \/ rv # NoVersion
    BY DEF IInv, ListComesFirst
  <1> QED
    BY <1>1, <1>2 DEF DurableInv, OffsetIsSeen

LEMMA PutDurable ==
  ASSUME IInv, LifeInv, OrderInv, DurableInv, PutRawLatest \/ PutObservation
  PROVE  DurableInv'
  <1>1. /\ pc \in {"ingest", "put"} /\ pc' \in {"ingest", "put"}
        /\ UNCHANGED <<log, job, rv, base, offset>>
    BY DEF PutRawLatest, PutObservation, server, loop
  <1>2. offset.rv \in 0..rv /\ base \in 0..rv
    BY <1>1, RecordedIsSeen
  <1>3. \A r \in 0..rv : Reflects(r) => Reflects(r)'
    BY RawKeeps, ObservationKeeps
  <1>4. \A r \in {offset.rv, base} : Reflects(r)'
    BY <1>2, <1>3 DEF DurableInv
  <1>5. NothingMissed'
    BY RawShows, ObservationShows DEF DurableInv
  <1>6. OffsetIsSeen' /\ RefreshIsFresh'
    BY <1>1 DEF DurableInv, OffsetIsSeen, RefreshIsFresh
  <1> QED
    BY <1>1, <1>4, <1>5, <1>6 DEF DurableInv

\* A list, an event or a bookmark moves the version seen forward.
LEMMA SeenDurable ==
  ASSUME IInv, LifeInv, DurableInv, ListResource \/ DeliverEvent \/ DeliverBookmark
  PROVE  DurableInv'
  <1>1. /\ pc \in {"list", "wait"} /\ pc' \in {"ingest", "mark"}
        /\ UNCHANGED <<log, job, base, row, latest, offset>>
    BY DEF ListResource, DeliverEvent, DeliverBookmark, server, loop, store
  <1>2. /\ rv \in Nat /\ base \in Nat /\ offset.rv \in Nat /\ Len(log) \in Nat
        /\ base <= Len(log) /\ rv <= Len(log)
    BY DEF IInv, TypeOK, SeenIsLogged
  <1>3. \A r : Reflects(r)' <=> Reflects(r)
    BY <1>1 DEF Reflects, LatestRefs, Died, Holds
  <1>4. NothingMissed'
    BY ListShows, DeliverShows, BookmarkShows DEF DurableInv
  <1>5. offset.rv <= rv' /\ base <= rv'
    <2>1. CASE ListResource
      <3>1. PICK r \in Snapshots(listRV) : rv' = r
        BY <2>1 DEF ListResource
      <3>2. CASE listRV = NoVersion
        BY <1>2, <3>1, <3>2 DEF Snapshots, DurableInv, OffsetIsSeen
      <3>3. CASE listRV # NoVersion
        <4>1. listRV = rv
          BY <2>1, <3>3 DEF ListResource, IInv, AsksForLastSeen
        <4>2. rv' \in Nat /\ rv' >= rv
          BY <1>2, <3>1, <3>3, <4>1 DEF Snapshots
        <4> QED
          BY <1>2, <3>3, <4>1, <4>2 DEF DurableInv, OffsetIsSeen
      <3> QED
        BY <3>2, <3>3
    <2>2. CASE DeliverEvent
      <3>1. rv' \in (rv + 1)..Len(log)
        BY <2>2 DEF DeliverEvent, Pending, IInv, StreamFollows
      <3>2. offset.rv \in 0..rv /\ base \in 0..rv
        BY <2>2, RecordedIsSeen DEF DeliverEvent
      <3> QED
        BY <1>2, <3>1, <3>2
    <2>3. CASE DeliverBookmark
      BY <1>2, <2>3 DEF DeliverBookmark, DurableInv, OffsetIsSeen
    <2> QED
      BY <2>1, <2>2, <2>3
  <1>6. OffsetIsSeen' /\ RefreshIsFresh'
    BY <1>1, <1>5 DEF DurableInv, OffsetIsSeen, RefreshIsFresh
  <1> QED
    BY <1>1, <1>3, <1>4, <1>6 DEF DurableInv

\* Without errors of the store nothing fails with something in hand.
LEMMA FailDurable ==
  ASSUME IInv, OrderInv, DurableInv, "store" \notin Faults,
         NEW kind, Fail(kind), pc \in {"refs", "list", "open", "wait"}
  PROVE  DurableInv'
  <1>1. UNCHANGED <<log, rv, row, latest, job>> /\ todo = {} /\ todo' = {}
    BY DEF Fail, Abandon, server, FailSingle, FailList, FailStream, StreamReturns, StreamDies,
       IInv, WorkIsOver
  <1>2. rv \in Nat /\ base \in Nat /\ offset.rv \in Nat /\ Len(log) \in Nat /\ rv <= Len(log)
    BY DEF IInv, TypeOK, SeenIsLogged
  <1>3. job = "refresh" => pc \in {"refs", "list"} /\ rv = NoVersion
    BY DEF OrderInv, PoolIsPool, DurableInv, RefreshIsFresh
  <1>4. \A version, status :
          RecordOffset(version, status) => offset' = [rv |-> version, status |-> status]
    BY DEF RecordOffset, Failing
  <1>5. /\ offset'.rv \in {offset.rv, rv} /\ base' \in {base, rv}
        /\ \/ pc' \in {"dead", "backoff"} /\ (base' = base \/ job = "stream")
           \/ pc' = "requeue" /\ job = "refresh" /\ base' = base /\ offset'.rv = rv
           \/ /\ pc' = "acquire" /\ job = "stream" /\ offset' = offset
              /\ base' = IF rv = NoVersion THEN base ELSE rv
    <2>1. CASE FailSingle(kind)
      BY <1>4, <2>1 DEF FailSingle
    <2>2. CASE FailList(kind)
      BY <1>4, <2>2 DEF FailList
    <2>3. CASE FailStream(kind)
      BY <1>4, <2>3 DEF FailStream, StreamReturns, StreamDies
    <2> QED
      BY <2>1, <2>2, <2>3 DEF Fail
  <1>6. OffsetIsSeen'
    BY <1>1, <1>2, <1>3, <1>5 DEF DurableInv, OffsetIsSeen, NoVersion
  <1>7. RefreshIsFresh'
    BY <1>1, <1>3 DEF RefreshIsFresh
  <1> QED
    BY <1>1, <1>5, <1>6, <1>7, ControlDurable

LEMMA DurableStep ==
  ASSUME IInv, LifeInv, OrderInv, DurableInv, "store" \notin Faults, [Next]_vars
  PROVE  DurableInv'
  <1> USE DEF server, list, loop, store
  <1>1. ASSUME NEW o \in Objects, ServerPut(o) \/ ServerDelete(o) PROVE DurableInv'
    <2>1. Put(o) \in Writes /\ Del(o) \in Writes
      BY DEF Put, Del, Writes
    <2> QED
      BY <1>1, <2>1, HappensDurable DEF ServerPut, ServerDelete
  <1>2. CASE ServerElsewhere
    <2>1. Elsewhere \in Writes
      BY DEF Writes
    <2> QED
      BY <1>2, <2>1, HappensDurable DEF ServerElsewhere
  <1>3. ASSUME NEW kind, Fail(kind), pc \in {"refs", "list", "open", "wait"} PROVE DurableInv'
    BY <1>3, FailDurable
  <1>4. CASE ListResource \/ DeliverEvent \/ DeliverBookmark
    BY <1>4, SeenDurable
  <1>5. CASE PutRawLatest \/ PutObservation
    BY <1>5, PutDurable
  <1>6. CASE Compact \/ Heal \/ UNCHANGED vars
    <2>1. UNCHANGED <<log, pc, job, rv, base, todo, row, latest, offset>>
      BY <1>6 DEF Compact, Heal, vars
    <2> QED
      BY <2>1 DEF DurableInv, OffsetIsSeen, RefreshIsFresh, NothingMissed, Shown, Reflects,
         LatestRefs, Died, Holds
  <1>7. CASE Crash
    <2>1. /\ UNCHANGED <<log, row, latest, offset>>
          /\ pc' = "refs" /\ job' \in {"single", "initial"} /\ rv' = NoVersion /\ base' = NoVersion
      BY <1>7 DEF Crash, FirstJobs
    <2>2. OffsetIsSeen' /\ RefreshIsFresh'
      BY <2>1 DEF DurableInv, OffsetIsSeen, RefreshIsFresh
    <2>3. \A r : Reflects(r)' <=> Reflects(r)
      BY <2>1 DEF Reflects, LatestRefs, Died, Holds
    <2>4. \A r \in {offset.rv, base'} : Reflects(r)'
      BY <2>1, <2>3, NothingToReflect DEF DurableInv
    <2>5. NothingMissed'
      BY <2>1 DEF NothingMissed, Shown, Died, NoVersion
    <2> QED
      BY <2>1, <2>2, <2>4, <2>5 DEF DurableInv
  <1> DEFINE Rest ==
        \/ Deadline \/ BackOff \/ Wake \/ ReadRefs \/ Ingested \/ CommitList \/ Requeue \/ Queue
        \/ StartStream \/ RefreshQueued \/ OpenWatch \/ Announce \/ LoopTop \/ CommitEvent
        \/ CommitBookmark
  <1>8. CASE Rest
    <2>1. UNCHANGED <<log, row, latest>> /\ todo = {}
      BY <1>8 DEF Deadline, BackOff, StreamDies, Wake, ReadRefs, Ingested, CommitList, Requeue, Queue,
         StartStream, RefreshQueued, OpenWatch, Announce, LoopTop, StreamReturns, CommitEvent,
         CommitBookmark, IInv, WorkIsOver
    <2>2. rv \in Nat /\ base \in Nat /\ offset.rv \in Nat /\ Len(log) \in Nat
          /\ rv <= Len(log) /\ base <= Len(log)
      BY DEF IInv, TypeOK, SeenIsLogged
    <2>3. \A version, status :
            RecordOffset(version, status) => offset' = [rv |-> version, status |-> status]
      BY DEF RecordOffset, Failing
    <2> DEFINE Good ==
          /\ offset'.rv \in {offset.rv, base, rv} /\ base' \in {base, rv}
          /\ rv' \in {rv, base, NoVersion}
          /\ OffsetIsSeen' /\ RefreshIsFresh'
    <2>4. Good
      <3> USE DEF DurableInv, OffsetIsSeen, RefreshIsFresh
      <3>1. CASE Deadline
        BY <2>2, <2>3, <3>1 DEF Deadline
      <3>2. CASE BackOff
        BY <2>2, <2>3, <3>2 DEF BackOff, StreamDies, NoVersion
      <3>3. CASE Wake \/ ReadRefs \/ Ingested
        BY <2>2, <2>3, <3>3 DEF Wake, ReadRefs, Ingested
      <3>4. CASE CommitList
        BY <2>2, <2>3, <3>4 DEF CommitList
      <3>5. CASE Requeue \/ Queue
        BY <2>2, <2>3, <3>5 DEF Requeue, Queue
      <3>6. CASE StartStream
        BY <2>2, <2>3, <3>6 DEF StartStream
      <3>7. CASE RefreshQueued
        BY <2>2, <2>3, <3>7 DEF RefreshQueued
      <3>8. CASE OpenWatch \/ Announce
        BY <2>2, <2>3, <3>8 DEF OpenWatch, Announce
      <3>9. CASE LoopTop
        <4>1. job = "stream" \/ rv # NoVersion
          BY <3>9 DEF LoopTop, IInv, ListComesFirst
        <4> QED
          BY <2>2, <3>9, <4>1 DEF LoopTop, StreamReturns, NoVersion
      <3>10. CASE CommitEvent \/ CommitBookmark
        BY <2>2, <2>3, <3>10 DEF CommitEvent, CommitBookmark
      <3> QED
        BY <1>8, <3>1, <3>2, <3>3, <3>4, <3>5, <3>6, <3>7, <3>8, <3>9, <3>10
    <2> QED
      BY <2>1, <2>4, ControlDurable
  <1> QED
    BY <1>1, <1>2, <1>3, <1>4, <1>5, <1>6, <1>7, <1>8
    DEF Next, Environment, Worker, ReadRefsFails, ListFails, OpenWatchFails, StreamBreaks,
        StreamTimesOut, StoreFails, Failing

\* Where the calls of the store succeed, the persisted offset never runs ahead of
\* the evidence: whatever else fails, is retried, refreshed or restarted, a process
\* that resumed from it would miss nothing.
THEOREM OffsetStaysDurable ==
  ASSUME "store" \notin Faults
  PROVE  Spec => []OffsetIsDurable
  <1>1. Init => IInv /\ LifeInv /\ OrderInv /\ DurableInv
    BY InitIInv, InitLife, InitOrder, InitDurable
  <1>2. IInv /\ LifeInv /\ OrderInv /\ DurableInv /\ [Next]_vars
          => (IInv /\ LifeInv /\ OrderInv /\ DurableInv)'
    BY NextIInv, LifeStep, OrderStep, DurableStep
  <1>3. DurableInv => OffsetIsDurable
    BY DEF DurableInv, OffsetIsDurable
  <1> QED
    BY <1>1, <1>2, <1>3, PTL DEF Spec

--------------------------------------------------------------------------------
(***************************************************************************)
(* StreamScheduler, for any number of workers and slots, any priorities    *)
(* and any sharing of keys: types, the accounting of the slots, and that   *)
(* no request outlives its workers.                                        *)
(***************************************************************************)

\* The inductive invariant.

Queueing == {"try", "waiting", "refreshing"}

\* The table is a map: a key has one request.
RequestsAreUnique ==
  \A i, j \in DOMAIN requests : requests[i] = requests[j] => i = j

\* A worker that owns the request under its key is in the queue, and the request
\* is there.
OwnRequest ==
  \A w \in Workers : mine[w] => stage[w] \in Queueing /\ KeyOf[w] \in ToSet(requests)

\* Every request has a worker that owns it.  Without this, the leaving of a
\* worker that owns nothing could leave a request behind.
RequestsAreOwned ==
  \A k \in ToSet(requests) : \E w \in Workers : KeyOf[w] = k /\ mine[w]

Table == RequestsAreUnique /\ OwnRequest /\ RequestsAreOwned

QueueInv == SchedulerTypeOK /\ SlotsAreAccounted /\ Table

--------------------------------------------------------------------------------
\* The table as a sequence.

\* RemoveAt closes the gap.
LEMMA RemoveAtElements ==
  ASSUME NEW S, NEW s \in Seq(S), NEW i \in DOMAIN s
  PROVE  /\ RemoveAt(s, i) \in Seq(S)
         /\ Len(RemoveAt(s, i)) = Len(s) - 1
         /\ \A j \in 1..(Len(s) - 1) :
              RemoveAt(s, i)[j] = IF j < i THEN s[j] ELSE s[j + 1]
<1> DEFINE a == SubSeq(s, 1, i - 1)
           b == SubSeq(s, i + 1, Len(s))
<1>1. Len(s) \in Nat /\ i \in 1..Len(s) /\ DOMAIN s = 1..Len(s)
  BY LenProperties
<1>2. \A j \in 1..Len(s) : s[j] \in S
  BY ElementOfSeq
<1>3. /\ a \in Seq(S) /\ Len(a) = i - 1
      /\ \A j \in 1..(i - 1) : a[j] = s[j]
  <2>1. \A j \in 1..(i - 1) : s[j] \in S
    BY <1>1, <1>2
  <2>2. i - 1 \in Int
    BY <1>1
  <2>3. /\ a \in Seq(S) /\ Len(a) = IF 1 <= i - 1 THEN i - 1 - 1 + 1 ELSE 0
        /\ \A j \in 1..(i - 1 - 1 + 1) : a[j] = s[1 + j - 1]
    BY <2>1, <2>2, SubSeqProperties
  <2> QED BY <1>1, <2>3
<1>4. /\ b \in Seq(S) /\ Len(b) = Len(s) - i
      /\ \A j \in 1..(Len(s) - i) : b[j] = s[i + j]
  <2>1. \A j \in (i + 1)..Len(s) : s[j] \in S
    BY <1>1, <1>2
  <2>2. i + 1 \in Int /\ Len(s) \in Int
    BY <1>1
  <2>3. /\ b \in Seq(S) /\ Len(b) = IF i + 1 <= Len(s) THEN Len(s) - (i + 1) + 1 ELSE 0
        /\ \A j \in 1..(Len(s) - (i + 1) + 1) : b[j] = s[(i + 1) + j - 1]
    BY <2>1, <2>2, SubSeqProperties
  <2> QED BY <1>1, <2>3
<1>5. /\ a \o b \in Seq(S) /\ Len(a \o b) = Len(a) + Len(b)
      /\ \A j \in 1..(Len(a) + Len(b)) :
           (a \o b)[j] = IF j <= Len(a) THEN a[j] ELSE b[j - Len(a)]
  BY <1>3, <1>4, ConcatProperties
<1>6. RemoveAt(s, i) = a \o b
  BY DEF RemoveAt
<1> HIDE DEF a, b
<1>7. Len(a) + Len(b) = Len(s) - 1
  BY <1>1, <1>3, <1>4
<1>8. ASSUME NEW j \in 1..(Len(s) - 1), j < i PROVE (a \o b)[j] = s[j]
  <2>1. j <= Len(a) /\ j \in 1..(i - 1) /\ j \in 1..(Len(a) + Len(b))
    BY <1>1, <1>3, <1>7, <1>8
  <2> QED BY <2>1, <1>3, <1>5
<1>9. ASSUME NEW j \in 1..(Len(s) - 1), ~(j < i) PROVE (a \o b)[j] = s[j + 1]
  <2>1. /\ ~(j <= Len(a)) /\ j \in 1..(Len(a) + Len(b))
        /\ j - Len(a) \in 1..(Len(s) - i) /\ i + (j - Len(a)) = j + 1
    BY <1>1, <1>3, <1>7, <1>9
  <2>2. (a \o b)[j] = b[j - Len(a)]
    BY <2>1, <1>5
  <2>3. b[j - Len(a)] = s[i + (j - Len(a))]
    BY <2>1, <1>4
  <2> QED BY <2>1, <2>2, <2>3
<1> QED BY <1>5, <1>6, <1>7, <1>8, <1>9

\* Drop takes the request of its key, and only that one, out of the table.
LEMMA DropRemoves ==
  ASSUME requests \in Seq(Keys), RequestsAreUnique, NEW k, Drop(k)
  PROVE  /\ requests' \in Seq(Keys)
         /\ RequestsAreUnique'
         /\ ToSet(requests') = ToSet(requests) \ {k}
<1>1. PICK i \in DOMAIN requests : requests[i] = k /\ requests' = RemoveAt(requests, i)
  BY DEF Drop
<1>2. Len(requests) \in Nat /\ DOMAIN requests = 1..Len(requests)
  BY LenProperties
<1>3. /\ requests' \in Seq(Keys) /\ Len(requests') = Len(requests) - 1
      /\ \A j \in 1..(Len(requests) - 1) :
           requests'[j] = IF j < i THEN requests[j] ELSE requests[j + 1]
  BY <1>1, RemoveAtElements
<1>4. DOMAIN requests' = 1..(Len(requests) - 1)
  BY <1>3, LenProperties
<1>5. RequestsAreUnique'
  <2> DEFINE origin(j) == IF j < i THEN j ELSE j + 1
  <2>1. ASSUME NEW j \in DOMAIN requests'
        PROVE  origin(j) \in DOMAIN requests /\ requests'[j] = requests[origin(j)]
    BY <1>1, <1>2, <1>3, <1>4
  <2>2. ASSUME NEW j \in DOMAIN requests', NEW l \in DOMAIN requests',
               requests'[j] = requests'[l]
        PROVE  j = l
    <3>1. origin(j) = origin(l)
      BY <2>1, <2>2 DEF RequestsAreUnique
    <3>2. j \in Int /\ l \in Int /\ i \in Int
      BY <1>2, <1>4
    <3> QED BY <3>1, <3>2
  <2> QED BY <2>2 DEF RequestsAreUnique
<1>6. ASSUME NEW x \in ToSet(requests') PROVE x \in ToSet(requests) \ {k}
  BY <1>1, <1>2, <1>3, <1>4 DEF RequestsAreUnique, ToSet
<1>7. ASSUME NEW x \in ToSet(requests), x # k PROVE x \in ToSet(requests')
  <2>1. PICK j \in DOMAIN requests : requests[j] = x
    BY DEF ToSet
  <2>2. CASE j < i
    BY <1>2, <1>1, <1>3, <1>4, <2>1, <2>2 DEF ToSet
  <2>3. CASE j > i
    <3>1. j - 1 \in 1..(Len(requests) - 1) /\ requests'[j - 1] = x
      BY <1>2, <1>1, <1>3, <2>1, <2>3
    <3> QED BY <3>1, <1>4 DEF ToSet
  <2> QED BY <1>1, <1>2, <1>7, <2>1, <2>2, <2>3
<1> QED BY <1>3, <1>5, <1>6, <1>7

\* A new request goes to the end of the table.
LEMMA AppendAdds ==
  ASSUME requests \in Seq(Keys), RequestsAreUnique,
         NEW k \in Keys, k \notin ToSet(requests), requests' = Append(requests, k)
  PROVE  /\ requests' \in Seq(Keys)
         /\ RequestsAreUnique'
         /\ ToSet(requests') = ToSet(requests) \cup {k}
<1>1. Len(requests) \in Nat /\ DOMAIN requests = 1..Len(requests)
  BY LenProperties
<1>2. /\ requests' \in Seq(Keys) /\ DOMAIN requests' = 1..(Len(requests) + 1)
      /\ \A j \in 1..Len(requests) : requests'[j] = requests[j]
      /\ requests'[Len(requests) + 1] = k
  BY <1>1
<1>3. RequestsAreUnique'
  <2>1. ASSUME NEW i \in DOMAIN requests', NEW j \in DOMAIN requests',
               requests'[i] = requests'[j]
        PROVE  i = j
    BY <1>1, <1>2, <2>1 DEF RequestsAreUnique, ToSet
  <2> QED BY <2>1 DEF RequestsAreUnique
<1>4. ToSet(requests') = ToSet(requests) \cup {k}
  <2>1. ASSUME NEW x \in ToSet(requests') PROVE x \in ToSet(requests) \cup {k}
    BY <1>1, <1>2 DEF ToSet
  <2>2. ASSUME NEW x \in ToSet(requests) \cup {k} PROVE x \in ToSet(requests')
    BY <1>1, <1>2 DEF ToSet
  <2> QED BY <2>1, <2>2
<1> QED BY <1>2, <1>3, <1>4

--------------------------------------------------------------------------------
\* The open streams.

\* There are finitely many.
LEMMA StreamsAreFinite == IsFiniteSet(Streams) /\ Cardinality(Streams) \in Nat
<1>1. Streams \in SUBSET Workers
  BY DEF Streams
<1> QED BY <1>1, SchedulerAssumption, FS_Subset, FS_CardinalityType

\* A worker that neither opens nor ends a stream leaves them alone.
LEMMA StreamsStay ==
  ASSUME stage \in [Workers -> Stages], NEW w \in Workers, NEW q,
         stage' = [stage EXCEPT ![w] = q], stage[w] # "streaming", q # "streaming"
  PROVE  Streams' = Streams
BY DEF Streams

\* A worker opens a stream.
LEMMA StreamOpens ==
  ASSUME stage \in [Workers -> Stages], NEW w \in Workers,
         stage' = [stage EXCEPT ![w] = "streaming"], stage[w] # "streaming"
  PROVE  Cardinality(Streams') = Cardinality(Streams) + 1
<1>1. Streams' = Streams \cup {w} /\ w \notin Streams
  BY DEF Streams
<1> QED BY <1>1, StreamsAreFinite, FS_AddElement

\* A worker ends its stream.
LEMMA StreamEnds ==
  ASSUME stage \in [Workers -> Stages], NEW w \in Workers, NEW q,
         stage' = [stage EXCEPT ![w] = q], stage[w] = "streaming", q # "streaming"
  PROVE  Cardinality(Streams') = Cardinality(Streams) - 1 /\ Cardinality(Streams) > 0
<1>1. Streams' = Streams \ {w} /\ w \in Streams
  BY DEF Streams
<1>2. Cardinality(Streams) # 0
  BY <1>1, StreamsAreFinite, FS_EmptySet
<1>3. Cardinality(Streams \ {w}) = Cardinality(Streams) - 1
  BY <1>1, StreamsAreFinite, FS_RemoveElement
<1> HIDE DEF Streams
<1> QED BY <1>1, <1>2, <1>3, StreamsAreFinite

--------------------------------------------------------------------------------
\* The signals of a score stay within their caps.

\* AtMost is the cap.
LEMMA AtMostBounds ==
  ASSUME NEW bound \in Nat, NEW n \in Nat
  PROVE  AtMost(bound, n) \in 0..bound
BY DEF AtMost

--------------------------------------------------------------------------------
\* One lemma per way a step changes the table.

\* A step that leaves the table alone keeps it sound if the worker that moves
\* stays in the queue or owned nothing.
LEMMA TableStays ==
  ASSUME QueueInv, NEW w \in Workers, NEW q, stage' = [stage EXCEPT ![w] = q],
         q \in Queueing \/ stage[w] \notin Queueing,
         UNCHANGED <<requests, mine>>
  PROVE  Table'
<1> USE DEF QueueInv, SchedulerTypeOK, Table
<1>1. RequestsAreUnique'
  BY DEF RequestsAreUnique
<1>2. OwnRequest'
  BY DEF OwnRequest
<1>3. RequestsAreOwned'
  BY DEF RequestsAreOwned
<1> QED BY <1>1, <1>2, <1>3

\* A step that drops the request of the worker that moves keeps the table sound:
\* whoever owned it owns nothing now.
LEMMA TableDrops ==
  ASSUME QueueInv, NEW w \in Workers, NEW q, stage' = [stage EXCEPT ![w] = q], Drop(KeyOf[w])
  PROVE  /\ requests' \in Seq(Keys) /\ queuedFor' \in [Keys -> 0..4]
         /\ mine' \in [Workers -> BOOLEAN] /\ Table'
<1>1. /\ requests' \in Seq(Keys) /\ RequestsAreUnique'
      /\ ToSet(requests') = ToSet(requests) \ {KeyOf[w]}
  BY DropRemoves DEF QueueInv, SchedulerTypeOK, Table
<1>2. mine' = [v \in Workers |-> mine[v] /\ KeyOf[v] # KeyOf[w]]
  BY DEF Drop
<1>3. mine' \in [Workers -> BOOLEAN]
  BY <1>2
<1>4. OwnRequest'
  <2> SUFFICES ASSUME NEW v \in Workers, mine'[v]
               PROVE  stage'[v] \in Queueing /\ KeyOf[v] \in ToSet(requests')
    BY DEF OwnRequest
  <2>1. mine[v] /\ KeyOf[v] # KeyOf[w]
    BY <1>2
  <2>2. stage[v] \in Queueing /\ KeyOf[v] \in ToSet(requests)
    BY <2>1 DEF QueueInv, Table, OwnRequest
  <2>3. stage'[v] = stage[v]
    BY <2>1 DEF QueueInv, SchedulerTypeOK
  <2> QED BY <1>1, <2>1, <2>2, <2>3
<1>5. RequestsAreOwned'
  <2> SUFFICES ASSUME NEW k \in ToSet(requests')
               PROVE  \E v \in Workers : KeyOf[v] = k /\ mine'[v]
    BY DEF RequestsAreOwned
  <2>1. PICK v \in Workers : KeyOf[v] = k /\ mine[v]
    BY <1>1 DEF QueueInv, Table, RequestsAreOwned
  <2> QED BY <1>1, <1>2, <2>1
<1>6. queuedFor' \in [Keys -> 0..4]
  BY DEF Drop, QueueInv, SchedulerTypeOK
<1> QED BY <1>1, <1>3, <1>4, <1>5, <1>6 DEF Table

\* A worker joins the request of its key or makes a new one; either way it owns it.
LEMMA TableGrows ==
  ASSUME QueueInv, NEW w \in Workers, Register(w)
  PROVE  requests' \in Seq(Keys) /\ Table'
<1>1. /\ mine' = [mine EXCEPT ![w] = TRUE] /\ stage' = [stage EXCEPT ![w] = "try"]
      /\ KeyOf[w] \in Keys
  BY SchedulerAssumption DEF Register
<1>2. /\ requests' \in Seq(Keys) /\ RequestsAreUnique'
      /\ ToSet(requests') = ToSet(requests) \cup {KeyOf[w]}
  <2>1. CASE KeyOf[w] \in ToSet(requests)
    BY <2>1 DEF Register, QueueInv, SchedulerTypeOK, Table, RequestsAreUnique
  <2>2. CASE KeyOf[w] \notin ToSet(requests)
    BY <1>1, <2>2, AppendAdds DEF Register, QueueInv, SchedulerTypeOK, Table
  <2> QED BY <2>1, <2>2
<1>3. OwnRequest'
  BY <1>1, <1>2 DEF OwnRequest, Queueing, QueueInv, Table, SchedulerTypeOK
<1>4. RequestsAreOwned'
  BY <1>1, <1>2 DEF RequestsAreOwned, QueueInv, Table, SchedulerTypeOK
<1> QED BY <1>2, <1>3, <1>4 DEF Table

--------------------------------------------------------------------------------
\* The invariant holds at the start.
LEMMA InitQueueInv == SchedulerInit => QueueInv
<1> SUFFICES ASSUME SchedulerInit PROVE QueueInv
  OBVIOUS
<1> USE SchedulerAssumption DEF SchedulerInit
<1>1. SchedulerTypeOK
  <2>1. stage \in [Workers -> Stages]
    BY DEF Stages
  <2>2. active \in 0..Limit /\ requests \in Seq(Keys) /\ queuedFor \in [Keys -> 0..4]
    OBVIOUS
  <2>3. /\ mine \in [Workers -> BOOLEAN] /\ busy \in [Workers -> 0..50]
        /\ trouble \in [Workers -> 0..80]
    OBVIOUS
  <2>4. cost \in [Workers -> Nat]
    <3>1. UNION {Costs[w] : w \in Workers} \subseteq Nat
      OBVIOUS
    <3> QED BY <3>1
  <2> QED BY <2>1, <2>2, <2>3, <2>4 DEF SchedulerTypeOK
<1>2. SlotsAreAccounted
  <2>1. Streams = {}
    BY DEF Streams
  <2> QED BY <2>1, FS_EmptySet DEF SlotsAreAccounted
<1>3. Table
  <2>1. DOMAIN requests = {} /\ ToSet(requests) = {}
    BY DEF ToSet
  <2> QED BY <2>1 DEF Table, RequestsAreUnique, OwnRequest, RequestsAreOwned
<1> QED BY <1>1, <1>2, <1>3 DEF QueueInv

\* A step in which a worker changes no slot and no signal.
LEMMA QuietStep ==
  ASSUME QueueInv, NEW w \in Workers, NEW q \in Stages \ {"streaming"},
         stage' = [stage EXCEPT ![w] = q], stage[w] # "streaming",
         UNCHANGED <<canceled, active, signals>>,
         requests' \in Seq(Keys), queuedFor' \in [Keys -> 0..4],
         mine' \in [Workers -> BOOLEAN], Table'
  PROVE  QueueInv'
<1>1. SchedulerTypeOK'
  BY DEF QueueInv, SchedulerTypeOK, signals
<1>2. SlotsAreAccounted'
  BY StreamsStay DEF QueueInv, SchedulerTypeOK, SlotsAreAccounted
<1> QED BY <1>1, <1>2 DEF QueueInv

\* A worker takes a slot, at once or from the queue.
LEMMA TakeStep ==
  ASSUME QueueInv, NEW w \in Workers, Take(w), stage[w] # "streaming"
  PROVE  QueueInv'
<1>1. /\ stage' = [stage EXCEPT ![w] = "streaming"] /\ active' = active + 1 /\ active < Limit
      /\ Drop(KeyOf[w]) /\ UNCHANGED <<canceled, busy, trouble, cost>>
  BY DEF Take, MayTake, signals
<1>2. /\ requests' \in Seq(Keys) /\ mine' \in [Workers -> BOOLEAN] /\ Table'
      /\ queuedFor' \in [Keys -> 0..4]
  BY <1>1, TableDrops
<1>3. active' = Cardinality(Streams')
  BY <1>1, StreamOpens DEF QueueInv, SchedulerTypeOK, SlotsAreAccounted
<1>4. active' \in 0..Limit
  BY <1>1, SchedulerAssumption DEF QueueInv, SchedulerTypeOK
<1>5. stage' \in [Workers -> Stages]
  BY <1>1 DEF QueueInv, SchedulerTypeOK, Stages
<1>6. SchedulerTypeOK'
  BY <1>1, <1>2, <1>4, <1>5 DEF QueueInv, SchedulerTypeOK
<1>7. SlotsAreAccounted'
  BY <1>3, <1>4 DEF SlotsAreAccounted
<1> QED BY <1>2, <1>6, <1>7 DEF QueueInv

\* A worker gives its slot back.
LEMMA ReleaseStep ==
  ASSUME QueueInv, NEW w \in Workers, Release(w)
  PROVE  QueueInv'
<1>1. /\ stage[w] = "streaming" /\ stage' = [stage EXCEPT ![w] = "merging"] /\ active' = active - 1
      /\ UNCHANGED <<canceled, requests, queuedFor, mine, busy, trouble, cost>>
  BY DEF Release, table, signals
<1>2. active' = Cardinality(Streams') /\ active > 0
  BY <1>1, StreamEnds DEF QueueInv, SchedulerTypeOK, SlotsAreAccounted
<1>3. active' \in 0..Limit
  BY <1>1, <1>2, SchedulerAssumption DEF QueueInv, SchedulerTypeOK
<1>4. stage' \in [Workers -> Stages]
  BY <1>1 DEF QueueInv, SchedulerTypeOK, Stages
<1>5. SchedulerTypeOK'
  BY <1>1, <1>3, <1>4 DEF QueueInv, SchedulerTypeOK
<1>6. SlotsAreAccounted'
  BY <1>2, <1>3 DEF SlotsAreAccounted
<1>7. Table'
  BY <1>1, TableStays DEF Queueing
<1> QED BY <1>5, <1>6, <1>7 DEF QueueInv

\* The summary of a stream, or of a refresh, is merged.
LEMMA MergeStep ==
  ASSUME QueueInv, NEW w \in Workers, Merge(w) \/ EndRefresh(w)
  PROVE  QueueInv'
<1>1. /\ busy' \in [Workers -> 0..50] /\ trouble' \in [Workers -> 0..80]
      /\ cost' \in [Workers -> Nat]
  <2>1. CASE Merge(w)
    <3>1. PICK g \in Gains[w], l \in Losses[w] :
            /\ busy' = [busy EXCEPT ![w] = AtMost(50, busy[w] + g)]
            /\ trouble' = [trouble EXCEPT ![w] = AtMost(80, trouble[w] + l)]
      BY <2>1 DEF Merge
    <3>2. AtMost(50, busy[w] + g) \in 0..50 /\ AtMost(80, trouble[w] + l) \in 0..80
      <4>1. g \in Nat /\ l \in Nat
        BY SchedulerAssumption
      <4>2. busy[w] \in 0..50 /\ trouble[w] \in 0..80
        BY DEF QueueInv, SchedulerTypeOK
      <4>3. busy[w] + g \in Nat /\ trouble[w] + l \in Nat
        BY <4>1, <4>2
      <4> QED BY <4>3, AtMostBounds
    <3>3. cost' = cost
      BY <2>1 DEF Merge
    <3> QED BY <3>1, <3>2, <3>3 DEF QueueInv, SchedulerTypeOK
  <2>2. CASE EndRefresh(w) /\ UNCHANGED signals
    BY <2>2 DEF QueueInv, SchedulerTypeOK, signals
  <2>3. CASE EndRefresh(w) /\ ~UNCHANGED signals
    <3>1. PICK c \in Costs[w], l \in Losses[w] :
            /\ cost' = [cost EXCEPT ![w] = c]
            /\ trouble' = [trouble EXCEPT ![w] = AtMost(80, trouble[w] + l)]
            /\ busy' = busy
      BY <2>3 DEF EndRefresh
    <3>2. AtMost(80, trouble[w] + l) \in 0..80 /\ c \in Nat
      <4>1. l \in Nat /\ c \in Nat
        BY SchedulerAssumption
      <4>2. trouble[w] \in 0..80
        BY DEF QueueInv, SchedulerTypeOK
      <4>3. trouble[w] + l \in Nat
        BY <4>1, <4>2
      <4> QED BY <4>1, <4>3, AtMostBounds
    <3> QED BY <3>1, <3>2 DEF QueueInv, SchedulerTypeOK
  <2> QED BY <2>1, <2>2, <2>3
<1>2. PICK q \in {"register", "done", "waiting"} :
        /\ stage' = [stage EXCEPT ![w] = q]
        /\ q \in Queueing \/ stage[w] \notin Queueing
        /\ stage[w] # "streaming"
        /\ UNCHANGED <<canceled, active, requests, queuedFor, mine>>
  BY DEF Merge, EndRefresh, Queueing, table
<1>3. SchedulerTypeOK'
  BY <1>1, <1>2 DEF QueueInv, SchedulerTypeOK, Stages
<1>4. SlotsAreAccounted'
  BY <1>2, StreamsStay DEF QueueInv, SchedulerTypeOK, SlotsAreAccounted
<1>5. Table'
  BY <1>2, TableStays
<1> QED BY <1>3, <1>4, <1>5 DEF QueueInv

\* Every step keeps the invariant.
LEMMA NextQueueInv == QueueInv /\ [SchedulerNext]_schedulerVars => QueueInv'
<1> SUFFICES ASSUME QueueInv, [SchedulerNext]_schedulerVars PROVE QueueInv'
  OBVIOUS
<1>1. CASE Tick \/ Cancel \/ UNCHANGED schedulerVars
  <2>1. UNCHANGED <<stage, active, requests, mine, busy, trouble, cost>>
    BY <1>1 DEF Tick, Cancel, schedulerVars, table, signals
  <2>2. canceled' \in BOOLEAN /\ queuedFor' \in [Keys -> 0..4]
    <3>1. CASE Tick
      <4>1. \A k \in Keys : AtMost(4, queuedFor[k] + Minutes) \in 0..4
        <5>1. Minutes \in Nat
          BY SchedulerAssumption
        <5>2. queuedFor \in [Keys -> 0..4]
          BY DEF QueueInv, SchedulerTypeOK
        <5>3. \A k \in Keys : queuedFor[k] + Minutes \in Nat
          BY <5>1, <5>2
        <5> QED BY <5>3, AtMostBounds
      <4> QED BY <3>1, <4>1 DEF Tick, QueueInv, SchedulerTypeOK
    <3>2. CASE Cancel \/ UNCHANGED schedulerVars
      BY <3>2 DEF Cancel, schedulerVars, table, QueueInv, SchedulerTypeOK
    <3> QED BY <1>1, <3>1, <3>2
  <2>3. SchedulerTypeOK'
    BY <2>1, <2>2 DEF QueueInv, SchedulerTypeOK
  <2>4. SlotsAreAccounted' /\ Table'
    BY <2>1 DEF QueueInv, SlotsAreAccounted, Streams, Table, RequestsAreUnique, OwnRequest,
                RequestsAreOwned
  <2> QED BY <2>3, <2>4 DEF QueueInv
<1>2. ASSUME NEW w \in Workers, Start(w) PROVE QueueInv'
  <2>1. PICK q \in {"register", "done"} :
          /\ stage[w] = "staggered" /\ stage' = [stage EXCEPT ![w] = q]
          /\ UNCHANGED <<canceled, active, requests, queuedFor, mine, signals>>
    BY <1>2 DEF Start, table
  <2>2. Table'
    BY <2>1, TableStays DEF Queueing
  <2> QED BY <2>1, <2>2, QuietStep DEF QueueInv, SchedulerTypeOK, Stages
<1>3. ASSUME NEW w \in Workers, Register(w) PROVE QueueInv'
  <2>1. /\ stage[w] = "register" /\ stage' = [stage EXCEPT ![w] = "try"]
        /\ mine' = [mine EXCEPT ![w] = TRUE]
        /\ UNCHANGED <<canceled, active, signals>>
    BY <1>3 DEF Register
  <2>2. requests' \in Seq(Keys) /\ Table'
    BY <1>3, TableGrows
  <2>3. queuedFor' \in [Keys -> 0..4]
    BY <1>3 DEF Register, QueueInv, SchedulerTypeOK
  <2>4. mine' \in [Workers -> BOOLEAN] /\ "try" \in Stages \ {"streaming"}
    BY <2>1 DEF QueueInv, SchedulerTypeOK, Stages
  <2> QED BY <2>1, <2>2, <2>3, <2>4, QuietStep
<1>4. ASSUME NEW w \in Workers, TryLater(w) \/ StartRefresh(w) PROVE QueueInv'
  <2>1. PICK q \in {"waiting", "refreshing"} :
          /\ stage[w] \in {"try", "waiting"} /\ stage' = [stage EXCEPT ![w] = q]
          /\ UNCHANGED <<canceled, active, requests, queuedFor, mine, signals>>
    BY <1>4 DEF TryLater, StartRefresh, table
  <2>2. Table'
    BY <2>1, TableStays DEF Queueing
  <2> QED BY <2>1, <2>2, QuietStep DEF QueueInv, SchedulerTypeOK, Stages
<1>5. ASSUME NEW w \in Workers, TryNow(w) \/ Poll(w) PROVE QueueInv'
  BY <1>5, TakeStep DEF TryNow, Poll
<1>6. ASSUME NEW w \in Workers, Unregister(w) PROVE QueueInv'
  <2>1. /\ stage[w] = "waiting" /\ stage' = [stage EXCEPT ![w] = "done"]
        /\ UNCHANGED <<canceled, active, signals>>
    BY <1>6 DEF Unregister
  <2>2. CASE mine[w]
    <3>1. Drop(KeyOf[w])
      BY <1>6, <2>2 DEF Unregister
    <3>2. /\ requests' \in Seq(Keys) /\ queuedFor' \in [Keys -> 0..4]
          /\ mine' \in [Workers -> BOOLEAN] /\ Table'
      BY <2>1, <3>1, TableDrops
    <3> QED BY <2>1, <3>2, QuietStep DEF QueueInv, SchedulerTypeOK, Stages
  <2>3. CASE ~mine[w]
    <3>1. UNCHANGED <<requests, queuedFor, mine>>
      BY <1>6, <2>3 DEF Unregister, table
    <3>2. Table'
      BY <2>1, <2>3, <3>1 DEF QueueInv, SchedulerTypeOK, Table, RequestsAreUnique, OwnRequest,
                              RequestsAreOwned
    <3> QED BY <2>1, <3>1, <3>2, QuietStep DEF QueueInv, SchedulerTypeOK, Stages
  <2> QED BY <2>2, <2>3
<1> QED
  BY <1>1, <1>2, <1>3, <1>4, <1>5, <1>6, ReleaseStep, MergeStep DEF SchedulerNext, Step

--------------------------------------------------------------------------------
\* The scheduler keeps the types of its counter, its table and its scores.
THEOREM SchedulerTypesHold == SchedulerSpec => []SchedulerTypeOK
<1>1. QueueInv => SchedulerTypeOK
  BY DEF QueueInv
<1> QED BY <1>1, InitQueueInv, NextQueueInv, PTL DEF SchedulerSpec

\* No slot leaks and none is given out twice, whatever the interleaving of
\* acquisitions, rotations, failures and cancellation.
THEOREM SlotsAccounted == SchedulerSpec => []SlotsAreAccounted
<1>1. QueueInv => SlotsAreAccounted
  BY DEF QueueInv
<1> QED BY <1>1, InitQueueInv, NextQueueInv, PTL DEF SchedulerSpec

\* A request in the scheduler's table always has a goroutine that will ask for it.
THEOREM NoOrphans == SchedulerSpec => []NoOrphanRequest
<1>1. QueueInv => NoOrphanRequest
  <2> SUFFICES ASSUME QueueInv, NEW k \in ToSet(requests)
               PROVE  \E w \in Workers : KeyOf[w] = k /\ stage[w] \in {"try", "waiting", "refreshing"}
    BY DEF NoOrphanRequest
  <2>1. PICK w \in Workers : KeyOf[w] = k /\ mine[w]
    BY DEF QueueInv, Table, RequestsAreOwned
  <2> QED BY <2>1 DEF QueueInv, Table, OwnRequest, Queueing
<1> QED BY <1>1, InitQueueInv, NextQueueInv, PTL DEF SchedulerSpec
================================================================================
