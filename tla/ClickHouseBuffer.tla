---------------------------- MODULE ClickHouseBuffer ----------------------------
(***************************************************************************)
(* The write buffer of the ClickHouse store.  Collector workers append     *)
(* observations and offsets to it and go on; a batch is drained under the  *)
(* buffer's mutex when it is full, when a timer fires, or when somebody    *)
(* reads, and is inserted later under another mutex, table by table.  An   *)
(* error is returned to whoever drained the batch, and to nobody when that *)
(* was the timer.                                                          *)
(*                                                                         *)
(* A worker has one object and numbers its observations by the time they   *)
(* were made (observed_at).  Several batches may be drained and not yet    *)
(* inserted: nothing orders the goroutines that wait for the second mutex. *)
(***************************************************************************)
EXTENDS Integers, FiniteSets

CONSTANTS
  Workers,
  Nobody,       \* who gets the error of a batch drained by the timer or a read
  BatchSize,    \* BatchSize, at least 1 as batchSizeLocked makes it
  Timed,        \* FlushInterval > 0
  Docs,         \* contents of objects; "gone" is that of a DELETED observation
  Contents,     \* the contents of each worker's object
  MaxObs,       \* bound: observations of each worker
  Faults        \* which of "insert" and "crash" may happen

ASSUME ConstantsAssumption ==
  /\ IsFiniteSet(Workers) /\ Nobody \notin Workers
  /\ BatchSize \in Nat \ {0} /\ MaxObs \in [Workers -> Nat]
  /\ Timed \in BOOLEAN
  /\ "none" \notin Docs /\ Contents \in [Workers -> SUBSET Docs]
  /\ Faults \subseteq {"insert", "crash"}

VARIABLES
  made,         \* how many observations each worker has made
  pc,           \* "idle", "put", "made" or "upsert", see PutObservation
  pending,      \* pendingObservations
  marks,        \* pendingOffsets: the observation an offset covers, 0 for none
  timer,        \* flushTimer: "nil", "armed", or "fired" and not yet cleared
  firing,       \* goroutines of fired timers that have not drained yet
  batches,      \* drained and not inserted
  inserting,    \* batches whose goroutine holds insertMu and has read the
                \* latest versions, each with what it read
  observations, versions, offsets,   \* the tables
  lost          \* history: observations of batches that failed or died

buffer == <<pending, marks, timer, firing>>
tables == <<observations, versions, offsets>>
vars   == <<made, pc, pending, marks, timer, firing, batches, inserting,
            observations, versions, offsets, lost>>

Observations == [w : Workers, n : Nat \ {0}, doc : Docs]
Versions     == [w : Workers, n : Nat \ {0}, seq : Nat \ {0}, doc : Docs]
Marks        == [Workers -> Nat]
NoMarks      == [w \in Workers |-> 0]
Batches      == [obs : SUBSET Observations, marks : Marks, owner : Workers \cup {Nobody}]
Greatest(S)  == CHOOSE n \in S : \A m \in S : n >= m

Rows(obs, ms) == Cardinality(obs) + Cardinality({w \in Workers : ms[w] # 0})

--------------------------------------------------------------------------------

Init ==
  /\ made = NoMarks /\ pc = [w \in Workers |-> "idle"]
  /\ pending = {} /\ marks = NoMarks
  /\ timer = "nil" /\ firing = 0
  /\ batches = {} /\ inserting = {}
  /\ observations = {} /\ versions = {} /\ offsets = NoMarks
  /\ lost = {}

\* Mutant: the timer is stopped but stays set, so it is never armed again.
DrainAndKeepTimer(obs, ms, owner) ==
  /\ batches' = IF Rows(obs, ms) = 0 THEN batches
                ELSE batches \cup {[obs |-> obs, marks |-> ms, owner |-> owner]}
  /\ pending' = {} /\ marks' = NoMarks
  /\ timer' = IF timer = "nil" THEN "nil" ELSE "fired"

\* drainLocked and the call of insertPending, which returns at once for an empty
\* batch.  A timer that has fired already is not stopped by this.
Drain(obs, ms, owner) ==
  /\ batches' = IF Rows(obs, ms) = 0 THEN batches
                ELSE batches \cup {[obs |-> obs, marks |-> ms, owner |-> owner]}
  /\ pending' = {} /\ marks' = NoMarks
  /\ timer' = "nil"

Full(obs, ms) == Rows(obs, ms) >= BatchSize

\* What PutObservation and UpsertIngestionOffset share: the row is in obs and ms.
\* A worker that drains waits for its batch in state "busy".
Buffer(w, obs, ms, busy, next) ==
  \/ /\ Full(obs, ms)
     /\ Drain(obs, ms, w)
     /\ pc' = [pc EXCEPT ![w] = busy]
  \/ /\ ~Full(obs, ms)
     /\ pending' = obs /\ marks' = ms
     /\ timer' = IF Timed /\ timer = "nil" THEN "armed" ELSE timer
     /\ pc' = [pc EXCEPT ![w] = next]
     /\ UNCHANGED batches

PutObservation(w, doc) ==
  /\ pc[w] = "idle" /\ made[w] < MaxObs[w]
  /\ made' = [made EXCEPT ![w] = @ + 1]
  /\ Buffer(w, pending \cup {[w |-> w, n |-> made[w] + 1, doc |-> doc]}, marks, "put", "made")
  /\ UNCHANGED <<firing, inserting, tables, lost>>

\* The worker's next call, once PutObservation has returned no error.  Offsets of
\* a worker replace each other.
UpsertIngestionOffset(w) ==
  /\ pc[w] = "made"
  /\ Buffer(w, pending, [marks EXCEPT ![w] = made[w]], "upsert", "idle")
  /\ UNCHANGED <<made, firing, inserting, tables, lost>>

TimerFires ==
  /\ timer = "armed"
  /\ timer' = "fired" /\ firing' = firing + 1
  /\ UNCHANGED <<made, pc, pending, marks, batches, inserting, tables, lost>>

\* Flush, called by the goroutine of a fired timer.
TimerFlushes ==
  /\ firing > 0
  /\ Drain(pending, marks, Nobody)
  /\ firing' = firing - 1
  /\ UNCHANGED <<made, pc, inserting, tables, lost>>

\* Flush, called before a read.
Flush ==
  /\ Drain(pending, marks, Nobody)
  /\ UNCHANGED <<made, pc, firing, inserting, tables, lost>>

--------------------------------------------------------------------------------
\* insertPending.

\* latestVersionStates: the greatest number, and the content observed last.
State(w) ==
  LET mine == {v \in versions : v.w = w}
      last == Greatest({v.n : v \in mine})
  IN  IF mine = {} THEN [seq |-> 0, doc |-> "none"]
      ELSE [seq |-> Greatest({v.seq : v \in mine}),
            doc |-> (CHOOSE v \in mine : v.n = last).doc]

\* Mutant: insertions do not exclude each other.
NoInsertMu == TRUE

InsertMuIsFree == inserting = {}

TakeInsertMu(b) ==
  /\ InsertMuIsFree /\ \A i \in inserting : i.batch # b
  /\ inserting' = inserting \cup {[batch |-> b, states |-> [w \in Workers |-> State(w)]]}
  /\ UNCHANGED <<made, pc, buffer, batches, tables, lost>>

\* The content before ob: of the observation before it in the batch, else stored.
Before(ob, obs, states) ==
  LET earlier == {o \in obs : o.w = ob.w /\ o.n < ob.n}
  IN  IF earlier = {} THEN states[ob.w].doc
      ELSE (CHOOSE o \in earlier : \A e \in earlier : e.n <= o.n).doc

\* observationContentChanged.
Changed(obs, states) ==
  {ob \in obs : ob.doc = "gone" \/ ob.doc # Before(ob, obs, states)}

\* The versions a batch adds, numbered on from what was read.
NewVersions(obs, states) ==
  LET changed == Changed(obs, states)
      nth(ob) == Cardinality({o \in changed : o.w = ob.w /\ o.n <= ob.n})
  IN  {[w |-> ob.w, n |-> ob.n, seq |-> states[ob.w].seq + nth(ob), doc |-> ob.doc] : ob \in changed}

\* The owner of a batch gets its result.  After an error of PutObservation the
\* worker goes its error path (see WatchWorker), here to its next observation.
Return(b, ok) ==
  pc' = [w \in Workers |->
           IF w # b.owner THEN pc[w]
           ELSE IF ok /\ pc[w] = "put" THEN "made" ELSE "idle"]

Later(w, ms) == IF ms[w] > offsets[w] THEN ms[w] ELSE offsets[w]

\* Mutant: a batch is put back after its insertion.
InsertBatchAndKeep(i) ==
  /\ observations' = observations \cup i.batch.obs
  /\ versions' = versions \cup NewVersions(i.batch.obs, i.states)
  /\ offsets' = [w \in Workers |-> Later(w, i.batch.marks)]
  /\ UNCHANGED batches /\ inserting' = inserting \ {i}
  /\ Return(i.batch, TRUE)
  /\ UNCHANGED <<made, buffer, lost>>

\* All tables, and the offsets last: rows with a newer updated_at win.
InsertBatch(i) ==
  /\ observations' = observations \cup i.batch.obs
  /\ versions' = versions \cup NewVersions(i.batch.obs, i.states)
  /\ offsets' = [w \in Workers |-> Later(w, i.batch.marks)]
  /\ batches' = batches \ {i.batch} /\ inserting' = inserting \ {i}
  /\ Return(i.batch, TRUE)
  /\ UNCHANGED <<made, buffer, lost>>

\* A request fails after some of the tables: none, the observations, the versions
\* too.  The batch is gone.
InsertFails(i) ==
  /\ "insert" \in Faults
  /\ \/ lost' = lost \cup i.batch.obs /\ UNCHANGED <<observations, versions>>
     \/ /\ observations' = observations \cup i.batch.obs
        /\ UNCHANGED <<versions, lost>>
     \/ /\ observations' = observations \cup i.batch.obs
        /\ versions' = versions \cup NewVersions(i.batch.obs, i.states)
        /\ UNCHANGED lost
  /\ batches' = batches \ {i.batch} /\ inserting' = inserting \ {i}
  /\ Return(i.batch, FALSE)
  /\ UNCHANGED <<made, buffer, offsets>>

\* The process dies with everything that is not in a table.
Crash ==
  /\ "crash" \in Faults
  /\ lost' = lost \cup pending \cup UNION {b.obs : b \in batches}
  /\ pending' = {} /\ marks' = NoMarks /\ timer' = "nil" /\ firing' = 0
  /\ batches' = {} /\ inserting' = {}
  /\ pc' = [w \in Workers |-> "idle"]
  /\ UNCHANGED <<made, tables>>

--------------------------------------------------------------------------------

Worker(w) ==
  \/ \E doc \in Contents[w] : PutObservation(w, doc)
  \/ UpsertIngestionOffset(w)

Insertion == (\E b \in batches : TakeInsertMu(b)) \/ (\E i \in inserting : InsertBatch(i))

Next ==
  \/ \E w \in Workers : Worker(w)
  \/ TimerFires \/ TimerFlushes \/ Flush
  \/ Insertion \/ Crash
  \/ \E i \in inserting : InsertFails(i)

Spec == Init /\ [][Next]_vars

\* Timers fire, their goroutines run, and an insertion ends.
FairSpec ==
  Spec /\ WF_vars(TimerFires) /\ WF_vars(TimerFlushes) /\ WF_vars(Insertion)

--------------------------------------------------------------------------------

\* Every observation is in exactly one place: in the buffer, in one drained
\* batch, in the table, or in a batch that failed; and several batches with
\* observations of one object on their way never give a version number twice.
InOnePlace ==
  /\ \A u, v \in versions : u # v /\ u.w = v.w => u.seq # v.seq
  /\ \A w \in Workers : \A n \in 1..MaxObs[w] :
    LET is(ob) == ob.w = w /\ ob.n = n
        places == {b \in batches : \E ob \in b.obs : is(ob)}
        in(S)  == \E ob \in S : is(ob)
        count  == Cardinality(places) + Cardinality({S \in {1, 2, 3} :
                    CASE S = 1 -> in(pending) [] S = 2 -> in(observations) [] S = 3 -> in(lost)})
    IN  count = IF n <= made[w] THEN 1 ELSE 0

\* In the end the buffer is empty and every batch is inserted or has failed.
EverythingLands == <>[](pending = {} /\ marks = NoMarks /\ batches = {})
================================================================================
