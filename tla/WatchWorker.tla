------------------------------ MODULE WatchWorker ------------------------------
(***************************************************************************)
(* One collector worker: the goroutine that lists and watches one resource *)
(* (one GVR) of one cluster and writes what it sees to the evidence store. *)
(*                                                                         *)
(* Two entry points share the list and the watch code and differ in what   *)
(* they do with an error:                                                  *)
(*   "single"  WatchResourceClientGo: every retry lists again, then        *)
(*             watches from the list's resourceVersion;                    *)
(*   "pool"    WatchResourcesClientGo: one initial list, a queue for a     *)
(*             stream slot (with optional refresh lists while queued), and *)
(*             then a stream that resumes from the last resourceVersion it *)
(*             saw and lists again only when that version has expired.     *)
(*                                                                         *)
(* An object is one incarnation, i.e. one UID: it is created once, changes *)
(* any number of times and is deleted at most once.  A resourceVersion is  *)
(* the index of a write in the API server's log; 0 is the empty string.    *)
(* The content of an object is named by the resourceVersion that wrote it. *)
(* The store is the SQLite one: its two transactions per observation are   *)
(* two steps here, because a failure or a crash can fall between them.     *)
(***************************************************************************)
EXTENDS Integers, Sequences, FiniteSets

CONSTANTS
  Objects,      \* incarnations of the watched resource, by UID
  NoObject,     \* the subject of a write to some other resource
  MaxRV,        \* bound: length of the API server's log
  Modes,        \* how the collector is started: "single", "pool"
  MaxRetries,   \* --retries; negative means no limit
  Rotation,     \* streamRotationSeconds > 0
  Faults        \* which parts of the environment may fail, see FaultKinds

(***************************************************************************)
(* "refs", "store": the store's read and write transactions; "list",       *)
(* "open": the two API requests; "closed", "transient", "other": the ways  *)
(* an open stream can break; "compact": the API server drops old log       *)
(* entries; "crash": the process dies and is started again.  "forever": the *)
(* faults above never stop.                                                *)
(***************************************************************************)
FaultKinds == {"refs", "store", "list", "open", "closed", "transient", "other",
               "compact", "crash", "forever"}

ASSUME ConstantsAssumption ==
  /\ NoObject \notin Objects
  /\ MaxRV \in Nat \ {0}
  /\ Modes \subseteq {"single", "pool"}
  /\ MaxRetries \in Int
  /\ Rotation \in BOOLEAN
  /\ Faults \subseteq FaultKinds

VARIABLES
  \* the API server
  log,          \* its writes so far; resourceVersion = index
  compacted,    \* a watch from before this resourceVersion gets 410 Gone
  faulty,       \* TRUE while the environment may still fail
  \* the worker
  pc,
  job,          \* "single", "initial", "refresh" (list loops) or "stream"
  phase,        \* "list" inside listResourceOnce, "watch" inside watchResourceStream
  rv,           \* summary.ResourceVersion of the call that is running
  base,         \* worker.Summary.ResourceVersion, kept between the pool's calls
  listRV,       \* the resourceVersion the next List will ask for
  needsList,
  attempts,
  late,         \* the stream's rotation deadline has passed
  prev,         \* previousRefs
  todo,         \* observations of this list or event not ingested yet
  cur,          \* the observation between its two transactions
  cursor,       \* how far the open watch has delivered the log
  \* the store
  row,          \* objects.deleted_at: "none" (no row), "live" or "deleted"
  latest,       \* the latest version of each object
  offset        \* the ingestion_offsets row: resourceVersion and status

server == <<log, compacted, faulty>>
list   == <<listRV, prev, todo, cur>>
store  == <<row, latest, offset>>
loop   == <<job, phase, base, needsList, attempts>>
vars   == <<log, compacted, faulty, pc, job, phase, rv, base, listRV, needsList,
            attempts, late, prev, todo, cur, cursor, row, latest, offset>>

NoVersion     == 0
Put(o)        == [obj |-> o, op |-> "put"]
Del(o)        == [obj |-> o, op |-> "del"]
Elsewhere     == [obj |-> NoObject, op |-> "other"]
Writes        == [obj : Objects, op : {"put", "del"}] \cup {Elsewhere}
Observations  == [obj : Objects, op : {"put", "del"}, rv : Nat]
NoObservation == [obj |-> NoObject, op |-> "none", rv |-> 0]
Versions      == [op : {"none", "put", "del"}, rv : Nat]
Statuses      == {"not_started", "listed", "list_error", "queued", "watching",
                  "bookmark", "retrying", "watch_error"}
PCs           == {"refs", "list", "ingest", "put", "commit", "requeue", "acquire",
                  "queued", "open", "announce", "top", "wait", "mark", "backoff",
                  "sleep", "dead"}

--------------------------------------------------------------------------------
\* The cluster at resourceVersion r.

Born(o, r) == \E i \in 1..r : log[i] = Put(o)
Died(o, r) == \E i \in 1..r : log[i] = Del(o)
Live(o, r) == Born(o, r) /\ ~Died(o, r)

\* o is live at r with the content that write i gave it.
Holds(o, i, r) ==
  /\ i \in 1..r /\ log[i] = Put(o)
  /\ \A j \in (i + 1)..r : log[j] \notin {Put(o), Del(o)}

\* The snapshots a List may return: the most recent one when no version is
\* asked for, any that is not older than the version otherwise.
Snapshots(asked) == IF asked = NoVersion THEN {Len(log)} ELSE asked..Len(log)

\* The observations a list at r turns into: its items, and a DELETED for each
\* reference that was live in the store and is not in the list.
Items(r) ==
  {ob \in [obj : Objects, op : {"put"}, rv : 1..r] : Holds(ob.obj, ob.rv, r)}

\* Mutant: nothing is reconciled.
NothingMissing(previous, r) == {}

Missing(previous, r) ==
  {[obj |-> o, op |-> "del", rv |-> r] : o \in {p \in previous : ~Live(p, r)}}

\* LatestResourceRefs: the objects with a latest version and no deleted_at.
LatestRefs == {o \in Objects : row[o] = "live" /\ latest[o].op # "none"}

--------------------------------------------------------------------------------

FirstJobs == {IF mode = "single" THEN "single" ELSE "initial" : mode \in Modes}

Init ==
  /\ log = <<Elsewhere>> /\ compacted = 0 /\ faulty = TRUE
  /\ pc = "refs" /\ job \in FirstJobs /\ phase = "list"
  /\ rv = NoVersion /\ base = NoVersion /\ listRV = NoVersion
  /\ needsList = FALSE /\ attempts = 0 /\ late = FALSE
  /\ prev = {} /\ todo = {} /\ cur = NoObservation /\ cursor = 0
  /\ row = [o \in Objects |-> "none"]
  /\ latest = [o \in Objects |-> [op |-> "none", rv |-> 0]]
  /\ offset = [rv |-> NoVersion, status |-> "not_started"]

Failing(kind) == faulty /\ kind \in Faults

--------------------------------------------------------------------------------
\* The API server and the rest of the environment.

Happens(write) ==
  /\ Len(log) < MaxRV
  /\ log' = Append(log, write)
  /\ UNCHANGED <<compacted, faulty, pc, loop, rv, late, list, cursor, store>>

ServerPut(o)    == ~Died(o, Len(log)) /\ Happens(Put(o))
ServerDelete(o) == Live(o, Len(log)) /\ Happens(Del(o))
ServerElsewhere == Happens(Elsewhere)

Compact ==
  /\ Failing("compact")
  /\ \E r \in (compacted + 1)..Len(log) : compacted' = r
  /\ UNCHANGED <<log, faulty, pc, loop, rv, late, list, cursor, store>>

\* From here on nothing fails any more.
Heal ==
  /\ faulty /\ ~Failing("forever")
  /\ faulty' = FALSE
  /\ UNCHANGED <<log, compacted, pc, loop, rv, late, list, cursor, store>>

\* The rotation deadline passes.  It is looked at before a retry and at the top
\* of the stream loop, so passing elsewhere is the same as passing here.
Deadline ==
  /\ Rotation /\ job = "stream" /\ ~late
  /\ pc \in {"wait", "backoff", "sleep"}
  /\ late' = TRUE
  /\ UNCHANGED <<server, pc, loop, rv, list, cursor, store>>

\* The process dies: the store is what survives, and the next process starts
\* with a full list because no caller passes a StartResourceVersion.
Crash ==
  /\ Failing("crash")
  /\ pc' = "refs" /\ job' \in FirstJobs /\ phase' = "list"
  /\ rv' = NoVersion /\ base' = NoVersion /\ listRV' = NoVersion
  /\ needsList' = FALSE /\ attempts' = 0 /\ late' = FALSE
  /\ prev' = {} /\ todo' = {} /\ cur' = NoObservation /\ cursor' = 0
  /\ UNCHANGED <<server, store>>

--------------------------------------------------------------------------------
\* Errors.  Every error path records an offset and ignores a failure to do so.

GiveUp       == MaxRetries >= 0 /\ attempts + 1 > MaxRetries
CountAttempt == attempts' = IF MaxRetries < 0 THEN attempts ELSE attempts + 1
Abandon      == todo' = {} /\ cur' = NoObservation

RecordOffset(version, status) ==
  \/ offset' = [rv |-> version, status |-> status]
  \/ Failing("store") /\ UNCHANGED offset

RetryStatus(kind) ==
  IF kind \in {"expired", "closed", "transient"} THEN "retrying" ELSE "watch_error"

\* WatchResourceClientGo: list and watch again, from the last version seen.
FailSingle(kind) ==
  /\ job = "single"
  /\ \/ /\ GiveUp
        /\ RecordOffset(rv, "watch_error")
        /\ pc' = "dead"
        /\ UNCHANGED <<listRV, attempts>>
     \/ /\ ~GiveUp
        /\ RecordOffset(rv, RetryStatus(kind))
        /\ listRV' = IF kind = "expired" THEN NoVersion ELSE rv
        /\ CountAttempt
        /\ pc' = "backoff"
  /\ UNCHANGED <<job, phase, base, needsList>>

\* WatchResourceInitialListClientGo.  When it gives up, the initial list ends
\* the worker; a refresh is only noted and the worker stays queued.
FailList(kind) ==
  /\ job \in {"initial", "refresh"}
  /\ \/ /\ GiveUp /\ job = "initial"
        /\ RecordOffset(rv, "list_error")
        /\ pc' = "dead"
        /\ UNCHANGED <<listRV, attempts>>
     \/ /\ GiveUp /\ job = "refresh"
        /\ RecordOffset(rv, "list_error")
        /\ pc' = "requeue"
        /\ UNCHANGED <<listRV, attempts>>
     \/ /\ ~GiveUp
        /\ RecordOffset(rv, "list_error")
        /\ listRV' = IF kind = "expired" THEN NoVersion ELSE rv
        /\ CountAttempt
        /\ pc' = "backoff"
  /\ UNCHANGED <<job, phase, base, needsList>>

\* The pool's stream call returns without an error, which without --timeout and
\* --max-events only a rotation deadline brings about; the summaries are merged
\* and the worker goes back to the queue.
StreamReturns ==
  /\ base' = IF rv = NoVersion THEN base ELSE rv
  /\ pc' = "acquire"
  /\ UNCHANGED <<offset, listRV, job, phase, needsList, attempts>>

StreamDies ==
  /\ base' = IF rv = NoVersion THEN base ELSE rv
  /\ pc' = "dead"
  /\ UNCHANGED <<listRV, job, phase, needsList, attempts>>

\* Mutant: an expired version does not force a relist.
FailStreamWithoutRelist(kind) ==
  /\ job = "stream"
  /\ \/ phase = "list" /\ StreamDies /\ UNCHANGED offset
     \/ phase = "watch" /\ kind = "closed" /\ Rotation /\ StreamReturns
     \/ /\ phase = "watch" /\ ~(kind = "closed" /\ Rotation)
        /\ RecordOffset(rv, RetryStatus(kind))
        /\ CountAttempt
        /\ pc' = "backoff"
        /\ UNCHANGED <<listRV, job, phase, base, needsList>>

\* WatchResourceStreamClientGo: an error of its list is returned as it is, an
\* error of its stream is retried from the last version seen.
FailStream(kind) ==
  /\ job = "stream"
  /\ \/ /\ phase = "list"
        /\ StreamDies /\ UNCHANGED offset
     \/ /\ phase = "watch" /\ kind = "closed" /\ Rotation
        /\ StreamReturns
     \/ /\ phase = "watch" /\ ~(kind = "closed" /\ Rotation) /\ GiveUp
        /\ StreamDies /\ RecordOffset(rv, "watch_error")
     \/ /\ phase = "watch" /\ ~(kind = "closed" /\ Rotation) /\ ~GiveUp
        /\ RecordOffset(rv, RetryStatus(kind))
        /\ needsList' = (needsList \/ kind = "expired")
        /\ CountAttempt
        /\ pc' = "backoff"
        /\ UNCHANGED <<listRV, job, phase, base>>

Fail(kind) ==
  /\ FailSingle(kind) \/ FailList(kind) \/ FailStream(kind)
  /\ Abandon
  /\ UNCHANGED <<server, rv, late, prev, cursor, row, latest>>

\* sleepBeforeRetry: past the deadline it returns an error instead of sleeping,
\* and both of the loops that have a deadline return that error.
BackOff ==
  /\ pc = "backoff"
  /\ \/ job = "stream" /\ late /\ StreamDies
     \/ ~(job = "stream" /\ late) /\ pc' = "sleep" /\ UNCHANGED <<loop, listRV>>
  /\ UNCHANGED <<server, rv, late, prev, todo, cur, cursor, store>>

Wake ==
  /\ pc = "sleep"
  /\ \/ job = "stream" /\ ~needsList /\ pc' = "open" /\ UNCHANGED phase
     \/ ~(job = "stream" /\ ~needsList) /\ pc' = "refs" /\ phase' = "list"
  /\ UNCHANGED <<server, job, base, needsList, attempts, rv, late, list, cursor, store>>

--------------------------------------------------------------------------------
\* listResourceOnce.

ReadRefs ==
  /\ pc = "refs"
  /\ prev' = LatestRefs
  /\ pc' = "list"
  /\ UNCHANGED <<server, loop, rv, late, listRV, todo, cur, cursor, store>>

ReadRefsFails == pc = "refs" /\ Failing("refs") /\ Fail("other")

\* Mutant: the offset is recorded as soon as the list has arrived.
ListResourceAndRecord ==
  /\ pc = "list"
  /\ \E r \in Snapshots(listRV) :
       /\ rv' = r
       /\ todo' = Items(r) \cup Missing(prev, r)
       /\ offset' = [rv |-> r, status |-> "listed"]
  /\ pc' = "ingest"
  /\ UNCHANGED <<server, loop, late, listRV, prev, cur, cursor, row, latest>>

\* Mutant: the list asks for resourceVersion "0", i.e. anything in the cache.
ListFromCache ==
  /\ pc = "list"
  /\ \E r \in 1..Len(log) :
       /\ rv' = r
       /\ todo' = Items(r) \cup Missing(prev, r)
  /\ pc' = "ingest"
  /\ UNCHANGED <<server, loop, late, listRV, prev, cur, cursor, store>>

\* The summary takes the list's version before any of it is ingested.
ListResource ==
  /\ pc = "list"
  /\ \E r \in Snapshots(listRV) :
       /\ rv' = r
       /\ todo' = Items(r) \cup Missing(prev, r)
  /\ pc' = "ingest"
  /\ UNCHANGED <<server, loop, late, listRV, prev, cur, cursor, store>>

ListFails ==
  /\ pc = "list" /\ Failing("list")
  /\ \E kind \in {"expired", "transient", "other"} : Fail(kind)

\* PutRawLatest, the first transaction of an observation.  The items of a list
\* come before the deletions reconciled from it.
PutRawLatest ==
  /\ pc = "ingest"
  /\ \E ob \in todo :
       /\ ob.op = "del" => \A other \in todo : other.op = "del"
       /\ row' = [row EXCEPT ![ob.obj] = IF ob.op = "del" THEN "deleted" ELSE "live"]
       /\ cur' = ob
  /\ pc' = "put"
  /\ UNCHANGED <<server, loop, rv, late, listRV, prev, todo, cursor, latest, offset>>

\* PutObservation, the second: a new version, or none when the content is the
\* one already stored.
PutObservation ==
  /\ pc = "put"
  /\ row' = [row EXCEPT ![cur.obj] = IF cur.op = "del" THEN "deleted" ELSE "live"]
  /\ latest' = [latest EXCEPT ![cur.obj] = [op |-> cur.op, rv |-> cur.rv]]
  /\ todo' = todo \ {cur}
  /\ cur' = NoObservation
  /\ pc' = "ingest"
  /\ UNCHANGED <<server, loop, rv, late, listRV, prev, cursor, offset>>

Ingested ==
  /\ pc = "ingest" /\ todo = {}
  /\ pc' = "commit"
  /\ UNCHANGED <<server, loop, rv, late, list, cursor, store>>

\* The offset after a list, and where its caller goes next.
CommitList ==
  /\ pc = "commit" /\ phase = "list"
  /\ offset' = [rv |-> rv, status |-> "listed"]
  /\ \/ job \in {"single", "stream"} /\ pc' = "open" /\ phase' = "watch" /\ UNCHANGED base
     \/ job = "initial" /\ pc' = "acquire" /\ base' = rv /\ UNCHANGED phase
     \/ job = "refresh" /\ pc' = "requeue" /\ base' = rv /\ UNCHANGED phase
  /\ needsList' = FALSE
  /\ UNCHANGED <<server, job, attempts, rv, late, list, cursor, row, latest>>

--------------------------------------------------------------------------------
\* The pool's queue for stream slots, as one worker sees it.

\* A refresh is over, with or without success: the worker is queued again.
Requeue ==
  /\ pc = "requeue"
  /\ RecordOffset(base, "queued")
  /\ pc' = "queued"
  /\ UNCHANGED <<server, loop, rv, late, list, cursor, row, latest>>

\* No slot is free.
Queue ==
  /\ pc = "acquire"
  /\ RecordOffset(base, "queued")
  /\ pc' = "queued"
  /\ UNCHANGED <<server, loop, rv, late, list, cursor, row, latest>>

RefreshQueued ==
  /\ pc = "queued"
  /\ job' = "refresh" /\ phase' = "list" /\ attempts' = 0
  /\ rv' = NoVersion /\ listRV' = NoVersion
  /\ pc' = "refs"
  /\ UNCHANGED <<server, base, needsList, late, prev, todo, cur, cursor, store>>

\* A slot is acquired: WatchResourceStreamClientGo starts from the worker's
\* resourceVersion, which the initial list has set.
StartStream ==
  /\ pc \in {"acquire", "queued"}
  /\ job' = "stream" /\ attempts' = 0 /\ late' = FALSE
  /\ rv' = base /\ listRV' = NoVersion /\ needsList' = (base = NoVersion)
  /\ pc' = "open" /\ phase' = "watch"
  /\ UNCHANGED <<server, base, prev, todo, cur, cursor, store>>

--------------------------------------------------------------------------------
\* watchResourceStream and handleWatchEvent.

OpenWatch ==
  /\ pc = "open" /\ rv >= compacted
  /\ cursor' = rv
  /\ pc' = "announce"
  /\ UNCHANGED <<server, loop, rv, late, list, store>>

OpenWatchFails ==
  /\ pc = "open"
  /\ \/ rv < compacted /\ Fail("expired")
     \/ Failing("open") /\ \E kind \in {"transient", "other"} : Fail(kind)

Announce ==
  /\ pc = "announce"
  /\ offset' = [rv |-> rv, status |-> "watching"]
  /\ pc' = "top"
  /\ UNCHANGED <<server, loop, rv, late, list, cursor, row, latest>>

\* The top of the stream loop: past the deadline the stream ends without error.
LoopTop ==
  /\ pc = "top"
  /\ \/ late /\ StreamReturns
     \/ ~late /\ pc' = "wait" /\ UNCHANGED <<loop, listRV, offset>>
  /\ UNCHANGED <<server, rv, late, prev, todo, cur, cursor, row, latest>>

\* The writes to this resource that the watch has not delivered.
Pending == {i \in (cursor + 1)..Len(log) : log[i] # Elsewhere}

\* The summary takes the event's version before the event is ingested.
DeliverEvent ==
  /\ pc = "wait"
  /\ \E i \in Pending :
       /\ \A j \in Pending : i <= j
       /\ rv' = i /\ cursor' = i
       /\ todo' = {[obj |-> log[i].obj, op |-> log[i].op, rv |-> i]}
  /\ pc' = "ingest"
  /\ UNCHANGED <<server, loop, late, listRV, prev, cur, store>>

CommitEvent ==
  /\ pc = "commit" /\ phase = "watch"
  /\ offset' = [rv |-> rv, status |-> "watching"]
  /\ pc' = "top"
  /\ UNCHANGED <<server, loop, rv, late, list, cursor, row, latest>>

\* A bookmark: everything up to r has been delivered.
DeliverBookmark ==
  /\ pc = "wait" /\ cursor < Len(log) /\ Pending = {}
  /\ rv' = Len(log) /\ cursor' = Len(log)
  /\ pc' = "mark"
  /\ UNCHANGED <<server, loop, late, list, store>>

CommitBookmark ==
  /\ pc = "mark"
  /\ offset' = [rv |-> rv, status |-> "bookmark"]
  /\ pc' = "top"
  /\ UNCHANGED <<server, loop, rv, late, list, cursor, row, latest>>

\* The stream breaks: the channel closes, or an Error event arrives.
StreamBreaks ==
  /\ pc = "wait"
  /\ \/ \E kind \in {"closed", "transient", "other"} : Failing(kind) /\ Fail(kind)
     \/ cursor < compacted /\ Fail("expired")

\* The watch carries the deadline as timeoutSeconds: the server closes it then.
StreamTimesOut == pc = "wait" /\ late /\ Fail("closed")

\* A transaction of the store fails and leaves nothing behind.
StoreFails ==
  /\ Failing("store")
  /\ pc = "ingest" => todo # {}
  /\ pc \in {"ingest", "put", "commit", "announce", "mark"}
  /\ Fail("other")

--------------------------------------------------------------------------------

Environment ==
  \/ \E o \in Objects : ServerPut(o) \/ ServerDelete(o)
  \/ ServerElsewhere \/ Compact \/ Heal \/ Deadline \/ Crash

\* What the worker does when it is given time and nothing fails.
Worker ==
  \/ BackOff \/ Wake \/ ReadRefs \/ ListResource \/ PutRawLatest \/ PutObservation
  \/ Ingested \/ CommitList \/ Requeue \/ Queue \/ StartStream
  \/ OpenWatch \/ OpenWatchFails \/ Announce \/ LoopTop \/ DeliverEvent
  \/ CommitEvent \/ CommitBookmark \/ StreamTimesOut

Next ==
  \/ Environment \/ Worker
  \/ ReadRefsFails \/ ListFails \/ StreamBreaks \/ StoreFails
  \/ DeliverBookmark \/ RefreshQueued

Spec == Init /\ [][Next]_vars

\* The worker is a running goroutine, a free slot is seen by one of the polls of
\* the scheduler, a pending event reaches an open stream before every rotation
\* window ends, and the environment stops failing some day.  Nothing is assumed
\* of the cluster's writes.
Fairness ==
  /\ WF_vars(Worker) /\ WF_vars(Heal)
  /\ SF_vars(StartStream) /\ SF_vars(DeliverEvent)

FairSpec == Spec /\ Fairness

--------------------------------------------------------------------------------

TypeOK ==
  /\ log \in Seq(Writes) /\ compacted \in Nat /\ faulty \in BOOLEAN
  /\ pc \in PCs /\ job \in {"single", "initial", "refresh", "stream"}
  /\ phase \in {"list", "watch"}
  /\ rv \in Nat /\ base \in Nat /\ listRV \in Nat /\ cursor \in Nat
  /\ needsList \in BOOLEAN /\ attempts \in Nat /\ late \in BOOLEAN
  /\ prev \subseteq Objects
  /\ todo \subseteq Observations /\ cur \in Observations \cup {NoObservation}
  /\ row \in [Objects -> {"none", "live", "deleted"}]
  /\ latest \in [Objects -> Versions]
  /\ offset \in [rv : Nat, status : Statuses]

\* The store never says that an object was deleted unless the API server has
\* deleted it: not when a list raced with creations, not when a list was retried
\* against an older snapshot, not after a crash in the middle of a list
\* (reconcileDeletedFromList invents DELETED observations from absence).
NoFalseDelete ==
  \A o \in Objects :
    row[o] = "deleted" \/ latest[o].op = "del" => Died(o, Len(log))

\* The store shows the state of the cluster at r, or a later one: an object live
\* at r is there with its content at r or a newer one, an object deleted by r is
\* not among the live ones.
Reflects(r) ==
  \A o \in Objects :
    /\ Died(o, r) => o \notin LatestRefs
    /\ \A i \in 1..r : Holds(o, i, r) => latest[o].op # "none" /\ latest[o].rv >= i

\* While the stream of a resource that is watched on its own is open and idle,
\* nothing the collector has been shown is missing from the store: the
\* resourceVersion it would resume from is covered.
StreamCaughtUp == job = "single" /\ pc \in {"top", "wait"} => Reflects(rv)

\* The persisted offset never runs ahead of the evidence.
OffsetIsDurable == Reflects(offset.rv)

\* Evidence is never replaced by older evidence, and a recorded deletion is
\* final: a UID does not come back.
NeverRegresses ==
  [][\A o \in Objects :
       latest'[o] # latest[o] => latest[o].op # "del" /\ latest'[o].rv > latest[o].rv]_vars

\* The store and the cluster agree on which objects are live and on what they
\* contain.
Synced ==
  \A o \in Objects :
    IF Live(o, Len(log))
    THEN /\ o \in LatestRefs
         /\ latest[o].op = "put" /\ Holds(o, latest[o].rv, Len(log))
    ELSE o \notin LatestRefs

\* Once the cluster is quiet and nothing fails any more, the store catches up
\* with the cluster and stays so, whatever gaps, restarts and expired versions
\* came before.
Converges == <>[]Synced
================================================================================
