---------------------------- MODULE StreamScheduler ----------------------------
(***************************************************************************)
(* The queue for watch-stream slots: watchStreamScheduler and the worker   *)
(* goroutines of runWatchStreamPhase that call it.                         *)
(*                                                                         *)
(* At most Limit workers hold an open watch.  The others wait: each polls  *)
(* for a slot, which goes to the request with the best score, and may be   *)
(* sent away to list its resource again (a refresh), during which it does  *)
(* not poll.  A rotation ends a stream and sends its worker back to the    *)
(* queue.  What a worker does while it lists or streams is WatchWorker.    *)
(*                                                                         *)
(* The scheduler's table has one request per schedule key (group, version, *)
(* resource).  Two workers share a key when a resource was named twice.    *)
(* Requests are numbered in order of arrival and the number only breaks    *)
(* ties, so the table is a sequence.                                       *)
(***************************************************************************)
EXTENDS Integers, Sequences, SequencesExt, FiniteSets

CONSTANTS
  Workers,      \* one per selected resource
  Keys,         \* schedule keys
  KeyOf,        \* the schedule key of each worker
  Scored,       \* the worker whose summary scores a key: the last one with it
  Selections,   \* the sets of workers a run may have
  Priority,     \* the profile priority of each worker
  Limit,        \* maxConcurrentStreams
  Rotates,      \* streamRotationSeconds > 0
  Refresh,      \* queuedRelistIntervalSeconds > 0
  StreamFails,  \* a stream call may return an error, which ends its worker
  Minutes,      \* bound: how far the clock jumps, in minutes
  Gains,        \* what one stream of a worker may add to events*5 + bookmarks*2
  Losses,       \* what one call of a worker may add to errors*20 + retries*5
  Costs         \* the values of min(40, latestObjects/250) of a worker

ASSUME SchedulerAssumption ==
  /\ IsFiniteSet(Workers)
  /\ KeyOf \in [Workers -> Keys]
  /\ Scored \in [Keys -> Workers] /\ \A k \in Keys : KeyOf[Scored[k]] = k
  /\ Priority \in [Workers -> {"high", "normal", "low", "other", "disabled"}]
  /\ Limit \in Nat \ {0}
  /\ Minutes \in 1..4
  /\ Rotates \in BOOLEAN /\ Refresh \in BOOLEAN /\ StreamFails \in BOOLEAN
  /\ \A sel \in Selections : \A w \in sel : w \in Workers /\ Scored[KeyOf[w]] \in sel
  /\ Gains \in [Workers -> SUBSET Nat] /\ Losses \in [Workers -> SUBSET Nat]
  /\ Costs \in [Workers -> SUBSET Nat]

VARIABLES
  canceled,     \* ctx.Done
  stage,        \* of each worker
  active,       \* slots taken
  requests,     \* the keys in the table, oldest request first
  queuedFor,    \* whole minutes since the request of a key was made, 0 without one
  mine,         \* the request in the table under a worker's key is its own
  busy,         \* min(50, events*5 + bookmarks*2) of each worker's summary
  trouble,      \* min(80, errors*20 + retries*5)
  cost          \* min(40, latestObjects/250)

signals == <<busy, trouble, cost>>
table   == <<requests, queuedFor, mine>>
schedulerVars ==
  <<canceled, stage, active, requests, queuedFor, mine, busy, trouble, cost>>

Stages  == {"staggered", "register", "try", "waiting", "refreshing", "streaming",
            "merging", "done"}
Streams == {w \in Workers : stage[w] = "streaming"}

AtMost(bound, n) == IF n < bound THEN n ELSE bound

--------------------------------------------------------------------------------
\* watchScheduleScore.  Waiting counts for 20 a minute, for four minutes.

Base == [high |-> 100, normal |-> 50, low |-> 10, other |-> 0]

\* Mutant: the score forgets the profile's priority.
ScoreWithoutPriority(k) ==
  LET w == Scored[k]
  IN  AtMost(80, 20 * queuedFor[k]) + busy[w] - cost[w] - trouble[w]

Score(k) ==
  LET w == Scored[k]
  IN  IF Priority[w] = "disabled" THEN -100000
      ELSE Base[Priority[w]] + AtMost(80, 20 * queuedFor[k]) + busy[w] - cost[w] - trouble[w]

\* bestLocked: the highest score, the older request on a tie.
Best(i) ==
  \A j \in DOMAIN requests \ {i} :
    \/ Score(requests[i]) > Score(requests[j])
    \/ Score(requests[i]) = Score(requests[j]) /\ i < j

--------------------------------------------------------------------------------

SchedulerInit ==
  /\ canceled = FALSE
  /\ \E sel \in Selections :
       stage = [w \in Workers |-> IF w \in sel THEN "staggered" ELSE "done"]
  /\ active = 0
  /\ requests = <<>>
  /\ queuedFor = [k \in Keys |-> 0]
  /\ mine = [w \in Workers |-> FALSE]
  /\ busy = [w \in Workers |-> 0]
  /\ trouble = [w \in Workers |-> 0]
  /\ cost \in [Workers -> UNION {Costs[w] : w \in Workers}]
  /\ \A w \in Workers : cost[w] \in Costs[w]

\* Time passes for every request in the table.
Tick ==
  /\ \E k \in ToSet(requests) : queuedFor[k] < 4
  /\ queuedFor' = [k \in Keys |->
       IF k \in ToSet(requests) THEN AtMost(4, queuedFor[k] + Minutes) ELSE queuedFor[k]]
  /\ UNCHANGED <<canceled, stage, active, requests, mine, signals>>

Cancel ==
  /\ ~canceled /\ canceled' = TRUE
  /\ UNCHANGED <<stage, active, table, signals>>

\* The stagger timer of a worker, or the end of the context, whichever is first.
Start(w) ==
  /\ stage[w] = "staggered"
  /\ \/ stage' = [stage EXCEPT ![w] = "register"]
     \/ canceled /\ stage' = [stage EXCEPT ![w] = "done"]
  /\ UNCHANGED <<canceled, active, table, signals>>

Register(w) ==
  /\ stage[w] = "register"
  /\ stage' = [stage EXCEPT ![w] = "try"]
  /\ mine' = [mine EXCEPT ![w] = TRUE]
  /\ IF KeyOf[w] \in ToSet(requests)
     THEN UNCHANGED requests
     ELSE requests' = Append(requests, KeyOf[w])
  /\ UNCHANGED <<canceled, active, queuedFor, signals>>

Drop(k) ==
  /\ \E i \in DOMAIN requests :
       requests[i] = k /\ requests' = RemoveAt(requests, i)
  /\ queuedFor' = [queuedFor EXCEPT ![k] = 0]
  /\ mine' = [w \in Workers |-> mine[w] /\ KeyOf[w] # k]

\* A free slot goes to the best request.  Any worker with its key may take it.
MayTake(w) ==
  /\ active < Limit
  /\ \E i \in DOMAIN requests : requests[i] = KeyOf[w] /\ Best(i)

\* Mutant: the request stays in the table.
TakeAndStay(w) ==
  /\ MayTake(w)
  /\ active' = active + 1
  /\ stage' = [stage EXCEPT ![w] = "streaming"]
  /\ UNCHANGED <<canceled, table, signals>>

Take(w) ==
  /\ MayTake(w)
  /\ Drop(KeyOf[w])
  /\ active' = active + 1
  /\ stage' = [stage EXCEPT ![w] = "streaming"]
  /\ UNCHANGED <<canceled, signals>>

\* The attempt before a worker starts to wait.
TryNow(w) == stage[w] = "try" /\ Take(w)

TryLater(w) ==
  /\ stage[w] = "try" /\ ~MayTake(w)
  /\ stage' = [stage EXCEPT ![w] = "waiting"]
  /\ UNCHANGED <<canceled, active, table, signals>>

\* A tick of the poll timer that finds a slot; one that does not changes nothing.
Poll(w) == stage[w] = "waiting" /\ Take(w)

Unregister(w) ==
  /\ stage[w] = "waiting" /\ canceled
  /\ IF mine[w] THEN Drop(KeyOf[w]) ELSE UNCHANGED table
  /\ stage' = [stage EXCEPT ![w] = "done"]
  /\ UNCHANGED <<canceled, active, signals>>

\* refreshQueued runs in the waiting goroutine itself.
StartRefresh(w) ==
  /\ Refresh /\ stage[w] = "waiting"
  /\ stage' = [stage EXCEPT ![w] = "refreshing"]
  /\ UNCHANGED <<canceled, active, table, signals>>

\* A refresh that failed merges nothing into the worker's summary.
EndRefresh(w) ==
  /\ stage[w] = "refreshing"
  /\ stage' = [stage EXCEPT ![w] = "waiting"]
  /\ \/ UNCHANGED signals
     \/ \E c \in Costs[w], l \in Losses[w] :
          /\ cost' = [cost EXCEPT ![w] = c]
          /\ trouble' = [trouble EXCEPT ![w] = AtMost(80, @ + l)]
          /\ UNCHANGED busy
  /\ UNCHANGED <<canceled, active, table>>

\* Mutant: the slot is given back only when the stream ended without an error.
ReleaseOnSuccess(w) ==
  /\ stage[w] = "streaming"
  /\ Rotates \/ canceled \/ StreamFails
  /\ active' = IF StreamFails THEN active ELSE active - 1
  /\ stage' = [stage EXCEPT ![w] = "merging"]
  /\ UNCHANGED <<canceled, table, signals>>

\* The stream call returns: rotated, canceled or failed.  The slot is free
\* before the summary is merged, so the next choice may use an old score.
Release(w) ==
  /\ stage[w] = "streaming"
  /\ Rotates \/ canceled \/ StreamFails
  /\ active' = active - 1
  /\ stage' = [stage EXCEPT ![w] = "merging"]
  /\ UNCHANGED <<canceled, table, signals>>

\* The summary only ever adds up: neither activity nor trouble is forgotten.
Merge(w) ==
  /\ stage[w] = "merging"
  /\ \E g \in Gains[w], l \in Losses[w] :
       /\ busy' = [busy EXCEPT ![w] = AtMost(50, @ + g)]
       /\ trouble' = [trouble EXCEPT ![w] = AtMost(80, @ + l)]
  /\ \/ Rotates /\ ~canceled /\ stage' = [stage EXCEPT ![w] = "register"]
     \/ (~Rotates \/ canceled \/ StreamFails) /\ stage' = [stage EXCEPT ![w] = "done"]
  /\ UNCHANGED <<canceled, active, table, cost>>

Step(w) ==
  \/ Start(w) \/ Register(w) \/ TryNow(w) \/ TryLater(w) \/ Poll(w) \/ Unregister(w)
  \/ EndRefresh(w) \/ Release(w) \/ Merge(w)

SchedulerNext ==
  \/ Tick \/ Cancel
  \/ \E w \in Workers : Step(w) \/ StartRefresh(w)

SchedulerSpec == SchedulerInit /\ [][SchedulerNext]_schedulerVars

\* Time passes, a goroutine that can run runs, a refresh and a rotated stream
\* end.  A poll that would succeed is granted strongly: its timer fires every
\* 250 ms whatever the others do.
SchedulerFairness ==
  /\ WF_schedulerVars(Tick)
  /\ \A w \in Workers : WF_schedulerVars(Step(w)) /\ SF_schedulerVars(Poll(w))

SchedulerFairSpec == SchedulerSpec /\ SchedulerFairness

--------------------------------------------------------------------------------

SchedulerTypeOK ==
  /\ canceled \in BOOLEAN
  /\ stage \in [Workers -> Stages]
  /\ active \in 0..Limit
  /\ requests \in Seq(Keys)
  /\ queuedFor \in [Keys -> 0..4]
  /\ mine \in [Workers -> BOOLEAN]
  /\ busy \in [Workers -> 0..50] /\ trouble \in [Workers -> 0..80]
  /\ cost \in [Workers -> Nat]

\* No slot leaks and none is given out twice, through rotations, failures,
\* cancellation and shared keys: the counter is the number of open streams.
SlotsAreAccounted == active = Cardinality(Streams) /\ active <= Limit

\* Whoever is in the table can still answer: a request whose workers have all
\* gone would win every comparison and keep the free slots idle.
NoOrphanRequest ==
  \A k \in ToSet(requests) :
    \E w \in Workers : KeyOf[w] = k /\ stage[w] \in {"try", "waiting", "refreshing"}

\* A free slot does not stay idle while somebody waits for one.
IdleSlotIsTaken ==
  LET idle == active < Limit /\ requests # <<>>
  IN  idle ~> ~idle

\* A worker that wants a slot and has no stream.
Queued(w) == stage[w] \in {"try", "waiting", "refreshing"}

\* What its errors and its objects cost a resource leaves it, after four minutes
\* in the queue, at least the score of a low one that waits as long and is as
\* busy as can be: 100 + 80 + busy - cost - trouble >= 10 + 80 + 50.
Healthy(w) == cost[w] + trouble[w] <= 40 + busy[w]

\* A high resource is not starved by low ones, however busy they are, as long as
\* its own errors and objects do not pull its score below theirs.  A high
\* resource whose score is lower can wait for ever while two low ones pass the
\* slot to each other.
HealthyHighIsNotStarved ==
  \A w \in {v \in Workers : Priority[v] = "high"} :
    Queued(w) /\ Healthy(w) ~> ~(Queued(w) /\ Healthy(w))
================================================================================
