----------------------------- MODULE AgentRuns ------------------------------
(* The agent runs of an API server: the store of runs and their events         *)
(* (internal/storage/sqlite/agent.go), the handlers that create, retry, cancel *)
(* and delete (internal/api/agent.go, a2a.go), the goroutine that executes a   *)
(* run and records its progress (internal/agent/eino_runner.go), the children  *)
(* a tool call of a run starts (parallel_investigation_tool.go), the retention *)
(* pass, the clients that follow a run's events (agent.go, a2a_stream.go), and *)
(* the crash, shutdown and recovery of the server.                             *)
(*                                                                             *)
(* A step is one call of the store, which is atomic: a transaction of SQLite.  *)
(* One session; the model answers or fails, the tools return.                  *)
EXTENDS AgentRetention

CONSTANTS
  MaxRuns,       \* runs ever created
  MaxNew,        \* of these, runs that neither retry another nor are a child
  MaxArtifacts,  \* artifacts a run records
  MaxCrashes,    \* times the server stops
  Requests,      \* the requests clients make: "new", "retry", "api", "a2a",
                 \* "delete"; "child" lets a run start children, "retention"
                 \* lets the retention job run
  Faults,        \* "abort": a client that creates a run leaves too early;
                 \* "early": the runner of a child cannot be built
  Cancellers,    \* concurrent cancel requests
  Followers      \* how a client may follow a run: the streams "api" and "a2a",
                 \* or one request for the A2A "task"

Runs == 1 .. MaxRuns
Outcomes == {"completed", "failed", "cancelled"}

ASSUME AgentRunsAssumption ==
  /\ MaxRuns \in Nat /\ MaxNew \in Nat /\ MaxArtifacts \in Nat /\ MaxCrashes \in Nat
  /\ Followers \subseteq {"api", "a2a", "task"}

VARIABLES
  phase,      \* of the server: up, closing, down or recovering
  crashes,
  created,    \* runs created so far
  rs,         \* table agent_runs
  events,     \* table agent_run_events: a run's events
  appended,   \* events ever appended to a run; an event's id
  go,         \* the goroutine that works for a run
  cancel,     \* the cancel requests
  deletion,   \* a request that deletes the session
  retention,  \* the retention pass
  follow      \* the client that follows

vars == <<phase, crashes, created, rs, events, appended, go, cancel, deletion,
          retention, follow>>

Idle == [at |-> "none", ctx |-> FALSE, parent |-> None, cites |-> {}, status |-> "none"]
NoStream == [at |-> "idle", kind |-> "api", run |-> None, term |-> FALSE, cursor |-> 0, id |-> 0,
             got |-> {}, final |-> FALSE]

NoCancel == [at |-> "idle", run |-> None, kind |-> "api", status |-> "none"]
NoPass == [at |-> "idle", runs |-> {}, prunable |-> {}, artifacts |-> {}]

Init ==
  /\ phase = "up" /\ crashes = 0 /\ created = 0
  /\ rs = <<>>
  /\ events = [r \in Runs |-> {}]
  /\ appended = [r \in Runs |-> 0]
  /\ go = [r \in Runs |-> Idle]
  /\ cancel = [c \in Cancellers |-> NoCancel]
  /\ deletion = [at |-> "idle", seen |-> {}]
  /\ retention = NoPass
  /\ follow = NoStream

-----------------------------------------------------------------------------
(* The store.                                                                  *)

Stored(r) == r \in DOMAIN rs
Terminal(r) == IsTerminalRunStatus(rs[r].status)
SessionExists == deletion.at # "done"

\* AppendRunEvent: numbered after the largest number the run's events have.
NextNumber(r) ==
  LET numbers == {e.num : e \in events[r]}
  IN  IF numbers = {} THEN 1 ELSE 1 + CHOOSE n \in numbers : \A k \in numbers : k <= n

Appends(r, type, artifact, status) ==
  /\ appended' = [appended EXCEPT ![r] = @ + 1]
  /\ events' = [events EXCEPT ![r] =
       @ \cup {[id |-> appended[r] + 1, num |-> NextNumber(r), type |-> type,
                artifact |-> artifact, status |-> status]}]

\* An event that ends a run carries the status the writer was given.
AppendRunEvent(r, type, artifact) == Appends(r, type, artifact, "none")
AppendOutcome(r, type, status) == Appends(r, type, None, status)

\* Mutant: any status is overwritten.
Overwritten(r, status) == [rs EXCEPT ![r].status = status]
\* UpdateRunStatus: a status that is terminal stays, and is what the caller gets.
Updated(r, status) ==
  IF Terminal(r) THEN rs ELSE [rs EXCEPT ![r].status = status]

UpdateRunStatus(r, status) == rs' = Updated(r, status)

CreateRun(retryOf, retryRoot, parent) ==
  /\ created < MaxRuns
  /\ SessionExists
  /\ created' = created + 1
  /\ rs' = [x \in DOMAIN rs \cup {created + 1} |->
       IF x \in DOMAIN rs THEN rs[x]
       ELSE [status |-> "queued", session |-> 1, retryOf |-> retryOf,
             retryRoot |-> retryRoot, parent |-> parent]]

\* Rows of the runs in S go, with their events.
DeleteRuns(S) ==
  /\ rs' = [r \in DOMAIN rs \ S |-> rs[r]]
  /\ events' = [r \in Runs |-> IF r \in S THEN {} ELSE events[r]]

HasTerminalEvent(r) == \E e \in events[r] : e.type \in Outcomes

-----------------------------------------------------------------------------
(* The goroutine of a run, and the request that starts it.                     *)

At(r, label) == go[r].at = label
Goto(r, label) == go' = [go EXCEPT ![r].at = label]
Leave(r) == go' = [go EXCEPT ![r] = Idle]

\* The context of a run's store calls. A branch's context derives from that of
\* the run whose tool call started it.
IsChild(r) == go[r].parent # None
Cancelled(r) == go[r].ctx \/ (IsChild(r) /\ go[go[r].parent].ctx)
\* A store call made with that context fails.
Refused(r) == Cancelled(r) \/ ~Stored(r)

others == <<phase, crashes, created, cancel, deletion, retention, follow>>

\* An error ends EinoRunner.Run: the goroutine of a run reports it, a branch
\* marks its child run.
Broken(r) == Goto(r, IF IsChild(r) THEN "mark" ELSE "report")
\* EinoRunner.Run returns without an error. A branch that ran out of time, or
\* has no answer, is failed all the same.
Returns(r) == IF IsChild(r) THEN (Cancelled(r) /\ Goto(r, "mark")) \/ (~Cancelled(r) /\ Leave(r))
              ELSE Leave(r)

\* One call that appends an event, with the run's context.
Records(r, from, type, artifact, to) ==
  /\ At(r, from)
  /\ IF Refused(r) THEN Broken(r) /\ UNCHANGED <<events, appended>>
     ELSE AppendRunEvent(r, type, artifact) /\ Goto(r, to)
  /\ UNCHANGED <<others, rs>>

\* handleCreateAgentRun, createA2ARun: the row, then the first event, then the
\* goroutine. Both use the request's context.
CreateAgentRun ==
  /\ phase = "up" /\ "new" \in Requests /\ created < MaxNew
  /\ CreateRun(None, None, None)
  /\ Goto(created + 1, "announce")
  /\ UNCHANGED <<phase, crashes, events, appended, cancel, deletion, retention, follow>>

\* handleRetryAgentRun: of a terminal run; a copy of its metadata, with what it
\* retries.
RetryAgentRun(o) ==
  /\ phase = "up" /\ "retry" \in Requests
  /\ Stored(o) /\ Terminal(o)
  /\ CreateRun(o, RetryRoot(rs, o), rs[o].parent)
  /\ Goto(created + 1, "announce")
  /\ UNCHANGED <<phase, crashes, events, appended, cancel, deletion, retention, follow>>

\* recordRunCreated. When it fails the handler returns and the run stays queued.
RecordRunCreated(r) ==
  /\ At(r, "announce") /\ ~IsChild(r)
  /\ \/ Stored(r) /\ AppendRunEvent(r, "created", None) /\ Goto(r, "launch")
     \/ ~Stored(r) /\ Leave(r) /\ UNCHANGED <<events, appended>>
     \/ "abort" \in Faults /\ Leave(r) /\ UNCHANGED <<events, appended>>
  /\ UNCHANGED <<others, rs>>

\* startAgentRun, registerAgentRunCancel: from here on the run can be cancelled.
StartAgentRun(r) == At(r, "launch") /\ Goto(r, "input") /\ UNCHANGED <<others, rs, events, appended>>

RecordCompletionInput(r) == Records(r, "input", "input", None, "begin")

\* einoRunRecorder.Start: a run that is terminal already is executed silently.
Begin(r) ==
  /\ At(r, "begin")
  /\ IF Refused(r) THEN Broken(r) /\ UNCHANGED rs
     ELSE /\ UpdateRunStatus(r, "running")
          /\ Goto(r, IF Updated(r, "running")[r].status = "running" THEN "begun" ELSE "work")
  /\ UNCHANGED <<others, events, appended>>

Begun(r) == Records(r, "begun", "started", None, "work")

\* A tool returned and Record stored its output as an artifact. (At most three
\* events precede the artifacts of a run.)
RecordArtifact(r) ==
  /\ appended[r] < 3 + MaxArtifacts
  /\ Records(r, "work", "artifact", appended[r] + 1, "work")

\* The iteration of the agent is over, or one of its steps failed.
Iterated(r) == At(r, "work") /\ Goto(r, "complete") /\ UNCHANGED <<others, rs, events, appended>>
AgentErrs(r) == At(r, "work") /\ Goto(r, "fail") /\ UNCHANGED <<others, rs, events, appended>>

\* Mutant: the status before the answer.
CompleteFirst(r) ==
  /\ At(r, "complete") /\ ~Refused(r) /\ ~Terminal(r)
  /\ UpdateRunStatus(r, "completed") /\ Goto(r, "answer")
  /\ UNCHANGED <<others, events, appended>>
\* einoRunRecorder.Complete, one store call a step. The answer may be empty.
Complete(r) ==
  /\ At(r, "complete")
  /\ IF Refused(r) THEN Broken(r)
     ELSE IF Terminal(r) THEN Returns(r)
     ELSE Goto(r, "answer") \/ Goto(r, "settle")
  /\ UNCHANGED <<others, rs, events, appended>>

\* verifiedAnswerCitations picks among the run's own artifacts.
Answer(r) ==
  /\ At(r, "answer")
  /\ IF Refused(r) THEN Broken(r) /\ UNCHANGED <<events, appended>>
     ELSE /\ AppendRunEvent(r, "final", None)
          /\ \E a \in {{}} \cup {{e.artifact} : e \in {x \in events[r] : x.type = "artifact"}} :
               go' = [go EXCEPT ![r].at = "cite", ![r].cites = a]
  /\ UNCHANGED <<others, rs>>

Cite(r) ==
  \/ \E a \in go[r].cites : Records(r, "cite", "citation", a, "settle")
  \/ /\ At(r, "cite") /\ go[r].cites = {}
     /\ Goto(r, "settle") /\ UNCHANGED <<others, rs, events, appended>>

Settle(r) ==
  /\ At(r, "settle")
  /\ IF Refused(r) THEN Broken(r) /\ UNCHANGED rs
     ELSE /\ UpdateRunStatus(r, "completed")
          /\ IF Updated(r, "completed")[r].status = "completed" THEN Goto(r, "tell") ELSE Returns(r)
  /\ UNCHANGED <<others, events, appended>>

TellCompleted(r) ==
  /\ At(r, "tell")
  /\ IF Refused(r) THEN Broken(r) /\ UNCHANGED <<events, appended>>
     ELSE AppendOutcome(r, "completed", "completed") /\ Returns(r)
  /\ UNCHANGED <<others, rs>>

\* einoRunRecorder.Fail, then Run returns the error in any case.
Fail(r) ==
  /\ At(r, "fail")
  /\ IF Refused(r) \/ Terminal(r) THEN Broken(r) ELSE Goto(r, "failing")
  /\ UNCHANGED <<others, rs, events, appended>>
FailError(r) == Records(r, "failing", "error", None, "failSettle")
FailSettle(r) ==
  /\ At(r, "failSettle")
  /\ IF Refused(r) THEN Broken(r) /\ UNCHANGED rs
     ELSE /\ UpdateRunStatus(r, "failed")
          /\ IF Updated(r, "failed")[r].status = "failed" THEN Goto(r, "failTell") ELSE Broken(r)
  /\ UNCHANGED <<others, events, appended>>
FailTell(r) ==
  /\ At(r, "failTell")
  /\ Broken(r)
  /\ IF Refused(r) THEN UNCHANGED <<events, appended>> ELSE AppendOutcome(r, "failed", "failed")
  /\ UNCHANGED <<others, rs>>

\* recordAgentRunFailure, with a context of its own.
Report(r) ==
  /\ At(r, "report")
  /\ IF ~Stored(r) THEN Leave(r) ELSE IF Terminal(r) THEN Leave(r) ELSE Goto(r, "reporting")
  /\ UNCHANGED <<others, rs, events, appended>>
ReportError(r) ==
  /\ At(r, "reporting")
  /\ Goto(r, "reportSettle")
  /\ IF Stored(r) THEN AppendRunEvent(r, "error", None) ELSE UNCHANGED <<events, appended>>
  /\ UNCHANGED <<others, rs>>
ReportSettle(r) ==
  /\ At(r, "reportSettle")
  /\ IF ~Stored(r) THEN Leave(r) /\ UNCHANGED rs
     ELSE /\ UpdateRunStatus(r, "failed")
          /\ IF Updated(r, "failed")[r].status = "failed" THEN Goto(r, "reportTell") ELSE Leave(r)
  /\ UNCHANGED <<others, events, appended>>
ReportTell(r) ==
  /\ At(r, "reportTell")
  /\ Leave(r)
  /\ IF Stored(r) THEN AppendOutcome(r, "failed", "failed") ELSE UNCHANGED <<events, appended>>
  /\ UNCHANGED <<others, rs>>

-----------------------------------------------------------------------------
(* A tool call that investigates in a child run (one branch at a time here).   *)

\* createChildRun; the parent waits for the branch.
SpawnChild(r) ==
  /\ "child" \in Requests
  /\ At(r, "work") /\ ~IsChild(r) /\ ~Refused(r)
  /\ CreateRun(None, None, r)
  /\ go' = [go EXCEPT ![r].at = "tool",
                      ![created + 1] = [Idle EXCEPT !.at = "announce", !.parent = r]]
  /\ UNCHANGED <<phase, crashes, events, appended, cancel, deletion, retention, follow>>

ToolReturns(r) ==
  /\ At(r, "tool")
  /\ \A c \in Runs : go[c].parent # r
  /\ Goto(r, "work")
  /\ UNCHANGED <<others, rs, events, appended>>

\* NewEinoRunner, appendChildRunCreatedEvent: on an error the branch returns and
\* the child stays queued.
AnnounceChild(r) ==
  /\ At(r, "announce") /\ IsChild(r)
  /\ \/ ~Refused(r) /\ AppendRunEvent(r, "created", None) /\ Goto(r, "begin")
     \/ Refused(r) /\ Leave(r) /\ UNCHANGED <<events, appended>>
     \/ "early" \in Faults /\ Leave(r) /\ UNCHANGED <<events, appended>>
  /\ UNCHANGED <<others, rs>>

BranchTimesOut(r) ==
  /\ IsChild(r) /\ ~go[r].ctx
  /\ go' = [go EXCEPT ![r].ctx = TRUE]
  /\ UNCHANGED <<others, rs, events, appended>>

\* markChildRunFailed, without the branch's context: run.failed is appended
\* whatever status UpdateRunStatus returned.
Mark(r) ==
  /\ At(r, "mark")
  /\ IF ~Stored(r) THEN Leave(r) ELSE IF Terminal(r) THEN Leave(r) ELSE Goto(r, "markSettle")
  /\ UNCHANGED <<others, rs, events, appended>>
MarkSettle(r) ==
  /\ At(r, "markSettle")
  /\ IF Stored(r)
     THEN /\ UpdateRunStatus(r, "failed")
          /\ go' = [go EXCEPT ![r].at = "markError", ![r].status = Updated(r, "failed")[r].status]
     ELSE Leave(r) /\ UNCHANGED rs
  /\ UNCHANGED <<others, events, appended>>
MarkAppends(r, from, append, next) ==
  /\ At(r, from)
  /\ IF Stored(r) THEN append /\ next ELSE Leave(r) /\ UNCHANGED <<events, appended>>
  /\ UNCHANGED <<others, rs>>
MarkError(r) == MarkAppends(r, "markError", AppendRunEvent(r, "error", None), Goto(r, "markTell"))
MarkTell(r) == MarkAppends(r, "markTell", AppendOutcome(r, "failed", go[r].status), Leave(r))

Goroutine(r) ==
  \/ RecordRunCreated(r) \/ StartAgentRun(r) \/ RecordCompletionInput(r)
  \/ Begin(r) \/ Begun(r) \/ RecordArtifact(r) \/ Iterated(r) \/ AgentErrs(r)
  \/ Complete(r) \/ Answer(r) \/ Cite(r) \/ Settle(r) \/ TellCompleted(r)
  \/ Fail(r) \/ FailError(r) \/ FailSettle(r) \/ FailTell(r)
  \/ Report(r) \/ ReportError(r) \/ ReportSettle(r) \/ ReportTell(r)
  \/ ToolReturns(r) \/ AnnounceChild(r)
  \/ Mark(r) \/ MarkSettle(r) \/ MarkError(r) \/ MarkTell(r)

-----------------------------------------------------------------------------
(* Requests that cancel a run. handleCancelAgentRun and handleA2ACancelTask    *)
(* make the same calls, but only the first looks at the status it got back.    *)

goOthers == <<phase, crashes, created, appended, deletion, retention, follow>>

CancelLooks(c, r, kind) ==
  /\ phase = "up" /\ kind \in Requests
  /\ cancel[c].at = "idle"
  /\ Stored(r) /\ ~Terminal(r)
  /\ cancel' = [cancel EXCEPT ![c] = [at |-> "stop", run |-> r, kind |-> kind, status |-> "none"]]
  /\ UNCHANGED <<goOthers, rs, events, go>>

\* cancelAgentRunExecution: a run is registered while its goroutine executes.
Registered(r) == ~IsChild(r) /\ go[r].at \notin {"none", "announce", "launch"}
Stopped(S) == [r \in Runs |-> IF r \in S /\ Registered(r) THEN [go[r] EXCEPT !.ctx = TRUE] ELSE go[r]]

CancelStops(c) ==
  /\ cancel[c].at = "stop"
  /\ go' = Stopped({cancel[c].run})
  /\ cancel' = [cancel EXCEPT ![c].at = "settle"]
  /\ UNCHANGED <<goOthers, rs, events>>

CancelSettles(c) ==
  LET r   == cancel[c].run
      got == IF Stored(r) THEN Updated(r, "cancelled")[r].status ELSE "none"
  IN  /\ cancel[c].at = "settle"
      /\ IF Stored(r) THEN UpdateRunStatus(r, "cancelled") ELSE UNCHANGED rs
      /\ cancel' = [cancel EXCEPT ![c] =
           IF got = "cancelled" \/ (cancel[c].kind = "a2a" /\ Stored(r))
           THEN [@ EXCEPT !.at = "tell", !.status = got] ELSE NoCancel]
      /\ UNCHANGED <<goOthers, events, go>>

CancelTells(c) ==
  /\ cancel[c].at = "tell"
  /\ cancel' = [cancel EXCEPT ![c] = NoCancel]
  /\ IF Stored(cancel[c].run) THEN AppendOutcome(cancel[c].run, "cancelled", cancel[c].status)
     ELSE UNCHANGED <<events, appended>>
  /\ UNCHANGED <<phase, crashes, created, deletion, retention, follow, rs, go>>

\* handleDeleteAgentSession: reads the session's runs, cancels those that are
\* not terminal, deletes the session; its runs and events go with it.
DeletionLooks ==
  /\ phase = "up" /\ "delete" \in Requests /\ deletion.at = "idle"
  /\ deletion' = [at |-> "stop", seen |-> {r \in DOMAIN rs : ~Terminal(r)}]
  /\ UNCHANGED <<phase, crashes, created, rs, events, appended, go, cancel, retention, follow>>
DeletionStops ==
  /\ deletion.at = "stop"
  /\ go' = Stopped(deletion.seen)
  /\ deletion' = [deletion EXCEPT !.at = "delete"]
  /\ UNCHANGED <<phase, crashes, created, rs, events, appended, cancel, retention, follow>>
DeletionDeletes ==
  /\ deletion.at = "delete"
  /\ DeleteRuns(DOMAIN rs)
  /\ deletion' = [at |-> "done", seen |-> {}]
  /\ UNCHANGED <<phase, crashes, created, appended, go, cancel, retention, follow>>

-----------------------------------------------------------------------------
(* ApplyAgentRetention: reads the runs, then the events, then deletes by id.   *)

retOthers == <<phase, crashes, created, appended, go, cancel, deletion, follow>>

RetentionReadsRuns ==
  /\ "retention" \in Requests /\ phase \in {"up", "closing"}
  /\ retention.at = "idle"
  /\ retention' = [at |-> "plan", runs |-> SupersededRuns(rs),
                   prunable |-> ArtifactPruneRuns(rs), artifacts |-> {}]
  /\ UNCHANGED <<retOthers, rs, events>>

RetentionPlans ==
  LET evs == [r \in Runs |-> {[e EXCEPT !.id = <<r, @>>, !.artifact = <<r, @>>] : e \in events[r]}]
      unused == {e.id : e \in UnreferencedArtifacts(retention.runs, retention.prunable, evs)}
  IN  /\ retention.at = "plan"
      /\ retention' = IF retention.runs = {} /\ unused = {} THEN NoPass
                      ELSE [at |-> "delete", runs |-> retention.runs, prunable |-> {},
                            artifacts |-> unused]
      /\ UNCHANGED <<retOthers, rs, events>>

RetentionDeletes ==
  /\ retention.at = "delete"
  /\ rs' = [r \in DOMAIN rs \ retention.runs |-> rs[r]]
  /\ events' = [r \in Runs |-> IF r \in retention.runs THEN {}
       ELSE {e \in events[r] : <<r, e.id>> \notin retention.artifacts}]
  /\ retention' = NoPass
  /\ UNCHANGED retOthers

-----------------------------------------------------------------------------
(* The server. Close cancels the goroutines, waits at most 5 s for them; then, *)
(* as after a crash, what they had not recorded is not recorded.               *)

Close ==
  /\ phase = "up" /\ crashes < MaxCrashes
  /\ phase' = "closing"
  /\ go' = Stopped(Runs)
  /\ UNCHANGED <<crashes, created, rs, events, appended, cancel, deletion, retention, follow>>

Exit ==
  /\ phase \in {"up", "closing", "recovering"} /\ crashes < MaxCrashes
  /\ phase' = "down" /\ crashes' = crashes + 1
  /\ go' = [r \in Runs |-> Idle]
  /\ cancel' = [c \in Cancellers |-> NoCancel]
  /\ deletion' = IF deletion.at = "done" THEN deletion ELSE [at |-> "idle", seen |-> {}]
  /\ retention' = NoPass
  /\ follow' = [follow EXCEPT !.at = IF @ = "idle" THEN @ ELSE "cut"]
  /\ UNCHANGED <<created, rs, events, appended>>

\* Mutant: only the runs that were running are failed.
RestartRunning ==
  /\ phase = "down" /\ phase' = "recovering"
  /\ go' = [r \in Runs |-> IF Stored(r) /\ rs[r].status = "running" THEN [Idle EXCEPT !.at = "report"] ELSE Idle]
  /\ UNCHANGED <<crashes, created, rs, events, appended, cancel, deletion, retention, follow>>

\* NewServer, recoverInterruptedAgentRuns: every queued or running run is failed
\* before the server serves.
Restart ==
  /\ phase = "down"
  /\ phase' = "recovering"
  /\ go' = [r \in Runs |-> IF Stored(r) /\ ~Terminal(r) THEN [Idle EXCEPT !.at = "report"] ELSE Idle]
  /\ UNCHANGED <<crashes, created, rs, events, appended, cancel, deletion, retention, follow>>

Recovered ==
  /\ phase = "recovering" /\ \A r \in Runs : At(r, "none")
  /\ phase' = "up"
  /\ UNCHANGED <<crashes, created, rs, events, appended, go, cancel, deletion, retention, follow>>

-----------------------------------------------------------------------------
(* The streams of a run's events.                                              *)

folOthers == <<phase, crashes, created, rs, events, appended, go, cancel, deletion, retention>>

On(kind, at) == follow.kind = kind /\ follow.at = at
Followed == follow.run

\* Mutant: one event too far.
WellAfter(e) == e.num > follow.cursor + 1
\* agentRunEventAfter: by number, then by the random identifier.
After(e) == e.num > follow.cursor
Level(e) == e.num = follow.cursor /\ e.id # follow.id /\ follow.id # 0

\* writeServerSentEvents: the events after the cursor, and the new cursor. Of
\* the events level with the cursor any may be after it.
Writes(to) ==
  LET fresh == {e \in events[Followed] : After(e)}
      last  == CHOOSE e \in fresh : \A x \in fresh : x.num <= e.num
  IN  \E lucky \in SUBSET {e \in events[Followed] : Level(e)} :
        follow' = [follow EXCEPT !.at = to,
          !.got = @ \cup {e.id : e \in fresh \cup lucky},
          !.cursor = IF fresh = {} THEN @ ELSE last.num,
          !.id = IF fresh = {} THEN @ ELSE last.id]

\* A run that is no longer stored closes the stream.
Streams(kind, at, step) ==
  /\ On(kind, at)
  /\ IF Stored(Followed) THEN step ELSE follow' = [follow EXCEPT !.at = "cut"]
  /\ UNCHANGED folOthers

\* handleAgentRunEvents?follow=true: list, look at the status, and again every
\* 250 ms; once the status is terminal flushFinalAgentRunEvents.
Follow(kind, r) ==
  /\ phase = "up" /\ Stored(r) /\ follow.at = "idle"
  /\ follow' = [follow EXCEPT !.at = IF kind = "api" THEN "list" ELSE "status",
                              !.kind = kind, !.run = r]
  /\ UNCHANGED folOthers

ListAndWrite == Streams("api", "list", Writes("status"))
LookAtStatus ==
  Streams("api", "status",
          follow' = [follow EXCEPT !.at = IF Terminal(Followed) THEN "flush" ELSE "list"])
FlushFinal ==
  Streams("api", "flush", Writes(IF HasTerminalEvent(Followed) THEN "done" ELSE "flush"))
\* Mutant: no deadline.
FlushWaits == FALSE
\* The deadline of one second.
FlushGivesUp == Streams("api", "flush", follow' = [follow EXCEPT !.at = "cut"])

Newest(r) ==
  IF events[r] = {} THEN [num |-> 0, id |-> 0]
  ELSE LET last == CHOOSE e \in events[r] : \A x \in events[r] : x.num <= e.num
       IN  [num |-> last.num, id |-> last.id]

\* streamA2ATask. A snapshot reads the status, then the events
\* (writeA2ATaskSnapshot); between two snapshots the loop reads both as well.
SnapshotStatus ==
  Streams("a2a", "status", follow' = [follow EXCEPT !.at = "snapshot", !.final = Terminal(Followed)])
Snapshot ==
  Streams("a2a", "snapshot",
          follow' = [follow EXCEPT
            !.at = IF follow.term THEN "done" ELSE "look",
            !.cursor = Newest(Followed).num, !.id = Newest(Followed).id])
StreamLooks ==
  Streams("a2a", "look", follow' = [follow EXCEPT !.at = "lists", !.term = Terminal(Followed)])

\* The loop ends after this round when the status it read was terminal and the
\* events it lists hold a terminal one.
StreamLists ==
  LET ends == follow.term /\ HasTerminalEvent(Followed)
      new  == Newest(Followed) # [num |-> follow.cursor, id |-> follow.id]
  IN  Streams("a2a", "lists",
              follow' = [follow EXCEPT !.term = ends,
                !.at = IF new THEN "status" ELSE IF ends THEN "done" ELSE "look"])

\* handleA2ASendMessage: the handler that created the run waits for it.
SendMessage(r) ==
  /\ phase = "up" /\ "task" \in Followers /\ follow.at = "idle"
  /\ Stored(r) /\ go[r].at \notin {"announce", "launch"}
  /\ follow' = [follow EXCEPT !.at = "wait", !.kind = "task", !.run = r]
  /\ UNCHANGED folOthers

\* handleA2AGetTask, handleA2AListTasks: the run as it is.
GetTask(r) ==
  /\ phase = "up" /\ "task" \in Followers /\ follow.at = "idle" /\ Stored(r)
  /\ follow' = [follow EXCEPT !.at = "task", !.kind = "task", !.run = r,
                              !.final = rs[r].status = "completed"]
  /\ UNCHANGED folOthers

\* waitA2ARun polls; its last look finds a terminal status or is the last before
\* the deadline (the first one if the client will not wait).
WaitForRun ==
  Streams("task", "wait",
          follow' = [follow EXCEPT !.at = "task", !.final = rs[Followed].status = "completed"])

\* a2aTaskFromRun: the status from before, the events of now.
TaskFromRun ==
  Streams("task", "task",
          follow' = [follow EXCEPT !.at = "done", !.got = {e.id : e \in events[Followed]}])

Stream == \/ ListAndWrite \/ LookAtStatus \/ FlushFinal \/ FlushGivesUp
          \/ SnapshotStatus \/ Snapshot \/ StreamLooks \/ StreamLists
          \/ WaitForRun \/ TaskFromRun

-----------------------------------------------------------------------------
CancelRequest(c) == CancelStops(c) \/ CancelSettles(c) \/ CancelTells(c)
DeleteRequest == DeletionStops \/ DeletionDeletes
RetentionPass == RetentionPlans \/ RetentionDeletes

Stops == Close \/ Exit
Next ==
  \/ CreateAgentRun
  \/ \E o \in Runs : RetryAgentRun(o)
  \/ \E r \in Runs : Goroutine(r) \/ SpawnChild(r) \/ BranchTimesOut(r)
  \/ \E c \in Cancellers : CancelRequest(c)
       \/ \E r \in Runs, kind \in {"api", "a2a"} : CancelLooks(c, r, kind)
  \/ DeletionLooks \/ DeleteRequest
  \/ RetentionReadsRuns \/ RetentionPass
  \/ Stops \/ Restart \/ Recovered
  \/ \E kind \in Followers \ {"task"}, r \in Runs : Follow(kind, r)
  \/ \E r \in Runs : SendMessage(r) \/ GetTask(r)
  \/ Stream

\* The model answers, so an execution goes on; a request that started ends; a
\* server that stopped is started again.
Fairness ==
  /\ \A r \in Runs : WF_vars(Goroutine(r))
  /\ \A r \in Runs : WF_vars(Iterated(r))
  /\ \A c \in Cancellers : WF_vars(CancelRequest(c))
  /\ WF_vars(DeleteRequest) /\ WF_vars(RetentionPass)
  /\ WF_vars(Restart) /\ WF_vars(Recovered)
  /\ WF_vars(Stream)

Spec == Init /\ [][Next]_vars
FairSpec == Spec /\ Fairness

-----------------------------------------------------------------------------
(* Properties.                                                                 *)

\* What the answer of a completed run cites is still there, whichever step of the
\* retention pass read the run while it worked.
CitationsResolve ==
  \A r \in Runs : Stored(r) /\ rs[r].status = "completed" =>
    \A e \in events[r] : e.type = "citation" =>
      \E x \in events[r] : x.type = "artifact" /\ x.artifact = e.artifact

\* Retention removes a completed run only when a completed run replaces it.
Answered == \E r \in DOMAIN rs : rs[r].status = "completed"
AnAnswerStays == [][Answered => Answered' \/ deletion'.at = "done"]_vars

\* What a client sees of a run: its outcome, and the one that its events tell.
Shown == [r \in Runs |-> IF r > created THEN "none" ELSE IF ~Stored(r) THEN "gone"
                         ELSE IF Terminal(r) THEN rs[r].status ELSE "open"]
Told  == [r \in Runs |-> {e.status : e \in events[r]} \ {"none"}]

\* A client sees a run as RunOutcome says: it gets one outcome, once, and no event
\* carries another one, although several writers race for it.
Outcome == INSTANCE RunOutcome WITH outcome <- Shown, told <- Told
OneOutcome == Outcome!Spec

\* Retention never takes an artifact from an investigation that goes on: of a
\* run, or of an ancestor of it, that has no outcome yet.
WorkInProgressIsKept ==
  [][\A r \in DOMAIN rs \cap DOMAIN rs' :
       events'[r] # events[r] /\ appended'[r] = appended[r]
         => \A p \in Reached(Parents(rs), r) \cap DOMAIN rs : Terminal(p)]_vars

\* A run whose request was answered gets an outcome, although the server stops
\* and starts, requests cancel and delete, branches time out.
RunsEnd == \A r \in Runs : go[r].at = "input" ~> ~Stored(r) \/ Terminal(r)

\* A task that says "completed" carries the answer of the run, although status and
\* answer are two reads, and the run writes them in two steps of its own.
CompletedTaskHasItsAnswer ==
  follow.kind = "task" /\ follow.at = "done" /\ follow.final =>
    \A e \in events[Followed] : e.type = "final" => e.id \in follow.got

\* A client that follows a run through the API is released.
FollowersAreReleased ==
  follow.kind = "api" /\ follow.at = "list" ~> follow.at \in {"done", "cut"}

\* A client that follows a run is sent every event up to its cursor: what the pass
\* of each poll left out cannot turn up behind it. And a stream of either door that
\* ends in the normal way has sent the event that ends the run.
FollowerSkipsNothing ==
  Followed # None /\ Stored(Followed) =>
    /\ follow.kind = "api" =>
         \A e \in events[Followed] : e.num <= follow.cursor => e.id \in follow.got
    /\ follow.kind # "task" /\ follow.at = "done" =>
         \E e \in events[Followed] : e.type \in Outcomes /\ e.num <= follow.cursor
=============================================================================
