----------------------------- MODULE AgentTurn ------------------------------
(* One turn of an agent: a run of a session is given its conversation, its    *)
(* model is asked until it calls no more tools, and what happened is recorded *)
(* (internal/agent/eino_runner.go, eino_model_context.go, eino_tool_budget.go;*)
(* internal/api/agent.go starts it, internal/cli/agent_runner.go configures   *)
(* it).                                                                       *)
(*                                                                            *)
(* Two goroutines work for a run. The agent's, in the Eino library, calls the *)
(* model and the tools and puts what they say in a queue; the loop of         *)
(* EinoRunner.Run takes it from there and appends it to the run's events. The *)
(* requests to the model are recorded by the agent's goroutine: their order   *)
(* among the other events is not that in which things happened.               *)
EXTENDS AgentContext, AnswerCitations, ScriptTool

CONSTANTS
  Scenarios,      \* the instances to explore, see Init
  MaxIterations,  \* requests a turn may make
  WarnAt,         \* tool messages that bring a warning (warnAtToolCalls)
  RepeatAt        \* messages of one tool that do (repeatedToolWarningThreshold)

ASSUME TurnAssumption ==
  /\ MaxIterations \in Nat \ {0} /\ WarnAt \in Nat /\ RepeatAt \in Nat
  /\ \A s \in Scenarios :
       s.runs \in Nat /\ \A reply \in s.replies : reply.tools \in Seq(STRING) /\ reply.text \in TextType

VARIABLES
  scenario,  \* never changes
  rs,        \* the runs, as in AgentRetention
  log,       \* their events
  turn,      \* what the agent's goroutine knows of a run
  queue,     \* what it said and the loop has not taken yet
  todo,      \* events the loop is about to append
  loop,      \* the loop of a run
  timings    \* toolTimingStore of the server's runner, by tool call

turnVars == <<scenario, rs, log, turn, queue, todo, loop, timings>>
vars == <<turnVars, scriptVars>>

Runs == 1 .. scenario.runs
\* `reply` is what the model said last, `calls` are the tool calls it has made.
NoTurn == [at |-> "none", messages |-> <<>>, reply |-> Said("assistant", None), results |-> <<>>,
           calls |-> {}, asked |-> 0]
NoTiming == [run |-> None, call |-> None]
Loop(at) == [at |-> at, answer |-> NoText, drafts |-> {}, cites |-> <<>>, told |-> 0]

\* A scenario says how many runs there are, of what kind: `parent` # None for
\* the run of a subagent, whose runner is not a streaming one; what the model
\* may reply, what the tools may return, and what clients ask for.
Init ==
  /\ scenario \in Scenarios
  /\ rs = <<>>
  /\ log = [r \in Runs |-> <<>>]
  /\ turn = [r \in Runs |-> NoTurn]
  /\ queue = [r \in Runs |-> <<>>]
  /\ todo = [r \in Runs |-> <<>>]
  /\ loop = [r \in Runs |-> Loop("none")]
  /\ timings = [c \in Calls |-> NoTiming]
  /\ ScriptInit

-----------------------------------------------------------------------------
Event(type) == [type |-> type]
Spoke(type, text) == [type |-> type, text |-> text]
Message(m) == [type |-> "completion.message", message |-> m]

Streams(r) == rs[r].parent = None
Live(r) == rs[r].status \in {"queued", "running"}
Appended(r, events) == [log EXCEPT ![r] = @ \o events]

\* handleCreateAgentRun and handleRetryAgentRun: a run is created, its
\* conversation read, and its creation recorded, before its goroutine starts.
\* Only a run that has ended is retried.
CreateRun(retryOf) ==
  LET r   == Cardinality(DOMAIN rs) + 1
      new == [status |-> "queued", session |-> 1, retryOf |-> retryOf,
              retryRoot |-> IF retryOf = None THEN None ELSE ReplayRoot(rs, retryOf),
              parent |-> scenario.parent]
  IN  /\ r \in Runs
      /\ scenario.overlap \/ \A x \in DOMAIN rs : ~Live(x) /\ loop[x].at = "returned"
      /\ retryOf # None => scenario.retries /\ retryOf \in DOMAIN rs /\ ~Live(retryOf)
      /\ rs' = [x \in 1 .. r |-> IF x = r THEN new ELSE rs[x]]
      /\ log' = Appended(r, <<Event("run.created")>>)
      /\ turn' = [turn EXCEPT ![r].at = "created",
                              ![r].messages = IF new.parent = None THEN MessagesForRun(rs', log, r)
                                              ELSE <<Question(r)>>]
      /\ UNCHANGED <<scenario, queue, todo, loop, timings, scriptVars>>

\* startAgentRun records the question (recordCompletionInput), unless it is a
\* subagent's; EinoRunner.Run then says that the run runs (Start).
Start(r) ==
  /\ turn[r].at = "created" /\ Live(r)
  /\ log' = Appended(r, (IF Streams(r) THEN <<Message(Question(r))>> ELSE <<>>)
                         \o <<Event("run.started")>>)
  /\ rs' = [rs EXCEPT ![r].status = "running"]
  /\ turn' = [turn EXCEPT ![r].at = "thinking"]
  /\ loop' = [loop EXCEPT ![r] = Loop("running")]
  /\ UNCHANGED <<scenario, queue, todo, timings, scriptVars>>

-----------------------------------------------------------------------------
(* The agent's goroutine.                                                     *)

Warning == [Said("system", None) EXCEPT !.size = "warning"]

\* toolBudgetSignal. The tools that earlier turns used count.
Pressed(messages) ==
  LET uses == {i \in DOMAIN messages : messages[i].role = "tool"}
  IN  \/ Cardinality(uses) >= WarnAt
      \/ \E i \in uses : Cardinality({j \in uses : messages[j].tool = messages[i].tool}) >= RepeatAt

\* BeforeModelRewriteState: one warning, that stays.
Warned(messages) ==
  IF Pressed(messages) /\ Warning \notin ToSet(messages) THEN Append(messages, Warning)
  ELSE messages

\* The request is recorded, then made (modelContextRecordingModel).
AskModel(r) ==
  LET request == Warned(turn[r].messages)
  IN  /\ turn[r].at = "thinking" /\ Live(r) /\ turn[r].asked < MaxIterations
      /\ log' = Appended(r, <<[type |-> "completion.request", messages |-> request]>>)
      /\ turn' = [turn EXCEPT ![r].at = "asked", ![r].messages = request, ![r].asked = @ + 1]
      /\ UNCHANGED <<scenario, rs, queue, todo, loop, timings, scriptVars>>

\* The queue carries messages, with the output of a tool, and an error last.
Tell(r, m, output) == queue' = [queue EXCEPT ![r] = Append(@, [message |-> m, output |-> output])]
NoOutput == [tool |-> "none"]
Error == [Said("error", None) EXCEPT !.size = "error"]

UsedIds == UNION {turn[r].calls : r \in Runs}

\* The next ids of n calls: a provider never gives two calls the same.
FreshIds(n) ==
  LET first == IF UsedIds = {} THEN 1 ELSE 1 + CHOOSE c \in UsedIds : \A d \in UsedIds : d <= c
  IN  [i \in 1 .. n |-> first + i - 1]

\* The model says something, and names the tools it wants.
ModelReplies(r) ==
  /\ turn[r].at = "asked" /\ Live(r)
  /\ \E reply \in scenario.replies :
       LET calls == FreshIds(Len(reply.tools))
           m     == [Answered(r, reply.text) EXCEPT !.calls = calls, !.tools = reply.tools]
       IN  /\ ToSet(calls) \subseteq Calls
           /\ Tell(r, m, NoOutput)
           /\ turn' = [turn EXCEPT
                ![r].at = IF calls = <<>> THEN "over" ELSE "calling",
                ![r].messages = Append(@, m),
                ![r].reply = m,
                ![r].calls = @ \cup ToSet(calls),
                ![r].results = <<>>]
  /\ UNCHANGED <<scenario, rs, log, todo, loop, timings, scriptVars>>

\* A failed request, or one too many, ends the agent.
AgentFails(r) ==
  /\ \/ turn[r].at = "asked" /\ scenario.faults
     \/ turn[r].at = "thinking" /\ turn[r].asked = MaxIterations
  /\ Live(r)
  /\ Tell(r, Error, NoOutput)
  /\ turn' = [turn EXCEPT ![r].at = "over"]
  /\ UNCHANGED <<scenario, rs, log, todo, loop, timings, scriptVars>>

\* toolOutputErrorMessage: an error is a field of the output, or of the text that
\* an MCP tool wrapped it in.
Failed(output) == "error" \in output.has

Asked(r) == turn[r].reply
ToolOf(r, c) == Asked(r).tools[CHOOSE i \in DOMAIN Asked(r).calls : Asked(r).calls[i] = c]
Open(r) == IF turn[r].at = "calling" THEN ToSet(Asked(r).calls) \ DOMAIN turn[r].results ELSE {}

\* toolTimingStore.put. A subagent's runner has a store of its own.
Put(r, c) == [timings EXCEPT ![c] = [run |-> r, call |-> c]]

\* A tool returns (toolTimingMiddleware). An error of it becomes its output
\* (recoverableTool).
ToolReturns(r, c) ==
  LET tool == ToolOf(r, c)
  IN  /\ c \in Open(r)
      /\ tool = "kube_insight_js" => At(c, "done") \/ At(c, "failed")
      /\ timings' = Put(r, c)
      /\ \E output \in {o \in scenario.outputs : o.tool = tool} :
           LET m == [Said("tool", r) EXCEPT !.call = c, !.size = output.size, !.tool = tool]
           IN  /\ tool = "kube_insight_js" => Failed(output) = At(c, "failed")
               /\ Tell(r, m, output)
               /\ turn' = [turn EXCEPT ![r].results =
                    [d \in {c} \cup DOMAIN turn[r].results |->
                       IF d = c THEN m ELSE turn[r].results[d]]]
      /\ UNCHANGED <<scenario, rs, log, todo, loop, scriptVars>>

\* Nobody turns an error of the evidence condenser into an output: it ends the
\* agent.
CondenserFails(r, c) ==
  /\ c \in Open(r) /\ ToolOf(r, c) = "evidence_condenser" /\ scenario.faults
  /\ timings' = Put(r, c)
  /\ Tell(r, Error, NoOutput)
  /\ turn' = [turn EXCEPT ![r].at = "over"]
  /\ UNCHANGED <<scenario, rs, log, todo, loop, scriptVars>>

\* The results of a reply's calls are handed back in the order of the calls.
ToolsReturned(r) ==
  /\ turn[r].at = "calling" /\ Open(r) = {} /\ Live(r)
  /\ turn' = [turn EXCEPT
       ![r].at = "thinking",
       ![r].messages = @ \o [i \in DOMAIN Asked(r).calls |-> turn[r].results[Asked(r).calls[i]]]]
  /\ UNCHANGED <<scenario, rs, log, queue, todo, loop, timings, scriptVars>>

\* A call of the interpreter.
Script(r, c) ==
  /\ c \in Open(r) /\ ToolOf(r, c) = "kube_insight_js"
  /\ (StartScript(c) /\ UNCHANGED <<final, temp, cleaner>>) \/ ScriptStep(c)
  /\ UNCHANGED turnVars

-----------------------------------------------------------------------------
(* The loop.                                                                  *)

\* Record of what an assistant says. A stream carries no tool calls
\* (recordStream).
AssistantEvents(r, m) ==
  IF Streams(r)
  THEN IF m.text = NoText THEN <<>>
       ELSE <<Spoke("message.delta", m.text), Spoke("message.done", m.text),
              Message([m EXCEPT !.calls = <<>>, !.tools = <<>>])>>
  ELSE (IF m.text = NoText THEN <<>> ELSE <<Spoke("message.created", m.text)>>)
       \o (IF m.text = NoText /\ m.calls = <<>> THEN <<>> ELSE <<Message(m)>>)
       \o [i \in DOMAIN m.calls |-> [type |-> "tool.started", call |-> m.calls[i]]]

\* Mutant: what the tool's goroutine left is not asked for.
DraftOnly(r, c) == IF c \in loop[r].drafts THEN [run |-> r, call |-> c] ELSE NoTiming
\* What is known of the input of a call: what was drafted when it started, else
\* what the tool's own goroutine left.
Input(r, c) == IF c \in loop[r].drafts THEN [run |-> r, call |-> c] ELSE timings[c]

Artifact(r, n, kind, source, output) ==
  [type |-> "artifact",
   artifact |-> [id |-> <<r, Len(log[r]) + n>>, kind |-> kind, source |-> source,
                 names |-> output.names, words |-> output.words]]

\* completionToolResultEventData leaves a huge content out.
ToolResult(m) ==
  [type |-> "completion.tool_result",
   message |-> IF m.size = "huge" THEN [m EXCEPT !.size = "omitted"] ELSE m]

\* Record of a tool's output: it is kept, unless it is empty, the call is closed
\* and audited, and the evidence of an output without an error is kept too.
ToolEvents(r, m, output) ==
  LET evidence == Evidence(output.tool, output.has)
      closing  == <<Event(IF Failed(output) THEN "tool.failed" ELSE "tool.completed"),
                    ToolResult(m),
                    [type |-> "tool.audit", call |-> m.call, input |-> Input(r, m.call)]>>
  IN  IF output.size = "empty" THEN closing
      ELSE (<<Artifact(r, 1, "tool_call", output.tool, output)>> \o closing)
           \o (IF Failed(output) THEN <<>>
               ELSE [i \in DOMAIN evidence |->
                       Artifact(r, 4 + i, evidence[i].kind, evidence[i].source, output)])

\* EinoRunner.Run takes the next message: it becomes events, which are appended
\* one by one. What a tool's goroutine left of the call is taken with it.
Record(r) ==
  LET head == Head(queue[r])
      m    == head.message
  IN  /\ loop[r].at = "running" /\ todo[r] = <<>> /\ queue[r] # <<>> /\ Live(r)
      /\ m.role # "error"
      /\ queue' = [queue EXCEPT ![r] = Tail(@)]
      /\ todo' = [todo EXCEPT ![r] = IF m.role = "tool" THEN ToolEvents(r, m, head.output)
                                     ELSE AssistantEvents(r, m)]
      /\ timings' = IF m.role = "tool" THEN [timings EXCEPT ![m.call] = NoTiming] ELSE timings
      /\ loop' = [loop EXCEPT
           ![r].answer = IF m.role = "assistant" /\ m.text # NoText THEN m.text ELSE @,
           ![r].drafts = IF m.role = "tool" THEN @ \ {m.call}
                         ELSE IF Streams(r) THEN @ ELSE @ \cup ToSet(m.calls)]
      /\ UNCHANGED <<scenario, rs, log, turn, scriptVars>>

\* AppendRunEvent, with the run's context.
Append1(r) ==
  /\ todo[r] # <<>> /\ Live(r)
  /\ log' = Appended(r, <<Head(todo[r])>>)
  /\ todo' = [todo EXCEPT ![r] = Tail(@)]
  /\ UNCHANGED <<scenario, rs, turn, queue, loop, timings, scriptVars>>

\* The iterator has ended.
Drained(r) == turn[r].at = "over" /\ queue[r] = <<>>

\* Complete: the answer is given its citations. Nothing is recorded of a run that
\* another has ended.
Complete(r) ==
  LET text == loop[r].answer
  IN  /\ loop[r].at = "running" /\ todo[r] = <<>> /\ Drained(r) /\ Live(r)
      /\ IF text = NoText THEN loop' = [loop EXCEPT ![r].at = "completing", ![r].told = 1]
         ELSE \E home \in Homes(text) :
                loop' = [loop EXCEPT ![r].at = "completing",
                  ![r].cites = Placed(text, Verified(text, Candidates(log[r])), home)]
      /\ UNCHANGED <<scenario, rs, log, turn, queue, todo, timings, scriptVars>>

\* The events of an answer: first it, then what it cites.
AnswerEvent(text, cites, n) ==
  IF n = 0 THEN Spoke("answer.final", Annotated(text, cites))
  ELSE [type |-> "citation.created", citation |-> n, artifact |-> cites[n].artifact,
        label |-> cites[n].label]

TellAnswer(r) ==
  LET told == loop[r].told
  IN  /\ loop[r].at = "completing" /\ told <= Len(loop[r].cites) /\ Live(r)
      /\ log' = Appended(r, <<AnswerEvent(loop[r].answer, loop[r].cites, told)>>)
      /\ loop' = [loop EXCEPT ![r].told = @ + 1]
      /\ UNCHANGED <<scenario, rs, turn, queue, todo, timings, scriptVars>>

\* Mutant: completed before its answer is told.
EndsSoon(r) == loop[r].at = "completing" /\ Live(r)
\* ... and its outcome only when everything else is.
MayEnd(r) == loop[r].at = "completing" /\ loop[r].told > Len(loop[r].cites) /\ Live(r)

Completed(r) ==
  /\ MayEnd(r)
  /\ rs' = [rs EXCEPT ![r].status = "completed"]
  /\ log' = Appended(r, <<Event("run.completed")>>)
  /\ loop' = [loop EXCEPT ![r].at = "returned"]
  /\ UNCHANGED <<scenario, turn, queue, todo, timings, scriptVars>>

\* Fail: the agent's error is the run's.
Fail(r) ==
  /\ loop[r].at = "running" /\ todo[r] = <<>> /\ Live(r)
  /\ queue[r] # <<>> /\ Head(queue[r]).message.role = "error"
  /\ rs' = [rs EXCEPT ![r].status = "failed"]
  /\ log' = Appended(r, <<Event("error"), Event("run.failed")>>)
  /\ loop' = [loop EXCEPT ![r].at = "returned"]
  /\ queue' = [queue EXCEPT ![r] = <<>>]
  /\ UNCHANGED <<scenario, turn, todo, timings, scriptVars>>

\* A client cancels the run: the store calls of its goroutines fail from now on.
Cancel(r) ==
  /\ scenario.cancels /\ r \in DOMAIN rs /\ Live(r)
  /\ rs' = [rs EXCEPT ![r].status = "cancelled"]
  /\ log' = Appended(r, <<Event("run.cancelled")>>)
  /\ UNCHANGED <<scenario, turn, queue, todo, loop, timings, scriptVars>>

\* The loop meets the first store call that fails.
Stops(r) ==
  /\ r \in DOMAIN rs /\ ~Live(r) /\ loop[r].at # "returned"
  /\ loop' = [loop EXCEPT ![r].at = "returned"]
  /\ queue' = [queue EXCEPT ![r] = <<>>]
  /\ todo' = [todo EXCEPT ![r] = <<>>]
  /\ UNCHANGED <<scenario, rs, log, turn, timings, scriptVars>>

Cleanup ==
  /\ scenario.cleanup
  /\ CleanupReads(\E r \in DOMAIN rs : Live(r)) \/ CleanupRemoves
  /\ UNCHANGED turnVars

-----------------------------------------------------------------------------
Agent(r) == Start(r) \/ AskModel(r) \/ ModelReplies(r) \/ AgentFails(r) \/ ToolsReturned(r)
            \/ \E c \in Calls : ToolReturns(r, c) \/ CondenserFails(r, c) \/ Script(r, c)
Recorder(r) == Record(r) \/ Append1(r) \/ Complete(r) \/ TellAnswer(r) \/ Completed(r) \/ Fail(r) \/ Stops(r)

Next ==
  \/ \E retryOf \in {None} \cup Runs : CreateRun(retryOf)
  \/ \E r \in DOMAIN rs : Agent(r) \/ Recorder(r) \/ Cancel(r)
  \/ Cleanup

Spec == Init /\ [][Next]_vars

-----------------------------------------------------------------------------
(* Properties.                                                                *)

Events(r, type) == {i \in DOMAIN log[r] : log[r][i].type = type}

\* A run completes when every tool call its model made has one audit, with the
\* input of that very call: the loop is behind the agent's goroutine, calls of
\* several runs share the store of inputs (eino_runner.go, Record, Run).
CallsAreAudited ==
  \A r \in DOMAIN rs : rs[r].status = "completed" =>
    \A c \in turn[r].calls :
      \E i \in Events(r, "tool.audit") :
        /\ log[r][i].call = c
        /\ log[r][i].input = [run |-> r, call |-> c]
        /\ \A j \in Events(r, "tool.audit") \ {i} : log[r][j].call # c

\* Every link in the answer of a completed run leads to a citation that is
\* recorded, of an artifact that was recorded before the answer (Complete).
LinksResolve ==
  \A r \in DOMAIN rs : rs[r].status = "completed" =>
    \A f \in Events(r, "answer.final") :
      \A m \in Markers(log[r][f].text) :
        /\ \E i \in Events(r, "citation.created") :
             log[r][i].citation = m.citation /\ log[r][i].artifact = m.artifact
        /\ \E i \in Events(r, "artifact") :
             i < f /\ log[r][i].artifact.id = m.artifact

\* No request shows a model the result of a call it was not shown, whichever
\* way the earlier turns ended (docs/contributors/dev/agent-evaluation.md).
ResultsFollowCalls ==
  \A r \in DOMAIN rs : \A i \in Events(r, "completion.request") :
    ToolsAnswerCalls(log[r][i].messages)

\* A run is given every earlier turn of its branch: the question, and the
\* answer that turn ended with (agentMessagesForRun).
EarlierTurnsAreKept ==
  [][\A r \in DOMAIN rs' \ DOMAIN rs :
       rs'[r].parent = None =>
         \A p \in ToSet(PriorRuns(rs', r)) : HasTurn(turn'[r].messages, p, log[p])]_vars
=============================================================================
