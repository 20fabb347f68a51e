------------------------------ MODULE Service ------------------------------
(* The serve command (internal/cli/command_serve.go): it starts the selected   *)
(* parts, each a goroutine, waits for them, and stops all when one fails or    *)
(* the process is told to stop.  Its parts are HTTP servers (api, mcp, metrics *)
(* and webui, or app, which is all of these on one listener) and the collector *)
(* (command_benchmark_watch.go).  They own what runs in the background: the    *)
(* storage maintenance of the collector (storage_maintenance.go), the agent    *)
(* runs and their retention (internal/api/server.go, agent.go), and the health *)
(* cache (HealthCache).  docs/dev/background-tasks.md says who stops what.     *)
(*                                                                             *)
(* The store of the collector is SQLite (one of ClickHouse is neither flushed  *)
(* nor closed).  When the command returns the process exits.                   *)
EXTENDS HealthCache, Sequences, Functions

CONSTANTS
  Selections,   \* what may be served: parts in the order they start, kubeconfig
                \* contexts watched with the resources of each, and bounds: the
                \* MCP clients and what they ask, how often collectors write, how long
  Concurrency,  \* initial lists of a context at once
  Failures      \* which failures happen: "setup", "listen", "stdout", "context"

Parts  == {"app", "api", "mcp", "metrics", "webui", "watch"}

\* buildServeSelection: the app is served with the API and MCP in it.
Startable(parts) ==
  /\ parts \in Seq(Parts) /\ IsInjective(parts)
  /\ "app" \in Range(parts) => Range(parts) \subseteq {"watch", "app"}

ASSUME ServiceAssumption ==
  /\ \A choice \in Selections :
       /\ Startable(choice.parts)
       /\ choice.clients \subseteq Clients /\ choice.inputs \subseteq Inputs
  /\ Failures \subseteq {"setup", "listen", "stdout", "context"}
  /\ Concurrency \in Nat \ {0}

VARIABLES
  selection,
  main, result,  \* "starting", "waiting", "returned", and with which error
  started,       \* parts started
  stopped,       \* serviceCtx is cancelled
  asked,         \* ... because the process got a signal
  errs,          \* errCh: whose errors, and whether they came after the stop
  part,          \* what each part is doing
  carried,       \* the error a part will return, or "ok"
  busy,          \* servers with a request in flight
  task,          \* background loops other than the refresh: "off", "idle", "pass"
  ending,        \* of these, the ones whose context is cancelled
  open,          \* stores kept open
  runs,          \* an agent run is executing
  ctx,           \* the watch of each context: "off", "running", "listing" (the
                 \* initial lists), "streaming", "done" or "failed"
  list           \* the initial lists: "none", "queued", "listing", "listed", "error"

process == <<main, result, started, stopped, asked, errs>>
watches == <<ctx, list>>
owned   == <<busy, task, ending, open, runs, watches>>
vars    == <<selection, process, part, carried, owned, health>>

Contexts == UNION {DOMAIN choice.contexts : choice \in Selections}
Watched  == DOMAIN selection.contexts
Listed   == UNION {UNION Range(choice.contexts) : choice \in Selections}
Tasks  == {"maintenance", "retention"}
Hosts(p, s) == p = s \/ (p = "app" /\ s \in {"api", "mcp"})
Alive  == main # "returned"

Init ==
  /\ selection \in Selections
  /\ main = "starting" /\ result = "none" /\ started = 0
  /\ stopped = FALSE /\ asked = FALSE /\ errs = <<>>
  /\ part = [p \in Parts |-> "none"] /\ carried = [p \in Parts |-> "ok"]
  /\ busy = {} /\ task = [t \in Tasks |-> "off"] /\ ending = {}
  /\ open = {} /\ runs = FALSE
  /\ ctx = [x \in Contexts |-> "off"]
  /\ list = [x \in Contexts |-> [r \in Listed |-> "none"]]
  /\ HealthInit

Goes(p, from, to) == Alive /\ part[p] = from /\ part' = [part EXCEPT ![p] = to]

-----------------------------------------------------------------------------
(* runServeCommand.                                                            *)

Start ==
  /\ main = "starting" /\ started < Len(selection.parts)
  /\ started' = started + 1
  /\ Goes(selection.parts[started + 1], "none", "starting")
  /\ UNCHANGED <<selection, main, result, stopped, asked, errs, carried, owned, health>>

\* All run: the status is printed, or cannot be.
Announce ==
  /\ main = "starting" /\ started = Len(selection.parts)
  /\ \/ /\ main' = "waiting"
        /\ UNCHANGED <<result, stopped>>
     \/ /\ "stdout" \in Failures
        /\ main' = "returned" /\ result' = "stdout" /\ stopped' = TRUE
  /\ UNCHANGED <<selection, started, asked, errs, part, carried, owned, health>>

Signal ==
  /\ Alive /\ ~asked
  /\ asked' = TRUE /\ stopped' = TRUE
  /\ UNCHANGED <<selection, main, result, started, errs, part, carried, owned, health>>

\* Mutant: the error that came last.
LastError == errs[Len(errs)].of

FirstError == Head(errs).of

\* The first error in errCh is returned; the other parts are not waited for.
ReturnError ==
  /\ main = "waiting" /\ errs # <<>>
  /\ main' = "returned" /\ result' = FirstError
  /\ stopped' = TRUE
  /\ UNCHANGED <<selection, started, asked, errs, part, carried, owned, health>>

AllDone == \A i \in 1 .. started : part[selection.parts[i]] = "ended"

ReturnNil ==
  /\ main = "waiting" /\ errs = <<>> /\ AllDone
  /\ main' = "returned" /\ result' = "ok"
  /\ stopped' = TRUE
  /\ UNCHANGED <<selection, started, asked, errs, part, carried, owned, health>>

\* The goroutine of a part that has returned: an error other than that of the
\* cancelled context goes into errCh, and then the others are stopped.
Report(p) ==
  /\ IF carried[p] = "ok"
     THEN Goes(p, "leaving", "ended") /\ UNCHANGED errs
     ELSE /\ Goes(p, "leaving", "cancelling")
          /\ errs' = Append(errs, [of |-> p, late |-> stopped])
  /\ UNCHANGED <<selection, main, result, started, stopped, asked, carried, owned, health>>

CancelOthers(p) ==
  /\ Goes(p, "cancelling", "ended")
  /\ stopped' = TRUE
  /\ UNCHANGED <<selection, main, result, started, asked, errs, carried, owned, health>>

-----------------------------------------------------------------------------
(* A server: listenAndServeHTTP and the Close of what it serves.               *)

Servers == Parts \ {"watch"}

\* The API server opens the agent store and starts the retention loop.
SetUp(p) ==
  /\ Goes(p, "starting", "serving")
  /\ IF Hosts(p, "api")
     THEN open' = open \cup {"agent"} /\ task' = [task EXCEPT !["retention"] = "idle"]
     ELSE UNCHANGED <<open, task>>
  /\ UNCHANGED <<selection, process, carried, busy, ending, runs, watches, health>>

SetUpFails(p) ==
  /\ "setup" \in Failures /\ Goes(p, "starting", "leaving")
  /\ carried' = [carried EXCEPT ![p] = "error"]
  /\ UNCHANGED <<selection, process, owned, health>>

\* Such as an address in use.
ListenFails(p) ==
  /\ "listen" \in Failures /\ Goes(p, "serving", "closing")
  /\ carried' = [carried EXCEPT ![p] = "error"]
  /\ UNCHANGED <<selection, process, owned, health>>

Asking == {c \in Clients : query[c].pc # "idle"}
InFlight(p) == p \in busy \/ (Hosts(p, "mcp") /\ Asking # {})

\* A request that ends when its client goes, such as a stream of events.
Request(p) ==
  /\ Alive /\ p # "mcp"
  /\ \/ /\ part[p] = "serving" /\ p \notin busy
        /\ busy' = busy \cup {p}
     \/ /\ p \in busy
        /\ busy' = busy \ {p}
  /\ UNCHANGED <<selection, process, part, carried, task, ending, open, runs, watches, health>>

Drain(p) ==
  /\ stopped /\ Goes(p, "serving", "draining")
  /\ UNCHANGED <<selection, process, carried, owned, health>>

\* Mutant: however long the requests take.
NoRequests(p) == ~InFlight(p)

\* Shutdown waits for the requests, for five seconds.
WaitIsOver(p) == TRUE

Drained(p) ==
  /\ WaitIsOver(p)
  /\ Goes(p, "draining", "closing")
  /\ carried' = [carried EXCEPT ![p] = IF InFlight(p) THEN "error" ELSE "ok"]
  /\ UNCHANGED <<selection, process, owned, health>>

\* mcp.Server.Close stops the refresh loop; in app it comes before the API's.
Close(p) ==
  /\ Goes(p, "closing", IF Hosts(p, "mcp") THEN "refreshing" ELSE "running")
  /\ IF Hosts(p, "mcp")
     THEN /\ held' = 0 /\ told' = told \cup ({held} \ {0})
          /\ UNCHANGED <<data, cache, query, answer, loop>>
     ELSE UNCHANGED health
  /\ UNCHANGED <<selection, process, carried, owned>>

RefreshStopped(p) ==
  /\ Goes(p, "refreshing", "running")
  /\ \A l \in told : loop[l] = NoLoop
  /\ UNCHANGED <<selection, process, carried, owned, health>>

\* api.Server.Close cancels the runs and waits for them, for five seconds.
RunsWaited(p) ==
  /\ IF Hosts(p, "api") /\ "agent" \in open
     THEN Goes(p, "running", "pruning") /\ ending' = ending \cup {"retention"}
     ELSE Goes(p, "running", "leaving") /\ UNCHANGED ending
  /\ UNCHANGED <<selection, process, carried, busy, task, open, runs, watches, health>>

RetentionStopped(p) ==
  /\ Goes(p, "pruning", "leaving") /\ task["retention"] = "off"
  /\ open' = open \ {"agent"}
  /\ UNCHANGED <<selection, process, carried, busy, task, ending, runs, watches, health>>

AgentRun ==
  /\ Alive
  /\ \/ /\ ~runs /\ \E p \in Servers : Hosts(p, "api") /\ part[p] = "serving"
        /\ runs' = TRUE
     \/ /\ runs
        /\ runs' = FALSE
  /\ UNCHANGED <<selection, process, part, carried, busy, task, ending, open, watches, health>>

-----------------------------------------------------------------------------
(* The background loops: runSQLiteMaintenance, runAgentRetentionJob.           *)

Pass(t) ==
  /\ Alive /\ task[t] = "idle" /\ t \notin ending
  /\ task' = [task EXCEPT ![t] = "pass"]
  /\ UNCHANGED <<selection, process, part, carried, busy, ending, open, runs, watches, health>>

\* A pass ends, at the latest when its context is cancelled; a loop between two
\* passes ends then.
Rest(t) ==
  /\ Alive
  /\ \/ /\ task[t] = "pass"
        /\ task' = [task EXCEPT ![t] = "idle"]
     \/ /\ task[t] = "idle" /\ t \in ending
        /\ task' = [task EXCEPT ![t] = "off"]
  /\ UNCHANGED <<selection, process, part, carried, busy, ending, open, runs, watches, health>>

-----------------------------------------------------------------------------
(* The collector: runWatchContext, or runWatchContexts for several of them.    *)

WatchStarts ==
  /\ Goes("watch", "starting", "serving")
  /\ open' = open \cup {"watch"}
  /\ task' = [task EXCEPT !["maintenance"] = "idle"]
  /\ ctx' = [x \in Contexts |-> IF x \in Watched THEN "running" ELSE "off"]
  /\ UNCHANGED <<selection, process, carried, busy, ending, runs, list, health>>

watchRest == <<selection, process, part, carried, busy, task, ending, open, runs, health>>

\* WatchResourcesClientGo up to the initial lists: the cluster and its resources
\* are found out, or cannot be.
Discover(x) ==
  /\ Alive /\ ctx[x] = "running"
  /\ \/ /\ ctx' = [ctx EXCEPT ![x] = "listing"]
        /\ list' = [list EXCEPT ![x] = [r \in Listed |-> IF r \in selection.contexts[x] THEN "queued" ELSE "none"]]
     \/ /\ stopped \/ "context" \in Failures
        /\ ctx' = [ctx EXCEPT ![x] = "failed"] /\ UNCHANGED list
  /\ UNCHANGED watchRest

Lists(x, r, from, to) ==
  /\ Alive /\ list[x][r] = from
  /\ list' = [list EXCEPT ![x][r] = to]
  /\ UNCHANGED <<watchRest, ctx>>

\* runInitialListPhase: a goroutine for each resource, which waits for one of the
\* slots, or for the stop.
TakesSlot(x, r) ==
  \/ /\ Cardinality({q \in Listed : list[x][q] = "listing"}) < Concurrency
     /\ Lists(x, r, "queued", "listing")
  \/ stopped /\ Lists(x, r, "queued", "error")

\* The list, with its retries (see WatchWorker); what it needs cannot be prepared,
\* its retries are used up, or it is stopped.
ListSucceeds(x, r) == Lists(x, r, "listing", "listed")
ListFails(x, r)    == Lists(x, r, "listing", "error")

\* shouldStopBeforeWatch, once every list has returned: streams are opened when
\* there is a resource to watch, and neither a stop nor the end of the time.
ListsReturned(x) ==
  /\ Alive /\ ctx[x] = "listing"
  /\ \A r \in Listed : list[x][r] \notin {"queued", "listing"}
  /\ \E next \in {"streaming", "done"} :
       /\ next = "streaming" => ~stopped /\ \E r \in Listed : list[x][r] = "listed"
       /\ ctx' = [ctx EXCEPT ![x] = next]
  /\ UNCHANGED <<watchRest, list>>

\* runWatchStreamPhase (see StreamScheduler). A watch ends without an error,
\* whatever its resources met: when it is cancelled, or its time or its events
\* are used up.
StreamsEnd(x) ==
  /\ Alive /\ ctx[x] = "streaming"
  /\ ctx' = [ctx EXCEPT ![x] = "done"]
  /\ UNCHANGED <<watchRest, list>>

ContextStep(x) == \/ Discover(x) \/ ListsReturned(x)
                  \/ \E r \in Listed : TakesSlot(x, r)
ContextEnds(x) == StreamsEnd(x) \/ \E r \in Listed : ListSucceeds(x, r) \/ ListFails(x, r)

\* Mutant: the store is closed first.
ClosedBefore == {"watch"}

\* What is closed before the maintenance loop has stopped: the deferred calls run
\* in reverse order.
ClosedFirst == {}

\* No watch is at work.
WatchesEnded == \A x \in Contexts : ctx[x] \in {"off", "done", "failed"}

WatchOver ==
  /\ Goes("watch", "serving", "closing")
  /\ WatchesEnded
  /\ ending' = ending \cup {"maintenance"} /\ open' = open \ ClosedFirst
  /\ UNCHANGED <<selection, process, carried, busy, task, runs, watches, health>>

\* Errors of several contexts are dropped when the service was stopped.
MaintenanceStopped ==
  /\ Goes("watch", "closing", "leaving") /\ task["maintenance"] = "off"
  /\ open' = open \ {"watch"}
  /\ carried' = [carried EXCEPT !["watch"] =
       IF (\E x \in Contexts : ctx[x] = "failed") /\ (Cardinality(Watched) = 1 \/ ~stopped)
       THEN "error" ELSE "ok"]
  /\ UNCHANGED <<selection, process, busy, task, ending, runs, watches, health>>

-----------------------------------------------------------------------------

MCPServes == \E p \in Servers : Hosts(p, "mcp") /\ part[p] = "serving"
Only(A)   == Alive /\ A /\ UNCHANGED <<selection, process, part, carried, owned>>

\* Requests come, and the collectors write, while the MCP server serves.
HealthStep ==
  \/ /\ selection.clients # {} /\ MCPServes
     /\ \/ writes < selection.writes /\ Only(Collect)
        \/ now < selection.time /\ Only(Tick)
        \/ \E c \in selection.clients, i \in selection.inputs : Only(Ask(c, i))
  \/ \E c \in Clients : Only(Serve(c))
  \/ \E l \in Loops : Only(Run(l))

Leave(p) == Report(p) \/ CancelOthers(p)

ServerStep(p) ==
  \/ SetUp(p) \/ Drain(p) \/ Drained(p) \/ Close(p) \/ RefreshStopped(p)
  \/ RunsWaited(p) \/ RetentionStopped(p)

WatchStep == WatchStarts \/ WatchOver \/ MaintenanceStopped

Returned == /\ ~Alive
            /\ UNCHANGED vars

Next ==
  \/ Start \/ Announce \/ Signal \/ ReturnError \/ ReturnNil
  \/ \E p \in Parts : Leave(p) \/ SetUpFails(p)
  \/ \E p \in Servers : ServerStep(p) \/ ListenFails(p) \/ Request(p)
  \/ AgentRun \/ WatchStep
  \/ \E t \in Tasks : Pass(t) \/ Rest(t)
  \/ \E x \in Contexts : ContextStep(x) \/ ContextEnds(x)
  \/ HealthStep \/ Returned

\* Goroutines run, passes end, and a cancelled context ends a watch; neither
\* requests nor runs need to end, and no signal needs to come.
Fairness ==
  /\ WF_vars(Start \/ Announce \/ ReturnError \/ ReturnNil)
  /\ \A p \in Parts : WF_vars(Leave(p))
  /\ \A p \in Servers : WF_vars(ServerStep(p))
  /\ WF_vars(WatchStep)
  /\ \A t \in Tasks : WF_vars(Rest(t))
  /\ \A x \in Contexts : WF_vars(ContextStep(x)) /\ WF_vars(stopped /\ ContextEnds(x))
  /\ \A l \in Loops : WF_vars(Only(RefreshRead(l) \/ RefreshKeep(l) \/ RefreshDone(l) \/ RefreshEnds(l)))

Spec == Init /\ [][Next]_vars /\ Fairness

-----------------------------------------------------------------------------
(* Properties.                                                                 *)

\* The error the command exits with is that of a part that failed while the
\* others were served, never what the stop it caused did to them.
CauseIsReported ==
  result \in Parts /\ ~asked => \A i \in DOMAIN errs : errs[i].of = result => ~errs[i].late

\* "Stop: Server.Close", "service context is cancelled": a command that returns
\* without an error has ended every loop and closed every store it opened, and no
\* background pass ever meets a store that its owner has closed.
StopsClean ==
  /\ result = "ok" =>
       /\ open = {} /\ \A t \in Tasks : task[t] = "off"
       /\ \A l \in Loops : loop[l] = NoLoop
       /\ WatchesEnded
  /\ task["maintenance"] = "pass" => "watch" \in open
  /\ task["retention"] = "pass" => "agent" \in open

\* A service that is told to stop, or of which a part failed, ends, whatever its
\* requests, its runs and its loops are doing.
StopIsHeard == stopped ~> ~Alive

=============================================================================
