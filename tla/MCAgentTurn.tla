---------------------------- MODULE MCAgentTurn ----------------------------
(* Instances of AgentTurn for TLC.                                            *)
EXTENDS AgentTurn

Label(name, themes) == [name |-> name, themes |-> themes]
Block(names, labels) ==
  [prose |-> TRUE, fenced |-> FALSE, names |-> names, labels |-> labels, markers |-> {}]
Output(tool, has, names, words, size) ==
  [tool |-> tool, has |-> has, names |-> names, words |-> words, size |-> size]
Reply(text, tools) == [text |-> text, tools |-> tools]

health == Label("health", {"health"})
facts  == Label("facts", {"facts"})
source == Label("kube_insight_sql", {})

Plain   == <<Block({}, <<>>)>>
Naming  == <<Block({"pod"}, <<>>), Block({"node"}, <<>>)>>
Titled  == <<Block({"pod"}, <<>>), Block({}, <<source>>)>>
Labeled == <<Block({"pod"}, <<facts>>), Block({}, <<health>>), Block({}, <<facts>>)>>

Healthy == Output("kube_insight_health", {}, {"node"}, {"health"}, "small")
Rows    == Output("kube_insight_sql", {}, {"pod"}, {"oom"}, "large")
Nothing == Output("kube_insight_sql", {}, {}, {}, "empty")
NoRows  == Output("kube_insight_sql", {"error"}, {}, {}, "small")
Found   == Output("kube_insight_service_investigation", {"items", "nodes"}, {"pod"}, {}, "huge")
Ran     == Output("kube_insight_js", {}, {"pod"}, {}, "small")
Broke   == Output("kube_insight_js", {"error"}, {}, {}, "small")
Brief   == Output("evidence_condenser", {}, {"pod"}, {}, "small")

Base == [runs |-> 1, parent |-> None, overlap |-> FALSE, retries |-> FALSE, cancels |-> TRUE,
         faults |-> TRUE, cleanup |-> FALSE, replies |-> {}, outputs |-> {}]

Asks == {Reply(NoText, <<"kube_insight_health", "kube_insight_sql">>),
         Reply(Plain, <<"kube_insight_service_investigation">>)}

\* A turn that gathers evidence and cites it.
Answering == [Base EXCEPT
  !.replies = Asks \cup {Reply(t, <<>>) : t \in {NoText, Naming, Titled, Labeled}},
  !.outputs = {Healthy, Rows, Nothing, NoRows, Found}]
\* A subagent's.
Branching == [Answering EXCEPT !.parent = 7]
\* A session of two turns, the second perhaps a retry, with at most one tool.
Following == [Base EXCEPT
  !.runs = 2, !.faults = FALSE,
  !.replies = {Reply(Plain, <<"kube_insight_sql">>), Reply(Naming, <<>>)},
  !.outputs = {NoRows}]
\* A session of three turns that only talk.
Talking == [Base EXCEPT !.runs = 3, !.retries = TRUE, !.faults = FALSE, !.replies = {Reply(Plain, <<>>)}]
\* Two turns at once.
Overlapping == [Base EXCEPT
  !.runs = 2, !.overlap = TRUE, !.cancels = FALSE, !.faults = FALSE,
  !.replies = {Reply(NoText, <<"kube_insight_sql">>)},
  !.outputs = {NoRows}]
\* A turn with a script, whose scratch store may be removed.
Scripting == [Base EXCEPT
  !.faults = FALSE, !.cleanup = TRUE,
  !.replies = {Reply(NoText, <<"kube_insight_js">>), Reply(Plain, <<>>)},
  !.outputs = {Ran, Broke}]
\* A turn whose two scripts share the scratch store.
Sharing == [Base EXCEPT
  !.cancels = FALSE, !.faults = FALSE,
  !.replies = {Reply(NoText, <<"kube_insight_js", "kube_insight_js">>), Reply(Plain, <<>>)},
  !.outputs = {Ran, Broke}]
\* A turn that has its evidence condensed.
Condensing == [Base EXCEPT
  !.replies = {Reply(NoText, <<"evidence_condenser">>), Reply(Naming, <<>>)},
  !.outputs = {Brief}]

All == {Answering, Branching, Following, Talking, Overlapping, Scripting, Sharing, Condensing}
=============================================================================
