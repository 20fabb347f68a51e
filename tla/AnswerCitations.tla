--------------------------- MODULE AnswerCitations --------------------------
(* What a tool's output leaves as evidence (internal/agent/                   *)
(* evidence_artifacts.go, tool_artifact.go), and which of it a final answer   *)
(* is given citations of (internal/agent/answer_citations.go).                *)
(*                                                                            *)
(* An answer is a sequence of blocks (paragraphs):                            *)
(*   prose    it says something besides its labels                            *)
(*   fenced   it is a block of code                                           *)
(*   names    the names of things it mentions                                 *)
(*   labels   its {{evidence: ...}} labels, in order                          *)
(*   markers  the links to citations that replaced them, a set                *)
(* A label is a record of its text and the themes its words call up. An       *)
(* artifact has an id, a kind, the tool it came from, and the names and words *)
(* of its content.                                                            *)
EXTENDS Integers, FiniteSets, SequencesExt, Subsequences

Themes == {"health", "facts", "history", "change", "topology", "search", "capacity"}

\* The types of a label and of an answer as the model writes it.
LabelType == [name : STRING, themes : SUBSET Themes]
TextType  == Seq([prose : BOOLEAN, fenced : BOOLEAN, names : SUBSET STRING, labels : Seq(LabelType),
                  markers : {{}}])

CONSTANT MaxCitations    \* of an answer; 8 in the code

ASSUME CitationsAssumption == MaxCitations \in Nat \ {0}

-----------------------------------------------------------------------------
(* The evidence of a tool call.                                               *)

\* isJSInterpreterToolName, with the two names the tool had before.
JSTools == {"kube_insight_js", "kube_insight_scripted_query", "artifact_transform_js"}

\* resourceListItems: the matches or the bundles of an output.
Lists(tool, has) ==
  IF "items" \in has THEN <<[kind |-> "k8s_resource_list", source |-> tool]>> ELSE <<>>

\* topologyArtifactData: the edges of any output count as the topology's.
Maps(has) ==
  IF "nodes" \in has THEN <<[kind |-> "k8s_topology", source |-> "kube_insight_topology"]>>
  ELSE <<>>

\* historyEvidenceArtifacts.
Histories(has) ==
  IF "versions" \in has THEN <<[kind |-> "k8s_history", source |-> "kube_insight_history"]>>
  ELSE <<>>

\* evidenceArtifactsFromToolOutput: kind and source of the artifacts of an
\* output that has the parts in `has`.
Evidence(tool, has) ==
  CASE tool \in {"kube_insight_health", "kube_insight_sql"} ->
         <<[kind |-> "markdown", source |-> tool]>>
    [] tool = "kube_insight_search"                -> Lists(tool, has)
    [] tool = "kube_insight_topology"              -> Maps(has)
    [] tool = "kube_insight_history"               -> Histories(has)
    [] tool = "kube_insight_service_investigation" -> Lists(tool, has) \o Maps(has)
    [] OTHER                                       -> <<>>

\* toolCallArtifactCanSupportCitation: the output of a tool that leaves no
\* evidence of its own.
CanSupportCitation(a) ==
  a.kind = "tool_call" =>
    a.source \in JSTools \cup {"parallel_investigation", "evidence_condenser"}

\* answerCitationCandidates: the artifacts a run recorded, in order.
Candidates(events) ==
  LET recorded == Picked(events, {i \in DOMAIN events :
                    events[i].type = "artifact" /\ CanSupportCitation(events[i].artifact)})
  IN  [i \in DOMAIN recorded |-> recorded[i].artifact]

-----------------------------------------------------------------------------
(* Labels find artifacts.                                                     *)

\* evidenceLabelCandidateScore: the sources that speak for a theme, and the
\* words of a content that do.
Points(theme, source) ==
  LET js == source \in JSTools
  IN  CASE theme = "health"   -> IF source = "kube_insight_health" THEN 90 ELSE 0
        [] theme = "facts"    -> IF js \/ source = "kube_insight_sql" THEN 55
                                 ELSE IF source = "kube_insight_search" THEN 10 ELSE 0
        [] theme = "history"  -> IF source = "kube_insight_history" THEN 70 ELSE 0
        [] theme = "change"   -> IF js \/ source = "kube_insight_sql" THEN 45 ELSE 0
        [] theme = "topology" -> IF source \in {"kube_insight_topology",
                                   "kube_insight_service_investigation"} THEN 60 ELSE 0
        [] theme = "search"   -> IF source = "kube_insight_search" THEN 60 ELSE 0
        [] theme = "capacity" -> IF js THEN 65 ELSE IF source = "kube_insight_sql" THEN 45 ELSE 0

WordPoints(theme, words) ==
  (IF theme = "health"   /\ words \cap {"health", "collector"} # {} THEN 20 ELSE 0)
  + (IF theme = "facts"  /\ "oom" \in words THEN 35 ELSE 0)
  + (IF theme = "facts"  /\ "facts" \in words THEN 20 ELSE 0)
  + (IF theme = "change" /\ "change" \in words THEN 35 ELSE 0)
  + (IF theme = "topology" /\ words \cap {"topology", "edge"} # {} THEN 35 ELSE 0)
  + (IF theme = "capacity" /\ words \cap {"node_capacity", "rowcount"} # {} THEN 25 ELSE 0)

Names(text) == UNION {text[i].names : i \in DOMAIN text}

Mentions(text, a) == Names(text) \cap a.names # {}

Themed(theme, label, a) ==
  IF theme \in label.themes THEN Points(theme, a.source) + WordPoints(theme, a.words) ELSE 0

Score(label, a, text) ==
  (IF Mentions(text, a) THEN 5 ELSE 0)
  + Themed("health", label, a) + Themed("facts", label, a) + Themed("history", label, a)
  + Themed("change", label, a) + Themed("topology", label, a) + Themed("search", label, a)
  + Themed("capacity", label, a)
  + 8 * Cardinality(label.themes \cap a.words)

\* uniqueEvidenceLabels.
Labels(text) ==
  LET all   == FlattenSeq([b \in DOMAIN text |-> text[b].labels])
      first == {i \in DOMAIN all : \A j \in 1 .. i - 1 : all[j].name # all[i].name}
  IN  Picked(all, first)

Cited(cites) == {cites[i].artifact : i \in DOMAIN cites}

\* bestCandidateForEvidenceLabel: the first of those with the highest score, if
\* that is 25 at least; an artifact is cited once.
Suited(label, candidates, cites, text) ==
  {i \in DOMAIN candidates :
     candidates[i].id \notin Cited(cites) /\ Score(label, candidates[i], text) >= 25}
Best(label, candidates, cites, text) ==
  CHOOSE i \in Suited(label, candidates, cites, text) :
    \A j \in Suited(label, candidates, cites, text) :
      LET si == Score(label, candidates[i], text)
          sj == Score(label, candidates[j], text)
      IN  si > sj \/ (si = sj /\ i <= j)

Cite(cites, artifact, label) ==
  IF Len(cites) >= MaxCitations THEN cites
  ELSE Append(cites, [artifact |-> artifact.id, label |-> label, names |-> artifact.names])

\* verifiedAnswerCitations, one label.
Bind(text, candidates, cites, label) ==
  IF Suited(label, candidates, cites, text) = {} THEN cites
  ELSE Cite(cites, candidates[Best(label, candidates, cites, text)], label.name)

\* ... and one artifact, whose own title the citation gets; its source stands
\* for that here.
Notice(text, cites, a) ==
  IF a.id \in Cited(cites) \/ ~Mentions(text, a) THEN cites ELSE Cite(cites, a, a.source)

\* What the labels find, in their order.
Bound(text, labels, candidates) ==
  LET bound[n \in 0 .. Len(labels)] ==
        IF n = 0 THEN <<>> ELSE Bind(text, candidates, bound[n - 1], labels[n])
  IN  bound[Len(labels)]

\* The artifacts whose names the answer mentions.
Noticed(text, candidates) ==
  LET noticed[n \in 0 .. Len(candidates)] ==
        IF n = 0 THEN <<>> ELSE Notice(text, noticed[n - 1], candidates[n])
  IN  noticed[Len(candidates)]

\* verifiedAnswerCitations: when the labels find none, those that are mentioned.
Verified(text, candidates) ==
  LET bound == Bound(text, Labels(text), candidates)
  IN  IF bound # <<>> THEN bound ELSE Noticed(text, candidates)

-----------------------------------------------------------------------------
(* The answer is given its links (annotateAnswerWithEvidenceReferences).      *)

Bearing(text, name) ==
  {b \in DOMAIN text : \E i \in DOMAIN text[b].labels : text[b].labels[i].name = name}

\* citationLabelBlockIndex walks a map of the blocks: where a label stands in
\* several, any of them is found. A home of every label.
Homes(text) ==
  LET labels == {Labels(text)[i].name : i \in DOMAIN Labels(text)}
  IN  {home \in [labels -> DOMAIN text] : \A l \in labels : home[l] \in Bearing(text, l)}

LastProse(text) ==
  LET prose == {b \in DOMAIN text : text[b].prose}
  IN  IF prose = {} THEN 1 ELSE CHOOSE b \in prose : \A c \in prose : c <= b

\* The block a citation is linked from: also one whose label is the title of the
\* artifact, although no label has found it.
BlockOf(text, home, cite) ==
  LET telling == {b \in DOMAIN text : text[b].prose /\ ~text[b].fenced
                                      /\ text[b].names \cap cite.names # {}}
  IN  IF cite.label \in DOMAIN home THEN home[cite.label]
      ELSE IF telling # {} THEN CHOOSE b \in telling : \A c \in telling : b <= c
      ELSE LastProse(text)

\* evidenceLabelForBlock: the labels of a block are used up in their order, the
\* last one again and again; the citation is renamed after the one it gets.
NextLabel(labels, used, own) ==
  IF labels = <<>> THEN own
  ELSE labels[IF used < Len(labels) THEN used + 1 ELSE Len(labels)].name

\* Where every citation goes, and under which label: `placed` is a sequence of
\* [artifact, label, block].
Placed(text, cites, home) ==
  LET block   == [i \in DOMAIN cites |-> BlockOf(text, home, cites[i])]
      used(i) == Cardinality({j \in 1 .. i - 1 : block[j] = block[i]})
  IN  [i \in DOMAIN cites |->
         [artifact |-> cites[i].artifact, block |-> block[i],
          label    |-> NextLabel(text[block[i]].labels, used(i), cites[i].label)]]

\* Every label goes; the links of a block stand at its end, and are lost with a
\* block that held labels only (appendMarkdownMarkers).
Annotated(text, placed) ==
  [b \in DOMAIN text |->
     [text[b] EXCEPT
        !.labels  = <<>>,
        !.markers = IF ~text[b].prose THEN {}
                    ELSE {[citation |-> i, artifact |-> placed[i].artifact] :
                            i \in {j \in DOMAIN placed : placed[j].block = b}}]]

Markers(text) == UNION {text[b].markers : b \in DOMAIN text}
=============================================================================
