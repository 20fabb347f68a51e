--------------------------- MODULE AgentRunsProofs ---------------------------
(* Proofs about AgentRuns, for any number of runs, artifacts and crashes, any  *)
(* requests, faults and clients: however many writers race for the outcome of  *)
(* a run, the server shows what RunOutcome promises; then, what the events of  *)
(* a run hold once it has its outcome, and what a client that follows them has *)
(* been sent; last, what a pass of retention leaves of the answers of a        *)
(* session, and of runs that others still wait for.                            *)
EXTENDS AgentRuns, WellFoundedInduction, TLAPS

-----------------------------------------------------------------------------
(* The inductive invariant.                                                    *)

Statuses == {"queued", "running"} \cup Outcomes

\* Run r has been created, and if it still is there its outcome is s.
Truth(r, s) ==
  /\ r \in 1 .. created /\ s \in Outcomes
  /\ r \in DOMAIN rs => rs[r].status = s

TableOK ==
  /\ created \in 0 .. MaxRuns
  /\ DOMAIN rs \subseteq 1 .. created
  /\ \A r \in DOMAIN rs : "status" \in DOMAIN rs[r] /\ rs[r].status \in Statuses

\* An event tells the outcome of its run, or none.
EventOK(r, e) ==
  /\ {"id", "type", "artifact", "status"} \subseteq DOMAIN e
  /\ e.id \in 1 .. appended[r]
  /\ e.status = "none" \/ Truth(r, e.status)
  /\ e.type = "artifact" => e.status = "none"

EventsOK ==
  /\ DOMAIN events = Runs /\ DOMAIN appended = Runs
  /\ \A r \in Runs : appended[r] \in Nat
  /\ \A r \in Runs \ DOMAIN rs : events[r] = {}
  /\ \A r \in Runs : \A e \in events[r] : EventOK(r, e)
  /\ \A r \in Runs : \A e, f \in events[r] : e.id = f.id => e = f

\* What the goroutine of a run is about to tell.
TellLabels == {"tell", "failTell", "reportTell", "markError", "markTell"}
Owes(g) ==
  CASE g.at = "tell" -> {"completed"}
    [] g.at \in {"failTell", "reportTell"} -> {"failed"}
    [] g.at \in {"markError", "markTell"} -> {g.status}
    [] OTHER -> {}

GoOK ==
  /\ DOMAIN go = Runs
  /\ \A r \in Runs : {"at", "ctx", "status"} \subseteq DOMAIN go[r]
  /\ \A r \in Runs : \A s \in Owes(go[r]) : Truth(r, s)

CancelOK ==
  /\ DOMAIN cancel = Cancellers
  /\ \A c \in Cancellers : {"at", "run", "status"} \subseteq DOMAIN cancel[c]
  /\ \A c \in Cancellers : cancel[c].at = "tell" => Truth(cancel[c].run, cancel[c].status)

\* What retention is about to delete has told no outcome, and no event that is
\* still to come takes its place.
RetentionOK ==
  \A r \in Runs, i \in Nat : <<r, i>> \in retention.artifacts =>
    /\ i <= appended[r]
    /\ \A e \in events[r] : e.id = i => e.status = "none"

IInv == TableOK /\ EventsOK /\ GoOK /\ CancelOK /\ RetentionOK

-----------------------------------------------------------------------------
(* What a call of the store does: it keeps the tables in order and the truth   *)
(* true, and is a step of RunOutcome or none.                                  *)

TruthKept == \A r \in Runs, s \in Outcomes : Truth(r, s) => Truth(r, s)'
PassKept  == UNCHANGED retention => RetentionOK'
Abstract  == Outcome!Next \/ UNCHANGED <<Shown, Told>>
StoreStep == TableOK' /\ EventsOK' /\ TruthKept /\ PassKept /\ Abstract

LEMMA RunsInTable ==
  ASSUME TableOK
  PROVE  DOMAIN rs \subseteq Runs /\ created \in Nat /\ 1 .. created \subseteq Runs
  BY AgentRunsAssumption DEF TableOK, Runs

LEMMA NothingStored ==
  ASSUME IInv, UNCHANGED <<created, rs, events, appended>>
  PROVE  StoreStep
<1>1. TableOK'
  BY DEF IInv, TableOK
<1>2. TruthKept
  BY DEF TruthKept, Truth
<1>3. EventsOK'
  BY DEF IInv, EventsOK, EventOK, Truth
<1>4. PassKept
  BY DEF IInv, PassKept, RetentionOK
<1>5. Abstract
  BY DEF Abstract, Shown, Told, Stored, Terminal
<1> QED BY <1>1, <1>2, <1>3, <1>4, <1>5 DEF StoreStep

\* An event with an outcome, or without one.
LEMMA EventStored ==
  ASSUME IInv, NEW r \in DOMAIN rs, NEW type, NEW artifact, NEW status,
         Appends(r, type, artifact, status), UNCHANGED <<created, rs>>,
         status = "none" \/ Truth(r, status), type = "artifact" => status = "none"
  PROVE  StoreStep
<1> DEFINE new == [id |-> appended[r] + 1, num |-> NextNumber(r), type |-> type,
                   artifact |-> artifact, status |-> status]
<1>1. r \in Runs /\ appended[r] \in Nat
  BY RunsInTable DEF IInv, EventsOK
<1>2. /\ DOMAIN events' = Runs /\ DOMAIN appended' = Runs
      /\ events'[r] = events[r] \cup {new} /\ appended'[r] = appended[r] + 1
      /\ \A x \in Runs \ {r} : events'[x] = events[x] /\ appended'[x] = appended[x]
  BY <1>1 DEF Appends, IInv, EventsOK
<1>3. /\ new.id = appended[r] + 1 /\ new.type = type /\ new.status = status
      /\ DOMAIN new = {"id", "num", "type", "artifact", "status"}
  OBVIOUS
<1> HIDE DEF new
<1>4. TableOK'
  BY DEF IInv, TableOK
<1>5. TruthKept
  BY DEF TruthKept, Truth
<1>6. EventsOK'
  <2>1. \A x \in Runs : appended'[x] \in Nat /\ appended'[x] >= appended[x]
    BY <1>1, <1>2 DEF IInv, EventsOK
  <2>2. \A x \in Runs \ DOMAIN rs' : events'[x] = {}
    BY <1>2 DEF IInv, EventsOK
  <2>3. ASSUME NEW x \in Runs, NEW e \in events'[x] PROVE EventOK(x, e)'
    <3>1. CASE e \in events[x]
      BY <1>2, <2>1, <3>1 DEF IInv, EventsOK, EventOK, Truth
    <3>2. CASE e \notin events[x]
      BY <1>1, <1>2, <1>3, <3>2 DEF EventOK, Truth
    <3> QED BY <3>1, <3>2
  <2>4. ASSUME NEW x \in Runs, NEW e \in events'[x], NEW f \in events'[x], e.id = f.id
        PROVE  e = f
    <3>1. \A g \in events[r] : g.id # appended[r] + 1
      BY <1>1 DEF IInv, EventsOK, EventOK
    <3> QED BY <1>1, <1>2, <1>3, <2>4, <3>1 DEF IInv, EventsOK
  <2> QED BY <1>2, <2>1, <2>2, <2>3, <2>4 DEF EventsOK
<1>7. PassKept
  BY <1>1, <1>2, <1>3 DEF PassKept, IInv, RetentionOK
<1>8. Abstract
  <2>1. Shown' = Shown
    BY DEF Shown, Stored, Terminal
  <2>2. CASE status = "none"
    <3>1. \A x \in Runs : Told'[x] = Told[x]
      BY <1>1, <1>2, <1>3, <2>2 DEF Told
    <3>2. Told' = Told
      BY <3>1 DEF Told
    <3> QED BY <2>1, <3>2 DEF Abstract
  <2>3. CASE status # "none"
    <3>1. Shown[r] = status /\ status \in Outcomes
      <4>1. status \in Outcomes /\ rs[r].status = status /\ ~(r > created)
        BY <2>3 DEF Truth, IInv, TableOK
      <4> QED BY <1>1, <4>1 DEF Shown, Stored, Terminal, IsTerminalRunStatus, Outcomes
    <3>2. Told[r] \subseteq {status}
      BY <1>1, <2>3 DEF Told, IInv, EventsOK, EventOK, Truth
    <3>3. Told'[r] = {status}
      BY <1>1, <1>2, <1>3, <2>3, <3>2 DEF Told
    <3>4. \A x \in Runs \ {r} : Told'[x] = Told[x]
      BY <1>2 DEF Told
    <3>5. Told' = [Told EXCEPT ![r] = {Shown[r]}]
      BY <1>1, <3>1, <3>3, <3>4 DEF Told
    <3>6. Outcome!Tell(r)
      BY <2>1, <3>1, <3>5 DEF Outcome!Tell, Outcome!Outcomes, Outcomes
    <3> QED BY <1>1, <3>6 DEF Abstract, Outcome!Next
  <2> QED BY <2>2, <2>3
<1> QED BY <1>4, <1>5, <1>6, <1>7, <1>8 DEF StoreStep

\* A status that is not final gives way to another one.
LEMMA StatusStored ==
  ASSUME IInv, NEW r \in DOMAIN rs, NEW status \in Statuses,
         UpdateRunStatus(r, status), UNCHANGED <<created, events, appended>>
  PROVE  /\ StoreStep
         /\ \A s \in Outcomes : Updated(r, status)[r].status = s => Truth(r, s)'
<1>1. r \in Runs /\ r \in 1 .. created
  BY RunsInTable DEF IInv, TableOK
<1>2. rs[r].status \in Statuses /\ "status" \in DOMAIN rs[r]
  BY DEF IInv, TableOK
<1>3. rs' = Updated(r, status)
  BY DEF UpdateRunStatus
<1>4. /\ DOMAIN rs' = DOMAIN rs
      /\ \A x \in DOMAIN rs \ {r} : rs'[x] = rs[x]
      /\ "status" \in DOMAIN rs'[r]
      /\ rs'[r].status = IF rs[r].status \in Outcomes THEN rs[r].status ELSE status
  BY <1>2, <1>3 DEF Updated, Terminal, IsTerminalRunStatus, Outcomes
<1>5. TableOK'
  BY <1>2, <1>4 DEF IInv, TableOK
<1>6. TruthKept
  BY <1>4 DEF TruthKept, Truth
<1>7. EventsOK'
  <2>1. ASSUME NEW x \in Runs, NEW e \in events[x] PROVE EventOK(x, e)'
    BY <1>4 DEF IInv, EventsOK, EventOK, Truth
  <2> QED BY <1>4, <2>1 DEF IInv, EventsOK
<1>8. PassKept
  BY DEF PassKept, IInv, RetentionOK
<1>9. Told' = Told
  BY DEF Told
<1>10. \A x \in Runs \ {r} : Shown'[x] = Shown[x]
  BY <1>4 DEF Shown, Stored, Terminal
<1>11. /\ Shown[r] = IF rs[r].status \in Outcomes THEN rs[r].status ELSE "open"
       /\ Shown'[r] = IF rs'[r].status \in Outcomes THEN rs'[r].status ELSE "open"
  <2>1. ~(r > created)
    BY <1>1, RunsInTable DEF IInv
  <2> QED BY <1>1, <1>4, <2>1 DEF Shown, Stored, Terminal, IsTerminalRunStatus, Outcomes
<1>12. Abstract
  <2>1. CASE Shown'[r] = Shown[r]
    <3>1. Shown' = Shown
      BY <1>10, <2>1 DEF Shown
    <3> QED BY <1>9, <3>1 DEF Abstract
  <2>2. CASE Shown'[r] # Shown[r]
    <3>1. Shown[r] = "open" /\ Shown'[r] \in Outcomes
      BY <1>4, <1>11, <2>2
    <3>2. Shown' = [Shown EXCEPT ![r] = Shown'[r]]
      BY <1>1, <1>10 DEF Shown
    <3>3. Outcome!Decide(r, Shown'[r])
      BY <1>9, <3>1, <3>2 DEF Outcome!Decide
    <3> QED BY <1>1, <3>1, <3>3 DEF Abstract, Outcome!Next, Outcome!Outcomes, Outcomes
  <2> QED BY <2>1, <2>2
<1>13. \A s \in Outcomes : Updated(r, status)[r].status = s => Truth(r, s)'
  BY <1>1, <1>3 DEF Truth
<1> QED BY <1>5, <1>6, <1>7, <1>8, <1>12, <1>13 DEF StoreStep

LEMMA RunStored ==
  ASSUME IInv, NEW retryOf, NEW retryRoot, NEW parent,
         CreateRun(retryOf, retryRoot, parent), UNCHANGED <<events, appended>>
  PROVE  StoreStep /\ created + 1 \in Runs
<1>1. /\ created \in Nat /\ created + 1 \in Runs /\ created + 1 \notin DOMAIN rs
      /\ created' = created + 1 /\ created' \in 0 .. MaxRuns
  BY AgentRunsAssumption DEF IInv, TableOK, CreateRun, Runs
<1>2. /\ DOMAIN rs' = DOMAIN rs \cup {created + 1}
      /\ \A x \in DOMAIN rs : rs'[x] = rs[x]
      /\ "status" \in DOMAIN rs'[created + 1] /\ rs'[created + 1].status = "queued"
  BY <1>1 DEF CreateRun
<1>3. TableOK'
  BY <1>1, <1>2 DEF IInv, TableOK, Statuses
<1>4. TruthKept
  BY <1>1, <1>2 DEF TruthKept, Truth
<1>5. EventsOK'
  <2>1. ASSUME NEW x \in Runs, NEW e \in events[x] PROVE EventOK(x, e)'
    BY <1>4 DEF IInv, EventsOK, EventOK, TruthKept, Truth
  <2> QED BY <1>2, <2>1 DEF IInv, EventsOK
<1>6. PassKept
  BY DEF PassKept, IInv, RetentionOK
<1>7. Abstract
  <2>1. Told' = Told
    BY DEF Told
  <2>2. Shown[created + 1] = "none" /\ Shown'[created + 1] = "open"
    BY <1>1, <1>2 DEF Shown, Stored, Terminal, IsTerminalRunStatus
  <2>3. \A x \in Runs \ {created + 1} : Shown'[x] = Shown[x]
    BY <1>1, <1>2 DEF Shown, Stored, Terminal, Runs
  <2>4. Shown' = [Shown EXCEPT ![created + 1] = "open"]
    BY <1>1, <2>2, <2>3 DEF Shown
  <2>5. Outcome!Open(created + 1)
    BY <2>1, <2>2, <2>4 DEF Outcome!Open
  <2> QED BY <1>1, <2>5 DEF Abstract, Outcome!Next
<1> QED BY <1>1, <1>3, <1>4, <1>5, <1>6, <1>7 DEF StoreStep

\* Runs go with their events, and so do events of others that tell nothing.
LEMMA RunsGone ==
  ASSUME IInv, NEW S,
         rs' = [r \in DOMAIN rs \ S |-> rs[r]],
         DOMAIN events' = Runs,
         \A r \in Runs : events'[r] \subseteq events[r] /\ (r \in S => events'[r] = {}),
         \A r \in Runs \ S : \A e \in events[r] \ events'[r] : e.status = "none",
         UNCHANGED <<created, appended>>
  PROVE  TableOK' /\ EventsOK' /\ TruthKept /\ Abstract
<1>1. /\ DOMAIN rs' = DOMAIN rs \ S
      /\ \A r \in DOMAIN rs' : rs'[r] = rs[r]
  OBVIOUS
<1>2. TableOK'
  BY <1>1 DEF IInv, TableOK
<1>3. TruthKept
  BY <1>1 DEF TruthKept, Truth
<1>4. EventsOK'
  <2>1. ASSUME NEW x \in Runs, NEW e \in events'[x] PROVE EventOK(x, e)'
    <3>1. e \in events[x]
      BY <2>1
    <3> QED BY <1>3, <3>1 DEF IInv, EventsOK, EventOK, TruthKept, Truth
  <2> QED BY <1>1, <2>1 DEF IInv, EventsOK
<1>5. Abstract
  <2> DEFINE T == S \cap DOMAIN rs
  <2>1. \A r \in T : Shown[r] \in Outcome!Outcomes \cup {"open"}
    BY RunsInTable DEF Shown, Stored, Terminal, IsTerminalRunStatus, Outcome!Outcomes, IInv, TableOK
  <2>2. Shown' = [r \in Runs |-> IF r \in T THEN "gone" ELSE Shown[r]]
    BY <1>1, RunsInTable DEF Shown, Stored, Terminal, IInv, TableOK
  <2>3. \A r \in Runs : Told'[r] = IF r \in T THEN {} ELSE Told[r]
    <3>1. ASSUME NEW r \in Runs, r \in S PROVE Told'[r] = {}
      BY <3>1 DEF Told
    <3>2. ASSUME NEW r \in Runs, r \notin S PROVE Told'[r] = Told[r]
      BY <3>2 DEF Told
    <3>3. ASSUME NEW r \in Runs, r \notin DOMAIN rs PROVE Told[r] = {}
      BY <3>3 DEF Told, IInv, EventsOK
    <3> QED BY <3>1, <3>2, <3>3
  <2>4. Told' = [r \in Runs |-> IF r \in T THEN {} ELSE Told[r]]
    BY <2>3 DEF Told
  <2>5. T \in SUBSET Runs
    BY RunsInTable DEF IInv
  <2>6. Outcome!Remove(T)
    BY <2>1, <2>2, <2>4 DEF Outcome!Remove
  <2> QED BY <2>5, <2>6 DEF Abstract, Outcome!Next
<1> QED BY <1>2, <1>3, <1>4, <1>5

-----------------------------------------------------------------------------
(* What becomes of the goroutines and the requests.                            *)

LEMMA GoStays ==
  ASSUME IInv, StoreStep, UNCHANGED go
  PROVE  GoOK'
<1>1. \A r \in Runs : \A s \in Owes(go[r]) : Truth(r, s)'
  BY DEF IInv, GoOK, StoreStep, TruthKept, Truth
<1> QED BY <1>1 DEF IInv, GoOK

LEMMA CancelStays ==
  ASSUME IInv, StoreStep, UNCHANGED cancel
  PROVE  CancelOK'
<1>1. ASSUME NEW c \in Cancellers, cancel[c].at = "tell" PROVE Truth(cancel[c].run, cancel[c].status)'
  <2>1. Truth(cancel[c].run, cancel[c].status)
    BY <1>1 DEF IInv, CancelOK
  <2>2. cancel[c].run \in Runs
    BY <2>1, RunsInTable DEF IInv, Truth
  <2> QED BY <2>1, <2>2 DEF StoreStep, TruthKept, Truth
<1> QED BY <1>1 DEF IInv, CancelOK

LEMMA GoMoves ==
  ASSUME IInv, StoreStep, NEW r \in Runs, NEW g, go' = [go EXCEPT ![r] = g],
         {"at", "ctx", "status"} \subseteq DOMAIN g,
         \A s \in Owes(g) : Truth(r, s)'
  PROVE  GoOK'
<1>1. DOMAIN go' = Runs /\ go'[r] = g /\ \A x \in Runs \ {r} : go'[x] = go[x]
  BY DEF IInv, GoOK
<1>2. ASSUME NEW x \in Runs, NEW s \in Owes(go'[x]) PROVE Truth(x, s)'
  <2>1. CASE x = r
    BY <1>1, <1>2, <2>1
  <2>2. CASE x # r
    <3>1. s \in Owes(go[x])
      BY <1>1, <1>2, <2>2
    <3> QED BY <3>1 DEF IInv, GoOK, StoreStep, TruthKept, Truth
  <2> QED BY <2>1, <2>2
<1>3. \A x \in Runs : \A s \in Owes(go[x])' : Truth(x, s)'
  BY <1>2 DEF Owes
<1> QED BY <1>1, <1>3 DEF IInv, GoOK

\* A goroutine goes on to a step of its work, or ends: it owes nothing.
WorkLabels ==
  {"announce", "launch", "input", "begin", "begun", "work", "tool", "complete", "answer", "cite",
   "settle", "fail", "failing", "failSettle", "report", "reporting", "reportSettle", "mark", "markSettle"}
Works(r) == Leave(r) \/ \E label \in WorkLabels : Goto(r, label)

LEMMA GoWorks ==
  ASSUME IInv, StoreStep, NEW r \in Runs, Works(r)
  PROVE  GoOK'
<1>1. CASE Leave(r)
  <2>1. {"at", "ctx", "status"} \subseteq DOMAIN Idle /\ Owes(Idle) = {}
    BY DEF Idle, Owes
  <2> QED BY <1>1, <2>1, GoMoves DEF Leave
<1>2. ASSUME NEW label \in WorkLabels, Goto(r, label) PROVE GoOK'
  <2> DEFINE g == [go[r] EXCEPT !.at = label]
  <2>1. go' = [go EXCEPT ![r] = g]
    BY <1>2 DEF Goto
  <2>2. {"at", "ctx", "status"} \subseteq DOMAIN g /\ g.at = label
    BY DEF IInv, GoOK
  <2>3. Owes(g) = {}
    BY <2>2 DEF Owes, WorkLabels
  <2> QED BY <2>1, <2>2, <2>3, GoMoves
<1> QED BY <1>1, <1>2 DEF Works

\* It goes on to tell what is true.
LEMMA GoTells ==
  ASSUME IInv, StoreStep, NEW r \in Runs, NEW label \in TellLabels, Goto(r, label),
         \A s \in Owes([go[r] EXCEPT !.at = label]) : Truth(r, s)'
  PROVE  GoOK'
<1> DEFINE g == [go[r] EXCEPT !.at = label]
<1>1. go' = [go EXCEPT ![r] = g]
  BY DEF Goto
<1>2. {"at", "ctx", "status"} \subseteq DOMAIN g
  BY DEF IInv, GoOK
<1> QED BY <1>1, <1>2, GoMoves

LEMMA Keeps ==
  ASSUME IInv, StoreStep, GoOK', UNCHANGED <<cancel, retention>>
  PROVE  IInv' /\ Abstract
  BY CancelStays DEF IInv, StoreStep, PassKept

-----------------------------------------------------------------------------
(* The steps of a goroutine.                                                   *)

LEMMA BrokenWorks ==
  ASSUME NEW r, Broken(r) \/ Returns(r)
  PROVE  Works(r)
  BY DEF Broken, Returns, Works, WorkLabels

\* Steps that store nothing.
LEMMA PlainStep ==
  ASSUME IInv, NEW r \in Runs,
         \/ StartAgentRun(r) \/ Iterated(r) \/ AgentErrs(r) \/ Complete(r) \/ Fail(r)
         \/ Report(r) \/ ToolReturns(r) \/ Mark(r)
  PROVE  IInv' /\ Abstract
<1>1. UNCHANGED <<others, rs, events, appended>>
  BY DEF StartAgentRun, Iterated, AgentErrs, Complete, Fail, Report, ToolReturns, Mark
<1>2. Works(r)
  BY BrokenWorks DEF StartAgentRun, Iterated, AgentErrs, Complete, Fail, Report, ToolReturns, Mark,
    Works, WorkLabels
<1>3. StoreStep
  BY <1>1, NothingStored DEF others
<1> QED BY <1>1, <1>2, <1>3, GoWorks, Keeps DEF others

LEMMA TimeOutStep ==
  ASSUME IInv, NEW r \in Runs, BranchTimesOut(r)
  PROVE  IInv' /\ Abstract
<1> DEFINE g == [go[r] EXCEPT !.ctx = TRUE]
<1>1. StoreStep
  BY NothingStored DEF BranchTimesOut, others
<1>2. go' = [go EXCEPT ![r] = g]
  BY DEF BranchTimesOut
<1>3. {"at", "ctx", "status"} \subseteq DOMAIN g /\ g.at = go[r].at /\ g.status = go[r].status
  BY DEF IInv, GoOK
<1>4. Owes(g) = Owes(go[r])
  BY <1>3 DEF Owes
<1>5. \A s \in Owes(g) : Truth(r, s)'
  BY <1>1, <1>4 DEF IInv, GoOK, StoreStep, TruthKept, Truth
<1>6. GoOK'
  BY <1>1, <1>2, <1>3, <1>5, GoMoves
<1> QED BY <1>1, <1>6, Keeps DEF BranchTimesOut, others

\* Steps that append an event which tells no outcome.
LEMMA RecordsStep ==
  ASSUME IInv, NEW r \in Runs, NEW from, NEW type, NEW artifact, NEW to \in WorkLabels,
         Records(r, from, type, artifact, to)
  PROVE  IInv' /\ Abstract
<1>1. StoreStep
  <2>1. CASE Refused(r)
    BY <2>1, NothingStored DEF Records, others
  <2>2. CASE ~Refused(r)
    BY <2>2, EventStored DEF Records, others, Refused, Stored, AppendRunEvent
  <2> QED BY <2>1, <2>2
<1>2. Works(r)
  BY BrokenWorks DEF Records, Works
<1> QED BY <1>1, <1>2, GoWorks, Keeps DEF Records, others

LEMMA EventStep ==
  ASSUME IInv, NEW r \in Runs,
         \/ RecordRunCreated(r) \/ RecordCompletionInput(r) \/ Begun(r) \/ RecordArtifact(r)
         \/ Answer(r) \/ Cite(r) \/ FailError(r) \/ ReportError(r) \/ AnnounceChild(r)
  PROVE  IInv' /\ Abstract
<1>1. CASE RecordCompletionInput(r) \/ Begun(r) \/ RecordArtifact(r) \/ FailError(r)
  BY <1>1, RecordsStep DEF RecordCompletionInput, Begun, RecordArtifact, FailError, WorkLabels
<1>2. CASE Cite(r)
  <2>1. CASE go[r].cites = {}
    <3>1. UNCHANGED <<others, rs, events, appended>> /\ Works(r)
      BY <1>2, <2>1 DEF Cite, Works, WorkLabels
    <3>2. StoreStep
      BY <3>1, NothingStored DEF others
    <3> QED BY <3>1, <3>2, GoWorks, Keeps DEF others
  <2>2. CASE go[r].cites # {}
    BY <1>2, <2>2, RecordsStep DEF Cite, WorkLabels
  <2> QED BY <2>1, <2>2
<1>3. CASE RecordRunCreated(r) \/ Answer(r) \/ ReportError(r) \/ AnnounceChild(r)
  <2>1. UNCHANGED <<others, rs>>
    BY <1>3 DEF RecordRunCreated, Answer, ReportError, AnnounceChild
  <2>2. \/ UNCHANGED <<events, appended>>
        \/ Stored(r) /\ \E type \in {"created", "final", "error"} : AppendRunEvent(r, type, None)
    BY <1>3 DEF RecordRunCreated, Answer, ReportError, AnnounceChild, Refused
  <2>3. StoreStep
    BY <2>1, <2>2, NothingStored, EventStored DEF others, Stored, AppendRunEvent
  <2>4. GoOK'
    <3>1. CASE Answer(r) /\ ~Refused(r)
      <4>1. PICK a : go' = [go EXCEPT ![r].at = "cite", ![r].cites = a]
        BY <3>1 DEF Answer
      <4> DEFINE g == [[go[r] EXCEPT !.at = "cite"] EXCEPT !.cites = a]
      <4>2. go' = [go EXCEPT ![r] = g]
        BY <4>1 DEF IInv, GoOK
      <4>3. {"at", "ctx", "status"} \subseteq DOMAIN g /\ g.at = "cite"
        BY DEF IInv, GoOK
      <4>4. Owes(g) = {}
        BY <4>3 DEF Owes
      <4> QED BY <2>3, <4>2, <4>3, <4>4, GoMoves
    <3>2. CASE ~(Answer(r) /\ ~Refused(r))
      <4>1. Works(r)
        BY <1>3, <3>2, BrokenWorks
          DEF RecordRunCreated, Answer, ReportError, AnnounceChild, Works, WorkLabels
      <4> QED BY <2>3, <4>1, GoWorks
    <3> QED BY <3>1, <3>2
  <2> QED BY <2>1, <2>3, <2>4, Keeps DEF others
<1> QED BY <1>1, <1>2, <1>3

\* The status is set, and then there is an outcome to tell, or work to do.
LEMMA SettleStep ==
  ASSUME IInv, NEW r \in Runs, NEW status \in Statuses, NEW label \in TellLabels,
         UNCHANGED <<others, events, appended>>,
         \/ UNCHANGED rs /\ Works(r)
         \/ /\ r \in DOMAIN rs /\ UpdateRunStatus(r, status)
            /\ \/ Works(r)
               \/ /\ Updated(r, status)[r].status = status /\ status \in Outcomes
                  /\ Goto(r, label)
                  /\ Owes([go[r] EXCEPT !.at = label]) = {status}
  PROVE  IInv' /\ Abstract
<1>1. CASE UNCHANGED rs /\ Works(r)
  BY <1>1, NothingStored, GoWorks, Keeps DEF others
<1>2. CASE r \in DOMAIN rs /\ UpdateRunStatus(r, status)
  <2>1. StoreStep /\ \A s \in Outcomes : Updated(r, status)[r].status = s => Truth(r, s)'
    BY <1>2, StatusStored DEF others
  <2>2. CASE Works(r)
    BY <2>1, <2>2, GoWorks, Keeps DEF others
  <2>3. CASE ~Works(r)
    <3>1. /\ Updated(r, status)[r].status = status /\ status \in Outcomes /\ Goto(r, label)
          /\ Owes([go[r] EXCEPT !.at = label]) = {status}
      BY <2>3
    <3>2. \A s \in Owes([go[r] EXCEPT !.at = label]) : Truth(r, s)'
      BY <2>1, <3>1
    <3> QED BY <2>1, <3>1, <3>2, GoTells, Keeps DEF others
  <2> QED BY <2>2, <2>3
<1> QED BY <1>1, <1>2

LEMMA StatusStep ==
  ASSUME IInv, NEW r \in Runs, Begin(r) \/ Settle(r) \/ FailSettle(r) \/ ReportSettle(r)
  PROVE  IInv' /\ Abstract
<1> USE SettleStep, BrokenWorks
<1>1. \A label : {"at"} \subseteq DOMAIN go[r] => [go[r] EXCEPT !.at = label].at = label
  OBVIOUS
<1>2. "at" \in DOMAIN go[r]
  BY DEF IInv, GoOK
<1>3. Leave(r) => Works(r)
  BY DEF Works
<1>4. Goto(r, "begun") \/ Goto(r, "work") => Works(r)
  BY DEF Works, WorkLabels
<1>5. CASE Begin(r)
  BY <1>3, <1>4, <1>5 DEF Begin, Refused, Stored, Statuses, TellLabels
<1>6. CASE Settle(r)
  BY <1>1, <1>2, <1>3, <1>6 DEF Settle, Refused, Stored, Statuses, Outcomes, TellLabels, Owes
<1>7. CASE FailSettle(r)
  BY <1>1, <1>2, <1>3, <1>7 DEF FailSettle, Refused, Stored, Statuses, Outcomes, TellLabels, Owes
<1>8. CASE ReportSettle(r)
  BY <1>1, <1>2, <1>3, <1>8 DEF ReportSettle, Refused, Stored, Statuses, Outcomes, TellLabels, Owes
<1> QED BY <1>5, <1>6, <1>7, <1>8

\* A child is failed: what is told next is the status it has then.
LEMMA MarkSettleStep ==
  ASSUME IInv, NEW r \in Runs, MarkSettle(r)
  PROVE  IInv' /\ Abstract
<1>1. CASE r \notin DOMAIN rs
  <2>1. Works(r) /\ UNCHANGED <<others, rs, events, appended>>
    BY <1>1 DEF MarkSettle, Works, Stored
  <2> QED BY <2>1, NothingStored, GoWorks, Keeps DEF others
<1>2. CASE r \in DOMAIN rs
  <2> DEFINE status == Updated(r, "failed")[r].status
             g == [[go[r] EXCEPT !.at = "markError"] EXCEPT !.status = status]
  <2>1. UpdateRunStatus(r, "failed") /\ UNCHANGED <<others, events, appended>>
    BY <1>2 DEF MarkSettle, Stored
  <2>2. StoreStep /\ \A s \in Outcomes : status = s => Truth(r, s)'
    BY <1>2, <2>1, StatusStored DEF others, Statuses, Outcomes
  <2>3. status \in Outcomes
    BY <1>2 DEF Updated, Terminal, IsTerminalRunStatus, Outcomes, IInv, TableOK
  <2>4. PICK st : st = status
    OBVIOUS
  <2>5. go' = [go EXCEPT ![r] = [[go[r] EXCEPT !.at = "markError"] EXCEPT !.status = st]]
    BY <1>2, <2>4 DEF MarkSettle, Stored, IInv, GoOK
  <2> DEFINE h == [[go[r] EXCEPT !.at = "markError"] EXCEPT !.status = st]
  <2>6. {"at", "ctx", "status"} \subseteq DOMAIN h /\ h.at = "markError" /\ h.status = st
    BY DEF IInv, GoOK
  <2>7. Owes(h) = {st}
    BY <2>6 DEF Owes
  <2>8. Truth(r, st)'
    BY <2>2, <2>3, <2>4
  <2>9. GoOK'
    BY <2>2, <2>5, <2>6, <2>7, <2>8, GoMoves
  <2> QED BY <2>1, <2>2, <2>9, Keeps DEF others
<1> QED BY <1>1, <1>2

\* Steps that tell an outcome, or keep it to be told.
LEMMA TellStep ==
  ASSUME IInv, NEW r \in Runs,
         TellCompleted(r) \/ FailTell(r) \/ ReportTell(r) \/ MarkTell(r)
  PROVE  IInv' /\ Abstract
<1>1. UNCHANGED <<others, rs>> /\ Works(r)
  BY BrokenWorks DEF TellCompleted, FailTell, ReportTell, MarkTell, MarkAppends, Works
<1>2. PICK s \in Owes(go[r]), type \in Outcomes :
        UNCHANGED <<events, appended>> \/ (Stored(r) /\ AppendOutcome(r, type, s))
  BY DEF TellCompleted, FailTell, ReportTell, MarkTell, MarkAppends, Owes, At, Refused, Outcomes
<1>3. Truth(r, s)
  BY DEF IInv, GoOK
<1>4. StoreStep
  BY <1>1, <1>2, <1>3, NothingStored, EventStored DEF others, Stored, AppendOutcome, Outcomes
<1> QED BY <1>1, <1>4, GoWorks, Keeps DEF others

LEMMA MarkErrorStep ==
  ASSUME IInv, NEW r \in Runs, MarkError(r)
  PROVE  IInv' /\ Abstract
<1>1. UNCHANGED <<others, rs>>
  BY DEF MarkError, MarkAppends
<1>2. StoreStep
  BY <1>1, NothingStored, EventStored DEF MarkError, MarkAppends, others, Stored, AppendRunEvent
<1>3. CASE Leave(r)
  BY <1>1, <1>2, <1>3, GoWorks, Keeps DEF Works, others
<1>4. CASE Goto(r, "markTell")
  <2> DEFINE g == [go[r] EXCEPT !.at = "markTell"]
  <2>1. go[r].at = "markError" /\ g.at = "markTell" /\ g.status = go[r].status
    BY DEF MarkError, MarkAppends, At, IInv, GoOK
  <2>2. Owes(g) = Owes(go[r])
    BY <2>1 DEF Owes
  <2>3. \A s \in Owes(g) : Truth(r, s)'
    BY <1>2, <2>2 DEF IInv, GoOK, StoreStep, TruthKept, Truth
  <2>4. GoOK'
    BY <1>2, <1>4, <2>3, GoTells DEF TellLabels
  <2> QED BY <1>1, <1>2, <2>4, Keeps DEF others
<1> QED BY <1>3, <1>4 DEF MarkError, MarkAppends

LEMMA GoroutineStep ==
  ASSUME IInv, NEW r \in Runs, Goroutine(r)
  PROVE  IInv' /\ Abstract
  BY PlainStep, EventStep, StatusStep, MarkSettleStep, TellStep, MarkErrorStep DEF Goroutine

-----------------------------------------------------------------------------
(* The steps of requests and of the server.                                    *)

\* Goroutines that start, stop or end owe nothing new.
LEMMA GoQuiets ==
  ASSUME IInv, StoreStep, DOMAIN go' = Runs,
         \A x \in Runs : {"at", "ctx", "status"} \subseteq DOMAIN go'[x],
         \A x \in Runs : Owes(go'[x]) \subseteq Owes(go[x])
  PROVE  GoOK'
<1>1. ASSUME NEW x \in Runs, NEW s \in Owes(go'[x]) PROVE Truth(x, s)'
  <2>1. s \in Owes(go[x])
    BY <1>1
  <2> QED BY <2>1 DEF IInv, GoOK, StoreStep, TruthKept, Truth
<1>2. \A x \in Runs : \A s \in Owes(go[x])' : Truth(x, s)'
  BY <1>1 DEF Owes
<1> QED BY <1>2 DEF GoOK

LEMMA GoStops ==
  ASSUME IInv, StoreStep, NEW S, go' = Stopped(S)
  PROVE  GoOK'
<1>1. DOMAIN go' = Runs /\ \A x \in Runs : go'[x] = go[x] \/ go'[x] = [go[x] EXCEPT !.ctx = TRUE]
  BY DEF Stopped
<1>2. \A x \in Runs :
        /\ {"at", "ctx", "status"} \subseteq DOMAIN go'[x]
        /\ go'[x].at = go[x].at /\ go'[x].status = go[x].status
  BY <1>1 DEF IInv, GoOK
<1>3. \A x \in Runs : Owes(go'[x]) \subseteq Owes(go[x])
  BY <1>2 DEF Owes
<1> QED BY <1>1, <1>2, <1>3, GoQuiets

LEMMA CreateStep ==
  ASSUME IInv, CreateAgentRun \/ \E o \in Runs : RetryAgentRun(o)
  PROVE  IInv' /\ Abstract
<1>1. \E retryOf, retryRoot, parent : CreateRun(retryOf, retryRoot, parent)
  BY DEF CreateAgentRun, RetryAgentRun
<1>2. /\ Goto(created + 1, "announce")
      /\ UNCHANGED <<phase, crashes, events, appended, cancel, deletion, retention, follow>>
  BY DEF CreateAgentRun, RetryAgentRun
<1>3. StoreStep /\ created + 1 \in Runs
  BY <1>1, <1>2, RunStored
<1>4. Works(created + 1)
  BY <1>2 DEF Works, WorkLabels
<1>5. PICK r \in Runs : r = created + 1
  BY <1>3
<1>6. Works(r)
  BY <1>4, <1>5
<1> QED BY <1>2, <1>3, <1>6, GoWorks, Keeps

LEMMA SpawnStep ==
  ASSUME IInv, NEW r \in Runs, SpawnChild(r)
  PROVE  IInv' /\ Abstract
<1>1. UNCHANGED <<phase, crashes, events, appended, cancel, deletion, retention, follow>>
  BY DEF SpawnChild
<1>2. StoreStep /\ created + 1 \in Runs
  BY RunStored DEF SpawnChild
<1>3. DOMAIN go' = Runs
  BY DEF SpawnChild, IInv, GoOK
<1>4. ASSUME NEW x \in Runs
      PROVE  {"at", "ctx", "status"} \subseteq DOMAIN go'[x] /\ Owes(go'[x]) \subseteq Owes(go[x])
  <2>1. CASE x = created + 1
    <3>1. go'[x] = [Idle EXCEPT !.at = "announce", !.parent = r]
      BY <2>1 DEF SpawnChild, IInv, GoOK
    <3>2. {"at", "ctx", "status"} \subseteq DOMAIN go'[x] /\ go'[x].at = "announce"
      BY <3>1 DEF Idle
    <3> QED BY <3>2 DEF Owes
  <2>2. CASE x # created + 1 /\ x = r
    <3>1. go'[x] = [go[x] EXCEPT !.at = "tool"]
      BY <2>2 DEF SpawnChild, IInv, GoOK
    <3>2. {"at", "ctx", "status"} \subseteq DOMAIN go'[x] /\ go'[x].at = "tool"
      BY <3>1 DEF IInv, GoOK
    <3> QED BY <3>2 DEF Owes
  <2>3. CASE x # created + 1 /\ x # r
    BY <2>3 DEF SpawnChild, IInv, GoOK
  <2> QED BY <2>1, <2>2, <2>3
<1>5. GoOK'
  BY <1>2, <1>3, <1>4, GoQuiets
<1> QED BY <1>1, <1>2, <1>5, Keeps

LEMMA CancelStep ==
  ASSUME IInv, NEW c \in Cancellers,
         \/ CancelStops(c)
         \/ \E r \in Runs, kind \in {"api", "a2a"} : CancelLooks(c, r, kind)
  PROVE  IInv' /\ Abstract
<1>1. UNCHANGED <<goOthers, rs, events>>
  BY DEF CancelStops, CancelLooks
<1>2. StoreStep
  BY <1>1, NothingStored DEF goOthers
<1>3. GoOK'
  <2>1. CASE CancelStops(c)
    BY <1>2, <2>1, GoStops DEF CancelStops
  <2>2. CASE ~CancelStops(c)
    BY <1>2, <2>2, GoStays DEF CancelLooks
  <2> QED BY <2>1, <2>2
<1>4. /\ DOMAIN cancel' = Cancellers
      /\ \A d \in Cancellers \ {c} : cancel'[d] = cancel[d]
      /\ {"at", "run", "status"} \subseteq DOMAIN cancel'[c] /\ cancel'[c].at # "tell"
  BY DEF CancelStops, CancelLooks, IInv, CancelOK
<1>5. CancelOK'
  <2>1. ASSUME NEW d \in Cancellers \ {c}, cancel[d].at = "tell"
        PROVE  Truth(cancel[d].run, cancel[d].status)'
    <3>1. Truth(cancel[d].run, cancel[d].status)
      BY <2>1 DEF IInv, CancelOK
    <3> QED BY <1>1, <1>4, <3>1 DEF Truth, goOthers
  <2> QED BY <1>4, <2>1 DEF IInv, CancelOK
<1>6. RetentionOK'
  BY <1>1, <1>2 DEF StoreStep, PassKept, goOthers
<1> QED BY <1>2, <1>3, <1>5, <1>6 DEF IInv, StoreStep

LEMMA CancelTellsStep ==
  ASSUME IInv, NEW c \in Cancellers, CancelTells(c)
  PROVE  IInv' /\ Abstract
<1>1. UNCHANGED <<created, retention, rs, go>>
  BY DEF CancelTells
<1>2. StoreStep
  <2>1. CASE Stored(cancel[c].run)
    <3>1. PICK r \in DOMAIN rs, s \in {cancel[c].status} : r = cancel[c].run
      BY <2>1 DEF Stored
    <3>2. Appends(r, "cancelled", None, s) /\ Truth(r, s)
      BY <2>1, <3>1 DEF CancelTells, AppendOutcome, IInv, CancelOK
    <3> QED BY <1>1, <3>2, EventStored
  <2>2. CASE ~Stored(cancel[c].run)
    BY <1>1, <2>2, NothingStored DEF CancelTells
  <2> QED BY <2>1, <2>2
<1>3. GoOK'
  BY <1>1, <1>2, GoStays
<1>4. /\ DOMAIN cancel' = Cancellers
      /\ \A d \in Cancellers \ {c} : cancel'[d] = cancel[d]
      /\ {"at", "run", "status"} \subseteq DOMAIN cancel'[c] /\ cancel'[c].at # "tell"
  BY DEF CancelTells, NoCancel, IInv, CancelOK
<1>5. CancelOK'
  <2>1. ASSUME NEW d \in Cancellers \ {c}, cancel[d].at = "tell"
        PROVE  Truth(cancel[d].run, cancel[d].status)'
    <3>1. Truth(cancel[d].run, cancel[d].status)
      BY <2>1 DEF IInv, CancelOK
    <3> QED BY <1>1, <1>4, <3>1 DEF Truth
  <2> QED BY <1>4, <2>1 DEF IInv, CancelOK
<1>6. RetentionOK'
  BY <1>1, <1>2 DEF StoreStep, PassKept
<1> QED BY <1>2, <1>3, <1>5, <1>6 DEF IInv, StoreStep

\* The A2A door tells whatever outcome the store answered with.
LEMMA CancelSettlesStep ==
  ASSUME IInv, NEW c \in Cancellers, CancelSettles(c)
  PROVE  IInv' /\ Abstract
<1>1. UNCHANGED <<phase, crashes, created, appended, deletion, retention, follow, events, go>>
  BY DEF CancelSettles, goOthers
<1>2. PICK r, got :
        /\ r = cancel[c].run
        /\ got = IF Stored(r) THEN Updated(r, "cancelled")[r].status ELSE "none"
  OBVIOUS
<1>3. /\ IF Stored(r) THEN UpdateRunStatus(r, "cancelled") ELSE UNCHANGED rs
      /\ cancel' = [cancel EXCEPT ![c] =
           IF got = "cancelled" \/ (cancel[c].kind = "a2a" /\ Stored(r))
           THEN [@ EXCEPT !.at = "tell", !.status = got] ELSE NoCancel]
  BY <1>2 DEF CancelSettles
<1>4. StoreStep /\ (got = "cancelled" \/ Stored(r) => Truth(r, got)')
  <2>1. CASE Stored(r)
    <3>1. r \in DOMAIN rs /\ UpdateRunStatus(r, "cancelled") /\ "cancelled" \in Statuses
      BY <1>3, <2>1 DEF Stored, Statuses, Outcomes
    <3>2. /\ StoreStep
          /\ \A s \in Outcomes : Updated(r, "cancelled")[r].status = s => Truth(r, s)'
      BY <1>1, <3>1, StatusStored
    <3>3. got \in Outcomes /\ got = Updated(r, "cancelled")[r].status
      BY <1>2, <2>1, <3>1 DEF Updated, Terminal, IsTerminalRunStatus, Outcomes, IInv, TableOK
    <3> QED BY <3>2, <3>3
  <2>2. CASE ~Stored(r)
    BY <1>1, <1>2, <1>3, <2>2, NothingStored
  <2> QED BY <2>1, <2>2
<1>5. GoOK'
  BY <1>1, <1>4, GoStays
<1>6. /\ DOMAIN cancel' = Cancellers
      /\ \A d \in Cancellers \ {c} : cancel'[d] = cancel[d]
      /\ {"at", "run", "status"} \subseteq DOMAIN cancel'[c]
  BY <1>3 DEF NoCancel, IInv, CancelOK
<1>7. cancel'[c].at = "tell" =>
        cancel'[c].run = r /\ cancel'[c].status = got /\ (got = "cancelled" \/ Stored(r))
  BY <1>2, <1>3 DEF NoCancel, IInv, CancelOK
<1>8. CancelOK'
  <2>1. ASSUME NEW d \in Cancellers \ {c}, cancel'[d].at = "tell"
        PROVE  Truth(cancel[d].run, cancel[d].status)'
    <3>1. PICK x, s : x = cancel[d].run /\ s = cancel[d].status
      OBVIOUS
    <3>2. Truth(x, s)
      BY <1>6, <2>1, <3>1 DEF IInv, CancelOK
    <3>3. x \in Runs /\ s \in Outcomes
      BY <3>2, RunsInTable DEF IInv, Truth
    <3>4. Truth(x, s)'
      BY <1>4, <3>2, <3>3 DEF StoreStep, TruthKept
    <3>5. cancel'[d].run = x /\ cancel'[d].status = s
      BY <1>6, <3>1
    <3> QED BY <3>4, <3>5 DEF Truth
  <2>2. ASSUME cancel'[c].at = "tell"
        PROVE  Truth(cancel[c].run, cancel[c].status)'
    BY <1>4, <1>7, <2>2 DEF Truth
  <2>3. \A d \in Cancellers :
          cancel'[d].at = "tell" => Truth(cancel[d].run, cancel[d].status)'
    BY <2>1, <2>2
  <2> QED BY <1>6, <2>3 DEF CancelOK, IInv
<1>9. RetentionOK'
  BY <1>1, <1>4 DEF StoreStep, PassKept
<1> QED BY <1>4, <1>5, <1>8, <1>9 DEF IInv, StoreStep

\* A session is deleted with its runs.
LEMMA DeletionStep ==
  ASSUME IInv, DeletionLooks \/ DeletionStops \/ DeletionDeletes
  PROVE  IInv' /\ Abstract
<1>1. CASE DeletionLooks \/ DeletionStops
  <2>1. StoreStep /\ UNCHANGED <<cancel, retention>>
    BY <1>1, NothingStored DEF DeletionLooks, DeletionStops
  <2>2. GoOK'
    BY <1>1, <2>1, GoStays, GoStops DEF DeletionLooks, DeletionStops
  <2> QED BY <2>1, <2>2, Keeps
<1>2. CASE DeletionDeletes
  <2>1. UNCHANGED <<created, appended, go, cancel, retention>>
    BY <1>2 DEF DeletionDeletes
  <2>2. /\ rs' = [r \in DOMAIN rs \ DOMAIN rs |-> rs[r]]
        /\ events' = [r \in Runs |-> IF r \in DOMAIN rs THEN {} ELSE events[r]]
    BY <1>2 DEF DeletionDeletes, DeleteRuns
  <2>3. TableOK' /\ EventsOK' /\ TruthKept /\ Abstract
    BY <2>1, <2>2, RunsGone
  <2>4. PassKept
    BY <2>1, <2>2 DEF PassKept, IInv, RetentionOK
  <2>5. StoreStep
    BY <2>3, <2>4 DEF StoreStep
  <2> QED BY <2>1, <2>5, GoStays, Keeps
<1> QED BY <1>1, <1>2

\* The retention pass: what it planned to delete was an artifact, and a number
\* of an event is not used again.
LEMMA RetentionStep ==
  ASSUME IInv, RetentionReadsRuns \/ RetentionPlans \/ RetentionDeletes
  PROVE  IInv' /\ Abstract
<1>1. UNCHANGED <<created, appended, go, cancel>>
  BY DEF RetentionReadsRuns, RetentionPlans, RetentionDeletes, retOthers
<1>2. CASE RetentionReadsRuns
  <2>1. StoreStep
    BY <1>1, <1>2, NothingStored DEF RetentionReadsRuns
  <2>2. RetentionOK'
    BY <1>2 DEF RetentionReadsRuns, RetentionOK
  <2> QED BY <1>1, <2>1, <2>2, GoStays, CancelStays DEF IInv, StoreStep
<1>3. CASE RetentionPlans
  <2>1. StoreStep
    BY <1>1, <1>3, NothingStored DEF RetentionPlans
  <2>0. \A x \in Runs : \A d \in events[x] : {"id", "type", "artifact"} \subseteq DOMAIN d
    BY DEF IInv, EventsOK, EventOK
  <2> DEFINE evs == [r \in Runs |->
               {[e EXCEPT !.id = <<r, @>>, !.artifact = <<r, @>>] : e \in events[r]}]
             unused == {e.id : e \in UnreferencedArtifacts(retention.runs, retention.prunable, evs)}
  <2>2. UNCHANGED events /\ retention'.artifacts \subseteq unused
    BY <1>3 DEF RetentionPlans, NoPass
  <2>3. ASSUME NEW r \in Runs, NEW i \in Nat, <<r, i>> \in unused
        PROVE  \E d \in events[r] : d.id = i /\ d.type = "artifact"
    <3>0. PICK x \in Runs : \E e \in evs[x] : e.type = "artifact" /\ e.id = <<r, i>>
      BY <2>3 DEF UnreferencedArtifacts
    <3>1. PICK e \in evs[x] : e.type = "artifact" /\ e.id = <<r, i>>
      BY <3>0
    <3>2. PICK d \in events[x] : e = [d EXCEPT !.id = <<x, d.id>>, !.artifact = <<x, d.artifact>>]
      OBVIOUS
    <3>3. {"id", "type", "artifact"} \subseteq DOMAIN d
      BY <2>0, <3>2
    <3>4. e.id = <<x, d.id>> /\ e.type = d.type
      BY <3>2, <3>3
    <3>5. <<x, d.id>> = <<r, i>>
      BY <3>1, <3>4
    <3>6. x = r /\ d.id = i
      BY <3>5
    <3> QED BY <3>1, <3>4, <3>6
  <2> HIDE DEF unused, evs
  <2>4. ASSUME NEW r \in Runs, NEW i \in Nat, <<r, i>> \in retention'.artifacts
        PROVE  i <= appended[r] /\ \A e \in events[r] : e.id = i => e.status = "none"
    BY <2>2, <2>3, <2>4 DEF IInv, EventsOK, EventOK
  <2>5. RetentionOK'
    BY <1>1, <2>2, <2>4 DEF RetentionOK
  <2> QED BY <1>1, <2>1, <2>5, GoStays, CancelStays DEF IInv, StoreStep
<1>4. CASE RetentionDeletes
  <2>1. /\ rs' = [r \in DOMAIN rs \ retention.runs |-> rs[r]]
        /\ DOMAIN events' = Runs
        /\ \A r \in Runs : events'[r] = IF r \in retention.runs THEN {}
             ELSE {e \in events[r] : <<r, e.id>> \notin retention.artifacts}
        /\ retention' = NoPass
    BY <1>4 DEF RetentionDeletes
  <2>2. \A r \in Runs \ retention.runs : \A e \in events[r] \ events'[r] : e.status = "none"
    <3>1. \A r \in Runs : \A e \in events[r] : e.id \in Nat
      BY DEF IInv, EventsOK, EventOK
    <3> QED BY <2>1, <3>1 DEF IInv, RetentionOK
  <2>3. TableOK' /\ EventsOK' /\ TruthKept /\ Abstract
    BY <1>1, <2>1, <2>2, RunsGone
  <2>4. RetentionOK'
    BY <2>1 DEF RetentionOK, NoPass
  <2>5. StoreStep
    BY <2>3, <2>4 DEF StoreStep, PassKept
  <2> QED BY <1>1, <2>4, <2>5, GoStays, CancelStays DEF IInv, StoreStep
<1> QED BY <1>2, <1>3, <1>4

\* The server stops and starts; what was about to be told is forgotten.
LEMMA ServerStep ==
  ASSUME IInv, Close \/ Exit \/ Restart \/ Recovered
  PROVE  IInv' /\ Abstract
<1>1. StoreStep
  BY NothingStored DEF Close, Exit, Restart, Recovered
<1>2. GoOK'
  <2>1. CASE Close
    BY <1>1, <2>1, GoStops DEF Close
  <2>2. CASE Recovered
    BY <1>1, <2>2, GoStays DEF Recovered
  <2>3. CASE Exit \/ Restart
    <3>1. DOMAIN go' = Runs /\ \A x \in Runs : go'[x] = Idle \/ go'[x] = [Idle EXCEPT !.at = "report"]
      BY <2>3 DEF Exit, Restart
    <3>2. \A x \in Runs : {"at", "ctx", "status"} \subseteq DOMAIN go'[x] /\ Owes(go'[x]) = {}
      BY <3>1 DEF Idle, Owes
    <3> QED BY <1>1, <3>1, <3>2, GoQuiets
  <2> QED BY <2>1, <2>2, <2>3
<1>3. CASE Exit
  <2>1. CancelOK' /\ RetentionOK'
    BY <1>3 DEF Exit, CancelOK, RetentionOK, NoCancel, NoPass
  <2> QED BY <1>1, <1>2, <2>1 DEF IInv, StoreStep
<1>4. CASE ~Exit
  BY <1>1, <1>2, <1>4, Keeps DEF Close, Restart, Recovered
<1> QED BY <1>3, <1>4

\* A client that follows a run changes nothing.
LEMMA FollowStep ==
  ASSUME IInv,
         \/ \E kind \in Followers \ {"task"}, r \in Runs : Follow(kind, r)
         \/ \E r \in Runs : SendMessage(r) \/ GetTask(r)
         \/ Stream
  PROVE  IInv' /\ Abstract
<1>1. UNCHANGED folOthers
  BY DEF Follow, SendMessage, GetTask, Stream, ListAndWrite, LookAtStatus, FlushFinal,
    FlushGivesUp, SnapshotStatus, Snapshot, StreamLooks, StreamLists, WaitForRun, TaskFromRun, Streams
<1>2. StoreStep
  BY <1>1, NothingStored DEF folOthers
<1> QED BY <1>1, <1>2, GoStays, Keeps DEF folOthers

-----------------------------------------------------------------------------
LEMMA InitOK ==
  ASSUME Init
  PROVE  IInv /\ Outcome!Init
<1>1. TableOK /\ EventsOK
  BY AgentRunsAssumption DEF Init, TableOK, EventsOK
<1>2. GoOK
  BY DEF Init, GoOK, Idle, Owes
<1>3. CancelOK /\ RetentionOK
  BY DEF Init, CancelOK, RetentionOK, NoCancel, NoPass
<1>4. Outcome!Init
  BY DEF Init, Outcome!Init, Shown, Told, Runs
<1> QED BY <1>1, <1>2, <1>3, <1>4 DEF IInv

LEMMA NextOK ==
  ASSUME IInv, [Next]_vars
  PROVE  IInv' /\ Abstract
<1>1. CASE Next
  <2>1. CASE \E r \in Runs : Goroutine(r) \/ SpawnChild(r) \/ BranchTimesOut(r)
    BY <2>1, GoroutineStep, SpawnStep, TimeOutStep
  <2>2. CASE \E c \in Cancellers : \/ CancelRequest(c)
                                   \/ \E r \in Runs, kind \in {"api", "a2a"} : CancelLooks(c, r, kind)
    BY <2>2, CancelStep, CancelSettlesStep, CancelTellsStep DEF CancelRequest
  <2>3. CASE DeletionLooks \/ DeleteRequest \/ RetentionReadsRuns \/ RetentionPass
    BY <2>3, DeletionStep, RetentionStep DEF DeleteRequest, RetentionPass
  <2>4. CASE CreateAgentRun \/ \E o \in Runs : RetryAgentRun(o)
    BY <2>4, CreateStep
  <2>5. CASE Stops \/ Restart \/ Recovered
    BY <2>5, ServerStep DEF Stops
  <2>6. CASE \/ \E kind \in Followers \ {"task"}, r \in Runs : Follow(kind, r)
             \/ \E r \in Runs : SendMessage(r) \/ GetTask(r)
             \/ Stream
    BY <2>6, FollowStep
  <2> QED BY <1>1, <2>1, <2>2, <2>3, <2>4, <2>5, <2>6 DEF Next
<1>2. CASE UNCHANGED vars
  <2>1. StoreStep
    BY <1>2, NothingStored DEF vars
  <2> QED BY <1>2, <2>1, GoStays, Keeps DEF vars
<1> QED BY <1>1, <1>2

\* Every behaviour of the server, of however many runs, writers, requests and
\* crashes, is one that RunOutcome allows: a run gets one outcome, keeps it, and
\* no event of it tells another.
THEOREM OutcomesAreOne == Spec => OneOutcome
<1>1. Init => IInv /\ Outcome!Init
  BY InitOK
<1>2. IInv /\ [Next]_vars => IInv' /\ [Outcome!Next]_<<Shown, Told>>
  BY NextOK DEF Abstract
<1> QED BY <1>1, <1>2, PTL DEF Spec, OneOutcome, Outcome!Spec

\* An event that tells an outcome tells the one its run has in the store, whoever
\* wrote it: the runner, a cancel request of either door, a parent, a recovery.
EventsTellTheTruth ==
  \A r \in DOMAIN rs : \A e \in events[r] : e.status # "none" => rs[r].status = e.status

THEOREM EventsAreTrue == Spec => []EventsTellTheTruth
<1>1. Init => IInv
  BY InitOK
<1>2. IInv /\ [Next]_vars => IInv'
  BY NextOK
<1>3. IInv => EventsTellTheTruth
  BY RunsInTable DEF IInv, EventsOK, EventOK, Truth, EventsTellTheTruth
<1> QED BY <1>1, <1>2, <1>3, PTL DEF Spec

-----------------------------------------------------------------------------
(* The events of a run: what they hold once it has its outcome, and what a     *)
(* client that follows them has been sent. The invariants, beside IInv.        *)

\* Where the goroutine of a run is before it completed the run: from none of the
\* other labels does it come back to these.
Unsettled == {"announce", "launch", "input", "begin", "begun", "work", "tool",
              "complete", "answer", "cite", "settle"}

\* While the goroutine may still write the answer or a citation, the run is not
\* completed.
StillAtWork ==
  \A r \in DOMAIN rs : go[r].at \in Unsettled => rs[r].status # "completed"

Resolves(r, a) == \E x \in events[r] : x.type = "artifact" /\ x.artifact = a

\* Runs that are completed, or may be yet.
Alive(r) == r \in DOMAIN rs /\ rs[r].status \notin {"failed", "cancelled"}

\* An artifact is named after its event.
ArtifactsNamed ==
  \A r \in Runs : \A e \in events[r] : e.type = "artifact" => e.artifact = e.id

\* What is about to be cited is there, and so is what has been.
CitesHold ==
  \A r \in Runs : Alive(r) /\ go[r].at = "cite" => \A a \in go[r].cites : Resolves(r, a)
CitationsHold ==
  \A r \in Runs : Alive(r) =>
    \A e \in events[r] : e.type = "citation" => Resolves(r, e.artifact)

\* A run whose artifacts the pass may take has its outcome; if that is an answer,
\* the answer does not cite what the pass takes.
Over(r) == r \in 1 .. created /\ (r \in DOMAIN rs => Terminal(r))
PassSpares ==
  /\ \A r \in retention.prunable : Over(r)
  /\ \A r \in Runs, i \in Nat : <<r, i>> \in retention.artifacts =>
       /\ Over(r)
       /\ Alive(r) => \A e \in events[r] : e.type = "citation" => e.artifact # i

CitesThere == \A r \in Runs : "cites" \in DOMAIN go[r]

CiteInv == /\ CitesThere /\ StillAtWork /\ ArtifactsNamed
           /\ CitesHold /\ CitationsHold /\ PassSpares

-----------------------------------------------------------------------------
(* The kinds of steps.                                                         *)

\* What a step does to the goroutine of a run ...
GoStep(x) ==
  /\ "cites" \in DOMAIN go'[x]
  /\ go'[x].at \in Unsettled => go[x].at \in Unsettled \/ x \notin 1 .. created
  /\ go'[x].at = "cite" =>
       \/ go[x].at = "cite" /\ go'[x].cites = go[x].cites
       \/ \A a \in go'[x].cites : Resolves(x, a)

\* ... and to its row.
RowStep(x) ==
  x \in DOMAIN rs' =>
    \/ x \notin 1 .. created /\ rs'[x].status = "queued" /\ go'[x].at = "announce"
    \/ x \in DOMAIN rs /\ rs'[x].status = rs[x].status
    \/ x \in DOMAIN rs /\ ~Terminal(x) /\ (rs'[x].status = "completed" => go'[x].at \notin Unsettled)

GoSteps  == \A x \in Runs : GoStep(x)
RowSteps == \A x \in Runs : RowStep(x)

\* A step that works on the table and the goroutines alone, ...
Quiet == /\ UNCHANGED <<events, appended, retention, follow>>
         /\ created' >= created
         /\ GoSteps /\ RowSteps

\* ... one that appends an event to a run, ...
Writer(r, type, artifact) ==
  /\ r \in DOMAIN rs
  /\ type = "final" => go[r].at = "answer"
  /\ type = "citation" => go[r].at = "cite" /\ artifact \in go[r].cites
  /\ type = "artifact" => artifact = appended[r] + 1
Speaking == /\ UNCHANGED <<created, rs, retention, follow>>
            /\ GoSteps
            /\ \E r, type, artifact, status :
                 Writer(r, type, artifact) /\ Appends(r, type, artifact, status)

\* ... and the others.
Pass == RetentionReadsRuns \/ RetentionPlans \/ RetentionDeletes
Following ==
  \/ \E kind \in Followers \ {"task"}, r \in Runs : Follow(kind, r)
  \/ \E r \in Runs : SendMessage(r) \/ GetTask(r)
  \/ Stream
StepKind == Quiet \/ Speaking \/ DeletionDeletes \/ Pass \/ Following \/ Exit

\* A goroutine that leaves, or goes on to a label, and not back to work.
Moves(r) ==
  \/ Leave(r)
  \/ \E label \in (WorkLabels \cup TellLabels) \ {"cite"} :
       Goto(r, label) /\ (label \in Unsettled => go[r].at \in Unsettled)

LEMMA MovesStep ==
  ASSUME IInv, CitesThere, NEW r \in Runs, Moves(r)
  PROVE  GoSteps
<1>1. DOMAIN go = Runs /\ {"at", "cites"} \subseteq DOMAIN go[r]
  BY DEF IInv, GoOK, CitesThere
<1>2. ASSUME NEW x \in Runs \ {r} PROVE GoStep(x)
  <2>1. go'[x] = go[x]
    BY <1>1 DEF Moves, Leave, Goto
  <2> QED BY <2>1 DEF GoStep, CitesThere
<1>3. GoStep(r)
  <2>1. CASE Leave(r)
    <3>1. "cites" \in DOMAIN go'[r] /\ go'[r].at = "none"
      BY <1>1, <2>1 DEF Leave, Idle
    <3> QED BY <3>1 DEF GoStep, Unsettled
  <2>2. ASSUME NEW label \in (WorkLabels \cup TellLabels) \ {"cite"}, Goto(r, label),
               label \in Unsettled => go[r].at \in Unsettled
        PROVE  GoStep(r)
    <3>1. "cites" \in DOMAIN go'[r] /\ go'[r].at = label
      BY <1>1, <2>2 DEF Goto
    <3> QED BY <2>2, <3>1 DEF GoStep
  <2> QED BY <2>1, <2>2 DEF Moves
<1> QED BY <1>2, <1>3 DEF GoSteps

LEMMA RowsStay ==
  ASSUME UNCHANGED rs
  PROVE  RowSteps
  BY DEF RowSteps, RowStep

\* A status is set that does not complete the run, or its goroutine settles it.
LEMMA StatusRow ==
  ASSUME IInv, NEW r \in DOMAIN rs, NEW status, UpdateRunStatus(r, status),
         status = "completed" => go'[r].at \notin Unsettled
  PROVE  RowSteps
<1>1. "status" \in DOMAIN rs[r]
  BY DEF IInv, TableOK
<1>2. /\ DOMAIN rs' = DOMAIN rs
      /\ \A x \in DOMAIN rs \ {r} : rs'[x] = rs[x]
      /\ rs'[r] = rs[r] \/ (~Terminal(r) /\ rs'[r].status = status)
  BY <1>1 DEF UpdateRunStatus, Updated
<1> QED BY <1>2 DEF RowSteps, RowStep

\* The row of a new run.
LEMMA NewRow ==
  ASSUME IInv, NEW retryOf, NEW retryRoot, NEW parent, CreateRun(retryOf, retryRoot, parent),
         \A x \in Runs : x = created + 1 => go'[x].at = "announce"
  PROVE  /\ RowSteps
         /\ created \in Nat /\ created + 1 \in Runs /\ created' = created + 1
<1>1. /\ created \in Nat /\ created + 1 \in Runs /\ created + 1 \notin DOMAIN rs
      /\ created' = created + 1
  BY AgentRunsAssumption DEF IInv, TableOK, CreateRun, Runs
<1>2. /\ DOMAIN rs' = DOMAIN rs \cup {created + 1}
      /\ \A x \in DOMAIN rs : rs'[x] = rs[x]
      /\ rs'[created + 1].status = "queued"
  BY <1>1 DEF CreateRun
<1> QED BY <1>1, <1>2 DEF RowSteps, RowStep

-----------------------------------------------------------------------------
(* Which step is of which kind.                                                *)

\* The two ways EinoRunner.Run ends.
LEMMA EndMoves ==
  ASSUME NEW r, Broken(r) \/ Returns(r)
  PROVE  Moves(r)
  BY DEF Broken, Returns, Moves, WorkLabels, Unsettled

LEMMA PlainKind ==
  ASSUME IInv, CitesThere, NEW r \in Runs,
         \/ StartAgentRun(r) \/ Iterated(r) \/ AgentErrs(r) \/ Complete(r) \/ Fail(r)
         \/ Report(r) \/ ToolReturns(r) \/ Mark(r)
  PROVE  Quiet
<1>1. UNCHANGED <<others, rs, events, appended>>
  BY DEF StartAgentRun, Iterated, AgentErrs, Complete, Fail, Report, ToolReturns, Mark
<1>2. Moves(r)
  BY EndMoves DEF StartAgentRun, Iterated, AgentErrs, Complete, Fail, Report, ToolReturns, Mark,
    Moves, WorkLabels, Unsettled, At
<1>3. created' >= created
  BY <1>1 DEF others, IInv, TableOK
<1> QED BY <1>1, <1>2, <1>3, MovesStep, RowsStay DEF Quiet, others

LEMMA StatusKind ==
  ASSUME IInv, CitesThere, NEW r \in Runs,
         Begin(r) \/ Settle(r) \/ FailSettle(r) \/ ReportSettle(r)
  PROVE  Quiet
<1>1. UNCHANGED <<others, events, appended>>
  BY DEF Begin, Settle, FailSettle, ReportSettle
<1>2. Moves(r)
  BY EndMoves DEF Begin, Settle, FailSettle, ReportSettle, Moves, WorkLabels, TellLabels, Unsettled, At
<1>3. CASE UNCHANGED rs
  BY <1>1, <1>2, <1>3, MovesStep, RowsStay DEF Quiet, others, IInv, TableOK
<1>4. CASE ~UNCHANGED rs
  <2>1. PICK status \in {"running", "completed", "failed"} :
          /\ r \in DOMAIN rs /\ UpdateRunStatus(r, status)
          /\ status = "completed" => Settle(r)
    BY <1>4 DEF Begin, Settle, FailSettle, ReportSettle, Refused, Stored
  <2>2. Settle(r) => go'[r].at \notin Unsettled
    <3>1. DOMAIN go = Runs /\ "at" \in DOMAIN go[r]
      BY DEF IInv, GoOK
    <3>2. Settle(r) => Leave(r) \/ \E label \in {"tell", "mark", "report"} : Goto(r, label)
      BY DEF Settle, Broken, Returns
    <3> QED BY <3>1, <3>2 DEF Leave, Goto, Idle, Unsettled
  <2>3. RowSteps
    BY <2>1, <2>2, StatusRow
  <2> QED BY <1>1, <1>2, <2>3, MovesStep DEF Quiet, others, IInv, TableOK
<1> QED BY <1>3, <1>4

LEMMA MarkSettleKind ==
  ASSUME IInv, CitesThere, NEW r \in Runs, MarkSettle(r)
  PROVE  Quiet
<1>1. UNCHANGED <<others, events, appended>>
  BY DEF MarkSettle
<1>2. CASE ~Stored(r)
  <2>1. Moves(r) /\ UNCHANGED rs
    BY <1>2 DEF MarkSettle, Moves
  <2> QED BY <1>1, <2>1, MovesStep, RowsStay DEF Quiet, others, IInv, TableOK
<1>3. CASE Stored(r)
  <2>1. UpdateRunStatus(r, "failed") /\ r \in DOMAIN rs
    BY <1>3 DEF MarkSettle, Stored
  <2>2. PICK st : st = Updated(r, "failed")[r].status
    OBVIOUS
  <2>3. DOMAIN go = Runs /\ {"at", "cites", "status"} \subseteq DOMAIN go[r]
    BY DEF IInv, GoOK, CitesThere
  <2>4. go' = [go EXCEPT ![r].at = "markError", ![r].status = st]
    BY <1>3, <2>2 DEF MarkSettle
  <2>5. go' = [go EXCEPT ![r] = [[go[r] EXCEPT !.at = "markError"] EXCEPT !.status = st]]
    BY <2>3, <2>4
  <2> DEFINE g == [[go[r] EXCEPT !.at = "markError"] EXCEPT !.status = st]
  <2>6. "cites" \in DOMAIN g /\ g.at = "markError"
    BY <2>3
  <2>7. go'[r] = g /\ \A x \in Runs \ {r} : go'[x] = go[x]
    BY <2>3, <2>5
  <2> HIDE DEF g
  <2>8. GoStep(r)
    BY <2>6, <2>7 DEF GoStep, Unsettled
  <2>9. GoSteps
    BY <2>7, <2>8 DEF GoSteps, GoStep, CitesThere
  <2> QED BY <1>1, <2>1, <2>9, StatusRow DEF Quiet, others, IInv, TableOK
<1> QED BY <1>2, <1>3

\* Steps that append an event, or could not.
LEMMA SpeakingKind ==
  ASSUME IInv, CitesThere, NEW r \in Runs, UNCHANGED <<others, rs>>, GoSteps,
         NEW type, NEW artifact, NEW status,
         \/ UNCHANGED <<events, appended>>
         \/ Writer(r, type, artifact) /\ Appends(r, type, artifact, status)
  PROVE  Quiet \/ Speaking
<1>1. CASE UNCHANGED <<events, appended>>
  BY <1>1, RowsStay DEF Quiet, others, IInv, TableOK
<1>2. CASE Writer(r, type, artifact) /\ Appends(r, type, artifact, status)
  BY <1>2 DEF Speaking, others
<1> QED BY <1>1, <1>2

LEMMA RecordsKind ==
  ASSUME IInv, CitesThere, NEW r \in Runs, NEW from, NEW type, NEW artifact,
         NEW to \in WorkLabels \ {"cite"}, Records(r, from, type, artifact, to),
         to \in Unsettled => go[r].at \in Unsettled,
         Stored(r) => Writer(r, type, artifact)
  PROVE  Quiet \/ Speaking
<1>1. Moves(r)
  BY EndMoves DEF Records, Moves
<1>2. \/ UNCHANGED <<events, appended>>
      \/ Writer(r, type, artifact) /\ Appends(r, type, artifact, "none")
  BY DEF Records, Refused, AppendRunEvent
<1> QED BY <1>1, <1>2, MovesStep, SpeakingKind DEF Records

LEMMA EventKind ==
  ASSUME IInv, CitesThere, NEW r \in Runs,
         \/ RecordCompletionInput(r) \/ Begun(r) \/ RecordArtifact(r) \/ Cite(r) \/ FailError(r)
  PROVE  Quiet \/ Speaking
<1>1. CASE RecordCompletionInput(r)
  BY <1>1, RecordsKind DEF RecordCompletionInput, Records, At, Writer, Stored, WorkLabels, Unsettled
<1>2. CASE Begun(r)
  BY <1>2, RecordsKind DEF Begun, Records, At, Writer, Stored, WorkLabels, Unsettled
<1>3. CASE RecordArtifact(r)
  BY <1>3, RecordsKind DEF RecordArtifact, Records, At, Writer, Stored, WorkLabels, Unsettled
<1>4. CASE FailError(r)
  BY <1>4, RecordsKind DEF FailError, Records, At, Writer, Stored, WorkLabels, Unsettled
<1>5. CASE Cite(r)
  <2>1. CASE \E a \in go[r].cites : Records(r, "cite", "citation", a, "settle")
    BY <2>1, RecordsKind DEF Records, At, Writer, Stored, WorkLabels, Unsettled
  <2>2. CASE ~\E a \in go[r].cites : Records(r, "cite", "citation", a, "settle")
    <3>1. Moves(r) /\ UNCHANGED <<others, rs, events, appended>>
      BY <1>5, <2>2 DEF Cite, Moves, WorkLabels, Unsettled, At
    <3> QED BY <3>1, MovesStep, RowsStay DEF Quiet, others, IInv, TableOK
  <2> QED BY <2>1, <2>2
<1> QED BY <1>1, <1>2, <1>3, <1>4, <1>5

LEMMA OtherEventKind ==
  ASSUME IInv, CitesThere, NEW r \in Runs,
         \/ RecordRunCreated(r) \/ ReportError(r) \/ AnnounceChild(r) \/ MarkError(r)
         \/ TellCompleted(r) \/ FailTell(r) \/ ReportTell(r) \/ MarkTell(r)
  PROVE  Quiet \/ Speaking
<1>1. UNCHANGED <<others, rs>>
  BY DEF RecordRunCreated, ReportError, AnnounceChild, MarkError, MarkAppends,
    TellCompleted, FailTell, ReportTell, MarkTell
<1>2. Moves(r)
  BY EndMoves DEF RecordRunCreated, ReportError, AnnounceChild, MarkError, MarkAppends,
    TellCompleted, FailTell, ReportTell, MarkTell, Moves, WorkLabels, TellLabels, Unsettled, At
<1>3. PICK type, status :
        /\ type \in {"created", "error"} \cup Outcomes
        /\ UNCHANGED <<events, appended>> \/ (Stored(r) /\ Appends(r, type, None, status))
  BY DEF RecordRunCreated, ReportError, AnnounceChild, MarkError, MarkAppends, Outcomes, Refused,
    TellCompleted, FailTell, ReportTell, MarkTell, AppendRunEvent, AppendOutcome
<1>4. Stored(r) => Writer(r, type, None)
  BY <1>3 DEF Writer, Stored, Outcomes
<1> QED BY <1>1, <1>2, <1>3, <1>4, MovesStep, SpeakingKind

\* The answer is written, and what it cites is picked.
LEMMA AnswerKind ==
  ASSUME IInv, CitesThere, NEW r \in Runs, Answer(r)
  PROVE  Quiet \/ Speaking
<1>1. UNCHANGED <<others, rs>> /\ At(r, "answer")
  BY DEF Answer
<1>2. CASE Refused(r)
  BY <1>1, <1>2, EndMoves, MovesStep, RowsStay DEF Answer, Quiet, others, IInv, TableOK
<1>3. CASE ~Refused(r)
  <2>1. Writer(r, "final", None) /\ Appends(r, "final", None, "none")
    BY <1>1, <1>3 DEF Answer, Refused, Writer, Stored, At, AppendRunEvent
  <2>2. PICK a \in {{}} \cup {{e.artifact} : e \in {x \in events[r] : x.type = "artifact"}} :
          go' = [go EXCEPT ![r].at = "cite", ![r].cites = a]
    BY <1>3 DEF Answer
  <2>3. DOMAIN go = Runs /\ {"at", "cites"} \subseteq DOMAIN go[r]
    BY DEF IInv, GoOK, CitesThere
  <2> DEFINE g == [[go[r] EXCEPT !.at = "cite"] EXCEPT !.cites = a]
  <2>4. go' = [go EXCEPT ![r] = g]
    BY <2>2, <2>3
  <2>5. "cites" \in DOMAIN g /\ g.cites = a
    BY <2>3
  <2>6. go'[r] = g /\ \A x \in Runs \ {r} : go'[x] = go[x]
    BY <2>3, <2>4
  <2>7. \A b \in a : Resolves(r, b)
    BY <2>2 DEF Resolves
  <2> HIDE DEF g
  <2>8. GoStep(r)
    BY <1>1, <2>5, <2>6, <2>7 DEF GoStep, At, Unsettled
  <2>9. GoSteps
    BY <2>6, <2>8 DEF GoSteps, GoStep, CitesThere
  <2> QED BY <1>1, <2>1, <2>9, SpeakingKind
<1> QED BY <1>2, <1>3

LEMMA GoroutineKind ==
  ASSUME IInv, CitesThere, NEW r \in Runs, Goroutine(r)
  PROVE  Quiet \/ Speaking
  BY PlainKind, StatusKind, MarkSettleKind, EventKind, OtherEventKind, AnswerKind DEF Goroutine

\* Goroutines that are stopped, or not yet started.
LEMMA StopsQuietly ==
  ASSUME IInv, CitesThere, NEW S, go' = Stopped(S)
  PROVE  GoSteps
<1>1. \A x \in Runs : go'[x] = go[x] \/ go'[x] = [go[x] EXCEPT !.ctx = TRUE]
  BY DEF Stopped
<1>2. \A x \in Runs : {"at", "cites"} \subseteq DOMAIN go[x]
  BY DEF IInv, GoOK, CitesThere
<1>3. \A x \in Runs : "cites" \in DOMAIN go'[x] /\ go'[x].at = go[x].at /\ go'[x].cites = go[x].cites
  BY <1>1, <1>2
<1> QED BY <1>3 DEF GoSteps, GoStep

LEMMA GoUnmoved ==
  ASSUME CitesThere, UNCHANGED go
  PROVE  GoSteps
  BY DEF GoSteps, GoStep, CitesThere

LEMMA TimeOutKind ==
  ASSUME IInv, CitesThere, NEW r \in Runs, BranchTimesOut(r)
  PROVE  Quiet
<1>1. \A x \in Runs : {"at", "cites"} \subseteq DOMAIN go[x]
  BY DEF IInv, GoOK, CitesThere
<1>2. DOMAIN go = Runs /\ go' = [go EXCEPT ![r].ctx = TRUE]
  BY DEF BranchTimesOut, IInv, GoOK
<1>3. \A x \in Runs : "cites" \in DOMAIN go'[x] /\ go'[x].at = go[x].at /\ go'[x].cites = go[x].cites
  BY <1>1, <1>2
<1>4. GoSteps
  BY <1>3 DEF GoSteps, GoStep
<1> QED BY <1>4, RowsStay DEF BranchTimesOut, others, Quiet, IInv, TableOK

LEMMA CreateKind ==
  ASSUME IInv, CitesThere,
         CreateAgentRun \/ (\E o \in Runs : RetryAgentRun(o)) \/ (\E r \in Runs : SpawnChild(r))
  PROVE  Quiet
<1>1. PICK retryOf, retryRoot, parent : CreateRun(retryOf, retryRoot, parent)
  BY DEF CreateAgentRun, RetryAgentRun, SpawnChild
<1>2. created \in Nat /\ created + 1 \in Runs
  BY <1>1, AgentRunsAssumption DEF IInv, TableOK, CreateRun, Runs
<1>3. UNCHANGED <<events, appended, retention, follow>>
  BY DEF CreateAgentRun, RetryAgentRun, SpawnChild
<1>4. DOMAIN go = Runs /\ \A x \in Runs : {"at", "cites"} \subseteq DOMAIN go[x]
  BY DEF IInv, GoOK, CitesThere
<1>5. ASSUME NEW x \in Runs
      PROVE  GoStep(x) /\ (x = created + 1 => go'[x].at = "announce")
  <2>1. CASE Goto(created + 1, "announce")
    <3>1. /\ "cites" \in DOMAIN go'[x]
          /\ x = created + 1 => go'[x].at = "announce"
          /\ x # created + 1 => go'[x] = go[x]
      BY <1>4, <2>1 DEF Goto
    <3> QED BY <1>2, <3>1 DEF GoStep
  <2>2. ASSUME NEW r \in Runs, SpawnChild(r)
        PROVE  GoStep(x) /\ (x = created + 1 => go'[x].at = "announce")
    <3> DEFINE new == [Idle EXCEPT !.at = "announce", !.parent = r]
    <3>1. "cites" \in DOMAIN new /\ new.at = "announce"
      BY DEF Idle
    <3>2. /\ go' = [go EXCEPT ![r].at = "tool", ![created + 1] = new]
          /\ go[r].at = "work"
      BY <2>2 DEF SpawnChild, At
    <3> HIDE DEF new
    <3>3. /\ "cites" \in DOMAIN go'[x]
          /\ x = created + 1 => go'[x].at = "announce"
          /\ x # created + 1 /\ x = r => go'[x].at = "tool"
          /\ x # created + 1 /\ x # r => go'[x] = go[x]
      BY <1>2, <1>4, <3>1, <3>2
    <3>4. CASE x = created + 1
      BY <1>2, <3>3, <3>4 DEF GoStep
    <3>5. CASE x # created + 1 /\ x = r
      BY <3>2, <3>3, <3>5 DEF GoStep, Unsettled
    <3>6. CASE x # created + 1 /\ x # r
      BY <3>3, <3>6 DEF GoStep
    <3> QED BY <3>4, <3>5, <3>6
  <2> QED BY <2>1, <2>2 DEF CreateAgentRun, RetryAgentRun
<1>6. RowSteps /\ created' = created + 1
  BY <1>1, <1>5, NewRow
<1> QED BY <1>2, <1>3, <1>5, <1>6 DEF Quiet, GoSteps

LEMMA CancelKind ==
  ASSUME IInv, CitesThere, NEW c \in Cancellers,
         \/ CancelRequest(c)
         \/ \E r \in Runs, kind \in {"api", "a2a"} : CancelLooks(c, r, kind)
  PROVE  Quiet \/ Speaking
<1>0. created \in Nat
  BY AgentRunsAssumption DEF IInv, TableOK
<1>1. CASE CancelStops(c)
  BY <1>0, <1>1, StopsQuietly, RowsStay DEF CancelStops, goOthers, Quiet
<1>2. CASE \E r \in Runs, kind \in {"api", "a2a"} : CancelLooks(c, r, kind)
  BY <1>0, <1>2, GoUnmoved, RowsStay DEF CancelLooks, goOthers, Quiet
<1>3. CASE CancelSettles(c)
  <2>1. UNCHANGED <<created, appended, retention, follow, events, go>>
    BY <1>3 DEF CancelSettles, goOthers
  <2>2. UNCHANGED rs \/ \E r \in DOMAIN rs : UpdateRunStatus(r, "cancelled")
    BY <1>3 DEF CancelSettles, Stored
  <2>3. RowSteps
    BY <2>2, StatusRow, RowsStay
  <2> QED BY <1>0, <2>1, <2>3, GoUnmoved DEF Quiet
<1>4. CASE CancelTells(c)
  <2>1. UNCHANGED <<created, retention, follow, rs, go>>
    BY <1>4 DEF CancelTells
  <2>2. CASE Stored(cancel[c].run)
    <3>1. PICK r, s : r = cancel[c].run /\ s = cancel[c].status
      OBVIOUS
    <3>2. Writer(r, "cancelled", None) /\ Appends(r, "cancelled", None, s)
      BY <1>4, <2>2, <3>1 DEF CancelTells, AppendOutcome, Writer, Stored
    <3> QED BY <2>1, <3>2, GoUnmoved DEF Speaking
  <2>3. CASE ~Stored(cancel[c].run)
    BY <1>0, <1>4, <2>1, <2>3, GoUnmoved, RowsStay DEF CancelTells, Quiet
  <2> QED BY <2>2, <2>3
<1> QED BY <1>1, <1>2, <1>3, <1>4 DEF CancelRequest

LEMMA ServerKind ==
  ASSUME IInv, CitesThere,
         DeletionLooks \/ DeletionStops \/ Close \/ Restart \/ Recovered
  PROVE  Quiet
<1>0. created \in Nat
  BY AgentRunsAssumption DEF IInv, TableOK
<1>1. UNCHANGED <<created, rs, events, appended, retention, follow>>
  BY DEF DeletionLooks, DeletionStops, Close, Restart, Recovered
<1>2. CASE DeletionLooks \/ Recovered
  BY <1>0, <1>1, <1>2, GoUnmoved, RowsStay DEF DeletionLooks, Recovered, Quiet
<1>3. CASE DeletionStops \/ Close
  BY <1>0, <1>1, <1>3, StopsQuietly, RowsStay DEF DeletionStops, Close, Quiet
<1>4. CASE Restart
  <2>1. \A x \in Runs : go'[x] = Idle \/ go'[x] = [Idle EXCEPT !.at = "report"]
    BY <1>4 DEF Restart
  <2>2. \A x \in Runs : "cites" \in DOMAIN go'[x] /\ go'[x].at \in {"none", "report"}
    BY <2>1 DEF Idle
  <2>3. GoSteps
    BY <2>2 DEF GoSteps, GoStep, Unsettled
  <2> QED BY <1>0, <1>1, <2>3, RowsStay DEF Quiet
<1> QED BY <1>2, <1>3, <1>4

LEMMA NextKind ==
  ASSUME IInv, CitesThere, [Next]_vars
  PROVE  StepKind
<1>1. CASE \E r \in Runs : Goroutine(r) \/ SpawnChild(r) \/ BranchTimesOut(r)
  BY <1>1, GoroutineKind, CreateKind, TimeOutKind DEF StepKind
<1>2. CASE \E c \in Cancellers : \/ CancelRequest(c)
                                 \/ \E r \in Runs, kind \in {"api", "a2a"} : CancelLooks(c, r, kind)
  BY <1>2, CancelKind DEF StepKind
<1>3. CASE DeletionLooks \/ DeleteRequest \/ RetentionReadsRuns \/ RetentionPass
  BY <1>3, ServerKind DEF DeleteRequest, RetentionPass, StepKind, Pass
<1>4. CASE CreateAgentRun \/ \E o \in Runs : RetryAgentRun(o)
  BY <1>4, CreateKind DEF StepKind
<1>5. CASE Stops \/ Restart \/ Recovered
  BY <1>5, ServerKind DEF Stops, StepKind
<1>6. CASE Following
  BY <1>6 DEF StepKind
<1>7. CASE UNCHANGED vars
  <2>1. created \in Nat
    BY AgentRunsAssumption DEF IInv, TableOK
  <2> QED BY <1>7, <2>1, GoUnmoved, RowsStay DEF vars, StepKind, Quiet
<1> QED BY <1>1, <1>2, <1>3, <1>4, <1>5, <1>6, <1>7 DEF Next, Following

-----------------------------------------------------------------------------
(* What an answer cites.                                                       *)

\* Rows after a step of the table and the goroutines.
LEMMA QuietRows ==
  ASSUME IInv, Quiet, NEW x \in Runs
  PROVE  /\ x \in DOMAIN rs' /\ x \notin DOMAIN rs =>
              events[x] = {} /\ rs'[x].status = "queued" /\ go'[x].at = "announce"
         /\ Alive(x)' /\ x \in DOMAIN rs => Alive(x)
         /\ x \in DOMAIN rs' /\ x \in DOMAIN rs /\ Terminal(x) => Terminal(x)'
         /\ x \in DOMAIN rs' /\ x \in DOMAIN rs /\ Terminal(x) => rs'[x].status = rs[x].status
<1>1. RowStep(x)
  BY DEF Quiet, RowSteps
<1>2. DOMAIN rs \subseteq 1 .. created
  BY DEF IInv, TableOK
<1>3. x \notin DOMAIN rs => events[x] = {}
  BY DEF IInv, EventsOK
<1> QED BY <1>1, <1>2, <1>3 DEF RowStep, Alive, Terminal, IsTerminalRunStatus

LEMMA WorkGoesOn ==
  ASSUME IInv, IInv', CiteInv, GoSteps, RowSteps
  PROVE  CitesThere' /\ StillAtWork'
<1>1. CitesThere'
  BY DEF GoSteps, GoStep, CitesThere
<1>2. ASSUME NEW r \in DOMAIN rs', go'[r].at \in Unsettled, rs'[r].status = "completed"
      PROVE  FALSE
  <2>1. DOMAIN rs \subseteq 1 .. created
    BY DEF IInv, TableOK
  <2>2. CASE r \in Runs
    <3>1. r \in DOMAIN rs /\ rs[r].status = "completed"
      BY <1>2, <2>2 DEF RowSteps, RowStep
    <3>2. go[r].at \in Unsettled
      BY <1>2, <2>1, <2>2, <3>1 DEF GoSteps, GoStep
    <3> QED BY <3>1, <3>2 DEF CiteInv, StillAtWork
  <2>3. CASE r \notin Runs
    BY <1>2, <2>3, AgentRunsAssumption DEF IInv, TableOK, Runs
  <2> QED BY <2>2, <2>3
<1> QED BY <1>1, <1>2 DEF StillAtWork

LEMMA QuietCites ==
  ASSUME IInv, IInv', CiteInv, Quiet
  PROVE  CiteInv'
<1>1. UNCHANGED <<events, appended, retention>> /\ created' >= created /\ GoSteps /\ RowSteps
  BY DEF Quiet
<1>2. CitesThere' /\ StillAtWork'
  BY <1>1, WorkGoesOn
<1>3. ArtifactsNamed'
  BY <1>1 DEF CiteInv, ArtifactsNamed
<1>4. \A x \in Runs : \A a : Resolves(x, a) => Resolves(x, a)'
  BY <1>1 DEF Resolves
<1>5. ASSUME NEW r \in Runs, Alive(r)', go'[r].at = "cite", NEW a \in go'[r].cites
      PROVE  Resolves(r, a)'
  <2>1. (go[r].at = "cite" /\ go'[r].cites = go[r].cites) \/ Resolves(r, a)
    BY <1>1, <1>5 DEF GoSteps, GoStep
  <2>2. r \in DOMAIN rs
    BY <1>5, QuietRows DEF Alive
  <2> QED BY <1>4, <1>5, <2>1, <2>2, QuietRows DEF CiteInv, CitesHold
<1>6. ASSUME NEW r \in Runs, Alive(r)', NEW e \in events'[r], e.type = "citation"
      PROVE  Resolves(r, e.artifact)'
  <2>1. r \in DOMAIN rs
    BY <1>1, <1>6, QuietRows DEF Alive
  <2>2. Resolves(r, e.artifact)
    BY <1>1, <1>6, <2>1, QuietRows DEF CiteInv, CitationsHold
  <2> QED BY <1>4, <2>2
<1>7. PassSpares'
  <2>1. ASSUME NEW r \in Runs, Over(r) PROVE Over(r)' /\ (r \in DOMAIN rs' => r \in DOMAIN rs)
    <3>1. DOMAIN rs \subseteq 1 .. created /\ created \in Nat /\ created' \in Nat
      BY AgentRunsAssumption DEF IInv, TableOK
    <3>2. r \in DOMAIN rs' => r \in DOMAIN rs
      <4>1. RowStep(r)
        BY <1>1 DEF RowSteps
      <4> QED BY <2>1, <4>1 DEF Over, RowStep
    <3>3. r \in 1 .. created'
      BY <1>1, <2>1, <3>1 DEF Over
    <3>4. r \in DOMAIN rs' => Terminal(r)'
      BY <2>1, <3>2, QuietRows DEF Over
    <3> QED BY <3>2, <3>3, <3>4 DEF Over
  <2>2. \A r \in retention.prunable : r \in Runs
    BY RunsInTable DEF CiteInv, PassSpares, Over, IInv
  <2>3. \A r \in retention.prunable : Over(r)'
    BY <2>1, <2>2 DEF CiteInv, PassSpares
  <2>4. ASSUME NEW r \in Runs, NEW i \in Nat, <<r, i>> \in retention.artifacts
        PROVE  /\ Over(r)'
               /\ Alive(r)' => \A e \in events[r] : e.type = "citation" => e.artifact # i
    <3>1. Over(r) /\ (Alive(r) => \A e \in events[r] : e.type = "citation" => e.artifact # i)
      BY <2>4 DEF CiteInv, PassSpares
    <3>2. Alive(r)' => Alive(r)
      BY <2>1, <3>1, QuietRows DEF Alive
    <3> QED BY <2>1, <3>1, <3>2
  <2> QED BY <1>1, <2>3, <2>4 DEF PassSpares
<1> QED BY <1>2, <1>3, <1>5, <1>6, <1>7 DEF CiteInv, CitesHold, CitationsHold

\* An event is appended: an artifact, which is named after it; a citation of one
\* that is there, by a goroutine that has not completed its run; or another.
LEMMA SpeakingCites ==
  ASSUME IInv, IInv', CiteInv, Speaking
  PROVE  CiteInv'
<1>0. UNCHANGED <<created, rs, retention, follow>> /\ GoSteps
  BY DEF Speaking
<1>1. CitesThere' /\ StillAtWork'
  BY <1>0, WorkGoesOn, RowsStay
<1>2. PICK r, type, artifact, status :
        Writer(r, type, artifact) /\ Appends(r, type, artifact, status)
  BY DEF Speaking
<1> DEFINE new == [id |-> appended[r] + 1, num |-> NextNumber(r), type |-> type,
                   artifact |-> artifact, status |-> status]
<1>3. r \in DOMAIN rs /\ r \in Runs
  BY <1>2, RunsInTable DEF Writer, IInv
<1>4. /\ events'[r] = events[r] \cup {new}
      /\ \A x \in Runs \ {r} : events'[x] = events[x]
  BY <1>2, <1>3 DEF Appends, IInv, EventsOK
<1>5. new.id = appended[r] + 1 /\ new.type = type /\ new.artifact = artifact
  OBVIOUS
<1> HIDE DEF new
<1>6. \A x \in Runs : events[x] \subseteq events'[x]
  BY <1>4
<1>7. ASSUME NEW x \in Runs, NEW a, Resolves(x, a) PROVE Resolves(x, a)'
  BY <1>6, <1>7 DEF Resolves
<1>8. ArtifactsNamed'
  BY <1>2, <1>4, <1>5 DEF CiteInv, ArtifactsNamed, Writer
<1>9. \A x : Alive(x)' = Alive(x)
  BY <1>0 DEF Alive
<1>10. ASSUME NEW x \in Runs, Alive(x), go'[x].at = "cite", NEW a \in go'[x].cites
       PROVE  Resolves(x, a)'
  <2>1. (go[x].at = "cite" /\ go'[x].cites = go[x].cites) \/ Resolves(x, a)
    BY <1>0, <1>10 DEF GoSteps, GoStep
  <2> QED BY <1>7, <1>10, <2>1 DEF CiteInv, CitesHold
<1>11. ASSUME NEW x \in Runs, Alive(x), NEW e \in events'[x], e.type = "citation"
       PROVE  Resolves(x, e.artifact)'
  <2>1. CASE e \in events[x]
    BY <1>7, <1>11, <2>1 DEF CiteInv, CitationsHold
  <2>2. CASE e \notin events[x]
    <3>1. x = r /\ e = new
      BY <1>4, <2>2
    <3>2. go[r].at = "cite" /\ e.artifact \in go[r].cites
      BY <1>2, <1>5, <1>11, <3>1 DEF Writer
    <3> QED BY <1>7, <1>11, <3>1, <3>2 DEF CiteInv, CitesHold
  <2> QED BY <2>1, <2>2
<1>12. \A x : Over(x)' = Over(x)
  BY <1>0 DEF Over, Terminal
<1>13. ASSUME NEW x \in Runs, NEW i \in Nat, <<x, i>> \in retention.artifacts, Alive(x),
              NEW e \in events'[x], e.type = "citation"
       PROVE  e.artifact # i
  <2>1. CASE e \in events[x]
    BY <1>13, <2>1 DEF CiteInv, PassSpares
  <2>2. CASE e \notin events[x]
    <3>1. x = r /\ e = new
      BY <1>4, <2>2
    <3>2. go[r].at = "cite"
      BY <1>2, <1>5, <1>13, <3>1 DEF Writer
    <3>3. rs[r].status # "completed"
      BY <1>3, <3>2 DEF CiteInv, StillAtWork, Unsettled
    <3>4. Terminal(r)
      BY <1>3, <1>13, <3>1 DEF CiteInv, PassSpares, Over
    <3> QED BY <1>13, <3>1, <3>3, <3>4 DEF Alive, Terminal, IsTerminalRunStatus
  <2> QED BY <2>1, <2>2
<1>14. PassSpares'
  BY <1>0, <1>9, <1>12, <1>13 DEF CiteInv, PassSpares
<1> QED BY <1>1, <1>8, <1>9, <1>10, <1>11, <1>14 DEF CiteInv, CitesHold, CitationsHold

\* The rows and events of a set of runs go, and with them artifacts that no run
\* which is alive cites.
LEMMA GoneCites ==
  ASSUME IInv, CiteInv, NEW S,
         UNCHANGED <<created, appended, go>>,
         rs' = [r \in DOMAIN rs \ S |-> rs[r]],
         \A r \in Runs : events'[r] \subseteq events[r],
         \A r \in Runs \ S : Alive(r) =>
           \A x \in events[r] \ events'[r] : x.type = "artifact" =>
             /\ \A e \in events[r] : e.type = "citation" => e.artifact # x.artifact
             /\ rs[r].status = "completed",
         retention' = NoPass \/ (retention' = retention /\ DOMAIN rs \subseteq S)
  PROVE  CiteInv'
<1>1. /\ DOMAIN rs' = DOMAIN rs \ S
      /\ \A r \in DOMAIN rs' : rs'[r] = rs[r]
  OBVIOUS
<1>2. CitesThere' /\ StillAtWork' /\ ArtifactsNamed'
  BY <1>1 DEF CiteInv, CitesThere, StillAtWork, ArtifactsNamed
<1>3. ASSUME NEW r \in Runs, Alive(r)' PROVE Alive(r) /\ r \notin S
  BY <1>1, <1>3 DEF Alive
<1>4. ASSUME NEW r \in Runs, Alive(r)', NEW a, Resolves(r, a),
             rs[r].status # "completed" \/ \E e \in events[r] : e.type = "citation" /\ e.artifact = a
      PROVE  Resolves(r, a)'
  <2>1. PICK x \in events[r] : x.type = "artifact" /\ x.artifact = a
    BY <1>4 DEF Resolves
  <2>2. x \in events'[r]
    BY <1>3, <1>4, <2>1
  <2> QED BY <2>1, <2>2 DEF Resolves
<1>5. ASSUME NEW r \in Runs, Alive(r)', go[r].at = "cite", NEW a \in go[r].cites
      PROVE  Resolves(r, a)'
  <2>1. rs[r].status # "completed"
    BY <1>3, <1>5 DEF CiteInv, StillAtWork, Alive, Unsettled
  <2> QED BY <1>3, <1>4, <1>5, <2>1 DEF CiteInv, CitesHold
<1>6. ASSUME NEW r \in Runs, Alive(r)', NEW e \in events'[r], e.type = "citation"
      PROVE  Resolves(r, e.artifact)'
  <2>1. e \in events[r]
    BY <1>6
  <2> QED BY <1>3, <1>4, <1>6, <2>1 DEF CiteInv, CitationsHold
<1>7. PassSpares'
  <2>1. CASE retention' = NoPass
    BY <2>1 DEF PassSpares, NoPass
  <2>2. CASE retention' = retention /\ DOMAIN rs \subseteq S
    BY <1>1, <2>2 DEF CiteInv, PassSpares, Over, Alive
  <2> QED BY <2>1, <2>2
<1> QED BY <1>2, <1>5, <1>6, <1>7 DEF CiteInv, CitesHold, CitationsHold

LEMMA PassCites ==
  ASSUME IInv, CiteInv, Pass
  PROVE  CiteInv'
<1>1. UNCHANGED <<created, appended, go>>
  BY DEF Pass, RetentionReadsRuns, RetentionPlans, RetentionDeletes, retOthers
<1>2. CASE RetentionDeletes
  <2>1. /\ rs' = [r \in DOMAIN rs \ retention.runs |-> rs[r]]
        /\ \A r \in Runs : events'[r] = IF r \in retention.runs THEN {}
             ELSE {e \in events[r] : <<r, e.id>> \notin retention.artifacts}
        /\ retention' = NoPass
    BY <1>2 DEF RetentionDeletes
  <2>2. \A r \in Runs : events'[r] \subseteq events[r]
    BY <2>1
  <2>3. ASSUME NEW r \in Runs \ retention.runs, Alive(r), NEW x \in events[r] \ events'[r],
               x.type = "artifact"
        PROVE  /\ \A e \in events[r] : e.type = "citation" => e.artifact # x.artifact
               /\ rs[r].status = "completed"
    <3>1. x.id \in Nat
      BY DEF IInv, EventsOK, EventOK
    <3>2. <<r, x.id>> \in retention.artifacts
      BY <2>1
    <3>3. Over(r) /\ \A e \in events[r] : e.type = "citation" => e.artifact # x.id
      BY <2>3, <3>1, <3>2 DEF CiteInv, PassSpares
    <3>4. x.artifact = x.id
      BY <2>3 DEF CiteInv, ArtifactsNamed
    <3> QED BY <2>3, <3>3, <3>4 DEF Over, Alive, Terminal, IsTerminalRunStatus
  <2> QED BY <1>1, <2>1, <2>2, <2>3, GoneCites
<1>3. CASE RetentionReadsRuns
  <2>1. UNCHANGED <<rs, events>> /\ retention'.artifacts = {}
        /\ retention'.prunable = ArtifactPruneRuns(rs)
    BY <1>3 DEF RetentionReadsRuns
  <2>2. \A r \in retention'.prunable : Over(r)
    BY <2>1 DEF ArtifactPruneRuns, Over, Terminal, IInv, TableOK
  <2>3. PassSpares'
    BY <1>1, <2>1, <2>2 DEF PassSpares, Over, Terminal
  <2> QED BY <1>1, <2>1, <2>3 DEF CiteInv, CitesThere, StillAtWork, ArtifactsNamed, CitesHold,
    CitationsHold, Alive, Resolves
<1>4. CASE RetentionPlans
  <2>1. UNCHANGED <<rs, events>> /\ retention.at = "plan"
    BY <1>4 DEF RetentionPlans
  <2>0. \A x \in Runs : \A d \in events[x] : {"id", "type", "artifact"} \subseteq DOMAIN d
    BY DEF IInv, EventsOK, EventOK
  <2> DEFINE of(r) == {[e EXCEPT !.id = <<r, @>>, !.artifact = <<r, @>>] : e \in events[r]}
             evs == [r \in Runs |-> of(r)]
             unused == {e.id : e \in UnreferencedArtifacts(retention.runs, retention.prunable, evs)}
  <2>2. retention'.artifacts \subseteq unused /\ retention'.prunable = {}
    BY <1>4 DEF RetentionPlans, NoPass
  \* An event in the plan's copy of the events.
  <2>3. ASSUME NEW x \in Runs, NEW f \in of(x)
        PROVE  \E d \in events[x] : f.id = <<x, d.id>> /\ f.type = d.type /\ f.artifact = <<x, d.artifact>>
    <3>1. PICK d \in events[x] : f = [d EXCEPT !.id = <<x, d.id>>, !.artifact = <<x, d.artifact>>]
      OBVIOUS
    <3>2. {"id", "type", "artifact"} \subseteq DOMAIN d
      BY <2>0
    <3> QED BY <3>1, <3>2
  <2>4. ASSUME NEW x \in Runs, NEW d \in events[x]
        PROVE  \E f \in of(x) : f.id = <<x, d.id>> /\ f.type = d.type /\ f.artifact = <<x, d.artifact>>
    <3> DEFINE f == [d EXCEPT !.id = <<x, d.id>>, !.artifact = <<x, d.artifact>>]
    <3>1. {"id", "type", "artifact"} \subseteq DOMAIN d
      BY <2>0
    <3>2. f.id = <<x, d.id>> /\ f.type = d.type /\ f.artifact = <<x, d.artifact>>
      BY <3>1
    <3>3. f \in of(x)
      OBVIOUS
    <3> QED BY <3>2, <3>3
  <2> HIDE DEF of
  <2>5. ASSUME NEW r \in Runs, NEW i \in Nat, <<r, i>> \in unused
        PROVE  Over(r) /\ \A e \in events[r] : e.type = "citation" => e.artifact # i
    <3>0. PICK x \in (Runs \ retention.runs) \cap retention.prunable : \E f \in of(x) :
            /\ f.id = <<r, i>> /\ f.type = "artifact"
            /\ \A y \in Runs \ retention.runs : \A g \in of(y) :
                 g.type = "citation" => g.artifact # f.artifact
      BY <2>5 DEF UnreferencedArtifacts
    <3>1. PICK f \in of(x) :
            /\ f.id = <<r, i>> /\ f.type = "artifact"
            /\ \A y \in Runs \ retention.runs : \A g \in of(y) :
                 g.type = "citation" => g.artifact # f.artifact
      BY <3>0
    <3>2. PICK d \in events[x] : f.id = <<x, d.id>> /\ f.type = d.type /\ f.artifact = <<x, d.artifact>>
      BY <2>3, <3>1
    <3>3. <<x, d.id>> = <<r, i>>
      BY <3>1, <3>2
    <3>4. x = r /\ d.id = i
      BY <3>3
    <3>5. Over(r)
      BY <3>1, <3>4 DEF CiteInv, PassSpares
    <3>6. d.artifact = i
      BY <3>1, <3>2, <3>4 DEF CiteInv, ArtifactsNamed
    <3>7. ASSUME NEW e \in events[r], e.type = "citation", e.artifact = i PROVE FALSE
      <4>1. PICK g \in of(r) : g.type = "citation" /\ g.artifact = <<r, e.artifact>>
        BY <2>4, <3>7
      <4> QED BY <3>1, <3>2, <3>4, <3>6, <3>7, <4>1
    <3> QED BY <3>5, <3>7
  <2> HIDE DEF unused
  <2>6. PassSpares'
    BY <1>1, <2>1, <2>2, <2>5 DEF PassSpares, Over, Terminal, Alive
  <2> QED BY <1>1, <2>1, <2>6 DEF CiteInv, CitesThere, StillAtWork, ArtifactsNamed, CitesHold,
    CitationsHold, Alive, Resolves
<1> QED BY <1>2, <1>3, <1>4 DEF Pass

LEMMA OtherCites ==
  ASSUME IInv, CiteInv, DeletionDeletes \/ Following \/ Exit
  PROVE  CiteInv'
<1>1. CASE DeletionDeletes
  <2>1. /\ UNCHANGED <<created, appended, go, retention>>
        /\ rs' = [r \in DOMAIN rs \ DOMAIN rs |-> rs[r]]
        /\ events' = [r \in Runs |-> IF r \in DOMAIN rs THEN {} ELSE events[r]]
    BY <1>1 DEF DeletionDeletes, DeleteRuns
  <2>2. \A r \in Runs : events'[r] \subseteq events[r]
    BY <2>1
  <2> QED BY <2>1, <2>2, GoneCites DEF Alive
<1>2. CASE Following
  <2>1. UNCHANGED folOthers
    BY <1>2 DEF Following, Follow, SendMessage, GetTask, Stream, ListAndWrite, LookAtStatus,
      FlushFinal, FlushGivesUp, SnapshotStatus, Snapshot, StreamLooks, StreamLists, WaitForRun,
      TaskFromRun, Streams
  <2> QED BY <2>1 DEF folOthers, CiteInv, CitesThere, StillAtWork, ArtifactsNamed, CitesHold,
    CitationsHold, PassSpares, Over, Terminal, Alive, Resolves
<1>3. CASE Exit
  <2>1. /\ UNCHANGED <<created, rs, events, appended>> /\ retention' = NoPass
        /\ go' = [r \in Runs |-> Idle]
    BY <1>3 DEF Exit
  <2>2. \A r \in Runs : "cites" \in DOMAIN go'[r] /\ go'[r].at = "none"
    BY <2>1 DEF Idle
  <2>3. CitesThere' /\ StillAtWork' /\ CitesHold'
    BY <2>1, <2>2, RunsInTable DEF CitesThere, StillAtWork, CitesHold, Unsettled, IInv
  <2>4. ArtifactsNamed' /\ CitationsHold'
    BY <2>1 DEF CiteInv, ArtifactsNamed, CitationsHold, Alive, Resolves
  <2>5. PassSpares'
    BY <2>1 DEF PassSpares, NoPass
  <2> QED BY <2>3, <2>4, <2>5 DEF CiteInv
<1> QED BY <1>1, <1>2, <1>3

LEMMA CiteInit ==
  ASSUME Init
  PROVE  CiteInv
  BY DEF Init, Idle, NoPass, CiteInv, CitesThere, StillAtWork, ArtifactsNamed, CitesHold,
    CitationsHold, PassSpares, Alive

LEMMA CiteNext ==
  ASSUME IInv, CiteInv, [Next]_vars
  PROVE  IInv' /\ CiteInv'
<1>1. IInv'
  BY NextOK
<1>2. StepKind
  BY NextKind DEF CiteInv
<1> QED BY <1>1, <1>2, QuietCites, SpeakingCites, PassCites, OtherCites DEF StepKind

\* What the answer of a completed run cites is among the run's artifacts for as
\* long as the run is stored: the retention pass reads runs, then events, and
\* deletes last, and none of its three steps, between any steps of the goroutine
\* and of other requests, takes an artifact that an answer cites.
THEOREM CitationsStay == Spec => []CitationsResolve
<1>1. Init => IInv /\ CiteInv
  BY InitOK, CiteInit
<1>2. IInv /\ CiteInv /\ [Next]_vars => IInv' /\ CiteInv'
  BY CiteNext
<1>3. IInv /\ CiteInv => CitationsResolve
  <2>1. ASSUME IInv, CiteInv, NEW r \in Runs, Stored(r), rs[r].status = "completed",
               NEW e \in events[r], e.type = "citation"
        PROVE  Resolves(r, e.artifact)
    BY <2>1 DEF CiteInv, CitationsHold, Alive, Stored
  <2> QED BY <2>1 DEF CitationsResolve, Resolves
<1> QED BY <1>1, <1>2, <1>3, PTL DEF Spec

-----------------------------------------------------------------------------
(* What a client is told of a task.                                            *)

FollowOK ==
  /\ DOMAIN follow = {"at", "kind", "run", "term", "cursor", "id", "got", "final"}
  /\ follow.at = "idle" => follow = NoStream
  /\ follow.at # "idle" => Followed \in 1 .. created

\* A task that is called completed is one, and what was read of it after that has
\* the answer.
TaskOK ==
  follow.kind = "task" /\ follow.at \in {"task", "done"} /\ follow.final =>
    /\ Stored(Followed) => rs[Followed].status = "completed"
    /\ follow.at = "done" => \A e \in events[Followed] : e.type = "final" => e.id \in follow.got

TaskInv == FollowOK /\ TaskOK

\* A step that leaves the followers alone, as it looks from them.
LEMMA FollowedKept ==
  ASSUME IInv, FollowOK, Quiet \/ Speaking \/ Pass \/ DeletionDeletes, follow.at # "idle"
  PROVE  /\ UNCHANGED follow
         /\ Followed \in Runs /\ created' >= created
         /\ Followed \in DOMAIN rs' => Followed \in DOMAIN rs
         /\ Followed \in DOMAIN rs' /\ Terminal(Followed) => rs'[Followed].status = rs[Followed].status
<1>0. created \in Nat /\ Followed \in 1 .. created /\ Followed \in Runs
  BY AgentRunsAssumption DEF FollowOK, IInv, TableOK, Runs
<1>1. CASE Quiet
  <2>1. RowStep(Followed) /\ UNCHANGED follow
    BY <1>0, <1>1 DEF Quiet, RowSteps
  <2>2. Followed \in DOMAIN rs' => Followed \in DOMAIN rs
    BY <1>0, <2>1 DEF RowStep
  <2> QED BY <1>0, <1>1, <2>1, <2>2 DEF Quiet, RowStep
<1>2. CASE Speaking
  BY <1>0, <1>2 DEF Speaking
<1>3. CASE Pass
  <2>1. UNCHANGED <<created, follow>>
    BY <1>3 DEF Pass, RetentionReadsRuns, RetentionPlans, RetentionDeletes, retOthers
  <2>2. UNCHANGED rs \/ rs' = [r \in DOMAIN rs \ retention.runs |-> rs[r]]
    BY <1>3 DEF Pass, RetentionReadsRuns, RetentionPlans, RetentionDeletes
  <2> QED BY <1>0, <2>1, <2>2
<1>4. CASE DeletionDeletes
  BY <1>0, <1>4 DEF DeletionDeletes, DeleteRuns
<1> QED BY <1>1, <1>2, <1>3, <1>4

\* Only a goroutine that has not completed its run writes an answer.
LEMMA AnswersFirst ==
  ASSUME IInv, CiteInv, Quiet \/ Speaking \/ Pass \/ DeletionDeletes, NEW r \in DOMAIN rs,
         rs[r].status = "completed", NEW e \in events'[r], e.type = "final"
  PROVE  e \in events[r]
<1>0. r \in Runs /\ DOMAIN events = Runs
  BY RunsInTable DEF IInv, EventsOK
<1>1. CASE Quiet
  BY <1>1 DEF Quiet
<1>2. CASE Speaking
  <2>1. PICK x, type, artifact, status :
          Writer(x, type, artifact) /\ Appends(x, type, artifact, status)
    BY <1>2 DEF Speaking
  <2>2. x # r \/ type # "final"
    BY <2>1 DEF Writer, CiteInv, StillAtWork, Unsettled
  <2> DEFINE new == [id |-> appended[x] + 1, num |-> NextNumber(x), type |-> type,
                     artifact |-> artifact, status |-> status]
  <2>3. events'[r] = IF x = r THEN events[r] \cup {new} ELSE events[r]
    BY <1>0, <2>1 DEF Appends
  <2>4. new.type = type
    OBVIOUS
  <2> HIDE DEF new
  <2> QED BY <2>2, <2>3, <2>4
<1>3. CASE Pass
  BY <1>0, <1>3 DEF Pass, RetentionReadsRuns, RetentionPlans, RetentionDeletes
<1>4. CASE DeletionDeletes
  BY <1>0, <1>4 DEF DeletionDeletes, DeleteRuns
<1> QED BY <1>1, <1>2, <1>3, <1>4

LEMMA TaskKept ==
  ASSUME IInv, IInv', CiteInv, TaskInv, Quiet \/ Speaking \/ Pass \/ DeletionDeletes
  PROVE  TaskInv'
<1>1. CASE follow.at = "idle"
  <2>1. UNCHANGED follow
    BY DEF Quiet, Speaking, Pass, RetentionReadsRuns, RetentionPlans, RetentionDeletes, retOthers,
      DeletionDeletes
  <2> QED BY <1>1, <2>1 DEF TaskInv, FollowOK, TaskOK
<1>2. CASE follow.at # "idle"
  <2>1. /\ UNCHANGED follow
        /\ Followed \in Runs /\ created' >= created
        /\ Followed \in DOMAIN rs' => Followed \in DOMAIN rs
        /\ Followed \in DOMAIN rs' /\ Terminal(Followed) => rs'[Followed].status = rs[Followed].status
    BY <1>2, FollowedKept DEF TaskInv
  <2>2. FollowOK'
    <3>1. created \in Nat /\ created' \in Nat
      BY AgentRunsAssumption DEF IInv, TableOK
    <3> QED BY <1>2, <2>1, <3>1 DEF TaskInv, FollowOK, Followed
  <2>3. ASSUME follow.kind = "task", follow.at \in {"task", "done"}, follow.final
        PROVE  /\ Followed \in DOMAIN rs' => rs'[Followed].status = "completed"
               /\ follow.at = "done" =>
                    \A e \in events'[Followed] : e.type = "final" => e.id \in follow.got
    <3>1. Followed \in DOMAIN rs => rs[Followed].status = "completed"
      BY <2>3 DEF TaskInv, TaskOK, Stored
    <3>2. Followed \in DOMAIN rs' => rs'[Followed].status = "completed"
      BY <2>1, <3>1 DEF Terminal, IsTerminalRunStatus
    <3>3. ASSUME follow.at = "done", NEW e \in events'[Followed], e.type = "final"
          PROVE  e \in events[Followed]
      <4>1. CASE Followed \in DOMAIN rs
        BY <3>1, <3>3, <4>1, AnswersFirst
      <4>2. CASE Followed \notin DOMAIN rs
        <5>1. PICK x \in Runs : x = Followed
          BY <2>1
        <5>2. x \notin DOMAIN rs' /\ e \in events'[x]
          BY <2>1, <3>3, <4>2, <5>1
        <5>3. events'[x] = {}
          BY <5>2 DEF IInv, EventsOK
        <5> QED BY <5>2, <5>3
      <4> QED BY <4>1, <4>2
    <3> QED BY <2>3, <3>2, <3>3 DEF TaskInv, TaskOK
  <2>4. TaskOK'
    BY <2>1, <2>3 DEF TaskOK, Stored, Followed
  <2> QED BY <2>2, <2>4 DEF TaskInv
<1> QED BY <1>1, <1>2

\* The steps of the client itself.
LEMMA StreamShape ==
  ASSUME FollowOK, Stream
  PROVE  /\ UNCHANGED folOthers
         /\ DOMAIN follow' = DOMAIN follow /\ follow'.run = Followed /\ follow'.kind = follow.kind
         /\ follow.at # "idle" /\ follow'.at # "idle"
         /\ follow'.at = "cut" \/ Stored(Followed)
<1>1. UNCHANGED folOthers
  BY DEF Stream, ListAndWrite, LookAtStatus, FlushFinal, FlushGivesUp, SnapshotStatus,
    Snapshot, StreamLooks, StreamLists, WaitForRun, TaskFromRun, Streams
<1>2. follow.at # "idle"
  BY DEF Stream, ListAndWrite, LookAtStatus, FlushFinal, FlushGivesUp, SnapshotStatus,
    Snapshot, StreamLooks, StreamLists, WaitForRun, TaskFromRun, Streams, On
<1> DEFINE Good == /\ DOMAIN follow' = DOMAIN follow /\ follow'.run = Followed
                   /\ follow'.kind = follow.kind /\ follow'.at # "idle"
                   /\ follow'.at = "cut" \/ Stored(Followed)
<1>3. ASSUME FlushGivesUp PROVE Good
  BY <1>3 DEF FollowOK, Followed, FlushGivesUp, Streams
<1>4. ASSUME ListAndWrite \/ FlushFinal PROVE Good
  BY <1>4 DEF FollowOK, Followed, ListAndWrite, FlushFinal, Writes, Streams
<1>5. ASSUME LookAtStatus PROVE Good
  BY <1>5 DEF FollowOK, Followed, LookAtStatus, Streams
<1>6. ASSUME SnapshotStatus \/ StreamLooks PROVE Good
  BY <1>6 DEF FollowOK, Followed, SnapshotStatus, StreamLooks, Streams
<1>7. ASSUME Snapshot PROVE Good
  <2>1. CASE ~Stored(Followed)
    BY <1>7, <2>1 DEF FollowOK, Followed, Snapshot, Streams
  <2>2. CASE Stored(Followed)
    <3>1. PICK at, cursor, id :
            /\ at = IF follow.term THEN "done" ELSE "look"
            /\ follow' = [follow EXCEPT !.at = at, !.cursor = cursor, !.id = id]
      BY <1>7, <2>2 DEF Snapshot, Streams
    <3>2. at \in {"done", "look"}
      BY <3>1
    <3> QED BY <2>2, <3>1, <3>2 DEF FollowOK, Followed
  <2> QED BY <2>1, <2>2
<1>8. ASSUME StreamLists PROVE Good
  BY <1>8 DEF FollowOK, Followed, StreamLists, Streams
<1>9. ASSUME WaitForRun \/ TaskFromRun PROVE Good
  BY <1>9 DEF FollowOK, Followed, WaitForRun, TaskFromRun, Streams
<1> QED BY <1>1, <1>2, <1>3, <1>4, <1>5, <1>6, <1>7, <1>8, <1>9 DEF Stream

LEMMA FollowShape ==
  ASSUME IInv, FollowOK, Following
  PROVE  FollowOK' /\ UNCHANGED folOthers
<1>1. UNCHANGED folOthers
  BY DEF Following, Follow, SendMessage, GetTask, Stream, ListAndWrite, LookAtStatus,
    FlushFinal, FlushGivesUp, SnapshotStatus, Snapshot, StreamLooks, StreamLists, WaitForRun,
    TaskFromRun, Streams
<1>2. CASE Stream
  <2>1. UNCHANGED created
    BY <1>1 DEF folOthers
  <2> QED BY <1>1, <1>2, <2>1, StreamShape DEF FollowOK, Followed
<1>3. ASSUME NEW kind, NEW r \in Runs, Follow(kind, r) PROVE FollowOK'
  <2>1. /\ r \in 1 .. created /\ UNCHANGED created
        /\ follow' = [follow EXCEPT !.at = IF kind = "api" THEN "list" ELSE "status",
                                    !.kind = kind, !.run = r]
    BY <1>3 DEF Follow, Stored, IInv, TableOK, folOthers
  <2>2. DOMAIN follow' = DOMAIN follow /\ follow'.run = r /\ follow'.at \in {"list", "status"}
    BY <2>1 DEF FollowOK
  <2> QED BY <2>1, <2>2 DEF FollowOK, Followed
<1>4. ASSUME NEW r \in Runs, SendMessage(r) \/ GetTask(r) PROVE FollowOK'
  <2>1. r \in 1 .. created /\ UNCHANGED created
    BY <1>4 DEF SendMessage, GetTask, Stored, IInv, TableOK, folOthers
  <2>2. DOMAIN follow' = DOMAIN follow /\ follow'.run = r /\ follow'.at \in {"wait", "task"}
    BY <1>4 DEF SendMessage, GetTask, FollowOK
  <2> QED BY <2>1, <2>2 DEF FollowOK, Followed
<1> QED BY <1>1, <1>2, <1>3, <1>4 DEF Following

\* Status and answer are read in that order: the answer is there when the status
\* says so.
LEMMA TaskSteps ==
  ASSUME IInv, TaskInv, Following
  PROVE  TaskInv'
<1>1. FollowOK' /\ UNCHANGED folOthers
  BY FollowShape DEF TaskInv
<1>2. UNCHANGED <<rs, events>>
  BY <1>1 DEF folOthers
<1>3. CASE follow'.kind # "task" \/ follow'.at \notin {"task", "done"} \/ ~follow'.final
  BY <1>1, <1>3 DEF TaskInv, TaskOK
<1>4. CASE follow'.kind = "task" /\ follow'.at \in {"task", "done"} /\ follow'.final
  <2>1. CASE \E r \in Runs : GetTask(r)
    <3>1. PICK r \in Runs : GetTask(r)
      BY <2>1
    <3>2. follow'.run = r /\ follow'.at = "task" /\ follow'.final = (rs[r].status = "completed")
      BY <3>1 DEF GetTask, TaskInv, FollowOK
    <3>3. TaskOK'
      BY <1>2, <1>4, <3>2 DEF TaskOK, Followed
    <3> QED BY <1>1, <3>3 DEF TaskInv
  <2>2. CASE WaitForRun
    <3>1. Stored(Followed)
      BY <1>4, <2>2, StreamShape DEF WaitForRun, Streams, TaskInv, FollowOK
    <3>2. /\ follow'.run = Followed /\ follow'.at = "task"
          /\ follow'.final = (rs[Followed].status = "completed")
      BY <2>2, <3>1 DEF WaitForRun, Streams, TaskInv, FollowOK, Followed
    <3>3. TaskOK'
      BY <1>2, <1>4, <3>2 DEF TaskOK, Followed
    <3> QED BY <1>1, <3>3 DEF TaskInv
  <2>3. CASE TaskFromRun
    <3>1. Stored(Followed) /\ follow.kind = "task" /\ follow.at = "task"
      BY <1>4, <2>3 DEF TaskFromRun, Streams, TaskInv, FollowOK, On
    <3>2. PICK got : /\ got = {e.id : e \in events[Followed]}
                     /\ follow' = [follow EXCEPT !.at = "done", !.got = got]
      BY <2>3, <3>1 DEF TaskFromRun, Streams
    <3>3. follow'.run = Followed /\ follow'.final = follow.final /\ follow'.got = got
      BY <3>2 DEF TaskInv, FollowOK, Followed
    <3>4. rs[Followed].status = "completed"
      BY <1>4, <3>1, <3>3 DEF TaskInv, TaskOK
    <3>5. \A e \in events[Followed] : e.id \in got
      BY <3>2
    <3>6. TaskOK'
      BY <1>2, <3>3, <3>4, <3>5 DEF TaskOK, Followed
    <3> QED BY <1>1, <3>6 DEF TaskInv
  <2>4. CASE ~((\E r \in Runs : GetTask(r)) \/ WaitForRun \/ TaskFromRun)
    <3>1. ASSUME NEW kind \in Followers \ {"task"}, NEW r \in Runs, Follow(kind, r) PROVE FALSE
      BY <1>4, <3>1 DEF Follow, TaskInv, FollowOK
    <3>2. ASSUME NEW r \in Runs, SendMessage(r) PROVE FALSE
      BY <1>4, <3>2 DEF SendMessage, TaskInv, FollowOK
    <3>3. Stream
      BY <2>4, <3>1, <3>2 DEF Following
    <3>4. follow.kind = "task"
      BY <1>4, <3>3, StreamShape DEF TaskInv
    <3> QED BY <2>4, <3>3, <3>4 DEF Stream, ListAndWrite, LookAtStatus, FlushFinal, FlushGivesUp,
      SnapshotStatus, Snapshot, StreamLooks, StreamLists, Streams, On
  <2> QED BY <2>1, <2>2, <2>3, <2>4
<1> QED BY <1>3, <1>4

LEMMA TaskNext ==
  ASSUME IInv, IInv', CiteInv, TaskInv, [Next]_vars
  PROVE  TaskInv'
<1>1. CASE Exit
  <2>1. /\ UNCHANGED <<created, rs, events>>
        /\ follow' = [follow EXCEPT !.at = IF @ = "idle" THEN @ ELSE "cut"]
    BY <1>1 DEF Exit
  <2>2. /\ DOMAIN follow' = DOMAIN follow /\ follow'.run = Followed
        /\ follow.at = "idle" => follow' = follow
        /\ follow.at # "idle" => follow'.at = "cut"
    <3>1. PICK at : /\ at = IF follow.at = "idle" THEN follow.at ELSE "cut"
                    /\ follow' = [follow EXCEPT !.at = at]
      BY <2>1
    <3>2. DOMAIN follow' = DOMAIN follow /\ follow'.run = Followed /\ follow'.at = at
      BY <3>1 DEF TaskInv, FollowOK, Followed
    <3>3. follow.at = "idle" => follow' = follow
      BY <3>1 DEF TaskInv, FollowOK, NoStream
    <3> QED BY <3>1, <3>2, <3>3
  <2> QED BY <2>1, <2>2 DEF TaskInv, FollowOK, TaskOK, Followed, NoStream
<1>2. CASE ~Exit
  BY <1>2, NextKind, TaskKept, TaskSteps DEF CiteInv, StepKind
<1> QED BY <1>1, <1>2

\* A task that says "completed" carries the answer of the run, whatever happens
\* between the two reads it is made of.
THEOREM TasksHaveTheirAnswer == Spec => []CompletedTaskHasItsAnswer
<1>1. Init => IInv /\ CiteInv /\ TaskInv
  BY InitOK, CiteInit DEF Init, NoStream, TaskInv, FollowOK, TaskOK
<1>2. IInv /\ CiteInv /\ TaskInv /\ [Next]_vars => IInv' /\ CiteInv' /\ TaskInv'
  BY CiteNext, TaskNext
<1>3. TaskInv => CompletedTaskHasItsAnswer
  BY DEF TaskInv, TaskOK, CompletedTaskHasItsAnswer
<1> QED BY <1>1, <1>2, <1>3, PTL DEF Spec

-----------------------------------------------------------------------------
(* What a client that follows a run is sent, while no pass of retention deletes *)
(* events. (A pass that deletes the newest event of a run lets the next one take *)
(* its number, which a stream may have behind it.)                             *)

\* The events of a run are numbered without a gap.
NumbersOK ==
  /\ retention = NoPass
  /\ \A r \in DOMAIN rs : \A e \in events[r] : e.num = e.id
  /\ \A r \in DOMAIN rs : \A i \in 1 .. appended[r] : \E e \in events[r] : e.id = i
  /\ \A r \in Runs \ 1 .. created : appended[r] = 0

\* Every event up to the cursor has been sent; a stream that is done has passed
\* the end of the run; the second door knows of the end before it stops.
Passed(f) ==
  /\ f.cursor \in 0 .. appended[f.run]
  /\ f.kind = "api" => \A e \in events[f.run] : e.num <= f.cursor => e.id \in f.got
  /\ f.at = "done" => \E e \in events[f.run] : e.type \in Outcomes /\ e.num <= f.cursor
  /\ f.term /\ f.at \in {"status", "snapshot"} /\ f.kind = "a2a" => HasTerminalEvent(f.run)
CursorOK ==
  follow.at # "idle" /\ follow.kind # "task" /\ Stored(Followed) => Passed(follow)

StreamInv == FollowOK /\ NumbersOK /\ CursorOK

\* The number of an event is that of the last one, plus one.
LEMMA NextIsNew ==
  ASSUME IInv, NumbersOK, NEW r \in DOMAIN rs
  PROVE  NextNumber(r) = appended[r] + 1
<1> DEFINE numbers == {e.num : e \in events[r]}
<1>1. r \in Runs /\ appended[r] \in Nat
  BY RunsInTable DEF IInv, EventsOK
<1>2. numbers = 1 .. appended[r]
  <2>1. \A e \in events[r] : e.num \in 1 .. appended[r]
    BY <1>1 DEF NumbersOK, IInv, EventsOK, EventOK
  <2>2. \A i \in 1 .. appended[r] : \E e \in events[r] : e.num = i
    BY <1>1 DEF NumbersOK
  <2> QED BY <2>1, <2>2
<1>3. NextNumber(r) = IF numbers = {} THEN 1 ELSE 1 + CHOOSE n \in numbers : \A k \in numbers : k <= n
  BY DEF NextNumber
<1> HIDE DEF numbers
<1>4. CASE appended[r] = 0
  BY <1>2, <1>3, <1>4
<1>5. CASE appended[r] # 0
  <2>1. appended[r] \in numbers /\ \A k \in numbers : k <= appended[r]
    BY <1>1, <1>2, <1>5
  <2> DEFINE top == CHOOSE n \in numbers : \A k \in numbers : k <= n
  <2>2. top \in numbers /\ \A k \in numbers : k <= top
    BY <2>1
  <2>3. top = appended[r]
    BY <1>1, <1>2, <2>1, <2>2
  <2>4. NextNumber(r) = 1 + top
    BY <1>3, <2>1
  <2> HIDE DEF top
  <2> QED BY <1>1, <2>3, <2>4
<1> QED BY <1>4, <1>5

LEMMA NewestIsLast ==
  ASSUME IInv, NumbersOK, NEW r \in DOMAIN rs
  PROVE  Newest(r).num = appended[r]
<1>1. r \in Runs /\ appended[r] \in Nat
  BY RunsInTable DEF IInv, EventsOK
<1>2. \A e \in events[r] : e.num \in 1 .. appended[r]
  BY <1>1 DEF NumbersOK, IInv, EventsOK, EventOK
<1>3. \A i \in 1 .. appended[r] : \E e \in events[r] : e.num = i
  BY <1>1 DEF NumbersOK
<1>4. CASE events[r] = {}
  <2>1. appended[r] = 0
    BY <1>1, <1>3, <1>4
  <2> QED BY <1>4, <2>1 DEF Newest
<1>5. CASE events[r] # {}
  <2>1. appended[r] \in 1 .. appended[r]
    BY <1>1, <1>2, <1>5
  <2>2. PICK e \in events[r] : e.num = appended[r]
    BY <1>3, <2>1
  <2> DEFINE last == CHOOSE x \in events[r] : \A y \in events[r] : y.num <= x.num
  <2>3. \A y \in events[r] : y.num <= e.num
    BY <1>1, <1>2, <2>2
  <2>4. last \in events[r] /\ \A y \in events[r] : y.num <= last.num
    BY <2>3
  <2>5. last.num = appended[r]
    BY <1>1, <1>2, <2>2, <2>4
  <2> QED BY <1>5, <2>5 DEF Newest
<1> QED BY <1>4, <1>5

LEMMA NumbersKept ==
  ASSUME IInv, IInv', NumbersOK, Quiet \/ Speaking \/ DeletionDeletes
  PROVE  NumbersOK'
<1>0. created \in Nat /\ created' \in Nat /\ DOMAIN rs \subseteq Runs /\ DOMAIN rs' \subseteq Runs
  BY AgentRunsAssumption DEF IInv, TableOK, Runs
<1>1. CASE Quiet
  <2>1. UNCHANGED <<events, appended, retention>> /\ created' >= created
    BY <1>1 DEF Quiet
  <2>2. ASSUME NEW r \in DOMAIN rs', r \notin DOMAIN rs
        PROVE  events[r] = {} /\ appended[r] = 0
    <3>1. r \in Runs /\ RowStep(r)
      BY <1>0, <1>1, <2>2 DEF Quiet, RowSteps
    <3>2. r \notin 1 .. created
      BY <2>2, <3>1 DEF RowStep
    <3> QED BY <2>2, <3>1, <3>2 DEF NumbersOK, IInv, EventsOK
  <2>3. \A r \in DOMAIN rs' : \A e \in events[r] : e.num = e.id
    BY <2>2 DEF NumbersOK
  <2>4. \A r \in DOMAIN rs' : \A i \in 1 .. appended[r] : \E e \in events[r] : e.id = i
    <3>1. ASSUME NEW r \in DOMAIN rs', r \notin DOMAIN rs PROVE 1 .. appended[r] = {}
      BY <2>2, <3>1
    <3> QED BY <3>1 DEF NumbersOK
  <2>5. \A r \in Runs \ 1 .. created' : appended[r] = 0
    BY <1>0, <2>1 DEF NumbersOK
  <2> QED BY <2>1, <2>3, <2>4, <2>5 DEF NumbersOK
<1>2. CASE Speaking
  <2>1. PICK x, type, artifact, status :
          Writer(x, type, artifact) /\ Appends(x, type, artifact, status)
    BY <1>2 DEF Speaking
  <2> DEFINE new == [id |-> appended[x] + 1, num |-> NextNumber(x), type |-> type,
                     artifact |-> artifact, status |-> status]
  <2>2. x \in DOMAIN rs /\ x \in Runs /\ appended[x] \in Nat /\ UNCHANGED <<created, rs, retention>>
    BY <1>0, <1>2, <2>1 DEF Writer, Speaking, IInv, EventsOK
  <2>3. new.id = appended[x] + 1 /\ new.num = appended[x] + 1
    BY <2>2, NextIsNew
  <2>4. /\ events'[x] = events[x] \cup {new} /\ appended'[x] = appended[x] + 1
        /\ \A r \in Runs \ {x} : events'[r] = events[r] /\ appended'[r] = appended[r]
    BY <2>1, <2>2 DEF Appends, IInv, EventsOK
  <2> HIDE DEF new
  <2>5. \A r \in DOMAIN rs : \A e \in events'[r] : e.num = e.id
    BY <1>0, <2>3, <2>4 DEF NumbersOK
  <2>6. ASSUME NEW r \in DOMAIN rs, NEW i \in 1 .. appended'[r]
        PROVE  \E e \in events'[r] : e.id = i
    <3>1. CASE r = x /\ i = appended[x] + 1
      BY <2>3, <2>4, <3>1
    <3>2. CASE ~(r = x /\ i = appended[x] + 1)
      <4>1. i \in 1 .. appended[r]
        BY <1>0, <2>2, <2>4, <3>2
      <4> QED BY <1>0, <2>4, <4>1 DEF NumbersOK
    <3> QED BY <3>1, <3>2
  <2>7. \A r \in Runs \ 1 .. created : appended'[r] = 0
    <3>1. x \in 1 .. created
      BY <2>2 DEF IInv, TableOK
    <3> QED BY <2>4, <3>1 DEF NumbersOK
  <2> QED BY <2>2, <2>5, <2>6, <2>7 DEF NumbersOK
<1>3. CASE DeletionDeletes
  <2>1. DOMAIN rs' = {} /\ UNCHANGED <<created, appended, retention>>
    BY <1>3 DEF DeletionDeletes, DeleteRuns
  <2> QED BY <2>1 DEF NumbersOK
<1> QED BY <1>1, <1>2, <1>3

\* An event that is appended is numbered beyond every cursor.
LEMMA CursorKept ==
  ASSUME IInv, IInv', StreamInv, Quiet \/ Speaking \/ DeletionDeletes
  PROVE  CursorOK'
<1>0. UNCHANGED follow
  BY DEF Quiet, Speaking, DeletionDeletes
<1>1. ASSUME follow.at # "idle", follow.kind # "task", Followed \in DOMAIN rs'
      PROVE  /\ follow.cursor \in 0 .. appended'[Followed]
             /\ follow.kind = "api" =>
                  \A e \in events'[Followed] : e.num <= follow.cursor => e.id \in follow.got
             /\ follow.at = "done" =>
                  \E e \in events'[Followed] : e.type \in Outcomes /\ e.num <= follow.cursor
             /\ follow.term /\ follow.at \in {"status", "snapshot"} /\ follow.kind = "a2a" =>
                  \E e \in events'[Followed] : e.type \in Outcomes
  <2>1. Followed \in Runs /\ Followed \in DOMAIN rs
    BY <1>1, FollowedKept DEF StreamInv
  <2>2. PICK r \in DOMAIN rs : r = Followed
    BY <2>1
  <2>3. /\ follow.cursor \in 0 .. appended[r]
        /\ follow.kind = "api" => \A e \in events[r] : e.num <= follow.cursor => e.id \in follow.got
        /\ follow.at = "done" => \E e \in events[r] : e.type \in Outcomes /\ e.num <= follow.cursor
        /\ follow.term /\ follow.at \in {"status", "snapshot"} /\ follow.kind = "a2a" =>
             \E e \in events[r] : e.type \in Outcomes
    BY <1>1, <2>2 DEF StreamInv, CursorOK, Passed, Stored, HasTerminalEvent, Followed
  <2>4. r \in Runs /\ appended[r] \in Nat
    BY <2>1, <2>2 DEF IInv, EventsOK
  <2>5. /\ appended'[r] >= appended[r] /\ appended'[r] \in Nat
        /\ events[r] \subseteq events'[r]
        /\ \A e \in events'[r] \ events[r] : e.num = appended[r] + 1
    <3>1. CASE Quiet
      BY <2>4, <3>1 DEF Quiet
    <3>2. CASE Speaking
      <4>1. PICK x, type, artifact, status :
              Writer(x, type, artifact) /\ Appends(x, type, artifact, status)
        BY <3>2 DEF Speaking
      <4> DEFINE new == [id |-> appended[x] + 1, num |-> NextNumber(x), type |-> type,
                         artifact |-> artifact, status |-> status]
      <4>2. x \in DOMAIN rs /\ new.num = appended[x] + 1
        BY <4>1, NextIsNew DEF Writer, StreamInv
      <4>3. /\ events'[r] = IF x = r THEN events[r] \cup {new} ELSE events[r]
            /\ appended'[r] = IF x = r THEN appended[r] + 1 ELSE appended[r]
        BY <2>4, <4>1 DEF Appends, IInv, EventsOK
      <4> HIDE DEF new
      <4> QED BY <2>4, <4>2, <4>3
    <3>3. CASE DeletionDeletes
      BY <1>1, <3>3 DEF DeletionDeletes, DeleteRuns
    <3> QED BY <3>1, <3>2, <3>3
  <2>6. follow.kind = "api" => \A e \in events'[r] : e.num <= follow.cursor => e.id \in follow.got
    BY <2>3, <2>4, <2>5
  <2> QED BY <2>2, <2>3, <2>4, <2>5, <2>6
<1> QED BY <1>0, <1>1 DEF CursorOK, Passed, Stored, HasTerminalEvent, Followed

\* What a poll of the API's stream writes.
LEMMA WritesAll ==
  ASSUME IInv, StreamInv, On("api", follow.at), follow.at # "idle", Stored(Followed), NEW to, Writes(to)
  PROVE  /\ follow'.cursor = appended[Followed]
         /\ follow'.at = to /\ follow'.kind = "api" /\ follow'.run = Followed
         /\ \A e \in events[Followed] : e.id \in follow'.got
<1>1. Followed \in DOMAIN rs
  BY DEF Stored
<1>2. /\ Followed \in Runs /\ appended[Followed] \in Nat /\ follow.cursor \in 0 .. appended[Followed]
      /\ \A e \in events[Followed] : e.num <= follow.cursor => e.id \in follow.got
      /\ \A e \in events[Followed] : e.num \in 1 .. appended[Followed]
      /\ \A i \in 1 .. appended[Followed] : \E e \in events[Followed] : e.num = i
  BY <1>1, RunsInTable DEF StreamInv, CursorOK, Passed, NumbersOK, IInv, EventsOK, EventOK, On, Stored, Followed
<1> DEFINE fresh == {e \in events[Followed] : After(e)}
           last == CHOOSE e \in fresh : \A x \in fresh : x.num <= e.num
<1>3. PICK got, cursor, id :
        /\ \A e \in fresh : e.id \in got
        /\ follow.got \subseteq got
        /\ cursor = IF fresh = {} THEN follow.cursor ELSE last.num
        /\ follow' = [follow EXCEPT !.at = to, !.got = got, !.cursor = cursor, !.id = id]
  <2>1. PICK lucky \in SUBSET {e \in events[Followed] : Level(e)} :
          follow' = [follow EXCEPT !.at = to,
            !.got = @ \cup {e.id : e \in fresh \cup lucky},
            !.cursor = IF fresh = {} THEN @ ELSE last.num,
            !.id = IF fresh = {} THEN @ ELSE last.id]
    BY DEF Writes
  <2> HIDE DEF last, fresh
  <2>2. PICK got, cursor, id :
          /\ got = follow.got \cup {e.id : e \in fresh \cup lucky}
          /\ cursor = IF fresh = {} THEN follow.cursor ELSE last.num
          /\ id = IF fresh = {} THEN follow.id ELSE last.id
    OBVIOUS
  <2>3. follow' = [follow EXCEPT !.at = to, !.got = got, !.cursor = cursor, !.id = id]
    BY <2>1, <2>2
  <2>4. \A e \in fresh : e.id \in got
    BY <2>2
  <2>5. follow.got \subseteq got
    BY <2>2
  <2> QED BY <2>2, <2>3, <2>4, <2>5
<1>4. /\ follow'.at = to /\ follow'.got = got /\ follow'.cursor = cursor
      /\ follow'.kind = "api" /\ follow'.run = Followed
  BY <1>3 DEF StreamInv, FollowOK, Followed, On
<1>5. \A e \in events[Followed] : e.id \in got
  BY <1>2, <1>3 DEF After
<1>6. cursor = appended[Followed]
  <2>1. CASE fresh = {}
    <3>1. appended[Followed] = 0 \/ \E e \in events[Followed] : e.num = appended[Followed]
      BY <1>2
    <3> QED BY <1>2, <1>3, <2>1, <3>1 DEF After
  <2>2. CASE fresh # {}
    <3>1. PICK e \in fresh : e.num = appended[Followed]
      <4>1. PICK x \in fresh : TRUE
        BY <2>2
      <4>2. x \in events[Followed] /\ x.num > follow.cursor
        BY DEF After
      <4>3. appended[Followed] \in 1 .. appended[Followed] /\ appended[Followed] > follow.cursor
        BY <1>2, <4>2
      <4> QED BY <1>2, <4>3 DEF After
    <3>2. \A x \in fresh : x.num <= e.num
      BY <1>2, <3>1
    <3>3. last \in fresh /\ \A x \in fresh : x.num <= last.num
      BY <3>1, <3>2
    <3>4. last.num = appended[Followed]
      BY <1>2, <3>1, <3>3
    <3> QED BY <1>3, <2>2, <3>4
  <2> QED BY <2>1, <2>2
<1> QED BY <1>1, <1>4, <1>5, <1>6

\* A stream that has come to the newest event has passed whatever ends the run.
LEMMA EndIsPassed ==
  ASSUME IInv, NumbersOK, NEW r \in DOMAIN rs, HasTerminalEvent(r)
  PROVE  \E e \in events[r] : e.type \in Outcomes /\ e.num <= appended[r]
  BY RunsInTable DEF IInv, EventsOK, EventOK, NumbersOK, HasTerminalEvent

\* The steps of the API's stream ...
LEMMA ApiStep ==
  ASSUME IInv, StreamInv, Stored(Followed), follow.kind # "task",
         ListAndWrite \/ LookAtStatus \/ FlushFinal \/ FlushGivesUp
  PROVE  Passed(follow')
<1>1. On("api", follow.at) /\ follow.at # "idle" /\ Passed(follow)
  BY DEF ListAndWrite, LookAtStatus, FlushFinal, FlushGivesUp, Streams, On, StreamInv, CursorOK
<1>2. Followed \in DOMAIN rs /\ Followed \in Runs /\ appended[Followed] \in Nat
  BY RunsInTable DEF Stored, IInv, EventsOK
<1>3. CASE ListAndWrite \/ FlushFinal
  <2>1. PICK to \in {"status", "flush", "done"} :
          Writes(to) /\ (to = "done" => HasTerminalEvent(Followed))
    BY <1>3 DEF ListAndWrite, FlushFinal, Streams
  <2>2. /\ follow'.cursor = appended[Followed]
        /\ follow'.at = to /\ follow'.kind = "api" /\ follow'.run = Followed
        /\ \A e \in events[Followed] : e.id \in follow'.got
    BY <1>1, <2>1, WritesAll
  <2>3. to = "done" => \E e \in events[Followed] : e.type \in Outcomes /\ e.num <= appended[Followed]
    BY <1>2, <2>1, EndIsPassed DEF StreamInv
  <2> QED BY <1>2, <2>2, <2>3 DEF Passed
<1>4. CASE LookAtStatus \/ FlushGivesUp
  <2>1. PICK at \in {"flush", "list", "cut"} : follow' = [follow EXCEPT !.at = at]
    BY <1>4 DEF LookAtStatus, FlushGivesUp, Streams
  <2>2. /\ follow'.at = at /\ follow'.kind = "api" /\ follow'.run = follow.run
        /\ follow'.cursor = follow.cursor /\ follow'.got = follow.got
    BY <1>1, <2>1 DEF StreamInv, FollowOK, On
  <2> QED BY <1>1, <2>2 DEF Passed, On
<1> QED BY <1>3, <1>4

\* ... and of the A2A door's.
LEMMA A2AStep ==
  ASSUME IInv, StreamInv, Stored(Followed), follow.kind # "task",
         SnapshotStatus \/ Snapshot \/ StreamLooks \/ StreamLists
  PROVE  Passed(follow')
<1>1. follow.kind = "a2a" /\ follow.at # "idle" /\ Passed(follow)
  BY DEF SnapshotStatus, Snapshot, StreamLooks, StreamLists, Streams, On, StreamInv, CursorOK
<1>2. Followed \in DOMAIN rs /\ Followed \in Runs /\ appended[Followed] \in Nat
  BY RunsInTable DEF Stored, IInv, EventsOK
<1>3. CASE SnapshotStatus \/ StreamLooks
  <2>1. PICK at, term, final :
          /\ follow' = [follow EXCEPT !.at = at, !.term = term, !.final = final]
          /\ \/ at = "snapshot" /\ term = follow.term /\ follow.at = "status"
             \/ at = "lists"
    <3>1. CASE SnapshotStatus
      <4>1. follow' = [follow EXCEPT !.at = "snapshot", !.final = Terminal(Followed)]
        BY <3>1 DEF SnapshotStatus, Streams
      <4>2. follow' = [follow EXCEPT !.at = "snapshot", !.term = follow.term, !.final = Terminal(Followed)]
        BY <4>1 DEF StreamInv, FollowOK
      <4> QED BY <3>1, <4>2 DEF SnapshotStatus, Streams, On
    <3>2. CASE StreamLooks
      <4>1. follow' = [follow EXCEPT !.at = "lists", !.term = Terminal(Followed)]
        BY <3>2 DEF StreamLooks, Streams
      <4>2. follow' = [follow EXCEPT !.at = "lists", !.term = Terminal(Followed), !.final = follow.final]
        BY <4>1 DEF StreamInv, FollowOK
      <4> QED BY <4>2
    <3> QED BY <1>3, <3>1, <3>2
  <2>2. /\ follow'.at = at /\ follow'.term = term /\ follow'.kind = "a2a" /\ follow'.run = follow.run
        /\ follow'.cursor = follow.cursor
    BY <1>1, <2>1 DEF StreamInv, FollowOK
  <2> QED BY <1>1, <2>1, <2>2 DEF Passed
<1>4. CASE Snapshot
  <2>1. PICK at, cursor, id :
          /\ at = IF follow.term THEN "done" ELSE "look"
          /\ cursor = appended[Followed]
          /\ follow' = [follow EXCEPT !.at = at, !.cursor = cursor, !.id = id]
    <3>1. Newest(Followed).num = appended[Followed]
      BY <1>2, NewestIsLast DEF StreamInv
    <3>2. follow' = [follow EXCEPT !.at = IF follow.term THEN "done" ELSE "look",
                     !.cursor = Newest(Followed).num, !.id = Newest(Followed).id]
      BY <1>4 DEF Snapshot, Streams
    <3>3. PICK at : at = IF follow.term THEN "done" ELSE "look"
      OBVIOUS
    <3> QED BY <3>1, <3>2, <3>3
  <2>2. /\ follow'.at = at /\ follow'.kind = "a2a" /\ follow'.run = Followed /\ follow'.cursor = cursor
    BY <1>1, <2>1 DEF StreamInv, FollowOK, Followed
  <2>3. follow.term => HasTerminalEvent(Followed)
    BY <1>1, <1>4 DEF Snapshot, Streams, On, Passed, Followed
  <2>4. at = "done" => \E e \in events[Followed] : e.type \in Outcomes /\ e.num <= cursor
    BY <1>2, <2>1, <2>3, EndIsPassed DEF StreamInv
  <2> QED BY <1>2, <2>1, <2>2, <2>4 DEF Passed
<1>5. CASE StreamLists
  <2>1. PICK ends, new, at :
          /\ ends = (follow.term /\ HasTerminalEvent(Followed))
          /\ new = (Newest(Followed) # [num |-> follow.cursor, id |-> follow.id])
          /\ at = IF new THEN "status" ELSE IF ends THEN "done" ELSE "look"
          /\ follow' = [follow EXCEPT !.term = ends, !.at = at]
    BY <1>2, <1>5 DEF StreamLists, Streams, Stored
  <2>2. /\ follow'.at = at /\ follow'.term = ends /\ follow'.kind = "a2a" /\ follow'.run = Followed
        /\ follow'.cursor = follow.cursor
    BY <1>1, <2>1 DEF StreamInv, FollowOK, Followed
  <2>3. at = "done" => \E e \in events[Followed] : e.type \in Outcomes /\ e.num <= follow.cursor
    <3>0. at = "done" => HasTerminalEvent(Followed)
            /\ Newest(Followed) = [num |-> follow.cursor, id |-> follow.id]
      BY <2>1, Zenon
    <3>1. at = "done" => HasTerminalEvent(Followed) /\ Newest(Followed).num = follow.cursor
      BY <3>0
    <3>2. at = "done" => follow.cursor = appended[Followed]
      BY <1>2, <3>1, NewestIsLast DEF StreamInv
    <3> QED BY <1>2, <3>1, <3>2, EndIsPassed DEF StreamInv
  <2> QED BY <1>1, <2>1, <2>2, <2>3 DEF Passed, Followed
<1> QED BY <1>3, <1>4, <1>5

LEMMA CursorSteps ==
  ASSUME IInv, StreamInv, Following
  PROVE  CursorOK'
<1>1. FollowOK' /\ UNCHANGED <<created, rs, events, appended>>
  BY FollowShape DEF StreamInv, folOthers
<1>2. ASSUME follow'.at # "idle", follow'.kind # "task", follow'.run \in DOMAIN rs
      PROVE  Passed(follow')
  <2>1. ASSUME NEW kind, NEW r \in Runs, Follow(kind, r) PROVE Passed(follow')
    <3>1. /\ r \in DOMAIN rs /\ follow = NoStream
          /\ follow' = [follow EXCEPT !.at = IF kind = "api" THEN "list" ELSE "status",
                                      !.kind = kind, !.run = r]
      BY <2>1 DEF Follow, Stored, StreamInv, FollowOK
    <3>2. /\ follow'.run = r /\ follow'.cursor = 0 /\ ~follow'.term
          /\ follow'.at \in {"list", "status"}
      BY <3>1 DEF NoStream
    <3>3. appended[r] \in Nat /\ \A e \in events[r] : e.num \in 1 .. appended[r]
      BY <3>1 DEF IInv, EventsOK, EventOK, StreamInv, NumbersOK
    <3> QED BY <3>2, <3>3 DEF Passed
  <2>2. ASSUME NEW r \in Runs, SendMessage(r) \/ GetTask(r) PROVE FALSE
    BY <1>2, <2>2 DEF SendMessage, GetTask, StreamInv, FollowOK
  <2>3. CASE Stream
    <3>1. Stored(Followed) /\ follow.kind # "task"
      BY <1>2, <2>3, StreamShape DEF StreamInv, Stored
    <3>2. ~WaitForRun /\ ~TaskFromRun
      BY <3>1 DEF WaitForRun, TaskFromRun, Streams, On
    <3> QED BY <2>3, <3>1, <3>2, ApiStep, A2AStep DEF Stream
  <2> QED BY <2>1, <2>2, <2>3 DEF Following
<1> QED BY <1>1, <1>2 DEF CursorOK, Passed, Stored, HasTerminalEvent, Followed

LEMMA StreamNext ==
  ASSUME "retention" \notin Requests, IInv, IInv', CitesThere, StreamInv, [Next]_vars
  PROVE  StreamInv'
<1>1. ~Pass
  BY DEF Pass, RetentionReadsRuns, RetentionPlans, RetentionDeletes, StreamInv, NumbersOK, NoPass
<1>2. CASE Exit
  <2>1. /\ UNCHANGED <<created, rs, events, appended>> /\ retention' = NoPass
        /\ follow' = [follow EXCEPT !.at = IF @ = "idle" THEN @ ELSE "cut"]
    BY <1>2 DEF Exit
  <2>2. PICK at : /\ at = IF follow.at = "idle" THEN follow.at ELSE "cut"
                  /\ follow' = [follow EXCEPT !.at = at]
    BY <2>1
  <2>3. /\ DOMAIN follow' = DOMAIN follow /\ follow'.run = follow.run /\ follow'.at = at
        /\ follow'.kind = follow.kind /\ follow'.cursor = follow.cursor /\ follow'.got = follow.got
    BY <2>2 DEF StreamInv, FollowOK
  <2>4. follow.at = "idle" => follow' = follow
    BY <2>2 DEF StreamInv, FollowOK, NoStream
  <2> QED BY <2>1, <2>2, <2>3, <2>4 DEF StreamInv, FollowOK, NumbersOK, CursorOK, Passed, Stored,
    HasTerminalEvent, Followed
<1>3. CASE Following
  <2>1. FollowOK' /\ UNCHANGED folOthers
    BY <1>3, FollowShape DEF StreamInv
  <2>2. NumbersOK'
    BY <2>1 DEF StreamInv, NumbersOK, folOthers
  <2> QED BY <1>3, <2>1, <2>2, CursorSteps DEF StreamInv
<1>4. CASE Quiet \/ Speaking \/ DeletionDeletes
  <2>1. FollowOK'
    <3>1. UNCHANGED follow
      BY <1>4 DEF Quiet, Speaking, DeletionDeletes
    <3>2. created \in Nat /\ created' \in Nat /\ created' >= created
      BY <1>4, AgentRunsAssumption DEF Quiet, Speaking, DeletionDeletes, IInv, TableOK
    <3> QED BY <3>1, <3>2 DEF StreamInv, FollowOK, Followed
  <2> QED BY <1>4, <2>1, NumbersKept, CursorKept DEF StreamInv
<1> QED BY <1>1, <1>2, <1>3, <1>4, NextKind DEF StepKind

\* A client that follows a run is sent every event up to its cursor, and a stream
\* of either door that ends in the normal way has sent the event that ends the
\* run; where no pass of retention deletes events meanwhile.
THEOREM StreamsAreComplete ==
  ASSUME "retention" \notin Requests
  PROVE  Spec => []FollowerSkipsNothing
<1>1. Init => IInv /\ CiteInv /\ StreamInv
  <2>1. Init => StreamInv
    BY DEF Init, NoStream, StreamInv, FollowOK, NumbersOK, CursorOK
  <2> QED BY <2>1, InitOK, CiteInit
<1>2. IInv /\ CiteInv /\ StreamInv /\ [Next]_vars => IInv' /\ CiteInv' /\ StreamInv'
  <2>1. CiteInv => CitesThere
    BY DEF CiteInv
  <2> QED BY <2>1, CiteNext, StreamNext
<1>3. StreamInv => FollowerSkipsNothing
  <2>1. ASSUME StreamInv, Followed # None, Stored(Followed), follow.kind # "task"
        PROVE  Passed(follow)
    BY <2>1 DEF StreamInv, FollowOK, CursorOK, NoStream, Followed
  <2> QED BY <2>1 DEF FollowerSkipsNothing, Passed, Followed
<1> QED BY <1>1, <1>2, <1>3, PTL DEF Spec

-----------------------------------------------------------------------------
(* Runs and the runs they descend from (AgentRetention).                       *)

\* What is reached holds the run it starts from, and is closed under the link.
LEMMA ReachedClosed ==
  ASSUME NEW link, NEW r, r # None
  PROVE  /\ r \in Reached(link, r)
         /\ \A y \in Reached(link, r) \cap DOMAIN link : link[y] \in Reached(link, r) \cup {None}
<1> DEFINE runs == ({r} \cup DOMAIN link \cup {link[x] : x \in DOMAIN link}) \ {None}
           Closed(S) == r \in S /\ (\A y \in S \cap DOMAIN link : link[y] \in S \cup {None})
<1>1. Reached(link, r) = {x \in runs : \A S \in SUBSET runs : Closed(S) => x \in S}
  BY DEF Reached
<1>2. r \in runs
  OBVIOUS
<1>3. ASSUME NEW y \in Reached(link, r) \cap DOMAIN link, link[y] # None
      PROVE  link[y] \in Reached(link, r)
  <2>1. link[y] \in runs
    BY <1>3
  <2>2. ASSUME NEW S \in SUBSET runs, Closed(S) PROVE link[y] \in S
    <3>1. y \in S
      BY <1>1, <1>3, <2>2
    <3> QED BY <1>3, <2>2, <3>1
  <2> HIDE DEF runs, Closed
  <2> QED BY <1>1, <2>1, <2>2
<1> QED BY <1>1, <1>2, <1>3

\* It is the least such set.
LEMMA ReachedLeast ==
  ASSUME NEW link, NEW r, r # None, NEW T, r \in T,
         \A y \in T \cap DOMAIN link : link[y] \in T \cup {None}
  PROVE  Reached(link, r) \subseteq T
<1> DEFINE runs == ({r} \cup DOMAIN link \cup {link[x] : x \in DOMAIN link}) \ {None}
           S    == T \cap runs
<1>1. r \in S /\ \A y \in S \cap DOMAIN link : link[y] \in S \cup {None}
  OBVIOUS
<1>2. S \in SUBSET runs
  OBVIOUS
<1>3. Reached(link, r) \subseteq S
  BY <1>1, <1>2 DEF Reached
<1> QED BY <1>3

\* Where a table says the same of what was reached, no more is reached.
LEMMA ReachedNoMore ==
  ASSUME NEW old, NEW link, NEW r, r # None,
         \A y \in Reached(old, r) \cap DOMAIN link : y \in DOMAIN old /\ link[y] = old[y]
  PROVE  Reached(link, r) \subseteq Reached(old, r)
<1>1. /\ r \in Reached(old, r)
      /\ \A y \in Reached(old, r) \cap DOMAIN old : old[y] \in Reached(old, r) \cup {None}
  BY ReachedClosed
<1>2. \A y \in Reached(old, r) \cap DOMAIN link : link[y] \in Reached(old, r) \cup {None}
  BY <1>1
<1> QED BY <1>1, <1>2, ReachedLeast

\* The run that a chain of retries began with.
Origin(r) == IF rs[r].retryRoot # None THEN rs[r].retryRoot ELSE r

\* A retry knows where its chain began, and a run is younger than the run whose
\* tool call created it or what it retries.
KinOK ==
  \A r \in DOMAIN rs :
    /\ {"status", "session", "retryOf", "retryRoot", "parent"} \subseteq DOMAIN rs[r]
    /\ rs[r].retryRoot \in 0 .. r /\ rs[r].parent \in Nat
    /\ rs[r].retryRoot = None => rs[r].retryOf = None
    /\ rs[r].parent < Origin(r)

LEMMA TableNumbers ==
  ASSUME TableOK, KinOK, NEW r \in DOMAIN rs
  PROVE  /\ r \in 1 .. created /\ r \in Nat \ {0} /\ r # None
         /\ Origin(r) \in 1 .. r /\ rs[r].parent \in 0 .. Origin(r) - 1
<1>1. r \in 1 .. created /\ created \in Nat
  BY RunsInTable DEF TableOK
<1>2. rs[r].retryRoot \in 0 .. r /\ rs[r].parent \in Nat /\ rs[r].parent < Origin(r)
  BY DEF KinOK
<1> QED BY <1>1, <1>2 DEF Origin, None

LEMMA RootIsOrigin ==
  ASSUME TableOK, KinOK, NEW r \in DOMAIN rs
  PROVE  RetryRoot(rs, r) = Origin(r)
<1>1. CASE rs[r].retryRoot # None
  BY <1>1 DEF RetryRoot, Origin
<1>2. CASE rs[r].retryRoot = None
  <2> DEFINE link  == [x \in DOMAIN rs |-> rs[x].retryOf]
             chain == Reached(link, r)
  <2>1. r # None /\ link[r] = None
    BY <1>2, TableNumbers DEF KinOK
  <2>2. RetryRoot(rs, r) = CHOOSE x \in chain : x \notin DOMAIN rs \/ rs[x].retryOf = None
    BY <1>2 DEF RetryRoot
  <2> HIDE DEF link
  <2>3. r \in chain
    BY <2>1, ReachedClosed
  <2>4. \A y \in {r} \cap DOMAIN link : link[y] \in {r} \cup {None}
    BY <2>1
  <2>5. chain \subseteq {r}
    BY <2>1, <2>4, ReachedLeast
  <2>6. chain = {r}
    BY <2>3, <2>5
  <2> HIDE DEF chain
  <2>7. rs[r].retryOf = None
    BY <1>2 DEF KinOK
  <2> QED BY <1>2, <2>2, <2>6, <2>7 DEF Origin
<1> QED BY <1>1, <1>2

\* What a run descends from is no younger than its parent.
LEMMA Ancestors ==
  ASSUME TableOK, KinOK, NEW r \in DOMAIN rs, NEW p \in Reached(Parents(rs), r)
  PROVE  p \in Nat /\ (p = r \/ p <= rs[r].parent)
<1> DEFINE T == {r} \cup 0 .. rs[r].parent
<1>1. r # None /\ r \in Nat /\ rs[r].parent \in Nat /\ rs[r].parent < r
  BY TableNumbers
<1>2. ASSUME NEW y \in T, y \in DOMAIN rs PROVE rs[y].parent \in T
  <2>1. rs[y].parent \in Nat /\ rs[y].parent < y /\ y \in Nat
    BY <1>2, TableNumbers
  <2> QED BY <1>1, <1>2, <2>1
<1>3. \A y \in T \cap DOMAIN Parents(rs) : Parents(rs)[y] \in T \cup {None}
  BY <1>2 DEF Parents
<1>4. r \in T
  OBVIOUS
<1> HIDE DEF T
<1>5. Reached(Parents(rs), r) \subseteq T
  BY <1>1, <1>3, <1>4, ReachedLeast
<1> QED BY <1>1, <1>5 DEF T

-----------------------------------------------------------------------------
(* Functions that are computed step by step.                                   *)

LEMMA LeastNumber ==
  ASSUME NEW T \in SUBSET Nat, T # {}
  PROVE  \E x \in T : \A y \in T : x <= y
<1> DEFINE R == {ss \in Nat \X Nat : ss[1] < ss[2]}
<1>1. IsWellFoundedOn(R, Nat)
  BY NatLessThanWellFounded DEF OpToRel
<1>2. PICK x \in T : \A y \in T : <<y, x>> \notin R
  BY <1>1, WFMin
<1>3. ASSUME NEW y \in T, ~(x <= y)
      PROVE  FALSE
  <2>1. x \in Nat /\ y \in Nat /\ y < x
    BY <1>3
  <2>2. <<y, x>> \in R
    BY <2>1
  <2> QED BY <1>2, <2>2
<1> QED BY <1>3

\* A set that holds 0 and, with a number below `last`, the next one, holds all
\* up to `last`.
LEMMA UpTo ==
  ASSUME NEW last \in Nat, NEW P, 0 \in P, \A n \in 1 .. last : n - 1 \in P => n \in P
  PROVE  \A n \in 0 .. last : n \in P
<1> DEFINE missing == {n \in 0 .. last : n \notin P}
<1> SUFFICES ASSUME missing # {} PROVE FALSE
  OBVIOUS
<1>1. missing \in SUBSET Nat
  OBVIOUS
<1> HIDE DEF missing
<1>2. PICK n \in missing : \A y \in missing : n <= y
  BY <1>1, LeastNumber
<1>3. n \in 1 .. last /\ n \notin P
  BY <1>2 DEF missing
<1>4. n - 1 \in 0 .. last /\ ~(n <= n - 1)
  BY <1>3
<1>5. n - 1 \in P
  BY <1>2, <1>4 DEF missing
<1> QED BY <1>3, <1>5

\* A function on 0 .. last that starts with `base` and is carried on by `step`.
Iterates(f, last, V, base, step) ==
  /\ f \in [0 .. last -> V]
  /\ f[0] = base
  /\ \A n \in 1 .. last : f[n] = step[<<n, f[n - 1]>>]

LEMMA Iteration ==
  ASSUME NEW last \in Nat, NEW V, NEW base \in V, NEW step \in [(1 .. last) \X V -> V]
  PROVE  \E f : Iterates(f, last, V, base, step)
<1> DEFINE P == {n \in 0 .. last : \E f : Iterates(f, n, V, base, step)}
<1>1. 0 \in P
  <2> DEFINE f == [n \in 0 .. 0 |-> base]
  <2>1. Iterates(f, 0, V, base, step)
    BY DEF Iterates
  <2> QED BY <2>1
<1>2. ASSUME NEW n \in 1 .. last, n - 1 \in P
      PROVE  n \in P
  <2>1. PICK f : Iterates(f, n - 1, V, base, step)
    BY <1>2
  <2>2. /\ f \in [0 .. n - 1 -> V] /\ f[0] = base
        /\ \A k \in 1 .. n - 1 : f[k] = step[<<k, f[k - 1]>>]
    BY <2>1, Zenon DEF Iterates
  <2>3. 0 \in 0 .. n - 1 /\ n - 1 \in 0 .. n - 1 /\ n \in 0 .. last /\ n \in 1 .. last
    OBVIOUS
  <2>4. f[n - 1] \in V
    BY <2>2, <2>3
  <2> DEFINE v == step[<<n, f[n - 1]>>]
  <2>5. v \in V
    BY <2>3, <2>4
  <2> HIDE DEF v
  <2> DEFINE g == [k \in 0 .. n |-> IF k \in 0 .. n - 1 THEN f[k] ELSE v]
  <2>6. g \in [0 .. n -> V]
    BY <2>2, <2>5
  <2>7. (\A k \in 0 .. n - 1 : g[k] = f[k]) /\ g[n] = v
    OBVIOUS
  <2> HIDE DEF g
  <2>8. ASSUME NEW k \in 1 .. n
        PROVE  g[k] = step[<<k, g[k - 1]>>]
    <3>1. k - 1 \in 0 .. n - 1 /\ k \in 0 .. n /\ (k = n \/ (k \in 1 .. n - 1 /\ k \in 0 .. n - 1))
      OBVIOUS
    <3>2. g[k - 1] = f[k - 1]
      BY <2>7, <3>1
    <3> QED BY <2>2, <2>7, <3>1, <3>2 DEF v
  <2>9. g[0] = base
    BY <2>2, <2>3, <2>7
  <2>10. Iterates(g, n, V, base, step)
    BY <2>6, <2>8, <2>9 DEF Iterates
  <2> QED BY <2>3, <2>10
<1>3. last \in P
  <2> HIDE DEF P
  <2> QED BY <1>1, <1>2, UpTo
<1> QED BY <1>3


-----------------------------------------------------------------------------
(* The walk through the runs of a session (supersededRetryRunIDs).             *)

\* The runs of session s up to n.
Walked(s, n) == {r \in DOMAIN rs : r <= n /\ rs[r].session = s}

\* A completed run u stands for a run p that goes: its chain of retries began no
\* later, and nor did what stands before it in the branch that the user sees.
StandsFor(acc, u, p) ==
  /\ rs[u].status = "completed" /\ u \notin acc.gone /\ Origin(u) <= p
  /\ \A j, k \in DOMAIN acc.visible :
       acc.visible[j] = u /\ k <= j => Origin(acc.visible[k]) <= p

BranchOK(acc, s, n) ==
  /\ DOMAIN acc = {"visible", "gone"}
  /\ acc.visible \in Seq(Walked(s, n))
  /\ \A i, j \in DOMAIN acc.visible : i < j => acc.visible[i] < acc.visible[j]
  /\ acc.gone \subseteq Walked(s, n)
  /\ \A p \in acc.gone : \E u \in Walked(s, n) : StandsFor(acc, u, p)

\* A new run at the end of the branch.
LEMMA BranchGrows ==
  ASSUME TableOK, KinOK, NEW s, NEW n \in DOMAIN rs, rs[n].session = s,
         NEW acc, BranchOK(acc, s, n - 1)
  PROVE  BranchOK([acc EXCEPT !.visible = Append(@, n)], s, n)
<1> DEFINE v   == acc.visible
           new == [acc EXCEPT !.visible = Append(@, n)]
           w   == Append(v, n)
<1>1. DOMAIN acc = {"visible", "gone"} /\ v \in Seq(Walked(s, n - 1))
  BY DEF BranchOK
<1>2. DOMAIN new = {"visible", "gone"} /\ new.visible = w /\ new.gone = acc.gone
  BY <1>1
<1>3. Walked(s, n - 1) \subseteq Walked(s, n) /\ n \in Walked(s, n) /\ n \notin Walked(s, n - 1)
  BY TableNumbers DEF Walked
<1>4. \A x \in Walked(s, n - 1) : x < n
  BY TableNumbers DEF Walked
<1>5. v \in Seq(Walked(s, n))
  BY <1>1, <1>3
<1>6. /\ w \in Seq(Walked(s, n)) /\ DOMAIN w = 1 .. Len(v) + 1 /\ DOMAIN v = 1 .. Len(v)
      /\ Len(v) \in Nat
      /\ \A i \in 1 .. Len(v) : w[i] = v[i] /\ v[i] \in Walked(s, n - 1)
      /\ w[Len(v) + 1] = n
  BY <1>1, <1>3, <1>5
<1> HIDE DEF v, w, new
<1>7. \A i, j \in DOMAIN w : i < j => w[i] < w[j]
  <2> SUFFICES ASSUME NEW i \in DOMAIN w, NEW j \in DOMAIN w, i < j PROVE w[i] < w[j]
    OBVIOUS
  <2>1. i \in 1 .. Len(v)
    BY <1>6
  <2>2. CASE j \in 1 .. Len(v)
    BY <1>6, <2>1, <2>2 DEF BranchOK, v
  <2>3. CASE j = Len(v) + 1
    BY <1>4, <1>6, <2>1, <2>3
  <2> QED BY <1>6, <2>2, <2>3
<1>8. ASSUME NEW p \in acc.gone PROVE \E u \in Walked(s, n) : StandsFor(new, u, p)
  <2>1. PICK u \in Walked(s, n - 1) : StandsFor(acc, u, p)
    BY DEF BranchOK
  <2>2. ASSUME NEW j \in DOMAIN w, NEW k \in DOMAIN w, w[j] = u, k <= j
        PROVE  Origin(w[k]) <= p
    <3>1. j \in 1 .. Len(v)
      BY <1>3, <1>6, <2>1, <2>2
    <3>2. k \in 1 .. Len(v) /\ v[j] = u /\ w[k] = v[k]
      BY <1>6, <2>2, <3>1
    <3> QED BY <1>6, <2>1, <2>2, <3>1, <3>2 DEF StandsFor, v
  <2>3. StandsFor(new, u, p)
    BY <1>2, <2>1, <2>2 DEF StandsFor
  <2> QED BY <1>3, <2>1, <2>3
<1>9. acc.gone \subseteq Walked(s, n)
  BY <1>3 DEF BranchOK
<1>10. BranchOK(new, s, n)
  BY <1>2, <1>6, <1>7, <1>8, <1>9 DEF BranchOK
<1> QED BY <1>10 DEF new

\* A retry cuts the branch where its chain stands.
LEMMA BranchCut ==
  ASSUME TableOK, KinOK, NEW s, NEW n \in DOMAIN rs, rs[n].session = s,
         NEW acc, BranchOK(acc, s, n - 1),
         NEW at \in DOMAIN acc.visible, Origin(acc.visible[at]) = Origin(n),
         NEW new, DOMAIN new = {"visible", "gone"},
         new.visible = Append(SubSeq(acc.visible, 1, at - 1), n),
         NEW hidden, new.gone = acc.gone \cup hidden,
         hidden \subseteq {acc.visible[i] : i \in at .. Len(acc.visible)},
         hidden # {} => rs[n].status = "completed"
  PROVE  BranchOK(new, s, n)
<1> DEFINE v == acc.visible
           w == Append(SubSeq(v, 1, at - 1), n)
<1>1. v \in Seq(Walked(s, n - 1)) /\ Len(v) \in Nat /\ DOMAIN v = 1 .. Len(v) /\ at \in 1 .. Len(v)
  BY DEF BranchOK
<1>2. /\ w \in Seq(Walked(s, n - 1) \cup {n}) /\ DOMAIN w = 1 .. at
      /\ \A i \in 1 .. at - 1 : w[i] = v[i]
      /\ w[at] = n
  BY <1>1
<1>3. Walked(s, n - 1) \subseteq Walked(s, n) /\ n \in Walked(s, n) /\ n \notin Walked(s, n - 1)
  BY TableNumbers DEF Walked
<1>4. \A i \in 1 .. Len(v) : v[i] \in Walked(s, n - 1)
  BY <1>1
<1>5. \A x \in Walked(s, n - 1) : x \in DOMAIN rs /\ x < n /\ Origin(x) <= x
                                 /\ x \in Nat /\ Origin(x) \in Nat
  BY TableNumbers DEF Walked
<1>6. n \in Nat /\ Origin(n) \in Nat
  BY TableNumbers
<1>7. \A i, j \in 1 .. Len(v) : i < j => v[i] < v[j]
  BY <1>1 DEF BranchOK
<1>8. new.visible = w
  OBVIOUS
<1> HIDE DEF v, w
<1>9. w \in Seq(Walked(s, n))
  <2>1. Walked(s, n - 1) \cup {n} \subseteq Walked(s, n)
    BY <1>3
  <2> QED BY <1>2, <2>1
<1>10. \A i, j \in DOMAIN w : i < j => w[i] < w[j]
  <2> SUFFICES ASSUME NEW i \in DOMAIN w, NEW j \in DOMAIN w, i < j PROVE w[i] < w[j]
    OBVIOUS
  <2>1. i \in 1 .. at - 1 /\ i \in 1 .. Len(v) /\ (j = at \/ (j \in 1 .. at - 1 /\ j \in 1 .. Len(v)))
    BY <1>1, <1>2
  <2> QED BY <1>2, <1>4, <1>5, <1>7, <2>1
<1>11. \A x \in hidden : \E i \in at .. Len(v) : x = v[i]
  BY DEF v
<1>12. hidden \subseteq Walked(s, n - 1) /\ acc.gone \subseteq Walked(s, n - 1)
  <2>1. \A i \in at .. Len(v) : i \in 1 .. Len(v)
    BY <1>1
  <2> QED BY <1>4, <1>11, <2>1 DEF BranchOK
<1>13. ASSUME NEW p \in new.gone PROVE \E u \in Walked(s, n) : StandsFor(new, u, p)
  \* The retry stands for what it hides, and for what a run it hides stood for.
  <2>1. ASSUME rs[n].status = "completed", Origin(v[at]) <= p, p \in Nat,
               \A k \in 1 .. at - 1 : Origin(v[k]) <= p
        PROVE  StandsFor(new, n, p)
    <3>1. n \notin new.gone
      BY <1>3, <1>12
    <3>2. Origin(n) <= p
      BY <2>1 DEF v
    <3>3. ASSUME NEW k \in DOMAIN w PROVE Origin(w[k]) <= p
      <4>1. k = at \/ k \in 1 .. at - 1
        BY <1>1, <1>2
      <4> QED BY <1>2, <2>1, <3>2, <4>1
    <3> QED BY <1>8, <2>1, <3>1, <3>2, <3>3 DEF StandsFor
  <2>2. CASE p \in hidden
    <3>1. PICK i \in at .. Len(v) : p = v[i]
      BY <1>11, <2>2
    <3>2. i \in 1 .. Len(v) /\ (i = at \/ at < i)
      BY <1>1, <3>1
    <3>3. v[at] <= p /\ v[at] \in Nat /\ p \in Nat
      BY <1>1, <1>4, <1>5, <1>7, <3>1, <3>2
    <3>4. Origin(v[at]) <= p
      BY <1>1, <1>4, <1>5, <3>3
    <3>5. ASSUME NEW k \in 1 .. at - 1 PROVE Origin(v[k]) <= p
      <4>1. k \in 1 .. Len(v) /\ k < at
        BY <1>1
      <4>2. v[k] < v[at]
        BY <1>1, <1>7, <4>1
      <4> QED BY <1>4, <1>5, <3>3, <4>1, <4>2
    <3>6. rs[n].status = "completed"
      BY <2>2
    <3> QED BY <1>3, <2>1, <3>3, <3>4, <3>5, <3>6
  <2>3. CASE p \notin hidden
    <3>1. p \in acc.gone
      BY <2>3
    <3>2. p \in Nat
      BY <1>5, <1>12, <3>1
    <3>3. PICK u \in Walked(s, n - 1) : StandsFor(acc, u, p)
      BY <3>1 DEF BranchOK
    <3>4. CASE u \in hidden
      <4>1. PICK i \in at .. Len(v) : u = v[i]
        BY <1>11, <3>4
      <4>2. i \in 1 .. Len(v) /\ at <= i /\ \A k \in 1 .. at - 1 : k \in 1 .. Len(v) /\ k <= i
        BY <1>1, <4>1
      <4>3. \A k \in 1 .. Len(v) : k <= i => Origin(v[k]) <= p
        BY <1>1, <3>3, <4>1, <4>2 DEF StandsFor, v
      <4>4. rs[n].status = "completed"
        BY <3>4
      <4> QED BY <1>1, <1>3, <2>1, <3>2, <4>2, <4>3, <4>4
    <3>5. CASE u \notin hidden
      <4>1. u \notin new.gone
        BY <3>3, <3>5 DEF StandsFor
      <4>2. ASSUME NEW j \in DOMAIN w, NEW k \in DOMAIN w, w[j] = u, k <= j
            PROVE  Origin(w[k]) <= p
        <5>1. j # at
          BY <1>2, <1>3, <3>3, <4>2
        <5>2. j \in 1 .. at - 1 /\ k \in 1 .. at - 1 /\ j \in 1 .. Len(v) /\ k \in 1 .. Len(v)
          BY <1>1, <1>2, <4>2, <5>1
        <5> QED BY <1>1, <1>2, <3>3, <4>2, <5>2 DEF StandsFor, v
      <4>3. StandsFor(new, u, p)
        BY <1>8, <3>3, <4>1, <4>2 DEF StandsFor
      <4> QED BY <1>3, <3>3, <4>3
    <3> QED BY <3>4, <3>5
  <2> QED BY <2>2, <2>3
<1>14. new.gone \subseteq Walked(s, n)
  BY <1>3, <1>12
<1> QED BY <1>8, <1>9, <1>10, <1>13, <1>14 DEF BranchOK

\* One run, whether it is a retry or not.
LEMMA SupersedeSteps ==
  ASSUME TableOK, KinOK, NEW s, NEW n \in DOMAIN rs, rs[n].session = s,
         NEW acc, BranchOK(acc, s, n - 1)
  PROVE  BranchOK(Supersede(rs, acc, n), s, n)
<1> DEFINE v    == acc.visible
           same == {i \in DOMAIN v : RetryRoot(rs, v[i]) = RetryRoot(rs, n)}
           at   == CHOOSE i \in same : \A j \in same : i <= j
           cut  == [visible |-> Append(SubSeq(v, 1, at - 1), n),
                    gone |-> acc.gone \cup
                      {x \in {v[i] : i \in at .. Len(v)} :
                         rs[n].status = "completed" /\ IsTerminalRunStatus(rs[x].status)}]
<1>1. Supersede(rs, acc, n) = IF rs[n].retryOf = None \/ same = {}
                              THEN [acc EXCEPT !.visible = Append(@, n)] ELSE cut
  BY DEF Supersede
<1>2. CASE rs[n].retryOf = None \/ same = {}
  <2>1. Supersede(rs, acc, n) = [acc EXCEPT !.visible = Append(@, n)]
    BY <1>1, <1>2
  <2> QED BY <2>1, BranchGrows
<1>3. CASE ~(rs[n].retryOf = None \/ same = {})
  <2>1. v \in Seq(Walked(s, n - 1))
    BY DEF BranchOK
  <2>2. DOMAIN v \subseteq Nat /\ \A i \in DOMAIN v : v[i] \in DOMAIN rs
    BY <2>1 DEF Walked
  <2>3. same \in SUBSET Nat /\ same # {}
    BY <1>3, <2>2
  <2>4. at \in same
    BY <2>3, LeastNumber
  <2>5. Supersede(rs, acc, n) = cut
    BY <1>1, <1>3
  <2>6. DOMAIN cut = {"visible", "gone"} /\ cut.visible = Append(SubSeq(v, 1, at - 1), n)
    OBVIOUS
  <2> DEFINE hidden == {x \in {v[i] : i \in at .. Len(v)} :
                          rs[n].status = "completed" /\ IsTerminalRunStatus(rs[x].status)}
  <2>7. /\ cut.gone = acc.gone \cup hidden /\ hidden \subseteq {v[i] : i \in at .. Len(v)}
        /\ hidden # {} => rs[n].status = "completed"
    OBVIOUS
  <2>8. at \in DOMAIN v /\ RetryRoot(rs, v[at]) = RetryRoot(rs, n)
    BY <2>4
  <2>9. Origin(v[at]) = Origin(n)
    BY <2>2, <2>8, RootIsOrigin
  <2> HIDE DEF cut, hidden, at
  <2>10. BranchOK(cut, s, n)
    BY <2>6, <2>7, <2>8, <2>9, BranchCut
  <2> QED BY <2>5, <2>10
<1> QED BY <1>2, <1>3

\* A run of another session, or none.
LEMMA BranchStays ==
  ASSUME TableOK, KinOK, NEW s, NEW n \in Nat \ {0}, ~(n \in DOMAIN rs /\ rs[n].session = s),
         NEW acc, BranchOK(acc, s, n - 1)
  PROVE  BranchOK(acc, s, n)
<1>1. Walked(s, n - 1) = Walked(s, n)
  <2> SUFFICES ASSUME NEW r \in DOMAIN rs, rs[r].session = s PROVE r <= n - 1 <=> r <= n
    BY DEF Walked
  <2>1. r \in Nat /\ r # n
    BY TableNumbers
  <2> QED BY <2>1
<1> QED BY <1>1 DEF BranchOK

\* A walk is a function that is computed run by run.
Walk == [visible : Seq(DOMAIN rs), gone : SUBSET DOMAIN rs]

LEMMA SupersedeIs ==
  ASSUME NEW acc \in Walk, NEW n \in DOMAIN rs
  PROVE  Supersede(rs, acc, n) \in Walk
<1> DEFINE D    == DOMAIN rs
           v    == acc.visible
           same == {i \in DOMAIN v : RetryRoot(rs, v[i]) = RetryRoot(rs, n)}
           at   == CHOOSE i \in same : \A j \in same : i <= j
           cut  == SubSeq(v, 1, at - 1)
           hidden == {x \in {v[i] : i \in at .. Len(v)} :
                        rs[n].status = "completed" /\ IsTerminalRunStatus(rs[x].status)}
<1>1. v \in Seq(D) /\ acc.gone \in SUBSET D
  BY DEF Walk
<1>2. Supersede(rs, acc, n) = IF rs[n].retryOf = None \/ same = {}
                              THEN [acc EXCEPT !.visible = Append(@, n)]
                              ELSE [visible |-> Append(cut, n), gone |-> acc.gone \cup hidden]
  BY DEF Supersede
<1>3. CASE rs[n].retryOf = None \/ same = {}
  <2>1. Append(v, n) \in Seq(D)
    BY <1>1
  <2>2. [acc EXCEPT !.visible = Append(@, n)] \in Walk
    BY <2>1 DEF Walk
  <2> QED BY <1>2, <1>3, <2>2
<1>4. CASE ~(rs[n].retryOf = None \/ same = {})
  <2>1. same \in SUBSET Nat /\ same # {} /\ DOMAIN v = 1 .. Len(v) /\ Len(v) \in Nat
    BY <1>1, <1>4
  <2>2. at \in 1 .. Len(v)
    <3>1. at \in same
      BY <2>1, LeastNumber
    <3> QED BY <2>1, <3>1
  <2> HIDE DEF at
  <2>3. cut \in Seq(D)
    BY <1>1, <2>1, <2>2
  <2>4. hidden \subseteq D
    BY <1>1, <2>1, <2>2
  <2>5. [visible |-> Append(cut, n), gone |-> acc.gone \cup hidden] \in Walk
    <3> HIDE DEF cut, hidden
    <3> QED BY <1>1, <2>3, <2>4 DEF Walk
  <2> QED BY <1>2, <1>4, <2>5
<1> QED BY <1>3, <1>4

Walks(f, s, last) ==
  f = [n \in 0 .. last |->
         IF n = 0 THEN [visible |-> <<>>, gone |-> {}]
         ELSE LET acc == f[n - 1]
              IN  IF n \in DOMAIN rs /\ rs[n].session = s THEN Supersede(rs, acc, n) ELSE acc]

LEMMA WalksExist ==
  ASSUME NEW s, NEW last \in Nat
  PROVE  \E f : Walks(f, s, last)
<1> DEFINE start == [visible |-> <<>>, gone |-> {}]
           In(n) == n \in DOMAIN rs /\ rs[n].session = s
           step  == [x \in (1 .. last) \X Walk |-> IF In(x[1]) THEN Supersede(rs, x[2], x[1]) ELSE x[2]]
<1>1. step \in [(1 .. last) \X Walk -> Walk]
  <2> SUFFICES ASSUME NEW x \in (1 .. last) \X Walk
               PROVE  (IF In(x[1]) THEN Supersede(rs, x[2], x[1]) ELSE x[2]) \in Walk
    OBVIOUS
  <2>1. x[2] \in Walk
    OBVIOUS
  <2> QED BY <2>1, SupersedeIs
<1>2. \A n \in 1 .. last, a \in Walk : step[<<n, a>>] = IF In(n) THEN Supersede(rs, a, n) ELSE a
  OBVIOUS
<1>3. start \in Walk
  BY DEF Walk
<1> HIDE DEF step, start, In
<1>4. PICK f : Iterates(f, last, Walk, start, step)
  BY <1>1, <1>3, Iteration
<1>5. /\ f \in [0 .. last -> Walk] /\ f[0] = start
      /\ \A n \in 1 .. last : f[n] = step[<<n, f[n - 1]>>]
  BY <1>4, Zenon DEF Iterates
<1>6. ASSUME NEW n \in 1 .. last
      PROVE  f[n] = IF In(n) THEN Supersede(rs, f[n - 1], n) ELSE f[n - 1]
  <2>1. n - 1 \in 0 .. last
    OBVIOUS
  <2>2. f[n - 1] \in Walk
    BY <1>5, <2>1
  <2> QED BY <1>2, <1>5, <2>2
<1>7. \A n \in 0 .. last : n = 0 \/ (n \in 1 .. last /\ n # 0)
  OBVIOUS
<1>8. Walks(f, s, last)
  BY <1>5, <1>6, <1>7 DEF Walks, In, start
<1> QED BY <1>8

LEMMA BranchesHold ==
  ASSUME TableOK, KinOK, NEW s, NEW last \in Nat
  PROVE  BranchOK(RetryBranch(rs, s, last), s, last)
<1> DEFINE f == CHOOSE f : Walks(f, s, last)
           P == {n \in 0 .. last : BranchOK(f[n], s, n)}
<1>1. Walks(f, s, last)
  BY WalksExist
<1>2. RetryBranch(rs, s, last) = f[last]
  BY DEF RetryBranch, Walks
<1> HIDE DEF f
<1>3. \A n \in 0 .. last :
        f[n] = IF n = 0 THEN [visible |-> <<>>, gone |-> {}]
               ELSE IF n \in DOMAIN rs /\ rs[n].session = s THEN Supersede(rs, f[n - 1], n) ELSE f[n - 1]
  BY <1>1 DEF Walks
<1>4. 0 \in P
  <2>0. 0 \in 0 .. last
    OBVIOUS
  <2>1. f[0] = [visible |-> <<>>, gone |-> {}]
    BY <1>3, <2>0, Zenon
  <2>2. BranchOK([visible |-> <<>>, gone |-> {}], s, 0)
    BY DEF BranchOK
  <2> QED BY <2>0, <2>1, <2>2
<1>5. ASSUME NEW n \in 1 .. last, n - 1 \in P
      PROVE  n \in P
  <2>1. n \in 0 .. last /\ n # 0 /\ n \in Nat \ {0} /\ BranchOK(f[n - 1], s, n - 1)
    BY <1>5
  <2>2. f[n] = IF n \in DOMAIN rs /\ rs[n].session = s THEN Supersede(rs, f[n - 1], n) ELSE f[n - 1]
    BY <1>3, <2>1, Zenon
  <2>3. BranchOK(f[n], s, n)
    BY <2>1, <2>2, SupersedeSteps, BranchStays
  <2> QED BY <2>1, <2>3
<1>6. last \in P
  <2>1. last \in 0 .. last
    OBVIOUS
  <2> HIDE DEF P
  <2> QED BY <1>4, <1>5, <2>1, UpTo
<1> QED BY <1>2, <1>6

-----------------------------------------------------------------------------
(* Of what is superseded, an answer is left (SupersededRuns).                  *)

\* A run that goes has a run of the session that stands for it and does not go.
LEMMA SupersededAreReplaced ==
  ASSUME TableOK, KinOK, NEW p \in SupersededRetryRuns(rs)
  PROVE  /\ p \in DOMAIN rs
         /\ \E u \in DOMAIN rs \ SupersededRetryRuns(rs) : rs[u].status = "completed" /\ Origin(u) <= p
<1> DEFINE last == CHOOSE r \in DOMAIN rs : \A x \in DOMAIN rs : x <= r
           B(s) == RetryBranch(rs, s, last)
<1>1. SupersededRetryRuns(rs) = UNION {B(rs[r].session).gone : r \in DOMAIN rs}
  BY DEF SupersededRetryRuns
<1>2. DOMAIN rs # {}
  BY <1>1
<1>3. last \in Nat
  <2> DEFINE T == {created - r : r \in DOMAIN rs}
  <2>1. created \in Nat /\ \A r \in DOMAIN rs : r \in 1 .. created
    BY RunsInTable, TableNumbers
  <2>2. T \in SUBSET Nat /\ T # {}
    BY <1>2, <2>1
  <2>3. PICK t \in T : \A y \in T : t <= y
    BY <2>2, LeastNumber
  <2>4. PICK r \in DOMAIN rs : t = created - r
    BY <2>3
  <2>5. \A x \in DOMAIN rs : x <= r
    BY <2>1, <2>3, <2>4
  <2>6. last \in DOMAIN rs
    BY <2>4, <2>5
  <2> QED BY <2>6, TableNumbers
<1> HIDE DEF last
<1>4. PICK r \in DOMAIN rs : p \in B(rs[r].session).gone
  BY <1>1
<1> DEFINE s == rs[r].session
<1>5. BranchOK(B(s), s, last)
  BY <1>3, BranchesHold
<1>6. p \in DOMAIN rs
  BY <1>4, <1>5 DEF BranchOK, Walked
<1>7. PICK u \in Walked(s, last) : StandsFor(B(s), u, p)
  BY <1>4, <1>5 DEF BranchOK
<1>8. u \in DOMAIN rs /\ rs[u].session = s /\ rs[u].status = "completed" /\ Origin(u) <= p
  BY <1>7 DEF Walked, StandsFor
<1>9. u \notin SupersededRetryRuns(rs)
  <2>1. ASSUME NEW x \in DOMAIN rs, u \in B(rs[x].session).gone PROVE FALSE
    <3>1. BranchOK(B(rs[x].session), rs[x].session, last)
      BY <1>3, BranchesHold
    <3>2. rs[u].session = rs[x].session
      BY <2>1, <3>1 DEF BranchOK, Walked
    <3> QED BY <1>7, <1>8, <2>1, <3>2 DEF StandsFor
  <2> QED BY <1>1, <2>1
<1> QED BY <1>6, <1>8, <1>9

\* A pass that reads the runs while there is an answer leaves one: the run that
\* stands for the oldest run that goes descends from none that goes.
LEMMA AnAnswerIsLeft ==
  ASSUME TableOK, KinOK, SupersededRuns(rs) # {}
  PROVE  \E u \in DOMAIN rs \ SupersededRuns(rs) : rs[u].status = "completed"
<1> DEFINE gone == SupersededRetryRuns(rs)
<1>1. SupersededRuns(rs) = {r \in DOMAIN rs : Reached(Parents(rs), r) \cap gone # {}}
  BY DEF SupersededRuns, WithChildren
<1>2. gone \in SUBSET Nat /\ gone # {}
  BY <1>1, SupersededAreReplaced, TableNumbers
<1>3. PICK p \in gone : \A x \in gone : p <= x
  BY <1>2, LeastNumber
<1>4. PICK u \in DOMAIN rs \ gone : rs[u].status = "completed" /\ Origin(u) <= p
  BY SupersededAreReplaced
<1> HIDE DEF gone
<1>5. ASSUME NEW x \in Reached(Parents(rs), u), x \in gone PROVE FALSE
  <2>1. x \in Nat /\ x <= rs[u].parent
    BY <1>4, <1>5, Ancestors
  <2>2. rs[u].parent \in Nat /\ rs[u].parent < Origin(u) /\ Origin(u) \in Nat
    BY TableNumbers
  <2> QED BY <1>2, <1>3, <1>4, <1>5, <2>1, <2>2
<1> QED BY <1>1, <1>4, <1>5

-----------------------------------------------------------------------------
(* What the retention pass leaves of the answers, and of work in progress.     *)

\* What a pass has picked leaves an answer, unless the session is gone.
LeavesAnAnswer ==
  retention.runs # {} =>
    deletion.at = "done" \/ \E u \in DOMAIN rs \ retention.runs : rs[u].status = "completed"

\* Run r, and whatever it descends from, has its outcome.
Settled(r) ==
  /\ r \in 1 .. created
  /\ r \in DOMAIN rs => \A p \in Reached(Parents(rs), r) \cap DOMAIN rs : Terminal(p)

\* The pass takes artifacts of such runs only, though runs start, and end, between
\* its steps.
PassWaits ==
  /\ \A r \in retention.prunable : Settled(r)
  /\ \A r \in Runs, i \in Nat : <<r, i>> \in retention.artifacts => Settled(r)

FamilyInv == KinOK /\ LeavesAnAnswer /\ PassWaits

\* What a step does to the table of runs, ...
Retries(o) == CreateRun(o, RetryRoot(rs, o), rs[o].parent)
TableStep ==
  \/ UNCHANGED <<created, rs>>
  \/ created' = created /\ \E r \in DOMAIN rs : \E status : UpdateRunStatus(r, status)
  \/ CreateRun(None, None, None)
  \/ \E o \in DOMAIN rs : Retries(o) \/ CreateRun(None, None, o)
  \/ created' = created /\ DOMAIN rs' = {} /\ deletion'.at = "done"
  \/ RetentionDeletes

\* ... to the pass, and to the session.
PassStep == retention' \in {retention, NoPass} \/ RetentionReadsRuns \/ RetentionPlans
SessionStep == deletion.at = "done" => deletion'.at = "done"

LEMMA GoroutineTable ==
  ASSUME NEW r \in Runs, Goroutine(r)
  PROVE  TableStep /\ UNCHANGED <<deletion, retention>>
<1>1. CASE \/ Begin(r) \/ Settle(r) \/ FailSettle(r) \/ ReportSettle(r) \/ MarkSettle(r)
  <2>1. UNCHANGED <<created, deletion, retention>>
    BY <1>1 DEF Begin, Settle, FailSettle, ReportSettle, MarkSettle, others
  <2>2. UNCHANGED rs \/ \E status : r \in DOMAIN rs /\ UpdateRunStatus(r, status)
    BY <1>1 DEF Begin, Settle, FailSettle, ReportSettle, MarkSettle, Refused, Stored
  <2> QED BY <2>1, <2>2 DEF TableStep
<1>2. CASE \/ RecordRunCreated(r) \/ StartAgentRun(r) \/ RecordCompletionInput(r)
           \/ Begun(r) \/ RecordArtifact(r) \/ Iterated(r) \/ AgentErrs(r)
           \/ Complete(r) \/ Answer(r) \/ Cite(r) \/ TellCompleted(r)
           \/ Fail(r) \/ FailError(r) \/ FailTell(r)
  <2>1. UNCHANGED <<others, rs>>
    BY <1>2 DEF RecordRunCreated, StartAgentRun, RecordCompletionInput, Begun, RecordArtifact,
      Iterated, AgentErrs, Complete, Answer, Cite, TellCompleted, Fail, FailError, FailTell, Records
  <2> QED BY <2>1 DEF TableStep, others
<1>3. CASE \/ Report(r) \/ ReportError(r) \/ ReportTell(r) \/ ToolReturns(r) \/ AnnounceChild(r)
           \/ Mark(r) \/ MarkError(r) \/ MarkTell(r)
  <2>1. UNCHANGED <<others, rs>>
    BY <1>3 DEF Report, ReportError, ReportTell, ToolReturns, AnnounceChild, Mark, MarkError,
      MarkTell, MarkAppends
  <2> QED BY <2>1 DEF TableStep, others
<1> QED BY <1>1, <1>2, <1>3 DEF Goroutine

LEMMA RequestTable ==
  ASSUME \/ CreateAgentRun \/ (\E o \in Runs : RetryAgentRun(o))
         \/ (\E r \in Runs : SpawnChild(r) \/ BranchTimesOut(r))
         \/ \E c \in Cancellers : \/ CancelRequest(c)
                                  \/ \E r \in Runs, kind \in {"api", "a2a"} : CancelLooks(c, r, kind)
  PROVE  TableStep /\ UNCHANGED <<deletion, retention>>
<1>1. CASE CreateAgentRun
  BY <1>1 DEF CreateAgentRun, TableStep
<1>2. CASE \E o \in Runs : RetryAgentRun(o)
  BY <1>2 DEF RetryAgentRun, TableStep, Stored, Retries
<1>3. CASE \E r \in Runs : SpawnChild(r) \/ BranchTimesOut(r)
  BY <1>3 DEF SpawnChild, BranchTimesOut, TableStep, Refused, Stored, others
<1>4. CASE \E c \in Cancellers : \/ CancelRequest(c)
                                 \/ \E r \in Runs, kind \in {"api", "a2a"} : CancelLooks(c, r, kind)
  <2>1. PICK c \in Cancellers : \/ CancelStops(c) \/ CancelSettles(c) \/ CancelTells(c)
                                \/ \E r \in Runs, kind \in {"api", "a2a"} : CancelLooks(c, r, kind)
    BY <1>4 DEF CancelRequest
  <2>2. UNCHANGED <<created, deletion, retention>>
    BY <2>1 DEF CancelStops, CancelSettles, CancelTells, CancelLooks, goOthers
  <2>3. UNCHANGED rs \/ \E r \in DOMAIN rs : \E status : UpdateRunStatus(r, status)
    BY <2>1 DEF CancelStops, CancelSettles, CancelTells, CancelLooks, goOthers, Stored
  <2> QED BY <2>2, <2>3 DEF TableStep
<1> QED BY <1>1, <1>2, <1>3, <1>4

LEMMA ServerTable ==
  ASSUME \/ DeletionLooks \/ DeleteRequest \/ RetentionReadsRuns \/ RetentionPass
         \/ Stops \/ Restart \/ Recovered \/ Following \/ UNCHANGED vars
  PROVE  TableStep /\ PassStep /\ SessionStep
<1>1. CASE DeletionLooks \/ DeletionStops \/ Close \/ Exit \/ Restart \/ Recovered \/ UNCHANGED vars
  BY <1>1 DEF DeletionLooks, DeletionStops, Close, Exit, Restart, Recovered, vars,
    TableStep, PassStep, SessionStep
<1>2. CASE DeletionDeletes
  BY <1>2 DEF DeletionDeletes, DeleteRuns, TableStep, PassStep, SessionStep
<1>3. CASE RetentionReadsRuns \/ RetentionPlans
  BY <1>3 DEF RetentionReadsRuns, RetentionPlans, retOthers, TableStep, PassStep, SessionStep
<1>4. CASE RetentionDeletes
  <2>1. retention' = NoPass /\ deletion' = deletion
    BY <1>4 DEF RetentionDeletes, retOthers
  <2> QED BY <1>4, <2>1 DEF TableStep, PassStep, SessionStep
<1>5. CASE Following
  <2>1. UNCHANGED folOthers
    BY <1>5 DEF Following, Follow, SendMessage, GetTask, Stream, ListAndWrite, LookAtStatus,
      FlushFinal, FlushGivesUp, SnapshotStatus, Snapshot, StreamLooks, StreamLists, WaitForRun,
      TaskFromRun, Streams
  <2> QED BY <2>1 DEF folOthers, TableStep, PassStep, SessionStep
<1> QED BY <1>1, <1>2, <1>3, <1>4, <1>5 DEF DeleteRequest, RetentionPass, Stops

LEMMA NextTable ==
  ASSUME [Next]_vars
  PROVE  TableStep /\ PassStep /\ SessionStep
<1>1. CASE \E r \in Runs : Goroutine(r)
  BY <1>1, GoroutineTable DEF PassStep, SessionStep
<1>2. CASE \/ CreateAgentRun \/ (\E o \in Runs : RetryAgentRun(o))
           \/ (\E r \in Runs : SpawnChild(r) \/ BranchTimesOut(r))
           \/ \E c \in Cancellers : \/ CancelRequest(c)
                                    \/ \E r \in Runs, kind \in {"api", "a2a"} : CancelLooks(c, r, kind)
  BY <1>2, RequestTable DEF PassStep, SessionStep
<1>3. CASE \/ DeletionLooks \/ DeleteRequest \/ RetentionReadsRuns \/ RetentionPass
           \/ Stops \/ Restart \/ Recovered \/ Following \/ UNCHANGED vars
  BY <1>3, ServerTable
<1> QED BY <1>1, <1>2, <1>3 DEF Next, Following

\* Whom a run descends from does not change while it is stored, nor does an
\* outcome; a new run is the youngest, and descends from runs that are there.
SameKin(r) ==
  /\ DOMAIN rs'[r] = DOMAIN rs[r]
  /\ \A field \in {"session", "retryOf", "retryRoot", "parent"} : rs'[r][field] = rs[r][field]
  /\ Terminal(r) => rs'[r].status = rs[r].status
NewKin(r) ==
  /\ r = created + 1 /\ r \notin DOMAIN rs
  /\ {"status", "session", "retryOf", "retryRoot", "parent"} \subseteq DOMAIN rs'[r]
  /\ rs'[r].retryRoot \in 0 .. r /\ rs'[r].parent \in Nat
  /\ rs'[r].retryRoot = None => rs'[r].retryOf = None
  /\ rs'[r].parent < IF rs'[r].retryRoot # None THEN rs'[r].retryRoot ELSE r
RowsKept ==
  /\ \A r \in DOMAIN rs' : (r \in DOMAIN rs /\ SameKin(r)) \/ NewKin(r)
  /\ created' >= created
  /\ \/ DOMAIN rs \subseteq DOMAIN rs'
     \/ DOMAIN rs' = {} /\ deletion'.at = "done"
     \/ RetentionDeletes

LEMMA NewRowKin ==
  ASSUME TableOK, KinOK, NEW retryOf, NEW retryRoot \in 0 .. created, NEW parent \in Nat,
         CreateRun(retryOf, retryRoot, parent),
         retryRoot = None => retryOf = None,
         parent < IF retryRoot # None THEN retryRoot ELSE created + 1
  PROVE  RowsKept
<1>1. created \in Nat /\ DOMAIN rs \subseteq 1 .. created /\ created' = created + 1
      /\ created + 1 \notin DOMAIN rs
  BY RunsInTable DEF TableOK, CreateRun
<1> DEFINE row == [status |-> "queued", session |-> 1, retryOf |-> retryOf,
                   retryRoot |-> retryRoot, parent |-> parent]
<1>2. /\ DOMAIN rs' = DOMAIN rs \cup {created + 1}
      /\ \A x \in DOMAIN rs : rs'[x] = rs[x]
      /\ rs'[created + 1] = row
  BY <1>1 DEF CreateRun
<1>3. /\ DOMAIN row = {"status", "session", "retryOf", "retryRoot", "parent"}
      /\ row.retryOf = retryOf /\ row.retryRoot = retryRoot /\ row.parent = parent
  OBVIOUS
<1> HIDE DEF row
<1>4. NewKin(created + 1)
  BY <1>1, <1>2, <1>3 DEF NewKin
<1>5. \A x \in DOMAIN rs : SameKin(x)
  BY <1>2 DEF SameKin
<1> QED BY <1>1, <1>2, <1>4, <1>5 DEF RowsKept

LEMMA TableKeeps ==
  ASSUME TableOK, KinOK, TableStep
  PROVE  RowsKept
<1>0. created \in Nat /\ DOMAIN rs \subseteq 1 .. created
  BY RunsInTable DEF TableOK
<1>1. CASE UNCHANGED <<created, rs>>
  BY <1>0, <1>1 DEF RowsKept, SameKin
<1>2. CASE created' = created /\ \E r \in DOMAIN rs : \E status : UpdateRunStatus(r, status)
  <2>1. PICK r \in DOMAIN rs : \E status : UpdateRunStatus(r, status)
    BY <1>2
  <2>0. PICK status : UpdateRunStatus(r, status)
    BY <2>1
  <2>2. "status" \in DOMAIN rs[r]
    BY DEF TableOK
  <2>3. /\ DOMAIN rs' = DOMAIN rs
        /\ \A x \in DOMAIN rs \ {r} : rs'[x] = rs[x]
        /\ Terminal(r) => rs'[r] = rs[r]
        /\ rs'[r] = rs[r] \/ rs'[r] = [rs[r] EXCEPT !.status = status]
    BY <2>0, <2>2 DEF UpdateRunStatus, Updated
  <2>4. /\ DOMAIN rs'[r] = DOMAIN rs[r]
        /\ \A field \in {"session", "retryOf", "retryRoot", "parent"} : rs'[r][field] = rs[r][field]
    BY <2>3 DEF KinOK
  <2>5. \A x \in DOMAIN rs : SameKin(x)
    BY <2>3, <2>4 DEF SameKin
  <2> QED BY <1>0, <1>2, <2>3, <2>5 DEF RowsKept
<1>3. CASE CreateRun(None, None, None)
  BY <1>0, <1>3, NewRowKin DEF None
<1>4. ASSUME NEW o \in DOMAIN rs, Retries(o) PROVE RowsKept
  <2>1. RetryRoot(rs, o) = Origin(o) /\ Origin(o) \in 1 .. o /\ o \in 1 .. created
        /\ rs[o].parent \in Nat /\ rs[o].parent < Origin(o)
    BY RootIsOrigin, TableNumbers
  <2>2. Origin(o) \in 0 .. created /\ Origin(o) # None
    BY <1>0, <2>1 DEF None
  <2>3. CreateRun(o, Origin(o), rs[o].parent)
    BY <1>4, <2>1 DEF Retries
  <2> QED BY <2>1, <2>2, <2>3, NewRowKin
<1>5. ASSUME NEW o \in DOMAIN rs, CreateRun(None, None, o) PROVE RowsKept
  BY <1>0, <1>5, NewRowKin DEF None
<1>6. CASE created' = created /\ DOMAIN rs' = {} /\ deletion'.at = "done"
  BY <1>0, <1>6 DEF RowsKept
<1>7. CASE RetentionDeletes
  <2>1. created' = created /\ rs' = [r \in DOMAIN rs \ retention.runs |-> rs[r]]
    BY <1>7 DEF RetentionDeletes, retOthers
  <2>2. \A r \in DOMAIN rs' : r \in DOMAIN rs /\ SameKin(r)
    BY <2>1 DEF SameKin
  <2> QED BY <1>0, <1>7, <2>1, <2>2 DEF RowsKept
<1> QED BY <1>1, <1>2, <1>3, <1>4, <1>5, <1>6, <1>7 DEF TableStep

LEMMA KinKept ==
  ASSUME KinOK, RowsKept
  PROVE  KinOK'
<1> SUFFICES ASSUME NEW r \in DOMAIN rs'
             PROVE  /\ {"status", "session", "retryOf", "retryRoot", "parent"} \subseteq DOMAIN rs'[r]
                    /\ rs'[r].retryRoot \in 0 .. r /\ rs'[r].parent \in Nat
                    /\ rs'[r].retryRoot = None => rs'[r].retryOf = None
                    /\ rs'[r].parent < Origin(r)'
  BY DEF KinOK
<1>1. CASE r \in DOMAIN rs /\ SameKin(r)
  <2>1. DOMAIN rs'[r] = DOMAIN rs[r] /\ rs'[r].retryOf = rs[r].retryOf
        /\ rs'[r].retryRoot = rs[r].retryRoot /\ rs'[r].parent = rs[r].parent
    BY <1>1 DEF SameKin
  <2> QED BY <1>1, <2>1 DEF KinOK, Origin
<1>2. CASE NewKin(r)
  BY <1>2 DEF NewKin, Origin
<1> QED BY <1>1, <1>2 DEF RowsKept

\* A run that is settled stays so: no run it descends from comes back to work,
\* and it does not get new ones.
LEMMA SettledKept ==
  ASSUME TableOK, TableOK', KinOK, RowsKept, NEW r, Settled(r)
  PROVE  Settled(r)'
<1>1. r \in 1 .. created' /\ r \in Nat \ {0} /\ r # None /\ created \in Nat
  BY RunsInTable DEF Settled, RowsKept, TableOK, None
<1>2. CASE r \in DOMAIN rs'
  <2>1. r \in DOMAIN rs
    BY <1>1, <1>2 DEF RowsKept, NewKin, Settled
  <2>2. \A y \in Reached(Parents(rs), r) : y <= r /\ y \in Nat
    <3>1. rs[r].parent \in Nat /\ rs[r].parent <= r
      BY <2>1, TableNumbers
    <3> QED BY <1>1, <2>1, <3>1, Ancestors
  <2>3. ASSUME NEW y \in Reached(Parents(rs), r), y \in DOMAIN rs'
        PROVE  y \in DOMAIN rs /\ rs'[y].parent = rs[y].parent
               /\ (Terminal(y) => rs'[y].status = rs[y].status)
    <3>1. ~NewKin(y)
      BY <1>1, <2>2, <2>3 DEF NewKin, Settled
    <3>2. y \in DOMAIN rs /\ SameKin(y)
      BY <2>3, <3>1 DEF RowsKept
    <3> QED BY <3>2 DEF SameKin
  <2>4. Reached(Parents(rs'), r) \subseteq Reached(Parents(rs), r)
    <3> DEFINE old == Parents(rs)
               new == Parents(rs')
    <3>1. \A y \in Reached(old, r) \cap DOMAIN new : y \in DOMAIN old /\ new[y] = old[y]
      BY <2>3 DEF Parents
    <3> HIDE DEF old, new
    <3>2. Reached(new, r) \subseteq Reached(old, r)
      BY <1>1, <3>1, ReachedNoMore
    <3> QED BY <3>2 DEF old, new
  <2>5. \A p \in Reached(Parents(rs'), r) \cap DOMAIN rs' : Terminal(p)'
    BY <2>1, <2>3, <2>4 DEF Settled, Terminal
  <2> QED BY <1>1, <2>5 DEF Settled
<1>3. CASE r \notin DOMAIN rs'
  BY <1>1, <1>3 DEF Settled
<1> QED BY <1>2, <1>3

\* An answer stays among the runs that a pass spares.
LEMMA AnswerStays ==
  ASSUME TableOK, KinOK, RowsKept, ~RetentionDeletes, NEW S,
         NEW u \in DOMAIN rs \ S, rs[u].status = "completed"
  PROVE  deletion'.at = "done" \/ \E x \in DOMAIN rs' \ S : rs'[x].status = "completed"
<1>1. CASE DOMAIN rs \subseteq DOMAIN rs'
  <2>1. u \in DOMAIN rs' \ S /\ ~NewKin(u)
    BY <1>1 DEF NewKin
  <2>2. SameKin(u) /\ Terminal(u)
    BY <2>1 DEF RowsKept, Terminal, IsTerminalRunStatus
  <2> QED BY <2>1, <2>2 DEF SameKin
<1> QED BY <1>1 DEF RowsKept

\* The plan takes artifacts of the runs that may be pruned, and of no others.
LEMMA PlanTakesPrunable ==
  ASSUME IInv, RetentionPlans, NEW r \in Runs, NEW i \in Nat, <<r, i>> \in retention'.artifacts
  PROVE  r \in retention.prunable
<1> DEFINE of(x) == {[e EXCEPT !.id = <<x, @>>, !.artifact = <<x, @>>] : e \in events[x]}
           evs == [x \in Runs |-> of(x)]
           unused == {e.id : e \in UnreferencedArtifacts(retention.runs, retention.prunable, evs)}
<1>1. retention'.artifacts \subseteq unused
  BY DEF RetentionPlans, NoPass
<1>2. PICK e \in UnreferencedArtifacts(retention.runs, retention.prunable, evs) : e.id = <<r, i>>
  BY <1>1
<1>3. PICK x \in (Runs \ retention.runs) \cap retention.prunable : e \in of(x)
  BY <1>2 DEF UnreferencedArtifacts
<1>4. PICK d \in events[x] : e = [d EXCEPT !.id = <<x, d.id>>, !.artifact = <<x, d.artifact>>]
  BY <1>3
<1>5. {"id", "type", "artifact"} \subseteq DOMAIN d
  BY <1>3, <1>4 DEF IInv, EventsOK, EventOK
<1>6. e.id = <<x, d.id>>
  BY <1>4, <1>5
<1>7. <<x, d.id>> = <<r, i>>
  BY <1>2, <1>6
<1>8. x = r
  BY <1>7
<1> QED BY <1>3, <1>8

LEMMA FamilyInit ==
  ASSUME Init
  PROVE  FamilyInv
  BY DEF Init, NoPass, FamilyInv, KinOK, LeavesAnAnswer, PassWaits

LEMMA FamilyNext ==
  ASSUME IInv, FamilyInv, [Next]_vars
  PROVE  IInv' /\ FamilyInv'
<1>1. IInv'
  BY NextOK
<1>2. TableStep /\ PassStep /\ SessionStep
  BY NextTable
<1>3. TableOK /\ TableOK' /\ KinOK
  BY <1>1 DEF IInv, FamilyInv
<1>4. RowsKept
  BY <1>2, <1>3, TableKeeps
<1>5. KinOK'
  BY <1>3, <1>4, KinKept
<1>6. CASE retention' = NoPass
  <2>1. LeavesAnAnswer' /\ PassWaits'
    BY <1>6 DEF NoPass, LeavesAnAnswer, PassWaits
  <2> QED BY <1>1, <1>5, <2>1 DEF FamilyInv
<1>7. CASE retention' = retention /\ retention' # NoPass
  <2>1. ~RetentionDeletes
    BY <1>7 DEF RetentionDeletes
  <2>2. LeavesAnAnswer'
    <3>1. ASSUME retention.runs # {}
          PROVE  \/ deletion'.at = "done"
                 \/ \E u \in DOMAIN rs' \ retention.runs : rs'[u].status = "completed"
      <4>1. CASE deletion.at = "done"
        BY <1>2, <4>1 DEF SessionStep
      <4>2. CASE \E u \in DOMAIN rs \ retention.runs : rs[u].status = "completed"
        BY <1>3, <1>4, <2>1, <4>2, AnswerStays
      <4> QED BY <3>1, <4>1, <4>2 DEF FamilyInv, LeavesAnAnswer
    <3> QED BY <1>7, <3>1 DEF LeavesAnAnswer
  <2>3. PassWaits'
    <3>1. \A r : Settled(r) => Settled(r)'
      BY <1>3, <1>4, SettledKept
    <3> QED BY <1>7, <3>1 DEF FamilyInv, PassWaits
  <2> QED BY <1>1, <1>5, <2>2, <2>3 DEF FamilyInv
<1>8. CASE RetentionReadsRuns
  <2>1. /\ UNCHANGED <<created, rs>> /\ retention'.runs = SupersededRuns(rs)
        /\ retention'.prunable = ArtifactPruneRuns(rs) /\ retention'.artifacts = {}
    BY <1>8 DEF RetentionReadsRuns, retOthers
  <2>2. LeavesAnAnswer'
    BY <1>3, <2>1, AnAnswerIsLeft DEF LeavesAnAnswer
  <2>3. ASSUME NEW r \in ArtifactPruneRuns(rs) PROVE Settled(r)
    <3>1. r \in DOMAIN rs /\ Terminal(r) /\ ~HasNonTerminalParent(rs, r)
      BY DEF ArtifactPruneRuns, Terminal
    <3>2. \A p \in Reached(Parents(rs), r) \cap DOMAIN rs : Terminal(p)
      BY <3>1 DEF HasNonTerminalParent, Terminal
    <3>3. r \in 1 .. created
      BY <1>3, <3>1 DEF TableOK
    <3> QED BY <3>2, <3>3 DEF Settled
  <2>4. \A r : Settled(r) => Settled(r)'
    BY <1>3, <1>4, SettledKept
  <2>5. PassWaits'
    BY <2>1, <2>3, <2>4 DEF PassWaits
  <2> QED BY <1>1, <1>5, <2>2, <2>5 DEF FamilyInv
<1>9. CASE RetentionPlans
  <2>1. UNCHANGED <<created, rs, deletion>>
    BY <1>9 DEF RetentionPlans, retOthers
  <2>2. retention'.runs \in {{}, retention.runs} /\ retention'.prunable = {}
    BY <1>9 DEF RetentionPlans, NoPass
  <2>3. LeavesAnAnswer'
    BY <2>1, <2>2 DEF FamilyInv, LeavesAnAnswer
  <2>4. ASSUME NEW r \in Runs, NEW i \in Nat, <<r, i>> \in retention'.artifacts PROVE Settled(r)'
    <3>1. Settled(r)
      BY <1>9, <2>4, PlanTakesPrunable DEF FamilyInv, PassWaits
    <3> QED BY <1>3, <1>4, <3>1, SettledKept
  <2>5. PassWaits'
    BY <2>2, <2>4 DEF PassWaits
  <2> QED BY <1>1, <1>5, <2>3, <2>5 DEF FamilyInv
<1> QED BY <1>2, <1>6, <1>7, <1>8, <1>9 DEF PassStep

LEMMA AnswersStep ==
  ASSUME IInv, FamilyInv, [Next]_vars, Answered
  PROVE  Answered' \/ deletion'.at = "done"
<1>1. TableStep /\ SessionStep /\ TableOK /\ KinOK
  BY NextTable DEF IInv, FamilyInv
<1>2. RowsKept
  BY <1>1, TableKeeps
<1>3. PICK u \in DOMAIN rs : rs[u].status = "completed"
  BY DEF Answered
<1>4. CASE ~RetentionDeletes
  <2>1. u \in DOMAIN rs \ {}
    OBVIOUS
  <2>2. deletion'.at = "done" \/ \E x \in DOMAIN rs' \ {} : rs'[x].status = "completed"
    BY <1>1, <1>2, <1>3, <1>4, <2>1, AnswerStays
  <2> QED BY <2>2 DEF Answered
<1>5. CASE RetentionDeletes
  <2>1. rs' = [r \in DOMAIN rs \ retention.runs |-> rs[r]] /\ deletion' = deletion
    BY <1>5 DEF RetentionDeletes, retOthers
  <2>2. deletion.at = "done" \/ \E x \in DOMAIN rs \ retention.runs : rs[x].status = "completed"
    BY <1>3 DEF FamilyInv, LeavesAnAnswer
  <2> QED BY <2>1, <2>2 DEF Answered
<1> QED BY <1>4, <1>5

\* A session that has an answer keeps one until it is deleted, whatever retries
\* and children its runs have, and whatever runs start or end between the steps of
\* a retention pass: a pass removes a run that a completed retry replaced, what the
\* retry hid, and all that descends from these, and still there is always a
\* completed run that none of this takes.
THEOREM AnswersStay == Spec => AnAnswerStays
<1>1. Init => IInv /\ FamilyInv
  BY InitOK, FamilyInit
<1>2. IInv /\ FamilyInv /\ [Next]_vars => IInv' /\ FamilyInv'
  BY FamilyNext
<1>3. IInv /\ FamilyInv /\ [Next]_vars => [Answered => Answered' \/ deletion'.at = "done"]_vars
  BY AnswersStep
<1> QED BY <1>1, <1>2, <1>3, PTL DEF Spec, AnAnswerStays

LEMMA ProgressStep ==
  ASSUME IInv, CiteInv, FamilyInv, [Next]_vars, NEW r \in DOMAIN rs \cap DOMAIN rs',
         events'[r] # events[r], appended'[r] = appended[r],
         NEW p \in Reached(Parents(rs), r) \cap DOMAIN rs
  PROVE  Terminal(p)
<1>1. StepKind
  BY NextKind DEF CiteInv
<1>2. r \in Runs
  BY RunsInTable DEF IInv
<1>3. ~Speaking
  <2> SUFFICES ASSUME NEW x, NEW type, NEW artifact, NEW status,
                      Writer(x, type, artifact), Appends(x, type, artifact, status)
               PROVE  FALSE
    BY DEF Speaking
  <2>1. x \in Runs /\ DOMAIN events = Runs /\ DOMAIN appended = Runs
        /\ \A y \in Runs : appended[y] \in Nat
    BY RunsInTable DEF Writer, IInv, EventsOK
  <2>2. CASE x = r
    <3>1. appended'[r] = appended[r] + 1
      BY <2>1, <2>2 DEF Appends
    <3> QED BY <1>2, <2>1, <3>1
  <2>3. CASE x # r
    BY <1>2, <2>1, <2>3 DEF Appends
  <2> QED BY <2>2, <2>3
<1>4. ~Quiet /\ ~Exit /\ ~RetentionReadsRuns /\ ~RetentionPlans
  BY DEF Quiet, Exit, RetentionReadsRuns, RetentionPlans
<1>5. ~Following
  <2> SUFFICES ASSUME Following PROVE FALSE
    OBVIOUS
  <2>1. UNCHANGED folOthers
    BY DEF Following, Follow, SendMessage, GetTask, Stream, ListAndWrite, LookAtStatus,
      FlushFinal, FlushGivesUp, SnapshotStatus, Snapshot, StreamLooks, StreamLists, WaitForRun,
      TaskFromRun, Streams
  <2> QED BY <2>1 DEF folOthers
<1>6. ~DeletionDeletes
  BY DEF DeletionDeletes, DeleteRuns
<1>7. RetentionDeletes
  BY <1>1, <1>3, <1>4, <1>5, <1>6 DEF StepKind, Pass
<1>8. /\ rs' = [x \in DOMAIN rs \ retention.runs |-> rs[x]]
      /\ events'[r] = IF r \in retention.runs THEN {}
                      ELSE {e \in events[r] : <<r, e.id>> \notin retention.artifacts}
  BY <1>2, <1>7 DEF RetentionDeletes
<1>9. r \notin retention.runs
  BY <1>8
<1>10. PICK e \in events[r] : <<r, e.id>> \in retention.artifacts
  BY <1>8, <1>9
<1>11. e.id \in Nat
  BY <1>2, <1>10 DEF IInv, EventsOK, EventOK
<1>12. Settled(r)
  BY <1>2, <1>10, <1>11 DEF FamilyInv, PassWaits
<1> QED BY <1>12 DEF Settled

\* The pass takes an artifact only of a run that is over, and whose ancestors are:
\* what it read of them in its first step is still true in its last, although runs
\* are created, retried and ended between them.
THEOREM WorkIsKept == Spec => WorkInProgressIsKept
<1> DEFINE Kept == \A r \in DOMAIN rs \cap DOMAIN rs' :
                     events'[r] # events[r] /\ appended'[r] = appended[r]
                       => \A p \in Reached(Parents(rs), r) \cap DOMAIN rs : Terminal(p)
<1>1. Init => IInv /\ CiteInv /\ FamilyInv
  BY InitOK, CiteInit, FamilyInit
<1>2. IInv /\ CiteInv /\ FamilyInv /\ [Next]_vars => IInv' /\ CiteInv' /\ FamilyInv'
  BY CiteNext, FamilyNext
<1>3. IInv /\ CiteInv /\ FamilyInv /\ [Next]_vars => [Kept]_vars
  BY ProgressStep
<1> HIDE DEF Kept
<1>4. Spec => [][Kept]_vars
  BY <1>1, <1>2, <1>3, PTL DEF Spec
<1> QED BY <1>4 DEF WorkInProgressIsKept, Kept
=============================================================================
