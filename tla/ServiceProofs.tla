----------------------------- MODULE ServiceProofs -----------------------------
(* Theorems about the serve command and the health cache in it: what a client    *)
(* is told, why the command returns, and what it leaves behind.                  *)
EXTENDS Service, FiniteSetTheorems, TLAPS

--------------------------------------------------------------------------------
(* The health cache.                                                             *)

Reports == [complete : BOOLEAN, read : Nat, listed : BOOLEAN]
Entries == [report : Reports, expires : Int, took : Int]
Queries == [pc : {"idle", "open", "read", "keep", "create", "ensure"}, input : Inputs,
            key : Keys, alone : SUBSET Clusters, report : Reports]
Answers == [input : Inputs, key : Keys, alone : SUBSET Clusters, report : Reports,
            at : Nat, took : Int]
LoopStates == [pc : {"off", "idle", "pass", "keep"}, todo : SUBSET Keys, from : Nat,
               key : Keys, report : Reports]

\* Only a registered cluster has been listed.
ListedIsKnown == \A s \in listed : s[1] \in known

\* A status that does not make a report incomplete was written after a list.
StatusIsEarned ==
  \A s \in Streams :
    offset[s].status \notin {"not_started", "list_error", "retrying"} => s \in listed

DataInv ==
  /\ now \in Nat /\ known \subseteq Clusters /\ listed \subseteq Streams
  /\ offset \in [Streams -> [status : Statuses \cup {"not_started"}, at : Nat]]
  /\ ListedIsKnown /\ StatusIsEarned

\* A report says complete only when it was, and was read in the past.
IsTrue(report) == report.read <= now /\ (report.complete => report.listed)

\* A report in the cache expires a TTL after it was read, or later by the time
\* that its query spent on keeping it.
GoodEntry(e) ==
  e \in Entries /\ IsTrue(e.report) /\ e.expires <= e.report.read + TTL + e.took

\* The key that stands for an input is the cluster with data that the input means.
Means(input, key, alone) == Cardinality(alone) = 1 /\ input # "" => key \in alone

GoodQuery(q) ==
  /\ q \in Queries /\ IsTrue(q.report)
  /\ q.pc \in {"read", "keep"} => Means(q.input, q.key, q.alone)

GoodAnswer(a) ==
  /\ a \in Answers /\ IsTrue(a.report) /\ Means(a.input, a.key, a.alone)
  /\ a.at - a.report.read <= TTL + a.took

\* A pass reads its reports after the time they will count from.
GoodLoop(s) ==
  /\ s \in LoopStates /\ IsTrue(s.report) /\ s.from <= now
  /\ s.pc = "keep" => s.from <= s.report.read

HealthInv ==
  /\ DataInv
  /\ cache \in [Keys -> Entries] /\ \A k \in Keys : GoodEntry(cache[k])
  /\ query \in [Clients -> Queries] /\ \A c \in Clients : GoodQuery(query[c])
  /\ answer \in [Clients -> Answers] /\ \A c \in Clients : GoodAnswer(answer[c])
  /\ loop \in [Loops -> LoopStates] /\ \A l \in Loops : GoodLoop(loop[l])
  /\ held \in Loops \cup {0} /\ told \subseteq Loops

LEMMA Typing ==
  /\ TTL \in Nat \ {0} /\ "" \in Inputs /\ IsFiniteSet(Clusters)
  /\ NoReport \in Reports /\ NoEntry \in Entries /\ NoQuery \in Queries
  /\ NoAnswer \in Answers /\ NoLoop \in LoopStates
<1>1. NoReport \in Reports
  BY DEF Reports, NoReport
<1>2. NoEntry \in Entries
  BY <1>1 DEF Entries, NoEntry
<1>a. "" \in Inputs /\ "" \in Keys
  BY HealthAssumption DEF Keys
<1>3. NoAnswer \in Answers
  <2>1. 0 \in Nat /\ 0 \in Int /\ {} \in SUBSET Clusters
    OBVIOUS
  <2>2. QED
    BY <1>1, <1>a, <2>1, Zenon DEF Answers, NoAnswer
<1>4. NoQuery \in Queries
  BY <1>1, <1>a DEF Queries, NoQuery
<1>5. NoLoop \in LoopStates
  BY <1>1, <1>a DEF LoopStates, NoLoop
<1>6. QED
  BY HealthAssumption, <1>a, <1>1, <1>2, <1>3, <1>4, <1>5

\* What is empty is good.
LEMMA Idle ==
  now \in Nat => /\ GoodEntry(NoEntry) /\ GoodQuery(NoQuery)
                 /\ GoodAnswer(NoAnswer) /\ GoodLoop(NoLoop)
<1> SUFFICES ASSUME now \in Nat
             PROVE  /\ GoodEntry(NoEntry) /\ GoodQuery(NoQuery)
                    /\ GoodAnswer(NoAnswer) /\ GoodLoop(NoLoop)
  OBVIOUS
<1>1. IsTrue(NoReport) /\ TTL \in Nat /\ NoReport.read = 0
  <2>1. TTL \in Nat
    BY HealthAssumption
  <2>2. QED
    BY <2>1 DEF IsTrue, NoReport
<1>2. GoodEntry(NoEntry)
  <2>1. NoEntry.expires = -1 /\ NoEntry.report = NoReport /\ NoEntry.took = 0
    BY DEF NoEntry
  <2>2. -1 <= 0 + TTL + 0
    BY <1>1
  <2>3. QED
    BY <1>1, <2>1, <2>2, Typing DEF GoodEntry
<1>3. GoodQuery(NoQuery)
  BY <1>1, Typing DEF GoodQuery, NoQuery
<1>4. GoodAnswer(NoAnswer)
  <2>1. /\ NoAnswer.input = "" /\ NoAnswer.report = NoReport /\ NoAnswer.at = 0
        /\ NoAnswer.took = 0
    BY DEF NoAnswer
  <2>2. 0 - 0 <= TTL + 0
    BY <1>1
  <2>3. QED
    BY <1>1, <2>1, <2>2, Typing DEF GoodAnswer, Means
<1>5. GoodLoop(NoLoop)
  <2>1. NoLoop.pc = "off" /\ NoLoop.report = NoReport /\ NoLoop.from = 0 /\ NoLoop \in LoopStates
    BY Typing DEF NoLoop
  <2>2. NoLoop.from <= now
    BY <2>1
  <2>3. QED
    BY <1>1, <2>1, <2>2 DEF GoodLoop
<1>6. QED
  BY <1>2, <1>3, <1>4, <1>5

LEMMA HealthInitial == HealthInit => HealthInv
<1> SUFFICES ASSUME HealthInit PROVE HealthInv
  OBVIOUS
<1>1. DataInv
  BY DEF HealthInit, DataInv, ListedIsKnown, StatusIsEarned, NoRow
<1>2. QED
  BY <1>1, Idle, Typing DEF HealthInit, HealthInv

\* A set with one element is that element.
LEMMA OnlyElement ==
  ASSUME NEW S, IsFiniteSet(S), Cardinality(S) = 1
  PROVE  \E x : S = {x}
BY FS_Singleton

\* A key that an input is resolved to is the only cluster with data that the
\* input matches, if there is just one.
LEMMA ResolvedIsMeant ==
  ASSUME NEW input \in Inputs, known \subseteq Clusters, ListedIsKnown,
         ResolveClusterID(input) # Unknown
  PROVE  Means(input, ResolveClusterID(input), Matching(input) \cap HasEvidence)
<1> DEFINE exact   == {k \in known : <<k, input>> \in Exact}
           fuzzy   == {k \in known : <<k, input>> \in Fuzzy}
           instead == (fuzzy \ exact) \cap HasEvidence
           matches == IF exact = {} THEN fuzzy ELSE exact
           alone   == Matching(input) \cap HasEvidence
<1> SUFFICES ASSUME Cardinality(alone) = 1, input # ""
             PROVE  ResolveClusterID(input) \in alone
  BY DEF Means
<1>1. HasEvidence \subseteq known
  BY DEF ListedIsKnown, HasEvidence
<1>2. Matching(input) = exact \cup fuzzy
  BY DEF Matching
<1>3. /\ IsFiniteSet(exact) /\ IsFiniteSet(fuzzy) /\ IsFiniteSet(instead)
      /\ IsFiniteSet(matches) /\ IsFiniteSet(alone)
  <2>1. IsFiniteSet(known)
    BY Typing, FS_Subset
  <2>2. /\ exact \subseteq known /\ fuzzy \subseteq known /\ instead \subseteq known
        /\ matches \subseteq known /\ alone \subseteq known
    BY <1>2
  <2>3. QED
    BY <2>1, <2>2, FS_Subset
<1>4. PICK a : alone = {a}
  BY <1>3, OnlyElement
<1>5. a \in known /\ a \in HasEvidence /\ (a \in exact \/ a \in fuzzy)
  BY <1>1, <1>2, <1>4
<1>6. ResolveClusterID(input) =
        IF Cardinality(exact) = 1 /\ exact \cap HasEvidence = {} /\ Cardinality(instead) = 1
        THEN CHOOSE k \in instead : TRUE
        ELSE IF Cardinality(matches) = 1 THEN CHOOSE k \in matches : TRUE ELSE Unknown
  BY <1>5 DEF ResolveClusterID
<1>7. CASE Cardinality(exact) = 1 /\ exact \cap HasEvidence = {} /\ Cardinality(instead) = 1
  <2>1. PICK b : instead = {b}
    BY <1>3, <1>7, OnlyElement
  <2>2. ResolveClusterID(input) = b
    BY <1>6, <1>7, <2>1
  <2>3. QED
    BY <1>2, <2>1, <2>2
<1>8. CASE ~(Cardinality(exact) = 1 /\ exact \cap HasEvidence = {} /\ Cardinality(instead) = 1)
  <2>1. Cardinality(matches) = 1
    BY <1>6, <1>8
  <2>2. PICK b : matches = {b}
    BY <1>3, <2>1, OnlyElement
  <2>3. ResolveClusterID(input) = b
    BY <1>6, <1>8, <2>1, <2>2
  <2>4. b = a
    <3>1. CASE exact = {}
      BY <1>5, <2>2, <3>1
    <3>2. CASE exact # {}
      <4>1. exact = {b} /\ Cardinality(exact) = 1
        BY <2>1, <2>2, <3>2
      <4> SUFFICES ASSUME b # a PROVE FALSE
        OBVIOUS
      <4>2. a \in instead
        BY <1>5, <4>1
      <4>3. exact \cap HasEvidence = {}
        BY <1>2, <1>4, <4>1
      <4>4. instead = {a}
        BY <1>2, <1>4, <4>2
      <4>5. Cardinality(instead) = 1
        BY <4>4, FS_Singleton
      <4>6. QED
        BY <1>8, <4>1, <4>3, <4>5
    <3>3. QED
      BY <3>1, <3>2
  <2>5. QED
    BY <1>4, <2>3, <2>4
<1>9. QED
  BY <1>7, <1>8

LEMMA ReportIsTrue ==
  ASSUME DataInv, NEW k
  PROVE  ResourceHealth(k) \in Reports /\ IsTrue(ResourceHealth(k)) /\ ResourceHealth(k).read = now
<1>1. Complete(k) \in BOOLEAN /\ (Complete(k) => Counted(k) \subseteq listed)
  <2>1. Counted(k) \subseteq Streams
    BY DEF Counted, Records
  <2>2. Complete(k) => \A s \in Counted(k) : offset[s].status \notin {"not_started", "list_error", "retrying"}
    BY DEF Complete
  <2>3. QED
    BY <2>1, <2>2 DEF DataInv, StatusIsEarned, Complete
<1>2. now \in Nat
  BY DEF DataInv
<1>3. ResourceHealth(k) \in Reports
  BY <1>1, <1>2 DEF ResourceHealth, Reports
<1>4. /\ ResourceHealth(k).read = now /\ ResourceHealth(k).complete = Complete(k)
      /\ ResourceHealth(k).listed = (Counted(k) \subseteq listed)
  BY DEF ResourceHealth
<1>5. QED
  BY <1>1, <1>2, <1>3, <1>4 DEF IsTrue

\* What is good stays so, whatever the collectors write and however time passes.
LEMMA GoodStays ==
  ASSUME HealthInv, now' \in Nat, now' >= now, UNCHANGED <<cache, query, answer, loop>>
  PROVE  /\ \A k \in Keys : GoodEntry(cache[k])'
         /\ \A c \in Clients : GoodQuery(query[c])' /\ GoodAnswer(answer[c])'
         /\ \A l \in Loops : GoodLoop(loop[l])'
<1>1. now \in Nat
  BY DEF HealthInv, DataInv
<1>2. ASSUME NEW report \in Reports, IsTrue(report) PROVE report.read <= now' /\ (report.complete => report.listed)
  BY <1>1, <1>2 DEF IsTrue, Reports
<1>3. ASSUME NEW k \in Keys PROVE GoodEntry(cache[k])'
  BY <1>2 DEF HealthInv, GoodEntry, Entries, IsTrue
<1>4. ASSUME NEW c \in Clients PROVE GoodQuery(query[c])' /\ GoodAnswer(answer[c])'
  BY <1>2 DEF HealthInv, GoodQuery, GoodAnswer, Queries, Answers, Means, IsTrue
<1>5. ASSUME NEW l \in Loops PROVE GoodLoop(loop[l])'
  <2>1. loop[l] \in LoopStates /\ GoodLoop(loop[l]) /\ loop'[l] = loop[l]
    BY DEF HealthInv
  <2>2. loop[l].from \in Nat /\ loop[l].report \in Reports
    BY <2>1 DEF LoopStates
  <2>3. QED
    BY <1>1, <1>2, <2>1, <2>2 DEF GoodLoop, IsTrue
<1>6. QED
  BY <1>3, <1>4, <1>5

LEMMA CollectKeeps == HealthInv /\ Collect => HealthInv'
<1> SUFFICES ASSUME HealthInv, Collect PROVE HealthInv'
  OBVIOUS
<1>1. UNCHANGED <<now, cache, query, answer, loop, held, told>> /\ now \in Nat
  BY DEF Collect, Register, Write, loops, HealthInv, DataInv
<1>2. DataInv'
  <2>1. ASSUME NEW k \in Clusters, Register(k) PROVE DataInv'
    BY <2>1 DEF Register, HealthInv, DataInv, ListedIsKnown, StatusIsEarned
  <2>2. ASSUME NEW s \in Streams, NEW status \in Statuses, Write(s, status) PROVE DataInv'
    <3>1. ListedIsKnown'
      BY <2>2 DEF Write, HealthInv, DataInv, ListedIsKnown
    <3>2. StatusIsEarned'
      BY <2>2 DEF Write, HealthInv, DataInv, StatusIsEarned
    <3>3. QED
      BY <2>2, <3>1, <3>2 DEF Write, HealthInv, DataInv
  <2>3. QED
    BY <2>1, <2>2 DEF Collect
<1>3. QED
  BY <1>1, <1>2, GoodStays DEF HealthInv

LEMMA TickKeeps == HealthInv /\ Tick => HealthInv'
<1> SUFFICES ASSUME HealthInv, Tick PROVE HealthInv'
  OBVIOUS
<1>1. /\ now \in Nat /\ now' = now + 1 /\ UNCHANGED <<cache, query, answer, loop, held, told>>
      /\ DataInv'
  BY DEF Tick, loops, HealthInv, DataInv, ListedIsKnown, StatusIsEarned
<1>2. now' \in Nat /\ now' >= now
  BY <1>1
<1>3. QED
  BY <1>1, <1>2, GoodStays DEF HealthInv

\* A step of a client or of a loop leaves a good query, answer, entry or loop in
\* the place of one.
LEMMA PlaceKeeps ==
  ASSUME HealthInv, UNCHANGED data,
         held' \in Loops \cup {0}, told' \subseteq Loops,
         cache' = cache \/ \E k \in Keys : \E e : GoodEntry(e) /\ cache' = [cache EXCEPT ![k] = e],
         query' = query \/ \E c \in Clients : \E q : GoodQuery(q) /\ query' = [query EXCEPT ![c] = q],
         answer' = answer \/ \E c \in Clients : \E a : GoodAnswer(a) /\ answer' = [answer EXCEPT ![c] = a],
         loop' = loop \/ \E l \in Loops : \E s : GoodLoop(s) /\ loop' = [loop EXCEPT ![l] = s]
  PROVE  HealthInv'
<1>1. DataInv' /\ now' = now
  BY DEF HealthInv, DataInv, data, ListedIsKnown, StatusIsEarned
<1>2. cache' \in [Keys -> Entries] /\ \A k \in Keys : GoodEntry(cache[k])'
  <2>1. cache' \in [Keys -> Entries] /\ \A k \in Keys : GoodEntry(cache'[k])
    BY DEF HealthInv, GoodEntry
  <2>2. QED
    BY <1>1, <2>1 DEF GoodEntry, IsTrue
<1>3. query' \in [Clients -> Queries] /\ \A c \in Clients : GoodQuery(query[c])'
  <2>1. query' \in [Clients -> Queries] /\ \A c \in Clients : GoodQuery(query'[c])
    BY DEF HealthInv, GoodQuery
  <2>2. QED
    BY <1>1, <2>1 DEF GoodQuery, IsTrue, Means
<1>4. answer' \in [Clients -> Answers] /\ \A c \in Clients : GoodAnswer(answer[c])'
  <2>1. answer' \in [Clients -> Answers] /\ \A c \in Clients : GoodAnswer(answer'[c])
    BY DEF HealthInv, GoodAnswer
  <2>2. QED
    BY <1>1, <2>1 DEF GoodAnswer, IsTrue, Means
<1>5. loop' \in [Loops -> LoopStates] /\ \A l \in Loops : GoodLoop(loop[l])'
  <2>1. loop' \in [Loops -> LoopStates] /\ \A l \in Loops : GoodLoop(loop'[l])
    BY DEF HealthInv, GoodLoop
  <2>2. QED
    BY <1>1, <2>1 DEF GoodLoop, IsTrue
<1>6. QED
  BY <1>1, <1>2, <1>3, <1>4, <1>5 DEF HealthInv

\* A client is told what the cache has.
LEMMA HitKeeps ==
  ASSUME HealthInv, NEW c \in Clients, NEW input \in Inputs, NEW k \in Keys,
         Means(input, k, Matching(input) \cap HasEvidence),
         Hit(c, input, k), UNCHANGED <<data, cache, loops>>
  PROVE  HealthInv'
<1> DEFINE e == cache[k]
           alone == Matching(input) \cap HasEvidence
           a == [input |-> input, key |-> k, alone |-> alone, report |-> e.report,
                 at |-> now, took |-> e.took]
<1>1. e \in Entries /\ IsTrue(e.report) /\ e.expires <= e.report.read + TTL + e.took /\ now \in Nat
  BY DEF HealthInv, GoodEntry, DataInv
<1>2. e.report \in Reports /\ e.expires \in Int /\ e.took \in Int /\ e.report.read \in Nat
  BY <1>1 DEF Entries, Reports
<1>3. alone \in SUBSET Clusters
  BY DEF HealthInv, DataInv, Matching
<1>4. a \in Answers
  BY <1>1, <1>2, <1>3 DEF Answers
<1>5. now - e.report.read <= TTL + e.took
  <2>1. now <= e.expires /\ TTL \in Nat
    BY Typing DEF Hit, Valid
  <2>2. QED
    BY <1>1, <1>2, <2>1
<1>6. GoodAnswer(a)
  BY <1>1, <1>4, <1>5 DEF GoodAnswer
<1>7. answer' = [answer EXCEPT ![c] = a]
  BY DEF Hit, Answered
<1>8. GoodQuery(NoQuery)
  BY <1>1, Idle
<1>9. QED
  BY <1>6, <1>7, <1>8, PlaceKeeps DEF Hit, HealthInv, loops

LEMMA AskKeeps ==
  ASSUME HealthInv, NEW c \in Clients, NEW input \in Inputs, Ask(c, input)
  PROVE  HealthInv'
<1>1. now \in Nat
  BY DEF HealthInv, DataInv
<1>2. CASE input = "" /\ Hit(c, input, input)
  <2>1. input \in Keys /\ Means(input, input, Matching(input) \cap HasEvidence)
    BY <1>2 DEF Keys, Means
  <2>2. QED
    BY <1>2, <2>1, HitKeeps DEF Ask
<1>3. CASE /\ query' = [query EXCEPT ![c] = [NoQuery EXCEPT !.pc = "open", !.input = input]]
           /\ answer' = [answer EXCEPT ![c] = NoAnswer]
  <2> DEFINE q == [NoQuery EXCEPT !.pc = "open", !.input = input]
  <2>1. GoodQuery(q)
    <3>1. q \in Queries
      BY Typing DEF Queries
    <3>2. q.pc = "open" /\ q.report = NoReport
      BY DEF NoQuery
    <3>3. IsTrue(NoReport)
      BY <1>1 DEF IsTrue, NoReport
    <3>4. QED
      BY <3>1, <3>2, <3>3 DEF GoodQuery
  <2>2. GoodAnswer(NoAnswer)
    BY <1>1, Idle
  <2>3. QED
    BY <1>3, <2>1, <2>2, PlaceKeeps DEF Ask, HealthInv, loops
<1>4. QED
  BY <1>2, <1>3 DEF Ask

LEMMA ResolvedIsKey ==
  ASSUME NEW input \in Inputs, known \subseteq Clusters, ResolveClusterID(input) # Unknown
  PROVE  ResolveClusterID(input) \in Keys
<1> DEFINE exact   == {k \in known : <<k, input>> \in Exact}
           fuzzy   == {k \in known : <<k, input>> \in Fuzzy}
           instead == (fuzzy \ exact) \cap HasEvidence
           matches == IF exact = {} THEN fuzzy ELSE exact
<1>1. ASSUME NEW S \in SUBSET known, Cardinality(S) = 1 PROVE (CHOOSE k \in S : TRUE) \in Keys
  <2>1. IsFiniteSet(S)
    BY Typing, FS_Subset
  <2>2. S # {}
    BY <1>1, <2>1, FS_EmptySet
  <2>3. QED
    BY <2>2 DEF Keys
<1>2. instead \in SUBSET known /\ matches \in SUBSET known /\ input \in Keys
  BY DEF Keys
<1>3. CASE ResolveClusterID(input) = input
  BY <1>2, <1>3
<1>4. CASE ResolveClusterID(input) # input
  <2>1. \/ Cardinality(instead) = 1 /\ ResolveClusterID(input) = CHOOSE k \in instead : TRUE
        \/ Cardinality(matches) = 1 /\ ResolveClusterID(input) = CHOOSE k \in matches : TRUE
    BY <1>4 DEF ResolveClusterID
  <2>2. QED
    BY <1>1, <1>2, <2>1
<1>5. QED
  BY <1>3, <1>4

LEMMA ResolveKeeps ==
  ASSUME HealthInv, NEW c \in Clients, Resolve(c)
  PROVE  HealthInv'
<1> DEFINE input == query[c].input
           k     == ResolveClusterID(input)
           alone == Matching(input) \cap HasEvidence
<1>1. /\ now \in Nat /\ known \subseteq Clusters /\ ListedIsKnown
      /\ query[c] \in Queries /\ GoodQuery(query[c])
  BY DEF HealthInv, DataInv
<1>2. input \in Inputs
  BY <1>1 DEF Queries
<1>3. ASSUME k # Unknown PROVE k \in Keys /\ Means(input, k, alone)
  BY <1>1, <1>2, <1>3, ResolvedIsKey, ResolvedIsMeant
<1>4. CASE k # Unknown /\ Hit(c, input, k)
  BY <1>2, <1>3, <1>4, HitKeeps DEF Resolve
<1>5. CASE k = Unknown /\ query' = [query EXCEPT ![c] = NoQuery] /\ UNCHANGED answer
  BY <1>1, <1>5, Idle, PlaceKeeps DEF Resolve, HealthInv, loops
<1>6. CASE /\ k # Unknown /\ UNCHANGED answer
           /\ query' = [query EXCEPT ![c] = [@ EXCEPT !.pc = "read", !.key = k, !.alone = alone]]
  <2> DEFINE q == [query[c] EXCEPT !.pc = "read", !.key = k, !.alone = alone]
  <2>1. q \in Queries
    <3>1. alone \in SUBSET Clusters
      BY <1>1 DEF Matching
    <3>2. QED
      BY <1>1, <1>3, <1>6, <3>1 DEF Queries
  <2>2. q.input = input /\ q.key = k /\ q.alone = alone /\ q.report = query[c].report
    BY <1>1 DEF Queries
  <2>3. GoodQuery(q)
    BY <1>1, <1>3, <1>6, <2>1, <2>2 DEF GoodQuery
  <2>4. QED
    BY <1>6, <2>3, PlaceKeeps DEF Resolve, HealthInv, loops
<1>7. QED
  BY <1>4, <1>5, <1>6 DEF Resolve

LEMMA ReadKeeps ==
  ASSUME HealthInv, NEW c \in Clients, Read(c)
  PROVE  HealthInv'
<1> DEFINE r == ResourceHealth(query[c].key)
           q == [query[c] EXCEPT !.pc = "keep", !.report = r]
<1>1. r \in Reports /\ IsTrue(r)
  BY ReportIsTrue DEF HealthInv
<1>2. query[c] \in Queries /\ GoodQuery(query[c]) /\ query[c].pc = "read"
  BY DEF HealthInv, Read
<1>3. /\ q \in Queries /\ q.report = r
      /\ q.input = query[c].input /\ q.key = query[c].key /\ q.alone = query[c].alone
  BY <1>1, <1>2 DEF Queries
<1>4. GoodQuery(q)
  BY <1>1, <1>2, <1>3 DEF GoodQuery
<1>5. query' = [query EXCEPT ![c] = q]
  BY DEF Read, HealthInv
<1>6. QED
  BY <1>4, <1>5, PlaceKeeps DEF Read, HealthInv, loops

LEMMA KeepKeeps ==
  ASSUME HealthInv, NEW c \in Clients, Keep(c)
  PROVE  HealthInv'
<1> DEFINE q    == query[c]
           took == now - q.report.read
           e    == [report |-> q.report, expires |-> now + TTL, took |-> took]
           a    == [input |-> q.input, key |-> q.key, alone |-> q.alone,
                    report |-> q.report, at |-> now, took |-> took]
           next == [q EXCEPT !.pc = IF held = 0 THEN "create" ELSE "ensure"]
<1>1. q \in Queries /\ GoodQuery(q) /\ q.pc = "keep" /\ now \in Nat /\ TTL \in Nat
  BY HealthAssumption DEF HealthInv, DataInv, Keep
<1>2. /\ q.input \in Inputs /\ q.key \in Keys /\ q.alone \in SUBSET Clusters
      /\ q.report \in Reports /\ q.report.read \in Nat /\ IsTrue(q.report)
      /\ Means(q.input, q.key, q.alone)
  BY <1>1 DEF GoodQuery, Queries, Reports
<1>3. GoodEntry(e)
  <2>1. e \in Entries
    BY <1>1, <1>2 DEF Entries
  <2>2. now + TTL <= q.report.read + TTL + took
    BY <1>1, <1>2
  <2>3. QED
    BY <1>2, <2>1, <2>2 DEF GoodEntry
<1>4. GoodAnswer(a)
  <2>1. a \in Answers
    BY <1>1, <1>2 DEF Answers
  <2>2. now - q.report.read <= TTL + took
    BY <1>1, <1>2
  <2>3. QED
    BY <1>2, <2>1, <2>2 DEF GoodAnswer
<1>5. GoodQuery(next)
  <2>1. /\ next \in Queries /\ next.report = q.report /\ next.pc \in {"create", "ensure"}
    BY <1>1 DEF Queries
  <2>2. QED
    BY <1>2, <2>1 DEF GoodQuery
<1>6. /\ cache' = [cache EXCEPT ![q.key] = e]
      /\ answer' = [answer EXCEPT ![c] = a]
      /\ query' = [query EXCEPT ![c] = next]
  BY DEF Keep, Kept, Answered, HealthInv
<1>7. QED
  BY <1>2, <1>3, <1>4, <1>5, <1>6, PlaceKeeps DEF Keep, HealthInv, loops

LEMMA EnsureKeeps ==
  ASSUME HealthInv, NEW c \in Clients, Ensure(c)
  PROVE  HealthInv'
<1>1. now \in Nat
  BY DEF HealthInv, DataInv
<1>2. GoodQuery(NoQuery) /\ query' = [query EXCEPT ![c] = NoQuery] /\ UNCHANGED <<data, cache, answer>>
  BY <1>1, Idle DEF Ensure
<1>3. CASE UNCHANGED loops
  BY <1>2, <1>3, PlaceKeeps DEF HealthInv, loops
<1>4. ASSUME NEW l \in Loops, loop[l] = NoLoop, loop' = [loop EXCEPT ![l].pc = "idle"],
             held' = l, UNCHANGED told
      PROVE  HealthInv'
  <2> DEFINE s == [NoLoop EXCEPT !.pc = "idle"]
  <2>1. GoodLoop(s)
    <3>1. s \in LoopStates /\ s.pc = "idle" /\ s.report = NoReport /\ s.from = 0
      BY Typing DEF LoopStates, NoLoop
    <3>2. IsTrue(NoReport)
      BY <1>1 DEF IsTrue, NoReport
    <3>3. s.from <= now
      BY <1>1, <3>1
    <3>4. QED
      BY <3>1, <3>2, <3>3 DEF GoodLoop
  <2>2. loop' = [loop EXCEPT ![l] = s]
    BY <1>4
  <2>3. QED
    BY <1>2, <1>4, <2>1, <2>2, PlaceKeeps DEF HealthInv
<1>5. QED
  BY <1>3, <1>4 DEF Ensure

\* The steps of the refresh loop.
LEMMA RunKeeps ==
  ASSUME HealthInv, NEW l \in Loops, Run(l)
  PROVE  HealthInv'
<1> DEFINE s == loop[l]
<1>1. s \in LoopStates /\ GoodLoop(s) /\ now \in Nat /\ TTL \in Nat
  BY HealthAssumption DEF HealthInv, DataInv
<1>2. /\ s.todo \in SUBSET Keys /\ s.from \in Nat /\ s.key \in Keys
      /\ s.report \in Reports /\ s.report.read \in Nat
  BY <1>1 DEF LoopStates, Reports
<1>3. IsTrue(NoReport)
  BY <1>1 DEF IsTrue, NoReport
<1>4. ASSUME NEW next, GoodLoop(next), loop' = [loop EXCEPT ![l] = next],
             UNCHANGED <<data, query, answer, held, told>>,
             cache' = cache \/ \E k \in Keys : \E e : GoodEntry(e) /\ cache' = [cache EXCEPT ![k] = e]
      PROVE  HealthInv'
  BY <1>4, PlaceKeeps DEF HealthInv
<1>5. CASE Refresh(l)
  <2>1. PICK keys \in SUBSET Keys :
          loop' = [loop EXCEPT ![l] = [NoLoop EXCEPT !.pc = "pass", !.todo = keys, !.from = now]]
    BY <1>5 DEF Refresh
  <2> DEFINE next == [NoLoop EXCEPT !.pc = "pass", !.todo = keys, !.from = now]
  <2>2. next \in LoopStates /\ next.pc = "pass" /\ next.report = NoReport /\ next.from = now
    BY <1>1, Typing DEF LoopStates, NoLoop
  <2>3. next.from <= now
    BY <1>1, <2>2
  <2>4. GoodLoop(next)
    BY <1>3, <2>2, <2>3 DEF GoodLoop
  <2>5. QED
    BY <1>4, <1>5, <2>1, <2>4 DEF Refresh
<1>6. CASE RefreshRead(l)
  <2>1. PICK k \in s.todo :
          loop' = [loop EXCEPT ![l].pc = "keep", ![l].todo = @ \ {k}, ![l].key = k,
                               ![l].report = ResourceHealth(k)]
    BY <1>6 DEF RefreshRead
  <2> DEFINE r    == ResourceHealth(k)
             next == [s EXCEPT !.pc = "keep", !.todo = @ \ {k}, !.key = k, !.report = r]
  <2>2. r \in Reports /\ IsTrue(r) /\ r.read = now
    BY ReportIsTrue DEF HealthInv
  <2>3. next \in LoopStates /\ next.report = r /\ next.from = s.from
    BY <1>1, <1>2, <2>2 DEF LoopStates
  <2>4. GoodLoop(next)
    BY <1>1, <2>2, <2>3 DEF GoodLoop
  <2>5. loop' = [loop EXCEPT ![l] = next]
    BY <2>1 DEF HealthInv
  <2>6. QED
    BY <1>4, <1>6, <2>4, <2>5 DEF RefreshRead
<1>7. CASE RefreshKeep(l)
  <2> DEFINE next == [s EXCEPT !.pc = "pass", !.key = "", !.report = NoReport]
             e    == [report |-> s.report, expires |-> s.from + TTL, took |-> 0]
  <2>1. next \in LoopStates /\ next.pc = "pass" /\ next.report = NoReport /\ next.from = s.from
    BY <1>1, Typing DEF LoopStates, Keys
  <2>2. GoodLoop(next)
    BY <1>1, <1>3, <2>1 DEF GoodLoop
  <2>3. s.from <= s.report.read /\ IsTrue(s.report)
    BY <1>1, <1>7 DEF GoodLoop, RefreshKeep
  <2>4. e \in Entries
    BY <1>1, <1>2 DEF Entries
  <2>5. s.from + TTL <= s.report.read + TTL + 0
    BY <1>1, <1>2, <2>3
  <2>6. GoodEntry(e)
    BY <2>3, <2>4, <2>5 DEF GoodEntry
  <2>7. cache' = [cache EXCEPT ![s.key] = e] /\ loop' = [loop EXCEPT ![l] = next]
    BY <1>7 DEF RefreshKeep, Kept, CountsFrom, HealthInv
  <2>8. QED
    BY <1>2, <1>4, <1>7, <2>2, <2>6, <2>7 DEF RefreshKeep
<1>8. CASE RefreshDone(l)
  <2> DEFINE next == [NoLoop EXCEPT !.pc = "idle"]
  <2>1. next \in LoopStates /\ next.pc = "idle" /\ next.report = NoReport /\ next.from = 0
    BY Typing DEF LoopStates, NoLoop
  <2>2. next.from <= now
    BY <1>1, <2>1
  <2>3. GoodLoop(next)
    BY <1>3, <2>1, <2>2 DEF GoodLoop
  <2>4. QED
    BY <1>4, <1>8, <2>3 DEF RefreshDone
<1>9. CASE RefreshEnds(l)
  BY <1>1, <1>4, <1>9, Idle DEF RefreshEnds
<1>10. QED
  BY <1>5, <1>6, <1>7, <1>8, <1>9 DEF Run

\* mcp.Server.Close: the loop that is known is told to end.
LEMMA CloseKeeps ==
  ASSUME HealthInv, held' = 0, told' = told \cup ({held} \ {0}),
         UNCHANGED <<data, cache, query, answer, loop>>
  PROVE  HealthInv'
<1>1. held' \in Loops \cup {0} /\ told' \subseteq Loops
  BY DEF HealthInv
<1>2. QED
  BY <1>1, PlaceKeeps

--------------------------------------------------------------------------------
(* The process.                                                                  *)

PartStates == {"none", "starting", "serving", "draining", "closing", "refreshing", "running",
               "pruning", "leaving", "cancelling", "ended"}

ProcessTypeOK ==
  /\ selection \in Selections
  /\ main \in {"starting", "waiting", "returned"} /\ started \in 0 .. Len(selection.parts)
  /\ stopped \in BOOLEAN /\ asked \in BOOLEAN
  /\ part \in [Parts -> PartStates] /\ carried \in [Parts -> {"ok", "error"}]
  /\ errs \in Seq([of : Parts, late : BOOLEAN])

\* Only parts that were selected and started do anything.
OnlyStarted ==
  \A p \in Parts : part[p] # "none" => \E i \in 1 .. started : selection.parts[i] = p

\* The error of a part is met after the part has served, and is in errCh once the
\* goroutine of the part has reported.
ErrorsArrive ==
  \A p \in Parts : carried[p] # "ok" =>
    /\ part[p] \in {"closing", "refreshing", "running", "pruning", "leaving", "cancelling", "ended"}
    /\ part[p] \in {"cancelling", "ended"} => errs # <<>>

\* A part reports once; the first error came before the stop, which only an error,
\* a signal or the return of the command brings about.
CauseComesFirst ==
  /\ \A i \in 1 .. Len(errs) : part[errs[i].of] \in {"cancelling", "ended"}
  /\ \A i, j \in 1 .. Len(errs) : errs[i].of = errs[j].of => i = j
  /\ \A p \in Parts : part[p] = "cancelling" => errs # <<>>
  /\ stopped /\ ~asked /\ Alive => errs # <<>>
  /\ ~asked /\ errs # <<>> => ~errs[1].late

\* What a server goes through while it holds what it opened.
Up == {"serving", "draining", "closing", "refreshing", "running", "pruning"}

\* A store is open while its owner has not left, a loop runs while its store is
\* open, and a watch is at work while the collector serves.
OwnersHold ==
  /\ task \in [Tasks -> {"off", "idle", "pass"}]
  /\ open \subseteq {"agent", "watch"}
  /\ ctx \in [Contexts -> {"off", "running", "listing", "streaming", "done", "failed"}]
  /\ "agent" \in open => \E p \in Servers :
       /\ Hosts(p, "api")
       /\ part[p] \in Up
  /\ task["retention"] # "off" => "agent" \in open
  /\ "watch" \in open => part["watch"] \in {"serving", "closing"}
  /\ task["maintenance"] # "off" => "watch" \in open
  /\ \A x \in Contexts :
       ctx[x] \in {"running", "listing", "streaming"} => part["watch"] = "serving"

\* A server of MCP that is in one of these states, or leaves with an error.
MCPIn(states) == \E p \in Servers : Hosts(p, "mcp") /\ (part[p] \in states \/ carried[p] # "ok")

\* Calls outlast the wait of Shutdown only if that is reported, the loop that is
\* known until Close, and one that was told to end until Close has waited for it.
LoopsAreWaitedFor ==
  /\ Asking # {} => MCPIn({"serving", "draining"})
  /\ held # 0 => MCPIn({"serving", "draining", "closing"})
  /\ \A l \in told : loop[l] # NoLoop => MCPIn({"refreshing"})

\* When no two clients race, a loop is known or has been told to end.
LoopsAreKnown == ~Racing => \A l \in Loops : loop[l] # NoLoop => l = held \/ l \in told

\* What the command has returned.
ResultHolds ==
  /\ Alive => result = "none"
  /\ result \in Parts => errs # <<>> /\ result = errs[1].of
  /\ result = "ok" => /\ errs = <<>>
                      /\ \A p \in Parts : part[p] \in {"none", "ended"}

ProcessInv ==
  /\ ProcessTypeOK /\ OnlyStarted /\ ErrorsArrive /\ CauseComesFirst
  /\ OwnersHold /\ LoopsAreWaitedFor /\ LoopsAreKnown /\ ResultHolds

--------------------------------------------------------------------------------
(* The steps of the process, told apart by what they do to its parts.            *)

\* A step of what the parts own: requests, runs, background loops, watches, calls.
Quiet == UNCHANGED <<selection, process, part, carried>>

Ending == {"closing", "refreshing", "running", "pruning"}

\* A part goes on from one state to a later one, up to where it leaves.
Moves(p) ==
  /\ Alive /\ UNCHANGED <<selection, process>>
  /\ part[p] \in {"starting", "serving", "draining"} \cup Ending
  /\ \E to \in {"serving", "draining", "leaving"} \cup Ending, error \in {"ok", "error"} :
       /\ part' = [part EXCEPT ![p] = to]
       /\ part[p] \in Ending => to \in Ending \cup {"leaving"}
       /\ \/ carried' = carried
          \/ to \in {"closing", "leaving"} /\ carried' = [carried EXCEPT ![p] = error]

LEMMA StepsMove ==
  ASSUME NEW p \in Servers,
         ServerStep(p) \/ ListenFails(p)
  PROVE  Moves(p)
<1> USE DEF Moves, Goes, Ending
<1>1. CASE SetUp(p) \/ Drain(p) \/ RefreshStopped(p) \/ RetentionStopped(p)
  BY <1>1 DEF SetUp, Drain, RefreshStopped, RetentionStopped
<1>2. CASE Drained(p) \/ ListenFails(p)
  BY <1>2 DEF Drained, ListenFails
<1>3. CASE Close(p)
  <2>1. PICK to \in {"refreshing", "running"} : Goes(p, "closing", to)
    BY <1>3 DEF Close
  <2>2. QED
    BY <1>3, <2>1 DEF Close
<1>4. CASE RunsWaited(p)
  BY <1>4 DEF RunsWaited
<1>5. QED
  BY <1>1, <1>2, <1>3, <1>4 DEF ServerStep

LEMMA FailedSetUpMoves == ASSUME NEW p \in Parts, SetUpFails(p) PROVE Moves(p)
BY DEF SetUpFails, Moves, Goes, Ending

LEMMA WatchMoves == WatchStep => Moves("watch")
<1> USE DEF Moves, Goes, Ending
<1>1. WatchStarts => Moves("watch")
  BY DEF WatchStarts
<1>2. WatchOver => Moves("watch")
  BY DEF WatchOver
<1>3. MaintenanceStopped => Moves("watch")
  <2> DEFINE error == IF (\E x \in Contexts : ctx[x] = "failed") /\ (Cardinality(Watched) = 1 \/ ~stopped)
                      THEN "error" ELSE "ok"
  <2>1. error \in {"ok", "error"}
    OBVIOUS
  <2> HIDE DEF error
  <2>2. QED
    BY <2>1 DEF MaintenanceStopped, error
<1>4. QED
  BY <1>1, <1>2, <1>3 DEF WatchStep

LEMMA HealthIsQuiet == HealthStep => Quiet
BY Zenon DEF HealthStep, Only, Quiet

LEMMA ContextsAreQuiet ==
  ASSUME NEW x \in Contexts, ContextStep(x) \/ ContextEnds(x)
  PROVE  Quiet
BY DEF ContextStep, ContextEnds, Discover, ListsReturned, TakesSlot, StreamsEnd, ListSucceeds,
       ListFails, Lists, watchRest, Quiet

LEMMA StepKinds ==
  ASSUME [Next]_vars
  PROVE  \/ Start \/ Announce \/ Signal \/ ReturnError \/ ReturnNil
         \/ \E p \in Parts : Report(p) \/ CancelOthers(p) \/ Moves(p)
         \/ Quiet
<1>1. CASE UNCHANGED vars
  BY <1>1 DEF vars, Quiet
<1>2. CASE \E p \in Parts : Leave(p) \/ SetUpFails(p)
  BY <1>2, FailedSetUpMoves DEF Leave
<1>3. CASE \E p \in Servers : ServerStep(p) \/ ListenFails(p)
  BY <1>3, StepsMove DEF Servers
<1>4. CASE WatchStep
  BY <1>4, WatchMoves DEF Parts
<1>5. CASE \/ AgentRun \/ \E p \in Servers : Request(p)
           \/ \E t \in Tasks : Pass(t) \/ Rest(t)
  BY <1>5 DEF AgentRun, Request, Pass, Rest, Quiet
<1>6. CASE \E x \in Contexts : ContextStep(x) \/ ContextEnds(x)
  BY <1>6, ContextsAreQuiet
<1>7. CASE HealthStep \/ Returned
  BY <1>7, HealthIsQuiet DEF Returned, vars, Quiet
<1>8. QED
  BY <1>1, <1>2, <1>3, <1>4, <1>5, <1>6, <1>7 DEF Next

LEMMA CommandTyped ==
  ASSUME ProcessTypeOK, [Next]_vars
  PROVE  ProcessTypeOK'
<1> USE DEF ProcessTypeOK
<1>1. selection.parts \in Seq(Parts) /\ Len(selection.parts) \in Nat
  BY ServiceAssumption DEF Startable
<1>2. CASE Start
  <2>1. started + 1 \in 1 .. Len(selection.parts)
    BY <1>1, <1>2 DEF Start
  <2>2. selection.parts[started + 1] \in Parts /\ "starting" \in PartStates
    BY <1>1, <2>1 DEF PartStates
  <2>3. QED
    BY <1>1, <1>2, <2>1, <2>2 DEF Start, Goes
<1>3. CASE Announce \/ Signal \/ ReturnError \/ ReturnNil
  BY <1>3 DEF Announce, Signal, ReturnError, ReturnNil
<1>4. ASSUME NEW p \in Parts, Report(p) \/ CancelOthers(p) PROVE ProcessTypeOK'
  <2>1. errs' = errs \/ errs' = Append(errs, [of |-> p, late |-> stopped])
    BY <1>4 DEF Report, CancelOthers
  <2>2. errs' \in Seq([of : Parts, late : BOOLEAN])
    <3> DEFINE E == [of : Parts, late : BOOLEAN]
               e == [of |-> p, late |-> stopped]
    <3>1. e \in E /\ errs \in Seq(E)
      OBVIOUS
    <3> HIDE DEF E, e
    <3>2. errs' = errs \/ errs' = Append(errs, e)
      BY <2>1 DEF e
    <3>3. errs' \in Seq(E)
      BY <3>1, <3>2
    <3>4. QED
      BY <3>3 DEF E
  <2>3. part' \in [Parts -> PartStates]
    BY <1>4 DEF Report, CancelOthers, Goes, PartStates
  <2>4. QED
    BY <1>4, <2>2, <2>3 DEF Report, CancelOthers
<1>5. ASSUME NEW p \in Parts, Moves(p) PROVE ProcessTypeOK'
  <2>1. part' \in [Parts -> PartStates] /\ carried' \in [Parts -> {"ok", "error"}]
    BY <1>5 DEF Moves, Ending, PartStates
  <2>2. QED
    BY <1>5, <2>1 DEF Moves, process
<1>6. CASE Quiet
  BY <1>6 DEF Quiet, process
<1>7. QED
  BY <1>2, <1>3, <1>4, <1>5, <1>6, StepKinds

LEMMA StartedStays ==
  ASSUME ProcessTypeOK, OnlyStarted, [Next]_vars
  PROVE  OnlyStarted'
<1> USE DEF ProcessTypeOK
<1>1. CASE Start
  <2>1. started' = started + 1 /\ started \in Nat /\ selection' = selection
    BY <1>1 DEF Start
  <2>2. started \in 0 .. started' /\ started' \in 1 .. started'
    BY <2>1
  <2>3. \A p \in Parts : part'[p] # part[p] => p = selection.parts[started']
    BY <1>1, <2>1 DEF Start, Goes
  <2>4. QED
    BY <2>1, <2>2, <2>3 DEF OnlyStarted
<1>2. CASE Announce \/ Signal \/ ReturnError \/ ReturnNil
  BY <1>2 DEF OnlyStarted, Announce, Signal, ReturnError, ReturnNil
<1>3. ASSUME NEW p \in Parts, Report(p) \/ CancelOthers(p) \/ Moves(p) PROVE OnlyStarted'
  <2>1. UNCHANGED <<selection, started>> /\ part[p] # "none" /\ \A q \in Parts \ {p} : part'[q] = part[q]
    BY <1>3 DEF Report, CancelOthers, Goes, Moves, Ending, process
  <2>2. \A q \in Parts : part'[q] # "none" => part[q] # "none"
    BY <2>1
  <2>3. QED
    BY <2>1, <2>2, Zenon DEF OnlyStarted
<1>4. CASE Quiet
  BY <1>4 DEF OnlyStarted, Quiet, process
<1>5. QED
  BY <1>1, <1>2, <1>3, <1>4, StepKinds

LEMMA ErrorsStay ==
  ASSUME ProcessTypeOK, ErrorsArrive, [Next]_vars
  PROVE  ErrorsArrive'
<1> USE DEF ProcessTypeOK, ErrorsArrive
<1>1. CASE Start
  BY <1>1 DEF Start, Goes
<1>2. CASE Announce \/ Signal \/ ReturnError \/ ReturnNil
  BY <1>2 DEF Announce, Signal, ReturnError, ReturnNil
<1>3. ASSUME NEW p \in Parts, Report(p) PROVE ErrorsArrive'
  <2>1. CASE carried[p] = "ok"
    BY <1>3, <2>1 DEF Report, Goes
  <2>2. CASE carried[p] # "ok"
    <3>1. errs' # <<>> /\ part' = [part EXCEPT ![p] = "cancelling"] /\ carried' = carried
      BY <1>3, <2>2 DEF Report, Goes
    <3>2. QED
      BY <2>2, <3>1
  <2>3. QED
    BY <2>1, <2>2
<1>4. ASSUME NEW p \in Parts, CancelOthers(p) PROVE ErrorsArrive'
  BY <1>4 DEF CancelOthers, Goes
<1>5. ASSUME NEW p \in Parts, Moves(p) PROVE ErrorsArrive'
  BY <1>5 DEF Moves, Ending, process
<1>6. CASE Quiet
  BY <1>6 DEF Quiet, process
<1>7. QED
  BY <1>1, <1>2, <1>3, <1>4, <1>5, <1>6, StepKinds

LEMMA ErrsTyped ==
  ASSUME ProcessTypeOK
  PROVE  /\ \A i \in 1 .. Len(errs) : errs[i].of \in Parts
         /\ errs # <<>> => 1 \in 1 .. Len(errs)
<1> DEFINE E == [of : Parts, late : BOOLEAN]
<1>1. \A e \in E : e.of \in Parts
  OBVIOUS
<1> HIDE DEF E
<1>2. errs \in Seq(E)
  BY DEF ProcessTypeOK, E
<1>3. QED
  BY <1>1, <1>2

LEMMA CauseStays ==
  ASSUME ProcessTypeOK, CauseComesFirst, [Next]_vars
  PROVE  CauseComesFirst'
<1> USE DEF ProcessTypeOK, CauseComesFirst
<1>1. \A i \in 1 .. Len(errs) : errs[i].of \in Parts
  BY ErrsTyped
<1>2. CASE Start
  BY <1>1, <1>2 DEF Start, Goes, Alive
<1>3. CASE Announce \/ Signal \/ ReturnError \/ ReturnNil
  BY <1>3 DEF Announce, Signal, ReturnError, ReturnNil, Alive
<1>4. ASSUME NEW p \in Parts, Report(p) PROVE CauseComesFirst'
  <2>1. CASE carried[p] = "ok"
    BY <1>1, <1>4, <2>1 DEF Report, Goes, Alive
  <2>2. CASE carried[p] # "ok"
    <3> DEFINE e == [of |-> p, late |-> stopped]
    <3>1. /\ errs' = Append(errs, e) /\ part[p] = "leaving"
          /\ part' = [part EXCEPT ![p] = "cancelling"]
          /\ UNCHANGED <<stopped, asked, main>> /\ Alive
      BY <1>4, <2>2 DEF Report, Goes
    <3>2. /\ Len(errs') = Len(errs) + 1 /\ Len(errs) \in Nat /\ errs'[Len(errs) + 1] = e
          /\ \A i \in 1 .. Len(errs) : errs'[i] = errs[i]
      BY <3>1
    <3>3. \A i \in 1 .. Len(errs') : i \in 1 .. Len(errs) \/ i = Len(errs) + 1
      BY <3>2
    <3>4. \A i \in 1 .. Len(errs) : errs[i].of # p
      BY <3>1
    <3>5. \A i \in 1 .. Len(errs') : part'[errs'[i].of] \in {"cancelling", "ended"}
      BY <1>1, <3>1, <3>2, <3>3, <3>4
    <3>6. \A i, j \in 1 .. Len(errs') : errs'[i].of = errs'[j].of => i = j
      BY <3>2, <3>3, <3>4
    <3>7. errs' # <<>>
      BY <3>1
    <3>8. ~asked => ~errs'[1].late
      <4>1. CASE errs = <<>>
        BY <3>1, <3>2, <4>1 DEF Alive
      <4>2. CASE errs # <<>>
        <5>1. 1 \in 1 .. Len(errs)
          BY <4>2
        <5>2. QED
          BY <3>2, <4>2, <5>1
      <4>3. QED
        BY <4>1, <4>2
    <3>9. QED
      BY <3>1, <3>5, <3>6, <3>7, <3>8
  <2>3. QED
    BY <2>1, <2>2
<1>5. ASSUME NEW p \in Parts, CancelOthers(p) PROVE CauseComesFirst'
  BY <1>1, <1>5 DEF CancelOthers, Goes, Alive
<1>6. ASSUME NEW p \in Parts, Moves(p) PROVE CauseComesFirst'
  <2>1. /\ UNCHANGED <<errs, stopped, asked, main>>
        /\ part[p] \notin {"cancelling", "ended"} /\ part'[p] # "cancelling"
        /\ \A q \in Parts \ {p} : part'[q] = part[q]
    BY <1>6 DEF Moves, Ending, process
  <2>2. QED
    BY <1>1, <2>1 DEF Alive
<1>7. CASE Quiet
  BY <1>7 DEF Quiet, process, Alive
<1>8. QED
  BY <1>2, <1>3, <1>4, <1>5, <1>6, <1>7, StepKinds

LEMMA ResultStays ==
  ASSUME ProcessTypeOK, OnlyStarted, ResultHolds, [Next]_vars
  PROVE  ResultHolds'
<1> USE DEF ProcessTypeOK, ResultHolds, Alive
<1>1. "none" \notin Parts /\ "stdout" \notin Parts /\ "ok" \notin Parts
  BY DEF Parts
<1>2. CASE Start
  BY <1>1, <1>2 DEF Start
<1>3. CASE Announce \/ Signal
  BY <1>1, <1>3 DEF Announce, Signal
<1>4. CASE ReturnError
  <2>1. errs # <<>> /\ result' = errs[1].of /\ main' = "returned" /\ UNCHANGED <<errs, part>>
    BY <1>4 DEF ReturnError, FirstError
  <2>2. errs[1].of \in Parts
    BY <2>1, ErrsTyped
  <2>3. QED
    BY <1>1, <2>1, <2>2
<1>5. CASE ReturnNil
  <2>1. \A p \in Parts : part[p] \in {"none", "ended"}
    BY <1>5 DEF ReturnNil, AllDone, OnlyStarted
  <2>2. QED
    BY <1>1, <1>5, <2>1 DEF ReturnNil
<1>6. ASSUME NEW p \in Parts, Report(p) \/ CancelOthers(p) \/ Moves(p) PROVE ResultHolds'
  <2>1. UNCHANGED <<main, result>> /\ Alive
    BY <1>6 DEF Report, CancelOthers, Moves, Goes, process
  <2>2. QED
    BY <1>1, <2>1
<1>7. CASE Quiet
  BY <1>7 DEF Quiet, process
<1>8. QED
  BY <1>2, <1>3, <1>4, <1>5, <1>6, <1>7, StepKinds

\* A step of the parts that leaves alone what they own.
LEMMA OwnedStays ==
  ASSUME OwnersHold, UNCHANGED <<task, open, ctx>>,
         part["watch"] \in {"serving", "closing"} => part'["watch"] = part["watch"],
         \A p \in Servers : Hosts(p, "api") /\ "agent" \in open /\ part[p] \in Up => part'[p] \in Up
  PROVE  OwnersHold'
<1>1. "agent" \in open' => \E p \in Servers : Hosts(p, "api") /\ part'[p] \in Up
  BY DEF OwnersHold
<1>2. /\ "watch" \in open' => part'["watch"] \in {"serving", "closing"}
      /\ \A x \in Contexts :
           ctx'[x] \in {"running", "listing", "streaming"} => part'["watch"] = "serving"
  BY DEF OwnersHold
<1>3. QED
  BY <1>1, <1>2 DEF OwnersHold

LEMMA ServersOwn ==
  ASSUME ProcessTypeOK, OwnersHold, NEW p \in Servers, ServerStep(p) \/ ListenFails(p)
  PROVE  OwnersHold'
<1> USE DEF Goes
<1>1. p \in Parts /\ p # "watch" /\ part \in [Parts -> PartStates] /\ "watch" \in Parts
  BY DEF ProcessTypeOK, Servers, Parts
<1>2. CASE SetUp(p)
  <2>1. part' = [part EXCEPT ![p] = "serving"] /\ ctx' = ctx /\ part[p] = "starting"
    BY <1>2 DEF SetUp, watches
  <2>2. CASE Hosts(p, "api")
    <3>1. open' = open \cup {"agent"} /\ task' = [task EXCEPT !["retention"] = "idle"]
      BY <1>2, <2>2 DEF SetUp
    <3>2. part'[p] \in Up
      BY <1>1, <2>1 DEF Up
    <3>3. part'["watch"] = part["watch"]
      BY <1>1, <2>1
    <3>4. task' \in [Tasks -> {"off", "idle", "pass"}] /\ task'["maintenance"] = task["maintenance"]
      BY <3>1 DEF OwnersHold, Tasks
    <3>5. QED
      BY <2>1, <2>2, <3>1, <3>2, <3>3, <3>4 DEF OwnersHold
  <2>3. CASE ~Hosts(p, "api")
    <3>1. UNCHANGED <<open, task>>
      BY <1>2, <2>3 DEF SetUp
    <3>2. QED
      BY <1>1, <2>1, <2>3, <3>1, OwnedStays
  <2>4. QED
    BY <2>2, <2>3
<1>3. CASE Drain(p) \/ Drained(p) \/ ListenFails(p) \/ RefreshStopped(p)
  <2>1. UNCHANGED <<task, open, ctx>>
    BY <1>3 DEF Drain, Drained, ListenFails, RefreshStopped, owned, watches
  <2>2. \E to \in Up : part' = [part EXCEPT ![p] = to]
    BY <1>3 DEF Drain, Drained, ListenFails, RefreshStopped, Up
  <2>3. QED
    BY <1>1, <2>1, <2>2, OwnedStays
<1>4. CASE Close(p)
  <2>1. UNCHANGED <<task, open, ctx>>
    BY <1>4 DEF Close, owned, watches
  <2>2. \E to \in Up : part' = [part EXCEPT ![p] = to]
    BY <1>4 DEF Close, Up
  <2>3. QED
    BY <1>1, <2>1, <2>2, OwnedStays
<1>5. CASE RunsWaited(p)
  <2>1. UNCHANGED <<task, open, ctx>>
    BY <1>5 DEF RunsWaited, watches
  <2>2. CASE Hosts(p, "api") /\ "agent" \in open
    <3>1. part' = [part EXCEPT ![p] = "pruning"] /\ "pruning" \in Up
      BY <1>5, <2>2 DEF RunsWaited, Up
    <3>2. QED
      BY <1>1, <2>1, <3>1, OwnedStays
  <2>3. CASE ~(Hosts(p, "api") /\ "agent" \in open)
    <3>1. part' = [part EXCEPT ![p] = "leaving"]
      BY <1>5, <2>3 DEF RunsWaited
    <3>2. QED
      BY <1>1, <2>1, <2>3, <3>1, OwnedStays
  <2>4. QED
    BY <2>2, <2>3
<1>6. CASE RetentionStopped(p)
  <2>1. /\ part' = [part EXCEPT ![p] = "leaving"] /\ open' = open \ {"agent"}
        /\ task["retention"] = "off" /\ UNCHANGED <<task, ctx>>
    BY <1>6 DEF RetentionStopped, watches
  <2>2. part'["watch"] = part["watch"]
    BY <1>1, <2>1
  <2>3. QED
    BY <2>1, <2>2 DEF OwnersHold
<1>7. QED
  BY <1>2, <1>3, <1>4, <1>5, <1>6 DEF ServerStep

LEMMA WatchOwns ==
  ASSUME ProcessTypeOK, OwnersHold, WatchStep
  PROVE  OwnersHold'
<1> USE DEF Goes
<1>1. "watch" \notin Servers /\ part \in [Parts -> PartStates] /\ "watch" \in Parts
  BY DEF ProcessTypeOK, Servers, Parts
<1>2. \E to : part' = [part EXCEPT !["watch"] = to]
  BY DEF WatchStep, WatchStarts, WatchOver, MaintenanceStopped
<1>3. \A p \in Servers : part'[p] = part[p]
  BY <1>1, <1>2
<1>4. CASE WatchStarts
  <2>1. /\ part'["watch"] = "serving" /\ open' = open \cup {"watch"}
        /\ task' = [task EXCEPT !["maintenance"] = "idle"]
        /\ ctx' = [x \in Contexts |-> IF x \in Watched THEN "running" ELSE "off"]
    BY <1>1, <1>4 DEF WatchStarts
  <2>2. task' \in [Tasks -> {"off", "idle", "pass"}] /\ task'["retention"] = task["retention"]
    BY <2>1 DEF OwnersHold, Tasks
  <2>3. "agent" \in open' => \E p \in Servers : Hosts(p, "api") /\ part'[p] \in Up
    BY <1>3, <2>1 DEF OwnersHold
  <2>4. ctx' \in [Contexts -> {"off", "running", "listing", "streaming", "done", "failed"}]
    BY <2>1
  <2>5. QED
    BY <2>1, <2>2, <2>3, <2>4 DEF OwnersHold
<1>5. CASE WatchOver
  <2>1. /\ part'["watch"] = "closing" /\ open' = open /\ UNCHANGED <<task, ctx>> /\ WatchesEnded
    BY <1>1, <1>5 DEF WatchOver, watches, ClosedFirst
  <2>2. \A x \in Contexts : ctx[x] \notin {"running", "listing", "streaming"}
    BY <2>1 DEF WatchesEnded
  <2>3. "agent" \in open' => \E p \in Servers : Hosts(p, "api") /\ part'[p] \in Up
    BY <1>3, <2>1 DEF OwnersHold
  <2>4. QED
    BY <2>1, <2>2, <2>3 DEF OwnersHold
<1>6. CASE MaintenanceStopped
  <2>1. /\ part["watch"] = "closing" /\ open' = open \ {"watch"}
        /\ task["maintenance"] = "off" /\ UNCHANGED <<task, ctx>>
    BY <1>6 DEF MaintenanceStopped, watches
  <2>2. "agent" \in open' => \E p \in Servers : Hosts(p, "api") /\ part'[p] \in Up
    BY <1>3, <2>1 DEF OwnersHold
  <2>3. QED
    BY <2>1, <2>2 DEF OwnersHold
<1>7. QED
  BY <1>4, <1>5, <1>6 DEF WatchStep

LEMMA OwnersStay ==
  ASSUME ProcessTypeOK, OwnersHold, [Next]_vars
  PROVE  OwnersHold'
<1> USE DEF Goes
<1>1. part \in [Parts -> PartStates] /\ "watch" \in Parts /\ Servers \subseteq Parts
  BY DEF ProcessTypeOK, Servers, Parts
<1>2. CASE UNCHANGED <<part, task, open, ctx>>
  BY <1>2, OwnedStays
<1>3. CASE Announce \/ Signal \/ ReturnError \/ ReturnNil \/ HealthStep \/ Returned \/ UNCHANGED vars
  <2>1. UNCHANGED <<part, owned>>
    BY <1>3, Zenon DEF Announce, Signal, ReturnError, ReturnNil, HealthStep, Only, Returned, vars
  <2>2. QED
    BY <1>2, <2>1 DEF owned, watches
<1>4. CASE AgentRun \/ \E p \in Servers : Request(p)
  BY <1>2, <1>4 DEF AgentRun, Request, watches
<1>5. CASE Start
  <2>1. /\ UNCHANGED <<task, open, ctx>>
        /\ \A p \in Parts : part[p] # "none" => part'[p] = part[p]
    BY <1>1, <1>5 DEF Start, owned, watches
  <2>2. \A p \in Parts : part[p] \in Up => part[p] # "none"
    BY DEF Up
  <2>3. QED
    BY <1>1, <2>1, <2>2, OwnedStays
<1>6. ASSUME NEW p \in Parts, Leave(p) \/ SetUpFails(p) PROVE OwnersHold'
  <2>1. /\ UNCHANGED <<task, open, ctx>> /\ part[p] \in {"starting", "leaving", "cancelling"}
        /\ \A q \in Parts \ {p} : part'[q] = part[q]
    BY <1>1, <1>6 DEF Leave, Report, CancelOthers, SetUpFails, owned, watches
  <2>2. part[p] \notin Up
    BY <2>1 DEF Up
  <2>3. QED
    BY <1>1, <2>1, <2>2, OwnedStays
<1>7. ASSUME NEW t \in Tasks, Pass(t) \/ Rest(t) PROVE OwnersHold'
  <2>1. /\ UNCHANGED <<part, open, ctx>> /\ task[t] # "off"
        /\ \E to \in {"off", "idle", "pass"} : task' = [task EXCEPT ![t] = to]
    BY <1>7 DEF Pass, Rest, watches
  <2>2. task' \in [Tasks -> {"off", "idle", "pass"}] /\ \A u \in Tasks : task'[u] # "off" => task[u] # "off"
    BY <2>1 DEF OwnersHold
  <2>3. QED
    BY <2>1, <2>2 DEF OwnersHold, Tasks
<1>8. ASSUME NEW x \in Contexts, ContextStep(x) \/ ContextEnds(x) PROVE OwnersHold'
  <2>1. UNCHANGED <<part, task, open>>
    BY <1>8 DEF ContextStep, ContextEnds, Discover, ListsReturned, TakesSlot, StreamsEnd,
         ListSucceeds, ListFails, Lists, watchRest
  <2>2. \/ UNCHANGED ctx
        \/ /\ ctx[x] \in {"running", "listing", "streaming"}
           /\ \E to \in {"listing", "streaming", "done", "failed"} : ctx' = [ctx EXCEPT ![x] = to]
    BY <1>8 DEF ContextStep, ContextEnds, Discover, ListsReturned, TakesSlot, StreamsEnd,
         ListSucceeds, ListFails, Lists
  <2>3. /\ ctx' \in [Contexts -> {"off", "running", "listing", "streaming", "done", "failed"}]
        /\ \A y \in Contexts : ctx'[y] \in {"running", "listing", "streaming"} =>
                                ctx[y] \in {"running", "listing", "streaming"}
    BY <2>2 DEF OwnersHold
  <2>4. QED
    BY <2>1, <2>3 DEF OwnersHold
<1>9. QED
  BY <1>3, <1>4, <1>5, <1>6, <1>7, <1>8, ServersOwn, WatchOwns DEF Next

\* What calls and refreshes do to the loops: only a call makes one.
LEMMA HealthMoves ==
  ASSUME HealthInv, HealthStep
  PROVE  /\ UNCHANGED <<part, carried, told>>
         /\ Asking' \subseteq Asking \/ MCPServes
         /\ held' # held => Asking # {} /\ (~Racing => held = 0)
         /\ \A l \in Loops :
              loop'[l] # NoLoop => loop[l] # NoLoop \/ (l \notin told /\ l = held')
<1> DEFINE Goal == /\ UNCHANGED told
                   /\ Asking' \subseteq Asking \/ MCPServes
                   /\ held' # held => Asking # {} /\ (~Racing => held = 0)
                   /\ \A l \in Loops :
                        loop'[l] # NoLoop => loop[l] # NoLoop \/ (l \notin told /\ l = held')
<1>1. UNCHANGED <<part, carried>>
  BY Zenon DEF HealthStep, Only
<1>2. query \in [Clients -> Queries] /\ loop \in [Loops -> LoopStates] /\ NoLoop.pc = "off"
  BY DEF HealthInv, NoLoop
<1>3. CASE MCPServes /\ (Collect \/ Tick)
  <2>1. UNCHANGED <<query, loop, held, told>>
    BY <1>3 DEF Collect, Register, Write, Tick, loops
  <2>2. Asking' = Asking
    BY <2>1 DEF Asking
  <2>3. QED
    BY <1>1, <2>1, <2>2
<1>4. ASSUME NEW c \in selection.clients, NEW i \in selection.inputs, MCPServes, Ask(c, i) PROVE Goal
  BY <1>4 DEF Ask, loops
<1>5. ASSUME NEW c \in Clients, Serve(c) PROVE Goal
  <2>1. query[c].pc # "idle" /\ \A d \in Clients \ {c} : query'[d] = query[d]
    BY <1>2, <1>5 DEF Serve, Resolve, Read, Keep, Ensure, Hit
  <2>2. c \in Asking /\ Asking' \subseteq Asking
    BY <2>1 DEF Asking
  <2>3. CASE Resolve(c) \/ Read(c) \/ Keep(c)
    BY <2>2, <2>3 DEF Resolve, Read, Keep, loops
  <2>4. CASE Ensure(c)
    <3>1. CASE UNCHANGED loops
      BY <2>2, <3>1 DEF loops
    <3>2. ASSUME NEW l \in Loops, l \notin told, loop' = [loop EXCEPT ![l].pc = "idle"], held' = l,
                 UNCHANGED told, held = 0 \/ Racing
          PROVE  Goal
      <4>1. \A m \in Loops \ {l} : loop'[m] = loop[m]
        BY <1>2, <3>2
      <4>2. QED
        BY <2>2, <3>2, <4>1
    <3>3. QED
      BY <2>4, <3>1, <3>2 DEF Ensure
  <2>5. QED
    BY <1>5, <2>3, <2>4 DEF Serve
<1>6. ASSUME NEW l \in Loops, Run(l) PROVE Goal
  <2>1. /\ loop[l].pc # "off" /\ UNCHANGED <<query, held, told>>
        /\ \A m \in Loops \ {l} : loop'[m] = loop[m]
    BY <1>2, <1>6 DEF Run, Refresh, RefreshRead, RefreshKeep, RefreshDone, RefreshEnds
  <2>2. loop[l] # NoLoop
    BY <1>2, <2>1
  <2>3. Asking' = Asking
    BY <2>1 DEF Asking
  <2>4. QED
    BY <2>1, <2>2, <2>3
<1>7. Goal
  BY <1>3, <1>4, <1>5, <1>6 DEF HealthStep, Only
<1>8. QED
  BY <1>1, <1>7

\* A step of the parts that leaves the loops alone, and a server of MCP where it is.
LEMMA WaitStays ==
  ASSUME LoopsAreWaitedFor, UNCHANGED <<query, loop, held, told>>,
         \A p \in Servers : Hosts(p, "mcp") =>
           /\ carried[p] # "ok" => carried'[p] # "ok"
           /\ part[p] \in {"serving", "draining"} =>
                part'[p] \in {"serving", "draining"} \/ carried'[p] # "ok"
           /\ part[p] \in {"closing", "refreshing"} => part'[p] = part[p]
  PROVE  LoopsAreWaitedFor'
<1>1. Asking' = Asking
  BY DEF Asking
<1>2. /\ MCPIn({"serving", "draining"}) => MCPIn({"serving", "draining"})'
      /\ MCPIn({"serving", "draining", "closing"}) => MCPIn({"serving", "draining", "closing"})'
      /\ MCPIn({"refreshing"}) => MCPIn({"refreshing"})'
  BY DEF MCPIn
<1>3. QED
  BY <1>1, <1>2 DEF LoopsAreWaitedFor

LEMMA HealthWaits ==
  ASSUME HealthInv, LoopsAreWaitedFor, HealthStep
  PROVE  LoopsAreWaitedFor'
<1>1. \A S : MCPIn(S) => MCPIn(S)'
  BY HealthMoves DEF MCPIn
<1>2. MCPServes => MCPIn({"serving", "draining"})
  BY DEF MCPServes, MCPIn
<1>3. MCPIn({"serving", "draining"}) => MCPIn({"serving", "draining", "closing"})
  BY DEF MCPIn
<1>4. Asking' # {} => MCPIn({"serving", "draining"})'
  BY <1>1, <1>2, HealthMoves DEF LoopsAreWaitedFor
<1>5. held' # 0 => MCPIn({"serving", "draining", "closing"})'
  BY <1>1, <1>3, HealthMoves DEF LoopsAreWaitedFor
<1>6. \A l \in told' : loop'[l] # NoLoop => MCPIn({"refreshing"})'
  BY <1>1, HealthMoves DEF LoopsAreWaitedFor, HealthInv
<1>7. QED
  BY <1>4, <1>5, <1>6 DEF LoopsAreWaitedFor

LEMMA ServersWait ==
  ASSUME ProcessTypeOK, ErrorsArrive, LoopsAreWaitedFor, HealthInv, NEW p \in Servers,
         ServerStep(p) \/ ListenFails(p)
  PROVE  LoopsAreWaitedFor'
<1> USE DEF Goes
<1>1. /\ p \in Parts /\ part \in [Parts -> PartStates] /\ carried \in [Parts -> {"ok", "error"}]
      /\ Servers \subseteq Parts
  BY DEF ProcessTypeOK, Servers
<1>2. CASE SetUp(p) \/ Drain(p) \/ RunsWaited(p) \/ RetentionStopped(p) \/ ListenFails(p)
  <2>1. UNCHANGED <<query, loop, held, told>>
    BY <1>2 DEF SetUp, Drain, RunsWaited, RetentionStopped, ListenFails, health
  <2>2. /\ \A q \in Parts \ {p} : part'[q] = part[q] /\ carried'[q] = carried[q]
        /\ carried'[p] = carried[p] \/ carried'[p] = "error"
        /\ part[p] \in {"serving", "draining"} => part'[p] = "draining" \/ carried'[p] = "error"
        /\ part[p] \notin {"closing", "refreshing"}
    BY <1>1, <1>2 DEF SetUp, Drain, RunsWaited, RetentionStopped, ListenFails
  <2>3. QED
    BY <1>1, <2>1, <2>2, WaitStays
<1>3. CASE Drained(p)
  <2>1. /\ UNCHANGED <<query, loop, held, told>> /\ part[p] = "draining"
        /\ part' = [part EXCEPT ![p] = "closing"]
        /\ carried' = [carried EXCEPT ![p] = IF InFlight(p) THEN "error" ELSE "ok"]
    BY <1>3 DEF Drained, health
  <2>2. carried[p] = "ok"
    BY <1>1, <2>1 DEF ErrorsArrive
  <2>3. Asking' = Asking
    BY <2>1 DEF Asking
  <2>4. /\ \A q \in Parts \ {p} : part'[q] = part[q] /\ carried'[q] = carried[q]
        /\ part'[p] = "closing" /\ (Hosts(p, "mcp") /\ Asking # {} => carried'[p] # "ok")
    BY <1>1, <2>1 DEF InFlight
  <2>5. Asking' # {} => MCPIn({"serving", "draining"})'
    BY <1>1, <2>3, <2>4 DEF LoopsAreWaitedFor, MCPIn
  <2>6. held' # 0 => MCPIn({"serving", "draining", "closing"})'
    BY <1>1, <2>1, <2>2, <2>4 DEF LoopsAreWaitedFor, MCPIn
  <2>7. \A l \in told' : loop'[l] # NoLoop => MCPIn({"refreshing"})'
    BY <1>1, <2>1, <2>2, <2>4 DEF LoopsAreWaitedFor, MCPIn
  <2>8. QED
    BY <2>5, <2>6, <2>7 DEF LoopsAreWaitedFor
<1>4. CASE Close(p)
  <2>1. carried' = carried /\ part[p] = "closing" /\ \A q \in Parts \ {p} : part'[q] = part[q]
    BY <1>1, <1>4 DEF Close
  <2>2. CASE Hosts(p, "mcp")
    <3>1. /\ part'[p] = "refreshing" /\ held' = 0 /\ UNCHANGED <<query, loop>>
      BY <1>1, <1>4, <2>2 DEF Close
    <3>2. Asking' = Asking
      BY <3>1 DEF Asking
    <3>3. MCPIn({"refreshing"})'
      BY <2>2, <3>1 DEF MCPIn
    <3>4. MCPIn({"serving", "draining"}) => MCPIn({"serving", "draining"})'
      BY <1>1, <2>1 DEF MCPIn
    <3>5. QED
      BY <3>1, <3>2, <3>3, <3>4 DEF LoopsAreWaitedFor
  <2>3. CASE ~Hosts(p, "mcp")
    <3>1. UNCHANGED <<query, loop, held, told>>
      BY <1>4, <2>3 DEF Close, health
    <3>2. QED
      BY <1>1, <2>1, <2>3, <3>1, WaitStays
  <2>4. QED
    BY <2>2, <2>3
<1>5. CASE RefreshStopped(p)
  <2>1. /\ UNCHANGED <<query, loop, held, told, carried>> /\ part[p] = "refreshing"
        /\ \A l \in told : loop[l] = NoLoop
        /\ \A q \in Parts \ {p} : part'[q] = part[q]
    BY <1>1, <1>5 DEF RefreshStopped, health
  <2>2. Asking' = Asking
    BY <2>1 DEF Asking
  <2>3. /\ MCPIn({"serving", "draining"}) => MCPIn({"serving", "draining"})'
        /\ MCPIn({"serving", "draining", "closing"}) => MCPIn({"serving", "draining", "closing"})'
    BY <1>1, <2>1 DEF MCPIn
  <2>4. QED
    BY <2>1, <2>2, <2>3 DEF LoopsAreWaitedFor
<1>6. QED
  BY <1>2, <1>3, <1>4, <1>5 DEF ServerStep

LEMMA WaitingStays ==
  ASSUME ProcessTypeOK, ErrorsArrive, LoopsAreWaitedFor, HealthInv, [Next]_vars
  PROVE  LoopsAreWaitedFor'
<1> USE DEF Goes
<1>1. /\ part \in [Parts -> PartStates] /\ carried \in [Parts -> {"ok", "error"}]
      /\ Servers \subseteq Parts /\ "watch" \notin Servers
  BY DEF ProcessTypeOK, Servers
<1>2. CASE UNCHANGED <<part, carried, health>>
  BY <1>2, WaitStays DEF health
<1>3. CASE Announce \/ Signal \/ ReturnError \/ ReturnNil \/ Returned \/ UNCHANGED vars
  BY <1>2, <1>3 DEF Announce, Signal, ReturnError, ReturnNil, Returned, vars
<1>4. CASE \/ AgentRun \/ \E p \in Servers : Request(p)
           \/ \E t \in Tasks : Pass(t) \/ Rest(t)
  BY <1>2, <1>4 DEF AgentRun, Request, Pass, Rest
<1>5. CASE \E x \in Contexts : ContextStep(x) \/ ContextEnds(x)
  BY <1>2, <1>5 DEF ContextStep, ContextEnds, Discover, ListsReturned, TakesSlot, StreamsEnd,
       ListSucceeds, ListFails, Lists, watchRest
<1>6. CASE Start
  <2>1. /\ UNCHANGED <<carried, query, loop, held, told>>
        /\ \A p \in Parts : part[p] # "none" => part'[p] = part[p]
    BY <1>1, <1>6 DEF Start, health
  <2>2. QED
    BY <1>1, <2>1, WaitStays
<1>7. ASSUME NEW p \in Parts, Leave(p) \/ SetUpFails(p) PROVE LoopsAreWaitedFor'
  <2>1. /\ UNCHANGED <<query, loop, held, told>> /\ part[p] \in {"starting", "leaving", "cancelling"}
        /\ carried'[p] = carried[p] \/ carried'[p] = "error"
        /\ \A q \in Parts \ {p} : part'[q] = part[q] /\ carried'[q] = carried[q]
    BY <1>1, <1>7 DEF Leave, Report, CancelOthers, SetUpFails, health
  <2>2. QED
    BY <1>1, <2>1, WaitStays
<1>8. CASE WatchStep
  <2>1. /\ UNCHANGED <<query, loop, held, told>>
        /\ \A p \in Servers : part'[p] = part[p] /\ carried'[p] = carried[p]
    BY <1>1, <1>8 DEF WatchStep, WatchStarts, WatchOver, MaintenanceStopped, health
  <2>2. QED
    BY <2>1, WaitStays
<1>9. QED
  BY <1>3, <1>4, <1>5, <1>6, <1>7, <1>8, ServersWait, HealthWaits DEF Next

LEMMA KnownStays ==
  ASSUME LoopsAreKnown, HealthInv, [Next]_vars
  PROVE  LoopsAreKnown'
<1>1. CASE UNCHANGED health
  BY <1>1 DEF LoopsAreKnown, health
<1>2. CASE \/ Start \/ Announce \/ Signal \/ ReturnError \/ ReturnNil \/ Returned \/ UNCHANGED vars
           \/ AgentRun \/ \E t \in Tasks : Pass(t) \/ Rest(t)
  BY <1>1, <1>2 DEF Start, Announce, Signal, ReturnError, ReturnNil, Returned, vars, AgentRun, Pass, Rest
<1>3. CASE \E x \in Contexts : ContextStep(x) \/ ContextEnds(x)
  BY <1>1, <1>3 DEF ContextStep, ContextEnds, Discover, ListsReturned, TakesSlot, StreamsEnd,
       ListSucceeds, ListFails, Lists, watchRest
<1>4. CASE WatchStep \/ \E p \in Parts : Leave(p) \/ SetUpFails(p)
  BY <1>1, <1>4 DEF Leave, Report, CancelOthers, SetUpFails, WatchStep, WatchStarts, WatchOver,
       MaintenanceStopped
<1>5. ASSUME NEW p \in Servers, ServerStep(p) \/ ListenFails(p) \/ Request(p) PROVE LoopsAreKnown'
  <2>1. CASE Close(p) /\ Hosts(p, "mcp")
    BY <2>1 DEF Close, LoopsAreKnown, Loops
  <2>2. CASE ~(Close(p) /\ Hosts(p, "mcp"))
    BY <1>1, <1>5, <2>2 DEF ServerStep, SetUp, Drain, Drained, Close, RefreshStopped, RunsWaited,
         RetentionStopped, ListenFails, Request
  <2>3. QED
    BY <2>1, <2>2
<1>6. CASE HealthStep
  <2>1. \A l \in Loops : l # 0
    <3>1. MaxLoops \in Nat
      BY HealthAssumption
    <3>2. QED
      BY <3>1 DEF Loops
  <2>2. QED
    BY <1>6, <2>1, HealthMoves DEF LoopsAreKnown
<1>7. QED
  BY <1>2, <1>3, <1>4, <1>5, <1>6 DEF Next

\* The health cache in the service: only calls, refreshes and collectors touch it,
\* and Close.
LEMMA HealthStays ==
  ASSUME ProcessTypeOK, HealthInv, [Next]_vars
  PROVE  HealthInv'
<1>1. CASE UNCHANGED health
  BY <1>1, PlaceKeeps DEF health, data, HealthInv
<1>2. CASE \/ Start \/ Announce \/ Signal \/ ReturnError \/ ReturnNil \/ Returned \/ UNCHANGED vars
           \/ AgentRun \/ \E t \in Tasks : Pass(t) \/ Rest(t)
  BY <1>1, <1>2 DEF Start, Announce, Signal, ReturnError, ReturnNil, Returned, vars, AgentRun, Pass, Rest
<1>3. CASE \E x \in Contexts : ContextStep(x) \/ ContextEnds(x)
  BY <1>1, <1>3 DEF ContextStep, ContextEnds, Discover, ListsReturned, TakesSlot, StreamsEnd,
       ListSucceeds, ListFails, Lists, watchRest
<1>4. CASE WatchStep \/ \E p \in Parts : Leave(p) \/ SetUpFails(p)
  BY <1>1, <1>4 DEF Leave, Report, CancelOthers, SetUpFails, WatchStep, WatchStarts, WatchOver,
       MaintenanceStopped
<1>5. ASSUME NEW p \in Servers, ServerStep(p) \/ ListenFails(p) \/ Request(p) PROVE HealthInv'
  <2>1. CASE Close(p) /\ Hosts(p, "mcp")
    BY <2>1, CloseKeeps DEF Close
  <2>2. CASE ~(Close(p) /\ Hosts(p, "mcp"))
    BY <1>1, <1>5, <2>2 DEF ServerStep, SetUp, Drain, Drained, Close, RefreshStopped, RunsWaited,
         RetentionStopped, ListenFails, Request
  <2>3. QED
    BY <2>1, <2>2
<1>6. CASE HealthStep
  <2>1. selection.clients \subseteq Clients /\ selection.inputs \subseteq Inputs
    BY ServiceAssumption DEF ProcessTypeOK
  <2>2. QED
    BY <1>6, <2>1, CollectKeeps, TickKeeps, AskKeeps, ResolveKeeps, ReadKeeps, KeepKeeps, EnsureKeeps,
       RunKeeps DEF HealthStep, Only, Serve
<1>7. QED
  BY <1>2, <1>3, <1>4, <1>5, <1>6 DEF Next

--------------------------------------------------------------------------------
(* The theorems.                                                                 *)

LEMMA ProcessInitial == Init => ProcessInv
<1> SUFFICES ASSUME Init PROVE ProcessInv
  OBVIOUS
<1> USE DEF Init
<1>1. ProcessTypeOK
  <2>1. selection.parts \in Seq(Parts)
    BY ServiceAssumption DEF Startable
  <2>2. Len(selection.parts) \in Nat
    BY <2>1
  <2>3. part \in [Parts -> PartStates] /\ carried \in [Parts -> {"ok", "error"}]
    BY DEF PartStates
  <2>4. errs \in Seq([of : Parts, late : BOOLEAN])
    OBVIOUS
  <2>5. started \in 0 .. Len(selection.parts)
    BY <2>2
  <2>6. QED
    BY <2>3, <2>4, <2>5 DEF ProcessTypeOK
<1>2. OnlyStarted /\ ErrorsArrive /\ CauseComesFirst
  BY DEF OnlyStarted, ErrorsArrive, CauseComesFirst
<1>3. OwnersHold
  BY DEF OwnersHold, Tasks
<1>4. LoopsAreWaitedFor /\ LoopsAreKnown
  BY DEF LoopsAreWaitedFor, LoopsAreKnown, HealthInit, Asking, NoQuery
<1>5. ResultHolds
  BY DEF ResultHolds, Parts, Alive
<1>6. QED
  BY <1>1, <1>2, <1>3, <1>4, <1>5 DEF ProcessInv

\* The inductive invariant of the service.
ServiceInv == ProcessInv /\ HealthInv

LEMMA Inductive == Spec => []ServiceInv
<1>1. Init => ServiceInv
  BY ProcessInitial, HealthInitial DEF Init, ServiceInv
<1>2. ServiceInv /\ [Next]_vars => ServiceInv'
  BY CommandTyped, StartedStays, ErrorsStay, CauseStays, OwnersStay, WaitingStays, KnownStays,
     ResultStays, HealthStays DEF ServiceInv, ProcessInv
<1>3. QED
  BY <1>1, <1>2, PTL DEF Spec

\* Every variable has its type.
THEOREM TypesHold == Spec => [](ProcessTypeOK /\ OwnersHold)
<1>1. ServiceInv => ProcessTypeOK /\ OwnersHold
  BY DEF ServiceInv, ProcessInv
<1>2. QED
  BY <1>1, Inductive, PTL

\* What a client is told was read at most a TTL ago, and longer only by the time
\* its own query took (health_cache.go), however many clients ask, loops refresh
\* and clusters there are.
THEOREM AnswersStayFresh == Spec => []AnswersAreFresh
<1>1. ServiceInv => AnswersAreFresh
  BY DEF ServiceInv, HealthInv, GoodAnswer, AnswersAreFresh
<1>2. QED
  BY <1>1, Inductive, PTL

\* No client is answered with another cluster than the one with data that its
\* input matches (cluster_resolver.go), nor told that a report is complete in
\* which a stream had not been listed.
THEOREM AnswersKeepEvidence == Spec => []AnswersHaveEvidence
<1>1. ServiceInv => AnswersHaveEvidence
  BY DEF ServiceInv, HealthInv, GoodAnswer, Means, IsTrue, AnswersHaveEvidence
<1>2. QED
  BY <1>1, Inductive, PTL

\* The command exits with the error of the part that failed first, and that came
\* before anything was stopped (command_serve.go).
THEOREM CauseStaysReported == Spec => []CauseIsReported
<1>1. ServiceInv => CauseIsReported
  <2> SUFFICES ASSUME ProcessTypeOK, CauseComesFirst, ResultHolds, result \in Parts, ~asked,
                      NEW i \in DOMAIN errs, errs[i].of = result
               PROVE  ~errs[i].late
    BY DEF ServiceInv, ProcessInv, CauseIsReported
  <2>1. DOMAIN errs = 1 .. Len(errs)
    BY DEF ProcessTypeOK
  <2>2. errs # <<>> /\ errs[1].of = result /\ 1 \in 1 .. Len(errs)
    BY ErrsTyped DEF ResultHolds
  <2>3. i = 1
    BY <2>1, <2>2 DEF CauseComesFirst
  <2>4. QED
    BY <2>2, <2>3 DEF CauseComesFirst
<1>2. QED
  BY <1>1, Inductive, PTL

\* What the loops leave to the other half of StopsClean: a command that returns
\* without an error has closed its stores and ended its loops and watches, and the
\* refresh loops that the server knew of; and no background pass meets a store that
\* is closed.  Here two clients may race to make the refresh loop.
StoresClose ==
  /\ result = "ok" =>
       /\ open = {} /\ \A t \in Tasks : task[t] = "off"
       /\ held = 0 /\ \A l \in told : loop[l] = NoLoop
       /\ WatchesEnded
  /\ task["maintenance"] = "pass" => "watch" \in open
  /\ task["retention"] = "pass" => "agent" \in open

THEOREM StoresStayClosed == Spec => []StoresClose
<1>1. ServiceInv => StoresClose
  <2> SUFFICES ASSUME ServiceInv PROVE StoresClose
    OBVIOUS
  <2>1. ProcessTypeOK /\ ErrorsArrive /\ OwnersHold /\ LoopsAreWaitedFor /\ ResultHolds
    BY DEF ServiceInv, ProcessInv
  <2>2. ASSUME result = "ok"
        PROVE  /\ open = {} /\ \A t \in Tasks : task[t] = "off"
               /\ held = 0 /\ \A l \in told : loop[l] = NoLoop
               /\ WatchesEnded
    <3>1. \A p \in Parts : part[p] \in {"none", "ended"} /\ carried[p] = "ok"
      BY <2>1, <2>2 DEF ResultHolds, ErrorsArrive
    <3>2. Servers \subseteq Parts /\ "watch" \in Parts
      BY DEF Servers, Parts
    <3>3. open = {} /\ \A t \in Tasks : task[t] = "off"
      BY <2>1, <3>1, <3>2 DEF OwnersHold, Up, Tasks
    <3>4. held = 0 /\ \A l \in told : loop[l] = NoLoop
      BY <2>1, <3>1, <3>2 DEF LoopsAreWaitedFor, MCPIn
    <3>5. WatchesEnded
      BY <2>1, <3>1, <3>2 DEF OwnersHold, WatchesEnded
    <3>6. QED
      BY <3>3, <3>4, <3>5
  <2>3. /\ task["maintenance"] = "pass" => "watch" \in open
        /\ task["retention"] = "pass" => "agent" \in open
    BY <2>1 DEF OwnersHold
  <2>4. QED
    BY <2>2, <2>3 DEF StoresClose
<1>2. QED
  BY <1>1, Inductive, PTL

\* The whole of StopsClean, unless two clients race past the check of
\* s.healthRefresh: then a loop is made that nobody can stop (health_cache.go:126).
THEOREM StopStaysClean == ASSUME ~Racing PROVE Spec => []StopsClean
<1>1. ServiceInv /\ StoresClose => StopsClean
  BY DEF ServiceInv, ProcessInv, HealthInv, StoresClose, StopsClean, LoopsAreKnown, Loops
<1>2. QED
  BY <1>1, Inductive, StoresStayClosed, PTL

================================================================================
