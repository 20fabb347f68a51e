---------------------------- MODULE HealthCache ----------------------------
(* Collector coverage as the MCP server reports it: the offsets collectors     *)
(* write (internal/storage/sqlite/offsets.go, the same in clickhouse/state.go),*)
(* the health report made of them, the name of a cluster as a client gives it  *)
(* (internal/mcp/cluster_resolver.go), and the cache of reports with the loop  *)
(* that refreshes it (health_cache.go, server.go).                             *)
(*                                                                             *)
(* A stream is one resource of one cluster.  Time passes between any two steps.*)
EXTENDS Integers, FiniteSets

CONSTANTS
  Clusters, Resources,
  Excluded,      \* streams the clients exclude from their reports
  Inputs,        \* what a client may write as the cluster; "" is no cluster
  Exact, Fuzzy,  \* which cluster an input names, and may abbreviate
  Statuses,      \* statuses collectors write: WatchWorker says in which order
  StaleAfter,    \* 0: no stream is ever stale
  TTL,           \* of a cached report
  MaxTime,       \* bound: how long the clock runs
  MaxWrites,     \* bound: offsets written
  Clients,       \* callers of kube_insight_health
  MaxLoops,      \* bound: refresh loops ever started
  Racing         \* two clients may pass the check of ensureHealthRefreshLoop

ASSUME HealthAssumption ==
  /\ IsFiniteSet(Clusters) /\ Clusters \cap Inputs = {} /\ "" \in Inputs
  /\ Exact \subseteq Clusters \X Inputs /\ Fuzzy \subseteq Clusters \X Inputs
  /\ StaleAfter \in Nat /\ TTL \in Nat \ {0} /\ MaxTime \in Nat
  /\ MaxWrites \in Nat /\ MaxLoops \in Nat \ {0} /\ Racing \in BOOLEAN

VARIABLES
  now, writes,
  known,    \* the clusters table
  offset,   \* ingestion_offsets: status and updated_at of each stream
  listed,   \* history: streams that were listed
  cache,    \* the cached report of each key, when it expires, how old it was
  query,    \* what each client's call is doing
  answer,   \* history: what each client was told last
  loop,     \* the refresh loops: "off", "idle", or reading the reports of todo
  held,     \* the loop that s.healthRefresh can stop, 0 for none
  told      \* loops whose context is cancelled

health == <<now, writes, known, offset, listed, cache, query, answer, loop, held, told>>
data   == <<now, writes, known, offset, listed>>
loops  == <<loop, held, told>>

Streams  == Clusters \X Resources
Loops    == 1 .. MaxLoops
Keys     == Clusters \cup Inputs
NoRow    == [status |-> "not_started", at |-> 0]
NoReport == [complete |-> FALSE, read |-> 0, listed |-> FALSE]
NoEntry  == [report |-> NoReport, expires |-> -1, took |-> 0]
NoQuery  == [pc |-> "idle", input |-> "", key |-> "", alone |-> {}, report |-> NoReport]
NoAnswer == [input |-> "", key |-> "", alone |-> {}, report |-> NoReport, at |-> 0, took |-> 0]
NoLoop   == [pc |-> "off", todo |-> {}, from |-> 0, key |-> "", report |-> NoReport]

HealthInit ==
  /\ now = 0 /\ writes = 0 /\ known = {} /\ listed = {}
  /\ offset = [s \in Streams |-> NoRow]
  /\ cache = [k \in Keys |-> NoEntry]
  /\ query = [c \in Clients |-> NoQuery]
  /\ answer = [c \in Clients |-> NoAnswer]
  /\ loop = [l \in Loops |-> NoLoop] /\ held = 0 /\ told = {}

-----------------------------------------------------------------------------
(* What collectors write and what a report says of it.                         *)

\* The clusters whose lists brought objects.
HasEvidence == {s[1] : s \in listed}

\* A collector, of this process or another, registers its cluster, writes an
\* offset.  Only an error can be written of a resource that was never listed.
Register(k) ==
  /\ k \notin known /\ known' = known \cup {k}
  /\ UNCHANGED <<now, writes, offset, listed, cache, query, answer, loops>>

Write(s, status) ==
  /\ writes < MaxWrites /\ s[1] \in known
  /\ \/ status = "listed" \/ s \in listed
     \/ status \in {"list_error", "retrying"}
  /\ writes' = writes + 1
  /\ offset' = [offset EXCEPT ![s] = [status |-> status, at |-> now]]
  /\ listed' = IF status = "listed" THEN listed \cup {s} ELSE listed
  /\ UNCHANGED <<now, known, cache, query, answer, loops>>

Tick ==
  /\ now < MaxTime /\ now' = now + 1
  /\ UNCHANGED <<writes, known, offset, listed, cache, query, answer, loops>>

\* Every resource of every known cluster has a record, its offset or none.
Records(k) == {s \in Streams : s[1] \in known /\ k \in {"", s[1]}}
Counted(k) == Records(k) \ Excluded

IsStale(s) ==
  /\ StaleAfter > 0 /\ now - offset[s].at > StaleAfter
  /\ offset[s].status \notin {"not_started", "queued", "listed", "skipped"}

\* Of a report that is not filtered by status or errors: one that is counts only the
\* streams that it shows.

\* Mutant: a stream that never started is nothing to report.
CompleteButNotStarted(k) ==
  /\ Records(k) # {}
  /\ \A s \in Counted(k) :
       /\ offset[s].status \notin {"list_error", "watch_error", "retrying"}
       /\ ~IsStale(s)

Complete(k) ==
  /\ Records(k) # {}
  /\ \A s \in Counted(k) :
       /\ offset[s].status \notin {"not_started", "list_error", "watch_error", "retrying"}
       /\ ~IsStale(s)

\* The report of a key, with what was so when it was read.
ResourceHealth(k) ==
  [complete |-> Complete(k), read |-> now, listed |-> Counted(k) \subseteq listed]

-----------------------------------------------------------------------------
(* The name of a cluster.                                                      *)

Unknown == "unknown"   \* no cluster, or more than one, matches

\* Mutant: a name is taken literally, data or no data.
ResolveExactly(input) ==
  LET exact == {k \in known : <<k, input>> \in Exact}
  IN  IF input = "" \/ known = {} THEN input
      ELSE IF Cardinality(exact) = 1 THEN CHOOSE k \in exact : TRUE ELSE Unknown

\* One match; but one cluster with data that the input abbreviates is preferred
\* to an empty one that has just that name.
ResolveClusterID(input) ==
  LET exact    == {k \in known : <<k, input>> \in Exact}
      fuzzy    == {k \in known : <<k, input>> \in Fuzzy}
      instead  == (fuzzy \ exact) \cap HasEvidence
      matches  == IF exact = {} THEN fuzzy ELSE exact
      Only(S)  == CHOOSE k \in S : TRUE
  IN  IF input = "" \/ known = {} THEN input
      ELSE IF Cardinality(exact) = 1 /\ exact \cap HasEvidence = {} /\ Cardinality(instead) = 1
      THEN Only(instead)
      ELSE IF Cardinality(matches) = 1 THEN Only(matches) ELSE Unknown

Matching(input) == {k \in known : {<<k, input>>} \cap (Exact \cup Fuzzy) # {}}

-----------------------------------------------------------------------------
(* A call of kube_insight_health.                                              *)

\* healthCache.get
Valid(k) == now <= cache[k].expires

\* healthCache.set, of a report that counts as of time from.
Kept(k, report, from, took) ==
  cache' = [cache EXCEPT ![k] =
    [report |-> report, expires |-> from + TTL, took |-> took]]

Answered(c, input, k, alone, report, took) ==
  answer' = [answer EXCEPT ![c] =
    [input |-> input, key |-> k, alone |-> alone, report |-> report,
     at |-> now, took |-> took]]

\* The cache has the report: the client is told.
Hit(c, input, k) ==
  /\ Valid(k)
  /\ Answered(c, input, k, Matching(input) \cap HasEvidence, cache[k].report, cache[k].took)
  /\ query' = [query EXCEPT ![c] = NoQuery]

\* A call without a cluster looks into the cache first.
Ask(c, input) ==
  /\ query[c] = NoQuery
  /\ \/ input = "" /\ Hit(c, input, input)
     \/ /\ input = "" => ~Valid(input)
        /\ query' = [query EXCEPT ![c] = [NoQuery EXCEPT !.pc = "open", !.input = input]]
        /\ answer' = [answer EXCEPT ![c] = NoAnswer]
  /\ UNCHANGED <<data, cache, loops>>

\* The store is open: the cluster is looked up, and the cache once more.
Resolve(c) ==
  /\ query[c].pc = "open"
  /\ LET input == query[c].input
         k     == ResolveClusterID(input)
     IN \/ k # Unknown /\ Hit(c, input, k)
        \/ /\ k # Unknown => ~Valid(k)
           /\ query' = [query EXCEPT ![c] =
                IF k = Unknown THEN NoQuery
                ELSE [@ EXCEPT !.pc = "read", !.key = k,
                               !.alone = Matching(input) \cap HasEvidence]]
           /\ UNCHANGED answer
  /\ UNCHANGED <<data, cache, loops>>

Read(c) ==
  /\ query[c].pc = "read"
  /\ query' = [query EXCEPT ![c].pc = "keep", ![c].report = ResourceHealth(query[c].key)]
  /\ UNCHANGED <<data, cache, answer, loops>>

\* The report is kept and told, and the loop is looked for: a client may find
\* that there is none.
Keep(c) ==
  /\ query[c].pc = "keep"
  /\ LET q == query[c]
     IN /\ Kept(q.key, q.report, now, now - q.report.read)
        /\ Answered(c, q.input, q.key, q.alone, q.report, now - q.report.read)
  /\ query' = [query EXCEPT ![c].pc = IF held = 0 THEN "create" ELSE "ensure"]
  /\ UNCHANGED <<data, loops>>

\* ensureHealthRefreshLoop.  Nothing guards the check of s.healthRefresh: a
\* client that has seen none makes one, and the one made meanwhile is lost.
Ensure(c) ==
  /\ query[c].pc \in {"create", "ensure"}
  /\ query' = [query EXCEPT ![c] = NoQuery]
  /\ \/ /\ held # 0 /\ ~(Racing /\ query[c].pc = "create")
        /\ UNCHANGED loops
     \/ /\ held = 0 \/ (Racing /\ query[c].pc = "create")
        /\ \E l \in Loops :
             /\ loop[l] = NoLoop /\ l \notin told
             /\ loop' = [loop EXCEPT ![l].pc = "idle"]
             /\ held' = l /\ UNCHANGED told
  /\ UNCHANGED <<data, cache, answer>>

-----------------------------------------------------------------------------
(* The refresh loop.                                                           *)

\* refreshHealthCache: the keys that have a report, expired or not, and the time
\* the new reports will count from.
Refresh(l) ==
  /\ loop[l].pc = "idle" /\ l \notin told
  /\ LET keys == {k \in Keys : cache[k] # NoEntry}
     IN /\ keys # {}
        /\ loop' = [loop EXCEPT ![l] = [NoLoop EXCEPT !.pc = "pass", !.todo = keys, !.from = now]]
  /\ UNCHANGED <<data, cache, query, answer, held, told>>

RefreshRead(l) ==
  /\ loop[l].pc = "pass" /\ l \notin told
  /\ \E k \in loop[l].todo :
       loop' = [loop EXCEPT ![l].pc = "keep", ![l].todo = @ \ {k}, ![l].key = k,
                            ![l].report = ResourceHealth(k)]
  /\ UNCHANGED <<data, cache, query, answer, held, told>>

\* Mutant: the report counts from when it is kept.
CountsFromNow(l) == now

CountsFrom(l) == loop[l].from

RefreshKeep(l) ==
  /\ loop[l].pc = "keep"
  /\ Kept(loop[l].key, loop[l].report, CountsFrom(l), 0)
  /\ loop' = [loop EXCEPT ![l].pc = "pass", ![l].key = "", ![l].report = NoReport]
  /\ UNCHANGED <<data, query, answer, held, told>>

\* The pass is over, or its context was cancelled.
RefreshDone(l) ==
  /\ loop[l].pc = "pass" /\ (loop[l].todo = {} \/ l \in told)
  /\ loop' = [loop EXCEPT ![l] = [NoLoop EXCEPT !.pc = "idle"]]
  /\ UNCHANGED <<data, cache, query, answer, held, told>>

RefreshEnds(l) ==
  /\ loop[l].pc = "idle" /\ l \in told
  /\ loop' = [loop EXCEPT ![l] = NoLoop]
  /\ UNCHANGED <<data, cache, query, answer, held, told>>

-----------------------------------------------------------------------------

Collect ==
  \/ \E k \in Clusters : Register(k)
  \/ \E s \in Streams, status \in Statuses : Write(s, status)
Serve(c) == Resolve(c) \/ Read(c) \/ Keep(c) \/ Ensure(c)
Run(l)   == Refresh(l) \/ RefreshRead(l) \/ RefreshKeep(l) \/ RefreshDone(l) \/ RefreshEnds(l)

-----------------------------------------------------------------------------
(* Properties.                                                                 *)

\* Whatever queries and refreshes overtake each other, what a client is told was
\* read at most a TTL ago, and longer only by the time its own query spent
\* between reading the report and keeping it.
AnswersAreFresh ==
  \A c \in Clients :
    answer[c].at - answer[c].report.read <= TTL + answer[c].took

\* A name that one cluster with data matches is never answered with another
\* cluster, although an empty one may have just that name; and a report that
\* says complete was read when every stream it counts had been listed ("do not
\* claim absence unless collector coverage is healthy").
AnswersHaveEvidence ==
  \A c \in Clients :
    /\ Cardinality(answer[c].alone) = 1 /\ answer[c].input # "" =>
         answer[c].key \in answer[c].alone
    /\ answer[c].report.complete => answer[c].report.listed

=============================================================================
