----------------------------- MODULE ScriptTool -----------------------------
(* The JavaScript interpreter an agent calls as a tool (internal/agent/       *)
(* scripted_query_tool.go): its SQL queries, which have a budget, and the     *)
(* files it shares with every other script of its session (scratch_store.go). *)
(*                                                                            *)
(* Scripts of one session run at once: two runs of the session, the branches  *)
(* of a parallel investigation, or two calls of one reply. A helper is a Go   *)
(* function the script calls: what it throws the script may catch.            *)
EXTENDS Integers, FiniteSets

CONSTANTS
  MaxCalls,        \* tool calls, whose ids are numbers
  Paths,           \* virtual paths of the session's scratch store
  SharedPaths,     \* two scripts may write the same path
  DefaultQueries,  \* queries of a script that asks for no limit; 6 in the code
  CapQueries,      \* the most a script may ask for; 10 in the code
  Wants,           \* limits scripts ask for; 0 for none
  MaxHelpers       \* helper calls a script makes

ASSUME ScriptAssumption ==
  /\ MaxCalls \in Nat /\ MaxHelpers \in Nat /\ SharedPaths \in BOOLEAN
  /\ DefaultQueries \in Nat \ {0} /\ CapQueries \in Nat /\ DefaultQueries <= CapQueries
  /\ Wants \subseteq Int

Calls == 1 .. MaxCalls
NoCall == 0
NoPath == "none"

ASSUME PathsAssumption == NoPath \notin Paths

VARIABLES
  script,   \* of a call
  final,    \* the file of a path
  temp,     \* the file that is to become it (path.tmp)
  cleaner   \* the pass that removes old stores: idle, or about to remove this one

scriptVars == <<script, final, temp, cleaner>>

NoFile == [by |-> NoCall, whole |-> FALSE]

\* `where` is where the file is that a script has open: under the temporary
\* name, under the final one since somebody renamed it, or under none.
NewScript == [at |-> "idle", limit |-> 0, queries |-> 0, active |-> 0, ran |-> 0,
              threw |-> FALSE, helpers |-> 0, path |-> NoPath, where |-> "closed",
              read |-> {}]

ScriptInit ==
  /\ script = [c \in Calls |-> NewScript]
  /\ final = [p \in Paths |-> NoFile]
  /\ temp = [p \in Paths |-> NoFile]
  /\ cleaner = "idle"

-----------------------------------------------------------------------------
At(c, label) == script[c].at = label
With(c, s) == script' = [script EXCEPT ![c] = s]

\* boundedScriptedQueryMaxQueries.
BoundedMaxQueries(want) ==
  IF want <= 0 THEN DefaultQueries ELSE IF want > CapQueries THEN CapQueries ELSE want

\* InvokableRun, up to the script's first step.
StartScript(c) ==
  /\ At(c, "idle")
  /\ \E want \in Wants :
       With(c, [NewScript EXCEPT !.at = "running", !.limit = BoundedMaxQueries(want)])

\* The interpreter of a call is gone.
Ended(c, label) == With(c, [NewScript EXCEPT !.at = label])

\* A helper panics with a value of the script: the script goes on, or fails.
Throws(c, s) == With(c, [s EXCEPT !.at = "running"]) \/ Ended(c, "failed")

\* A script is about to call a helper.
Calling(c) ==
  IF At(c, "running") /\ script[c].helpers < MaxHelpers
  THEN {[script[c] EXCEPT !.helpers = @ + 1]} ELSE {}

\* reserveQueries.
MayReserve(s, n) == s.queries + n <= s.limit

\* sql, for one query, and sqlAll, which reserves them all and runs them at once.
Query(c, n) ==
  /\ \E s \in Calling(c) :
       IF MayReserve(s, n)
       THEN With(c, [s EXCEPT !.at = "sql", !.queries = @ + n, !.active = n, !.threw = FALSE])
       ELSE Throws(c, s)
  /\ UNCHANGED <<final, temp, cleaner>>

\* runReservedQuery. The helper returns when every query has; one that failed
\* fails the call.
QueryReturns(c) ==
  /\ At(c, "sql")
  /\ \E ok \in BOOLEAN :
       LET s == [script[c] EXCEPT !.active = @ - 1, !.ran = @ + 1, !.threw = @ \/ ~ok]
       IN  IF s.active > 0 THEN With(c, s)
           ELSE IF s.threw THEN Throws(c, s)
           ELSE With(c, [s EXCEPT !.at = "running"])
  /\ UNCHANGED <<final, temp, cleaner>>

\* The interpreter is interrupted, the result cannot be encoded, or it is too
\* large.
ScriptFails(c) ==
  /\ At(c, "running")
  /\ Ended(c, "failed")
  /\ UNCHANGED <<final, temp, cleaner>>

ScriptReturns(c) ==
  /\ At(c, "running")
  /\ Ended(c, "done")
  /\ UNCHANGED <<final, temp, cleaner>>

-----------------------------------------------------------------------------
(* scratch.write: open and truncate the temporary file, write, rename.        *)

\* Of the paths, when scripts share none: those that no other wrote or writes.
MayWrite(c, p) ==
  \/ SharedPaths
  \/ /\ final[p].by \in {NoCall, c}
     /\ \A d \in Calls \ {c} : script[d].path # p

\* Mutant: the file itself is opened.
OpenInPlace(c, p) ==
  /\ MayWrite(c, p)
  /\ \E s \in Calling(c) : With(c, [s EXCEPT !.at = "open", !.path = p, !.where = "final"])
  /\ final' = [final EXCEPT ![p] = [by |-> c, whole |-> FALSE]]
  /\ UNCHANGED <<temp, cleaner>>
OpenTemp(c, p) ==
  /\ MayWrite(c, p)
  /\ \E s \in Calling(c) : With(c, [s EXCEPT !.at = "open", !.path = p, !.where = "temp"])
  /\ temp' = [temp EXCEPT ![p] = [by |-> c, whole |-> FALSE]]
  /\ UNCHANGED <<final, cleaner>>

\* What a file holds after c wrote it from its start: the end of what another
\* wrote may stay behind.
Overwritten(file, c) ==
  {[by |-> c, whole |-> TRUE]} \cup
    (IF file.whole /\ file.by # c THEN {[by |-> c, whole |-> FALSE]} ELSE {})

WriteTemp(c) ==
  LET p == script[c].path
  IN  /\ At(c, "open")
      /\ With(c, [script[c] EXCEPT !.at = "filled"])
      /\ temp' \in IF script[c].where = "temp"
                   THEN {[temp EXCEPT ![p] = f] : f \in Overwritten(temp[p], c)} ELSE {temp}
      /\ final' \in IF script[c].where = "final"
                    THEN {[final EXCEPT ![p] = f] : f \in Overwritten(final[p], c)} ELSE {final}
      /\ UNCHANGED cleaner

\* The rename moves whatever file has the temporary name now; when another
\* script has renamed it already there is none, and the helper throws.
Rename(c) ==
  LET p    == script[c].path
      shut == [script[c] EXCEPT !.path = NoPath, !.where = "closed"]
      moved(d) == IF d # c /\ script[d].path = p /\ script[d].where \in {"temp", "final"}
                  THEN [script[d] EXCEPT !.where = IF @ = "temp" THEN "final" ELSE "gone"]
                  ELSE script[d]
  IN  /\ At(c, "filled")
      /\ IF temp[p] = NoFile
         THEN Throws(c, shut) /\ UNCHANGED <<final, temp>>
         ELSE /\ script' = [d \in Calls |->
                   IF d = c THEN [shut EXCEPT !.at = "running"] ELSE moved(d)]
              /\ final' = [final EXCEPT ![p] = temp[p]]
              /\ temp' = [temp EXCEPT ![p] = NoFile]
      /\ UNCHANGED cleaner

\* scratch.load, and scratch.read of a whole file. No path is the temporary name of
\* another: the code lets a script load one, and it may find half a file there.
Load(c, p) ==
  /\ \E s \in Calling(c) :
       IF final[p] = NoFile THEN Throws(c, s)
       ELSE With(c, [s EXCEPT !.read = @ \cup {final[p]}])
  /\ UNCHANGED <<final, temp, cleaner>>

\* scratch.list reads every file there is, and throws when one that it saw has
\* meanwhile been renamed or removed. It also tells of files that still have
\* their temporary names.
List(c) ==
  /\ \E s \in Calling(c) :
       \/ With(c, s)
       \/ (\E d \in Calls \ {c} : script[d].where # "closed") /\ Throws(c, s)
  /\ UNCHANGED <<final, temp, cleaner>>

-----------------------------------------------------------------------------
\* CleanupScratchStores: a store that nothing was written to for a day, and
\* whose session has no run at work when the runs are read.
CleanupReads(working) ==
  /\ cleaner = "idle" /\ ~working
  /\ \A c \in Calls : script[c].where = "closed"
  /\ cleaner' = "removing"
  /\ UNCHANGED <<script, final, temp>>

\* RemoveAll. The age of the store was looked at before.
CleanupRemoves ==
  /\ cleaner = "removing"
  /\ cleaner' = "idle"
  /\ final' = [p \in Paths |-> NoFile]
  /\ temp' = [p \in Paths |-> NoFile]
  /\ script' = [c \in Calls |-> IF script[c].where = "closed" THEN script[c]
                                ELSE [script[c] EXCEPT !.where = "gone"]]

ScriptStep(c) ==
  \/ \E n \in 1 .. 2 : Query(c, n)
  \/ QueryReturns(c)
  \/ ScriptFails(c)
  \/ ScriptReturns(c)
  \/ \E p \in Paths : OpenTemp(c, p) \/ Load(c, p)
  \/ WriteTemp(c)
  \/ Rename(c)
  \/ List(c)

-----------------------------------------------------------------------------
\* What a script loads from the scratch store somebody wrote to the end, also
\* when it reads while another writes (scratch_store.go, write).
ReadsAreWhole ==
  \A c \in Calls : \A file \in script[c].read : file.whole
=============================================================================
