--------------------------- MODULE AgentRetention ---------------------------
(* What a pass of agent retention removes (internal/agent/retention.go), and   *)
(* what a later run replays of its session (internal/api/agent_context.go):    *)
(* both walk the runs of a session in creation order and fold a retry onto     *)
(* the run it replaces.                                                        *)
(*                                                                             *)
(* A run is a number, runs are created in the order of their numbers, and `rs` *)
(* maps every run of the store to                                              *)
(*   status     queued, running, completed, failed or cancelled                *)
(*   session    the session it belongs to                                      *)
(*   retryOf    the run its metadata names as retryOfRunId, or None            *)
(*   retryRoot  the run its metadata names as retryRootRunId, or None          *)
(*   parent     the run whose tool call created it (parentRunId), or None      *)
EXTENDS Integers, Sequences

None == 0

IsTerminalRunStatus(s) == s \in {"completed", "failed", "cancelled"}

\* The runs that repeatedly following `link`, from a run to a run or None, leads to
\* from r: the least set that has r and is closed under the link. A link may name
\* a run that is no longer there; a cycle ends where it closes.
Reached(link, r) ==
  LET runs == ({r} \cup DOMAIN link \cup {link[x] : x \in DOMAIN link}) \ {None}
  IN  {x \in runs : \A S \in SUBSET runs :
         r \in S /\ (\A y \in S \cap DOMAIN link : link[y] \in S \cup {None}) => x \in S}

Parents(rs) == [r \in DOMAIN rs |-> rs[r].parent]

\* retryRootRunID: what the metadata says, else the end of the chain of retries.
\* (A chain of retries never closes: a retry names an older run.)
RetryRoot(rs, r) ==
  IF rs[r].retryRoot # None THEN rs[r].retryRoot
  ELSE LET chain == Reached([x \in DOMAIN rs |-> rs[x].retryOf], r)
       IN  CHOOSE x \in chain : x \notin DOMAIN rs \/ rs[x].retryOf = None

\* Mutant: any finished retry deletes what it hides.
SupersedeByAny(rs, acc, r) ==
  LET same == {i \in DOMAIN acc.visible : RetryRoot(rs, acc.visible[i]) = RetryRoot(rs, r)}
      at   == CHOOSE i \in same : \A j \in same : i <= j
  IN  IF rs[r].retryOf = None \/ same = {} THEN [acc EXCEPT !.visible = Append(@, r)]
      ELSE [visible |-> Append(SubSeq(acc.visible, 1, at - 1), r),
            gone |-> acc.gone \cup {x \in {acc.visible[i] : i \in at .. Len(acc.visible)} :
                       IsTerminalRunStatus(rs[r].status) /\ IsTerminalRunStatus(rs[x].status)}]

\* supersededRetryRunIDs, one run: `visible` is the branch the user sees,
\* `gone` the runs to delete. Only a completed retry deletes what it hides.
Supersede(rs, acc, r) ==
  LET same == {i \in DOMAIN acc.visible :
                 RetryRoot(rs, acc.visible[i]) = RetryRoot(rs, r)}
      at   == CHOOSE i \in same : \A j \in same : i <= j
  IN  IF rs[r].retryOf = None \/ same = {}
      THEN [acc EXCEPT !.visible = Append(@, r)]
      ELSE [visible |-> Append(SubSeq(acc.visible, 1, at - 1), r),
            gone    |-> acc.gone \cup
              {x \in {acc.visible[i] : i \in at .. Len(acc.visible)} :
                 rs[r].status = "completed" /\ IsTerminalRunStatus(rs[x].status)}]

\* supersededRetryRunIDs, of the runs of a session up to the given one.
RetryBranch(rs, s, last) ==
  LET branch[n \in 0 .. last] ==
        IF n = 0 THEN [visible |-> <<>>, gone |-> {}]
        ELSE LET acc == branch[n - 1]
             IN  IF n \in DOMAIN rs /\ rs[n].session = s THEN Supersede(rs, acc, n) ELSE acc
  IN  branch[last]

SupersededRetryRuns(rs) ==
  LET last == CHOOSE r \in DOMAIN rs : \A x \in DOMAIN rs : x <= r
  IN  UNION {RetryBranch(rs, rs[r].session, last).gone : r \in DOMAIN rs}

\* supersededRunIDsWithChildren: with the runs their tools created, whatever
\* the status of those.
WithChildren(rs, roots) ==
  {r \in DOMAIN rs : Reached(Parents(rs), r) \cap roots # {}}

SupersededRuns(rs) == WithChildren(rs, SupersededRetryRuns(rs))

\* Mutant: a run is pruned without its parents.
NoParent(rs, r) == FALSE
\* hasNonTerminalParent: looks at every known run up the chain of parents.
HasNonTerminalParent(rs, r) ==
  \E p \in (Reached(Parents(rs), r) \ {r}) \cap DOMAIN rs :
    ~IsTerminalRunStatus(rs[p].status)

\* Mutant: the runs that still work, too.
PruneAllRuns(rs) == {r \in DOMAIN rs : ~HasNonTerminalParent(rs, r)}
\* artifactPruneRunIDSet.
ArtifactPruneRuns(rs) ==
  {r \in DOMAIN rs : IsTerminalRunStatus(rs[r].status) /\ ~HasNonTerminalParent(rs, r)}

\* unreferencedArtifactEventIDs: `evs` maps a run to its events, of which only
\* artifacts and citations matter. Any kept run's citation keeps an artifact.
UnreferencedArtifacts(superseded, prunable, evs) ==
  LET kept  == UNION {evs[r] : r \in DOMAIN evs \ superseded}
      cited == {e.artifact : e \in {x \in kept : x.type = "citation"}}
  IN  {e \in UNION {evs[r] : r \in (DOMAIN evs \ superseded) \cap prunable} :
         e.type = "artifact" /\ e.artifact \notin cited}

----------------------------------------------------------------------------
\* retryRootRunIDForContextReplay.
ReplayRoot(rs, r) == IF rs[r].retryRoot # None THEN rs[r].retryRoot
                     ELSE IF rs[r].retryOf # None THEN rs[r].retryOf ELSE r

\* activeRetryBranchRuns, one run. Unlike in Supersede any finished retry hides,
\* and a retry whose run is gone and matches nothing replaces the whole branch.
Branch(rs, visible, r) ==
  LET same == {i \in DOMAIN visible : ReplayRoot(rs, visible[i]) = ReplayRoot(rs, r)}
      at   == CHOOSE i \in same : \A j \in same : i <= j
  IN  IF rs[r].retryOf = None THEN Append(visible, r)
      ELSE IF same # {} THEN Append(SubSeq(visible, 1, at - 1), r)
      ELSE IF rs[r].retryOf \notin DOMAIN rs THEN <<r>>
      ELSE Append(visible, r)

\* activeRetryBranchRuns, of the runs in `rs` up to the given one.
ActiveBranch(rs, last) ==
  LET branch[n \in 0 .. last] ==
        IF n = 0 THEN <<>>
        ELSE LET visible == branch[n - 1]
             IN  IF n \in DOMAIN rs THEN Branch(rs, visible, n) ELSE visible
  IN  branch[last]

\* priorRuns: the runs whose conversation run r (in `rs`) is given as context.
\* The branch is built from these alone.
PriorRuns(rs, r) ==
  LET root  == IF rs[r].retryOf \in DOMAIN rs THEN rs[r].retryOf ELSE r
      prior == {x \in DOMAIN rs \ {r, root} :
                  /\ rs[x].session = rs[r].session
                  /\ rs[x].parent = None
                  /\ x < root
                  /\ IsTerminalRunStatus(rs[x].status)}
  IN  ActiveBranch([x \in prior |-> rs[x]], root - 1)
=============================================================================
