----------------------------- MODULE RunOutcome -----------------------------
(* What a client of the agent API may rely on, whatever happens inside: a run  *)
(* is opened once, gets one outcome that never changes, and its event stream   *)
(* announces no other outcome than the one it got. It may be removed at any    *)
(* time, and then never comes back.                                            *)
CONSTANT Runs
VARIABLES outcome, told

Outcomes == {"completed", "failed", "cancelled"}

Init == /\ outcome = [r \in Runs |-> "none"]
        /\ told = [r \in Runs |-> {}]

Open(r) == /\ outcome[r] = "none"
           /\ outcome' = [outcome EXCEPT ![r] = "open"]
           /\ UNCHANGED told

Decide(r, o) == /\ outcome[r] = "open"
                /\ outcome' = [outcome EXCEPT ![r] = o]
                /\ UNCHANGED told

Tell(r) == /\ outcome[r] \in Outcomes
           /\ told' = [told EXCEPT ![r] = {outcome[r]}]
           /\ UNCHANGED outcome

Remove(S) == /\ \A r \in S : outcome[r] \in Outcomes \cup {"open"}
             /\ outcome' = [r \in Runs |-> IF r \in S THEN "gone" ELSE outcome[r]]
             /\ told' = [r \in Runs |-> IF r \in S THEN {} ELSE told[r]]

Next == \/ \E r \in Runs : Open(r) \/ Tell(r) \/ \E o \in Outcomes : Decide(r, o)
        \/ \E S \in SUBSET Runs : Remove(S)

Spec == Init /\ [][Next]_<<outcome, told>>
=============================================================================
