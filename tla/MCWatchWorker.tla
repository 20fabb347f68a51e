----------------------------- MODULE MCWatchWorker -----------------------------
(* Instances of WatchWorker for TLC. *)
EXTENDS WatchWorker, TLC

CONSTANTS o1, o2

TwoObjects == {o1, o2}
Unlimited  == -1     \* the default of --retries

Symmetry   == Permutations(TwoObjects)
================================================================================
