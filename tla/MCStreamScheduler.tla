--------------------------- MODULE MCStreamScheduler ---------------------------
(* Instances of StreamScheduler for TLC. *)
EXTENDS StreamScheduler, TLC

CONSTANTS h1, l1, l2, l3

AllWorkers == {h1, l1, l2, l3}
KeyOfAll   == h1 :> "kh" @@ l1 :> "ka" @@ l2 :> "ka" @@ l3 :> "kb"
LastOfKey  == [kh |-> h1, ka |-> l2, kb |-> l3]
Priorities == h1 :> "high" @@ l1 :> "low" @@ l2 :> "low" @@ l3 :> "low"

\* A high resource with a low one that was selected twice, or with two low ones.
TwinsOrRivals == {{h1, l1, l2}, {h1, l2, l3}}

\* The low resources have no errors and few objects.  The high one has a 10000th
\* object from the start, and a call of it may meet two errors.
Only(n)       == [w \in AllWorkers |-> {n}]
BusyStreams   == Only(50)
HighHasErrors == [Only(0) EXCEPT ![h1] = {0, 40}]
HighIsLarge   == [Only(0) EXCEPT ![h1] = {40}]
================================================================================
