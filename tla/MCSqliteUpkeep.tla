----------------------------- MODULE MCSqliteUpkeep -----------------------------
(* Instances of SqliteUpkeep for TLC. *)
EXTENDS SqliteUpkeep, TLC

\* Two documents that the filters now make one, and another.
ThreeDocs == {"a", "noisy", "b"}
NowQuiet  == "a" :> "a" @@ "noisy" :> "a" @@ "b" :> "b"

EachContents == <<{"a", "noisy"}, {"b"}>>

\* Databases of an older version without retention, and a new one with it.
OldOrRetained == {[found |-> <<"a", "b", "b">>, retention |-> FALSE, room |-> 4],
                  [found |-> <<"a", "b", "a">>, retention |-> FALSE, room |-> 4],
                  [found |-> <<"b", "noisy", "a">>, retention |-> FALSE, room |-> 4],
                  [found |-> <<>>, retention |-> TRUE, room |-> 3]}
================================================================================
