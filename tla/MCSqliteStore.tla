------------------------------ MODULE MCSqliteStore ------------------------------
(* Instances of SqliteStore for TLC. *)
EXTENDS SqliteStore, TLC

CONSTANTS p, s, p1, p2, s1

\* A pod with two incarnations and an endpoint slice that refers to it by name.
PodAndSlice   == {p, s}
Three         == {p1, p2, s1}
ThreeNames    == p1 :> p @@ p2 :> p @@ s1 :> s
ThreeEarlier  == p1 :> {} @@ p2 :> {p1} @@ s1 :> {}
ThreeContents == p1 :> {"a", "b"} @@ p2 :> {"a"} @@ s1 :> {"a", "b"}
ThreeTargets  == p1 :> NoUid @@ p2 :> NoUid @@ s1 :> p

\* maxAgeSeconds for all, and the policy that the profile of slices selects: a
\* version of a slice may be one for both to delete.
GlobalAndPolicy == <<[age |-> 0, min |-> 2, names |-> {p, s}], [age |-> 0, min |-> 1, names |-> {s}]>>
================================================================================
