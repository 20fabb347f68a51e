--------------------------- MODULE MCClickHouseBuffer ---------------------------
(* Instances of ClickHouseBuffer for TLC. *)
EXTENDS ClickHouseBuffer, TLC

CONSTANTS w1, w2

TwoWorkers == {w1, w2}
TwoDocs    == w1 :> {"a", "gone"} @@ w2 :> {"a"}
TwoAndOne  == w1 :> 2 @@ w2 :> 1
================================================================================
