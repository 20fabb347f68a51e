------------------------------ MODULE MCInvestigation ------------------------------
(* A service with a slice, two pods and the node of one of them.                 *)
EXTENDS Investigation

mcObjects == {"svc", "slice", "pod", "node"}
mcKindOf == [svc |-> "Service", slice |-> "EndpointSlice", pod |-> "Pod", node |-> "Node"]
mcTargets == [svc |-> {{}}, slice |-> {{"svc"}, {"svc", "pod"}}, pod |-> {{"node"}}, node |-> {{}}]
mcOptions == {[to |-> 0, objects |-> 0, versions |-> 1], [to |-> 2, objects |-> 2, versions |-> 0]}
mcMaxTime == [sqlite |-> 5, clickhouse |-> 3]
================================================================================
