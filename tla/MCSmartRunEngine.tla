--------------------------- MODULE MCSmartRunEngine ---------------------------
(***************************************************************************)
(* Instances of SmartRunEngine: the shapes the planner produces, from      *)
(* dependenciesFor in src/src/ide/smartPlanner.ts: independent inventory   *)
(* nodes, a deterministic one with one retry, and a node that depends on   *)
(* all of them.                                                            *)
(***************************************************************************)
EXTENDS SmartRunEngine

(* Nodes that depend on nothing.                                           *)
Independent == [n \in Nodes |-> {}]
(* The last node depends on all others, which may run in parallel.         *)
Join == [n \in Nodes |-> IF n = N THEN Nodes \ {N} ELSE {}]

NoRetry == [n \in Nodes |-> 0]
(* While the record of its failure is awaited, the end of another node     *)
(* wakes the loop, which dispatches the retry: two attempts overlap.       *)
FirstRetried == [n \in Nodes |-> IF n = 1 THEN 1 ELSE 0]
=============================================================================
