---------------------------- MODULE MCOrchestrator ----------------------------
(***************************************************************************)
(* Instances of Orchestrator: task graphs, retry budgets and agents.       *)
(***************************************************************************)
EXTENDS Orchestrator

CONSTANT r1  (* The smaller of two runs, or the only one. *)

NoDependencies == [t \in 1..T |-> {}]
(* Task 3 joins 1 and 2; 4 and 5 depend on each other, which normalizeSpec *)
(* accepts.                                                                *)
JoinAndCycle ==
  [t \in 1..T |-> CASE t = 3 -> {1, 2} [] t = 4 -> {5} [] t = 5 -> {4} [] OTHER -> {}]

NoRetry == [t \in 1..T |-> 0]
FirstTwice == [t \in 1..T |-> IF t = 1 THEN 2 ELSE 0]

Anywhere == [t \in 1..T |-> 1..I]
OneSlot == [i \in 1..I |-> 1]
TwoSlots == [i \in 1..I |-> 2]
OneCpu == [r \in Runs |-> 1]
OneAndTwoCpu == [r \in Runs |-> IF r = r1 THEN 1 ELSE 2]
=============================================================================
