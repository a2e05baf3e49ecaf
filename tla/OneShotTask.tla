------------------------------ MODULE OneShotTask ------------------------------
(***************************************************************************)
(* What the durable MCP task store promises of every task: it is created   *)
(* working, it takes exactly one terminal status together with the result  *)
(* that goes with it, and neither ever changes again.  McpTask implements  *)
(* this specification, crashes included.                                   *)
(***************************************************************************)
CONSTANTS Tasks, Outcomes

VARIABLES task, result

Init ==
  /\ task = [t \in Tasks |-> "none"]
  /\ result = [t \in Tasks |-> "none"]

Create(t) ==
  /\ task[t] = "none"
  /\ task' = [task EXCEPT ![t] = "working"]
  /\ UNCHANGED result

Settle(t, outcome) ==
  /\ task[t] = "working"
  /\ task' = [task EXCEPT ![t] = outcome.status]
  /\ result' = [result EXCEPT ![t] = outcome.result]

Next == \E t \in Tasks : Create(t) \/ \E outcome \in Outcomes : Settle(t, outcome)

Spec == Init /\ [][Next]_<<task, result>>
===============================================================================
