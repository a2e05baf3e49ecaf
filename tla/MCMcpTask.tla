------------------------------- MODULE MCMcpTask ------------------------------
(* An instance of McpTask: two tasks of one plan, which share its run.      *)
EXTENDS McpTask
CONSTANTS t1, t2, plan
TwoTasks == {t1, t2}
OnePlan == {plan}
SamePlan == [t \in {t1, t2} |-> plan]
===============================================================================
