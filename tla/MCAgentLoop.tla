------------------------------- MODULE MCAgentLoop -------------------------------
(* Batches that run alone and in the pool, that ask for the same and for   *)
(* different permissions, and one question next to them.                   *)
EXTENDS AgentLoop

OneQuestion ==
  {<<"skill", "shell">>, <<"shell", "shell", "secret">>, <<"ask", "secret">>}
TwoQuestions == {<<"ask", "ask">>}
==================================================================================
