------------------------------- MODULE AgentLoop -------------------------------
(***************************************************************************)
(* The agent's conversation: src/src/agent/agent.ts with the registry that *)
(* runs its tools, the two bridges to the terminal (ui/permBridge.ts,      *)
(* ui/askBridge.ts) and the session file.  A turn sends the history to the *)
(* provider, runs the tools the answer calls for, alone or in a pool, and  *)
(* sends the history again; Esc may abort it anywhere.                     *)
(***************************************************************************)
EXTENDS Naturals, Sequences, SequencesExt

CONSTANTS
  Batches,      (* Sequences of tools an answer may call for.               *)
  Guarded,      (* Tools that require permission, one per cache key.        *)
  Fresh,        (* Those of them that opt out of the session cache.         *)
  Questions,    (* Tools that put a question to the user.                   *)
  Stateful,     (* STATEFUL_TOOLS                                           *)
  Pool,         (* MAX_PARALLEL_TOOL_CALLS                                  *)
  MaxSteps,     (* maxSteps                                                 *)
  MaxTurns,     (* Bound on the turns and commands of the user.             *)
  MaxCrashes    (* Bound on the exits of the process.                       *)

ASSUME AgentAssumption ==
  /\ Pool \in Nat \ {0} /\ MaxSteps \in Nat \ {0}
  /\ Fresh \subseteq Guarded /\ Guarded \cap Questions = {}
  /\ \A tools \in Batches : tools # <<>> /\ Len(tools) \in Nat

VARIABLES
  history,      (* history and, during a turn, working: the messages        *)
  file,         (* the messages in the session file; <<>> without a file    *)
  clearing,     (* reset() has not unlinked the file yet                    *)
  turn,         (* where the turn is, its step, its tool calls, plan-only   *)
  aborted,      (* signal.aborted                                           *)
  call,         (* the state of each tool call of the step                  *)
  busy,         (* BridgedPrompter.busy                                     *)
  waiters,      (* BridgedPrompter.waiters                                  *)
  modal,        (* the call whose permission request the terminal shows     *)
  allowed,      (* sessionAllowed                                           *)
  question,     (* the call whose question the terminal shows               *)
  granted,      (* history: the calls of the step the user has allowed      *)
  used, crashes (* how much of MaxTurns and MaxCrashes is used              *)

conversation == <<history, file, clearing>>
prompts == <<busy, waiters, modal, allowed, question, granted>>
bounds == <<used, crashes>>
vars == <<conversation, turn, aborted, call, prompts, bounds>>

None == 0

User == <<"user">>
Note == <<"system">>
Assistant(n) == <<"assistant", n>>
Result(i) == <<"tool", i>>
Calls(m) == IF m[1] = "assistant" THEN m[2] ELSE 0

NoTurn == [at |-> "idle", next |-> "idle", step |-> 0, tools |-> <<>>, plan |-> FALSE]

Init ==
  /\ history = <<>> /\ file = <<>> /\ clearing = FALSE
  /\ turn = NoTurn /\ aborted = FALSE /\ call = <<>>
  /\ busy = FALSE /\ waiters = <<>> /\ modal = None /\ allowed = {}
  /\ question = None /\ granted = {}
  /\ used = 0 /\ crashes = 0

-----------------------------------------------------------------------------
(***************************************************************************)
(* reconcileToolCalls(): after the results that follow an assistant        *)
(* message come made-up results for the calls that have none, in the order *)
(* of the calls.                                                           *)
(***************************************************************************)
Answers(h, k) == {j \in (k + 1)..Len(h) : \A l \in (k + 1)..j : h[l][1] = "tool"}
EndOf(h, k) == k + Cardinality(Answers(h, k))
Missing(h, k) == {i \in 1..Calls(h[k]) : \A j \in Answers(h, k) : h[j] # Result(i)}

(* Mutant: only a turn that ends the history is repaired.                  *)
MutantRepairs(h, k) == k = Len(h)

Repairs(h, k) == h[k][1] = "assistant"

(* What it pushes: <<j, 0>> is message j, <<j, i>> what comes after message *)
(* j for call i.                                                           *)
Pushes(h) ==
  {<<j, 0>> : j \in 1..Len(h)} \cup
  UNION {{<<EndOf(h, k), i>> : i \in Missing(h, k)} : k \in {k \in 1..Len(h) : Repairs(h, k)}}
UpTo(s, pushes) == {t \in pushes : t[1] < s[1] \/ (t[1] = s[1] /\ t[2] <= s[2])}
Nth(n, pushes) == CHOOSE s \in pushes : Cardinality(UpTo(s, pushes)) = n
Pushed(h, s) == IF s[2] = 0 THEN h[s[1]] ELSE Result(s[2])

Reconciled(h) ==
  [n \in 1..Cardinality(Pushes(h)) |-> Pushed(h, Nth(n, Pushes(h)))]

-----------------------------------------------------------------------------
(***************************************************************************)
(* The turn.                                                               *)
(***************************************************************************)
Go(p) == turn' = [turn EXCEPT !.at = p]
SaveThen(p) == turn' = [turn EXCEPT !.at = "save", !.next = p]

(* run()'s finally block.                                                  *)
EndTurn == turn' = NoTurn /\ aborted' = FALSE /\ call' = <<>> /\ granted' = {}

(* Whether the history is over the threshold, and compaction has not       *)
(* failed too often, is left open.                                         *)
Submit(plan, compacts) ==
  /\ turn.at = "idle" /\ used < MaxTurns /\ used' = used + 1
  /\ history' = Reconciled(history)
  /\ turn' = [NoTurn EXCEPT !.at = IF compacts THEN "compact" ELSE "ask", !.plan = plan]
  /\ UNCHANGED <<file, clearing, aborted, call, prompts, crashes>>

Compacted ==
  /\ turn.at = "compact"
  /\ history' = <<User>>
  /\ SaveThen("ask")
  /\ UNCHANGED <<file, clearing, aborted, call, prompts, bounds>>

(* Also when it was aborted: the turn goes on to its first step.           *)
CompactFails ==
  /\ turn.at = "compact"
  /\ Go("ask")
  /\ UNCHANGED <<conversation, aborted, call, prompts, bounds>>

PushUser ==
  /\ turn.at = "ask"
  /\ history' = Append(history, User)
  /\ SaveThen("step")
  /\ UNCHANGED <<file, clearing, aborted, call, prompts, bounds>>

(* save() writes what the history is now; its failure is only reported.    *)
Saved(succeeds) ==
  /\ turn.at = "save"
  /\ file' = IF succeeds THEN history ELSE file
  /\ CASE turn.next = "idle" \/ (turn.next = "rest" /\ aborted) -> EndTurn
       [] turn.next = "tools" -> Go("tools") /\ UNCHANGED <<aborted, call, granted>>
       [] OTHER -> /\ turn' = [turn EXCEPT !.at = IF turn.next = "ask" THEN "ask" ELSE "step",
                                           !.tools = <<>>]
                   /\ call' = <<>> /\ granted' = {}
                   /\ UNCHANGED aborted
  /\ UNCHANGED <<history, clearing, busy, waiters, modal, allowed, question, bounds>>

Request ==
  /\ turn.at = "step" /\ ~aborted /\ turn.step < MaxSteps
  /\ turn' = [turn EXCEPT !.at = "chat", !.step = @ + 1]
  /\ UNCHANGED <<conversation, aborted, call, prompts, bounds>>

(* The abort, or MaxStepsError.                                            *)
StepsEnd ==
  /\ turn.at = "step" /\ (aborted \/ turn.step = MaxSteps)
  /\ EndTurn
  /\ UNCHANGED <<conversation, busy, waiters, modal, allowed, question, bounds>>

Answered(tools) ==
  /\ turn.at = "chat"
  /\ IF turn.plan /\ tools # <<>>
       THEN EndTurn /\ UNCHANGED history
       ELSE /\ history' = Append(history, Assistant(Len(tools)))
            /\ turn' = [turn EXCEPT !.at = "save", !.tools = tools,
                                    !.next = IF tools = <<>> THEN "idle" ELSE "tools"]
            /\ call' = [i \in 1..Len(tools) |-> "todo"]
            /\ UNCHANGED <<aborted, granted>>
  /\ UNCHANGED <<file, clearing, busy, waiters, modal, allowed, question, bounds>>

(* An error of the provider, or the abort of the request.                  *)
ChatFails ==
  /\ turn.at = "chat"
  /\ EndTurn
  /\ UNCHANGED <<conversation, busy, waiters, modal, allowed, question, bounds>>

-----------------------------------------------------------------------------
(***************************************************************************)
(* The tool calls.  A "woken" call holds the lock and has yet to look at   *)
(* the session cache again; a "done" call has its result.                  *)
(***************************************************************************)
Indices == 1..Len(turn.tools)
Sequential == Len(turn.tools) <= 1 \/ \E i \in Indices : turn.tools[i] \in Stateful
Working == {i \in Indices : call[i] \notin {"todo", "done", "recorded"}}
Becomes(i, s) == call' = [call EXCEPT ![i] = s]

(* mapWithConcurrency(), or the loop, which records a result at once.      *)
Turns(i) ==
  /\ turn.at = "tools" /\ call[i] = "todo"
  /\ \A j \in 1..(i - 1) : call[j] # "todo"
  /\ IF Sequential THEN \A j \in 1..(i - 1) : call[j] = "recorded"
     ELSE Cardinality(Working) < Pool

(* Mutant: any approval for the session covers every tool.                 *)
MutantCovered(i) == allowed # {}

Covered(i) == turn.tools[i] \in allowed \ Fresh

(* BridgedPrompter.ask() up to its first await.                            *)
Asks(i) ==
  IF Covered(i) THEN Becomes(i, "running") /\ UNCHANGED <<busy, waiters>>
  ELSE IF busy THEN Becomes(i, "parked") /\ waiters' = Append(waiters, i) /\ UNCHANGED busy
  ELSE Becomes(i, "woken") /\ busy' = TRUE /\ UNCHANGED waiters

(* A call whose arguments cannot be parsed, that no active skill allows or *)
(* that starts after the abort is refused; a question is published.        *)
Begin(i) ==
  /\ Turns(i) /\ ~(Sequential /\ aborted)
  /\ \/ Becomes(i, "done") /\ UNCHANGED <<busy, waiters, question>>
     \/ /\ ~aborted
        /\ CASE turn.tools[i] \in Guarded -> Asks(i) /\ UNCHANGED question
             [] turn.tools[i] \in Questions ->
                  question' = i /\ Becomes(i, "question") /\ UNCHANGED <<busy, waiters>>
             [] OTHER -> Becomes(i, "running") /\ UNCHANGED <<busy, waiters, question>>
  /\ UNCHANGED <<conversation, turn, aborted, modal, allowed, granted, bounds>>

(* The loop throws between two calls: the results so far are not saved.    *)
LoopAborted ==
  /\ Sequential /\ aborted /\ \E i \in Indices : Turns(i)
  /\ EndTurn
  /\ UNCHANGED <<conversation, busy, waiters, modal, allowed, question, bounds>>

(* Mutant: the lock is free until the waiter has woken up.                 *)
MutantStaysBusy == FALSE
(* Mutant: nobody frees it.                                                *)
MutantNeverFree == TRUE

StaysBusy == waiters # <<>>

(* ask()'s finally block, after call i has become s: the next waiter gets  *)
(* the lock, or nobody.                                                    *)
Release(i, s) ==
  /\ busy' = StaysBusy
  /\ IF waiters = <<>> THEN Becomes(i, s) /\ UNCHANGED waiters
     ELSE /\ call' = [call EXCEPT ![i] = s, ![Head(waiters)] = "woken"]
          /\ waiters' = Tail(waiters)

(* The second look at the cache, and askOnce().                            *)
Woken(i) ==
  /\ turn.at = "tools" /\ call[i] = "woken"
  /\ IF Covered(i) THEN Release(i, "running") /\ UNCHANGED modal
     ELSE IF aborted THEN Release(i, "done") /\ UNCHANGED modal
     ELSE modal' = i /\ Becomes(i, "modal") /\ UNCHANGED <<busy, waiters>>
  /\ UNCHANGED <<conversation, turn, aborted, allowed, question, granted, bounds>>

(* The terminal shows a question before a permission request.              *)
Decided(i, decision) ==
  /\ modal = i /\ i # None /\ question = None
  /\ modal' = None
  /\ Release(i, IF decision = "deny" THEN "done" ELSE "running")
  /\ granted' = IF decision = "deny" THEN granted ELSE granted \cup {i}
  /\ allowed' = IF decision = "allow-session" /\ turn.tools[i] \notin Fresh
                  THEN allowed \cup {turn.tools[i]} ELSE allowed
  /\ UNCHANGED <<conversation, turn, aborted, question, bounds>>

QuestionAnswered ==
  /\ question # None
  /\ question' = None
  /\ Becomes(question, "running")
  /\ UNCHANGED <<conversation, turn, aborted, busy, waiters, modal, allowed, granted, bounds>>

ToolReturns(i) ==
  /\ turn.at = "tools" /\ call[i] = "running"
  /\ Becomes(i, "done")
  /\ UNCHANGED <<conversation, turn, aborted, prompts, bounds>>

RecordOne(i) ==
  /\ turn.at = "tools" /\ Sequential /\ call[i] = "done"
  /\ history' = Append(history, Result(i))
  /\ Becomes(i, "recorded")
  /\ IF i = Len(turn.tools) THEN SaveThen("step") ELSE UNCHANGED turn
  /\ UNCHANGED <<file, clearing, aborted, prompts, bounds>>

(* After the save of a batch the abort is tested.                          *)
RecordAll ==
  /\ turn.at = "tools" /\ ~Sequential /\ \A i \in Indices : call[i] = "done"
  /\ history' = history \o [i \in Indices |-> Result(i)]
  /\ SaveThen("rest")
  /\ UNCHANGED <<file, clearing, aborted, call, prompts, bounds>>

-----------------------------------------------------------------------------
(***************************************************************************)
(* The user and the process.                                               *)
(***************************************************************************)
(* Every listener of the signal publishes null and rejects; a call that is *)
(* parked or running sees the abort later.                                 *)
Esc ==
  /\ turn.at # "idle" /\ ~aborted /\ aborted' = TRUE
  /\ modal' = None /\ question' = None
  /\ LET rejected == [i \in DOMAIN call |->
                        IF call[i] \in {"modal", "question"} THEN "done" ELSE call[i]] IN
     IF modal = None THEN call' = rejected /\ UNCHANGED <<busy, waiters>>
     ELSE /\ busy' = (waiters # <<>>)
          /\ call' = IF waiters = <<>> THEN rejected
                     ELSE [rejected EXCEPT ![Head(waiters)] = "woken"]
          /\ waiters' = IF waiters = <<>> THEN <<>> ELSE Tail(waiters)
  /\ UNCHANGED <<conversation, turn, allowed, granted, bounds>>

(* While a turn is busy the input takes no line.  (A command that completes *)
(* an open menu still passes it: the turn of /next, which runs no tools,    *)
(* can begin behind a /reset that is being typed; README, section 5.)       *)
Command == turn.at = "idle" /\ used < MaxTurns /\ used' = used + 1

InjectSkill(succeeds) ==
  /\ Command
  /\ history' = Append(history, Note)
  /\ file' = IF succeeds THEN history' ELSE file
  /\ UNCHANGED <<clearing, turn, aborted, call, prompts, crashes>>

(* compact(), on request.                                                  *)
Compact ==
  /\ Command /\ history # <<>>
  /\ turn' = [NoTurn EXCEPT !.at = "summary"]
  /\ UNCHANGED <<conversation, aborted, call, prompts, crashes>>

Summarised ==
  /\ turn.at = "summary"
  /\ history' = <<User>>
  /\ SaveThen("idle")
  /\ UNCHANGED <<file, clearing, aborted, call, prompts, bounds>>

SummaryFails ==
  /\ turn.at = "summary"
  /\ EndTurn
  /\ UNCHANGED <<conversation, busy, waiters, modal, allowed, question, bounds>>

(* The file is unlinked later, by which time it may be another one.        *)
Reset ==
  /\ Command
  /\ history' = <<>> /\ clearing' = TRUE
  /\ UNCHANGED <<file, turn, aborted, call, prompts, crashes>>

Unlinked ==
  /\ clearing /\ clearing' = FALSE
  /\ file' = <<>>
  /\ UNCHANGED <<history, turn, aborted, call, prompts, bounds>>

(* The process ends; the next one resumes the session.                     *)
Restart ==
  /\ crashes < MaxCrashes /\ crashes' = crashes + 1
  /\ history' = Reconciled(file)
  /\ clearing' = FALSE
  /\ turn' = NoTurn /\ aborted' = FALSE /\ call' = <<>>
  /\ busy' = FALSE /\ waiters' = <<>> /\ modal' = None /\ allowed' = {}
  /\ question' = None /\ granted' = {}
  /\ UNCHANGED <<file, used>>

Step ==
  \/ Compacted \/ CompactFails \/ PushUser \/ Request \/ StepsEnd \/ ChatFails
  \/ Summarised \/ SummaryFails \/ LoopAborted \/ RecordAll \/ QuestionAnswered \/ Unlinked
  \/ \E succeeds \in BOOLEAN : Saved(succeeds)
  \/ \E tools \in Batches \cup {<<>>} : Answered(tools)
  \/ \E i \in Indices :
       \/ Begin(i) \/ Woken(i) \/ ToolReturns(i) \/ RecordOne(i)
       \/ \E decision \in {"allow-once", "allow-session", "deny"} : Decided(i, decision)

Environment ==
  \/ \E plan, compacts \in BOOLEAN : Submit(plan, compacts)
  \/ \E succeeds \in BOOLEAN : InjectSkill(succeeds)
  \/ Compact \/ Reset \/ Esc \/ Restart

Next == Step \/ Environment

Spec == Init /\ [][Next]_vars

(* Awaits end: the provider answers or fails, files are written, tools     *)
(* return, and the user answers what the terminal shows.                   *)
FairSpec == Spec /\ WF_vars(Step)

-----------------------------------------------------------------------------
(* Whatever was aborted, saved half-way, resumed or injected before, every *)
(* request that reaches the provider answers each tool call, right after   *)
(* the message that made it, exactly once.                                 *)
RequestsPaired ==
  turn.at = "chat" =>
    \A k \in 1..Len(history) :
      /\ Calls(history[k]) > 0 =>
           /\ Cardinality(Answers(history, k)) = Calls(history[k])
           /\ Missing(history, k) = {}
      /\ history[k][1] = "tool" => k > 1 /\ history[k - 1][1] \in {"assistant", "tool"}

(* One call at a time holds the permission prompt and no other can take it *)
(* over; a call that waits is in the queue, once; a turn leaves no prompt. *)
OnePrompt ==
  LET holders == {i \in Indices : call # <<>> /\ call[i] \in {"woken", "modal"}} IN
  /\ Cardinality(holders) = IF busy THEN 1 ELSE 0
  /\ modal # None => modal \in holders /\ call[modal] = "modal"
  /\ ToSet(waiters) = {i \in Indices : call # <<>> /\ call[i] = "parked"}
  /\ Cardinality(ToSet(waiters)) = Len(waiters)
  /\ turn.at # "tools" => ~busy /\ modal = None /\ question = None

(* A tool that requires permission runs on the user's answer to its own    *)
(* request or to an earlier one for the same key.                          *)
RunsAllowed ==
  turn.at = "tools" =>
    \A i \in Indices :
      turn.tools[i] \in Guarded /\ call[i] = "running" =>
        i \in granted \/ turn.tools[i] \in allowed \ Fresh

(* A turn ends, also when several of its tools ask for a permission and    *)
(* one asks a question at once.  (Two questions: README, section 5.)       *)
TurnEnds == turn.at # "idle" ~> turn.at = "idle"
=============================================================================
