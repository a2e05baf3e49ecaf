---------------------------- MODULE AgentLoopProofs ----------------------------
(***************************************************************************)
(* Theorems of AgentLoop: permission prompts come one at a time, what      *)
(* requires permission runs on the user's answer, and every request that   *)
(* is sent pairs the tool calls of the conversation with their results.    *)
(***************************************************************************)
EXTENDS AgentLoop, FiniteSetTheorems, SequenceTheorems, TLAPS

Places == {"idle", "compact", "ask", "save", "step", "chat", "tools", "summary"}
Nexts == {"idle", "ask", "step", "tools", "rest"}
TurnType ==
  [at : Places, next : Nexts, step : Nat, tools : Batches \cup {<<>>}, plan : BOOLEAN]
Holding == {"woken", "modal"}
Settled == {"todo", "done", "recorded"}
States == Holding \cup Settled \cup {"parked", "question", "running"}

AgentType ==
  /\ turn \in TurnType /\ aborted \in BOOLEAN /\ busy \in BOOLEAN
  /\ call \in [Indices -> States]
  /\ waiters \in Seq(Nat) /\ modal \in Nat /\ question \in Nat

(* Whoever holds the lock has woken with it or shows its request.          *)
Locked ==
  /\ busy => \E i \in Indices : call[i] \in Holding
  /\ \A i \in Indices : call[i] \in Holding => busy
  /\ \A i, j \in Indices : call[i] \in Holding /\ call[j] \in Holding => i = j

(* What the terminal shows belongs to a call that waits for it.            *)
Shown ==
  /\ modal # None => modal \in Indices /\ call[modal] = "modal"
  /\ \A i \in Indices : call[i] = "modal" => modal = i
  /\ question # None => question \in Indices /\ call[question] = "question"
  /\ \A i \in Indices : call[i] = "question" => turn.tools[i] \in Questions

(* The waiters are the parked calls, each of them once.                    *)
Queue ==
  /\ \A l \in 1..Len(waiters) : waiters[l] \in Indices /\ call[waiters[l]] = "parked"
  /\ \A i \in Indices : call[i] = "parked" => \E l \in 1..Len(waiters) : waiters[l] = i
  /\ \A l, m \in 1..Len(waiters) : waiters[l] = waiters[m] => l = m

(* Outside the tools no call is under way; alone, the calls go in order.   *)
Quiet ==
  /\ turn.at # "tools" => \A i \in Indices : call[i] \in Settled
  /\ turn.at = "save" /\ turn.next = "tools" => \A i \in Indices : call[i] = "todo"
  /\ turn.at = "idle" => turn.tools = <<>>
InOrder ==
  turn.at = "tools" /\ Sequential =>
    \A i \in Indices : call[i] # "todo" => \A j \in 1..(i - 1) : call[j] = "recorded"

Permitted ==
  \A i \in Indices :
    turn.tools[i] \in Guarded /\ call[i] = "running" =>
      i \in granted \/ turn.tools[i] \in allowed \ Fresh

PromptInv ==
  AgentType /\ Locked /\ Shown /\ Queue /\ Quiet /\ InOrder /\ Permitted

(* The number of calls is a number.                                        *)
LEMMA LenTools ==
  ASSUME turn \in TurnType
  PROVE  Len(turn.tools) \in Nat /\ Indices \subseteq Nat \ {0} /\ IsFiniteSet(Indices)
<1>1. turn.tools \in Batches \cup {<<>>}
  BY DEF TurnType
<1>2. Len(<<>>) = 0
  OBVIOUS
<1>3. Len(turn.tools) \in Nat
  BY <1>1, <1>2, AgentAssumption
<1>4. IsFiniteSet(1..Len(turn.tools))
  BY <1>3, FS_Interval
<1> QED BY <1>3, <1>4 DEF Indices

(* The waiters and the holder, counted.                                    *)
LEMMA PromptInvImplies == PromptInv => OnePrompt /\ RunsAllowed
<1> SUFFICES ASSUME PromptInv PROVE OnePrompt /\ RunsAllowed
  OBVIOUS
<1> USE DEF PromptInv
<1>0. Len(turn.tools) \in Nat /\ Indices \subseteq Nat \ {0} /\ IsFiniteSet(Indices)
  BY LenTools DEF AgentType
<1>1. \A i \in Indices : call # <<>>
  <2> SUFFICES ASSUME NEW i \in Indices PROVE call # <<>>
    OBVIOUS
  <2>1. DOMAIN call = Indices /\ DOMAIN <<>> = {}
    BY DEF AgentType
  <2> QED BY <2>1
<1> DEFINE holders == {i \in Indices : call # <<>> /\ call[i] \in {"woken", "modal"}}
           parked == {i \in Indices : call # <<>> /\ call[i] = "parked"}
<1>2. Cardinality(holders) = IF busy THEN 1 ELSE 0
  <2>1. CASE busy
    <3>1. PICK i \in Indices : call[i] \in Holding
      BY <2>1 DEF Locked
    <3>2. holders = {i}
      BY <1>1, <3>1 DEF Locked, Holding
    <3> QED BY <2>1, <3>2, FS_Singleton
  <2>2. CASE ~busy
    <3>1. holders = {}
      BY <2>2 DEF Locked, Holding
    <3> QED BY <2>2, <3>1, FS_EmptySet
  <2> QED BY <2>1, <2>2
<1>3. modal # None => modal \in holders /\ call[modal] = "modal"
  BY <1>1 DEF Shown
<1>4. Len(waiters) \in Nat /\ DOMAIN waiters = 1..Len(waiters)
  BY DEF AgentType
<1>5. ToSet(waiters) = {waiters[l] : l \in 1..Len(waiters)}
  BY <1>4 DEF ToSet
<1>6. ToSet(waiters) = parked
  BY <1>1, <1>5 DEF Queue
<1>7. Cardinality(ToSet(waiters)) = Len(waiters)
  <2> DEFINE S == ToSet(waiters)
             f == [l \in 1..Len(waiters) |-> waiters[l]]
  <2>1. f \in Injection(1..Len(waiters), S)
    BY <1>5 DEF Injection, IsInjective, Queue
  <2>2. f \in Surjection(1..Len(waiters), S)
    BY <1>5 DEF Surjection
  <2>3. ExistsBijection(1..Len(waiters), S)
    BY <2>1, <2>2 DEF ExistsBijection, Bijection
  <2> QED BY <1>4, <2>3, FS_CountingElements
<1>8. turn.at # "tools" => ~busy /\ modal = None /\ question = None
  BY DEF Quiet, Locked, Shown, Holding, Settled
<1>9. OnePrompt
  BY <1>2, <1>3, <1>6, <1>7, <1>8 DEF OnePrompt
<1>10. RunsAllowed
  BY DEF RunsAllowed, Permitted
<1> QED BY <1>9, <1>10

-----------------------------------------------------------------------------
(* Between the tool calls.                                                 *)
LEMMA PromptUnchanged ==
  ASSUME PromptInv,
         UNCHANGED <<turn, aborted, call, busy, waiters, modal, allowed, question, granted>>
  PROVE  PromptInv'
<1>1. Indices' = Indices /\ Sequential' = Sequential
  BY DEF Indices, Sequential
<1> QED BY <1>1 DEF PromptInv, AgentType, Locked, Shown, Queue, Quiet, InOrder, Permitted

(* With no call under way nobody holds the lock, waits or is shown.        *)
LEMMA Inactive ==
  ASSUME PromptInv, \A i \in Indices : call[i] \in Settled
  PROVE  ~busy /\ waiters = <<>> /\ modal = None /\ question = None
<1>1. ~busy
  BY DEF PromptInv, Locked, Holding, Settled
<1>2. modal = None /\ question = None
  BY DEF PromptInv, Shown, Settled
<1>3. Len(waiters) = 0
  <2>1. Len(waiters) \in Nat
    BY DEF PromptInv, AgentType
  <2>2. ~(1 \in 1..Len(waiters))
    BY DEF PromptInv, Queue, Settled
  <2> QED BY <2>1, <2>2
<1>4. waiters = <<>>
  BY <1>3, EmptySeq DEF PromptInv, AgentType
<1> QED BY <1>1, <1>2, <1>4

(* A turn without calls, once those it had are over.                       *)
LEMMA NoCalls ==
  ASSUME PromptInv, \A i \in Indices : call[i] \in Settled,
         turn' \in TurnType, turn'.at # "tools", turn'.tools = <<>>, call' = <<>>,
         aborted' \in BOOLEAN, UNCHANGED <<busy, waiters, modal, question>>
  PROVE  PromptInv'
<1>1. Indices' = {}
  BY DEF Indices
<1>2. ~busy /\ waiters = <<>> /\ modal = None /\ question = None
  BY Inactive
<1>3. AgentType'
  <2>1. call' \in [Indices' -> States]
    BY <1>1
  <2>2. busy' \in BOOLEAN /\ waiters' \in Seq(Nat) /\ modal' \in Nat /\ question' \in Nat
    BY DEF PromptInv, AgentType
  <2> QED BY <2>1, <2>2 DEF AgentType
<1>4. Locked' /\ Shown' /\ Queue' /\ Quiet' /\ InOrder' /\ Permitted'
  BY <1>1, <1>2 DEF Locked, Shown, Queue, Quiet, InOrder, Permitted
<1> QED BY <1>3, <1>4 DEF PromptInv

LEMMA EndTurnKeeps ==
  ASSUME PromptInv, \A i \in Indices : call[i] \in Settled, EndTurn,
         UNCHANGED <<busy, waiters, modal, question>>
  PROVE  PromptInv'
<1>1. NoTurn \in TurnType /\ NoTurn.at = "idle" /\ NoTurn.tools = <<>>
  BY DEF NoTurn, TurnType, Places, Nexts
<1> QED BY <1>1, NoCalls DEF EndTurn

(* The turn goes on, or begins, without touching its calls.                *)
LEMMA TurnMoves ==
  ASSUME PromptInv, turn.at # "tools", turn' \in TurnType, turn'.tools = turn.tools,
         turn'.at # "tools", turn'.at # "idle", ~(turn'.at = "save" /\ turn'.next = "tools"),
         UNCHANGED <<aborted, call, busy, waiters, modal, allowed, question, granted>>
  PROVE  PromptInv'
<1>1. Indices' = Indices
  BY DEF Indices
<1>2. AgentType'
  BY <1>1 DEF PromptInv, AgentType
<1>3. Locked' /\ Shown' /\ Queue'
  BY <1>1 DEF PromptInv, Locked, Shown, Queue
<1>4. Quiet' /\ InOrder' /\ Permitted'
  BY <1>1 DEF PromptInv, Quiet, InOrder, Permitted
<1> QED BY <1>2, <1>3, <1>4 DEF PromptInv

LEMMA BetweenKeeps ==
  ASSUME PromptInv
  PROVE  /\ \A plan, compacts \in BOOLEAN : Submit(plan, compacts) => PromptInv'
         /\ Compacted \/ CompactFails \/ PushUser \/ Request \/ Compact \/ Summarised
              => PromptInv'
<1>0. turn \in TurnType /\ NoTurn \in TurnType /\ NoTurn.tools = <<>>
  BY DEF PromptInv, AgentType, NoTurn, TurnType, Places, Nexts
<1>1. ASSUME NEW plan \in BOOLEAN, NEW compacts \in BOOLEAN, Submit(plan, compacts)
      PROVE  PromptInv'
  <2> DEFINE at == IF compacts THEN "compact" ELSE "ask"
  <2>1. turn' = [NoTurn EXCEPT !.at = at, !.plan = plan] /\ at \in {"compact", "ask"}
    BY <1>1 DEF Submit
  <2> HIDE DEF at
  <2>2. turn' \in TurnType /\ turn'.at = at /\ turn'.tools = <<>>
    BY <1>0, <2>1 DEF TurnType, Places
  <2>3. turn.at = "idle" /\ turn.tools = <<>>
    BY <1>1 DEF Submit, PromptInv, Quiet
  <2>4. UNCHANGED <<aborted, call, busy, waiters, modal, allowed, question, granted>>
    BY <1>1 DEF Submit, prompts
  <2> QED BY <2>1, <2>2, <2>3, <2>4, TurnMoves
<1>2. ASSUME NEW p \in Places \ {"tools", "idle", "save"}, Go(p), turn.at # "tools",
             UNCHANGED <<aborted, call, prompts>>
      PROVE  PromptInv'
  <2>1. turn' \in TurnType /\ turn'.at = p /\ turn'.tools = turn.tools
    BY <1>0, <1>2 DEF Go, TurnType
  <2> QED BY <1>2, <2>1, TurnMoves DEF prompts
<1>3. ASSUME NEW p \in Nexts \ {"tools"}, SaveThen(p), turn.at # "tools",
             UNCHANGED <<aborted, call, prompts>>
      PROVE  PromptInv'
  <2>1. turn' \in TurnType /\ turn'.at = "save" /\ turn'.next = p /\ turn'.tools = turn.tools
    BY <1>0, <1>3 DEF SaveThen, TurnType, Places
  <2> QED BY <1>3, <2>1, TurnMoves DEF prompts
<1>4. CASE Compacted \/ PushUser \/ Summarised
  BY <1>3, <1>4 DEF Compacted, PushUser, Summarised, Nexts
<1>5. CASE CompactFails
  BY <1>2, <1>5 DEF CompactFails, Places
<1>6. CASE Request
  <2> DEFINE next == turn.step + 1
  <2>0. next \in Nat
    BY <1>0 DEF TurnType
  <2>1. turn' = [turn EXCEPT !.at = "chat", !.step = next] /\ turn.at = "step"
    BY <1>6 DEF Request
  <2> HIDE DEF next
  <2>2. turn' \in TurnType /\ turn'.at = "chat" /\ turn'.tools = turn.tools
    BY <1>0, <2>0, <2>1 DEF TurnType, Places
  <2>3. UNCHANGED <<aborted, call, busy, waiters, modal, allowed, question, granted>>
    BY <1>6 DEF Request, prompts
  <2> QED BY <2>1, <2>2, <2>3, TurnMoves
<1>7. CASE Compact
  <2>1. turn' = [NoTurn EXCEPT !.at = "summary"] /\ turn.at = "idle" /\ turn.tools = <<>>
    BY <1>7 DEF Compact, Command, PromptInv, Quiet
  <2>2. turn' \in TurnType /\ turn'.at = "summary" /\ turn'.tools = <<>>
    BY <1>0, <2>1 DEF TurnType, Places
  <2>3. UNCHANGED <<aborted, call, busy, waiters, modal, allowed, question, granted>>
    BY <1>7 DEF Compact, prompts
  <2> QED BY <2>1, <2>2, <2>3, TurnMoves
<1> QED BY <1>1, <1>4, <1>5, <1>6, <1>7

LEMMA SavedKeeps == ASSUME PromptInv, NEW succeeds \in BOOLEAN, Saved(succeeds) PROVE PromptInv'
<1>0. turn \in TurnType /\ turn.at = "save" /\ (\A i \in Indices : call[i] \in Settled)
  BY DEF Saved, PromptInv, AgentType, Quiet
<1>1. UNCHANGED <<busy, waiters, modal, allowed, question>>
  BY DEF Saved
<1>2. CASE turn.next = "idle" \/ (turn.next = "rest" /\ aborted)
  BY <1>0, <1>1, <1>2, EndTurnKeeps DEF Saved
<1>3. CASE turn.next = "tools"
  <2>1. turn' = [turn EXCEPT !.at = "tools"] /\ UNCHANGED <<aborted, call, granted>>
    BY <1>3 DEF Saved, Go
  <2>2. turn' \in TurnType /\ turn'.at = "tools" /\ turn'.tools = turn.tools
    BY <1>0, <2>1 DEF TurnType, Places
  <2>3. Indices' = Indices
    BY <2>2 DEF Indices
  <2>4. AgentType'
    BY <1>1, <2>1, <2>2, <2>3 DEF PromptInv, AgentType
  <2>5. Locked' /\ Shown' /\ Queue'
    BY <1>1, <2>1, <2>2, <2>3 DEF PromptInv, Locked, Shown, Queue
  <2>6. \A i \in Indices : call[i] = "todo"
    BY <1>0, <1>3 DEF PromptInv, Quiet
  <2>7. Quiet' /\ InOrder' /\ Permitted'
    BY <2>1, <2>2, <2>3, <2>6 DEF Quiet, InOrder, Permitted
  <2> QED BY <2>4, <2>5, <2>7 DEF PromptInv
<1>4. CASE ~(turn.next = "idle" \/ (turn.next = "rest" /\ aborted)) /\ turn.next # "tools"
  <2> DEFINE at == IF turn.next = "ask" THEN "ask" ELSE "step"
  <2>1. /\ turn' = [turn EXCEPT !.at = at, !.tools = <<>>]
        /\ call' = <<>> /\ aborted' = aborted
    BY <1>4 DEF Saved
  <2>2. at \in {"ask", "step"}
    OBVIOUS
  <2> HIDE DEF at
  <2>3. turn' \in TurnType /\ turn'.at = at /\ turn'.tools = <<>>
    BY <1>0, <2>1, <2>2 DEF TurnType, Places
  <2>4. aborted' \in BOOLEAN
    BY <2>1 DEF PromptInv, AgentType
  <2> QED BY <1>0, <1>1, <2>1, <2>2, <2>3, <2>4, NoCalls
<1> QED BY <1>2, <1>3, <1>4

LEMMA AnsweredKeeps ==
  ASSUME PromptInv, NEW tools \in Batches \cup {<<>>}, Answered(tools) PROVE PromptInv'
<1>0. /\ turn \in TurnType /\ turn.at = "chat" /\ (\A i \in Indices : call[i] \in Settled)
      /\ UNCHANGED <<busy, waiters, modal, allowed, question>>
  BY DEF Answered, PromptInv, AgentType, Quiet
<1>1. CASE turn.plan /\ tools # <<>>
  BY <1>0, <1>1, EndTurnKeeps DEF Answered
<1>2. CASE ~(turn.plan /\ tools # <<>>)
  <2> DEFINE next == IF tools = <<>> THEN "idle" ELSE "tools"
  <2>1. /\ turn' = [turn EXCEPT !.at = "save", !.tools = tools, !.next = next]
        /\ call' = [i \in 1..Len(tools) |-> "todo"] /\ UNCHANGED <<aborted, granted>>
    BY <1>2 DEF Answered
  <2>2. next \in Nexts
    BY DEF Nexts
  <2> HIDE DEF next
  <2>3. turn' \in TurnType /\ turn'.at = "save" /\ turn'.tools = tools
    BY <1>0, <2>1, <2>2 DEF TurnType, Places
  <2>4. Indices' = 1..Len(tools)
    BY <2>3 DEF Indices
  <2>5. ~busy /\ waiters = <<>> /\ modal = None /\ question = None
    BY <1>0, Inactive
  <2>6. call' \in [Indices' -> States] /\ \A i \in Indices' : call'[i] = "todo"
    BY <2>1, <2>4 DEF States, Settled
  <2>7. AgentType'
    BY <1>0, <2>1, <2>3, <2>6 DEF PromptInv, AgentType
  <2>8. Locked' /\ Shown' /\ Queue'
    BY <1>0, <2>5, <2>6 DEF Locked, Shown, Queue, Holding
  <2>9. Quiet' /\ InOrder' /\ Permitted'
    BY <2>3, <2>6 DEF Quiet, InOrder, Permitted, Settled
  <2> QED BY <2>7, <2>8, <2>9 DEF PromptInv
<1> QED BY <1>1, <1>2

LEMMA TurnFails ==
  ASSUME PromptInv, StepsEnd \/ ChatFails \/ SummaryFails PROVE PromptInv'
<1>1. \A i \in Indices : call[i] \in Settled
  BY DEF StepsEnd, ChatFails, SummaryFails, PromptInv, Quiet
<1> QED BY <1>1, EndTurnKeeps DEF StepsEnd, ChatFails, SummaryFails

(* In the loop the calls before the one whose turn it is are recorded and  *)
(* those after it have not begun.                                          *)
LEMMA LoopAbortedKeeps == ASSUME PromptInv, LoopAborted PROVE PromptInv'
<1>1. PICK i \in Indices : Turns(i)
  BY DEF LoopAborted
<1>2. /\ Sequential /\ turn.at = "tools" /\ call[i] = "todo"
      /\ \A j \in 1..(i - 1) : call[j] = "recorded"
  BY <1>1 DEF LoopAborted, Turns
<1>3. Indices \subseteq Nat \ {0}
  BY LenTools DEF PromptInv, AgentType
<1>4. ASSUME NEW j \in Indices PROVE call[j] \in Settled
  <2>1. j < i \/ j = i \/ i < j
    BY <1>3
  <2>2. CASE j < i
    <3>1. j \in 1..(i - 1)
      BY <1>3, <2>2
    <3> QED BY <1>2, <3>1 DEF Settled
  <2>3. CASE i < j
    <3>1. i \in 1..(j - 1)
      BY <1>3, <2>3
    <3>2. call[j] = "todo"
      BY <1>2, <3>1 DEF PromptInv, InOrder
    <3> QED BY <3>2 DEF Settled
  <2> QED BY <1>2, <2>1, <2>2, <2>3 DEF Settled
<1> QED BY <1>4, EndTurnKeeps DEF LoopAborted

-----------------------------------------------------------------------------
(* The tool calls.                                                         *)
LEMMA ToolFacts ==
  ASSUME PromptInv
  PROVE  /\ turn \in TurnType /\ call \in [Indices -> States]
         /\ Indices \subseteq Nat \ {0}
         /\ \A k \in Indices : \A j \in 1..(k - 1) : j \in Indices /\ j < k
         /\ turn' = turn => Indices' = Indices /\ Sequential' = Sequential
<1>1. turn \in TurnType /\ call \in [Indices -> States]
  BY DEF PromptInv, AgentType
<1>2. Len(turn.tools) \in Nat /\ Indices \subseteq Nat \ {0}
  BY <1>1, LenTools
<1>3. \A k \in Indices : \A j \in 1..(k - 1) : j \in Indices /\ j < k
  BY <1>2 DEF Indices
<1>4. turn' = turn => Indices' = Indices /\ Sequential' = Sequential
  BY DEF Indices, Sequential
<1> QED BY <1>1, <1>2, <1>3, <1>4

(* A call that starts moves on in its turn, and no recorded call moves.    *)
LEMMA OrderKept ==
  ASSUME PromptInv, turn' = turn, NEW i \in Indices, NEW s, call[i] # "recorded",
         call' = [call EXCEPT ![i] = s],
         turn.at = "tools" /\ Sequential => \A j \in 1..(i - 1) : call[j] = "recorded"
  PROVE  InOrder'
<1>1. \A k \in Indices : call'[k] = IF k = i THEN s ELSE call[k]
  BY ToolFacts
<1> SUFFICES ASSUME turn.at = "tools", Sequential, NEW k \in Indices, call'[k] # "todo",
                    NEW j \in 1..(k - 1)
             PROVE  call'[j] = "recorded"
  BY ToolFacts DEF InOrder
<1>2. j \in Indices /\ j < k
  BY ToolFacts
<1>3. call[j] = "recorded"
  BY <1>1 DEF PromptInv, InOrder
<1> QED BY <1>1, <1>2, <1>3

(* A call that neither waits for a prompt nor begins to.                   *)
LEMMA CallMoves ==
  ASSUME PromptInv, turn.at = "tools", turn' = turn, aborted' = aborted, NEW i \in Indices,
         call[i] \in {"todo", "running", "done"}, NEW s \in {"running", "done", "recorded"},
         call' = [call EXCEPT ![i] = s],
         UNCHANGED <<busy, waiters, modal, question, allowed, granted>>,
         s = "running" => turn.tools[i] \notin Guarded \/ turn.tools[i] \in allowed \ Fresh,
         Sequential => \A j \in 1..(i - 1) : call[j] = "recorded"
  PROVE  PromptInv'
<1>1. Indices' = Indices /\ \A k \in Indices : call'[k] = IF k = i THEN s ELSE call[k]
  BY ToolFacts
<1>2. AgentType'
  BY <1>1, ToolFacts DEF PromptInv, AgentType, States, Settled
<1>3. Locked'
  BY <1>1 DEF PromptInv, Locked, Holding
<1>4. Shown'
  BY <1>1 DEF PromptInv, Shown
<1>5. Queue'
  BY <1>1 DEF PromptInv, Queue
<1>6. Quiet' /\ Permitted'
  BY <1>1 DEF PromptInv, Quiet, Permitted
<1>7. InOrder'
  BY OrderKept
<1> QED BY <1>2, <1>3, <1>4, <1>5, <1>6, <1>7 DEF PromptInv

LEMMA QuestionAsked ==
  ASSUME PromptInv, turn.at = "tools", turn' = turn, aborted' = aborted, NEW i \in Indices,
         call[i] = "todo", call' = [call EXCEPT ![i] = "question"], question' = i,
         turn.tools[i] \in Questions, UNCHANGED <<busy, waiters, modal, allowed, granted>>,
         Sequential => \A j \in 1..(i - 1) : call[j] = "recorded"
  PROVE  PromptInv'
<1>1. Indices' = Indices /\ \A k \in Indices : call'[k] = IF k = i THEN "question" ELSE call[k]
  BY ToolFacts
<1>2. AgentType'
  BY <1>1, ToolFacts DEF PromptInv, AgentType, States
<1>3. Locked'
  BY <1>1 DEF PromptInv, Locked, Holding
<1>4. Shown'
  BY <1>1 DEF PromptInv, Shown
<1>5. Queue'
  BY <1>1 DEF PromptInv, Queue
<1>6. Quiet' /\ Permitted'
  BY <1>1 DEF PromptInv, Quiet, Permitted
<1>7. InOrder'
  BY OrderKept
<1> QED BY <1>2, <1>3, <1>4, <1>5, <1>6, <1>7 DEF PromptInv

LEMMA QuestionAnsweredKeeps == ASSUME PromptInv, QuestionAnswered PROVE PromptInv'
<1> DEFINE i == question
<1>1. /\ i # None /\ i \in Indices /\ call[i] = "question" /\ turn.tools[i] \notin Guarded
      /\ turn.at = "tools"
  BY AgentAssumption DEF QuestionAnswered, PromptInv, Shown, Quiet, Settled
<1>2. /\ question' = None /\ call' = [call EXCEPT ![i] = "running"] /\ turn' = turn
      /\ UNCHANGED <<aborted, busy, waiters, modal, allowed, granted>>
  BY DEF QuestionAnswered, Becomes
<1>3. Indices' = Indices /\ \A k \in Indices : call'[k] = IF k = i THEN "running" ELSE call[k]
  BY <1>1, <1>2, ToolFacts
<1>4. AgentType'
  BY <1>1, <1>2, <1>3, ToolFacts DEF PromptInv, AgentType, States, None
<1>5. Locked'
  BY <1>1, <1>2, <1>3 DEF PromptInv, Locked, Holding
<1>6. Shown'
  BY <1>1, <1>2, <1>3 DEF PromptInv, Shown
<1>7. Queue'
  BY <1>1, <1>2, <1>3 DEF PromptInv, Queue
<1>8. Quiet' /\ Permitted'
  BY <1>1, <1>2, <1>3 DEF PromptInv, Quiet, Permitted
<1>9. InOrder'
  BY <1>1, <1>2, OrderKept DEF PromptInv, InOrder
<1> QED BY <1>4, <1>5, <1>6, <1>7, <1>8, <1>9 DEF PromptInv

(* A request behind the lock, and one that takes it.                       *)
LEMMA Parked ==
  ASSUME PromptInv, turn.at = "tools", turn' = turn, aborted' = aborted, NEW i \in Indices,
         call[i] = "todo", call' = [call EXCEPT ![i] = "parked"], waiters' = Append(waiters, i),
         UNCHANGED <<busy, modal, question, allowed, granted>>,
         Sequential => \A j \in 1..(i - 1) : call[j] = "recorded"
  PROVE  PromptInv'
<1>1. Indices' = Indices /\ \A k \in Indices : call'[k] = IF k = i THEN "parked" ELSE call[k]
  BY ToolFacts
<1>2. i \in Nat /\ waiters \in Seq(Nat) /\ Len(waiters) \in Nat
  BY ToolFacts DEF PromptInv, AgentType
<1>3. /\ waiters' \in Seq(Nat) /\ Len(waiters') = Len(waiters) + 1
      /\ \A l \in 1..Len(waiters) : waiters'[l] = waiters[l]
      /\ waiters'[Len(waiters) + 1] = i
  BY <1>2, AppendProperties
<1>4. AgentType'
  BY <1>1, <1>3, ToolFacts DEF PromptInv, AgentType, States
<1>5. Locked'
  BY <1>1 DEF PromptInv, Locked, Holding
<1>6. Shown'
  BY <1>1 DEF PromptInv, Shown
<1>7. Queue'
  <2>1. \A l \in 1..Len(waiters') : l \in 1..Len(waiters) \/ l = Len(waiters) + 1
    BY <1>2, <1>3
  <2>2. 1..Len(waiters) \subseteq 1..Len(waiters') /\ Len(waiters) + 1 \in 1..Len(waiters')
    BY <1>2, <1>3
  <2>3. \A l \in 1..Len(waiters') : waiters'[l] \in Indices /\ call'[waiters'[l]] = "parked"
    BY <1>1, <1>3, <2>1 DEF PromptInv, Queue
  <2>4. \A k \in Indices : call'[k] = "parked" => \E l \in 1..Len(waiters') : waiters'[l] = k
    BY <1>1, <1>3, <2>2 DEF PromptInv, Queue
  <2>5. \A l, m \in 1..Len(waiters') : waiters'[l] = waiters'[m] => l = m
    <3>1. \A l \in 1..Len(waiters) : waiters[l] # i
      BY DEF PromptInv, Queue
    <3>2. \A l, m \in 1..Len(waiters) : waiters[l] = waiters[m] => l = m
      BY DEF PromptInv, Queue
    <3> QED BY <1>3, <2>1, <3>1, <3>2
  <2> QED BY <1>1, <2>3, <2>4, <2>5 DEF Queue
<1>8. Quiet' /\ Permitted'
  BY <1>1 DEF PromptInv, Quiet, Permitted
<1>9. InOrder'
  BY OrderKept
<1> QED BY <1>4, <1>5, <1>6, <1>7, <1>8, <1>9 DEF PromptInv

LEMMA LockTaken ==
  ASSUME PromptInv, turn.at = "tools", turn' = turn, aborted' = aborted, NEW i \in Indices,
         call[i] = "todo", ~busy, busy' = TRUE, call' = [call EXCEPT ![i] = "woken"],
         UNCHANGED <<waiters, modal, question, allowed, granted>>,
         Sequential => \A j \in 1..(i - 1) : call[j] = "recorded"
  PROVE  PromptInv'
<1>1. Indices' = Indices /\ \A k \in Indices : call'[k] = IF k = i THEN "woken" ELSE call[k]
  BY ToolFacts
<1>2. AgentType'
  BY <1>1, ToolFacts DEF PromptInv, AgentType, States, Holding
<1>3. Locked'
  BY <1>1 DEF PromptInv, Locked, Holding
<1>4. Shown'
  BY <1>1 DEF PromptInv, Shown
<1>5. Queue'
  BY <1>1 DEF PromptInv, Queue
<1>6. Quiet' /\ Permitted'
  BY <1>1 DEF PromptInv, Quiet, Permitted
<1>7. InOrder'
  BY OrderKept
<1> QED BY <1>2, <1>3, <1>4, <1>5, <1>6, <1>7 DEF PromptInv

(* The holder of the lock asks the user.                                   *)
LEMMA RequestShown ==
  ASSUME PromptInv, turn.at = "tools", turn' = turn, aborted' = aborted, NEW i \in Indices,
         call[i] = "woken", modal' = i, call' = [call EXCEPT ![i] = "modal"],
         UNCHANGED <<busy, waiters, question, allowed, granted>>
  PROVE  PromptInv'
<1>1. Indices' = Indices /\ \A k \in Indices : call'[k] = IF k = i THEN "modal" ELSE call[k]
  BY ToolFacts
<1>2. \A k \in Indices : call[k] # "modal"
  BY DEF PromptInv, Locked, Holding
<1>3. AgentType'
  BY <1>1, ToolFacts DEF PromptInv, AgentType, States, Holding
<1>4. Locked'
  BY <1>1 DEF PromptInv, Locked, Holding
<1>5. Shown'
  BY <1>1, <1>2 DEF PromptInv, Shown
<1>6. Queue'
  BY <1>1 DEF PromptInv, Queue
<1>7. Quiet' /\ Permitted'
  BY <1>1 DEF PromptInv, Quiet, Permitted
<1>8. InOrder'
  BY OrderKept DEF PromptInv, InOrder
<1> QED BY <1>3, <1>4, <1>5, <1>6, <1>7, <1>8 DEF PromptInv

(* The holder i leaves the lock, to the first waiter if there is one; an   *)
(* abort ends the questions at the same time.  c has the calls before the  *)
(* waiter is woken.                                                        *)
LEMMA LockLeft ==
  ASSUME PromptInv, turn.at = "tools", turn' = turn, aborted' \in BOOLEAN, NEW i \in Indices,
         call[i] \in Holding, NEW c \in [Indices -> States], c[i] \in {"running", "done"},
         \A k \in Indices : k # i => c[k] = call[k] \/ (call[k] = "question" /\ c[k] = "done"),
         busy' = (waiters # <<>>),
         call' = IF waiters = <<>> THEN c ELSE [c EXCEPT ![Head(waiters)] = "woken"],
         waiters' = IF waiters = <<>> THEN waiters ELSE Tail(waiters),
         modal' = None,
         \/ question' = None
         \/ question' = question /\ \A k \in Indices : k # i => c[k] = call[k],
         allowed \subseteq allowed', granted \subseteq granted',
         c[i] = "running" => i \in granted' \/ turn.tools[i] \in allowed' \ Fresh
  PROVE  PromptInv'
<1>1. Indices' = Indices /\ Sequential' = Sequential
  BY ToolFacts
<1>2. waiters \in Seq(Nat) /\ Len(waiters) \in Nat
  BY DEF PromptInv, AgentType
<1>3. \A k \in Indices : k # i => call[k] \notin Holding
  BY DEF PromptInv, Locked
<1>4. CASE waiters = <<>>
  <2>1. busy' = FALSE /\ call' = c /\ waiters' = waiters
    BY <1>4
  <2>2. \A k \in Indices : c[k] \notin Holding
    BY <1>3 DEF Holding
  <2>3. \A k \in Indices : call[k] # "parked" /\ c[k] # "parked"
    <3>1. Len(waiters) = 0
      BY <1>4
    <3>2. \A k \in Indices : call[k] # "parked"
      BY <3>1 DEF PromptInv, Queue
    <3> QED BY <3>2
  <2>4. AgentType'
    BY <1>1, <1>2, <2>1 DEF PromptInv, AgentType, None
  <2>5. Locked'
    BY <1>1, <2>1, <2>2 DEF Locked
  <2>6. Shown'
    BY <1>1, <2>1, <2>2 DEF PromptInv, Shown, Holding
  <2>7. Queue'
    BY <1>1, <1>4, <2>1, <2>3 DEF Queue
  <2>8. Quiet' /\ Permitted'
    BY <1>1, <2>1 DEF PromptInv, Quiet, Permitted
  <2>9. InOrder'
    BY <1>1, <2>1, ToolFacts DEF PromptInv, InOrder, Holding
  <2> QED BY <2>4, <2>5, <2>6, <2>7, <2>8, <2>9 DEF PromptInv
<1>5. CASE waiters # <<>>
  <2> DEFINE h == Head(waiters)
  <2>0. 1 \in 1..Len(waiters) /\ h = waiters[1]
    BY <1>2, <1>5, EmptySeq
  <2>1. h \in Indices /\ call[h] = "parked" /\ h # i
    BY <2>0 DEF PromptInv, Queue, Holding
  <2>2. /\ waiters' \in Seq(Nat) /\ Len(waiters') = Len(waiters) - 1
        /\ \A l \in 1..Len(waiters') : waiters'[l] = waiters[l + 1] /\ l + 1 \in 1..Len(waiters)
    BY <1>2, <1>5, HeadTailProperties
  <2>3. busy' = TRUE /\ call' = [c EXCEPT ![h] = "woken"]
    BY <1>5
  <2> HIDE DEF h
  <2>4. \A k \in Indices : call'[k] = IF k = h THEN "woken" ELSE c[k]
    BY <2>3
  <2>5. \A k \in Indices : call'[k] \in Holding => k = h
    BY <1>3, <2>4 DEF Holding
  <2>6. AgentType'
    <3>1. call' \in [Indices' -> States]
      BY <1>1, <2>3 DEF States, Holding
    <3>2. modal' \in Nat /\ question' \in Nat
      BY DEF PromptInv, AgentType, None
    <3> QED BY <2>2, <2>3, <3>1, <3>2 DEF PromptInv, AgentType
  <2>7. Locked'
    BY <1>1, <2>1, <2>3, <2>4, <2>5 DEF Locked, Holding
  <2>8. Shown'
    <3>1. \A k \in Indices : call'[k] # "modal"
      BY <2>4, <2>5 DEF Holding
    <3>2. \A k \in Indices : call'[k] = "question" => call[k] = "question"
      BY <2>4
    <3>3. question' # None => question' \in Indices /\ call'[question'] = "question"
      BY <2>1, <2>4 DEF PromptInv, Shown, Holding
    <3> QED BY <1>1, <3>1, <3>2, <3>3 DEF PromptInv, Shown
  <2>9. Queue'
    <3>1. \A l, m \in 1..Len(waiters) : waiters[l] = waiters[m] => l = m
      BY DEF PromptInv, Queue
    <3>2. \A l \in 1..Len(waiters') : l \in Nat /\ l + 1 # 1
      BY <1>2, <2>2
    <3>3. \A l \in 1..Len(waiters') : waiters'[l] # h
      BY <2>0, <2>2, <3>1, <3>2
    <3>4. \A l \in 1..Len(waiters') : waiters'[l] \in Indices /\ call'[waiters'[l]] = "parked"
      <4> SUFFICES ASSUME NEW l \in 1..Len(waiters')
                   PROVE  waiters'[l] \in Indices /\ call'[waiters'[l]] = "parked"
        OBVIOUS
      <4>1. waiters'[l] \in Indices /\ call[waiters'[l]] = "parked"
        BY <2>2 DEF PromptInv, Queue
      <4>2. c[waiters'[l]] = "parked"
        BY <4>1 DEF Holding
      <4> QED BY <2>4, <3>3, <4>1, <4>2
    <3>5. ASSUME NEW k \in Indices, call'[k] = "parked"
          PROVE  \E l \in 1..Len(waiters') : waiters'[l] = k
      <4>1. k # h /\ call[k] = "parked"
        BY <2>4, <3>5
      <4>2. PICK m \in 1..Len(waiters) : waiters[m] = k
        BY <4>1 DEF PromptInv, Queue
      <4>3. m # 1 /\ m - 1 \in 1..Len(waiters') /\ (m - 1) + 1 = m
        BY <1>2, <2>0, <2>2, <4>1, <4>2
      <4> QED BY <2>2, <4>2, <4>3
    <3>6. \A l, m \in 1..Len(waiters') : waiters'[l] = waiters'[m] => l = m
      <4> SUFFICES ASSUME NEW l \in 1..Len(waiters'), NEW m \in 1..Len(waiters'),
                          waiters'[l] = waiters'[m]
                   PROVE  l = m
        OBVIOUS
      <4>1. l + 1 = m + 1
        BY <2>2, <3>1
      <4> QED BY <3>2, <4>1
    <3> QED BY <1>1, <3>4, <3>5, <3>6 DEF Queue
  <2>10. Quiet' /\ Permitted'
    BY <1>1, <2>4 DEF PromptInv, Quiet, Permitted
  <2>11. InOrder'
    <3> SUFFICES ASSUME Sequential, NEW k \in Indices, call'[k] # "todo", NEW j \in 1..(k - 1)
                 PROVE  call'[j] = "recorded"
      BY <1>1 DEF InOrder
    <3>1. j \in Indices /\ call[k] # "todo"
      BY <2>1, <2>4, ToolFacts DEF Holding
    <3>2. call[j] = "recorded"
      BY <3>1 DEF PromptInv, InOrder
    <3>3. j # h /\ j # i
      BY <2>1, <3>2 DEF Holding
    <3> QED BY <2>4, <3>1, <3>2, <3>3
  <2> QED BY <2>6, <2>7, <2>8, <2>9, <2>10, <2>11 DEF PromptInv
<1> QED BY <1>4, <1>5

(* ask()'s finally block after the holder i has become s.                  *)
LEMMA ReleaseKeeps ==
  ASSUME PromptInv, turn.at = "tools", turn' = turn, aborted' = aborted, NEW i \in Indices,
         call[i] \in Holding, NEW s \in {"running", "done"}, Release(i, s), modal' = None,
         question' = question, allowed \subseteq allowed', granted \subseteq granted',
         s = "running" => i \in granted' \/ turn.tools[i] \in allowed' \ Fresh
  PROVE  PromptInv'
<1> DEFINE c == [call EXCEPT ![i] = s]
<1>1. c \in [Indices -> States] /\ c[i] = s /\ \A k \in Indices : k # i => c[k] = call[k]
  BY ToolFacts DEF States, Settled
<1>2. /\ busy' = (waiters # <<>>)
      /\ call' = IF waiters = <<>> THEN c ELSE [c EXCEPT ![Head(waiters)] = "woken"]
      /\ waiters' = IF waiters = <<>> THEN waiters ELSE Tail(waiters)
  BY DEF Release, StaysBusy, Becomes
<1>3. aborted' \in BOOLEAN
  BY DEF PromptInv, AgentType
<1> HIDE DEF c
<1> QED BY <1>1, <1>2, <1>3, LockLeft

LEMMA WokenKeeps == ASSUME PromptInv, NEW i \in Indices, Woken(i) PROVE PromptInv'
<1>1. /\ turn.at = "tools" /\ call[i] = "woken" /\ call[i] \in Holding
      /\ UNCHANGED <<turn, aborted, allowed, question, granted>>
  BY DEF Woken, Holding
<1>2. modal = None
  BY <1>1 DEF PromptInv, Locked, Shown, Holding
<1>3. CASE Covered(i)
  BY <1>1, <1>2, <1>3, ReleaseKeeps DEF Woken, Covered
<1>4. CASE ~Covered(i) /\ aborted
  BY <1>1, <1>2, <1>4, ReleaseKeeps DEF Woken
<1>5. CASE ~Covered(i) /\ ~aborted
  BY <1>1, <1>5, RequestShown DEF Woken, Becomes
<1> QED BY <1>3, <1>4, <1>5

LEMMA DecidedKeeps ==
  ASSUME PromptInv, NEW i \in Indices, NEW decision \in {"allow-once", "allow-session", "deny"},
         Decided(i, decision)
  PROVE  PromptInv'
<1>1. /\ modal = i /\ i # None /\ modal' = None /\ turn' = turn /\ aborted' = aborted
      /\ question' = question
  BY DEF Decided
<1>2. call[i] \in Holding /\ turn.at = "tools"
  BY <1>1 DEF PromptInv, Shown, Quiet, Holding, Settled
<1>3. allowed \subseteq allowed' /\ granted \subseteq granted'
  BY DEF Decided
<1>4. CASE decision = "deny"
  BY <1>1, <1>2, <1>3, <1>4, ReleaseKeeps DEF Decided
<1>5. CASE decision # "deny"
  BY <1>1, <1>2, <1>3, <1>5, ReleaseKeeps DEF Decided
<1> QED BY <1>4, <1>5

LEMMA BeginKeeps == ASSUME PromptInv, NEW i \in Indices, Begin(i) PROVE PromptInv'
<1>1. /\ turn.at = "tools" /\ call[i] = "todo"
      /\ Sequential => \A j \in 1..(i - 1) : call[j] = "recorded"
      /\ UNCHANGED <<turn, aborted, modal, allowed, granted>>
  BY DEF Begin, Turns
<1>2. CASE Becomes(i, "done") /\ UNCHANGED <<busy, waiters, question>>
  BY <1>1, <1>2, CallMoves DEF Becomes
<1>3. CASE turn.tools[i] \in Guarded /\ Asks(i) /\ UNCHANGED question
  <2>1. CASE Covered(i)
    BY <1>1, <1>3, <2>1, CallMoves DEF Asks, Becomes, Covered
  <2>2. CASE ~Covered(i) /\ busy
    BY <1>1, <1>3, <2>2, Parked DEF Asks, Becomes
  <2>3. CASE ~Covered(i) /\ ~busy
    BY <1>1, <1>3, <2>3, LockTaken DEF Asks, Becomes
  <2> QED BY <2>1, <2>2, <2>3
<1>4. CASE /\ turn.tools[i] \in Questions /\ question' = i /\ Becomes(i, "question")
           /\ UNCHANGED <<busy, waiters>>
  BY <1>1, <1>4, QuestionAsked DEF Becomes
<1>5. CASE /\ turn.tools[i] \notin Guarded /\ Becomes(i, "running")
           /\ UNCHANGED <<busy, waiters, question>>
  BY <1>1, <1>5, CallMoves DEF Becomes
<1> QED BY <1>2, <1>3, <1>4, <1>5 DEF Begin

LEMMA ToolReturnsKeeps == ASSUME PromptInv, NEW i \in Indices, ToolReturns(i) PROVE PromptInv'
<1>1. /\ turn.at = "tools" /\ call[i] = "running" /\ call' = [call EXCEPT ![i] = "done"]
      /\ UNCHANGED <<turn, aborted, busy, waiters, modal, question, allowed, granted>>
  BY DEF ToolReturns, Becomes, prompts
<1>2. Sequential => \A j \in 1..(i - 1) : call[j] = "recorded"
  BY <1>1 DEF PromptInv, InOrder
<1> QED BY <1>1, <1>2, CallMoves

(* The results of the step are in the history and it is saved.             *)
LEMMA StepRecorded ==
  ASSUME PromptInv, \A i \in Indices : call[i] \in Settled,
         NEW p \in {"step", "rest"}, SaveThen(p), call' \in [Indices -> Settled],
         UNCHANGED <<aborted, busy, waiters, modal, question, allowed, granted>>
  PROVE  PromptInv'
<1>1. turn \in TurnType /\ turn' = [turn EXCEPT !.at = "save", !.next = p]
  BY DEF SaveThen, PromptInv, AgentType
<1>2. /\ turn' \in TurnType /\ turn'.at = "save" /\ turn'.next = p /\ p # "tools"
      /\ turn'.tools = turn.tools
  BY <1>1 DEF TurnType, Places, Nexts
<1>3. Indices' = Indices
  BY <1>2 DEF Indices
<1>4. ~busy /\ waiters = <<>> /\ modal = None /\ question = None
  BY Inactive
<1>5. \A i \in Indices : call'[i] \in Settled /\ call' \in [Indices -> States]
  BY DEF States
<1>6. call' \in [Indices -> States]
  BY DEF States
<1>7. AgentType'
  BY <1>2, <1>3, <1>6 DEF PromptInv, AgentType
<1>8. Locked' /\ Shown' /\ Queue'
  BY <1>3, <1>4, <1>5 DEF Locked, Shown, Queue, Holding, Settled
<1>9. Quiet' /\ InOrder' /\ Permitted'
  BY <1>2, <1>3, <1>5 DEF Quiet, InOrder, Permitted, Settled
<1> QED BY <1>7, <1>8, <1>9 DEF PromptInv

LEMMA RecordKeeps ==
  ASSUME PromptInv
  PROVE  (\A i \in Indices : RecordOne(i) => PromptInv') /\ (RecordAll => PromptInv')
<1>1. ASSUME NEW i \in Indices, RecordOne(i) PROVE PromptInv'
  <2>1. /\ turn.at = "tools" /\ Sequential /\ call[i] = "done"
        /\ call' = [call EXCEPT ![i] = "recorded"]
        /\ UNCHANGED <<aborted, busy, waiters, modal, question, allowed, granted>>
        /\ IF i = Len(turn.tools) THEN SaveThen("step") ELSE turn' = turn
    BY <1>1 DEF RecordOne, Becomes, prompts
  <2>2. \A j \in 1..(i - 1) : call[j] = "recorded"
    BY <2>1 DEF PromptInv, InOrder
  <2>3. CASE i # Len(turn.tools)
    BY <2>1, <2>2, <2>3, CallMoves
  <2>4. CASE i = Len(turn.tools)
    <3>1. ASSUME NEW j \in Indices, j # i PROVE call[j] = "recorded"
      <4>1. j \in 1..(i - 1)
        BY <2>4, <3>1, LenTools DEF PromptInv, AgentType, Indices
      <4> QED BY <2>2, <4>1
    <3>2. \A j \in Indices : call[j] \in Settled
      BY <2>1, <3>1 DEF Settled
    <3>3. call' \in [Indices -> Settled]
      <4>1. call \in [Indices -> Settled]
        BY <3>2, ToolFacts
      <4> QED BY <2>1, <4>1 DEF Settled
    <3> QED BY <2>1, <2>4, <3>2, <3>3, StepRecorded
  <2> QED BY <2>3, <2>4
<1>2. ASSUME RecordAll PROVE PromptInv'
  <2>1. /\ SaveThen("rest") /\ call' = call
        /\ UNCHANGED <<aborted, busy, waiters, modal, question, allowed, granted>>
    BY <1>2 DEF RecordAll, prompts
  <2>2. \A i \in Indices : call[i] \in Settled
    BY <1>2 DEF RecordAll, Settled
  <2>3. call' \in [Indices -> Settled]
    BY <2>1, <2>2, ToolFacts
  <2> QED BY <2>1, <2>2, <2>3, StepRecorded
<1> QED BY <1>1, <1>2

(* Esc rejects what the terminal shows, and frees the lock if that was a   *)
(* permission request.                                                     *)
LEMMA EscKeeps == ASSUME PromptInv, Esc PROVE PromptInv'
<1> DEFINE c == [i \in DOMAIN call |->
                   IF call[i] \in {"modal", "question"} THEN "done" ELSE call[i]]
<1>1. /\ turn' = turn /\ aborted' = TRUE /\ modal' = None /\ question' = None
      /\ UNCHANGED <<allowed, granted>>
  BY DEF Esc
<1>2. /\ c \in [Indices -> States]
      /\ \A k \in Indices : c[k] = IF call[k] \in {"modal", "question"} THEN "done" ELSE call[k]
  <2>1. DOMAIN call = Indices /\ \A k \in Indices : call[k] \in States
    BY ToolFacts
  <2> QED BY <2>1 DEF States, Settled
<1>3. Indices' = Indices /\ Sequential' = Sequential
  BY <1>1, ToolFacts
<1>4. /\ modal = None => call' = c /\ busy' = busy /\ waiters' = waiters
      /\ modal # None =>
           /\ busy' = (waiters # <<>>)
           /\ call' = IF waiters = <<>> THEN c ELSE [c EXCEPT ![Head(waiters)] = "woken"]
           /\ waiters' = IF waiters = <<>> THEN waiters ELSE Tail(waiters)
  BY DEF Esc
<1> HIDE DEF c
<1>5. CASE modal # None
  <2>1. modal \in Indices /\ call[modal] = "modal" /\ turn.at = "tools"
    BY <1>5 DEF PromptInv, Shown, Quiet, Settled
  <2>2. call[modal] \in Holding /\ c[modal] = "done"
    BY <1>2, <2>1 DEF Holding
  <2>3. \A k \in Indices :
          k # modal => c[k] = call[k] \/ (call[k] = "question" /\ c[k] = "done")
    BY <1>2 DEF PromptInv, Shown
  <2> QED BY <1>1, <1>2, <1>4, <1>5, <2>1, <2>2, <2>3, LockLeft
<1>6. CASE modal = None
  <2>1. \A k \in Indices : call[k] # "modal"
    BY <1>6, ToolFacts DEF PromptInv, Shown, None
  <2>2. /\ call' = c /\ busy' = busy /\ waiters' = waiters
        /\ \A k \in Indices : call'[k] = IF call[k] = "question" THEN "done" ELSE call[k]
    BY <1>2, <1>4, <1>6, <2>1
  <2>3. AgentType'
    BY <1>1, <1>2, <1>3, <2>2 DEF PromptInv, AgentType, None
  <2>4. Locked'
    BY <1>3, <2>2 DEF PromptInv, Locked, Holding
  <2>5. Shown'
    BY <1>1, <1>3, <2>1, <2>2 DEF Shown
  <2>6. Queue'
    BY <1>3, <2>2 DEF PromptInv, Queue
  <2>7. Quiet' /\ Permitted'
    BY <1>1, <1>3, <2>2 DEF PromptInv, Quiet, Permitted, Settled
  <2>8. InOrder'
    BY <1>1, <1>3, <2>2, ToolFacts DEF PromptInv, InOrder
  <2> QED BY <2>3, <2>4, <2>5, <2>6, <2>7, <2>8 DEF PromptInv
<1> QED BY <1>5, <1>6

LEMMA NewProcess ==
  ASSUME turn = NoTurn, aborted = FALSE, call = <<>>, busy = FALSE, waiters = <<>>,
         modal = None, question = None
  PROVE  PromptInv
<1>1. NoTurn \in TurnType /\ NoTurn.at = "idle" /\ NoTurn.tools = <<>>
  BY DEF NoTurn, TurnType, Places, Nexts
<1>2. Indices = {}
  BY <1>1 DEF Indices
<1>3. AgentType
  <2>1. call \in [Indices -> States] /\ waiters \in Seq(Nat)
    BY <1>2
  <2> QED BY <1>1, <2>1 DEF AgentType, None
<1>4. Locked /\ Shown /\ Queue /\ Quiet /\ InOrder /\ Permitted
  BY <1>1, <1>2 DEF Locked, Shown, Queue, Quiet, InOrder, Permitted
<1> QED BY <1>3, <1>4 DEF PromptInv

(* The process starts anew.                                                *)
LEMMA RestartKeeps == ASSUME Restart PROVE PromptInv'
<1>1. /\ turn' = NoTurn /\ aborted' = FALSE /\ call' = <<>> /\ busy' = FALSE
      /\ waiters' = <<>> /\ modal' = None /\ question' = None
  BY DEF Restart
<1>2. NoTurn \in TurnType /\ NoTurn.at = "idle" /\ NoTurn.tools = <<>>
  BY DEF NoTurn, TurnType, Places, Nexts
<1>3. Indices' = {}
  BY <1>1, <1>2 DEF Indices
<1>4. AgentType'
  <2>1. call' \in [Indices' -> States] /\ waiters' \in Seq(Nat)
    BY <1>1, <1>3
  <2> QED BY <1>1, <1>2, <2>1 DEF AgentType, None
<1>5. Locked' /\ Shown' /\ Queue' /\ Quiet' /\ InOrder' /\ Permitted'
  BY <1>1, <1>2, <1>3 DEF Locked, Shown, Queue, Quiet, InOrder, Permitted
<1> QED BY <1>4, <1>5 DEF PromptInv

-----------------------------------------------------------------------------
LEMMA PromptStep == ASSUME PromptInv, [Next]_vars PROVE PromptInv'
<1>1. ASSUME NEW i \in Indices,
             \/ Begin(i) \/ Woken(i) \/ ToolReturns(i) \/ RecordOne(i)
             \/ \E decision \in {"allow-once", "allow-session", "deny"} : Decided(i, decision)
      PROVE  PromptInv'
  BY <1>1, BeginKeeps, WokenKeeps, ToolReturnsKeeps, RecordKeeps, DecidedKeeps
<1>2. CASE Compacted \/ CompactFails \/ PushUser \/ Request \/ Summarised \/ Compact
  BY <1>2, BetweenKeeps
<1>3. CASE StepsEnd \/ ChatFails \/ SummaryFails \/ LoopAborted
  BY <1>3, TurnFails, LoopAbortedKeeps
<1>4. CASE RecordAll \/ QuestionAnswered
  BY <1>4, RecordKeeps, QuestionAnsweredKeeps
<1>5. ASSUME NEW succeeds \in BOOLEAN, Saved(succeeds) PROVE PromptInv'
  BY <1>5, SavedKeeps
<1>6. ASSUME NEW tools \in Batches \cup {<<>>}, Answered(tools) PROVE PromptInv'
  BY <1>6, AnsweredKeeps
<1>7. ASSUME NEW plan \in BOOLEAN, NEW compacts \in BOOLEAN, Submit(plan, compacts)
      PROVE  PromptInv'
  BY <1>7, BetweenKeeps
<1>8. ASSUME NEW succeeds \in BOOLEAN, InjectSkill(succeeds) PROVE PromptInv'
  BY <1>8, PromptUnchanged DEF InjectSkill, prompts
<1>9. CASE Reset \/ Unlinked \/ UNCHANGED vars
  BY <1>9, PromptUnchanged DEF Reset, Unlinked, vars, prompts
<1>10. CASE Step
  BY <1>1, <1>2, <1>3, <1>4, <1>5, <1>6, <1>9, <1>10 DEF Step
<1>11. CASE Environment
  BY <1>2, <1>7, <1>8, <1>9, <1>11, EscKeeps, RestartKeeps DEF Environment
<1> QED BY <1>9, <1>10, <1>11 DEF Next

(* However many tools an answer calls for and in whatever order they ask,  *)
(* are answered or aborted, one call at a time holds the permission prompt,*)
(* the others wait in the queue once each, and no prompt outlives its turn.*)
THEOREM PromptsOneByOne == Spec => []OnePrompt
<1>1. Init => PromptInv
  BY NewProcess DEF Init
<1>2. PromptInv /\ [Next]_vars => PromptInv'
  BY PromptStep
<1>3. PromptInv => OnePrompt
  BY PromptInvImplies
<1> QED BY <1>1, <1>2, <1>3, PTL DEF Spec

(* A tool that requires permission runs only after the user has allowed    *)
(* this call, or its key for the session unless it opts out of the cache.  *)
THEOREM GuardedToolsAllowed == Spec => []RunsAllowed
<1>1. Init => PromptInv
  BY NewProcess DEF Init
<1>2. PromptInv /\ [Next]_vars => PromptInv'
  BY PromptStep
<1>3. PromptInv => RunsAllowed
  BY PromptInvImplies
<1> QED BY <1>1, <1>2, <1>3, PTL DEF Spec

-----------------------------------------------------------------------------
(* The conversation.  A result stands in the run of results after the      *)
(* message that called for it, once; that some are missing is allowed.     *)
Messages ==
  {User, Note} \cup {Assistant(n) : n \in Nat} \cup {Result(i) : i \in Nat \ {0}}
Sound(h) ==
  /\ h \in Seq(Messages)
  /\ \A j \in 1..Len(h) :
       h[j][1] = "tool" => \E k \in 1..Len(h) : h[k][1] = "assistant" /\ j \in Answers(h, k)
  /\ \A k \in 1..Len(h) : h[k][1] = "assistant" =>
       /\ \A j \in Answers(h, k) : \E i \in 1..Calls(h[k]) : h[j] = Result(i)
       /\ \A i, j \in Answers(h, k) : h[i] = h[j] => i = j
Complete(h, n) == \A k \in 1..n : Missing(h, k) = {}

(* Message k made n calls; the first m of them, the last messages, are     *)
(* answered, and all that was called for before.                           *)
OpenAt(h, k, m, n) ==
  /\ h[k] = Assistant(n) /\ Complete(h, k - 1)
  /\ Len(h) = k + m /\ \A i \in 1..m : h[k + i] = Result(i)
Calling == turn.at = "tools" \/ (turn.at = "save" /\ turn.next = "tools")
Sending ==
  turn.at \in {"compact", "ask", "step", "chat"} \/ (turn.at = "save" /\ turn.next # "tools")
Recorded == {i \in Indices : call[i] = "recorded"}

(* Every conversation is sound, in memory and in the file; one on its way  *)
(* to the provider is complete, and the last message alone may be open     *)
(* while its tools run.                                                    *)
TalkInv ==
  /\ Sound(history) /\ Sound(file)
  /\ Sending => Complete(history, Len(history))
  /\ Calling => \E k \in 1..Len(history), m \in 0..Len(turn.tools) :
                  OpenAt(history, k, m, Len(turn.tools)) /\ Recorded = 1..m

LEMMA MessageKinds ==
  /\ User \in Messages /\ User[1] = "user" /\ Note \in Messages /\ Note[1] = "system"
  /\ \A n \in Nat : Assistant(n) \in Messages
  /\ \A n : Assistant(n)[1] = "assistant" /\ Calls(Assistant(n)) = n
  /\ \A i \in Nat \ {0} : Result(i) \in Messages
  /\ \A i : Result(i)[1] = "tool"
  /\ \A i, j : Result(i) = Result(j) => i = j
  /\ \A m \in Messages : Calls(m) \in Nat
  /\ \A m : m[1] # "assistant" => Calls(m) = 0
<1>1. User[1] = "user" /\ Note[1] = "system"
  BY DEF User, Note
<1>2. \A n : Assistant(n)[1] = "assistant" /\ Assistant(n)[2] = n
  BY DEF Assistant
<1>3. \A i : Result(i)[1] = "tool" /\ Result(i)[2] = i
  BY DEF Result
<1>4. \A i, j : Result(i) = Result(j) => i = j
  <2> SUFFICES ASSUME NEW i, NEW j, Result(i) = Result(j) PROVE i = j
    OBVIOUS
  <2>1. Result(i)[2] = i /\ Result(j)[2] = j
    BY <1>3
  <2> QED BY <2>1
<1>5. \A m : m[1] # "assistant" => Calls(m) = 0
  BY DEF Calls
<1>6. \A n : Calls(Assistant(n)) = n
  BY <1>2 DEF Calls
<1>7. \A m \in Messages : Calls(m) \in Nat
  <2> SUFFICES ASSUME NEW m \in Messages PROVE Calls(m) \in Nat
    OBVIOUS
  <2>1. CASE \E n \in Nat : m = Assistant(n)
    BY <2>1, <1>6
  <2>2. CASE m = User \/ m = Note \/ \E i \in Nat \ {0} : m = Result(i)
    <3>1. m[1] # "assistant"
      BY <2>2, <1>1, <1>3
    <3> QED BY <3>1, <1>5
  <2> QED BY <2>1, <2>2 DEF Messages
<1>8. User \in Messages /\ Note \in Messages
  BY DEF Messages
<1>9. (\A n \in Nat : Assistant(n) \in Messages) /\ \A i \in Nat \ {0} : Result(i) \in Messages
  BY DEF Messages
<1> QED BY <1>1, <1>2, <1>3, <1>4, <1>5, <1>6, <1>7, <1>8, <1>9

(* The answers of message k are the messages up to EndOf(h, k).            *)
LEMMA AnswersRun ==
  ASSUME NEW h, Len(h) \in Nat, NEW k \in 1..Len(h)
  PROVE  /\ EndOf(h, k) \in k..Len(h) /\ Answers(h, k) = (k + 1)..EndOf(h, k)
         /\ IsFiniteSet(Answers(h, k))
         /\ \A j \in (k + 1)..EndOf(h, k) : h[j][1] = "tool"
         /\ EndOf(h, k) < Len(h) => h[EndOf(h, k) + 1][1] # "tool"
<1> DEFINE A == Answers(h, k)
           q == Cardinality(A)
<1>1. A \subseteq (k + 1)..Len(h)
  BY DEF Answers
<1>2. k + 1 \in Int /\ Len(h) \in Int /\ k \in Nat /\ k <= Len(h)
  OBVIOUS
<1>3. /\ IsFiniteSet((k + 1)..Len(h))
      /\ Cardinality((k + 1)..Len(h)) = IF k + 1 > Len(h) THEN 0 ELSE Len(h) - (k + 1) + 1
  BY <1>2, FS_Interval, Zenon
<1>4. IsFiniteSet(A) /\ q \in Nat /\ q <= Cardinality((k + 1)..Len(h))
  BY <1>1, <1>3, FS_Subset, FS_CardinalityType, Zenon
<1>5. \A j \in A : \A l \in (k + 1)..j : l \in A
  BY <1>1, <1>2 DEF Answers
<1> HIDE DEF A
<1>6. \A j \in A : j - k <= q
  <2> SUFFICES ASSUME NEW j \in A PROVE j - k <= q
    OBVIOUS
  <2>1. j \in Int /\ k + 1 \in Int /\ j >= k + 1
    BY <1>1, <1>2
  <2>2. (k + 1)..j \in SUBSET A
    BY <1>5
  <2>3. Cardinality((k + 1)..j) = IF k + 1 > j THEN 0 ELSE j - (k + 1) + 1
    BY <2>1, FS_Interval, Zenon
  <2>4. Cardinality((k + 1)..j) <= Cardinality(A)
    BY <1>4, <2>2, FS_Subset, Zenon
  <2> QED BY <1>2, <2>1, <2>3, <2>4
<1>7. A \subseteq (k + 1)..(k + q)
  BY <1>1, <1>2, <1>4, <1>6
<1>8. A = (k + 1)..(k + q)
  <2>1. k + q \in Int
    BY <1>2, <1>4
  <2>2. /\ IsFiniteSet((k + 1)..(k + q))
        /\ Cardinality((k + 1)..(k + q)) = IF k + 1 > k + q THEN 0 ELSE (k + q) - (k + 1) + 1
    BY <1>2, <2>1, FS_Interval, Zenon
  <2>3. Cardinality((k + 1)..(k + q)) = Cardinality(A)
    BY <1>2, <1>4, <2>2
  <2> QED BY <1>7, <2>2, <2>3, FS_Subset, Zenon
<1>9. EndOf(h, k) = k + q
  BY DEF EndOf, A
<1>10. k + q <= Len(h)
  BY <1>2, <1>3, <1>4
<1>11. \A j \in (k + 1)..(k + q) : h[j][1] = "tool"
  <2> SUFFICES ASSUME NEW j \in (k + 1)..(k + q) PROVE h[j][1] = "tool"
    OBVIOUS
  <2>1. j \in Answers(h, k) /\ j \in (k + 1)..j
    BY <1>2, <1>4, <1>8 DEF A
  <2> QED BY <2>1 DEF Answers
<1>12. ASSUME k + q < Len(h), h[k + q + 1][1] = "tool" PROVE FALSE
  <2>1. k + q + 1 \in (k + 1)..Len(h)
    BY <1>2, <1>4, <1>12
  <2>2. \A l \in (k + 1)..(k + q + 1) : h[l][1] = "tool"
    <3> SUFFICES ASSUME NEW l \in (k + 1)..(k + q + 1) PROVE h[l][1] = "tool"
      OBVIOUS
    <3>1. l \in (k + 1)..(k + q) \/ l = k + q + 1
      BY <1>2, <1>4
    <3> QED BY <1>11, <1>12, <3>1
  <2>3. k + q + 1 \in A
    BY <2>1, <2>2 DEF A, Answers
  <2> QED BY <1>2, <1>4, <1>8, <2>3
<1> QED BY <1>2, <1>4, <1>8, <1>9, <1>10, <1>11, <1>12 DEF A

(* The order of what reconcileToolCalls() pushes.                          *)
Below(s, t) == s[1] < t[1] \/ (s[1] = t[1] /\ s[2] <= t[2])
Rank(s, pushes) == Cardinality(UpTo(s, pushes))

LEMMA Ranked ==
  ASSUME NEW pushes \in SUBSET (Nat \X Nat), IsFiniteSet(pushes)
  PROVE  /\ Cardinality(pushes) \in Nat
         /\ \A n \in 1..Cardinality(pushes) :
              Nth(n, pushes) \in pushes /\ Rank(Nth(n, pushes), pushes) = n
         /\ \A s \in pushes :
              Rank(s, pushes) \in 1..Cardinality(pushes) /\ Nth(Rank(s, pushes), pushes) = s
         /\ \A s, t \in pushes : Below(s, t) <=> Rank(s, pushes) <= Rank(t, pushes)
<1> DEFINE N == Cardinality(pushes)
           f == [s \in pushes |-> Rank(s, pushes)]
<1>1. \A s \in pushes : s[1] \in Nat /\ s[2] \in Nat /\ s = <<s[1], s[2]>>
  OBVIOUS
<1>2. \A s \in pushes : UpTo(s, pushes) \in SUBSET pushes /\ s \in UpTo(s, pushes)
  BY <1>1 DEF UpTo
<1>3. N \in Nat
  BY FS_CardinalityType
<1>4. \A s \in pushes : IsFiniteSet(UpTo(s, pushes)) /\ Rank(s, pushes) \in Nat /\ Rank(s, pushes) <= N
  <2> SUFFICES ASSUME NEW s \in pushes
               PROVE  IsFiniteSet(UpTo(s, pushes)) /\ Rank(s, pushes) \in Nat /\ Rank(s, pushes) <= N
    OBVIOUS
  <2>1. IsFiniteSet(UpTo(s, pushes)) /\ Cardinality(UpTo(s, pushes)) <= Cardinality(pushes)
    BY <1>2, FS_Subset
  <2>2. Cardinality(UpTo(s, pushes)) \in Nat
    BY <2>1, FS_CardinalityType
  <2> QED BY <2>1, <2>2 DEF Rank
<1>5. \A s \in pushes : Rank(s, pushes) # 0
  <2> SUFFICES ASSUME NEW s \in pushes, Rank(s, pushes) = 0 PROVE FALSE
    OBVIOUS
  <2>1. UpTo(s, pushes) = {}
    BY <1>4, FS_EmptySet, Zenon DEF Rank
  <2> QED BY <1>2, <2>1
<1>6. \A s \in pushes : Rank(s, pushes) \in 1..N
  BY <1>3, <1>4, <1>5
<1>7. \A s, t \in pushes : Below(s, t) => Rank(s, pushes) <= Rank(t, pushes)
  <2> SUFFICES ASSUME NEW s \in pushes, NEW t \in pushes, Below(s, t)
               PROVE  Rank(s, pushes) <= Rank(t, pushes)
    OBVIOUS
  <2>1. UpTo(s, pushes) \in SUBSET UpTo(t, pushes)
    BY <1>1 DEF UpTo, Below
  <2> QED BY <1>4, <2>1, FS_Subset DEF Rank
<1>8. \A s, t \in pushes : ~Below(t, s) => Rank(s, pushes) < Rank(t, pushes)
  <2> SUFFICES ASSUME NEW s \in pushes, NEW t \in pushes, ~Below(t, s)
               PROVE  Rank(s, pushes) < Rank(t, pushes)
    OBVIOUS
  <2>1. UpTo(s, pushes) \in SUBSET UpTo(t, pushes) /\ t \notin UpTo(s, pushes)
    BY <1>1 DEF UpTo, Below
  <2>2. Cardinality(UpTo(s, pushes)) <= Cardinality(UpTo(t, pushes))
    BY <1>4, <2>1, FS_Subset
  <2>3. Cardinality(UpTo(s, pushes)) # Cardinality(UpTo(t, pushes))
    BY <1>2, <1>4, <2>1, FS_Subset, Zenon
  <2>4. Rank(s, pushes) <= Rank(t, pushes) /\ Rank(s, pushes) # Rank(t, pushes)
    BY <2>2, <2>3 DEF Rank
  <2> QED BY <1>4, <2>4
<1>9. \A s, t \in pushes : Rank(s, pushes) = Rank(t, pushes) => s = t
  <2> SUFFICES ASSUME NEW s \in pushes, NEW t \in pushes, Rank(s, pushes) = Rank(t, pushes)
               PROVE  s = t
    OBVIOUS
  <2>1. Rank(s, pushes) \in Nat
    BY <1>4
  <2>2. Below(s, t) /\ Below(t, s)
    BY <1>8, <2>1
  <2>3. s[1] = t[1] /\ s[2] = t[2]
    BY <1>1, <2>2 DEF Below
  <2> QED BY <1>1, <2>3
<1>10. \A n \in 1..N : \E s \in pushes : Rank(s, pushes) = n
  <2>1. f \in Injection(pushes, 1..N)
    BY <1>6, <1>9 DEF Injection, IsInjective
  <2>2. IsFiniteSet(1..N) /\ Cardinality(1..N) = N
    <3>1. 1 \in Int /\ N \in Int
      BY <1>3
    <3>2. IsFiniteSet(1..N) /\ Cardinality(1..N) = IF 1 > N THEN 0 ELSE N - 1 + 1
      BY <3>1, FS_Interval, Zenon
    <3> QED BY <1>3, <3>2
  <2>3. Cardinality(pushes) = Cardinality(1..N)
    BY <2>2
  <2> HIDE DEF f, N
  <2>4. f \in Surjection(pushes, 1..N)
    BY <2>1, <2>2, <2>3, FS_Injection, Zenon
  <2>5. \A n \in 1..N : \E s \in pushes : f[s] = n
    BY <2>4, Zenon DEF Surjection
  <2> QED BY <2>5 DEF f
<1>11. \A n \in 1..N : Nth(n, pushes) \in pushes /\ Rank(Nth(n, pushes), pushes) = n
  BY <1>10, Zenon DEF Nth, Rank
<1>12. \A s \in pushes : Nth(Rank(s, pushes), pushes) = s
  BY <1>6, <1>9, <1>11
<1>13. \A s, t \in pushes : Rank(s, pushes) <= Rank(t, pushes) => Below(s, t)
  BY <1>4, <1>8
<1> QED BY <1>3, <1>6, <1>7, <1>11, <1>12, <1>13

(* Message j is pushed as it is; after the answers of message k come the   *)
(* results that are missing.                                               *)
LEMMA PushedPairs ==
  ASSUME NEW h, Sound(h)
  PROVE  /\ Pushes(h) \in SUBSET (Nat \X Nat) /\ IsFiniteSet(Pushes(h))
         /\ \A j \in 1..Len(h) : <<j, 0>> \in Pushes(h)
         /\ \A k \in 1..Len(h) : \A i \in Missing(h, k) :
              h[k][1] = "assistant" => i \in Nat \ {0} /\ <<EndOf(h, k), i>> \in Pushes(h)
         /\ \A s \in Pushes(h) :
              \/ s[1] \in 1..Len(h) /\ s[2] = 0
              \/ \E k \in 1..Len(h) :
                   h[k][1] = "assistant" /\ s[1] = EndOf(h, k) /\ s[2] \in Missing(h, k)
<1> DEFINE P(k) == {<<EndOf(h, k), i>> : i \in Missing(h, k)}
           K == {k \in 1..Len(h) : h[k][1] = "assistant"}
           M == {<<j, 0>> : j \in 1..Len(h)}
<1>1. Len(h) \in Nat /\ \A k \in 1..Len(h) : Calls(h[k]) \in Nat
  BY MessageKinds DEF Sound
<1>2. Pushes(h) = M \cup UNION {P(k) : k \in K}
  BY DEF Pushes, Repairs
<1>3. \A k \in 1..Len(h) : EndOf(h, k) \in 1..Len(h) /\ Missing(h, k) \subseteq 1..Calls(h[k])
  <2> SUFFICES ASSUME NEW k \in 1..Len(h)
               PROVE  EndOf(h, k) \in 1..Len(h) /\ Missing(h, k) \subseteq 1..Calls(h[k])
    OBVIOUS
  <2>1. EndOf(h, k) \in k..Len(h)
    BY <1>1, AnswersRun
  <2> QED BY <1>1, <2>1 DEF Missing
<1>4. \A k \in K : IsFiniteSet(P(k))
  <2> SUFFICES ASSUME NEW k \in K PROVE IsFiniteSet(P(k))
    OBVIOUS
  <2> DEFINE g == [i \in Missing(h, k) |-> <<EndOf(h, k), i>>]
  <2>1. IsFiniteSet(Missing(h, k))
    <3>1. 1 \in Int /\ Calls(h[k]) \in Int
      BY <1>1
    <3>2. IsFiniteSet(1..Calls(h[k]))
      BY <3>1, FS_Interval, Zenon
    <3>3. Missing(h, k) \in SUBSET (1..Calls(h[k]))
      BY <1>3
    <3> QED BY <3>2, <3>3, FS_Subset, Zenon
  <2>2. g \in Surjection(Missing(h, k), P(k))
    BY DEF Surjection
  <2> HIDE DEF g, P
  <2> QED BY <2>1, <2>2, FS_Surjection, Zenon
<1>5. IsFiniteSet(UNION {P(k) : k \in K})
  <2> DEFINE T == {P(k) : k \in K}
             g == [k \in K |-> P(k)]
  <2>1. IsFiniteSet(K)
    <3>1. 1 \in Int /\ Len(h) \in Int
      BY <1>1
    <3>2. IsFiniteSet(1..Len(h))
      BY <3>1, FS_Interval, Zenon
    <3>3. K \in SUBSET (1..Len(h))
      OBVIOUS
    <3> QED BY <3>2, <3>3, FS_Subset, Zenon
  <2>2. g \in Surjection(K, T)
    BY DEF Surjection
  <2>3. \A t \in T : IsFiniteSet(t)
    BY <1>4
  <2> HIDE DEF g, T, K
  <2>4. IsFiniteSet(T)
    BY <2>1, <2>2, FS_Surjection, Zenon
  <2>5. IsFiniteSet(UNION T)
    BY <2>3, <2>4, FS_UNION, Zenon
  <2> QED BY <2>5 DEF T
<1>6. IsFiniteSet(M)
  <2> DEFINE g == [j \in 1..Len(h) |-> <<j, 0>>]
  <2>1. IsFiniteSet(1..Len(h))
    <3>1. 1 \in Int /\ Len(h) \in Int
      BY <1>1
    <3> QED BY <3>1, FS_Interval, Zenon
  <2>2. g \in Surjection(1..Len(h), M)
    BY DEF Surjection
  <2> HIDE DEF g, M
  <2> QED BY <2>1, <2>2, FS_Surjection, Zenon
<1>7. IsFiniteSet(Pushes(h))
  <2> DEFINE U == UNION {P(k) : k \in K}
  <2> HIDE DEF U, M
  <2>1. IsFiniteSet(U) /\ Pushes(h) = M \cup U
    BY <1>2, <1>5 DEF U
  <2> QED BY <1>6, <2>1, FS_Union, Zenon
<1>8. \A s \in Pushes(h) :
        \/ \E j \in 1..Len(h) : s = <<j, 0>>
        \/ \E k \in K : \E i \in Missing(h, k) : s = <<EndOf(h, k), i>>
  BY <1>2
<1>9. Pushes(h) \in SUBSET (Nat \X Nat)
  <2> SUFFICES ASSUME NEW s \in Pushes(h) PROVE s \in Nat \X Nat
    OBVIOUS
  <2>1. CASE \E j \in 1..Len(h) : s = <<j, 0>>
    BY <1>1, <2>1
  <2>2. CASE \E k \in K : \E i \in Missing(h, k) : s = <<EndOf(h, k), i>>
    <3>1. PICK k \in K : \E i \in Missing(h, k) : s = <<EndOf(h, k), i>>
      BY <2>2
    <3>2. PICK i \in Missing(h, k) : s = <<EndOf(h, k), i>>
      BY <3>1
    <3>3. EndOf(h, k) \in Nat /\ i \in Nat
      BY <1>1, <1>3
    <3> QED BY <3>2, <3>3
  <2> QED BY <1>8, <2>1, <2>2
<1>10. \A j \in 1..Len(h) : <<j, 0>> \in Pushes(h)
  BY <1>2
<1>11. \A k \in 1..Len(h) : \A i \in Missing(h, k) :
         h[k][1] = "assistant" => i \in Nat \ {0} /\ <<EndOf(h, k), i>> \in Pushes(h)
  <2> SUFFICES ASSUME NEW k \in 1..Len(h), NEW i \in Missing(h, k), h[k][1] = "assistant"
               PROVE  i \in Nat \ {0} /\ <<EndOf(h, k), i>> \in Pushes(h)
    OBVIOUS
  <2>1. i \in 1..Calls(h[k]) /\ Calls(h[k]) \in Nat
    BY <1>1, <1>3
  <2>2. <<EndOf(h, k), i>> \in P(k) /\ k \in K
    OBVIOUS
  <2> HIDE DEF P, K
  <2> QED BY <1>2, <2>1, <2>2
<1>12. \A s \in Pushes(h) :
         \/ s[1] \in 1..Len(h) /\ s[2] = 0
         \/ \E k \in 1..Len(h) :
              h[k][1] = "assistant" /\ s[1] = EndOf(h, k) /\ s[2] \in Missing(h, k)
  BY <1>8
<1> QED BY <1>7, <1>9, <1>10, <1>11, <1>12

(* What follows message k up to the end of its answers, made up ones       *)
(* included.                                                               *)
Group(h, k) ==
  {s \in Pushes(h) : \/ s[2] = 0 /\ s[1] \in Answers(h, k)
                     \/ s[1] = EndOf(h, k) /\ s[2] \in Missing(h, k)}

(* Nobody else's answers are in the group.                                 *)
LEMMA GroupOrder ==
  ASSUME NEW h, Sound(h), NEW k \in 1..Len(h), h[k][1] = "assistant", NEW s \in Pushes(h)
  PROVE  s \in Group(h, k) <=> ~Below(s, <<k, 0>>) /\ s[1] <= EndOf(h, k)
<1>1. Len(h) \in Nat
  BY DEF Sound
<1>2. s[1] \in Nat /\ s[2] \in Nat
  BY PushedPairs
<1>3. EndOf(h, k) \in k..Len(h) /\ Answers(h, k) = (k + 1)..EndOf(h, k)
  BY <1>1, AnswersRun
<1>4. \A i \in Missing(h, k) : i \in Nat \ {0}
  BY PushedPairs
<1>5. Below(s, <<k, 0>>) <=> s[1] < k \/ (s[1] = k /\ s[2] = 0)
  BY <1>2 DEF Below
<1>6. s \in Group(h, k) => ~Below(s, <<k, 0>>) /\ s[1] <= EndOf(h, k)
  <2>1. CASE s[2] = 0 /\ s[1] \in (k + 1)..EndOf(h, k)
    BY <1>2, <1>3, <1>5, <2>1
  <2>2. CASE s[1] = EndOf(h, k) /\ s[2] \in Missing(h, k)
    BY <1>2, <1>3, <1>4, <1>5, <2>2
  <2> QED BY <1>3, <2>1, <2>2 DEF Group
<1>7. ASSUME ~Below(s, <<k, 0>>), s[1] <= EndOf(h, k) PROVE s \in Group(h, k)
  <2>1. CASE s[2] = 0
    <3>1. s[1] \in (k + 1)..EndOf(h, k)
      BY <1>2, <1>3, <1>5, <1>7, <2>1
    <3> QED BY <1>3, <2>1, <3>1 DEF Group
  <2>2. CASE s[2] # 0
    <3>1. PICK l \in 1..Len(h) :
            h[l][1] = "assistant" /\ s[1] = EndOf(h, l) /\ s[2] \in Missing(h, l)
      BY <2>2, PushedPairs
    <3>2. \A j \in (l + 1)..EndOf(h, l) : h[j][1] = "tool"
      BY <1>1, AnswersRun
    <3>3. \A j \in (k + 1)..EndOf(h, k) : h[j][1] = "tool"
      BY <1>1, AnswersRun
    <3>4. EndOf(h, l) \in l..Len(h)
      BY <1>1, AnswersRun
    <3>5. ~(l < k)
      <4> SUFFICES ASSUME l < k PROVE FALSE
        OBVIOUS
      <4>1. k \in (l + 1)..EndOf(h, l)
        BY <1>1, <1>3, <1>5, <1>7, <3>1, <3>4
      <4> QED BY <3>2, <4>1
    <3>6. ~(k < l)
      <4> SUFFICES ASSUME k < l PROVE FALSE
        OBVIOUS
      <4>1. l \in (k + 1)..EndOf(h, k)
        BY <1>1, <1>3, <1>7, <3>1, <3>4
      <4> QED BY <3>1, <3>3, <4>1
    <3>7. l = k
      BY <1>1, <3>5, <3>6
    <3> QED BY <3>1, <3>7 DEF Group
  <2> QED BY <2>1, <2>2
<1> QED BY <1>6, <1>7

(* The group answers each call of message k, once, and a message of        *)
(* another kind ends it.                                                   *)
LEMMA GroupAnswers ==
  ASSUME NEW h, Sound(h), NEW k \in 1..Len(h), h[k][1] = "assistant"
  PROVE  /\ \A s \in Group(h, k) : \E i \in 1..Calls(h[k]) : Pushed(h, s) = Result(i)
         /\ \A s, t \in Group(h, k) : Pushed(h, s) = Pushed(h, t) => s = t
         /\ \A i \in 1..Calls(h[k]) : \E s \in Group(h, k) : Pushed(h, s) = Result(i)
         /\ \A t \in Pushes(h) :
              ~Below(t, <<k, 0>>) /\ t \notin Group(h, k) =>
                \E s \in Pushes(h) :
                  ~Below(s, <<k, 0>>) /\ Below(s, t) /\ Pushed(h, s)[1] # "tool"
<1>1. Len(h) \in Nat
  BY DEF Sound
<1>2. EndOf(h, k) \in k..Len(h) /\ Answers(h, k) = (k + 1)..EndOf(h, k)
  BY <1>1, AnswersRun
<1>3. \A i \in Missing(h, k) :
        /\ i \in Nat \ {0} /\ i \in 1..Calls(h[k]) /\ <<EndOf(h, k), i>> \in Pushes(h)
        /\ \A j \in Answers(h, k) : h[j] # Result(i)
  BY PushedPairs DEF Missing
<1>4. \A j \in Answers(h, k) : \E i \in 1..Calls(h[k]) : h[j] = Result(i)
  BY DEF Sound
<1>5. \A i, j \in Answers(h, k) : h[i] = h[j] => i = j
  BY DEF Sound
<1>6. \A s \in Pushes(h) : s = <<s[1], s[2]>> /\ s[1] \in Nat /\ s[2] \in Nat
  BY PushedPairs
<1>7. \A s \in Group(h, k) :
        \/ s[2] = 0 /\ s[1] \in Answers(h, k) /\ Pushed(h, s) = h[s[1]]
        \/ s[2] # 0 /\ s[1] = EndOf(h, k) /\ s[2] \in Missing(h, k) /\ Pushed(h, s) = Result(s[2])
  BY <1>3 DEF Group, Pushed
<1>8. \A s \in Group(h, k) : s \in Pushes(h)
  BY DEF Group
<1>9. \A s \in Group(h, k) : \E i \in 1..Calls(h[k]) : Pushed(h, s) = Result(i)
  <2> SUFFICES ASSUME NEW s \in Group(h, k)
               PROVE  \E i \in 1..Calls(h[k]) : Pushed(h, s) = Result(i)
    OBVIOUS
  <2>1. CASE s[1] \in Answers(h, k) /\ Pushed(h, s) = h[s[1]]
    BY <1>4, <2>1
  <2>2. CASE s[2] \in Missing(h, k) /\ Pushed(h, s) = Result(s[2])
    BY <1>3, <2>2
  <2> QED BY <1>7, <2>1, <2>2
<1>10. \A s, t \in Group(h, k) : Pushed(h, s) = Pushed(h, t) => s = t
  <2> SUFFICES ASSUME NEW s \in Group(h, k), NEW t \in Group(h, k), Pushed(h, s) = Pushed(h, t)
               PROVE  s = t
    OBVIOUS
  <2>1. s[1] = t[1] /\ s[2] = t[2]
    <3>1. CASE s[2] = 0 /\ t[2] = 0
      BY <1>5, <1>7, <3>1
    <3>2. CASE s[2] # 0 /\ t[2] # 0
      BY <1>7, <3>2, MessageKinds
    <3>3. CASE s[2] = 0 /\ t[2] # 0
      BY <1>3, <1>7, <3>3
    <3>4. CASE s[2] # 0 /\ t[2] = 0
      BY <1>3, <1>7, <3>4
    <3> QED BY <3>1, <3>2, <3>3, <3>4
  <2> QED BY <1>6, <1>8, <2>1
<1>11. \A i \in 1..Calls(h[k]) : \E s \in Group(h, k) : Pushed(h, s) = Result(i)
  <2> SUFFICES ASSUME NEW i \in 1..Calls(h[k])
               PROVE  \E s \in Group(h, k) : Pushed(h, s) = Result(i)
    OBVIOUS
  <2>1. CASE i \in Missing(h, k)
    <3>1. <<EndOf(h, k), i>> \in Group(h, k)
      BY <1>3, <2>1 DEF Group
    <3>2. Pushed(h, <<EndOf(h, k), i>>) = Result(i)
      BY <1>3, <2>1 DEF Pushed
    <3> QED BY <3>1, <3>2
  <2>2. CASE i \notin Missing(h, k)
    <3>1. PICK j \in Answers(h, k) : h[j] = Result(i)
      BY <2>2 DEF Missing
    <3>2. j \in 1..Len(h)
      BY <1>1, <1>2
    <3>3. <<j, 0>> \in Group(h, k)
      BY <3>2, PushedPairs DEF Group
    <3>4. Pushed(h, <<j, 0>>) = Result(i)
      BY <3>1 DEF Pushed
    <3> QED BY <3>3, <3>4
  <2> QED BY <2>1, <2>2
<1>12. ASSUME NEW t \in Pushes(h), ~Below(t, <<k, 0>>), t \notin Group(h, k)
       PROVE  \E s \in Pushes(h) :
                ~Below(s, <<k, 0>>) /\ Below(s, t) /\ Pushed(h, s)[1] # "tool"
  <2> DEFINE e == EndOf(h, k)
             s == <<e + 1, 0>>
  <2>1. t[1] > e
    BY <1>1, <1>2, <1>6, <1>12, GroupOrder
  <2>2. t[1] <= Len(h)
    <3>1. CASE t[1] \in 1..Len(h)
      BY <1>1, <3>1
    <3>2. CASE \E l \in 1..Len(h) : t[1] = EndOf(h, l)
      <4>1. PICK l \in 1..Len(h) : t[1] = EndOf(h, l)
        BY <3>2
      <4>2. EndOf(h, l) \in l..Len(h)
        BY <1>1, AnswersRun
      <4> QED BY <1>1, <4>1, <4>2
    <3> QED BY <3>1, <3>2, PushedPairs
  <2>3. e + 1 \in 1..Len(h) /\ e < Len(h) /\ e \in Nat /\ e >= k
    BY <1>1, <1>2, <1>6, <2>1, <2>2
  <2>4. h[e + 1][1] # "tool"
    BY <1>1, <2>3, AnswersRun
  <2>5. s \in Pushes(h)
    BY <2>3, PushedPairs
  <2>6. ~Below(s, <<k, 0>>) /\ Below(s, t)
    <3> HIDE DEF e
    <3>1. t[1] \in Nat /\ t[2] \in Nat /\ k \in Nat
      BY <1>1, <1>6
    <3>2. t[1] > e
      BY <2>1 DEF e
    <3>3. e \in Nat /\ e >= k
      BY <2>3 DEF e
    <3> QED BY <3>1, <3>2, <3>3 DEF Below
  <2>7. Pushed(h, s) = h[e + 1]
    BY DEF Pushed
  <2> QED BY <2>4, <2>5, <2>6, <2>7
<1> QED BY <1>9, <1>10, <1>11, <1>12

(* reconcileToolCalls(): every call has its answer, where it belongs.      *)
LEMMA Reconciling ==
  ASSUME NEW h, Sound(h)
  PROVE  Sound(Reconciled(h)) /\ Complete(Reconciled(h), Len(Reconciled(h)))
<1> DEFINE P == Pushes(h)
           N == Cardinality(P)
           r == Reconciled(h)
           at(n) == Nth(n, P)
           R(s) == Rank(s, P)
           Caller(k) == k \in 1..Len(h) /\ h[k][1] = "assistant"
<1>1. /\ Len(h) \in Nat /\ P \in SUBSET (Nat \X Nat) /\ IsFiniteSet(P)
      /\ \A j \in 1..Len(h) : h[j] \in Messages
  BY PushedPairs DEF Sound
<1>2. /\ N \in Nat
      /\ \A n \in 1..N : at(n) \in P /\ R(at(n)) = n
      /\ \A s \in P : R(s) \in 1..N /\ at(R(s)) = s
      /\ \A s, t \in P : Below(s, t) <=> R(s) <= R(t)
  BY <1>1, Ranked
<1>3. r = [n \in 1..N |-> Pushed(h, at(n))]
  BY DEF Reconciled
<1>4. \A s \in P :
        \/ s[2] = 0 /\ s[1] \in 1..Len(h) /\ Pushed(h, s) = h[s[1]] /\ s = <<s[1], 0>>
        \/ /\ s[2] \in Nat \ {0} /\ Pushed(h, s) = Result(s[2])
           /\ \E k \in 1..Len(h) : Caller(k) /\ s \in Group(h, k)
  <2> SUFFICES ASSUME NEW s \in P
               PROVE  \/ s[2] = 0 /\ s[1] \in 1..Len(h) /\ Pushed(h, s) = h[s[1]] /\ s = <<s[1], 0>>
                      \/ /\ s[2] \in Nat \ {0} /\ Pushed(h, s) = Result(s[2])
                         /\ \E k \in 1..Len(h) : Caller(k) /\ s \in Group(h, k)
    OBVIOUS
  <2>1. s = <<s[1], s[2]>>
    BY <1>1
  <2>2. CASE s[2] = 0 /\ s[1] \in 1..Len(h)
    BY <2>1, <2>2 DEF Pushed
  <2>3. CASE \E k \in 1..Len(h) :
               h[k][1] = "assistant" /\ s[1] = EndOf(h, k) /\ s[2] \in Missing(h, k)
    <3>1. PICK k \in 1..Len(h) :
            h[k][1] = "assistant" /\ s[1] = EndOf(h, k) /\ s[2] \in Missing(h, k)
      BY <2>3
    <3>2. s[2] \in Nat \ {0}
      BY <3>1, PushedPairs
    <3>3. s \in Group(h, k)
      BY <3>1 DEF Group
    <3> QED BY <3>1, <3>2, <3>3 DEF Pushed
  <2> QED BY <2>2, <2>3, PushedPairs
<1>5. \A s \in P : Pushed(h, s) \in Messages
  BY <1>1, <1>4, MessageKinds
<1>6. r \in Seq(Messages) /\ Len(r) = N /\ \A n \in 1..N : r[n] = Pushed(h, at(n))
  <2>1. \A n \in 1..N : Pushed(h, at(n)) \in Messages
    BY <1>2, <1>5
  <2> HIDE DEF r, N, at
  <2>2. r \in [1..N -> Messages]
    BY <1>3, <2>1
  <2>3. Len(r) = N /\ DOMAIN r = 1..N
    BY <1>2, <2>2
  <2> QED BY <1>2, <1>3, <2>2, <2>3
<1>7. ASSUME NEW k, Caller(k)
      PROVE  /\ R(<<k, 0>>) \in 1..N /\ r[R(<<k, 0>>)] = h[k]
             /\ \A n \in 1..N : n \in Answers(r, R(<<k, 0>>)) <=> at(n) \in Group(h, k)
  <2> DEFINE p == R(<<k, 0>>)
  <2>1. <<k, 0>> \in P
    BY <1>7, PushedPairs
  <2>2. p \in 1..N /\ at(p) = <<k, 0>>
    BY <1>2, <2>1
  <2>3. r[p] = h[k]
    <3>1. Pushed(h, <<k, 0>>) = h[k]
      BY DEF Pushed
    <3> QED BY <1>6, <2>2, <3>1
  <2>4. \A n \in 1..N : ~Below(at(n), <<k, 0>>) <=> n > p
    BY <1>2, <2>1, <2>2
  <2>5. \A n, l \in 1..N : Below(at(n), at(l)) <=> n <= l
    BY <1>2
  <2>6. ASSUME NEW n \in 1..N, at(n) \in Group(h, k) PROVE n \in Answers(r, p)
    <3>1. n > p
      BY <1>2, <1>7, <2>4, <2>6, GroupOrder
    <3>2. \A l \in (p + 1)..n : r[l][1] = "tool"
      <4> SUFFICES ASSUME NEW l \in (p + 1)..n PROVE r[l][1] = "tool"
        OBVIOUS
      <4>1. l \in 1..N /\ l > p /\ l <= n
        BY <1>2, <2>2
      <4>2. ~Below(at(l), <<k, 0>>) /\ Below(at(l), at(n)) /\ at(l) \in P /\ at(n) \in P
        BY <1>2, <2>4, <2>5, <4>1
      <4>3. at(n)[1] <= EndOf(h, k)
        BY <1>7, <2>6, <4>2, GroupOrder
      <4>4. at(l)[1] <= EndOf(h, k)
        <5>1. at(l)[1] \in Nat /\ at(n)[1] \in Nat /\ EndOf(h, k) \in Nat
          <6>1. EndOf(h, k) \in k..Len(h)
            BY <1>1, <1>7, AnswersRun
          <6> QED BY <1>1, <1>7, <4>2, <6>1, SMTT(30)
        <5>2. at(l)[1] <= at(n)[1]
          BY <4>2, <5>1 DEF Below
        <5> HIDE DEF at
        <5> QED BY <4>3, <5>1, <5>2
      <4>5. at(l) \in Group(h, k)
        BY <1>7, <4>2, <4>4, GroupOrder
      <4>6. PICK i \in 1..Calls(h[k]) : Pushed(h, at(l)) = Result(i)
        BY <1>7, <4>5, GroupAnswers
      <4> QED BY <1>6, <4>1, <4>6, MessageKinds
    <3>3. n \in (p + 1)..Len(r)
      BY <1>2, <1>6, <2>2, <3>1
    <3> QED BY <3>2, <3>3 DEF Answers
  <2>7. ASSUME NEW n \in 1..N, n \in Answers(r, p), at(n) \notin Group(h, k) PROVE FALSE
    <3>1. n > p /\ \A l \in (p + 1)..n : r[l][1] = "tool"
      BY <1>2, <1>6, <2>2, <2>7 DEF Answers
    <3>2. at(n) \in P /\ ~Below(at(n), <<k, 0>>)
      BY <1>2, <2>4, <3>1
    <3>3. PICK s \in P : ~Below(s, <<k, 0>>) /\ Below(s, at(n)) /\ Pushed(h, s)[1] # "tool"
      BY <1>7, <2>7, <3>2, GroupAnswers
    <3> DEFINE l == R(s)
    <3>4. l \in 1..N /\ at(l) = s
      BY <1>2
    <3>5. l > p /\ l <= n
      BY <2>4, <2>5, <3>3, <3>4
    <3>6. l \in (p + 1)..n
      BY <1>2, <2>2, <3>4, <3>5
    <3>7. r[l] = Pushed(h, s)
      BY <1>6, <3>4
    <3> QED BY <3>1, <3>3, <3>6, <3>7
  <2> QED BY <2>2, <2>3, <2>6, <2>7
<1>8. \A n \in 1..N : r[n][1] = "assistant" =>
        \E k \in 1..Len(h) : Caller(k) /\ n = R(<<k, 0>>)
  <2> SUFFICES ASSUME NEW n \in 1..N, r[n][1] = "assistant"
               PROVE  \E k \in 1..Len(h) : Caller(k) /\ n = R(<<k, 0>>)
    OBVIOUS
  <2>1. at(n) \in P /\ R(at(n)) = n /\ r[n] = Pushed(h, at(n))
    BY <1>2, <1>6
  <2>2. at(n)[2] = 0 /\ at(n)[1] \in 1..Len(h) /\ r[n] = h[at(n)[1]] /\ at(n) = <<at(n)[1], 0>>
    BY <1>4, <2>1, MessageKinds
  <2> QED BY <2>1, <2>2
<1>9. \A n \in 1..N : r[n][1] = "tool" => \E k \in 1..Len(h) : Caller(k) /\ at(n) \in Group(h, k)
  <2> SUFFICES ASSUME NEW n \in 1..N, r[n][1] = "tool"
               PROVE  \E k \in 1..Len(h) : Caller(k) /\ at(n) \in Group(h, k)
    OBVIOUS
  <2>1. at(n) \in P /\ r[n] = Pushed(h, at(n))
    BY <1>2, <1>6
  <2>2. CASE /\ at(n)[2] = 0 /\ at(n)[1] \in 1..Len(h) /\ Pushed(h, at(n)) = h[at(n)[1]]
             /\ at(n) = <<at(n)[1], 0>>
    <3>1. PICK k \in 1..Len(h) : h[k][1] = "assistant" /\ at(n)[1] \in Answers(h, k)
      BY <2>1, <2>2 DEF Sound
    <3> QED BY <2>1, <2>2, <3>1 DEF Group
  <2>3. CASE \E k \in 1..Len(h) : Caller(k) /\ at(n) \in Group(h, k)
    BY <2>3
  <2> QED BY <1>4, <2>1, <2>2, <2>3
<1> HIDE DEF r, N, at, P, R
<1>10. ASSUME NEW p \in 1..N, r[p][1] = "assistant"
       PROVE  /\ \A n \in Answers(r, p) : \E i \in 1..Calls(r[p]) : r[n] = Result(i)
              /\ \A n, m \in Answers(r, p) : r[n] = r[m] => n = m
              /\ Missing(r, p) = {}
  <2>1. PICK k \in 1..Len(h) : Caller(k) /\ p = R(<<k, 0>>)
    BY <1>8, <1>10
  <2>2. r[p] = h[k] /\ \A n \in 1..N : n \in Answers(r, p) <=> at(n) \in Group(h, k)
    BY <1>7, <2>1
  <2>3. \A n \in Answers(r, p) : n \in 1..N /\ at(n) \in Group(h, k) /\ r[n] = Pushed(h, at(n))
    <3>1. Answers(r, p) \subseteq 1..N
      BY <1>2, <1>6 DEF Answers
    <3> QED BY <1>6, <2>2, <3>1
  <2>4. \A n \in Answers(r, p) : \E i \in 1..Calls(r[p]) : r[n] = Result(i)
    BY <2>1, <2>2, <2>3, GroupAnswers
  <2>5. \A n, m \in Answers(r, p) : r[n] = r[m] => n = m
    <3> SUFFICES ASSUME NEW n \in Answers(r, p), NEW m \in Answers(r, p), r[n] = r[m]
                 PROVE  n = m
      OBVIOUS
    <3>1. at(n) = at(m)
      BY <2>1, <2>3, GroupAnswers
    <3> QED BY <1>2, <2>3, <3>1
  <2>6. \A i \in 1..Calls(r[p]) : \E n \in Answers(r, p) : r[n] = Result(i)
    <3> SUFFICES ASSUME NEW i \in 1..Calls(h[k]) PROVE \E n \in Answers(r, p) : r[n] = Result(i)
      BY <2>2
    <3>1. PICK s \in Group(h, k) : Pushed(h, s) = Result(i)
      BY <2>1, GroupAnswers
    <3>2. s \in P
      BY DEF Group, P
    <3>3. R(s) \in 1..N /\ at(R(s)) = s
      BY <1>2, <3>2
    <3>4. R(s) \in Answers(r, p) /\ r[R(s)] = Result(i)
      BY <1>6, <2>2, <3>1, <3>3
    <3> QED BY <3>4
  <2>7. Missing(r, p) = {}
    BY <2>6 DEF Missing
  <2> QED BY <2>4, <2>5, <2>7
<1>11. \A n \in 1..N : r[n][1] = "tool" =>
         \E p \in 1..N : r[p][1] = "assistant" /\ n \in Answers(r, p)
  <2> SUFFICES ASSUME NEW n \in 1..N, r[n][1] = "tool"
               PROVE  \E p \in 1..N : r[p][1] = "assistant" /\ n \in Answers(r, p)
    OBVIOUS
  <2>1. PICK k \in 1..Len(h) : Caller(k) /\ at(n) \in Group(h, k)
    BY <1>9
  <2> QED BY <1>7, <2>1
<1>12. Complete(r, N)
  <2> SUFFICES ASSUME NEW p \in 1..N PROVE Missing(r, p) = {}
    BY DEF Complete
  <2>1. CASE r[p][1] = "assistant"
    BY <1>10, <2>1
  <2>2. CASE r[p][1] # "assistant"
    <3>1. Calls(r[p]) = 0
      BY <2>2, MessageKinds
    <3> QED BY <3>1 DEF Missing
  <2> QED BY <2>1, <2>2
<1>13. Sound(r)
  BY <1>6, <1>10, <1>11 DEF Sound
<1> QED BY <1>6, <1>12, <1>13 DEF r

(* A message that is no result, at the end.                                *)
LEMMA Appended ==
  ASSUME NEW h, Sound(h), NEW m \in Messages, m[1] # "tool"
  PROVE  /\ Sound(Append(h, m)) /\ Len(Append(h, m)) = Len(h) + 1
         /\ Append(h, m)[Len(h) + 1] = m
         /\ Complete(h, Len(h)) => Complete(Append(h, m), Len(h))
         /\ Complete(h, Len(h)) /\ Calls(m) = 0 => Complete(Append(h, m), Len(h) + 1)
<1> DEFINE g == Append(h, m)
           N == Len(h)
<1>1. h \in Seq(Messages) /\ N \in Nat
  BY DEF Sound
<1>2. /\ g \in Seq(Messages) /\ Len(g) = N + 1 /\ g[N + 1] = m
      /\ \A j \in 1..N : g[j] = h[j]
  BY <1>1
<1> HIDE DEF g
<1>3. \A k \in 1..N : Answers(g, k) = Answers(h, k)
  <2> SUFFICES ASSUME NEW k \in 1..N PROVE Answers(g, k) = Answers(h, k)
    OBVIOUS
  <2>1. ASSUME NEW j \in Answers(g, k) PROVE j \in Answers(h, k)
    <3>1. j \in (k + 1)..(N + 1) /\ \A l \in (k + 1)..j : g[l][1] = "tool"
      BY <1>2, <2>1 DEF Answers
    <3>2. j # N + 1
      BY <1>1, <1>2, <3>1
    <3>3. j \in (k + 1)..N /\ \A l \in (k + 1)..j : l \in 1..N
      BY <1>1, <3>1, <3>2
    <3>4. \A l \in (k + 1)..j : h[l][1] = "tool"
      BY <1>2, <3>1, <3>3
    <3> QED BY <3>3, <3>4 DEF Answers
  <2>2. ASSUME NEW j \in Answers(h, k) PROVE j \in Answers(g, k)
    <3>1. j \in (k + 1)..N /\ \A l \in (k + 1)..j : h[l][1] = "tool"
      BY <2>2 DEF Answers
    <3>2. j \in (k + 1)..(N + 1) /\ \A l \in (k + 1)..j : l \in 1..N
      BY <1>1, <3>1
    <3>3. \A l \in (k + 1)..j : g[l][1] = "tool"
      BY <1>2, <3>1, <3>2
    <3> QED BY <1>2, <3>2, <3>3 DEF Answers
  <2> QED BY <2>1, <2>2
<1>4. Answers(g, N + 1) = {}
  BY <1>1, <1>2 DEF Answers
<1>5. \A k \in 1..N : Answers(h, k) \subseteq 1..N
  BY <1>1 DEF Answers
<1>6. \A k \in 1..N : Missing(g, k) = Missing(h, k)
  BY <1>2, <1>3, <1>5 DEF Missing
<1>7. \A k \in 1..(N + 1) : k \in 1..N \/ k = N + 1
  BY <1>1
<1>8. 1..N \subseteq 1..(N + 1)
  BY <1>1
<1>9. ASSUME NEW j \in 1..(N + 1), g[j][1] = "tool"
      PROVE  \E k \in 1..(N + 1) : g[k][1] = "assistant" /\ j \in Answers(g, k)
  <2>1. j \in 1..N /\ h[j][1] = "tool"
    BY <1>2, <1>7, <1>9
  <2>2. PICK k \in 1..N : h[k][1] = "assistant" /\ j \in Answers(h, k)
    BY <2>1 DEF Sound
  <2> QED BY <1>2, <1>3, <1>8, <2>2
<1>10. ASSUME NEW k \in 1..(N + 1), g[k][1] = "assistant"
       PROVE  /\ \A j \in Answers(g, k) : \E i \in 1..Calls(g[k]) : g[j] = Result(i)
              /\ \A i, j \in Answers(g, k) : g[i] = g[j] => i = j
  <2>1. CASE k = N + 1
    BY <1>4, <2>1
  <2>2. CASE k \in 1..N
    <3>1. g[k] = h[k] /\ Answers(g, k) = Answers(h, k)
      BY <1>2, <1>3, <2>2
    <3>2. \A j \in Answers(h, k) : g[j] = h[j]
      BY <1>2, <1>5, <2>2
    <3>3. /\ \A j \in Answers(h, k) : \E i \in 1..Calls(h[k]) : h[j] = Result(i)
          /\ \A i, j \in Answers(h, k) : h[i] = h[j] => i = j
      BY <1>10, <2>2, <3>1 DEF Sound
    <3> QED BY <3>1, <3>2, <3>3
  <2> QED BY <1>7, <2>1, <2>2
<1>11. Sound(g)
  BY <1>2, <1>9, <1>10 DEF Sound
<1>12. Complete(h, N) => Complete(g, N)
  BY <1>6 DEF Complete
<1>13. Complete(h, N) /\ Calls(m) = 0 => Complete(g, N + 1)
  <2>1. Calls(m) = 0 => Missing(g, N + 1) = {}
    BY <1>2 DEF Missing
  <2> QED BY <1>7, <1>12, <2>1 DEF Complete
<1> QED BY <1>2, <1>11, <1>12, <1>13 DEF g

(* Further results of the open message, in the order of its calls.         *)
LEMMA Extended ==
  ASSUME NEW h, Sound(h), NEW k \in 1..Len(h), NEW c \in Nat, NEW n \in 0..c, NEW m \in 0..n,
         OpenAt(h, k, m, c),
         NEW g \in Seq(Messages), Len(g) = k + n,
         \A j \in 1..(k + m) : g[j] = h[j],
         \A i \in 1..n : g[k + i] = Result(i)
  PROVE  /\ Sound(g) /\ OpenAt(g, k, n, c)
         /\ n = c => Complete(g, Len(g))
<1>1. k \in Nat \ {0} /\ n \in Nat /\ m \in Nat /\ m <= n /\ n <= c /\ c \in Nat
  BY DEF Sound
<1>2. Len(h) = k + m /\ h[k] = Assistant(c) /\ Complete(h, k - 1)
  BY DEF OpenAt
<1>3. /\ g[k] = Assistant(c) /\ g[k][1] = "assistant" /\ Calls(g[k]) = c
      /\ h[k][1] = "assistant" /\ \A j \in 1..k : g[j] = h[j]
  <2>1. k \in 1..k /\ \A j \in 1..k : j \in 1..(k + m)
    BY <1>1
  <2>2. g[k] = h[k] /\ \A j \in 1..k : g[j] = h[j]
    BY <2>1
  <2>3. Assistant(c)[1] = "assistant" /\ Calls(Assistant(c)) = c
    BY MessageKinds
  <2> QED BY <1>2, <2>2, <2>3
<1>4. \A j \in (k + 1)..(k + n) : j - k \in 1..n /\ g[j] = Result(j - k) /\ g[j][1] = "tool"
  <2> SUFFICES ASSUME NEW j \in (k + 1)..(k + n)
               PROVE  j - k \in 1..n /\ g[j] = Result(j - k) /\ g[j][1] = "tool"
    OBVIOUS
  <2>1. j - k \in 1..n /\ k + (j - k) = j
    BY <1>1
  <2>2. g[k + (j - k)] = Result(j - k)
    BY <2>1
  <2> QED BY <2>1, <2>2, MessageKinds, ZenonT(40)
<1>5. \A l \in 1..(k + n) : l \in 1..(k - 1) \/ l = k \/ l \in (k + 1)..(k + n)
  BY <1>1
<1>6. \A l \in 1..(k - 1) :
        /\ l \in 1..k /\ l \in 1..Len(h) /\ l \in 1..Len(g)
        /\ Answers(g, l) = Answers(h, l) /\ Answers(h, l) \subseteq 1..k
  <2> SUFFICES ASSUME NEW l \in 1..(k - 1)
               PROVE  /\ l \in 1..k /\ l \in 1..Len(h) /\ l \in 1..Len(g)
                      /\ Answers(g, l) = Answers(h, l) /\ Answers(h, l) \subseteq 1..k
    OBVIOUS
  <2>1. l \in 1..k /\ l \in 1..Len(h) /\ l \in 1..Len(g)
    BY <1>1, <1>2
  <2>2. ASSUME NEW j \in Answers(h, l) PROVE j \in 1..k /\ j \in Answers(g, l)
    <3>1. j \in (l + 1)..(k + m) /\ \A i \in (l + 1)..j : h[i][1] = "tool"
      BY <1>2, <2>2 DEF Answers
    <3>2. j < k
      <4> SUFFICES ASSUME ~(j < k) PROVE FALSE
        OBVIOUS
      <4>1. k \in (l + 1)..j
        BY <1>1, <2>1, <3>1
      <4> QED BY <1>3, <3>1, <4>1
    <3>3. j \in 1..k /\ j \in (l + 1)..Len(g) /\ \A i \in (l + 1)..j : i \in 1..k
      BY <1>1, <3>1, <3>2
    <3>4. \A i \in (l + 1)..j : g[i][1] = "tool"
      BY <1>3, <3>1, <3>3
    <3> QED BY <3>3, <3>4 DEF Answers
  <2>3. ASSUME NEW j \in Answers(g, l) PROVE j \in Answers(h, l)
    <3>1. j \in (l + 1)..(k + n) /\ \A i \in (l + 1)..j : g[i][1] = "tool"
      BY <2>3 DEF Answers
    <3>2. j < k
      <4> SUFFICES ASSUME ~(j < k) PROVE FALSE
        OBVIOUS
      <4>1. k \in (l + 1)..j
        BY <1>1, <2>1, <3>1
      <4> QED BY <1>3, <3>1, <4>1
    <3>3. j \in (l + 1)..Len(h) /\ \A i \in (l + 1)..j : i \in 1..k
      BY <1>1, <1>2, <3>1, <3>2
    <3>4. \A i \in (l + 1)..j : h[i][1] = "tool"
      BY <1>3, <3>1, <3>3
    <3> QED BY <3>3, <3>4 DEF Answers
  <2> QED BY <2>1, <2>2, <2>3
<1>7. Answers(g, k) = (k + 1)..(k + n)
  <2>1. ASSUME NEW j \in (k + 1)..(k + n) PROVE j \in Answers(g, k)
    <3>1. \A l \in (k + 1)..j : l \in (k + 1)..(k + n)
      BY <1>1
    <3> QED BY <1>4, <3>1 DEF Answers
  <2> QED BY <2>1 DEF Answers
<1>8. \A l \in 1..(k - 1) : Missing(g, l) = {}
  <2> SUFFICES ASSUME NEW l \in 1..(k - 1) PROVE Missing(g, l) = {}
    OBVIOUS
  <2>1. g[l] = h[l] /\ \A j \in Answers(h, l) : g[j] = h[j]
    BY <1>3, <1>6
  <2>2. Missing(g, l) = Missing(h, l)
    BY <1>6, <2>1 DEF Missing
  <2> QED BY <1>2, <2>2 DEF Complete
<1>9. OpenAt(g, k, n, c)
  BY <1>3, <1>8 DEF OpenAt, Complete
<1>10. ASSUME NEW j \in 1..Len(g), g[j][1] = "tool"
       PROVE  \E l \in 1..Len(g) : g[l][1] = "assistant" /\ j \in Answers(g, l)
  <2>1. CASE j \in 1..(k - 1)
    <3>1. h[j][1] = "tool" /\ j \in 1..Len(h)
      BY <1>3, <1>6, <1>10, <2>1
    <3>2. PICK l \in 1..Len(h) : h[l][1] = "assistant" /\ j \in Answers(h, l)
      BY <3>1 DEF Sound
    <3>3. l \in 1..(k - 1)
      <4>1. l < j
        BY <1>1, <1>2, <2>1, <3>2 DEF Answers
      <4> QED BY <1>1, <2>1, <4>1
    <3> QED BY <1>3, <1>6, <3>2, <3>3
  <2>2. CASE j = k
    BY <1>3, <1>10, <2>2
  <2>3. CASE j \in (k + 1)..(k + n)
    <3>1. k \in 1..Len(g)
      BY <1>1
    <3> QED BY <1>3, <1>7, <2>3, <3>1
  <2> QED BY <1>5, <2>1, <2>2, <2>3
<1>11. ASSUME NEW l \in 1..Len(g), g[l][1] = "assistant"
       PROVE  /\ \A j \in Answers(g, l) : \E i \in 1..Calls(g[l]) : g[j] = Result(i)
              /\ \A i, j \in Answers(g, l) : g[i] = g[j] => i = j
  <2>1. CASE l \in 1..(k - 1)
    <3>1. g[l] = h[l] /\ Answers(g, l) = Answers(h, l) /\ \A j \in Answers(h, l) : g[j] = h[j]
      BY <1>3, <1>6, <2>1
    <3>2. /\ \A j \in Answers(h, l) : \E i \in 1..Calls(h[l]) : h[j] = Result(i)
          /\ \A i, j \in Answers(h, l) : h[i] = h[j] => i = j
      BY <1>6, <1>11, <2>1, <3>1 DEF Sound
    <3> QED BY <3>1, <3>2
  <2>2. CASE l = k
    <3>1. \A j \in Answers(g, k) : j - k \in 1..c /\ g[j] = Result(j - k)
      BY <1>1, <1>4, <1>7
    <3>2. ASSUME NEW i \in Answers(g, k), NEW j \in Answers(g, k), g[i] = g[j] PROVE i = j
      <4>1. i - k = j - k
        BY <3>1, <3>2, MessageKinds
      <4>2. i \in Int /\ j \in Int /\ k \in Int
        BY <1>1, <1>7, <3>2
      <4> QED BY <4>1, <4>2, SMTT(30)
    <3> QED BY <1>3, <2>2, <3>1, <3>2
  <2>3. CASE l \in (k + 1)..(k + n)
    BY <1>4, <1>11, <2>3
  <2> QED BY <1>5, <2>1, <2>2, <2>3
<1>12. Sound(g)
  BY <1>10, <1>11 DEF Sound
<1>13. ASSUME n = c PROVE Complete(g, Len(g))
  <2> SUFFICES ASSUME NEW l \in 1..(k + n) PROVE Missing(g, l) = {}
    BY DEF Complete
  <2>1. CASE l = k
    <3>1. \A i \in 1..c : k + i \in Answers(g, k) /\ g[k + i] = Result(i)
      BY <1>1, <1>7, <1>13
    <3> QED BY <1>3, <2>1, <3>1 DEF Missing
  <2>2. CASE l \in (k + 1)..(k + n)
    <3>1. Calls(g[l]) = 0
      BY <1>4, <2>2, MessageKinds
    <3> QED BY <3>1 DEF Missing
  <2> QED BY <1>5, <1>8, <2>1, <2>2
<1> QED BY <1>9, <1>12, <1>13

(* A complete conversation pairs calls and results.                        *)
LEMMA CompletePairs ==
  ASSUME Sound(history), Complete(history, Len(history))
  PROVE  RequestsPaired
<1>1. Len(history) \in Nat /\ \A k \in 1..Len(history) : Calls(history[k]) \in Nat
  BY MessageKinds DEF Sound
<1>2. ASSUME NEW k \in 1..Len(history), Calls(history[k]) > 0
      PROVE  Cardinality(Answers(history, k)) = Calls(history[k])
  <2> DEFINE A == Answers(history, k)
             c == Calls(history[k])
             f == [j \in A |-> CHOOSE i \in 1..c : history[j] = Result(i)]
  <2>1. history[k][1] = "assistant"
    BY <1>2, MessageKinds
  <2>2. \A j \in A : f[j] \in 1..c /\ history[j] = Result(f[j])
    <3> SUFFICES ASSUME NEW j \in A PROVE f[j] \in 1..c /\ history[j] = Result(f[j])
      OBVIOUS
    <3>1. \E i \in 1..c : history[j] = Result(i)
      BY <2>1 DEF Sound
    <3> QED BY <3>1
  <2>3. \A i, j \in A : history[i] = history[j] => i = j
    BY <2>1 DEF Sound
  <2>4. \A i \in 1..c : \E j \in A : history[j] = Result(i)
    BY DEF Complete, Missing
  <2>5. IsFiniteSet(1..c) /\ Cardinality(1..c) = c
    <3>1. 1 \in Int /\ c \in Int
      BY <1>1
    <3>2. IsFiniteSet(1..c) /\ Cardinality(1..c) = IF 1 > c THEN 0 ELSE c - 1 + 1
      BY <3>1, FS_Interval, Zenon
    <3> QED BY <1>2, <3>1, <3>2
  <2>6. DOMAIN f = A
    OBVIOUS
  <2> HIDE DEF A, c
  <2>7. f \in [A -> 1..c]
    BY <2>2
  <2> HIDE DEF f
  <2>8. f \in Injection(A, 1..c)
    BY <2>2, <2>3, <2>6, <2>7 DEF Injection, IsInjective
  <2>9. f \in Surjection(A, 1..c)
    <3>1. \A i \in 1..c : \E j \in A : f[j] = i
      BY <2>2, <2>4, MessageKinds, SMTT(30)
    <3> QED BY <2>7, <3>1 DEF Surjection
  <2>10. Cardinality(A) = Cardinality(1..c)
    BY <2>5, <2>8, <2>9, FS_Injection, Zenon
  <2> QED BY <2>5, <2>10 DEF A, c
<1>3. ASSUME NEW k \in 1..Len(history), history[k][1] = "tool"
      PROVE  k > 1 /\ history[k - 1][1] \in {"assistant", "tool"}
  <2>1. PICK l \in 1..Len(history) : history[l][1] = "assistant" /\ k \in Answers(history, l)
    BY <1>3 DEF Sound
  <2>2. k \in (l + 1)..Len(history) /\ \A j \in (l + 1)..k : history[j][1] = "tool"
    BY <2>1 DEF Answers
  <2>3. k - 1 = l \/ k - 1 \in (l + 1)..k
    BY <1>1, <2>2
  <2> QED BY <1>1, <2>1, <2>2, <2>3
<1>4. \A k \in 1..Len(history) : Missing(history, k) = {}
  BY DEF Complete
<1> QED BY <1>2, <1>3, <1>4 DEF RequestsPaired

LEMMA ShortTalks ==
  /\ Sound(<<>>)
  /\ Sound(<<User>>) /\ Complete(<<User>>, Len(<<User>>))
<1>1. Sound(<<>>) /\ Complete(<<>>, Len(<<>>))
  BY DEF Sound, Complete
<1>2. Append(<<>>, User) = <<User>> /\ Len(<<>>) = 0 /\ Len(<<User>>) = 0 + 1
  OBVIOUS
<1>3. User \in Messages /\ User[1] # "tool" /\ Calls(User) = 0
  BY MessageKinds
<1>4. Sound(<<User>>) /\ Complete(<<User>>, 0 + 1)
  BY <1>1, <1>2, <1>3, Appended
<1> QED BY <1>1, <1>2, <1>4

(* The tools are under way and no result is added.                         *)
LEMMA TalkGoesOn ==
  ASSUME TalkInv, turn' = turn, history' = history, Sound(file'),
         \A i \in Indices : call'[i] = "recorded" <=> call[i] = "recorded"
  PROVE  TalkInv'
<1>1. Indices' = Indices
  BY DEF Indices
<1>2. Recorded' = Recorded
  BY <1>1 DEF Recorded
<1>3. (Calling' <=> Calling) /\ (Sending' <=> Sending)
  BY DEF Calling, Sending
<1> QED BY <1>2, <1>3 DEF TalkInv

LEMMA TalkElsewhere ==
  ASSUME Sound(history'), Sound(file'), ~Calling',
         Sending' => Complete(history', Len(history'))
  PROVE  TalkInv'
BY DEF TalkInv

LEMMA EndTurnTalk ==
  ASSUME Sound(history'), Sound(file'), EndTurn
  PROVE  TalkInv'
<1>1. turn'.at = "idle"
  BY DEF EndTurn, NoTurn
<1> QED BY <1>1, TalkElsewhere DEF Calling, Sending

(* Steps that run no tool.                                                 *)
LEMMA TalkBetween ==
  ASSUME TalkInv, PromptInv
  PROVE  /\ Compacted \/ CompactFails \/ PushUser \/ Request \/ Summarised \/ Compact => TalkInv'
         /\ StepsEnd \/ ChatFails \/ SummaryFails \/ LoopAborted => TalkInv'
         /\ \A plan, compacts \in BOOLEAN : Submit(plan, compacts) => TalkInv'
<1>1. turn \in TurnType /\ Sound(history) /\ Sound(file)
  BY DEF TalkInv, PromptInv, AgentType
<1>2. \A p : SaveThen(p) => turn'.at = "save" /\ turn'.next = p
  BY <1>1 DEF SaveThen, TurnType
<1>3. \A p : Go(p) => turn'.at = p /\ turn'.next = turn.next
  BY <1>1 DEF Go, TurnType
<1>4. turn.at \in {"compact", "ask", "step", "chat"} => Complete(history, Len(history))
  BY DEF TalkInv, Sending
<1>5. CASE Compacted \/ Summarised
  <2>1. /\ history' = <<User>> /\ file' = file
        /\ turn'.at = "save" /\ turn'.next # "tools"
    BY <1>2, <1>5 DEF Compacted, Summarised
  <2>2. Sound(history') /\ Complete(history', Len(history'))
    BY <2>1, ShortTalks
  <2> QED BY <1>1, <2>1, <2>2, TalkElsewhere DEF Calling, Sending
<1>6. CASE CompactFails \/ Request
  <2>1. history' = history /\ file' = file /\ turn'.at \in {"ask", "chat"}
    <3>1. CASE CompactFails
      BY <1>3, <3>1 DEF CompactFails, conversation
    <3>2. CASE Request
      BY <1>1, <3>2 DEF Request, conversation, TurnType
    <3> QED BY <1>6, <3>1, <3>2
  <2>2. Complete(history, Len(history))
    BY <1>4, <1>6 DEF CompactFails, Request
  <2> QED BY <1>1, <2>1, <2>2, TalkElsewhere DEF Calling, Sending
<1>7. CASE PushUser
  <2>1. /\ history' = Append(history, User) /\ file' = file
        /\ turn'.at = "save" /\ turn'.next = "step" /\ Complete(history, Len(history))
    BY <1>2, <1>4, <1>7 DEF PushUser
  <2>2. User \in Messages /\ User[1] # "tool" /\ Calls(User) = 0
    BY MessageKinds
  <2>3. /\ Sound(Append(history, User))
        /\ Complete(Append(history, User), Len(Append(history, User)))
    BY <1>1, <2>1, <2>2, Appended
  <2> QED BY <1>1, <2>1, <2>3, TalkElsewhere DEF Calling, Sending
<1>8. CASE Compact
  <2>1. history' = history /\ file' = file /\ turn'.at = "summary"
    BY <1>8 DEF Compact, conversation, NoTurn
  <2> QED BY <1>1, <2>1, TalkElsewhere DEF Calling, Sending
<1>9. CASE StepsEnd \/ ChatFails \/ SummaryFails \/ LoopAborted
  <2>1. history' = history /\ file' = file /\ EndTurn
    BY <1>9 DEF StepsEnd, ChatFails, SummaryFails, LoopAborted, conversation
  <2> QED BY <1>1, <2>1, EndTurnTalk
<1>10. ASSUME NEW plan \in BOOLEAN, NEW compacts \in BOOLEAN, Submit(plan, compacts)
       PROVE  TalkInv'
  <2>1. /\ history' = Reconciled(history) /\ file' = file
        /\ turn' = [NoTurn EXCEPT !.at = IF compacts THEN "compact" ELSE "ask", !.plan = plan]
    BY <1>10 DEF Submit
  <2>2. turn'.at \in {"compact", "ask"}
    BY <2>1 DEF NoTurn
  <2>3. Sound(history') /\ Complete(history', Len(history'))
    BY <1>1, <2>1, Reconciling
  <2> QED BY <1>1, <2>1, <2>2, <2>3, TalkElsewhere DEF Calling, Sending
<1> QED BY <1>5, <1>6, <1>7, <1>8, <1>9, <1>10

LEMMA TalkSaved ==
  ASSUME TalkInv, PromptInv, NEW succeeds \in BOOLEAN, Saved(succeeds)
  PROVE  TalkInv'
<1>1. turn \in TurnType /\ Sound(history) /\ Sound(file)
  BY DEF TalkInv, PromptInv, AgentType
<1>2. history' = history /\ Sound(file') /\ turn.at = "save"
  BY <1>1 DEF Saved
<1>3. CASE turn.next = "tools"
  <2>1. turn' = [turn EXCEPT !.at = "tools"] /\ call' = call
    BY <1>3 DEF Saved, Go
  <2>2. turn'.at = "tools" /\ turn'.tools = turn.tools
    BY <1>1, <2>1 DEF TurnType
  <2>3. Recorded' = Recorded
    BY <2>1, <2>2 DEF Recorded, Indices
  <2>4. Calling /\ ~Sending'
    BY <1>2, <1>3, <2>2 DEF Calling, Sending
  <2> QED BY <1>1, <1>2, <2>2, <2>3, <2>4 DEF TalkInv
<1>4. CASE turn.next # "tools"
  <2>1. Complete(history, Len(history))
    BY <1>2, <1>4 DEF TalkInv, Sending
  <2>2. CASE EndTurn
    BY <1>1, <1>2, <2>2, EndTurnTalk
  <2>3. CASE turn' = [turn EXCEPT !.at = IF turn.next = "ask" THEN "ask" ELSE "step",
                                  !.tools = <<>>]
    <3>1. turn'.at \in {"ask", "step"}
      BY <1>1, <2>3 DEF TurnType
    <3> QED BY <1>1, <1>2, <2>1, <3>1, TalkElsewhere DEF Calling, Sending
  <2> QED BY <1>4, <2>2, <2>3 DEF Saved
<1> QED BY <1>3, <1>4

LEMMA TalkAnswered ==
  ASSUME TalkInv, PromptInv, NEW tools \in Batches \cup {<<>>}, Answered(tools)
  PROVE  TalkInv'
<1>1. turn \in TurnType /\ Sound(history) /\ Sound(file) /\ turn.at = "chat"
  BY DEF TalkInv, PromptInv, AgentType, Answered
<1>2. Complete(history, Len(history)) /\ file' = file
  BY <1>1 DEF TalkInv, Sending, Answered
<1>3. Len(tools) \in Nat
  BY AgentAssumption
<1>4. CASE turn.plan /\ tools # <<>>
  <2>1. EndTurn /\ history' = history
    BY <1>4 DEF Answered
  <2> QED BY <1>1, <1>2, <2>1, EndTurnTalk
<1>5. CASE ~(turn.plan /\ tools # <<>>)
  <2> DEFINE m == Assistant(Len(tools))
             g == Append(history, m)
  <2>1. /\ history' = g /\ call' = [i \in 1..Len(tools) |-> "todo"]
        /\ turn' = [turn EXCEPT !.at = "save", !.tools = tools,
                                !.next = IF tools = <<>> THEN "idle" ELSE "tools"]
    BY <1>5 DEF Answered
  <2>2. /\ turn'.at = "save" /\ turn'.tools = tools
        /\ turn'.next = IF tools = <<>> THEN "idle" ELSE "tools"
    BY <1>1, <2>1 DEF TurnType
  <2>3. m \in Messages /\ m[1] # "tool" /\ Calls(m) = Len(tools)
    BY <1>3, MessageKinds
  <2> HIDE DEF m
  <2>4. /\ Sound(g) /\ Len(g) = Len(history) + 1 /\ g[Len(history) + 1] = m
        /\ Complete(g, Len(history)) /\ (Calls(m) = 0 => Complete(g, Len(history) + 1))
    BY <1>1, <1>2, <2>3, Appended
  <2> HIDE DEF g
  <2>5. CASE tools = <<>>
    <3>1. Complete(g, Len(g))
      BY <2>3, <2>4, <2>5
    <3> QED BY <1>1, <1>2, <2>1, <2>2, <2>4, <2>5, <3>1, TalkElsewhere DEF Calling, Sending
  <2>6. CASE tools # <<>>
    <3> DEFINE k == Len(history) + 1
    <3>1. Len(history) \in Nat
      BY <1>1 DEF Sound
    <3>2. k \in 1..Len(g) /\ 0 \in 0..Len(tools) /\ k - 1 = Len(history) /\ Len(g) = k + 0
      BY <1>3, <2>4, <3>1
    <3>3. OpenAt(g, k, 0, Len(tools))
      BY <2>4, <3>2 DEF OpenAt, m
    <3>4. Recorded' = {}
      BY <2>1, <2>2 DEF Recorded, Indices
    <3>5. 1..0 = {}
      OBVIOUS
    <3>6. \E l \in 1..Len(history'), n \in 0..Len(turn'.tools) :
            OpenAt(history', l, n, Len(turn'.tools)) /\ Recorded' = 1..n
      BY <2>1, <2>2, <3>2, <3>3, <3>4, <3>5
    <3>7. ~Sending'
      BY <2>2, <2>6 DEF Sending
    <3> QED BY <1>1, <1>2, <2>1, <2>4, <3>6, <3>7 DEF TalkInv
  <2> QED BY <2>5, <2>6
<1> QED BY <1>4, <1>5

(* The results of the tools, one by one or all at once.                    *)
LEMMA TalkRecorded ==
  ASSUME TalkInv, PromptInv
  PROVE  (\A i \in Indices : RecordOne(i) => TalkInv') /\ (RecordAll => TalkInv')
<1> DEFINE c == Len(turn.tools)
<1>1. turn \in TurnType /\ Sound(history) /\ Sound(file) /\ history \in Seq(Messages)
  BY DEF TalkInv, PromptInv, AgentType, Sound
<1>2. c \in Nat /\ Len(history) \in Nat /\ Indices = 1..c
  BY <1>1, LenTools DEF Indices
<1>3. \A i \in Nat \ {0} : Result(i) \in Messages
  BY MessageKinds
<1>4. ASSUME NEW i \in Indices, RecordOne(i) PROVE TalkInv'
  <2> DEFINE g == Append(history, Result(i))
  <2>1. /\ turn.at = "tools" /\ Sequential /\ call[i] = "done"
        /\ history' = g /\ file' = file /\ call' = [call EXCEPT ![i] = "recorded"]
    BY <1>4 DEF RecordOne, Becomes
  <2>2. IF i = c THEN turn' = [turn EXCEPT !.at = "save", !.next = "step"] ELSE turn' = turn
    BY <1>4 DEF RecordOne, SaveThen
  <2>3. PICK k \in 1..Len(history), m \in 0..c :
          OpenAt(history, k, m, c) /\ Recorded = 1..m
    BY <2>1 DEF TalkInv, Calling
  <2>4. m = i - 1
    <3>1. \A j \in 1..(i - 1) : call[j] = "recorded"
      BY <2>1 DEF PromptInv, InOrder
    <3>2. i \in 1..c /\ i \notin 1..m
      BY <1>2, <2>1, <2>3 DEF Recorded
    <3>3. i - 1 = 0 \/ i - 1 \in 1..m
      <4>1. i - 1 = 0 \/ (i - 1 \in 1..(i - 1) /\ i - 1 \in 1..c)
        BY <1>2, <3>2
      <4> QED BY <1>2, <2>3, <3>1, <4>1 DEF Recorded
    <3> QED BY <1>2, <2>3, <3>2, <3>3
  <2>5. Len(history) = k + m /\ \A j \in 1..m : history[k + j] = Result(j)
    BY <2>3 DEF OpenAt
  <2>6. /\ g \in Seq(Messages) /\ Len(g) = Len(history) + 1 /\ g[Len(history) + 1] = Result(i)
        /\ \A j \in 1..Len(history) : g[j] = history[j]
    BY <1>1, <1>2, <1>3
  <2> HIDE DEF g
  <2>7. i \in 1..c /\ k \in Nat
    BY <1>2
  <2>8. Len(g) = k + i /\ m \in 0..i /\ i \in 0..c /\ k \in 1..Len(g) /\ k + i = Len(history) + 1
    BY <1>2, <2>4, <2>5, <2>6, <2>7
  <2>9. \A j \in 1..(k + m) : g[j] = history[j]
    BY <2>5, <2>6
  <2>10. \A j \in 1..i : g[k + j] = Result(j)
    <3> SUFFICES ASSUME NEW j \in 1..i PROVE g[k + j] = Result(j)
      OBVIOUS
    <3>1. CASE j = i
      BY <2>6, <2>8, <3>1
    <3>2. CASE j # i
      <4>1. j \in 1..m /\ k + j \in 1..Len(history)
        BY <1>2, <2>4, <2>5, <2>7, <3>2
      <4> QED BY <2>5, <2>6, <4>1
    <3> QED BY <3>1, <3>2
  <2>11. Sound(g) /\ OpenAt(g, k, i, c) /\ (i = c => Complete(g, Len(g)))
    <3> HIDE DEF c
    <3>1. /\ Sound(history) /\ c \in Nat /\ i \in 0..c /\ m \in 0..i /\ OpenAt(history, k, m, c)
          /\ g \in Seq(Messages) /\ Len(g) = k + i
      BY <1>1, <1>2, <2>3, <2>6, <2>8
    <3> QED BY <2>9, <2>10, <3>1, Extended
  <2>12. CASE i = c
    <3>1. turn'.at = "save" /\ turn'.next = "step"
      BY <1>1, <2>2, <2>12 DEF TurnType
    <3> QED BY <1>1, <2>1, <2>11, <2>12, <3>1, TalkElsewhere DEF Calling, Sending
  <2>13. CASE i # c
    <3>1. turn' = turn /\ Indices' = Indices
      BY <2>2, <2>13 DEF Indices
    <3>2. \A j \in Indices : call'[j] = IF j = i THEN "recorded" ELSE call[j]
      BY <2>1, ToolFacts
    <3>3. Recorded' = Recorded \cup {i}
      BY <1>4, <3>1, <3>2 DEF Recorded
    <3>4. Recorded' = 1..i
      BY <1>2, <2>3, <2>4, <2>7, <3>3
    <3>5. ~Sending'
      BY <2>1, <3>1 DEF Sending
    <3>6. \E l \in 1..Len(history'), n \in 0..Len(turn'.tools) :
            OpenAt(history', l, n, Len(turn'.tools)) /\ Recorded' = 1..n
      BY <2>1, <2>8, <2>11, <3>1, <3>4
    <3> QED BY <1>1, <2>1, <2>11, <3>5, <3>6 DEF TalkInv
  <2> QED BY <2>12, <2>13
<1>5. ASSUME RecordAll PROVE TalkInv'
  <2> DEFINE s == [i \in Indices |-> Result(i)]
             g == history \o s
  <2>1. /\ turn.at = "tools" /\ history' = g /\ file' = file
        /\ \A i \in Indices : call[i] = "done"
        /\ turn' = [turn EXCEPT !.at = "save", !.next = "rest"]
    BY <1>5 DEF RecordAll, SaveThen
  <2>2. PICK k \in 1..Len(history), m \in 0..c :
          OpenAt(history, k, m, c) /\ Recorded = 1..m
    BY <2>1 DEF TalkInv, Calling
  <2>3. m = 0
    <3>1. Recorded = {}
      BY <2>1 DEF Recorded
    <3>2. 1 \notin 1..m
      BY <2>2, <3>1
    <3> QED BY <1>2, <3>2
  <2>4. Len(history) = k + m
    BY <2>2 DEF OpenAt
  <2>5. s \in Seq(Messages) /\ Len(s) = c /\ \A i \in 1..c : s[i] = Result(i)
    BY <1>2, <1>3
  <2> HIDE DEF s
  <2>6. /\ g \in Seq(Messages) /\ Len(g) = Len(history) + c
        /\ \A j \in 1..Len(history) : g[j] = history[j]
        /\ \A i \in 1..c : g[Len(history) + i] = s[i]
    <3>1. /\ g \in Seq(Messages) /\ Len(g) = Len(history) + Len(s)
          /\ \A j \in 1..(Len(history) + Len(s)) :
               g[j] = IF j <= Len(history) THEN history[j] ELSE s[j - Len(history)]
      BY <1>1, <2>5, ConcatProperties, ZenonT(40)
    <3> HIDE DEF g, c
    <3>2. \A j \in 1..Len(history) : g[j] = history[j]
      BY <1>2, <2>5, <3>1
    <3>3. ASSUME NEW i \in 1..c PROVE g[Len(history) + i] = s[i]
      <4>1. /\ Len(history) + i \in 1..(Len(history) + Len(s)) /\ ~(Len(history) + i <= Len(history))
            /\ Len(history) + i - Len(history) = i
        BY <1>2, <2>5
      <4>2. g[Len(history) + i] = s[Len(history) + i - Len(history)]
        BY <3>1, <4>1
      <4> QED BY <4>1, <4>2
    <3> QED BY <2>5, <3>1, <3>2, <3>3
  <2> HIDE DEF g
  <2>7. Len(g) = k + c /\ Len(history) = k /\ k + m = k /\ c \in 0..c
    BY <1>2, <2>3, <2>4, <2>6
  <2>8. /\ \A j \in 1..(k + m) : g[j] = history[j]
        /\ \A i \in 1..c : g[k + i] = Result(i)
    BY <2>5, <2>6, <2>7
  <2>9. Sound(g) /\ Complete(g, Len(g))
    <3> HIDE DEF c
    <3> QED BY <1>1, <1>2, <2>2, <2>6, <2>7, <2>8, Extended
  <2>10. turn'.at = "save" /\ turn'.next = "rest"
    BY <1>1, <2>1 DEF TurnType
  <2> QED BY <1>1, <2>1, <2>9, <2>10, TalkElsewhere DEF Calling, Sending
<1> QED BY <1>4, <1>5

(* A call goes on, and perhaps a waiter wakes up.                          *)
LEMMA TalkReleased ==
  ASSUME PromptInv, NEW i \in Indices, call[i] # "recorded", NEW s, s # "recorded",
         Becomes(i, s) \/ Release(i, s)
  PROVE  \A j \in Indices : call'[j] = "recorded" <=> call[j] = "recorded"
<1>1. call \in [Indices -> States] /\ Len(waiters) \in Nat
  BY ToolFacts DEF PromptInv, AgentType
<1>2. CASE call' = [call EXCEPT ![i] = s]
  BY <1>1, <1>2
<1>3. CASE waiters # <<>> /\ call' = [call EXCEPT ![i] = s, ![Head(waiters)] = "woken"]
  <2>1. Head(waiters) \in Indices /\ call[Head(waiters)] = "parked"
    <3>1. Len(waiters) # 0 /\ Head(waiters) = waiters[1]
      BY <1>3 DEF PromptInv, AgentType
    <3>2. 1 \in 1..Len(waiters)
      BY <1>1, <3>1
    <3> QED BY <3>1, <3>2 DEF PromptInv, Queue
  <2> QED BY <1>1, <1>3, <2>1
<1> QED BY <1>2, <1>3 DEF Becomes, Release

LEMMA TalkTools ==
  ASSUME TalkInv, PromptInv
  PROVE  /\ \A i \in Indices : Begin(i) \/ Woken(i) \/ ToolReturns(i) => TalkInv'
         /\ \A i \in Indices : \A decision \in {"allow-once", "allow-session", "deny"} :
              Decided(i, decision) => TalkInv'
         /\ QuestionAnswered \/ Esc => TalkInv'
<1>1. Sound(file)
  BY DEF TalkInv
<1>2. call \in [Indices -> States] /\ Indices \subseteq Nat \ {0}
  BY ToolFacts
<1>3. ASSUME NEW i \in Indices, Begin(i) \/ Woken(i) \/ ToolReturns(i) PROVE TalkInv'
  <2>1. turn' = turn /\ history' = history /\ file' = file
    BY <1>3 DEF Begin, Woken, ToolReturns, conversation
  <2>2. call[i] # "recorded"
    BY <1>3 DEF Begin, Turns, Woken, ToolReturns
  <2>3. \E s \in States \ {"recorded"} : Becomes(i, s) \/ Release(i, s)
    <3>1. {"done", "running", "parked", "woken", "modal", "question"} \subseteq States \ {"recorded"}
      BY DEF States, Holding, Settled
    <3>2. CASE Begin(i)
      BY <3>1, <3>2 DEF Begin, Asks
    <3>3. CASE Woken(i)
      BY <3>1, <3>3 DEF Woken
    <3>4. CASE ToolReturns(i)
      BY <3>1, <3>4 DEF ToolReturns
    <3> QED BY <1>3, <3>2, <3>3, <3>4
  <2>4. \A j \in Indices : call'[j] = "recorded" <=> call[j] = "recorded"
    BY <2>2, <2>3, TalkReleased
  <2> QED BY <1>1, <2>1, <2>4, TalkGoesOn
<1>4. ASSUME NEW i \in Indices, NEW decision \in {"allow-once", "allow-session", "deny"},
             Decided(i, decision)
      PROVE  TalkInv'
  <2>1. turn' = turn /\ history' = history /\ file' = file
    BY <1>4 DEF Decided, conversation
  <2>2. call[i] # "recorded"
    BY <1>4 DEF Decided, PromptInv, Shown
  <2>3. Release(i, "done") \/ Release(i, "running")
    BY <1>4 DEF Decided
  <2>4. \A j \in Indices : call'[j] = "recorded" <=> call[j] = "recorded"
    BY <2>2, <2>3, TalkReleased
  <2> QED BY <1>1, <2>1, <2>4, TalkGoesOn
<1>5. CASE QuestionAnswered
  <2>1. /\ turn' = turn /\ history' = history /\ file' = file
        /\ question \in Indices /\ call[question] = "question" /\ Becomes(question, "running")
    BY <1>5 DEF QuestionAnswered, conversation, PromptInv, Shown
  <2>2. \A j \in Indices : call'[j] = "recorded" <=> call[j] = "recorded"
    BY <2>1, TalkReleased
  <2> QED BY <1>1, <2>1, <2>2, TalkGoesOn
<1>6. CASE Esc
  <2> DEFINE c == [i \in DOMAIN call |->
                     IF call[i] \in {"modal", "question"} THEN "done" ELSE call[i]]
  <2>1. turn' = turn /\ history' = history /\ file' = file
    BY <1>6 DEF Esc, conversation
  <2>2. call' = c \/ (waiters # <<>> /\ call' = [c EXCEPT ![Head(waiters)] = "woken"])
    BY <1>6 DEF Esc
  <2>3. /\ DOMAIN c = Indices
        /\ \A i \in Indices : c[i] = IF call[i] \in {"modal", "question"} THEN "done" ELSE call[i]
    BY <1>2
  <2> HIDE DEF c
  <2>4. \A i \in Indices : c[i] = "recorded" <=> call[i] = "recorded"
    BY <2>3
  <2>5. waiters # <<>> => Head(waiters) \in Indices /\ call[Head(waiters)] = "parked"
    <3> SUFFICES ASSUME waiters # <<>>
                 PROVE  Head(waiters) \in Indices /\ call[Head(waiters)] = "parked"
      OBVIOUS
    <3>1. waiters \in Seq(Nat) /\ Len(waiters) \in Nat /\ Len(waiters) # 0
      BY DEF PromptInv, AgentType
    <3>2. 1 \in 1..Len(waiters) /\ Head(waiters) = waiters[1]
      BY <3>1
    <3> QED BY <3>2 DEF PromptInv, Queue
  <2>6. \A i \in Indices : call'[i] = "recorded" <=> call[i] = "recorded"
    <3>1. CASE call' = c
      BY <2>4, <3>1
    <3>2. CASE waiters # <<>> /\ call' = [c EXCEPT ![Head(waiters)] = "woken"]
      BY <2>3, <2>4, <2>5, <3>2
    <3> QED BY <2>2, <3>1, <3>2
  <2> QED BY <1>1, <2>1, <2>6, TalkGoesOn
<1> QED BY <1>3, <1>4, <1>5, <1>6

(* Commands of the user, the late unlink and a new process.                *)
LEMMA TalkOutside ==
  ASSUME TalkInv, PromptInv
  PROVE  /\ Reset \/ Unlinked \/ Restart \/ UNCHANGED vars => TalkInv'
         /\ \A succeeds \in BOOLEAN : InjectSkill(succeeds) => TalkInv'
<1>1. Sound(history) /\ Sound(file) /\ Sound(<<>>)
  BY ShortTalks DEF TalkInv
<1>2. CASE Reset
  <2>1. history' = <<>> /\ file' = file /\ turn'.at = "idle"
    BY <1>2 DEF Reset, Command
  <2> QED BY <1>1, <2>1, TalkElsewhere DEF Calling, Sending
<1>3. CASE Unlinked
  <2>1. history' = history /\ file' = <<>> /\ turn' = turn /\ call' = call
    BY <1>3 DEF Unlinked
  <2> QED BY <1>1, <2>1, TalkGoesOn
<1>4. CASE Restart
  <2>1. history' = Reconciled(file) /\ file' = file /\ turn'.at = "idle"
    BY <1>4 DEF Restart, NoTurn
  <2>2. Sound(history')
    BY <1>1, <2>1, Reconciling
  <2> QED BY <1>1, <2>1, <2>2, TalkElsewhere DEF Calling, Sending
<1>5. CASE UNCHANGED vars
  <2>1. history' = history /\ file' = file /\ turn' = turn /\ call' = call
    BY <1>5 DEF vars, conversation
  <2> QED BY <1>1, <2>1, TalkGoesOn
<1>6. ASSUME NEW succeeds \in BOOLEAN, InjectSkill(succeeds) PROVE TalkInv'
  <2>1. /\ history' = Append(history, Note) /\ file' \in {history', file}
        /\ turn'.at = "idle"
    BY <1>6 DEF InjectSkill, Command
  <2>2. Note \in Messages /\ Note[1] # "tool"
    BY MessageKinds
  <2>3. Sound(Append(history, Note))
    BY <1>1, <2>2, Appended
  <2> QED BY <1>1, <2>1, <2>3, TalkElsewhere DEF Calling, Sending
<1> QED BY <1>2, <1>3, <1>4, <1>5, <1>6

LEMMA TalkStep == ASSUME TalkInv, PromptInv, [Next]_vars PROVE TalkInv'
<1>1. CASE Step
  <2>1. ASSUME NEW i \in Indices,
               \/ Begin(i) \/ Woken(i) \/ ToolReturns(i) \/ RecordOne(i)
               \/ \E decision \in {"allow-once", "allow-session", "deny"} : Decided(i, decision)
        PROVE  TalkInv'
    BY <2>1, TalkTools, TalkRecorded
  <2>2. CASE \/ Compacted \/ CompactFails \/ PushUser \/ Request \/ Summarised
             \/ StepsEnd \/ ChatFails \/ SummaryFails \/ LoopAborted
    BY <2>2, TalkBetween
  <2>3. CASE RecordAll \/ QuestionAnswered \/ Unlinked
    BY <2>3, TalkRecorded, TalkTools, TalkOutside
  <2>4. ASSUME NEW succeeds \in BOOLEAN, Saved(succeeds) PROVE TalkInv'
    BY <2>4, TalkSaved
  <2>5. ASSUME NEW tools \in Batches \cup {<<>>}, Answered(tools) PROVE TalkInv'
    BY <2>5, TalkAnswered
  <2> QED BY <1>1, <2>1, <2>2, <2>3, <2>4, <2>5 DEF Step
<1>2. CASE Environment
  <2>1. ASSUME NEW plan \in BOOLEAN, NEW compacts \in BOOLEAN, Submit(plan, compacts)
        PROVE  TalkInv'
    BY <2>1, TalkBetween
  <2>2. ASSUME NEW succeeds \in BOOLEAN, InjectSkill(succeeds) PROVE TalkInv'
    BY <2>2, TalkOutside
  <2>3. CASE Compact \/ Reset \/ Esc \/ Restart
    BY <2>3, TalkBetween, TalkTools, TalkOutside
  <2> QED BY <1>2, <2>1, <2>2, <2>3 DEF Environment
<1>3. CASE UNCHANGED vars
  BY <1>3, TalkOutside
<1> QED BY <1>1, <1>2, <1>3 DEF Next

(* Every request that reaches the provider answers each tool call exactly  *)
(* once, right after the message that made it: for any batches, turns and  *)
(* steps, wherever a turn was aborted, a save failed, a message was        *)
(* injected or the process ended before.                                   *)
THEOREM RequestsArePaired == Spec => []RequestsPaired
<1>1. Init => PromptInv
  BY NewProcess DEF Init
<1>2. PromptInv /\ [Next]_vars => PromptInv'
  BY PromptStep
<1>3. Init => TalkInv
  <2> SUFFICES ASSUME Init PROVE TalkInv
    OBVIOUS
  <2>1. history = <<>> /\ file = <<>> /\ turn.at = "idle"
    BY DEF Init, NoTurn
  <2> QED BY <2>1, ShortTalks DEF TalkInv, Calling, Sending
<1>4. PromptInv /\ TalkInv /\ [Next]_vars => TalkInv'
  BY TalkStep
<1>5. TalkInv => RequestsPaired
  <2> SUFFICES ASSUME TalkInv, turn.at = "chat" PROVE RequestsPaired
    BY DEF RequestsPaired
  <2> QED BY CompletePairs DEF TalkInv, Sending
<1> QED BY <1>1, <1>2, <1>3, <1>4, <1>5, PTL DEF Spec
===============================================================================
