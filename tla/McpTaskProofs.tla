---------------------------- MODULE McpTaskProofs -----------------------------
(***************************************************************************)
(* McpTask implements OneShotTask, a task tells the truth of its run, and  *)
(* a plan has at most one open run on disk: for every set of tasks and     *)
(* plans, every bound and any number of crashes.                           *)
(*                                                                         *)
(* The first argument (IInv): a task's status is only written by an entry  *)
(* of the write chain.  A "settle" entry was appended when its operation   *)
(* had read the task as not terminal, and until it is written the task's   *)
(* operations stand still (opAt = "writing"), so no second "settle" entry  *)
(* of the task exists and the task is still "working" at the write.        *)
(*                                                                         *)
(* The second argument (MInv): the disk follows memory in the order of the *)
(* chain, which holds a run's creation before every mapping to it and the  *)
(* end of a run before the creation of the next one of its plan; a task is *)
(* bound only to the run its mapping will name; and of the store's         *)
(* listener and the bridge the second to look sees what the first wrote.   *)
(***************************************************************************)
EXTENDS McpTask, TLAPS

USE TasksAssumption, PlanOfAssumption, McpBoundsAssumption DEF Runs

-----------------------------------------------------------------------------
(* What an entry of the write chain still finds when its turn comes.       *)
Backed(e) ==
  /\ e.op = "create" => task[e.t] = "none" /\ at["bridge"][e.t] = "creating"
  /\ e.op = "settle" => task[e.t] = "working" /\ opAt[e.t] = "writing"
  /\ e.op = "control" /\ e.who = "op" => opAt[e.t] = "controlling"

ChainBacked == \A i \in 1..Len(chain) : Backed(chain[i])

(* Entries on behalf of a task's creation or of its current operation:     *)
(* there is at most one of them for each task.                             *)
Owned(e) == e.op \in {"create", "settle"} \/ (e.op = "control" /\ e.who = "op")

OneOwned ==
  \A i, j \in 1..Len(chain) :
    Owned(chain[i]) /\ Owned(chain[j]) /\ chain[i].t = chain[j].t => i = j

(* An operation that has begun is at the head of its task's operations.    *)
OpsHaveHead == \A t \in Tasks : opAt[t] # "idle" => ops[t] # <<>>

(* Nobody knows a task before it is on disk.                               *)
TaskKnown ==
  \A t \in Tasks :
    task[t] = "none" =>
      /\ ops[t] = <<>>
      /\ t \notin recon.tasks
      /\ \A w \in Waiters : at[w][t] \in {"none", "creating"}

IInv == TypeOK /\ ChainBacked /\ OneOwned /\ OpsHaveHead /\ TaskKnown

-----------------------------------------------------------------------------
(***************************************************************************)
(* Type correctness.                                                       *)
(***************************************************************************)

(* Moving a waiter changes its own place and no other.                     *)
LEMMA MovesAt ==
  ASSUME TypeOK, NEW w \in Waiters, NEW t \in Tasks, NEW from,
         NEW to \in WaiterPc, Moves(w, t, from, to)
  PROVE  /\ at' \in [Waiters -> [Tasks -> WaiterPc]]
         /\ at[w][t] = from /\ at'[w][t] = to
         /\ \A v \in Waiters, u \in Tasks : v # w \/ u # t => at'[v][u] = at[v][u]
BY DEF TypeOK, Moves

(* The entries the actions append are entries.                             *)
LEMMA EntryType ==
  ASSUME NEW op \in {"create", "settle", "map", "created", "control", "ended"},
         NEW t \in Tasks, NEW r \in 0..MaxRuns, NEW who \in Waiters \cup {"op"}
  PROVE  Entry(op, t, r, who) \in Entries
BY DEF Entry, Entries

LEMMA AppendType ==
  ASSUME NEW S, NEW s \in Seq(S), NEW e \in S
  PROVE  Append(s, e) \in Seq(S)
OBVIOUS

LEMMA TailType ==
  ASSUME NEW S, NEW s \in Seq(S), s # <<>>
  PROVE  Head(s) \in S /\ Tail(s) \in Seq(S)
OBVIOUS

(* The caller of an operation continues; the tasks it may move are known.  *)
LEMMA AnsweredAt ==
  ASSUME TypeOK, NEW t \in Tasks, ops[t] # <<>>, NEW stored \in BOOLEAN,
         Answered(t, stored)
  PROVE  /\ ops' \in [Tasks -> Seq(Operations)]
         /\ at' \in [Waiters -> [Tasks -> WaiterPc]]
         /\ verdict' \in [Waiters -> [Tasks -> Results]]
         /\ recon' \in [todo : SUBSET {"tasks", "mappings"}, tasks : SUBSET Tasks,
                         maps : [Tasks -> 0..MaxRuns],
                         at : {"next", "storing", "aborted"}]
         /\ recon'.tasks = recon.tasks
         /\ \A u \in Tasks : u # t => ops'[u] = ops[u]
         /\ \A w \in Waiters, u \in Tasks :
              u # t => at'[w][u] = at[w][u]
<1> DEFINE who == Head(ops[t]).who
<1>1. Head(ops[t]) \in Operations /\ Tail(ops[t]) \in Seq(Operations)
  BY TailType DEF TypeOK
<1>2. who \in Waiters \cup {"reconcile", "client"}
  BY <1>1 DEF Operations
<1>3. ops' = [ops EXCEPT ![t] = Tail(@)]
  BY DEF Answered
<1>4. /\ ops' \in [Tasks -> Seq(Operations)]
      /\ \A u \in Tasks : u # t => ops'[u] = ops[u]
  BY <1>1, <1>3 DEF TypeOK
<1>5. /\ at' \in [Waiters -> [Tasks -> WaiterPc]]
      /\ \A w \in Waiters, u \in Tasks : u # t => at'[w][u] = at[w][u]
  <2>1. at' = IF who \in Waiters
              THEN [at EXCEPT ![who][t] = IF stored THEN "done" ELSE "storing"]
              ELSE at
    BY DEF Answered
  <2>2. CASE who \in Waiters
    BY <2>1, <2>2 DEF TypeOK, WaiterPc
  <2>3. CASE who \notin Waiters
    BY <2>1, <2>3 DEF TypeOK
  <2>4. QED
    BY <2>2, <2>3
<1>6. verdict' \in [Waiters -> [Tasks -> Results]]
  <2>1. verdict' = verdict
        \/ (who \in Waiters /\ verdict' = [verdict EXCEPT ![who][t] = "error"])
    BY DEF Answered
  <2>2. verdict \in [Waiters -> [Tasks -> Results]] /\ "error" \in Results
    BY DEF TypeOK, Results
  <2>3. CASE verdict' = verdict
    BY <2>2, <2>3
  <2>4. CASE who \in Waiters /\ verdict' = [verdict EXCEPT ![who][t] = "error"]
    <3>1. who \in Waiters /\ verdict[who] \in [Tasks -> Results]
      BY <2>2, <2>4
    <3>2. [verdict[who] EXCEPT ![t] = "error"] \in [Tasks -> Results]
      BY <2>2, <3>1
    <3>3. QED
      BY <2>2, <2>4, <3>1, <3>2
  <2>5. QED
    BY <2>1, <2>3, <2>4
<1>7. /\ recon' \in [todo : SUBSET {"tasks", "mappings"}, tasks : SUBSET Tasks,
                      maps : [Tasks -> 0..MaxRuns],
                      at : {"next", "storing", "aborted"}]
      /\ recon'.tasks = recon.tasks
  <2>1. \/ recon' = recon
        \/ recon' = [recon EXCEPT !.at = "next"]
        \/ recon' = [recon EXCEPT !.at = "aborted"]
    BY DEF Answered
  <2>2. QED
    BY <2>1 DEF TypeOK
<1>8. QED
  BY <1>4, <1>5, <1>6, <1>7

LEMMA NoRunType == NoRun \in RunRecords
<1>1. Plans # {}
  OBVIOUS
<1>2. QED
  BY <1>1 DEF NoRun, RunRecords

LEMMA InitType == Init => TypeOK
<1> SUFFICES ASSUME Init PROVE TypeOK
  OBVIOUS
<1>1. snapshot \in [Runs -> RunRecords] /\ run \in [Runs -> RunRecords]
  BY NoRunType DEF Init
<1>2. NotMapped \in [Tasks -> 0..MaxRuns]
  BY DEF NotMapped
<1>3. /\ recon.todo = {} /\ recon.tasks = {} /\ recon.maps = NotMapped
      /\ recon.at = "next"
      /\ recon \in [todo : SUBSET {"tasks", "mappings"}, tasks : SUBSET Tasks,
                    maps : [Tasks -> 0..MaxRuns],
                    at : {"next", "storing", "aborted"}]
  BY <1>2 DEF Init, Reconciling
<1>4. /\ at \in [Waiters -> [Tasks -> WaiterPc]]
      /\ verdict \in [Waiters -> [Tasks -> Results]]
  BY DEF Init, WaiterPc, Results
<1>5. chain \in Seq(Entries) /\ ops \in [Tasks -> Seq(Operations)]
  BY DEF Init
<1>6. /\ task \in [Tasks -> TaskStatus] /\ result \in [Tasks -> Results]
      /\ mapping \in [Tasks -> 0..MaxRuns] /\ bound \in [Tasks -> 0..MaxRuns]
      /\ engine \in [Runs -> {"none", "recording", "running", "ending", "settled"}]
      /\ opAt \in [Tasks -> {"idle", "writing", "notifying", "controlling"}]
      /\ cancels \in Nat /\ crashes \in Nat
  BY <1>2 DEF Init, TaskStatus, Results
<1>7. QED
  BY <1>1, <1>3, <1>4, <1>5, <1>6 DEF TypeOK

(* Asking a run to cancel.                                                 *)
LEMMA CancelRunType ==
  ASSUME TypeOK, NEW t \in Tasks, NEW r \in 0..MaxRuns, Cancellable(r),
         NEW who \in Waiters \cup {"op"}, CancelRun(t, r, who)
  PROVE  /\ run' \in [Runs -> RunRecords]
         /\ chain' \in Seq(Entries)
<1>1. r \in Runs
  BY DEF Cancellable
<1>2. run \in [Runs -> RunRecords] /\ run[r] \in RunRecords
  BY <1>1 DEF TypeOK
<1>3. [run[r] EXCEPT !.cancel = TRUE] \in RunRecords
  BY <1>2 DEF RunRecords
<1>4. run' = [run EXCEPT ![r] = [run[r] EXCEPT !.cancel = TRUE]]
  BY DEF CancelRun
<1>5. Entry("control", t, r, who) \in Entries
  BY EntryType
<1>6. chain' = Append(chain, Entry("control", t, r, who)) /\ chain \in Seq(Entries)
  BY DEF CancelRun, TypeOK
<1>7. QED
  BY <1>2, <1>3, <1>4, <1>5, <1>6, AppendType

(* createTask and the bridge up to its waiting for the run.                *)
LEMMA BridgeType ==
  ASSUME TypeOK, NEW t \in Tasks, CreateTask(t) \/ BridgeStep(t)
  PROVE  TypeOK'
<1>1. CASE CreateTask(t)
  <2>1. Moves("bridge", t, "none", "creating")
    BY <1>1 DEF CreateTask
  <2>2. at' \in [Waiters -> [Tasks -> WaiterPc]]
    BY <2>1, MovesAt DEF Waiters, WaiterPc
  <2>3. chain' \in Seq(Entries)
    BY <1>1, EntryType, AppendType DEF CreateTask, TypeOK, Waiters
  <2>4. QED
    BY <1>1, <2>2, <2>3 DEF CreateTask, TypeOK, diskVars, runVars, opVars, boundVars
<1>2. CASE StartFails(t)
  <2>1. Moves("bridge", t, "starting", "storing")
    BY <1>2 DEF StartFails
  <2>2. at' \in [Waiters -> [Tasks -> WaiterPc]]
    BY <2>1, MovesAt DEF Waiters, WaiterPc
  <2>3. verdict' \in [Waiters -> [Tasks -> Results]]
    BY <1>2 DEF StartFails, TypeOK, Waiters, Results
  <2>4. QED
    BY <1>2, <2>2, <2>3 DEF StartFails, TypeOK, diskVars, runVars, opVars, boundVars
<1>3. CASE StartReuses(t)
  <2>1. Moves("bridge", t, "starting", "mapping")
    BY <1>3 DEF StartReuses
  <2>2. at' \in [Waiters -> [Tasks -> WaiterPc]]
    BY <2>1, MovesAt DEF Waiters, WaiterPc
  <2>3. PICK r \in Runs : /\ bound' = [bound EXCEPT ![t] = r]
                         /\ chain' = Append(chain, Entry("map", t, r, "bridge"))
    BY <1>3 DEF StartReuses, Existing
  <2>4. bound' \in [Tasks -> 0..MaxRuns]
    BY <2>3 DEF TypeOK
  <2>5. chain' \in Seq(Entries)
    BY <2>3, EntryType, AppendType DEF TypeOK, Waiters
  <2>6. QED
    BY <1>3, <2>2, <2>4, <2>5
       DEF StartReuses, TypeOK, diskVars, runVars, opVars, boundVars
<1>4. CASE StartCreates(t)
  <2>1. Moves("bridge", t, "starting", "recording")
    BY <1>4 DEF StartCreates
  <2>2. at' \in [Waiters -> [Tasks -> WaiterPc]]
    BY <2>1, MovesAt DEF Waiters, WaiterPc
  <2>3. PICK r \in Runs :
          /\ run' = [run EXCEPT
                       ![r] = [status |-> "open", cancel |-> FALSE, plan |-> PlanOf[t]]]
          /\ engine' = [engine EXCEPT ![r] = "recording"]
          /\ bound' = [bound EXCEPT ![t] = r]
          /\ chain' = Append(chain, Entry("created", t, r, "bridge"))
    BY <1>4 DEF StartCreates
  <2>4. [status |-> "open", cancel |-> FALSE, plan |-> PlanOf[t]] \in RunRecords
    BY DEF RunRecords
  <2>5. /\ run' \in [Runs -> RunRecords]
        /\ engine' \in [Runs -> {"none", "recording", "running", "ending", "settled"}]
        /\ bound' \in [Tasks -> 0..MaxRuns]
    BY <2>3, <2>4 DEF TypeOK
  <2>6. chain' \in Seq(Entries)
    BY <2>3, EntryType, AppendType DEF TypeOK, Waiters
  <2>7. QED
    BY <1>4, <2>2, <2>5, <2>6 DEF StartCreates, TypeOK, diskVars, opVars, boundVars
<1>5. CASE CheckCancelled(t)
  <2>1. \/ Moves("bridge", t, "checking", "cancelling")
        \/ Moves("bridge", t, "checking", "done")
    BY <1>5 DEF CheckCancelled
  <2>2. at' \in [Waiters -> [Tasks -> WaiterPc]]
    BY <2>1, MovesAt DEF Waiters, WaiterPc
  <2>3. \/ Cancellable(bound[t]) /\ CancelRun(t, bound[t], "bridge")
        \/ run' = run /\ chain' = chain
    BY <1>5 DEF CheckCancelled
  <2>4. bound[t] \in 0..MaxRuns
    BY DEF TypeOK
  <2>5. run' \in [Runs -> RunRecords] /\ chain' \in Seq(Entries)
    <3>1. CASE Cancellable(bound[t]) /\ CancelRun(t, bound[t], "bridge")
      BY <2>4, <3>1, CancelRunType DEF Waiters
    <3>2. CASE run' = run /\ chain' = chain
      BY <3>2 DEF TypeOK
    <3>3. QED
      BY <2>3, <3>1, <3>2
  <2>6. QED
    BY <1>5, <2>2, <2>5 DEF CheckCancelled, TypeOK, diskVars, opVars, boundVars
<1>6. CASE CheckActive(t)
  <2>1. Moves("bridge", t, "checking", "waiting")
    BY <1>6 DEF CheckActive
  <2>2. at' \in [Waiters -> [Tasks -> WaiterPc]]
    BY <2>1, MovesAt DEF Waiters, WaiterPc
  <2>3. QED
    BY <1>6, <2>2 DEF CheckActive, TypeOK, diskVars, runVars, opVars, boundVars
<1>7. QED
  BY <1>1, <1>2, <1>3, <1>4, <1>5, <1>6 DEF BridgeStep

(* A waiter's wait for the run and its result.                             *)
LEMMA WaiterType ==
  ASSUME TypeOK, NEW t \in Tasks, NEW w \in Waiters, WaiterStep(w, t)
  PROVE  TypeOK'
<1>1. CASE RunOver(w, t)
  <2>1. Moves(w, t, "waiting", "storing")
    BY <1>1 DEF RunOver
  <2>2. at' \in [Waiters -> [Tasks -> WaiterPc]]
    BY <2>1, MovesAt DEF WaiterPc
  <2>3. run[bound[t]].status \in Results
    BY <1>1 DEF RunOver, Results
  <2>4. verdict' = [verdict EXCEPT ![w][t] = run[bound[t]].status]
    BY <1>1 DEF RunOver
  <2>5. verdict' \in [Waiters -> [Tasks -> Results]]
    BY <2>3, <2>4 DEF TypeOK
  <2>6. QED
    BY <1>1, <2>2, <2>5 DEF RunOver, TypeOK, diskVars, runVars, opVars, boundVars
<1>2. CASE NotActive(w, t)
  <2>1. Moves(w, t, "storing", "done")
    BY <1>2 DEF NotActive
  <2>2. at' \in [Waiters -> [Tasks -> WaiterPc]]
    BY <2>1, MovesAt DEF WaiterPc
  <2>3. QED
    BY <1>2, <2>2 DEF NotActive, TypeOK, diskVars, runVars, opVars, boundVars
<1>3. CASE StoreResult(w, t)
  <2>1. Moves(w, t, "storing", "stored")
    BY <1>3 DEF StoreResult
  <2>2. at' \in [Waiters -> [Tasks -> WaiterPc]]
    BY <2>1, MovesAt DEF WaiterPc
  <2>3. Operation(w, StatusOf(verdict[w][t]), verdict[w][t]) \in Operations
    <3>1. verdict[w][t] \in Results
      BY DEF TypeOK
    <3>2. StatusOf(verdict[w][t]) \in TerminalTask
      BY DEF StatusOf, TerminalTask
    <3>3. QED
      BY <3>1, <3>2 DEF Operation, Operations
  <2>4. ops' \in [Tasks -> Seq(Operations)]
    BY <1>3, <2>3, AppendType DEF StoreResult, TypeOK
  <2>5. QED
    BY <1>3, <2>2, <2>4 DEF StoreResult, TypeOK, diskVars, runVars, boundVars
<1>4. QED
  BY <1>1, <1>2, <1>3 DEF WaiterStep

(* The store's serialised operations, and a client's cancel.               *)
LEMMA StoreType ==
  ASSUME TypeOK, OpsHaveHead, NEW t \in Tasks, StoreStep(t) \/ ClientCancels(t)
  PROVE  TypeOK'
<1>1. CASE OpRefused(t)
  <2>1. ops[t] # <<>> /\ Answered(t, FALSE)
    BY <1>1 DEF OpRefused
  <2>2. QED
    BY <1>1, <2>1, AnsweredAt DEF OpRefused, TypeOK, diskVars, runVars, boundVars
<1>2. CASE OpBegins(t)
  <2>1. opAt' \in [Tasks -> {"idle", "writing", "notifying", "controlling"}]
    BY <1>2 DEF OpBegins, TypeOK
  <2>2. Entry("settle", t, 0, "op") \in Entries
    BY EntryType
  <2>3. chain' \in Seq(Entries)
    BY <1>2, <2>2, AppendType DEF OpBegins, TypeOK
  <2>4. QED
    BY <1>2, <2>1, <2>3 DEF OpBegins, TypeOK, diskVars, runVars, waiterVars, boundVars
<1>3. CASE NotifyRun(t)
  <2>1. mapping[t] \in 0..MaxRuns
    BY DEF TypeOK
  <2>2. run' \in [Runs -> RunRecords] /\ chain' \in Seq(Entries)
    BY <1>3, <2>1, CancelRunType DEF NotifyRun
  <2>3. opAt' \in [Tasks -> {"idle", "writing", "notifying", "controlling"}]
    BY <1>3 DEF NotifyRun, TypeOK
  <2>4. QED
    BY <1>3, <2>2, <2>3 DEF NotifyRun, TypeOK, diskVars, waiterVars, boundVars
<1>4. CASE NotifyNothing(t)
  <2>1. ops[t] # <<>> /\ Answered(t, TRUE)
    BY <1>4 DEF NotifyNothing, OpsHaveHead
  <2>2. opAt' \in [Tasks -> {"idle", "writing", "notifying", "controlling"}]
    BY <1>4 DEF NotifyNothing, TypeOK
  <2>3. QED
    BY <1>4, <2>1, <2>2, AnsweredAt
       DEF NotifyNothing, TypeOK, diskVars, runVars, boundVars
<1>5. CASE ClientCancels(t)
  <2>1. Operation("client", "cancelled", "none") \in Operations
    BY DEF Operation, Operations, TerminalTask, Results
  <2>2. ops' \in [Tasks -> Seq(Operations)]
    BY <1>5, <2>1, AppendType DEF ClientCancels, TypeOK
  <2>3. QED
    BY <1>5, <2>2 DEF ClientCancels, TypeOK, diskVars, runVars, waiterVars
<1>6. QED
  BY <1>1, <1>2, <1>3, <1>4, <1>5 DEF StoreStep

(* The first entry of the chain, when there is one.                        *)
LEMMA HeadType ==
  ASSUME TypeOK, NEW op, First(op)
  PROVE  /\ chain # <<>> /\ Head(chain) \in Entries /\ Head(chain).op = op
         /\ Tail(chain) \in Seq(Entries)
         /\ Head(chain).t \in Tasks /\ Head(chain).r \in 0..MaxRuns
<1>1. Head(chain) \in Entries /\ Tail(chain) \in Seq(Entries)
  BY TailType DEF TypeOK, First
<1>2. QED
  BY <1>1 DEF First, Entries

(* The first entry finds what it needs.                                    *)
LEMMA HeadBacked ==
  ASSUME TypeOK, ChainBacked, OpsHaveHead, NEW op, First(op)
  PROVE  /\ Backed(Head(chain))
         /\ op = "settle" => ops[Head(chain).t] # <<>>
         /\ op = "control" /\ Head(chain).who = "op" => ops[Head(chain).t] # <<>>
<1>1. /\ chain # <<>> /\ chain \in Seq(Entries) /\ Head(chain).op = op
      /\ Head(chain).t \in Tasks
  BY HeadType DEF TypeOK
<1>2. Head(chain) = chain[1] /\ 1 \in 1..Len(chain)
  BY <1>1
<1>3. Backed(Head(chain))
  BY <1>2 DEF ChainBacked
<1>4. QED
  BY <1>1, <1>3 DEF Backed, OpsHaveHead

(* The write chain moves on.                                               *)
LEMMA WriteType ==
  ASSUME TypeOK, ChainBacked, OpsHaveHead, WriteReturns
  PROVE  TypeOK'
<1> DEFINE t == Head(chain).t
           r == Head(chain).r
<1>1. CASE TaskCreated
  <2>1. t \in Tasks /\ Tail(chain) \in Seq(Entries)
    BY <1>1, HeadType DEF TaskCreated
  <2>2. Moves("bridge", t, "creating", "starting")
    BY <1>1 DEF TaskCreated
  <2>3. at' \in [Waiters -> [Tasks -> WaiterPc]]
    BY <2>1, <2>2, MovesAt DEF Waiters, WaiterPc
  <2>4. task' \in [Tasks -> TaskStatus]
    BY <1>1, <2>1 DEF TaskCreated, TypeOK, TaskStatus
  <2>5. QED
    BY <1>1, <2>1, <2>3, <2>4 DEF TaskCreated, TypeOK, runVars, opVars, boundVars
<1>2. CASE OpWritten
  <2> DEFINE settled == Head(ops[t])
  <2>1. /\ t \in Tasks /\ Tail(chain) \in Seq(Entries)
        /\ ops[t] # <<>>
    BY <1>2, HeadType, HeadBacked DEF OpWritten
  <2>2. settled \in Operations
    BY <2>1, TailType DEF TypeOK
  <2>3. /\ task' \in [Tasks -> TaskStatus]
        /\ result' \in [Tasks -> Results]
    BY <1>2, <2>1, <2>2 DEF OpWritten, TypeOK, Operations, TaskStatus
  <2>4. opAt' \in [Tasks -> {"idle", "writing", "notifying", "controlling"}]
    BY <1>2, <2>1 DEF OpWritten, TypeOK
  <2>5. \/ UNCHANGED <<ops, at, verdict, recon>>
        \/ Answered(t, TRUE)
    BY <1>2 DEF OpWritten
  <2>6. CASE UNCHANGED <<ops, at, verdict, recon>>
    BY <1>2, <2>1, <2>3, <2>4, <2>6 DEF OpWritten, TypeOK, runVars, boundVars
  <2>7. CASE Answered(t, TRUE)
    BY <1>2, <2>1, <2>3, <2>4, <2>7, AnsweredAt
       DEF OpWritten, TypeOK, runVars, boundVars
  <2>8. QED
    BY <2>5, <2>6, <2>7
<1>3. CASE RunCreated
  <2>1. t \in Tasks /\ Tail(chain) \in Seq(Entries) /\ r \in 0..MaxRuns
    BY <1>3, HeadType DEF RunCreated
  <2>2. Moves("bridge", t, "recording", "mapping")
    BY <1>3 DEF RunCreated
  <2>3. at' \in [Waiters -> [Tasks -> WaiterPc]]
    BY <2>1, <2>2, MovesAt DEF Waiters, WaiterPc
  <2>4. snapshot' = [snapshot EXCEPT ![r] = run[r]]
    BY <1>3 DEF RunCreated
  <2>5. snapshot' \in [Runs -> RunRecords]
    BY <2>1, <2>4 DEF TypeOK
  <2>6. engine' \in [Runs -> {"none", "recording", "running", "ending", "settled"}]
    BY <1>3 DEF RunCreated, TypeOK
  <2>7. chain' \in Seq(Entries)
    <3>1. Entry("map", t, r, "bridge") \in Entries
      BY <2>1, EntryType DEF Waiters
    <3>2. chain' = Append(Tail(chain), Entry("map", t, r, "bridge"))
      BY <1>3 DEF RunCreated
    <3>3. QED
      BY <2>1, <3>1, <3>2, AppendType
  <2>8. QED
    BY <1>3, <2>3, <2>5, <2>6, <2>7 DEF RunCreated, TypeOK, opVars, boundVars
<1>4. CASE RunMapped
  <2>1. t \in Tasks /\ Tail(chain) \in Seq(Entries) /\ r \in 0..MaxRuns
    BY <1>4, HeadType DEF RunMapped
  <2>2. Moves("bridge", t, "mapping", "checking")
    BY <1>4 DEF RunMapped
  <2>3. at' \in [Waiters -> [Tasks -> WaiterPc]]
    BY <2>1, <2>2, MovesAt DEF Waiters, WaiterPc
  <2>4. mapping' \in [Tasks -> 0..MaxRuns]
    BY <1>4, <2>1 DEF RunMapped, TypeOK
  <2>5. QED
    BY <1>4, <2>1, <2>3, <2>4 DEF RunMapped, TypeOK, runVars, opVars, boundVars
<1>5. CASE CancelRecorded
  <2>1. t \in Tasks /\ Tail(chain) \in Seq(Entries) /\ r \in 0..MaxRuns
    BY <1>5, HeadType DEF CancelRecorded
  <2>2. snapshot' = [snapshot EXCEPT ![r] = run[r]]
    BY <1>5 DEF CancelRecorded
  <2>3. snapshot' \in [Runs -> RunRecords]
    BY <2>1, <2>2 DEF TypeOK
  <2>4. CASE Head(chain).who = "op"
    <3>1. ops[t] # <<>> /\ Answered(t, TRUE)
      BY <1>5, <2>4, HeadBacked DEF CancelRecorded
    <3>2. opAt' \in [Tasks -> {"idle", "writing", "notifying", "controlling"}]
      BY <1>5, <2>4 DEF CancelRecorded, TypeOK
    <3>3. QED
      BY <1>5, <2>1, <2>3, <3>1, <3>2, AnsweredAt
         DEF CancelRecorded, TypeOK, runVars, boundVars
  <2>5. CASE Head(chain).who # "op"
    <3>1. Moves("bridge", t, "cancelling", "done")
      BY <1>5, <2>5 DEF CancelRecorded
    <3>2. at' \in [Waiters -> [Tasks -> WaiterPc]]
      BY <2>1, <3>1, MovesAt DEF Waiters, WaiterPc
    <3>3. QED
      BY <1>5, <2>1, <2>3, <2>5, <3>2
         DEF CancelRecorded, TypeOK, runVars, opVars, boundVars
  <2>6. QED
    BY <2>4, <2>5
<1>6. CASE RunSettled
  <2>1. Tail(chain) \in Seq(Entries) /\ r \in 0..MaxRuns
    BY <1>6, HeadType DEF RunSettled
  <2>2. snapshot' = [snapshot EXCEPT ![r] = run[r]]
    BY <1>6 DEF RunSettled
  <2>3. snapshot' \in [Runs -> RunRecords]
    BY <2>1, <2>2 DEF TypeOK
  <2>4. engine' \in [Runs -> {"none", "recording", "running", "ending", "settled"}]
    BY <1>6 DEF RunSettled, TypeOK
  <2>5. QED
    BY <1>6, <2>1, <2>3, <2>4
       DEF RunSettled, TypeOK, opVars, waiterVars, boundVars
<1>7. QED
  BY <1>1, <1>2, <1>3, <1>4, <1>5, <1>6 DEF WriteReturns

(* The ends of runs, a crash and the reconciliation.                       *)
LEMMA RunEndsType ==
  ASSUME TypeOK, NEW r \in Runs, RunEnds(r)
  PROVE  TypeOK'
<1>1. PICK status \in Ended : run' = [run EXCEPT ![r].status = status]
  BY DEF RunEnds, Ended
<1>2. run \in [Runs -> RunRecords] /\ run[r] \in RunRecords
  BY DEF TypeOK
<1>3. [run[r] EXCEPT !.status = status] \in RunRecords
  BY <1>2 DEF RunRecords
<1>4. run' \in [Runs -> RunRecords]
  BY <1>1, <1>2, <1>3
<1>5. engine' \in [Runs -> {"none", "recording", "running", "ending", "settled"}]
  BY DEF RunEnds, TypeOK
<1>6. AnyTask \in Tasks
  BY DEF AnyTask
<1>7. Entry("ended", AnyTask, r, "op") \in Entries
  BY <1>6, EntryType
<1>8. chain' \in Seq(Entries)
  BY <1>7, AppendType DEF RunEnds, TypeOK
<1>9. QED
  BY <1>4, <1>5, <1>8 DEF RunEnds, TypeOK, diskVars, opVars, waiterVars, boundVars

LEMMA CrashType ==
  ASSUME TypeOK, CrashAndRestart
  PROVE  TypeOK'
<1>1. run' \in [Runs -> RunRecords]
  BY DEF CrashAndRestart, TypeOK
<1>2. engine' \in [Runs -> {"none", "recording", "running", "ending", "settled"}]
  BY DEF CrashAndRestart
<1>3. at' \in [Waiters -> [Tasks -> WaiterPc]]
  BY DEF CrashAndRestart, WaiterPc
<1>4. verdict' \in [Waiters -> [Tasks -> Results]]
  BY DEF CrashAndRestart, Results
<1>5. NotMapped \in [Tasks -> 0..MaxRuns]
  BY DEF NotMapped
<1>6. /\ recon' \in [todo : SUBSET {"tasks", "mappings"}, tasks : SUBSET Tasks,
                      maps : [Tasks -> 0..MaxRuns],
                      at : {"next", "storing", "aborted"}]
  BY <1>5 DEF CrashAndRestart, Reconciling
<1>7. /\ chain' \in Seq(Entries) /\ ops' \in [Tasks -> Seq(Operations)]
      /\ opAt' \in [Tasks -> {"idle", "writing", "notifying", "controlling"}]
      /\ bound' \in [Tasks -> 0..MaxRuns]
      /\ crashes' \in Nat
  BY <1>5 DEF CrashAndRestart, TypeOK
<1>8. QED
  BY <1>1, <1>2, <1>3, <1>4, <1>6, <1>7 DEF CrashAndRestart, TypeOK, diskVars

LEMMA ReconcileType ==
  ASSUME TypeOK, ReconcileStep
  PROVE  TypeOK'
<1> DEFINE Recons == [todo : SUBSET {"tasks", "mappings"}, tasks : SUBSET Tasks,
                      maps : [Tasks -> 0..MaxRuns],
                      at : {"next", "storing", "aborted"}]
<1>1. CASE ListTasks
  <2>1. recon' \in Recons
    BY <1>1, ZenonT(30) DEF ListTasks, TypeOK
  <2>2. QED
    BY <1>1, <2>1, ZenonT(30)
       DEF ListTasks, TypeOK, diskVars, runVars, opVars, waiterVars, boundVars
<1>2. CASE ListMappings
  <2>1. recon' \in Recons
    BY <1>2 DEF ListMappings, TypeOK
  <2>2. QED
    BY <1>2, <2>1
       DEF ListMappings, TypeOK, diskVars, runVars, opVars, waiterVars, boundVars
<1>3. ASSUME NEW t \in Tasks, ResumeTask(t) PROVE TypeOK'
  <2>1. Moves("resumed", t, "none", "waiting")
    BY <1>3 DEF ResumeTask
  <2>2. at' \in [Waiters -> [Tasks -> WaiterPc]]
    BY <2>1, MovesAt DEF Waiters, WaiterPc
  <2>3. recon' \in Recons
    BY <1>3 DEF ResumeTask, TypeOK
  <2>4. recon.maps[t] \in 0..MaxRuns
    BY DEF TypeOK
  <2>5. bound' \in [Tasks -> 0..MaxRuns]
    BY <1>3, <2>4 DEF ResumeTask, TypeOK
  <2>6. QED
    BY <1>3, <2>2, <2>3, <2>5
       DEF ResumeTask, TypeOK, diskVars, runVars, opVars, boundVars
<1>4. ASSUME NEW t \in Tasks, FailInterrupted(t) PROVE TypeOK'
  <2>1. Operation("reconcile", "failed", "interrupted") \in Operations
    BY DEF Operation, Operations, TerminalTask, Results
  <2>2. ops' \in [Tasks -> Seq(Operations)]
    BY <1>4, <2>1, AppendType DEF FailInterrupted, TypeOK
  <2>3. recon' \in Recons
    BY <1>4 DEF FailInterrupted, TypeOK
  <2>4. QED
    BY <1>4, <2>2, <2>3
       DEF FailInterrupted, TypeOK, diskVars, runVars, waiterVars, boundVars
<1>5. QED
  BY <1>1, <1>2, <1>3, <1>4 DEF ReconcileStep

(* Every step keeps the state well typed.                                  *)
LEMMA NextType == IInv /\ [Next]_vars => TypeOK'
<1> SUFFICES ASSUME IInv, [Next]_vars PROVE TypeOK'
  OBVIOUS
<1>1. TypeOK /\ ChainBacked /\ OpsHaveHead
  BY DEF IInv
<1>2. CASE WriteReturns
  BY <1>1, <1>2, WriteType
<1>3. ASSUME NEW t \in Tasks, CreateTask(t) \/ BridgeStep(t) PROVE TypeOK'
  BY <1>1, <1>3, BridgeType
<1>4. ASSUME NEW t \in Tasks, StoreStep(t) \/ ClientCancels(t) PROVE TypeOK'
  BY <1>1, <1>4, StoreType
<1>5. ASSUME NEW t \in Tasks, NEW w \in Waiters, WaiterStep(w, t) PROVE TypeOK'
  BY <1>1, <1>5, WaiterType
<1>6. ASSUME NEW r \in Runs, RunEnds(r) PROVE TypeOK'
  BY <1>1, <1>6, RunEndsType
<1>7. CASE ReconcileStep
  BY <1>1, <1>7, ReconcileType
<1>8. CASE CrashAndRestart
  BY <1>1, <1>8, CrashType
<1>9. CASE UNCHANGED vars
  BY <1>1, <1>9 DEF TypeOK, vars, diskVars, runVars, opVars, waiterVars, boundVars
<1>10. QED
  BY <1>2, <1>3, <1>4, <1>5, <1>6, <1>7, <1>8, <1>9 DEF Next, Progress

-----------------------------------------------------------------------------
(***************************************************************************)
(* The write chain.  An entry loses its backing only when it is written.   *)
(***************************************************************************)

(* A step that leaves the chain alone.                                     *)
LEMMA ChainKept ==
  ASSUME IInv, chain' = chain, \A e \in Entries : Backed(e) => Backed(e)'
  PROVE  ChainBacked' /\ OneOwned'
<1>1. \A i \in 1..Len(chain) : chain[i] \in Entries /\ Backed(chain[i])
  BY DEF IInv, TypeOK, ChainBacked
<1>2. ChainBacked'
  BY <1>1 DEF ChainBacked, Backed
<1>3. OneOwned'
  BY DEF IInv, OneOwned, Owned
<1>4. QED
  BY <1>2, <1>3

(* A step that appends an entry, the only one on behalf of its task.       *)
LEMMA ChainAppended ==
  ASSUME IInv, NEW e \in Entries, chain' = Append(chain, e), Backed(e)',
         \A d \in Entries : Backed(d) => Backed(d)',
         Owned(e) => \A i \in 1..Len(chain) : Owned(chain[i]) => chain[i].t # e.t
  PROVE  ChainBacked' /\ OneOwned'
<1>1. /\ chain \in Seq(Entries)
      /\ \A i \in 1..Len(chain) : chain[i] \in Entries /\ Backed(chain[i])
  BY DEF IInv, TypeOK, ChainBacked
<1>2. /\ Len(chain') = Len(chain) + 1
      /\ \A i \in 1..Len(chain) : chain'[i] = chain[i]
      /\ chain'[Len(chain) + 1] = e
  BY <1>1
<1>3. Len(chain) \in Nat
  BY <1>1
<1>4. ASSUME NEW i \in 1..Len(chain') PROVE Backed(chain[i])'
  <2>1. CASE i \in 1..Len(chain)
    BY <1>1, <1>2, <2>1 DEF Backed
  <2>2. CASE i = Len(chain) + 1
    BY <1>2, <2>2 DEF Backed
  <2>3. QED
    BY <1>2, <1>3, <2>1, <2>2
<1>5. ChainBacked'
  BY <1>4 DEF ChainBacked
<1>6. ASSUME NEW i \in 1..Len(chain'), NEW j \in 1..Len(chain'),
             Owned(chain'[i]), Owned(chain'[j]), chain'[i].t = chain'[j].t
      PROVE  i = j
  <2>1. i \in 1..Len(chain) \/ i = Len(chain) + 1
    BY <1>2, <1>3
  <2>2. j \in 1..Len(chain) \/ j = Len(chain) + 1
    BY <1>2, <1>3
  <2>3. CASE i \in 1..Len(chain) /\ j \in 1..Len(chain)
    BY <1>2, <1>6, <2>3 DEF IInv, OneOwned
  <2>4. CASE i \in 1..Len(chain) /\ j = Len(chain) + 1
    BY <1>2, <1>6, <2>4
  <2>5. CASE i = Len(chain) + 1 /\ j \in 1..Len(chain)
    BY <1>2, <1>6, <2>5
  <2>6. QED
    BY <2>1, <2>2, <2>3, <2>4, <2>5
<1>7. OneOwned'
  BY <1>6 DEF OneOwned, Owned
<1>8. QED
  BY <1>5, <1>7

(* A step that writes the first entry; the others keep their backing       *)
(* because none of them is on behalf of the same task.                     *)
LEMMA ChainAdvanced ==
  ASSUME IInv, chain # <<>>, chain' = Tail(chain),
         \A d \in Entries :
           Backed(d) /\ ~(Owned(d) /\ Owned(Head(chain)) /\ d.t = Head(chain).t)
             => Backed(d)'
  PROVE  ChainBacked' /\ OneOwned'
<1>1. /\ chain \in Seq(Entries)
      /\ \A i \in 1..Len(chain) : chain[i] \in Entries /\ Backed(chain[i])
  BY DEF IInv, TypeOK, ChainBacked
<1>2. /\ Len(chain) \in Nat \ {0} /\ Head(chain) = chain[1]
      /\ Len(chain') = Len(chain) - 1
      /\ \A i \in 1..(Len(chain) - 1) : chain'[i] = chain[i + 1]
  BY <1>1
<1>3. ASSUME NEW i \in 1..Len(chain') PROVE Backed(chain[i])'
  <2>1. i + 1 \in 1..Len(chain) /\ chain'[i] = chain[i + 1] /\ i + 1 # 1
        /\ 1 \in 1..Len(chain)
    BY <1>2
  <2>2. ~(Owned(chain[i + 1]) /\ Owned(Head(chain)) /\ chain[i + 1].t = Head(chain).t)
    BY <1>2, <2>1 DEF IInv, OneOwned
  <2>3. Backed(chain[i + 1]) /\ chain[i + 1] \in Entries
    BY <1>1, <2>1
  <2>4. QED
    BY <2>1, <2>2, <2>3 DEF Backed
<1>4. ChainBacked'
  BY <1>3 DEF ChainBacked
<1>5. ASSUME NEW i \in 1..Len(chain'), NEW j \in 1..Len(chain'),
             Owned(chain'[i]), Owned(chain'[j]), chain'[i].t = chain'[j].t
      PROVE  i = j
  <2>1. /\ i + 1 \in 1..Len(chain) /\ chain'[i] = chain[i + 1]
        /\ j + 1 \in 1..Len(chain) /\ chain'[j] = chain[j + 1]
    BY <1>2
  <2>2. i + 1 = j + 1
    BY <1>5, <2>1 DEF IInv, OneOwned
  <2>3. QED
    BY <1>2, <2>2
<1>6. OneOwned'
  BY <1>5 DEF OneOwned, Owned
<1>7. QED
  BY <1>4, <1>6

LEMMA Below == \A n \in Nat : \A i \in 1..n : i = n \/ i \in 1..(n - 1)
OBVIOUS

(* The same, and an entry not on behalf of a task is appended.             *)
LEMMA ChainTurned ==
  ASSUME IInv, chain # <<>>, NEW e \in Entries, chain' = Append(Tail(chain), e),
         ~Owned(e), Backed(e)', \A d \in Entries : Backed(d) => Backed(d)'
  PROVE  ChainBacked' /\ OneOwned'
<1>1. /\ chain \in Seq(Entries)
      /\ \A i \in 1..Len(chain) : chain[i] \in Entries /\ Backed(chain[i])
  BY DEF IInv, TypeOK, ChainBacked
<1>2. /\ Len(chain) \in Nat \ {0} /\ Len(chain') = Len(chain)
      /\ \A i \in 1..(Len(chain) - 1) : chain'[i] = chain[i + 1]
      /\ chain'[Len(chain)] = e
  BY <1>1
<1>3. ASSUME NEW i \in 1..Len(chain') PROVE Backed(chain[i])'
  <2>1. CASE i = Len(chain)
    BY <1>2, <2>1 DEF Backed
  <2>2. CASE i \in 1..(Len(chain) - 1)
    <3>1. i + 1 \in 1..Len(chain) /\ chain'[i] = chain[i + 1]
      BY <1>2, <2>2
    <3>2. Backed(chain[i + 1]) /\ chain[i + 1] \in Entries
      BY <1>1, <3>1
    <3>3. QED
      BY <3>1, <3>2 DEF Backed
  <2>3. i = Len(chain) \/ i \in 1..(Len(chain) - 1)
    BY <1>2, Below, ZenonT(30)
  <2>4. QED
    BY <2>1, <2>2, <2>3
<1>4. ChainBacked'
  BY <1>3 DEF ChainBacked
<1>5. ASSUME NEW i \in 1..Len(chain'), NEW j \in 1..Len(chain'),
             Owned(chain'[i]), Owned(chain'[j]), chain'[i].t = chain'[j].t
      PROVE  i = j
  <2>1. i # Len(chain) /\ j # Len(chain)
    BY <1>2, <1>5, ZenonT(30)
  <2>2. i \in 1..(Len(chain) - 1) /\ j \in 1..(Len(chain) - 1)
    BY <1>2, <2>1, Below, ZenonT(30)
  <2>3. /\ i + 1 \in 1..Len(chain) /\ chain'[i] = chain[i + 1]
        /\ j + 1 \in 1..Len(chain) /\ chain'[j] = chain[j + 1]
    BY <1>2, <2>2
  <2>4. i + 1 = j + 1
    BY <1>5, <2>3 DEF IInv, OneOwned
  <2>5. QED
    BY <1>2, <2>4
<1>6. OneOwned'
  BY <1>5 DEF OneOwned, Owned
<1>7. QED
  BY <1>4, <1>6

-----------------------------------------------------------------------------
(***************************************************************************)
(* The inductive step, one lemma for each group of actions.                *)
(***************************************************************************)

(* A step that leaves the backing of u's entries in place.                 *)
Steady(u) ==
  /\ task[u] = "none" /\ at["bridge"][u] = "creating"
       => task'[u] = "none" /\ at'["bridge"][u] = "creating"
  /\ task[u] = "working" /\ opAt[u] = "writing"
       => task'[u] = "working" /\ opAt'[u] = "writing"
  /\ opAt[u] = "controlling" => opAt'[u] = "controlling"

LEMMA SteadyBacked ==
  /\ (\A u \in Tasks : Steady(u)) => \A e \in Entries : Backed(e) => Backed(e)'
  /\ \A t : (\A u \in Tasks : u # t => Steady(u)) =>
             \A e \in Entries : Backed(e) /\ ~(Owned(e) /\ e.t = t) => Backed(e)'
<1>1. \A e \in Entries : e.t \in Tasks
  BY DEF Entries
<1>2. \A e \in Entries : Steady(e.t) /\ Backed(e) => Backed(e)'
  BY DEF Steady, Backed
<1>3. \A e \in Entries : ~Owned(e) => Backed(e)'
  BY DEF Owned, Backed
<1>4. QED
  BY <1>1, <1>2, <1>3

(* A step after which nobody new knows an unwritten task.                  *)
StaysUnknown(u) ==
  task'[u] = "none" =>
    /\ task[u] = "none"
    /\ ops'[u] = ops[u]
    /\ u \in recon'.tasks => u \in recon.tasks
    /\ \A w \in Waiters :
         at'[w][u] = at[w][u] \/ at'[w][u] \in {"none", "creating"}

LEMMA StillKnown ==
  ASSUME TaskKnown, \A u \in Tasks : StaysUnknown(u)
  PROVE  TaskKnown'
BY DEF TaskKnown, StaysUnknown

(* A waiter beyond "creating" waits for a task that is on disk.            *)
LEMMA WaiterKnows ==
  ASSUME IInv, NEW t \in Tasks
  PROVE  /\ ops[t] # <<>> => task[t] # "none"
         /\ t \in recon.tasks => task[t] # "none"
         /\ \A w \in Waiters :
              at[w][t] \notin {"none", "creating"} => task[t] # "none"
         /\ opAt[t] # "idle" => ops[t] # <<>> /\ task[t] # "none"
BY DEF IInv, TaskKnown, OpsHaveHead

LEMMA BridgeInv ==
  ASSUME IInv, NEW t \in Tasks, CreateTask(t) \/ BridgeStep(t)
  PROVE  ChainBacked' /\ OneOwned' /\ OpsHaveHead' /\ TaskKnown'
<1>1. TypeOK /\ TaskKnown /\ OpsHaveHead
  BY DEF IInv
<1>2. /\ task' = task /\ ops' = ops /\ opAt' = opAt /\ recon' = recon
  BY DEF CreateTask, BridgeStep, StartFails, StartReuses, StartCreates,
         CheckCancelled, CheckActive, diskVars, opVars
<1>3. OpsHaveHead'
  BY <1>1, <1>2 DEF OpsHaveHead
<1>4. CASE CreateTask(t)
  <2>1. Moves("bridge", t, "none", "creating") /\ task[t] = "none"
    BY <1>4 DEF CreateTask
  <2>2. /\ at["bridge"][t] = "none" /\ at'["bridge"][t] = "creating"
        /\ \A v \in Waiters, u \in Tasks :
             v # "bridge" \/ u # t => at'[v][u] = at[v][u]
    BY <1>1, <2>1, MovesAt DEF Waiters, WaiterPc
  <2>3. \A u \in Tasks : Steady(u)
    BY <1>2, <2>2 DEF Steady, Waiters
  <2>4. \A u \in Tasks : StaysUnknown(u)
    BY <1>2, <2>2 DEF StaysUnknown
  <2> DEFINE e == Entry("create", t, 0, "bridge")
  <2>5. e \in Entries /\ e.op = "create" /\ e.t = t
    <3>1. e \in Entries
      BY EntryType DEF Waiters
    <3>2. QED
      BY <3>1 DEF Entry
  <2>6. chain' = Append(chain, e)
    BY <1>4 DEF CreateTask
  <2>7. Backed(e)'
    BY <1>2, <2>1, <2>2, <2>5 DEF Backed
  <2>8. ASSUME NEW i \in 1..Len(chain), Owned(chain[i]), chain[i].t = t
        PROVE  FALSE
    <3>1. Backed(chain[i])
      BY DEF IInv, ChainBacked
    <3>2. ops[t] = <<>>
      BY <1>1, <2>1 DEF TaskKnown
    <3>3. opAt[t] = "idle"
      BY <1>1, <3>2 DEF OpsHaveHead
    <3>4. QED
      BY <2>1, <2>2, <2>8, <3>1, <3>3 DEF Backed, Owned
  <2>9. ChainBacked' /\ OneOwned'
    BY <2>3, <2>5, <2>6, <2>7, <2>8, SteadyBacked, ChainAppended
  <2>10. QED
    BY <1>1, <1>3, <2>4, <2>9, StillKnown
<1>5. CASE BridgeStep(t)
  <2>1. PICK from \in WaiterPc \ {"none", "creating"}, to \in WaiterPc :
          Moves("bridge", t, from, to)
    BY <1>5 DEF BridgeStep, StartFails, StartReuses, StartCreates, CheckCancelled,
                CheckActive, WaiterPc
  <2>2. /\ at["bridge"][t] = from
        /\ \A v \in Waiters, u \in Tasks :
             v # "bridge" \/ u # t => at'[v][u] = at[v][u]
    BY <1>1, <2>1, MovesAt DEF Waiters
  <2>3. task[t] # "none"
    BY <2>2, WaiterKnows DEF Waiters
  <2>4. \A u \in Tasks : Steady(u)
    BY <1>2, <2>2, <2>3 DEF Steady, Waiters
  <2>5. \A u \in Tasks : StaysUnknown(u)
    BY <1>2, <2>2, <2>3 DEF StaysUnknown
  <2>6. \/ chain' = chain
        \/ \E r \in 0..MaxRuns : chain' = Append(chain, Entry("map", t, r, "bridge"))
        \/ \E r \in 0..MaxRuns : chain' = Append(chain, Entry("created", t, r, "bridge"))
        \/ \E r \in 0..MaxRuns : chain' = Append(chain, Entry("control", t, r, "bridge"))
    <3>1. bound[t] \in 0..MaxRuns
      BY <1>1 DEF TypeOK
    <3>2. CASE StartFails(t) \/ CheckActive(t)
      BY <3>2 DEF StartFails, CheckActive
    <3>3. CASE StartReuses(t)
      BY <3>3 DEF StartReuses, Existing
    <3>4. CASE StartCreates(t)
      BY <3>4 DEF StartCreates
    <3>5. CASE CheckCancelled(t)
      BY <3>1, <3>5 DEF CheckCancelled, CancelRun
    <3>6. QED
      BY <1>5, <3>2, <3>3, <3>4, <3>5 DEF BridgeStep
  <2>7. CASE chain' = chain
    BY <1>1, <1>3, <2>4, <2>5, <2>7, SteadyBacked, ChainKept, StillKnown
  <2>8. ASSUME NEW op \in {"map", "created", "control"}, NEW r \in 0..MaxRuns,
               chain' = Append(chain, Entry(op, t, r, "bridge"))
        PROVE  ChainBacked' /\ OneOwned'
    <3> DEFINE e == Entry(op, t, r, "bridge")
    <3>1. e \in Entries /\ ~Owned(e) /\ Backed(e)'
      BY EntryType DEF Entry, Waiters, Owned, Backed
    <3>2. QED
      BY <2>4, <2>8, <3>1, SteadyBacked, ChainAppended
  <2>9. QED
    BY <1>1, <1>3, <2>5, <2>6, <2>7, <2>8, StillKnown
<1>6. QED
  BY <1>4, <1>5

LEMMA WaiterInv ==
  ASSUME IInv, NEW t \in Tasks, NEW w \in Waiters, WaiterStep(w, t)
  PROVE  ChainBacked' /\ OneOwned' /\ OpsHaveHead' /\ TaskKnown'
<1>1. TypeOK /\ TaskKnown /\ OpsHaveHead
  BY DEF IInv
<1>2. task' = task /\ opAt' = opAt /\ recon' = recon /\ chain' = chain
  BY DEF WaiterStep, RunOver, NotActive, StoreResult, diskVars, opVars
<1>3. PICK from \in {"waiting", "storing"}, to \in WaiterPc : Moves(w, t, from, to)
  BY DEF WaiterStep, RunOver, NotActive, StoreResult, WaiterPc
<1>4. /\ at[w][t] = from
      /\ \A v \in Waiters, u \in Tasks : v # w \/ u # t => at'[v][u] = at[v][u]
  BY <1>1, <1>3, MovesAt
<1>5. task[t] # "none"
  BY <1>4, WaiterKnows
<1>6. \A u \in Tasks : Steady(u)
  BY <1>2, <1>4, <1>5 DEF Steady, Waiters
<1>7. \/ ops' = ops
      \/ \E op \in Operations : ops' = [ops EXCEPT ![t] = Append(@, op)]
  <2>1. CASE RunOver(w, t) \/ NotActive(w, t)
    BY <2>1 DEF RunOver, NotActive, opVars
  <2>2. CASE StoreResult(w, t)
    <3>1. verdict[w][t] \in Results
      BY <1>1 DEF TypeOK
    <3>2. Operation(w, StatusOf(verdict[w][t]), verdict[w][t]) \in Operations
      BY <3>1 DEF Operation, Operations, StatusOf, TerminalTask
    <3>3. QED
      BY <2>2, <3>2 DEF StoreResult
  <2>3. QED
    BY <2>1, <2>2 DEF WaiterStep
<1>8. \A u \in Tasks : (u # t => ops'[u] = ops[u]) /\ (ops[u] # <<>> => ops'[u] # <<>>)
  BY <1>1, <1>7, SMTT(30) DEF TypeOK
<1>9. OpsHaveHead'
  BY <1>1, <1>2, <1>8 DEF OpsHaveHead
<1>10. \A u \in Tasks : StaysUnknown(u)
  BY <1>2, <1>4, <1>5, <1>8 DEF StaysUnknown
<1>11. QED
  BY <1>1, <1>2, <1>6, <1>9, <1>10, SteadyBacked, ChainKept, StillKnown

LEMMA StoreInv ==
  ASSUME IInv, NEW t \in Tasks, StoreStep(t) \/ ClientCancels(t)
  PROVE  ChainBacked' /\ OneOwned' /\ OpsHaveHead' /\ TaskKnown'
<1>1. TypeOK /\ TaskKnown /\ OpsHaveHead
  BY DEF IInv
<1>2. task' = task
  BY DEF StoreStep, OpRefused, OpBegins, NotifyRun, NotifyNothing, ClientCancels,
         diskVars
<1>3. CASE OpRefused(t)
  <2>1. /\ ops[t] # <<>> /\ opAt[t] = "idle" /\ Answered(t, FALSE)
        /\ chain' = chain /\ opAt' = opAt
    BY <1>3 DEF OpRefused
  <2>2. task[t] # "none"
    BY <2>1, WaiterKnows
  <2>3. /\ recon'.tasks = recon.tasks
        /\ \A u \in Tasks : u # t => ops'[u] = ops[u]
        /\ \A v \in Waiters, u \in Tasks : u # t => at'[v][u] = at[v][u]
    BY <1>1, <2>1, AnsweredAt
  <2>4. \A u \in Tasks : Steady(u)
    BY <1>2, <2>1, <2>2, <2>3 DEF Steady, Waiters
  <2>5. \A u \in Tasks : StaysUnknown(u)
    BY <1>2, <2>2, <2>3 DEF StaysUnknown
  <2>6. OpsHaveHead'
    BY <1>1, <2>1, <2>3 DEF OpsHaveHead
  <2>7. QED
    BY <1>1, <2>1, <2>4, <2>5, <2>6, SteadyBacked, ChainKept, StillKnown
<1>4. CASE OpBegins(t)
  <2> DEFINE e == Entry("settle", t, 0, "op")
  <2>1. /\ ops[t] # <<>> /\ opAt[t] = "idle" /\ task[t] \notin TerminalTask
        /\ opAt' = [opAt EXCEPT ![t] = "writing"]
        /\ chain' = Append(chain, e)
        /\ ops' = ops /\ at' = at /\ recon' = recon
    BY <1>4 DEF OpBegins, Refused, waiterVars
  <2>2. task[t] = "working"
    <3>1. task[t] # "none"
      BY <2>1, WaiterKnows
    <3>2. QED
      BY <1>1, <2>1, <3>1 DEF TypeOK, TaskStatus
  <2>3. /\ opAt'[t] = "writing"
        /\ \A u \in Tasks : u # t => opAt'[u] = opAt[u]
    BY <1>1, <2>1 DEF TypeOK
  <2>4. \A u \in Tasks : Steady(u)
    BY <1>2, <2>1, <2>3 DEF Steady
  <2>5. \A u \in Tasks : StaysUnknown(u)
    BY <1>2, <2>1 DEF StaysUnknown
  <2>6. OpsHaveHead'
    BY <1>1, <2>1, <2>3 DEF OpsHaveHead
  <2>7. e \in Entries
    BY EntryType
  <2>8. e.op = "settle" /\ e.t = t
    BY DEF Entry
  <2>9. Backed(e)'
    BY <1>2, <2>2, <2>3, <2>8 DEF Backed
  <2>10. ASSUME NEW i \in 1..Len(chain), Owned(chain[i]), chain[i].t = t
         PROVE  FALSE
    <3>1. Backed(chain[i])
      BY DEF IInv, ChainBacked
    <3>2. QED
      BY <2>1, <2>2, <2>10, <3>1 DEF Backed, Owned
  <2>11. ChainBacked' /\ OneOwned'
    BY <2>1, <2>4, <2>7, <2>8, <2>9, <2>10, SteadyBacked, ChainAppended
  <2>12. QED
    BY <1>1, <2>5, <2>6, <2>11, StillKnown
<1>5. CASE NotifyRun(t)
  <2>0. PICK r \in 0..MaxRuns : r = mapping[t]
    BY <1>1 DEF TypeOK
  <2> DEFINE e == Entry("control", t, r, "op")
  <2>1. /\ opAt[t] = "notifying"
        /\ opAt' = [opAt EXCEPT ![t] = "controlling"]
        /\ chain' = Append(chain, e)
        /\ ops' = ops /\ at' = at /\ recon' = recon
    BY <1>5, <2>0 DEF NotifyRun, CancelRun, waiterVars
  <2>2. task[t] # "none"
    BY <2>1, WaiterKnows
  <2>3. /\ opAt'[t] = "controlling"
        /\ \A u \in Tasks : u # t => opAt'[u] = opAt[u]
    BY <1>1, <2>1 DEF TypeOK
  <2>4. \A u \in Tasks : Steady(u)
    BY <1>2, <2>1, <2>3 DEF Steady
  <2>5. \A u \in Tasks : StaysUnknown(u)
    BY <1>2, <2>1 DEF StaysUnknown
  <2>6. OpsHaveHead'
    <3>1. ops[t] # <<>>
      BY <2>1, WaiterKnows
    <3>2. QED
      BY <1>1, <2>1, <2>3, <3>1 DEF OpsHaveHead
  <2>7. e \in Entries
    BY EntryType
  <2>8. e.op = "control" /\ e.who = "op" /\ e.t = t
    BY DEF Entry
  <2>9. Backed(e)'
    BY <2>3, <2>8 DEF Backed
  <2>10. ASSUME NEW i \in 1..Len(chain), Owned(chain[i]), chain[i].t = t
         PROVE  FALSE
    <3>1. Backed(chain[i])
      BY DEF IInv, ChainBacked
    <3>2. QED
      BY <2>1, <2>2, <2>10, <3>1 DEF Backed, Owned
  <2>11. ChainBacked' /\ OneOwned'
    BY <2>1, <2>4, <2>7, <2>8, <2>9, <2>10, SteadyBacked, ChainAppended
  <2>12. QED
    BY <1>1, <2>5, <2>6, <2>11, StillKnown
<1>6. CASE NotifyNothing(t)
  <2>1. /\ opAt[t] = "notifying" /\ Answered(t, TRUE) /\ chain' = chain
        /\ opAt' = [opAt EXCEPT ![t] = "idle"]
    BY <1>6 DEF NotifyNothing
  <2>2. task[t] # "none" /\ ops[t] # <<>>
    BY <2>1, WaiterKnows
  <2>3. /\ recon'.tasks = recon.tasks
        /\ \A u \in Tasks : u # t => ops'[u] = ops[u]
        /\ \A v \in Waiters, u \in Tasks : u # t => at'[v][u] = at[v][u]
    BY <1>1, <2>1, <2>2, AnsweredAt
  <2>4. /\ opAt'[t] = "idle"
        /\ \A u \in Tasks : u # t => opAt'[u] = opAt[u]
    BY <1>1, <2>1 DEF TypeOK
  <2>5. \A u \in Tasks : Steady(u)
    BY <1>2, <2>1, <2>2, <2>3, <2>4 DEF Steady, Waiters
  <2>6. \A u \in Tasks : StaysUnknown(u)
    BY <1>2, <2>2, <2>3 DEF StaysUnknown
  <2>7. OpsHaveHead'
    BY <1>1, <2>3, <2>4 DEF OpsHaveHead
  <2>8. QED
    BY <1>1, <2>1, <2>5, <2>6, <2>7, SteadyBacked, ChainKept, StillKnown
<1>7. CASE ClientCancels(t)
  <2> DEFINE op == Operation("client", "cancelled", "none")
  <2>1. /\ task[t] = "working" /\ ops' = [ops EXCEPT ![t] = Append(@, op)]
        /\ opAt' = opAt /\ at' = at /\ recon' = recon /\ chain' = chain
    BY <1>7 DEF ClientCancels, waiterVars
  <2>2. \A u \in Tasks : (u # t => ops'[u] = ops[u]) /\ (ops[u] # <<>> => ops'[u] # <<>>)
    <3>1. ops \in [Tasks -> Seq(Operations)] /\ op \in Operations
      BY <1>1 DEF TypeOK, Operation, Operations, TerminalTask, Results
    <3>2. QED
      BY <2>1, <3>1
  <2>3. \A u \in Tasks : Steady(u)
    BY <1>2, <2>1 DEF Steady
  <2>4. \A u \in Tasks : StaysUnknown(u)
    BY <1>2, <2>1, <2>2 DEF StaysUnknown
  <2>5. OpsHaveHead'
    BY <1>1, <2>1, <2>2 DEF OpsHaveHead
  <2>6. QED
    BY <1>1, <2>1, <2>3, <2>4, <2>5, SteadyBacked, ChainKept, StillKnown
<1>8. QED
  BY <1>3, <1>4, <1>5, <1>6, <1>7 DEF StoreStep

LEMMA RunEndsInv ==
  ASSUME IInv, NEW r \in Runs, RunEnds(r)
  PROVE  ChainBacked' /\ OneOwned' /\ OpsHaveHead' /\ TaskKnown'
<1> DEFINE e == Entry("ended", AnyTask, r, "op")
<1>1. /\ task' = task /\ opAt' = opAt /\ ops' = ops /\ at' = at /\ recon' = recon
      /\ chain' = Append(chain, e)
  BY DEF RunEnds, diskVars, opVars, waiterVars
<1>2. \A u \in Tasks : Steady(u) /\ StaysUnknown(u)
  BY <1>1 DEF Steady, StaysUnknown
<1>3. AnyTask \in Tasks
  BY DEF AnyTask
<1>4. e \in Entries
  BY <1>3, EntryType
<1>5. ~Owned(e) /\ Backed(e)'
  BY DEF Entry, Owned, Backed
<1>6. OpsHaveHead'
  BY <1>1 DEF IInv, OpsHaveHead
<1>7. ChainBacked' /\ OneOwned'
  BY <1>1, <1>2, <1>4, <1>5, SteadyBacked, ChainAppended
<1>8. QED
  BY <1>2, <1>6, <1>7, StillKnown DEF IInv

LEMMA CrashInv ==
  ASSUME IInv, CrashAndRestart
  PROVE  ChainBacked' /\ OneOwned' /\ OpsHaveHead' /\ TaskKnown'
<1>1. /\ chain' = <<>> /\ ops' = [t \in Tasks |-> <<>>]
      /\ opAt' = [t \in Tasks |-> "idle"]
      /\ at' = [w \in Waiters |-> [t \in Tasks |-> "none"]]
      /\ recon'.tasks = {}
  BY DEF CrashAndRestart, Reconciling
<1>2. Len(chain') = 0
  BY <1>1
<1>3. ChainBacked' /\ OneOwned'
  BY <1>2 DEF ChainBacked, OneOwned
<1>4. OpsHaveHead' /\ TaskKnown'
  BY <1>1 DEF OpsHaveHead, TaskKnown
<1>5. QED
  BY <1>3, <1>4

LEMMA ReconcileInv ==
  ASSUME IInv, ReconcileStep
  PROVE  ChainBacked' /\ OneOwned' /\ OpsHaveHead' /\ TaskKnown'
<1>1. TypeOK /\ TaskKnown /\ OpsHaveHead
  BY DEF IInv
<1>2. task' = task /\ opAt' = opAt /\ chain' = chain
  BY ZenonT(30) DEF ReconcileStep, ListTasks, ListMappings, ResumeTask, FailInterrupted,
         diskVars, opVars
<1>3. CASE ListTasks
  <2>1. /\ recon'.tasks = {t \in Tasks : task[t] = "working"}
        /\ ops' = ops /\ at' = at
    BY <1>1, <1>3 DEF ListTasks, opVars, waiterVars, TypeOK
  <2>2. \A u \in Tasks : Steady(u) /\ StaysUnknown(u)
    BY <1>2, <2>1 DEF Steady, StaysUnknown
  <2>3. OpsHaveHead'
    BY <1>1, <1>2, <2>1 DEF OpsHaveHead
  <2>4. QED
    BY <1>1, <1>2, <2>2, <2>3, SteadyBacked, ChainKept, StillKnown
<1>4. CASE ListMappings
  <2>1. /\ recon'.tasks = recon.tasks
        /\ ops' = ops /\ at' = at
    BY <1>1, <1>4 DEF ListMappings, opVars, waiterVars, TypeOK
  <2>2. \A u \in Tasks : Steady(u) /\ StaysUnknown(u)
    BY <1>2, <2>1 DEF Steady, StaysUnknown
  <2>3. OpsHaveHead'
    BY <1>1, <1>2, <2>1 DEF OpsHaveHead
  <2>4. QED
    BY <1>1, <1>2, <2>2, <2>3, SteadyBacked, ChainKept, StillKnown
<1>5. ASSUME NEW t \in Tasks, ResumeTask(t)
      PROVE  ChainBacked' /\ OneOwned' /\ OpsHaveHead' /\ TaskKnown'
  <2>1. /\ Moves("resumed", t, "none", "waiting") /\ t \in recon.tasks
        /\ ops' = ops /\ recon' = [recon EXCEPT !.tasks = @ \ {t}]
    BY <1>5 DEF ResumeTask, opVars
  <2>2. \A v \in Waiters, u \in Tasks : v # "resumed" \/ u # t => at'[v][u] = at[v][u]
    BY <1>1, <2>1, MovesAt DEF Waiters, WaiterPc
  <2>3. recon'.tasks = recon.tasks \ {t}
    BY <1>1, <2>1 DEF TypeOK
  <2>4. task[t] # "none"
    BY <2>1, WaiterKnows
  <2>5. \A u \in Tasks : Steady(u)
    BY <1>2, <2>2 DEF Steady, Waiters
  <2>6. \A u \in Tasks : StaysUnknown(u)
    BY <1>2, <2>1, <2>2, <2>3, <2>4 DEF StaysUnknown
  <2>7. OpsHaveHead'
    BY <1>1, <1>2, <2>1 DEF OpsHaveHead
  <2>8. QED
    BY <1>1, <1>2, <2>5, <2>6, <2>7, SteadyBacked, ChainKept, StillKnown
<1>6. ASSUME NEW t \in Tasks, FailInterrupted(t)
      PROVE  ChainBacked' /\ OneOwned' /\ OpsHaveHead' /\ TaskKnown'
  <2> DEFINE op == Operation("reconcile", "failed", "interrupted")
  <2>1. /\ t \in recon.tasks /\ ops' = [ops EXCEPT ![t] = Append(@, op)]
        /\ recon' = [recon EXCEPT !.tasks = @ \ {t}, !.at = "storing"]
        /\ at' = at
    BY <1>6 DEF FailInterrupted, waiterVars
  <2>2. recon'.tasks = recon.tasks \ {t}
    BY <1>1, <2>1 DEF TypeOK
  <2>3. task[t] # "none"
    BY <2>1, WaiterKnows
  <2>4. \A u \in Tasks : (u # t => ops'[u] = ops[u]) /\ (ops[u] # <<>> => ops'[u] # <<>>)
    <3>1. ops \in [Tasks -> Seq(Operations)] /\ op \in Operations
      BY <1>1 DEF TypeOK, Operation, Operations, TerminalTask, Results
    <3>2. QED
      BY <2>1, <3>1
  <2>5. \A u \in Tasks : Steady(u)
    BY <1>2, <2>1 DEF Steady
  <2>6. \A u \in Tasks : StaysUnknown(u)
    BY <1>2, <2>1, <2>2, <2>3, <2>4 DEF StaysUnknown
  <2>7. OpsHaveHead'
    BY <1>1, <1>2, <2>4 DEF OpsHaveHead
  <2>8. QED
    BY <1>1, <1>2, <2>5, <2>6, <2>7, SteadyBacked, ChainKept, StillKnown
<1>7. QED
  BY <1>3, <1>4, <1>5, <1>6 DEF ReconcileStep

(* A write: the first entry's own task may lose its backing, as it is the  *)
(* only entry on behalf of that task.                                      *)
LEMMA WriteInv ==
  ASSUME IInv, WriteReturns
  PROVE  ChainBacked' /\ OneOwned' /\ OpsHaveHead' /\ TaskKnown'
<1>1. TypeOK /\ TaskKnown /\ OpsHaveHead /\ ChainBacked
  BY DEF IInv
<1> PICK t : t = Head(chain).t
  OBVIOUS
<1> PICK r : r = Head(chain).r
  OBVIOUS
<1>2. CASE TaskCreated
  <2>1. /\ t \in Tasks /\ chain # <<>> /\ Head(chain).op = "create"
        /\ Backed(Head(chain))
    BY <1>1, <1>2, HeadType, HeadBacked DEF TaskCreated
  <2>2. /\ task' = [task EXCEPT ![t] = "working"] /\ chain' = Tail(chain)
        /\ Moves("bridge", t, "creating", "starting")
        /\ ops' = ops /\ opAt' = opAt /\ recon' = recon
    BY <1>2 DEF TaskCreated, opVars
  <2>3. /\ task'[t] = "working"
        /\ \A u \in Tasks : u # t => task'[u] = task[u]
    BY <1>1, <2>1, <2>2 DEF TypeOK
  <2>4. \A v \in Waiters, u \in Tasks : u # t => at'[v][u] = at[v][u]
    BY <1>1, <2>1, <2>2, MovesAt DEF Waiters, WaiterPc
  <2>5. \A u \in Tasks : u # t => Steady(u)
    BY <2>2, <2>3, <2>4 DEF Steady, Waiters
  <2>6. \A u \in Tasks : StaysUnknown(u)
    BY <2>2, <2>3, <2>4 DEF StaysUnknown
  <2>7. OpsHaveHead'
    BY <1>1, <2>2 DEF OpsHaveHead
  <2>8. Owned(Head(chain))
    BY <2>1 DEF Owned
  <2>9. ChainBacked' /\ OneOwned'
    BY <2>1, <2>2, <2>5, <2>8, SteadyBacked, ChainAdvanced
  <2>10. QED
    BY <1>1, <2>6, <2>7, <2>9, StillKnown
<1>3. CASE OpWritten
  <2>1. /\ t \in Tasks /\ chain # <<>> /\ Head(chain).op = "settle"
        /\ Backed(Head(chain)) /\ ops[t] # <<>>
    BY <1>1, <1>3, HeadType, HeadBacked DEF OpWritten
  <2>2. Head(ops[t]) \in Operations /\ task[t] # "none"
    BY <1>1, <2>1, TailType, WaiterKnows DEF TypeOK
  <2>3. /\ task' = [task EXCEPT ![t] = Head(ops[t]).status]
        /\ chain' = Tail(chain)
        /\ \/ /\ opAt' = [opAt EXCEPT ![t] = "notifying"]
              /\ ops' = ops /\ at' = at /\ recon' = recon
           \/ /\ opAt' = [opAt EXCEPT ![t] = "idle"]
              /\ Answered(t, TRUE)
    BY <1>3 DEF OpWritten
  <2>4. /\ task'[t] # "none"
        /\ \A u \in Tasks : u # t => task'[u] = task[u]
    BY <1>1, <2>1, <2>2, <2>3 DEF TypeOK, Operations, TerminalTask
  <2>5. /\ recon'.tasks = recon.tasks
        /\ \A u \in Tasks : u # t => ops'[u] = ops[u]
        /\ \A v \in Waiters, u \in Tasks : u # t => at'[v][u] = at[v][u]
    BY <1>1, <2>1, <2>3, AnsweredAt
  <2>6. /\ opAt'[t] = "notifying" => ops' = ops
        /\ opAt'[t] \in {"notifying", "idle"}
        /\ \A u \in Tasks : u # t => opAt'[u] = opAt[u]
    BY <1>1, <2>1, <2>3 DEF TypeOK
  <2>7. \A u \in Tasks : u # t => Steady(u)
    BY <2>4, <2>5, <2>6 DEF Steady, Waiters
  <2>8. \A u \in Tasks : StaysUnknown(u)
    BY <2>4, <2>5 DEF StaysUnknown
  <2>9. OpsHaveHead'
    BY <1>1, <2>1, <2>5, <2>6 DEF OpsHaveHead
  <2>10. Owned(Head(chain))
    BY <2>1 DEF Owned
  <2>11. ChainBacked' /\ OneOwned'
    BY <2>1, <2>3, <2>7, <2>10, SteadyBacked, ChainAdvanced
  <2>12. QED
    BY <1>1, <2>8, <2>9, <2>11, StillKnown
<1>4. CASE RunCreated
  <2>1. /\ t \in Tasks /\ r \in 0..MaxRuns /\ chain # <<>>
        /\ Tail(chain) \in Seq(Entries)
        /\ Moves("bridge", t, "recording", "mapping")
        /\ chain' = Append(Tail(chain), Entry("map", t, r, "bridge"))
        /\ task' = task /\ ops' = ops /\ opAt' = opAt /\ recon' = recon
    BY <1>1, <1>4, HeadType DEF RunCreated, opVars
  <2>2. /\ at["bridge"][t] = "recording"
        /\ \A v \in Waiters, u \in Tasks :
             v # "bridge" \/ u # t => at'[v][u] = at[v][u]
    BY <1>1, <2>1, MovesAt DEF Waiters, WaiterPc
  <2>3. task[t] # "none"
    BY <2>1, <2>2, WaiterKnows DEF Waiters
  <2>4. \A u \in Tasks : Steady(u)
    BY <2>1, <2>2, <2>3 DEF Steady, Waiters
  <2>5. \A u \in Tasks : StaysUnknown(u)
    BY <2>1, <2>2, <2>3 DEF StaysUnknown
  <2>6. OpsHaveHead'
    BY <1>1, <2>1 DEF OpsHaveHead
  <2> DEFINE e == Entry("map", t, r, "bridge")
  <2>7. e \in Entries
    BY <2>1, EntryType DEF Waiters
  <2>8. ~Owned(e) /\ Backed(e)'
    BY DEF Entry, Owned, Backed
  <2>9. ChainBacked' /\ OneOwned'
    BY <2>1, <2>4, <2>7, <2>8, SteadyBacked, ChainTurned
  <2>10. QED
    BY <1>1, <2>5, <2>6, <2>9, StillKnown
<1>5. CASE RunMapped
  <2>1. /\ t \in Tasks /\ chain # <<>> /\ chain' = Tail(chain)
        /\ Moves("bridge", t, "mapping", "checking")
        /\ task' = task /\ ops' = ops /\ opAt' = opAt /\ recon' = recon
    BY <1>1, <1>5, HeadType DEF RunMapped, opVars
  <2>2. /\ at["bridge"][t] = "mapping"
        /\ \A v \in Waiters, u \in Tasks :
             v # "bridge" \/ u # t => at'[v][u] = at[v][u]
    BY <1>1, <2>1, MovesAt DEF Waiters, WaiterPc
  <2>3. task[t] # "none"
    BY <2>1, <2>2, WaiterKnows DEF Waiters
  <2>4. \A u \in Tasks : Steady(u)
    BY <2>1, <2>2, <2>3 DEF Steady, Waiters
  <2>5. \A u \in Tasks : StaysUnknown(u)
    BY <2>1, <2>2, <2>3 DEF StaysUnknown
  <2>6. OpsHaveHead'
    BY <1>1, <2>1 DEF OpsHaveHead
  <2>7. ChainBacked' /\ OneOwned'
    BY <2>1, <2>4, SteadyBacked, ChainAdvanced
  <2>8. QED
    BY <1>1, <2>5, <2>6, <2>7, StillKnown
<1>6. CASE CancelRecorded
  <2>1. /\ t \in Tasks /\ chain # <<>> /\ chain' = Tail(chain) /\ task' = task
        /\ Head(chain).op = "control" /\ Backed(Head(chain))
    BY <1>1, <1>6, HeadType, HeadBacked DEF CancelRecorded
  <2>2. CASE Head(chain).who = "op"
    <3>1. /\ ops[t] # <<>> /\ Answered(t, TRUE)
          /\ opAt' = [opAt EXCEPT ![t] = "idle"]
      BY <1>1, <1>6, <2>2, HeadBacked DEF CancelRecorded
    <3>2. task[t] # "none"
      BY <2>1, <3>1, WaiterKnows
    <3>3. /\ recon'.tasks = recon.tasks
          /\ \A u \in Tasks : u # t => ops'[u] = ops[u]
          /\ \A v \in Waiters, u \in Tasks : u # t => at'[v][u] = at[v][u]
      BY <1>1, <2>1, <3>1, AnsweredAt
    <3>4. /\ opAt'[t] = "idle"
          /\ \A u \in Tasks : u # t => opAt'[u] = opAt[u]
      BY <1>1, <2>1, <3>1 DEF TypeOK
    <3>5. \A u \in Tasks : u # t => Steady(u)
      BY <2>1, <3>3, <3>4 DEF Steady, Waiters
    <3>6. \A u \in Tasks : StaysUnknown(u)
      BY <2>1, <3>2, <3>3 DEF StaysUnknown
    <3>7. OpsHaveHead'
      BY <1>1, <3>3, <3>4 DEF OpsHaveHead
    <3>8. Owned(Head(chain))
      BY <2>1, <2>2 DEF Owned
    <3>9. ChainBacked' /\ OneOwned'
      BY <2>1, <3>5, <3>8, SteadyBacked, ChainAdvanced
    <3>10. QED
      BY <1>1, <3>6, <3>7, <3>9, StillKnown
  <2>3. CASE Head(chain).who # "op"
    <3>1. /\ Moves("bridge", t, "cancelling", "done")
          /\ ops' = ops /\ opAt' = opAt /\ recon' = recon
      BY <1>6, <2>3 DEF CancelRecorded, opVars
    <3>2. /\ at["bridge"][t] = "cancelling"
          /\ \A v \in Waiters, u \in Tasks :
               v # "bridge" \/ u # t => at'[v][u] = at[v][u]
      BY <1>1, <2>1, <3>1, MovesAt DEF Waiters, WaiterPc
    <3>3. task[t] # "none"
      BY <2>1, <3>2, WaiterKnows DEF Waiters
    <3>4. \A u \in Tasks : Steady(u)
      BY <2>1, <3>1, <3>2, <3>3 DEF Steady, Waiters
    <3>5. \A u \in Tasks : StaysUnknown(u)
      BY <2>1, <3>1, <3>2, <3>3 DEF StaysUnknown
    <3>6. OpsHaveHead'
      BY <1>1, <3>1 DEF OpsHaveHead
    <3>7. ChainBacked' /\ OneOwned'
      BY <2>1, <3>4, SteadyBacked, ChainAdvanced
    <3>8. QED
      BY <1>1, <3>5, <3>6, <3>7, StillKnown
  <2>4. QED
    BY <2>2, <2>3
<1>7. CASE RunSettled
  <2>1. /\ chain # <<>> /\ chain' = Tail(chain) /\ task' = task
        /\ at' = at /\ ops' = ops /\ opAt' = opAt /\ recon' = recon
    BY <1>7 DEF RunSettled, First, opVars, waiterVars
  <2>2. \A u \in Tasks : Steady(u) /\ StaysUnknown(u)
    BY <2>1 DEF Steady, StaysUnknown
  <2>3. OpsHaveHead'
    BY <1>1, <2>1 DEF OpsHaveHead
  <2>4. ChainBacked' /\ OneOwned'
    BY <2>1, <2>2, SteadyBacked, ChainAdvanced
  <2>5. QED
    BY <1>1, <2>2, <2>3, <2>4, StillKnown
<1>8. QED
  BY <1>2, <1>3, <1>4, <1>5, <1>6, <1>7 DEF WriteReturns

-----------------------------------------------------------------------------
(* The inductive invariant.                                                *)
THEOREM Invariant == Spec => []IInv
<1>1. Init => IInv
  <2> SUFFICES ASSUME Init PROVE IInv
    OBVIOUS
  <2>1. TypeOK
    BY InitType
  <2>2. chain = <<>> /\ recon.tasks = {}
    BY DEF Init, Reconciling
  <2>3. Len(chain) = 0
    BY <2>2
  <2>4. ChainBacked /\ OneOwned
    BY <2>3 DEF ChainBacked, OneOwned
  <2>5. OpsHaveHead /\ TaskKnown
    BY <2>2 DEF Init, OpsHaveHead, TaskKnown
  <2>6. QED
    BY <2>1, <2>4, <2>5 DEF IInv
<1>2. IInv /\ [Next]_vars => IInv'
  <2> SUFFICES ASSUME IInv, [Next]_vars PROVE IInv'
    OBVIOUS
  <2> DEFINE Rest == ChainBacked' /\ OneOwned' /\ OpsHaveHead' /\ TaskKnown'
  <2>1. TypeOK'
    BY NextType
  <2>2. ASSUME NEW t \in Tasks, CreateTask(t) \/ BridgeStep(t) PROVE Rest
    BY <2>2, BridgeInv
  <2>3. ASSUME NEW t \in Tasks, StoreStep(t) \/ ClientCancels(t) PROVE Rest
    BY <2>3, StoreInv
  <2>4. ASSUME NEW t \in Tasks, NEW w \in Waiters, WaiterStep(w, t) PROVE Rest
    BY <2>4, WaiterInv
  <2>5. ASSUME NEW r \in Runs, RunEnds(r) PROVE Rest
    BY <2>5, RunEndsInv
  <2>6. ASSUME WriteReturns PROVE Rest
    BY <2>6, WriteInv
  <2>7. ASSUME ReconcileStep PROVE Rest
    BY <2>7, ReconcileInv
  <2>8. ASSUME CrashAndRestart PROVE Rest
    BY <2>8, CrashInv
  <2>9. ASSUME UNCHANGED vars PROVE Rest
    <3>1. /\ task' = task /\ chain' = chain /\ ops' = ops /\ opAt' = opAt
          /\ at' = at /\ recon' = recon
      BY <2>9 DEF vars, diskVars, opVars, waiterVars
    <3>2. QED
      BY <3>1 DEF IInv, ChainBacked, Backed, OneOwned, Owned, OpsHaveHead, TaskKnown
  <2>10. Rest
    BY <2>2, <2>3, <2>4, <2>5, <2>6, <2>7, <2>8, <2>9 DEF Next, Progress
  <2>11. QED
    BY <2>1, <2>10 DEF IInv
<1>3. QED
  BY <1>1, <1>2, PTL DEF Spec

(* Every reachable state of the task store, its bridge and the restart is  *)
(* well typed, for every set of tasks, plans and every bound.              *)
THEOREM McpTypeCorrect == Spec => []TypeOK
<1>1. IInv => TypeOK
  BY DEF IInv
<1>2. QED
  BY <1>1, Invariant, PTL

-----------------------------------------------------------------------------
(***************************************************************************)
(* The refinement: every step creates a task, settles one, or leaves task  *)
(* and result alone.                                                       *)
(***************************************************************************)
LEMMA StepIsPromised ==
  ASSUME IInv, [Next]_vars
  PROVE  [Promise!Next]_<<task, result>>
<1>1. TypeOK /\ ChainBacked /\ OpsHaveHead
  BY DEF IInv
<1> PICK t : t = Head(chain).t
  OBVIOUS
<1>2. CASE TaskCreated
  <2>1. t \in Tasks /\ Head(chain).op = "create" /\ Backed(Head(chain))
    BY <1>1, <1>2, HeadType, HeadBacked DEF TaskCreated
  <2>2. task[t] = "none"
    BY <2>1 DEF Backed
  <2>3. task' = [task EXCEPT ![t] = "working"] /\ result' = result
    BY <1>2 DEF TaskCreated
  <2>4. Promise!Create(t)
    BY <2>2, <2>3 DEF Promise!Create
  <2>5. QED
    BY <2>1, <2>4 DEF Promise!Next
<1>3. CASE OpWritten
  <2>1. /\ t \in Tasks /\ Head(chain).op = "settle" /\ Backed(Head(chain))
        /\ ops[t] # <<>>
    BY <1>1, <1>3, HeadType, HeadBacked DEF OpWritten
  <2>2. task[t] = "working"
    BY <2>1 DEF Backed
  <2>3. Head(ops[t]) \in Operations
    BY <1>1, <2>1, TailType DEF TypeOK
  <2> DEFINE outcome == [status |-> Head(ops[t]).status, result |-> Head(ops[t]).result]
  <2>4. outcome \in [status : TerminalTask, result : Results]
    BY <2>3 DEF Operations
  <2>5. /\ task' = [task EXCEPT ![t] = outcome.status]
        /\ result' = [result EXCEPT ![t] = outcome.result]
    BY <1>3 DEF OpWritten
  <2>6. Promise!Settle(t, outcome)
    BY <2>2, <2>5 DEF Promise!Settle
  <2>7. QED
    BY <2>1, <2>4, <2>6 DEF Promise!Next
<1>4. CASE UNCHANGED <<task, result>>
  BY <1>4
<1>5. TaskCreated \/ OpWritten \/ UNCHANGED <<task, result>>
  <2>1. CASE WriteReturns
    BY <2>1 DEF WriteReturns, RunCreated, RunMapped, CancelRecorded, RunSettled
  <2>2. ASSUME NEW u \in Tasks, CreateTask(u) \/ BridgeStep(u)
        PROVE  UNCHANGED <<task, result>>
    BY <2>2 DEF CreateTask, BridgeStep, StartFails, StartReuses, StartCreates,
                CheckCancelled, CheckActive, diskVars
  <2>3. ASSUME NEW u \in Tasks, StoreStep(u) \/ ClientCancels(u)
        PROVE  UNCHANGED <<task, result>>
    BY <2>3 DEF StoreStep, OpRefused, OpBegins, NotifyRun, NotifyNothing,
                ClientCancels, diskVars
  <2>4. ASSUME NEW u \in Tasks, NEW w \in Waiters, WaiterStep(w, u)
        PROVE  UNCHANGED <<task, result>>
    BY <2>4 DEF WaiterStep, RunOver, NotActive, StoreResult, diskVars
  <2>5. ASSUME NEW r \in Runs, RunEnds(r) PROVE UNCHANGED <<task, result>>
    BY <2>5 DEF RunEnds, diskVars
  <2>6. CASE ReconcileStep
    BY <2>6, ZenonT(30) DEF ReconcileStep, ListTasks, ListMappings, ResumeTask, FailInterrupted,
                diskVars
  <2>7. CASE CrashAndRestart
    BY <2>7 DEF CrashAndRestart, diskVars
  <2>8. CASE UNCHANGED vars
    BY <2>8 DEF vars, diskVars
  <2>9. QED
    BY <2>1, <2>2, <2>3, <2>4, <2>5, <2>6, <2>7, <2>8 DEF Next, Progress
<1>6. QED
  BY <1>2, <1>3, <1>4, <1>5

(* The task store implements the one-shot task: whatever clients, runs,    *)
(* reconciliations and crashes do, a task takes one terminal status with   *)
(* its result and keeps both for ever.                                     *)
THEOREM TasksAreOneShot == Spec => TaskIsOneShot
<1>1. Init => Promise!Init
  BY DEF Init, Promise!Init
<1>2. IInv /\ [Next]_vars => [Promise!Next]_<<task, result>>
  BY StepIsPromised
<1>3. QED
  BY <1>1, <1>2, Invariant, PTL DEF Spec, TaskIsOneShot, Promise!Spec

-----------------------------------------------------------------------------
(***************************************************************************)
(* Tasks and their runs.  The disk follows the run objects in the order of *)
(* the chain: a run's creation is written before any mapping to it, and    *)
(* the end of a run before the creation of the next one of its plan.       *)
(***************************************************************************)
Recorded(r) == snapshot[r].status # "none"
InChain(op, r) == \E i \in 1..Len(chain) : chain[i].op = op /\ chain[i].r = r

(* The run object, its execution and its snapshot agree.                   *)
RunFine(r) ==
  /\ engine[r] \in {"recording", "running"} => run[r].status = "open"
  /\ engine[r] = "settled" =>
       snapshot[r].status = run[r].status /\ run[r].status \in Ended
  /\ snapshot[r].status \in Ended => run[r].status = snapshot[r].status
  /\ Recorded(r) => run[r].status # "none" /\ run[r].plan = snapshot[r].plan
RunsFine == \A r \in Runs : RunFine(r)

(* What the disk does not show yet is in the chain.                        *)
Announced == \A r \in Runs :
  /\ run[r].status # "none" => Recorded(r) \/ InChain("created", r)
  /\ snapshot[r].status = "open" /\ run[r].status # "open" => InChain("ended", r)

OneOpen == \A q, r \in Runs :
  run[q].status = "open" /\ run[r].status = "open" /\ run[q].plan = run[r].plan
    => q = r

(* What an entry finds in memory, and which may be before which.           *)
Fits(e) ==
  /\ e.op \in {"created", "map"} => bound[e.t] = e.r
  /\ e.op = "created" => engine[e.r] = "recording" /\ at["bridge"][e.t] = "recording"
  /\ e.op = "map" => at["bridge"][e.t] = "mapping"
  /\ e.op = "ended" => run[e.r].status \in Ended
  /\ e.op \in {"created", "map", "control", "ended"} =>
       e.r # 0 /\ run[e.r].status # "none"
Before(d, e) ==
  /\ d.op \in {"created", "map"} /\ e.op \in {"created", "map"} => d.t # e.t
  /\ d.op \in {"created", "map"} /\ e.op = "created" => d.r # e.r
  /\ d.op \in {"created", "control"} /\ e.op = "ended" /\ d.r # e.r =>
       ~(run[d.r].status = "open" /\ run[d.r].plan = run[e.r].plan)
EntriesFit == \A i \in 1..Len(chain) : Fits(chain[i])
InSequence ==
  \A i \in 1..Len(chain) : \A j \in (i + 1)..Len(chain) : Before(chain[i], chain[j])

(* A task is bound to the run it is mapped to, and told only what is true  *)
(* of that run on disk.                                                    *)
Mapped(t) ==
  /\ task[t] = "none"
     \/ at["bridge"][t] \in {"creating", "starting", "recording", "mapping"}
       => mapping[t] = 0
  /\ mapping[t] # 0 => Recorded(mapping[t])
  /\ recon.maps[t] # 0 => recon.maps[t] = mapping[t]
  /\ bound[t] # 0 => run[bound[t]].status # "none"
  /\ bound[t] # 0 /\ at["bridge"][t] \notin {"recording", "mapping"}
       => mapping[t] = bound[t]
  /\ at["bridge"][t] \in {"checking", "waiting"} \/ at["resumed"][t] = "waiting"
       => bound[t] # 0 /\ mapping[t] = bound[t]
Done(t) == mapping[t] # 0 /\ snapshot[mapping[t]].status = "succeeded"
Told(t) ==
  /\ task[t] = "completed" => Done(t)
  /\ \A w \in Waiters :
       at[w][t] = "storing" /\ verdict[w][t] = "succeeded" => Done(t)
  /\ \A i \in 1..Len(ops[t]) : ops[t][i].status = "completed" => Done(t)
(* A waiter asks the store for one operation at a time.                    *)
Asked(t) ==
  /\ \A i \in 1..Len(ops[t]) : \A w \in Waiters :
       ops[t][i].who = w => at[w][t] = "stored"
  /\ \A i, j \in 1..Len(ops[t]) :
       ops[t][i].who = ops[t][j].who /\ ops[t][i].who \in Waiters => i = j
(* A cancel the store has passed on, or the bridge has seen.  A crash may  *)
(* come between the two, but then nobody waits for the task's run.         *)
Stopping(r) == run[r].cancel \/ run[r].status \in Ended
CancelSeen(t) ==
  /\ task[t] = "cancelled" /\ opAt[t] # "notifying"
  /\ mapping[t] # 0 /\ at["bridge"][t] # "checking"
  /\ bound[t] # 0 \/ t \in recon.tasks
  => Stopping(mapping[t])
TaskFine(t) == Mapped(t) /\ Told(t) /\ Asked(t) /\ CancelSeen(t)
TasksFine == \A t \in Tasks : TaskFine(t)

RunsPart == RunsFine /\ Announced /\ OneOpen /\ OneOpenRunPerPlan
ChainPart == EntriesFit /\ InSequence
MInv == IInv /\ RunsPart /\ ChainPart /\ TasksFine

(***************************************************************************)
(* Steps of the runs and of the chain.                                     *)
(***************************************************************************)
(* A run only opens and ends, and a snapshot is the run as it is.          *)
Grows(r) ==
  /\ run[r].status # "none" =>
       /\ run'[r].status # "none" /\ run'[r].plan = run[r].plan
       /\ run[r].cancel => run'[r].cancel
  /\ run[r].status \in Ended => run'[r].status = run[r].status
  /\ run'[r].status = "open" => run[r].status \in {"none", "open"}
Saves(r) ==
  \/ snapshot'[r] = snapshot[r]
  \/ snapshot'[r] = run[r] /\ run'[r] = run[r]
Forward == \A r \in Runs : Grows(r) /\ Saves(r)

LEMMA ForwardFacts ==
  ASSUME TypeOK, RunsFine, Forward, NEW r \in Runs
  PROVE  /\ Recorded(r) => Recorded(r)'
         /\ snapshot[r].status = "succeeded" => snapshot'[r].status = "succeeded"
         /\ run[r].status # "none" => run'[r].status # "none"
         /\ run[r].status \in Ended => run'[r].status \in Ended
         /\ run[r].status # "none" /\ Stopping(r) => Stopping(r)'
<1>1. RunFine(r) /\ Grows(r) /\ Saves(r)
  BY Zenon DEF RunsFine, Forward
<1>2. snapshot'[r] = snapshot[r] \/ snapshot'[r] = run[r]
  BY <1>1 DEF Saves
<1>3. Recorded(r) => Recorded(r)'
  BY <1>1, <1>2 DEF RunFine, Recorded
<1>4. snapshot[r].status = "succeeded" => snapshot'[r].status = "succeeded"
  BY <1>1, <1>2 DEF RunFine, Ended
<1>. QED BY <1>1, <1>3, <1>4 DEF Grows, Stopping

(* The chain loses its first k entries and gains at most one.              *)
Goes(k) ==
  /\ Len(chain') \in {Len(chain) - k, Len(chain) - k + 1}
  /\ \A i \in 1..(Len(chain) - k) : chain'[i] = chain[i + k]
Gains(k) == Len(chain') = Len(chain) - k + 1
Last == chain[Len(chain)]

LEMMA GoesKeep == ASSUME TypeOK, chain' = chain PROVE Goes(0) /\ ~Gains(0)
BY DEF TypeOK, Goes, Gains

LEMMA GoesAppend ==
  ASSUME TypeOK, NEW e \in Entries, chain' = Append(chain, e)
  PROVE  Goes(0) /\ Gains(0) /\ Last' = e
BY DEF TypeOK, Goes, Gains, Last

LEMMA GoesTail ==
  ASSUME TypeOK, chain # <<>>, chain' = Tail(chain)
  PROVE  Goes(1) /\ ~Gains(1)
BY DEF TypeOK, Goes, Gains

LEMMA GoesTurn ==
  ASSUME TypeOK, NEW e \in Entries, chain # <<>>, chain' = Append(Tail(chain), e)
  PROVE  Goes(1) /\ Gains(1) /\ Last' = e
BY DEF TypeOK, Goes, Gains, Last

(* The entries that stay.                                                  *)
Stays(k, e) == \E i \in (k + 1)..Len(chain) : chain[i] = e

LEMMA StaysFacts ==
  ASSUME MInv, NEW k \in {0, 1}, k <= Len(chain), NEW e, Stays(k, e)
  PROVE  /\ e \in Entries /\ Fits(e)
         /\ k = 1 => Before(Head(chain), e)
<1>1. PICK i \in (k + 1)..Len(chain) : chain[i] = e
  BY DEF Stays
<1>2. chain \in Seq(Entries) /\ EntriesFit /\ InSequence
  BY DEF MInv, IInv, TypeOK, ChainPart
<1>3. i \in 1..Len(chain)
  BY <1>1, <1>2
<1>4. e \in Entries /\ Fits(e)
  BY <1>1, <1>2, <1>3 DEF EntriesFit
<1>5. ASSUME k = 1 PROVE Before(Head(chain), e)
  <2>1. 1 \in 1..Len(chain) /\ i \in (1 + 1)..Len(chain) /\ Head(chain) = chain[1]
    BY <1>1, <1>2, <1>3, <1>5
  <2>. QED BY <1>1, <1>2, <2>1 DEF InSequence
<1>. QED BY <1>4, <1>5

LEMMA ChainSteps ==
  ASSUME MInv, TypeOK', NEW k \in {0, 1}, k <= Len(chain), Goes(k),
         \A e \in Entries : Stays(k, e) => Fits(e)',
         \A d, e \in Entries : Fits(d) /\ Fits(e) /\ Before(d, e) => Before(d, e)',
         Gains(k) => Fits(Last)' /\ \A d \in Entries : Stays(k, d) => Before(d, Last)'
  PROVE  ChainPart'
<1> DEFINE n == Len(chain) - k
<1>1. /\ chain \in Seq(Entries) /\ chain' \in Seq(Entries)
      /\ EntriesFit /\ InSequence
  BY DEF MInv, IInv, TypeOK, ChainPart
<1>2. n \in Nat /\ Len(chain) \in Nat /\ Len(chain') \in {n, n + 1}
  BY <1>1 DEF Goes
<1>3. ASSUME NEW i \in 1..n
      PROVE  /\ i + k \in 1..Len(chain) /\ i + k \in (k + 1)..Len(chain)
             /\ chain'[i] = chain[i + k] /\ chain[i + k] \in Entries
             /\ Stays(k, chain[i + k]) /\ Fits(chain[i + k])
  <2>1. /\ i + k \in 1..Len(chain) /\ i + k \in (k + 1)..Len(chain)
        /\ chain'[i] = chain[i + k]
    BY <1>2 DEF Goes
  <2>. QED BY <1>1, <2>1 DEF Stays, EntriesFit
<1>4. ASSUME Len(chain') = n + 1
      PROVE  Gains(k) /\ chain'[n + 1] = Last'
  BY <1>2, <1>4 DEF Gains, Last
<1>5. \A i \in 1..Len(chain') : i \in 1..n \/ (i = n + 1 /\ Len(chain') = n + 1)
  BY <1>2
<1>6. ASSUME NEW i \in 1..Len(chain') PROVE Fits(chain[i])'
  <2>1. CASE i \in 1..n
    <3>1. \A e \in Entries : e = chain[i + k] => Fits(e)'
      BY <1>3, <2>1
    <3>2. PICK e \in Entries : e = chain[i + k]
      BY <1>3, <2>1
    <3>3. Fits(e)' /\ chain'[i] = e
      BY <1>3, <2>1, <3>1, <3>2
    <3>. QED BY <3>3 DEF Fits
  <2>2. CASE i = n + 1 /\ Len(chain') = n + 1
    BY <1>4, <2>2 DEF Fits
  <2>. QED BY <1>5, <2>1, <2>2
<1>7. ASSUME NEW i \in 1..Len(chain'), NEW j \in (i + 1)..Len(chain')
      PROVE  Before(chain[i], chain[j])'
  <2>1. i \in 1..n /\ j \in 1..Len(chain')
    BY <1>2, <1>5
  <2>2. PICK d \in Entries : d = chain[i + k]
    BY <1>3, <2>1
  <2>3. chain'[i] = d /\ Stays(k, d) /\ Fits(d)
    BY <1>3, <2>1, <2>2
  <2>4. CASE j \in 1..n
    <3>1. PICK e \in Entries : e = chain[j + k]
      BY <1>3, <2>4
    <3>2. chain'[j] = e /\ Fits(e)
      BY <1>3, <2>4, <3>1
    <3>3. i + k \in 1..Len(chain) /\ j + k \in (i + k + 1)..Len(chain)
      BY <1>3, <2>1, <2>4
    <3>4. Before(d, e)
      BY <1>1, <2>2, <3>1, <3>3 DEF InSequence
    <3>5. Before(d, e)'
      BY <2>3, <3>2, <3>4
    <3>. QED BY <2>3, <3>2, <3>5 DEF Before
  <2>5. CASE j = n + 1 /\ Len(chain') = n + 1
    <3>1. Before(d, Last)' /\ chain'[j] = Last'
      BY <1>4, <2>3, <2>5
    <3>. QED BY <2>3, <3>1 DEF Before
  <2>. QED BY <1>5, <2>1, <2>4, <2>5
<1>. QED BY <1>6, <1>7 DEF ChainPart, EntriesFit, InSequence

LEMMA EntryFields ==
  ASSUME NEW e \in Entries
  PROVE  e.t \in Tasks /\ e.r \in 0..MaxRuns /\ (e.r # 0 => e.r \in Runs)
BY DEF Entries

LEMMA BeforeKept ==
  ASSUME Forward, NEW d \in Entries, NEW e \in Entries,
         Fits(d), Fits(e), Before(d, e)
  PROVE  Before(d, e)'
<1>1. SUFFICES ASSUME d.op \in {"created", "control"}, e.op = "ended", d.r # e.r,
                      run'[d.r].status = "open", run'[d.r].plan = run'[e.r].plan
               PROVE  FALSE
  BY Zenon DEF Before
<1>2. d.r \in Runs /\ e.r \in Runs /\ run[d.r].status # "none" /\ run[e.r].status # "none"
  BY <1>1, EntryFields DEF Fits
<1>3. Grows(d.r) /\ Grows(e.r)
  BY <1>2, Zenon DEF Forward
<1>4. run[d.r].status = "open" /\ run[d.r].plan = run[e.r].plan
  BY <1>1, <1>2, <1>3 DEF Grows
<1>. QED BY <1>1, <1>4, Zenon DEF Before

LEMMA FitsKept ==
  ASSUME Forward, NEW e \in Entries, Fits(e),
         e.op \in {"created", "map"} =>
           bound'[e.t] = bound[e.t] /\ at'["bridge"][e.t] = at["bridge"][e.t],
         e.op = "created" => engine'[e.r] = engine[e.r]
  PROVE  Fits(e)'
<1>1. ASSUME e.op \in {"created", "map", "control", "ended"}
      PROVE  e.r # 0 /\ run'[e.r].status # "none"
  <2>1. e.r \in Runs /\ run[e.r].status # "none"
    BY <1>1, EntryFields DEF Fits
  <2>2. Grows(e.r) /\ e.r # 0
    BY <1>1, <2>1, Zenon DEF Forward, Fits
  <2>. QED BY <2>1, <2>2 DEF Grows
<1>2. ASSUME e.op = "ended" PROVE run'[e.r].status \in Ended
  <2>1. e.r \in Runs /\ run[e.r].status \in Ended
    BY <1>2, EntryFields DEF Fits
  <2>2. Grows(e.r)
    BY <2>1, Zenon DEF Forward
  <2>. QED BY <2>1, <2>2 DEF Grows
<1>. QED BY <1>1, <1>2, Zenon DEF Fits

LEMMA InChainKept ==
  ASSUME TypeOK, NEW k \in {0, 1}, k <= Len(chain), Goes(k), NEW op, NEW r,
         InChain(op, r), k = 1 => ~(Head(chain).op = op /\ Head(chain).r = r)
  PROVE  InChain(op, r)'
<1>1. PICK i \in 1..Len(chain) : chain[i].op = op /\ chain[i].r = r
  BY DEF InChain
<1>2. chain \in Seq(Entries) /\ chain' = chain'
  BY DEF TypeOK
<1>3. i \in (k + 1)..Len(chain)
  BY <1>1, <1>2
<1>4. i - k \in 1..(Len(chain) - k) /\ (i - k) + k = i
  BY <1>2, <1>3
<1>5. chain'[i - k] = chain[i] /\ i - k \in 1..Len(chain')
  BY <1>2, <1>4 DEF Goes
<1>. QED BY <1>1, <1>5 DEF InChain

LEMMA InChainGained ==
  ASSUME TypeOK', TypeOK, NEW k \in {0, 1}, k <= Len(chain), Gains(k)
  PROVE  InChain(Last.op, Last.r)'
<1>1. chain \in Seq(Entries) /\ chain' \in Seq(Entries)
  BY DEF TypeOK
<1>2. Len(chain') \in 1..Len(chain')
  BY <1>1 DEF Gains
<1>. QED BY <1>2, Zenon DEF InChain, Last

(* A step that changes no run.                                             *)
LEMMA RunsSame ==
  ASSUME MInv, UNCHANGED <<run, engine, snapshot>>,
         \A op \in {"created", "ended"}, r \in Runs : InChain(op, r) => InChain(op, r)'
  PROVE  RunsPart' /\ Forward
<1>1. RunsFine'
  BY Zenon DEF MInv, RunsPart, RunsFine, RunFine, Recorded
<1>2. Announced'
  BY Zenon DEF MInv, RunsPart, Announced, Recorded
<1>3. OneOpen' /\ OneOpenRunPerPlan'
  BY Zenon DEF MInv, RunsPart, OneOpen, OneOpenRunPerPlan
<1>4. Forward
  BY DEF Forward, Grows, Saves
<1>. QED BY <1>1, <1>2, <1>3, <1>4, Zenon DEF RunsPart

LEMMA CancelRuns ==
  ASSUME MInv, TypeOK', NEW t \in Tasks, NEW r \in 0..MaxRuns, Cancellable(r),
         NEW who \in Waiters \cup {"op"}, CancelRun(t, r, who),
         engine' = engine, snapshot' = snapshot
  PROVE  RunsPart' /\ Forward /\ run'[r].cancel
<1>1. r \in Runs /\ run[r].status = "open"
  BY DEF Cancellable
<1>2. TypeOK /\ RunsPart
  BY DEF MInv, IInv
<1>3. /\ \A q \in Runs : /\ run'[q].status = run[q].status /\ run'[q].plan = run[q].plan
                         /\ run[q].cancel => run'[q].cancel
      /\ run'[r].cancel
  <2>1. /\ run' = [run EXCEPT ![r] = [run[r] EXCEPT !.cancel = TRUE]]
        /\ run \in [Runs -> RunRecords] /\ run[r] \in RunRecords
    BY <1>1, <1>2 DEF CancelRun, TypeOK
  <2>2. \A q \in Runs : q # r => run'[q] = run[q]
    BY <2>1
  <2>3. run'[r] = [run[r] EXCEPT !.cancel = TRUE]
    BY <1>1, <2>1
  <2>4. /\ run'[r].status = run[r].status /\ run'[r].plan = run[r].plan
        /\ run'[r].cancel
    BY <2>1, <2>3 DEF RunRecords
  <2>. QED BY <2>2, <2>4
<1>4. \A q \in Runs, op \in {"created", "ended"} : InChain(op, q) => InChain(op, q)'
  <2>1. Entry("control", t, r, who) \in Entries
    BY EntryType
  <2>2. Goes(0)
    BY <1>2, <2>1, GoesAppend DEF CancelRun
  <2>3. 0 <= Len(chain)
    BY <1>2 DEF TypeOK
  <2>. QED BY <1>2, <2>2, <2>3, InChainKept
<1>5. RunsFine'
  BY <1>2, <1>3 DEF RunsPart, RunsFine, RunFine, Recorded
<1>6. Announced'
  BY <1>2, <1>3, <1>4 DEF RunsPart, Announced, Recorded
<1>7. OneOpen' /\ OneOpenRunPerPlan'
  BY <1>2, <1>3 DEF RunsPart, OneOpen, OneOpenRunPerPlan
<1>8. Forward
  BY <1>3 DEF Forward, Grows, Saves
<1>. QED BY <1>3, <1>5, <1>6, <1>7, <1>8, Zenon DEF RunsPart

LEMMA CreateRuns ==
  ASSUME MInv, TypeOK', NEW t \in Tasks, NEW r \in Runs,
         Existing(PlanOf[t]) = {}, run[r].status = "none",
         run' = [run EXCEPT ![r] = [status |-> "open", cancel |-> FALSE, plan |-> PlanOf[t]]],
         engine' = [engine EXCEPT ![r] = "recording"],
         chain' = Append(chain, Entry("created", t, r, "bridge")),
         snapshot' = snapshot
  PROVE  RunsPart' /\ Forward
<1>1. TypeOK /\ RunsPart
  BY DEF MInv, IInv
<1>2. /\ run'[r].status = "open" /\ run'[r].plan = PlanOf[t] /\ engine'[r] = "recording"
      /\ \A q \in Runs : q # r => run'[q] = run[q] /\ engine'[q] = engine[q]
  BY <1>1 DEF TypeOK
<1>3. /\ ~Recorded(r) /\ RunFine(r)
  BY <1>1, Zenon DEF RunsPart, RunsFine, RunFine
<1>4. InChain("created", r)' /\ \A q \in Runs, op \in {"created", "ended"} :
        InChain(op, q) => InChain(op, q)'
  <2>1. Entry("created", t, r, "bridge") \in Entries
    BY EntryType DEF Waiters
  <2>2. Goes(0) /\ Gains(0) /\ Last' = Entry("created", t, r, "bridge")
    BY <1>1, <2>1, GoesAppend
  <2>3. 0 <= Len(chain)
    BY <1>1 DEF TypeOK
  <2>4. InChain(Last.op, Last.r)' 
    BY <1>1, <2>2, <2>3, InChainGained
  <2>5. InChain("created", r)'
    BY <2>2, <2>4 DEF Entry, InChain
  <2>. QED BY <1>1, <2>2, <2>3, <2>5, InChainKept
<1>5. RunsFine'
  <2>1. RunFine(r)'
    BY <1>2, <1>3 DEF RunFine, Recorded, Ended
  <2>2. \A q \in Runs : q # r => RunFine(q)'
    BY <1>1, <1>2 DEF RunsPart, RunsFine, RunFine, Recorded
  <2>. QED BY <2>1, <2>2 DEF RunsFine
<1>6. Announced'
  BY <1>1, <1>2, <1>4 DEF RunsPart, Announced, Recorded
<1>7. OneOpen'
  <2>1. \A q \in Runs : ~(run[q].status = "open" /\ run[q].plan = PlanOf[t])
    BY DEF Existing
  <2>2. SUFFICES ASSUME NEW p \in Runs, NEW q \in Runs,
                        run'[p].status = "open", run'[q].status = "open",
                        run'[p].plan = run'[q].plan
                 PROVE  p = q
    BY DEF OneOpen
  <2>. QED BY <1>1, <1>2, <2>1, <2>2 DEF RunsPart, OneOpen
<1>8. OneOpenRunPerPlan'
  BY <1>1, Zenon DEF RunsPart, OneOpenRunPerPlan
<1>9. Forward
  <2>1. Grows(r)
    BY <1>2 DEF Grows, Ended
  <2>2. \A q \in Runs : q # r => Grows(q)
    BY <1>2 DEF Grows
  <2>. QED BY <2>1, <2>2, Zenon DEF Forward, Saves
<1>. QED BY <1>5, <1>6, <1>7, <1>8, <1>9, Zenon DEF RunsPart

LEMMA EndRuns ==
  ASSUME MInv, TypeOK', NEW r \in Runs, RunEnds(r)
  PROVE  RunsPart' /\ Forward /\ run[r].status = "open" /\ run'[r].status \in Ended
<1>1. TypeOK /\ RunsPart
  BY DEF MInv, IInv
<1>2. PICK status \in {"succeeded", "failed", "cancelled"} :
        run' = [run EXCEPT ![r].status = status]
  BY DEF RunEnds
<1>3. /\ engine[r] = "running" /\ engine' = [engine EXCEPT ![r] = "ending"]
      /\ chain' = Append(chain, Entry("ended", AnyTask, r, "op"))
      /\ snapshot' = snapshot
  BY DEF RunEnds, diskVars
<1>4. /\ run'[r].status \in Ended /\ run'[r].plan = run[r].plan
      /\ run'[r].cancel = run[r].cancel /\ engine'[r] = "ending"
      /\ \A q \in Runs : q # r => run'[q] = run[q] /\ engine'[q] = engine[q]
  BY <1>1, <1>2, <1>3 DEF TypeOK, RunRecords, Ended
<1>5. RunFine(r) /\ run[r].status = "open"
  BY <1>1, <1>3 DEF RunsPart, RunsFine, RunFine
<1>6. InChain("ended", r)' /\ \A q \in Runs, op \in {"created", "ended"} :
        InChain(op, q) => InChain(op, q)'
  <2>1. Entry("ended", AnyTask, r, "op") \in Entries
    BY EntryType DEF AnyTask
  <2>2. Goes(0) /\ Gains(0) /\ Last' = Entry("ended", AnyTask, r, "op")
    BY <1>1, <1>3, <2>1, GoesAppend
  <2>3. 0 <= Len(chain)
    BY <1>1 DEF TypeOK
  <2>4. InChain(Last.op, Last.r)'
    BY <1>1, <2>2, <2>3, InChainGained
  <2>5. InChain("ended", r)'
    BY <2>2, <2>4 DEF Entry, InChain
  <2>. QED BY <1>1, <2>2, <2>3, <2>5, InChainKept
<1>7. RunsFine'
  <2>1. RunFine(r)'
    BY <1>3, <1>4, <1>5 DEF RunFine, Recorded, Ended
  <2>2. \A q \in Runs : q # r => RunFine(q)'
    BY <1>1, <1>3, <1>4 DEF RunsPart, RunsFine, RunFine, Recorded
  <2>. QED BY <2>1, <2>2 DEF RunsFine
<1>8. Announced'
  BY <1>1, <1>3, <1>4, <1>5, <1>6 DEF RunsPart, Announced, Recorded
<1>9. OneOpen'
  <2>1. "open" \notin Ended
    BY DEF Ended
  <2>. QED BY <1>1, <1>4, <2>1 DEF RunsPart, OneOpen
<1>10. OneOpenRunPerPlan'
  BY <1>1, <1>3, Zenon DEF RunsPart, OneOpenRunPerPlan
<1>11. Forward
  <2>1. Grows(r)
    BY <1>4, <1>5 DEF Grows, Ended
  <2>2. \A q \in Runs : q # r => Grows(q)
    BY <1>4 DEF Grows
  <2>. QED BY <1>3, <2>1, <2>2, Zenon DEF Forward, Saves
<1>. QED BY <1>4, <1>5, <1>7, <1>8, <1>9, <1>10, <1>11, Zenon DEF RunsPart

(* A write of a run: its snapshot becomes the run as it is now.            *)
LEMMA SaveRuns ==
  ASSUME MInv, TypeOK', NEW h, chain # <<>>, h = Head(chain), Goes(1),
         h.op \in {"created", "control", "ended"},
         run' = run, snapshot' = [snapshot EXCEPT ![h.r] = run[h.r]],
         \/ engine' = engine
         \/ h.op = "created" /\ engine' = [engine EXCEPT ![h.r] = "running"]
         \/ h.op = "ended" /\ engine' = [engine EXCEPT ![h.r] = "settled"]
  PROVE  RunsPart' /\ Forward
<1> DEFINE r == h.r
<1>1. TypeOK /\ RunsPart /\ ChainPart /\ chain \in Seq(Entries)
  BY DEF MInv, IInv, TypeOK
<1>2. 1 \in 1..Len(chain) /\ h = chain[1] /\ 1 <= Len(chain) /\ h \in Entries
  BY <1>1
<1>3. Fits(h)
  BY <1>1, <1>2 DEF ChainPart, EntriesFit
<1>4. r \in Runs /\ run[r].status # "none"
  BY <1>2, <1>3, EntryFields DEF Fits
<1>5. /\ snapshot'[r] = run[r]
      /\ \A q \in Runs : q # r => snapshot'[q] = snapshot[q] /\ engine'[q] = engine[q]
      /\ engine'[r] = engine[r] \/ (h.op = "created" /\ engine'[r] = "running")
         \/ (h.op = "ended" /\ engine'[r] = "settled")
  BY <1>1, <1>4, SMTT(40) DEF TypeOK
<1>6. h.op = "created" => run[r].status = "open"
  BY <1>1, <1>3, <1>4 DEF Fits, RunsPart, RunsFine, RunFine
<1>7. RunsFine'
  <2>1. RunFine(r)'
    BY <1>1, <1>3, <1>4, <1>5, <1>6 DEF RunFine, RunsPart, RunsFine, Recorded, Fits
  <2>2. \A q \in Runs : q # r => RunFine(q)'
    BY <1>1, <1>5 DEF RunsPart, RunsFine, RunFine, Recorded
  <2>. QED BY <2>1, <2>2 DEF RunsFine
<1>8. \A q \in Runs, op \in {"created", "ended"} :
        q # r /\ InChain(op, q) => InChain(op, q)'
  BY <1>1, <1>2, InChainKept
<1>9. Announced'
  BY <1>1, <1>4, <1>5, <1>8 DEF RunsPart, Announced, Recorded
<1>10. OneOpen'
  BY <1>1 DEF RunsPart, OneOpen
<1>11. ASSUME NEW q \in Runs, q # r, snapshot[q].status = "open",
              run[r].status = "open", snapshot[q].plan = run[r].plan
       PROVE  FALSE
  <2>1. run[q].plan = run[r].plan
    BY <1>1, <1>11 DEF RunsPart, RunsFine, RunFine, Recorded
  <2>2. run[q].status # "open"
    BY <1>1, <1>4, <1>11, <2>1 DEF RunsPart, OneOpen
  <2>3. PICK j \in 1..Len(chain) : chain[j].op = "ended" /\ chain[j].r = q
    BY <1>1, <1>11, <2>2 DEF RunsPart, Announced, InChain
  <2>4. j \in (1 + 1)..Len(chain)
    BY <1>1, <1>2, <1>11, <2>3
  <2>5. Before(h, chain[j])
    BY <1>1, <1>2, <2>4 DEF ChainPart, InSequence
  <2>6. h.op # "ended"
    BY <1>3, <1>11 DEF Fits, Ended
  <2>. QED BY <1>11, <2>1, <2>3, <2>5, <2>6 DEF Before
<1>12. OneOpenRunPerPlan'
  <2>1. SUFFICES ASSUME NEW p \in Runs, NEW q \in Runs,
                        snapshot'[p].status = "open", snapshot'[q].status = "open",
                        snapshot'[p].plan = snapshot'[q].plan
                 PROVE  p = q
    BY DEF OneOpenRunPerPlan
  <2>2. CASE p # r /\ q # r
    BY <1>1, <1>5, <2>1, <2>2 DEF RunsPart, OneOpenRunPerPlan
  <2>3. CASE p = r \/ q = r
    BY <1>5, <1>11, <2>1, <2>3
  <2>. QED BY <2>2, <2>3
<1>13. Forward
  <2>1. \A q \in Runs : Grows(q)
    BY DEF Grows
  <2>2. \A q \in Runs : Saves(q)
    BY <1>5 DEF Saves
  <2>. QED BY <2>1, <2>2 DEF Forward
<1>. QED BY <1>7, <1>9, <1>10, <1>12, <1>13, Zenon DEF RunsPart

(***************************************************************************)
(* Steps of a task.                                                        *)
(***************************************************************************)
MappingKept(t) ==
  /\ mapping'[t] = mapping[t] /\ bound'[t] = bound[t]
  /\ recon'.maps[t] = recon.maps[t]
  /\ t \in recon'.tasks => t \in recon.tasks
WaiterKept(w, t) == at'[w][t] = at[w][t] /\ verdict'[w][t] = verdict[w][t]
(* A cancel that the store no longer passes on has reached the run.        *)
PassedOn(t) ==
  opAt[t] = "notifying" /\ opAt'[t] # "notifying" /\ mapping[t] # 0
    => Stopping(mapping[t])'

LEMMA DoneKept ==
  ASSUME TypeOK, RunsFine, Forward, NEW t \in Tasks, mapping'[t] = mapping[t], Done(t)
  PROVE  Done(t)'
<1>1. mapping[t] \in Runs
  BY DEF TypeOK, Done
<1>. QED BY <1>1, ForwardFacts DEF Done

LEMMA StoppingKept ==
  ASSUME TypeOK, RunsFine, Forward, NEW t \in Tasks, Mapped(t),
         mapping'[t] = mapping[t], mapping[t] # 0, Stopping(mapping[t])
  PROVE  Stopping(mapping[t])'
<1>1. mapping[t] \in Runs /\ Recorded(mapping[t])
  BY DEF TypeOK, Mapped
<1>2. run[mapping[t]].status # "none"
  BY <1>1 DEF RunsFine, RunFine
<1>3. \A r \in Runs : run[r].status # "none" /\ Stopping(r) => Stopping(r)'
  BY ForwardFacts
<1>4. \A r \in Runs : r = mapping[t] => run'[r].cancel \/ run'[r].status \in Ended
  BY <1>1, <1>2, <1>3 DEF Stopping
<1>. QED BY <1>1, <1>4 DEF Stopping

LEMMA MappedKept ==
  ASSUME TypeOK, RunsFine, Forward, NEW t \in Tasks, Mapped(t), MappingKept(t),
         task[t] # "none" => task'[t] # "none",
         at'["bridge"][t] \in {"creating", "starting", "recording", "mapping"}
           => mapping[t] = 0,
         bound[t] # 0 /\ at["bridge"][t] \in {"recording", "mapping"}
           => at'["bridge"][t] \in {"recording", "mapping"},
         at'["bridge"][t] \in {"checking", "waiting"} \/ at'["resumed"][t] = "waiting"
           => at["bridge"][t] \in {"checking", "waiting"} \/ at["resumed"][t] = "waiting"
  PROVE  Mapped(t)'
<1>1. mapping[t] # 0 => mapping[t] \in Runs
  BY DEF TypeOK
<1>2. bound[t] # 0 => bound[t] \in Runs
  BY DEF TypeOK
<1>3. mapping[t] # 0 => snapshot'[mapping[t]].status # "none"
  BY <1>1, ForwardFacts DEF Mapped, Recorded
<1>4. bound[t] # 0 => run'[bound[t]].status # "none"
  BY <1>2, ForwardFacts DEF Mapped
<1>. QED BY <1>3, <1>4 DEF Mapped, MappingKept, Recorded

LEMMA CancelSeenKept ==
  ASSUME TypeOK, RunsFine, Forward, NEW t \in Tasks, Mapped(t), CancelSeen(t),
         MappingKept(t), PassedOn(t),
         task'[t] = "cancelled" => task[t] = "cancelled" \/ opAt'[t] = "notifying",
         at["bridge"][t] = "checking" /\ at'["bridge"][t] # "checking"
           => task'[t] # "cancelled" \/ Stopping(mapping[t])'
  PROVE  CancelSeen(t)'
<1>1. SUFFICES ASSUME task'[t] = "cancelled", opAt'[t] # "notifying", mapping[t] # 0,
                      at'["bridge"][t] # "checking", bound[t] # 0 \/ t \in recon.tasks
               PROVE  Stopping(mapping[t])'
  <2>1. mapping'[t] = mapping[t] /\ bound'[t] = bound[t]
        /\ (t \in recon'.tasks => t \in recon.tasks)
    BY DEF MappingKept
  <2>. QED BY <1>1, <2>1 DEF CancelSeen, Stopping
<1>2. task[t] = "cancelled"
  BY <1>1
<1>3. CASE opAt[t] = "notifying"
  BY <1>1, <1>3, Zenon DEF PassedOn
<1>4. CASE at["bridge"][t] = "checking"
  BY <1>1, <1>4
<1>5. CASE opAt[t] # "notifying" /\ at["bridge"][t] # "checking"
  BY <1>1, <1>2, <1>5, StoppingKept DEF CancelSeen, MappingKept
<1>. QED BY <1>3, <1>4, <1>5

(* A task none of whose waiters or operations moves.                       *)
LEMMA SameTaskFine ==
  ASSUME TypeOK, RunsFine, Forward, NEW t \in Tasks, TaskFine(t), MappingKept(t),
         task'[t] = task[t], ops'[t] = ops[t], PassedOn(t),
         \A w \in Waiters : WaiterKept(w, t)
  PROVE  TaskFine(t)'
<1>1. \A w \in Waiters : at'[w][t] = at[w][t] /\ verdict'[w][t] = verdict[w][t]
  BY DEF WaiterKept
<1>2. "bridge" \in Waiters /\ "resumed" \in Waiters
  BY DEF Waiters
<1>3. Mapped(t)'
  BY <1>1, <1>2, MappedKept DEF TaskFine, Mapped
<1>4. CancelSeen(t)'
  BY <1>1, <1>2, CancelSeenKept DEF TaskFine
<1>5. Told(t)'
  BY <1>1, DoneKept DEF TaskFine, Told, MappingKept
<1>6. Asked(t)'
  BY <1>1 DEF TaskFine, Asked
<1>. QED BY <1>3, <1>4, <1>5, <1>6 DEF TaskFine

(* One waiter of the task moves.                                           *)
LEMMA MovedFine ==
  ASSUME TypeOK, RunsFine, Forward, NEW t \in Tasks, NEW w \in Waiters,
         TaskFine(t), MappingKept(t), PassedOn(t),
         task[t] # "none" => task'[t] # "none",
         task'[t] \in {"completed", "cancelled"} => task'[t] = task[t],
         ops'[t] = ops[t],
         \A v \in Waiters : v # w => WaiterKept(v, t),
         at[w][t] # "stored",
         w = "bridge" /\ at'[w][t] \in {"creating", "starting", "recording", "mapping"}
           => mapping[t] = 0,
         at[w][t] \in {"recording", "mapping"} => at'[w][t] \in {"recording", "mapping"},
         at'[w][t] \in {"checking", "waiting"} => at[w][t] \in {"checking", "waiting"},
         at'[w][t] = "waiting" /\ w = "resumed" => at[w][t] = "waiting",
         at'[w][t] = "storing" /\ verdict'[w][t] = "succeeded" => Done(t),
         at[w][t] = "checking" => task[t] # "cancelled" \/ Stopping(mapping[t])'
  PROVE  TaskFine(t)'
<1>1. \A v \in Waiters : v # w => at'[v][t] = at[v][t] /\ verdict'[v][t] = verdict[v][t]
  BY DEF WaiterKept
<1>2. /\ "bridge" \in Waiters /\ "resumed" \in Waiters /\ "bridge" # "resumed"
      /\ w = "bridge" \/ w = "resumed"
  BY DEF Waiters
<1>3. Mapped(t)'
  BY <1>1, <1>2, MappedKept DEF TaskFine, Mapped
<1>4. CancelSeen(t)'
  BY <1>1, <1>2, CancelSeenKept DEF TaskFine
<1>5. Told(t)'
  BY <1>1, DoneKept DEF TaskFine, Told, MappingKept
<1>6. Asked(t)'
  BY <1>1 DEF TaskFine, Asked
<1>. QED BY <1>3, <1>4, <1>5, <1>6 DEF TaskFine

(* Its first operation is answered.                                        *)
LEMMA AnsweredFine ==
  ASSUME TypeOK, TypeOK', RunsFine, Forward, NEW t \in Tasks, NEW stored \in BOOLEAN,
         TaskFine(t), ops[t] # <<>>, Answered(t, stored),
         mapping' = mapping, bound' = bound,
         task'[t] # "none", task'[t] = "completed" => Done(t),
         PassedOn(t),
         task'[t] = "cancelled" => task[t] = "cancelled" \/ opAt'[t] = "notifying"
  PROVE  TaskFine(t)'
<1> DEFINE who == Head(ops[t]).who
<1>1. /\ ops' = [ops EXCEPT ![t] = Tail(@)]
      /\ at' = IF who \in Waiters
               THEN [at EXCEPT ![who][t] = IF stored THEN "done" ELSE "storing"] ELSE at
      /\ verdict' = IF who \in Waiters /\ ~stored
                    THEN [verdict EXCEPT ![who][t] = "error"] ELSE verdict
      /\ recon' = IF who = "reconcile"
                  THEN [recon EXCEPT !.at = IF stored THEN "next" ELSE "aborted"] ELSE recon
  BY DEF Answered
<1>2. ops[t] \in Seq(Operations) /\ ops'[t] = Tail(ops[t])
  BY <1>1 DEF TypeOK
<1>3. /\ Len(ops[t]) \in Nat /\ 1 \in 1..Len(ops[t]) /\ who = ops[t][1].who
      /\ Len(ops'[t]) = Len(ops[t]) - 1
      /\ \A i \in 1..Len(ops'[t]) : i + 1 \in 1..Len(ops[t]) /\ ops'[t][i] = ops[t][i + 1]
  BY <1>2
<1>4. \A w \in Waiters : w = who => at[w][t] = "stored"
  BY <1>3 DEF TaskFine, Asked
<1>5. /\ \A w \in Waiters : w # who => WaiterKept(w, t)
      /\ \A w \in Waiters : w = who =>
           IF stored THEN at'[w][t] = "done"
           ELSE at'[w][t] = "storing" /\ verdict'[w][t] = "error"
  <2>1. at \in [Waiters -> [Tasks -> WaiterPc]] /\ verdict \in [Waiters -> [Tasks -> Results]]
    BY DEF TypeOK
  <2>2. CASE who \in Waiters
    BY <1>1, <2>1, <2>2 DEF WaiterKept
  <2>3. CASE who \notin Waiters
    BY <1>1, <2>3 DEF WaiterKept
  <2>. QED BY <2>2, <2>3
<1>6. MappingKept(t)
  <2>1. recon'.maps = recon.maps /\ recon'.tasks = recon.tasks
    BY <1>1 DEF TypeOK
  <2>. QED BY <2>1 DEF MappingKept
<1> HIDE DEF who
<1>7. \A w \in Waiters :
        \/ at'[w][t] = at[w][t]
        \/ at[w][t] = "stored" /\ at'[w][t] \in {"done", "storing"}
  BY <1>4, <1>5 DEF WaiterKept
<1>8. "bridge" \in Waiters /\ "resumed" \in Waiters
  BY DEF Waiters
<1>9. Mapped(t)'
  BY <1>6, <1>7, <1>8, MappedKept DEF TaskFine, Mapped
<1>10. CancelSeen(t)'
  BY <1>6, <1>7, <1>8, CancelSeenKept DEF TaskFine
<1>11. Told(t)'
  <2>1. Done(t) => Done(t)'
    BY DoneKept
  <2>2. \A i \in 1..Len(ops'[t]) : ops'[t][i].status = "completed" => Done(t)
    BY <1>3 DEF TaskFine, Told
  <2>3. \A w \in Waiters : at'[w][t] = "storing" /\ verdict'[w][t] = "succeeded" => Done(t)
    BY <1>5 DEF TaskFine, Told, WaiterKept
  <2>. QED BY <2>1, <2>2, <2>3 DEF Told
<1>12. Asked(t)'
  <2>1. ASSUME NEW i \in 1..Len(ops'[t]), NEW w \in Waiters, ops'[t][i].who = w
        PROVE  at'[w][t] = "stored"
    <3>1. i + 1 \in 1..Len(ops[t]) /\ ops[t][i + 1].who = w /\ i + 1 # 1
      BY <1>3, <2>1
    <3>2. w # who
      BY <1>3, <3>1 DEF TaskFine, Asked
    <3>. QED BY <1>5, <3>1, <3>2 DEF TaskFine, Asked, WaiterKept
  <2>2. ASSUME NEW i \in 1..Len(ops'[t]), NEW j \in 1..Len(ops'[t]),
               ops'[t][i].who = ops'[t][j].who, ops'[t][i].who \in Waiters
        PROVE  i = j
    <3>1. /\ i + 1 \in 1..Len(ops[t]) /\ j + 1 \in 1..Len(ops[t])
          /\ ops[t][i + 1].who = ops[t][j + 1].who /\ ops[t][i + 1].who \in Waiters
      BY <1>3, <2>2
    <3>2. i + 1 = j + 1
      BY <3>1 DEF TaskFine, Asked
    <3>. QED BY <1>3, <3>2
  <2>. QED BY <2>1, <2>2 DEF Asked
<1>. QED BY <1>9, <1>10, <1>11, <1>12 DEF TaskFine

(* An operation is queued for it.                                          *)
LEMMA QueuedFine ==
  ASSUME TypeOK, RunsFine, Forward, NEW t \in Tasks, NEW op \in Operations,
         TaskFine(t), MappingKept(t), ops'[t] = Append(ops[t], op),
         task'[t] = task[t], opAt'[t] = opAt[t],
         op.status = "completed" => Done(t),
         \A w \in Waiters :
           IF op.who = w THEN at[w][t] = "storing" /\ at'[w][t] = "stored"
           ELSE WaiterKept(w, t)
  PROVE  TaskFine(t)'
<1>1. /\ ops[t] \in Seq(Operations) /\ Len(ops[t]) \in Nat
      /\ Len(ops'[t]) = Len(ops[t]) + 1 /\ ops'[t][Len(ops[t]) + 1] = op
      /\ \A i \in 1..Len(ops[t]) : ops'[t][i] = ops[t][i]
      /\ \A i \in 1..Len(ops'[t]) : i \in 1..Len(ops[t]) \/ i = Len(ops[t]) + 1
  BY SMTT(30) DEF TypeOK
<1>2. \A w \in Waiters :
        \/ at'[w][t] = at[w][t] /\ verdict'[w][t] = verdict[w][t] /\ op.who # w
        \/ at[w][t] = "storing" /\ at'[w][t] = "stored" /\ op.who = w
  BY DEF WaiterKept
<1>3. "bridge" \in Waiters /\ "resumed" \in Waiters
  BY DEF Waiters
<1>4. Mapped(t)'
  BY <1>2, <1>3, MappedKept DEF TaskFine, Mapped
<1>5. CancelSeen(t)'
  BY <1>2, <1>3, CancelSeenKept DEF TaskFine, PassedOn
<1>6. Told(t)'
  <2>1. Done(t) => Done(t)'
    BY DoneKept DEF MappingKept
  <2>2. \A i \in 1..Len(ops'[t]) : ops'[t][i].status = "completed" => Done(t)
    BY <1>1 DEF TaskFine, Told
  <2>3. \A w \in Waiters : at'[w][t] = "storing" /\ verdict'[w][t] = "succeeded" => Done(t)
    BY <1>2 DEF TaskFine, Told
  <2>. QED BY <2>1, <2>2, <2>3 DEF TaskFine, Told
<1>7. Asked(t)'
  <2>1. ASSUME NEW i \in 1..Len(ops'[t]), NEW w \in Waiters, ops'[t][i].who = w
        PROVE  at'[w][t] = "stored"
    <3>1. CASE i \in 1..Len(ops[t])
      BY <1>1, <1>2, <2>1, <3>1 DEF TaskFine, Asked
    <3>2. CASE i = Len(ops[t]) + 1
      BY <1>1, <1>2, <2>1, <3>2
    <3>. QED BY <1>1, <3>1, <3>2
  <2>2. ASSUME op.who \in Waiters, NEW i \in 1..Len(ops[t]) PROVE ops[t][i].who # op.who
    BY <1>2, <2>2 DEF TaskFine, Asked
  <2>3. ASSUME NEW i \in 1..Len(ops'[t]), NEW j \in 1..Len(ops'[t]),
               ops'[t][i].who = ops'[t][j].who, ops'[t][i].who \in Waiters
        PROVE  i = j
    <3>1. CASE i \in 1..Len(ops[t]) /\ j \in 1..Len(ops[t])
      BY <1>1, <2>3, <3>1 DEF TaskFine, Asked
    <3>2. CASE i = Len(ops[t]) + 1 \/ j = Len(ops[t]) + 1
      BY <1>1, <2>2, <2>3, <3>2
    <3>. QED BY <1>1, <3>1, <3>2
  <2>. QED BY <2>1, <2>3 DEF Asked
<1>. QED BY <1>4, <1>5, <1>6, <1>7 DEF TaskFine

(***************************************************************************)
(* The actions.                                                            *)
(***************************************************************************)
(* No task leaves "recording" or "mapping", where its entries find it.     *)
PlacesKept ==
  \A u \in Tasks : at["bridge"][u] \in {"recording", "mapping"} =>
    at'["bridge"][u] = at["bridge"][u] /\ bound'[u] = bound[u]

LEMMA ChainMoves ==
  ASSUME MInv, TypeOK', Forward, NEW k \in {0, 1}, k <= Len(chain), Goes(k),
         \A e \in Entries : Stays(k, e) /\ e.op \in {"created", "map"} =>
           bound'[e.t] = bound[e.t] /\ at'["bridge"][e.t] = at["bridge"][e.t],
         \A e \in Entries : Stays(k, e) /\ e.op = "created" =>
           engine'[e.r] = engine[e.r],
         Gains(k) => Fits(Last)' /\ \A d \in Entries : Stays(k, d) => Before(d, Last)'
  PROVE  ChainPart'
<1>1. ASSUME NEW e \in Entries, Stays(k, e) PROVE Fits(e)'
  <2>1. Fits(e)
    BY <1>1, StaysFacts
  <2>. QED BY <1>1, <2>1, FitsKept
<1>2. \A d, e \in Entries : Fits(d) /\ Fits(e) /\ Before(d, e) => Before(d, e)'
  BY BeforeKept
<1>. QED BY <1>1, <1>2, ChainSteps, Zenon

LEMMA ChainStill ==
  ASSUME MInv, TypeOK', Forward, PlacesKept, chain' = chain,
         \A e \in Entries : Stays(0, e) /\ e.op = "created" => engine'[e.r] = engine[e.r]
  PROVE  ChainPart'
<1>1. TypeOK
  BY DEF MInv, IInv
<1>2. Goes(0) /\ ~Gains(0) /\ 0 <= Len(chain)
  <2>1. Goes(0) /\ ~Gains(0)
    BY <1>1, GoesKeep
  <2>2. 0 <= Len(chain)
    BY <1>1 DEF TypeOK
  <2>. QED BY <2>1, <2>2
<1>3. ASSUME NEW e \in Entries, Stays(0, e), e.op \in {"created", "map"}
      PROVE  bound'[e.t] = bound[e.t] /\ at'["bridge"][e.t] = at["bridge"][e.t]
  <2>1. Fits(e) /\ e.t \in Tasks
    BY <1>2, <1>3, StaysFacts, EntryFields
  <2>. QED BY <1>3, <2>1 DEF Fits, PlacesKept
<1>. QED BY <1>2, <1>3, ChainMoves, Zenon

LEMMA ChainGrows ==
  ASSUME MInv, TypeOK', Forward, PlacesKept, NEW e \in Entries, chain' = Append(chain, e),
         \A d \in Entries : Stays(0, d) /\ d.op = "created" => engine'[d.r] = engine[d.r],
         Fits(e)', \A d \in Entries : Stays(0, d) => Before(d, e)'
  PROVE  ChainPart'
<1>1. TypeOK
  BY DEF MInv, IInv
<1>2. Goes(0) /\ Last' = e /\ 0 <= Len(chain)
  <2>1. Goes(0) /\ Last' = e
    BY <1>1, GoesAppend
  <2>2. 0 <= Len(chain)
    BY <1>1 DEF TypeOK
  <2>. QED BY <2>1, <2>2
<1>3. ASSUME NEW d \in Entries, Stays(0, d), d.op \in {"created", "map"}
      PROVE  bound'[d.t] = bound[d.t] /\ at'["bridge"][d.t] = at["bridge"][d.t]
  <2>1. Fits(d) /\ d.t \in Tasks
    BY <1>2, <1>3, StaysFacts, EntryFields
  <2>. QED BY <1>3, <2>1 DEF Fits, PlacesKept
<1>4. Fits(Last)' /\ \A d \in Entries : Stays(0, d) => Before(d, Last)'
  BY <1>2 DEF Fits, Before
<1>. QED BY <1>2, <1>3, <1>4, ChainMoves, Zenon

(* A step that changes neither the runs nor the chain.                     *)
LEMMA CalmStep ==
  ASSUME MInv, TypeOK', UNCHANGED <<run, engine, snapshot>>, chain' = chain, PlacesKept
  PROVE  RunsPart' /\ ChainPart' /\ Forward
<1>1. \A op, r : InChain(op, r) => InChain(op, r)'
  BY DEF InChain
<1>2. RunsPart' /\ Forward
  BY <1>1, RunsSame
<1>3. \A e \in Entries : Stays(0, e) /\ e.op = "created" => engine'[e.r] = engine[e.r]
  OBVIOUS
<1>. QED BY <1>2, <1>3, ChainStill

(* An entry of the store is queued: it says nothing of a run.              *)
LEMMA StoreAppends ==
  ASSUME MInv, TypeOK', UNCHANGED <<run, engine, snapshot>>, PlacesKept,
         NEW e \in Entries, chain' = Append(chain, e), e.op \in {"create", "settle"}
  PROVE  RunsPart' /\ ChainPart' /\ Forward
<1>1. TypeOK
  BY DEF MInv, IInv
<1>2. \A op \in {"created", "ended"}, r \in Runs : InChain(op, r) => InChain(op, r)'
  <2>1. Goes(0)
    BY <1>1, GoesAppend
  <2>2. 0 <= Len(chain)
    BY <1>1 DEF TypeOK
  <2>. QED BY <1>1, <2>1, <2>2, InChainKept
<1>3. RunsPart' /\ Forward
  BY <1>2, RunsSame
<1>4. Fits(e)' /\ \A d \in Entries : Before(d, e)'
  BY DEF Fits, Before
<1>. QED BY <1>3, <1>4, ChainGrows

(* The tasks a step does not concern.                                      *)
Aside(u) ==
  /\ MappingKept(u) /\ task'[u] = task[u] /\ ops'[u] = ops[u] /\ opAt'[u] = opAt[u]
  /\ \A w \in Waiters : WaiterKept(w, u)

LEMMA OthersFine ==
  ASSUME MInv, Forward, NEW t \in Tasks, TaskFine(t)',
         \A u \in Tasks : u # t => Aside(u)
  PROVE  TasksFine'
<1>1. TypeOK /\ RunsFine
  BY DEF MInv, IInv, RunsPart
<1>2. ASSUME NEW u \in Tasks, u # t PROVE TaskFine(u)'
  <2>1. TaskFine(u) /\ Aside(u)
    BY <1>2 DEF MInv, TasksFine
  <2>2. PassedOn(u)
    BY <2>1 DEF Aside, PassedOn
  <2>. QED BY <1>1, <2>1, <2>2, SameTaskFine DEF Aside
<1>. QED BY <1>2 DEF TasksFine

LEMMA AllAside ==
  ASSUME MInv, Forward, \A u \in Tasks : Aside(u)
  PROVE  TasksFine'
<1>1. TypeOK /\ RunsFine
  BY DEF MInv, IInv, RunsPart
<1>2. ASSUME NEW u \in Tasks PROVE TaskFine(u)'
  <2>1. TaskFine(u) /\ Aside(u)
    BY DEF MInv, TasksFine
  <2>2. PassedOn(u)
    BY <2>1 DEF Aside, PassedOn
  <2>. QED BY <1>1, <2>1, <2>2, SameTaskFine DEF Aside
<1>. QED BY <1>2 DEF TasksFine

LEMMA Facts ==
  ASSUME MInv, NEW t \in Tasks
  PROVE  /\ TypeOK /\ IInv /\ RunsFine /\ RunsPart /\ ChainPart
         /\ TaskFine(t) /\ Mapped(t) /\ Told(t) /\ Asked(t) /\ CancelSeen(t)
BY DEF MInv, IInv, RunsPart, TasksFine, TaskFine

(* Where a moving waiter leaves the others.                                *)
LEMMA MoveAside ==
  ASSUME TypeOK, NEW w \in Waiters, NEW t \in Tasks, NEW from, NEW to \in WaiterPc,
         Moves(w, t, from, to)
  PROVE  /\ at[w][t] = from /\ at'[w][t] = to
         /\ \A v \in Waiters : v # w => at'[v][t] = at[v][t]
         /\ \A v \in Waiters, u \in Tasks : u # t => at'[v][u] = at[v][u]
         /\ from \notin {"recording", "mapping"} \/ w # "bridge" =>
              \A u \in Tasks : at["bridge"][u] \in {"recording", "mapping"} =>
                at'["bridge"][u] = at["bridge"][u]
<1>1. /\ at[w][t] = from /\ at'[w][t] = to
      /\ \A v \in Waiters, u \in Tasks : v # w \/ u # t => at'[v][u] = at[v][u]
  BY MovesAt
<1>. QED BY <1>1 DEF Waiters

LEMMA EntryIs ==
  ASSUME NEW op \in {"create", "settle", "map", "created", "control", "ended"},
         NEW t \in Tasks, NEW r \in 0..MaxRuns, NEW who \in {"bridge", "resumed", "op"}
  PROVE  /\ Entry(op, t, r, who) \in Entries
         /\ Entry(op, t, r, who).op = op /\ Entry(op, t, r, who).t = t
         /\ Entry(op, t, r, who).r = r /\ Entry(op, t, r, who).who = who
<1>1. who \in Waiters \cup {"op"}
  BY DEF Waiters
<1>2. Entry(op, t, r, who) \in Entries
  BY <1>1, EntryType
<1>. QED BY <1>2 DEF Entry

LEMMA CreateFine ==
  ASSUME MInv, TypeOK', NEW t \in Tasks, CreateTask(t)
  PROVE  RunsPart' /\ ChainPart' /\ TasksFine'
<1>1. /\ task[t] = "none" /\ Moves("bridge", t, "none", "creating")
      /\ chain' = Append(chain, Entry("create", t, 0, "bridge"))
      /\ UNCHANGED <<task, mapping, snapshot, run, engine, ops, opAt, verdict, bound, recon>>
  BY DEF CreateTask, diskVars, runVars, opVars
<1>2. TypeOK /\ RunsFine /\ TaskFine(t) /\ Mapped(t)
  BY Facts
<1>3. /\ at["bridge"][t] = "none" /\ at'["bridge"][t] = "creating"
      /\ \A v \in Waiters : v # "bridge" => at'[v][t] = at[v][t]
      /\ \A v \in Waiters, u \in Tasks : u # t => at'[v][u] = at[v][u]
      /\ \A u \in Tasks : at["bridge"][u] \in {"recording", "mapping"} =>
           at'["bridge"][u] = at["bridge"][u]
  BY <1>1, <1>2, MoveAside DEF Waiters, WaiterPc
<1>4. RunsPart' /\ ChainPart' /\ Forward
  <2>1. /\ Entry("create", t, 0, "bridge") \in Entries
        /\ Entry("create", t, 0, "bridge").op = "create"
    BY EntryIs
  <2>2. PlacesKept
    BY <1>1, <1>3 DEF PlacesKept
  <2>. QED BY <1>1, <2>1, <2>2, StoreAppends
<1>5. \A u \in Tasks : u # t => Aside(u)
  BY <1>1, <1>3 DEF Aside, MappingKept, WaiterKept
<1>6. TaskFine(t)'
  <2>1. MappingKept(t) /\ PassedOn(t) /\ mapping[t] = 0
    BY <1>1, <1>2 DEF MappingKept, PassedOn, Mapped
  <2>2. \A v \in Waiters : v # "bridge" => WaiterKept(v, t)
    BY <1>1, <1>3 DEF WaiterKept
  <2>3. "bridge" \in Waiters
    BY DEF Waiters
  <2>. QED BY <1>1, <1>2, <1>3, <1>4, <2>1, <2>2, <2>3, MovedFine
<1>. QED BY <1>4, <1>5, <1>6, OthersFine

(* The bridge's refusals and checks, the waits and the refused results.    *)
LEMMA WaitFine ==
  ASSUME MInv, TypeOK', NEW t \in Tasks, NEW w \in Waiters,
         NEW from \in WaiterPc, NEW to \in WaiterPc, Moves(w, t, from, to),
         from \notin {"recording", "mapping", "stored"},
         to \notin {"creating", "starting", "recording", "mapping", "checking"},
         to = "waiting" => from = "checking" /\ w = "bridge",
         UNCHANGED <<task, mapping, snapshot, run, engine, ops, opAt, bound, recon, chain>>,
         verdict' = verdict \/ \E res : verdict' = [verdict EXCEPT ![w][t] = res],
         to = "storing" /\ verdict'[w][t] = "succeeded" => Done(t),
         from = "checking" => task[t] # "cancelled" \/ Stopping(mapping[t])
  PROVE  RunsPart' /\ ChainPart' /\ TasksFine'
<1>1. TypeOK /\ RunsFine /\ TaskFine(t)
  BY Facts
<1>2. /\ at[w][t] = from /\ at'[w][t] = to
      /\ \A v \in Waiters : v # w => at'[v][t] = at[v][t]
      /\ \A v \in Waiters, u \in Tasks : u # t => at'[v][u] = at[v][u]
      /\ \A u \in Tasks : at["bridge"][u] \in {"recording", "mapping"} =>
           at'["bridge"][u] = at["bridge"][u]
  BY <1>1, MoveAside
<1>3. \A v \in Waiters, u \in Tasks : v # w \/ u # t => verdict'[v][u] = verdict[v][u]
  BY <1>1 DEF TypeOK
<1>4. RunsPart' /\ ChainPart' /\ Forward
  <2>1. PlacesKept
    BY <1>2 DEF PlacesKept
  <2>. QED BY <2>1, CalmStep
<1>5. \A u \in Tasks : u # t => Aside(u)
  BY <1>2, <1>3 DEF Aside, MappingKept, WaiterKept
<1>6. TaskFine(t)'
  <2>1. MappingKept(t) /\ PassedOn(t)
    BY DEF MappingKept, PassedOn
  <2>2. \A v \in Waiters : v # w => WaiterKept(v, t)
    BY <1>2, <1>3 DEF WaiterKept
  <2>3. from = "checking" => task[t] # "cancelled" \/ Stopping(mapping[t])'
    BY DEF Stopping
  <2>. QED BY <1>1, <1>2, <1>4, <2>1, <2>2, <2>3, MovedFine
<1>. QED BY <1>4, <1>5, <1>6, OthersFine

LEMMA StoppedRun ==
  ASSUME MInv, NEW t \in Tasks, mapping[t] # 0, ~Cancellable(mapping[t])
  PROVE  Stopping(mapping[t])
<1>1. TypeOK /\ RunsFine /\ Mapped(t)
  BY Facts
<1>2. mapping[t] \in Runs /\ Recorded(mapping[t])
  BY <1>1 DEF TypeOK, Mapped
<1>3. run[mapping[t]].status # "none" /\ run[mapping[t]] \in RunRecords
  BY <1>1, <1>2 DEF RunsFine, RunFine, TypeOK
<1>. QED BY <1>3 DEF Cancellable, Stopping, RunRecords

LEMMA RefusalFine ==
  ASSUME MInv, TypeOK', NEW t \in Tasks, StartFails(t) \/ CheckActive(t)
  PROVE  RunsPart' /\ ChainPart' /\ TasksFine'
<1>1. "bridge" \in Waiters
  BY DEF Waiters
<1>2. CASE StartFails(t)
  <2>1. /\ Moves("bridge", t, "starting", "storing")
        /\ verdict' = [verdict EXCEPT !["bridge"][t] = "error"]
        /\ UNCHANGED <<task, mapping, snapshot, run, engine, ops, opAt, bound, recon, chain>>
    BY <1>2 DEF StartFails, diskVars, runVars, opVars
  <2>2. verdict'["bridge"][t] = "error"
    BY <1>1, <2>1, Facts DEF TypeOK
  <2>. QED BY <1>1, <2>1, <2>2, WaitFine, ZenonT(30) DEF WaiterPc
<1>3. CASE CheckActive(t)
  <2>1. /\ Moves("bridge", t, "checking", "waiting") /\ task[t] # "cancelled"
        /\ UNCHANGED <<task, mapping, snapshot, run, engine, ops, opAt, verdict, bound, recon, chain>>
    BY <1>3 DEF CheckActive, diskVars, runVars, opVars
  <2>. QED BY <1>1, <2>1, WaitFine DEF WaiterPc
<1>. QED BY <1>2, <1>3

LEMMA RunOverFine ==
  ASSUME MInv, TypeOK', NEW w \in Waiters, NEW t \in Tasks, RunOver(w, t)
  PROVE  RunsPart' /\ ChainPart' /\ TasksFine'
<1>1. /\ Moves(w, t, "waiting", "storing")
      /\ engine[bound[t]] = "settled"
      /\ verdict' = [verdict EXCEPT ![w][t] = run[bound[t]].status]
      /\ UNCHANGED <<task, mapping, snapshot, run, engine, ops, opAt, bound, recon, chain>>
  BY DEF RunOver, diskVars, runVars, opVars
<1>2. TypeOK /\ RunsFine /\ Mapped(t)
  BY Facts
<1>3. verdict'[w][t] = run[bound[t]].status
  BY <1>1, <1>2 DEF TypeOK
<1>4. bound[t] # 0 /\ mapping[t] = bound[t]
  <2>1. at[w][t] = "waiting" /\ (w = "bridge" \/ w = "resumed")
    BY <1>1 DEF Moves, Waiters
  <2>. QED BY <1>2, <2>1 DEF Mapped
<1>5. bound[t] \in Runs
  <2>1. bound[t] \in 0..MaxRuns
    BY <1>2 DEF TypeOK
  <2>. QED BY <1>4, <2>1
<1>6. snapshot[bound[t]].status = run[bound[t]].status
  BY <1>1, <1>2, <1>5 DEF RunsFine, RunFine
<1>7. verdict'[w][t] = "succeeded" => Done(t)
  BY <1>3, <1>4, <1>6 DEF Done
<1>. QED BY <1>1, <1>7, WaitFine, ZenonT(30) DEF WaiterPc

LEMMA NotActiveFine ==
  ASSUME MInv, TypeOK', NEW w \in Waiters, NEW t \in Tasks, NotActive(w, t)
  PROVE  RunsPart' /\ ChainPart' /\ TasksFine'
<1>1. /\ Moves(w, t, "storing", "done")
      /\ UNCHANGED <<task, mapping, snapshot, run, engine, ops, opAt, verdict, bound, recon, chain>>
  BY DEF NotActive, diskVars, runVars, opVars
<1>. QED BY <1>1, WaitFine DEF WaiterPc

LEMMA CheckFine ==
  ASSUME MInv, TypeOK', NEW t \in Tasks, CheckCancelled(t)
  PROVE  RunsPart' /\ ChainPart' /\ TasksFine'
<1>1. /\ "bridge" \in Waiters /\ {"checking", "cancelling", "done"} \subseteq WaiterPc
      /\ TypeOK /\ RunsFine /\ RunsPart /\ TaskFine(t) /\ Mapped(t)
  BY Facts DEF Waiters, WaiterPc
<1>2. at["bridge"][t] = "checking" /\ bound[t] # 0 /\ mapping[t] = bound[t]
  <2>1. at["bridge"][t] = "checking"
    BY DEF CheckCancelled, Moves
  <2>. QED BY <1>1, <2>1, Zenon DEF Mapped
<1>3. UNCHANGED <<task, mapping, snapshot, engine, ops, opAt, verdict, bound, recon>>
  BY DEF CheckCancelled, diskVars, opVars
<1>4. CASE ~Cancellable(bound[t])
  <2>1. Moves("bridge", t, "checking", "done") /\ UNCHANGED <<run, chain>>
    BY <1>4 DEF CheckCancelled
  <2>2. Stopping(mapping[t])
    BY <1>2, <1>4, StoppedRun
  <2>. QED BY <1>1, <1>3, <2>1, <2>2, WaitFine
<1>5. CASE Cancellable(bound[t])
  <2>1. /\ CancelRun(t, bound[t], "bridge")
        /\ Moves("bridge", t, "checking", "cancelling")
    BY <1>5 DEF CheckCancelled
  <2>2. /\ at'["bridge"][t] = "cancelling"
        /\ \A v \in Waiters : v # "bridge" => at'[v][t] = at[v][t]
        /\ \A v \in Waiters, u \in Tasks : u # t => at'[v][u] = at[v][u]
        /\ \A u \in Tasks : at["bridge"][u] \in {"recording", "mapping"} =>
             at'["bridge"][u] = at["bridge"][u]
    BY <1>1, <2>1, MoveAside
  <2>3. PICK r \in 0..MaxRuns : r = bound[t]
    BY <1>1 DEF TypeOK
  <2>4. RunsPart' /\ Forward /\ run'[r].cancel
    BY <1>1, <1>3, <1>5, <2>1, <2>3, CancelRuns
  <2> DEFINE e == Entry("control", t, r, "bridge")
  <2>5. e \in Entries /\ e.op = "control" /\ e.t = t /\ e.r = r
    BY <2>3, EntryIs
  <2>6. chain' = Append(chain, e)
    BY <2>1, <2>3 DEF CancelRun
  <2> HIDE DEF e
  <2>7. r # 0 /\ r \in Runs /\ run'[r].status # "none"
    <3>1. r # 0 /\ r \in Runs
      BY <1>2, <2>3
    <3>2. run[r].status # "none"
      BY <1>1, <1>2, <2>3 DEF Mapped
    <3>. QED BY <1>1, <2>4, <3>1, <3>2, ForwardFacts
  <2>8. ChainPart'
    <3>1. PlacesKept
      BY <1>3, <2>2 DEF PlacesKept
    <3>2. Fits(e)'
      BY <2>5, <2>7 DEF Fits
    <3>3. \A d \in Entries : Before(d, e)'
      BY <2>5 DEF Before
    <3>4. engine' = engine
      BY <1>3
    <3>. QED BY <2>4, <2>5, <2>6, <3>1, <3>2, <3>3, <3>4, ChainGrows
  <2>9. \A u \in Tasks : u # t => Aside(u)
    BY <1>3, <2>2 DEF Aside, MappingKept, WaiterKept
  <2>10. TaskFine(t)'
    <3>1. MappingKept(t) /\ PassedOn(t)
      BY <1>3 DEF MappingKept, PassedOn
    <3>2. \A v \in Waiters : v # "bridge" => WaiterKept(v, t)
      BY <1>3, <2>2 DEF WaiterKept
    <3>3. Stopping(mapping[t])'
      BY <1>2, <1>3, <2>3, <2>4 DEF Stopping
    <3>. QED BY <1>1, <1>2, <1>3, <2>2, <2>4, <3>1, <3>2, <3>3, MovedFine
  <2>. QED BY <2>4, <2>8, <2>9, <2>10, OthersFine
<1>. QED BY <1>4, <1>5

(* An operation of the store is asked for.                                 *)
LEMMA QueueFine ==
  ASSUME MInv, TypeOK', NEW t \in Tasks, NEW op \in Operations,
         ops' = [ops EXCEPT ![t] = Append(@, op)],
         UNCHANGED <<task, mapping, snapshot, run, engine, opAt, verdict, bound, chain>>,
         recon'.maps = recon.maps, recon'.tasks \subseteq recon.tasks,
         op.status = "completed" => Done(t),
         \/ op.who \in Waiters /\ Moves(op.who, t, "storing", "stored")
         \/ op.who \notin Waiters /\ at' = at
  PROVE  RunsPart' /\ ChainPart' /\ TasksFine'
<1>1. TypeOK /\ RunsFine /\ TaskFine(t)
  BY Facts
<1>2. /\ \A v \in Waiters, u \in Tasks : u # t \/ v # op.who => at'[v][u] = at[v][u]
      /\ op.who \in Waiters => at[op.who][t] = "storing" /\ at'[op.who][t] = "stored"
      /\ \A u \in Tasks : at["bridge"][u] \in {"recording", "mapping"} =>
           at'["bridge"][u] = at["bridge"][u]
  <2>1. CASE op.who \in Waiters /\ Moves(op.who, t, "storing", "stored")
    <3>1. "stored" \in WaiterPc
      BY DEF WaiterPc
    <3>. QED BY <1>1, <2>1, <3>1, MoveAside
  <2>2. CASE op.who \notin Waiters /\ at' = at
    BY <2>2
  <2>. QED BY <2>1, <2>2
<1>3. ops'[t] = Append(ops[t], op) /\ \A u \in Tasks : u # t => ops'[u] = ops[u]
  BY <1>1 DEF TypeOK
<1>4. RunsPart' /\ ChainPart' /\ Forward
  <2>1. PlacesKept
    BY <1>2 DEF PlacesKept
  <2>. QED BY <2>1, CalmStep
<1>5. \A u \in Tasks : u # t => Aside(u)
  BY <1>2, <1>3 DEF Aside, MappingKept, WaiterKept
<1>6. TaskFine(t)'
  <2>1. MappingKept(t)
    BY DEF MappingKept
  <2>2. \A w \in Waiters :
          IF op.who = w THEN at[w][t] = "storing" /\ at'[w][t] = "stored"
          ELSE WaiterKept(w, t)
    BY <1>2 DEF WaiterKept
  <2>3. task'[t] = task[t] /\ opAt'[t] = opAt[t]
    OBVIOUS
  <2>. QED BY <1>1, <1>3, <1>4, <2>1, <2>2, <2>3, QueuedFine
<1>. QED BY <1>4, <1>5, <1>6, OthersFine

LEMMA OperationIs ==
  ASSUME NEW who \in Waiters \cup {"reconcile", "client"},
         NEW status \in TerminalTask, NEW res \in Results
  PROVE  /\ Operation(who, status, res) \in Operations
         /\ Operation(who, status, res).who = who
         /\ Operation(who, status, res).status = status
BY DEF Operation, Operations

LEMMA StoreResultFine ==
  ASSUME MInv, TypeOK', NEW w \in Waiters, NEW t \in Tasks, StoreResult(w, t)
  PROVE  RunsPart' /\ ChainPart' /\ TasksFine'
<1> DEFINE op == Operation(w, StatusOf(verdict[w][t]), verdict[w][t])
<1>1. /\ Moves(w, t, "storing", "stored")
      /\ ops' = [ops EXCEPT ![t] = Append(@, op)]
      /\ UNCHANGED <<task, mapping, snapshot, run, engine, opAt, verdict, bound, chain, recon>>
  BY DEF StoreResult, diskVars, runVars
<1>2. TypeOK /\ Told(t)
  BY Facts
<1>3. StatusOf(verdict[w][t]) \in TerminalTask /\ verdict[w][t] \in Results
  BY <1>2 DEF TypeOK, StatusOf, TerminalTask
<1>4. op \in Operations /\ op.who = w /\ op.status = StatusOf(verdict[w][t])
  BY <1>3, OperationIs
<1>5. op.status = "completed" => Done(t)
  BY <1>1, <1>2, <1>4 DEF StatusOf, Told, Moves
<1> HIDE DEF op
<1>. QED BY <1>1, <1>4, <1>5, QueueFine

LEMMA ClientCancelsFine ==
  ASSUME MInv, TypeOK', NEW t \in Tasks, ClientCancels(t)
  PROVE  RunsPart' /\ ChainPart' /\ TasksFine'
<1> DEFINE op == Operation("client", "cancelled", "none")
<1>1. /\ ops' = [ops EXCEPT ![t] = Append(@, op)]
      /\ UNCHANGED <<task, mapping, snapshot, run, engine, opAt, verdict, bound, chain, recon, at>>
  BY DEF ClientCancels, diskVars, runVars, waiterVars
<1>2. op \in Operations /\ op.who = "client" /\ op.status = "cancelled"
  BY OperationIs DEF TerminalTask, Results
<1>3. "client" \notin Waiters
  BY DEF Waiters
<1> HIDE DEF op
<1>. QED BY <1>1, <1>2, <1>3, QueueFine

LEMMA FailInterruptedFine ==
  ASSUME MInv, TypeOK', NEW t \in Tasks, FailInterrupted(t)
  PROVE  RunsPart' /\ ChainPart' /\ TasksFine'
<1> DEFINE op == Operation("reconcile", "failed", "interrupted")
<1>1. /\ ops' = [ops EXCEPT ![t] = Append(@, op)]
      /\ recon' = [recon EXCEPT !.tasks = @ \ {t}, !.at = "storing"]
      /\ UNCHANGED <<task, mapping, snapshot, run, engine, opAt, verdict, bound, chain, at>>
  BY DEF FailInterrupted, diskVars, runVars, waiterVars
<1>2. op \in Operations /\ op.who = "reconcile" /\ op.status = "failed"
  BY OperationIs DEF TerminalTask, Results
<1>3. "reconcile" \notin Waiters
  BY DEF Waiters
<1>4. recon'.maps = recon.maps /\ recon'.tasks \subseteq recon.tasks
  BY <1>1, Facts DEF TypeOK
<1> HIDE DEF op
<1>. QED BY <1>1, <1>2, <1>3, <1>4, QueueFine

(* Where an answer leaves the others: its waiter stands at "stored".       *)
LEMMA AnsweredAside ==
  ASSUME MInv, NEW t \in Tasks, NEW stored \in BOOLEAN,
         ops[t] # <<>>, Answered(t, stored)
  PROVE  /\ bound' = bound => PlacesKept
         /\ UNCHANGED <<mapping, bound>> => \A u \in Tasks :
              u # t /\ task'[u] = task[u] /\ opAt'[u] = opAt[u] => Aside(u)
<1> DEFINE who == Head(ops[t]).who
<1>1. TypeOK /\ Asked(t)
  BY Facts
<1>2. /\ recon'.tasks = recon.tasks /\ recon'.maps = recon.maps
      /\ \A u \in Tasks : u # t => ops'[u] = ops[u]
      /\ \A w \in Waiters, u \in Tasks : u # t => at'[w][u] = at[w][u]
  <2>1. recon'.maps = recon.maps
    BY <1>1 DEF Answered, TypeOK
  <2>. QED BY <1>1, <2>1, AnsweredAt
<1>3. \A w \in Waiters, u \in Tasks : u # t => verdict'[w][u] = verdict[w][u]
  BY <1>1 DEF Answered, TypeOK
<1>4. \A w \in Waiters : at[w][t] = "stored" \/ at'[w][t] = at[w][t]
  <2>1. ops[t] \in Seq(Operations)
    BY <1>1 DEF TypeOK
  <2>2. 1 \in 1..Len(ops[t]) /\ who = ops[t][1].who
    BY <2>1
  <2>3. \A w \in Waiters : w = who => at[w][t] = "stored"
    BY <1>1, <2>2 DEF Asked
  <2>4. at' = IF who \in Waiters
              THEN [at EXCEPT ![who][t] = IF stored THEN "done" ELSE "storing"] ELSE at
    BY DEF Answered
  <2> HIDE DEF who
  <2>5. at \in [Waiters -> [Tasks -> WaiterPc]]
    BY <1>1 DEF TypeOK
  <2>. QED BY <2>3, <2>4, <2>5
<1>5. \A u \in Tasks : at["bridge"][u] \in {"recording", "mapping"} =>
        at'["bridge"][u] = at["bridge"][u]
  BY <1>2, <1>4 DEF Waiters
<1>6. bound' = bound => PlacesKept
  BY <1>5 DEF PlacesKept
<1>7. UNCHANGED <<mapping, bound>> => \A u \in Tasks :
        u # t /\ task'[u] = task[u] /\ opAt'[u] = opAt[u] => Aside(u)
  BY <1>2, <1>3 DEF Aside, MappingKept, WaiterKept
<1>. QED BY <1>6, <1>7

LEMMA OpRefusedFine ==
  ASSUME MInv, TypeOK', NEW t \in Tasks, OpRefused(t)
  PROVE  RunsPart' /\ ChainPart' /\ TasksFine'
<1>1. /\ ops[t] # <<>> /\ task[t] \in TerminalTask /\ Answered(t, FALSE)
      /\ UNCHANGED <<task, mapping, snapshot, run, engine, chain, opAt, bound>>
  BY DEF OpRefused, Refused, diskVars, runVars
<1>2. TypeOK /\ RunsFine /\ TaskFine(t) /\ Told(t)
  BY Facts
<1>3. FALSE \in BOOLEAN
  OBVIOUS
<1>4. PlacesKept /\ \A u \in Tasks : u # t => Aside(u)
  BY <1>1, <1>3, AnsweredAside
<1>5. RunsPart' /\ ChainPart' /\ Forward
  BY <1>1, <1>4, CalmStep
<1>6. TaskFine(t)'
  <2>1. PassedOn(t) /\ task'[t] # "none" /\ (task'[t] = "completed" => Done(t))
    BY <1>1, <1>2 DEF PassedOn, TerminalTask, Told
  <2>. QED BY <1>1, <1>2, <1>3, <1>5, <2>1, AnsweredFine
<1>. QED BY <1>4, <1>5, <1>6, OthersFine

LEMMA NotifyNothingFine ==
  ASSUME MInv, TypeOK', NEW t \in Tasks, NotifyNothing(t)
  PROVE  RunsPart' /\ ChainPart' /\ TasksFine'
<1>1. /\ opAt[t] = "notifying" /\ opAt' = [opAt EXCEPT ![t] = "idle"]
      /\ ~Cancellable(mapping[t]) /\ Answered(t, TRUE)
      /\ UNCHANGED <<task, mapping, snapshot, run, engine, chain, bound>>
  BY DEF NotifyNothing, diskVars, runVars
<1>2. TypeOK /\ IInv /\ RunsFine /\ TaskFine(t) /\ Told(t)
  BY Facts
<1>3. TRUE \in BOOLEAN /\ ops[t] # <<>> /\ task[t] # "none"
  BY <1>1, <1>2, WaiterKnows
<1>4. \A u \in Tasks : u # t => opAt'[u] = opAt[u]
  BY <1>1, <1>2 DEF TypeOK
<1>5. PlacesKept /\ \A u \in Tasks : u # t => Aside(u)
  BY <1>1, <1>3, <1>4, AnsweredAside
<1>6. RunsPart' /\ ChainPart' /\ Forward
  BY <1>1, <1>5, CalmStep
<1>7. TaskFine(t)'
  <2>1. PassedOn(t)
    <3>1. mapping[t] # 0 => Stopping(mapping[t])
      BY <1>1, StoppedRun
    <3>. QED BY <1>1, <3>1 DEF PassedOn, Stopping
  <2>2. task'[t] # "none" /\ (task'[t] = "completed" => Done(t)) /\ task'[t] = task[t]
    BY <1>1, <1>2, <1>3 DEF Told
  <2>. QED BY <1>1, <1>2, <1>3, <1>6, <2>1, <2>2, AnsweredFine
<1>. QED BY <1>5, <1>6, <1>7, OthersFine

LEMMA OpBeginsFine ==
  ASSUME MInv, TypeOK', NEW t \in Tasks, OpBegins(t)
  PROVE  RunsPart' /\ ChainPart' /\ TasksFine'
<1>1. /\ opAt[t] = "idle" /\ opAt' = [opAt EXCEPT ![t] = "writing"]
      /\ chain' = Append(chain, Entry("settle", t, 0, "op"))
      /\ UNCHANGED <<task, mapping, snapshot, run, engine, ops, at, verdict, bound, recon>>
  BY DEF OpBegins, diskVars, runVars, waiterVars
<1>2. TypeOK /\ RunsFine /\ TaskFine(t)
  BY Facts
<1>3. RunsPart' /\ ChainPart' /\ Forward
  <2>1. Entry("settle", t, 0, "op") \in Entries /\ Entry("settle", t, 0, "op").op = "settle"
    BY EntryIs
  <2>2. PlacesKept
    BY <1>1 DEF PlacesKept
  <2>. QED BY <1>1, <2>1, <2>2, StoreAppends
<1>4. \A u \in Tasks : u # t => Aside(u)
  BY <1>1, <1>2 DEF Aside, MappingKept, WaiterKept, TypeOK
<1>5. TaskFine(t)'
  <2>1. MappingKept(t) /\ PassedOn(t) /\ \A w \in Waiters : WaiterKept(w, t)
    BY <1>1 DEF MappingKept, PassedOn, WaiterKept
  <2>. QED BY <1>1, <1>2, <1>3, <2>1, SameTaskFine
<1>. QED BY <1>3, <1>4, <1>5, OthersFine

LEMMA NotifyRunFine ==
  ASSUME MInv, TypeOK', NEW t \in Tasks, NotifyRun(t)
  PROVE  RunsPart' /\ ChainPart' /\ TasksFine'
<1>1. /\ opAt[t] = "notifying" /\ opAt' = [opAt EXCEPT ![t] = "controlling"]
      /\ Cancellable(mapping[t]) /\ CancelRun(t, mapping[t], "op")
      /\ UNCHANGED <<task, mapping, snapshot, engine, ops, at, verdict, bound, recon>>
  BY DEF NotifyRun, diskVars, waiterVars
<1>2. TypeOK /\ RunsFine /\ TaskFine(t) /\ Mapped(t)
  BY Facts
<1>3. PICK r \in 0..MaxRuns : r = mapping[t]
  BY <1>2 DEF TypeOK
<1>4. r # 0 /\ r \in Runs /\ run[r].status # "none"
  BY <1>1, <1>2, <1>3 DEF Cancellable
<1>5. RunsPart' /\ Forward /\ run'[r].cancel
  BY <1>1, <1>3, CancelRuns
<1> DEFINE e == Entry("control", t, r, "op")
<1>6. e \in Entries /\ e.op = "control" /\ e.t = t /\ e.r = r
  BY <1>3, EntryIs
<1>7. chain' = Append(chain, e)
  BY <1>1, <1>3 DEF CancelRun
<1> HIDE DEF e
<1>8. ChainPart'
  <2>1. PlacesKept /\ engine' = engine
    BY <1>1 DEF PlacesKept
  <2>2. run'[r].status # "none"
    BY <1>2, <1>4, <1>5, ForwardFacts
  <2>3. Fits(e)'
    BY <1>4, <1>6, <2>2 DEF Fits
  <2>4. \A d \in Entries : Before(d, e)'
    BY <1>6 DEF Before
  <2>. QED BY <1>5, <1>6, <1>7, <2>1, <2>3, <2>4, ChainGrows
<1>9. \A u \in Tasks : u # t => Aside(u)
  BY <1>1, <1>2 DEF Aside, MappingKept, WaiterKept, TypeOK
<1>10. TaskFine(t)'
  <2>1. MappingKept(t) /\ \A w \in Waiters : WaiterKept(w, t)
    BY <1>1 DEF MappingKept, WaiterKept
  <2>2. PassedOn(t)
    BY <1>1, <1>3, <1>5 DEF PassedOn, Stopping
  <2>. QED BY <1>1, <1>2, <1>5, <2>1, <2>2, SameTaskFine
<1>. QED BY <1>5, <1>8, <1>9, <1>10, OthersFine

(* Reconciliation: what it lists, and the task it resumes.                 *)
LEMMA ListFine ==
  ASSUME MInv, TypeOK', ListTasks \/ ListMappings
  PROVE  RunsPart' /\ ChainPart' /\ TasksFine'
<1>1. UNCHANGED <<task, mapping, snapshot, run, engine, chain, ops, opAt, at, verdict, bound>>
  BY DEF ListTasks, ListMappings, diskVars, runVars, opVars, waiterVars
<1>2. RunsPart' /\ ChainPart' /\ Forward
  <2>1. PlacesKept
    BY <1>1 DEF PlacesKept
  <2>. QED BY <1>1, <2>1, CalmStep
<1>3. ASSUME NEW t \in Tasks PROVE TaskFine(t)'
  <2>1. TypeOK /\ Mapped(t) /\ Told(t) /\ Asked(t) /\ CancelSeen(t)
    BY Facts
  <2>2. \/ recon'.maps = mapping /\ recon'.tasks = recon.tasks
        \/ recon'.maps = recon.maps /\ (t \in recon'.tasks => task[t] = "working")
    <3>1. CASE ListTasks
      <4> DEFINE active == {u \in Tasks : task[u] = "working"}
      <4>1. recon' = [recon EXCEPT !.todo = @ \ {"tasks"}, !.tasks = active]
        BY <3>1 DEF ListTasks
      <4>2. t \in active => task[t] = "working"
        OBVIOUS
      <4> HIDE DEF active
      <4>3. recon'.maps = recon.maps /\ recon'.tasks = active
        BY <2>1, <4>1 DEF TypeOK
      <4>. QED BY <4>2, <4>3
    <3>2. CASE ListMappings
      BY <2>1, <3>2 DEF ListMappings, TypeOK
    <3>. QED BY <3>1, <3>2
  <2>3. Mapped(t)'
    BY <1>1, <2>1, <2>2 DEF Mapped, Recorded
  <2>4. Told(t)' /\ Asked(t)'
    BY <1>1, <2>1 DEF Told, Done, Asked
  <2>5. CancelSeen(t)'
    BY <1>1, <2>1, <2>2 DEF CancelSeen, Stopping
  <2>. QED BY <2>3, <2>4, <2>5 DEF TaskFine
<1>. QED BY <1>2, <1>3 DEF TasksFine

LEMMA ResumeFine ==
  ASSUME MInv, TypeOK', NEW t \in Tasks, ResumeTask(t)
  PROVE  RunsPart' /\ ChainPart' /\ TasksFine'
<1>1. /\ t \in recon.tasks /\ recon.maps[t] # 0 /\ Moves("resumed", t, "none", "waiting")
      /\ bound' = [bound EXCEPT ![t] = recon.maps[t]]
      /\ recon' = [recon EXCEPT !.tasks = @ \ {t}]
      /\ UNCHANGED <<task, mapping, snapshot, run, engine, chain, ops, opAt, verdict>>
  BY DEF ResumeTask, diskVars, runVars, opVars
<1>2. TypeOK /\ RunsFine /\ Mapped(t) /\ Told(t) /\ Asked(t) /\ CancelSeen(t)
  BY Facts
<1>3. /\ at["resumed"][t] = "none" /\ at'["resumed"][t] = "waiting"
      /\ \A v \in Waiters : v # "resumed" => at'[v][t] = at[v][t]
      /\ \A v \in Waiters, u \in Tasks : u # t => at'[v][u] = at[v][u]
      /\ \A u \in Tasks : at["bridge"][u] \in {"recording", "mapping"} =>
           at'["bridge"][u] = at["bridge"][u]
  <2>1. "resumed" \in Waiters /\ "waiting" \in WaiterPc
    BY DEF Waiters, WaiterPc
  <2>. QED BY <1>1, <1>2, <2>1, MoveAside
<1>4. /\ bound'[t] = mapping[t] /\ mapping[t] # 0 /\ mapping[t] \in Runs
      /\ \A u \in Tasks : u # t => bound'[u] = bound[u]
      /\ recon'.maps = recon.maps /\ recon'.tasks = recon.tasks \ {t}
  <2>1. recon.maps[t] = mapping[t]
    BY <1>1, <1>2 DEF Mapped
  <2>. QED BY <1>1, <1>2, <2>1, SMTT(30) DEF TypeOK
<1>5. /\ "bridge" \in Waiters /\ "resumed" \in Waiters
      /\ at["bridge"][t] \notin {"creating", "starting", "recording", "mapping"}
      /\ task[t] # "none"
  BY <1>2, <1>4 DEF Mapped, Waiters
<1>6. RunsPart' /\ ChainPart' /\ Forward
  <2>1. PlacesKept
    BY <1>3, <1>4, <1>5 DEF PlacesKept
  <2>. QED BY <1>1, <2>1, CalmStep
<1>7. \A u \in Tasks : u # t => Aside(u)
  BY <1>1, <1>3, <1>4 DEF Aside, MappingKept, WaiterKept
<1>8. TaskFine(t)'
  <2>1. at'["bridge"][t] = at["bridge"][t]
    BY <1>3, <1>5
  <2>2. Recorded(mapping[t]) /\ run[mapping[t]].status # "none"
    BY <1>2, <1>4 DEF Mapped, RunsFine, RunFine
  <2>3. Mapped(t)'
    BY <1>1, <1>2, <1>4, <1>5, <2>1, <2>2 DEF Mapped, Recorded
  <2>4. Told(t)'
    BY <1>1, <1>2, <1>3 DEF Told, Done
  <2>5. Asked(t)'
    BY <1>1, <1>2, <1>3 DEF Asked
  <2>6. CancelSeen(t)'
    BY <1>1, <1>2, <2>1 DEF CancelSeen, Stopping
  <2>. QED BY <2>3, <2>4, <2>5, <2>6 DEF TaskFine
<1>. QED BY <1>6, <1>7, <1>8, OthersFine

(* The bridge starts a run: the task is bound to it.                       *)
LEMMA StartedTaskFine ==
  ASSUME MInv, TypeOK', Forward, NEW t \in Tasks, NEW r \in Runs,
         NEW to \in {"recording", "mapping"}, Moves("bridge", t, "starting", to),
         bound' = [bound EXCEPT ![t] = r], run'[r].status # "none",
         UNCHANGED <<task, mapping, snapshot, ops, opAt, verdict, recon>>
  PROVE  TasksFine' /\ PlacesKept
<1>1. TypeOK /\ RunsFine /\ Mapped(t) /\ Told(t) /\ Asked(t)
  BY Facts
<1>2. /\ at["bridge"][t] = "starting" /\ at'["bridge"][t] = to
      /\ \A v \in Waiters : v # "bridge" => at'[v][t] = at[v][t]
      /\ \A v \in Waiters, u \in Tasks : u # t => at'[v][u] = at[v][u]
      /\ \A u \in Tasks : at["bridge"][u] \in {"recording", "mapping"} =>
           at'["bridge"][u] = at["bridge"][u]
  <2>1. "bridge" \in Waiters /\ to \in WaiterPc
    BY DEF Waiters, WaiterPc
  <2>. QED BY <1>1, <2>1, MoveAside
<1>3. /\ bound'[t] = r /\ \A u \in Tasks : u # t => bound'[u] = bound[u]
  BY <1>1 DEF TypeOK
<1>4. PlacesKept
  BY <1>2, <1>3 DEF PlacesKept
<1>5. \A u \in Tasks : u # t => Aside(u)
  BY <1>2, <1>3 DEF Aside, MappingKept, WaiterKept
<1>6. mapping[t] = 0 /\ at["resumed"][t] # "waiting" /\ "resumed" \in Waiters
  BY <1>1, <1>2 DEF Mapped, Waiters
<1>7. TaskFine(t)'
  <2>1. at'["resumed"][t] # "waiting"
    BY <1>2, <1>6
  <2>2. Mapped(t)'
    BY <1>1, <1>2, <1>3, <1>6, <2>1 DEF Mapped
  <2>3. Told(t)'
    BY <1>1, <1>2, <1>6 DEF Told, Done
  <2>4. Asked(t)'
    BY <1>1, <1>2 DEF Asked
  <2>5. CancelSeen(t)'
    BY <1>6 DEF CancelSeen
  <2>. QED BY <2>2, <2>3, <2>4, <2>5 DEF TaskFine
<1>. QED BY <1>4, <1>5, <1>7, OthersFine

LEMMA StartReusesFine ==
  ASSUME MInv, TypeOK', NEW t \in Tasks, StartReuses(t)
  PROVE  RunsPart' /\ ChainPart' /\ TasksFine'
<1>1. PICK r \in Existing(PlanOf[t]) :
        /\ bound' = [bound EXCEPT ![t] = r]
        /\ chain' = Append(chain, Entry("map", t, r, "bridge"))
  BY DEF StartReuses
<1>2. /\ Moves("bridge", t, "starting", "mapping")
      /\ UNCHANGED <<task, mapping, snapshot, run, engine, ops, opAt, verdict, recon>>
  BY DEF StartReuses, diskVars, runVars, opVars
<1>3. TypeOK /\ r \in Runs /\ r \in 0..MaxRuns /\ r # 0 /\ run[r].status = "open"
  BY Facts DEF Existing
<1> DEFINE e == Entry("map", t, r, "bridge")
<1>4. e \in Entries /\ e.op = "map" /\ e.t = t /\ e.r = r
  BY <1>3, EntryIs
<1>5. chain' = Append(chain, e)
  BY <1>1
<1> HIDE DEF e
<1>6. RunsPart' /\ Forward
  <2>1. Goes(0)
    BY <1>3, <1>4, <1>5, GoesAppend
  <2>2. 0 <= Len(chain)
    BY <1>3 DEF TypeOK
  <2>3. \A op \in {"created", "ended"}, q \in Runs : InChain(op, q) => InChain(op, q)'
    BY <1>3, <2>1, <2>2, InChainKept
  <2>. QED BY <1>2, <2>3, RunsSame
<1>7. TasksFine' /\ PlacesKept
  <2>1. run'[r].status # "none"
    BY <1>2, <1>3
  <2>. QED BY <1>1, <1>2, <1>3, <1>6, <2>1, StartedTaskFine
<1>8. at["bridge"][t] = "starting" /\ at'["bridge"][t] = "mapping" /\ bound'[t] = r
  BY <1>1, <1>2, <1>3 DEF Moves, TypeOK, Waiters
<1>9. ChainPart'
  <2>1. Fits(e)'
    BY <1>2, <1>3, <1>4, <1>8 DEF Fits
  <2>2. ASSUME NEW d \in Entries, Stays(0, d) PROVE Before(d, e)'
    <3>1. 0 <= Len(chain)
      BY <1>3 DEF TypeOK
    <3>2. Fits(d)
      BY <2>2, <3>1, StaysFacts
    <3>. QED BY <1>4, <1>8, <3>2 DEF Fits, Before
  <2>3. engine' = engine
    BY <1>2
  <2>. QED BY <1>4, <1>5, <1>6, <1>7, <2>1, <2>2, <2>3, ChainGrows
<1>. QED BY <1>6, <1>7, <1>9

LEMMA StartCreatesFine ==
  ASSUME MInv, TypeOK', NEW t \in Tasks, StartCreates(t)
  PROVE  RunsPart' /\ ChainPart' /\ TasksFine'
<1>1. PICK r \in Runs :
        /\ run[r].status = "none"
        /\ run' = [run EXCEPT ![r] = [status |-> "open", cancel |-> FALSE, plan |-> PlanOf[t]]]
        /\ engine' = [engine EXCEPT ![r] = "recording"]
        /\ bound' = [bound EXCEPT ![t] = r]
        /\ chain' = Append(chain, Entry("created", t, r, "bridge"))
  BY DEF StartCreates
<1>2. /\ Moves("bridge", t, "starting", "recording") /\ Existing(PlanOf[t]) = {}
      /\ UNCHANGED <<task, mapping, snapshot, ops, opAt, verdict, recon>>
  BY DEF StartCreates, diskVars, opVars
<1>3. TypeOK /\ r \in 0..MaxRuns /\ r # 0
  BY <1>1, Facts
<1> DEFINE e == Entry("created", t, r, "bridge")
<1>4. e \in Entries /\ e.op = "created" /\ e.t = t /\ e.r = r
  BY <1>3, EntryIs
<1>5. chain' = Append(chain, e)
  BY <1>1
<1>6. RunsPart' /\ Forward
  BY <1>1, <1>2, CreateRuns
<1> HIDE DEF e
<1>7. /\ run'[r].status = "open" /\ engine'[r] = "recording" /\ bound'[t] = r
      /\ \A q \in Runs : q # r => engine'[q] = engine[q]
      /\ at["bridge"][t] = "starting" /\ at'["bridge"][t] = "recording"
  BY <1>1, <1>2, <1>3 DEF TypeOK, Moves, Waiters
<1>8. TasksFine' /\ PlacesKept
  BY <1>1, <1>2, <1>6, <1>7, StartedTaskFine
<1>9. ChainPart'
  <2>1. Fits(e)'
    BY <1>3, <1>4, <1>7 DEF Fits
  <2>2. ASSUME NEW d \in Entries, Stays(0, d)
        PROVE  Before(d, e)' /\ (d.op = "created" => engine'[d.r] = engine[d.r])
    <3>1. 0 <= Len(chain)
      BY <1>3 DEF TypeOK
    <3>2. Fits(d)
      BY <2>2, <3>1, StaysFacts
    <3>3. d.op \in {"created", "map"} => d.t # t /\ d.r # r /\ d.r \in Runs
      BY <1>1, <1>7, <3>2, EntryFields DEF Fits
    <3>. QED BY <1>4, <1>7, <3>3 DEF Before
  <2>. QED BY <1>4, <1>5, <1>6, <1>8, <2>1, <2>2, ChainGrows
<1>. QED BY <1>6, <1>8, <1>9

LEMMA RunEndsFine ==
  ASSUME MInv, TypeOK', NEW r \in Runs, RunEnds(r)
  PROVE  RunsPart' /\ ChainPart' /\ TasksFine'
<1>1. /\ engine[r] = "running" /\ engine' = [engine EXCEPT ![r] = "ending"]
      /\ chain' = Append(chain, Entry("ended", AnyTask, r, "op"))
      /\ UNCHANGED <<task, mapping, snapshot, ops, opAt, at, verdict, bound, recon>>
  BY DEF RunEnds, diskVars, opVars, waiterVars
<1>2. TypeOK /\ OneOpen /\ AnyTask \in Tasks /\ r \in 0..MaxRuns /\ r # 0
  BY DEF MInv, IInv, RunsPart, AnyTask
<1>3. RunsPart' /\ Forward /\ run[r].status = "open" /\ run'[r].status \in Ended
  BY EndRuns
<1>4. /\ run'[r].plan = run[r].plan
      /\ \A q \in Runs : q # r => run'[q] = run[q] /\ engine'[q] = engine[q]
  <2>1. Grows(r)
    BY <1>3 DEF Forward
  <2>2. run'[r].plan = run[r].plan
    BY <1>3, <2>1 DEF Grows
  <2>3. \A q \in Runs : q # r => run'[q] = run[q]
    BY <1>2 DEF RunEnds, TypeOK
  <2>4. \A q \in Runs : q # r => engine'[q] = engine[q]
    BY <1>1, <1>2 DEF TypeOK
  <2>. QED BY <2>2, <2>3, <2>4
<1> DEFINE e == Entry("ended", AnyTask, r, "op")
<1>5. e \in Entries /\ e.op = "ended" /\ e.r = r
  BY <1>2, EntryIs
<1>6. chain' = Append(chain, e)
  BY <1>1
<1> HIDE DEF e
<1>7. ChainPart'
  <2>1. Fits(e)'
    BY <1>2, <1>3, <1>5 DEF Fits, Ended
  <2>2. ASSUME NEW d \in Entries, Stays(0, d)
        PROVE  Before(d, e)' /\ (d.op = "created" => engine'[d.r] = engine[d.r])
    <3>1. 0 <= Len(chain)
      BY <1>2 DEF TypeOK
    <3>2. Fits(d)
      BY <2>2, <3>1, StaysFacts
    <3>3. d.op = "created" => d.r \in Runs /\ d.r # r
      BY <1>1, <3>2, EntryFields DEF Fits
    <3>4. d.op \in {"created", "control"} => d.r \in Runs
      BY <3>2, EntryFields DEF Fits
    <3>5. ASSUME d.op \in {"created", "control"}, d.r # r,
                 run'[d.r].status = "open", run'[d.r].plan = run'[r].plan
          PROVE  FALSE
      <4>1. run[d.r].status = "open" /\ run[d.r].plan = run[r].plan
        BY <1>4, <3>4, <3>5
      <4>. QED BY <1>2, <1>3, <3>4, <3>5, <4>1 DEF OneOpen
    <3>6. Before(d, e)'
      BY <1>5, <3>5 DEF Before
    <3>. QED BY <1>4, <3>3, <3>6
  <2>3. PlacesKept
    BY <1>1 DEF PlacesKept
  <2>. QED BY <1>3, <1>5, <1>6, <2>1, <2>2, <2>3, ChainGrows
<1>8. \A u \in Tasks : Aside(u)
  BY <1>1 DEF Aside, MappingKept, WaiterKept
<1>. QED BY <1>3, <1>7, <1>8, AllAside

(***************************************************************************)
(* The writes.                                                             *)
(***************************************************************************)
LEMMA HeadFits ==
  ASSUME MInv, NEW op, First(op)
  PROVE  /\ TypeOK /\ chain # <<>> /\ 1 <= Len(chain)
         /\ Head(chain) \in Entries /\ Head(chain).op = op /\ Fits(Head(chain))
         /\ Head(chain).t \in Tasks /\ Head(chain).r \in 0..MaxRuns
<1>1. TypeOK /\ EntriesFit
  BY DEF MInv, IInv, ChainPart
<1>2. /\ chain # <<>> /\ Head(chain) \in Entries /\ Head(chain).op = op
      /\ Head(chain).t \in Tasks /\ Head(chain).r \in 0..MaxRuns
  BY <1>1, HeadType
<1>3. chain \in Seq(Entries)
  BY <1>1 DEF TypeOK
<1>4. 1 \in 1..Len(chain) /\ Head(chain) = chain[1] /\ 1 <= Len(chain)
  BY <1>2, <1>3
<1>5. Fits(Head(chain))
  BY <1>1, <1>4 DEF EntriesFit
<1>. QED BY <1>1, <1>2, <1>4, <1>5

(* The chain goes on, and no entry that stays loses what it finds.         *)
LEMMA ChainAdvances ==
  ASSUME MInv, TypeOK', Forward, PlacesKept, chain # <<>>, chain' = Tail(chain),
         \A e \in Entries : Stays(1, e) /\ e.op = "created" => engine'[e.r] = engine[e.r]
  PROVE  ChainPart'
<1>1. TypeOK
  BY DEF MInv, IInv
<1>2. Goes(1) /\ ~Gains(1)
  BY <1>1, GoesTail
<1>3. 1 <= Len(chain)
  BY <1>1 DEF TypeOK
<1>4. ASSUME NEW e \in Entries, Stays(1, e), e.op \in {"created", "map"}
      PROVE  bound'[e.t] = bound[e.t] /\ at'["bridge"][e.t] = at["bridge"][e.t]
  <2>1. Fits(e) /\ e.t \in Tasks
    BY <1>3, <1>4, StaysFacts, EntryFields
  <2>. QED BY <1>4, <2>1 DEF Fits, PlacesKept
<1>. QED BY <1>2, <1>3, <1>4, ChainMoves, Zenon

(* A write that is not of a run.                                           *)
LEMMA StoreWrites ==
  ASSUME MInv, TypeOK', UNCHANGED <<run, engine, snapshot>>,
         chain # <<>>, chain' = Tail(chain), Head(chain).op \notin {"created", "ended"}
  PROVE  RunsPart' /\ Forward
<1>1. TypeOK
  BY DEF MInv, IInv
<1>2. Goes(1)
  BY <1>1, GoesTail
<1>3. 1 <= Len(chain)
  BY <1>1 DEF TypeOK
<1>4. \A op \in {"created", "ended"}, r \in Runs : InChain(op, r) => InChain(op, r)'
  BY <1>1, <1>2, <1>3, InChainKept
<1>. QED BY <1>4, RunsSame

LEMMA TaskCreatedFine ==
  ASSUME MInv, TypeOK', TaskCreated
  PROVE  RunsPart' /\ ChainPart' /\ TasksFine'
<1>1. PICK t \in Tasks : t = Head(chain).t
  BY HeadFits DEF TaskCreated
<1>2. /\ First("create") /\ task' = [task EXCEPT ![t] = "working"]
      /\ Moves("bridge", t, "creating", "starting") /\ chain' = Tail(chain)
      /\ UNCHANGED <<mapping, snapshot, run, engine, ops, opAt, verdict, bound, recon>>
  BY <1>1 DEF TaskCreated, runVars, opVars
<1>3. TypeOK /\ RunsFine /\ TaskFine(t) /\ Mapped(t)
  BY Facts
<1>4. chain # <<>> /\ Head(chain).op = "create"
  BY <1>2, HeadFits
<1>5. "bridge" \in Waiters /\ "starting" \in WaiterPc
  BY DEF Waiters, WaiterPc
<1>6. /\ at["bridge"][t] = "creating" /\ at'["bridge"][t] = "starting"
      /\ \A v \in Waiters : v # "bridge" => at'[v][t] = at[v][t]
      /\ \A v \in Waiters, u \in Tasks : u # t => at'[v][u] = at[v][u]
      /\ \A u \in Tasks : at["bridge"][u] \in {"recording", "mapping"} =>
           at'["bridge"][u] = at["bridge"][u]
  BY <1>2, <1>3, <1>5, MoveAside
<1>7. RunsPart' /\ Forward
  BY <1>2, <1>4, StoreWrites
<1>8. ChainPart'
  <2>1. PlacesKept /\ engine' = engine
    BY <1>2, <1>6 DEF PlacesKept
  <2>. QED BY <1>2, <1>4, <1>7, <2>1, ChainAdvances
<1>9. task'[t] = "working" /\ \A u \in Tasks : u # t => task'[u] = task[u]
  BY <1>2, <1>3 DEF TypeOK
<1>10. \A u \in Tasks : u # t => Aside(u)
  BY <1>2, <1>6, <1>9 DEF Aside, MappingKept, WaiterKept
<1>11. TaskFine(t)'
  <2>1. MappingKept(t) /\ PassedOn(t) /\ mapping[t] = 0
    BY <1>2, <1>3, <1>6 DEF MappingKept, PassedOn, Mapped
  <2>2. \A v \in Waiters : v # "bridge" => WaiterKept(v, t)
    BY <1>2, <1>6 DEF WaiterKept
  <2>. QED BY <1>2, <1>3, <1>5, <1>6, <1>7, <1>9, <2>1, <2>2, MovedFine
<1>. QED BY <1>7, <1>8, <1>10, <1>11, OthersFine

LEMMA RunMappedFine ==
  ASSUME MInv, TypeOK', RunMapped
  PROVE  RunsPart' /\ ChainPart' /\ TasksFine'
<1>1. PICK t \in Tasks : t = Head(chain).t
  BY HeadFits DEF RunMapped
<1>2. PICK r \in 0..MaxRuns : r = Head(chain).r
  BY HeadFits DEF RunMapped
<1>3. /\ First("map") /\ mapping' = [mapping EXCEPT ![t] = r]
      /\ Moves("bridge", t, "mapping", "checking") /\ chain' = Tail(chain)
      /\ UNCHANGED <<task, snapshot, run, engine, ops, opAt, verdict, bound, recon>>
  BY <1>1, <1>2 DEF RunMapped, runVars, opVars
<1>4. /\ TypeOK /\ IInv /\ RunsFine /\ RunsPart /\ ChainPart
      /\ Mapped(t) /\ Told(t) /\ Asked(t)
  BY Facts
<1>5. chain # <<>> /\ Head(chain).op = "map" /\ Fits(Head(chain)) /\ 1 <= Len(chain)
  BY <1>3, HeadFits
<1>6. bound[t] = r /\ r \in Runs /\ run[r].status # "none"
  BY <1>1, <1>2, <1>5 DEF Fits
<1>7. "bridge" \in Waiters /\ "resumed" \in Waiters /\ "checking" \in WaiterPc
  BY DEF Waiters, WaiterPc
<1>8. /\ at["bridge"][t] = "mapping" /\ at'["bridge"][t] = "checking"
      /\ \A v \in Waiters : v # "bridge" => at'[v][t] = at[v][t]
      /\ \A v \in Waiters, u \in Tasks : u # t => at'[v][u] = at[v][u]
  BY <1>3, <1>4, <1>7, MoveAside
<1>9. RunsPart' /\ Forward
  BY <1>3, <1>5, StoreWrites
<1>10. \A e \in Entries : Stays(1, e) => Fits(e) /\ Before(Head(chain), e)
  BY <1>5, StaysFacts
<1>11. ChainPart'
  <2>1. Goes(1) /\ ~Gains(1)
    BY <1>3, <1>4, <1>5, GoesTail
  <2>2. ASSUME NEW e \in Entries, Stays(1, e), e.op \in {"created", "map"}
        PROVE  bound'[e.t] = bound[e.t] /\ at'["bridge"][e.t] = at["bridge"][e.t]
    <3>1. e.t # t /\ e.t \in Tasks
      BY <1>1, <1>5, <1>10, <2>2, EntryFields DEF Before
    <3>. QED BY <1>3, <1>7, <1>8, <3>1
  <2>3. engine' = engine
    BY <1>3
  <2>. QED BY <1>5, <1>9, <2>1, <2>2, <2>3, ChainMoves
<1>12. Recorded(r)
  <2>1. SUFFICES ASSUME InChain("created", r) PROVE FALSE
    BY <1>4, <1>6 DEF RunsPart, Announced
  <2>2. PICK j \in 1..Len(chain) : chain[j].op = "created" /\ chain[j].r = r
    BY <2>1 DEF InChain
  <2>3. chain \in Seq(Entries)
    BY <1>4 DEF TypeOK
  <2>4. j \in (1 + 1)..Len(chain) /\ chain[j] \in Entries
    BY <1>5, <2>2, <2>3
  <2>5. Stays(1, chain[j])
    BY <2>4 DEF Stays
  <2>6. Before(Head(chain), chain[j])
    BY <1>10, <2>4, <2>5
  <2>. QED BY <1>2, <1>5, <2>2, <2>6 DEF Before
<1>13. mapping'[t] = r /\ \A u \in Tasks : u # t => mapping'[u] = mapping[u]
  BY <1>3, <1>4 DEF TypeOK
<1>14. \A u \in Tasks : u # t => Aside(u)
  BY <1>3, <1>8, <1>13 DEF Aside, MappingKept, WaiterKept
<1>15. mapping[t] = 0 /\ recon.maps[t] = 0 /\ task[t] # "none"
  <2>1. mapping[t] = 0
    BY <1>4, <1>8 DEF Mapped
  <2>2. task[t] # "none"
    BY <1>4, <1>7, <1>8, WaiterKnows
  <2>. QED BY <1>4, <2>1, <2>2 DEF Mapped
<1>16. TaskFine(t)'
  <2>1. Mapped(t)'
    BY <1>3, <1>6, <1>8, <1>12, <1>13, <1>15 DEF Mapped, Recorded
  <2>2. Told(t)'
    BY <1>3, <1>4, <1>7, <1>8, <1>15 DEF Told, Done
  <2>3. Asked(t)'
    BY <1>3, <1>4, <1>8 DEF Asked
  <2>4. CancelSeen(t)'
    BY <1>8 DEF CancelSeen
  <2>. QED BY <2>1, <2>2, <2>3, <2>4 DEF TaskFine
<1>. QED BY <1>9, <1>11, <1>14, <1>16, OthersFine

LEMMA OpWrittenFine ==
  ASSUME MInv, TypeOK', OpWritten
  PROVE  RunsPart' /\ ChainPart' /\ TasksFine'
<1>1. PICK t \in Tasks : t = Head(chain).t
  BY HeadFits DEF OpWritten
<1> DEFINE settled == Head(ops[t])
<1>2. /\ First("settle") /\ task' = [task EXCEPT ![t] = settled.status]
      /\ chain' = Tail(chain)
      /\ UNCHANGED <<mapping, snapshot, run, engine, bound>>
      /\ \/ /\ settled.status = "cancelled"
            /\ opAt' = [opAt EXCEPT ![t] = "notifying"]
            /\ UNCHANGED <<ops, at, verdict, recon>>
         \/ /\ settled.status # "cancelled"
            /\ opAt' = [opAt EXCEPT ![t] = "idle"]
            /\ Answered(t, TRUE)
  BY <1>1 DEF OpWritten, runVars
<1>3. /\ TypeOK /\ IInv /\ RunsFine
      /\ TaskFine(t) /\ Mapped(t) /\ Told(t) /\ Asked(t) /\ CancelSeen(t)
  BY Facts
<1>4. chain # <<>> /\ Head(chain).op = "settle"
  BY <1>2, HeadFits
<1>5. ops[t] # <<>> /\ task[t] = "working" /\ opAt[t] = "writing" /\ TRUE \in BOOLEAN
  BY <1>1, <1>2, <1>3, <1>4, HeadBacked DEF IInv, Backed
<1>6. /\ settled.status \in TerminalTask /\ (settled.status = "completed" => Done(t))
  <2>1. ops[t] \in Seq(Operations)
    BY <1>3 DEF TypeOK
  <2>2. 1 \in 1..Len(ops[t]) /\ settled = ops[t][1] /\ settled \in Operations
    BY <1>5, <2>1
  <2>. QED BY <1>3, <2>2 DEF Told, Operations
<1> HIDE DEF settled
<1>7. /\ task'[t] = settled.status
      /\ \A u \in Tasks : u # t => task'[u] = task[u] /\ opAt'[u] = opAt[u]
  BY <1>2, <1>3, ZenonT(30) DEF TypeOK
<1>8. RunsPart' /\ Forward
  BY <1>2, <1>4, StoreWrites
<1>9. engine' = engine
  BY <1>2
<1>10. CASE settled.status = "cancelled"
  <2>1. /\ opAt' = [opAt EXCEPT ![t] = "notifying"]
        /\ UNCHANGED <<ops, at, verdict, recon>>
    BY <1>2, <1>10
  <2>2. ChainPart'
    <3>1. PlacesKept
      BY <1>2, <2>1 DEF PlacesKept
    <3>. QED BY <1>2, <1>4, <1>8, <1>9, <3>1, ChainAdvances
  <2>3. \A u \in Tasks : u # t => Aside(u)
    BY <1>2, <1>7, <2>1 DEF Aside, MappingKept, WaiterKept
  <2>4. MappingKept(t) /\ PassedOn(t) /\ opAt'[t] = "notifying"
    BY <1>2, <1>3, <1>5, <2>1 DEF MappingKept, PassedOn, TypeOK
  <2>5. TaskFine(t)'
    <3>1. Mapped(t)'
      BY <1>3, <1>7, <1>8, <1>10, <2>1, <2>4, MappedKept DEF Mapped
    <3>2. Done(t) => Done(t)'
      BY <1>2, <1>3, <1>8, DoneKept
    <3>3. Told(t)'
      BY <1>3, <1>7, <1>10, <2>1, <3>2 DEF Told
    <3>4. Asked(t)'
      BY <1>3, <2>1 DEF Asked
    <3>5. CancelSeen(t)'
      BY <2>4 DEF CancelSeen
    <3>. QED BY <3>1, <3>3, <3>4, <3>5 DEF TaskFine
  <2>. QED BY <1>8, <2>2, <2>3, <2>5, OthersFine
<1>11. CASE settled.status # "cancelled"
  <2>1. opAt' = [opAt EXCEPT ![t] = "idle"] /\ Answered(t, TRUE)
    BY <1>2, <1>11
  <2>2. PlacesKept /\ \A u \in Tasks : u # t => Aside(u)
    BY <1>2, <1>5, <1>7, <2>1, AnsweredAside
  <2>3. ChainPart'
    BY <1>2, <1>4, <1>8, <1>9, <2>2, ChainAdvances
  <2>4. TaskFine(t)'
    <3>1. PassedOn(t) /\ task'[t] # "none" /\ (task'[t] = "completed" => Done(t))
      BY <1>5, <1>6, <1>7 DEF PassedOn, TerminalTask
    <3>2. task'[t] # "cancelled"
      BY <1>7, <1>11
    <3>. QED BY <1>2, <1>3, <1>5, <1>8, <2>1, <3>1, <3>2, AnsweredFine
  <2>. QED BY <1>8, <2>2, <2>3, <2>4, OthersFine
<1>. QED BY <1>10, <1>11

(* The records of a run: its creation, a control, its end.                 *)
LEMMA RunCreatedFine ==
  ASSUME MInv, TypeOK', RunCreated
  PROVE  RunsPart' /\ ChainPart' /\ TasksFine'
<1>1. PICK t \in Tasks : t = Head(chain).t
  BY HeadFits DEF RunCreated
<1>2. PICK r \in 0..MaxRuns : r = Head(chain).r
  BY HeadFits DEF RunCreated
<1> DEFINE e == Entry("map", t, r, "bridge")
<1>3. /\ First("created") /\ snapshot' = [snapshot EXCEPT ![r] = run[r]]
      /\ engine' = [engine EXCEPT ![r] = "running"]
      /\ Moves("bridge", t, "recording", "mapping")
      /\ chain' = Append(Tail(chain), e)
      /\ UNCHANGED <<task, mapping, run, ops, opAt, verdict, bound, recon>>
  BY <1>1, <1>2 DEF RunCreated, opVars
<1>4. e \in Entries /\ e.op = "map" /\ e.t = t /\ e.r = r
  BY EntryIs
<1> HIDE DEF e
<1>5. TypeOK /\ RunsFine /\ TaskFine(t) /\ Mapped(t)
  BY Facts
<1>6. chain # <<>> /\ Head(chain).op = "created" /\ Fits(Head(chain)) /\ 1 <= Len(chain)
  BY <1>3, HeadFits
<1>7. bound[t] = r /\ r # 0 /\ run[r].status # "none"
  BY <1>1, <1>2, <1>6 DEF Fits
<1>8. "bridge" \in Waiters /\ "mapping" \in WaiterPc
  BY DEF Waiters, WaiterPc
<1>9. /\ at["bridge"][t] = "recording" /\ at'["bridge"][t] = "mapping"
      /\ \A v \in Waiters : v # "bridge" => at'[v][t] = at[v][t]
      /\ \A v \in Waiters, u \in Tasks : u # t => at'[v][u] = at[v][u]
  BY <1>3, <1>5, <1>8, MoveAside
<1>10. Goes(1) /\ Last' = e
  BY <1>3, <1>4, <1>5, <1>6, GoesTurn
<1>11. RunsPart' /\ Forward
  <2>1. Head(chain).op \in {"created", "control", "ended"}
    BY <1>6
  <2>. QED BY <1>2, <1>3, <1>6, <1>10, <2>1, SaveRuns
<1>12. ASSUME NEW d \in Entries, Stays(1, d)
       PROVE  /\ d.op \in {"created", "map"} => d.t # t /\ d.t \in Tasks
              /\ d.op = "created" => d.r # r /\ d.r \in Runs
  <2>1. Fits(d) /\ Before(Head(chain), d)
    BY <1>6, <1>12, StaysFacts
  <2>. QED BY <1>1, <1>2, <1>6, <2>1, EntryFields DEF Before, Fits
<1>13. ChainPart'
  <2>1. ASSUME NEW d \in Entries, Stays(1, d), d.op \in {"created", "map"}
        PROVE  bound'[d.t] = bound[d.t] /\ at'["bridge"][d.t] = at["bridge"][d.t]
    BY <1>3, <1>8, <1>9, <1>12, <2>1
  <2>2. ASSUME NEW d \in Entries, Stays(1, d), d.op = "created"
        PROVE  engine'[d.r] = engine[d.r]
    BY <1>3, <1>5, <1>12, <2>2 DEF TypeOK
  <2>3. Fits(e)'
    BY <1>3, <1>4, <1>7, <1>9 DEF Fits
  <2>4. \A d \in Entries : Stays(1, d) => Before(d, e)'
    BY <1>4, <1>12 DEF Before
  <2>5. Fits(Last)' /\ \A d \in Entries : Stays(1, d) => Before(d, Last)'
    BY <1>10, <2>3, <2>4 DEF Fits, Before
  <2>. QED BY <1>6, <1>10, <1>11, <2>1, <2>2, <2>5, ChainMoves
<1>14. \A u \in Tasks : u # t => Aside(u)
  BY <1>3, <1>9 DEF Aside, MappingKept, WaiterKept
<1>15. TaskFine(t)'
  <2>1. MappingKept(t) /\ PassedOn(t) /\ mapping[t] = 0
    BY <1>3, <1>5, <1>9 DEF MappingKept, PassedOn, Mapped
  <2>2. \A v \in Waiters : v # "bridge" => WaiterKept(v, t)
    BY <1>3, <1>9 DEF WaiterKept
  <2>. QED BY <1>3, <1>5, <1>8, <1>9, <1>11, <2>1, <2>2, MovedFine
<1>. QED BY <1>11, <1>13, <1>14, <1>15, OthersFine

LEMMA CancelRecordedFine ==
  ASSUME MInv, TypeOK', CancelRecorded
  PROVE  RunsPart' /\ ChainPart' /\ TasksFine'
<1>1. PICK t \in Tasks : t = Head(chain).t
  BY HeadFits DEF CancelRecorded
<1>2. /\ First("control") /\ chain' = Tail(chain)
      /\ snapshot' = [snapshot EXCEPT ![Head(chain).r] = run[Head(chain).r]]
      /\ UNCHANGED <<task, mapping, run, engine, bound>>
      /\ \/ /\ Head(chain).who = "op"
            /\ opAt' = [opAt EXCEPT ![t] = "idle"] /\ Answered(t, TRUE)
         \/ /\ Moves("bridge", t, "cancelling", "done")
            /\ UNCHANGED <<ops, opAt, verdict, recon>>
  BY <1>1 DEF CancelRecorded, runVars, opVars
<1>3. TypeOK /\ IInv /\ RunsFine /\ TaskFine(t) /\ Told(t)
  BY Facts
<1>4. chain # <<>> /\ Head(chain).op = "control"
  BY <1>2, HeadFits
<1>5. RunsPart' /\ Forward
  <2>1. Goes(1)
    BY <1>2, <1>3, <1>4, GoesTail
  <2>2. Head(chain).op \in {"created", "control", "ended"}
    BY <1>4
  <2>. QED BY <1>2, <1>4, <2>1, <2>2, SaveRuns
<1>6. engine' = engine
  BY <1>2
<1>7. CASE /\ Head(chain).who = "op"
           /\ opAt' = [opAt EXCEPT ![t] = "idle"] /\ Answered(t, TRUE)
  <2>1. /\ ops[t] # <<>> /\ opAt[t] = "controlling" /\ TRUE \in BOOLEAN /\ task[t] # "none"
    BY <1>1, <1>2, <1>3, <1>4, <1>7, HeadBacked, WaiterKnows DEF IInv, Backed
  <2>2. \A u \in Tasks : u # t => opAt'[u] = opAt[u] /\ task'[u] = task[u]
    BY <1>2, <1>3, <1>7 DEF TypeOK
  <2>3. PlacesKept /\ \A u \in Tasks : u # t => Aside(u)
    BY <1>2, <1>7, <2>1, <2>2, AnsweredAside
  <2>4. ChainPart'
    BY <1>2, <1>4, <1>5, <1>6, <2>3, ChainAdvances
  <2>5. TaskFine(t)'
    <3>1. PassedOn(t) /\ (task'[t] = "completed" => Done(t)) /\ task'[t] = task[t]
      BY <1>2, <1>3, <2>1 DEF PassedOn, Told
    <3>. QED BY <1>2, <1>3, <1>5, <1>7, <2>1, <3>1, AnsweredFine
  <2>. QED BY <1>5, <2>3, <2>4, <2>5, OthersFine
<1>8. CASE /\ Moves("bridge", t, "cancelling", "done")
           /\ UNCHANGED <<ops, opAt, verdict, recon>>
  <2>1. "bridge" \in Waiters /\ "done" \in WaiterPc
    BY DEF Waiters, WaiterPc
  <2>2. /\ at["bridge"][t] = "cancelling" /\ at'["bridge"][t] = "done"
        /\ \A v \in Waiters : v # "bridge" => at'[v][t] = at[v][t]
        /\ \A v \in Waiters, u \in Tasks : u # t => at'[v][u] = at[v][u]
        /\ \A u \in Tasks : at["bridge"][u] \in {"recording", "mapping"} =>
             at'["bridge"][u] = at["bridge"][u]
    BY <1>3, <1>8, <2>1, MoveAside
  <2>3. ChainPart'
    <3>1. PlacesKept
      BY <1>2, <2>2 DEF PlacesKept
    <3>. QED BY <1>2, <1>4, <1>5, <1>6, <3>1, ChainAdvances
  <2>4. \A u \in Tasks : u # t => Aside(u)
    BY <1>2, <1>8, <2>2 DEF Aside, MappingKept, WaiterKept
  <2>5. TaskFine(t)'
    <3>1. MappingKept(t) /\ PassedOn(t)
      BY <1>2, <1>8 DEF MappingKept, PassedOn
    <3>2. \A v \in Waiters : v # "bridge" => WaiterKept(v, t)
      BY <1>8, <2>2 DEF WaiterKept
    <3>3. task'[t] = task[t] /\ ops'[t] = ops[t]
      BY <1>2, <1>8
    <3>. QED BY <1>3, <1>5, <2>1, <2>2, <3>1, <3>2, <3>3, MovedFine
  <2>. QED BY <1>5, <2>3, <2>4, <2>5, OthersFine
<1>. QED BY <1>2, <1>7, <1>8

LEMMA RunSettledFine ==
  ASSUME MInv, TypeOK', RunSettled
  PROVE  RunsPart' /\ ChainPart' /\ TasksFine'
<1>1. PICK r \in 0..MaxRuns : r = Head(chain).r
  BY HeadFits DEF RunSettled
<1>2. /\ First("ended") /\ chain' = Tail(chain)
      /\ snapshot' = [snapshot EXCEPT ![r] = run[r]]
      /\ engine' = [engine EXCEPT ![r] = "settled"]
      /\ UNCHANGED <<task, mapping, run, ops, opAt, at, verdict, bound, recon>>
  BY <1>1 DEF RunSettled, opVars, waiterVars
<1>3. TypeOK /\ RunsFine
  BY DEF MInv, IInv, RunsPart
<1>4. chain # <<>> /\ Head(chain).op = "ended" /\ Fits(Head(chain)) /\ 1 <= Len(chain)
  BY <1>2, HeadFits
<1>5. run[r].status \in Ended /\ r \in Runs
  BY <1>1, <1>4 DEF Fits
<1>6. RunsPart' /\ Forward
  <2>1. Goes(1)
    BY <1>2, <1>3, <1>4, GoesTail
  <2>2. Head(chain).op \in {"created", "control", "ended"}
    BY <1>4
  <2>. QED BY <1>1, <1>2, <1>4, <2>1, <2>2, SaveRuns
<1>7. ChainPart'
  <2>1. ASSUME NEW e \in Entries, Stays(1, e), e.op = "created"
        PROVE  engine'[e.r] = engine[e.r]
    <3>1. e.r \in Runs /\ engine[e.r] = "recording"
      BY <1>4, <2>1, StaysFacts, EntryFields DEF Fits
    <3>2. e.r # r
      BY <1>3, <1>5, <3>1 DEF RunsFine, RunFine, Ended
    <3>. QED BY <1>2, <1>3, <3>1, <3>2 DEF TypeOK
  <2>2. PlacesKept
    BY <1>2 DEF PlacesKept
  <2>. QED BY <1>2, <1>4, <1>6, <2>1, <2>2, ChainAdvances
<1>8. \A u \in Tasks : Aside(u)
  BY <1>2 DEF Aside, MappingKept, WaiterKept
<1>. QED BY <1>6, <1>7, <1>8, AllAside

(***************************************************************************)
(* The crash: the runs are what the disk says, and nobody waits.           *)
(***************************************************************************)
LEMMA CrashFine ==
  ASSUME MInv, TypeOK', CrashAndRestart
  PROVE  RunsPart' /\ ChainPart' /\ TasksFine'
<1>1. /\ run' = snapshot /\ snapshot' = snapshot /\ task' = task /\ mapping' = mapping
      /\ engine' = [r \in Runs |-> CASE snapshot[r].status = "none" -> "none"
                                     [] snapshot[r].status = "open" -> "running"
                                     [] OTHER -> "settled"]
      /\ chain' = <<>> /\ ops' = [t \in Tasks |-> <<>>]
      /\ at' = [w \in Waiters |-> [t \in Tasks |-> "none"]]
      /\ bound' = NotMapped /\ recon' = Reconciling
  BY DEF CrashAndRestart, diskVars
<1>2. TypeOK /\ RunsPart
  BY DEF MInv, IInv
<1>3. RunsPart'
  <2>1. \A r \in Runs : snapshot[r] \in RunRecords
    BY <1>2 DEF TypeOK
  <2>2. \A r \in Runs :
          \/ snapshot[r].status = "none" /\ engine'[r] = "none"
          \/ snapshot[r].status = "open" /\ engine'[r] = "running"
          \/ snapshot[r].status \in Ended /\ engine'[r] = "settled"
    BY <1>1, <2>1 DEF RunRecords
  <2>3. RunsFine'
    BY <1>1, <2>2 DEF RunsFine, RunFine, Recorded, Ended
  <2>4. Announced'
    BY <1>1 DEF Announced, Recorded
  <2>5. OneOpen' /\ OneOpenRunPerPlan'
    BY <1>1, <1>2 DEF RunsPart, OneOpen, OneOpenRunPerPlan
  <2>. QED BY <2>3, <2>4, <2>5 DEF RunsPart
<1>4. ChainPart'
  BY <1>1 DEF ChainPart, EntriesFit, InSequence
<1>5. ASSUME NEW t \in Tasks PROVE TaskFine(t)'
  <2>1. Mapped(t) /\ Told(t)
    BY Facts
  <2>2. /\ ops'[t] = <<>> /\ bound'[t] = 0 /\ recon'.maps[t] = 0 /\ recon'.tasks = {}
        /\ \A w \in Waiters : at'[w][t] = "none"
    BY <1>1 DEF NotMapped, Reconciling
  <2>3. at'["bridge"][t] = "none" /\ at'["resumed"][t] = "none"
    BY <2>2 DEF Waiters
  <2>4. Mapped(t)'
    BY <1>1, <2>1, <2>2, <2>3 DEF Mapped, Recorded
  <2>5. Told(t)'
    BY <1>1, <2>1, <2>2 DEF Told, Done
  <2>6. Asked(t)'
    BY <2>2 DEF Asked
  <2>7. CancelSeen(t)'
    BY <2>2 DEF CancelSeen
  <2>. QED BY <2>4, <2>5, <2>6, <2>7 DEF TaskFine
<1>. QED BY <1>3, <1>4, <1>5 DEF TasksFine

LEMMA StutterFine ==
  ASSUME MInv, TypeOK', UNCHANGED vars
  PROVE  RunsPart' /\ ChainPart' /\ TasksFine'
<1>1. UNCHANGED <<task, mapping, snapshot, run, engine, chain, ops, opAt, at, verdict,
                  bound, recon>>
  BY DEF vars, diskVars, runVars, opVars, waiterVars
<1>2. PlacesKept /\ \A u \in Tasks : Aside(u)
  BY <1>1 DEF PlacesKept, Aside, MappingKept, WaiterKept
<1>3. RunsPart' /\ ChainPart' /\ Forward
  BY <1>1, <1>2, CalmStep
<1>. QED BY <1>2, <1>3, AllAside

LEMMA InitFine == Init => RunsPart /\ ChainPart /\ TasksFine
<1> SUFFICES ASSUME Init PROVE RunsPart /\ ChainPart /\ TasksFine
  OBVIOUS
<1>1. /\ run = [r \in Runs |-> NoRun] /\ snapshot = [r \in Runs |-> NoRun]
      /\ engine = [r \in Runs |-> "none"] /\ chain = <<>> /\ NoRun.status = "none"
  BY DEF Init, NoRun
<1>2. RunsPart
  <2>1. RunsFine
    BY <1>1 DEF RunsFine, RunFine, Recorded, Ended
  <2>2. Announced /\ OneOpen /\ OneOpenRunPerPlan
    BY <1>1 DEF Announced, OneOpen, OneOpenRunPerPlan
  <2>. QED BY <2>1, <2>2 DEF RunsPart
<1>3. ChainPart
  BY <1>1 DEF ChainPart, EntriesFit, InSequence
<1>4. ASSUME NEW t \in Tasks PROVE TaskFine(t)
  <2>1. /\ task[t] = "none" /\ mapping[t] = 0 /\ bound[t] = 0 /\ ops[t] = <<>>
        /\ recon.maps[t] = 0 /\ \A w \in Waiters : at[w][t] = "none"
    BY DEF Init, NotMapped, Reconciling
  <2>2. at["bridge"][t] = "none" /\ at["resumed"][t] = "none"
    BY <2>1 DEF Waiters
  <2>3. Mapped(t)
    BY <2>1, <2>2 DEF Mapped
  <2>4. Told(t) /\ Asked(t) /\ CancelSeen(t)
    BY <2>1 DEF Told, Asked, CancelSeen
  <2>. QED BY <2>3, <2>4 DEF TaskFine
<1>. QED BY <1>2, <1>3, <1>4 DEF TasksFine

(* The inductive invariant of the tasks and their runs.                    *)
LEMMA MatchingInvariant == Spec => []MInv
<1>1. Init /\ IInv => MInv
  BY InitFine DEF MInv
<1>2. MInv /\ IInv' /\ [Next]_vars => MInv'
  <2> SUFFICES ASSUME MInv, IInv', [Next]_vars PROVE MInv'
    OBVIOUS
  <2> DEFINE Fine == RunsPart' /\ ChainPart' /\ TasksFine'
  <2>1. TypeOK'
    BY DEF IInv
  <2>2. ASSUME NEW t \in Tasks, CreateTask(t) \/ ClientCancels(t) PROVE Fine
    BY <2>1, <2>2, CreateFine, ClientCancelsFine
  <2>3. ASSUME NEW t \in Tasks, BridgeStep(t) PROVE Fine
    BY <2>1, <2>3, RefusalFine, StartReusesFine, StartCreatesFine, CheckFine
       DEF BridgeStep
  <2>4. ASSUME NEW t \in Tasks, StoreStep(t) PROVE Fine
    BY <2>1, <2>4, OpRefusedFine, OpBeginsFine, NotifyRunFine, NotifyNothingFine
       DEF StoreStep
  <2>5. ASSUME NEW t \in Tasks, NEW w \in Waiters, WaiterStep(w, t) PROVE Fine
    BY <2>1, <2>5, RunOverFine, NotActiveFine, StoreResultFine DEF WaiterStep
  <2>6. ASSUME NEW r \in Runs, RunEnds(r) PROVE Fine
    BY <2>1, <2>6, RunEndsFine
  <2>7. ASSUME WriteReturns PROVE Fine
    BY <2>1, <2>7, TaskCreatedFine, OpWrittenFine, RunCreatedFine, RunMappedFine,
       CancelRecordedFine, RunSettledFine DEF WriteReturns
  <2>8. ASSUME ReconcileStep PROVE Fine
    BY <2>1, <2>8, ListFine, ResumeFine, FailInterruptedFine DEF ReconcileStep
  <2>9. ASSUME CrashAndRestart PROVE Fine
    BY <2>1, <2>9, CrashFine
  <2>10. ASSUME UNCHANGED vars PROVE Fine
    BY <2>1, <2>10, StutterFine
  <2>11. Fine
    BY <2>2, <2>3, <2>4, <2>5, <2>6, <2>7, <2>8, <2>9, <2>10, Zenon DEF Next, Progress
  <2>. QED BY <2>11 DEF MInv
<1>3. QED
  BY <1>1, <1>2, Invariant, PTL DEF Spec

(* What a client is told of a task is true of its run, for every number of *)
(* tasks, runs, cancels and crashes: a completed task has a mapping on     *)
(* disk to a run that is on disk as succeeded, and a cancel is never lost  *)
(* between the listener of updateTaskStatus and the bridge's own check.    *)
THEOREM TasksMatchRuns == Spec => []TaskMatchesRun
<1>1. MInv => TaskMatchesRun
  <2> SUFFICES ASSUME MInv, NEW t \in Tasks
               PROVE  /\ task[t] = "completed" =>
                           mapping[t] # 0 /\ snapshot[mapping[t]].status = "succeeded"
                      /\ /\ task[t] = "cancelled" /\ opAt[t] # "notifying" /\ bound[t] # 0
                         /\ at["bridge"][t] \notin {"recording", "mapping", "checking"}
                         => run[bound[t]].cancel \/ run[bound[t]].status \in Ended
    BY Zenon DEF TaskMatchesRun
  <2>1. Mapped(t) /\ Told(t) /\ CancelSeen(t)
    BY Facts
  <2>2. bound[t] # 0 /\ at["bridge"][t] \notin {"recording", "mapping"}
          => mapping[t] = bound[t]
    BY <2>1 DEF Mapped
  <2>3. task[t] = "completed" => mapping[t] # 0 /\ snapshot[mapping[t]].status = "succeeded"
    BY <2>1 DEF Told, Done
  <2>. QED BY <2>1, <2>2, <2>3 DEF CancelSeen, Stopping
<1>2. QED
  BY <1>1, MatchingInvariant, PTL

(* SmartRunEngine.start() is idempotent per plan, over crashes too: the    *)
(* disk never holds two runs of a plan that are not over, so a restart     *)
(* never executes a plan twice.                                            *)
THEOREM OneRunPerPlan == Spec => []OneOpenRunPerPlan
<1>1. MInv => OneOpenRunPerPlan
  BY DEF MInv, RunsPart
<1>2. QED
  BY <1>1, MatchingInvariant, PTL
===============================================================================
