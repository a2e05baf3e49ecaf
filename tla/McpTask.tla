------------------------------- MODULE McpTask --------------------------------
(***************************************************************************)
(* Native MCP tasks: the durable task store                                *)
(* (src/src/ide/durableMcpTaskStore.ts), the bridge from a task to a smart *)
(* run and the reconciliation after a restart (src/src/ide/smartMcp.ts,    *)
(* mcpServer.ts), over the FIFO write chain they share with the runs.      *)
(*                                                                         *)
(* A run is abstract here: created, launched once its creation is on disk, *)
(* ended with a record of its own.  SmartRunEngine models its inside.      *)
(*                                                                         *)
(* Waiting for a write and waiting for one's turn are the only awaits that *)
(* matter; polling (waitForSmartRun) is waiting for a condition.           *)
(***************************************************************************)
EXTENDS Naturals, Sequences, FiniteSets

CONSTANTS
  Tasks,        (* MCP tasks a client creates.                              *)
  Plans,        (* Plan hashes.                                             *)
  PlanOf,       (* PlanOf[t]: the plan that task t executes.                *)
  MaxRuns,      (* Bound on the smart runs; their ids are 1..MaxRuns.       *)
  MaxCancels,   (* Bound on the number of tasks/cancel requests.            *)
  MaxCrashes    (* Bound on the number of process crashes.                  *)

ASSUME TasksAssumption == Tasks # {}
ASSUME PlanOfAssumption == PlanOf \in [Tasks -> Plans]
ASSUME McpBoundsAssumption == MaxRuns \in Nat /\ MaxCancels \in Nat
                                 /\ MaxCrashes \in Nat

Runs == 1..MaxRuns

VARIABLES
  task, result,     (* mcp-tasks/<t>.json: task.status and result           *)
  mapping,          (* mcp-task-runs/<t>.json: its run, 0 if absent         *)
  snapshot,         (* runs/<r>.json                                        *)
  run, engine,      (* the engine's run objects; where each execution is    *)
  chain,            (* the write chain: the operations not yet on disk      *)
  ops, opAt,        (* transitions: each task's serialised operations, and  *)
                    (* where the first of them is                           *)
  at, verdict,      (* where each waiter of a task is; the run outcome it   *)
                    (* is going to store                                    *)
  bound,            (* the run a task's waiters know                        *)
  recon,            (* reconcileDurableMcpTasks: what it still has to list, *)
                    (* what it listed, and whether it gave up               *)
  cancels, crashes  (* cancel requests and crashes so far                   *)

diskVars == <<task, result, mapping, snapshot>>
runVars == <<run, engine>>
opVars == <<ops, opAt>>
waiterVars == <<at, verdict, bound>>
boundVars == <<cancels, crashes>>
vars == <<diskVars, runVars, chain, opVars, waiterVars, recon, boundVars>>

-----------------------------------------------------------------------------
Ended == {"succeeded", "failed", "cancelled"}
TerminalTask == {"completed", "failed", "cancelled"}
TaskStatus == {"none", "working"} \cup TerminalTask
Results == {"none", "error", "interrupted"} \cup Ended

(* "bridge": the async body of hawk_run_execute_task's createTask;         *)
(* "resumed": completeDurableMcpTask.                                      *)
Waiters == {"bridge", "resumed"}
WaiterPc == {"none", "creating", "starting", "recording", "mapping", "checking",
             "cancelling", "waiting", "storing", "stored", "done"}

RunRecords == [status : {"none", "open"} \cup Ended, cancel : BOOLEAN, plan : Plans]

(* who awaits the operation, and the status and result it stores.          *)
Operations == [who : Waiters \cup {"reconcile", "client"},
               status : TerminalTask, result : Results]
Operation(who, status, res) == [who |-> who, status |-> status, result |-> res]

(* An entry of the write chain: what is written, for which task and run,   *)
(* on behalf of whom.  Task snapshots carry their value; a run snapshot is *)
(* the live object when its turn comes.                                    *)
Entries == [op : {"create", "settle", "map", "created", "control", "ended"},
            t : Tasks, r : 0..MaxRuns, who : Waiters \cup {"op"}]
AnyTask == CHOOSE t \in Tasks : TRUE
Entry(op, t, r, who) == [op |-> op, t |-> t, r |-> r, who |-> who]

TypeOK ==
  /\ task \in [Tasks -> TaskStatus]
  /\ result \in [Tasks -> Results]
  /\ mapping \in [Tasks -> 0..MaxRuns]
  /\ snapshot \in [Runs -> RunRecords]
  /\ run \in [Runs -> RunRecords]
  /\ engine \in [Runs -> {"none", "recording", "running", "ending", "settled"}]
  /\ chain \in Seq(Entries)
  /\ ops \in [Tasks -> Seq(Operations)]
  /\ opAt \in [Tasks -> {"idle", "writing", "notifying", "controlling"}]
  /\ at \in [Waiters -> [Tasks -> WaiterPc]]
  /\ verdict \in [Waiters -> [Tasks -> Results]]
  /\ bound \in [Tasks -> 0..MaxRuns]
  /\ recon \in [todo : SUBSET {"tasks", "mappings"}, tasks : SUBSET Tasks,
                maps : [Tasks -> 0..MaxRuns],
                at : {"next", "storing", "aborted"}]
  /\ cancels \in Nat /\ crashes \in Nat

NoRun == [status |-> "none", cancel |-> FALSE, plan |-> CHOOSE p \in Plans : TRUE]
NotMapped == [t \in Tasks |-> 0]
Reconciling == [todo |-> {"tasks", "mappings"}, tasks |-> {}, maps |-> NotMapped,
                at |-> "next"]

(* A first process found nothing to reconcile.                             *)
Init ==
  /\ task = [t \in Tasks |-> "none"]
  /\ result = [t \in Tasks |-> "none"]
  /\ mapping = NotMapped
  /\ snapshot = [r \in Runs |-> NoRun]
  /\ run = snapshot
  /\ engine = [r \in Runs |-> "none"]
  /\ chain = <<>>
  /\ ops = [t \in Tasks |-> <<>>]
  /\ opAt = [t \in Tasks |-> "idle"]
  /\ at = [w \in Waiters |-> [t \in Tasks |-> "none"]]
  /\ verdict = [w \in Waiters |-> [t \in Tasks |-> "none"]]
  /\ bound = NotMapped
  /\ recon = [Reconciling EXCEPT !.todo = {}]
  /\ cancels = 0 /\ crashes = 0

-----------------------------------------------------------------------------
(***************************************************************************)
(* createTask: the task is written, and the client has it, before the      *)
(* bridge starts the run.                                                  *)
(***************************************************************************)
Moves(w, t, from, to) ==
  /\ at[w][t] = from
  /\ at' = [at EXCEPT ![w][t] = to]

CreateTask(t) ==
  /\ task[t] = "none"
  /\ Moves("bridge", t, "none", "creating")
  /\ chain' = Append(chain, Entry("create", t, 0, "bridge"))
  /\ UNCHANGED <<diskVars, runVars, opVars, verdict, bound, recon, boundVars>>

(* brain.startRun: the plan, its policy or its approval is refused.        *)
StartFails(t) ==
  /\ Moves("bridge", t, "starting", "storing")
  /\ verdict' = [verdict EXCEPT !["bridge"][t] = "error"]
  /\ UNCHANGED <<diskVars, runVars, chain, opVars, bound, recon, boundVars>>

(* Mutant of Existing: only a run whose creation is recorded is reused.    *)
MutantExisting(p) ==
  {r \in Runs : run[r].plan = p /\ run[r].status = "open" /\ engine[r] = "running"}

(* Runs of the plan that are not over: start() returns one of them.        *)
Existing(p) == {r \in Runs : run[r].plan = p /\ run[r].status = "open"}

StartReuses(t) ==
  /\ Moves("bridge", t, "starting", "mapping")
  /\ \E r \in Existing(PlanOf[t]) :
       /\ bound' = [bound EXCEPT ![t] = r]
       /\ chain' = Append(chain, Entry("map", t, r, "bridge"))
  /\ UNCHANGED <<diskVars, runVars, opVars, verdict, recon, boundVars>>

StartCreates(t) ==
  /\ Moves("bridge", t, "starting", "recording")
  /\ Existing(PlanOf[t]) = {}
  /\ \E r \in Runs :
       /\ run[r].status = "none"
       /\ \A q \in 1..(r - 1) : run[q].status # "none"
       /\ run' = [run EXCEPT
                    ![r] = [status |-> "open", cancel |-> FALSE, plan |-> PlanOf[t]]]
       /\ engine' = [engine EXCEPT ![r] = "recording"]
       /\ bound' = [bound EXCEPT ![t] = r]
       /\ chain' = Append(chain, Entry("created", t, r, "bridge"))
  /\ UNCHANGED <<diskVars, opVars, verdict, recon, boundVars>>

-----------------------------------------------------------------------------
(***************************************************************************)
(* runs.control(r, 'cancel'): nothing for a run that is over or unknown,   *)
(* otherwise the flag, and a record the caller waits for.                  *)
(***************************************************************************)
Cancellable(r) == r # 0 /\ run[r].status = "open"

CancelRun(t, r, who) ==
  /\ run' = [run EXCEPT ![r].cancel = TRUE]
  /\ chain' = Append(chain, Entry("control", t, r, who))

(* The bridge reads the task once its mapping is on disk.                  *)
CheckCancelled(t) ==
  /\ task[t] = "cancelled"
  /\ IF Cancellable(bound[t])
     THEN CancelRun(t, bound[t], "bridge") /\ Moves("bridge", t, "checking", "cancelling")
     ELSE UNCHANGED <<run, chain>> /\ Moves("bridge", t, "checking", "done")
  /\ UNCHANGED <<diskVars, engine, opVars, verdict, bound, recon, boundVars>>

CheckActive(t) ==
  /\ task[t] # "cancelled"
  /\ Moves("bridge", t, "checking", "waiting")
  /\ UNCHANGED <<diskVars, runVars, chain, opVars, verdict, bound, recon, boundVars>>

(* waitForSmartRun: the run is over and its last record has settled.       *)
RunOver(w, t) ==
  /\ Moves(w, t, "waiting", "storing")
  /\ run[bound[t]].status \in Ended
  /\ engine[bound[t]] = "settled"
  /\ verdict' = [verdict EXCEPT ![w][t] = run[bound[t]].status]
  /\ UNCHANGED <<diskVars, runVars, chain, opVars, bound, recon, boundVars>>

(* Mutant of StatusOf: only a failed run fails its task.                   *)
MutantStatusOf(res) ==
  IF res \in {"failed", "error", "interrupted"} THEN "failed" ELSE "completed"

StatusOf(res) == IF res = "succeeded" THEN "completed" ELSE "failed"

(* storeTaskResultIfActive: a read, then an operation of the store.        *)
NotActive(w, t) ==
  /\ task[t] \in TerminalTask
  /\ Moves(w, t, "storing", "done")
  /\ UNCHANGED <<diskVars, runVars, chain, opVars, verdict, bound, recon, boundVars>>

StoreResult(w, t) ==
  /\ task[t] \notin TerminalTask
  /\ Moves(w, t, "storing", "stored")
  /\ ops' = [ops EXCEPT
               ![t] = Append(@, Operation(w, StatusOf(verdict[w][t]), verdict[w][t]))]
  /\ UNCHANGED <<diskVars, runVars, chain, opAt, verdict, bound, recon, boundVars>>

(* tasks/cancel: the protocol's handler refuses a task that has ended.     *)
ClientCancels(t) ==
  /\ task[t] = "working"
  /\ cancels < MaxCancels
  /\ cancels' = cancels + 1
  /\ ops' = [ops EXCEPT ![t] = Append(@, Operation("client", "cancelled", "none"))]
  /\ UNCHANGED <<diskVars, runVars, chain, opAt, waiterVars, recon, crashes>>

-----------------------------------------------------------------------------
(***************************************************************************)
(* The store's transitions: one operation per task at a time, each of      *)
(* which reads the task, refuses a terminal one, and writes it.  A stored  *)
(* cancellation then looks up the mapping and cancels the run, still       *)
(* within the operation.                                                   *)
(***************************************************************************)
Answered(t, stored) ==
  LET who == Head(ops[t]).who IN
  /\ ops' = [ops EXCEPT ![t] = Tail(@)]
  /\ at' = IF who \in Waiters
           THEN [at EXCEPT ![who][t] = IF stored THEN "done" ELSE "storing"]
           ELSE at
  /\ verdict' = IF who \in Waiters /\ ~stored
                THEN [verdict EXCEPT ![who][t] = "error"] ELSE verdict
  /\ recon' = IF who = "reconcile"
              THEN [recon EXCEPT !.at = IF stored THEN "next" ELSE "aborted"]
              ELSE recon

(* Mutant of Refused: the operation relies on its caller's earlier read.   *)
MutantRefused(t) == FALSE

Refused(t) == task[t] \in TerminalTask

OpRefused(t) ==
  /\ ops[t] # <<>> /\ opAt[t] = "idle"
  /\ Refused(t)
  /\ Answered(t, FALSE)
  /\ UNCHANGED <<diskVars, runVars, chain, opAt, bound, boundVars>>

OpBegins(t) ==
  /\ ops[t] # <<>> /\ opAt[t] = "idle"
  /\ ~Refused(t)
  /\ opAt' = [opAt EXCEPT ![t] = "writing"]
  /\ chain' = Append(chain, Entry("settle", t, 0, "op"))
  /\ UNCHANGED <<diskVars, runVars, ops, waiterVars, recon, boundVars>>

NotifyRun(t) ==
  /\ opAt[t] = "notifying"
  /\ Cancellable(mapping[t])
  /\ CancelRun(t, mapping[t], "op")
  /\ opAt' = [opAt EXCEPT ![t] = "controlling"]
  /\ UNCHANGED <<diskVars, engine, ops, waiterVars, recon, boundVars>>

NotifyNothing(t) ==
  /\ opAt[t] = "notifying"
  /\ ~Cancellable(mapping[t])
  /\ opAt' = [opAt EXCEPT ![t] = "idle"]
  /\ Answered(t, TRUE)
  /\ UNCHANGED <<diskVars, runVars, chain, bound, boundVars>>

-----------------------------------------------------------------------------
(***************************************************************************)
(* The write chain: its first entry reaches the disk and the operation's   *)
(* caller continues up to its next await.                                  *)
(***************************************************************************)
First(op) == chain # <<>> /\ Head(chain).op = op

TaskCreated ==
  /\ First("create")
  /\ LET t == Head(chain).t IN
     /\ task' = [task EXCEPT ![t] = "working"]
     /\ Moves("bridge", t, "creating", "starting")
  /\ chain' = Tail(chain)
  /\ UNCHANGED <<result, mapping, snapshot, runVars, opVars, verdict, bound, recon,
                 boundVars>>

OpWritten ==
  /\ First("settle")
  /\ LET t == Head(chain).t
         settled == Head(ops[t]) IN
     /\ task' = [task EXCEPT ![t] = settled.status]
     /\ result' = [result EXCEPT ![t] = settled.result]
     /\ IF settled.status = "cancelled"
        THEN /\ opAt' = [opAt EXCEPT ![t] = "notifying"]
             /\ UNCHANGED <<ops, at, verdict, recon>>
        ELSE /\ opAt' = [opAt EXCEPT ![t] = "idle"]
             /\ Answered(t, TRUE)
  /\ chain' = Tail(chain)
  /\ UNCHANGED <<mapping, snapshot, runVars, bound, boundVars>>

(* Run.start returns: the run is launched and the bridge asks for its      *)
(* mapping to be written.                                                  *)
RunCreated ==
  /\ First("created")
  /\ LET t == Head(chain).t
         r == Head(chain).r IN
     /\ snapshot' = [snapshot EXCEPT ![r] = run[r]]
     /\ engine' = [engine EXCEPT ![r] = "running"]
     /\ Moves("bridge", t, "recording", "mapping")
     /\ chain' = Append(Tail(chain), Entry("map", t, r, "bridge"))
  /\ UNCHANGED <<task, result, mapping, run, opVars, verdict, bound, recon, boundVars>>

RunMapped ==
  /\ First("map")
  /\ LET t == Head(chain).t IN
     /\ mapping' = [mapping EXCEPT ![t] = Head(chain).r]
     /\ Moves("bridge", t, "mapping", "checking")
  /\ chain' = Tail(chain)
  /\ UNCHANGED <<task, result, snapshot, runVars, opVars, verdict, bound, recon,
                 boundVars>>

CancelRecorded ==
  /\ First("control")
  /\ LET t == Head(chain).t
         r == Head(chain).r IN
     /\ snapshot' = [snapshot EXCEPT ![r] = run[r]]
     /\ IF Head(chain).who = "op"
        THEN opAt' = [opAt EXCEPT ![t] = "idle"] /\ Answered(t, TRUE)
        ELSE /\ Moves("bridge", t, "cancelling", "done")
             /\ UNCHANGED <<opVars, verdict, recon>>
  /\ chain' = Tail(chain)
  /\ UNCHANGED <<task, result, mapping, runVars, bound, boundVars>>

RunSettled ==
  /\ First("ended")
  /\ LET r == Head(chain).r IN
     /\ snapshot' = [snapshot EXCEPT ![r] = run[r]]
     /\ engine' = [engine EXCEPT ![r] = "settled"]
  /\ chain' = Tail(chain)
  /\ UNCHANGED <<task, result, mapping, run, opVars, waiterVars, recon, boundVars>>

(* The execution of a run ends: cancelled if it was asked to.              *)
RunEnds(r) ==
  /\ engine[r] = "running"
  /\ \E status \in IF run[r].cancel THEN {"cancelled"} ELSE {"succeeded", "failed"} :
       run' = [run EXCEPT ![r].status = status]
  /\ engine' = [engine EXCEPT ![r] = "ending"]
  /\ chain' = Append(chain, Entry("ended", AnyTask, r, "op"))
  /\ UNCHANGED <<diskVars, opVars, waiterVars, recon, boundVars>>

-----------------------------------------------------------------------------
(***************************************************************************)
(* A crash, and the restart: brain.initialize() launches the runs on disk  *)
(* that are not over, then reconcileDurableMcpTasks runs beside the        *)
(* requests of clients.                                                    *)
(***************************************************************************)
CrashAndRestart ==
  /\ crashes < MaxCrashes
  /\ crashes' = crashes + 1
  /\ run' = snapshot
  /\ engine' = [r \in Runs |-> CASE snapshot[r].status = "none" -> "none"
                                 [] snapshot[r].status = "open" -> "running"
                                 [] OTHER -> "settled"]
  /\ chain' = <<>>
  /\ ops' = [t \in Tasks |-> <<>>]
  /\ opAt' = [t \in Tasks |-> "idle"]
  /\ at' = [w \in Waiters |-> [t \in Tasks |-> "none"]]
  /\ verdict' = [w \in Waiters |-> [t \in Tasks |-> "none"]]
  /\ bound' = NotMapped
  /\ recon' = Reconciling
  /\ UNCHANGED <<diskVars, cancels>>

(* Mutant of ListTasks: only tasks whose mapping is on disk are listed.    *)
MutantListTasks ==
  /\ "tasks" \in recon.todo
  /\ recon' = [recon EXCEPT !.todo = @ \ {"tasks"},
                 !.tasks = {t \in Tasks : task[t] = "working" /\ mapping[t] # 0}]
  /\ UNCHANGED <<diskVars, runVars, chain, opVars, waiterVars, boundVars>>

ListTasks ==
  /\ "tasks" \in recon.todo
  /\ recon' = [recon EXCEPT !.todo = @ \ {"tasks"},
                            !.tasks = {t \in Tasks : task[t] = "working"}]
  /\ UNCHANGED <<diskVars, runVars, chain, opVars, waiterVars, boundVars>>

ListMappings ==
  /\ "mappings" \in recon.todo
  /\ recon' = [recon EXCEPT !.todo = @ \ {"mappings"}, !.maps = mapping]
  /\ UNCHANGED <<diskVars, runVars, chain, opVars, waiterVars, boundVars>>

Listed == recon.todo = {} /\ recon.at = "next"

(* A task with a mapping gets a waiter of its own.                         *)
ResumeTask(t) ==
  /\ Listed /\ t \in recon.tasks
  /\ recon.maps[t] # 0
  /\ Moves("resumed", t, "none", "waiting")
  /\ bound' = [bound EXCEPT ![t] = recon.maps[t]]
  /\ recon' = [recon EXCEPT !.tasks = @ \ {t}]
  /\ UNCHANGED <<diskVars, runVars, chain, opVars, verdict, boundVars>>

(* A task without one is failed: 'run-creation-interrupted'.               *)
FailInterrupted(t) ==
  /\ Listed /\ t \in recon.tasks
  /\ recon.maps[t] = 0
  /\ ops' = [ops EXCEPT
               ![t] = Append(@, Operation("reconcile", "failed", "interrupted"))]
  /\ recon' = [recon EXCEPT !.tasks = @ \ {t}, !.at = "storing"]
  /\ UNCHANGED <<diskVars, runVars, chain, opAt, waiterVars, boundVars>>

-----------------------------------------------------------------------------
WriteReturns == \/ TaskCreated \/ OpWritten \/ RunCreated \/ RunMapped
                \/ CancelRecorded \/ RunSettled

BridgeStep(t) == \/ StartFails(t) \/ StartReuses(t) \/ StartCreates(t)
                 \/ CheckCancelled(t) \/ CheckActive(t)

WaiterStep(w, t) == RunOver(w, t) \/ NotActive(w, t) \/ StoreResult(w, t)

StoreStep(t) == OpRefused(t) \/ OpBegins(t) \/ NotifyRun(t) \/ NotifyNothing(t)

ReconcileStep == \/ ListTasks \/ ListMappings
                 \/ \E t \in Tasks : ResumeTask(t) \/ FailInterrupted(t)

(* What the event loop, the disk and the executions of runs do unasked.    *)
Progress ==
  \/ WriteReturns
  \/ \E t \in Tasks : BridgeStep(t) \/ StoreStep(t)
  \/ \E t \in Tasks, w \in Waiters : WaiterStep(w, t)
  \/ \E r \in Runs : RunEnds(r)
  \/ ReconcileStep

Next ==
  \/ Progress
  \/ \E t \in Tasks : CreateTask(t) \/ ClientCancels(t)
  \/ CrashAndRestart

Spec == Init /\ [][Next]_vars

-----------------------------------------------------------------------------
(* The store keeps the promise of OneShotTask: completion, failure, a      *)
(* client's cancel and reconciliation may race, and a task still takes one *)
(* terminal status, with its result, and keeps both over crashes.          *)
Promise == INSTANCE OneShotTask
             WITH Outcomes <- [status : TerminalTask, result : Results]
TaskIsOneShot == Promise!Spec

(* What a client is told of a task is true of its run.  A completed task   *)
(* stands for a run that is on disk as succeeded, also after a restart and *)
(* when two tasks share the run.  A cancel is never lost between the       *)
(* store's listener, which reads the mapping after it wrote the status, and *)
(* the bridge, which reads the status after it wrote the mapping: whoever  *)
(* comes second cancels the run.                                           *)
TaskMatchesRun ==
  \A t \in Tasks :
    /\ task[t] = "completed" => /\ mapping[t] # 0
                                /\ snapshot[mapping[t]].status = "succeeded"
    /\ /\ task[t] = "cancelled" /\ opAt[t] # "notifying"
       /\ bound[t] # 0 /\ at["bridge"][t] \notin {"recording", "mapping", "checking"}
       => run[bound[t]].cancel \/ run[bound[t]].status \in Ended

(* start() is idempotent per plan: a plan never has two runs on disk that  *)
(* are not over, or a restart would execute it twice.                      *)
OneOpenRunPerPlan ==
  \A q, r \in Runs :
    snapshot[q].status = "open" /\ snapshot[r].status = "open"
    /\ snapshot[q].plan = snapshot[r].plan => q = r

(* No task is left behind: when the process has nothing more to do of its  *)
(* own accord, every task the client was given has ended, restarts or not. *)
(* (Progress takes no step twice without a new request or a crash, so this *)
(* is the liveness of tasks under weak fairness of Progress.)  Excepted is *)
(* a reconciliation that gave up: one refused write, for a task a client   *)
(* cancelled meanwhile, leaves the tasks behind it to the next restart.    *)
NoTaskLeftBehind ==
  (\E t \in Tasks : task[t] = "working") /\ recon.at # "aborted"
    => ENABLED Progress

===============================================================================
