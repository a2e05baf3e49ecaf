----------------------------- MODULE Orchestrator -----------------------------
(***************************************************************************)
(* HawkDockerOrchestrator of src/src/ide/orchestrator.ts: runs of worker   *)
(* tasks on agent instances (distributedScheduler.ts), the worker pool the *)
(* runs share, each run's chain of snapshot writes, the containers (which  *)
(* outlive the process), and a crash followed by initialize().             *)
(*                                                                         *)
(* While main[r] is "loop", "dispatch" or "close" run r is in one stretch  *)
(* of execute() without an await, and nothing else happens (see Quiet).    *)
(* A persist copies the tasks when it is called, but agents, which         *)
(* snapshotOf shares by reference, are read when the write happens.        *)
(***************************************************************************)
EXTENDS Naturals, Sequences, FiniteSets

CONSTANTS
  Runs,          (* Run ids.                                               *)
  T, I,          (* Number of tasks and of agent instances of a run.       *)
  DependsOn,     (* DependsOn[t]: task t's dependencies; cycles may occur. *)
  Retries,       (* Retries[t]: the task's retry budget.                   *)
  Fits,          (* Fits[t]: the instances with t's required capabilities. *)
  Capacity,      (* Capacity[i]: maxConcurrent, within CPU and memory.     *)
  MaxParallel,   (* Of one run.                                            *)
  MaxWorkers,    (* MAX_PARALLEL, over all runs.                           *)
  Cpu, MaxCpu,   (* Cpu[r]: cpuPerWorker; MAX_GLOBAL_CPU. Memory is alike. *)
  DockerFaults,  (* Whether Docker may lose containers and inspections.    *)
  Cancels,       (* The runs that may be cancelled.                        *)
  Heartbeats,    (* Whether leases are renewed while a worker runs.        *)
  MaxCrashes     (* Bound on the number of process crashes.                *)

Tasks == 1..T
Instances == 1..I

ASSUME SizeAssumption == T \in Nat /\ I \in Nat /\ MaxCrashes \in Nat
ASSUME TaskAssumption ==
  /\ DependsOn \in [Tasks -> SUBSET Tasks]
  /\ Retries \in [Tasks -> Nat]
  /\ Fits \in [Tasks -> SUBSET Instances]
ASSUME ResourceAssumption ==
  /\ Capacity \in [Instances -> Nat \ {0}]
  /\ MaxParallel \in Nat \ {0}
  /\ MaxWorkers \in Nat
  /\ Cpu \in [Runs -> Nat] /\ MaxCpu \in Nat
ASSUME SwitchAssumption ==
  DockerFaults \in BOOLEAN /\ Cancels \in SUBSET Runs /\ Heartbeats \in BOOLEAN

VARIABLES
  run,         (* run[r]: status, cancelRequested and the tasks            *)
  agents,      (* agents[r]: activeTaskIds and outcome counts by instance  *)
  main,        (* where execute(run) is                                    *)
  room,        (* decisions the scheduler may still make in this pass      *)
  active,      (* run.active: task -> attempt, 0 if absent                 *)
  watch,       (* the executions Promise.race waits for                    *)
  execs,       (* executeTask and recoverTask calls in progress            *)
  pool,        (* activeWorkers and activeCpu                              *)
  chain,       (* chain[r]: the persist calls not yet returned             *)
  landed,      (* landed[r]: the first of them is on disk                  *)
  killing,     (* containers a cancel call still has to remove             *)
  cancelling,  (* where a cancel call is                                   *)
  loading,     (* runs initialize() has still to load                      *)
  keep,        (* what cleanupOrphans spares; while sweeping               *)
  sweeping,
  disk,        (* disk[r]: run.json                                        *)
  containers,  (* containers[r][t]                                         *)
  epoch,       (* crashes so far                                           *)
  launches,    (* history: containers started for each task                *)
  unseen       (* history: tasks whose container an inspection missed      *)

runVars == <<run, agents>>
executeVars == <<main, room, active, watch>>
cancelVars == <<killing, cancelling>>
startupVars == <<loading, keep, sweeping>>
historyVars == <<epoch, launches, unseen>>
vars == <<runVars, executeVars, execs, pool, chain, landed, cancelVars,
          startupVars, disk, containers, historyVars>>

-----------------------------------------------------------------------------
Terminal == {"succeeded", "failed", "cancelled"}
Settled == {"succeeded", "failed", "skipped", "cancelled"}

Caller(role) == [role |-> role, t |-> 0, a |-> 0]
TaskCaller(t, a) == [role |-> "task", t |-> t, a |-> a]

NewRun == [status |-> "absent", cancel |-> FALSE,
           task |-> [t \in Tasks |-> "pending"], attempt |-> [t \in Tasks |-> 0],
           where |-> [t \in Tasks |-> 0]]
NewAgents == [held |-> [i \in Instances |-> {}],
              failed |-> [i \in Instances |-> 0],
              completed |-> [i \in Instances |-> 0]]

Init ==
  /\ run = [r \in Runs |-> NewRun]
  /\ agents = [r \in Runs |-> NewAgents]
  /\ main = [r \in Runs |-> "none"]
  /\ room = [r \in Runs |-> 0]
  /\ active = [r \in Runs |-> [t \in Tasks |-> 0]]
  /\ watch = [r \in Runs |-> {}]
  /\ execs = {}
  /\ pool = [workers |-> 0, cpu |-> 0]
  /\ chain = [r \in Runs |-> <<>>]
  /\ landed = [r \in Runs |-> FALSE]
  /\ killing = [r \in Runs |-> {}]
  /\ cancelling = [r \in Runs |-> "no"]
  /\ loading = {} /\ keep = {} /\ sweeping = FALSE
  /\ disk = [r \in Runs |-> [snap |-> NewRun, agents |-> NewAgents]]
  /\ containers = [r \in Runs |-> [t \in Tasks |-> "none"]]
  /\ epoch = 0
  /\ launches = [r \in Runs |-> [t \in Tasks |-> 0]]
  /\ unseen = {}

-----------------------------------------------------------------------------
(***************************************************************************)
(* persist(): one write at a time per run, in the order of the calls.      *)
(***************************************************************************)
Quiet == \A r \in Runs : main[r] \notin {"loop", "dispatch", "close"}
Serving == loading = {} /\ ~sweeping

(* Persist the run as this step leaves it, behind the writes in q.         *)
PersistAfter(q, r, who) ==
  chain' = [chain EXCEPT ![r] = Append(q, [who |-> who, snap |-> run'[r]])]
Persist(r, who) == PersistAfter(chain[r], r, who)

(* Mutant of Write: writes are not serialised.                             *)
MutantWrite(r) ==
  /\ Quiet
  /\ chain[r] # <<>> /\ ~landed[r]
  /\ \E k \in 1..Len(chain[r]) :
       disk' = [disk EXCEPT ![r] = [snap |-> chain[r][k].snap, agents |-> agents[r]]]
  /\ landed' = [landed EXCEPT ![r] = TRUE]
  /\ UNCHANGED <<runVars, executeVars, execs, pool, chain, cancelVars,
                 startupVars, containers, historyVars>>

Write(r) ==
  /\ Quiet
  /\ chain[r] # <<>> /\ ~landed[r]
  /\ disk' = [disk EXCEPT ![r] = [snap |-> Head(chain[r]).snap, agents |-> agents[r]]]
  /\ landed' = [landed EXCEPT ![r] = TRUE]
  /\ UNCHANGED <<runVars, executeVars, execs, pool, chain, cancelVars,
                 startupVars, containers, historyVars>>

(* The persist call of who returns; the chain still has to be popped.      *)
Persisted(r, who) ==
  /\ Quiet
  /\ chain[r] # <<>> /\ landed[r] /\ Head(chain[r]).who = who
  /\ landed' = [landed EXCEPT ![r] = FALSE]
Pop(r) == chain' = [chain EXCEPT ![r] = Tail(@)]

(* A lease heartbeat persists and nobody waits for it; the interval is     *)
(* five seconds or more, so the previous heartbeat has been written.       *)
Heartbeat(e) ==
  /\ Heartbeats /\ Quiet
  /\ e.at = "running"
  /\ \A k \in 1..Len(chain[e.r]) : chain[e.r][k].who.role # "heartbeat"
  /\ run' = run
  /\ Persist(e.r, Caller("heartbeat"))
  /\ UNCHANGED <<agents, executeVars, execs, pool, landed, cancelVars,
                 startupVars, disk, containers, historyVars>>

HeartbeatPersisted(r) ==
  /\ Persisted(r, Caller("heartbeat"))
  /\ Pop(r)
  /\ UNCHANGED <<runVars, executeVars, execs, pool, cancelVars, startupVars,
                 disk, containers, historyVars>>

-----------------------------------------------------------------------------
(***************************************************************************)
(* start() and execute().                                                  *)
(***************************************************************************)
Start(r) ==
  /\ Quiet /\ Serving
  /\ run[r].status = "absent"
  /\ run' = [run EXCEPT ![r].status = "queued"]
  /\ main' = [main EXCEPT ![r] = "spec"]
  /\ UNCHANGED <<agents, room, active, watch, execs, pool, chain, landed,
                 cancelVars, startupVars, disk, containers, historyVars>>

SpecWritten(r) ==
  /\ Quiet
  /\ main[r] = "spec"
  /\ main' = [main EXCEPT ![r] = "created"]
  /\ run' = run
  /\ Persist(r, Caller("start"))
  /\ UNCHANGED <<agents, room, active, watch, execs, pool, landed, cancelVars,
                 startupVars, disk, containers, historyVars>>

Execute(r) ==
  /\ Persisted(r, Caller("start"))
  /\ run' = [run EXCEPT ![r].status = "running"]
  /\ main' = [main EXCEPT ![r] = "started"]
  /\ PersistAfter(Tail(chain[r]), r, Caller("main"))
  /\ UNCHANGED <<agents, room, active, watch, execs, pool, cancelVars,
                 startupVars, disk, containers, historyVars>>

(* execute() continues after it persisted its start, or failed tasks.      *)
EnterLoop(r) ==
  /\ main[r] \in {"started", "failing"}
  /\ Persisted(r, Caller("main"))
  /\ Pop(r)
  /\ main' = [main EXCEPT ![r] = "loop"]
  /\ UNCHANGED <<runVars, room, active, watch, execs, pool, cancelVars,
                 startupVars, disk, containers, historyVars>>

ActiveIds(r) == {<<t, active[r][t]>> : t \in {u \in Tasks : active[r][u] # 0}}
(* skipTasksWithFailedDependencies: one pass in task order.                *)
Unsuccessful == {"failed", "skipped", "cancelled"}
Skipped(r) ==
  LET skip[t \in Tasks] == /\ run[r].task[t] = "pending"
                           /\ \E d \in DependsOn[t] :
                                \/ run[r].task[d] \in Unsuccessful
                                \/ d < t /\ skip[d]
  IN  [t \in Tasks |-> IF skip[t] THEN "skipped" ELSE run[r].task[t]]

(* Mutants of LoopCancelled: it does not wait for the active tasks; it     *)
(* waits although none is active.                                          *)
MutantLoopCancelled(r) ==
  /\ main[r] = "loop"
  /\ run[r].cancel
  /\ run' = [run EXCEPT ![r].task = Skipped(r)]
  /\ watch' = [watch EXCEPT ![r] = ActiveIds(r)]
  /\ main' = [main EXCEPT ![r] = "close"]
  /\ UNCHANGED <<agents, room, active, execs, pool, chain, landed, cancelVars,
                 startupVars, disk, containers, historyVars>>

MutantLoopNeverBreaks(r) ==
  /\ main[r] = "loop"
  /\ run[r].cancel
  /\ run' = [run EXCEPT ![r].task = Skipped(r)]
  /\ watch' = [watch EXCEPT ![r] = ActiveIds(r)]
  /\ main' = [main EXCEPT ![r] = "race"]
  /\ UNCHANGED <<agents, room, active, execs, pool, chain, landed, cancelVars,
                 startupVars, disk, containers, historyVars>>

LoopCancelled(r) ==
  /\ main[r] = "loop"
  /\ run[r].cancel
  /\ run' = [run EXCEPT ![r].task = Skipped(r)]
  /\ watch' = [watch EXCEPT ![r] = ActiveIds(r)]
  /\ main' = [main EXCEPT ![r] = IF ActiveIds(r) = {} THEN "close" ELSE "race"]
  /\ UNCHANGED <<agents, room, active, execs, pool, chain, landed, cancelVars,
                 startupVars, disk, containers, historyVars>>

LoopSchedules(r) ==
  /\ main[r] = "loop"
  /\ ~run[r].cancel
  /\ run' = [run EXCEPT ![r].task = Skipped(r)]
  /\ room' = [room EXCEPT ![r] = IF Cardinality(ActiveIds(r)) < MaxParallel
                                   THEN MaxParallel - Cardinality(ActiveIds(r))
                                   ELSE 0]
  /\ main' = [main EXCEPT ![r] = "dispatch"]
  /\ UNCHANGED <<agents, active, watch, execs, pool, chain, landed, cancelVars,
                 startupVars, disk, containers, historyVars>>

(* Mutant of Ready: a dependency that has been dispatched is enough.       *)
MutantReady(r, t) ==
  /\ run[r].task[t] = "pending"
  /\ \A d \in DependsOn[t] : run[r].task[d] # "pending"

Ready(r, t) ==
  /\ run[r].task[t] = "pending"
  /\ \A d \in DependsOn[t] : run[r].task[d] = "succeeded"

(* recordAgentCompletion: an instance is unhealthy from three failures on  *)
(* that its successes do not outnumber, if six in ten observations failed. *)
Healthy(r, i) ==
  LET f == agents[r].failed[i]
      c == agents[r].completed[i]
  IN  f < 3 \/ c > f \/ 5 * f < 3 * (f + c)

(* activeTaskIds lists the tasks that hold a slot, and may list one twice: *)
(* <<t, n>> is the n-th entry of t.                                        *)
EntriesOf(held, t) == {x \in held : x[1] = t}
Pushed(held, t) == held \cup {<<t, Cardinality(EntriesOf(held, t)) + 1>>}

CanRun(r, t, i) ==
  /\ i \in Fits[t]
  /\ Healthy(r, i)
  /\ Cardinality(agents[r].held[i]) < Capacity[i]

CanReserveWorker(r) ==
  /\ pool.workers < MaxWorkers
  /\ pool.cpu + Cpu[r] <= MaxCpu

Reserved(p, r, n) == [workers |-> p.workers + n, cpu |-> p.cpu + n * Cpu[r]]
Less(x, y) == IF x > y THEN x - y ELSE 0
Released(p, r) ==
  [workers |-> Less(p.workers, 1), cpu |-> Less(p.cpu, Cpu[r])]

Assignable(r, t, i) ==
  room[r] > 0 /\ Ready(r, t) /\ CanRun(r, t, i) /\ CanReserveWorker(r)

(* One decision of scheduleDistributedAgents carried out.  Priorities and  *)
(* scores choose among the assignable pairs; the model allows any.         *)
Assign(r, t, i) ==
  /\ main[r] = "dispatch"
  /\ Assignable(r, t, i)
  /\ LET a == run[r].attempt[t] + 1 IN
       /\ run' = [run EXCEPT ![r].task[t] = "running", ![r].attempt[t] = a,
                             ![r].where[t] = i]
       /\ execs' = execs \cup {[r |-> r, t |-> t, a |-> a, at |-> "mkdir"]}
       /\ active' = [active EXCEPT ![r][t] = a]
  /\ agents' = [agents EXCEPT ![r].held[i] = Pushed(@, t)]
  /\ pool' = Reserved(pool, r, 1)
  /\ room' = [room EXCEPT ![r] = @ - 1]
  /\ UNCHANGED <<main, watch, chain, landed, cancelVars, startupVars, disk,
                 containers, historyVars>>

Dispatched(r) ==
  /\ main[r] = "dispatch"
  /\ ~\E t \in Tasks, i \in Instances : Assignable(r, t, i)

RaceActive(r) ==
  /\ Dispatched(r)
  /\ ActiveIds(r) # {}
  /\ watch' = [watch EXCEPT ![r] = ActiveIds(r)]
  /\ main' = [main EXCEPT ![r] = "race"]
  /\ room' = [room EXCEPT ![r] = 0]
  /\ UNCHANGED <<runVars, active, execs, pool, chain, landed, cancelVars,
                 startupVars, disk, containers, historyVars>>

(* Nothing is active and no instance can take a ready task.                *)
FailUnplaceable(r) ==
  /\ Dispatched(r)
  /\ ActiveIds(r) = {}
  /\ \E t \in Tasks : Ready(r, t)
  /\ CanReserveWorker(r)
  /\ run' = [run EXCEPT ![r].task =
                [t \in Tasks |-> IF Ready(r, t) THEN "failed" ELSE run[r].task[t]]]
  /\ main' = [main EXCEPT ![r] = "failing"]
  /\ Persist(r, Caller("main"))
  /\ UNCHANGED <<agents, room, active, watch, execs, pool, landed, cancelVars,
                 startupVars, disk, containers, historyVars>>

ResourceDelay(r) ==
  /\ Dispatched(r)
  /\ ActiveIds(r) = {}
  /\ \E t \in Tasks : Ready(r, t)
  /\ ~CanReserveWorker(r)
  /\ main' = [main EXCEPT ![r] = "delay"]
  /\ UNCHANGED <<runVars, room, active, watch, execs, pool, chain, landed,
                 cancelVars, startupVars, disk, containers, historyVars>>

DelayEnds(r) ==
  /\ Quiet
  /\ main[r] = "delay"
  /\ main' = [main EXCEPT ![r] = "loop"]
  /\ UNCHANGED <<runVars, room, active, watch, execs, pool, chain, landed,
                 cancelVars, startupVars, disk, containers, historyVars>>

(* No task is ready: the pending ones wait for each other.                 *)
GiveUp(r) ==
  /\ Dispatched(r)
  /\ ActiveIds(r) = {}
  /\ \A t \in Tasks : ~Ready(r, t)
  /\ run' = [run EXCEPT ![r].task =
                [t \in Tasks |-> IF run[r].task[t] = "pending" THEN "skipped"
                                 ELSE run[r].task[t]]]
  /\ main' = [main EXCEPT ![r] = "close"]
  /\ UNCHANGED <<agents, room, active, watch, execs, pool, chain, landed,
                 cancelVars, startupVars, disk, containers, historyVars>>

FinalStatus(r) ==
  IF run[r].cancel THEN "cancelled"
  ELSE IF \E t \in Tasks : run[r].task[t] = "failed" THEN "failed"
  ELSE "succeeded"

Close(r) ==
  /\ main[r] = "close"
  /\ run' = [run EXCEPT ![r].status = FinalStatus(r)]
  /\ main' = [main EXCEPT ![r] = "closing"]
  /\ Persist(r, Caller("main"))
  /\ UNCHANGED <<agents, room, active, watch, execs, pool, landed, cancelVars,
                 startupVars, disk, containers, historyVars>>

Closed(r) ==
  /\ main[r] = "closing"
  /\ Persisted(r, Caller("main"))
  /\ Pop(r)
  /\ main' = [main EXCEPT ![r] = "none"]
  /\ UNCHANGED <<runVars, room, active, watch, execs, pool, cancelVars,
                 startupVars, disk, containers, historyVars>>

-----------------------------------------------------------------------------
(***************************************************************************)
(* executeTask(), recoverTask() and the containers.                        *)
(***************************************************************************)
MovedTo(e, at) == (execs \ {e}) \cup {[e EXCEPT !.at = at]}
Container(e) == containers[e.r][e.t]

(* Mutant of DirectoryMade: the container starts before the lease is saved. *)
MutantDirectoryMade(e) ==
  /\ Quiet
  /\ e.at = "mkdir"
  /\ execs' = MovedTo(e, "running")
  /\ containers' = [containers EXCEPT ![e.r][e.t] = "running"]
  /\ launches' = [launches EXCEPT ![e.r][e.t] = @ + 1]
  /\ UNCHANGED <<runVars, executeVars, pool, chain, landed, cancelVars,
                 startupVars, disk, epoch, unseen>>

DirectoryMade(e) ==
  /\ Quiet
  /\ e.at = "mkdir"
  /\ execs' = MovedTo(e, "saving")
  /\ run' = run
  /\ Persist(e.r, TaskCaller(e.t, e.a))
  /\ UNCHANGED <<agents, executeVars, pool, landed, cancelVars, startupVars,
                 disk, containers, historyVars>>

(* docker run; if the name is taken it fails, and the container that has   *)
(* the name is removed when the docker command closes.                     *)
LaunchContainer(e) ==
  /\ e.at = "saving"
  /\ Persisted(e.r, TaskCaller(e.t, e.a))
  /\ Pop(e.r)
  /\ execs' = MovedTo(e, "running")
  /\ containers' = [containers EXCEPT ![e.r][e.t] =
                      IF @ = "none" THEN "running" ELSE "none"]
  /\ launches' = [launches EXCEPT ![e.r][e.t] =
                    IF Container(e) = "none" THEN @ + 1 ELSE @]
  /\ UNCHANGED <<runVars, executeVars, pool, cancelVars, startupVars, disk,
                 epoch, unseen>>

ContainerExits(r, t) ==
  /\ Quiet
  /\ containers[r][t] = "running"
  /\ \E outcome \in {"ok", "bad"} \cup (IF DockerFaults THEN {"none"} ELSE {}) :
       containers' = [containers EXCEPT ![r][t] = outcome]
  /\ UNCHANGED <<runVars, executeVars, execs, pool, chain, landed, cancelVars,
                 startupVars, disk, historyVars>>

(* recordAgentCompletion or releaseAgentLease on the assigned instance.    *)
ReleasedBy(e) ==
  LET i == run[e.r].where[e.t] IN
  [agents[e.r] EXCEPT !.held[i] = @ \ EntriesOf(@, e.t)]
Completed(e, ok) ==
  LET i == run[e.r].where[e.t] IN
  IF ok THEN [ReleasedBy(e) EXCEPT !.completed[i] = @ + 1]
        ELSE [ReleasedBy(e) EXCEPT !.failed[i] = @ + 1]

(* Mutant of RetryStatus: >= for >.                                        *)
MutantRetryStatus(e) ==
  IF run[e.r].attempt[e.t] <= Retries[e.t] + 1 THEN "pending" ELSE "failed"

RetryStatus(e) ==
  IF run[e.r].attempt[e.t] <= Retries[e.t] THEN "pending" ELSE "failed"

(* The worker returns, times out (its container is removed) or, when its   *)
(* artifacts are refused, fails although it exited with 0.                 *)
WorkerReturns(e) ==
  /\ Quiet
  /\ e.at \in {"running", "waiting"}
  /\ \E ok \in {FALSE, Container(e) = "ok"} :
       /\ agents' = [agents EXCEPT ![e.r] = Completed(e, ok)]
       /\ run' = [run EXCEPT ![e.r].task[e.t] =
                    IF run[e.r].cancel THEN "cancelled"
                    ELSE IF ok THEN "succeeded" ELSE RetryStatus(e)]
  /\ containers' = [containers EXCEPT ![e.r][e.t] = "none"]
  /\ execs' = MovedTo(e, "closing")
  /\ Persist(e.r, TaskCaller(e.t, e.a))
  /\ UNCHANGED <<executeVars, pool, landed, cancelVars, startupVars, disk,
                 historyVars>>

Reattach(e) ==
  /\ Quiet
  /\ e.at = "recovering"
  /\ Container(e) # "none"
  /\ execs' = MovedTo(e, "waiting")
  /\ UNCHANGED <<runVars, executeVars, pool, chain, landed, cancelVars,
                 startupVars, disk, containers, historyVars>>

(* docker inspect finds no container: nothing asks whether the run was     *)
(* cancelled.                                                              *)
WorkerLost(e) ==
  /\ Quiet
  /\ e.at = "recovering"
  /\ Container(e) = "none" \/ DockerFaults
  /\ run' = [run EXCEPT ![e.r].task[e.t] = RetryStatus(e)]
  /\ agents' = [agents EXCEPT ![e.r] = ReleasedBy(e)]
  /\ execs' = MovedTo(e, "closing")
  /\ Persist(e.r, TaskCaller(e.t, e.a))
  /\ unseen' = IF Container(e) = "none" THEN unseen ELSE unseen \cup {<<e.r, e.t>>}
  /\ UNCHANGED <<executeVars, pool, landed, cancelVars, startupVars, disk,
                 containers, epoch, launches>>

(* Mutant of TaskEnds: the reservation is given back only on success.      *)
MutantTaskEnds(e) ==
  /\ e.at = "closing"
  /\ Persisted(e.r, TaskCaller(e.t, e.a))
  /\ Pop(e.r)
  /\ execs' = execs \ {e}
  /\ active' = [active EXCEPT ![e.r][e.t] = 0]
  /\ pool' = IF run[e.r].task[e.t] = "succeeded" THEN Released(pool, e.r) ELSE pool
  /\ IF main[e.r] = "race" /\ <<e.t, e.a>> \in watch[e.r]
       THEN /\ main' = [main EXCEPT ![e.r] = "loop"]
            /\ watch' = [watch EXCEPT ![e.r] = {}]
       ELSE UNCHANGED <<main, watch>>
  /\ UNCHANGED <<runVars, room, cancelVars, startupVars, disk, containers,
                 historyVars>>

(* The finally callback drops the task's active entry, whichever attempt   *)
(* put it there, and returns the reservation.                              *)
TaskEnds(e) ==
  /\ e.at = "closing"
  /\ Persisted(e.r, TaskCaller(e.t, e.a))
  /\ Pop(e.r)
  /\ execs' = execs \ {e}
  /\ active' = [active EXCEPT ![e.r][e.t] = 0]
  /\ pool' = Released(pool, e.r)
  /\ IF main[e.r] = "race" /\ <<e.t, e.a>> \in watch[e.r]
       THEN /\ main' = [main EXCEPT ![e.r] = "loop"]
            /\ watch' = [watch EXCEPT ![e.r] = {}]
       ELSE UNCHANGED <<main, watch>>
  /\ UNCHANGED <<runVars, room, cancelVars, startupVars, disk, containers,
                 historyVars>>

-----------------------------------------------------------------------------
(***************************************************************************)
(* cancel(): a run is cancelled at most once in the model.                 *)
(***************************************************************************)
Running(r) == {t \in Tasks : run[r].task[t] = "running"}

Cancel(r) ==
  /\ r \in Cancels /\ Quiet /\ Serving
  /\ run[r].status \in {"queued", "running"} /\ ~run[r].cancel
  /\ run' = [run EXCEPT ![r].cancel = TRUE, ![r].task =
                [t \in Tasks |-> IF run[r].task[t] = "pending" THEN "cancelled"
                                 ELSE run[r].task[t]]]
  /\ killing' = [killing EXCEPT ![r] = Running(r)]
  /\ cancelling' = [cancelling EXCEPT ![r] = "removing"]
  /\ UNCHANGED <<agents, executeVars, execs, pool, chain, landed, startupVars,
                 disk, containers, historyVars>>

RemoveWorker(r, t) ==
  /\ Quiet
  /\ t \in killing[r]
  /\ killing' = [killing EXCEPT ![r] = @ \ {t}]
  /\ containers' = [containers EXCEPT ![r][t] = "none"]
  /\ UNCHANGED <<runVars, executeVars, execs, pool, chain, landed, cancelling,
                 startupVars, disk, historyVars>>

CancelSaves(r) ==
  /\ Quiet
  /\ cancelling[r] = "removing" /\ killing[r] = {}
  /\ cancelling' = [cancelling EXCEPT ![r] = "saving"]
  /\ run' = run
  /\ Persist(r, Caller("cancel"))
  /\ UNCHANGED <<agents, executeVars, execs, pool, landed, killing, startupVars,
                 disk, containers, historyVars>>

CancelReturns(r) ==
  /\ Persisted(r, Caller("cancel"))
  /\ Pop(r)
  /\ cancelling' = [cancelling EXCEPT ![r] = "no"]
  /\ UNCHANGED <<runVars, executeVars, execs, pool, killing, startupVars, disk,
                 containers, historyVars>>

-----------------------------------------------------------------------------
(***************************************************************************)
(* A crash, and initialize(): the runs are loaded one by one, each is      *)
(* executed as soon as it is loaded, and containers of no running task are *)
(* removed at the end.                                                     *)
(***************************************************************************)
Crash ==
  /\ epoch < MaxCrashes
  /\ epoch' = epoch + 1
  /\ run' = [r \in Runs |-> disk[r].snap]
  /\ agents' = [r \in Runs |-> disk[r].agents]
  /\ main' = [r \in Runs |-> "none"]
  /\ room' = [r \in Runs |-> 0]
  /\ active' = [r \in Runs |-> [t \in Tasks |-> 0]]
  /\ watch' = [r \in Runs |-> {}]
  /\ execs' = {}
  /\ pool' = [workers |-> 0, cpu |-> 0]
  /\ chain' = [r \in Runs |-> <<>>]
  /\ landed' = [r \in Runs |-> FALSE]
  /\ killing' = [r \in Runs |-> {}]
  /\ cancelling' = [r \in Runs |-> "no"]
  /\ loading' = {r \in Runs : disk[r].snap.status # "absent"}
  /\ sweeping' = (loading' = {})
  /\ keep' = {}
  /\ UNCHANGED <<disk, containers, launches, unseen>>

(* The tasks initialize() reattaches.                                      *)
Recovered(r) == IF run[r].status \in Terminal THEN {} ELSE Running(r)

Reheld(r) ==
  [i \in Instances |->
     LET held == agents[r].held[i]
         missing == {t \in Recovered(r) :
                       run[r].where[t] = i /\ EntriesOf(held, t) = {}}
     IN  held \cup {<<t, 1>> : t \in missing}]

Load(r) ==
  /\ Quiet
  /\ r \in loading
  /\ loading' = loading \ {r}
  /\ sweeping' = (loading' = {})
  /\ keep' = IF loading' = {}
                THEN UNION {{<<s, t>> : t \in Running(s)} : s \in Runs} ELSE {}
  /\ IF run[r].status \in Terminal
       THEN UNCHANGED <<runVars, main, active, execs, pool, chain>>
       ELSE /\ run' = [run EXCEPT ![r].status = "running"]
            /\ agents' = [agents EXCEPT ![r].held = Reheld(r)]
            /\ execs' = execs \cup {[r |-> r, t |-> t, a |-> run[r].attempt[t],
                                     at |-> "recovering"] : t \in Recovered(r)}
            /\ active' = [active EXCEPT ![r] =
                            [t \in Tasks |-> IF t \in Recovered(r)
                                              THEN run[r].attempt[t] ELSE 0]]
            /\ pool' = Reserved(pool, r, Cardinality(Recovered(r)))
            /\ main' = [main EXCEPT ![r] = "started"]
            /\ Persist(r, Caller("main"))
  /\ UNCHANGED <<room, watch, landed, cancelVars, disk, containers, historyVars>>

CleanupOrphans ==
  /\ Quiet
  /\ sweeping
  /\ sweeping' = FALSE /\ keep' = {}
  /\ containers' = [r \in Runs |-> [t \in Tasks |->
                     IF <<r, t>> \in keep THEN containers[r][t] ELSE "none"]]
  /\ UNCHANGED <<runVars, executeVars, execs, pool, chain, landed, cancelVars,
                 loading, disk, historyVars>>

-----------------------------------------------------------------------------
ExecuteStep(r) ==
  \/ SpecWritten(r) \/ Execute(r) \/ EnterLoop(r)
  \/ LoopCancelled(r) \/ LoopSchedules(r)
  \/ \E t \in Tasks, i \in Instances : Assign(r, t, i)
  \/ RaceActive(r) \/ FailUnplaceable(r) \/ ResourceDelay(r) \/ DelayEnds(r)
  \/ GiveUp(r) \/ Close(r) \/ Closed(r)

TaskStep(e) ==
  \/ DirectoryMade(e) \/ LaunchContainer(e) \/ WorkerReturns(e)
  \/ Reattach(e) \/ WorkerLost(e) \/ TaskEnds(e)

CancelStep(r) ==
  \/ \E t \in Tasks : RemoveWorker(r, t)
  \/ CancelSaves(r) \/ CancelReturns(r)

Next ==
  \/ \E r \in Runs :
       \/ Start(r) \/ ExecuteStep(r) \/ Cancel(r) \/ CancelStep(r)
       \/ Write(r) \/ HeartbeatPersisted(r) \/ Load(r)
       \/ \E t \in Tasks : ContainerExits(r, t)
  \/ \E e \in execs : TaskStep(e) \/ Heartbeat(e)
  \/ CleanupOrphans \/ Crash

Spec == Init /\ [][Next]_vars

(* The process, the disk and Docker make progress and every worker ends    *)
(* within its timeout; calls, heartbeats and crashes need not happen.      *)
Progress ==
  \/ \E r \in Runs : ExecuteStep(r) \/ CancelStep(r) \/ Write(r)
                     \/ HeartbeatPersisted(r) \/ Load(r)
  \/ CleanupOrphans

FairSpec ==
  /\ Spec
  /\ WF_vars(Progress)
  /\ \A r \in Runs, t \in Tasks : WF_vars(\E e \in execs : e.r = r /\ e.t = t /\ TaskStep(e))

-----------------------------------------------------------------------------
(***************************************************************************)
(* Properties.                                                             *)
(***************************************************************************)

(* A task runs, and has a result, only after its dependencies succeeded,   *)
(* also in the graph that is continued after a restart.                    *)
DependencyOrder ==
  \A r \in Runs, t \in Tasks : \A d \in DependsOn[t] :
    run[r].task[t] \in {"running", "succeeded"} => run[r].task[d] = "succeeded"

(* "Hawk retries only when the task explicitly declared an available       *)
(* retry": whatever crashes, no task's container is started more often     *)
(* than its budget allows.                                                 *)
LaunchBudget ==
  \A r \in Runs, t \in Tasks : launches[r][t] <= Retries[t] + 1

(* "The task completes once": a task that succeeded on disk is never       *)
(* started again, in this process or a later one.                          *)
SuccessIsFinal ==
  [][\A r \in Runs, t \in Tasks : disk[r].snap.task[t] = "succeeded" =>
       /\ disk'[r].snap.task[t] = "succeeded"
       /\ launches'[r][t] = launches[r][t]]_vars

(* Each execution in use of the pool with each CPU it has reserved.        *)
CpuInUse == UNION {{e} \X (1..Cpu[e.r]) : e \in execs}

(* The pool counts exactly the executions in progress, over all runs.      *)
PoolExact ==
  pool.workers = Cardinality(execs) /\ pool.cpu = Cardinality(CpuInUse)

WithinCeilings == pool.workers <= MaxWorkers /\ pool.cpu <= MaxCpu

(* An instance holds exactly the tasks that run there, once each, and never*)
(* more than it may run at once.                                           *)
SlotsExact ==
  \A r \in Runs, i \in Instances :
    /\ agents[r].held[i] = {<<t, 1>> : t \in {u \in Tasks :
                              run[r].task[u] = "running" /\ run[r].where[u] = i}}
    /\ Cardinality(agents[r].held[i]) <= Capacity[i]

(* The books of the workers, the CPUs and the slots agree with what runs,  *)
(* and no ceiling is exceeded.                                             *)
BooksExact == PoolExact /\ WithinCeilings /\ SlotsExact

(* A run that reached its end has no work in progress or left undone.      *)
EndedRunSettled ==
  \A r \in Runs : run[r].status \in Terminal =>
    \A t \in Tasks : run[r].task[t] \in Settled

(* A container that runs belongs to a task that is running: nothing the    *)
(* engine forgot keeps working, unless Docker failed to show the container *)
(* when recovery asked for it.                                             *)
ContainerHasTask ==
  \A r \in Runs, t \in Tasks :
    containers[r][t] # "none" => run[r].task[t] = "running" \/ <<r, t>> \in unseen

(* A started run reaches a terminal status.                                *)
RunEnds == \A r \in Runs :
  (disk[r].snap.status # "absent") ~> (run[r].status \in Terminal)
=============================================================================
