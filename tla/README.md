# Hawk IDE: a verification project

TLA+ models of the parts of Hawk IDE (`src/`) that carry its own control logic,
TLC configurations that check them on small instances, and TLAPS proofs of the
facts that should hold for every instance. Paths below are relative to `src/`.

## 1. Inventory

Hawk is a Node.js daemon and a set of MCP servers around a workspace. Every
component runs on one event loop: code between two `await`s is atomic, anything
may happen between them, and the process may stop anywhere. Shared state is
in-memory maps, JSON snapshots under `.hawk/`, and processes (Docker
containers, AI workers) that survive the daemon. The smart brain starts smart
runs; an MCP task is bridged to one; sandbox reproductions and AI batches start
orchestrator runs; missions call the analyses one after the other; and nearly all
of them write through the durable store.

| Component | State | Operations | Hard behaviour | What makes it correct |
| --- | --- | --- | --- | --- |
| Durable store (`src/ide/durableStore.ts`) | one FIFO write chain, JSON snapshots, JSONL logs | writeJson, appendJsonLine, readJson, listJson, readJsonLines, deleteJson | snapshot is serialised when its turn comes, not when it is requested; truncated last line after a crash | writes reach the disk in call order; a reader sees whole snapshots |
| Smart run engine (`src/ide/smartRunEngine.ts`) | runs, active executions, abort controllers, event chain | start, control (pause, resume, cancel), execute, executeNode, record, shutdown, initialize | controls and retries racing with awaited records; crash between event and snapshot | dependencies first, bounded attempts, abort propagation, durable outcome, one end for every run |
| Smart brain, policy, planner (`src/ide/smartBrain.ts`, `scopePolicy.ts`, `smartPlanner.ts`) | goals, plans, approvals | compileGoal, createPlan, approvePlan, startRun | approval expiry and plan change between approval and start | a run starts only under an approval of that exact plan |
| MCP task store and bridge (`src/ide/durableMcpTaskStore.ts`, `smartMcp.ts`) | MCP tasks, task-to-run mapping | createTask, storeTaskResult, updateTaskStatus, cleanup, reconcile | completion racing cancellation; restart between run creation and mapping | exactly one terminal transition; terminal tasks never change |
| Docker orchestrator (`src/ide/orchestrator.ts`, `distributedScheduler.ts`) | runs of tasks, agent instances with slots and leases, global CPU/RAM/worker pool | start, cancel, execute, executeTask, recoverTask, persist, initialize, shutdown | torn snapshots, recovery of retained containers, shared ceilings | no slot leaked, ceilings kept, every task ends once, retries within budget |
| Agent fleet (`src/ide/agentFleet.ts`) | registered nodes | register, heartbeat, revoke, snapshot, planDispatch | read-check-write across awaits | a revoked node stays revoked; plans do not overbook |
| Governed memory (`src/ide/governedMemory.ts`) | memory entries | write, query, auditProvenance, revoke | audit racing revoke | a revoked memory is never returned again |
| AI sessions (`src/ide/aiSessionManager.ts`) | one JSON snapshot per session, worktree, worker process, patch | create, continue, pause, resume, cancel, runTests, reproduce, semanticReview, apply, reject, revert, initialize | every operation works on its own copy of the snapshot; two resumes; restart recovery | one worker per worktree, apply bound to the reviewed patch and passed gates |
| One-click mission (`src/ide/oneClickMission.ts`) | mission record and stages | start, resume, cancel, recover, execute | cancel racing execute | a cancelled mission stays cancelled |
| Identity replay, sandbox reproduction (`src/ide/identityReplay.ts`, `sandboxReproduction.ts`) | plans with TTL | createPlan, execute | double execution, expiry, changed sources | a replay plan runs once, within its TTL |
| Edit prediction (`src/ide/editPredictionEngine.ts`) | two caches, in-flight maps, scorecard and its persist queue | predict, predictMultiFile, clearCache, recordFeedback, dispose | cache cleared while a request is in flight; timer, feedback and dispose persist the same file | one generation per prompt, a scorecard that never goes back |
| Agent loop and its bridges (`src/agent/agent.ts`, `src/ui/permBridge.ts`, `askBridge.ts`, `src/session/store.ts`) | conversation, session file, permission lock and cache, the question shown | run, tool calls, ask, compact, reset, injectSkill, resumeSaved, abort | parallel tool calls, prompts that queue, an abort between two results | every request answers every call; one prompt at a time; a guarded tool runs as allowed; a turn ends |
| Semantic index (`src/ide/semanticIndex.ts`, the editor's reports in `extensions/hawk-security-ide/src/hawkCodingCore.ts`) | the map of files in memory, the chunks a search ranks, one build at a time, a snapshot of all of it | ensureBuilt, build, updateFile, removeFile, load, persist, the rebuild timer | a build empties the map it looks things up in while updates change it; load, build and persist overlap; a restart trusts the snapshot | at rest a search finds every file as it is; facts kept from an older build are those of the text |
| Daemon client (`extensions/hawk-security-ide/src/daemonClient.ts`, `src/ide/daemonCli.ts`) | the active daemon, the start in progress, the child processes | start, restart, dispose, the descriptor, the deadline, exits | starts share one promise; a late descriptor, a late exit, a slow close | one daemon lives and the client knows it; every start is answered |
| Browser capture, traffic (`src/browser`, `src/ide/traffic.ts`) | bounded capture maps | ingest, list, clear | limits | bounds hold, newest entries kept |
| Intelligence stores, findings, coverage (`src/intelligence`, `src/findings`, `src/coverage`) | JSON files | load, save, record | concurrent writers | no lost record |
| Model router, providers, retry (`src/llm`, `src/ide/modelRouter.ts`) | profiles, circuit state | route, complete with retry | timeouts and retries | bounded retries |
| MCP server, UI, tools, rest of the daemon and the extension, integrations, desktop, egress proxy | HTTP and MCP routing, editor views | request handlers | mostly I/O | out of TLC's reach or pure I/O |

## 2. The modules

In all modules code between two `await`s is one action, so the interleavings of
the model are the ones the event loop can produce; a crash may come between any
two actions, and what is on disk (or a Docker container) is what survives it.
Every definition's lines are in `PROJECT.json` under `map`; definitions named
`Mutant...` are the broken variants that show each property can be violated. An
`MC...` module gives the instances of its module.

| Module | Models | Composed of |
| --- | --- | --- |
| `SmartRunEngine` | one durable run over the store | |
| `Orchestrator` | runs of Docker tasks that share the pool | |
| `McpTask` | task store, bridge, reconciliation | refines `OneShotTask` |
| `AiSession` | one AI session, its workers and its workspace | |
| `AgentLoop` | a conversation, its tools and its prompts | |
| `DurableWrites` | the write chain as the small services see it | |
| `Missions`, `Registries` | missions; fleet and memory | `DurableWrites` |
| `EditPredictions` | prediction engine | |
| `Daemon` | start-up, routes, close and restart | `Missions`, `Registries`, `EditPredictions` |
| `SemanticIndex` | the index, and the editor that reports to it | |
| `DaemonClient` | the extension's client and the daemons it spawns | |
| `SmartRunProofs`, `OrchestratorProofs`, `McpTaskProofs`, `AiSessionProofs`, `DaemonProofs`, `AgentLoopProofs`, `SemanticIndexProofs`, `DaemonClientProofs` | theorems | the module each is about |

### `SmartRunEngine` (`src/ide/smartRunEngine.ts` over `durableStore.ts`)

One run. `status`, `pause`, `cancel`, `node`, `attempt`, `seq` and `lastHash` are
the live `SmartRun`; `main` is where `execute()` is, `active` its map, `watch` what
its `Promise.race` or `allSettled` waits for; each element of `workers` is one
`executeNode` call with the signal it was given; `controller` is the engine's map
of abort controllers. `queue` is the store's write chain and `done` says that its
head's effect is on disk while its caller has not resumed. `snapshot`, `log`,
`torn` and `artifacts` are the disk.

`Record` is `record()`: the event is numbered when the call is made, its line is
appended when its turn comes, and only then is the snapshot queued, which holds
the *live* object at the time of its own turn. `Start`, `Pause`, `Resume`, `Cancel`
and `Shutdown` are the calls from outside. `Begin` ... `Closed` are the stretches of
`execute()`, of which "loop", "dispatch" and "close" run in one stretch of
microtasks, so nothing else is enabled then (`Quiet`). `NodeStarted` ...
`NodeClosed` are the stretches of `executeNode`; `Catch` is its catch block, whose
record is awaited while the loop may already dispatch the node again.
`CrashAndInitialize` loses everything but the disk, and recovers.

`MCSmartRunEngine` gives the plans: independent nodes, a chain, a join.

### `Orchestrator` (`src/ide/orchestrator.ts`, `distributedScheduler.ts`)

Several runs, each with the tasks and agent instances of its own, that share `pool`.
`execs` are the `executeTask` and `recoverTask` calls in progress, `active` the run's
map of them, `chain` each run's persists in flight. A persist carries a copy of the
tasks made when it was called, but reads `agents` when it is written, as `snapshotOf`
does. An agent's list of current tasks is the set `held` of its entries `<<task, n>>`,
because the list can name a task twice. `containers` outlive the process. `Assign` is
one decision of the scheduler: any healthy instance with room and the capabilities,
since the score only chooses among those. `killing` and `cancelling` are the cancel
call's loop over containers; `Load` is `initialize()` for one run and `CleanupOrphans`
its end.

### `McpTask` and `OneShotTask` (`src/ide/durableMcpTaskStore.ts`, `smartMcp.ts`, `mcpServer.ts`)

Tasks, the serialised transitions of each of them (`ops`, `opAt`), the waiter that
starts a run and stores its outcome (`at`, for the process that created the task
and for one that resumed it), and `reconcileDurableMcpTasks`. The run engine is
abstract here (created, launched when its creation is on disk, ended, settled);
its FIFO write chain is shared. `OneShotTask` is what a task promises: it is
created once, settled at most once, and keeps its result. `TaskIsOneShot` says
that every task of `McpTask` is such a task.

### `AiSession` (`src/ide/aiSessionManager.ts`)

One session. An actor is a call in progress: a request, the finaliser of a worker,
or `initialize()`. Each holds the `copy` of the session it loaded and the await it
is `at`; `file` is the session's snapshot and `queue` its save queue, whose entries
are copies. `map`, `life`, `controller` are the manager's maps of workers, lifecycles
and test controllers. Contents of the worktree are numbers: the diff, the patch
file, the hash and what `git apply` puts into the workspace are known by the
content they lead to. `passedOn` remembers what each gate last passed on.
`Request` opens a call, the actions named after operations are its stretches;
`Launch` and `Spawn` are `startWorker` around the save; `Finish` ... `Settle` the
finaliser, with `FinishHalfCaptured` for a `captureDiff` that fails after it wrote
the patch; `Tests`, `GatesRun`, `Accept` and `Repair` the automatic verification.

### `DurableWrites`, `Missions`, `Registries` (`durableStore.ts`, `oneClickMission.ts`, `agentFleet.ts`, `governedMemory.ts`)

A call reads a record, awaits, and queues a write of its whole copy. `Read`,
`Write`, `Leave` and `WriteNext` are these steps, and the services are built from
them: a mission's executions, cancels and recovery each work on a run of their
own; a heartbeat, a revocation and each entry an audit writes are one read and one
later write. `withdrawn` remembers the revocations that nothing overlapped.

### `EditPredictions` and `Daemon` (`editPredictionEngine.ts`, `daemon.ts`)

`Ask`, `Hit`, `Continuation`, `Join`, `Miss` and `Generated` are the stretches of
`predict` and `predictMultiFile`; `flight` is both in-flight maps and `fresh`
remembers who generates since the last clear. The scorecard is the number of its
updates, `persists` its queue; a write of it may fail, which nobody is told
(`PersistNext`). `Put` is the insertion of an answer with the eviction of older ones.
`Daemon` has the services side by side: `Serving` says that no request is handled
before the recovery of the missions is over, `Restart` keeps the disk only and reads
it again, where `initialize()` of the predictions may find a scorecard that it cannot
use and start clean beside it. `unread` remembers that the process has neither read
nor written what the scorecard file holds, `lost` that neither the write of
`dispose()` nor a later one has succeeded.

### `AgentLoop` (`src/agent/agent.ts`, `src/tools/registry.ts`, `src/ui/*Bridge.ts`, `src/session/store.ts`)

`history` is the list of messages a request sends, reduced to who speaks and which
call a result answers; `file` the session file. `turn.at` is where `run()` is:
"compact", "ask" (before the user's message), "save", "step", "chat", "tools" or
"summary". `call` has each tool call of the step: "todo", then, if it needs a
permission, "parked" behind the lock, "woken" with it, "modal" on the screen; then
"running", "done", "recorded". `Turns` is the loop or the pool, `Asks`, `Woken`,
`Decided` and `Release` are `BridgedPrompter.ask`, `QuestionAnswered` the other
bridge, and `Esc` the abort, whose listeners reject what is on the screen.
`Reconciled` is `reconcileToolCalls`: the set of what it pushes (`Pushes`), each message
and each made-up result with its place, in the order of the places (`Nth`).

### `SemanticIndex` (`src/ide/semanticIndex.ts`, `hawkCodingCore.ts`)

`files` is `this.files`, `chunks` what a search ranks, `disk` the snapshot. A table
gives each file its `stat` (the stamp) and its `content`; a version number stands for
the text and for its size and mtime. `build` has the local variables of `buildNow`
and where it is: "load", "scan", "stat", "read", "embed", "persist"; `loading` is
`loadPersistentIndex`, which a request or a build starts. `call` has the requests:
"load" and "wait" (for a build), then "stat", "read", "land", "embed", "persist" of an
update, or "remove". `stored` says that a snapshot exists: one without files loads like
any other, and only a missing one, or one over the limits, makes `Loaded` go on to a
build. `todo` is the set of files a build still has to read, taken two
at a time in the order of the scan (`Order`, a constant): `Integrate` consumes the
live map, `Swap` replaces it; `Detached` is what becomes of a build whose map a late
load replaces. `unsure` and `met` remember the files that `SavedIsIndexed` does not
speak of: those at which two operations met, those changed behind the editor's back,
and those whose report was rejected, until a build has read them again. `unsaved`
remembers the files whose facts may not be on disk: their persist failed, began while
another was under way (nothing orders the two renames) or ran beside a build; a
`Restart` adds those of them to `unsure` whose facts indeed are not there (`Differs`).
`Prompt` keeps steps together that only microtasks separate.

### `DaemonClient` (`daemonClient.ts`, `daemonCli.ts`)

`active` and `starting` are the client's fields, `daemon` the processes by the order
in which they were asked for: "keychain" (the key is being read), "booting",
"serving", "closing", "ended", and "gone" when the exit event has been handled.
`settled` is the flag of `finish()`, `killed` says that SIGTERM was sent. `Descriptor`,
`StartFails` (the deadline, or a line that is no descriptor) and `ExitSeen` race to
settle a start.

## 3. The runs

| Run | Instance | Shows |
| --- | --- | --- |
| `SmartRun_controls` | 3 independent nodes, 2 in parallel, no retry, 2 of pause, resume, cancel, shutdown | aborts reach every executor, running nodes have their worker and no more, a readable event chain, a queued run is launched |
| `SmartRun_crash` | 2 independent nodes, one of them with a retry, and a third that depends on both; 2 in parallel, 1 control, 1 crash, fairness | bounded attempts also where those of a node overlap, dependency safety, durable artifacts, an acknowledged cancel is durable and nothing starts after it, an outcome on disk is final, every run ends |
| `Orchestrator_shared` | 2 runs that share the pool, a cancel, heartbeats | pool and slots exact and within the ceilings, an ended run is settled |
| `Orchestrator_crash` | a join of 3 tasks and a cycle of 2, a task with two retries, Docker failures, a cancel, a crash, fairness | dependency order, the launch budget over restarts, no container without its task, a success on disk is never repeated, every run ends |
| `McpTask_bridge` | 2 tasks of one plan, 2 runs, a client's cancel, a crash | a task's end and its run agree, no task is left behind, one open run for a plan, the refinement |
| `AiSession_review` | 2 contents, review by hand, all ways to stop, a crash | what is applied was reviewed and passed, one worker and none at rest, patch and worktree intact, applied means patched |
| `AiSession_auto` | 1 content, two gates, one repair, captures that fail half-way, checkpoints, a crash, fairness | the repair budget, a session at work stops being at work |
| `AiSession_stale_patch` | 2 contents, a failed repair, a resume | violation, section 5 |
| `Daemon_services` | a mission with 2 executions and a cancel; a node; 2 entries; 3 prompts; failing writes of the scorecard; a restart that may not be able to read it | revocations last, missions come to rest, one generation per prompt, a scorecard that was read or written is kept |
| `AgentLoop_turns` | batches alone, in a pool of 2, with two guarded tools and a question; 2 turns or commands, Esc, a restart, fairness | requests stay paired, one prompt at a time, guarded tools run as allowed, turns end |
| `SemanticIndex_updates` | 3 files, one of them blank, 2 requests at once; 2 edits, a search or rebuild, a failed persist, a restart | what met nothing is indexed at rest, after a restart too if its persist succeeded and ran alone; stamps are sound |
| `DaemonClient_starts` | 3 callers, 2 workspaces, 3 daemons, fairness | one daemon, known to the client; every start is answered |

**Bounds.** A crash bound of 1 exercises recovery, which starts from the disk
alone, from every disk a first process can leave. What a recovered process leaves
to a second crash is beyond the runs; the theorems of section 4 hold for any
number of crashes. Two controls are the least that meet each other (resume after
pause, cancel after pause, cancel twice); `SmartRun_controls` has them, and three nodes
with two in parallel, the least for which the parallel bound makes one wait.
`SmartRun_crash` has two independent nodes of which the first has a retry: while the
record of its failure is awaited the end of the second wakes the loop, which
dispatches the first again, so that two attempts of it overlap (the run reaches this
state). That leaves room for one control; a chain of two nodes with a retry each and two
controls, where attempts cannot overlap, satisfies the seven properties as well. For the orchestrator two
runs are the least that share a pool, and a join of three the least in which a
task waits for two others. Two tasks and two runs of one plan are the least that
share a run and may need a second one. A session needs two contents for a patch
that is not the worktree's, and two workers for one to outlive the other; a pool
of 2 makes the third call of a batch wait (the code's pool is 4); two executions,
two heartbeats and two entries are the least that overlap. Two requests and two
edits are the least that meet in the index, a third file makes a build read in two
batches (it reads two at a time) and one of them is blank because such files are
indexed without facts; three daemons are the one that ended, the one that is
starting and the one that follows. The services of `Daemon`
share only the write chain, so a run exercises one of them at a time
(`Workloads`). The bounds themselves are `MaxControls`, `MaxCrashes`, `MaxRuns`,
`MaxCancels`, `Cancels`, `Heartbeats`, `MaxWorkers`, `Operations`, `MaxEntries`,
`MaxScore`, `MaxRestarts`, `MaxSteps`, `MaxTurns`, `MaxEdits`, `MaxRequests`,
`MaxFailures` and `MaxSpawns`; deadlock is not checked, because a
program whose work is over and whose client is silent stops.

**Split of the features.** `SmartRun_controls` has no retries: with them the
properties that it checks are not all true (section 5). For the same reason
`HistoryReadable` and `WorkersMatchNodes` are checked without crashes,
`SmartRun_crash` leaves failures of the knowledge graph out, and `BooksExact` is
checked without a crash. `AiSession` has `Overlap` FALSE in all runs: two requests of
one session do not overlap, except that cancel, pause, cancelTests and dispose may
come at any time; what two overlapping requests can do is in section 5. The automatic
run has no pause and no cancel, because a late save of their stale copy resets the
repair count; section 4 says the same of `RepairsWithinBudget`. `TurnEnds` is checked
with at most one question in a batch. The index has room for every file and embeddings
on (`MaxBytes` 6, so no branch of the limits is taken). With `MaxBytes` 3, where facts
that no longer fit are dropped, both properties were checked too, and the theorems
hold of every limit.

The types of the variables are no property of a run: `TypeCorrect`,
`OrchestratorTypeCorrect`, `McpTypeCorrect` and `SessionTypeCorrect` prove them for
four modules, and the inductive invariants of the other proofs contain them.

**Fairness.** `SmartRunEngine` has weak fairness of `EngineStep`: the event loop and
the disk keep going, an executor returns, fails or meets its timeout
(`withTimeout`), and nobody need call a control or crash. `Orchestrator` has weak
fairness of `Progress` and, for each task, of its own steps: a container that hangs
is stopped by its timeout, and one task's steps do not wait for another's.
`AiSession` has weak fairness of each actor's steps and of the end of each worker,
whose turn is bounded by its limits. `AgentLoop` has weak fairness of `Step`: awaits
end, the provider answers or fails within its timeout, and the user answers what
the terminal shows. `DaemonClient` has weak fairness of the keychain's answer, the
start deadline and the exit event of each daemon, and none of the descriptor: a
child that prints nothing is what the deadline is for. The fairness of
`SemanticIndex` (disk, embeddings, the rebuild timer) is stated for the reader; its
two properties are invariants. Controls, cancels, heartbeats, requests, Esc and crashes are
never fair. `McpTask` needs none: `Progress` takes no step twice without a new
request, so `NoTaskLeftBehind` says as an invariant that some step is enabled as
long as a task is open.

## 4. The proofs

For all values of the constants allowed by the named assumptions; where a theorem
has a hypothesis of its own it is said here, with the behaviour that makes it
necessary.

`SmartRunProofs`
- `TypeCorrect`: the type invariant, which is inductive, one lemma for each group
  of actions.
- `RetriesBounded`: `BoundedAttempts`. `AttemptInv` adds that a *pending* node has an
  attempt left and that both hold of the snapshot, which a recovery restores.
  Overlapping attempts do not matter: the bound is tested in the catch block, on
  the node's count.
- `CancelIsDurable`: `CancelAckedDurable`. `CancelInv` adds that an operation of a
  cancel in the chain implies the flag, that the flag on disk implies the flag in
  memory, and that a cancel's snapshot which is on disk carries it. The snapshot
  is of the live object, so every later one carries it too. All steps but five
  are `Steady`: they leave flag and disk alone, free the head of the chain or queue
  one operation that is not a snapshot and not a cancel's.
- `NothingStartsAfterCancel`: `NoStartAfterCancel`, from it: `executeNode` tests the
  flag after the await that precedes the executor.
- `OutcomeIsFinal`: `DurableOutcomeFinal`. `FinalInv` adds that the live run agrees
  with a final snapshot and that a run which is over has no execution left but one
  that is closing; every other step that changes a status refuses such a run.
- `ArtifactsAreDurable`: `ArtifactDurable`. `ArtifactInv` says the same of the live
  run, so that a snapshot, which is of the live run, inherits it, and that an
  artifact's write whose effect is there has its artifact.
- `DependenciesHold`: `DependencySafety`, if updates of the graph do not fail ("link"
  is not in `StoreFaults`): one that fails sends a node that has succeeded through the
  catch block, which sets it back to pending while a dependent may run (section 5).
  `DepInv` adds that at most one attempt of a node is before its end (overlapping
  attempts are a new one and one that only records its failure), that its
  dependencies have succeeded, and that the snapshot is in order by itself.
- `QueuedIsLaunched`: `QueuedRunIsLaunched` until the first crash (after it, a run
  that was paused while it started is queued and paused). `LaunchInv` says that the
  entry which will launch a queued run is in the write chain, and that it comes
  behind the closing one of an execution which has not ended.
- `HistoryIsReadable`: `HistoryReadable` until the first crash (a torn line or an event
  without its snapshot breaks the chain, section 5). `HistoryInv` says that the events
  in the log and those which wait in the write chain are, together and in order,
  all events so far.
- `AbortsPropagate` and `WorkersAndNodesMatch`: `AbortPropagation`, and
  `WorkersMatchNodes` until the first crash, of a plan that runs one node at a time or
  retries none (`Solo`: otherwise the end of a failed attempt deletes the entries of
  its retry, section 5 (a)). `SoloInv` says that a node has at most one worker, which
  its controller and its active entry name, that a running node has one, and that an
  execution at its end has none.

`OrchestratorProofs`
- All of it rests on `Inv`, which is about the history of a run: the disk, the persist
  calls on their way, each with the copy it carries, and the memory. Every snapshot in
  this history is sound by itself (`SoundInv`: budget and dependency order), and the
  history is ordered (`OrderInv`: attempts only grow, a success stays). `BusyInv`,
  `UniqueInv`, `LoadingInv` and the two parts about saves tie the executions to it: one
  that waits for its persist is the current attempt, and every copy from that
  persist on shows it running.
- `OrchestratorTypeCorrect`: the types. `DependenciesFirst`: `DependencyOrder`, from
  `SoundInv`; the skipping of a failed task's dependents, a loop in the code until
  nothing changes, is reasoned about with a least element of a set (`Least`) in place
  of an induction.
- `LaunchesWithinBudget`: `LaunchBudget`. `LaunchInv` says that each start belongs to an
  attempt that is on disk, so a restart cannot forget it.
- `TaskCompletesOnce`: `SuccessIsFinal`, an action property: the disk is first in the
  order, and no execution of a task that succeeded is before its start.
- `ContainersHaveTasks`: `ContainerHasTask`. `ContainerInv` says that everything a restart
  could find shows the task as running, so the recovery looks for its container.
- `PoolCountsExecutions`: the pool counts the executions and the CPUs they hold, over all
  runs and any crashes. `PoolInv` is inductive over `Inv`: each step reserves for one
  execution more, releases one, moves one or leaves all as they are, or the process
  ends and all are gone. The CPUs in use are the cardinality of a set, so that one
  execution more or less needs no induction.
- `BooksAreExact`: `BooksExact` until the first crash: the ceilings and each agent's slots as
  well. `FirstInv` says that `held` has one entry of each task that runs on the agent.
  After a crash a recovered worker is reserved without asking the ceilings, and a
  snapshot may hold agents that are ahead of its tasks (section 5).
- `EndedRunsAreSettled`: `EndedRunSettled`, after any crashes, if no task is retried: the
  end of a failed attempt deletes the active entry of its retry (section 5 (c)).
  `EndInv` says that a running task has an active entry, that an execution which is
  closing has settled its task and `execute()` all of them when it closes the run,
  and that every copy of the run, in memory, on its way and on disk, is in order.

`McpTaskProofs`
- `Invariant`: `IInv`, inductive. A write that settles a task stays in the chain only
  while the task's operation is "writing" and the task is "working"; no two
  entries of the chain settle (or create, or notify for) the same task; an
  operation that has begun is the head of its queue; a task that is not on disk is
  not known to anyone.
- `McpTypeCorrect`: the type invariant, a part of it.
- `TasksAreOneShot`: every step of `McpTask` is, for every task, a step of
  `OneShotTask` or a stutter. `IInv` is what excludes a second settling write.
- `MatchingInvariant`: `MInv`, inductive, about tasks, runs and the order of the chain
  between them. What the disk does not show yet is in the chain (`Announced`); an
  entry finds in memory what it was made for (`Fits`); the creation of a run comes
  before every mapping to it, and what is left of an open run before the creation of
  the next one of its plan (`Before`); a task is bound to the run its mapping will
  name, and is told only what is true of that run on disk (`Mapped`, `Told`).
- `TasksMatchRuns`: `TaskMatchesRun`. Of the store's listener and the bridge's own check
  after the mapping the second to look sees what the first wrote (`CancelSeen`).
- `OneRunPerPlan`: `OneOpenRunPerPlan`. In memory it is the test of `start`
  (`OneOpen`); on disk it is the order of the chain.

`AiSessionProofs`
- `SessionTypeCorrect`: the type invariant, of every instance.
- The other theorems are about a manager in which requests of a session come one at
  a time, except for cancel, pause, cancelTests and dispose, and the user asks for the
  tests (`Manual`). Without it two resumes start two workers, late saves of stale copies
  undo each other, and `AiSession_stale_patch` applies an unverified patch.
- `WorkersAlone`: `OneWorker`, for any number of workers, stops and crashes.
  `WorkerInv` says that who is about to start a worker is alone with the session
  (`Alone`, `Written`), that the maps of workers and lifecycles name the one that is
  there (`Registered`, `Lives`), that a finaliser acts only when its worker has ended, and
  that while a worker is alive every copy says running, until the stop that will kill
  it (`Working`); hence nobody else is at work, and no stale copy can revive a session.
- `AppliedTogether`: `AppliedOnDisk`, which speaks of the time before the first crash.
  `AppliedInv` follows the one request that changes the workspace through its save:
  from the change to the save nobody else has a copy that he will save.
- `RetainedIsIntact`: `ReviewIntact`, also after crashes, if no checkpoint is restored: a
  crash in `restoreCheckpoint`, after the tree and the patch file are written and
  before the save, breaks it (section 5). `RetainedInv` says that patch, worktree and
  the copies in use agree on a diff that is kept (`Agreed`, `Beside`), that who is about
  to start a worker has none (`Fresh`), and that the worktree goes only when the file
  says that the session is over (`Removing`, `Removed`).
- `OnlyVerifiedIsApplied`: `AppliedWasVerified`, an action property, if moreover no
  capture fails half-way (one that does leaves the green gates of the older patch).
  `VerifiedInv` says of every copy, on disk, in the queue or in the hands of a call,
  that a gate it marks as passed last passed on its diff.
- `RepairsWithinBudget`: `RepairBudget`, of automatic sessions with any gates, budget,
  workers and crashes, whose requests do not overlap and are none of cancel, pause and
  dispose (`Uninterrupted`). `BudgetInv` says that one call at a time holds the session
  and passes it to the worker it starts (`Sole`, `OneSave`), that its copy is the file
  but for what it is about to save, that a repair is counted in the file before its
  worker starts (`Progressing`, `Counted`), and that a worker at work is one the file
  knows of (`Attended`). With pause, with dispose, with cancel and reject together or
  with background resumption TLC finds the budget exceeded (section 5).

`DaemonProofs`
- `WithdrawnLasts`: `WithdrawnStays`, for any records, calls, stages and restarts.
  `StoreInv` says of a withdrawn record that its file is revoked, that every entry
  of the chain which writes it revokes it, and that no call in progress can undo
  it: no mission of it is in a stage, every copy that was read of it is revoked
  (so a heartbeat is refused and a resume too), and no audit still has it to
  write. A record enters `withdrawn` when the write that revokes it is done and
  the other calls of its collection are idle; then their copies are not read yet.
- `GeneratedOnce`: `OneGenerationPerPrompt`. `GenerationInv` adds that whoever
  generates a single-file prompt since the last clear is the one in the in-flight
  map; so another one joins it, and only its own end removes it.
- `ScorecardKept`: `ScoreKept`. `ScoreInv` adds that the snapshots in the queue are
  sorted (`Ordered`) between what is on disk, if the process knows it, and the live score
  (`AboveFile`), and that `dispose` waits for enough of them (`Owing`). Two cases are
  excepted because the code does not keep them (section 5): the file of a start that
  could not read it, until it is written, and a `dispose` whose own write fails and
  every later one too. A failed write followed by a successful one loses nothing, since
  every snapshot has all updates before it.
- `MissionsRest`: `MissionRests`, in a daemon that keeps missions and recovers them.
  `RestInv` says of every run on disk, in the chain or in the hands of a call that
  its stages fit its status; that one which says it runs is in a stage, is about to
  be written or waits for the recovery; and that while the recovery is to come
  nothing else is under way and its copy is what is on disk.

`AgentLoopProofs`
- `PromptsOneByOne`: `OnePrompt`, and `GuardedToolsAllowed`: `RunsAllowed`, for any
  batches, pool size, steps, turns and restarts. `PromptInv` says that the lock is
  held by exactly one woken or shown call (`Locked`), that what the terminal shows
  belongs to the call that waits for it (`Shown`), that the waiters are the parked
  calls, once each (`Queue`), that no call is under way outside "tools" (`Quiet`),
  that in the sequential loop the calls before one that has begun are recorded
  (`InOrder`, so that an abort between two calls leaves no prompt behind), and
  `RunsAllowed` for every place of a call (`Permitted`).
- `RequestsArePaired`: `RequestsPaired`. `TalkInv` says of the history and of the file that
  each result stands in the run of results after a message that called for it, once
  (`Sound`); that a history on its way to a request misses none (`Complete`); and that
  while tools run the last message with calls is followed by the results of its first
  `m` calls, which are the recorded ones (`OpenAt`; `InOrder` gives the next). The core
  is `Reconciling`: repairing any sound history makes it complete. Its result is a
  sequence ordered by rank (`Ranked`: the rank is a bijection that respects the order),
  and what is pushed between a message and the next one that is no result (`Group`)
  answers each of its calls once; so the loop over the messages needs no induction.

`SemanticIndexProofs`
- `StampsAreSound`: `ReuseIsSound`, for any files, requests, limits and restarts.
  `IndexInv` says of every table (in memory, in a build, in a request, in a load and
  on disk) that a stamp is never newer than the text it stands for, nor that text
  than the file; and of a request or a build on its way that nothing was read before
  the stat was taken. Files only get newer, which keeps all of it.
- `SavesAreIndexed`: `SavedIsIndexed`, for any files, order of the scan, requests, limits,
  failed persists and restarts. `SureInv` adds to `IndexInv`, of every file that is not
  excepted: at most one request in flight is about it (`Alone`) and has its stat and its
  text (`CallsFresh`); what a build has stated, read or put aside of it is right
  (`BuildFinds`, place by place); the live entry, or the one the build has put aside, is
  right as soon as nothing about the file is pending, and so are the chunks once no
  build is under way (`Served`); before the snapshot is loaded it is right on disk
  (`Stored`). "Right" means the text, or nothing if not every file fits. `DiskInv` adds
  what a restart needs: the disk has what is known of every file that is in no history
  variable, but for those a persist on its way will write. So an answered update whose
  persist succeeded, and which no other persist or build accompanied, survives every
  crash; what `unsaved` excepts can be lost, acknowledged or not (section 5).

`DaemonClientProofs`
- `ClientHasOneDaemon`: `OneDaemon`, for any callers, workspaces and number of
  spawns. `ClientInv` adds that a daemon which lives unkilled and has settled is the
  active one, one which has not settled is the one that is starting (`Known`), that
  the two are never both there (`Exclusive`), and that what has not been spawned is
  untouched (`Fresh`).

Every safety property of the runs but one is stated by a theorem. Checked by TLC and
not proved, because the prover reasons neither about fairness nor about `ENABLED`:

- liveness: `RunTerminates`, `RunEnds`, `Settles`, `TurnEnds`, `Answered`;
- `NoTaskLeftBehind`, an invariant that says that a step is enabled.

What the theorems with hypotheses leave out (an update of the graph that fails, retries
that overlap, later crashes, requests that interrupt an automatic session) the model
does violate, and section 5 says how.

## 5. Where code and documentation differ

`AiSession_stale_patch` shows a disagreement with a sentence of the documentation,
quoted in `PROJECT.json`: a failed repair is resumed into review with the diff and
the worktree of different turns; tests pass on the worktree and the older patch is
applied (`aiSessionManager.ts:1174`).

TLC reaches more disagreements on instances that are not among the runs:

- (a) `SmartRunEngine`, 2 independent nodes with a retry each and one cancel, violates
  `AbortPropagation`: the `finally` block of a failed attempt deletes the controller
  of the retry that replaced it (`smartRunEngine.ts:336`), and a cancel does not abort
  the retry, although `docs/smart-mcp.md:75` promises "abort propagation".
- (b) `AgentLoop`, the batch `<<"ask", "ask">>`, violates `TurnEnds`: two questions of
  one answer run in the pool; the second replaces the first (`askBridge.ts:33`), which
  nobody can answer any more, and the turn waits until it is aborted. The comment at
  `askBridge.ts:1-3` says that the promise resolves when the user picks an option.
- (c) `Orchestrator`, three tasks in parallel, one with two retries: the end of a
  failed attempt deletes the active entry of its retry (`orchestrator.ts:537`), and
  the run is closed while the retry runs. And a cancel between a task's start and
  its container's (`:474`) removes nothing and the container then runs on, although
  `docs/parallel-orchestration.md:96` says that a cancel force-removes active workers.
- (d) `SemanticIndex`, the instance of its run, with `SavedIsIndexed` asked of the
  files in `unsure` as well: an update or a deletion that lands while a build is
  under way changes the map that the build then throws away (`semanticIndex.ts:469`),
  although `PROJECT.md:81-82` says that the index "updates saved/deleted/renamed files
  incrementally".
- (e) `DaemonClient`, the instance of its run: `dispose()` stops nothing while a daemon
  is starting (`daemonClient.ts:963`); it becomes the active one and is left running,
  although `:84` says that the client owns its lifecycle. A `restart()` meanwhile
  returns the daemon that is starting with the old settings (`:111`), and
  `llmProviderSetup.ts:114` then says that the provider "is now active".

The models also reach the following states, which no sentence of the
documentation rules out as directly, and which therefore have no run:

- Smart run: a cancel of a paused run never ends it (`:161`); a resume while the
  paused execution still settles can end the run as failed although no node
  failed (`:247`); a node whose snapshot was written while a pause settled stays
  running after a crash (`:53`); after a crash between an event and its snapshot
  (`:365`) the event chain does not verify; a node counts as succeeded while the
  graph is updated, and if that update fails (`:302`) a dependent may have started; a
  timeout aborts the node's own signal, so the node ends cancelled without using
  its retries (`:429`).
- Orchestrator: a recovered worker is reserved without asking the ceilings
  (`:313`); a snapshot written between two changes of one task can leak the task's
  slot over a restart (`:785`); a container started while `cleanupOrphans` lists is
  removed although its task runs (`:325`); a recovered run that was cancelled can
  end with a task still pending (`:652`).
- MCP tasks: one refused write ends a whole reconciliation (`smartMcp.ts:674`);
  a task can be reported `run-creation-interrupted` although its run exists, and
  that run goes on (`:673`); a crash after a task was stored as cancelled and before
  its run was told lets the recovered run go on.
- AI sessions: two overlapping resumes start two workers (`:1197`); a cancel or a
  pause between the save of "running" and the spawn leaves the worker; a finaliser
  that is in its tests can start a repair after `dispose` returned; a late save of a
  stale copy (`:1594`) undoes what was saved in between; that of a pause or a dispose,
  of a cancel next to a reject, or of `initialize()` after it started the recovered
  worker undoes the repair count too, and one repair more than the budget is started;
  `cancelTests` before the first gate counts as a failure and starts a repair
  (`:829`); a crash between `git apply` and the save (`:1061`), or inside
  `restoreCheckpoint` between the patch file and the save, leaves disk and session
  different; a `captureDiff` that fails after it wrote the patch leaves green gates of
  the older one (`:569`).
- Fleet, memory, missions: a revocation that a heartbeat (`agentFleet.ts:91`) or an
  audit (`governedMemory.ts:159`) overlaps is undone, and a cancel by the execution it
  cancels (`oneClickMission.ts:170`); a mission cancelled in a stage keeps that stage
  "running"; two dispatch plans between heartbeats use the same capacity
  (`agentFleet.ts:146`).
- Edit prediction: the two caches are bounded separately by `putCache` and by
  their sum in `predictMultiFile` (`:367`); a multi-file request that a clear
  detached removes the in-flight entry of the one that replaced it (`:379`); an
  answer in flight enters the cleared cache (`:307`). A write of the scorecard that fails
  is reported nowhere (`:464`, `:465`, `:632`, `:646`), so `dispose` may return with
  updates that are not on disk; a scorecard that cannot be read, is too large or has
  more than 100 models is no error either: `initialize` starts clean (`:240`-`:259`) and
  the next persist replaces the file with lower counts.
- Semantic index: two updates that overlap persist without an order (`:766`-`:768`); if
  the older image is renamed last, both having been acknowledged, and the daemon ends,
  the newer update is not in the snapshot that the next start trusts; an update
  beside a build persists what the build has left in the map, with the same effect. A
  deletion that lands during a rebuild persists the half-emptied map
  (`:477`), and a rebuild that counts no change does not write its own; after a
  persist that failed the rebuild that the extension schedules finds nothing changed and
  does not write either, so that a crash still loses the update;
  `loaded` is set before anything is loaded (`:622`), so a load can overwrite a build
  that has finished; a restart trusts the snapshot, whatever changed while the daemon
  was down (`:243`); if the daemon ends before it answers a save, the extension
  schedules one rebuild (`hawkCodingCore.ts:595`), and if that is rejected as well
  nobody schedules another (`:609`), so the index goes on with the old text; the
  limits are tested before the embeddings are awaited (`:315`), so two updates may
  exceed them together; changes that do not come from the editor (a patch of a
  session, a checkout) are not reported to it.
- Daemon client: a `start()` for one workspace while the daemon of another starts
  returns the other's; the next daemon is spawned while the killed one is still
  closing its services, so two processes may write the same stores for a while.
- Agent: an abort between two calls of a sequential batch leaves the results so far
  in memory and not in the file (the next request repairs both); an abort counts as
  a failure of the compaction; Esc on a question aborts the whole turn; a `reset`'s
  unlink may remove a newer file. Commands are refused while a turn is busy, by the
  input that takes no line (`ui/App.tsx:653`) and by tests of their own (`:1186`,
  `agent.ts:460`); but an open slash menu takes a line before that (`App.tsx:616`-`:645`),
  so a `/reset` typed while `/next` awaits its coverage (`:1196`) can run inside the turn
  of `/next`. That turn has no tools, so no call is left without its answer.

## 6. What is not modelled

- Smart run, orchestrator, MCP tasks: failures of `record()`, `persist` and `mkdir`
  themselves (nothing handles them: the promise rejects), leases and their expiry
  times, policy and approval checks before a run starts, several smart runs at once
  (they share only the write chain), restricted egress, artifact copying, snapshot
  migrations, the expiry of MCP tasks and the paging of their list. The
  orchestrator's `shutdown()` is a cancel of every run.
- AI sessions: the third save of a copy that has not changed, the five seconds
  `pause` waits, the steps inside `restoreCheckpoint`'s git commands; workers end with
  the daemon; semantic review is a gate like the others and in no run.
- Services: a write of a mission that fails (`oneClickMission.ts:66`, `:87` and inside
  `execute`: the promise rejects and the record stays as it was last written), the
  mission's Markdown report (written after each store write), the
  limit and expiry of predictions waiting for feedback, the load heartbeats report.
- Agent: what tools do, streaming, the elision of old results and injected context
  (so `working` is `history`), commands that only change the system prompt, the save
  in `injectSkill` as a step of its own, learning between sessions.
- Semantic index: chunking, structure analysis and ranking, the truncation flags,
  the migration of older snapshots; the limits on files, bytes and chunks are one
  limit on bytes; a snapshot too large to be stored, which is removed; a text that changes without its size or mtime.
- Daemon client: its requests (one HTTP call and its answer each), the settings a
  daemon is spawned with, the status bar.
- The other components of the inventory; `PROJECT.json` gives the reason for each.
  Most of the implementation by size is editor views, HTML, terminal rendering,
  analyses from files to reports, provider clients and schemas: they keep no state
  whose order matters, or do I/O, and a model of them would be a transcription. The
  `map` covers the code that coordinates, about 7.5 % of all lines. What coordinates
  and is left out is small: `proofGraph.ts` and the JSON stores, whose operations
  are serialised or touch a file of their own.

## 7. Plan

| # | Module | Models | State |
| --- | --- | --- | --- |
| 1 | `SmartRunEngine`, `SmartRunProofs` | one durable run | checked; all safety proved |
| 2 | `Orchestrator`, `OrchestratorProofs` | task graphs, slots, pool, recovery | checked; all safety proved |
| 3 | `McpTask`, `OneShotTask`, `McpTaskProofs` | task store, bridge, reconciliation | checked; proved but for `NoTaskLeftBehind` |
| 4 | `AiSession`, `AiSessionProofs` | sessions: worker, gates, apply, resume, recovery | checked; safety proved, of both modes |
| 5 | `DurableWrites`, `Registries`, `Missions`, `EditPredictions`, `Daemon`, `DaemonProofs` | the small services | checked, proved |
| 6 | `AgentLoop`, `AgentLoopProofs` | conversations, tools, prompts | checked; all safety proved |
| 7 | `SemanticIndex`, `SemanticIndexProofs` | index, builds, updates, snapshot | checked; all safety proved |
| 8 | `DaemonClient`, `DaemonClientProofs` | starts, restarts, exits of the daemon | checked, `OneDaemon` proved |

The plan is complete. What would extend it: changes of files that the editor does not
report, the stores of section 6 over `DurableWrites`, and liveness for every instance,
for which another prover is needed.
