---------------------------- MODULE SmartRunEngine ----------------------------
(***************************************************************************)
(* One durable run of src/src/ide/smartRunEngine.ts: the executor loop     *)
(* (execute), one worker per executeNode call, the operator's controls,    *)
(* the event log and run snapshot written through DurableStore's FIFO      *)
(* write chain, and a process crash followed by initialize().              *)
(*                                                                         *)
(* Node.js runs one macrotask at a time and drains the microtasks it       *)
(* produces.  The executor's pcs "loop", "dispatch" and "close" are that   *)
(* microtask work: while main is in one of them no other action is enabled *)
(* (see Quiet).  Every await on the store is a wait for an entry of queue. *)
(***************************************************************************)
EXTENDS Naturals, Sequences, FiniteSets

CONSTANTS
  N,            (* Number of plan nodes; node ids are their plan order.     *)
  Deps,         (* Deps[n]: the nodes n depends on.                         *)
  Retries,      (* Retries[n]: PlanNode.retries.                            *)
  MaxParallel,  (* HawkPlan.maxParallel.                                    *)
  StoreFaults,  (* The store and graph operations that may throw.           *)
  Controls,     (* The operator controls in use: "pause", "resume", ...     *)
  MaxControls,  (* Bound on the number of control calls and shutdowns.      *)
  MaxCrashes    (* Bound on the number of process crashes.                  *)

Nodes == 1..N

ASSUME NAssumption == N \in Nat
ASSUME DepsAssumption == Deps \in [Nodes -> SUBSET Nodes]
ASSUME RetriesAssumption == Retries \in [Nodes -> Nat]
ASSUME BoundsAssumption ==
  /\ MaxParallel \in Nat \ {0}
  /\ StoreFaults \subseteq {"begin", "artifact", "link"}
  /\ MaxControls \in Nat
  /\ MaxCrashes \in Nat

VARIABLES
  status, pause, cancel,   (* run.status, pauseRequested, cancelRequested   *)
  node, attempt,           (* run.nodes[n].status and .attempt              *)
  seq, lastHash,           (* run.eventCount, run.lastEventHash             *)
  main,                    (* where execute() is; "none": no execution      *)
  active,                  (* execute()'s map: node -> attempt, 0 if absent *)
  watch,                   (* the workers an await of execute() waits for   *)
  workers,                 (* the executeNode calls in progress             *)
  controller,              (* controllers: node -> attempt, 0 if absent     *)
  queue, done,             (* the write chain; is its head's effect on disk *)
  snapshot,                (* runs/<id>.json                                *)
  log, torn,               (* run-events/<id>.jsonl; partial last line      *)
  artifacts,               (* nodes whose artifact is on disk               *)
  controls, epoch,         (* control calls so far; crashes so far          *)
  cancelAcked              (* history: a cancel call has returned           *)

runVars == <<status, pause, cancel, node, attempt, seq, lastHash>>
executorVars == <<main, active, watch>>
diskVars == <<snapshot, log, torn, artifacts>>
historyVars == <<controls, epoch, cancelAcked>>
vars == <<runVars, executorVars, workers, controller, queue, done, diskVars,
          historyVars>>

-----------------------------------------------------------------------------
Terminal == {"succeeded", "failed", "cancelled"}
RunStatus == {"absent", "queued", "running", "paused"} \cup Terminal
NodeStatus ==
  {"pending", "running", "succeeded", "failed", "skipped", "cancelled"}
MainPc == {"none", "reading", "started", "loop", "dispatch", "race", "settle",
           "close", "closing"}
WorkerPc == {"starting", "executing", "saving", "linking", "closing"}
Roles == {"start", "recover", "main", "pause", "resume", "cancel", "shutdown",
          "node"}

Caller(role) == [role |-> role, n |-> 0, a |-> 0]
NodeCaller(n, a) == [role |-> "node", n |-> n, a |-> a]
Callers == [role : Roles, n : Nat, a : Nat]

(* An event hash is unique: the sequence number and the process that made  *)
(* the event identify it, so previousHash is the previous event's process. *)
Events == [seq : Nat, epoch : Nat, prev : Nat]
NoEvent == [seq |-> 0, epoch |-> 0, prev |-> 0]
Operations == [op : {"append", "run", "artifact"}, who : Callers, ev : Events]

(* Mutant of Run: a snapshot that leaves cancelRequested out.              *)
MutantRunNoCancel ==
  [status |-> status, pause |-> pause, cancel |-> FALSE, node |-> node,
   attempt |-> attempt, seq |-> seq, lastHash |-> lastHash]

Run == [status |-> status, pause |-> pause, cancel |-> cancel, node |-> node,
        attempt |-> attempt, seq |-> seq, lastHash |-> lastHash]
Runs == [status : RunStatus, pause : BOOLEAN, cancel : BOOLEAN,
         node : [Nodes -> NodeStatus], attempt : [Nodes -> Nat],
         seq : Nat, lastHash : Nat]

WorkerIds == Nodes \X Nat
(* aborted: its signal; owned: its execution, whose active map its finally  *)
(* block updates, is still the current one.                                *)
WorkerRecords ==
  [n : Nodes, a : Nat, at : WorkerPc, aborted : BOOLEAN, owned : BOOLEAN]
Id(w) == <<w.n, w.a>>

TypeOK ==
  /\ Run \in Runs
  /\ main \in MainPc
  /\ active \in [Nodes -> Nat]
  /\ watch \in SUBSET WorkerIds
  /\ workers \in SUBSET WorkerRecords
  /\ controller \in [Nodes -> Nat]
  /\ queue \in Seq(Operations)
  /\ done \in BOOLEAN
  /\ snapshot \in Runs
  /\ log \in Seq(Events)
  /\ torn \in BOOLEAN
  /\ artifacts \in SUBSET Nat
  /\ controls \in Nat
  /\ epoch \in Nat
  /\ cancelAcked \in BOOLEAN

Init ==
  /\ status = "absent" /\ pause = FALSE /\ cancel = FALSE
  /\ node = [n \in Nodes |-> "pending"]
  /\ attempt = [n \in Nodes |-> 0]
  /\ seq = 0 /\ lastHash = 0
  /\ main = "none"
  /\ active = [n \in Nodes |-> 0]
  /\ watch = {}
  /\ workers = {}
  /\ controller = [n \in Nodes |-> 0]
  /\ queue = <<>> /\ done = FALSE
  /\ snapshot = Run
  /\ log = <<>> /\ torn = FALSE
  /\ artifacts = {}
  /\ controls = 0 /\ epoch = 0 /\ cancelAcked = FALSE

-----------------------------------------------------------------------------
(***************************************************************************)
(* The write chain: DurableStore.serialize runs one operation at a time.   *)
(* The run snapshot is the live object at the time its operation runs.     *)
(***************************************************************************)
Quiet == main \notin {"loop", "dispatch", "close"}

(* Mutant of Record: the event is numbered from the persisted snapshot.    *)
MutantRecordStale(q, who) ==
  /\ seq' = seq + 1
  /\ lastHash' = epoch
  /\ queue' = Append(q, [op |-> "append", who |-> who,
                         ev |-> [seq |-> snapshot.seq + 1, epoch |-> epoch,
                                 prev |-> snapshot.lastHash]])

(* record(): the event is numbered and chained at once; its append is      *)
(* queued behind q, and the snapshot is queued when the append returns.    *)
Record(q, who) ==
  /\ seq' = seq + 1
  /\ lastHash' = epoch
  /\ queue' = Append(q, [op |-> "append", who |-> who,
                         ev |-> [seq |-> seq + 1, epoch |-> epoch,
                                 prev |-> lastHash]])

WriteEffect(operation) ==
  \/ /\ operation.op = "append"
     /\ log' = IF torn THEN log ELSE Append(log, operation.ev)
     /\ torn' = FALSE
     /\ UNCHANGED <<snapshot, artifacts>>
  \/ /\ operation.op = "run"
     /\ snapshot' = Run
     /\ UNCHANGED <<log, torn, artifacts>>
  \/ /\ operation.op = "artifact"
     /\ artifacts' = artifacts \cup {operation.who.n}
     /\ UNCHANGED <<snapshot, log, torn>>

Write ==
  /\ Quiet
  /\ queue # <<>> /\ ~done
  /\ WriteEffect(Head(queue))
  /\ done' = TRUE
  /\ UNCHANGED <<runVars, executorVars, workers, controller, queue, historyVars>>

AppendReturns ==
  /\ Quiet
  /\ queue # <<>> /\ done /\ Head(queue).op = "append"
  /\ queue' = Append(Tail(queue),
                     [op |-> "run", who |-> Head(queue).who, ev |-> NoEvent])
  /\ done' = FALSE
  /\ UNCHANGED <<runVars, executorVars, workers, controller, diskVars,
                 historyVars>>

(* The await of operation op by caller who returns, which frees the chain. *)
Returns(op, who) ==
  /\ Quiet
  /\ queue # <<>> /\ done
  /\ Head(queue).op = op /\ Head(queue).who = who
  /\ done' = FALSE

-----------------------------------------------------------------------------
(***************************************************************************)
(* Starting, launching and controlling a run.                              *)
(***************************************************************************)
Serving == \A i \in 1..Len(queue) : queue[i].who.role # "recover"

Launched ==
  IF main = "none" /\ status \notin Terminal /\ ~pause THEN "reading" ELSE main

Start ==
  /\ Quiet /\ Serving
  /\ status = "absent"
  /\ status' = "queued"
  /\ Record(queue, Caller("start"))
  /\ log' = <<>> /\ torn' = FALSE /\ artifacts' = {}
  /\ UNCHANGED <<pause, cancel, node, attempt, executorVars, workers,
                 controller, done, snapshot, historyVars>>

(* start(), the resume control and initialize() launch once recorded.      *)
LaunchWhenRecorded(role) ==
  /\ Returns("run", Caller(role))
  /\ queue' = Tail(queue)
  /\ main' = Launched
  /\ UNCHANGED <<runVars, active, watch, workers, controller, diskVars,
                 historyVars>>

ControlCall(action) ==
  /\ Quiet /\ Serving
  /\ action \in Controls /\ controls < MaxControls
  /\ status # "absent" /\ status \notin Terminal
  /\ controls' = controls + 1

Pause ==
  /\ ControlCall("pause")
  /\ pause' = TRUE /\ status' = "paused"
  /\ Record(queue, Caller("pause"))
  /\ UNCHANGED <<cancel, node, attempt, executorVars, workers, controller,
                 done, diskVars, epoch, cancelAcked>>

(* Mutant of Resume: it launches before it records, not after.             *)
MutantResumeLaunchesFirst ==
  /\ ControlCall("resume")
  /\ pause' = FALSE /\ status' = "queued"
  /\ main' = IF main = "none" THEN "reading" ELSE main
  /\ Record(queue, Caller("pause"))
  /\ UNCHANGED <<cancel, node, attempt, active, watch, workers, controller,
                 done, diskVars, epoch, cancelAcked>>

Resume ==
  /\ ControlCall("resume")
  /\ pause' = FALSE /\ status' = "queued"
  /\ Record(queue, Caller("resume"))
  /\ UNCHANGED <<cancel, node, attempt, executorVars, workers, controller,
                 done, diskVars, epoch, cancelAcked>>

(* Mutant of Aborts: cancel reaches only the nodes that have not started.  *)
MutantAborts(w) == controller[w.n] = w.a /\ w.at = "starting"

Aborts(w) == controller[w.n] = w.a

Cancel ==
  /\ ControlCall("cancel")
  /\ cancel' = TRUE
  /\ workers' = {[w EXCEPT !.aborted = @ \/ Aborts(w)] : w \in workers}
  /\ node' = [n \in Nodes |-> IF node[n] = "pending" THEN "cancelled" ELSE node[n]]
  /\ Record(queue, Caller("cancel"))
  /\ UNCHANGED <<status, pause, attempt, executorVars, controller, done,
                 diskVars, epoch, cancelAcked>>

Shutdown ==
  /\ ControlCall("shutdown")
  /\ status = "running"
  /\ status' = "queued"
  /\ Record(queue, Caller("shutdown"))
  /\ UNCHANGED <<pause, cancel, node, attempt, executorVars, workers,
                 controller, done, diskVars, epoch, cancelAcked>>

ControlReturns(role) ==
  /\ Returns("run", Caller(role))
  /\ queue' = Tail(queue)
  /\ cancelAcked' = (cancelAcked \/ role = "cancel")
  /\ UNCHANGED <<runVars, executorVars, workers, controller, diskVars, controls,
                 epoch>>

-----------------------------------------------------------------------------
(***************************************************************************)
(* execute(): read the goal and plan, then skip, dispatch and wait.        *)
(***************************************************************************)
Begin ==
  /\ main = "reading"
  /\ status' = "running"
  /\ main' = "started"
  /\ Record(queue, Caller("main"))
  /\ UNCHANGED <<pause, cancel, node, attempt, active, watch, workers,
                 controller, done, diskVars, historyVars>>

BeginWithoutSnapshots ==
  /\ "begin" \in StoreFaults
  /\ main = "reading"
  /\ status' = "failed"
  /\ main' = "closing"
  /\ Record(queue, Caller("main"))
  /\ UNCHANGED <<pause, cancel, node, attempt, active, watch, workers,
                 controller, done, diskVars, historyVars>>

Started ==
  /\ main = "started"
  /\ Returns("run", Caller("main"))
  /\ queue' = Tail(queue)
  /\ main' = "loop"
  /\ UNCHANGED <<runVars, active, watch, workers, controller, diskVars,
                 historyVars>>

ActiveIds == {<<n, active[n]>> : n \in {m \in Nodes : active[m] # 0}}

(* skipBlockedNodes makes one pass in plan order: a node sees the earlier  *)
(* nodes this pass has skipped, not the later ones.                        *)
Unsuccessful == {"failed", "skipped", "cancelled"}
Blocked[n \in Nodes] ==
  /\ node[n] = "pending"
  /\ \E d \in Deps[n] : \/ node[d] \in Unsuccessful
                        \/ d < n /\ Blocked[d]

LoopStops ==
  /\ main = "loop"
  /\ pause \/ cancel
  /\ watch' = ActiveIds
  /\ main' = IF ActiveIds = {} THEN "close" ELSE "settle"
  /\ UNCHANGED <<runVars, active, workers, controller, queue, done, diskVars,
                 historyVars>>

SkipBlockedNodes ==
  /\ main = "loop"
  /\ ~pause /\ ~cancel
  /\ node' = [n \in Nodes |-> IF node[n] = "pending" /\ Blocked[n]
                                THEN "skipped" ELSE node[n]]
  /\ main' = "dispatch"
  /\ UNCHANGED <<status, pause, cancel, attempt, seq, lastHash, active, watch,
                 workers, controller, queue, done, diskVars, historyVars>>

(* Mutant of Ready: a dependency need only have left pending.              *)
MutantReady(n) ==
  /\ node[n] = "pending"
  /\ \A d \in Deps[n] : node[d] # "pending"

Ready(n) ==
  /\ node[n] = "pending"
  /\ \A d \in Deps[n] : node[d] = "succeeded"

CanDispatch(n) ==
  /\ Ready(n)
  /\ \A m \in Nodes : Ready(m) => n <= m
  /\ Cardinality(ActiveIds) < MaxParallel

(* execute() adds the node to active; executeNode() runs to its first await. *)
Dispatch(n) ==
  /\ main = "dispatch"
  /\ CanDispatch(n)
  /\ LET a == attempt[n] + 1 IN
       /\ node' = [node EXCEPT ![n] = "running"]
       /\ attempt' = [attempt EXCEPT ![n] = a]
       /\ controller' = [controller EXCEPT ![n] = a]
       /\ active' = [active EXCEPT ![n] = a]
       /\ workers' = workers \cup {[n |-> n, a |-> a, at |-> "starting",
                                  aborted |-> FALSE, owned |-> TRUE]}
       /\ Record(queue, NodeCaller(n, a))
  /\ UNCHANGED <<status, pause, cancel, main, watch, done, diskVars, historyVars>>

Race ==
  /\ main = "dispatch"
  /\ \A n \in Nodes : ~CanDispatch(n)
  /\ watch' = ActiveIds
  /\ main' = IF ActiveIds = {} THEN "close" ELSE "race"
  /\ UNCHANGED <<runVars, active, workers, controller, queue, done, diskVars,
                 historyVars>>

(* The end of execute(): cancellation wins over a pause, a pause over the  *)
(* outcome of the nodes.                                                   *)
FinalStatus ==
  IF cancel THEN "cancelled"
  ELSE IF pause THEN "paused"
  ELSE IF \A n \in Nodes : node[n] = "succeeded" THEN "succeeded"
  ELSE "failed"

Close ==
  /\ main = "close"
  /\ status' = FinalStatus
  /\ node' = IF cancel
               THEN [n \in Nodes |-> IF node[n] \in {"pending", "running"}
                                       THEN "cancelled" ELSE node[n]]
               ELSE node
  /\ main' = "closing"
  /\ Record(queue, Caller("main"))
  /\ UNCHANGED <<pause, cancel, attempt, active, watch, workers, controller,
                 done, diskVars, historyVars>>

Closed ==
  /\ main = "closing"
  /\ Returns("run", Caller("main"))
  /\ queue' = Tail(queue)
  /\ main' = "none"
  /\ workers' = {[w EXCEPT !.owned = FALSE] : w \in workers}
  /\ UNCHANGED <<runVars, active, watch, controller, diskVars, historyVars>>

-----------------------------------------------------------------------------
(***************************************************************************)
(* executeNode(): one action per stretch between two awaits.               *)
(***************************************************************************)
Moved(w, at) == (workers \ {w}) \cup {[w EXCEPT !.at = at]}

(* Mutants of CaughtStatus: one retry too many; the last failure is lost.  *)
MutantExtraRetry(w, aborted) ==
  IF aborted \/ cancel THEN "cancelled"
  ELSE IF attempt[w.n] <= Retries[w.n] + 1 THEN "pending"
  ELSE "failed"
MutantLastFailureLost(w, aborted) ==
  IF aborted \/ cancel THEN "cancelled"
  ELSE IF attempt[w.n] <= Retries[w.n] THEN "pending"
  ELSE node[w.n]

(* The catch block; aborted is the controller's signal at that point.      *)
CaughtStatus(w, aborted) ==
  IF aborted \/ cancel THEN "cancelled"
  ELSE IF attempt[w.n] <= Retries[w.n] THEN "pending"
  ELSE "failed"

Catch(w, aborted, q) ==
  /\ node' = [node EXCEPT ![w.n] = CaughtStatus(w, aborted)]
  /\ workers' = Moved(w, "closing")
  /\ Record(q, NodeCaller(w.n, w.a))
  /\ UNCHANGED <<status, pause, cancel, attempt, executorVars, controller,
                 diskVars, historyVars>>

NodeStarted(w) ==
  /\ w.at = "starting"
  /\ Returns("run", NodeCaller(w.n, w.a))
  /\ \/ /\ w.aborted \/ cancel
        /\ Catch(w, w.aborted, Tail(queue))
     \/ /\ ~w.aborted /\ ~cancel
        /\ workers' = Moved(w, "executing")
        /\ queue' = Tail(queue)
        /\ UNCHANGED <<runVars, executorVars, controller, diskVars, historyVars>>

(* Mutant of ExecutorReturns: succeeded before the artifact is written.    *)
MutantEarlySuccess(w) ==
  /\ Quiet
  /\ w.at = "executing" /\ ~w.aborted
  /\ node' = [node EXCEPT ![w.n] = "succeeded"]
  /\ workers' = Moved(w, "saving")
  /\ queue' = Append(queue, [op |-> "artifact", who |-> NodeCaller(w.n, w.a),
                             ev |-> NoEvent])
  /\ UNCHANGED <<status, pause, cancel, attempt, seq, lastHash, executorVars,
                 controller, done, diskVars, historyVars>>

ExecutorReturns(w) ==
  /\ Quiet
  /\ w.at = "executing" /\ ~w.aborted
  /\ workers' = Moved(w, "saving")
  /\ queue' = Append(queue, [op |-> "artifact", who |-> NodeCaller(w.n, w.a),
                             ev |-> NoEvent])
  /\ UNCHANGED <<runVars, executorVars, controller, done, diskVars, historyVars>>

(* The executor throws, or returns after its signal was aborted.           *)
ExecutorFails(w) ==
  /\ Quiet
  /\ w.at = "executing"
  /\ Catch(w, w.aborted, queue)
  /\ UNCHANGED done

(* withTimeout aborts the node's own controller and rejects.               *)
TimeoutFires(w) ==
  /\ Quiet
  /\ w.at = "executing"
  /\ Catch(w, TRUE, queue)
  /\ UNCHANGED done

ArtifactSaved(w) ==
  /\ w.at = "saving"
  /\ Returns("artifact", NodeCaller(w.n, w.a))
  /\ queue' = Tail(queue)
  /\ node' = [node EXCEPT ![w.n] = "succeeded"]
  /\ workers' = Moved(w, "linking")
  /\ UNCHANGED <<status, pause, cancel, attempt, seq, lastHash, executorVars,
                 controller, diskVars, historyVars>>

ArtifactFails(w) ==
  /\ "artifact" \in StoreFaults
  /\ Quiet
  /\ w.at = "saving"
  /\ queue # <<>> /\ ~done
  /\ Head(queue).op = "artifact" /\ Head(queue).who = NodeCaller(w.n, w.a)
  /\ Catch(w, w.aborted, Tail(queue))
  /\ UNCHANGED done

(* The three ProofGraph updates return.                                    *)
NodeLinked(w) ==
  /\ Quiet
  /\ w.at = "linking"
  /\ workers' = Moved(w, "closing")
  /\ Record(queue, NodeCaller(w.n, w.a))
  /\ UNCHANGED <<status, pause, cancel, node, attempt, executorVars, controller,
                 done, diskVars, historyVars>>

LinkFails(w) ==
  /\ "link" \in StoreFaults
  /\ Quiet
  /\ w.at = "linking"
  /\ Catch(w, w.aborted, queue)
  /\ UNCHANGED done

(* The finally blocks drop the node's controller and its active entry, by  *)
(* node id; execute() resumes if it was waiting for this worker.           *)
NodeClosed(w) ==
  /\ w.at = "closing"
  /\ Returns("run", NodeCaller(w.n, w.a))
  /\ queue' = Tail(queue)
  /\ workers' = workers \ {w}
  /\ controller' = [controller EXCEPT ![w.n] = 0]
  /\ active' = [active EXCEPT ![w.n] = IF w.owned THEN 0 ELSE @]
  /\ watch' = IF main = "race" /\ Id(w) \in watch THEN {} ELSE watch \ {Id(w)}
  /\ main' = CASE main = "race" /\ Id(w) \in watch -> "loop"
               [] main = "settle" /\ watch' = {} -> "close"
               [] OTHER -> main
  /\ UNCHANGED <<runVars, diskVars, historyVars>>

-----------------------------------------------------------------------------
(***************************************************************************)
(* A crash keeps the disk: an append in progress may leave a partial line. *)
(* initialize() of the next process reloads the snapshot, returns a        *)
(* running node to pending, and relaunches a queued or running run.        *)
(***************************************************************************)
(* Mutants of Recoverable: every run but a paused one; only a queued one.  *)
MutantRecoverAll(s) == s # "paused"
MutantRecoverQueued(s) == s = "queued"

Recoverable(s) == s \in {"queued", "running"}

CrashAndInitialize ==
  /\ epoch < MaxCrashes
  /\ epoch' = epoch + 1
  /\ torn' \in {torn, torn \/ (queue # <<>> /\ ~done /\ Head(queue).op = "append")}
  /\ main' = "none" /\ watch' = {} /\ workers' = {}
  /\ active' = [n \in Nodes |-> 0]
  /\ controller' = [n \in Nodes |-> 0]
  /\ done' = FALSE
  /\ pause' = snapshot.pause /\ cancel' = snapshot.cancel
  /\ attempt' = snapshot.attempt
  /\ IF Recoverable(snapshot.status)
       THEN /\ status' = "queued"
            /\ node' = [n \in Nodes |-> IF snapshot.node[n] = "running"
                                          THEN "pending" ELSE snapshot.node[n]]
            /\ seq' = snapshot.seq + 1
            /\ lastHash' = epoch + 1
            /\ queue' = <<[op |-> "append", who |-> Caller("recover"),
                           ev |-> [seq |-> snapshot.seq + 1, epoch |-> epoch + 1,
                                   prev |-> snapshot.lastHash]]>>
       ELSE /\ status' = snapshot.status
            /\ node' = snapshot.node
            /\ seq' = snapshot.seq
            /\ lastHash' = snapshot.lastHash
            /\ queue' = <<>>
  /\ UNCHANGED <<snapshot, log, artifacts, controls, cancelAcked>>

-----------------------------------------------------------------------------
WorkerStep(w) ==
  \/ NodeStarted(w) \/ ExecutorReturns(w) \/ ExecutorFails(w) \/ TimeoutFires(w)
  \/ ArtifactSaved(w) \/ ArtifactFails(w) \/ NodeLinked(w) \/ LinkFails(w)
  \/ NodeClosed(w)

EngineStep ==
  \/ Write \/ AppendReturns
  \/ \E role \in {"start", "resume", "recover"} : LaunchWhenRecorded(role)
  \/ \E role \in {"pause", "cancel", "shutdown"} : ControlReturns(role)
  \/ Begin \/ BeginWithoutSnapshots \/ Started
  \/ LoopStops \/ SkipBlockedNodes \/ Race \/ Close \/ Closed
  \/ \E n \in Nodes : Dispatch(n)
  \/ \E w \in workers : WorkerStep(w)

Next ==
  \/ EngineStep
  \/ Start \/ Pause \/ Resume \/ Cancel \/ Shutdown
  \/ CrashAndInitialize

Spec == Init /\ [][Next]_vars

(* The event loop and the disk make progress; a control call, a shutdown   *)
(* and a crash are the environment's and need not happen.                  *)
FairSpec == Spec /\ WF_vars(EngineStep)

-----------------------------------------------------------------------------
(***************************************************************************)
(* Properties.                                                             *)
(***************************************************************************)

(* Bounded retries: executeNode starts a node at most Retries[n] + 1 times, *)
(* plus once per process crash that interrupted it, although the catch     *)
(* block of one attempt and the dispatch of the next interleave.           *)
BoundedAttempts == \A n \in Nodes : attempt[n] <= Retries[n] + 1 + epoch

(* A node runs, and has a result, only while every node it depends on has  *)
(* succeeded: no retry, pause, cancellation or recovery takes a result     *)
(* away from under a dependent node.                                       *)
DependencySafety ==
  \A n \in Nodes : \A d \in Deps[n] :
    node[n] \in {"running", "succeeded"} => node[d] = "succeeded"

(* A run snapshot that says a node succeeded never survives without the    *)
(* artifact it points to, whenever the process crashes.                    *)
ArtifactDurable ==
  \A n \in Nodes : snapshot.node[n] = "succeeded" => n \in artifacts

(* Once control(runId, 'cancel') has returned, the cancellation is in the  *)
(* snapshot and no later write or crash takes it back.                     *)
CancelAckedDurable == cancelAcked => snapshot.cancel /\ cancel

(* After a cancel call has returned no executor call starts, in this       *)
(* process or in one that recovers the run.                                *)
Executing == {Id(w) : w \in {v \in workers : v.at = "executing"}}
NoStartAfterCancel == [][cancelAcked => Executing' \subseteq Executing]_vars

(* An outcome that reached the disk is final: recovery never reopens the   *)
(* run, and the live run agrees with it.                                   *)
DurableOutcomeFinal ==
  [][snapshot.status \in Terminal =>
       snapshot'.status = snapshot.status /\ status' = snapshot.status]_vars

(* events() can verify the log: sequence numbers are consecutive and each  *)
(* event carries its predecessor's hash (verifyEventChain).                *)
HistoryReadable ==
  \A i \in 1..(Len(log) - 1) : /\ log[i + 1].seq = log[i].seq + 1
                               /\ log[i + 1].prev = log[i].epoch

(* Abort propagation: when a run is cancelled, every capability in flight  *)
(* has seen its abort signal.                                              *)
AbortPropagation ==
  cancel => \A w \in workers : w.at = "executing" => w.aborted

(* A node is running only while one of this process's workers runs it,     *)
(* whatever its executor, its artifact or the graph throws; no more than    *)
(* plan.maxParallel are in flight; and no executeNode call outlives its     *)
(* run: an outcome is final only when every node's worker has finished.     *)
WorkersMatchNodes ==
  /\ \A n \in Nodes : node[n] = "running" => \E w \in workers : w.n = n
  /\ Cardinality(workers) <= MaxParallel
  /\ status \in Terminal => workers = {}

(* A queued run has an execution, or a call on its way to launch one.      *)
QueuedRunIsLaunched ==
  status = "queued" =>
    \/ main # "none"
    \/ \E i \in 1..Len(queue) : queue[i].who.role \in {"start", "resume", "recover"}

(* A run whose creation reached the disk ends, across crashes, retries and *)
(* cancellation, unless the operator leaves it paused.                     *)
RunTerminates ==
  (snapshot.status # "absent") ~> (status \in Terminal \/ pause)
=============================================================================
