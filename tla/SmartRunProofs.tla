---------------------------- MODULE SmartRunProofs ----------------------------
(***************************************************************************)
(* Theorems about SmartRunEngine, for every plan, retry budget, degree of  *)
(* parallelism and number of crashes.                                      *)
(***************************************************************************)
EXTENDS SmartRunEngine, FiniteSetTheorems, TLAPS

USE NAssumption, DepsAssumption, RetriesAssumption, BoundsAssumption
    DEF Nodes

-----------------------------------------------------------------------------
(***************************************************************************)
(* Type correctness, one lemma for each group of actions.                  *)
(***************************************************************************)

(* Appending an element of S to a sequence over S.                         *)
LEMMA AppendType ==
  ASSUME NEW S, NEW s \in Seq(S), NEW e \in S
  PROVE  Append(s, e) \in Seq(S)
OBVIOUS

(* An entry that record() or executeNode() adds to the write chain is an   *)
(* operation.                                                              *)
LEMMA RecordType ==
  ASSUME TypeOK, NEW q \in Seq(Operations), NEW who \in Callers, Record(q, who)
  PROVE  seq' \in Nat /\ lastHash' \in Nat /\ queue' \in Seq(Operations)
<1>1. [seq |-> seq + 1, epoch |-> epoch, prev |-> lastHash] \in Events
  BY DEF TypeOK, Run, Runs, Events
<1>2. [op |-> "append", who |-> who,
       ev |-> [seq |-> seq + 1, epoch |-> epoch, prev |-> lastHash]] \in Operations
  BY <1>1 DEF Operations
<1>3. QED
  BY <1>2 DEF Record, TypeOK, Run, Runs

(* The caller of a record is a caller.                                     *)
LEMMA CallerType ==
  /\ \A role \in Roles : Caller(role) \in Callers
  /\ \A n \in Nodes, a \in Nat : NodeCaller(n, a) \in Callers
  /\ NoEvent \in Events
BY DEF Caller, NodeCaller, Callers, Roles, NoEvent, Events

(* The run object is a run whenever its fields are well typed.             *)
LEMMA RunType ==
  Run \in Runs <=> /\ status \in RunStatus /\ pause \in BOOLEAN
                   /\ cancel \in BOOLEAN /\ node \in [Nodes -> NodeStatus]
                   /\ attempt \in [Nodes -> Nat]
                   /\ seq \in Nat /\ lastHash \in Nat
BY DEF Run, Runs

LEMMA RunTypePrime ==
  (Run \in Runs)' <=> /\ status' \in RunStatus /\ pause' \in BOOLEAN
                      /\ cancel' \in BOOLEAN /\ node' \in [Nodes -> NodeStatus]
                      /\ attempt' \in [Nodes -> Nat]
                      /\ seq' \in Nat /\ lastHash' \in Nat
BY DEF Run, Runs

(* The tail of the write chain is a write chain.                           *)
LEMMA ChainType ==
  ASSUME TypeOK, queue # <<>>
  PROVE  Tail(queue) \in Seq(Operations) /\ Head(queue) \in Operations
BY DEF TypeOK

LEMMA WriteStep ==
  ASSUME TypeOK, Write \/ AppendReturns PROVE TypeOK'
<1>1. CASE Write
  <2>1. queue # <<>> /\ WriteEffect(Head(queue)) /\ Head(queue) \in Operations
    BY <1>1, ChainType DEF Write
  <2>2. /\ Head(queue).ev \in Events
        /\ Head(queue).op \in {"append", "run", "artifact"}
    BY <2>1 DEF Operations
  <2>3. snapshot' \in Runs
    BY <2>1, <2>2 DEF WriteEffect, TypeOK
  <2>4. log' \in Seq(Events) /\ torn' \in BOOLEAN
    <3>1. log' = log \/ log' = Append(log, Head(queue).ev)
      BY <2>1 DEF WriteEffect
    <3>2. torn' = torn \/ torn' = FALSE
      BY <2>1 DEF WriteEffect
    <3>3. torn' \in BOOLEAN
      BY <3>2 DEF TypeOK
    <3>4. log \in Seq(Events)
      BY DEF TypeOK
    <3>5. Append(log, Head(queue).ev) \in Seq(Events)
      BY <2>2, <3>4, AppendType
    <3>6. QED
      BY <3>1, <3>3, <3>4, <3>5
  <2>5. artifacts' \in SUBSET Nat
    BY <2>1 DEF WriteEffect, TypeOK, Operations, Callers
  <2>6. QED
    BY <1>1, <2>3, <2>4, <2>5 DEF Write, TypeOK, runVars, executorVars,
       historyVars, Run
<1>2. CASE AppendReturns
  <2>1. queue # <<>> /\ Tail(queue) \in Seq(Operations) /\ Head(queue).who \in Callers
    BY <1>2, ChainType DEF AppendReturns, Operations
  <2>2. queue' \in Seq(Operations)
    BY <1>2, <2>1, CallerType DEF AppendReturns, Operations
  <2>3. QED
    BY <1>2, <2>2 DEF AppendReturns, TypeOK, runVars, executorVars, diskVars,
       historyVars, Run
<1>3. QED BY <1>1, <1>2

(* A call that only changes the run and queues its record.                 *)
LEMMA QuietControl ==
  ASSUME TypeOK, (Run \in Runs)', queue' \in Seq(Operations),
         main' = main, active' = active, watch' = watch, workers' = workers,
         controller' = controller, done' = done, snapshot' = snapshot, log' = log,
         torn' = torn, artifacts' = artifacts, epoch' = epoch,
         cancelAcked' = cancelAcked, controls' = controls + 1
  PROVE  TypeOK'
<1>1. /\ main' \in MainPc /\ active' \in [Nodes -> Nat]
      /\ watch' \in SUBSET WorkerIds /\ workers' \in SUBSET WorkerRecords
  BY Zenon DEF TypeOK
<1>2. controller' \in [Nodes -> Nat] /\ done' \in BOOLEAN
  BY Zenon DEF TypeOK
<1>3. snapshot' \in Runs /\ log' \in Seq(Events) /\ torn' \in BOOLEAN
  BY Zenon DEF TypeOK
<1>4. artifacts' \in SUBSET Nat /\ epoch' \in Nat /\ cancelAcked' \in BOOLEAN
  BY Zenon DEF TypeOK
<1>5. controls' \in Nat
  BY DEF TypeOK
<1>6. QED
  BY <1>1, <1>2, <1>3, <1>4, <1>5, Zenon DEF TypeOK

LEMMA ControlStep ==
  ASSUME TypeOK,
         \/ Start \/ Pause \/ Resume \/ Cancel \/ Shutdown
         \/ \E role \in {"start", "resume", "recover"} : LaunchWhenRecorded(role)
         \/ \E role \in {"pause", "cancel", "shutdown"} : ControlReturns(role)
  PROVE  TypeOK'
<1> USE DEF historyVars, diskVars, executorVars
<1>q. queue \in Seq(Operations)
  BY DEF TypeOK
<1>1. CASE Start
  <2>1. seq' \in Nat /\ lastHash' \in Nat /\ queue' \in Seq(Operations)
    BY <1>1, <1>q, RecordType, CallerType DEF Start, Roles
  <2>2. status' \in RunStatus /\ pause' \in BOOLEAN /\ cancel' \in BOOLEAN
    BY <1>1, RunType DEF Start, TypeOK, RunStatus
  <2>3. node' \in [Nodes -> NodeStatus] /\ attempt' \in [Nodes -> Nat]
    BY <1>1, RunType DEF Start, TypeOK
  <2>4. (Run \in Runs)'
    BY <2>1, <2>2, <2>3, RunTypePrime
  <2>5. /\ UNCHANGED <<main, active, watch, workers, controller, done>>
        /\ UNCHANGED <<snapshot, controls, epoch, cancelAcked>>
        /\ log' = <<>> /\ torn' = FALSE /\ artifacts' = {}
    BY <1>1 DEF Start
  <2>6. log' \in Seq(Events) /\ torn' \in BOOLEAN /\ artifacts' \in SUBSET Nat
    <3>1. log' = <<>> /\ torn' = FALSE /\ artifacts' = {}
      BY <2>5
    <3>2. <<>> \in Seq(Events)
      OBVIOUS
    <3>3. QED
      BY <3>1, <3>2, Zenon
  <2>7. UNCHANGED <<snapshot, controls, epoch, cancelAcked>>
    BY <2>5
  <2>8. QED
    BY <2>1, <2>4, <2>5, <2>6, <2>7 DEF TypeOK
<1>2. CASE Pause
  <2>1. seq' \in Nat /\ lastHash' \in Nat /\ queue' \in Seq(Operations)
    BY <1>2, <1>q, RecordType, CallerType DEF Pause, Roles
  <2>2. status' \in RunStatus /\ pause' \in BOOLEAN /\ cancel' \in BOOLEAN
    BY <1>2, RunType DEF Pause, TypeOK, RunStatus
  <2>3. node' \in [Nodes -> NodeStatus] /\ attempt' \in [Nodes -> Nat]
    BY <1>2, RunType DEF Pause, TypeOK
  <2>4. (Run \in Runs)'
    BY <2>1, <2>2, <2>3, RunTypePrime
  <2>5. /\ UNCHANGED <<main, active, watch, workers, controller, done>>
        /\ UNCHANGED <<snapshot, log, torn,
                       artifacts, epoch, cancelAcked>>
        /\ controls' = controls + 1
    BY <1>2 DEF Pause, ControlCall
  <2>6. QED
    BY <2>1, <2>4, <2>5, QuietControl
<1>3. CASE Resume
  <2>1. seq' \in Nat /\ lastHash' \in Nat /\ queue' \in Seq(Operations)
    BY <1>3, <1>q, RecordType, CallerType DEF Resume, Roles
  <2>2. status' \in RunStatus /\ pause' \in BOOLEAN /\ cancel' \in BOOLEAN
    BY <1>3, RunType DEF Resume, TypeOK, RunStatus
  <2>3. node' \in [Nodes -> NodeStatus] /\ attempt' \in [Nodes -> Nat]
    BY <1>3, RunType DEF Resume, TypeOK
  <2>4. (Run \in Runs)'
    BY <2>1, <2>2, <2>3, RunTypePrime
  <2>5. /\ UNCHANGED <<main, active, watch, workers, controller, done>>
        /\ UNCHANGED <<snapshot, log, torn,
                       artifacts, epoch, cancelAcked>>
        /\ controls' = controls + 1
    BY <1>3 DEF Resume, ControlCall
  <2>6. QED
    BY <2>1, <2>4, <2>5, QuietControl
<1>4. CASE Cancel
  <2>1. seq' \in Nat /\ lastHash' \in Nat /\ queue' \in Seq(Operations)
    BY <1>4, <1>q, RecordType, CallerType DEF Cancel, Roles
  <2>2. \A w \in workers :
          [w EXCEPT !.aborted = @ \/ Aborts(w)] \in WorkerRecords
    BY DEF TypeOK, WorkerRecords, Aborts
  <2>3. workers' \in SUBSET WorkerRecords
    BY <1>4, <2>2 DEF Cancel
  <2>4. node' \in [Nodes -> NodeStatus]
    BY <1>4, RunType DEF Cancel, TypeOK, NodeStatus
  <2>5. (Run \in Runs)'
    BY <1>4, <2>1, <2>4, RunType, RunTypePrime DEF Cancel, TypeOK
  <2>6. QED
    BY <1>4, <2>1, <2>3, <2>5 DEF Cancel, ControlCall, TypeOK
<1>5. CASE Shutdown
  <2>1. seq' \in Nat /\ lastHash' \in Nat /\ queue' \in Seq(Operations)
    BY <1>5, <1>q, RecordType, CallerType DEF Shutdown, Roles
  <2>2. status' \in RunStatus /\ pause' \in BOOLEAN /\ cancel' \in BOOLEAN
    BY <1>5, RunType DEF Shutdown, TypeOK, RunStatus
  <2>3. node' \in [Nodes -> NodeStatus] /\ attempt' \in [Nodes -> Nat]
    BY <1>5, RunType DEF Shutdown, TypeOK
  <2>4. (Run \in Runs)'
    BY <2>1, <2>2, <2>3, RunTypePrime
  <2>5. /\ UNCHANGED <<main, active, watch, workers, controller, done>>
        /\ UNCHANGED <<snapshot, log, torn,
                       artifacts, epoch, cancelAcked>>
        /\ controls' = controls + 1
    BY <1>5 DEF Shutdown, ControlCall
  <2>6. QED
    BY <2>1, <2>4, <2>5, QuietControl
<1>6. ASSUME NEW role \in {"start", "resume", "recover"}, LaunchWhenRecorded(role)
      PROVE  TypeOK'
  <2>1. queue' \in Seq(Operations)
    BY <1>6, ChainType DEF LaunchWhenRecorded, Returns
  <2>2. main' \in MainPc
    BY <1>6 DEF LaunchWhenRecorded, Launched, TypeOK, MainPc
  <2>3. QED
    BY <1>6, <2>1, <2>2 DEF LaunchWhenRecorded, Returns, TypeOK, runVars, Run
<1>7. ASSUME NEW role \in {"pause", "cancel", "shutdown"}, ControlReturns(role)
      PROVE  TypeOK'
  <2>1. queue' \in Seq(Operations)
    BY <1>7, ChainType DEF ControlReturns, Returns
  <2>2. cancelAcked' \in BOOLEAN
    BY <1>7 DEF ControlReturns, TypeOK
  <2>3. QED
    BY <1>7, <2>1, <2>2 DEF ControlReturns, Returns, TypeOK, runVars, Run
<1>8. QED
  BY <1>1, <1>2, <1>3, <1>4, <1>5, <1>6, <1>7

LEMMA ExecutorStep ==
  ASSUME TypeOK,
         \/ Begin \/ BeginWithoutSnapshots \/ Started \/ LoopStops
         \/ SkipBlockedNodes \/ Race \/ Close \/ Closed
         \/ \E n \in Nodes : Dispatch(n)
  PROVE  TypeOK'
<1> USE RunType, RunTypePrime, CallerType
    DEF historyVars, diskVars, RunStatus, NodeStatus, MainPc, Roles
<1>q. queue \in Seq(Operations) /\ ActiveIds \in SUBSET WorkerIds
  <2>1. \A n \in Nodes : <<n, active[n]>> \in WorkerIds
    BY DEF TypeOK, WorkerIds
  <2>2. QED
    BY <2>1 DEF TypeOK, ActiveIds
<1>1. CASE Begin
  <2>1. seq' \in Nat /\ lastHash' \in Nat /\ queue' \in Seq(Operations)
    BY <1>1, <1>q, RecordType DEF Begin
  <2>2. QED
    BY <1>1, <2>1 DEF Begin, TypeOK
<1>2. CASE BeginWithoutSnapshots
  <2>1. seq' \in Nat /\ lastHash' \in Nat /\ queue' \in Seq(Operations)
    BY <1>2, <1>q, RecordType DEF BeginWithoutSnapshots
  <2>2. status' \in RunStatus
    BY <1>2 DEF BeginWithoutSnapshots, Terminal
  <2>3. QED
    BY <1>2, <2>1, <2>2 DEF BeginWithoutSnapshots, TypeOK
<1>3. CASE Started
  <2>1. queue' \in Seq(Operations)
    BY <1>3, ChainType DEF Started, Returns
  <2>2. QED
    BY <1>3, <2>1 DEF Started, Returns, TypeOK, runVars
<1>4. CASE LoopStops
  BY <1>4, <1>q DEF LoopStops, TypeOK, runVars
<1>5. CASE SkipBlockedNodes
  <2>1. node' \in [Nodes -> NodeStatus]
    BY <1>5 DEF SkipBlockedNodes, TypeOK
  <2>2. QED
    BY <1>5, <2>1 DEF SkipBlockedNodes, TypeOK
<1>6. CASE Race
  BY <1>6, <1>q DEF Race, TypeOK, runVars
<1>7. CASE Close
  <2>1. seq' \in Nat /\ lastHash' \in Nat /\ queue' \in Seq(Operations)
    BY <1>7, <1>q, RecordType DEF Close
  <2>2. node' \in [Nodes -> NodeStatus]
    BY <1>7 DEF Close, TypeOK
  <2>3. status' \in RunStatus
    BY <1>7 DEF Close, FinalStatus, Terminal
  <2>4. QED
    BY <1>7, <2>1, <2>2, <2>3 DEF Close, TypeOK
<1>8. CASE Closed
  <2>1. queue' \in Seq(Operations)
    BY <1>8, ChainType DEF Closed, Returns
  <2>2. \A w \in workers : [w EXCEPT !.owned = FALSE] \in WorkerRecords
    BY ZenonT(40) DEF TypeOK, WorkerRecords
  <2>3. QED
    BY <1>8, <2>1, <2>2, ZenonT(40) DEF Closed, Returns, TypeOK, runVars
<1>9. ASSUME NEW n \in Nodes, Dispatch(n)
      PROVE  TypeOK'
  <2> DEFINE a == attempt[n] + 1
  <2>0. attempt \in [Nodes -> Nat]
    BY DEF TypeOK
  <2>1. a \in Nat /\ NodeCaller(n, a) \in Callers
    <3>1. a \in Nat
      BY <2>0
    <3> HIDE DEF a
    <3>2. NodeCaller(n, a) \in Callers
      BY <3>1, CallerType, Zenon
    <3>3. QED BY <3>1, <3>2
  <2>2. seq' \in Nat /\ lastHash' \in Nat /\ queue' \in Seq(Operations)
    BY <1>9, <1>q, <2>1, RecordType DEF Dispatch
  <2>3. workers' \in SUBSET WorkerRecords
    <3>1. [n |-> n, a |-> a, at |-> "starting", aborted |-> FALSE,
           owned |-> TRUE] \in WorkerRecords
      BY <2>1 DEF WorkerRecords, WorkerPc
    <3>2. QED
      BY <1>9, <3>1 DEF Dispatch, TypeOK
  <2>4. /\ node' \in [Nodes -> NodeStatus]
        /\ attempt' \in [Nodes -> Nat]
        /\ controller' \in [Nodes -> Nat]
        /\ active' \in [Nodes -> Nat]
    BY <1>9, <2>1 DEF Dispatch, TypeOK
  <2>5. QED
    BY <1>9, <2>2, <2>3, <2>4 DEF Dispatch, TypeOK
<1>10. QED
  BY <1>1, <1>2, <1>3, <1>4, <1>5, <1>6, <1>7, <1>8, <1>9

(* A worker that moves on stays a worker, and a catch block is well typed. *)
LEMMA MovedType ==
  ASSUME TypeOK, NEW w \in workers, NEW at \in WorkerPc
  PROVE  Moved(w, at) \in SUBSET WorkerRecords
BY DEF Moved, TypeOK, WorkerRecords

LEMMA CatchStep ==
  ASSUME TypeOK, NEW w \in workers, NEW aborted \in BOOLEAN,
         NEW q \in Seq(Operations), Catch(w, aborted, q), done' \in BOOLEAN
  PROVE  TypeOK'
<1> USE RunType, RunTypePrime, CallerType
    DEF historyVars, diskVars, executorVars
<1>1. w \in WorkerRecords /\ w.n \in Nodes /\ w.a \in Nat
  BY DEF TypeOK, WorkerRecords
<1>2. seq' \in Nat /\ lastHash' \in Nat /\ queue' \in Seq(Operations)
  BY <1>1, RecordType DEF Catch
<1>3. workers' \in SUBSET WorkerRecords
  BY MovedType DEF Catch, WorkerPc
<1>4. node' \in [Nodes -> NodeStatus]
  BY <1>1 DEF Catch, CaughtStatus, TypeOK, NodeStatus
<1>5. QED
  BY <1>2, <1>3, <1>4 DEF Catch, TypeOK

LEMMA WorkerTypeStep ==
  ASSUME TypeOK, NEW w \in workers, WorkerStep(w) PROVE TypeOK'
<1> USE RunType, RunTypePrime, CallerType
    DEF historyVars, diskVars, executorVars
<1>w. /\ w \in WorkerRecords /\ w.n \in Nodes /\ w.a \in Nat
      /\ w.aborted \in BOOLEAN /\ NodeCaller(w.n, w.a) \in Callers
  BY DEF TypeOK, WorkerRecords
<1>q. queue \in Seq(Operations) /\ (queue # <<>> => Tail(queue) \in Seq(Operations))
  BY ChainType DEF TypeOK
<1>1. CASE NodeStarted(w)
  <2>1. queue # <<>> /\ done' \in BOOLEAN
    BY <1>1 DEF NodeStarted, Returns
  <2>2. CASE Catch(w, w.aborted, Tail(queue))
    BY <1>w, <1>q, <2>1, <2>2, CatchStep
  <2>3. CASE ~Catch(w, w.aborted, Tail(queue))
    BY <1>1, <1>q, <2>1, <2>3, MovedType
       DEF NodeStarted, TypeOK, WorkerPc, runVars
  <2>4. QED BY <2>2, <2>3
<1>2. CASE ExecutorReturns(w)
  <2>1. [op |-> "artifact", who |-> NodeCaller(w.n, w.a), ev |-> NoEvent] \in Operations
    BY <1>w DEF Operations
  <2>2. queue' \in Seq(Operations)
    BY <1>2, <1>q, <2>1, AppendType DEF ExecutorReturns
  <2>3. QED
    BY <1>2, <2>2, MovedType DEF ExecutorReturns, TypeOK, WorkerPc, runVars
<1>3. CASE ExecutorFails(w)
  <2>1. Catch(w, w.aborted, queue) /\ done' \in BOOLEAN
    BY <1>3 DEF ExecutorFails, TypeOK
  <2>2. QED BY <1>w, <1>q, <2>1, CatchStep
<1>4. CASE TimeoutFires(w)
  <2>1. Catch(w, TRUE, queue) /\ done' \in BOOLEAN
    BY <1>4 DEF TimeoutFires, TypeOK
  <2>2. QED BY <1>q, <2>1, CatchStep
<1>5. CASE ArtifactSaved(w)
  <2>1. queue' \in Seq(Operations) /\ done' \in BOOLEAN
    BY <1>5, <1>q DEF ArtifactSaved, Returns
  <2>2. node' \in [Nodes -> NodeStatus]
    BY <1>5, <1>w DEF ArtifactSaved, TypeOK, NodeStatus
  <2>3. QED
    BY <1>5, <2>1, <2>2, MovedType DEF ArtifactSaved, TypeOK, WorkerPc
<1>6. CASE ArtifactFails(w)
  <2>1. Catch(w, w.aborted, Tail(queue)) /\ done' \in BOOLEAN /\ queue # <<>>
    BY <1>6 DEF ArtifactFails, TypeOK
  <2>2. QED BY <1>w, <1>q, <2>1, CatchStep
<1>7. CASE NodeLinked(w)
  <2>1. seq' \in Nat /\ lastHash' \in Nat /\ queue' \in Seq(Operations)
    BY <1>7, <1>w, <1>q, RecordType DEF NodeLinked
  <2>2. QED
    BY <1>7, <2>1, MovedType DEF NodeLinked, TypeOK, WorkerPc
<1>8. CASE LinkFails(w)
  <2>1. Catch(w, w.aborted, queue) /\ done' \in BOOLEAN
    BY <1>8 DEF LinkFails, TypeOK
  <2>2. QED BY <1>w, <1>q, <2>1, CatchStep
<1>9. CASE NodeClosed(w)
  <2>1. queue' \in Seq(Operations) /\ done' \in BOOLEAN
    BY <1>9, <1>q DEF NodeClosed, Returns
  <2>2. controller' \in [Nodes -> Nat] /\ active' \in [Nodes -> Nat]
    BY <1>9, <1>w DEF NodeClosed, TypeOK
  <2>3. main' \in MainPc /\ watch' \in SUBSET WorkerIds
    BY <1>9 DEF NodeClosed, TypeOK, MainPc
  <2>4. QED
    BY <1>9, <2>1, <2>2, <2>3 DEF NodeClosed, TypeOK, runVars
<1>10. QED
  BY <1>1, <1>2, <1>3, <1>4, <1>5, <1>6, <1>7, <1>8, <1>9 DEF WorkerStep

LEMMA CrashStep ==
  ASSUME TypeOK, CrashAndInitialize PROVE TypeOK'
<1> USE RunType, RunTypePrime, CallerType DEF Roles
<1>1. /\ snapshot \in Runs
      /\ snapshot.status \in RunStatus
      /\ snapshot.pause \in BOOLEAN /\ snapshot.cancel \in BOOLEAN
      /\ snapshot.node \in [Nodes -> NodeStatus]
      /\ snapshot.attempt \in [Nodes -> Nat]
      /\ snapshot.seq \in Nat /\ snapshot.lastHash \in Nat
      /\ epoch \in Nat
  BY DEF TypeOK, Runs
<1>2. status' \in RunStatus /\ node' \in [Nodes -> NodeStatus]
  BY <1>1 DEF CrashAndInitialize, RunStatus, NodeStatus
<1>3. seq' \in Nat /\ lastHash' \in Nat /\ epoch' \in Nat
  BY <1>1 DEF CrashAndInitialize
<1>4. queue' \in Seq(Operations)
  <2>1. [op |-> "append", who |-> Caller("recover"),
         ev |-> [seq |-> snapshot.seq + 1, epoch |-> epoch + 1,
                 prev |-> snapshot.lastHash]] \in Operations
    BY <1>1 DEF Operations, Events
  <2>2. \A x \in Operations : <<x>> \in Seq(Operations)
    OBVIOUS
  <2>3. <<>> \in Seq(Operations)
    OBVIOUS
  <2>4. QED
    BY <2>1, <2>2, <2>3 DEF CrashAndInitialize
<1>5. torn' \in BOOLEAN
  BY DEF CrashAndInitialize, TypeOK
<1>6. QED
  BY <1>1, <1>2, <1>3, <1>4, <1>5 DEF CrashAndInitialize, TypeOK, MainPc

LEMMA TypeStep ==
  ASSUME TypeOK, [Next]_vars PROVE TypeOK'
<1>1. CASE UNCHANGED vars
  BY <1>1 DEF TypeOK, Run, vars, runVars, executorVars, diskVars, historyVars
<1>2. CASE Next
  BY <1>2, WriteStep, ControlStep, ExecutorStep, WorkerTypeStep, CrashStep
     DEF Next, EngineStep
<1>3. QED BY <1>1, <1>2

LEMMA InitType ==
  ASSUME Init PROVE TypeOK
<1>1. Run \in Runs
  BY RunType DEF Init, RunStatus, NodeStatus
<1>2. queue \in Seq(Operations) /\ log \in Seq(Events)
  BY DEF Init
<1>3. QED
  BY <1>1, <1>2 DEF Init, TypeOK, MainPc

(* Every reachable state of a run is well typed.                           *)
THEOREM TypeCorrect == Spec => []TypeOK
<1>1. Init => TypeOK
  BY InitType
<1>2. TypeOK /\ [Next]_vars => TypeOK'
  BY TypeStep
<1>3. QED
  BY <1>1, <1>2, PTL DEF Spec

-----------------------------------------------------------------------------
(***************************************************************************)
(* What a step may change.  An idle step leaves nodes, attempts and the    *)
(* snapshot alone; the others are named.                                   *)
(***************************************************************************)
Idle ==
  /\ UNCHANGED <<node, attempt, snapshot, epoch>>

LEMMA IdleSteps ==
  ASSUME NEW w,
         \/ Start \/ Pause \/ Resume \/ Shutdown \/ AppendReturns
         \/ \E role \in {"start", "resume", "recover"} : LaunchWhenRecorded(role)
         \/ \E role \in {"pause", "cancel", "shutdown"} : ControlReturns(role)
         \/ Begin \/ BeginWithoutSnapshots \/ Started \/ LoopStops \/ Race
         \/ Closed
         \/ ExecutorReturns(w) \/ NodeLinked(w) \/ NodeClosed(w)
         \/ UNCHANGED vars
  PROVE  Idle
<1> USE DEF Idle, runVars, executorVars, diskVars, historyVars
<1>1. CASE Start BY <1>1 DEF Start
<1>2. CASE Pause BY <1>2 DEF Pause
<1>3. CASE Resume BY <1>3 DEF Resume
<1>4. CASE Shutdown BY <1>4 DEF Shutdown
<1>5. CASE AppendReturns BY <1>5 DEF AppendReturns
<1>6. CASE \E role \in {"start", "resume", "recover"} : LaunchWhenRecorded(role)
  BY <1>6 DEF LaunchWhenRecorded
<1>7. CASE \E role \in {"pause", "cancel", "shutdown"} : ControlReturns(role)
  BY <1>7 DEF ControlReturns
<1>8. CASE Begin BY <1>8 DEF Begin
<1>9. CASE BeginWithoutSnapshots BY <1>9 DEF BeginWithoutSnapshots
<1>10. CASE Started BY <1>10 DEF Started
<1>11. CASE LoopStops BY <1>11 DEF LoopStops
<1>12. CASE Race BY <1>12 DEF Race
<1>13. CASE Closed BY <1>13 DEF Closed
<1>14. CASE ExecutorReturns(w) BY <1>14 DEF ExecutorReturns
<1>15. CASE NodeLinked(w) BY <1>15 DEF NodeLinked
<1>16. CASE NodeClosed(w) BY <1>16 DEF NodeClosed
<1>17. CASE UNCHANGED vars BY <1>17 DEF vars
<1>18. QED
  BY <1>1, <1>2, <1>3, <1>4, <1>5, <1>6, <1>7, <1>8, <1>9, <1>10, <1>11, <1>12,
     <1>13, <1>14, <1>15, <1>16, <1>17

(* The steps of executeNode that end in its catch block.                   *)
LEMMA CatchSteps ==
  ASSUME NEW w,
         \/ NodeStarted(w) \/ ExecutorFails(w) \/ TimeoutFires(w)
         \/ ArtifactFails(w) \/ LinkFails(w)
  PROVE  \/ Idle
         \/ \E aborted, q : Catch(w, aborted, q)
BY DEF NodeStarted, ExecutorFails, TimeoutFires, ArtifactFails, LinkFails, Idle,
       runVars, diskVars, historyVars

-----------------------------------------------------------------------------
(***************************************************************************)
(* Bounded retries.  A pending node has an attempt left: it was never      *)
(* started, or its catch block found one, or a crash interrupted it.  The  *)
(* snapshot satisfies the same bounds, so recovery restores them.          *)
(***************************************************************************)
AttemptInv ==
  \A n \in Nodes :
    /\ attempt[n] <= Retries[n] + 1 + epoch
    /\ node[n] = "pending" => attempt[n] <= Retries[n] + epoch
    /\ snapshot.attempt[n] <= Retries[n] + 1 + epoch
    /\ snapshot.node[n] = "pending" => snapshot.attempt[n] <= Retries[n] + epoch

LEMMA AttemptStep ==
  ASSUME TypeOK, AttemptInv, [Next]_vars PROVE AttemptInv'
<1>t. /\ attempt \in [Nodes -> Nat] /\ node \in [Nodes -> NodeStatus]
      /\ snapshot.attempt \in [Nodes -> Nat]
      /\ snapshot.node \in [Nodes -> NodeStatus]
      /\ epoch \in Nat
  BY RunType DEF TypeOK, Runs
<1>1. CASE Idle
  BY <1>1 DEF Idle, AttemptInv
<1>2. CASE Write
  <2>1. UNCHANGED <<node, attempt, epoch>>
    BY <1>2 DEF Write, runVars, historyVars
  <2>2. snapshot' = snapshot \/ snapshot' = Run
    BY <1>2 DEF Write, WriteEffect
  <2>3. CASE snapshot' = snapshot
    BY <2>1, <2>3 DEF AttemptInv
  <2>4. CASE snapshot' = Run
    <3>1. snapshot'.node = node /\ snapshot'.attempt = attempt
      BY <2>4 DEF Run
    <3>2. QED
      BY <2>1, <3>1 DEF AttemptInv
  <2>5. QED BY <2>2, <2>3, <2>4
<1>3. CASE Cancel \/ SkipBlockedNodes \/ Close
  <2>1. UNCHANGED <<attempt, snapshot, epoch>>
    BY <1>3 DEF Cancel, SkipBlockedNodes, Close, diskVars, historyVars
  <2>2. \A n \in Nodes : node'[n] = "pending" => node[n] = "pending"
    BY <1>3, <1>t DEF Cancel, SkipBlockedNodes, Close
  <2>3. QED
    BY <2>1, <2>2 DEF AttemptInv
<1>4. ASSUME NEW n \in Nodes, Dispatch(n) PROVE AttemptInv'
  <2>1. UNCHANGED <<snapshot, epoch>>
    BY <1>4 DEF Dispatch, diskVars, historyVars
  <2>2. node[n] = "pending"
    BY <1>4 DEF Dispatch, CanDispatch, Ready
  <2>3. /\ node' = [node EXCEPT ![n] = "running"]
        /\ attempt' = [attempt EXCEPT ![n] = attempt[n] + 1]
    BY <1>4 DEF Dispatch
  <2>4. node'[n] = "running" /\ attempt'[n] = attempt[n] + 1
    BY <1>t, <2>3
  <2>5. \A m \in Nodes : m # n => node'[m] = node[m] /\ attempt'[m] = attempt[m]
    BY <1>t, <2>3
  <2>6. attempt[n] <= Retries[n] + epoch
    BY <2>2 DEF AttemptInv
  <2>7. attempt[n] \in Nat /\ Retries[n] \in Nat
    BY <1>t
  <2>8. attempt'[n] <= Retries[n] + 1 + epoch'
    BY <1>t, <2>1, <2>4, <2>6, <2>7
  <2>9. QED
    BY <2>1, <2>4, <2>5, <2>8 DEF AttemptInv
<1>5. ASSUME NEW w \in workers, NEW aborted, NEW q, Catch(w, aborted, q)
      PROVE  AttemptInv'
  <2>1. UNCHANGED <<attempt, snapshot, epoch>>
    BY <1>5 DEF Catch, diskVars, historyVars
  <2>2. w.n \in Nodes
    BY DEF TypeOK, WorkerRecords
  <2>3. \A n \in Nodes : n # w.n => node'[n] = node[n]
    BY <1>5, <1>t DEF Catch
  <2>4. node'[w.n] = "pending" => attempt[w.n] <= Retries[w.n]
    BY <1>5, <1>t, <2>2 DEF Catch, CaughtStatus
  <2>5. attempt[w.n] \in Nat /\ Retries[w.n] \in Nat /\ epoch \in Nat
    BY <1>t, <2>2
  <2>6. node'[w.n] = "pending" => attempt[w.n] <= Retries[w.n] + epoch
    BY <2>4, <2>5
  <2>7. \A n \in Nodes :
          node'[n] = "pending" => attempt[n] <= Retries[n] + epoch
    BY <2>3, <2>6 DEF AttemptInv
  <2>8. QED
    BY <2>1, <2>7 DEF AttemptInv
<1>6. ASSUME NEW w \in workers, ArtifactSaved(w) PROVE AttemptInv'
  <2>1. UNCHANGED <<attempt, snapshot, epoch>>
    BY <1>6 DEF ArtifactSaved, diskVars, historyVars
  <2>2. \A n \in Nodes : node'[n] = "pending" => node[n] = "pending"
    BY <1>6, <1>t DEF ArtifactSaved
  <2>3. QED
    BY <2>1, <2>2 DEF AttemptInv
<1>7. CASE CrashAndInitialize
  <2>1. /\ attempt' = snapshot.attempt /\ snapshot' = snapshot
        /\ epoch' = epoch + 1
    BY <1>7 DEF CrashAndInitialize
  <2>2. ASSUME NEW n \in Nodes
        PROVE  /\ attempt'[n] <= Retries[n] + epoch'
               /\ snapshot'.attempt[n] <= Retries[n] + epoch'
    <3>1. snapshot.attempt[n] <= Retries[n] + 1 + epoch
      BY DEF AttemptInv
    <3>2. snapshot.attempt[n] \in Nat /\ Retries[n] \in Nat /\ epoch \in Nat
      BY <1>t
    <3>3. attempt'[n] = snapshot.attempt[n] /\ snapshot'.attempt[n] = snapshot.attempt[n]
      BY <2>1
    <3>4. snapshot.attempt[n] <= Retries[n] + (epoch + 1)
      BY <3>1, <3>2
    <3>5. QED
      BY <2>1, <3>3, <3>4
  <2>3. ASSUME NEW n \in Nodes
        PROVE  attempt'[n] <= Retries[n] + 1 + epoch'
               /\ snapshot'.attempt[n] <= Retries[n] + 1 + epoch'
    <3>1. attempt'[n] \in Nat /\ snapshot'.attempt[n] \in Nat
          /\ Retries[n] \in Nat /\ epoch' \in Nat
      BY <1>t, <2>1
    <3>2. QED
      BY <2>2, <3>1, SMTT(40)
  <2>4. QED
    BY <2>2, <2>3 DEF AttemptInv
<1>8. QED
  BY <1>1, <1>2, <1>3, <1>4, <1>5, <1>6, <1>7, IdleSteps, CatchSteps
     DEF Next, EngineStep, WorkerStep

(* Whatever the interleaving of retries, controls and crashes, a node is   *)
(* started at most Retries[n] + 1 times, plus once for each crash.         *)
THEOREM RetriesBounded == Spec => []BoundedAttempts
<1>1. Init => AttemptInv
  BY DEF Init, AttemptInv, Run
<1>2. TypeOK /\ AttemptInv /\ [Next]_vars => AttemptInv'
  BY AttemptStep
<1>3. AttemptInv => BoundedAttempts
  BY DEF AttemptInv, BoundedAttempts
<1>4. QED
  BY <1>1, <1>2, <1>3, TypeCorrect, PTL DEF Spec

-----------------------------------------------------------------------------
(***************************************************************************)
(* A cancel that was acknowledged.  It is acknowledged when its own        *)
(* snapshot, taken when its turn in the chain came, is on disk; the flag   *)
(* was set before the cancel entered the chain and only a crash, which     *)
(* restores it from the snapshot, writes it again.                         *)
(***************************************************************************)
CancelOp(e) == e.who.role = "cancel"

CancelInv ==
  /\ cancelAcked => snapshot.cancel
  /\ snapshot.cancel => cancel
  /\ \A i \in 1..Len(queue) : CancelOp(queue[i]) => cancel
  /\ queue # <<>> /\ done /\ Head(queue).op = "run" /\ CancelOp(Head(queue))
       => snapshot.cancel

(* The chain after a step that is not a cancel's: its head may have        *)
(* returned, and one operation may have been queued.                       *)
Advanced(q) == \/ q = queue /\ done' = done
               \/ queue # <<>> /\ q = Tail(queue) /\ ~done'
Queued(q) == \E e \in Operations :
               e.op # "run" /\ ~CancelOp(e) /\ queue' = Append(q, e)

Steady ==
  /\ UNCHANGED <<cancel, cancelAcked, snapshot>>
  /\ \E q : Advanced(q) /\ (queue' = q \/ Queued(q))

(* A record is queued by its caller, who is not a cancel.                  *)
LEMMA RecordQueued ==
  ASSUME TypeOK, NEW q, NEW who \in Callers, who.role # "cancel", Record(q, who)
  PROVE  Queued(q)
<1>1. [seq |-> seq + 1, epoch |-> epoch, prev |-> lastHash] \in Events
  BY DEF TypeOK, Run, Runs, Events
<1>2. [op |-> "append", who |-> who,
       ev |-> [seq |-> seq + 1, epoch |-> epoch, prev |-> lastHash]] \in Operations
  BY <1>1 DEF Operations
<1>3. QED
  BY <1>2 DEF Record, Queued, CancelOp

(* The callers that are not a cancel.                                      *)
LEMMA OtherCallers ==
  /\ \A role \in Roles \ {"cancel"} :
       Caller(role) \in Callers /\ Caller(role).role # "cancel"
  /\ \A n \in Nodes, a \in Nat :
       NodeCaller(n, a) \in Callers /\ NodeCaller(n, a).role # "cancel"
BY DEF Caller, NodeCaller, Callers, Roles

LEMMA WorkerCaller ==
  ASSUME TypeOK, NEW w \in workers
  PROVE  /\ w \in WorkerRecords
         /\ NodeCaller(w.n, w.a) \in Callers
         /\ NodeCaller(w.n, w.a).role # "cancel"
BY OtherCallers DEF TypeOK, WorkerRecords

(* What the await of an operation that returned did to the chain.          *)
LEMMA ReturnsAdvanced ==
  ASSUME NEW op, NEW who, Returns(op, who) PROVE Advanced(Tail(queue))
BY DEF Returns, Advanced

(* The steps that queue one record behind the whole chain.                 *)
LEMMA RecordingSteady ==
  ASSUME TypeOK,
         \/ Start \/ Pause \/ Resume \/ Shutdown
         \/ Begin \/ BeginWithoutSnapshots \/ Close
  PROVE  Steady
<1>1. PICK role \in {"start", "pause", "resume", "shutdown", "main"} :
        Record(queue, Caller(role))
  BY DEF Start, Pause, Resume, Shutdown, Begin, BeginWithoutSnapshots, Close
<1>2. Caller(role) \in Callers /\ Caller(role).role # "cancel"
  BY OtherCallers DEF Roles
<1>3. Queued(queue)
  BY <1>1, <1>2, RecordQueued
<1>4. UNCHANGED <<cancel, cancelAcked, snapshot, done>>
  BY DEF Start, Pause, Resume, Shutdown, Begin, BeginWithoutSnapshots, Close,
         diskVars, historyVars
<1>5. Advanced(queue)
  BY <1>4 DEF Advanced
<1>6. QED
  BY <1>3, <1>4, <1>5 DEF Steady

(* The steps of execute() that do not touch the chain or only free it.     *)
LEMMA ExecutorSteady ==
  ASSUME \/ \E role \in {"start", "resume", "recover"} : LaunchWhenRecorded(role)
         \/ Started \/ LoopStops \/ SkipBlockedNodes \/ Race \/ Closed
         \/ UNCHANGED vars
  PROVE  Steady
<1>1. UNCHANGED <<cancel, cancelAcked, snapshot>>
  BY DEF LaunchWhenRecorded, Started, LoopStops, SkipBlockedNodes, Race, Closed,
         vars, runVars, diskVars, historyVars
<1>2. Advanced(queue')
  BY DEF LaunchWhenRecorded, Started, LoopStops, SkipBlockedNodes, Race, Closed,
         Returns, Advanced, vars
<1>3. QED
  BY <1>1, <1>2 DEF Steady

LEMMA DispatchSteady ==
  ASSUME TypeOK, NEW n \in Nodes, Dispatch(n) PROVE Steady
<1>1. attempt[n] + 1 \in Nat
  BY RunType, SMTT(40) DEF TypeOK
<1>2. /\ NodeCaller(n, attempt[n] + 1) \in Callers
      /\ NodeCaller(n, attempt[n] + 1).role # "cancel"
  BY <1>1, OtherCallers
<1>3. Record(queue, NodeCaller(n, attempt[n] + 1))
  BY DEF Dispatch
<1>4. Queued(queue)
  BY <1>2, <1>3, RecordQueued
<1>5. UNCHANGED <<cancel, cancelAcked, snapshot, done>>
  BY DEF Dispatch, diskVars, historyVars
<1>6. QED
  BY <1>4, <1>5 DEF Steady, Advanced

(* A step that ends in the catch block.                                    *)
LEMMA CatchSteady ==
  ASSUME TypeOK, NEW w \in workers, NEW aborted, NEW q,
         Catch(w, aborted, q), Advanced(q)
  PROVE  Steady
<1>1. UNCHANGED <<cancel, cancelAcked, snapshot>>
  BY DEF Catch, diskVars, historyVars
<1>2. Queued(q)
  BY WorkerCaller, RecordQueued DEF Catch
<1>3. QED
  BY <1>1, <1>2 DEF Steady

LEMMA WorkerSteady ==
  ASSUME TypeOK, NEW w \in workers, WorkerStep(w) PROVE Steady
<1>1. CASE NodeStarted(w)
  <2>1. Advanced(Tail(queue))
    BY <1>1, ReturnsAdvanced DEF NodeStarted
  <2>2. CASE Catch(w, w.aborted, Tail(queue))
    BY <2>1, <2>2, CatchSteady
  <2>3. CASE queue' = Tail(queue) /\ UNCHANGED <<runVars, diskVars, historyVars>>
    BY <2>1, <2>3 DEF Steady, runVars, diskVars, historyVars
  <2>4. QED
    BY <1>1, <2>2, <2>3 DEF NodeStarted
<1>2. CASE ExecutorReturns(w)
  <2>1. [op |-> "artifact", who |-> NodeCaller(w.n, w.a), ev |-> NoEvent]
          \in Operations
    BY WorkerCaller, CallerType DEF Operations
  <2>2. Queued(queue)
    BY <1>2, <2>1, WorkerCaller DEF ExecutorReturns, Queued, CancelOp
  <2>3. UNCHANGED <<cancel, cancelAcked, snapshot, done>>
    BY <1>2 DEF ExecutorReturns, runVars, diskVars, historyVars
  <2>4. QED
    BY <2>2, <2>3 DEF Steady, Advanced
<1>3. CASE ExecutorFails(w) \/ TimeoutFires(w) \/ LinkFails(w)
  <2>1. Advanced(queue)
    BY <1>3 DEF ExecutorFails, TimeoutFires, LinkFails, Advanced
  <2>2. Catch(w, w.aborted, queue) \/ Catch(w, TRUE, queue)
    BY <1>3 DEF ExecutorFails, TimeoutFires, LinkFails
  <2>3. QED
    BY <2>1, <2>2, CatchSteady
<1>4. CASE ArtifactFails(w)
  <2>1. Advanced(Tail(queue)) /\ Catch(w, w.aborted, Tail(queue))
    BY <1>4 DEF ArtifactFails, Advanced
  <2>2. QED
    BY <2>1, CatchSteady
<1>5. CASE ArtifactSaved(w) \/ NodeClosed(w)
  <2>1. Advanced(Tail(queue)) /\ queue' = Tail(queue)
    BY <1>5, ReturnsAdvanced DEF ArtifactSaved, NodeClosed
  <2>2. UNCHANGED <<cancel, cancelAcked, snapshot>>
    BY <1>5 DEF ArtifactSaved, NodeClosed, runVars, diskVars, historyVars
  <2>3. QED
    BY <2>1, <2>2 DEF Steady
<1>6. CASE NodeLinked(w)
  <2>1. Queued(queue)
    BY <1>6, WorkerCaller, RecordQueued DEF NodeLinked
  <2>2. UNCHANGED <<cancel, cancelAcked, snapshot, done>>
    BY <1>6 DEF NodeLinked, diskVars, historyVars
  <2>3. QED
    BY <2>1, <2>2 DEF Steady, Advanced
<1>7. QED
  BY <1>1, <1>2, <1>3, <1>4, <1>5, <1>6 DEF WorkerStep

(* The elements of a tail and of an extended sequence.                     *)
LEMMA TailAt ==
  ASSUME NEW S, NEW s \in Seq(S), s # <<>>
  PROVE  /\ Len(s) \in Nat /\ Len(Tail(s)) = Len(s) - 1
         /\ \A i \in 1..(Len(s) - 1) : i + 1 \in 1..Len(s) /\ Tail(s)[i] = s[i + 1]
OBVIOUS

LEMMA HeadAt ==
  ASSUME NEW S, NEW s \in Seq(S), s # <<>>
  PROVE  Head(s) = s[1] /\ 1 \in 1..Len(s)
OBVIOUS

LEMMA AppendAt ==
  ASSUME NEW S, NEW s \in Seq(S), NEW e
  PROVE  /\ Len(s) \in Nat /\ Len(Append(s, e)) = Len(s) + 1
         /\ \A i \in 1..Len(s) : Append(s, e)[i] = s[i]
         /\ Append(s, e)[Len(s) + 1] = e
OBVIOUS

(* An index is the last one or belongs to the rest.                        *)
LEMMA Below == \A n \in Nat : \A i \in 1..n : i = n \/ i \in 1..(n - 1)
OBVIOUS

(* A steady step keeps what is known of a cancel.                          *)
LEMMA CancelKept ==
  ASSUME TypeOK, CancelInv, Steady PROVE CancelInv'
<1>1. UNCHANGED <<cancel, cancelAcked, snapshot>>
  BY DEF Steady
<1>2. PICK q : Advanced(q) /\ (queue' = q \/ Queued(q))
  BY DEF Steady
<1>3. queue \in Seq(Operations) /\ q \in Seq(Operations)
  BY <1>2, ChainType DEF TypeOK, Advanced
<1>4. \A i \in 1..Len(q) : CancelOp(q[i]) => cancel
  <2>1. CASE q = queue
    BY <2>1 DEF CancelInv
  <2>2. CASE queue # <<>> /\ q = Tail(queue)
    BY <1>3, <2>2, TailAt DEF CancelInv
  <2>3. QED BY <1>2, <2>1, <2>2 DEF Advanced
<1>5. q # <<>> /\ done' /\ Head(q).op = "run" /\ CancelOp(Head(q))
        => snapshot.cancel
  BY <1>2 DEF CancelInv, Advanced
<1>6. CASE queue' = q
  BY <1>1, <1>4, <1>5, <1>6 DEF CancelInv, CancelOp
<1>7. CASE Queued(q)
  <2>1. PICK e \in Operations :
          e.op # "run" /\ ~CancelOp(e) /\ queue' = Append(q, e)
    BY <1>7 DEF Queued
  <2>2. /\ Len(queue') = Len(q) + 1
        /\ queue'[Len(q) + 1] = e
        /\ \A i \in 1..Len(q) : queue'[i] = q[i]
    BY <1>3, <2>1
  <2>3. \A i \in 1..Len(queue') : CancelOp(queue'[i]) => cancel
    BY <1>3, <1>4, <2>1, <2>2
  <2>4. Head(queue') = IF q = <<>> THEN e ELSE Head(q)
    BY <1>3, <2>1
  <2>5. queue' # <<>> /\ done' /\ Head(queue').op = "run" /\ CancelOp(Head(queue'))
          => snapshot.cancel
    BY <1>5, <2>1, <2>4
  <2>6. QED
    BY <1>1, <2>3, <2>5 DEF CancelInv, CancelOp
<1>8. QED BY <1>2, <1>6, <1>7

LEMMA CancelStep ==
  ASSUME TypeOK, CancelInv, [Next]_vars PROVE CancelInv'
<1>t. queue \in Seq(Operations)
  BY DEF TypeOK
<1>1. CASE Steady
  BY <1>1, CancelKept
<1>2. CASE Write
  <2>1. UNCHANGED <<cancel, cancelAcked, queue>> /\ queue # <<>>
    BY <1>2 DEF Write, runVars, historyVars
  <2>2. (snapshot' = snapshot /\ Head(queue).op # "run") \/ snapshot' = Run
    BY <1>2 DEF Write, WriteEffect
  <2>3. Head(queue) = queue[1] /\ 1 \in 1..Len(queue)
    BY <1>t, <2>1
  <2>4. CancelOp(Head(queue)) => cancel
    BY <2>3 DEF CancelInv
  <2>5. CASE snapshot' = snapshot /\ Head(queue).op # "run"
    BY <2>1, <2>5 DEF CancelInv, CancelOp
  <2>6. CASE snapshot' = Run
    <3>1. snapshot'.cancel = cancel
      BY <2>6 DEF Run
    <3>2. QED
      BY <2>1, <2>4, <3>1 DEF CancelInv, CancelOp
  <2>7. QED BY <2>2, <2>5, <2>6
<1>3. CASE AppendReturns
  <2>1. PICK e : /\ UNCHANGED <<cancel, cancelAcked, snapshot>>
                 /\ queue # <<>> /\ ~done'
                 /\ e.who = Head(queue).who
                 /\ queue' = Append(Tail(queue), e)
    BY <1>3 DEF AppendReturns, runVars, diskVars, historyVars
  <2>2. \A i \in 1..Len(queue') :
          \E j \in 1..Len(queue) : queue'[i].who = queue[j].who
    <3>1. TAKE i \in 1..Len(queue')
    <3>2. /\ Len(queue) \in Nat /\ Tail(queue) \in Seq(Operations)
          /\ Len(Tail(queue)) = Len(queue) - 1
      BY <1>t, <2>1, TailAt
    <3>3. /\ Len(queue') = Len(queue)
          /\ queue'[Len(queue)] = e
          /\ \A k \in 1..(Len(queue) - 1) : queue'[k] = Tail(queue)[k]
      BY <2>1, <3>2, AppendAt
    <3>4. CASE i = Len(queue)
      <4>1. Head(queue) = queue[1] /\ 1 \in 1..Len(queue)
        BY <1>t, <2>1, HeadAt
      <4>2. queue'[i].who = Head(queue).who
        BY <2>1, <3>3, <3>4, Zenon
      <4>3. QED BY <4>1, <4>2, Zenon
    <3>5. CASE i # Len(queue)
      <4>1. i \in 1..(Len(queue) - 1)
        <5>1. i \in 1..Len(queue)
          BY <3>3, Zenon
        <5>2. QED BY <3>2, <3>5, <5>1, Below, Zenon
      <4>2. i + 1 \in 1..Len(queue) /\ queue'[i] = queue[i + 1]
        BY <1>t, <2>1, <3>3, <4>1, TailAt
      <4>3. QED BY <4>2
    <3>6. QED BY <3>4, <3>5
  <2>3. \A i \in 1..Len(queue') : CancelOp(queue'[i]) => cancel
    BY <2>2 DEF CancelInv, CancelOp
  <2>4. QED
    BY <2>1, <2>3 DEF CancelInv, CancelOp
<1>4. CASE Cancel
  <2>1. cancel' = TRUE /\ UNCHANGED <<cancelAcked, snapshot, done>>
    BY <1>4 DEF Cancel, diskVars
  <2>2. PICK e : queue' = Append(queue, e) /\ e.op = "append"
    BY <1>4, SMTT(40) DEF Cancel, Record
  <2>3. CASE queue = <<>>
    <3>1. Head(queue') = e
      BY <2>2, <2>3
    <3>2. QED
      BY <2>1, <2>2, <3>1 DEF CancelInv, CancelOp
  <2>4. CASE queue # <<>>
    <3>1. Head(queue') = Head(queue)
      BY <1>t, <2>2, <2>4
    <3>2. QED
      BY <2>1, <2>4, <3>1 DEF CancelInv, CancelOp
  <2>5. QED BY <2>3, <2>4
<1>5. ASSUME NEW role \in {"pause", "cancel", "shutdown"}, ControlReturns(role)
      PROVE  CancelInv'
  <2>1. /\ queue # <<>> /\ done /\ Head(queue).op = "run"
        /\ Head(queue).who = Caller(role)
        /\ queue' = Tail(queue) /\ ~done'
        /\ cancelAcked' = (cancelAcked \/ role = "cancel")
        /\ UNCHANGED <<cancel, snapshot>>
    BY <1>5 DEF ControlReturns, Returns, runVars, diskVars
  <2>2. role = "cancel" => snapshot.cancel
    BY <2>1 DEF CancelInv, CancelOp, Caller
  <2>3. \A i \in 1..Len(queue') : CancelOp(queue'[i]) => cancel
    BY <1>t, <2>1 DEF CancelInv
  <2>4. QED
    BY <2>1, <2>2, <2>3 DEF CancelInv, CancelOp
<1>6. CASE CrashAndInitialize
  <2>1. /\ cancel' = snapshot.cancel /\ ~done'
        /\ UNCHANGED <<cancelAcked, snapshot>>
    BY <1>6 DEF CrashAndInitialize
  <2>2. queue' = <<>> \/ \E e : queue' = <<e>> /\ ~CancelOp(e)
    BY <1>6 DEF CrashAndInitialize, CancelOp, Caller
  <2>3. \A i \in 1..Len(queue') : CancelOp(queue'[i]) => cancel'
    BY <2>2
  <2>4. QED
    BY <2>1, <2>3 DEF CancelInv, CancelOp
<1>7. QED
  BY <1>1, <1>2, <1>3, <1>4, <1>5, <1>6, RecordingSteady, ExecutorSteady,
     DispatchSteady, WorkerSteady DEF Next, EngineStep

(* Once a cancel has been acknowledged it is in the snapshot and in the    *)
(* run, whatever is written, recovered or crashes afterwards.              *)
THEOREM CancelIsDurable == Spec => []CancelAckedDurable
<1>1. Init => CancelInv
  BY DEF Init, CancelInv, Run
<1>2. TypeOK /\ CancelInv /\ [Next]_vars => CancelInv'
  BY CancelStep
<1>3. CancelInv => CancelAckedDurable
  BY DEF CancelInv, CancelAckedDurable
<1>4. QED
  BY <1>1, <1>2, <1>3, TypeCorrect, PTL DEF Spec

-----------------------------------------------------------------------------
(***************************************************************************)
(* After an acknowledged cancel nothing starts: executeNode tests the      *)
(* cancel flag when its record has returned, and starts no executor.       *)
(***************************************************************************)

(* A worker that moves anywhere but to its executor adds no execution.     *)
LEMMA MovedStartsNothing ==
  ASSUME NEW w \in workers, NEW at, at # "executing", w \in WorkerRecords,
         workers' = Moved(w, at)
  PROVE  Executing' \subseteq Executing
<1>1. [w EXCEPT !.at = at].at = at
  BY DEF WorkerRecords
<1>2. QED
  BY <1>1 DEF Moved, Executing, Id

(* Workers that stay where they are add no execution.                      *)
LEMMA SameStartsNothing ==
  ASSUME \A v \in workers' : \E w \in workers : Id(v) = Id(w) /\ v.at = w.at
  PROVE  Executing' \subseteq Executing
<1>1. SUFFICES ASSUME NEW x \in Executing' PROVE x \in Executing
  OBVIOUS
<1>2. PICK v \in workers' : v.at = "executing" /\ x = Id(v)
  BY DEF Executing, Id
<1>3. PICK w \in workers : Id(v) = Id(w) /\ v.at = w.at
  BY <1>2
<1>4. w \in {u \in workers : u.at = "executing"}
  BY <1>2, <1>3
<1>5. QED
  BY <1>2, <1>3, <1>4 DEF Executing

(* The steps that leave the workers alone, or end them.                    *)
LEMMA OthersStartNothing ==
  ASSUME TypeOK,
         \/ Write \/ AppendReturns \/ CrashAndInitialize
         \/ Start \/ Pause \/ Resume \/ Shutdown
         \/ \E role \in {"start", "resume", "recover"} : LaunchWhenRecorded(role)
         \/ \E role \in {"pause", "cancel", "shutdown"} : ControlReturns(role)
         \/ Begin \/ BeginWithoutSnapshots \/ Started
         \/ LoopStops \/ SkipBlockedNodes \/ Race \/ Close
         \/ UNCHANGED vars
  PROVE  Executing' \subseteq Executing
<1>1. workers' = workers \/ workers' = {}
  BY DEF Write, AppendReturns, CrashAndInitialize, Start, Pause, Resume, Shutdown,
         LaunchWhenRecorded, ControlReturns, Begin, BeginWithoutSnapshots, Started,
         LoopStops, SkipBlockedNodes, Race, Close, vars
<1>2. QED
  BY <1>1 DEF Executing

LEMMA WorkerStartsNothing ==
  ASSUME TypeOK, cancel, NEW w \in workers, WorkerStep(w)
  PROVE  Executing' \subseteq Executing
<1>1. w \in WorkerRecords
  BY DEF TypeOK
<1>2. CASE workers' = Moved(w, "closing") \/ workers' = Moved(w, "saving")
           \/ workers' = Moved(w, "linking")
  BY <1>1, <1>2, MovedStartsNothing
<1>3. CASE workers' = workers \ {w}
  BY <1>3 DEF Executing
<1>4. QED
  BY <1>2, <1>3 DEF WorkerStep, NodeStarted, ExecutorReturns, ExecutorFails,
     TimeoutFires, ArtifactSaved, ArtifactFails, NodeLinked, LinkFails, NodeClosed,
     Catch

(* No executor call starts while the run is cancelled.                     *)
LEMMA CancelledStartsNothing ==
  ASSUME TypeOK, cancel, [Next]_vars PROVE Executing' \subseteq Executing
<1>t. \A w \in workers : w \in WorkerRecords
  BY DEF TypeOK
<1>1. CASE Cancel
  <2>1. workers' = {[w EXCEPT !.aborted = @ \/ Aborts(w)] : w \in workers}
    BY <1>1 DEF Cancel
  <2>2. \A w \in workers : LET v == [w EXCEPT !.aborted = @ \/ Aborts(w)]
                           IN  Id(v) = Id(w) /\ v.at = w.at
    BY <1>t DEF WorkerRecords, Id
  <2>3. \A v \in workers' : \E w \in workers : Id(v) = Id(w) /\ v.at = w.at
    BY <2>1, <2>2, ZenonT(40)
  <2>4. QED
    BY <2>3, SameStartsNothing
<1>2. CASE Closed
  <2>1. workers' = {[w EXCEPT !.owned = FALSE] : w \in workers}
    BY <1>2 DEF Closed
  <2>2. \A w \in workers : LET v == [w EXCEPT !.owned = FALSE]
                           IN  Id(v) = Id(w) /\ v.at = w.at
    BY <1>t DEF WorkerRecords, Id
  <2>3. \A v \in workers' : \E w \in workers : Id(v) = Id(w) /\ v.at = w.at
    BY <2>1, <2>2
  <2>4. QED
    BY <2>3, SameStartsNothing
<1>3. ASSUME NEW n \in Nodes, Dispatch(n) PROVE Executing' \subseteq Executing
  <2>1. workers' = workers \cup {[n |-> n, a |-> attempt[n] + 1, at |-> "starting",
                                  aborted |-> FALSE, owned |-> TRUE]}
    BY <1>3 DEF Dispatch
  <2>2. QED
    BY <2>1 DEF Executing, Id
<1>4. QED
  BY <1>1, <1>2, <1>3, OthersStartNothing, WorkerStartsNothing DEF Next, EngineStep

(* After a cancel call has returned no executor call starts, in this       *)
(* process or in one that recovers the run.                                *)
THEOREM NothingStartsAfterCancel == Spec => NoStartAfterCancel
<1>1. TypeOK /\ CancelAckedDurable /\ [Next]_vars
        => [cancelAcked => Executing' \subseteq Executing]_vars
  BY CancelledStartsNothing DEF CancelAckedDurable
<1>2. QED
  BY <1>1, TypeCorrect, CancelIsDurable, PTL DEF Spec, NoStartAfterCancel

-----------------------------------------------------------------------------
(***************************************************************************)
(* An outcome on disk is final.  The live run agrees with a final snapshot *)
(* and has no execution left that could give it another status: controls   *)
(* and launches refuse a run that is over, and recovery leaves it alone.   *)
(***************************************************************************)
FinalInv ==
  /\ snapshot.status \in Terminal => status = snapshot.status
  /\ status \in Terminal => main \in {"closing", "none"}

Settled == snapshot.status \in Terminal =>
             snapshot'.status = snapshot.status /\ status' = snapshot.status

(* The steps that leave status and snapshot alone.                         *)
LEMMA StatusKept ==
  ASSUME TypeOK, FinalInv,
         \/ AppendReturns \/ Started \/ LoopStops \/ SkipBlockedNodes \/ Race
         \/ Closed \/ Cancel
         \/ \E role \in {"start", "resume", "recover"} : LaunchWhenRecorded(role)
         \/ \E role \in {"pause", "cancel", "shutdown"} : ControlReturns(role)
         \/ \E n \in Nodes : Dispatch(n)
         \/ \E w \in workers : WorkerStep(w)
         \/ UNCHANGED vars
  PROVE  FinalInv' /\ Settled
<1> USE DEF FinalInv, Settled, runVars, executorVars, diskVars
<1>1. ASSUME UNCHANGED <<status, snapshot>>,
             main' = main \/ main \notin {"closing", "none"}
               \/ main' \in {"closing", "none"}
      PROVE  FinalInv' /\ Settled
  BY <1>1
<1>2. CASE \E role \in {"start", "resume", "recover"} : LaunchWhenRecorded(role)
  <2>1. UNCHANGED <<status, snapshot>> /\ main' = Launched
    BY <1>2 DEF LaunchWhenRecorded
  <2>2. status \in Terminal => main' = main
    BY <2>1 DEF Launched
  <2>3. QED
    BY <2>1, <2>2
<1>3. ASSUME NEW w \in workers, WorkerStep(w)
      PROVE  FinalInv' /\ Settled
  <2>1. UNCHANGED <<status, snapshot>>
    BY <1>3 DEF WorkerStep, NodeStarted, ExecutorReturns, ExecutorFails,
       TimeoutFires, ArtifactSaved, ArtifactFails, NodeLinked, LinkFails,
       NodeClosed, Catch
  <2>2. main' = main \/ main \notin {"closing", "none"}
    <3>1. CASE NodeClosed(w)
      BY <3>1 DEF NodeClosed
    <3>2. CASE ~NodeClosed(w)
      BY <1>3, <3>2 DEF WorkerStep, NodeStarted, ExecutorReturns, ExecutorFails,
         TimeoutFires, ArtifactSaved, ArtifactFails, NodeLinked, LinkFails, Catch
    <3>3. QED BY <3>1, <3>2
  <2>3. QED
    BY <1>1, <2>1, <2>2
<1>4. CASE \E n \in Nodes : Dispatch(n)
  BY <1>1, <1>4 DEF Dispatch
<1>5. CASE AppendReturns \/ Started \/ LoopStops \/ SkipBlockedNodes \/ Race
           \/ Closed \/ Cancel
  BY <1>1, <1>5 DEF AppendReturns, Started, LoopStops, SkipBlockedNodes, Race,
     Closed, Cancel
<1>6. CASE \E role \in {"pause", "cancel", "shutdown"} : ControlReturns(role)
  BY <1>1, <1>6 DEF ControlReturns
<1>7. CASE UNCHANGED vars
  BY <1>1, <1>7 DEF vars
<1>8. QED
  BY <1>2, <1>3, <1>4, <1>5, <1>6, <1>7

LEMMA FinalStep ==
  ASSUME TypeOK, FinalInv, [Next]_vars PROVE FinalInv' /\ Settled
<1> USE DEF FinalInv, Settled, diskVars
<1>1. CASE Start \/ Pause \/ Resume \/ Shutdown
  <2>1. /\ status \notin Terminal /\ status' \notin Terminal
        /\ snapshot' = snapshot
    BY <1>1 DEF Start, Pause, Resume, Shutdown, ControlCall, Terminal
  <2>2. QED
    BY <2>1
<1>2. CASE Begin \/ BeginWithoutSnapshots \/ Close
  <2>1. main \notin {"closing", "none"} /\ snapshot' = snapshot
    BY <1>2 DEF Begin, BeginWithoutSnapshots, Close
  <2>2. status' \in Terminal => main' = "closing"
    BY <1>2 DEF Begin, BeginWithoutSnapshots, Close, Terminal
  <2>3. QED
    BY <2>1, <2>2
<1>3. CASE Write
  <2>1. UNCHANGED <<status, main>>
    BY <1>3 DEF Write, runVars, executorVars
  <2>2. snapshot' = snapshot \/ snapshot' = Run
    BY <1>3 DEF Write, WriteEffect
  <2>3. snapshot'.status = snapshot.status \/ snapshot'.status = status
    BY <2>2 DEF Run
  <2>4. QED
    BY <2>1, <2>3
<1>4. CASE CrashAndInitialize
  <2>1. snapshot' = snapshot /\ main' = "none"
    BY <1>4 DEF CrashAndInitialize
  <2>2. status' = IF Recoverable(snapshot.status) THEN "queued" ELSE snapshot.status
    BY <1>4 DEF CrashAndInitialize
  <2>3. snapshot.status \in Terminal => ~Recoverable(snapshot.status)
    BY DEF Terminal, Recoverable
  <2>4. QED
    BY <2>1, <2>2, <2>3
<1>5. QED
  BY <1>1, <1>2, <1>3, <1>4, StatusKept DEF Next, EngineStep

LEMMA Final == Spec => []FinalInv
<1>1. Init => FinalInv
  BY DEF Init, FinalInv, Run, Terminal
<1>2. TypeOK /\ FinalInv /\ [Next]_vars => FinalInv'
  BY FinalStep
<1>3. QED
  BY <1>1, <1>2, TypeCorrect, PTL DEF Spec

(* Once the snapshot on disk says how the run ended, neither a control, a  *)
(* late launch, a failing start nor a recovery gives it another outcome.   *)
THEOREM OutcomeIsFinal == Spec => DurableOutcomeFinal
<1>1. TypeOK /\ FinalInv /\ [Next]_vars
        => [snapshot.status \in Terminal =>
              snapshot'.status = snapshot.status /\ status' = snapshot.status]_vars
  BY FinalStep DEF Settled
<1>2. QED
  BY <1>1, Final, TypeCorrect, PTL DEF Spec, DurableOutcomeFinal

-----------------------------------------------------------------------------
(***************************************************************************)
(* The write chain, whoever uses it.  A step writes the head, moves an     *)
(* append's caller to its snapshot, or lets the head's caller go on; it    *)
(* queues at most one operation, and never a snapshot.                     *)
(***************************************************************************)
Entered(q) == \E e \in Operations : e.op # "run" /\ queue' = Append(q, e)
Moves == \E q : Advanced(q) /\ (queue' = q \/ Entered(q))

LEMMA SteadyMoves == ASSUME Steady PROVE Moves
BY DEF Steady, Moves, Queued, Entered

LEMMA CancelMoves == ASSUME TypeOK, Cancel PROVE Moves
<1>1. [seq |-> seq + 1, epoch |-> epoch, prev |-> lastHash] \in Events
  BY DEF TypeOK, Run, Runs, Events
<1>2. Caller("cancel") \in Callers
  BY CallerType DEF Roles
<1>3. [op |-> "append", who |-> Caller("cancel"),
       ev |-> [seq |-> seq + 1, epoch |-> epoch, prev |-> lastHash]] \in Operations
  BY <1>1, <1>2 DEF Operations
<1>4. Entered(queue)
  BY <1>3 DEF Cancel, Record, Entered
<1>5. Advanced(queue)
  BY DEF Cancel, Advanced
<1>6. QED
  BY <1>4, <1>5 DEF Moves

LEMMA ChainSteps ==
  ASSUME TypeOK, [Next]_vars
  PROVE  \/ Write \/ AppendReturns \/ CrashAndInitialize \/ Moves
<1>1. ASSUME NEW role \in {"pause", "cancel", "shutdown"}, ControlReturns(role)
      PROVE  Moves
  BY <1>1, ReturnsAdvanced DEF ControlReturns, Moves
<1>2. QED
  BY <1>1, SteadyMoves, CancelMoves, RecordingSteady, ExecutorSteady,
     DispatchSteady, WorkerSteady DEF Next, EngineStep

LEMMA AppendHead ==
  ASSUME NEW S, NEW s \in Seq(S), s # <<>>, NEW e
  PROVE  Append(s, e) # <<>> /\ Head(Append(s, e)) = Head(s)
<1>1. Head(Append(s, e)) = Head(s)
  OBVIOUS
<1>2. Len(Append(s, e)) = Len(s) + 1 /\ Len(s) \in Nat
  BY AppendAt
<1>3. Len(Append(s, e)) # 0
  BY <1>2
<1>4. QED
  BY <1>1, <1>3

(* A move keeps a head whose effect is on disk.                            *)
LEMMA MovesKeepsHead ==
  ASSUME TypeOK, done => queue # <<>>, Moves
  PROVE  done' => done /\ queue' # <<>> /\ Head(queue') = Head(queue)
<1>1. SUFFICES ASSUME done'
               PROVE  done /\ queue' # <<>> /\ Head(queue') = Head(queue)
  OBVIOUS
<1>2. PICK q : Advanced(q) /\ (queue' = q \/ Entered(q))
  BY DEF Moves
<1>3. q = queue /\ done
  BY <1>1, <1>2 DEF Advanced
<1>4. queue # <<>> /\ queue \in Seq(Operations)
  BY <1>3 DEF TypeOK
<1>5. CASE queue' = queue
  BY <1>3, <1>4, <1>5
<1>6. ASSUME NEW e \in Operations, queue' = Append(queue, e)
      PROVE  queue' # <<>> /\ Head(queue') = Head(queue)
  BY <1>4, <1>6, AppendHead
<1>7. QED
  BY <1>2, <1>3, <1>5, <1>6 DEF Entered

(* The snapshot is the run at the time it was written.                     *)
LEMMA SnapshotFrom ==
  ASSUME [Next]_vars
  PROVE  snapshot' = snapshot \/ (Write /\ snapshot' = Run)
<1>1. CASE Write
  BY <1>1 DEF Write, WriteEffect
<1>2. CASE ~Write
  BY <1>2 DEF Next, EngineStep, AppendReturns, Start, Pause, Resume, Shutdown,
     Cancel, LaunchWhenRecorded, ControlReturns, Begin, BeginWithoutSnapshots,
     Started, LoopStops, SkipBlockedNodes, Race, Close, Closed, Dispatch,
     WorkerStep, NodeStarted, ExecutorReturns, ExecutorFails, TimeoutFires,
     ArtifactSaved, ArtifactFails, NodeLinked, LinkFails, NodeClosed, Catch,
     CrashAndInitialize, vars, diskVars
<1>3. QED BY <1>1, <1>2

(* Before Start nothing has happened: a run that is absent, in memory or   *)
(* on disk, is as new, and nothing works on it.                            *)
Untouched(r) ==
  r.status = "absent" =>
    /\ r.seq = 0 /\ r.lastHash = 0 /\ ~r.pause
    /\ \A n \in Nodes : r.node[n] = "pending"

FreshInv ==
  /\ Untouched(Run) /\ Untouched(snapshot)
  /\ done => queue # <<>>
  /\ status = "absent" => /\ queue = <<>> /\ main = "none" /\ workers = {}
                          /\ snapshot.status = "absent"

LEMMA FreshSteps ==
  ASSUME FreshInv, status = "absent", Next PROVE Start \/ CrashAndInitialize
<1>1. queue = <<>> /\ main = "none" /\ workers = {}
  BY DEF FreshInv
<1>2. ~Pause /\ ~Resume /\ ~Cancel /\ ~Shutdown
  BY DEF Pause, Resume, Cancel, Shutdown, ControlCall
<1>3. ~Write /\ ~AppendReturns
  BY <1>1 DEF Write, AppendReturns
<1>4. \A role : ~LaunchWhenRecorded(role) /\ ~ControlReturns(role)
  BY <1>1 DEF LaunchWhenRecorded, ControlReturns, Returns
<1>5. /\ ~Begin /\ ~BeginWithoutSnapshots /\ ~Started /\ ~LoopStops
      /\ ~SkipBlockedNodes /\ ~Race /\ ~Close /\ ~Closed
      /\ \A n \in Nodes : ~Dispatch(n)
  BY <1>1 DEF Begin, BeginWithoutSnapshots, Started, LoopStops, SkipBlockedNodes,
     Race, Close, Closed, Dispatch
<1>6. QED
  BY <1>1, <1>2, <1>3, <1>4, <1>5 DEF Next, EngineStep

(* Only a crash makes a run absent again.                                  *)
LEMMA NeverAbsent ==
  ASSUME status # "absent", [Next]_vars, ~CrashAndInitialize
  PROVE  status' # "absent"
<1>1. CASE Start \/ Pause \/ Resume \/ Shutdown \/ Cancel
  BY <1>1 DEF Start, Pause, Resume, Shutdown, Cancel
<1>2. CASE Begin \/ BeginWithoutSnapshots \/ Close
  BY <1>2 DEF Begin, BeginWithoutSnapshots, Close, FinalStatus
<1>3. ASSUME NEW w \in workers, WorkerStep(w) PROVE status' = status
  BY <1>3 DEF WorkerStep, NodeStarted, ExecutorReturns, ExecutorFails,
     TimeoutFires, ArtifactSaved, ArtifactFails, NodeLinked, LinkFails,
     NodeClosed, Catch, runVars
<1>4. CASE \/ Write \/ AppendReturns \/ Started \/ LoopStops \/ SkipBlockedNodes
           \/ Race \/ Closed \/ \E n \in Nodes : Dispatch(n)
           \/ \E role \in {"start", "resume", "recover"} : LaunchWhenRecorded(role)
           \/ \E role \in {"pause", "cancel", "shutdown"} : ControlReturns(role)
           \/ UNCHANGED vars
  BY <1>4 DEF Write, AppendReturns, Started, LoopStops, SkipBlockedNodes, Race,
     Closed, Dispatch, LaunchWhenRecorded, ControlReturns, vars, runVars
<1>5. QED
  BY <1>1, <1>2, <1>3, <1>4 DEF Next, EngineStep

LEMMA FreshStep ==
  ASSUME TypeOK, FreshInv, [Next]_vars PROVE FreshInv'
<1>1. done' => queue' # <<>>
  <2>1. CASE Write
    BY <2>1 DEF Write
  <2>2. CASE AppendReturns \/ CrashAndInitialize
    BY <2>2 DEF AppendReturns, CrashAndInitialize
  <2>3. CASE Moves
    BY <2>3, MovesKeepsHead DEF FreshInv
  <2>4. QED BY <2>1, <2>2, <2>3, ChainSteps
<1>2. Untouched(snapshot)'
  <2>1. snapshot' = snapshot \/ (Write /\ snapshot' = Run)
    BY SnapshotFrom
  <2>2. CASE snapshot' = snapshot
    BY <2>2 DEF FreshInv, Untouched
  <2>3. CASE Write /\ snapshot' = Run
    BY <2>3 DEF FreshInv, Untouched
  <2>4. QED BY <2>1, <2>2, <2>3
<1>3. CASE status = "absent" /\ Start
  BY <1>1, <1>2, <1>3 DEF Start, FreshInv, Untouched, Run
<1>4. CASE CrashAndInitialize
  <2>1. /\ snapshot' = snapshot /\ main' = "none" /\ workers' = {}
    BY <1>4 DEF CrashAndInitialize
  <2>2. CASE Recoverable(snapshot.status)
    BY <1>1, <1>2, <1>4, <2>2 DEF CrashAndInitialize, FreshInv, Untouched, Run
  <2>3. CASE ~Recoverable(snapshot.status)
    <3>1. /\ status' = snapshot.status /\ node' = snapshot.node
          /\ seq' = snapshot.seq /\ lastHash' = snapshot.lastHash
          /\ pause' = snapshot.pause /\ queue' = <<>>
      BY <1>4, <2>3 DEF CrashAndInitialize
    <3>2. Untouched(Run)'
      BY <3>1 DEF FreshInv, Untouched, Run
    <3>3. QED
      BY <1>1, <1>2, <2>1, <3>1, <3>2 DEF FreshInv
  <2>4. QED BY <2>2, <2>3
<1>5. CASE UNCHANGED vars
  BY <1>1, <1>2, <1>5 DEF vars, runVars, executorVars, diskVars, FreshInv,
     Untouched, Run
<1>6. CASE status # "absent" /\ ~CrashAndInitialize
  <2>1. status' # "absent"
    BY <1>6, NeverAbsent
  <2>2. QED
    BY <1>1, <1>2, <2>1 DEF FreshInv, Untouched, Run
<1>7. QED
  BY <1>3, <1>4, <1>5, <1>6, FreshSteps

LEMMA InitFresh == ASSUME Init PROVE FreshInv
BY DEF Init, FreshInv, Untouched, Run

LEMMA Fresh == Spec => []FreshInv
<1>1. TypeOK /\ FreshInv /\ [Next]_vars => FreshInv'
  BY FreshStep
<1>2. QED
  BY <1>1, InitFresh, TypeCorrect, PTL DEF Spec

-----------------------------------------------------------------------------
(***************************************************************************)
(* Artifacts.  A node succeeds when the write of its artifact has          *)
(* returned, so that the artifact is on disk before a snapshot can say so. *)
(***************************************************************************)
ArtifactInv ==
  /\ \A n \in Nodes : node[n] = "succeeded" => n \in artifacts
  /\ \A n \in Nodes : snapshot.node[n] = "succeeded" => n \in artifacts
  /\ done /\ Head(queue).op = "artifact" => Head(queue).who.n \in artifacts

(* A node that succeeds did before, or its artifact has just been saved,   *)
(* or a recovery read it from the snapshot.                                *)
LEMMA SucceededFrom ==
  ASSUME TypeOK, [Next]_vars, NEW n \in Nodes, node'[n] = "succeeded"
  PROVE  \/ node[n] = "succeeded"
         \/ \E w \in workers : ArtifactSaved(w) /\ w.n = n
         \/ CrashAndInitialize /\ snapshot.node[n] = "succeeded"
<1>t. node \in [Nodes -> NodeStatus]
  BY RunType DEF TypeOK
<1>1. CASE Idle
  BY <1>1 DEF Idle
<1>2. CASE Write
  BY <1>2 DEF Write, runVars
<1>3. CASE Cancel \/ SkipBlockedNodes \/ Close
  BY <1>3, <1>t DEF Cancel, SkipBlockedNodes, Close
<1>4. ASSUME NEW m \in Nodes, Dispatch(m) PROVE node[n] = "succeeded"
  BY <1>4, <1>t DEF Dispatch
<1>5. ASSUME NEW w \in workers, NEW aborted, NEW q, Catch(w, aborted, q)
      PROVE  node[n] = "succeeded"
  BY <1>5, <1>t DEF Catch, CaughtStatus
<1>6. ASSUME NEW w \in workers, ArtifactSaved(w)
      PROVE  node[n] = "succeeded" \/ w.n = n
  BY <1>6, <1>t DEF ArtifactSaved
<1>7. CASE CrashAndInitialize
  BY <1>7 DEF CrashAndInitialize
<1>8. QED
  BY <1>1, <1>2, <1>3, <1>4, <1>5, <1>6, <1>7, IdleSteps, CatchSteps
     DEF Next, EngineStep, WorkerStep

(* Only Start removes artifacts, those of an earlier run.                  *)
LEMMA ArtifactsStay ==
  ASSUME [Next]_vars, ~Start PROVE artifacts \subseteq artifacts'
<1>1. CASE Write
  BY <1>1 DEF Write, WriteEffect
<1>2. CASE ~Write
  BY <1>2 DEF Next, EngineStep, AppendReturns, Pause, Resume, Shutdown,
     Cancel, LaunchWhenRecorded, ControlReturns, Begin, BeginWithoutSnapshots,
     Started, LoopStops, SkipBlockedNodes, Race, Close, Closed, Dispatch,
     WorkerStep, NodeStarted, ExecutorReturns, ExecutorFails, TimeoutFires,
     ArtifactSaved, ArtifactFails, NodeLinked, LinkFails, NodeClosed, Catch,
     CrashAndInitialize, vars, diskVars
<1>3. QED BY <1>1, <1>2

LEMMA ArtifactStep ==
  ASSUME TypeOK, FreshInv, ArtifactInv, [Next]_vars PROVE ArtifactInv'
<1>1. CASE Start
  <2>1. status = "absent" /\ node' = node /\ snapshot' = snapshot /\ done' = done
    BY <1>1 DEF Start
  <2>2. ~done /\ snapshot.status = "absent"
    BY <2>1 DEF FreshInv
  <2>3. \A n \in Nodes : node[n] = "pending" /\ snapshot.node[n] = "pending"
    BY <2>1, <2>2 DEF FreshInv, Untouched, Run
  <2>4. QED
    BY <2>1, <2>2, <2>3 DEF ArtifactInv
<1>2. CASE ~Start
  <2>0. artifacts \subseteq artifacts'
    BY <1>2, ArtifactsStay
  <2>1. \A n \in Nodes : node'[n] = "succeeded" => n \in artifacts'
    <3>1. SUFFICES ASSUME NEW n \in Nodes, node'[n] = "succeeded"
                   PROVE  n \in artifacts
      BY <2>0
    <3>2. CASE node[n] = "succeeded" \/ snapshot.node[n] = "succeeded"
      BY <3>2 DEF ArtifactInv
    <3>3. ASSUME NEW w \in workers, ArtifactSaved(w), w.n = n
          PROVE  n \in artifacts
      <4>1. done /\ Head(queue).op = "artifact" /\ Head(queue).who = NodeCaller(w.n, w.a)
        BY <3>3 DEF ArtifactSaved, Returns
      <4>2. QED
        BY <3>3, <4>1 DEF ArtifactInv, NodeCaller
    <3>4. QED BY <3>1, <3>2, <3>3, SucceededFrom
  <2>2. \A n \in Nodes : snapshot'.node[n] = "succeeded" => n \in artifacts'
    <3>1. CASE snapshot' = snapshot
      BY <2>0, <3>1 DEF ArtifactInv
    <3>2. CASE snapshot' = Run
      BY <2>0, <3>2 DEF ArtifactInv, Run
    <3>3. QED BY <3>1, <3>2, SnapshotFrom
  <2>3. done' /\ Head(queue').op = "artifact" => Head(queue').who.n \in artifacts'
    <3>1. CASE Write
      BY <3>1 DEF Write, WriteEffect
    <3>2. CASE AppendReturns \/ CrashAndInitialize
      BY <3>2 DEF AppendReturns, CrashAndInitialize
    <3>3. CASE Moves
      BY <2>0, <3>3, MovesKeepsHead DEF FreshInv, ArtifactInv
    <3>4. QED BY <3>1, <3>2, <3>3, ChainSteps
  <2>4. QED
    BY <2>1, <2>2, <2>3 DEF ArtifactInv
<1>3. QED BY <1>1, <1>2

(* A snapshot never names a result that is not on disk, whenever the       *)
(* process crashes and whatever a retry, a timeout or the graph does.      *)
THEOREM ArtifactsAreDurable == Spec => []ArtifactDurable
<1>1. Init => ArtifactInv
  BY DEF Init, ArtifactInv, Run
<1>2. TypeOK /\ FreshInv /\ ArtifactInv /\ [Next]_vars => ArtifactInv'
  BY ArtifactStep
<1>3. ArtifactInv => ArtifactDurable
  BY DEF ArtifactInv, ArtifactDurable
<1>4. QED
  BY <1>1, <1>2, <1>3, TypeCorrect, Fresh, PTL DEF Spec

-----------------------------------------------------------------------------
(***************************************************************************)
(* Dependencies.  A worker is busy until its artifact is saved or its      *)
(* catch block runs; a node has at most one busy worker, although an older *)
(* one may still be closing, and only a busy worker takes a node's status  *)
(* away.  So a success stays, and what was ready when a node was           *)
(* dispatched is ready while it runs and afterwards.  (An update of the    *)
(* graph that fails runs the catch block of a node that has succeeded.)    *)
(***************************************************************************)
BusyPc == {"starting", "executing", "saving"}
BusyOne(W) ==
  \A v, w \in W : v.at \in BusyPc /\ w.at \in BusyPc /\ v.n = w.n => v = w

Ordered(f) ==
  \A n \in Nodes : \A d \in Deps[n] :
    f[n] \in {"running", "succeeded"} => f[d] = "succeeded"

DepInv ==
  /\ BusyOne(workers)
  /\ \A w \in workers : w.at \in BusyPc =>
       /\ node[w.n] \in {"running", "cancelled"}
       /\ \A d \in Deps[w.n] : node[d] = "succeeded"
  /\ Ordered(node) /\ Ordered(snapshot.node)

(* The nodes that a skip, a cancel or the end of a run stops.              *)
NodesStop ==
  \A n \in Nodes :
    \/ node'[n] = node[n]
    \/ node[n] = "pending" /\ node'[n] \in {"skipped", "cancelled"}
    \/ node[n] = "running" /\ node'[n] = "cancelled"

LEMMA DepsAreNodes == \A n \in Nodes : \A d \in Deps[n] : d \in Nodes
OBVIOUS

(* Nothing but a failing graph update takes a success away.                *)
LEMMA SuccessStays ==
  ASSUME TypeOK, DepInv, [Next]_vars, ~CrashAndInitialize,
         "link" \notin StoreFaults,
         NEW n \in Nodes, node[n] = "succeeded"
  PROVE  node'[n] = "succeeded"
<1>t. node \in [Nodes -> NodeStatus]
  BY RunType DEF TypeOK
<1>1. CASE Idle
  BY <1>1 DEF Idle
<1>2. CASE Write
  BY <1>2 DEF Write, runVars
<1>3. CASE Cancel \/ SkipBlockedNodes \/ Close
  BY <1>3, <1>t DEF Cancel, SkipBlockedNodes, Close
<1>4. ASSUME NEW m \in Nodes, Dispatch(m) PROVE node'[n] = "succeeded"
  <2>1. node[m] = "pending"
    BY <1>4 DEF Dispatch, CanDispatch, Ready
  <2>2. QED
    BY <1>4, <1>t, <2>1 DEF Dispatch
<1>5. ASSUME NEW w \in workers, NEW aborted, NEW q, Catch(w, aborted, q),
             w.at \in BusyPc
      PROVE  node'[n] = "succeeded"
  <2>1. node[w.n] # "succeeded"
    BY <1>5 DEF DepInv
  <2>2. QED
    BY <1>5, <1>t, <2>1 DEF Catch
<1>6. ASSUME NEW w \in workers, ArtifactSaved(w)
      PROVE  node'[n] = "succeeded"
  BY <1>6, <1>t DEF ArtifactSaved
<1>7. ASSUME NEW w \in workers,
             NodeStarted(w) \/ ExecutorFails(w) \/ TimeoutFires(w) \/ ArtifactFails(w)
      PROVE  node' = node \/ (w.at \in BusyPc /\ \E aborted, q : Catch(w, aborted, q))
  BY <1>7 DEF NodeStarted, ExecutorFails, TimeoutFires, ArtifactFails, BusyPc, runVars
<1>8. \A w : ~LinkFails(w)
  BY DEF LinkFails
<1>9. QED
  BY <1>1, <1>2, <1>3, <1>4, <1>5, <1>6, <1>7, <1>8, IdleSteps
     DEF Next, EngineStep, WorkerStep

(* A worker that moves.                                                    *)
LEMMA MovedBusy ==
  ASSUME TypeOK, NEW w \in workers, NEW at, w.at \in BusyPc \/ at \notin BusyPc,
         BusyOne(workers), workers' = Moved(w, at)
  PROVE  /\ BusyOne(workers')
         /\ \A v \in workers' : v.at \in BusyPc =>
              \E u \in workers : u.at \in BusyPc /\ u.n = v.n
<1> DEFINE x == [w EXCEPT !.at = at]
<1>1. x.n = w.n /\ x.at = at
  BY DEF TypeOK, WorkerRecords
<1>2. \A v \in workers' : (v \in workers /\ v # w) \/ v = x
  BY DEF Moved
<1> HIDE DEF x
<1>3. QED
  BY <1>1, <1>2 DEF BusyOne

LEMMA MovedOut ==
  ASSUME TypeOK, NEW w \in workers, NEW at, w.at \in BusyPc, at \notin BusyPc,
         BusyOne(workers), workers' = Moved(w, at)
  PROVE  \A v \in workers' : v.at \in BusyPc => v \in workers /\ v.n # w.n
<1> DEFINE x == [w EXCEPT !.at = at]
<1>1. x.n = w.n /\ x.at = at
  BY DEF TypeOK, WorkerRecords
<1>2. \A v \in workers' : (v \in workers /\ v # w) \/ v = x
  BY DEF Moved
<1> HIDE DEF x
<1>3. QED
  BY <1>1, <1>2 DEF BusyOne

(* Workers to which something is done that leaves node and place alone.    *)
LEMMA MarkedBusy ==
  ASSUME TypeOK, BusyOne(workers), Cancel \/ Closed
  PROVE  /\ BusyOne(workers')
         /\ \A v \in workers' : v.at \in BusyPc =>
              \E u \in workers : u.at \in BusyPc /\ u.n = v.n
<1>1. \A w \in workers : w \in WorkerRecords
  BY DEF TypeOK
<1>2. CASE Cancel
  <2>1. workers' = {[w EXCEPT !.aborted = @ \/ Aborts(w)] : w \in workers}
    BY <1>2 DEF Cancel
  <2>2. \A w \in workers : LET v == [w EXCEPT !.aborted = @ \/ Aborts(w)]
                           IN  v.n = w.n /\ v.at = w.at
    BY <1>1 DEF WorkerRecords
  <2>3. \A v \in workers' : \E u \in workers : v = [u EXCEPT !.aborted = @ \/ Aborts(u)]
    BY <2>1
  <2>4. ASSUME NEW v \in workers', NEW w \in workers',
               v.at \in BusyPc, w.at \in BusyPc, v.n = w.n
        PROVE  v = w
    <3>1. PICK u \in workers : v = [u EXCEPT !.aborted = @ \/ Aborts(u)]
      BY <2>3
    <3>2. PICK x \in workers : w = [x EXCEPT !.aborted = @ \/ Aborts(x)]
      BY <2>3
    <3>3. u = x
      BY <2>2, <2>4, <3>1, <3>2 DEF BusyOne
    <3>4. QED
      BY <3>1, <3>2, <3>3
  <2>5. BusyOne(workers')
    BY <2>4 DEF BusyOne
  <2>6. ASSUME NEW v \in workers', v.at \in BusyPc
        PROVE  \E u \in workers : u.at \in BusyPc /\ u.n = v.n
    <3>1. PICK u \in workers : v = [u EXCEPT !.aborted = @ \/ Aborts(u)]
      BY <2>3
    <3>2. v.n = u.n /\ v.at = u.at
      BY <2>2, <3>1
    <3>3. QED
      BY <2>6, <3>2
  <2>7. QED
    BY <2>5, <2>6
<1>3. CASE Closed
  <2>1. workers' = {[w EXCEPT !.owned = FALSE] : w \in workers}
    BY <1>3 DEF Closed
  <2>2. \A w \in workers : LET v == [w EXCEPT !.owned = FALSE]
                           IN  v.n = w.n /\ v.at = w.at
    BY <1>1 DEF WorkerRecords
  <2>3. \A v \in workers' : \E u \in workers : v = [u EXCEPT !.owned = FALSE]
    BY <2>1
  <2>4. ASSUME NEW v \in workers', NEW w \in workers',
               v.at \in BusyPc, w.at \in BusyPc, v.n = w.n
        PROVE  v = w
    <3>1. PICK u \in workers : v = [u EXCEPT !.owned = FALSE]
      BY <2>3
    <3>2. PICK x \in workers : w = [x EXCEPT !.owned = FALSE]
      BY <2>3
    <3>3. u = x
      BY <2>2, <2>4, <3>1, <3>2 DEF BusyOne
    <3>4. QED
      BY <3>1, <3>2, <3>3
  <2>5. BusyOne(workers')
    BY <2>4 DEF BusyOne
  <2>6. ASSUME NEW v \in workers', v.at \in BusyPc
        PROVE  \E u \in workers : u.at \in BusyPc /\ u.n = v.n
    <3>1. PICK u \in workers : v = [u EXCEPT !.owned = FALSE]
      BY <2>3
    <3>2. v.n = u.n /\ v.at = u.at
      BY <2>2, <3>1
    <3>3. QED
      BY <2>6, <3>2
  <2>7. QED
    BY <2>5, <2>6
<1>4. QED BY <1>2, <1>3

(* Steps after which every busy worker was busy before, on the same node,  *)
(* and no node starts or succeeds.                                         *)
LEMMA DepKept ==
  ASSUME TypeOK, DepInv, BusyOne(workers'), NodesStop,
         \A v \in workers' : v.at \in BusyPc =>
           \E u \in workers : u.at \in BusyPc /\ u.n = v.n,
         snapshot' = snapshot \/ snapshot' = Run
  PROVE  DepInv'
<1>1. \A w \in workers : w.n \in Nodes
  BY DEF TypeOK, WorkerRecords
<1>2. Ordered(node')
  BY DepsAreNodes DEF DepInv, Ordered, NodesStop
<1>3. Ordered(snapshot'.node)
  BY DEF DepInv, Run
<1>4. ASSUME NEW v \in workers', v.at \in BusyPc
      PROVE  /\ node'[v.n] \in {"running", "cancelled"}
             /\ \A d \in Deps[v.n] : node'[d] = "succeeded"
  <2>1. PICK u \in workers : u.at \in BusyPc /\ u.n = v.n
    BY <1>4
  <2>2. u.n \in Nodes /\ node[u.n] \in {"running", "cancelled"}
    BY <1>1, <2>1 DEF DepInv
  <2>3. node'[u.n] \in {"running", "cancelled"}
    BY <2>2 DEF NodesStop
  <2>4. \A d \in Deps[u.n] : node[d] = "succeeded" /\ d \in Nodes
    BY <2>1, <2>2, DepsAreNodes DEF DepInv
  <2>5. \A d \in Deps[u.n] : node'[d] = "succeeded"
    BY <2>4 DEF NodesStop
  <2>6. QED
    BY <2>1, <2>3, <2>5
<1>5. QED
  BY <1>2, <1>3, <1>4, Zenon DEF DepInv

(* The steps of the executor and of the controls keep what DepInv says.    *)
LEMMA DepQuiet ==
  ASSUME TypeOK, DepInv, [Next]_vars,
         \/ Idle /\ workers' = workers
         \/ Write \/ Cancel \/ SkipBlockedNodes \/ Close \/ Closed
  PROVE  DepInv'
<1>t. node \in [Nodes -> NodeStatus]
  BY RunType DEF TypeOK
<1>1. snapshot' = snapshot \/ snapshot' = Run
  BY SnapshotFrom
<1>2. NodesStop
  <2>1. CASE Idle \/ Write \/ Closed
    BY <2>1 DEF Idle, Write, Closed, runVars, NodesStop
  <2>2. CASE Cancel \/ SkipBlockedNodes \/ Close
    BY <2>2, <1>t DEF Cancel, SkipBlockedNodes, Close, NodesStop
  <2>3. QED BY <2>1, <2>2
<1>3. BusyOne(workers)
  BY DEF DepInv
<1>4. CASE Cancel \/ Closed
  BY <1>1, <1>2, <1>3, <1>4, MarkedBusy, DepKept
<1>5. CASE (Idle /\ workers' = workers) \/ Write \/ SkipBlockedNodes \/ Close
  <2>1. workers' = workers
    BY <1>5 DEF Write, SkipBlockedNodes, Close
  <2>2. BusyOne(workers')
    BY <1>3, <2>1
  <2>3. \A v \in workers' : v.at \in BusyPc =>
          \E u \in workers : u.at \in BusyPc /\ u.n = v.n
    BY <2>1
  <2>4. QED
    BY <1>1, <1>2, <2>2, <2>3, DepKept
<1>6. QED BY <1>4, <1>5

(* So do the steps of executeNode that leave its node's status alone.      *)
LEMMA DepMoves ==
  ASSUME TypeOK, DepInv, [Next]_vars, NEW w \in workers,
         \/ NodeStarted(w) /\ node' = node
         \/ ExecutorReturns(w)
         \/ NodeLinked(w) \/ NodeClosed(w)
  PROVE  DepInv' \/ \E aborted, q : Catch(w, aborted, q) /\ w.at \in BusyPc
<1>1. snapshot' = snapshot \/ snapshot' = Run
  BY SnapshotFrom
<1>2. BusyOne(workers)
  BY DEF DepInv
<1>3. NodesStop
  BY DEF NodeStarted, ExecutorReturns, NodeLinked, NodeClosed, runVars, NodesStop
<1>4. ASSUME NEW at, w.at \in BusyPc \/ at \notin BusyPc, workers' = Moved(w, at)
      PROVE  DepInv'
  BY <1>1, <1>2, <1>3, <1>4, MovedBusy, DepKept
<1>5. CASE NodeClosed(w)
  <2>1. workers' \subseteq workers
    BY <1>5 DEF NodeClosed
  <2>2. BusyOne(workers')
    BY <1>2, <2>1 DEF BusyOne
  <2>3. \A v \in workers' : v.at \in BusyPc =>
          \E u \in workers : u.at \in BusyPc /\ u.n = v.n
    BY <2>1
  <2>4. QED
    BY <1>1, <1>3, <2>2, <2>3, DepKept
<1>6. CASE NodeStarted(w)
  <2>1. w.at \in BusyPc
    BY <1>6 DEF NodeStarted, BusyPc
  <2>2. CASE workers' = Moved(w, "executing")
    BY <1>4, <2>1, <2>2
  <2>3. CASE workers' # Moved(w, "executing")
    BY <1>6, <2>1, <2>3 DEF NodeStarted
  <2>4. QED BY <2>2, <2>3
<1>7. CASE ExecutorReturns(w)
  BY <1>4, <1>7 DEF ExecutorReturns, BusyPc
<1>8. CASE NodeLinked(w)
  BY <1>4, <1>8 DEF NodeLinked, BusyPc
<1>9. QED
  BY <1>5, <1>6, <1>7, <1>8

(* A busy worker stops being busy; its node fails, is retried or succeeds. *)
LEMMA DepEnds ==
  ASSUME TypeOK, DepInv, NEW w \in workers, NEW at, w.at \in BusyPc,
         at \notin BusyPc, workers' = Moved(w, at), snapshot' = snapshot,
         NEW s, node' = [node EXCEPT ![w.n] = s], s # "running"
  PROVE  DepInv'
<1>t. node \in [Nodes -> NodeStatus] /\ w.n \in Nodes
  BY RunType DEF TypeOK, WorkerRecords
<1>1. /\ node[w.n] \in {"running", "cancelled"}
      /\ \A d \in Deps[w.n] : node[d] = "succeeded"
  BY DEF DepInv
<1>2. node'[w.n] = s /\ \A m \in Nodes \ {w.n} : node'[m] = node[m]
  BY <1>t
<1>3. \A m \in Nodes : node[m] = "succeeded" => node'[m] = "succeeded"
  BY <1>1, <1>2
<1>4. \A v \in workers' : v.at \in BusyPc => v \in workers /\ v.n # w.n
  BY MovedOut DEF DepInv
<1>5. BusyOne(workers')
  BY <1>4 DEF BusyOne, DepInv
<1>6. Ordered(node')
  <2>1. ASSUME NEW m \in Nodes, NEW d \in Deps[m],
               node'[m] \in {"running", "succeeded"}
        PROVE  node'[d] = "succeeded"
    <3>1. node[d] = "succeeded"
      BY <1>1, <1>2, <2>1 DEF DepInv, Ordered
    <3>2. QED
      BY <1>3, <3>1, DepsAreNodes
  <2>2. QED
    BY <2>1 DEF Ordered
<1>7. ASSUME NEW v \in workers', v.at \in BusyPc
      PROVE  /\ node'[v.n] \in {"running", "cancelled"}
             /\ \A d \in Deps[v.n] : node'[d] = "succeeded"
  <2>1. v \in workers /\ v.n # w.n /\ v.n \in Nodes
    BY <1>4, <1>7 DEF TypeOK, WorkerRecords
  <2>2. /\ node[v.n] \in {"running", "cancelled"}
        /\ \A d \in Deps[v.n] : node[d] = "succeeded"
    BY <1>7, <2>1 DEF DepInv
  <2>3. QED
    BY <1>2, <1>3, <2>1, <2>2, DepsAreNodes
<1>8. QED
  BY <1>5, <1>6, <1>7, Zenon DEF DepInv

LEMMA DepDispatch ==
  ASSUME TypeOK, DepInv, NEW n \in Nodes, Dispatch(n) PROVE DepInv'
<1>t. node \in [Nodes -> NodeStatus]
  BY RunType DEF TypeOK
<1> DEFINE x == [n |-> n, a |-> attempt[n] + 1, at |-> "starting",
                 aborted |-> FALSE, owned |-> TRUE]
<1>1. /\ node' = [node EXCEPT ![n] = "running"]
      /\ workers' = workers \cup {x}
      /\ snapshot' = snapshot
      /\ node[n] = "pending" /\ \A d \in Deps[n] : node[d] = "succeeded"
  BY DEF Dispatch, CanDispatch, Ready, diskVars
<1>2. x.n = n
  OBVIOUS
<1> HIDE DEF x
<1>3. node'[n] = "running" /\ \A m \in Nodes \ {n} : node'[m] = node[m]
  BY <1>1, <1>t
<1>4. \A m \in Nodes : node[m] = "succeeded" => node'[m] = "succeeded"
  BY <1>1, <1>3
<1>5. \A v \in workers : v.at \in BusyPc => v.n # n
  BY <1>1 DEF DepInv
<1>6. BusyOne(workers')
  BY <1>1, <1>2, <1>5 DEF BusyOne, DepInv
<1>7. Ordered(node')
  BY <1>1, <1>3, <1>4, DepsAreNodes DEF Ordered, DepInv
<1>8. ASSUME NEW v \in workers', v.at \in BusyPc
      PROVE  /\ node'[v.n] \in {"running", "cancelled"}
             /\ \A d \in Deps[v.n] : node'[d] = "succeeded"
  <2>1. CASE v \in workers
    <3>1. /\ node[v.n] \in {"running", "cancelled"} /\ v.n \in Nodes
          /\ \A d \in Deps[v.n] : node[d] = "succeeded"
      BY <1>8, <2>1 DEF DepInv, TypeOK, WorkerRecords
    <3>2. QED
      BY <1>3, <1>4, <3>1, DepsAreNodes
  <2>2. CASE v = x
    BY <1>1, <1>2, <1>3, <1>4, <2>2, DepsAreNodes
  <2>3. QED BY <1>1, <2>1, <2>2
<1>9. QED
  BY <1>1, <1>6, <1>7, <1>8, Zenon DEF DepInv

LEMMA DepStep ==
  ASSUME TypeOK, DepInv, [Next]_vars, "link" \notin StoreFaults PROVE DepInv'
<1>1. ASSUME NEW w \in workers, NEW aborted, NEW q, Catch(w, aborted, q),
             w.at \in BusyPc
      PROVE  DepInv'
  <2>1. CaughtStatus(w, aborted) # "running"
    BY DEF CaughtStatus
  <2>2. snapshot' = snapshot
    BY <1>1 DEF Catch, diskVars
  <2>3. /\ node' = [node EXCEPT ![w.n] = CaughtStatus(w, aborted)]
        /\ workers' = Moved(w, "closing")
    BY <1>1 DEF Catch
  <2>4. "closing" \notin BusyPc
    BY DEF BusyPc
  <2>5. QED
    BY <1>1, <2>1, <2>2, <2>3, <2>4, DepEnds
<1>2. ASSUME NEW w \in workers, WorkerStep(w) PROVE DepInv'
  <2>1. CASE NodeStarted(w) /\ node' # node
    BY <1>1, <2>1 DEF NodeStarted, BusyPc, runVars
  <2>2. CASE ExecutorFails(w) \/ TimeoutFires(w) \/ ArtifactFails(w)
    BY <1>1, <2>2 DEF ExecutorFails, TimeoutFires, ArtifactFails, BusyPc
  <2>3. CASE ArtifactSaved(w)
    <3>1. /\ node' = [node EXCEPT ![w.n] = "succeeded"]
          /\ workers' = Moved(w, "linking") /\ snapshot' = snapshot
      BY <2>3 DEF ArtifactSaved, diskVars
    <3>2. w.at \in BusyPc /\ "linking" \notin BusyPc /\ "succeeded" # "running"
      BY <2>3 DEF ArtifactSaved, BusyPc
    <3>3. QED
      BY <3>1, <3>2, DepEnds
  <2>4. ~LinkFails(w)
    BY DEF LinkFails
  <2>5. QED
    BY <1>1, <1>2, <2>1, <2>2, <2>3, <2>4, DepMoves DEF WorkerStep
<1>3. CASE CrashAndInitialize
  <2>1. workers' = {} /\ snapshot' = snapshot
    BY <1>3 DEF CrashAndInitialize
  <2>2. Ordered(node')
    <3>1. CASE node' = snapshot.node
      BY <3>1 DEF DepInv
    <3>2. CASE node' = [n \in Nodes |-> IF snapshot.node[n] = "running"
                                          THEN "pending" ELSE snapshot.node[n]]
      BY <3>2, DepsAreNodes DEF DepInv, Ordered
    <3>3. QED BY <1>3, <3>1, <3>2 DEF CrashAndInitialize
  <2>3. QED
    BY <2>1, <2>2 DEF DepInv, BusyOne
<1>4. CASE \/ Start \/ Pause \/ Resume \/ Shutdown \/ AppendReturns
           \/ \E role \in {"start", "resume", "recover"} : LaunchWhenRecorded(role)
           \/ \E role \in {"pause", "cancel", "shutdown"} : ControlReturns(role)
           \/ Begin \/ BeginWithoutSnapshots \/ Started \/ LoopStops \/ Race
           \/ UNCHANGED vars
  <2>1. workers' = workers
    BY <1>4 DEF Start, Pause, Resume, Shutdown, AppendReturns, LaunchWhenRecorded,
       ControlReturns, Begin, BeginWithoutSnapshots, Started, LoopStops, Race, vars
  <2>2. Idle
    BY <1>4, IdleSteps
  <2>3. QED
    BY <2>1, <2>2, DepQuiet
<1>5. QED
  BY <1>2, <1>3, <1>4, DepQuiet, DepDispatch DEF Next, EngineStep

(* While the graph accepts updates, a node runs, and has a result, only    *)
(* when the nodes it depends on have succeeded, in this process or in one  *)
(* that recovers the run, however retries, pauses, cancels and late        *)
(* workers interleave.                                                     *)
THEOREM DependenciesHold ==
  "link" \notin StoreFaults => (Spec => []DependencySafety)
<1>1. Init => DepInv
  <2>1. ASSUME Init PROVE DepInv
    <3>1. /\ workers = {} /\ \A n \in Nodes : node[n] = "pending"
          /\ snapshot.node = node
      BY <2>1 DEF Init, Run
    <3>2. QED
      BY <3>1 DEF DepInv, BusyOne, Ordered
  <2>2. QED BY <2>1
<1>2. SUFFICES ASSUME "link" \notin StoreFaults PROVE Spec => []DependencySafety
  OBVIOUS
<1>3. TypeOK /\ DepInv /\ [Next]_vars => DepInv'
  BY <1>2, DepStep
<1>4. DepInv => DependencySafety
  BY DEF DepInv, Ordered, DependencySafety
<1>5. QED
  BY <1>1, <1>3, <1>4, TypeCorrect, PTL DEF Spec

-----------------------------------------------------------------------------
(***************************************************************************)
(* A queued run is launched.  What launches it may return while the last   *)
(* execution is still closing, and then launches nothing: such a call must *)
(* return after the execution has closed.  The chain lets its operations   *)
(* return in order, the snapshot of an append behind all that is queued.   *)
(***************************************************************************)
Launchers == {"start", "resume", "recover"}
Bystanders == {"pause", "cancel", "shutdown", "node"}
Launching(e) == e.who.role \in Launchers /\ e.op \in {"append", "run"}
Closing(e) == e.who = Caller("main") /\ e.op \in {"append", "run"}

Before(q, i, j) == \/ q[i].op = "run" /\ q[j].op = "append"
                   \/ q[i].op = q[j].op /\ i < j

HasLaunch(q) == \E i \in 1..Len(q) : Launching(q[i])
HasClose(q) == \E i \in 1..Len(q) : Closing(q[i])
ClosesFirst(q) ==
  \E i, j \in 1..Len(q) : Closing(q[i]) /\ Launching(q[j]) /\ Before(q, i, j)

LaunchInv ==
  /\ status = "running" => main \notin {"none", "closing"}
  /\ status = "queued" /\ main \in {"none", "closing"} => ~pause
  /\ status = "queued" /\ main = "none" => HasLaunch(queue)
  /\ main = "closing" => HasClose(queue)
  /\ status = "queued" /\ main = "closing" => ClosesFirst(queue)

LEMMA Distinct ==
  ASSUME NEW e, Closing(e) PROVE ~Launching(e) /\ e.who.role \notin Bystanders
BY DEF Closing, Launching, Launchers, Bystanders, Caller

LEMMA LaunchAppended ==
  ASSUME NEW q \in Seq(Operations), NEW e \in Operations
  PROVE  /\ HasLaunch(q) => HasLaunch(Append(q, e))
         /\ HasClose(q) => HasClose(Append(q, e))
         /\ ClosesFirst(q) => ClosesFirst(Append(q, e))
         /\ Launching(e) => HasLaunch(Append(q, e))
         /\ Closing(e) => HasClose(Append(q, e))
         /\ HasClose(q) /\ Launching(e) /\ e.op = "append" => ClosesFirst(Append(q, e))
<1> DEFINE s == Append(q, e)
<1>1. /\ Len(q) \in Nat /\ Len(s) = Len(q) + 1 /\ s[Len(q) + 1] = e
      /\ \A i \in 1..Len(q) : s[i] = q[i]
  BY AppendAt
<1>2. /\ Len(s) \in 1..Len(s)
      /\ \A i \in 1..Len(q) : i \in 1..Len(s) /\ s[i] = q[i] /\ i < Len(s)
      /\ s[Len(s)] = e
  BY <1>1
<1> HIDE DEF s
<1>3. HasLaunch(q) => HasLaunch(s)
  BY <1>2 DEF HasLaunch
<1>4. HasClose(q) => HasClose(s)
  BY <1>2 DEF HasClose
<1>5. ClosesFirst(q) => ClosesFirst(s)
  BY <1>2 DEF ClosesFirst, Before
<1>6. Launching(e) => HasLaunch(s)
  BY <1>2 DEF HasLaunch
<1>7. Closing(e) => HasClose(s)
  BY <1>2 DEF HasClose
<1>8. ASSUME HasClose(q), Launching(e), e.op = "append" PROVE ClosesFirst(s)
  <2>1. PICK i \in 1..Len(q) : Closing(q[i])
    BY <1>8 DEF HasClose
  <2>2. q[i].op \in {"append", "run"}
    BY <2>1 DEF Closing
  <2>3. Before(s, i, Len(s))
    BY <1>2, <1>8, <2>2 DEF Before
  <2>4. QED
    BY <1>2, <1>8, <2>1, <2>3 DEF ClosesFirst
<1>9. QED
  BY <1>3, <1>4, <1>5, <1>6, <1>7, <1>8 DEF s

(* The head of the chain goes: what it launches or closes is done.         *)
LEMMA LaunchTail ==
  ASSUME NEW q \in Seq(Operations), q # <<>>
  PROVE  /\ HasLaunch(q) /\ ~Launching(Head(q)) => HasLaunch(Tail(q))
         /\ HasClose(q) /\ ~Closing(Head(q)) => HasClose(Tail(q))
         /\ ClosesFirst(q) => HasLaunch(Tail(q)) \/ Head(q).op # "run"
         /\ ClosesFirst(q) /\ ~Closing(Head(q)) /\ ~Launching(Head(q))
              => ClosesFirst(Tail(q))
         /\ ClosesFirst(q) /\ ~Closing(Head(q)) /\ Head(q).op = "run"
              => ClosesFirst(Tail(q))
<1> DEFINE s == Tail(q)
<1>1. /\ Len(q) \in Nat /\ Len(s) = Len(q) - 1
      /\ \A i \in 1..(Len(q) - 1) : i + 1 \in 1..Len(q) /\ s[i] = q[i + 1]
      /\ Head(q) = q[1]
  BY TailAt, HeadAt
<1> HIDE DEF s
<1>2. \A i \in 1..Len(q) : i # 1 => i - 1 \in 1..Len(s) /\ s[i - 1] = q[i]
  <2>1. ASSUME NEW i \in 1..Len(q), i # 1
        PROVE  i - 1 \in 1..Len(s) /\ s[i - 1] = q[i]
    <3>1. i - 1 \in 1..(Len(q) - 1) /\ (i - 1) + 1 = i
      BY <1>1, <2>1
    <3>2. QED
      BY <1>1, <3>1
  <2>2. QED BY <2>1
<1>3. HasLaunch(q) /\ ~Launching(Head(q)) => HasLaunch(s)
  BY <1>1, <1>2 DEF HasLaunch
<1>4. HasClose(q) /\ ~Closing(Head(q)) => HasClose(s)
  BY <1>1, <1>2 DEF HasClose
<1>5. ASSUME ClosesFirst(q)
      PROVE  /\ HasLaunch(s) \/ Head(q).op # "run"
             /\ ~Closing(Head(q)) /\ (~Launching(Head(q)) \/ Head(q).op = "run")
                  => ClosesFirst(s)
  <2>1. PICK i, j \in 1..Len(q) :
          Closing(q[i]) /\ Launching(q[j]) /\ Before(q, i, j)
    BY <1>5 DEF ClosesFirst
  <2>2. Head(q).op = "run" => j # 1
    BY <1>1, <2>1 DEF Before
  <2>3. j # 1 => HasLaunch(s)
    BY <1>2, <2>1 DEF HasLaunch
  <2>4. ASSUME i # 1, j # 1 PROVE ClosesFirst(s)
    <3>1. /\ i - 1 \in 1..Len(s) /\ s[i - 1] = q[i]
          /\ j - 1 \in 1..Len(s) /\ s[j - 1] = q[j]
      BY <1>2, <2>4
    <3>2. Before(s, i - 1, j - 1)
      BY <2>1, <3>1 DEF Before
    <3>3. QED
      BY <2>1, <3>1, <3>2 DEF ClosesFirst
  <2>5. QED
    BY <1>1, <2>1, <2>2, <2>3, <2>4
<1>6. QED
  BY <1>3, <1>4, <1>5 DEF s

(* An append that returns: its snapshot is queued behind the others.       *)
LEMMA LaunchTurns ==
  ASSUME TypeOK, AppendReturns
  PROVE  /\ HasLaunch(queue) => HasLaunch(queue')
         /\ HasClose(queue) => HasClose(queue')
         /\ ClosesFirst(queue) => ClosesFirst(queue')
<1> DEFINE L == Len(queue)
<1> DEFINE e == [op |-> "run", who |-> Head(queue).who, ev |-> NoEvent]
<1>1. /\ queue # <<>> /\ queue \in Seq(Operations)
      /\ Head(queue).op = "append" /\ queue' = Append(Tail(queue), e)
  BY DEF AppendReturns, TypeOK
<1>e. e.op = "run" /\ e.who = queue[1].who
  BY <1>1, HeadAt
<1> HIDE DEF e
<1>2. /\ L \in Nat /\ Tail(queue) \in Seq(Operations) /\ Len(Tail(queue)) = L - 1
      /\ \A i \in 1..(L - 1) : i + 1 \in 1..L /\ Tail(queue)[i] = queue[i + 1]
      /\ Head(queue) = queue[1] /\ 1 \in 1..L
  BY <1>1, TailAt, HeadAt
<1>3. /\ Len(queue') = (L - 1) + 1 /\ queue'[(L - 1) + 1] = e
      /\ \A i \in 1..(L - 1) : queue'[i] = Tail(queue)[i]
  BY <1>1, <1>2, AppendAt
<1>4. Len(queue') = L /\ queue'[L] = e
  BY <1>2, <1>3
<1>5. \A i \in 1..L : i # 1 => i - 1 \in 1..L /\ i - 1 < L /\ queue'[i - 1] = queue[i]
  <2>1. ASSUME NEW i \in 1..L, i # 1
        PROVE  i - 1 \in 1..L /\ i - 1 < L /\ queue'[i - 1] = queue[i]
    <3>1. i - 1 \in 1..(L - 1) /\ (i - 1) + 1 = i /\ i - 1 \in 1..L /\ i - 1 < L
      BY <1>2, <2>1
    <3>2. QED
      BY <1>2, <1>3, <3>1
  <2>2. QED BY <2>1
<1>6. queue[1].op = "append" /\ L \in 1..L
  BY <1>1, <1>2
<1> HIDE DEF L
<1>7. HasLaunch(queue) => HasLaunch(queue')
  BY <1>e, <1>4, <1>5, <1>6 DEF HasLaunch, Launching, L
<1>8. ASSUME HasClose(queue) PROVE HasClose(queue')
  <2>1. PICK i \in 1..L : Closing(queue[i])
    BY <1>8 DEF HasClose, L
  <2>2. CASE i = 1
    <3>1. Closing(queue'[L])
      BY <1>e, <1>4, <2>1, <2>2 DEF Closing
    <3>2. QED
      BY <1>4, <1>6, <3>1 DEF HasClose
  <2>3. CASE i # 1
    BY <1>4, <1>5, <2>1, <2>3 DEF HasClose
  <2>4. QED BY <2>2, <2>3
<1>9. ASSUME ClosesFirst(queue) PROVE ClosesFirst(queue')
  <2>1. PICK i, j \in 1..L :
          Closing(queue[i]) /\ Launching(queue[j]) /\ Before(queue, i, j)
    BY <1>9 DEF ClosesFirst, L
  <2>2. queue[j].op \in {"append", "run"} /\ i # j
    BY <2>1, Distinct DEF Launching
  <2>3. CASE i = 1
    <3>1. queue[j].op = "append" /\ j # 1
      BY <1>6, <2>1, <2>2, <2>3 DEF Before
    <3>2. Closing(queue'[L]) /\ queue'[L].op = "run"
      BY <1>e, <1>4, <2>1, <2>3 DEF Closing
    <3>3. Launching(queue'[j - 1]) /\ queue'[j - 1].op = "append" /\ j - 1 \in 1..L
      BY <1>5, <2>1, <3>1
    <3>4. QED
      BY <1>4, <1>6, <3>2, <3>3 DEF ClosesFirst, Before
  <2>4. CASE j = 1
    <3>1. queue[i].op = "run" /\ i # 1
      BY <1>6, <2>1, <2>4 DEF Before
    <3>2. Launching(queue'[L]) /\ queue'[L].op = "run"
      BY <1>e, <1>4, <2>1, <2>4 DEF Launching
    <3>3. /\ Closing(queue'[i - 1]) /\ queue'[i - 1].op = "run"
          /\ i - 1 \in 1..L /\ i - 1 < L
      BY <1>5, <2>1, <3>1
    <3>4. QED
      BY <1>4, <1>6, <3>2, <3>3 DEF ClosesFirst, Before
  <2>5. CASE i # 1 /\ j # 1
    <3>1. /\ i - 1 \in 1..L /\ queue'[i - 1] = queue[i]
          /\ j - 1 \in 1..L /\ queue'[j - 1] = queue[j]
      BY <1>5, <2>5
    <3>2. Before(queue', i - 1, j - 1)
      BY <2>1, <3>1 DEF Before
    <3>3. QED
      BY <1>4, <2>1, <3>1, <3>2 DEF ClosesFirst
  <2>6. QED BY <2>3, <2>4, <2>5
<1>10. QED
  BY <1>7, <1>8, <1>9

(* A step that leaves the run's status and pause alone, ends no execution, *)
(* and lets only an operation return that neither launches nor closes.     *)
ChainKept ==
  \E q : /\ \/ q = queue
            \/ queue # <<>> /\ q = Tail(queue) /\ Head(queue).who.role \in Bystanders
         /\ queue' = q \/ \E e \in Operations : queue' = Append(q, e)

LEMMA ChainKeptLaunch ==
  ASSUME TypeOK, ChainKept
  PROVE  /\ HasLaunch(queue) => HasLaunch(queue')
         /\ HasClose(queue) => HasClose(queue')
         /\ ClosesFirst(queue) => ClosesFirst(queue')
<1>1. PICK q :
        /\ \/ q = queue
           \/ queue # <<>> /\ q = Tail(queue) /\ Head(queue).who.role \in Bystanders
        /\ queue' = q \/ \E e \in Operations : queue' = Append(q, e)
  BY DEF ChainKept
<1>2. queue \in Seq(Operations) /\ q \in Seq(Operations)
  BY <1>1, ChainType DEF TypeOK
<1>3. /\ HasLaunch(queue) => HasLaunch(q)
      /\ HasClose(queue) => HasClose(q)
      /\ ClosesFirst(queue) => ClosesFirst(q)
  <2>1. CASE q = queue
    BY <2>1
  <2>2. CASE queue # <<>> /\ q = Tail(queue) /\ Head(queue).who.role \in Bystanders
    <3>1. ~Launching(Head(queue)) /\ ~Closing(Head(queue))
      BY <2>2, Distinct DEF Launching, Launchers, Bystanders
    <3>2. QED
      BY <1>2, <2>2, <3>1, LaunchTail
  <2>3. QED BY <1>1, <2>1, <2>2
<1>4. QED
  BY <1>1, <1>2, <1>3, LaunchAppended

LEMMA LaunchKept ==
  ASSUME TypeOK, LaunchInv, ChainKept \/ AppendReturns \/ queue' = queue,
         UNCHANGED <<status, pause>>,
         main' = main \/ main' \notin {"none", "closing"}
  PROVE  LaunchInv'
<1>1. /\ HasLaunch(queue) => HasLaunch(queue')
      /\ HasClose(queue) => HasClose(queue')
      /\ ClosesFirst(queue) => ClosesFirst(queue')
  BY ChainKeptLaunch, LaunchTurns
<1>2. QED
  BY <1>1 DEF LaunchInv

(* Which steps those are.                                                  *)
LEMMA RecordAppends ==
  ASSUME TypeOK, NEW q, NEW who \in Callers, Record(q, who)
  PROVE  \E e \in Operations :
           e.op = "append" /\ e.who = who /\ queue' = Append(q, e)
<1>1. [seq |-> seq + 1, epoch |-> epoch, prev |-> lastHash] \in Events
  BY DEF TypeOK, Run, Runs, Events
<1>2. [op |-> "append", who |-> who,
       ev |-> [seq |-> seq + 1, epoch |-> epoch, prev |-> lastHash]] \in Operations
  BY <1>1 DEF Operations
<1>3. QED
  BY <1>2 DEF Record

LEMMA CatchKeepsChain ==
  ASSUME TypeOK, NEW w \in workers, NEW aborted, NEW q, Catch(w, aborted, q),
         q = queue \/ (queue # <<>> /\ q = Tail(queue)
                         /\ Head(queue).who.role \in Bystanders)
  PROVE  ChainKept /\ UNCHANGED <<status, pause, main>>
<1>1. UNCHANGED <<status, pause, main>>
  BY DEF Catch, executorVars
<1>2. \E e \in Operations : queue' = Append(q, e)
  BY WorkerCaller, RecordAppends DEF Catch
<1>3. QED
  BY <1>1, <1>2 DEF ChainKept

LEMMA WorkerKeepsChain ==
  ASSUME TypeOK, NEW w \in workers, WorkerStep(w)
  PROVE  /\ ChainKept /\ UNCHANGED <<status, pause>>
         /\ main' = main \/ main' \notin {"none", "closing"}
<1>1. ASSUME NEW op, Returns(op, NodeCaller(w.n, w.a))
      PROVE  queue # <<>> /\ Head(queue).who.role \in Bystanders
  BY <1>1 DEF Returns, NodeCaller, Bystanders
<1>2. CASE NodeStarted(w)
  <2>1. queue # <<>> /\ Head(queue).who.role \in Bystanders
    BY <1>1, <1>2 DEF NodeStarted
  <2>2. CASE Catch(w, w.aborted, Tail(queue))
    BY <2>1, <2>2, CatchKeepsChain
  <2>3. CASE queue' = Tail(queue) /\ UNCHANGED <<runVars, executorVars>>
    BY <2>1, <2>3 DEF ChainKept, runVars, executorVars
  <2>4. QED
    BY <1>2, <2>2, <2>3 DEF NodeStarted
<1>3. CASE ExecutorReturns(w)
  <2>1. [op |-> "artifact", who |-> NodeCaller(w.n, w.a), ev |-> NoEvent]
          \in Operations
    BY WorkerCaller, CallerType DEF Operations
  <2>2. ChainKept
    BY <1>3, <2>1 DEF ExecutorReturns, ChainKept
  <2>3. QED
    BY <1>3, <2>2 DEF ExecutorReturns, runVars, executorVars
<1>4. CASE ExecutorFails(w) \/ TimeoutFires(w) \/ LinkFails(w)
  <2>1. Catch(w, w.aborted, queue) \/ Catch(w, TRUE, queue)
    BY <1>4 DEF ExecutorFails, TimeoutFires, LinkFails
  <2>2. QED
    BY <2>1, CatchKeepsChain
<1>5. CASE ArtifactFails(w)
  <2>1. queue # <<>> /\ Head(queue).who.role \in Bystanders
    BY <1>5 DEF ArtifactFails, NodeCaller, Bystanders
  <2>2. Catch(w, w.aborted, Tail(queue))
    BY <1>5 DEF ArtifactFails
  <2>3. QED
    BY <2>1, <2>2, CatchKeepsChain
<1>6. CASE ArtifactSaved(w)
  <2>1. queue # <<>> /\ Head(queue).who.role \in Bystanders
    BY <1>1, <1>6 DEF ArtifactSaved
  <2>2. QED
    BY <1>6, <2>1 DEF ArtifactSaved, ChainKept, executorVars
<1>7. CASE NodeClosed(w)
  <2>1. queue # <<>> /\ Head(queue).who.role \in Bystanders
    BY <1>1, <1>7 DEF NodeClosed
  <2>2. ChainKept /\ UNCHANGED <<status, pause>>
    BY <1>7, <2>1 DEF NodeClosed, ChainKept, runVars
  <2>3. main' = main \/ main' \notin {"none", "closing"}
    BY <1>7 DEF NodeClosed
  <2>4. QED
    BY <2>2, <2>3
<1>8. CASE NodeLinked(w)
  <2>1. \E e \in Operations : queue' = Append(queue, e)
    BY <1>8, WorkerCaller, RecordAppends DEF NodeLinked
  <2>2. QED
    BY <1>8, <2>1 DEF NodeLinked, ChainKept, executorVars
<1>9. QED
  BY <1>2, <1>3, <1>4, <1>5, <1>6, <1>7, <1>8 DEF WorkerStep

(* Only a crash counts as one.                                             *)
LEMMA EpochKept ==
  ASSUME [Next]_vars, ~CrashAndInitialize PROVE epoch' = epoch
<1>1. ASSUME NEW w \in workers, WorkerStep(w) PROVE epoch' = epoch
  BY <1>1 DEF WorkerStep, NodeStarted, ExecutorReturns, ExecutorFails,
     TimeoutFires, ArtifactSaved, ArtifactFails, NodeLinked, LinkFails,
     NodeClosed, Catch, historyVars
<1>2. CASE ~\E w \in workers : WorkerStep(w)
  BY <1>2 DEF Next, EngineStep, Write, AppendReturns, Start, Pause, Resume,
     Shutdown, Cancel, LaunchWhenRecorded, ControlReturns, Begin,
     BeginWithoutSnapshots, Started, LoopStops, SkipBlockedNodes, Race, Close,
     Closed, Dispatch, vars, historyVars
<1>3. QED BY <1>1, <1>2

LEMMA CallersOf == \A role \in Roles : Caller(role) \in Callers
BY CallerType

LEMMA LaunchStep ==
  ASSUME TypeOK, FreshInv, LaunchInv, [Next]_vars, ~CrashAndInitialize
  PROVE  LaunchInv'
<1>q. queue \in Seq(Operations)
  BY DEF TypeOK
<1>1. CASE \/ Write \/ LoopStops \/ SkipBlockedNodes \/ Race \/ UNCHANGED vars
           \/ AppendReturns
  <2>1. /\ AppendReturns \/ queue' = queue
        /\ UNCHANGED <<status, pause>>
        /\ main' = main \/ main' \notin {"none", "closing"}
    BY <1>1 DEF Write, LoopStops, SkipBlockedNodes, Race, AppendReturns, vars,
       runVars, executorVars
  <2>2. QED
    BY <2>1, LaunchKept
<1>2. ASSUME NEW w \in workers, WorkerStep(w) PROVE LaunchInv'
  BY <1>2, WorkerKeepsChain, LaunchKept
<1>3. ASSUME NEW n \in Nodes, Dispatch(n) PROVE LaunchInv'
  <2>1. main = "dispatch" /\ main' = main /\ status' = status
    BY <1>3 DEF Dispatch
  <2>2. QED
    BY <2>1 DEF LaunchInv
<1>4. CASE Cancel \/ Pause \/ Shutdown
  <2>1. PICK role \in Roles : Record(queue, Caller(role))
    BY <1>4 DEF Cancel, Pause, Shutdown, Roles
  <2>2. \E e \in Operations : queue' = Append(queue, e)
    BY <1>q, <2>1, CallersOf, RecordAppends
  <2>3. CASE Cancel
    <3>1. ChainKept /\ UNCHANGED <<status, pause, main>>
      BY <2>2, <2>3 DEF Cancel, ChainKept, executorVars
    <3>2. QED
      BY <3>1, LaunchKept
  <2>4. CASE Pause \/ Shutdown
    <3>1. ChainKept /\ main' = main
      BY <2>2, <2>4 DEF Pause, Shutdown, ChainKept, executorVars
    <3>2. HasClose(queue) => HasClose(queue')
      BY <3>1, ChainKeptLaunch
    <3>3. status' = "paused" \/ (status = "running" /\ status' = "queued")
      BY <2>4 DEF Pause, Shutdown
    <3>4. QED
      BY <3>1, <3>2, <3>3 DEF LaunchInv
  <2>5. QED BY <1>4, <2>3, <2>4
<1>5. CASE Start \/ Resume
  <2>1. PICK role \in {"start", "resume"} : Record(queue, Caller(role))
    BY <1>5 DEF Start, Resume
  <2>2. Caller(role) \in Callers /\ Caller(role).role \in Launchers
    BY CallersOf DEF Caller, Roles, Launchers
  <2>3. PICK e \in Operations :
          e.op = "append" /\ e.who = Caller(role) /\ queue' = Append(queue, e)
    BY <2>1, <2>2, RecordAppends
  <2>4. Launching(e)
    BY <2>2, <2>3 DEF Launching
  <2>5. /\ HasLaunch(queue')
        /\ HasClose(queue) => HasClose(queue') /\ ClosesFirst(queue')
    BY <1>q, <2>3, <2>4, LaunchAppended
  <2>6. status' = "queued" /\ main' = main
    BY <1>5 DEF Start, Resume, executorVars
  <2>7. main \in {"none", "closing"} => ~pause'
    <3>1. CASE Start
      <4>1. status = "absent" /\ pause' = pause
        BY <3>1 DEF Start
      <4>2. ~pause
        BY <4>1 DEF FreshInv, Untouched, Run
      <4>3. QED BY <4>1, <4>2
    <3>2. CASE Resume
      BY <3>2 DEF Resume
    <3>3. QED BY <1>5, <3>1, <3>2
  <2>8. QED
    BY <2>5, <2>6, <2>7 DEF LaunchInv
<1>6. CASE Begin \/ BeginWithoutSnapshots \/ Close
  <2>1. PICK e \in Operations :
          e.op = "append" /\ e.who = Caller("main") /\ queue' = Append(queue, e)
    BY <1>6, CallersOf, RecordAppends DEF Begin, BeginWithoutSnapshots, Close, Roles
  <2>2. Closing(e)
    BY <2>1 DEF Closing
  <2>3. HasClose(queue')
    BY <1>q, <2>1, <2>2, LaunchAppended
  <2>4. /\ main' \in {"started", "closing"} /\ status' # "queued"
        /\ status' = "running" => main' = "started"
    BY <1>6 DEF Begin, BeginWithoutSnapshots, Close, FinalStatus
  <2>5. QED
    BY <2>3, <2>4 DEF LaunchInv
<1>7. CASE Started
  <2>1. main' = "loop" /\ status' = status
    BY <1>7 DEF Started, runVars
  <2>2. QED
    BY <2>1 DEF LaunchInv
<1>8. CASE Closed
  <2>1. /\ main = "closing" /\ main' = "none" /\ UNCHANGED <<status, pause>>
        /\ queue # <<>> /\ queue' = Tail(queue) /\ Head(queue).op = "run"
    BY <1>8 DEF Closed, Returns, runVars
  <2>2. status = "queued" => HasLaunch(queue')
    BY <1>q, <2>1, LaunchTail DEF LaunchInv
  <2>3. QED
    BY <2>1, <2>2 DEF LaunchInv
<1>9. ASSUME NEW role \in {"pause", "cancel", "shutdown"}, ControlReturns(role)
      PROVE  LaunchInv'
  <2>1. /\ queue # <<>> /\ queue' = Tail(queue)
        /\ Head(queue).who.role \in Bystanders
        /\ UNCHANGED <<status, pause, main>>
    BY <1>9 DEF ControlReturns, Returns, Caller, Bystanders, runVars, executorVars
  <2>2. ChainKept
    BY <2>1 DEF ChainKept
  <2>3. QED
    BY <2>1, <2>2, LaunchKept
<1>10. ASSUME NEW role \in {"start", "resume", "recover"}, LaunchWhenRecorded(role)
       PROVE  LaunchInv'
  <2>1. /\ queue # <<>> /\ queue' = Tail(queue) /\ Head(queue).op = "run"
        /\ Head(queue).who = Caller(role)
        /\ main' = Launched /\ UNCHANGED <<status, pause>>
    BY <1>10 DEF LaunchWhenRecorded, Returns, runVars
  <2>2. ~Closing(Head(queue))
    BY <2>1 DEF Closing, Caller
  <2>3. /\ HasClose(queue) => HasClose(queue')
        /\ ClosesFirst(queue) => ClosesFirst(queue')
    BY <1>q, <2>1, <2>2, LaunchTail
  <2>4. status = "queued" => main' # "none"
    BY <2>1 DEF Launched, LaunchInv, Terminal
  <2>5. main' = main \/ main' = "reading"
    BY <2>1 DEF Launched
  <2>6. QED
    BY <2>1, <2>3, <2>4, <2>5 DEF LaunchInv
<1>11. QED
  BY <1>1, <1>2, <1>3, <1>4, <1>5, <1>6, <1>7, <1>8, <1>9, <1>10
     DEF Next, EngineStep

(* Until the process first crashes a queued run is on its way to an        *)
(* execution: no pause, resume, shutdown or end of an execution loses the  *)
(* launch.  (A crash may restore a run that was paused while it started.)  *)
THEOREM QueuedIsLaunched == Spec => [](epoch = 0 => QueuedRunIsLaunched)
<1>1. Init => LaunchInv
  BY DEF Init, LaunchInv
<1>2. TypeOK /\ FreshInv /\ (epoch = 0 => LaunchInv) /\ [Next]_vars
        => (epoch = 0 => LaunchInv)'
  <2>1. SUFFICES ASSUME TypeOK, FreshInv, epoch = 0 => LaunchInv, [Next]_vars,
                        epoch' = 0
                 PROVE  LaunchInv'
    OBVIOUS
  <2>2. epoch \in Nat
    BY <2>1 DEF TypeOK
  <2>3. ~CrashAndInitialize
    BY <2>1, <2>2 DEF CrashAndInitialize
  <2>4. epoch = 0
    BY <2>1, <2>3, EpochKept
  <2>5. QED
    BY <2>1, <2>3, <2>4, LaunchStep
<1>3. LaunchInv => QueuedRunIsLaunched
  BY DEF LaunchInv, HasLaunch, Launching, Launchers, QueuedRunIsLaunched
<1>4. QED
  BY <1>1, <1>2, <1>3, TypeCorrect, Fresh, PTL DEF Spec

-----------------------------------------------------------------------------
(***************************************************************************)
(* The history on disk.  Until the first crash the events that wait in the *)
(* chain are, in the chain's order, exactly those after the last one in    *)
(* the log, so that each write extends the log by its next event.          *)
(***************************************************************************)
Waits(q, d, i) == q[i].op = "append" /\ ~(d /\ i = 1)

(* The appends of q that are not on disk are the events l + 1 .. s; d says *)
(* whether the head's effect is.                                           *)
InRange(q, d, l, s) ==
  \A i \in 1..Len(q) : Waits(q, d, i) =>
    q[i].ev.epoch = 0 /\ q[i].ev.prev = 0 /\ q[i].ev.seq \in (l + 1)..s
Increasing(q, d) ==
  \A i, j \in 1..Len(q) : Waits(q, d, i) /\ Waits(q, d, j) /\ i < j =>
    q[i].ev.seq < q[j].ev.seq
Complete(q, d, l, s) ==
  \A k \in (l + 1)..s : \E i \in 1..Len(q) : Waits(q, d, i) /\ q[i].ev.seq = k
Pending(q, d, l, s) ==
  InRange(q, d, l, s) /\ Increasing(q, d) /\ Complete(q, d, l, s)

Logged(f) == \A i \in 1..Len(f) : f[i].seq = i /\ f[i].epoch = 0 /\ f[i].prev = 0

HistoryInv ==
  /\ lastHash = 0 /\ ~torn
  /\ Logged(log) /\ Len(log) <= seq
  /\ Pending(queue, done, Len(log), seq)

LEMMA PendingTail ==
  ASSUME NEW q \in Seq(Operations), q # <<>>, NEW d \in BOOLEAN,
         NEW l, NEW s, Pending(q, d, l, s), d \/ Head(q).op # "append"
  PROVE  Pending(Tail(q), FALSE, l, s)
<1> DEFINE t == Tail(q)
<1>1. /\ Len(q) \in Nat /\ Len(t) = Len(q) - 1
      /\ \A i \in 1..(Len(q) - 1) : i + 1 \in 1..Len(q) /\ t[i] = q[i + 1]
      /\ Head(q) = q[1]
  BY TailAt, HeadAt
<1> HIDE DEF t
<1>2. \A i \in 1..Len(t) : /\ i + 1 \in 1..Len(q) /\ t[i] = q[i + 1]
                           /\ Waits(t, FALSE, i) => Waits(q, d, i + 1)
  BY <1>1 DEF Waits
<1>3. \A i \in 1..Len(q) : Waits(q, d, i) =>
        i - 1 \in 1..Len(t) /\ Waits(t, FALSE, i - 1) /\ t[i - 1] = q[i]
  <2>1. ASSUME NEW i \in 1..Len(q), Waits(q, d, i)
        PROVE  i - 1 \in 1..Len(t) /\ Waits(t, FALSE, i - 1) /\ t[i - 1] = q[i]
    <3>1. i # 1
      BY <1>1, <2>1 DEF Waits
    <3>2. i - 1 \in 1..Len(t) /\ (i - 1) + 1 = i
      BY <1>1, <3>1
    <3>3. t[i - 1] = q[i]
      BY <1>2, <3>2
    <3>4. QED
      BY <2>1, <3>2, <3>3 DEF Waits
  <2>2. QED BY <2>1
<1>4. InRange(t, FALSE, l, s)
  BY <1>2, Zenon DEF Pending, InRange
<1>5. ASSUME NEW i \in 1..Len(t), NEW j \in 1..Len(t),
             Waits(t, FALSE, i), Waits(t, FALSE, j), i < j
      PROVE  t[i].ev.seq < t[j].ev.seq
  <2>1. i + 1 < j + 1
    BY <1>1, <1>5
  <2>2. QED
    BY <1>2, <1>5, <2>1, Zenon DEF Pending, Increasing
<1>6. Complete(t, FALSE, l, s)
  <2>1. SUFFICES ASSUME NEW k \in (l + 1)..s
                 PROVE  \E i \in 1..Len(t) : Waits(t, FALSE, i) /\ t[i].ev.seq = k
    BY DEF Complete
  <2>2. PICK i \in 1..Len(q) : Waits(q, d, i) /\ q[i].ev.seq = k
    BY Zenon DEF Pending, Complete
  <2>3. i - 1 \in 1..Len(t) /\ Waits(t, FALSE, i - 1) /\ t[i - 1] = q[i]
    BY <1>3, <2>2
  <2>4. QED
    BY <2>2, <2>3
<1>7. Pending(t, FALSE, l, s)
  BY <1>4, <1>5, <1>6 DEF Pending, Increasing
<1>8. QED
  BY <1>7 DEF t

(* An operation is queued that is no append.                               *)
LEMMA PendingBehind ==
  ASSUME NEW q \in Seq(Operations), NEW d \in BOOLEAN, NEW l, NEW s,
         Pending(q, d, l, s), NEW e, e.op # "append"
  PROVE  Pending(Append(q, e), d, l, s)
<1> DEFINE t == Append(q, e)
<1>1. /\ Len(q) \in Nat /\ Len(t) = Len(q) + 1 /\ t[Len(q) + 1] = e
      /\ \A i \in 1..Len(q) : t[i] = q[i]
  BY AppendAt
<1> HIDE DEF t
<1>2. \A i \in 1..Len(t) : Waits(t, d, i) => i \in 1..Len(q)
  BY <1>1 DEF Waits
<1>3. \A i \in 1..Len(q) : /\ i \in 1..Len(t) /\ t[i] = q[i]
                           /\ Waits(t, d, i) <=> Waits(q, d, i)
  BY <1>1 DEF Waits
<1>4. InRange(t, d, l, s)
  BY <1>2, <1>3, Zenon DEF Pending, InRange
<1>5. Increasing(t, d)
  BY <1>2, <1>3, Zenon DEF Pending, Increasing
<1>6. Complete(t, d, l, s)
  BY <1>3, Zenon DEF Pending, Complete
<1>7. QED
  BY <1>4, <1>5, <1>6 DEF Pending, t

(* The next event is recorded.                                             *)
LEMMA PendingRecorded ==
  ASSUME NEW q \in Seq(Operations), NEW d \in BOOLEAN, d => q # <<>>,
         NEW l \in Nat, NEW s \in Nat, l <= s, Pending(q, d, l, s), NEW e,
         e.op = "append", e.ev.seq = s + 1, e.ev.epoch = 0, e.ev.prev = 0
  PROVE  Pending(Append(q, e), d, l, s + 1)
<1> DEFINE t == Append(q, e)
<1> DEFINE n == Len(q) + 1
<1>1. /\ Len(q) \in Nat /\ Len(t) = n /\ t[n] = e
      /\ \A i \in 1..Len(q) : t[i] = q[i]
  BY AppendAt
<1>2. d => n # 1
  BY <1>1
<1> HIDE DEF t
<1>3. \A i \in 1..Len(q) : /\ i \in 1..Len(t) /\ t[i] = q[i] /\ i < n
                           /\ Waits(t, d, i) <=> Waits(q, d, i)
  BY <1>1 DEF Waits
<1>4. \A i \in 1..Len(t) : i \in 1..Len(q) \/ i = n
  BY <1>1
<1>5. n \in 1..Len(t) /\ Waits(t, d, n) /\ ~(n < n)
  BY <1>1, <1>2 DEF Waits
<1>6. \A i \in 1..Len(t) : i \in 1..Len(q) => ~(n < i)
  BY <1>1
<1> HIDE DEF n
<1>7. ASSUME NEW i \in 1..Len(q), Waits(t, d, i)
      PROVE  /\ t[i].ev.epoch = 0 /\ t[i].ev.prev = 0
             /\ t[i].ev.seq \in (l + 1)..s
  BY <1>3, <1>7, Zenon DEF Pending, InRange
<1>8. InRange(t, d, l, s + 1)
  <2>1. SUFFICES ASSUME NEW i \in 1..Len(t), Waits(t, d, i)
                 PROVE  /\ t[i].ev.epoch = 0 /\ t[i].ev.prev = 0
                        /\ t[i].ev.seq \in (l + 1)..(s + 1)
    BY DEF InRange
  <2>2. CASE i \in 1..Len(q)
    <3>1. \A x \in (l + 1)..s : x \in (l + 1)..(s + 1)
      OBVIOUS
    <3>2. QED
      BY <1>7, <2>1, <2>2, <3>1
  <2>3. CASE i = n
    <3>1. s + 1 \in (l + 1)..(s + 1)
      OBVIOUS
    <3>2. QED
      BY <1>1, <2>3, <3>1
  <2>4. QED BY <1>4, <2>2, <2>3
<1>9. Increasing(t, d)
  <2>1. SUFFICES ASSUME NEW i \in 1..Len(t), NEW j \in 1..Len(t),
                        Waits(t, d, i), Waits(t, d, j), i < j
                 PROVE  t[i].ev.seq < t[j].ev.seq
    BY DEF Increasing
  <2>2. i \in 1..Len(q)
    BY <1>4, <1>5, <1>6, <2>1
  <2>3. CASE j \in 1..Len(q)
    BY <1>3, <2>1, <2>2, <2>3, Zenon DEF Pending, Increasing
  <2>4. CASE j = n
    <3>1. t[i].ev.seq \in (l + 1)..s
      BY <1>7, <2>1, <2>2
    <3>2. \A x \in (l + 1)..s : x < s + 1
      OBVIOUS
    <3>3. QED
      BY <1>1, <2>4, <3>1, <3>2
  <2>5. QED BY <1>4, <2>3, <2>4
<1>10. Complete(t, d, l, s + 1)
  <2>1. SUFFICES ASSUME NEW k \in (l + 1)..(s + 1)
                 PROVE  \E i \in 1..Len(t) : Waits(t, d, i) /\ t[i].ev.seq = k
    BY DEF Complete
  <2>2. CASE k = s + 1
    BY <1>1, <1>5, <2>2
  <2>3. CASE k \in (l + 1)..s
    BY <1>3, <2>3, Zenon DEF Pending, Complete
  <2>4. k = s + 1 \/ k \in (l + 1)..s
    OBVIOUS
  <2>5. QED BY <2>2, <2>3, <2>4
<1>11. QED
  BY <1>8, <1>9, <1>10 DEF Pending, t

(* The head is written.                                                    *)
LEMMA PendingWritten ==
  ASSUME NEW q \in Seq(Operations), q # <<>>, NEW l \in Nat, NEW s \in Nat,
         Pending(q, FALSE, l, s)
  PROVE  /\ Head(q).op # "append" => Pending(q, TRUE, l, s)
         /\ Head(q).op = "append" =>
              /\ Head(q).ev.seq = l + 1 /\ l + 1 <= s
              /\ Head(q).ev.epoch = 0 /\ Head(q).ev.prev = 0
              /\ Pending(q, TRUE, l + 1, s)
<1>1. Head(q) = q[1] /\ 1 \in 1..Len(q) /\ Len(q) \in Nat
  BY HeadAt, TailAt
<1>2. ASSUME q[1].op # "append" PROVE Pending(q, TRUE, l, s)
  <2>1. \A i \in 1..Len(q) : Waits(q, TRUE, i) <=> Waits(q, FALSE, i)
    BY <1>2 DEF Waits
  <2>2. QED
    BY <2>1, Zenon DEF Pending, InRange, Increasing, Complete
<1>3. ASSUME q[1].op = "append"
      PROVE  /\ q[1].ev.seq = l + 1 /\ l + 1 <= s
             /\ q[1].ev.epoch = 0 /\ q[1].ev.prev = 0
             /\ Pending(q, TRUE, l + 1, s)
  <2>1. Waits(q, FALSE, 1)
    BY <1>3 DEF Waits
  <2>2. q[1].ev.seq \in (l + 1)..s /\ q[1].ev.epoch = 0 /\ q[1].ev.prev = 0
    BY <1>1, <2>1, Zenon DEF Pending, InRange
  <2>3. \A i \in 1..Len(q) : Waits(q, FALSE, i) /\ i # 1 => q[1].ev.seq < q[i].ev.seq
    <3>1. \A i \in 1..Len(q) : i # 1 => 1 < i
      BY <1>1
    <3>2. QED
      BY <1>1, <2>1, <3>1, Zenon DEF Pending, Increasing
  <2>4. l + 1 \in (l + 1)..s /\ l + 1 <= s
    BY <2>2
  <2>5. PICK i \in 1..Len(q) : Waits(q, FALSE, i) /\ q[i].ev.seq = l + 1
    BY <2>4, Zenon DEF Pending, Complete
  <2>6. q[1].ev.seq = l + 1
    <3>1. \A x \in (l + 1)..s : ~(x < l + 1)
      OBVIOUS
    <3>2. QED
      BY <2>2, <2>3, <2>5, <3>1
  <2>7. \A j \in 1..Len(q) : Waits(q, TRUE, j) => Waits(q, FALSE, j) /\ j # 1
    BY DEF Waits
  <2>8. \A j \in 1..Len(q) : Waits(q, FALSE, j) /\ j # 1 => Waits(q, TRUE, j)
    BY DEF Waits
  <2>9. InRange(q, TRUE, l + 1, s)
    <3>1. SUFFICES ASSUME NEW j \in 1..Len(q), Waits(q, TRUE, j)
                   PROVE  /\ q[j].ev.epoch = 0 /\ q[j].ev.prev = 0
                          /\ q[j].ev.seq \in ((l + 1) + 1)..s
      BY DEF InRange
    <3>2. Waits(q, FALSE, j) /\ j # 1
      BY <2>7, <3>1
    <3>3. /\ q[j].ev.epoch = 0 /\ q[j].ev.prev = 0
          /\ q[j].ev.seq \in (l + 1)..s
      BY <3>1, <3>2, Zenon DEF Pending, InRange
    <3>4. l + 1 < q[j].ev.seq
      BY <2>3, <2>6, <3>2
    <3>5. QED
      BY <3>3, <3>4
  <2>10. Increasing(q, TRUE)
    BY <2>7, Zenon DEF Pending, Increasing
  <2>11. Complete(q, TRUE, l + 1, s)
    <3>1. SUFFICES ASSUME NEW k \in ((l + 1) + 1)..s
                   PROVE  \E j \in 1..Len(q) : Waits(q, TRUE, j) /\ q[j].ev.seq = k
      BY DEF Complete
    <3>2. k \in (l + 1)..s /\ k # l + 1
      OBVIOUS
    <3>3. PICK j \in 1..Len(q) : Waits(q, FALSE, j) /\ q[j].ev.seq = k
      BY <3>2, Zenon DEF Pending, Complete
    <3>4. j # 1
      BY <2>6, <3>2, <3>3
    <3>5. QED
      BY <2>8, <3>3, <3>4
  <2>12. QED
    BY <2>2, <2>4, <2>6, <2>9, <2>10, <2>11 DEF Pending
<1>4. QED
  BY <1>1, <1>2, <1>3

(* What a step other than a write, an append's return, a crash and the     *)
(* creation of the run does to the chain and the event numbers.            *)
HistoryMoves ==
  /\ UNCHANGED <<log, torn>>
  /\ \E q :
       /\ \/ q = queue /\ done' = done
          \/ /\ queue # <<>> /\ q = Tail(queue) /\ done' = FALSE
             /\ Head(queue).op # "append"
       /\ \/ queue' = q /\ UNCHANGED <<seq, lastHash>>
          \/ \E e : queue' = Append(q, e) /\ e.op # "append" /\ UNCHANGED <<seq, lastHash>>
          \/ \E who : Record(q, who)

LEMMA HistoryKept ==
  ASSUME TypeOK, done => queue # <<>>, HistoryInv, epoch = 0, HistoryMoves
  PROVE  HistoryInv'
<1>1. PICK q :
        /\ \/ q = queue /\ done' = done
           \/ /\ queue # <<>> /\ q = Tail(queue) /\ done' = FALSE
              /\ Head(queue).op # "append"
        /\ \/ queue' = q /\ UNCHANGED <<seq, lastHash>>
           \/ \E e : queue' = Append(q, e) /\ e.op # "append" /\ UNCHANGED <<seq, lastHash>>
           \/ \E who : Record(q, who)
  BY DEF HistoryMoves
<1>2. /\ queue \in Seq(Operations) /\ q \in Seq(Operations)
      /\ done \in BOOLEAN /\ done' \in BOOLEAN /\ seq \in Nat /\ Len(log) \in Nat
  <2>1. /\ queue \in Seq(Operations) /\ done \in BOOLEAN /\ seq \in Nat
        /\ log \in Seq(Events)
    BY RunType DEF TypeOK
  <2>2. Len(log) \in Nat
    BY <2>1
  <2>3. done' \in BOOLEAN
    BY <1>1, <2>1
  <2>4. q \in Seq(Operations)
    BY <1>1, <2>1, ChainType
  <2>5. QED
    BY <2>1, <2>2, <2>3, <2>4
<1>3. Pending(q, done', Len(log), seq) /\ (done' => q # <<>>)
  <2>1. Pending(queue, done, Len(log), seq)
    BY DEF HistoryInv
  <2>2. CASE q = queue /\ done' = done
    BY <2>1, <2>2
  <2>3. CASE queue # <<>> /\ q = Tail(queue) /\ done' = FALSE /\ Head(queue).op # "append"
    BY <1>2, <2>1, <2>3, PendingTail
  <2>4. QED BY <1>1, <2>2, <2>3
<1>4. UNCHANGED <<log, torn>> /\ lastHash = 0 /\ ~torn /\ Logged(log) /\ Len(log) <= seq
  BY DEF HistoryMoves, HistoryInv
<1>5. CASE queue' = q /\ UNCHANGED <<seq, lastHash>>
  BY <1>3, <1>4, <1>5 DEF HistoryInv
<1>6. ASSUME NEW e, queue' = Append(q, e), e.op # "append", UNCHANGED <<seq, lastHash>>
      PROVE  HistoryInv'
  <2>1. Pending(queue', done', Len(log), seq)
    BY <1>2, <1>3, <1>6, PendingBehind
  <2>2. QED
    BY <1>4, <1>6, <2>1 DEF HistoryInv
<1>7. ASSUME NEW who, Record(q, who)
      PROVE  HistoryInv'
  <2> DEFINE e == [op |-> "append", who |-> who,
                   ev |-> [seq |-> seq + 1, epoch |-> epoch, prev |-> lastHash]]
  <2>1. queue' = Append(q, e) /\ seq' = seq + 1 /\ lastHash' = 0
    BY <1>7 DEF Record
  <2>2. e.op = "append" /\ e.ev.seq = seq + 1 /\ e.ev.epoch = 0 /\ e.ev.prev = 0
    BY <1>4
  <2> HIDE DEF e
  <2>3. Pending(queue', done', Len(log), seq + 1)
    BY <1>2, <1>3, <1>4, <2>1, <2>2, PendingRecorded
  <2>4. Len(log) <= seq + 1
    BY <1>2, <1>4
  <2>5. QED
    BY <1>4, <2>1, <2>3, <2>4 DEF HistoryInv
<1>8. QED
  BY <1>1, <1>5, <1>6, <1>7

LEMMA WorkerHistory ==
  ASSUME NEW w \in workers, WorkerStep(w) PROVE HistoryMoves
<1> USE DEF HistoryMoves, diskVars
<1>1. CASE NodeStarted(w)
  BY <1>1 DEF NodeStarted, Returns, Catch, runVars
<1>2. CASE ExecutorReturns(w)
  <2>1. \E e : queue' = Append(queue, e) /\ e.op # "append"
    BY <1>2, SMTT(40) DEF ExecutorReturns
  <2>2. QED
    BY <1>2, <2>1 DEF ExecutorReturns, runVars
<1>3. CASE ExecutorFails(w)
  BY <1>3 DEF ExecutorFails, Catch
<1>4. CASE TimeoutFires(w)
  BY <1>4 DEF TimeoutFires, Catch
<1>5. CASE ArtifactSaved(w)
  BY <1>5 DEF ArtifactSaved, Returns
<1>6. CASE ArtifactFails(w)
  <2>1. /\ queue # <<>> /\ done' = FALSE /\ Head(queue).op # "append"
        /\ UNCHANGED <<log, torn>>
        /\ Record(Tail(queue), NodeCaller(w.n, w.a))
    BY <1>6 DEF ArtifactFails, Catch
  <2>2. QED
    BY <2>1
<1>7. CASE NodeLinked(w)
  BY <1>7 DEF NodeLinked
<1>8. CASE LinkFails(w)
  BY <1>8 DEF LinkFails, Catch
<1>9. CASE NodeClosed(w)
  BY <1>9 DEF NodeClosed, Returns, runVars
<1>10. QED
  BY <1>1, <1>2, <1>3, <1>4, <1>5, <1>6, <1>7, <1>8, <1>9 DEF WorkerStep

LEMMA HistoryStep ==
  ASSUME TypeOK, FreshInv, HistoryInv, epoch = 0, [Next]_vars, ~CrashAndInitialize
  PROVE  HistoryInv'
<1>t. /\ queue \in Seq(Operations) /\ seq \in Nat /\ log \in Seq(Events)
      /\ Len(log) \in Nat /\ (done => queue # <<>>) /\ done \in BOOLEAN
  BY RunType DEF TypeOK, FreshInv
<1>1. CASE \/ Pause \/ Resume \/ Cancel \/ Shutdown
           \/ Begin \/ BeginWithoutSnapshots \/ Close
           \/ \E n \in Nodes : Dispatch(n)
  <2>1. UNCHANGED <<log, torn, done>> /\ \E who : Record(queue, who)
    BY <1>1 DEF Pause, Resume, Cancel, Shutdown, Begin, BeginWithoutSnapshots,
       Close, Dispatch, diskVars
  <2>2. QED
    BY <1>t, <2>1, HistoryKept DEF HistoryMoves
<1>2. CASE \/ Started \/ Closed
           \/ \E role \in {"start", "resume", "recover"} : LaunchWhenRecorded(role)
           \/ \E role \in {"pause", "cancel", "shutdown"} : ControlReturns(role)
  <2>1. /\ UNCHANGED <<log, torn, seq, lastHash>> /\ queue # <<>>
        /\ queue' = Tail(queue) /\ done' = FALSE /\ Head(queue).op # "append"
    BY <1>2 DEF Started, Closed, LaunchWhenRecorded, ControlReturns, Returns,
       diskVars, runVars
  <2>2. QED
    BY <1>t, <2>1, HistoryKept DEF HistoryMoves
<1>3. CASE LoopStops \/ SkipBlockedNodes \/ Race \/ UNCHANGED vars
  <2>1. UNCHANGED <<log, torn, seq, lastHash, queue, done>>
    BY <1>3 DEF LoopStops, SkipBlockedNodes, Race, vars, diskVars, runVars
  <2>2. QED
    BY <1>t, <2>1, HistoryKept DEF HistoryMoves
<1>4. ASSUME NEW w \in workers, WorkerStep(w) PROVE HistoryInv'
  BY <1>t, <1>4, WorkerHistory, HistoryKept
<1>5. CASE Start
  <2>1. /\ queue = <<>> /\ seq = 0 /\ done' = done /\ ~done
        /\ log' = <<>> /\ torn' = FALSE /\ Record(queue, Caller("start"))
    BY <1>5 DEF Start, FreshInv, Untouched, Run
  <2> DEFINE e == [op |-> "append", who |-> Caller("start"),
                   ev |-> [seq |-> seq + 1, epoch |-> epoch, prev |-> lastHash]]
  <2>2. queue' = Append(queue, e) /\ seq' = seq + 1 /\ lastHash' = 0
    BY <2>1 DEF Record
  <2>3. e.op = "append" /\ e.ev.seq = seq + 1 /\ e.ev.epoch = 0 /\ e.ev.prev = 0
    BY DEF HistoryInv
  <2> HIDE DEF e
  <2>4. Pending(queue, FALSE, 0, seq)
    BY <2>1 DEF Pending, InRange, Increasing, Complete
  <2>5. Pending(queue', FALSE, 0, seq + 1)
    <3>1. 0 <= seq /\ 0 \in Nat
      BY <1>t
    <3>2. QED
      BY <1>t, <2>2, <2>3, <2>4, <3>1, PendingRecorded
  <2>6. Len(log') = 0 /\ Logged(log')
    BY <2>1 DEF Logged
  <2>7. done' = FALSE /\ Len(log') <= seq'
    BY <1>t, <2>1, <2>2, <2>6
  <2>8. QED
    BY <2>1, <2>2, <2>5, <2>6, <2>7 DEF HistoryInv
<1>6. CASE Write
  <2>1. /\ queue # <<>> /\ ~done /\ done' = TRUE
        /\ UNCHANGED <<seq, lastHash, queue>> /\ WriteEffect(Head(queue))
    BY <1>6 DEF Write, runVars
  <2>2. Pending(queue, FALSE, Len(log), seq)
    BY <1>t, <2>1 DEF HistoryInv
  <2>3. CASE Head(queue).op # "append"
    <3>1. UNCHANGED <<log, torn>>
      BY <2>1, <2>3 DEF WriteEffect
    <3>2. Pending(queue, TRUE, Len(log), seq)
      BY <1>t, <2>1, <2>2, <2>3, PendingWritten
    <3>3. QED
      BY <2>1, <3>1, <3>2 DEF HistoryInv
  <2>4. CASE Head(queue).op = "append"
    <3> DEFINE ev == Head(queue).ev
    <3>1. torn' = FALSE /\ log' = Append(log, ev)
      BY <2>1, <2>4 DEF WriteEffect, HistoryInv
    <3>2. /\ ev.seq = Len(log) + 1 /\ Len(log) + 1 <= seq
          /\ ev.epoch = 0 /\ ev.prev = 0
          /\ Pending(queue, TRUE, Len(log) + 1, seq)
      BY <1>t, <2>1, <2>2, <2>4, PendingWritten
    <3> HIDE DEF ev
    <3>3. /\ Len(log') = Len(log) + 1 /\ log'[Len(log) + 1] = ev
          /\ \A i \in 1..Len(log) : log'[i] = log[i]
      BY <1>t, <3>1, AppendAt
    <3>4. Logged(log')
      <4>1. \A i \in 1..Len(log') : i \in 1..Len(log) \/ i = Len(log) + 1
        BY <1>t, <3>3
      <4>2. QED
        BY <3>2, <3>3, <4>1 DEF Logged, HistoryInv
    <3>5. QED
      BY <2>1, <3>1, <3>2, <3>3, <3>4 DEF HistoryInv
  <2>5. QED BY <2>3, <2>4
<1>7. CASE AppendReturns
  <2> DEFINE e == [op |-> "run", who |-> Head(queue).who, ev |-> NoEvent]
  <2>1. /\ queue # <<>> /\ done /\ done' = FALSE
        /\ queue' = Append(Tail(queue), e) /\ UNCHANGED <<seq, lastHash, log, torn>>
    BY <1>7 DEF AppendReturns, runVars, diskVars
  <2>2. e.op # "append"
    OBVIOUS
  <2> HIDE DEF e
  <2>3. Pending(Tail(queue), FALSE, Len(log), seq) /\ Tail(queue) \in Seq(Operations)
    BY <1>t, <2>1, ChainType, PendingTail DEF HistoryInv
  <2>4. Pending(queue', FALSE, Len(log), seq)
    BY <2>1, <2>2, <2>3, PendingBehind
  <2>5. QED
    BY <2>1, <2>4 DEF HistoryInv
<1>8. QED
  BY <1>1, <1>2, <1>3, <1>4, <1>5, <1>6, <1>7 DEF Next, EngineStep

(* Until the process first crashes the log holds consecutive events, each  *)
(* with its predecessor's hash, although calls that interleave number and  *)
(* queue their events while others wait: events() verifies it.             *)
THEOREM HistoryIsReadable == Spec => [](epoch = 0 => HistoryReadable)
<1>1. Init => HistoryInv
  BY DEF Init, HistoryInv, Logged, Pending, InRange, Increasing, Complete
<1>2. TypeOK /\ FreshInv /\ (epoch = 0 => HistoryInv) /\ [Next]_vars
        => (epoch = 0 => HistoryInv)'
  <2>1. SUFFICES ASSUME TypeOK, FreshInv, epoch = 0 => HistoryInv, [Next]_vars,
                        epoch' = 0
                 PROVE  HistoryInv'
    OBVIOUS
  <2>2. epoch \in Nat
    BY <2>1 DEF TypeOK
  <2>3. ~CrashAndInitialize
    BY <2>1, <2>2 DEF CrashAndInitialize
  <2>4. epoch = 0
    BY <2>1, <2>3, EpochKept
  <2>5. QED
    BY <2>1, <2>3, <2>4, HistoryStep
<1>3. TypeOK /\ HistoryInv => HistoryReadable
  <2>1. SUFFICES ASSUME TypeOK, HistoryInv, NEW i \in 1..(Len(log) - 1)
                 PROVE  /\ log[i + 1].seq = log[i].seq + 1
                        /\ log[i + 1].prev = log[i].epoch
    BY DEF HistoryReadable
  <2>2. Len(log) \in Nat
    BY <2>1 DEF TypeOK
  <2>3. i \in 1..Len(log) /\ i + 1 \in 1..Len(log)
    BY <2>1, <2>2
  <2>4. QED
    BY <2>1, <2>3 DEF HistoryInv, Logged
<1>4. QED
  BY <1>1, <1>2, <1>3, TypeCorrect, Fresh, PTL DEF Spec

-----------------------------------------------------------------------------
(***************************************************************************)
(* Workers and nodes, when attempts of one node cannot overlap: the plan   *)
(* runs one node at a time, or retries none.  (Otherwise a retry may be    *)
(* dispatched while the attempt it replaces still records its failure, and *)
(* shares its controller and its entry in the map of active nodes.)  Then  *)
(* a node has at most one worker, which its controller and its active      *)
(* entry name; while the run has workers its execution goes on.            *)
(***************************************************************************)
Solo == MaxParallel = 1 \/ \A n \in Nodes : Retries[n] = 0

OnePerNode(W) == \A v, w \in W : v.n = w.n => v = w

Known(w) ==
  /\ w.a = attempt[w.n] /\ controller[w.n] = w.a /\ active[w.n] = w.a
  /\ w.a # 0 /\ w.owned
Placed(w) ==
  /\ w.at # "closing" \/ MaxParallel # 1 => node[w.n] # "pending"
  /\ w.at \in {"linking", "closing"} => node[w.n] # "running"
Cancelled(w) == cancel /\ w.at = "executing" => w.aborted

Resting == {"close", "closing", "none", "reading", "started"}

SoloInv ==
  /\ OnePerNode(workers)
  /\ \A w \in workers : Known(w) /\ Placed(w) /\ Cancelled(w)
  /\ \A n \in Nodes : active[n] # 0 => \E w \in workers : w.n = n
  /\ epoch = 0 => \A n \in Nodes : node[n] = "running" => \E w \in workers : w.n = n
  /\ main \in Resting => workers = {}
  /\ main = "settle" => watch = {Id(w) : w \in workers}
  /\ IsFiniteSet(ActiveIds) /\ Cardinality(ActiveIds) <= MaxParallel

(* The active entries are those of the workers.                            *)
LEMMA ActiveWorkers ==
  ASSUME TypeOK, SoloInv PROVE ActiveIds = {Id(w) : w \in workers}
<1>1. \A w \in workers : w.n \in Nodes /\ active[w.n] # 0 /\ Id(w) = <<w.n, active[w.n]>>
  BY DEF SoloInv, Known, TypeOK, WorkerRecords, Id
<1>2. ASSUME NEW w \in workers PROVE Id(w) \in ActiveIds
  BY <1>1, <1>2 DEF ActiveIds
<1>3. ASSUME NEW n \in Nodes, active[n] # 0
      PROVE  \E w \in workers : Id(w) = <<n, active[n]>>
  BY <1>1, <1>3 DEF SoloInv
<1>4. QED
  BY <1>2, <1>3 DEF ActiveIds

LEMMA ActiveEmpty ==
  ASSUME TypeOK, SoloInv PROVE ActiveIds = {} <=> workers = {}
BY ActiveWorkers

LEMMA WorkersBounded ==
  ASSUME TypeOK, SoloInv PROVE Cardinality(workers) <= MaxParallel
<1> DEFINE f == [w \in workers |-> Id(w)]
<1>1. \A w \in workers : Id(w) \in ActiveIds
  BY ActiveWorkers
<1>2. \A v, w \in workers : Id(v) = Id(w) => v = w
  BY DEF Id, SoloInv, OnePerNode
<1>3. f \in Injection(workers, ActiveIds)
  BY <1>1, <1>2 DEF Injection, IsInjective
<1>4. IsFiniteSet(workers) /\ Cardinality(workers) <= Cardinality(ActiveIds)
  BY <1>3, FS_Injection DEF SoloInv
<1>5. Cardinality(workers) \in Nat /\ Cardinality(ActiveIds) \in Nat
  BY <1>4, FS_CardinalityType DEF SoloInv
<1>6. QED
  BY <1>4, <1>5 DEF SoloInv

(* A node that can be dispatched has no worker.                            *)
LEMMA NoWorkerYet ==
  ASSUME TypeOK, SoloInv, Solo, NEW n \in Nodes, CanDispatch(n)
  PROVE  \A w \in workers : w.n # n
<1>1. CASE MaxParallel = 1
  <2>1. Cardinality(ActiveIds) \in Nat /\ Cardinality(ActiveIds) < 1
    BY <1>1, FS_CardinalityType DEF CanDispatch, SoloInv
  <2>2. ActiveIds = {}
    BY <2>1, FS_EmptySet DEF SoloInv
  <2>3. QED
    BY <2>2, ActiveEmpty
<1>2. CASE MaxParallel # 1
  BY <1>2 DEF SoloInv, Placed, CanDispatch, Ready
<1>3. QED BY <1>1, <1>2

(* Steps that change neither the workers nor what SoloInv says of them.    *)
LEMMA SoloSame ==
  ASSUME TypeOK, SoloInv,
         UNCHANGED <<workers, controller, active, attempt, epoch>>,
         cancel' => cancel,
         \A n \in Nodes : /\ node'[n] = "pending" => node[n] = "pending"
                          /\ node'[n] = "running" => node[n] = "running",
         main' \in Resting => workers = {},
         main' = "settle" => watch' = {Id(w) : w \in workers}
  PROVE  SoloInv'
<1>1. \A w \in workers : w.n \in Nodes
  BY DEF TypeOK, WorkerRecords
<1>2. ActiveIds' = ActiveIds
  BY DEF ActiveIds
<1>3. \A w \in workers : Known(w)' /\ Placed(w)' /\ Cancelled(w)'
  BY <1>1 DEF SoloInv, Known, Placed, Cancelled
<1>4. \A n \in Nodes : active'[n] # 0 => \E w \in workers' : w.n = n
  BY DEF SoloInv
<1>5. epoch' = 0 => \A n \in Nodes : node'[n] = "running" => \E w \in workers' : w.n = n
  BY DEF SoloInv
<1>6. QED
  BY <1>2, <1>3, <1>4, <1>5 DEF SoloInv, OnePerNode

(* A worker that moves, and perhaps sets its node's status.                *)
LEMMA SoloMoved ==
  ASSUME TypeOK, SoloInv, NEW w \in workers, NEW at, workers' = Moved(w, at),
         UNCHANGED <<controller, active, attempt, epoch, cancel, main, watch>>,
         \A n \in Nodes : n # w.n => node'[n] = node[n],
         at # "closing" \/ MaxParallel # 1 => node'[w.n] # "pending",
         at \in {"linking", "closing"} => node'[w.n] # "running",
         cancel /\ at = "executing" => w.aborted
  PROVE  SoloInv'
<1> DEFINE x == [w EXCEPT !.at = at]
<1>1. /\ x.n = w.n /\ x.a = w.a /\ x.at = at
      /\ x.aborted = w.aborted /\ x.owned = w.owned
  BY DEF TypeOK, WorkerRecords
<1>2. workers' = (workers \ {w}) \cup {x}
  BY DEF Moved
<1>3. \A v \in workers : v.n \in Nodes /\ (v # w => v.n # w.n)
  BY DEF TypeOK, WorkerRecords, SoloInv, OnePerNode
<1> HIDE DEF x
<1>4. OnePerNode(workers')
  BY <1>1, <1>2, <1>3 DEF SoloInv, OnePerNode
<1>5. \A v \in workers' : Known(v)' /\ Placed(v)' /\ Cancelled(v)'
  <2>1. ASSUME NEW v \in workers, v # w PROVE Known(v)' /\ Placed(v)' /\ Cancelled(v)'
    BY <1>3, <2>1 DEF SoloInv, Known, Placed, Cancelled
  <2>2. Known(x)' /\ Placed(x)' /\ Cancelled(x)'
    BY <1>1, <1>3 DEF SoloInv, Known, Placed, Cancelled
  <2>3. QED BY <1>2, <2>1, <2>2
<1>6. \A n \in Nodes : (\E v \in workers : v.n = n) => \E v \in workers' : v.n = n
  BY <1>1, <1>2
<1>7. \A n \in Nodes : active'[n] # 0 => \E v \in workers' : v.n = n
  BY <1>6 DEF SoloInv
<1>8. epoch' = 0 => \A n \in Nodes : node'[n] = "running" => \E v \in workers' : v.n = n
  BY <1>6 DEF SoloInv
<1>9. main' \in Resting => workers' = {}
  BY DEF SoloInv
<1>10. {Id(v) : v \in workers'} = {Id(v) : v \in workers}
  <2>1. Id(x) = Id(w)
    BY <1>1 DEF Id
  <2>2. QED
    BY <1>2, <2>1
<1>11. ActiveIds' = ActiveIds
  BY DEF ActiveIds
<1>12. QED
  BY <1>4, <1>5, <1>7, <1>8, <1>9, <1>10, <1>11 DEF SoloInv

LEMMA SoloCatch ==
  ASSUME TypeOK, SoloInv, Solo, NEW w \in workers, NEW aborted, NEW q,
         Catch(w, aborted, q)
  PROVE  SoloInv'
<1>1. /\ node \in [Nodes -> NodeStatus] /\ w.n \in Nodes
      /\ attempt[w.n] \in Nat /\ attempt[w.n] # 0
  BY RunType DEF TypeOK, WorkerRecords, SoloInv, Known
<1>2. node'[w.n] = CaughtStatus(w, aborted) /\ \A n \in Nodes : n # w.n => node'[n] = node[n]
  BY <1>1 DEF Catch
<1>3. MaxParallel # 1 => CaughtStatus(w, aborted) # "pending"
  BY <1>1 DEF CaughtStatus, Solo
<1>4. CaughtStatus(w, aborted) # "running"
  BY DEF CaughtStatus
<1>5. /\ workers' = Moved(w, "closing")
      /\ UNCHANGED <<controller, active, attempt, epoch, cancel, main, watch>>
  BY DEF Catch, executorVars, historyVars
<1>6. QED
  BY <1>2, <1>3, <1>4, <1>5, SoloMoved

(* A worker ends; its node is free.                                        *)
LEMMA SoloClosed ==
  ASSUME TypeOK, SoloInv, NEW w \in workers, NodeClosed(w) PROVE SoloInv'
<1>1. /\ w.n \in Nodes /\ w.owned
      /\ active \in [Nodes -> Nat] /\ controller \in [Nodes -> Nat]
      /\ node[w.n] # "running" /\ active[w.n] = w.a
  BY DEF TypeOK, WorkerRecords, SoloInv, Known, Placed, NodeClosed
<1>2. /\ workers' = workers \ {w}
      /\ UNCHANGED <<node, attempt, cancel, epoch>>
      /\ active' = [active EXCEPT ![w.n] = 0]
      /\ controller' = [controller EXCEPT ![w.n] = 0]
  BY <1>1 DEF NodeClosed, runVars, historyVars
<1>3. \A v \in workers' : v \in workers /\ v.n \in Nodes /\ v.n # w.n
  BY <1>2 DEF TypeOK, WorkerRecords, SoloInv, OnePerNode
<1>4. /\ active'[w.n] = 0
      /\ \A n \in Nodes : n # w.n => active'[n] = active[n] /\ controller'[n] = controller[n]
  BY <1>1, <1>2
<1>5. OnePerNode(workers')
  BY <1>3 DEF SoloInv, OnePerNode
<1>6. \A v \in workers' : Known(v)' /\ Placed(v)' /\ Cancelled(v)'
  BY <1>2, <1>3, <1>4 DEF SoloInv, Known, Placed, Cancelled
<1>7. \A n \in Nodes : n # w.n /\ (\E v \in workers : v.n = n) => \E v \in workers' : v.n = n
  BY <1>2
<1>8. \A n \in Nodes : active'[n] # 0 => \E v \in workers' : v.n = n
  BY <1>4, <1>7 DEF SoloInv
<1>9. epoch' = 0 => \A n \in Nodes : node'[n] = "running" => \E v \in workers' : v.n = n
  BY <1>1, <1>2, <1>7 DEF SoloInv
<1>10. main = "settle" => watch' = {Id(v) : v \in workers'}
  <2>1. ASSUME main = "settle" PROVE watch' = {Id(v) : v \in workers'}
    <3>1. watch = {Id(v) : v \in workers} /\ watch' = watch \ {Id(w)}
      BY <2>1 DEF SoloInv, NodeClosed
    <3>2. \A v \in workers : v # w => Id(v) # Id(w)
      BY DEF Id, SoloInv, OnePerNode
    <3>3. QED
      BY <1>2, <3>1, <3>2
  <2>2. QED BY <2>1
<1>11. \/ main = "race" /\ main' = "loop"
       \/ main = "settle" /\ watch' = {} /\ main' = "close"
       \/ main' = main
  BY DEF NodeClosed
<1>12. main' \in Resting => workers' = {}
  <2>1. CASE main = "settle" /\ watch' = {} /\ main' = "close"
    BY <1>10, <2>1
  <2>2. CASE main' = main
    BY <1>2, <2>2 DEF SoloInv
  <2>3. CASE main = "race" /\ main' = "loop"
    BY <2>3 DEF Resting
  <2>4. QED BY <1>11, <2>1, <2>2, <2>3
<1>13. main' = "settle" => watch' = {Id(v) : v \in workers'}
  BY <1>10, <1>11
<1>14. IsFiniteSet(ActiveIds)' /\ (Cardinality(ActiveIds) <= MaxParallel)'
  <2>1. ActiveIds' \in SUBSET ActiveIds
    BY <1>4 DEF ActiveIds
  <2>2. /\ IsFiniteSet(ActiveIds') /\ Cardinality(ActiveIds') <= Cardinality(ActiveIds)
    BY <2>1, FS_Subset DEF SoloInv
  <2>3. Cardinality(ActiveIds') \in Nat /\ Cardinality(ActiveIds) \in Nat
    BY <2>2, FS_CardinalityType DEF SoloInv
  <2>4. QED
    BY <2>2, <2>3 DEF SoloInv
<1>15. QED
  BY <1>5, <1>6, <1>8, <1>9, <1>12, <1>13, <1>14 DEF SoloInv

(* A node is dispatched: it had no worker, so its attempt is alone.        *)
LEMMA SoloDispatch ==
  ASSUME TypeOK, SoloInv, Solo, NEW n \in Nodes, Dispatch(n) PROVE SoloInv'
<1>1. /\ node \in [Nodes -> NodeStatus] /\ attempt \in [Nodes -> Nat]
      /\ active \in [Nodes -> Nat] /\ controller \in [Nodes -> Nat]
  BY RunType DEF TypeOK
<1>2. PICK a \in Nat : a = attempt[n] + 1 /\ a # 0
  <2>1. attempt[n] \in Nat
    BY <1>1
  <2>2. QED BY <2>1
<1> DEFINE x == [n |-> n, a |-> a, at |-> "starting", aborted |-> FALSE,
                 owned |-> TRUE]
<1>3. /\ x.n = n /\ x.a = a /\ x.at = "starting" /\ x.owned
  OBVIOUS
<1>4. /\ node' = [node EXCEPT ![n] = "running"]
      /\ attempt' = [attempt EXCEPT ![n] = a]
      /\ controller' = [controller EXCEPT ![n] = a]
      /\ active' = [active EXCEPT ![n] = a]
      /\ workers' = workers \cup {x}
      /\ UNCHANGED <<cancel, epoch>> /\ main' = main /\ main = "dispatch"
      /\ CanDispatch(n)
  BY <1>2 DEF Dispatch, historyVars
<1> HIDE DEF x
<1>5. /\ node'[n] = "running" /\ attempt'[n] = a /\ controller'[n] = a /\ active'[n] = a
      /\ \A m \in Nodes : m # n =>
           /\ node'[m] = node[m] /\ attempt'[m] = attempt[m]
           /\ controller'[m] = controller[m] /\ active'[m] = active[m]
  BY <1>1, <1>4
<1>6. \A w \in workers : w.n \in Nodes /\ w.n # n
  BY <1>4, NoWorkerYet DEF TypeOK, WorkerRecords
<1>7. OnePerNode(workers')
  BY <1>3, <1>4, <1>6 DEF SoloInv, OnePerNode
<1>8. \A w \in workers' : Known(w)' /\ Placed(w)' /\ Cancelled(w)'
  <2>1. ASSUME NEW w \in workers PROVE Known(w)' /\ Placed(w)' /\ Cancelled(w)'
    BY <1>4, <1>5, <1>6, <2>1 DEF SoloInv, Known, Placed, Cancelled
  <2>2. Known(x)' /\ Placed(x)' /\ Cancelled(x)'
    BY <1>2, <1>3, <1>5 DEF Known, Placed, Cancelled
  <2>3. QED BY <1>4, <2>1, <2>2
<1>9. \A m \in Nodes : active'[m] # 0 => \E w \in workers' : w.n = m
  BY <1>3, <1>4, <1>5 DEF SoloInv
<1>10. epoch' = 0 => \A m \in Nodes : node'[m] = "running" => \E w \in workers' : w.n = m
  BY <1>3, <1>4, <1>5 DEF SoloInv
<1>11. main' \notin Resting /\ main' # "settle"
  BY <1>4 DEF Resting
<1>12. IsFiniteSet(ActiveIds)' /\ (Cardinality(ActiveIds) <= MaxParallel)'
  <2>1. active[n] = 0
    BY <1>6 DEF SoloInv
  <2>2. ActiveIds' = ActiveIds \cup {<<n, a>>}
    <3>1. \A p : p \in ActiveIds' <=>
            \E m \in Nodes : active'[m] # 0 /\ p = <<m, active'[m]>>
      BY DEF ActiveIds
    <3>2. \A p : p \in ActiveIds <=>
            \E m \in Nodes : active[m] # 0 /\ p = <<m, active[m]>>
      BY DEF ActiveIds
    <3>3. ASSUME NEW p \in ActiveIds' PROVE p \in ActiveIds \cup {<<n, a>>}
      BY <1>5, <3>1, <3>2
    <3>4. ASSUME NEW p \in ActiveIds PROVE p \in ActiveIds'
      BY <1>5, <2>1, <3>1, <3>2
    <3>5. <<n, a>> \in ActiveIds'
      BY <1>2, <1>5, <3>1
    <3>6. QED
      BY <3>3, <3>4, <3>5
  <2>3. IsFiniteSet(ActiveIds) /\ Cardinality(ActiveIds) \in Nat
    BY FS_CardinalityType DEF SoloInv
  <2>4. /\ IsFiniteSet(ActiveIds')
        /\ Cardinality(ActiveIds') = IF <<n, a>> \in ActiveIds
             THEN Cardinality(ActiveIds) ELSE Cardinality(ActiveIds) + 1
    BY <2>2, <2>3, FS_AddElement
  <2>5. Cardinality(ActiveIds) < MaxParallel
    BY <1>4 DEF CanDispatch
  <2>6. QED
    BY <2>3, <2>4, <2>5
<1>13. QED
  BY <1>7, <1>8, <1>9, <1>10, <1>11, <1>12 DEF SoloInv

(* A cancel aborts every worker, because its controller names it.          *)
LEMMA SoloCancel ==
  ASSUME TypeOK, SoloInv, Cancel PROVE SoloInv'
<1>1. /\ workers' = {[w EXCEPT !.aborted = @ \/ Aborts(w)] : w \in workers}
      /\ UNCHANGED <<attempt, active, controller, main, watch, epoch>>
      /\ node' = [n \in Nodes |-> IF node[n] = "pending" THEN "cancelled" ELSE node[n]]
  BY DEF Cancel, executorVars
<1>2. \A w \in workers :
        LET v == [w EXCEPT !.aborted = @ \/ Aborts(w)]
        IN  v.n = w.n /\ v.a = w.a /\ v.at = w.at /\ v.owned = w.owned /\ v.aborted
  BY DEF TypeOK, WorkerRecords, Aborts, SoloInv, Known
<1>3. \A v \in workers' : \E w \in workers : v = [w EXCEPT !.aborted = @ \/ Aborts(w)]
  BY <1>1
<1>4. ASSUME NEW v \in workers'
      PROVE  \E w \in workers :
               /\ v = [w EXCEPT !.aborted = @ \/ Aborts(w)]
               /\ v.n = w.n /\ v.a = w.a /\ v.at = w.at /\ v.owned = w.owned /\ v.aborted
  <2>1. PICK w \in workers : v = [w EXCEPT !.aborted = @ \/ Aborts(w)]
    BY <1>3
  <2>2. QED
    BY <1>2, <2>1
<1>5. ASSUME NEW w \in workers PROVE \E v \in workers' : v.n = w.n /\ Id(v) = Id(w)
  <2> DEFINE v == [w EXCEPT !.aborted = @ \/ Aborts(w)]
  <2>1. v \in workers'
    BY <1>1, <1>5
  <2>2. v.n = w.n /\ Id(v) = Id(w)
    BY <1>2, <1>5 DEF Id
  <2>3. QED
    BY <2>1, <2>2
<1>6. ASSUME NEW v \in workers', NEW u \in workers', v.n = u.n PROVE v = u
  <2>1. PICK w \in workers : v = [w EXCEPT !.aborted = @ \/ Aborts(w)] /\ v.n = w.n
    BY <1>4
  <2>2. PICK x \in workers : u = [x EXCEPT !.aborted = @ \/ Aborts(x)] /\ u.n = x.n
    BY <1>4
  <2>3. w = x
    BY <1>6, <2>1, <2>2 DEF SoloInv, OnePerNode
  <2>4. QED
    BY <2>1, <2>2, <2>3
<1>7. ASSUME NEW v \in workers' PROVE Known(v)' /\ Placed(v)' /\ Cancelled(v)'
  <2>1. PICK w \in workers :
          v.n = w.n /\ v.a = w.a /\ v.at = w.at /\ v.owned = w.owned /\ v.aborted
    BY <1>4
  <2>2. Known(w) /\ Placed(w) /\ w.n \in Nodes
    BY DEF SoloInv, TypeOK, WorkerRecords
  <2>3. node'[w.n] # "pending" /\ (node'[w.n] = "running" => node[w.n] = "running")
    BY <1>1, <2>2
  <2>4. QED
    BY <1>1, <2>1, <2>2, <2>3 DEF Known, Placed, Cancelled
<1>8. \A n \in Nodes : (\E w \in workers : w.n = n) => \E v \in workers' : v.n = n
  BY <1>5
<1>9. \A n \in Nodes : active'[n] # 0 => \E v \in workers' : v.n = n
  BY <1>1, <1>8 DEF SoloInv
<1>10. epoch' = 0 => \A n \in Nodes : node'[n] = "running" => \E v \in workers' : v.n = n
  BY <1>1, <1>8 DEF SoloInv
<1>11. main' \in Resting => workers' = {}
  BY <1>1 DEF SoloInv
<1>12. {Id(v) : v \in workers'} = {Id(w) : w \in workers}
  <2>1. \A v \in workers' : \E w \in workers : Id(v) = Id(w)
    BY <1>4 DEF Id
  <2>2. QED
    BY <1>5, <2>1
<1>13. ActiveIds' = ActiveIds
  BY <1>1 DEF ActiveIds
<1>14. OnePerNode(workers')
  BY <1>6 DEF OnePerNode
<1>15. QED
  BY <1>1, <1>7, <1>9, <1>10, <1>11, <1>12, <1>13, <1>14 DEF SoloInv

LEMMA SoloWorkerStep ==
  ASSUME TypeOK, SoloInv, Solo, NEW w \in workers, WorkerStep(w) PROVE SoloInv'
<1>1. node \in [Nodes -> NodeStatus] /\ w.n \in Nodes /\ Placed(w)
  BY RunType DEF TypeOK, WorkerRecords, SoloInv
<1>2. CASE NodeClosed(w)
  BY <1>2, SoloClosed
<1>3. CASE \E aborted, q : Catch(w, aborted, q)
  BY <1>3, SoloCatch
<1>4. ASSUME NEW at, workers' = Moved(w, at), node' = node, w.at # "closing",
             UNCHANGED <<controller, active, attempt, epoch, cancel, main, watch>>,
             at \in {"executing", "saving"} \/ w.at = "linking",
             at = "executing" => ~cancel
      PROVE  SoloInv'
  <2>1. node'[w.n] # "pending"
    BY <1>1, <1>4 DEF Placed
  <2>2. at \in {"linking", "closing"} => node'[w.n] # "running"
    BY <1>1, <1>4 DEF Placed
  <2>3. QED
    BY <1>4, <2>1, <2>2, SoloMoved
<1> USE DEF runVars, executorVars, historyVars
<1>5. CASE NodeStarted(w)
  <2>1. CASE Catch(w, w.aborted, Tail(queue))
    BY <1>3, <2>1
  <2>2. CASE ~Catch(w, w.aborted, Tail(queue))
    <3>1. /\ workers' = Moved(w, "executing") /\ w.at = "starting" /\ ~cancel
          /\ UNCHANGED <<node, controller, active, attempt, epoch, cancel, main, watch>>
      BY <1>5, <2>2 DEF NodeStarted
    <3>2. QED
      BY <1>4, <3>1
  <2>3. QED BY <2>1, <2>2
<1>6. CASE ExecutorReturns(w)
  <2>1. /\ workers' = Moved(w, "saving") /\ w.at = "executing"
        /\ UNCHANGED <<node, controller, active, attempt, epoch, cancel, main, watch>>
    BY <1>6 DEF ExecutorReturns
  <2>2. QED
    BY <1>4, <2>1
<1>7. CASE NodeLinked(w)
  <2>1. /\ workers' = Moved(w, "closing") /\ w.at = "linking"
        /\ UNCHANGED <<node, controller, active, attempt, epoch, cancel, main, watch>>
    BY <1>7 DEF NodeLinked
  <2>2. QED
    BY <1>4, <2>1
<1>8. CASE ArtifactSaved(w)
  <2>1. /\ workers' = Moved(w, "linking")
        /\ node' = [node EXCEPT ![w.n] = "succeeded"]
        /\ UNCHANGED <<controller, active, attempt, epoch, cancel, main, watch>>
    BY <1>8 DEF ArtifactSaved
  <2>2. node'[w.n] = "succeeded" /\ \A n \in Nodes : n # w.n => node'[n] = node[n]
    BY <1>1, <2>1
  <2>3. QED
    BY <2>1, <2>2, SoloMoved
<1>9. CASE ExecutorFails(w) \/ TimeoutFires(w) \/ ArtifactFails(w) \/ LinkFails(w)
  BY <1>3, <1>9 DEF ExecutorFails, TimeoutFires, ArtifactFails, LinkFails
<1>10. QED
  BY <1>2, <1>5, <1>6, <1>7, <1>8, <1>9 DEF WorkerStep

LEMMA SoloStep ==
  ASSUME TypeOK, FinalInv, SoloInv, Solo, [Next]_vars PROVE SoloInv'
<1>t. node \in [Nodes -> NodeStatus] /\ epoch \in Nat
  BY RunType DEF TypeOK
<1>1. CASE \/ Start \/ Pause \/ Resume \/ Shutdown \/ Write \/ AppendReturns
           \/ \E role \in {"pause", "cancel", "shutdown"} : ControlReturns(role)
           \/ UNCHANGED vars
  <2>1. UNCHANGED <<workers, controller, active, attempt, cancel, node, main, watch>>
    BY <1>1 DEF Start, Pause, Resume, Shutdown, Write, AppendReturns,
       ControlReturns, vars, runVars, executorVars
  <2>2. UNCHANGED epoch
    BY <1>1, EpochKept DEF CrashAndInitialize, Start, Pause, Resume, Shutdown,
       Write, AppendReturns, ControlReturns, vars, historyVars
  <2>3. QED
    BY <2>1, <2>2, SoloSame DEF SoloInv
<1>2. CASE Begin \/ BeginWithoutSnapshots \/ Started \/ LoopStops \/ Race
           \/ SkipBlockedNodes \/ Close
           \/ \E role \in {"start", "resume", "recover"} : LaunchWhenRecorded(role)
  <2>1. UNCHANGED <<workers, controller, active, attempt, cancel, epoch>>
    BY <1>2 DEF Begin, BeginWithoutSnapshots, Started, LoopStops, Race,
       SkipBlockedNodes, Close, LaunchWhenRecorded, runVars, historyVars
  <2>2. \A n \in Nodes : /\ node'[n] = "pending" => node[n] = "pending"
                         /\ node'[n] = "running" => node[n] = "running"
    BY <1>t, <1>2 DEF Begin, BeginWithoutSnapshots, Started, LoopStops, Race,
       SkipBlockedNodes, Close, LaunchWhenRecorded, runVars
  <2>3. /\ main' \in Resting => workers = {}
        /\ main' = "settle" => watch' = {Id(w) : w \in workers}
    <3>1. CASE Begin \/ BeginWithoutSnapshots \/ Close
      <4>1. main \in Resting /\ main' # "settle"
        BY <3>1 DEF Begin, BeginWithoutSnapshots, Close, Resting
      <4>2. QED
        BY <4>1 DEF SoloInv
    <3>2. CASE Started \/ SkipBlockedNodes
      <4>1. main' \in {"loop", "dispatch"}
        BY <3>2 DEF Started, SkipBlockedNodes
      <4>2. QED
        BY <4>1 DEF Resting
    <3>3. CASE LoopStops \/ Race
      <4>1. /\ watch' = ActiveIds /\ main' \in {"close", "settle", "race"}
            /\ main' = "close" => ActiveIds = {}
        BY <3>3 DEF LoopStops, Race
      <4>2. QED
        BY <4>1, ActiveWorkers, ActiveEmpty DEF Resting
    <3>4. CASE \E role \in {"start", "resume", "recover"} : LaunchWhenRecorded(role)
      <4>1. /\ watch' = watch
            /\ main' = main \/ (main = "none" /\ main' = "reading")
        BY <3>4 DEF LaunchWhenRecorded, Launched
      <4>2. QED
        BY <4>1 DEF SoloInv, Resting
    <3>5. QED BY <1>2, <3>1, <3>2, <3>3, <3>4
  <2>4. QED
    BY <2>1, <2>2, <2>3, SoloSame
<1>3. CASE Closed
  <2>1. workers = {}
    BY <1>3 DEF Closed, SoloInv, Resting
  <2>2. /\ UNCHANGED <<controller, active, attempt, cancel, node, epoch>>
        /\ main' = "none" /\ workers' = workers
    BY <1>3, <2>1 DEF Closed, runVars, historyVars
  <2>3. QED
    BY <2>1, <2>2, SoloSame
<1>4. CASE CrashAndInitialize
  <2>1. /\ workers' = {} /\ active' = [n \in Nodes |-> 0] /\ main' = "none"
        /\ epoch' = epoch + 1
    BY <1>4 DEF CrashAndInitialize
  <2>2. ActiveIds' = {} /\ epoch' # 0
    BY <1>t, <2>1 DEF ActiveIds
  <2>3. IsFiniteSet({}) /\ Cardinality({}) = 0
    BY FS_EmptySet
  <2>4. QED
    BY <2>1, <2>2, <2>3 DEF SoloInv, OnePerNode
<1>5. QED
  BY <1>1, <1>2, <1>3, <1>4, SoloCancel, SoloDispatch, SoloWorkerStep
     DEF Next, EngineStep

LEMMA Alone == ASSUME Solo PROVE Spec => []SoloInv
<1>1. Init => SoloInv
  <2>1. ASSUME Init PROVE SoloInv
    <3>1. /\ workers = {} /\ active = [n \in Nodes |-> 0] /\ main = "none"
          /\ \A n \in Nodes : node[n] = "pending"
      BY <2>1 DEF Init
    <3>2. ActiveIds = {}
      BY <3>1 DEF ActiveIds
    <3>3. IsFiniteSet({}) /\ Cardinality({}) = 0
      BY FS_EmptySet
    <3>4. QED
      BY <3>1, <3>2, <3>3 DEF SoloInv, OnePerNode
  <2>2. QED BY <2>1
<1>2. TypeOK /\ FinalInv /\ SoloInv /\ [Next]_vars => SoloInv'
  BY SoloStep
<1>3. QED
  BY <1>1, <1>2, TypeCorrect, Final, PTL DEF Spec

(* If a plan runs one node at a time or retries none, a cancel reaches     *)
(* every executor call in flight, and nothing undoes its abort.            *)
THEOREM AbortsPropagate == Solo => (Spec => []AbortPropagation)
<1>1. SoloInv => AbortPropagation
  BY DEF SoloInv, Cancelled, AbortPropagation
<1>2. SUFFICES ASSUME Solo PROVE Spec => []AbortPropagation
  OBVIOUS
<1>3. Spec => []SoloInv
  BY <1>2, Alone
<1>4. QED
  BY <1>1, <1>3, PTL

(* Such a plan never has more workers than it allows, none outlives its    *)
(* run, and until the first crash a running node has one, whatever its     *)
(* executor, its artifact or the graph throws.                             *)
THEOREM WorkersAndNodesMatch ==
  Solo => (Spec => [](epoch = 0 => WorkersMatchNodes))
<1>1. TypeOK /\ FinalInv /\ SoloInv => (epoch = 0 => WorkersMatchNodes)
  <2>1. SUFFICES ASSUME TypeOK, FinalInv, SoloInv, epoch = 0
                 PROVE  WorkersMatchNodes
    OBVIOUS
  <2>2. \A n \in Nodes : node[n] = "running" => \E w \in workers : w.n = n
    BY <2>1 DEF SoloInv
  <2>3. Cardinality(workers) <= MaxParallel
    BY <2>1, WorkersBounded
  <2>4. status \in Terminal => workers = {}
    BY <2>1 DEF FinalInv, SoloInv, Resting
  <2>5. QED
    BY <2>2, <2>3, <2>4 DEF WorkersMatchNodes
<1>2. SUFFICES ASSUME Solo PROVE Spec => [](epoch = 0 => WorkersMatchNodes)
  OBVIOUS
<1>3. Spec => []SoloInv
  BY <1>2, Alone
<1>4. QED
  BY <1>1, <1>3, TypeCorrect, Final, PTL
=============================================================================
