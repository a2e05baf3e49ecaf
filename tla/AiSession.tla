------------------------------- MODULE AiSession -------------------------------
(***************************************************************************)
(* One Hawk AI session: src/src/ide/aiSessionManager.ts.                   *)
(*                                                                         *)
(* Every operation loads its own copy of the session's file, works on the  *)
(* copy, and saves the whole copy again; only the writes are serialised.   *)
(* An actor is one such call: a request, the line handler and finaliser of *)
(* a worker process, or initialize().  Its `at` is the await it is in.     *)
(* A content of the worktree is a number, 0 the snapshot; a diff is known  *)
(* by the content it leads to, and so is its hash.                         *)
(***************************************************************************)
EXTENDS Naturals, Sequences, FiniteSets

CONSTANTS
  K,            (* Contents a worker can produce: 1..K.                     *)
  Gates,        (* The gates of a patch: "tests", "reproduction", "semanticReview". *)
  MaxFix,       (* StoredAiSession.maxAutoFixAttempts.                      *)
  AutoVerify,   (* StoredAiSession.autoVerify, with gates detected.         *)
  AutoResume,   (* StoredAiSession.background and autoResume.               *)
  HalfCaptures, (* Whether captureDiff() may fail after it wrote the patch.  *)
  Operations,   (* The requests made; "line" when workers report lines.     *)
  Overlap,      (* Whether a request may come while another call is in      *)
                (* progress; cancel, pause, cancelTests and dispose always may. *)
  MaxWorkers,   (* Bound on the workers that have not settled.              *)
  MaxCrashes    (* Bound on the number of restarts of the daemon.           *)

Names ==
  {"create", "continue", "runTests", "reproduce", "semanticReview",
   "cancelTests", "checkpoint", "restoreCheckpoint", "apply", "reject",
   "revert", "cancel", "pause", "resume", "dispose",
   "line"}

ASSUME SessionAssumption ==
  /\ K \in Nat \ {0} /\ MaxFix \in Nat
  /\ {"tests"} \subseteq Gates
  /\ Gates \subseteq {"tests", "reproduction", "semanticReview"}
  /\ AutoVerify \in BOOLEAN /\ AutoResume \in BOOLEAN
  /\ HalfCaptures \in BOOLEAN
  /\ Operations \subseteq Names
  /\ Overlap \in BOOLEAN /\ MaxWorkers \in Nat /\ MaxCrashes \in Nat

VARIABLES
  file,        (* sessions/<id>.json                                        *)
  queue,       (* saveQueues: <<actor, copy>>, the head being written       *)
  act,         (* the calls in progress                                     *)
  worker,      (* the worker processes and how they ended                   *)
  map,         (* workers.get(id), 0 if absent                              *)
  life,        (* workerLifecycles.get(id), 0 if absent                     *)
  controller,  (* testControllers.get(id): its actor, or Nobody             *)
  aborted,     (* the actors whose signal is aborted                        *)
  target,      (* the worker a call is to stop, or to wait for; 0 if none   *)
  tree, patch, (* the worktree's content, or Gone; the patch file, or 0     *)
  workspace,   (* the operator's workspace: 0, or the content applied       *)
  epoch, down, (* restarts so far; dispose() has returned                   *)
  passedOn,    (* history: the content each gate passed on last             *)
  repairs      (* history: repair workers since the last message            *)

storeVars == <<file, queue>>
processVars == <<worker, map, life, controller, aborted, target>>
diskVars == <<tree, patch, workspace>>
historyVars == <<passedOn, repairs>>
vars == <<storeVars, act, processVars, diskVars, epoch, down, historyVars>>

Contents == 0..K
Gone == K + 1
Workers == 1..MaxWorkers
Boot == <<"boot", 0>>
Nobody == <<"nobody", 0>>
Stop == <<"stop", 0>>
Stops == {"cancel", "cancelTests", "pause", "dispose"}
Reviews == {<<"request", i>> : i \in 1..(IF Overlap THEN 2 ELSE 1)}
Requests == Reviews \cup {Stop}
Owner(w) == <<"worker", w>>
Actors == {Boot} \cup Requests \cup {Owner(w) : w \in Workers}

-----------------------------------------------------------------------------
(***************************************************************************)
(* The session's file and its save queue.                                  *)
(***************************************************************************)
Unchecked == [g \in Gates |-> "pending"]
Session(status) ==
  [status |-> status, diff |-> 0, quality |-> Unchecked, fix |-> 0, checkpoints |-> {}]
Idle == [at |-> "idle", copy |-> Session("none"), event |-> FALSE]

Init ==
  /\ file = Session("none") /\ queue = <<>>
  /\ act = [a \in Actors |-> Idle]
  /\ worker = [w \in Workers |-> "free"] /\ map = 0 /\ life = 0
  /\ controller = Nobody /\ aborted = {}
  /\ target = [a \in Actors |-> 0]
  /\ tree = Gone /\ patch = 0 /\ workspace = 0
  /\ epoch = 0 /\ down = FALSE
  /\ passedOn = [g \in Gates |-> Gone] /\ repairs = 0

(* a's awaits of save() and addEvent() are over and it continues at p.     *)
Queued(a) == \E i \in 1..Len(queue) : queue[i][1] = a
At(a, p) == act[a].at = p /\ ~act[a].event /\ ~Queued(a)

(* save(s): the body is fixed now and written when its turn comes.  With   *)
(* addEvent(s) after it the same copy is saved again, after the append to  *)
(* the event log; a third save of an unchanged copy is left out.           *)
Continue(a, s, p, event) ==
  act' = [act EXCEPT ![a] = [@ EXCEPT !.at = p, !.copy = s, !.event = event]]
Save(a, s, p) == Continue(a, s, p, FALSE) /\ queue' = Append(queue, <<a, s>>)
SaveAndEvent(a, s, p) == Continue(a, s, p, TRUE) /\ queue' = Append(queue, <<a, s>>)
EventOnly(a, s, p) == Continue(a, s, p, TRUE) /\ UNCHANGED queue
Await(a, s, p) == Continue(a, s, p, FALSE) /\ UNCHANGED queue
Leave(a) == act' = [act EXCEPT ![a] = Idle] /\ UNCHANGED queue

Write ==
  LET a == Head(queue)[1] IN
  /\ queue # <<>>
  /\ file' = Head(queue)[2]
  /\ queue' = Tail(queue)
  /\ act' = [act EXCEPT ![a] = IF @.at = "idle" /\ ~@.event THEN Idle ELSE @]
  /\ UNCHANGED <<processVars, diskVars, epoch, down, historyVars>>

AddEvent(a) ==
  /\ act[a].event /\ ~Queued(a)
  /\ Save(a, act[a].copy, act[a].at)
  /\ UNCHANGED <<file, processVars, diskVars, epoch, down, historyVars>>

(* A worker's chain is over when its finaliser is; other calls just end.   *)
Rest(a) == IF a[1] = "worker" THEN "settle" ELSE "idle"
With(s, status) == [s EXCEPT !.status = status]

-----------------------------------------------------------------------------
(***************************************************************************)
(* Requests: load() and the test of the copy it returns.                   *)
(***************************************************************************)
CanContinue(s) == map = 0 /\ s.status \in {"awaiting-review", "failed"}
Reviewable(s) == s.status = "awaiting-review" /\ s.diff # 0
CanRestore(s) == s.status \in {"awaiting-review", "failed"} /\ s.checkpoints # {}
CanApply(s) == Reviewable(s) /\ \A g \in Gates : s.quality[g] = "passed"
CanReject(s) == s.status \in {"awaiting-review", "failed", "cancelled", "paused"}

Accepts(op, s) ==
  CASE op = "create"            -> s.status = "none"
    [] op = "continue"          -> CanContinue(s)
    [] op = "runTests"          -> s.status = "awaiting-review"
    [] op \in {"reproduce", "semanticReview", "checkpoint"} -> Reviewable(s)
    [] op = "restoreCheckpoint" -> CanRestore(s)
    [] op = "apply"             -> CanApply(s)
    [] op = "reject"            -> CanReject(s)
    [] op = "revert"            -> s.status = "applied" /\ s.diff # 0
    [] op = "pause"             -> s.status \in {"running", "preparing"}
    [] op = "resume"            -> s.status \in {"paused", "failed"}
    [] op \in {"cancel", "cancelTests"} -> s.status # "none"
    [] op = "dispose"           -> TRUE

(* The three callers of startWorker(), and where its save leads.           *)
Starts == [start |-> "spawn", repair |-> "spawnRepair", recover |-> "spawnRecovered"]

Launching == {"create", "continue", "resume"} \cup DOMAIN Starts
               \cup {Starts[p] : p \in DOMAIN Starts}

(* No call is in progress and no worker is being stopped or finalised.     *)
Calm == /\ \A a \in Actors : act[a] = Idle
        /\ \A w \in Workers : worker[w] \in {"free", "alive"}

Request(a, op) ==
  /\ act[a] = Idle /\ act[Boot].at = "idle" /\ ~down
  /\ op \in Stops <=> a = Stop
  /\ \/ Overlap \/ Calm
     \/ op \in Stops /\ \A b \in Actors : act[b].at \notin Launching
  /\ Accepts(op, file)
  /\ Await(a, file, op)
  /\ UNCHANGED <<file, processVars, diskVars, epoch, down, historyVars>>

(* ensureWorktree(), and what git apply needs: the patch file, a workspace *)
(* whose touched files are the snapshot's, or, to revert, the patch's.      *)
Possible(op) ==
  CASE op \in {"continue", "runTests", "reproduce", "restoreCheckpoint", "resume"} ->
         tree # Gone
    [] op = "checkpoint" -> tree # Gone /\ patch # 0
    [] op = "apply"      -> workspace = 0 /\ patch # 0
    [] op = "revert"     -> workspace # 0 /\ patch = workspace
    [] OTHER             -> TRUE
Ready(a, op) == At(a, op) /\ Possible(op)

Refused(a) ==
  /\ At(a, act[a].at) /\ ~Possible(act[a].at)
  /\ Leave(a)
  /\ UNCHANGED <<file, processVars, diskVars, epoch, down, historyVars>>

-----------------------------------------------------------------------------
(***************************************************************************)
(* startWorker() and the operations that end in it.                        *)
(***************************************************************************)
Create(a) ==
  /\ At(a, "create")
  /\ tree' = 0
  /\ SaveAndEvent(a, Session("preparing"), "start")
  /\ UNCHANGED <<file, processVars, patch, workspace, epoch, down, historyVars>>

(* The gates of the earlier turn stay in the copy.                         *)
ContinueTask(a) ==
  /\ Ready(a, "continue")
  /\ patch' = 0 /\ repairs' = 0
  /\ SaveAndEvent(a, [act[a].copy EXCEPT !.diff = 0, !.fix = 0], "start")
  /\ UNCHANGED <<file, processVars, tree, workspace, epoch, down, passedOn>>

Resume(a) ==
  /\ Ready(a, "resume")
  /\ IF act[a].copy.diff # 0
       THEN SaveAndEvent(a, With(act[a].copy, "awaiting-review"), "idle")
       ELSE EventOnly(a, act[a].copy, "start")
  /\ UNCHANGED <<file, processVars, diskVars, epoch, down, historyVars>>

(* 'This Hawk session is already running.' refuses a request, and makes    *)
(* the catch block of finishWorker() fail the session.                       *)
Launch(a, p) ==
  /\ At(a, p)
  /\ CASE map = 0       -> Save(a, With(act[a].copy, "running"), Starts[p])
       [] map # 0 /\ a \in Requests -> Leave(a)
       [] OTHER          -> SaveAndEvent(a, With(act[a].copy, "failed"), Rest(a))
  /\ UNCHANGED <<file, processVars, diskVars, epoch, down, historyVars>>

(* Mutant: a recovered worker is not registered.                           *)
MutantSpawn(a, w, p) ==
  /\ At(a, Starts[p])
  /\ worker[w] = "free" /\ \A v \in 1..(w - 1) : worker[v] # "free"
  /\ worker' = [worker EXCEPT ![w] = "alive"]
  /\ map' = (IF p = "recover" THEN map ELSE w) /\ life' = w
  /\ CASE p = "recover"       -> EventOnly(a, act[a].copy, "idle")
       [] p # "recover" /\ Rest(a) = "settle" -> Await(a, act[a].copy, "settle")
       [] OTHER               -> Leave(a)
  /\ repairs' = IF p = "repair" THEN repairs + 1 ELSE repairs
  /\ UNCHANGED <<file, controller, aborted, target, diskVars, epoch, down, passedOn>>

(* initialize() saves its copy once more after the worker has started.     *)
Spawn(a, w, p) ==
  /\ At(a, Starts[p])
  /\ worker[w] = "free" /\ \A v \in 1..(w - 1) : worker[v] # "free"
  /\ worker' = [worker EXCEPT ![w] = "alive"]
  /\ map' = w /\ life' = w
  /\ CASE p = "recover"       -> EventOnly(a, act[a].copy, "idle")
       [] p # "recover" /\ Rest(a) = "settle" -> Await(a, act[a].copy, "settle")
       [] OTHER               -> Leave(a)
  /\ repairs' = IF p = "repair" THEN repairs + 1 ELSE repairs
  /\ UNCHANGED <<file, controller, aborted, target, diskVars, epoch, down, passedOn>>

-----------------------------------------------------------------------------
(***************************************************************************)
(* Test gates: executeTestGates(), runAutoVerification(), and the two      *)
(* other gates.  A request may select some of the gates only.              *)
(***************************************************************************)
Tests(a) ==
  /\ \/ Ready(a, "runTests")
     \/ At(a, "verify")
  /\ controller' = a
  /\ aborted' = aborted \ {a}
  /\ SaveAndEvent(a, With(act[a].copy, "testing"), "gates")
  /\ UNCHANGED <<file, worker, map, life, target, diskVars, epoch, down, historyVars>>

(* "partial": the results end before the last gate without a failure,      *)
(* because the rest was not selected or the signal came between two gates. *)
Outcomes(a) ==
  {"passed", "failed"}
    \cup (IF a \in aborted THEN {"cancelled", "partial"} ELSE {})
    \cup (IF a \in Requests THEN {"partial"} ELSE {})
TestsStatus(outcome) ==
  CASE outcome = "passed" -> "passed" [] outcome = "partial" -> "pending"
    [] OTHER -> "failed"

(* After the finally block runAutoVerification() accepts or repairs.       *)
Verdict(a, outcome) ==
  CASE a \in Requests -> "idle"
    [] a \notin Requests /\ outcome \in {"failed", "partial"}
         /\ act[a].copy.fix < MaxFix -> "again"
    [] OTHER -> "accept"

Marked(s, g, result) == [s EXCEPT !.quality[g] = result]
Passed(g, result) ==
  passedOn' = IF result = "passed" THEN [passedOn EXCEPT ![g] = tree]
              ELSE passedOn

GatesRun(a, outcome) ==
  LET s == Marked(act[a].copy, "tests", TestsStatus(outcome)) IN
  /\ At(a, "gates") /\ outcome \in Outcomes(a)
  /\ controller' = Nobody
  /\ aborted' = aborted \ {a}
  /\ SaveAndEvent(a, IF a \in Requests THEN With(s, "awaiting-review") ELSE s,
                  Verdict(a, outcome))
  /\ Passed("tests", outcome)
  /\ UNCHANGED <<file, worker, map, life, target, diskVars, epoch, down, repairs>>

Accept(a) ==
  /\ At(a, "accept")
  /\ SaveAndEvent(a, With(act[a].copy, "awaiting-review"), Rest(a))
  /\ UNCHANGED <<file, processVars, diskVars, epoch, down, historyVars>>

Repair(a) ==
  /\ At(a, "again")
  /\ SaveAndEvent(a, [act[a].copy EXCEPT !.fix = @ + 1], "repair")
  /\ UNCHANGED <<file, processVars, diskVars, epoch, down, historyVars>>

(* reproduce() announces its command first; semanticReview() does not.     *)
Reproduce(a) ==
  /\ Ready(a, "reproduce")
  /\ EventOnly(a, act[a].copy, "command")
  /\ UNCHANGED <<file, processVars, diskVars, epoch, down, historyVars>>

GateRun(a, g, result) ==
  /\ At(a, IF g = "reproduction" THEN "command" ELSE g)
  /\ SaveAndEvent(a, Marked(act[a].copy, g, result), "idle")
  /\ Passed(g, result)
  /\ UNCHANGED <<file, processVars, diskVars, epoch, down, repairs>>

CancelTests(a) ==
  /\ At(a, "cancelTests")
  /\ aborted' = aborted \cup ({controller} \ {Nobody})
  /\ Leave(a)
  /\ UNCHANGED <<file, worker, map, life, controller, target, diskVars, epoch,
                 down, historyVars>>

-----------------------------------------------------------------------------
(***************************************************************************)
(* Checkpoints.  Only those whose retained patch has the recorded hash     *)
(* are kept here: restoring another is refused.                            *)
(***************************************************************************)
Checkpoint(a) ==
  /\ Ready(a, "checkpoint")
  /\ SaveAndEvent(a, [act[a].copy EXCEPT !.checkpoints =
                        @ \cup ({patch} \cap {act[a].copy.diff})], "idle")
  /\ UNCHANGED <<file, processVars, diskVars, epoch, down, historyVars>>

(* Mutant: a new diff keeps the gates of the old one.                      *)
MutantCaptured(s, c) == [s EXCEPT !.diff = c]

(* captureDiff(): the patch file is written before the session is saved.   *)
Captured(s, c) ==
  [s EXCEPT !.diff = c, !.quality = Unchecked]

Restore(a, c) ==
  /\ Ready(a, "restoreCheckpoint")
  /\ c \in act[a].copy.checkpoints
  /\ tree' = c /\ patch' = c
  /\ Await(a, With(Captured(act[a].copy, c), "awaiting-review"), "store")
  /\ UNCHANGED <<file, processVars, workspace, epoch, down, historyVars>>

(* The save after changes outside the session's file.                      *)
Store(a) ==
  /\ At(a, "store")
  /\ SaveAndEvent(a, act[a].copy,
       CASE act[a].copy.status \in {"applied", "rejected"} -> "remove"
         [] act[a].copy.status = "testing" -> "verify"
         [] OTHER -> Rest(a))
  /\ UNCHANGED <<file, processVars, diskVars, epoch, down, historyVars>>

-----------------------------------------------------------------------------
(***************************************************************************)
(* Apply, reject, revert.  git apply reads the patch file as it is now.     *)
(***************************************************************************)
Apply(a) ==
  /\ Ready(a, "apply")
  /\ workspace' = patch
  /\ Await(a, With(act[a].copy, "applied"), "store")
  /\ UNCHANGED <<file, processVars, tree, patch, epoch, down, historyVars>>

(* Mutant: the worktree is removed before the session is saved.            *)
MutantReject(a) ==
  /\ At(a, "reject")
  /\ SaveAndEvent(a, With(act[a].copy, "rejected"), "idle")
  /\ tree' = Gone
  /\ UNCHANGED <<file, processVars, patch, workspace, epoch, down, historyVars>>

Reject(a) ==
  /\ At(a, "reject")
  /\ SaveAndEvent(a, With(act[a].copy, "rejected"), "remove")
  /\ UNCHANGED <<file, processVars, diskVars, epoch, down, historyVars>>

RemoveWorktree(a) ==
  /\ At(a, "remove")
  /\ tree' = Gone
  /\ Leave(a)
  /\ UNCHANGED <<file, processVars, patch, workspace, epoch, down, historyVars>>

Revert(a) ==
  /\ Ready(a, "revert")
  /\ workspace' = 0
  /\ Await(a, With(act[a].copy, "reverted"), "store")
  /\ UNCHANGED <<file, processVars, tree, patch, epoch, down, historyVars>>

-----------------------------------------------------------------------------
(***************************************************************************)
(* Cancel, pause, dispose: the worker to kill is looked up before the      *)
(* saves.  pause() then waits up to five seconds, which changes nothing.   *)
(***************************************************************************)
Stopping == {"preparing", "running", "testing", "paused"}

(* Mutant: the copy is saved whether or not its status changed.            *)
MutantCancel(a) ==
  /\ At(a, "cancel")
  /\ aborted' = aborted \cup ({controller} \ {Nobody})
  /\ target' = [target EXCEPT ![a] = map]
  /\ SaveAndEvent(a, IF act[a].copy.status \in Stopping
                       THEN With(act[a].copy, "cancelled") ELSE act[a].copy, "kill")
  /\ UNCHANGED <<file, worker, map, life, controller, diskVars, epoch, down,
                 historyVars>>

Cancel(a) ==
  /\ At(a, "cancel")
  /\ aborted' = aborted \cup ({controller} \ {Nobody})
  /\ target' = [target EXCEPT ![a] = map]
  /\ IF act[a].copy.status \in Stopping
       THEN SaveAndEvent(a, With(act[a].copy, "cancelled"), "kill")
       ELSE Await(a, act[a].copy, "kill")
  /\ UNCHANGED <<file, worker, map, life, controller, diskVars, epoch, down,
                 historyVars>>

Pause(a) ==
  /\ At(a, "pause")
  /\ target' = [target EXCEPT ![a] = map]
  /\ SaveAndEvent(a, With(act[a].copy, "paused"), "kill")
  /\ UNCHANGED <<file, worker, map, life, controller, aborted, diskVars, epoch,
                 down, historyVars>>

Kill(a, then) ==
  /\ At(a, IF then = "idle" THEN "kill" ELSE "killOnExit")
  /\ worker' = IF target[a] # 0 /\ map = target[a]
                 THEN [worker EXCEPT ![map] = "killed"] ELSE worker
  /\ target' = [target EXCEPT ![a] = 0]
  /\ IF then = "idle" THEN Leave(a) ELSE Await(a, act[a].copy, then)
  /\ UNCHANGED <<file, map, life, controller, aborted, diskVars, epoch, down,
                 historyVars>>

Dispose(a) ==
  /\ At(a, "dispose")
  /\ aborted' = aborted \cup ({controller} \ {Nobody})
  /\ controller' = Nobody
  /\ target' = [target EXCEPT ![a] = map]
  /\ Await(a, act[a].copy, IF map = 0 THEN "drain" ELSE "load")
  /\ UNCHANGED <<file, worker, map, life, diskVars, epoch, down, historyVars>>

DisposeLoads(a) ==
  /\ At(a, "load")
  /\ Await(a, file, "hold")
  /\ UNCHANGED <<file, processVars, diskVars, epoch, down, historyVars>>

DisposePauses(a) ==
  /\ At(a, "hold")
  /\ SaveAndEvent(a, With(act[a].copy, "paused"), "killOnExit")
  /\ UNCHANGED <<file, processVars, diskVars, epoch, down, historyVars>>

(* The lifecycle awaited is the one in the map at this point.              *)
DisposeDrains(a) ==
  /\ At(a, "drain")
  /\ target' = [target EXCEPT ![a] = life]
  /\ Await(a, act[a].copy, "drained")
  /\ UNCHANGED <<file, worker, map, life, controller, aborted, diskVars, epoch,
                 down, historyVars>>

Disposed(a) ==
  /\ At(a, "drained") /\ target[a] = 0 /\ queue = <<>>
  /\ map' = 0 /\ down' = TRUE
  /\ Leave(a)
  /\ UNCHANGED <<file, worker, life, controller, aborted, target, diskVars,
                 epoch, historyVars>>

-----------------------------------------------------------------------------
(***************************************************************************)
(* A worker process, its lines, and finishWorker().                        *)
(***************************************************************************)
Running(w) == worker[w] \in {"alive", "killed"}
Chain(w) == act[Owner(w)]

Edit(w, c) ==
  /\ Running(w) /\ tree # Gone /\ c \in Contents \ {tree}
  /\ tree' = c
  /\ UNCHANGED <<storeVars, act, processVars, patch, workspace, epoch, down,
                 historyVars>>

(* handleWorkerLine() saves the copy it loaded, whatever the line says.    *)
Line(w) ==
  /\ "line" \in Operations
  /\ Running(w) /\ Chain(w) = Idle
  /\ Await(Owner(w), file, "line")
  /\ UNCHANGED <<file, processVars, diskVars, epoch, down, historyVars>>

LineSaved(w) ==
  /\ At(Owner(w), "line")
  /\ SaveAndEvent(Owner(w), Chain(w).copy, "idle")
  /\ UNCHANGED <<file, processVars, diskVars, epoch, down, historyVars>>

(* A signal may come too late to change how the process ends.              *)
Exit(w, end) ==
  /\ Running(w)
  /\ worker' = [worker EXCEPT ![w] = end]
  /\ map' = IF map = w THEN 0 ELSE map
  /\ UNCHANGED <<storeVars, act, life, controller, aborted, target, diskVars,
                 epoch, down, historyVars>>

Finish(w) ==
  /\ worker[w] \in {"ok", "failed"} /\ Chain(w) = Idle
  /\ Await(Owner(w), file, IF file.status \in {"cancelled", "paused"}
                              THEN "settle" ELSE worker[w])
  /\ UNCHANGED <<file, processVars, diskVars, epoch, down, historyVars>>

(* The worker failed, or captureDiff() did before it changed anything.     *)
FinishFailed(w) ==
  /\ At(Owner(w), "failed") \/ At(Owner(w), "ok")
  /\ SaveAndEvent(Owner(w), With(Chain(w).copy, "failed"), "settle")
  /\ UNCHANGED <<file, processVars, diskVars, epoch, down, historyVars>>

FinishCaptured(w) ==
  LET s == Captured(Chain(w).copy, tree) IN
  /\ At(Owner(w), "ok") /\ tree # Gone
  /\ patch' = tree
  /\ Await(Owner(w), With(s, IF AutoVerify /\ tree # 0 THEN "testing"
                             ELSE "awaiting-review"), "store")
  /\ UNCHANGED <<file, processVars, tree, workspace, epoch, down, historyVars>>

(* captureDiff() fails at the hash of a touched path: patch and diff are   *)
(* new, the gates are still those of the earlier diff.                     *)
FinishHalfCaptured(w) ==
  /\ HalfCaptures /\ At(Owner(w), "ok") /\ tree \notin {0, Gone}
  /\ patch' = tree
  /\ Await(Owner(w), With([Chain(w).copy EXCEPT !.diff = tree], "failed"), "store")
  /\ UNCHANGED <<file, processVars, tree, workspace, epoch, down, historyVars>>

Settle(w) ==
  /\ At(Owner(w), "settle")
  /\ worker' = [worker EXCEPT ![w] = "free"]
  /\ life' = IF life = w THEN 0 ELSE life
  /\ target' = [a \in Actors |-> IF target[a] = w THEN 0 ELSE target[a]]
  /\ Leave(Owner(w))
  /\ UNCHANGED <<file, map, controller, aborted, diskVars, epoch, down,
                 historyVars>>

-----------------------------------------------------------------------------
(***************************************************************************)
(* A restart loses the calls and, with the daemon, the workers.  Then      *)
(* initialize() repairs the session before requests are served.            *)
(***************************************************************************)
Restart ==
  /\ epoch < MaxCrashes /\ file.status # "none"
  /\ epoch' = epoch + 1
  /\ queue' = <<>>
  /\ act' = [a \in Actors |-> IF a = Boot THEN [Idle EXCEPT !.at = "initialize"] ELSE Idle]
  /\ worker' = [w \in Workers |-> "free"] /\ map' = 0 /\ life' = 0
  /\ controller' = Nobody /\ aborted' = {}
  /\ target' = [a \in Actors |-> 0]
  /\ down' = FALSE
  /\ UNCHANGED <<file, diskVars, historyVars>>

(* Mutant: recovered tests start with a new repair budget.                 *)
MutantFreshBudget(s) == [s EXCEPT !.status = "awaiting-review", !.fix = 0]

(* Mutant: interrupted tests are not recovered.                            *)
MutantStillTesting(s) == s

Untested(s) == With(s, "awaiting-review")

Initialize ==
  /\ At(Boot, "initialize")
  /\ CASE file.status = "testing" ->
             SaveAndEvent(Boot, Untested(file),
                          IF AutoVerify /\ file.diff # 0 THEN "verify" ELSE "idle")
       [] file.status \in {"preparing", "running"} ->
             SaveAndEvent(Boot, With(file, "paused"),
                          IF AutoResume /\ tree # Gone THEN "recover" ELSE "idle")
       [] OTHER -> Leave(Boot)
  /\ UNCHANGED <<file, processVars, diskVars, epoch, down, historyVars>>

-----------------------------------------------------------------------------
RequestStep(a) ==
  \/ Refused(a) \/ Create(a) \/ ContinueTask(a) \/ Resume(a)
  \/ Reproduce(a) \/ CancelTests(a) \/ Checkpoint(a)
  \/ \E c \in Contents : Restore(a, c)
  \/ \E g \in Gates \ {"tests"}, r \in {"passed", "failed"} : GateRun(a, g, r)
  \/ Apply(a) \/ Reject(a) \/ RemoveWorktree(a) \/ Revert(a)
  \/ Cancel(a) \/ Pause(a) \/ Kill(a, "idle") \/ Kill(a, "drain")
  \/ Dispose(a) \/ DisposeLoads(a) \/ DisposePauses(a) \/ DisposeDrains(a)
  \/ Disposed(a)

(* What requests, finalisers and initialize() share.                       *)
SharedStep(a) ==
  \/ AddEvent(a) \/ Store(a) \/ Tests(a) \/ Accept(a) \/ Repair(a)
  \/ \E outcome \in Outcomes(a) : GatesRun(a, outcome)
  \/ \E p \in DOMAIN Starts : \/ Launch(a, p)
                               \/ \E w \in Workers : Spawn(a, w, p)

WorkerStep(w) ==
  \/ LineSaved(w) \/ Finish(w) \/ FinishFailed(w) \/ FinishCaptured(w)
  \/ FinishHalfCaptured(w) \/ Settle(w)

ManagerStep ==
  \/ Write \/ Initialize
  \/ \E a \in Actors : SharedStep(a)
  \/ \E a \in Requests : RequestStep(a)
  \/ \E w \in Workers : WorkerStep(w)

Next ==
  \/ ManagerStep
  \/ \E a \in Requests, op \in Operations \ {"line"} : Request(a, op)
  \/ \E w \in Workers : \/ Line(w) \/ \E c \in Contents : Edit(w, c)
                         \/ \E end \in {"ok", "failed"} : Exit(w, end)
  \/ Restart

Spec == Init /\ [][Next]_vars

(* Every await returns, and a worker process ends: its turn is bounded.    *)
FairSpec ==
  /\ Spec
  /\ WF_vars(Write) /\ WF_vars(Initialize)
  /\ \A a \in Actors : WF_vars(SharedStep(a))
  /\ \A a \in Requests : WF_vars(RequestStep(a))
  /\ \A w \in Workers : /\ WF_vars(WorkerStep(w))
                         /\ WF_vars(\E end \in {"ok", "failed"} : Exit(w, end))

-----------------------------------------------------------------------------
(* Docs: Apply needs the exact reviewed patch hash and the green gates     *)
(* (src/docs/native-ai.md:57, :158).  What apply() puts into the workspace *)
(* is the content whose hash the request named, and every gate passed last  *)
(* on a worktree with that content.                                         *)
AppliedWasVerified ==
  [][workspace' \notin {0, workspace} =>
       /\ \E a \in Requests : At(a, "apply") /\ act[a].copy.diff = workspace'
       /\ \A g \in Gates : passedOn[g] = workspace']_vars

(* One worker process per worktree: startWorker() refuses while one is      *)
(* registered, and whoever ends a turn leaves no unregistered one behind.   *)
(* Stopping or pausing terminates it (native-ai.md:65): at rest no session  *)
(* that is not at work has a worker, and dispose() returns after the        *)
(* lifecycles, so that neither a worker nor a finaliser is left to write    *)
(* into the stopped daemon's store.                                         *)
OneWorker ==
  /\ \A v, w \in Workers : Running(v) /\ Running(w) => v = w
  /\ \/ Calm /\ file.status \in {"cancelled", "paused", "rejected", "applied",
                                   "awaiting-review"}
     \/ down
     => \A w \in Workers : worker[w] = "free"

(* At rest the retained patch, if any, is the one the session's diff        *)
(* describes, also when a crash came between the patch file and the save;   *)
(* and a session that can be continued, reviewed or resumed has its         *)
(* worktree: apply() and reject() save first and remove it afterwards.      *)
ReviewIntact ==
  Calm =>
    /\ file.diff # 0 => patch \in {0, file.diff}
    /\ file.status \in {"awaiting-review", "failed", "paused", "running"} => tree # Gone

(* At rest the session says applied exactly while the workspace is patched. *)
(* A crash between git apply and the save breaks this, as the code stands.  *)
AppliedOnDisk == Calm /\ epoch = 0 => (workspace # 0 <=> file.status = "applied")

(* The repairs started since the last message stay within the budget,       *)
(* whatever is resumed, restarted or restored in between.                   *)
RepairBudget == repairs <= MaxFix

(* A session at work stops being at work: its worker ends, its tests get a  *)
(* verdict, and a restart recovers it.                                      *)
Busy == file.status \in {"preparing", "running", "testing"}
Settles == Busy ~> ~Busy
=============================================================================
