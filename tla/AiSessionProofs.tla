---------------------------- MODULE AiSessionProofs ----------------------------
(***************************************************************************)
(* Proofs about AiSession, for every number of contents, gates, workers    *)
(* and restarts.                                                           *)
(*                                                                         *)
(* The type invariant holds of every instance.  The other theorems are     *)
(* about a manager whose requests come one at a time, save those that may  *)
(* always come (cancel, pause, cancelTests, dispose), and, but for the     *)
(* last, whose sessions a user verifies (Manual): two overlapping resumes  *)
(* start two workers, and two overlapping calls save over each other.      *)
(*                                                                         *)
(* WorkerInv    who owns the worktree: whoever works on the session, the   *)
(*              request, the finaliser or the recovery, is the only one,   *)
(*              and every live worker but one that was told to stop is     *)
(*              the one in the manager's map.                              *)
(* AppliedInv   "applied" in any copy of the session, and what the         *)
(*              workspace then holds, until the first crash.               *)
(* RetainedInv  while a diff is kept, patch file, worktree and the copies  *)
(*              of the session speak of the same content.                  *)
(* VerifiedInv  a gate that is marked as passed in a copy last passed on   *)
(*              the diff of that copy.                                     *)
(* BudgetInv    a repair of an autonomous session is counted in the file   *)
(*              before its worker starts, and the one call that holds the  *)
(*              session holds the file as it is.                           *)
(*                                                                         *)
(* RetainedInv and VerifiedInv leave restoreCheckpoint out: a crash after  *)
(* it wrote tree and patch and before it saved the session breaks them.    *)
(***************************************************************************)
EXTENDS AiSession, SequenceTheorems, TLAPS

Statuses ==
  {"none", "preparing", "running", "paused", "failed", "testing",
   "awaiting-review", "applied", "rejected", "reverted", "cancelled"}
Results == {"pending", "passed", "failed"}
Sessions ==
  [status : Statuses, diff : Contents, quality : [Gates -> Results],
   fix : Nat, checkpoints : SUBSET Contents]
Points ==
  {"create", "continue", "runTests", "reproduce", "semanticReview",
   "cancelTests", "checkpoint", "restoreCheckpoint", "apply", "reject",
   "revert", "cancel", "pause", "resume", "dispose", "line",
   "idle", "start", "repair", "recover", "spawn", "spawnRepair",
   "spawnRecovered", "verify", "gates", "again", "accept", "command",
   "store", "remove", "kill", "killOnExit", "load", "hold", "drain",
   "drained", "ok", "failed", "settle", "initialize"}
Calls == [at : Points, copy : Sessions, event : BOOLEAN]
Conditions == {"free", "alive", "killed", "ok", "failed"}

TypeOK ==
  /\ file \in Sessions /\ queue \in Seq(Actors \X Sessions)
  /\ act \in [Actors -> Calls]
  /\ worker \in [Workers -> Conditions]
  /\ map \in 0..MaxWorkers /\ life \in 0..MaxWorkers
  /\ controller \in Actors \cup {Nobody} /\ aborted \in SUBSET Actors
  /\ target \in [Actors -> 0..MaxWorkers]
  /\ tree \in 0..(K + 1) /\ patch \in Contents /\ workspace \in Contents
  /\ epoch \in Nat /\ down \in BOOLEAN
  /\ passedOn \in [Gates -> 0..(K + 1)] /\ repairs \in Nat

-----------------------------------------------------------------------------
(***************************************************************************)
(* The copies of the session.                                              *)
(***************************************************************************)
Call(p, s, v) == [at |-> p, copy |-> s, event |-> v]

LEMMA ActorsAre ==
  /\ Boot \in Actors /\ Stop \in Actors /\ Requests \subseteq Actors
  /\ \A w \in Workers : Owner(w) \in Actors
BY DEF Actors, Requests

LEMMA CallIs ==
  ASSUME NEW p \in Points, NEW s \in Sessions, NEW v \in BOOLEAN
  PROVE  /\ Call(p, s, v) \in Calls
         /\ Call(p, s, v).at = p /\ Call(p, s, v).copy = s /\ Call(p, s, v).event = v
BY DEF Call, Calls

LEMMA SessionIs ==
  ASSUME NEW st \in Statuses
  PROVE  /\ Session(st) \in Sessions
         /\ Session(st).status = st /\ Session(st).diff = 0
         /\ Session(st).quality = Unchecked
BY SessionAssumption DEF Session, Sessions, Unchecked, Results, Contents

LEMMA IdleIs ==
  /\ Idle \in Calls /\ Idle = Call("idle", Session("none"), FALSE)
  /\ Idle.at = "idle" /\ Idle.copy = Session("none") /\ Idle.event = FALSE
  /\ Session("none") \in Sessions
<1>1. "none" \in Statuses /\ "idle" \in Points
  BY DEF Statuses, Points
<1>2. Session("none") \in Sessions
  BY <1>1, SessionIs
<1>3. Idle = Call("idle", Session("none"), FALSE)
  BY DEF Idle, Call
<1>. QED BY <1>1, <1>2, <1>3, CallIs

LEMMA WithIs ==
  ASSUME NEW s \in Sessions, NEW st \in Statuses
  PROVE  /\ With(s, st) \in Sessions
         /\ With(s, st).status = st /\ With(s, st).diff = s.diff
         /\ With(s, st).quality = s.quality
BY DEF With, Sessions

LEMMA MarkedIs ==
  ASSUME NEW s \in Sessions, NEW g \in Gates, NEW r \in Results
  PROVE  /\ Marked(s, g, r) \in Sessions
         /\ Marked(s, g, r).status = s.status /\ Marked(s, g, r).diff = s.diff
         /\ Marked(s, g, r).quality = [s.quality EXCEPT ![g] = r]
BY DEF Marked, Sessions

LEMMA CapturedIs ==
  ASSUME NEW s \in Sessions, NEW c \in Contents
  PROVE  /\ Captured(s, c) \in Sessions
         /\ Captured(s, c).status = s.status /\ Captured(s, c).diff = c
         /\ Captured(s, c).quality = Unchecked
BY DEF Captured, Sessions, Unchecked, Results

-----------------------------------------------------------------------------
(***************************************************************************)
(* Every step of a call changes that call to e, and saves its copy or not. *)
(***************************************************************************)
Move(a, e, saved) ==
  /\ act' = [act EXCEPT ![a] = e]
  /\ queue' = IF saved THEN Append(queue, <<a, e.copy>>) ELSE queue

Changed(c, p, s, v) == [c EXCEPT !.at = p, !.copy = s, !.event = v]

LEMMA Replaced ==
  ASSUME NEW c \in Calls, NEW p \in Points, NEW s \in Sessions, NEW v \in BOOLEAN
  PROVE  Changed(c, p, s, v) = Call(p, s, v)
<1>. DEFINE e == [c EXCEPT !.at = p, !.copy = s, !.event = v]
<1>1. e \in Calls
  BY DEF Calls
<1>2. e.at = p /\ e.copy = s /\ e.event = v
  BY DEF Calls
<1>. HIDE DEF e
<1>3. e = Call(p, s, v)
  BY <1>1, <1>2 DEF Call, Calls
<1>. QED BY <1>3 DEF e, Changed

LEMMA Continues ==
  ASSUME TypeOK, NEW a \in Actors, NEW s \in Sessions, NEW p \in Points,
         NEW v \in BOOLEAN, Continue(a, s, p, v)
  PROVE  act' = [act EXCEPT ![a] = Call(p, s, v)]
<1>1. PICK c \in Calls : c = act[a]
  BY DEF TypeOK
<1>2. Changed(c, p, s, v) = Call(p, s, v)
  BY Replaced, Zenon
<1>3. act' = [act EXCEPT ![a] = Changed(c, p, s, v)]
  BY <1>1, Zenon DEF Continue, Changed
<1>. QED BY <1>2, <1>3, Zenon

LEMMA Moves ==
  ASSUME TypeOK, NEW a \in Actors, NEW s \in Sessions, NEW p \in Points
  PROVE  /\ Save(a, s, p) => Move(a, Call(p, s, FALSE), TRUE)
         /\ SaveAndEvent(a, s, p) => Move(a, Call(p, s, TRUE), TRUE)
         /\ EventOnly(a, s, p) => Move(a, Call(p, s, TRUE), FALSE)
         /\ Await(a, s, p) => Move(a, Call(p, s, FALSE), FALSE)
         /\ Leave(a) => Move(a, Idle, FALSE)
<1>1. Call(p, s, FALSE).copy = s /\ Call(p, s, TRUE).copy = s
  BY CallIs
<1>2. Save(a, s, p) => Move(a, Call(p, s, FALSE), TRUE)
  BY <1>1, Continues DEF Save, Move
<1>3. SaveAndEvent(a, s, p) => Move(a, Call(p, s, TRUE), TRUE)
  BY <1>1, Continues DEF SaveAndEvent, Move
<1>4. EventOnly(a, s, p) => Move(a, Call(p, s, TRUE), FALSE)
  BY <1>1, Continues DEF EventOnly, Move
<1>5. Await(a, s, p) => Move(a, Call(p, s, FALSE), FALSE)
  BY <1>1, Continues DEF Await, Move
<1>6. Leave(a) => Move(a, Idle, FALSE)
  BY DEF Leave, Move
<1>. QED BY <1>2, <1>3, <1>4, <1>5, <1>6

LEMMA MoveTypes ==
  ASSUME TypeOK, NEW a \in Actors, NEW e \in Calls, NEW saved \in BOOLEAN,
         Move(a, e, saved)
  PROVE  act' \in [Actors -> Calls] /\ queue' \in Seq(Actors \X Sessions)
<1>1. e.copy \in Sessions
  BY DEF Calls
<1>2. Append(queue, <<a, e.copy>>) \in Seq(Actors \X Sessions)
  BY <1>1 DEF TypeOK
<1>. QED BY <1>2 DEF TypeOK, Move

LEMMA CallTypes ==
  ASSUME TypeOK, NEW a \in Actors, NEW s \in Sessions, NEW p \in Points
  PROVE  Save(a, s, p) \/ SaveAndEvent(a, s, p) \/ EventOnly(a, s, p)
           \/ Await(a, s, p) \/ Leave(a)
           => act' \in [Actors -> Calls] /\ queue' \in Seq(Actors \X Sessions)
<1>1. /\ Call(p, s, FALSE) \in Calls /\ Call(p, s, TRUE) \in Calls /\ Idle \in Calls
      /\ TRUE \in BOOLEAN /\ FALSE \in BOOLEAN
  BY CallIs, IdleIs
<1>. QED BY <1>1, Moves, MoveTypes, Zenon

LEMMA CopyTypes ==
  ASSUME TypeOK, NEW a \in Actors
  PROVE  /\ act[a].copy \in Sessions /\ act[a].at \in Points
         /\ act[a].event \in BOOLEAN /\ act[a] \in Calls
BY DEF TypeOK, Calls

LEMMA RestTypes == \A a \in Actors : Rest(a) \in {"settle", "idle"}
BY DEF Rest

(* The changes of a copy that have no name in the model.                   *)
Continued(s) == [s EXCEPT !.diff = 0, !.fix = 0]
Repaired(s) == [s EXCEPT !.fix = @ + 1]
Kept(s, C) == [s EXCEPT !.checkpoints = @ \cup C]
HalfCaptured(s, c) == [s EXCEPT !.diff = c]

LEMMA ContinuedIs ==
  ASSUME NEW s \in Sessions
  PROVE  /\ Continued(s) \in Sessions
         /\ Continued(s).status = s.status /\ Continued(s).diff = 0
<1>1. 0 \in Contents /\ 0 \in Nat
  BY SessionAssumption DEF Contents
<1>2. Continued(s) \in Sessions
  BY <1>1 DEF Continued, Sessions
<1>3. Continued(s).status = s.status /\ Continued(s).diff = 0
  BY DEF Continued, Sessions
<1>. QED BY <1>2, <1>3

LEMMA RepairedIs ==
  ASSUME NEW s \in Sessions
  PROVE  Repaired(s) \in Sessions
BY DEF Repaired, Sessions

LEMMA KeptIs ==
  ASSUME NEW s \in Sessions, NEW C \in SUBSET Contents
  PROVE  /\ Kept(s, C) \in Sessions
         /\ Kept(s, C).status = s.status /\ Kept(s, C).diff = s.diff
         /\ Kept(s, C).quality = s.quality
BY DEF Kept, Sessions

LEMMA HalfCapturedIs ==
  ASSUME NEW s \in Sessions, NEW c \in Contents
  PROVE  /\ HalfCaptured(s, c) \in Sessions
         /\ HalfCaptured(s, c).status = s.status /\ HalfCaptured(s, c).diff = c
BY DEF HalfCaptured, Sessions

-----------------------------------------------------------------------------
(***************************************************************************)
(* Types.                                                                  *)
(***************************************************************************)
CallsOK == act \in [Actors -> Calls] /\ queue \in Seq(Actors \X Sessions)
RestOK ==
  /\ file \in Sessions
  /\ worker \in [Workers -> Conditions]
  /\ map \in 0..MaxWorkers /\ life \in 0..MaxWorkers
  /\ controller \in Actors \cup {Nobody} /\ aborted \in SUBSET Actors
  /\ target \in [Actors -> 0..MaxWorkers]
  /\ tree \in 0..(K + 1) /\ patch \in Contents /\ workspace \in Contents
  /\ epoch \in Nat /\ down \in BOOLEAN
  /\ passedOn \in [Gates -> 0..(K + 1)] /\ repairs \in Nat

LEMMA TypeParts == TypeOK <=> CallsOK /\ RestOK
BY DEF TypeOK, CallsOK, RestOK

LEMMA TypePartsNext == TypeOK' <=> CallsOK' /\ RestOK'
BY DEF TypeOK, CallsOK, RestOK

LEMMA Initially == Init => TypeOK
<1>. SUFFICES ASSUME Init PROVE TypeOK
  OBVIOUS
<1>1. Session("none") \in Sessions /\ Idle \in Calls
  BY IdleIs
<1>2. CallsOK
  BY <1>1 DEF Init, CallsOK
<1>3. worker \in [Workers -> Conditions]
  BY DEF Init, Conditions
<1>4. target \in [Actors -> 0..MaxWorkers] /\ map \in 0..MaxWorkers /\ life \in 0..MaxWorkers
  BY SessionAssumption DEF Init
<1>5. /\ tree \in 0..(K + 1) /\ patch \in Contents /\ workspace \in Contents
      /\ passedOn \in [Gates -> 0..(K + 1)]
  BY SessionAssumption DEF Init, Contents, Gone
<1>6. RestOK
  BY <1>1, <1>3, <1>4, <1>5 DEF Init, RestOK
<1>. QED BY <1>2, <1>6, TypeParts

LEMMA RequestTypes ==
  ASSUME TypeOK, NEW a \in Requests, NEW op \in Operations \ {"line"}, Request(a, op)
  PROVE  TypeOK'
<1>1. op \in Points
  BY SessionAssumption DEF Points, Names
<1>2. a \in Actors /\ file \in Sessions
  BY ActorsAre DEF TypeOK
<1>3. CallsOK'
  BY <1>1, <1>2, CallTypes DEF Request, CallsOK
<1>4. RestOK'
  BY DEF Request, RestOK, TypeOK, processVars, diskVars, historyVars
<1>. QED BY <1>3, <1>4, TypePartsNext

(* What leaves everything but the calls, the patch and the budget alone.   *)
LEMMA FrameTypes ==
  ASSUME TypeOK, CallsOK',
         file' \in Sessions,
         UNCHANGED <<worker, map, life, controller, aborted, target, workspace,
                     epoch, down, passedOn>>,
         tree' \in 0..(K + 1), patch' \in Contents, repairs' \in Nat
  PROVE  TypeOK'
<1>1. RestOK'
  BY DEF TypeOK, RestOK
<1>. QED BY <1>1, TypePartsNext

LEMMA LaunchingTypes ==
  ASSUME TypeOK, NEW a \in Requests, Create(a) \/ ContinueTask(a) \/ Resume(a)
  PROVE  TypeOK'
<1>0. a \in Actors /\ act[a].copy \in Sessions
  BY ActorsAre, CopyTypes
<1>1. 0 \in 0..(K + 1) /\ 0 \in Contents /\ 0 \in Nat
  BY SessionAssumption DEF Contents
<1>2. ASSUME Create(a) PROVE TypeOK'
  <2>1. SaveAndEvent(a, Session("preparing"), "start")
    BY <1>2 DEF Create
  <2>2. Session("preparing") \in Sessions /\ "start" \in Points
    BY SessionIs DEF Statuses, Points
  <2>3. CallsOK'
    BY <1>0, <2>1, <2>2, CallTypes DEF CallsOK
  <2>. QED BY <1>1, <1>2, <2>3, FrameTypes DEF Create, processVars, historyVars, TypeOK
<1>3. ASSUME ContinueTask(a) PROVE TypeOK'
  <2>1. SaveAndEvent(a, Continued(act[a].copy), "start")
    BY <1>3, Zenon DEF ContinueTask, Continued
  <2>2. Continued(act[a].copy) \in Sessions /\ "start" \in Points
    BY <1>0, ContinuedIs DEF Points
  <2>3. CallsOK'
    BY <1>0, <2>1, <2>2, CallTypes DEF CallsOK
  <2>. QED BY <1>1, <1>3, <2>3, FrameTypes DEF ContinueTask, processVars, TypeOK
<1>4. ASSUME Resume(a) PROVE TypeOK'
  <2>1. \/ SaveAndEvent(a, With(act[a].copy, "awaiting-review"), "idle")
        \/ EventOnly(a, act[a].copy, "start")
    BY <1>4 DEF Resume
  <2>2. /\ With(act[a].copy, "awaiting-review") \in Sessions
        /\ "start" \in Points /\ "idle" \in Points
    BY <1>0, WithIs DEF Points, Statuses
  <2>3. CallsOK'
    BY <1>0, <2>1, <2>2, CallTypes DEF CallsOK
  <2>. QED
    BY <1>4, <2>3, FrameTypes DEF Resume, processVars, diskVars, historyVars, TypeOK
<1>. QED BY <1>2, <1>3, <1>4

LEMMA StartsIn ==
  ASSUME NEW p \in DOMAIN Starts
  PROVE  p \in {"start", "repair", "recover"} /\ p \in Points /\ Starts[p] \in Points
BY DEF Starts, Points

LEMMA LaunchTypes ==
  ASSUME TypeOK, NEW a \in Actors, NEW p \in DOMAIN Starts, Launch(a, p)
  PROVE  TypeOK'
<1>0. act[a].copy \in Sessions /\ Starts[p] \in Points
  BY CopyTypes, StartsIn
<1>1. \/ Save(a, With(act[a].copy, "running"), Starts[p])
      \/ Leave(a)
      \/ SaveAndEvent(a, With(act[a].copy, "failed"), Rest(a))
  BY DEF Launch
<1>2. /\ With(act[a].copy, "running") \in Sessions
      /\ With(act[a].copy, "failed") \in Sessions
      /\ Rest(a) \in Points
  BY <1>0, WithIs, RestTypes DEF Points, Statuses
<1>3. CallsOK'
  BY <1>0, <1>1, <1>2, CallTypes DEF CallsOK
<1>. QED BY <1>3, FrameTypes DEF Launch, processVars, diskVars, historyVars, TypeOK

LEMMA SpawnTypes ==
  ASSUME TypeOK, NEW a \in Actors, NEW p \in DOMAIN Starts, NEW w \in Workers,
         Spawn(a, w, p)
  PROVE  TypeOK'
<1>0. act[a].copy \in Sessions /\ "idle" \in Points /\ "settle" \in Points
  BY CopyTypes DEF Points
<1>1. EventOnly(a, act[a].copy, "idle") \/ Await(a, act[a].copy, "settle") \/ Leave(a)
  BY DEF Spawn
<1>2. CallsOK'
  BY <1>0, <1>1, CallTypes DEF CallsOK
<1>3. worker' \in [Workers -> Conditions] /\ map' \in 0..MaxWorkers /\ life' \in 0..MaxWorkers
  <2>1. w \in 0..MaxWorkers /\ "alive" \in Conditions
    BY SessionAssumption DEF Workers, Conditions
  <2>. QED BY <2>1 DEF Spawn, TypeOK
<1>4. repairs' \in Nat
  BY DEF Spawn, TypeOK
<1>5. RestOK'
  BY <1>3, <1>4 DEF Spawn, RestOK, TypeOK, diskVars
<1>. QED BY <1>2, <1>5, TypePartsNext

LEMMA GateTypes ==
  ASSUME TypeOK, NEW a \in Actors,
         \/ Tests(a)
         \/ \E outcome \in Outcomes(a) : GatesRun(a, outcome)
         \/ Accept(a) \/ Repair(a)
         \/ \E g \in Gates \ {"tests"}, r \in {"passed", "failed"} : GateRun(a, g, r)
  PROVE  TypeOK'
<1>0. /\ act[a].copy \in Sessions
      /\ {"gates", "idle", "again", "accept", "repair"} \subseteq Points
      /\ Rest(a) \in Points
  BY CopyTypes, RestTypes DEF Points
<1>1. \A st \in {"testing", "awaiting-review"} : With(act[a].copy, st) \in Sessions
  BY <1>0, WithIs DEF Statuses
<1>2. ASSUME Tests(a) PROVE TypeOK'
  <2>1. SaveAndEvent(a, With(act[a].copy, "testing"), "gates")
    BY <1>2 DEF Tests
  <2>2. CallsOK'
    BY <1>0, <1>1, <2>1, CallTypes DEF CallsOK
  <2>3. RestOK'
    BY <1>2 DEF Tests, RestOK, TypeOK, diskVars, historyVars
  <2>. QED BY <2>2, <2>3, TypePartsNext
<1>3. ASSUME NEW g \in Gates, NEW r \in {"passed", "failed", "cancelled", "partial"},
             Passed(g, r)
      PROVE  passedOn' \in [Gates -> 0..(K + 1)]
  BY <1>3 DEF Passed, TypeOK
<1>4. ASSUME NEW outcome \in Outcomes(a), GatesRun(a, outcome) PROVE TypeOK'
  <2>1. outcome \in {"passed", "failed", "cancelled", "partial"} /\ "tests" \in Gates
    BY SessionAssumption DEF Outcomes
  <2>2. PICK s \in Sessions : s = Marked(act[a].copy, "tests", TestsStatus(outcome))
    <3>1. TestsStatus(outcome) \in Results
      BY DEF TestsStatus, Results
    <3>. QED BY <1>0, <2>1, <3>1, MarkedIs
  <2>3. SaveAndEvent(a, IF a \in Requests THEN With(s, "awaiting-review") ELSE s,
                     Verdict(a, outcome))
    BY <1>4, <2>2 DEF GatesRun
  <2>4. (IF a \in Requests THEN With(s, "awaiting-review") ELSE s) \in Sessions
    BY WithIs DEF Statuses
  <2>5. Verdict(a, outcome) \in Points
    BY <1>0 DEF Verdict
  <2>6. CallsOK'
    BY <2>3, <2>4, <2>5, CallTypes DEF CallsOK
  <2>7. passedOn' \in [Gates -> 0..(K + 1)]
    BY <1>3, <1>4, <2>1 DEF GatesRun
  <2>8. RestOK'
    BY <1>4, <2>7 DEF GatesRun, RestOK, TypeOK, diskVars
  <2>. QED BY <2>6, <2>8, TypePartsNext
<1>5. ASSUME Accept(a) PROVE TypeOK'
  <2>1. SaveAndEvent(a, With(act[a].copy, "awaiting-review"), Rest(a))
    BY <1>5 DEF Accept
  <2>2. CallsOK'
    BY <1>0, <1>1, <2>1, CallTypes DEF CallsOK
  <2>. QED
    BY <1>5, <2>2, FrameTypes DEF Accept, processVars, diskVars, historyVars, TypeOK
<1>6. ASSUME Repair(a) PROVE TypeOK'
  <2>1. SaveAndEvent(a, Repaired(act[a].copy), "repair")
    BY <1>6, Zenon DEF Repair, Repaired
  <2>2. CallsOK'
    BY <1>0, <2>1, RepairedIs, CallTypes DEF CallsOK
  <2>. QED
    BY <1>6, <2>2, FrameTypes DEF Repair, processVars, diskVars, historyVars, TypeOK
<1>7. ASSUME NEW g \in Gates \ {"tests"}, NEW r \in {"passed", "failed"}, GateRun(a, g, r)
      PROVE  TypeOK'
  <2>1. SaveAndEvent(a, Marked(act[a].copy, g, r), "idle")
    BY <1>7 DEF GateRun
  <2>2. Marked(act[a].copy, g, r) \in Sessions
    BY <1>0, MarkedIs DEF Results
  <2>3. CallsOK'
    BY <1>0, <2>1, <2>2, CallTypes DEF CallsOK
  <2>4. passedOn' \in [Gates -> 0..(K + 1)]
    BY <1>3, <1>7 DEF GateRun
  <2>5. RestOK'
    BY <1>7, <2>4 DEF GateRun, RestOK, TypeOK, processVars, diskVars
  <2>. QED BY <2>3, <2>5, TypePartsNext
<1>. QED BY <1>2, <1>4, <1>5, <1>6, <1>7, Zenon

LEMMA ReviewTypes ==
  ASSUME TypeOK, NEW a \in Requests,
         \/ Refused(a) \/ Reproduce(a) \/ Checkpoint(a)
         \/ \E c \in Contents : Restore(a, c)
         \/ Apply(a) \/ Reject(a) \/ RemoveWorktree(a) \/ Revert(a)
  PROVE  TypeOK'
<1>0. /\ a \in Actors /\ act[a].copy \in Sessions
      /\ {"command", "idle", "store", "remove"} \subseteq Points
  BY CopyTypes, ActorsAre DEF Points
<1>1. \A st \in {"applied", "rejected", "reverted"} : With(act[a].copy, st) \in Sessions
  BY <1>0, WithIs DEF Statuses
<1>2. ASSUME Refused(a) PROVE TypeOK'
  <2>1. CallsOK'
    BY <1>0, <1>2, CallTypes DEF CallsOK, Refused
  <2>. QED
    BY <1>2, <2>1, FrameTypes DEF Refused, processVars, diskVars, historyVars, TypeOK
<1>3. ASSUME Reproduce(a) PROVE TypeOK'
  <2>1. EventOnly(a, act[a].copy, "command")
    BY <1>3 DEF Reproduce
  <2>2. CallsOK'
    BY <1>0, <2>1, CallTypes DEF CallsOK
  <2>. QED
    BY <1>3, <2>2, FrameTypes DEF Reproduce, processVars, diskVars, historyVars, TypeOK
<1>4. ASSUME Checkpoint(a) PROVE TypeOK'
  <2>1. SaveAndEvent(a, Kept(act[a].copy, {patch} \cap {act[a].copy.diff}), "idle")
    BY <1>4, Zenon DEF Checkpoint, Kept
  <2>2. {patch} \cap {act[a].copy.diff} \in SUBSET Contents
    BY DEF TypeOK
  <2>3. Kept(act[a].copy, {patch} \cap {act[a].copy.diff}) \in Sessions
    BY <1>0, <2>2, KeptIs
  <2>4. CallsOK'
    BY <1>0, <2>1, <2>3, CallTypes DEF CallsOK
  <2>. QED
    BY <1>4, <2>4, FrameTypes DEF Checkpoint, processVars, diskVars, historyVars, TypeOK
<1>5. ASSUME NEW c \in Contents, Restore(a, c) PROVE TypeOK'
  <2>1. Await(a, With(Captured(act[a].copy, c), "awaiting-review"), "store")
    BY <1>5 DEF Restore
  <2>2. With(Captured(act[a].copy, c), "awaiting-review") \in Sessions
    BY <1>0, CapturedIs, WithIs DEF Statuses
  <2>3. CallsOK'
    BY <1>0, <2>1, <2>2, CallTypes DEF CallsOK
  <2>4. c \in 0..(K + 1)
    BY SessionAssumption DEF Contents
  <2>. QED
    BY <1>5, <2>3, <2>4, FrameTypes DEF Restore, processVars, historyVars, TypeOK
<1>6. ASSUME Reject(a) PROVE TypeOK'
  <2>1. SaveAndEvent(a, With(act[a].copy, "rejected"), "remove")
    BY <1>6 DEF Reject
  <2>2. CallsOK'
    BY <1>0, <1>1, <2>1, CallTypes DEF CallsOK
  <2>. QED
    BY <1>6, <2>2, FrameTypes DEF Reject, processVars, diskVars, historyVars, TypeOK
<1>7. ASSUME RemoveWorktree(a) PROVE TypeOK'
  <2>1. CallsOK'
    BY <1>0, <1>7, CallTypes DEF CallsOK, RemoveWorktree
  <2>2. Gone \in 0..(K + 1)
    BY SessionAssumption DEF Gone
  <2>. QED
    BY <1>7, <2>1, <2>2, FrameTypes DEF RemoveWorktree, processVars, historyVars, TypeOK
<1>8. ASSUME Apply(a) \/ Revert(a) PROVE TypeOK'
  <2>1. \E st \in {"applied", "reverted"} : Await(a, With(act[a].copy, st), "store")
    BY <1>8 DEF Apply, Revert
  <2>2. CallsOK'
    BY <1>0, <1>1, <2>1, CallTypes DEF CallsOK
  <2>3. workspace' \in Contents
    BY <1>8, SessionAssumption DEF Apply, Revert, TypeOK, Contents
  <2>4. RestOK'
    BY <1>8, <2>3 DEF Apply, Revert, RestOK, TypeOK, processVars, historyVars
  <2>. QED BY <2>2, <2>4, TypePartsNext
<1>. QED BY <1>2, <1>3, <1>4, <1>5, <1>6, <1>7, <1>8, Zenon

LEMMA StopTypes ==
  ASSUME TypeOK, NEW a \in Requests,
         \/ CancelTests(a) \/ Cancel(a) \/ Pause(a) \/ Kill(a, "idle") \/ Kill(a, "drain")
         \/ Dispose(a) \/ DisposeLoads(a) \/ DisposePauses(a) \/ DisposeDrains(a)
         \/ Disposed(a)
  PROVE  TypeOK'
<1>0. /\ a \in Actors /\ act[a].copy \in Sessions /\ file \in Sessions
      /\ {"kill", "killOnExit", "load", "hold", "drain", "drained"} \subseteq Points
  BY CopyTypes, ActorsAre DEF Points, TypeOK
<1>1. \A st \in {"cancelled", "paused"} : With(act[a].copy, st) \in Sessions
  BY <1>0, WithIs DEF Statuses
<1>2. \E s \in Sessions, p \in Points :
        SaveAndEvent(a, s, p) \/ Await(a, s, p) \/ Leave(a)
  <2>1. CASE CancelTests(a) \/ Disposed(a) \/ Kill(a, "idle")
    BY <1>0, <2>1 DEF CancelTests, Disposed, Kill
  <2>2. CASE Cancel(a)
    BY <1>0, <1>1, <2>2 DEF Cancel
  <2>3. CASE Pause(a) \/ DisposePauses(a)
    BY <1>0, <1>1, <2>3 DEF Pause, DisposePauses
  <2>4. CASE Kill(a, "drain")
    BY <1>0, <2>4 DEF Kill
  <2>5. CASE Dispose(a)
    BY <1>0, <2>5 DEF Dispose
  <2>6. CASE DisposeLoads(a) \/ DisposeDrains(a)
    BY <1>0, <2>6 DEF DisposeLoads, DisposeDrains
  <2>. QED BY <2>1, <2>2, <2>3, <2>4, <2>5, <2>6
<1>3. CallsOK'
  BY <1>0, <1>2, CallTypes DEF CallsOK
<1>4. target' \in [Actors -> 0..MaxWorkers]
  <2>1. \E n \in 0..MaxWorkers : target' \in {target, [target EXCEPT ![a] = n]}
    BY SessionAssumption
    DEF CancelTests, Cancel, Pause, Kill, Dispose, DisposeLoads, DisposePauses,
        DisposeDrains, Disposed, TypeOK, processVars
  <2>. QED BY <2>1 DEF TypeOK
<1>5. worker' \in [Workers -> Conditions]
  <2>1. CASE UNCHANGED worker
    BY <2>1 DEF TypeOK
  <2>2. CASE worker' = [worker EXCEPT ![map] = "killed"]
    BY <2>2 DEF TypeOK, Conditions
  <2>. QED
    BY <2>1, <2>2
    DEF CancelTests, Cancel, Pause, Kill, Dispose, DisposeLoads, DisposePauses,
        DisposeDrains, Disposed, processVars
<1>6. controller' \in {controller, Nobody} /\ aborted' \in SUBSET Actors
  BY DEF CancelTests, Cancel, Pause, Kill, Dispose, DisposeLoads, DisposePauses,
         DisposeDrains, Disposed, TypeOK, processVars
<1>7. map' \in {map, 0} /\ down' \in BOOLEAN
  BY DEF CancelTests, Cancel, Pause, Kill, Dispose, DisposeLoads, DisposePauses,
         DisposeDrains, Disposed, TypeOK, processVars
<1>8. UNCHANGED <<file, life, diskVars, epoch, passedOn, repairs>>
  BY DEF CancelTests, Cancel, Pause, Kill, Dispose, DisposeLoads, DisposePauses,
         DisposeDrains, Disposed, processVars, historyVars
<1>9. RestOK'
  BY <1>4, <1>5, <1>6, <1>7, <1>8, SessionAssumption DEF RestOK, TypeOK, diskVars
<1>. QED BY <1>3, <1>9, TypePartsNext

LEMMA WorkerTypes ==
  ASSUME TypeOK, NEW w \in Workers, WorkerStep(w) \/ Line(w)
  PROVE  TypeOK'
<1>0. /\ Owner(w) \in Actors /\ Chain(w).copy \in Sessions /\ file \in Sessions
      /\ {"settle", "idle", "ok", "failed", "store", "line"} \subseteq Points
  BY CopyTypes, ActorsAre DEF Points, TypeOK, Chain
<1>1. \A s \in Sessions, st \in {"failed", "testing", "awaiting-review"} :
        With(s, st) \in Sessions
  BY WithIs DEF Statuses
<1>2. tree # Gone => tree \in Contents
  BY SessionAssumption DEF TypeOK, Contents, Gone
<1>3. \E s \in Sessions, p \in Points :
        \/ SaveAndEvent(Owner(w), s, p) \/ Await(Owner(w), s, p) \/ Leave(Owner(w))
  <2>1. CASE LineSaved(w) \/ Line(w) \/ Settle(w)
    BY <1>0, <2>1 DEF LineSaved, Line, Settle
  <2>2. CASE Finish(w)
    BY <1>0, <2>2 DEF Finish
  <2>3. CASE FinishFailed(w)
    BY <1>0, <1>1, <2>3 DEF FinishFailed
  <2>4. CASE FinishCaptured(w)
    <3>1. Captured(Chain(w).copy, tree) \in Sessions
      BY <1>0, <1>2, <2>4, CapturedIs DEF FinishCaptured
    <3>. QED BY <1>0, <1>1, <2>4, <3>1 DEF FinishCaptured
  <2>5. CASE FinishHalfCaptured(w)
    <3>1. HalfCaptured(Chain(w).copy, tree) \in Sessions
      BY <1>0, <1>2, <2>5, HalfCapturedIs DEF FinishHalfCaptured
    <3>2. Await(Owner(w), With(HalfCaptured(Chain(w).copy, tree), "failed"), "store")
      BY <2>5, Zenon DEF FinishHalfCaptured, HalfCaptured
    <3>. QED BY <1>0, <1>1, <3>1, <3>2
  <2>. QED BY <2>1, <2>2, <2>3, <2>4, <2>5 DEF WorkerStep
<1>4. CallsOK'
  BY <1>0, <1>3, CallTypes DEF CallsOK
<1>5. CASE Settle(w)
  <2>1. worker' \in [Workers -> Conditions]
    BY <1>5 DEF Settle, TypeOK, Conditions
  <2>2. life' \in 0..MaxWorkers /\ target' \in [Actors -> 0..MaxWorkers]
    BY <1>5, SessionAssumption DEF Settle, TypeOK
  <2>3. RestOK'
    BY <1>5, <2>1, <2>2 DEF Settle, RestOK, TypeOK, diskVars, historyVars
  <2>. QED BY <1>4, <2>3, TypePartsNext
<1>6. CASE LineSaved(w) \/ Line(w) \/ Finish(w) \/ FinishFailed(w)
  BY <1>4, <1>6, FrameTypes
  DEF LineSaved, Line, Finish, FinishFailed, processVars, diskVars, historyVars, TypeOK
<1>7. CASE FinishCaptured(w) \/ FinishHalfCaptured(w)
  <2>1. patch' \in Contents /\ UNCHANGED <<file, processVars, tree, workspace, epoch, down, historyVars>>
    BY <1>2, <1>7 DEF FinishCaptured, FinishHalfCaptured
  <2>. QED
    BY <1>4, <2>1, FrameTypes DEF processVars, historyVars, TypeOK
<1>. QED BY <1>5, <1>6, <1>7 DEF WorkerStep

LEMMA QueueIs ==
  ASSUME TypeOK
  PROVE  /\ Len(queue) \in Nat
         /\ \A i \in 1..Len(queue) : /\ queue[i] = <<queue[i][1], queue[i][2]>>
                                     /\ queue[i][1] \in Actors /\ queue[i][2] \in Sessions
         /\ queue # <<>> => /\ Len(queue) \in Nat \ {0} /\ Head(queue) = queue[1]
                            /\ Tail(queue) \in Seq(Actors \X Sessions)
                            /\ Len(Tail(queue)) = Len(queue) - 1
                            /\ \A i \in 1..(Len(queue) - 1) : Tail(queue)[i] = queue[i + 1]
<1>1. queue \in Seq(Actors \X Sessions)
  BY DEF TypeOK
<1>2. ASSUME NEW i \in 1..Len(queue)
      PROVE  /\ queue[i] = <<queue[i][1], queue[i][2]>>
             /\ queue[i][1] \in Actors /\ queue[i][2] \in Sessions
  <2>1. queue[i] \in Actors \X Sessions
    BY <1>1
  <2>. QED BY <2>1
<1>. QED BY <1>1, <1>2

LEMMA ManagerTypes ==
  ASSUME TypeOK,
         \/ Write \/ Initialize \/ Restart
         \/ \E a \in Actors : AddEvent(a) \/ Store(a)
  PROVE  TypeOK'
<1>1. CASE Write
  <2>1. queue # <<>> /\ file' = Head(queue)[2] /\ queue' = Tail(queue)
    BY <1>1 DEF Write
  <2>2. 1 \in 1..Len(queue) /\ Head(queue) = queue[1]
    BY <2>1, QueueIs
  <2>3. file' \in Sessions /\ Head(queue)[1] \in Actors
    BY <2>1, <2>2, QueueIs
  <2>4. act' \in [Actors -> Calls]
    <3>1. PICK b \in Actors : b = Head(queue)[1]
      BY <2>3
    <3>2. act' = [act EXCEPT ![b] = Idle] \/ act' = [act EXCEPT ![b] = act[b]]
      BY <1>1, <3>1 DEF Write
    <3>. QED BY <3>1, <3>2, IdleIs DEF TypeOK
  <2>5. CallsOK'
    BY <2>1, <2>4, QueueIs DEF CallsOK
  <2>. QED
    BY <1>1, <2>3, <2>5, FrameTypes DEF Write, processVars, diskVars, historyVars, TypeOK
<1>2. CASE Initialize
  <2>0. /\ Boot \in Actors /\ file \in Sessions
        /\ {"verify", "idle", "recover"} \subseteq Points
    BY ActorsAre DEF TypeOK, Points
  <2>1. Untested(file) \in Sessions /\ With(file, "paused") \in Sessions
    BY <2>0, WithIs DEF Untested, Statuses
  <2>2. \/ \E p \in {"verify", "idle"} : SaveAndEvent(Boot, Untested(file), p)
        \/ \E p \in {"recover", "idle"} : SaveAndEvent(Boot, With(file, "paused"), p)
        \/ Leave(Boot)
    BY <1>2 DEF Initialize
  <2>3. CallsOK'
    BY <2>0, <2>1, <2>2, CallTypes DEF CallsOK
  <2>. QED
    BY <1>2, <2>3, FrameTypes DEF Initialize, processVars, diskVars, historyVars, TypeOK
<1>3. CASE Restart
  <2>1. [Idle EXCEPT !.at = "initialize"] \in Calls /\ Idle \in Calls
    BY IdleIs DEF Calls, Points
  <2>2. CallsOK'
    BY <1>3, <2>1 DEF Restart, CallsOK
  <2>3. worker' \in [Workers -> Conditions]
    BY <1>3 DEF Restart, Conditions
  <2>4. /\ target' \in [Actors -> 0..MaxWorkers]
        /\ map' \in 0..MaxWorkers /\ life' \in 0..MaxWorkers
    BY <1>3, SessionAssumption DEF Restart
  <2>5. /\ controller' \in Actors \cup {Nobody} /\ aborted' \in SUBSET Actors
        /\ epoch' \in Nat /\ down' \in BOOLEAN
    <3>1. controller' = Nobody /\ aborted' = {} /\ epoch' = epoch + 1 /\ down' = FALSE
      BY <1>3 DEF Restart
    <3>2. epoch' \in Nat
      BY <3>1 DEF TypeOK
    <3>. QED BY <3>1, <3>2, Zenon
  <2>6. RestOK'
    BY <1>3, <2>3, <2>4, <2>5 DEF Restart, RestOK, TypeOK, diskVars, historyVars
  <2>. QED BY <2>2, <2>6, TypePartsNext
<1>4. ASSUME NEW a \in Actors, AddEvent(a) PROVE TypeOK'
  <2>1. CallsOK'
    BY <1>4, CopyTypes, CallTypes DEF AddEvent, CallsOK
  <2>. QED
    BY <1>4, <2>1, FrameTypes DEF AddEvent, processVars, diskVars, historyVars, TypeOK
<1>5. ASSUME NEW a \in Actors, Store(a) PROVE TypeOK'
  <2>1. \E p \in {"remove", "verify", Rest(a)} : SaveAndEvent(a, act[a].copy, p)
    BY <1>5 DEF Store
  <2>2. {"remove", "verify", Rest(a)} \subseteq Points
    BY RestTypes DEF Points
  <2>3. CallsOK'
    BY <2>1, <2>2, CopyTypes, CallTypes DEF CallsOK
  <2>. QED
    BY <1>5, <2>3, FrameTypes DEF Store, processVars, diskVars, historyVars, TypeOK
<1>. QED BY <1>1, <1>2, <1>3, <1>4, <1>5

LEMMA ProcessTypes ==
  ASSUME TypeOK, NEW w \in Workers,
         \/ \E c \in Contents : Edit(w, c)
         \/ \E end \in {"ok", "failed"} : Exit(w, end)
  PROVE  TypeOK'
<1>1. ASSUME NEW c \in Contents, Edit(w, c) PROVE TypeOK'
  <2>1. c \in 0..(K + 1)
    BY SessionAssumption DEF Contents
  <2>2. CallsOK'
    BY <1>1 DEF Edit, CallsOK, TypeOK, storeVars
  <2>. QED
    BY <1>1, <2>1, <2>2, FrameTypes DEF Edit, storeVars, processVars, historyVars, TypeOK
<1>2. ASSUME NEW end \in {"ok", "failed"}, Exit(w, end) PROVE TypeOK'
  <2>1. CallsOK'
    BY <1>2 DEF Exit, CallsOK, TypeOK, storeVars
  <2>2. worker' \in [Workers -> Conditions] /\ map' \in 0..MaxWorkers
    BY <1>2, SessionAssumption DEF Exit, TypeOK, Conditions
  <2>3. RestOK'
    BY <1>2, <2>2 DEF Exit, RestOK, TypeOK, storeVars, diskVars, historyVars
  <2>. QED BY <2>1, <2>3, TypePartsNext
<1>. QED BY <1>1, <1>2

(* Every variable has its type: the session's file and its copies are      *)
(* sessions of StoredAiSession's shape, whatever operations interleave.    *)
THEOREM SessionTypeCorrect == Spec => []TypeOK
<1>1. TypeOK /\ [Next]_vars => TypeOK'
  <2>. SUFFICES ASSUME TypeOK, [Next]_vars PROVE TypeOK'
    OBVIOUS
  <2>1. ASSUME NEW a \in Actors, SharedStep(a) PROVE TypeOK'
    BY <2>1, ManagerTypes, GateTypes, LaunchTypes, SpawnTypes, Zenon DEF SharedStep
  <2>2. ASSUME NEW a \in Requests, RequestStep(a) PROVE TypeOK'
    <3>1. a \in Actors
      BY ActorsAre
    <3>. QED
      BY <2>2, <3>1, LaunchingTypes, ReviewTypes, GateTypes, StopTypes, Zenon DEF RequestStep
  <2>3. CASE ManagerStep
    BY <2>1, <2>2, <2>3, ManagerTypes, WorkerTypes, Zenon DEF ManagerStep
  <2>4. CASE UNCHANGED vars
    BY <2>4 DEF vars, storeVars, processVars, diskVars, historyVars, TypeOK
  <2>5. CASE \E a \in Requests, op \in Operations \ {"line"} : Request(a, op)
    BY <2>5, RequestTypes, Zenon
  <2>6. CASE \E w \in Workers : \/ Line(w) \/ \E c \in Contents : Edit(w, c)
                                \/ \E end \in {"ok", "failed"} : Exit(w, end)
    BY <2>6, WorkerTypes, ProcessTypes, Zenon
  <2>. QED BY <2>3, <2>4, <2>5, <2>6, ManagerTypes, Zenon DEF Next
<1>. QED BY <1>1, Initially, PTL DEF Spec

-----------------------------------------------------------------------------
(***************************************************************************)
(* Reviews made one at a time, with verification by hand: one request, a   *)
(* stop that may come meanwhile, the recovery and the owners of workers.   *)
(***************************************************************************)
Manual == ~Overlap /\ ~AutoVerify
Review == <<"request", 1>>

LaunchPoints ==
  {"create", "continue", "resume", "start", "spawn", "initialize", "recover",
   "spawnRecovered"}
SpawnPoints == {"spawn", "spawnRecovered"}
ReviewPoints ==
  {"idle", "create", "continue", "resume", "start", "spawn", "runTests",
   "reproduce", "semanticReview", "checkpoint", "restoreCheckpoint", "apply",
   "reject", "revert", "gates", "command", "store", "remove"}
StopPoints ==
  {"idle", "cancel", "cancelTests", "pause", "dispose", "kill", "load", "hold",
   "killOnExit", "drain", "drained"}
BootPoints == {"idle", "initialize", "recover", "spawnRecovered"}
OwnerPoints == {"idle", "line", "ok", "failed", "store", "settle"}

(* What a call of each kind may be by itself.                              *)
ProperReview(e) ==
  /\ e.at \in ReviewPoints
  /\ e.event \/ e.at \notin {"idle", "create"} => e.copy.status # "none"
  /\ e.at = "store" => e.copy.status \in {"awaiting-review", "applied", "reverted"}
  /\ e.at = "spawn" => e.copy.status = "running" /\ ~e.event
ProperStop(e) ==
  /\ e.at \in StopPoints
  /\ e.event => e.copy.status # "none"
ProperBoot(e) ==
  /\ e.at \in BootPoints
  /\ e.event => e.copy.status # "none"
  /\ e.at = "spawnRecovered" => e.copy.status = "running" /\ ~e.event
ProperOwner(e) ==
  /\ e.at \in OwnerPoints
  /\ e.event \/ e.at = "line" => e.copy.status # "none"
  /\ e.at = "store" => e.copy.status \in {"awaiting-review", "failed"}
Placed ==
  /\ ProperReview(act[Review]) /\ ProperStop(act[Stop]) /\ ProperBoot(act[Boot])
  /\ \A w \in Workers : ProperOwner(act[Owner(w)])

(* A call has at most one copy in the queue, the one it holds.             *)
OneEntry ==
  /\ \A i \in 1..Len(queue) : /\ queue[i][2] = act[queue[i][1]].copy
                              /\ queue[i][2].status # "none"
  /\ \A i, j \in 1..Len(queue) : queue[i][1] = queue[j][1] => i = j

(* While a call is about to start a worker it is alone, and it starts one  *)
(* only after the file says running.                                       *)
Quiet == \A w \in Workers : worker[w] = "free"
Alone ==
  \A a \in {Review, Boot} : act[a].at \in LaunchPoints =>
    /\ \A b \in Actors \ {a} : act[b] = Idle
    /\ Quiet /\ ~down
Written ==
  \A a \in {Review, Boot} : act[a].at \in SpawnPoints /\ ~Queued(a) =>
    file.status = "running"

(* The registered worker is the one that runs, and has the lifecycle.      *)
Registered ==
  /\ \A w \in Workers : Running(w) => map = w
  /\ map # 0 => map \in Workers /\ Running(map)
Lives == /\ \A w \in Workers : worker[w] # "free" <=> life = w
         /\ life # 0 => life \in Workers
Finishing ==
  \A w \in Workers :
    /\ worker[w] = "free" => act[Owner(w)] = Idle
    /\ act[Owner(w)].at \in {"ok", "failed", "store", "settle"} =>
         worker[w] \in {"ok", "failed"}
AtWork == ~Quiet => act[Review] = Idle /\ file.status # "none"
Draining == /\ act[Stop].at = "drained" => target[Stop] = life
            /\ down => Quiet

(* The session of a worker that is alive is running in the file and in     *)
(* every copy, until a stop is about to kill that worker.                  *)
Alive(w) == worker[w] = "alive"
Working ==
  \A w \in Workers : Alive(w) =>
    /\ act[Stop].at \in {"load", "hold", "kill", "killOnExit"} => target[Stop] = w
    /\ act[Stop].at \notin {"drain", "drained"}
    /\ act[Stop].at \notin {"kill", "killOnExit"} =>
         /\ file.status = "running"
         /\ \A a \in Actors : act[a] = Idle \/ act[a].copy.status = "running"

ProcessInv == Registered /\ Lives /\ Finishing /\ AtWork /\ Draining /\ Working
WorkerInv == Placed /\ OneEntry /\ Alone /\ Written /\ ProcessInv

LEMMA ManualActors ==
  ASSUME Manual
  PROVE  /\ Requests = {Review, Stop}
         /\ Actors = {Review, Stop, Boot} \cup {Owner(w) : w \in Workers}
         /\ Review # Stop /\ Review # Boot /\ Stop # Boot
         /\ \A w \in Workers : Owner(w) \notin {Review, Stop, Boot}
         /\ \A v, w \in Workers : Owner(v) = Owner(w) => v = w
<1>1. Reviews = {Review}
  BY DEF Manual, Reviews, Review
<1>. QED BY <1>1 DEF Requests, Actors, Review, Stop, Boot, Owner

LEMMA MoveIs ==
  ASSUME TypeOK, NEW a \in Actors, NEW e \in Calls, NEW saved \in BOOLEAN,
         Move(a, e, saved), ~Queued(a)
  PROVE  /\ act'[a] = e /\ \A b \in Actors \ {a} : act'[b] = act[b]
         /\ Queued(a)' <=> saved
         /\ \A b \in Actors \ {a} : Queued(b)' <=> Queued(b)
<1>1. act'[a] = e /\ \A b \in Actors \ {a} : act'[b] = act[b]
  BY DEF Move, TypeOK
<1>2. CASE ~saved
  BY <1>1, <1>2 DEF Move, Queued
<1>3. CASE saved
  <2>1. queue' = Append(queue, <<a, e.copy>>) /\ queue \in Seq(Actors \X Sessions)
    BY <1>3 DEF Move, TypeOK
  <2>2. /\ Len(queue') = Len(queue) + 1 /\ Len(queue) \in Nat
        /\ queue'[Len(queue) + 1] = <<a, e.copy>>
        /\ \A i \in 1..Len(queue) : queue'[i] = queue[i]
    BY <2>1
  <2>3. Queued(a)'
    <3>1. Len(queue) + 1 \in 1..Len(queue') /\ queue'[Len(queue) + 1][1] = a
      BY <2>2
    <3>. QED BY <3>1 DEF Queued
  <2>4. ASSUME NEW b \in Actors \ {a} PROVE Queued(b)' <=> Queued(b)
    BY <2>2 DEF Queued
  <2>. QED BY <1>1, <1>3, <2>3, <2>4
<1>. QED BY <1>2, <1>3

LEMMA MoveQueue ==
  ASSUME TypeOK, OneEntry, NEW a \in Actors, NEW e \in Calls, NEW saved \in BOOLEAN,
         Move(a, e, saved), ~Queued(a), saved => e.copy.status # "none"
  PROVE  OneEntry'
<1>a. act'[a] = e /\ \A b \in Actors \ {a} : act'[b] = act[b]
  BY MoveIs, Zenon
<1>b. \A i \in 1..Len(queue) : queue[i][1] \in Actors /\ queue[i][1] # a
  BY QueueIs DEF Queued
<1>0. /\ act'[a] = e /\ \A b \in Actors \ {a} : act'[b] = act[b]
      /\ \A i \in 1..Len(queue) : queue[i][1] \in Actors /\ queue[i][1] # a
  BY <1>a, <1>b
<1>1. CASE ~saved
  BY <1>0, <1>1 DEF Move, OneEntry
<1>2. CASE saved
  <2>1. queue' = Append(queue, <<a, e.copy>>) /\ queue \in Seq(Actors \X Sessions)
    BY <1>2 DEF Move, TypeOK
  <2>2. /\ Len(queue') = Len(queue) + 1 /\ Len(queue) \in Nat
        /\ queue'[Len(queue) + 1] = <<a, e.copy>>
        /\ \A i \in 1..Len(queue) : queue'[i] = queue[i]
    BY <2>1
  <2>3. ASSUME NEW i \in 1..Len(queue')
        PROVE  i \in 1..Len(queue) \/ i = Len(queue) + 1
    BY <2>2
  <2>4. ASSUME NEW i \in 1..Len(queue')
        PROVE  queue'[i][2] = act'[queue'[i][1]].copy /\ queue'[i][2].status # "none"
    BY <1>0, <1>2, <2>2, <2>3 DEF OneEntry
  <2>5. ASSUME NEW i \in 1..Len(queue'), NEW j \in 1..Len(queue'),
               queue'[i][1] = queue'[j][1]
        PROVE  i = j
    BY <1>0, <2>2, <2>3, <2>5 DEF OneEntry
  <2>. QED BY <2>4, <2>5 DEF OneEntry
<1>. QED BY <1>1, <1>2

-----------------------------------------------------------------------------
(***************************************************************************)
(* A step of one call that leaves the worker processes alone.              *)
(***************************************************************************)
LEMMA ReviewMove ==
  ASSUME Manual, TypeOK, WorkerInv, NEW e \in Calls, NEW saved \in BOOLEAN,
         Move(Review, e, saved), ~Queued(Review),
         UNCHANGED <<file, worker, map, life, target, down>>,
         ProperReview(e), saved => e.copy.status # "none",
         Quiet, act[Boot].at \notin LaunchPoints,
         e.at \in LaunchPoints =>
           ~down /\ \A b \in Actors \ {Review} : act[b] = Idle,
         e.at \in SpawnPoints => saved
  PROVE  WorkerInv'
<1>0. /\ Review \in Actors /\ Stop \in Actors /\ Boot \in Actors
      /\ Stop # Review /\ Boot # Review
      /\ \A w \in Workers : Owner(w) \in Actors /\ Owner(w) # Review
  BY ManualActors, ActorsAre
<1>1. act'[Review] = e /\ \A b \in Actors \ {Review} : act'[b] = act[b]
  BY <1>0, MoveIs, Zenon
<1>2. Queued(Review)' <=> saved
  BY <1>0, MoveIs, Zenon
<1>3. OneEntry'
  BY <1>0, MoveQueue, Zenon DEF WorkerInv
<1>4. Placed'
  BY <1>0, <1>1, Zenon DEF WorkerInv, Placed
<1>5. Alone'
  BY <1>0, <1>1, Zenon DEF Alone, Quiet
<1>6. Written'
  BY <1>0, <1>1, <1>2 DEF Written, SpawnPoints, LaunchPoints
<1>7. Registered' /\ Lives'
  BY DEF WorkerInv, ProcessInv, Registered, Lives, Running
<1>8. Finishing'
  BY <1>0, <1>1 DEF WorkerInv, ProcessInv, Finishing
<1>9. AtWork' /\ Draining' /\ Working'
  BY <1>0, <1>1 DEF WorkerInv, ProcessInv, AtWork, Draining, Working, Quiet, Alive
<1>. QED
  BY <1>3, <1>4, <1>5, <1>6, <1>7, <1>8, <1>9 DEF WorkerInv, ProcessInv

LEMMA StopMove ==
  ASSUME Manual, TypeOK, WorkerInv, NEW e \in Calls, NEW saved \in BOOLEAN,
         Move(Stop, e, saved), ~Queued(Stop),
         UNCHANGED <<file, worker, map, life, down>>,
         ProperStop(e), saved => e.copy.status # "none",
         act[Review].at \notin LaunchPoints, act[Boot].at \notin LaunchPoints,
         e.at = "drained" => target'[Stop] = life,
         \A w \in Workers : Alive(w) =>
           /\ e.at \in {"load", "hold", "kill", "killOnExit"} => target'[Stop] = w
           /\ e.at \notin {"drain", "drained"}
           /\ e.at \notin {"kill", "killOnExit"} =>
                /\ act[Stop].at \notin {"kill", "killOnExit"}
                /\ e = Idle \/ e.copy.status = "running"
  PROVE  WorkerInv'
<1>0. /\ Review \in Actors /\ Stop \in Actors /\ Boot \in Actors
      /\ Review # Stop /\ Boot # Stop
      /\ \A w \in Workers : Owner(w) \in Actors /\ Owner(w) # Stop
  BY ManualActors, ActorsAre
<1>1. act'[Stop] = e /\ \A b \in Actors \ {Stop} : act'[b] = act[b]
  BY <1>0, MoveIs, Zenon
<1>3. OneEntry'
  BY <1>0, MoveQueue, Zenon DEF WorkerInv
<1>4. Placed'
  BY <1>0, <1>1, Zenon DEF WorkerInv, Placed
<1>5. Alone'
  BY <1>0, <1>1, Zenon DEF Alone
<1>6. Written'
  BY <1>0, <1>1 DEF Written, SpawnPoints, LaunchPoints
<1>7. Registered' /\ Lives'
  BY DEF WorkerInv, ProcessInv, Registered, Lives, Running
<1>8. Finishing'
  BY <1>0, <1>1 DEF WorkerInv, ProcessInv, Finishing
<1>9. AtWork' /\ Draining'
  BY <1>0, <1>1 DEF WorkerInv, ProcessInv, AtWork, Draining, Quiet
<1>10. Working'
  BY <1>0, <1>1, Zenon DEF WorkerInv, ProcessInv, Working, Alive
<1>. QED
  BY <1>3, <1>4, <1>5, <1>6, <1>7, <1>8, <1>9, <1>10 DEF WorkerInv, ProcessInv

LEMMA BootMove ==
  ASSUME Manual, TypeOK, WorkerInv, NEW e \in Calls, NEW saved \in BOOLEAN,
         Move(Boot, e, saved), ~Queued(Boot), act[Boot] # Idle,
         UNCHANGED <<file, worker, map, life, target, down>>,
         ProperBoot(e), saved => e.copy.status # "none",
         e.at \in LaunchPoints => act[Boot].at \in LaunchPoints,
         e.at \in SpawnPoints => saved,
         ~Quiet => e.copy = act[Boot].copy
  PROVE  WorkerInv'
<1>0. /\ Review \in Actors /\ Stop \in Actors /\ Boot \in Actors
      /\ Review # Boot /\ Stop # Boot
      /\ \A w \in Workers : Owner(w) \in Actors /\ Owner(w) # Boot
  BY ManualActors, ActorsAre
<1>1. act'[Boot] = e /\ \A b \in Actors \ {Boot} : act'[b] = act[b]
  BY <1>0, MoveIs, ZenonT(40)
<1>2. Queued(Boot)' <=> saved
  BY <1>0, MoveIs, Zenon
<1>3. OneEntry'
  BY <1>0, MoveQueue, Zenon DEF WorkerInv
<1>4. Placed'
  BY <1>0, <1>1, Zenon DEF WorkerInv, Placed
<1>5. Alone'
  BY <1>0, <1>1, Zenon DEF WorkerInv, Alone, Quiet
<1>6. Written'
  <2>1. act[Review].at \notin LaunchPoints
    BY <1>0, Zenon DEF WorkerInv, Alone
  <2>. QED BY <1>0, <1>1, <1>2, <2>1 DEF Written, SpawnPoints, LaunchPoints
<1>7. Registered' /\ Lives'
  BY DEF WorkerInv, ProcessInv, Registered, Lives, Running
<1>8. Finishing'
  BY <1>0, <1>1 DEF WorkerInv, ProcessInv, Finishing
<1>9. AtWork' /\ Draining'
  BY <1>0, <1>1 DEF WorkerInv, ProcessInv, AtWork, Draining, Quiet
<1>10. Working'
  <2>1. ASSUME NEW w \in Workers, Alive(w) PROVE ~Quiet
    BY <2>1 DEF Alive, Quiet
  <2>. QED BY <1>0, <1>1, <2>1, ZenonT(40) DEF WorkerInv, ProcessInv, Working, Alive
<1>. QED
  BY <1>3, <1>4, <1>5, <1>6, <1>7, <1>8, <1>9, <1>10 DEF WorkerInv, ProcessInv

LEMMA OwnerMove ==
  ASSUME Manual, TypeOK, WorkerInv, NEW v \in Workers, NEW e \in Calls,
         NEW saved \in BOOLEAN,
         Move(Owner(v), e, saved), ~Queued(Owner(v)),
         UNCHANGED <<file, worker, map, life, target, down>>,
         ProperOwner(e), saved => e.copy.status # "none",
         worker[v] # "free",
         e.at \in {"ok", "failed", "store", "settle"} => worker[v] \in {"ok", "failed"},
         e = Idle \/ e.copy = act[Owner(v)].copy \/ e.copy = file
           \/ worker[v] \in {"ok", "failed"},
         \/ worker[v] \in {"ok", "failed"}
         \/ e.copy = act[Owner(v)].copy => act[Owner(v)] # Idle
  PROVE  WorkerInv'
<1>0. /\ Review \in Actors /\ Stop \in Actors /\ Boot \in Actors
      /\ Owner(v) \in Actors /\ Review # Owner(v) /\ Stop # Owner(v) /\ Boot # Owner(v)
      /\ \A w \in Workers \ {v} : Owner(w) \in Actors /\ Owner(w) # Owner(v)
  BY ManualActors, ActorsAre
<1>1. act'[Owner(v)] = e /\ \A b \in Actors \ {Owner(v)} : act'[b] = act[b]
  <2>. DEFINE a == Owner(v)
  <2>1. a \in Actors /\ Move(a, e, saved) /\ ~Queued(a)
    BY <1>0
  <2>. HIDE DEF a
  <2>2. act'[a] = e /\ \A b \in Actors \ {a} : act'[b] = act[b]
    BY <2>1, MoveIs, Zenon
  <2>. QED BY <2>2 DEF a
<1>3. OneEntry'
  BY <1>0, MoveQueue, Zenon DEF WorkerInv
<1>4. Placed'
  BY <1>0, <1>1, Zenon DEF WorkerInv, Placed
<1>5. act[Review].at \notin LaunchPoints /\ act[Boot].at \notin LaunchPoints
  BY Zenon DEF WorkerInv, Alone, Quiet
<1>6. Alone' /\ Written'
  BY <1>0, <1>1, <1>5 DEF Alone, Written, SpawnPoints, LaunchPoints
<1>7. Registered' /\ Lives'
  BY DEF WorkerInv, ProcessInv, Registered, Lives, Running
<1>8. Finishing'
  BY <1>0, <1>1 DEF WorkerInv, ProcessInv, Finishing
<1>9. AtWork' /\ Draining'
  BY <1>0, <1>1 DEF WorkerInv, ProcessInv, AtWork, Draining, Quiet
<1>10. Working'
  <2>. SUFFICES ASSUME NEW w \in Workers, Alive(w),
                       act[Stop].at \notin {"kill", "killOnExit"}
                PROVE  e = Idle \/ e.copy.status = "running"
    BY <1>0, <1>1, Zenon DEF WorkerInv, ProcessInv, Working, Alive
  <2>1. w = v
    BY DEF WorkerInv, ProcessInv, Lives, Alive
  <2>. QED BY <1>0, <2>1, Zenon DEF WorkerInv, ProcessInv, Working, Alive
<1>. QED
  BY <1>3, <1>4, <1>6, <1>7, <1>8, <1>9, <1>10 DEF WorkerInv, ProcessInv

LEMMA ReviewPlace ==
  ASSUME Manual, WorkerInv, act[Review] # Idle
  PROVE  /\ Quiet /\ act[Boot].at \notin LaunchPoints
         /\ act[Review].at \in LaunchPoints =>
              ~down /\ \A b \in Actors \ {Review} : act[b] = Idle
<1>1. Review \in Actors /\ Review # Boot
  BY ManualActors
<1>. QED BY <1>1, Zenon DEF WorkerInv, ProcessInv, AtWork, Alone

LEMMA ReviewCall ==
  ASSUME Manual, TypeOK, WorkerInv, act[Review] # Idle, ~Queued(Review),
         NEW p \in ReviewPoints, NEW s \in Sessions, NEW v \in BOOLEAN,
         NEW saved \in BOOLEAN, Move(Review, Call(p, s, v), saved),
         UNCHANGED <<file, worker, map, life, target, down>>,
         v \/ saved \/ p \notin {"idle", "create"} => s.status # "none",
         p = "store" => s.status \in {"awaiting-review", "applied", "reverted"},
         p = "spawn" => s.status = "running" /\ ~v /\ saved,
         p \in LaunchPoints => act[Review].at \in LaunchPoints
  PROVE  WorkerInv'
<1>. DEFINE e == Call(p, s, v)
<1>1. p \in Points
  BY DEF ReviewPoints, Points
<1>2. e \in Calls /\ e.at = p /\ e.copy = s /\ e.event = v
  BY <1>1, CallIs
<1>. HIDE DEF e
<1>3. Move(Review, e, saved)
  BY DEF e
<1>4. ProperReview(e)
  BY <1>2 DEF ProperReview
<1>5. e.at \in SpawnPoints => saved
  BY <1>2 DEF SpawnPoints, ReviewPoints
<1>6. saved => e.copy.status # "none"
  BY <1>2
<1>7. e.at \in LaunchPoints => ~down /\ \A b \in Actors \ {Review} : act[b] = Idle
  BY <1>2, ReviewPlace
<1>. QED
  BY <1>2, <1>3, <1>4, <1>5, <1>6, <1>7, ReviewPlace, ReviewMove, Zenon

LEMMA ReviewLeave ==
  ASSUME Manual, TypeOK, WorkerInv, act[Review] # Idle, ~Queued(Review),
         Leave(Review), UNCHANGED <<file, worker, map, life, target, down>>
  PROVE  WorkerInv'
<1>1. Idle \in Calls /\ Idle.at = "idle" /\ Idle.event = FALSE
  BY IdleIs
<1>2. Move(Review, Idle, FALSE)
  BY DEF Leave, Move
<1>3. ProperReview(Idle)
  BY <1>1 DEF ProperReview, ReviewPoints
<1>4. Idle.at \notin LaunchPoints /\ Idle.at \notin SpawnPoints
  BY <1>1 DEF LaunchPoints, SpawnPoints
<1>. QED BY <1>1, <1>2, <1>3, <1>4, ReviewPlace, ReviewMove, Zenon

(* What the copy of a request is at each await.                            *)
LEMMA ReviewAt ==
  ASSUME Manual, TypeOK, WorkerInv, NEW p \in ReviewPoints, At(Review, p)
  PROVE  /\ ~Queued(Review) /\ Review \in Actors
         /\ act[Review].at = p /\ act[Review].copy \in Sessions /\ act[Review].event = FALSE
         /\ p # "idle" => act[Review] # Idle
         /\ p \notin {"idle", "create"} => act[Review].copy.status # "none"
         /\ ProperReview(act[Review])
<1>1. Review \in Actors
  BY ManualActors
<1>2. act[Review] \in Calls /\ act[Review].copy \in Sessions /\ act[Review].event \in BOOLEAN
  BY <1>1, CopyTypes
<1>3. act[Review].at = p /\ ~act[Review].event /\ ~Queued(Review)
  BY DEF At
<1>4. ProperReview(act[Review])
  BY DEF WorkerInv, Placed
<1>. QED BY <1>1, <1>2, <1>3, <1>4, IdleIs DEF ProperReview

(* The steps of a request: where it was, where it goes, what it saves.     *)
LEMMA ReviewShapes ==
  ASSUME Manual, TypeOK
  PROVE
    LET c == act[Review].copy IN
    /\ Create(Review) =>
         /\ At(Review, "create")
         /\ Move(Review, Call("start", Session("preparing"), TRUE), TRUE)
    /\ ContinueTask(Review) =>
         /\ At(Review, "continue") /\ tree # Gone
         /\ Move(Review, Call("start", Continued(c), TRUE), TRUE)
    /\ Resume(Review) =>
         /\ At(Review, "resume") /\ tree # Gone
         /\ IF c.diff # 0
              THEN Move(Review, Call("idle", With(c, "awaiting-review"), TRUE), TRUE)
              ELSE Move(Review, Call("start", c, TRUE), FALSE)
    /\ Reproduce(Review) =>
         /\ At(Review, "reproduce") /\ tree # Gone
         /\ Move(Review, Call("command", c, TRUE), FALSE)
    /\ Checkpoint(Review) =>
         /\ At(Review, "checkpoint") /\ tree # Gone
         /\ Move(Review, Call("idle", Kept(c, {patch} \cap {c.diff}), TRUE), TRUE)
    /\ \A x \in Contents : Restore(Review, x) =>
         /\ At(Review, "restoreCheckpoint") /\ tree # Gone
         /\ Move(Review, Call("store", With(Captured(c, x), "awaiting-review"), FALSE), FALSE)
    /\ Apply(Review) =>
         /\ At(Review, "apply") /\ workspace = 0 /\ patch # 0
         /\ Move(Review, Call("store", With(c, "applied"), FALSE), FALSE)
    /\ Reject(Review) =>
         /\ At(Review, "reject")
         /\ Move(Review, Call("remove", With(c, "rejected"), TRUE), TRUE)
    /\ Revert(Review) =>
         /\ At(Review, "revert") /\ workspace # 0
         /\ Move(Review, Call("store", With(c, "reverted"), FALSE), FALSE)
    /\ Tests(Review) /\ act[Review].at # "verify" =>
         /\ At(Review, "runTests") /\ tree # Gone
         /\ Move(Review, Call("gates", With(c, "testing"), TRUE), TRUE)
    /\ \A outcome \in Outcomes(Review) : GatesRun(Review, outcome) =>
         /\ At(Review, "gates") /\ TestsStatus(outcome) \in Results
         /\ Move(Review, Call("idle", With(Marked(c, "tests", TestsStatus(outcome)),
                                           "awaiting-review"), TRUE), TRUE)
    /\ \A g \in Gates \ {"tests"}, r \in {"passed", "failed"} : GateRun(Review, g, r) =>
         /\ At(Review, "command") \/ At(Review, "semanticReview")
         /\ Move(Review, Call("idle", Marked(c, g, r), TRUE), TRUE)
<1>. DEFINE c == act[Review].copy
<1>1. /\ Review \in Actors /\ Review \in Requests /\ c \in Sessions
      /\ {"start", "idle", "command", "store", "remove", "gates"} \subseteq Points
  BY ManualActors, CopyTypes DEF Points
<1>2. \A st \in {"awaiting-review", "applied", "rejected", "reverted", "testing"} :
        st \in Statuses /\ With(c, st) \in Sessions
  BY <1>1, WithIs DEF Statuses
<1>3. Create(Review) =>
        /\ At(Review, "create")
        /\ Move(Review, Call("start", Session("preparing"), TRUE), TRUE)
  <2>1. Session("preparing") \in Sessions
    BY SessionIs DEF Statuses
  <2>. QED BY <1>1, <2>1, Moves DEF Create
<1>4. ContinueTask(Review) =>
        /\ At(Review, "continue") /\ tree # Gone
        /\ Move(Review, Call("start", Continued(c), TRUE), TRUE)
  <2>1. ContinueTask(Review) => /\ SaveAndEvent(Review, Continued(c), "start")
                                /\ At(Review, "continue") /\ Possible("continue")
    BY Zenon DEF ContinueTask, Continued, Ready
  <2>2. Continued(c) \in Sessions
    BY <1>1, ContinuedIs
  <2>. QED BY <1>1, <2>1, <2>2, Moves DEF Possible
<1>5. Resume(Review) =>
        /\ At(Review, "resume") /\ tree # Gone
        /\ IF c.diff # 0
             THEN Move(Review, Call("idle", With(c, "awaiting-review"), TRUE), TRUE)
             ELSE Move(Review, Call("start", c, TRUE), FALSE)
  BY <1>1, <1>2, Moves DEF Resume, Ready, Possible
<1>6. Reproduce(Review) =>
        /\ At(Review, "reproduce") /\ tree # Gone
        /\ Move(Review, Call("command", c, TRUE), FALSE)
  BY <1>1, Moves DEF Reproduce, Ready, Possible
<1>7. Checkpoint(Review) =>
        /\ At(Review, "checkpoint") /\ tree # Gone
        /\ Move(Review, Call("idle", Kept(c, {patch} \cap {c.diff}), TRUE), TRUE)
  <2>1. Checkpoint(Review) =>
          /\ SaveAndEvent(Review, Kept(c, {patch} \cap {c.diff}), "idle")
          /\ At(Review, "checkpoint") /\ Possible("checkpoint")
    BY Zenon DEF Checkpoint, Kept, Ready
  <2>2. {patch} \cap {c.diff} \in SUBSET Contents
    BY DEF TypeOK
  <2>3. Kept(c, {patch} \cap {c.diff}) \in Sessions
    BY <1>1, <2>2, KeptIs
  <2>. QED BY <1>1, <2>1, <2>3, Moves DEF Possible
<1>8. ASSUME NEW x \in Contents, Restore(Review, x)
      PROVE  /\ At(Review, "restoreCheckpoint") /\ tree # Gone
             /\ Move(Review, Call("store", With(Captured(c, x), "awaiting-review"), FALSE), FALSE)
  <2>1. With(Captured(c, x), "awaiting-review") \in Sessions
    BY <1>1, <1>2, CapturedIs, WithIs
  <2>. QED BY <1>1, <1>8, <2>1, Moves DEF Restore, Ready, Possible
<1>9. Apply(Review) =>
        /\ At(Review, "apply") /\ workspace = 0 /\ patch # 0
        /\ Move(Review, Call("store", With(c, "applied"), FALSE), FALSE)
  BY <1>1, <1>2, Moves DEF Apply, Ready, Possible
<1>10. Reject(Review) =>
         /\ At(Review, "reject")
         /\ Move(Review, Call("remove", With(c, "rejected"), TRUE), TRUE)
  BY <1>1, <1>2, Moves DEF Reject
<1>11. Revert(Review) =>
         /\ At(Review, "revert") /\ workspace # 0
         /\ Move(Review, Call("store", With(c, "reverted"), FALSE), FALSE)
  BY <1>1, <1>2, Moves DEF Revert, Ready, Possible
<1>12. Tests(Review) /\ act[Review].at # "verify" =>
         /\ At(Review, "runTests") /\ tree # Gone
         /\ Move(Review, Call("gates", With(c, "testing"), TRUE), TRUE)
  BY <1>1, <1>2, Moves DEF Tests, Ready, Possible, At
<1>13. ASSUME NEW outcome \in Outcomes(Review), GatesRun(Review, outcome)
       PROVE  /\ At(Review, "gates") /\ TestsStatus(outcome) \in Results
              /\ Move(Review, Call("idle", With(Marked(c, "tests", TestsStatus(outcome)),
                                                "awaiting-review"), TRUE), TRUE)
  <2>1. TestsStatus(outcome) \in Results
    BY DEF TestsStatus, Results
  <2>2. With(Marked(c, "tests", TestsStatus(outcome)), "awaiting-review") \in Sessions
    BY <1>1, <1>2, <2>1, MarkedIs, WithIs, SessionAssumption
  <2>3. /\ At(Review, "gates")
        /\ SaveAndEvent(Review, With(Marked(c, "tests", TestsStatus(outcome)),
                                     "awaiting-review"), "idle")
    <3>1. Verdict(Review, outcome) = "idle"
      BY <1>1 DEF Verdict
    <3>. QED BY <1>1, <1>13, <3>1, Zenon DEF GatesRun
  <2>. QED BY <1>1, <2>1, <2>2, <2>3, Moves
<1>14. ASSUME NEW g \in Gates \ {"tests"}, NEW r \in {"passed", "failed"},
              GateRun(Review, g, r)
       PROVE  /\ At(Review, "command") \/ At(Review, "semanticReview")
              /\ Move(Review, Call("idle", Marked(c, g, r), TRUE), TRUE)
  <2>1. Marked(c, g, r) \in Sessions
    BY <1>1, MarkedIs DEF Results
  <2>2. g \in {"reproduction", "semanticReview"}
    BY SessionAssumption
  <2>. QED BY <1>1, <1>14, <2>1, <2>2, Moves DEF GateRun
<1>. QED
  BY <1>3, <1>4, <1>5, <1>6, <1>7, <1>8, <1>9, <1>10, <1>11, <1>12, <1>13, <1>14

LEMMA ReviewNever ==
  ASSUME WorkerInv
  PROVE  /\ ~CancelTests(Review) /\ ~Cancel(Review) /\ ~Pause(Review)
         /\ ~Kill(Review, "idle") /\ ~Kill(Review, "drain") /\ ~Dispose(Review)
         /\ ~DisposeLoads(Review) /\ ~DisposePauses(Review) /\ ~DisposeDrains(Review)
         /\ ~Disposed(Review) /\ ~Accept(Review) /\ ~Repair(Review)
         /\ act[Review].at # "verify"
         /\ \A p \in DOMAIN Starts : Launch(Review, p) => p = "start"
         /\ \A p \in DOMAIN Starts, w \in Workers : Spawn(Review, w, p) => p = "start"
<1>1. act[Review].at \in ReviewPoints
  BY DEF WorkerInv, Placed, ProperReview
<1>2. \A p \in {"cancelTests", "cancel", "pause", "kill", "killOnExit", "dispose", "load",
                "hold", "drain", "drained", "accept", "again", "verify", "repair", "recover",
                "spawnRepair", "spawnRecovered"} : act[Review].at # p /\ ~At(Review, p)
  BY <1>1 DEF ReviewPoints, At
<1>3. /\ ~CancelTests(Review) /\ ~Cancel(Review) /\ ~Pause(Review)
      /\ ~Dispose(Review) /\ ~DisposeLoads(Review) /\ ~DisposePauses(Review)
      /\ ~DisposeDrains(Review) /\ ~Disposed(Review) /\ ~Accept(Review) /\ ~Repair(Review)
      /\ act[Review].at # "verify"
  BY <1>2 DEF CancelTests, Cancel, Pause, Dispose, DisposeLoads, DisposePauses,
              DisposeDrains, Disposed, Accept, Repair
<1>4. ~Kill(Review, "idle") /\ ~Kill(Review, "drain")
  BY <1>2 DEF Kill
<1>5. ASSUME NEW p \in DOMAIN Starts, p # "start"
      PROVE  ~Launch(Review, p) /\ \A w \in Workers : ~Spawn(Review, w, p)
  <2>1. p \in {"repair", "recover"} /\ Starts[p] \in {"spawnRepair", "spawnRecovered"}
    BY <1>5 DEF Starts
  <2>. QED BY <1>2, <2>1 DEF Launch, Spawn
<1>. QED BY <1>3, <1>4, <1>5

LEMMA ReviewKeeps ==
  ASSUME Manual, TypeOK, WorkerInv, RequestStep(Review)
  PROVE  WorkerInv'
<1>. DEFINE c == act[Review].copy
<1>0. Review \in Actors /\ c \in Sessions
  BY ManualActors, CopyTypes
<1>1. /\ {"start", "idle", "command", "store", "remove", "gates", "create", "continue",
          "resume", "reproduce", "semanticReview", "checkpoint", "restoreCheckpoint",
          "apply", "reject", "revert", "runTests"} \subseteq ReviewPoints
      /\ {"create", "continue", "resume"} \subseteq LaunchPoints
      /\ {"idle", "command", "store", "remove", "gates"} \cap LaunchPoints = {}
  BY DEF ReviewPoints, LaunchPoints
<1>2. \A st \in {"awaiting-review", "applied", "rejected", "reverted", "testing"} :
        \A s \in Sessions : With(s, st) \in Sessions /\ With(s, st).status = st
  BY WithIs DEF Statuses
<1>3. CASE Create(Review)
  <2>1. At(Review, "create")
        /\ Move(Review, Call("start", Session("preparing"), TRUE), TRUE)
    BY <1>3, ReviewShapes, Zenon
  <2>2. Session("preparing") \in Sessions /\ Session("preparing").status = "preparing"
    BY SessionIs DEF Statuses
  <2>3. UNCHANGED <<file, worker, map, life, target, down>>
    BY <1>3 DEF Create, processVars
  <2>. QED BY <1>1, <2>1, <2>2, <2>3, ReviewAt, ReviewCall
<1>4. CASE ContinueTask(Review)
  <2>1. At(Review, "continue") /\ Move(Review, Call("start", Continued(c), TRUE), TRUE)
    BY <1>4, ReviewShapes, Zenon
  <2>2. Continued(c) \in Sessions /\ Continued(c).status = c.status
    BY <1>0, ContinuedIs
  <2>3. UNCHANGED <<file, worker, map, life, target, down>>
    BY <1>4 DEF ContinueTask, processVars
  <2>. QED BY <1>1, <2>1, <2>2, <2>3, ReviewAt, ReviewCall
<1>5. CASE Resume(Review)
  <2>1. /\ At(Review, "resume")
        /\ \/ Move(Review, Call("idle", With(c, "awaiting-review"), TRUE), TRUE)
           \/ Move(Review, Call("start", c, TRUE), FALSE)
    BY <1>5, ReviewShapes, Zenon
  <2>2. UNCHANGED <<file, worker, map, life, target, down>>
    BY <1>5 DEF Resume, processVars
  <2>3. CASE Move(Review, Call("idle", With(c, "awaiting-review"), TRUE), TRUE)
    <3>1. With(c, "awaiting-review") \in Sessions
          /\ With(c, "awaiting-review").status = "awaiting-review"
      BY <1>0, <1>2
    <3>. QED BY <1>1, <2>1, <2>2, <2>3, <3>1, ReviewAt, ReviewCall
  <2>4. CASE Move(Review, Call("start", c, TRUE), FALSE)
    BY <1>0, <1>1, <2>1, <2>2, <2>4, ReviewAt, ReviewCall
  <2>. QED BY <2>1, <2>3, <2>4
<1>6. CASE Reproduce(Review)
  <2>1. At(Review, "reproduce") /\ Move(Review, Call("command", c, TRUE), FALSE)
    BY <1>6, ReviewShapes, Zenon
  <2>2. UNCHANGED <<file, worker, map, life, target, down>>
    BY <1>6 DEF Reproduce, processVars
  <2>. QED BY <1>0, <1>1, <2>1, <2>2, ReviewAt, ReviewCall
<1>7. CASE Checkpoint(Review)
  <2>1. /\ At(Review, "checkpoint")
        /\ Move(Review, Call("idle", Kept(c, {patch} \cap {c.diff}), TRUE), TRUE)
    BY <1>7, ReviewShapes, Zenon
  <2>2. {patch} \cap {c.diff} \in SUBSET Contents
    BY DEF TypeOK
  <2>3. /\ Kept(c, {patch} \cap {c.diff}) \in Sessions
        /\ Kept(c, {patch} \cap {c.diff}).status = c.status
    BY <1>0, <2>2, KeptIs
  <2>4. UNCHANGED <<file, worker, map, life, target, down>>
    BY <1>7 DEF Checkpoint, processVars
  <2>. QED BY <1>1, <2>1, <2>3, <2>4, ReviewAt, ReviewCall
<1>8. ASSUME NEW x \in Contents, Restore(Review, x) PROVE WorkerInv'
  <2>1. /\ At(Review, "restoreCheckpoint")
        /\ Move(Review, Call("store", With(Captured(c, x), "awaiting-review"), FALSE), FALSE)
    BY <1>8, ReviewShapes, Zenon
  <2>2. Captured(c, x) \in Sessions
    BY <1>0, CapturedIs
  <2>3. /\ With(Captured(c, x), "awaiting-review") \in Sessions
        /\ With(Captured(c, x), "awaiting-review").status = "awaiting-review"
    BY <1>2, <2>2
  <2>4. UNCHANGED <<file, worker, map, life, target, down>>
    BY <1>8 DEF Restore, processVars
  <2>. QED BY <1>1, <2>1, <2>3, <2>4, ReviewAt, ReviewCall
<1>9. CASE Apply(Review) \/ Revert(Review)
  <2>1. PICK st \in {"applied", "reverted"}, p \in {"apply", "revert"} :
          At(Review, p) /\ Move(Review, Call("store", With(c, st), FALSE), FALSE)
    BY <1>9, ReviewShapes
  <2>2. With(c, st) \in Sessions /\ With(c, st).status = st
    BY <1>0, <1>2
  <2>3. UNCHANGED <<file, worker, map, life, target, down>>
    BY <1>9 DEF Apply, Revert, processVars
  <2>. QED BY <1>1, <2>1, <2>2, <2>3, ReviewAt, ReviewCall
<1>10. CASE Reject(Review)
  <2>1. At(Review, "reject") /\ Move(Review, Call("remove", With(c, "rejected"), TRUE), TRUE)
    BY <1>10, ReviewShapes, Zenon
  <2>2. With(c, "rejected") \in Sessions /\ With(c, "rejected").status = "rejected"
    BY <1>0, <1>2
  <2>3. UNCHANGED <<file, worker, map, life, target, down>>
    BY <1>10 DEF Reject, processVars
  <2>. QED BY <1>1, <2>1, <2>2, <2>3, ReviewAt, ReviewCall
<1>11. ASSUME NEW g \in Gates \ {"tests"}, NEW r \in {"passed", "failed"},
              GateRun(Review, g, r)
       PROVE  WorkerInv'
  <2>1. PICK p \in {"command", "semanticReview"} :
          At(Review, p) /\ Move(Review, Call("idle", Marked(c, g, r), TRUE), TRUE)
    BY <1>11, ReviewShapes
  <2>2. Marked(c, g, r) \in Sessions /\ Marked(c, g, r).status = c.status
    <3>1. r \in Results /\ g \in Gates
      BY DEF Results
    <3>. QED BY <1>0, <3>1, MarkedIs, ZenonT(40)
  <2>3. UNCHANGED <<file, worker, map, life, target, down>>
    BY <1>11 DEF GateRun, processVars
  <2>. QED BY <1>1, <2>1, <2>2, <2>3, ReviewAt, ReviewCall
<1>12. CASE RemoveWorktree(Review)
  <2>1. At(Review, "remove") /\ Leave(Review)
        /\ UNCHANGED <<file, worker, map, life, target, down>>
    BY <1>12 DEF RemoveWorktree, processVars
  <2>. QED BY <1>1, <2>1, ReviewAt, ReviewLeave
<1>13. CASE Refused(Review)
  <2>1. At(Review, act[Review].at) /\ Leave(Review) /\ ~Possible(act[Review].at)
        /\ UNCHANGED <<file, worker, map, life, target, down>>
    BY <1>13 DEF Refused, processVars
  <2>2. act[Review].at # "idle"
    BY <2>1 DEF Possible
  <2>3. act[Review].at \in ReviewPoints
    BY DEF WorkerInv, Placed, ProperReview
  <2>. QED BY <2>1, <2>2, <2>3, ReviewAt, ReviewLeave
<1>. QED
  BY <1>3, <1>4, <1>5, <1>6, <1>7, <1>8, <1>9, <1>10, <1>11, <1>12, <1>13, ReviewNever
  DEF RequestStep

LEMMA ReviewSharedKeeps ==
  ASSUME Manual, TypeOK, WorkerInv,
         \/ Tests(Review) \/ \E outcome \in Outcomes(Review) : GatesRun(Review, outcome)
         \/ Store(Review) \/ AddEvent(Review) \/ Launch(Review, "start")
  PROVE  WorkerInv'
<1>. DEFINE c == act[Review].copy
<1>0. Review \in Actors /\ c \in Sessions /\ Review \in Requests
  BY ManualActors, CopyTypes
<1>1. /\ {"idle", "remove", "gates", "start", "spawn", "store", "runTests"} \subseteq ReviewPoints
      /\ {"idle", "remove", "gates", "start", "spawn", "store"} \subseteq Points
      /\ {"idle", "remove", "gates"} \cap LaunchPoints = {} /\ "start" \in LaunchPoints
  BY DEF ReviewPoints, Points, LaunchPoints
<1>2. \A st \in {"awaiting-review", "testing", "running"} :
        \A s \in Sessions : With(s, st) \in Sessions /\ With(s, st).status = st
  BY WithIs DEF Statuses
<1>3. CASE Tests(Review)
  <2>1. At(Review, "runTests") /\ Move(Review, Call("gates", With(c, "testing"), TRUE), TRUE)
    BY <1>3, ReviewShapes, ReviewNever, Zenon
  <2>2. With(c, "testing") \in Sessions /\ With(c, "testing").status = "testing"
    BY <1>0, <1>2
  <2>3. UNCHANGED <<file, worker, map, life, target, down>>
    BY <1>3 DEF Tests
  <2>. QED BY <1>1, <2>1, <2>2, <2>3, ReviewAt, ReviewCall
<1>4. ASSUME NEW outcome \in Outcomes(Review), GatesRun(Review, outcome) PROVE WorkerInv'
  <2>1. PICK r \in Results :
          /\ At(Review, "gates")
          /\ Move(Review, Call("idle", With(Marked(c, "tests", r), "awaiting-review"), TRUE),
                  TRUE)
    BY <1>4, ReviewShapes
  <2>2. Marked(c, "tests", r) \in Sessions
    BY <1>0, MarkedIs, SessionAssumption
  <2>3. /\ With(Marked(c, "tests", r), "awaiting-review") \in Sessions
        /\ With(Marked(c, "tests", r), "awaiting-review").status = "awaiting-review"
    BY <1>2, <2>2
  <2>4. UNCHANGED <<file, worker, map, life, target, down>>
    BY <1>4 DEF GatesRun
  <2>. QED BY <1>1, <2>1, <2>3, <2>4, ReviewAt, ReviewCall
<1>5. CASE Store(Review)
  <2>1. At(Review, "store")
    BY <1>5 DEF Store
  <2>2. c.status \in {"awaiting-review", "applied", "reverted"}
    BY <1>1, <2>1, ReviewAt DEF ProperReview
  <2>3. \E p \in {"remove", "idle"} : SaveAndEvent(Review, c, p)
    BY <1>5, <2>2 DEF Store, Rest, Review
  <2>4. PICK p \in {"remove", "idle"} : Move(Review, Call(p, c, TRUE), TRUE)
    BY <1>0, <1>1, <2>3, Moves
  <2>5. UNCHANGED <<file, worker, map, life, target, down>>
    BY <1>5 DEF Store, processVars
  <2>. QED BY <1>0, <1>1, <2>1, <2>2, <2>4, <2>5, ReviewAt, ReviewCall
<1>6. CASE AddEvent(Review)
  <2>1. /\ act[Review].event /\ ~Queued(Review)
        /\ Save(Review, c, act[Review].at)
        /\ UNCHANGED <<file, worker, map, life, target, down>>
    BY <1>6 DEF AddEvent, processVars
  <2>2. ProperReview(act[Review])
    BY DEF WorkerInv, Placed
  <2>3. act[Review].at \in Points /\ act[Review].at \in ReviewPoints
    BY <1>0, <2>2, CopyTypes DEF ProperReview
  <2>4. Move(Review, Call(act[Review].at, c, FALSE), TRUE)
    BY <1>0, <2>1, <2>3, Moves
  <2>5. /\ c.status # "none" /\ act[Review].at # "spawn"
        /\ act[Review].at = "store" => c.status \in {"awaiting-review", "applied", "reverted"}
    BY <2>1, <2>2 DEF ProperReview
  <2>6. act[Review] # Idle
    BY <2>1, IdleIs
  <2>. QED BY <1>0, <2>1, <2>3, <2>4, <2>5, <2>6, ReviewCall
<1>7. CASE Launch(Review, "start")
  <2>1. /\ At(Review, "start")
        /\ Save(Review, With(c, "running"), "spawn") \/ Leave(Review)
        /\ UNCHANGED <<file, worker, map, life, target, down>>
    BY <1>0, <1>7 DEF Launch, Starts, processVars
  <2>2. With(c, "running") \in Sessions /\ With(c, "running").status = "running"
    BY <1>0, <1>2
  <2>3. CASE Save(Review, With(c, "running"), "spawn")
    <3>1. Move(Review, Call("spawn", With(c, "running"), FALSE), TRUE)
      BY <1>0, <1>1, <2>2, <2>3, Moves
    <3>. QED BY <1>1, <2>1, <2>2, <3>1, ReviewAt, ReviewCall
  <2>4. CASE Leave(Review)
    BY <1>1, <2>1, <2>4, ReviewAt, ReviewLeave
  <2>. QED BY <2>1, <2>3, <2>4
<1>. QED BY <1>3, <1>4, <1>5, <1>6, <1>7

(* A worker starts: nothing else is in progress, and the file is written.  *)
LEMMA SpawnKeeps ==
  ASSUME Manual, TypeOK, WorkerInv, NEW a \in {Review, Boot}, NEW w \in Workers,
         NEW p \in {"start", "recover"}, Spawn(a, w, p),
         a = Review => p = "start"
  PROVE  WorkerInv'
<1>. DEFINE c == act[a].copy
<1>0. /\ a \in Actors /\ c \in Sessions /\ a # Stop /\ Review # Boot /\ Stop # Review
      /\ Stop # Boot /\ Stop \in Actors /\ Review \in Actors /\ Boot \in Actors
      /\ \A v \in Workers : Owner(v) \in Actors /\ Owner(v) # a
  BY ManualActors, ActorsAre, CopyTypes
<1>1. p \in DOMAIN Starts /\ Starts[p] \in SpawnPoints
  BY DEF Starts, SpawnPoints
<1>2. At(a, Starts[p]) /\ act[a].at \in SpawnPoints /\ act[a].at \in LaunchPoints /\ ~Queued(a)
      /\ act[a].event = FALSE
  <2>1. At(a, Starts[p])
    BY Zenon DEF Spawn
  <2>2. act[a].at = Starts[p] /\ ~Queued(a) /\ ~act[a].event
    BY <2>1, Zenon DEF At
  <2>3. act[a].event = FALSE
    BY <1>0, <2>2, CopyTypes
  <2>4. SpawnPoints \subseteq LaunchPoints
    BY DEF SpawnPoints, LaunchPoints
  <2>5. act[a].at \in SpawnPoints /\ act[a].at \in LaunchPoints
    BY <1>1, <2>2, <2>4
  <2>. QED BY <2>1, <2>2, <2>3, <2>5, Zenon
<1>3. file.status = "running" /\ Quiet /\ ~down /\ \A b \in Actors \ {a} : act[b] = Idle
  BY <1>2, Zenon DEF WorkerInv, Written, Alone
<1>4. c.status = "running"
  BY <1>0, <1>2 DEF WorkerInv, Placed, ProperReview, ProperBoot, ReviewPoints, BootPoints,
                    SpawnPoints
<1>5. PICK e \in Calls : /\ Move(a, e, FALSE) /\ e.at = "idle"
                         /\ e.event => a = Boot /\ e.copy = c
                         /\ e = Idle \/ e.copy = c
  <2>1. EventOnly(a, c, "idle") \/ Leave(a) \/ Await(a, c, "settle")
    BY DEF Spawn
  <2>2. ~Await(a, c, "settle") \/ EventOnly(a, c, "idle") \/ Leave(a)
    BY <1>0 DEF Spawn, Rest, Review, Boot
  <2>3. EventOnly(a, c, "idle") => a = Boot \/ Leave(a)
    BY <1>1, <1>2 DEF Spawn, Rest, Review
  <2>4. "idle" \in Points
    BY DEF Points
  <2>5. CASE Leave(a)
    BY <1>0, <2>5, <2>4, Moves, IdleIs
  <2>6. CASE EventOnly(a, c, "idle") /\ a = Boot
    <3>1. Call("idle", c, TRUE) \in Calls /\ Call("idle", c, TRUE).at = "idle"
          /\ Call("idle", c, TRUE).copy = c
      BY <1>0, <2>4, CallIs
    <3>. QED BY <1>0, <2>4, <2>6, <3>1, Moves
  <2>. QED BY <2>1, <2>2, <2>3, <2>5, <2>6
<1>6. act'[a] = e /\ \A b \in Actors \ {a} : act'[b] = Idle
  BY <1>0, <1>2, <1>3, <1>5, MoveIs
<1>7. /\ worker' = [worker EXCEPT ![w] = "alive"] /\ map' = w /\ life' = w
      /\ UNCHANGED <<file, target, down>>
  BY DEF Spawn
<1>8. worker'[w] = "alive" /\ \A v \in Workers \ {w} : worker'[v] = "free"
  BY <1>3, <1>7 DEF TypeOK, Quiet
<1>9. OneEntry'
  BY <1>0, <1>2, <1>5, MoveQueue DEF WorkerInv
<1>10. Idle.at = "idle" /\ Idle.event = FALSE
  BY IdleIs
<1>11. Placed'
  <2>1. \A b \in Actors : act'[b].at = "idle" /\ (b # Boot => ~act'[b].event)
    BY <1>0, <1>5, <1>6, <1>10
  <2>2. act'[Boot].event => act'[Boot].copy.status # "none"
    BY <1>0, <1>4, <1>5, <1>6, <1>10
  <2>. QED
    BY <1>0, <2>1, <2>2
    DEF Placed, ProperReview, ProperStop, ProperBoot, ProperOwner, ReviewPoints,
        StopPoints, BootPoints, OwnerPoints
<1>12. Alone' /\ Written'
  BY <1>0, <1>5, <1>6, <1>10 DEF Alone, Written, LaunchPoints, SpawnPoints
<1>13. Registered' /\ Lives'
  BY <1>7, <1>8, SessionAssumption DEF Registered, Lives, Running, Workers
<1>14. Finishing'
  BY <1>0, <1>6, <1>8, <1>10 DEF Finishing
<1>15. AtWork'
  <2>1. act'[Review] = Idle
    <3>1. CASE a = Boot
      BY <1>0, <1>6, <3>1
    <3>2. CASE a = Review
      <4>1. p = "start" /\ Rest(a) = "idle"
        BY <3>2 DEF Rest, Review
      <4>2. Leave(a)
        BY <4>1 DEF Spawn
      <4>. QED BY <1>0, <3>2, <4>2 DEF Leave, TypeOK
    <3>. QED BY <3>1, <3>2
  <2>. QED BY <1>3, <1>7, <2>1 DEF AtWork
<1>16. Draining' /\ Working'
  <2>1. act'[Stop] = Idle
    BY <1>0, <1>6
  <2>2. Draining'
    BY <1>3, <1>7, <1>10, <2>1 DEF Draining
  <2>3. Working'
    BY <1>3, <1>4, <1>5, <1>6, <1>7, <1>10, <2>1 DEF Working, Alive
  <2>. QED BY <2>2, <2>3
<1>. QED
  BY <1>9, <1>11, <1>12, <1>13, <1>14, <1>15, <1>16 DEF WorkerInv, ProcessInv

LEMMA BootKeeps ==
  ASSUME Manual, TypeOK, WorkerInv,
         Initialize \/ Launch(Boot, "recover") \/ AddEvent(Boot)
  PROVE  WorkerInv'
<1>. DEFINE c == act[Boot].copy
<1>0. /\ Boot \in Actors /\ c \in Sessions /\ file \in Sessions /\ Boot \notin Requests
  BY ManualActors, ActorsAre, CopyTypes DEF TypeOK
<1>1. /\ {"idle", "initialize", "recover", "spawnRecovered"} \subseteq Points
      /\ {"initialize", "recover", "spawnRecovered"} \subseteq LaunchPoints
      /\ "idle" \notin LaunchPoints /\ {"idle", "initialize", "recover"} \cap SpawnPoints = {}
  BY DEF Points, LaunchPoints, SpawnPoints
<1>2. \A st \in {"awaiting-review", "paused", "running"} :
        \A s \in Sessions : With(s, st) \in Sessions /\ With(s, st).status = st
  BY WithIs DEF Statuses
<1>3. ASSUME NEW p \in BootPoints, NEW s \in Sessions, NEW v \in BOOLEAN, NEW saved \in BOOLEAN,
             Move(Boot, Call(p, s, v), saved), ~Queued(Boot), act[Boot] # Idle,
             UNCHANGED <<file, worker, map, life, target, down>>,
             v \/ saved => s.status # "none",
             p = "spawnRecovered" => s.status = "running" /\ ~v /\ saved,
             p \in LaunchPoints => act[Boot].at \in LaunchPoints,
             ~Quiet => s = c
      PROVE  WorkerInv'
  <2>. DEFINE e == Call(p, s, v)
  <2>1. e \in Calls /\ e.at = p /\ e.copy = s /\ e.event = v
    <3>1. p \in Points
      BY <1>1 DEF BootPoints
    <3>. QED BY <3>1, CallIs
  <2>. HIDE DEF e
  <2>2. Move(Boot, e, saved)
    BY <1>3 DEF e
  <2>3. ProperBoot(e)
    BY <1>3, <2>1 DEF ProperBoot
  <2>4. e.at \in SpawnPoints => saved
    BY <1>1, <1>3, <2>1 DEF BootPoints
  <2>5. /\ saved => e.copy.status # "none"
        /\ e.at \in LaunchPoints => act[Boot].at \in LaunchPoints
        /\ ~Quiet => e.copy = act[Boot].copy
    BY <1>3, <2>1
  <2>. QED BY <1>3, <2>1, <2>2, <2>3, <2>4, <2>5, BootMove, Zenon
<1>4. CASE Initialize
  <2>1. /\ act[Boot].at = "initialize" /\ ~Queued(Boot)
        /\ UNCHANGED <<file, worker, map, life, target, down>>
    BY <1>4 DEF Initialize, At, processVars
  <2>2. act[Boot] # Idle /\ Quiet
    BY <1>1, <2>1, IdleIs DEF WorkerInv, Alone
  <2>3. CASE Leave(Boot)
    <3>1. Move(Boot, Idle, FALSE) /\ ProperBoot(Idle) /\ Idle \in Calls
      BY <2>3, IdleIs DEF Leave, Move, ProperBoot, BootPoints
    <3>2. Idle.at \notin LaunchPoints /\ Idle.at \notin SpawnPoints
      BY IdleIs DEF LaunchPoints, SpawnPoints
    <3>. QED BY <2>1, <2>2, <3>1, <3>2, BootMove, Zenon
  <2>4. ASSUME NEW p \in {"idle", "recover"}, NEW st \in {"awaiting-review", "paused"},
               SaveAndEvent(Boot, With(file, st), p)
        PROVE  WorkerInv'
    <3>1. With(file, st) \in Sessions /\ With(file, st).status = st
      BY <1>0, <1>2
    <3>2. Move(Boot, Call(p, With(file, st), TRUE), TRUE)
      BY <1>0, <1>1, <2>4, <3>1, Moves
    <3>. QED BY <1>1, <1>3, <2>1, <2>2, <3>1, <3>2 DEF BootPoints
  <2>. QED BY <1>4, <2>3, <2>4 DEF Initialize, Untested, Manual
<1>5. CASE Launch(Boot, "recover")
  <2>1. /\ act[Boot].at = "recover" /\ ~Queued(Boot)
        /\ UNCHANGED <<file, worker, map, life, target, down>>
    BY <1>5 DEF Launch, At, processVars
  <2>2. act[Boot] # Idle /\ Quiet
    BY <1>1, <2>1, IdleIs DEF WorkerInv, Alone
  <2>3. map = 0
    BY <2>2 DEF Quiet, WorkerInv, ProcessInv, Registered, Running
  <2>4. Save(Boot, With(c, "running"), "spawnRecovered")
    BY <1>5, <2>3 DEF Launch, Starts
  <2>5. With(c, "running") \in Sessions /\ With(c, "running").status = "running"
    BY <1>0, <1>2
  <2>6. Move(Boot, Call("spawnRecovered", With(c, "running"), FALSE), TRUE)
    BY <1>0, <1>1, <2>4, <2>5, Moves
  <2>. QED BY <1>1, <1>3, <2>1, <2>2, <2>5, <2>6 DEF BootPoints
<1>6. CASE AddEvent(Boot)
  <2>1. /\ act[Boot].event /\ ~Queued(Boot)
        /\ Save(Boot, c, act[Boot].at)
        /\ UNCHANGED <<file, worker, map, life, target, down>>
    BY <1>6 DEF AddEvent, processVars
  <2>2. ProperBoot(act[Boot]) /\ act[Boot] # Idle
    BY <2>1, IdleIs DEF WorkerInv, Placed
  <2>3. act[Boot].at \in Points /\ act[Boot].at \in BootPoints
    BY <1>0, <2>2, CopyTypes DEF ProperBoot
  <2>4. Move(Boot, Call(act[Boot].at, c, FALSE), TRUE)
    BY <1>0, <2>1, <2>3, Moves
  <2>5. c.status # "none" /\ act[Boot].at # "spawnRecovered"
    BY <2>1, <2>2 DEF ProperBoot
  <2>. QED BY <1>0, <1>3, <2>1, <2>2, <2>3, <2>4, <2>5
<1>. QED BY <1>4, <1>5, <1>6

(* A stop is in progress only while no worker is being started.            *)
LEMMA StopPlace ==
  ASSUME Manual, WorkerInv, act[Stop] # Idle
  PROVE  act[Review].at \notin LaunchPoints /\ act[Boot].at \notin LaunchPoints
<1>1. /\ Stop \in Actors /\ Review # Stop /\ Boot # Stop
  BY ManualActors, ActorsAre
<1>. QED BY <1>1, Zenon DEF WorkerInv, Alone

(* The steps of a stop: where it was, where it goes, what it saves.        *)
LEMMA StopShapes ==
  ASSUME Manual, TypeOK
  PROVE
    LET c == act[Stop].copy IN
    /\ Cancel(Stop) =>
         /\ At(Stop, "cancel")
         /\ target' = [target EXCEPT ![Stop] = map]
         /\ IF c.status \in Stopping
              THEN Move(Stop, Call("kill", With(c, "cancelled"), TRUE), TRUE)
              ELSE Move(Stop, Call("kill", c, FALSE), FALSE)
    /\ Pause(Stop) =>
         /\ At(Stop, "pause")
         /\ target' = [target EXCEPT ![Stop] = map]
         /\ Move(Stop, Call("kill", With(c, "paused"), TRUE), TRUE)
    /\ Dispose(Stop) =>
         /\ At(Stop, "dispose")
         /\ target' = [target EXCEPT ![Stop] = map]
         /\ IF map = 0 THEN Move(Stop, Call("drain", c, FALSE), FALSE)
                       ELSE Move(Stop, Call("load", c, FALSE), FALSE)
    /\ DisposeLoads(Stop) =>
         At(Stop, "load") /\ Move(Stop, Call("hold", file, FALSE), FALSE)
    /\ DisposePauses(Stop) =>
         At(Stop, "hold") /\ Move(Stop, Call("killOnExit", With(c, "paused"), TRUE), TRUE)
    /\ DisposeDrains(Stop) =>
         /\ At(Stop, "drain")
         /\ target' = [target EXCEPT ![Stop] = life]
         /\ Move(Stop, Call("drained", c, FALSE), FALSE)
    /\ Kill(Stop, "idle") => At(Stop, "kill") /\ Move(Stop, Idle, FALSE)
    /\ Kill(Stop, "drain") =>
         At(Stop, "killOnExit") /\ Move(Stop, Call("drain", c, FALSE), FALSE)
    /\ CancelTests(Stop) => At(Stop, "cancelTests") /\ Move(Stop, Idle, FALSE)
    /\ Disposed(Stop) => At(Stop, "drained") /\ Move(Stop, Idle, FALSE)
<1>. DEFINE c == act[Stop].copy
<1>1. /\ Stop \in Actors /\ c \in Sessions /\ file \in Sessions
      /\ {"kill", "drain", "load", "hold", "killOnExit", "drained"} \subseteq Points
  BY ActorsAre, CopyTypes DEF Points, TypeOK
<1>2. With(c, "cancelled") \in Sessions /\ With(c, "paused") \in Sessions
  BY <1>1, WithIs DEF Statuses
<1>3. Cancel(Stop) =>
        /\ At(Stop, "cancel")
        /\ target' = [target EXCEPT ![Stop] = map]
        /\ IF c.status \in Stopping
             THEN Move(Stop, Call("kill", With(c, "cancelled"), TRUE), TRUE)
             ELSE Move(Stop, Call("kill", c, FALSE), FALSE)
  BY <1>1, <1>2, Moves DEF Cancel
<1>4. Pause(Stop) =>
        /\ At(Stop, "pause")
        /\ target' = [target EXCEPT ![Stop] = map]
        /\ Move(Stop, Call("kill", With(c, "paused"), TRUE), TRUE)
  BY <1>1, <1>2, Moves DEF Pause
<1>5. Dispose(Stop) =>
        /\ At(Stop, "dispose")
        /\ target' = [target EXCEPT ![Stop] = map]
        /\ IF map = 0 THEN Move(Stop, Call("drain", c, FALSE), FALSE)
                      ELSE Move(Stop, Call("load", c, FALSE), FALSE)
  BY <1>1, Moves DEF Dispose
<1>6. DisposeLoads(Stop) =>
        At(Stop, "load") /\ Move(Stop, Call("hold", file, FALSE), FALSE)
  BY <1>1, Moves DEF DisposeLoads
<1>7. DisposePauses(Stop) =>
        At(Stop, "hold") /\ Move(Stop, Call("killOnExit", With(c, "paused"), TRUE), TRUE)
  BY <1>1, <1>2, Moves DEF DisposePauses
<1>8. DisposeDrains(Stop) =>
        /\ At(Stop, "drain")
        /\ target' = [target EXCEPT ![Stop] = life]
        /\ Move(Stop, Call("drained", c, FALSE), FALSE)
  BY <1>1, Moves DEF DisposeDrains
<1>9. Kill(Stop, "idle") => At(Stop, "kill") /\ Move(Stop, Idle, FALSE)
  BY <1>1, Moves DEF Kill
<1>10. Kill(Stop, "drain") =>
         At(Stop, "killOnExit") /\ Move(Stop, Call("drain", c, FALSE), FALSE)
  BY <1>1, Moves DEF Kill
<1>11. /\ CancelTests(Stop) => At(Stop, "cancelTests") /\ Move(Stop, Idle, FALSE)
       /\ Disposed(Stop) => At(Stop, "drained") /\ Move(Stop, Idle, FALSE)
  BY <1>1, Moves DEF CancelTests, Disposed
<1>. QED BY <1>3, <1>4, <1>5, <1>6, <1>7, <1>8, <1>9, <1>10, <1>11

LEMMA StopAt ==
  ASSUME Manual, TypeOK, WorkerInv, NEW p \in StopPoints, At(Stop, p), p # "idle"
  PROVE  /\ ~Queued(Stop) /\ Stop \in Actors /\ act[Stop].at = p
         /\ act[Stop].copy \in Sessions /\ act[Stop].event = FALSE /\ act[Stop] # Idle
<1>1. Stop \in Actors
  BY ActorsAre
<1>2. act[Stop].copy \in Sessions /\ act[Stop].event \in BOOLEAN
  BY <1>1, CopyTypes
<1>3. act[Stop].at = p /\ ~act[Stop].event /\ ~Queued(Stop)
  BY DEF At
<1>. QED BY <1>1, <1>2, <1>3, IdleIs

LEMMA StopCall ==
  ASSUME Manual, TypeOK, WorkerInv, act[Stop] # Idle, ~Queued(Stop),
         NEW p \in StopPoints, NEW s \in Sessions, NEW v \in BOOLEAN,
         NEW saved \in BOOLEAN, Move(Stop, Call(p, s, v), saved),
         UNCHANGED <<file, worker, map, life, down>>,
         v \/ saved => s.status # "none",
         p = "drained" => target'[Stop] = life,
         \A w \in Workers : Alive(w) =>
           /\ p \in {"load", "hold", "kill", "killOnExit"} => target'[Stop] = w
           /\ p \notin {"drain", "drained"}
           /\ p \notin {"kill", "killOnExit"} =>
                act[Stop].at \notin {"kill", "killOnExit"} /\ s.status = "running"
  PROVE  WorkerInv'
<1>. DEFINE e == Call(p, s, v)
<1>1. p \in Points
  BY DEF StopPoints, Points
<1>2. e \in Calls /\ e.at = p /\ e.copy = s /\ e.event = v
  BY <1>1, CallIs
<1>. HIDE DEF e
<1>3. Move(Stop, e, saved)
  BY DEF e
<1>4. ProperStop(e)
  BY <1>2 DEF ProperStop
<1>5. /\ saved => e.copy.status # "none"
      /\ e.at = "drained" => target'[Stop] = life
  BY <1>2
<1>6. \A w \in Workers : Alive(w) =>
        /\ e.at \in {"load", "hold", "kill", "killOnExit"} => target'[Stop] = w
        /\ e.at \notin {"drain", "drained"}
        /\ e.at \notin {"kill", "killOnExit"} =>
             /\ act[Stop].at \notin {"kill", "killOnExit"}
             /\ e = Idle \/ e.copy.status = "running"
  BY <1>2, Zenon
<1>. QED
  BY <1>2, <1>3, <1>4, <1>5, <1>6, StopPlace, StopMove, Zenon

(* What a stop knows of a worker that is alive.                            *)
LEMMA StopKnows ==
  ASSUME Manual, TypeOK, WorkerInv, NEW w \in Workers, Alive(w), act[Stop] # Idle
  PROVE  /\ map = w /\ life = w
         /\ act[Stop].at \in {"load", "hold", "kill", "killOnExit"} => target[Stop] = w
         /\ act[Stop].at \notin {"drain", "drained"}
         /\ act[Stop].at \notin {"kill", "killOnExit"} =>
              act[Stop].copy.status = "running" /\ file.status = "running"
<1>1. Running(w) /\ worker[w] # "free"
  BY DEF Alive, Running
<1>2. map = w /\ life = w
  BY <1>1, Zenon DEF WorkerInv, ProcessInv, Registered, Lives
<1>3. Stop \in Actors
  BY ActorsAre
<1>. QED BY <1>2, <1>3, Zenon DEF WorkerInv, ProcessInv, Working

LEMMA StopKeeps ==
  ASSUME Manual, TypeOK, WorkerInv,
         \/ Cancel(Stop) \/ Pause(Stop) \/ Dispose(Stop) \/ DisposeLoads(Stop)
         \/ DisposePauses(Stop) \/ DisposeDrains(Stop) \/ CancelTests(Stop)
  PROVE  WorkerInv'
<1>. DEFINE c == act[Stop].copy
<1>0. Stop \in Actors /\ c \in Sessions /\ file \in Sessions
  BY ActorsAre, CopyTypes DEF TypeOK
<1>1. {"kill", "drain", "load", "hold", "killOnExit", "drained", "cancel", "pause",
       "dispose", "cancelTests"} \subseteq StopPoints
  BY DEF StopPoints
<1>2. \A st \in {"cancelled", "paused"} : With(c, st) \in Sessions /\ With(c, st).status = st
  BY <1>0, WithIs DEF Statuses
<1>3. target' = [target EXCEPT ![Stop] = map] => target'[Stop] = map
  BY <1>0 DEF TypeOK
<1>4. CASE Cancel(Stop)
  <2>1. /\ At(Stop, "cancel") /\ target' = [target EXCEPT ![Stop] = map]
        /\ \/ Move(Stop, Call("kill", With(c, "cancelled"), TRUE), TRUE)
           \/ Move(Stop, Call("kill", c, FALSE), FALSE)
    BY <1>4, StopShapes, Zenon
  <2>2. UNCHANGED <<file, worker, map, life, down>>
    BY <1>4 DEF Cancel
  <2>3. CASE Move(Stop, Call("kill", With(c, "cancelled"), TRUE), TRUE)
    BY <1>1, <1>2, <1>3, <2>1, <2>2, <2>3, StopAt, StopKnows, StopCall
  <2>4. CASE Move(Stop, Call("kill", c, FALSE), FALSE)
    BY <1>0, <1>1, <1>3, <2>1, <2>2, <2>4, StopAt, StopKnows, StopCall
  <2>. QED BY <2>1, <2>3, <2>4
<1>5. CASE Pause(Stop)
  <2>1. /\ At(Stop, "pause") /\ target' = [target EXCEPT ![Stop] = map]
        /\ Move(Stop, Call("kill", With(c, "paused"), TRUE), TRUE)
    BY <1>5, StopShapes, Zenon
  <2>2. UNCHANGED <<file, worker, map, life, down>>
    BY <1>5 DEF Pause
  <2>. QED BY <1>1, <1>2, <1>3, <2>1, <2>2, StopAt, StopKnows, StopCall
<1>6. CASE Dispose(Stop)
  <2>1. /\ At(Stop, "dispose") /\ target' = [target EXCEPT ![Stop] = map]
        /\ IF map = 0 THEN Move(Stop, Call("drain", c, FALSE), FALSE)
                      ELSE Move(Stop, Call("load", c, FALSE), FALSE)
    BY <1>6, StopShapes, Zenon
  <2>2. UNCHANGED <<file, worker, map, life, down>>
    BY <1>6 DEF Dispose
  <2>3. CASE map = 0
    <3>1. Move(Stop, Call("drain", c, FALSE), FALSE)
      BY <2>1, <2>3
    <3>2. \A w \in Workers : ~Alive(w)
      <4>1. act[Stop] # Idle
        BY <1>1, <2>1, StopAt
      <4>. QED BY <2>3, <4>1, StopKnows DEF Workers
    <3>. QED BY <1>0, <1>1, <2>1, <2>2, <3>1, <3>2, StopAt, StopCall
  <2>4. CASE map # 0
    <3>1. Move(Stop, Call("load", c, FALSE), FALSE)
      BY <2>1, <2>4
    <3>2. act[Stop] # Idle /\ ~Queued(Stop) /\ act[Stop].at = "dispose"
      BY <1>1, <2>1, StopAt
    <3>3. target'[Stop] = map
      BY <1>3, <2>1
    <3>4. \A w \in Workers : Alive(w) => target'[Stop] = w /\ c.status = "running"
      BY <3>2, <3>3, StopKnows
    <3>5. \A w \in Workers : Alive(w) =>
           /\ "load" \in {"load", "hold", "kill", "killOnExit"} => target'[Stop] = w
           /\ "load" \notin {"drain", "drained"}
           /\ "load" \notin {"kill", "killOnExit"} =>
                act[Stop].at \notin {"kill", "killOnExit"} /\ c.status = "running"
      BY <3>2, <3>4
    <3>. QED BY <1>0, <1>1, <2>2, <3>1, <3>2, <3>5, StopCall
  <2>. QED BY <2>3, <2>4
<1>7. CASE DisposeLoads(Stop)
  <2>1. At(Stop, "load") /\ Move(Stop, Call("hold", file, FALSE), FALSE)
    BY <1>7, StopShapes, Zenon
  <2>2. UNCHANGED <<file, worker, map, life, down, target>>
    BY <1>7 DEF DisposeLoads, processVars
  <2>3. act[Stop] # Idle /\ ~Queued(Stop) /\ act[Stop].at = "load"
    BY <1>1, <2>1, StopAt
  <2>4. \A w \in Workers : Alive(w) => target'[Stop] = w /\ file.status = "running"
    BY <2>2, <2>3, StopKnows
  <2>5. \A w \in Workers : Alive(w) =>
         /\ "hold" \in {"load", "hold", "kill", "killOnExit"} => target'[Stop] = w
         /\ "hold" \notin {"drain", "drained"}
         /\ "hold" \notin {"kill", "killOnExit"} =>
              act[Stop].at \notin {"kill", "killOnExit"} /\ file.status = "running"
    BY <2>3, <2>4
  <2>. QED BY <1>0, <1>1, <2>1, <2>2, <2>3, <2>5, StopCall
<1>8. CASE DisposePauses(Stop)
  <2>1. At(Stop, "hold") /\ Move(Stop, Call("killOnExit", With(c, "paused"), TRUE), TRUE)
    BY <1>8, StopShapes, Zenon
  <2>2. UNCHANGED <<file, worker, map, life, down, target>>
    BY <1>8 DEF DisposePauses, processVars
  <2>3. act[Stop] # Idle /\ ~Queued(Stop) /\ act[Stop].at = "hold"
    BY <1>1, <2>1, StopAt
  <2>4. \A w \in Workers : Alive(w) => target'[Stop] = w
    BY <2>2, <2>3, StopKnows
  <2>. QED BY <1>1, <1>2, <2>1, <2>2, <2>3, <2>4, StopCall
<1>9. CASE DisposeDrains(Stop)
  <2>1. /\ At(Stop, "drain") /\ target' = [target EXCEPT ![Stop] = life]
        /\ Move(Stop, Call("drained", c, FALSE), FALSE)
    BY <1>9, StopShapes, Zenon
  <2>2. UNCHANGED <<file, worker, map, life, down>>
    BY <1>9 DEF DisposeDrains
  <2>3. target'[Stop] = life
    BY <1>0, <2>1 DEF TypeOK
  <2>4. \A w \in Workers : ~Alive(w)
    BY <1>1, <2>1, StopAt, StopKnows
  <2>. QED BY <1>0, <1>1, <2>1, <2>2, <2>3, <2>4, StopAt, StopCall
<1>10. CASE CancelTests(Stop)
  <2>1. At(Stop, "cancelTests") /\ Move(Stop, Idle, FALSE)
    BY <1>10, StopShapes, Zenon
  <2>2. UNCHANGED <<file, worker, map, life, down, target>>
    BY <1>10 DEF CancelTests
  <2>3. Idle \in Calls /\ Idle.at = "idle" /\ ProperStop(Idle)
    BY IdleIs DEF ProperStop, StopPoints
  <2>4. act[Stop] # Idle /\ act[Stop].at = "cancelTests" /\ ~Queued(Stop)
    BY <1>1, <2>1, StopAt
  <2>5. \A w \in Workers : Alive(w) =>
          /\ Idle.at \in {"load", "hold", "kill", "killOnExit"} => target'[Stop] = w
          /\ Idle.at \notin {"drain", "drained"}
          /\ Idle.at \notin {"kill", "killOnExit"} =>
               /\ act[Stop].at \notin {"kill", "killOnExit"}
               /\ Idle = Idle \/ Idle.copy.status = "running"
    BY <2>3, <2>4
  <2>6. Idle.at = "drained" => target'[Stop] = life
    BY <2>3
  <2>. QED BY <2>1, <2>2, <2>3, <2>4, <2>5, <2>6, StopPlace, StopMove, Zenon
<1>. QED BY <1>4, <1>5, <1>6, <1>7, <1>8, <1>9, <1>10

LEMMA StopNever ==
  ASSUME WorkerInv
  PROVE  /\ ~Refused(Stop) /\ ~Create(Stop) /\ ~ContinueTask(Stop) /\ ~Resume(Stop)
         /\ ~Reproduce(Stop) /\ ~Checkpoint(Stop) /\ ~Apply(Stop) /\ ~Reject(Stop)
         /\ ~RemoveWorktree(Stop) /\ ~Revert(Stop)
         /\ \A x \in Contents : ~Restore(Stop, x)
         /\ \A g \in Gates \ {"tests"}, r \in {"passed", "failed"} : ~GateRun(Stop, g, r)
         /\ ~Store(Stop) /\ ~Tests(Stop) /\ ~Accept(Stop) /\ ~Repair(Stop)
         /\ \A outcome \in Outcomes(Stop) : ~GatesRun(Stop, outcome)
         /\ \A p \in DOMAIN Starts : /\ ~Launch(Stop, p)
                                     /\ \A w \in Workers : ~Spawn(Stop, w, p)
<1>1. act[Stop].at \in StopPoints
  BY DEF WorkerInv, Placed, ProperStop
<1>2. \A p \in {"create", "continue", "resume", "reproduce", "checkpoint", "apply", "reject",
                "remove", "revert", "restoreCheckpoint", "command", "semanticReview", "store",
                "runTests", "verify", "accept", "again", "gates", "start", "repair", "recover",
                "spawn", "spawnRepair", "spawnRecovered"} : ~At(Stop, p)
  BY <1>1 DEF StopPoints, At
<1>3. ~Refused(Stop)
  BY <1>1 DEF Refused, Possible, StopPoints
<1>4. /\ ~Create(Stop) /\ ~ContinueTask(Stop) /\ ~Resume(Stop)
      /\ ~Reproduce(Stop) /\ ~Checkpoint(Stop) /\ ~Apply(Stop) /\ ~Reject(Stop)
      /\ ~RemoveWorktree(Stop) /\ ~Revert(Stop)
  BY <1>2 DEF Create, ContinueTask, Resume, Reproduce, Checkpoint, Apply, Reject,
              RemoveWorktree, Revert, Ready
<1>5. \A x \in Contents : ~Restore(Stop, x)
  BY <1>2 DEF Restore, Ready
<1>6. \A g \in Gates \ {"tests"}, r \in {"passed", "failed"} : ~GateRun(Stop, g, r)
  <2>1. \A g \in Gates \ {"tests"} : g \in {"reproduction", "semanticReview"}
    BY SessionAssumption
  <2>. QED BY <1>2, <2>1 DEF GateRun
<1>7. ~Store(Stop) /\ ~Tests(Stop) /\ ~Accept(Stop) /\ ~Repair(Stop)
  BY <1>2 DEF Store, Tests, Accept, Repair, Ready
<1>8. \A outcome \in Outcomes(Stop) : ~GatesRun(Stop, outcome)
  BY <1>2 DEF GatesRun
<1>9. ASSUME NEW p \in DOMAIN Starts
      PROVE  ~Launch(Stop, p) /\ \A w \in Workers : ~Spawn(Stop, w, p)
  <2>1. p \in {"start", "repair", "recover"}
        /\ Starts[p] \in {"spawn", "spawnRepair", "spawnRecovered"}
    BY DEF Starts
  <2>. QED BY <1>2, <2>1 DEF Launch, Spawn
<1>. QED BY <1>3, <1>4, <1>5, <1>6, <1>7, <1>8, <1>9

(* The kill reaches the worker that is registered, if it was the target.   *)
LEMMA KillKeeps ==
  ASSUME Manual, TypeOK, WorkerInv, NEW then \in {"idle", "drain"}, Kill(Stop, then)
  PROVE  WorkerInv'
<1>0. /\ Stop \in Actors /\ Review \in Actors /\ Boot \in Actors
      /\ Review # Stop /\ Boot # Stop
      /\ \A w \in Workers : Owner(w) \in Actors /\ Owner(w) # Stop
  BY ManualActors, ActorsAre
<1>1. PICK e \in Calls :
        /\ Move(Stop, e, FALSE) /\ e.at \in {"idle", "drain"} /\ e.event = FALSE
  <2>1. Idle \in Calls /\ Idle.at = "idle" /\ Idle.event = FALSE
    BY IdleIs
  <2>2. /\ Call("drain", act[Stop].copy, FALSE) \in Calls
        /\ Call("drain", act[Stop].copy, FALSE).at = "drain"
        /\ Call("drain", act[Stop].copy, FALSE).event = FALSE
    <3>1. act[Stop].copy \in Sessions /\ "drain" \in Points /\ FALSE \in BOOLEAN
      BY <1>0, CopyTypes DEF Points
    <3>. QED BY <3>1, CallIs
  <2>3. Move(Stop, Idle, FALSE) \/ Move(Stop, Call("drain", act[Stop].copy, FALSE), FALSE)
    BY StopShapes, Zenon
  <2>. QED BY <2>1, <2>2, <2>3
<1>2. /\ act[Stop].at \in {"kill", "killOnExit"} /\ ~Queued(Stop) /\ act[Stop] # Idle
  BY IdleIs DEF Kill, At
<1>3. act'[Stop] = e /\ \A b \in Actors \ {Stop} : act'[b] = act[b]
  BY <1>0, <1>1, <1>2, MoveIs
<1>4. /\ UNCHANGED <<file, map, life, down>>
      /\ worker' = IF target[Stop] # 0 /\ map = target[Stop]
                     THEN [worker EXCEPT ![map] = "killed"] ELSE worker
  BY DEF Kill
<1>5. \A w \in Workers : Alive(w) => target[Stop] = w /\ map = w
  BY <1>2, StopKnows
<1>6. \A w \in Workers : worker'[w] # "alive"
  <2>. SUFFICES ASSUME NEW w \in Workers PROVE worker'[w] # "alive"
    OBVIOUS
  <2>1. CASE Alive(w)
    <3>1. w # 0 /\ target[Stop] = w /\ map = w
      BY <1>5, <2>1, SessionAssumption DEF Workers
    <3>2. worker' = [worker EXCEPT ![w] = "killed"]
      BY <1>4, <3>1, Zenon
    <3>. QED BY <3>2 DEF TypeOK
  <2>2. CASE ~Alive(w)
    BY <1>4, <2>2 DEF Alive, TypeOK
  <2>. QED BY <2>1, <2>2
<1>7. \A w \in Workers : /\ worker'[w] \in {"alive", "killed"} <=> Running(w)
                         /\ worker'[w] = "free" <=> worker[w] = "free"
                         /\ worker[w] \in {"ok", "failed"} => worker'[w] = worker[w]
  <2>1. CASE worker' = worker
    BY <2>1 DEF Running
  <2>2. CASE target[Stop] # 0 /\ map = target[Stop]
    <3>1. map \in Workers /\ Running(map)
      BY <2>2 DEF WorkerInv, ProcessInv, Registered
    <3>2. worker' = [worker EXCEPT ![map] = "killed"] /\ worker \in [Workers -> Conditions]
      BY <1>4, <2>2 DEF TypeOK
    <3>. QED BY <3>1, <3>2 DEF Running
  <2>. QED BY <1>4, <2>1, <2>2
<1>8. OneEntry'
  BY <1>0, <1>1, <1>2, MoveQueue DEF WorkerInv
<1>9. ProperStop(e)
  BY <1>1 DEF ProperStop, StopPoints
<1>10. Placed'
  BY <1>0, <1>3, <1>9, Zenon DEF WorkerInv, Placed
<1>11. Alone' /\ Written'
  BY <1>0, <1>2, <1>3, StopPlace DEF Alone, Written, SpawnPoints, LaunchPoints
<1>12. Registered' /\ Lives'
  BY <1>4, <1>7 DEF WorkerInv, ProcessInv, Registered, Lives, Running
<1>13. Finishing'
  BY <1>0, <1>3, <1>7 DEF WorkerInv, ProcessInv, Finishing
<1>14. AtWork'
  BY <1>0, <1>3, <1>4, <1>7 DEF WorkerInv, ProcessInv, AtWork, Quiet
<1>15. Draining' /\ Working'
  BY <1>0, <1>1, <1>3, <1>4, <1>6, <1>7
  DEF WorkerInv, ProcessInv, Draining, Working, Alive, Quiet
<1>. QED
  BY <1>8, <1>10, <1>11, <1>12, <1>13, <1>14, <1>15 DEF WorkerInv, ProcessInv

(* dispose() returns after the lifecycle it waited for, the only one.      *)
LEMMA DisposedKeeps ==
  ASSUME Manual, TypeOK, WorkerInv, Disposed(Stop)
  PROVE  WorkerInv'
<1>0. /\ Stop \in Actors /\ Review \in Actors /\ Boot \in Actors
      /\ Review # Stop /\ Boot # Stop
      /\ \A w \in Workers : Owner(w) \in Actors /\ Owner(w) # Stop
  BY ManualActors, ActorsAre
<1>1. /\ Move(Stop, Idle, FALSE) /\ act[Stop].at = "drained" /\ ~Queued(Stop)
      /\ act[Stop] # Idle /\ target[Stop] = 0
      /\ map' = 0 /\ UNCHANGED <<file, worker, life, target>>
  BY StopShapes, IdleIs DEF Disposed, At
<1>2. Idle \in Calls /\ Idle.at = "idle" /\ ProperStop(Idle)
  BY IdleIs DEF ProperStop, StopPoints
<1>3. act'[Stop] = Idle /\ \A b \in Actors \ {Stop} : act'[b] = act[b]
  BY <1>0, <1>1, <1>2, MoveIs
<1>4. Quiet
  BY <1>1 DEF WorkerInv, ProcessInv, Draining, Lives, Quiet, Workers
<1>5. OneEntry'
  BY <1>0, <1>1, <1>2, MoveQueue DEF WorkerInv
<1>6. Placed'
  BY <1>0, <1>2, <1>3, Zenon DEF WorkerInv, Placed
<1>7. Alone' /\ Written'
  BY <1>0, <1>1, <1>3, StopPlace DEF Alone, Written, SpawnPoints, LaunchPoints
<1>8. Registered' /\ Lives'
  BY <1>1, <1>4 DEF WorkerInv, ProcessInv, Registered, Lives, Running, Quiet
<1>9. Finishing'
  BY <1>0, <1>1, <1>3 DEF WorkerInv, ProcessInv, Finishing
<1>10. AtWork' /\ Draining' /\ Working'
  BY <1>0, <1>1, <1>2, <1>3, <1>4 DEF AtWork, Draining, Working, Alive, Quiet
<1>. QED BY <1>5, <1>6, <1>7, <1>8, <1>9, <1>10 DEF WorkerInv, ProcessInv

LEMMA StopEvent ==
  ASSUME Manual, TypeOK, WorkerInv, AddEvent(Stop)
  PROVE  WorkerInv'
<1>. DEFINE c == act[Stop].copy
<1>0. Stop \in Actors /\ c \in Sessions /\ act[Stop].at \in Points
  BY ActorsAre, CopyTypes
<1>1. /\ act[Stop].event /\ ~Queued(Stop)
      /\ Save(Stop, c, act[Stop].at)
      /\ UNCHANGED <<file, worker, map, life, target, down>>
  BY DEF AddEvent, processVars
<1>2. ProperStop(act[Stop]) /\ act[Stop] # Idle
  BY <1>1, IdleIs DEF WorkerInv, Placed
<1>3. act[Stop].at \in StopPoints /\ c.status # "none"
  BY <1>1, <1>2 DEF ProperStop
<1>4. Move(Stop, Call(act[Stop].at, c, FALSE), TRUE)
  BY <1>0, <1>1, Moves
<1>5. act[Stop].at = "drained" => target'[Stop] = life
  BY <1>1 DEF WorkerInv, ProcessInv, Draining
<1>6. \A w \in Workers : Alive(w) =>
        /\ act[Stop].at \in {"load", "hold", "kill", "killOnExit"} => target'[Stop] = w
        /\ act[Stop].at \notin {"drain", "drained"}
        /\ act[Stop].at \notin {"kill", "killOnExit"} =>
             act[Stop].at \notin {"kill", "killOnExit"} /\ c.status = "running"
  BY <1>1, <1>2, StopKnows
<1>. QED BY <1>0, <1>1, <1>2, <1>3, <1>4, <1>5, <1>6, StopCall

(* The steps of the line handler and finaliser of a worker.                *)
LEMMA OwnerShapes ==
  ASSUME Manual, TypeOK, NEW w \in Workers
  PROVE
    LET o == Owner(w)  c == act[o].copy IN
    /\ Line(w) => /\ Running(w) /\ act[o] = Idle
                  /\ Move(o, Call("line", file, FALSE), FALSE)
    /\ LineSaved(w) => At(o, "line") /\ Move(o, Call("idle", c, TRUE), TRUE)
    /\ Finish(w) =>
         /\ worker[w] \in {"ok", "failed"} /\ act[o] = Idle
         /\ \E p \in {"ok", "failed", "settle"} :
              /\ Move(o, Call(p, file, FALSE), FALSE)
              /\ p = "settle" <=> file.status \in {"cancelled", "paused"}
    /\ FinishFailed(w) =>
         /\ At(o, "ok") \/ At(o, "failed")
         /\ Move(o, Call("settle", With(c, "failed"), TRUE), TRUE)
    /\ FinishCaptured(w) =>
         /\ At(o, "ok") /\ tree # Gone /\ tree \in Contents
         /\ Move(o, Call("store", With(Captured(c, tree), "awaiting-review"), FALSE), FALSE)
    /\ FinishHalfCaptured(w) =>
         /\ At(o, "ok") /\ tree # Gone /\ tree \in Contents
         /\ Move(o, Call("store", With(HalfCaptured(c, tree), "failed"), FALSE), FALSE)
    /\ Settle(w) => At(o, "settle") /\ Move(o, Idle, FALSE)
<1>. DEFINE o == Owner(w)
            c == act[o].copy
<1>1. /\ o \in Actors /\ c \in Sessions /\ file \in Sessions
      /\ {"line", "idle", "ok", "failed", "settle", "store"} \subseteq Points
  BY ActorsAre, CopyTypes DEF Points, TypeOK
<1>2. \A s \in Sessions, st \in {"failed", "awaiting-review"} : With(s, st) \in Sessions
  BY WithIs DEF Statuses
<1>3. tree # Gone => tree \in Contents
  BY SessionAssumption DEF TypeOK, Contents, Gone
<1>4. Line(w) => /\ Running(w) /\ act[o] = Idle
                 /\ Move(o, Call("line", file, FALSE), FALSE)
  BY <1>1, Moves DEF Line, Chain
<1>5. LineSaved(w) => At(o, "line") /\ Move(o, Call("idle", c, TRUE), TRUE)
  BY <1>1, Moves DEF LineSaved, Chain
<1>6. Finish(w) =>
        /\ worker[w] \in {"ok", "failed"} /\ act[o] = Idle
        /\ \E p \in {"ok", "failed", "settle"} :
             /\ Move(o, Call(p, file, FALSE), FALSE)
             /\ p = "settle" <=> file.status \in {"cancelled", "paused"}
  <2>. SUFFICES ASSUME Finish(w)
                PROVE  /\ worker[w] \in {"ok", "failed"} /\ act[o] = Idle
                       /\ \E p \in {"ok", "failed", "settle"} :
                            /\ Move(o, Call(p, file, FALSE), FALSE)
                            /\ p = "settle" <=> file.status \in {"cancelled", "paused"}
    OBVIOUS
  <2>1. worker[w] \in {"ok", "failed"} /\ act[o] = Idle
    BY DEF Finish, Chain
  <2>2. PICK p \in {"ok", "failed", "settle"} :
          /\ Await(o, file, p)
          /\ p = "settle" <=> file.status \in {"cancelled", "paused"}
    BY <2>1 DEF Finish
  <2>3. Move(o, Call(p, file, FALSE), FALSE)
    BY <1>1, <2>2, Moves
  <2>. QED BY <2>1, <2>2, <2>3
<1>7. FinishFailed(w) =>
        /\ At(o, "ok") \/ At(o, "failed")
        /\ Move(o, Call("settle", With(c, "failed"), TRUE), TRUE)
  BY <1>1, <1>2, Moves DEF FinishFailed, Chain
<1>8. FinishCaptured(w) =>
        /\ At(o, "ok") /\ tree # Gone /\ tree \in Contents
        /\ Move(o, Call("store", With(Captured(c, tree), "awaiting-review"), FALSE), FALSE)
  <2>1. FinishCaptured(w) => With(Captured(c, tree), "awaiting-review") \in Sessions
    BY <1>1, <1>2, <1>3, CapturedIs DEF FinishCaptured
  <2>2. FinishCaptured(w) =>
          /\ At(o, "ok") /\ tree # Gone
          /\ Await(o, With(Captured(c, tree), "awaiting-review"), "store")
    BY DEF FinishCaptured, Chain, Manual
  <2>. QED BY <1>1, <1>3, <2>1, <2>2, Moves
<1>9. FinishHalfCaptured(w) =>
        /\ At(o, "ok") /\ tree # Gone /\ tree \in Contents
        /\ Move(o, Call("store", With(HalfCaptured(c, tree), "failed"), FALSE), FALSE)
  <2>1. FinishHalfCaptured(w) => /\ At(o, "ok") /\ tree # Gone
                                 /\ Await(o, With(HalfCaptured(c, tree), "failed"), "store")
    BY Zenon DEF FinishHalfCaptured, HalfCaptured, Chain
  <2>2. FinishHalfCaptured(w) => With(HalfCaptured(c, tree), "failed") \in Sessions
    BY <1>1, <1>2, <1>3, <2>1, HalfCapturedIs
  <2>. QED BY <1>1, <1>3, <2>1, <2>2, Moves
<1>10. Settle(w) => At(o, "settle") /\ Move(o, Idle, FALSE)
  BY <1>1, Moves DEF Settle
<1>. QED BY <1>4, <1>5, <1>6, <1>7, <1>8, <1>9, <1>10

LEMMA OwnerAt ==
  ASSUME Manual, TypeOK, WorkerInv, NEW w \in Workers, NEW p \in OwnerPoints,
         At(Owner(w), p), p # "idle"
  PROVE  LET o == Owner(w) IN
         /\ ~Queued(o) /\ o \in Actors /\ act[o].at = p
         /\ act[o].copy \in Sessions /\ act[o].event = FALSE /\ act[o] # Idle
         /\ worker[w] # "free"
         /\ p # "line" => worker[w] \in {"ok", "failed"}
<1>1. Owner(w) \in Actors
  BY ActorsAre
<1>2. act[Owner(w)].copy \in Sessions /\ act[Owner(w)].event \in BOOLEAN
  BY <1>1, CopyTypes
<1>3. act[Owner(w)].at = p /\ ~act[Owner(w)].event /\ ~Queued(Owner(w))
  BY DEF At
<1>4. act[Owner(w)] # Idle
  BY <1>3, IdleIs
<1>5. worker[w] # "free" /\ (p # "line" => worker[w] \in {"ok", "failed"})
  BY <1>3, <1>4 DEF WorkerInv, ProcessInv, Finishing, OwnerPoints
<1>. QED BY <1>1, <1>2, <1>3, <1>4, <1>5

LEMMA OwnerCall ==
  ASSUME Manual, TypeOK, WorkerInv, NEW w \in Workers, ~Queued(Owner(w)),
         NEW p \in OwnerPoints, NEW s \in Sessions, NEW v \in BOOLEAN,
         NEW saved \in BOOLEAN, Move(Owner(w), Call(p, s, v), saved),
         UNCHANGED <<file, worker, map, life, target, down>>,
         v \/ saved \/ p = "line" => s.status # "none",
         p = "store" => s.status \in {"awaiting-review", "failed"},
         worker[w] # "free",
         p \in {"ok", "failed", "store", "settle"} => worker[w] \in {"ok", "failed"},
         \/ s = act[Owner(w)].copy /\ act[Owner(w)] # Idle
         \/ s = file
         \/ worker[w] \in {"ok", "failed"}
  PROVE  WorkerInv'
<1>. DEFINE e == Call(p, s, v)
<1>1. p \in Points
  BY DEF OwnerPoints, Points
<1>2. e \in Calls /\ e.at = p /\ e.copy = s /\ e.event = v
  BY <1>1, CallIs
<1>. HIDE DEF e
<1>3. Move(Owner(w), e, saved)
  BY DEF e
<1>4. ProperOwner(e)
  BY <1>2 DEF ProperOwner
<1>5. /\ saved => e.copy.status # "none"
      /\ e.at \in {"ok", "failed", "store", "settle"} => worker[w] \in {"ok", "failed"}
      /\ e = Idle \/ e.copy = act[Owner(w)].copy \/ e.copy = file
           \/ worker[w] \in {"ok", "failed"}
  BY <1>2
<1>6. \/ worker[w] \in {"ok", "failed"}
      \/ e.copy = act[Owner(w)].copy => act[Owner(w)] # Idle
  <2>1. CASE act[Owner(w)] = Idle /\ s = file /\ s = act[Owner(w)].copy
    <3>1. file.status = "none"
      BY <2>1, IdleIs, SessionIs DEF Statuses
    <3>2. file.status # "none"
      BY DEF WorkerInv, ProcessInv, AtWork, Quiet
    <3>. QED BY <3>1, <3>2
  <2>. QED BY <1>2, <2>1
<1>. QED
  BY <1>2, <1>3, <1>4, <1>5, <1>6, OwnerMove, Zenon

LEMMA OwnerNever ==
  ASSUME Manual, TypeOK, WorkerInv, NEW w \in Workers
  PROVE  /\ ~Tests(Owner(w)) /\ ~Accept(Owner(w)) /\ ~Repair(Owner(w))
         /\ \A outcome \in Outcomes(Owner(w)) : ~GatesRun(Owner(w), outcome)
         /\ \A p \in DOMAIN Starts : /\ ~Launch(Owner(w), p)
                                     /\ \A v \in Workers : ~Spawn(Owner(w), v, p)
<1>1. act[Owner(w)].at \in OwnerPoints
  BY DEF WorkerInv, Placed, ProperOwner
<1>2. \A p \in {"runTests", "verify", "accept", "again", "gates", "start", "repair",
                "recover", "spawn", "spawnRepair", "spawnRecovered"} : ~At(Owner(w), p)
  BY <1>1 DEF OwnerPoints, At
<1>3. ~Tests(Owner(w)) /\ ~Accept(Owner(w)) /\ ~Repair(Owner(w))
  BY <1>2 DEF Tests, Accept, Repair, Ready
<1>4. \A outcome \in Outcomes(Owner(w)) : ~GatesRun(Owner(w), outcome)
  BY <1>2 DEF GatesRun
<1>5. ASSUME NEW p \in DOMAIN Starts
      PROVE  ~Launch(Owner(w), p) /\ \A v \in Workers : ~Spawn(Owner(w), v, p)
  <2>1. p \in {"start", "repair", "recover"}
        /\ Starts[p] \in {"spawn", "spawnRepair", "spawnRecovered"}
    BY DEF Starts
  <2>. QED BY <1>2, <2>1 DEF Launch, Spawn
<1>. QED BY <1>3, <1>4, <1>5

LEMMA BootNever ==
  ASSUME WorkerInv
  PROVE  /\ ~Store(Boot) /\ ~Tests(Boot) /\ ~Accept(Boot) /\ ~Repair(Boot)
         /\ \A outcome \in Outcomes(Boot) : ~GatesRun(Boot, outcome)
         /\ \A p \in DOMAIN Starts : Launch(Boot, p) => p = "recover"
         /\ \A p \in DOMAIN Starts, w \in Workers : Spawn(Boot, w, p) => p = "recover"
<1>1. act[Boot].at \in BootPoints
  BY DEF WorkerInv, Placed, ProperBoot
<1>2. \A p \in {"store", "runTests", "verify", "accept", "again", "gates", "start", "repair",
                "spawn", "spawnRepair"} : ~At(Boot, p)
  BY <1>1 DEF BootPoints, At
<1>3. ~Store(Boot) /\ ~Tests(Boot) /\ ~Accept(Boot) /\ ~Repair(Boot)
  BY <1>2 DEF Store, Tests, Accept, Repair, Ready
<1>4. \A outcome \in Outcomes(Boot) : ~GatesRun(Boot, outcome)
  BY <1>2 DEF GatesRun
<1>5. ASSUME NEW p \in DOMAIN Starts, p # "recover"
      PROVE  ~Launch(Boot, p) /\ \A w \in Workers : ~Spawn(Boot, w, p)
  <2>1. p \in {"start", "repair"} /\ Starts[p] \in {"spawn", "spawnRepair"}
    BY <1>5 DEF Starts
  <2>. QED BY <1>2, <2>1 DEF Launch, Spawn
<1>. QED BY <1>3, <1>4, <1>5

LEMMA OwnerKeeps ==
  ASSUME Manual, TypeOK, WorkerInv, NEW w \in Workers,
         \/ Line(w) \/ LineSaved(w) \/ Finish(w) \/ FinishFailed(w)
         \/ FinishCaptured(w) \/ FinishHalfCaptured(w)
         \/ Store(Owner(w)) \/ AddEvent(Owner(w))
  PROVE  WorkerInv'
<1>. DEFINE o == Owner(w)
            c == act[o].copy
<1>0. /\ o \in Actors /\ c \in Sessions /\ file \in Sessions
      /\ {"idle", "line", "ok", "failed", "store", "settle"} \subseteq OwnerPoints
      /\ {"idle", "line", "ok", "failed", "store", "settle"} \subseteq Points
  BY ActorsAre, CopyTypes DEF TypeOK, OwnerPoints, Points
<1>1. \A s \in Sessions, st \in {"failed", "awaiting-review"} :
        With(s, st) \in Sessions /\ With(s, st).status = st
  BY WithIs DEF Statuses
<1>2. worker[w] # "free" => file.status # "none"
  BY DEF WorkerInv, ProcessInv, AtWork, Quiet
<1>3. ProperOwner(act[o])
  BY DEF WorkerInv, Placed
<1>4. act[o] = Idle => ~Queued(o)
  <2>1. Idle.copy.status = "none"
    BY IdleIs, SessionIs DEF Statuses
  <2>. QED BY <2>1 DEF Queued, WorkerInv, OneEntry
<1>5. CASE Line(w)
  <2>1. Running(w) /\ act[o] = Idle /\ Move(o, Call("line", file, FALSE), FALSE)
    BY <1>5, OwnerShapes, Zenon
  <2>2. worker[w] # "free"
    BY <2>1 DEF Running
  <2>3. UNCHANGED <<file, worker, map, life, target, down>>
    BY <1>5 DEF Line, processVars
  <2>. QED BY <1>0, <1>2, <1>4, <2>1, <2>2, <2>3, OwnerCall
<1>6. CASE LineSaved(w)
  <2>1. At(o, "line") /\ Move(o, Call("idle", c, TRUE), TRUE)
    BY <1>6, OwnerShapes, Zenon
  <2>2. ~Queued(o) /\ act[o] # Idle /\ worker[w] # "free" /\ act[o].at = "line"
    BY <1>0, <2>1, OwnerAt
  <2>3. UNCHANGED <<file, worker, map, life, target, down>>
    BY <1>6 DEF LineSaved, processVars
  <2>4. c.status # "none"
    BY <1>3, <2>2 DEF ProperOwner
  <2>. QED BY <1>0, <2>1, <2>2, <2>3, <2>4, OwnerCall
<1>7. CASE Finish(w)
  <2>1. PICK p \in {"ok", "failed", "settle"} :
          /\ worker[w] \in {"ok", "failed"} /\ act[o] = Idle
          /\ Move(o, Call(p, file, FALSE), FALSE)
    BY <1>7, OwnerShapes, Zenon
  <2>2. UNCHANGED <<file, worker, map, life, target, down>>
    BY <1>7 DEF Finish, processVars
  <2>. QED BY <1>0, <1>4, <2>1, <2>2, OwnerCall
<1>8. CASE FinishFailed(w)
  <2>1. PICK p \in {"ok", "failed"} :
          At(o, p) /\ Move(o, Call("settle", With(c, "failed"), TRUE), TRUE)
    BY <1>8, OwnerShapes
  <2>2. ~Queued(o) /\ worker[w] \in {"ok", "failed"}
    BY <1>0, <2>1, OwnerAt
  <2>3. With(c, "failed") \in Sessions /\ With(c, "failed").status = "failed"
    BY <1>0, <1>1
  <2>4. UNCHANGED <<file, worker, map, life, target, down>>
    BY <1>8 DEF FinishFailed, processVars
  <2>. QED BY <1>0, <2>1, <2>2, <2>3, <2>4, OwnerCall
<1>9. CASE FinishCaptured(w) \/ FinishHalfCaptured(w)
  <2>1. PICK s \in Sessions :
          /\ At(o, "ok") /\ s.status \in {"awaiting-review", "failed"}
          /\ Move(o, Call("store", s, FALSE), FALSE)
    <3>1. CASE FinishCaptured(w)
      <4>1. /\ At(o, "ok") /\ tree \in Contents
            /\ Move(o, Call("store", With(Captured(c, tree), "awaiting-review"), FALSE), FALSE)
        BY <3>1, OwnerShapes, Zenon
      <4>. QED BY <1>0, <1>1, <4>1, CapturedIs
    <3>2. CASE FinishHalfCaptured(w)
      <4>1. /\ At(o, "ok") /\ tree \in Contents
            /\ Move(o, Call("store", With(HalfCaptured(c, tree), "failed"), FALSE), FALSE)
        BY <3>2, OwnerShapes, Zenon
      <4>. QED BY <1>0, <1>1, <4>1, HalfCapturedIs
    <3>. QED BY <1>9, <3>1, <3>2
  <2>2. ~Queued(o) /\ worker[w] \in {"ok", "failed"}
    BY <1>0, <2>1, OwnerAt
  <2>3. UNCHANGED <<file, worker, map, life, target, down>>
    BY <1>9 DEF FinishCaptured, FinishHalfCaptured, processVars
  <2>. QED BY <1>0, <2>1, <2>2, <2>3, OwnerCall
<1>10. CASE Store(o)
  <2>1. At(o, "store")
    BY <1>10 DEF Store
  <2>2. /\ ~Queued(o) /\ worker[w] \in {"ok", "failed"} /\ act[o] # Idle
        /\ act[o].at = "store"
    BY <1>0, <2>1, OwnerAt
  <2>3. c.status \in {"awaiting-review", "failed"}
    BY <1>3, <2>2 DEF ProperOwner
  <2>4. SaveAndEvent(o, c, "settle")
    BY <1>10, <2>3 DEF Store, Rest, Owner
  <2>5. Move(o, Call("settle", c, TRUE), TRUE)
    BY <1>0, <2>4, Moves
  <2>6. UNCHANGED <<file, worker, map, life, target, down>>
    BY <1>10 DEF Store, processVars
  <2>. QED BY <1>0, <2>2, <2>3, <2>5, <2>6, OwnerCall
<1>11. CASE AddEvent(o)
  <2>1. /\ act[o].event /\ ~Queued(o) /\ Save(o, c, act[o].at)
        /\ UNCHANGED <<file, worker, map, life, target, down>>
    BY <1>11 DEF AddEvent, processVars
  <2>2. act[o] # Idle /\ act[o].at \in OwnerPoints /\ act[o].at \in Points /\ c.status # "none"
    BY <1>0, <1>3, <2>1, IdleIs, CopyTypes DEF ProperOwner
  <2>3. Move(o, Call(act[o].at, c, FALSE), TRUE)
    BY <1>0, <2>1, <2>2, Moves
  <2>4. /\ worker[w] # "free"
        /\ act[o].at \in {"ok", "failed", "store", "settle"} => worker[w] \in {"ok", "failed"}
        /\ act[o].at = "store" => c.status \in {"awaiting-review", "failed"}
    BY <1>3, <2>2 DEF WorkerInv, ProcessInv, Finishing, ProperOwner
  <2>. QED BY <1>0, <2>1, <2>2, <2>3, <2>4, OwnerCall
<1>. QED BY <1>5, <1>6, <1>7, <1>8, <1>9, <1>10, <1>11

(***************************************************************************)
(* A worker settles, ends or edits; the head of the queue is written; the  *)
(* daemon restarts; a request comes.                                       *)
(***************************************************************************)
LEMMA SettleKeeps ==
  ASSUME Manual, TypeOK, WorkerInv, NEW w \in Workers, Settle(w)
  PROVE  WorkerInv'
<1>. DEFINE o == Owner(w)
<1>0. /\ Review \in Actors /\ Stop \in Actors /\ Boot \in Actors /\ o \in Actors
      /\ Review # o /\ Stop # o /\ Boot # o
      /\ \A v \in Workers \ {w} : Owner(v) \in Actors /\ Owner(v) # o
  BY ManualActors, ActorsAre
<1>1. At(o, "settle") /\ Move(o, Idle, FALSE)
  BY OwnerShapes, Zenon
<1>2. "settle" \in OwnerPoints /\ "settle" # "idle" /\ "settle" # "line"
  BY DEF OwnerPoints
<1>3. ~Queued(o) /\ worker[w] \in {"ok", "failed"}
  BY <1>1, <1>2, OwnerAt, Zenon
<1>4. Idle \in Calls /\ Idle.at = "idle" /\ ProperOwner(Idle) /\ Idle.event = FALSE
  BY IdleIs DEF ProperOwner, OwnerPoints
<1>5. act'[o] = Idle /\ \A b \in Actors \ {o} : act'[b] = act[b]
  <2>1. FALSE \in BOOLEAN
    OBVIOUS
  <2>. HIDE DEF o
  <2>. QED BY <1>0, <1>1, <1>3, <1>4, <2>1, MoveIs, Zenon
<1>6. /\ worker' = [worker EXCEPT ![w] = "free"] /\ UNCHANGED <<file, map, down>>
      /\ life' = (IF life = w THEN 0 ELSE life)
      /\ target' = [a \in Actors |-> IF target[a] = w THEN 0 ELSE target[a]]
  BY DEF Settle
<1>7. life = w /\ \A v \in Workers \ {w} : worker[v] = "free"
  BY <1>3 DEF WorkerInv, ProcessInv, Lives
<1>8. \A v \in Workers : worker'[v] = "free"
  BY <1>6, <1>7 DEF TypeOK
<1>9. life' = 0 /\ map = 0 /\ 0 \notin Workers
  <2>1. map # 0 => map \in Workers /\ Running(map)
    BY Zenon DEF WorkerInv, ProcessInv, Registered
  <2>. QED BY <1>3, <1>6, <1>7, <2>1 DEF Running, Workers
<1>10. act[Review].at \notin LaunchPoints /\ act[Boot].at \notin LaunchPoints
  BY <1>3 DEF WorkerInv, Alone, Quiet
<1>11. OneEntry'
  <2>. HIDE DEF o
  <2>. QED BY <1>0, <1>1, <1>3, <1>4, MoveQueue DEF WorkerInv
<1>12. Placed'
  BY <1>0, <1>4, <1>5, Zenon DEF WorkerInv, Placed
<1>13. Alone' /\ Written'
  BY <1>0, <1>5, <1>10 DEF Alone, Written, SpawnPoints, LaunchPoints
<1>14. Registered' /\ Lives' /\ AtWork' /\ Working'
  BY <1>6, <1>8, <1>9 DEF Registered, Lives, Running, AtWork, Working, Alive, Quiet
<1>15. Finishing'
  BY <1>0, <1>4, <1>5, <1>7, <1>8 DEF WorkerInv, ProcessInv, Finishing
<1>16. Draining'
  <2>1. act[Stop].at = "drained" => target[Stop] = w
    BY <1>7 DEF WorkerInv, ProcessInv, Draining
  <2>2. target[Stop] = w => target'[Stop] = 0
    BY <1>0, <1>6
  <2>. QED BY <1>0, <1>5, <1>8, <1>9, <2>1, <2>2 DEF Draining, Quiet
<1>. QED
  BY <1>11, <1>12, <1>13, <1>14, <1>15, <1>16 DEF WorkerInv, ProcessInv

LEMMA ExitKeeps ==
  ASSUME Manual, TypeOK, WorkerInv, NEW w \in Workers, NEW end \in {"ok", "failed"},
         Exit(w, end)
  PROVE  WorkerInv'
<1>1. /\ Running(w) /\ worker' = [worker EXCEPT ![w] = end]
      /\ map' = (IF map = w THEN 0 ELSE map)
      /\ UNCHANGED <<file, queue, act, life, target, down>>
  BY DEF Exit, storeVars
<1>2. map = w /\ map' = 0 /\ life = w /\ \A v \in Workers \ {w} : worker[v] = "free"
  BY <1>1 DEF WorkerInv, ProcessInv, Registered, Lives, Running
<1>3. worker'[w] = end /\ \A v \in Workers \ {w} : worker'[v] = worker[v]
  BY <1>1 DEF TypeOK
<1>4. ~Quiet /\ ~Quiet'
  BY <1>1, <1>3 DEF Quiet, Running
<1>5. OneEntry' /\ Placed' /\ Written'
  BY <1>1 DEF WorkerInv, OneEntry, Placed, Written, ProperReview, ProperStop, ProperBoot,
              ProperOwner, Queued
<1>6. Alone'
  BY <1>1, <1>4 DEF WorkerInv, Alone
<1>7. Registered' /\ Lives' /\ Working'
  BY <1>1, <1>2, <1>3 DEF WorkerInv, ProcessInv, Registered, Lives, Running, Working, Alive
<1>8. Finishing'
  BY <1>1, <1>3 DEF WorkerInv, ProcessInv, Finishing
<1>9. AtWork' /\ Draining'
  BY <1>1, <1>4 DEF WorkerInv, ProcessInv, AtWork, Draining
<1>. QED BY <1>5, <1>6, <1>7, <1>8, <1>9 DEF WorkerInv, ProcessInv

LEMMA FrameKeeps ==
  ASSUME WorkerInv, UNCHANGED <<file, queue, act, worker, map, life, target, down>>
  PROVE  WorkerInv'
<1>1. OneEntry' /\ Placed' /\ Written' /\ Alone'
  BY DEF WorkerInv, OneEntry, Placed, Written, ProperReview, ProperStop, ProperBoot,
         ProperOwner, Queued, Alone, Quiet
<1>2. ProcessInv'
  BY DEF WorkerInv, ProcessInv, Registered, Lives, Running, Working, Alive, Finishing,
         AtWork, Draining, Quiet
<1>. QED BY <1>1, <1>2 DEF WorkerInv

(* Only a call that holds a copy of the session is in the queue, and the   *)
(* write of its copy leaves every other call where it is.                  *)
LEMMA WriteIs ==
  ASSUME TypeOK, OneEntry, Write
  PROVE  \E b \in Actors :
           /\ file' = act[b].copy /\ act[b].copy.status # "none" /\ act[b] # Idle
           /\ act'[b] \in {act[b], Idle}
           /\ act'[b] = Idle => act[b].at = "idle"
           /\ \A d \in Actors \ {b} : act'[d] = act[d]
           /\ \A d \in Actors \ {b} : Queued(d)' <=> Queued(d)
           /\ Queued(b) /\ ~Queued(b)'
           /\ OneEntry'
<1>1. /\ queue # <<>> /\ file' = Head(queue)[2] /\ queue' = Tail(queue)
      /\ act' = [act EXCEPT ![Head(queue)[1]] =
                   IF @.at = "idle" /\ ~@.event THEN Idle ELSE @]
  BY DEF Write
<1>2. /\ Len(queue) \in Nat \ {0} /\ Head(queue) = queue[1]
      /\ queue[1][1] \in Actors /\ 1 \in 1..Len(queue)
      /\ Len(queue') = Len(queue) - 1
      /\ \A i \in 1..(Len(queue) - 1) : queue'[i] = queue[i + 1]
  BY <1>1, QueueIs
<1>3. PICK b \in Actors : b = queue[1][1]
  BY <1>2
<1>4. file' = act[b].copy /\ act[b].copy.status # "none"
  BY <1>1, <1>2, <1>3 DEF OneEntry
<1>5. act[b] # Idle
  BY <1>4, IdleIs, SessionIs DEF Statuses
<1>6. /\ act'[b] = (IF act[b].at = "idle" /\ ~act[b].event THEN Idle ELSE act[b])
      /\ \A d \in Actors \ {b} : act'[d] = act[d]
  BY <1>1, <1>2, <1>3 DEF TypeOK
<1>7. \A i \in 1..Len(queue) : queue[i][1] = b => i = 1
  BY <1>2, <1>3 DEF OneEntry
<1>8. Queued(b) /\ ~Queued(b)'
  BY <1>2, <1>3, <1>7 DEF Queued
<1>9. ASSUME NEW d \in Actors \ {b} PROVE Queued(d)' <=> Queued(d)
  <2>1. ASSUME NEW i \in 1..Len(queue), queue[i][1] = d
        PROVE  i - 1 \in 1..Len(queue') /\ queue'[i - 1][1] = d
    <3>1. i # 1 /\ i \in Nat
      BY <1>3, <2>1
    <3>2. i - 1 \in 1..(Len(queue) - 1) /\ (i - 1) + 1 = i
      BY <1>2, <3>1
    <3>. QED BY <1>2, <2>1, <3>2
  <2>2. ASSUME NEW i \in 1..Len(queue'), queue'[i][1] = d
        PROVE  i + 1 \in 1..Len(queue) /\ queue[i + 1][1] = d
    BY <1>2, <2>2
  <2>. QED BY <2>1, <2>2 DEF Queued
<1>10. OneEntry'
  <2>1. ASSUME NEW i \in 1..Len(queue')
        PROVE  /\ i + 1 \in 1..Len(queue) /\ queue'[i] = queue[i + 1]
               /\ queue[i + 1][1] \in Actors \ {b}
    <3>1. i + 1 \in 1..Len(queue) /\ i \in 1..(Len(queue) - 1) /\ i + 1 # 1
      BY <1>2
    <3>. QED BY <1>2, <1>7, <3>1, QueueIs
  <2>2. ASSUME NEW i \in 1..Len(queue')
        PROVE  queue'[i][2] = act'[queue'[i][1]].copy /\ queue'[i][2].status # "none"
    BY <1>6, <2>1 DEF OneEntry
  <2>3. ASSUME NEW i \in 1..Len(queue'), NEW j \in 1..Len(queue'),
               queue'[i][1] = queue'[j][1]
        PROVE  i = j
    BY <1>2, <2>1, <2>3 DEF OneEntry
  <2>. QED BY <2>2, <2>3 DEF OneEntry
<1>. QED BY <1>4, <1>5, <1>6, <1>8, <1>9, <1>10

LEMMA WriteKeeps ==
  ASSUME Manual, TypeOK, WorkerInv, Write
  PROVE  WorkerInv'
<1>0. /\ Review \in Actors /\ Stop \in Actors /\ Boot \in Actors
      /\ \A w \in Workers : Owner(w) \in Actors
  BY ManualActors, ActorsAre
<1>1. PICK b \in Actors :
        /\ file' = act[b].copy /\ act[b].copy.status # "none" /\ act[b] # Idle
        /\ act'[b] \in {act[b], Idle}
        /\ act'[b] = Idle => act[b].at = "idle"
        /\ \A d \in Actors \ {b} : act'[d] = act[d]
        /\ \A d \in Actors \ {b} : Queued(d)' <=> Queued(d)
        /\ Queued(b) /\ OneEntry'
  BY WriteIs, Zenon DEF WorkerInv
<1>2. UNCHANGED <<worker, map, life, target, down>>
  BY DEF Write, processVars
<1>3. \A d \in Actors : act'[d] = act[d] \/ act'[d] = Idle
  BY <1>1
<1>4. Idle.at = "idle" /\ Idle.event = FALSE
  BY IdleIs
<1>5. Placed'
  <2>1. ProperReview(Idle) /\ ProperStop(Idle) /\ ProperBoot(Idle) /\ ProperOwner(Idle)
    BY <1>4 DEF ProperReview, ProperStop, ProperBoot, ProperOwner, ReviewPoints, StopPoints,
                BootPoints, OwnerPoints
  <2>. QED BY <1>0, <1>3, <2>1, Zenon DEF WorkerInv, Placed
<1>6. Alone'
  BY <1>0, <1>2, <1>3, <1>4 DEF WorkerInv, Alone, Quiet, LaunchPoints
<1>7. Written'
  <2>. SUFFICES ASSUME NEW a \in {Review, Boot}, act'[a].at \in SpawnPoints, ~Queued(a)'
                PROVE  file'.status = "running"
    BY Zenon DEF Written
  <2>1. a \in Actors /\ act'[a] = act[a] /\ act[a].at \in LaunchPoints
    BY <1>0, <1>3, <1>4 DEF SpawnPoints, LaunchPoints
  <2>2. \A d \in Actors \ {a} : act[d] = Idle
    BY <2>1, Zenon DEF WorkerInv, Alone
  <2>3. b = a
    BY <1>1, <2>2
  <2>4. act[a].copy.status = "running"
    BY <2>1 DEF WorkerInv, Placed, ProperReview, ProperBoot, SpawnPoints, ReviewPoints,
                BootPoints
  <2>. QED BY <1>1, <2>3, <2>4
<1>8. Registered' /\ Lives'
  BY <1>2 DEF WorkerInv, ProcessInv, Registered, Lives, Running
<1>9. Finishing'
  BY <1>0, <1>2, <1>3, <1>4 DEF WorkerInv, ProcessInv, Finishing
<1>10. AtWork' /\ Draining'
  BY <1>0, <1>1, <1>2, <1>3, <1>4 DEF WorkerInv, ProcessInv, AtWork, Draining, Quiet
<1>11. Working'
  <2>. SUFFICES ASSUME NEW w \in Workers, Alive(w)
                PROVE  /\ act'[Stop].at \in {"load", "hold", "kill", "killOnExit"} =>
                            target[Stop] = w
                       /\ act'[Stop].at \notin {"drain", "drained"}
                       /\ act'[Stop].at \notin {"kill", "killOnExit"} =>
                            /\ file'.status = "running"
                            /\ \A a \in Actors : act'[a] = Idle \/ act'[a].copy.status = "running"
    BY <1>2 DEF Working, Alive
  <2>1. \/ act'[Stop] = act[Stop]
        \/ act'[Stop] = Idle /\ act[Stop].at = "idle"
    BY <1>0, <1>1
  <2>2. /\ act[Stop].at \in {"load", "hold", "kill", "killOnExit"} => target[Stop] = w
        /\ act[Stop].at \notin {"drain", "drained"}
        /\ act[Stop].at \notin {"kill", "killOnExit"} =>
             \A a \in Actors : act[a] = Idle \/ act[a].copy.status = "running"
    BY Zenon DEF WorkerInv, ProcessInv, Working
  <2>3. act'[Stop].at \notin {"kill", "killOnExit"} =>
          \A a \in Actors : act[a] = Idle \/ act[a].copy.status = "running"
    BY <2>1, <2>2
  <2>. QED BY <1>1, <1>3, <1>4, <2>1, <2>2, <2>3
<1>. QED
  BY <1>1, <1>5, <1>6, <1>7, <1>8, <1>9, <1>10, <1>11 DEF WorkerInv, ProcessInv

LEMMA RestartKeeps ==
  ASSUME Manual, TypeOK, Restart
  PROVE  WorkerInv'
<1>0. /\ Review \in Actors /\ Stop \in Actors /\ Boot \in Actors
      /\ Review # Boot /\ Stop # Boot
      /\ \A w \in Workers : Owner(w) \in Actors /\ Owner(w) # Boot
  BY ManualActors, ActorsAre
<1>1. PICK e \in Calls : e.at = "initialize" /\ e.event = FALSE
                         /\ e = [Idle EXCEPT !.at = "initialize"]
  <2>1. [Idle EXCEPT !.at = "initialize"] \in Calls
    BY IdleIs DEF Calls, Points
  <2>2. [Idle EXCEPT !.at = "initialize"].at = "initialize"
        /\ [Idle EXCEPT !.at = "initialize"].event = FALSE
    BY IdleIs DEF Calls
  <2>. QED BY <2>1, <2>2
<1>2. act' = [a \in Actors |-> IF a = Boot THEN e ELSE Idle]
  BY <1>1 DEF Restart
<1>3. /\ act'[Boot] = e /\ \A a \in Actors \ {Boot} : act'[a] = Idle
  BY <1>0, <1>2
<1>4. /\ queue' = <<>> /\ worker' = [w \in Workers |-> "free"] /\ map' = 0 /\ life' = 0
      /\ target' = [a \in Actors |-> 0] /\ down' = FALSE
  BY DEF Restart
<1>5. Idle.at = "idle" /\ Idle.event = FALSE
  BY IdleIs
<1>6. \A w \in Workers : worker'[w] = "free"
  BY <1>4
<1>7. Placed'
  <2>1. ProperReview(Idle) /\ ProperStop(Idle) /\ ProperBoot(e) /\ ProperOwner(Idle)
    BY <1>1, <1>5 DEF ProperReview, ProperStop, ProperBoot, ProperOwner, ReviewPoints,
                      StopPoints, BootPoints, OwnerPoints
  <2>. QED BY <1>0, <1>3, <2>1, Zenon DEF Placed
<1>8. OneEntry'
  BY <1>4 DEF OneEntry
<1>9. Alone' /\ Written'
  <2>1. Quiet' /\ ~down'
    BY <1>4, <1>6 DEF Quiet
  <2>2. act'[Review].at \notin LaunchPoints /\ act'[Review].at \notin SpawnPoints
    BY <1>0, <1>3, <1>5 DEF LaunchPoints, SpawnPoints
  <2>3. act'[Boot].at \notin SpawnPoints
    BY <1>1, <1>3 DEF SpawnPoints
  <2>. QED BY <1>0, <1>3, <2>1, <2>2, <2>3, Zenon DEF Alone, Written
<1>10. Registered' /\ Lives'
  BY <1>4, <1>6 DEF Registered, Lives, Running, Workers
<1>11. Finishing' /\ AtWork' /\ Draining' /\ Working'
  BY <1>0, <1>3, <1>4, <1>5, <1>6
  DEF Finishing, AtWork, Draining, Working, Alive, Quiet
<1>. QED BY <1>7, <1>8, <1>9, <1>10, <1>11 DEF WorkerInv, ProcessInv

LEMMA StartsWorking == Manual /\ Init => WorkerInv
<1>. SUFFICES ASSUME Manual, Init PROVE WorkerInv
  OBVIOUS
<1>0. /\ Review \in Actors /\ Stop \in Actors /\ Boot \in Actors
      /\ \A w \in Workers : Owner(w) \in Actors
  BY ManualActors, ActorsAre
<1>1. /\ \A a \in Actors : act[a] = Idle
      /\ \A w \in Workers : worker[w] = "free"
      /\ queue = <<>> /\ map = 0 /\ life = 0 /\ down = FALSE
  BY DEF Init
<1>2. Idle.at = "idle" /\ Idle.event = FALSE
  BY IdleIs
<1>3. Placed
  <2>1. ProperReview(Idle) /\ ProperStop(Idle) /\ ProperBoot(Idle) /\ ProperOwner(Idle)
    BY <1>2 DEF ProperReview, ProperStop, ProperBoot, ProperOwner, ReviewPoints,
                StopPoints, BootPoints, OwnerPoints
  <2>. QED BY <1>0, <1>1, <2>1, Zenon DEF Placed
<1>4. OneEntry
  BY <1>1 DEF OneEntry
<1>5. Alone /\ Written
  BY <1>0, <1>1, <1>2 DEF Alone, Written, SpawnPoints, LaunchPoints
<1>6. Registered /\ Lives
  BY <1>1 DEF Registered, Lives, Running, Workers
<1>7. Finishing /\ AtWork /\ Draining /\ Working
  BY <1>0, <1>1, <1>2 DEF Finishing, AtWork, Draining, Working, Alive, Quiet
<1>. QED BY <1>3, <1>4, <1>5, <1>6, <1>7 DEF WorkerInv, ProcessInv

(* While calls are at rest a worker is alive only if the file says running. *)
LEMMA CalmWorkers ==
  ASSUME Manual, TypeOK, WorkerInv, Calm, NEW w \in Workers, worker[w] # "free"
  PROVE  Alive(w) /\ map = w /\ file.status = "running"
<1>1. Alive(w) /\ Running(w)
  BY DEF Calm, Alive, Running
<1>2. Stop \in Actors /\ act[Stop] = Idle /\ Idle.at = "idle"
  BY ActorsAre, IdleIs DEF Calm
<1>3. map = w
  BY <1>1, Zenon DEF WorkerInv, ProcessInv, Registered
<1>4. file.status = "running"
  BY <1>1, <1>2 DEF WorkerInv, ProcessInv, Working
<1>. QED BY <1>1, <1>3, <1>4

LEMMA RequestIs ==
  ASSUME Manual, TypeOK, WorkerInv, NEW a \in Requests, NEW op \in Operations \ {"line"},
         Request(a, op)
  PROVE  /\ act[a] = Idle /\ ~Queued(a) /\ ~down /\ a \in {Review, Stop}
         /\ op \in Points /\ op \in Names
         /\ op \in Stops <=> a = Stop
         /\ Calm \/ (a = Stop /\ \A b \in Actors : act[b].at \notin Launching)
         /\ Accepts(op, file) /\ act[Boot].at = "idle"
         /\ Move(a, Call(op, file, FALSE), FALSE)
         /\ UNCHANGED <<file, worker, map, life, target, down>>
         /\ Calm /\ a = Review => Quiet
<1>1. op \in Points /\ op \in Names /\ op # "line"
  BY SessionAssumption DEF Points, Names
<1>2. a \in {Review, Stop} /\ a \in Actors
  BY ManualActors DEF Requests, Actors
<1>3. /\ act[a] = Idle /\ act[Boot].at = "idle" /\ ~down
      /\ op \in Stops <=> a = Stop
      /\ Calm \/ (op \in Stops /\ \A b \in Actors : act[b].at \notin Launching)
      /\ Accepts(op, file) /\ Await(a, file, op)
      /\ UNCHANGED <<file, worker, map, life, target, down>>
  BY DEF Request, Manual, processVars
<1>4. ~Queued(a)
  <2>1. Idle.copy.status = "none"
    BY IdleIs, SessionIs DEF Statuses
  <2>. QED BY <1>3, <2>1 DEF Queued, WorkerInv, OneEntry
<1>5. Move(a, Call(op, file, FALSE), FALSE)
  <2>1. file \in Sessions
    BY DEF TypeOK
  <2>. QED BY <1>1, <1>2, <1>3, <2>1, Moves
<1>6. Calm /\ a = Review => Quiet
  <2>. SUFFICES ASSUME Calm, a = Review, NEW w \in Workers, worker[w] # "free"
                PROVE  FALSE
    BY DEF Quiet
  <2>1. file.status = "running"
    BY CalmWorkers
  <2>2. op \notin Stops
    BY <1>3, ManualActors
  <2>3. ~Accepts(op, file)
    BY <1>1, <2>1, <2>2 DEF Accepts, Stops, Names, CanContinue, Reviewable, CanRestore,
                            CanApply, CanReject
  <2>. QED BY <1>3, <2>3
<1>. QED BY <1>1, <1>2, <1>3, <1>4, <1>5, <1>6

LEMMA RequestKeeps ==
  ASSUME Manual, TypeOK, WorkerInv, NEW a \in Requests, NEW op \in Operations \ {"line"},
         Request(a, op)
  PROVE  WorkerInv'
<1>. DEFINE e == Call(op, file, FALSE)
<1>0. /\ act[a] = Idle /\ ~Queued(a) /\ ~down /\ a \in {Review, Stop}
      /\ op \in Points /\ op \in Names /\ op # "line"
      /\ op \in Stops <=> a = Stop
      /\ Calm \/ (a = Stop /\ \A b \in Actors : act[b].at \notin Launching)
      /\ Accepts(op, file) /\ act[Boot].at = "idle"
      /\ Move(a, e, FALSE)
      /\ UNCHANGED <<file, worker, map, life, target, down>>
      /\ Calm /\ a = Review => Quiet
  BY RequestIs, Zenon
<1>1. file \in Sessions /\ FALSE \in BOOLEAN
  BY DEF TypeOK
<1>2. e \in Calls /\ e.at = op /\ e.copy = file /\ e.event = FALSE
  BY <1>0, <1>1, CallIs
<1>3. act[Boot].at \notin LaunchPoints
  BY <1>0 DEF LaunchPoints
<1>. HIDE DEF e
<1>4. CASE a = Review
  <2>1. op \notin Stops /\ Calm /\ Quiet
    BY <1>0, <1>4, ManualActors
  <2>2. op = "create" \/ file.status # "none"
    BY <1>0, <2>1 DEF Accepts, Stops, Names, CanContinue, Reviewable, CanRestore, CanApply,
                      CanReject
  <2>3. ProperReview(e)
    BY <1>0, <1>2, <2>1, <2>2 DEF ProperReview, ReviewPoints, Names, Stops
  <2>4. e.at \notin SpawnPoints
    BY <1>0, <1>2 DEF SpawnPoints, Names
  <2>5. \A b \in Actors \ {Review} : act[b] = Idle
    BY <2>1 DEF Calm
  <2>. QED BY <1>0, <1>1, <1>2, <1>3, <1>4, <2>1, <2>3, <2>4, <2>5, ReviewMove
<1>5. CASE a = Stop
  <2>1. op \in Stops
    BY <1>0, <1>5
  <2>2. ProperStop(e)
    BY <1>2, <2>1 DEF ProperStop, StopPoints, Stops
  <2>3. act[Review].at \notin LaunchPoints
    <3>1. Review \in Actors
      BY ManualActors
    <3>2. CASE Calm
      BY <3>1, <3>2, IdleIs DEF Calm, LaunchPoints
    <3>3. CASE \A b \in Actors : act[b].at \notin Launching
      <4>1. act[Review].at \notin Launching /\ act[Review].at \in ReviewPoints
        BY <3>1, <3>3 DEF WorkerInv, Placed, ProperReview
      <4>. QED BY <4>1 DEF Launching, Starts, LaunchPoints, ReviewPoints
    <3>. QED BY <1>0, <3>2, <3>3
  <2>4. \A w \in Workers : Alive(w) =>
          /\ e.at \notin {"load", "hold", "kill", "killOnExit", "drain", "drained"}
          /\ act[Stop].at = "idle"
          /\ e.copy.status = "running"
    <3>1. act[Stop] = Idle /\ act[Stop].at = "idle"
      BY <1>0, <1>5, IdleIs
    <3>2. \A w \in Workers : Alive(w) => file.status = "running"
      BY <3>1 DEF WorkerInv, ProcessInv, Working
    <3>. QED BY <1>2, <2>1, <3>1, <3>2 DEF Stops
  <2>5. \A w \in Workers : Alive(w) =>
          /\ e.at \in {"load", "hold", "kill", "killOnExit"} => target'[Stop] = w
          /\ e.at \notin {"drain", "drained"}
          /\ e.at \notin {"kill", "killOnExit"} =>
               /\ act[Stop].at \notin {"kill", "killOnExit"}
               /\ e = Idle \/ e.copy.status = "running"
    BY <2>4
  <2>6. e.at # "drained"
    BY <1>2, <2>1 DEF Stops
  <2>. QED BY <1>0, <1>1, <1>2, <1>3, <1>5, <2>2, <2>3, <2>5, <2>6, StopMove, Zenon
<1>. QED BY <1>0, <1>4, <1>5

-----------------------------------------------------------------------------
LEMMA SharedKeeps ==
  ASSUME Manual, TypeOK, WorkerInv, NEW a \in Actors, SharedStep(a)
  PROVE  WorkerInv'
<1>1. CASE a = Review
  BY <1>1, ReviewNever, ReviewSharedKeeps, SpawnKeeps, Zenon DEF SharedStep
<1>2. CASE a = Stop
  BY <1>2, StopNever, StopEvent, Zenon DEF SharedStep
<1>3. CASE a = Boot
  <2>1. ASSUME NEW p \in DOMAIN Starts, NEW w \in Workers, Spawn(Boot, w, p)
        PROVE  WorkerInv'
    <3>1. p = "recover" /\ Boot \in {Review, Boot} /\ Boot # Review
      BY <2>1, BootNever, ManualActors
    <3>2. p \in {"start", "recover"}
      BY <3>1
    <3>. QED BY <2>1, <3>1, <3>2, SpawnKeeps
  <2>2. ASSUME NEW p \in DOMAIN Starts, Launch(Boot, p)
        PROVE  WorkerInv'
    BY <2>2, BootNever, BootKeeps
  <2>. QED BY <1>3, <2>1, <2>2, BootNever, BootKeeps, Zenon DEF SharedStep
<1>4. ASSUME NEW w \in Workers, a = Owner(w) PROVE WorkerInv'
  BY <1>4, OwnerNever, OwnerKeeps, Zenon DEF SharedStep
<1>5. a \in {Review, Stop, Boot} \/ \E w \in Workers : a = Owner(w)
  BY ManualActors DEF Actors, Requests
<1>. QED BY <1>1, <1>2, <1>3, <1>4, <1>5

LEMMA RequestsKeep ==
  ASSUME Manual, TypeOK, WorkerInv, NEW a \in Requests, RequestStep(a)
  PROVE  WorkerInv'
<1>1. CASE a = Review
  BY <1>1, ReviewKeeps, Zenon
<1>2. CASE a = Stop
  BY <1>2, StopNever, StopKeeps, KillKeeps, DisposedKeeps, Zenon DEF RequestStep
<1>3. a \in {Review, Stop}
  BY ManualActors
<1>. QED BY <1>1, <1>2, <1>3

LEMMA WorkerInduction ==
  ASSUME Manual, TypeOK, WorkerInv, [Next]_vars
  PROVE  WorkerInv'
<1>1. CASE Next
  <2>1. CASE ManagerStep
    <3>1. CASE Write
      BY <3>1, WriteKeeps
    <3>2. CASE Initialize
      BY <3>2, BootKeeps
    <3>3. ASSUME NEW a \in Actors, SharedStep(a) PROVE WorkerInv'
      BY <3>3, SharedKeeps
    <3>4. ASSUME NEW a \in Requests, RequestStep(a) PROVE WorkerInv'
      BY <3>4, RequestsKeep
    <3>5. ASSUME NEW w \in Workers, WorkerStep(w) PROVE WorkerInv'
      BY <3>5, OwnerKeeps, SettleKeeps, Zenon DEF WorkerStep
    <3>. QED BY <2>1, <3>1, <3>2, <3>3, <3>4, <3>5, Zenon DEF ManagerStep
  <2>2. ASSUME NEW a \in Requests, NEW op \in Operations \ {"line"}, Request(a, op)
        PROVE  WorkerInv'
    BY <2>2, RequestKeeps
  <2>3. ASSUME NEW w \in Workers, Line(w) PROVE WorkerInv'
    BY <2>3, OwnerKeeps
  <2>4. ASSUME NEW w \in Workers, NEW c \in Contents, Edit(w, c) PROVE WorkerInv'
    <3>1. UNCHANGED <<file, queue, act, worker, map, life, target, down>>
      BY <2>4 DEF Edit, storeVars, processVars
    <3>. QED BY <3>1, FrameKeeps
  <2>5. ASSUME NEW w \in Workers, NEW end \in {"ok", "failed"}, Exit(w, end)
        PROVE  WorkerInv'
    BY <2>5, ExitKeeps
  <2>6. CASE Restart
    BY <2>6, RestartKeeps
  <2>. QED BY <1>1, <2>1, <2>2, <2>3, <2>4, <2>5, <2>6, Zenon DEF Next
<1>2. CASE UNCHANGED vars
  <2>1. UNCHANGED <<file, queue, act, worker, map, life, target, down>>
    BY <1>2 DEF vars, storeVars, processVars
  <2>. QED BY <2>1, FrameKeeps
<1>. QED BY <1>1, <1>2

(* The inductive invariant of the workers: of whoever may start, end or    *)
(* wait for one, at most one is at it, and the manager's maps of workers   *)
(* and lifecycles name it.                                                 *)
THEOREM WorkersInvariant == Manual => (Spec => [](TypeOK /\ WorkerInv))
<1>. SUFFICES ASSUME Manual PROVE Spec => [](TypeOK /\ WorkerInv)
  OBVIOUS
<1>1. Init => WorkerInv
  BY StartsWorking
<1>2. TypeOK /\ WorkerInv /\ [Next]_vars => WorkerInv'
  BY WorkerInduction
<1>. QED BY <1>1, <1>2, SessionTypeCorrect, PTL DEF Spec

(* While requests come one at a time and verification is asked for by hand, *)
(* one worker process at most is in the worktree; no worker outlives the    *)
(* turn of a session that is at rest, and none outlives dispose(), whatever *)
(* the crashes, the cancels and the pauses in between.                      *)
THEOREM WorkersAlone == Manual => (Spec => []OneWorker)
<1>. SUFFICES ASSUME Manual PROVE Spec => []OneWorker
  OBVIOUS
<1>1. TypeOK /\ WorkerInv => OneWorker
  <2>. SUFFICES ASSUME TypeOK, WorkerInv PROVE OneWorker
    OBVIOUS
  <2>1. ASSUME NEW v \in Workers, NEW w \in Workers, Running(v), Running(w)
        PROVE  v = w
    BY <2>1 DEF WorkerInv, ProcessInv, Registered
  <2>2. ASSUME Calm, file.status \in {"cancelled", "paused", "rejected", "applied",
                                      "awaiting-review"},
               NEW w \in Workers
        PROVE  worker[w] = "free"
    BY <2>2, CalmWorkers
  <2>3. ASSUME down, NEW w \in Workers PROVE worker[w] = "free"
    BY <2>3 DEF WorkerInv, ProcessInv, Draining, Quiet
  <2>. QED BY <2>1, <2>2, <2>3 DEF OneWorker
<1>. QED BY <1>1, WorkersInvariant, PTL

-----------------------------------------------------------------------------
(***************************************************************************)
(* Every step of the request in progress except the start of its worker:   *)
(* it leaves, it saves its copy again after an event, or it goes on.       *)
(***************************************************************************)
ReviewLeaves ==
  /\ ~act[Review].event /\ act[Review].at \notin {"idle", "store", "gates", "command"}
  /\ Move(Review, Idle, FALSE)
  /\ \/ tree' = tree
     \/ act[Review].at = "remove" /\ tree' = Gone
  /\ UNCHANGED <<patch, workspace, passedOn>>
ReviewSaves ==
  /\ act[Review].event
  /\ Move(Review, Call(act[Review].at, act[Review].copy, FALSE), TRUE)
  /\ UNCHANGED <<tree, patch, workspace, passedOn>>
ReviewLaunches ==
  LET c == act[Review].copy IN
  \/ /\ act[Review].at = "create" /\ tree' = 0
     /\ Move(Review, Call("start", Session("preparing"), TRUE), TRUE)
     /\ UNCHANGED <<patch, workspace, passedOn>>
  \/ /\ act[Review].at = "continue" /\ tree # Gone /\ patch' = 0
     /\ Move(Review, Call("start", Continued(c), TRUE), TRUE)
     /\ UNCHANGED <<tree, workspace, passedOn>>
  \/ /\ act[Review].at = "resume" /\ tree # Gone
     /\ IF c.diff # 0
          THEN Move(Review, Call("idle", With(c, "awaiting-review"), TRUE), TRUE)
          ELSE Move(Review, Call("start", c, TRUE), FALSE)
     /\ UNCHANGED <<tree, patch, workspace, passedOn>>
  \/ /\ act[Review].at = "start"
     /\ Move(Review, Call("spawn", With(c, "running"), FALSE), TRUE)
     /\ UNCHANGED <<tree, patch, workspace, passedOn>>
ReviewChecks ==
  LET c == act[Review].copy IN
  \/ /\ act[Review].at = "runTests" /\ tree # Gone
     /\ Move(Review, Call("gates", With(c, "testing"), TRUE), TRUE)
     /\ UNCHANGED <<tree, patch, workspace, passedOn>>
  \/ /\ act[Review].at = "gates"
     /\ \E outcome \in Outcomes(Review) :
          /\ TestsStatus(outcome) \in Results /\ Passed("tests", outcome)
          /\ Move(Review, Call("idle", With(Marked(c, "tests", TestsStatus(outcome)),
                                            "awaiting-review"), TRUE), TRUE)
     /\ UNCHANGED <<tree, patch, workspace>>
  \/ /\ act[Review].at = "reproduce" /\ tree # Gone
     /\ Move(Review, Call("command", c, TRUE), FALSE)
     /\ UNCHANGED <<tree, patch, workspace, passedOn>>
  \/ /\ act[Review].at \in {"command", "semanticReview"}
     /\ \E g \in Gates \ {"tests"}, r \in {"passed", "failed"} :
          Passed(g, r) /\ Move(Review, Call("idle", Marked(c, g, r), TRUE), TRUE)
     /\ UNCHANGED <<tree, patch, workspace>>
  \/ /\ act[Review].at = "checkpoint" /\ tree # Gone
     /\ Move(Review, Call("idle", Kept(c, {patch} \cap {c.diff}), TRUE), TRUE)
     /\ UNCHANGED <<tree, patch, workspace, passedOn>>
ReviewDecides ==
  LET c == act[Review].copy IN
  \/ /\ act[Review].at = "restoreCheckpoint"
     /\ \E x \in Contents :
          /\ tree' = x /\ patch' = x
          /\ Move(Review, Call("store", With(Captured(c, x), "awaiting-review"), FALSE), FALSE)
     /\ UNCHANGED <<workspace, passedOn>>
  \/ /\ act[Review].at = "apply" /\ workspace = 0 /\ patch # 0 /\ workspace' = patch
     /\ Move(Review, Call("store", With(c, "applied"), FALSE), FALSE)
     /\ UNCHANGED <<tree, patch, passedOn>>
  \/ /\ act[Review].at = "revert" /\ workspace' = 0
     /\ Move(Review, Call("store", With(c, "reverted"), FALSE), FALSE)
     /\ UNCHANGED <<tree, patch, passedOn>>
  \/ /\ act[Review].at = "reject"
     /\ Move(Review, Call("remove", With(c, "rejected"), TRUE), TRUE)
     /\ UNCHANGED <<tree, patch, workspace, passedOn>>
  \/ /\ act[Review].at = "store"
     /\ \E p \in {"remove", "idle"} :
          /\ p = "remove" <=> c.status = "applied"
          /\ Move(Review, Call(p, c, TRUE), TRUE)
     /\ UNCHANGED <<tree, patch, workspace, passedOn>>

ReviewStep ==
  /\ UNCHANGED <<file, worker, map, life, target, down, epoch>>
  /\ ~Queued(Review) /\ act[Review] # Idle
  /\ \/ ReviewLeaves \/ ReviewSaves
     \/ ~act[Review].event /\ (ReviewLaunches \/ ReviewChecks \/ ReviewDecides)

LEMMA RequestStepIs ==
  ASSUME Manual, TypeOK, WorkerInv, RequestStep(Review)
  PROVE  ReviewStep
<1>. DEFINE c == act[Review].copy
<1>0. Review \in Actors /\ c \in Sessions
  BY ManualActors, CopyTypes
<1>1. \A p \in {"create", "continue", "resume", "reproduce", "semanticReview", "checkpoint",
                "restoreCheckpoint", "apply", "reject", "revert", "command", "remove", "runTests"} :
        At(Review, p) => /\ ~Queued(Review) /\ act[Review] # Idle /\ ~act[Review].event
                         /\ act[Review].at = p
  BY IdleIs DEF At
<1>2. UNCHANGED <<file, worker, map, life, target, down, epoch>>
  BY ReviewNever
  DEF RequestStep, Refused, Create, ContinueTask, Resume, Reproduce, Checkpoint, Restore,
      GateRun, Apply, Reject, RemoveWorktree, Revert, processVars
<1>3. CASE Create(Review)
  <2>1. At(Review, "create")
        /\ Move(Review, Call("start", Session("preparing"), TRUE), TRUE)
    BY <1>3, ReviewShapes, Zenon
  <2>2. tree' = 0 /\ UNCHANGED <<patch, workspace, passedOn>>
    BY <1>3 DEF Create, historyVars
  <2>. QED BY <1>1, <1>2, <2>1, <2>2 DEF ReviewStep, ReviewLaunches
<1>4. CASE ContinueTask(Review)
  <2>1. /\ At(Review, "continue") /\ tree # Gone
        /\ Move(Review, Call("start", Continued(c), TRUE), TRUE)
    BY <1>4, ReviewShapes, Zenon
  <2>2. patch' = 0 /\ UNCHANGED <<tree, workspace, passedOn>>
    BY <1>4 DEF ContinueTask
  <2>. QED BY <1>1, <1>2, <2>1, <2>2 DEF ReviewStep, ReviewLaunches
<1>5. CASE Resume(Review)
  <2>1. /\ At(Review, "resume") /\ tree # Gone
        /\ IF c.diff # 0
             THEN Move(Review, Call("idle", With(c, "awaiting-review"), TRUE), TRUE)
             ELSE Move(Review, Call("start", c, TRUE), FALSE)
    BY <1>5, ReviewShapes, Zenon
  <2>2. UNCHANGED <<tree, patch, workspace, passedOn>>
    BY <1>5 DEF Resume, diskVars, historyVars
  <2>. QED BY <1>1, <1>2, <2>1, <2>2 DEF ReviewStep, ReviewLaunches
<1>6. CASE Reproduce(Review)
  <2>1. At(Review, "reproduce") /\ tree # Gone /\ Move(Review, Call("command", c, TRUE), FALSE)
    BY <1>6, ReviewShapes, Zenon
  <2>2. UNCHANGED <<tree, patch, workspace, passedOn>>
    BY <1>6 DEF Reproduce, diskVars, historyVars
  <2>. QED BY <1>1, <1>2, <2>1, <2>2 DEF ReviewStep, ReviewChecks
<1>7. CASE Checkpoint(Review)
  <2>1. /\ At(Review, "checkpoint") /\ tree # Gone
        /\ Move(Review, Call("idle", Kept(c, {patch} \cap {c.diff}), TRUE), TRUE)
    BY <1>7, ReviewShapes, Zenon
  <2>2. UNCHANGED <<tree, patch, workspace, passedOn>>
    BY <1>7 DEF Checkpoint, diskVars, historyVars
  <2>. QED BY <1>1, <1>2, <2>1, <2>2 DEF ReviewStep, ReviewChecks
<1>8. ASSUME NEW x \in Contents, Restore(Review, x) PROVE ReviewStep
  <2>1. /\ At(Review, "restoreCheckpoint")
        /\ Move(Review, Call("store", With(Captured(c, x), "awaiting-review"), FALSE), FALSE)
    BY <1>8, ReviewShapes, Zenon
  <2>2. tree' = x /\ patch' = x /\ UNCHANGED <<workspace, passedOn>>
    BY <1>8 DEF Restore, historyVars
  <2>. QED BY <1>1, <1>2, <2>1, <2>2, Zenon DEF ReviewStep, ReviewDecides
<1>9. CASE Apply(Review)
  <2>1. /\ At(Review, "apply") /\ workspace = 0 /\ patch # 0
        /\ Move(Review, Call("store", With(c, "applied"), FALSE), FALSE)
    BY <1>9, ReviewShapes, Zenon
  <2>2. workspace' = patch /\ UNCHANGED <<tree, patch, passedOn>>
    BY <1>9 DEF Apply, historyVars
  <2>. QED BY <1>1, <1>2, <2>1, <2>2 DEF ReviewStep, ReviewDecides
<1>10. CASE Revert(Review)
  <2>1. /\ At(Review, "revert")
        /\ Move(Review, Call("store", With(c, "reverted"), FALSE), FALSE)
    BY <1>10, ReviewShapes, Zenon
  <2>2. workspace' = 0 /\ UNCHANGED <<tree, patch, passedOn>>
    BY <1>10 DEF Revert, historyVars
  <2>. QED BY <1>1, <1>2, <2>1, <2>2 DEF ReviewStep, ReviewDecides
<1>11. CASE Reject(Review)
  <2>1. At(Review, "reject") /\ Move(Review, Call("remove", With(c, "rejected"), TRUE), TRUE)
    BY <1>11, ReviewShapes, Zenon
  <2>2. UNCHANGED <<tree, patch, workspace, passedOn>>
    BY <1>11 DEF Reject, diskVars, historyVars
  <2>. QED BY <1>1, <1>2, <2>1, <2>2 DEF ReviewStep, ReviewDecides
<1>12. ASSUME NEW g \in Gates \ {"tests"}, NEW r \in {"passed", "failed"},
              GateRun(Review, g, r)
       PROVE  ReviewStep
  <2>1. /\ At(Review, "command") \/ At(Review, "semanticReview")
        /\ Move(Review, Call("idle", Marked(c, g, r), TRUE), TRUE)
    BY <1>12, ReviewShapes, Zenon
  <2>2. Passed(g, r) /\ UNCHANGED <<tree, patch, workspace>>
    BY <1>12 DEF GateRun, diskVars
  <2>3. /\ ~Queued(Review) /\ act[Review] # Idle /\ ~act[Review].event
        /\ act[Review].at \in {"command", "semanticReview"}
    BY <1>1, <2>1
  <2>4. ReviewChecks
    BY <2>1, <2>2, <2>3 DEF ReviewChecks
  <2>. QED BY <1>2, <2>3, <2>4 DEF ReviewStep
<1>13. CASE RemoveWorktree(Review)
  <2>1. At(Review, "remove") /\ Leave(Review) /\ tree' = Gone
        /\ UNCHANGED <<patch, workspace, passedOn>>
    BY <1>13 DEF RemoveWorktree, historyVars
  <2>2. Move(Review, Idle, FALSE)
    BY <2>1 DEF Leave, Move
  <2>. QED BY <1>1, <1>2, <2>1, <2>2 DEF ReviewStep, ReviewLeaves
<1>14. CASE Refused(Review)
  <2>1. At(Review, act[Review].at) /\ Leave(Review) /\ ~Possible(act[Review].at)
        /\ UNCHANGED <<tree, patch, workspace, passedOn>>
    BY <1>14 DEF Refused, diskVars, historyVars
  <2>2. act[Review].at \in {"continue", "runTests", "reproduce", "restoreCheckpoint", "resume",
                            "checkpoint", "apply", "revert"}
    BY <2>1 DEF Possible
  <2>3. ~Queued(Review) /\ act[Review] # Idle /\ ~act[Review].event
    BY <1>1, <2>1, <2>2
  <2>4. Move(Review, Idle, FALSE)
    BY <2>1 DEF Leave, Move
  <2>5. ReviewLeaves
    BY <2>1, <2>2, <2>3, <2>4 DEF ReviewLeaves
  <2>. QED BY <1>2, <2>3, <2>5 DEF ReviewStep
<1>. QED
  BY <1>3, <1>4, <1>5, <1>6, <1>7, <1>8, <1>9, <1>10, <1>11, <1>12, <1>13, <1>14,
     ReviewNever
  DEF RequestStep

LEMMA SharedStepIs ==
  ASSUME Manual, TypeOK, WorkerInv, SharedStep(Review),
         \A w \in Workers : ~Spawn(Review, w, "start")
  PROVE  ReviewStep
<1>. DEFINE c == act[Review].copy
<1>0. Review \in Actors /\ c \in Sessions /\ Review \in Requests
  BY ManualActors, CopyTypes
<1>1. \A p \in {"runTests", "gates", "store", "start"} :
        At(Review, p) => /\ ~Queued(Review) /\ act[Review] # Idle /\ ~act[Review].event
                         /\ act[Review].at = p
  BY IdleIs DEF At
<1>2. \/ Tests(Review) \/ (\E outcome \in Outcomes(Review) : GatesRun(Review, outcome))
      \/ Store(Review) \/ AddEvent(Review) \/ Launch(Review, "start")
  BY ReviewNever, Zenon DEF SharedStep
<1>3. UNCHANGED <<file, worker, map, life, target, down, epoch>>
  BY <1>2 DEF Tests, GatesRun, Store, AddEvent, Launch, processVars
<1>4. CASE Tests(Review)
  <2>1. /\ At(Review, "runTests") /\ tree # Gone
        /\ Move(Review, Call("gates", With(c, "testing"), TRUE), TRUE)
    BY <1>4, ReviewShapes, ReviewNever, Zenon
  <2>2. UNCHANGED <<tree, patch, workspace, passedOn>>
    BY <1>4 DEF Tests, diskVars, historyVars
  <2>. QED BY <1>1, <1>3, <2>1, <2>2 DEF ReviewStep, ReviewChecks
<1>5. ASSUME NEW outcome \in Outcomes(Review), GatesRun(Review, outcome) PROVE ReviewStep
  <2>1. /\ At(Review, "gates") /\ TestsStatus(outcome) \in Results
        /\ Move(Review, Call("idle", With(Marked(c, "tests", TestsStatus(outcome)),
                                          "awaiting-review"), TRUE), TRUE)
    BY <1>5, ReviewShapes, Zenon
  <2>2. Passed("tests", outcome) /\ UNCHANGED <<tree, patch, workspace>>
    BY <1>5 DEF GatesRun, diskVars
  <2>3. ~Queued(Review) /\ act[Review] # Idle /\ ~act[Review].event /\ act[Review].at = "gates"
    BY <1>1, <2>1
  <2>4. ReviewChecks
    BY <2>1, <2>2, <2>3, Zenon DEF ReviewChecks
  <2>. QED BY <1>3, <2>3, <2>4 DEF ReviewStep
<1>6. CASE Store(Review)
  <2>1. At(Review, "store") /\ "store" \in ReviewPoints
        /\ UNCHANGED <<tree, patch, workspace, passedOn>>
    BY <1>6 DEF Store, diskVars, historyVars, ReviewPoints
  <2>2. c.status \in {"awaiting-review", "applied", "reverted"}
    BY <2>1, ReviewAt DEF ProperReview
  <2>3. \E p \in {"remove", "idle"} : /\ p = "remove" <=> c.status = "applied"
                                      /\ SaveAndEvent(Review, c, p)
    BY <1>6, <2>2 DEF Store, Rest, Review
  <2>4. PICK p \in {"remove", "idle"} : /\ p = "remove" <=> c.status = "applied"
                                        /\ Move(Review, Call(p, c, TRUE), TRUE)
    <3>1. {"remove", "idle"} \subseteq Points
      BY DEF Points
    <3>. QED BY <1>0, <2>3, <3>1, Moves
  <2>. QED BY <1>1, <1>3, <2>1, <2>4 DEF ReviewStep, ReviewDecides
<1>7. CASE AddEvent(Review)
  <2>1. /\ act[Review].event /\ ~Queued(Review) /\ Save(Review, c, act[Review].at)
        /\ UNCHANGED <<tree, patch, workspace, passedOn>>
    BY <1>7 DEF AddEvent, diskVars, historyVars
  <2>2. act[Review].at \in Points /\ act[Review] # Idle
    BY <1>0, <2>1, CopyTypes, IdleIs
  <2>3. Move(Review, Call(act[Review].at, c, FALSE), TRUE)
    BY <1>0, <2>1, <2>2, Moves
  <2>. QED BY <1>3, <2>1, <2>2, <2>3 DEF ReviewStep, ReviewSaves
<1>8. CASE Launch(Review, "start")
  <2>1. /\ At(Review, "start")
        /\ Save(Review, With(c, "running"), "spawn") \/ Leave(Review)
        /\ UNCHANGED <<tree, patch, workspace, passedOn>>
    BY <1>0, <1>8 DEF Launch, Starts, diskVars, historyVars
  <2>2. With(c, "running") \in Sessions /\ "spawn" \in Points
    BY <1>0, WithIs DEF Statuses, Points
  <2>3. CASE Save(Review, With(c, "running"), "spawn")
    <3>1. Move(Review, Call("spawn", With(c, "running"), FALSE), TRUE)
      BY <1>0, <2>2, <2>3, Moves
    <3>. QED BY <1>1, <1>3, <2>1, <3>1 DEF ReviewStep, ReviewLaunches
  <2>4. CASE Leave(Review)
    <3>1. Move(Review, Idle, FALSE)
      BY <2>4 DEF Leave, Move
    <3>. QED BY <1>1, <1>3, <2>1, <3>1 DEF ReviewStep, ReviewLeaves
  <2>. QED BY <2>1, <2>3, <2>4
<1>. QED BY <1>2, <1>4, <1>5, <1>6, <1>7, <1>8

-----------------------------------------------------------------------------
(***************************************************************************)
(* The operator's workspace, until the first crash.  apply() and revert()  *)
(* change it before they save; in between nothing else may save.           *)
(***************************************************************************)
Changing == /\ act[Review].copy.status \in {"applied", "reverted"}
            /\ act[Review].at \in {"store", "remove", "idle"}
Still == act[Review].at \in {"apply", "revert"} \/ Changing
Halting == \/ act[Stop].event \/ Queued(Stop)
           \/ act[Stop].at = "cancel" /\ act[Stop].copy.status \in Stopping
           \/ act[Stop].at \in {"pause", "load", "hold"}

(* The workspace follows the copy of the request that changes it, and the  *)
(* file at other times.                                                    *)
Follows ==
  /\ Changing => (workspace # 0 <=> act[Review].copy.status = "applied")
  /\ ~Changing => (workspace # 0 <=> file.status = "applied")
  /\ Changing /\ ~Queued(Review) /\ act[Review].at # "store" =>
       file.status = act[Review].copy.status
Deciding ==
  /\ act[Review].copy.status \in {"applied", "reverted"} =>
       act[Review].at = "revert" \/ Changing
  /\ act[Review] # Idle /\ ~Changing /\ act[Review].at # "revert" => file.status # "applied"
  /\ Still => file.status \in {"awaiting-review", "applied", "reverted"}
  /\ act[Review].at \in {"apply", "revert"} => ~act[Review].event /\ ~Queued(Review)
Halts ==
  /\ Halting => file.status # "applied" /\ ~Still
  /\ act[Stop].event \/ Queued(Stop) => act[Stop].copy.status \in {"cancelled", "paused"}
Turns ==
  /\ ~Quiet => file.status # "applied"
  /\ \A w \in Workers : act[Owner(w)].copy.status # "applied"
AppliedInv ==
  epoch = 0 => act[Boot] = Idle /\ Follows /\ Deciding /\ Halts /\ Turns

(* A request in progress moves on: it does nothing to the workspace, or    *)
(* changes it, or saves that it did, or leaves.                            *)
LEMMA ReviewApplied ==
  ASSUME Manual, TypeOK, WorkerInv, AppliedInv, epoch = 0, epoch' = 0,
         NEW e \in Calls, NEW saved \in BOOLEAN, Move(Review, e, saved),
         ~Queued(Review), act[Review] # Idle, UNCHANGED <<file, worker>>,
         \/ /\ ~Still /\ e.at \notin {"apply", "revert"}
            /\ e.copy.status \notin {"applied", "reverted"} /\ workspace' = workspace
         \/ /\ Still /\ e.at = "store" /\ e.copy.status \in {"applied", "reverted"}
            /\ workspace' # 0 <=> e.copy.status = "applied"
            /\ ~saved
         \/ /\ Changing /\ e.copy = act[Review].copy /\ e.at \in {"store", "remove", "idle"}
            /\ saved /\ workspace' = workspace
         \/ /\ e = Idle /\ ~saved /\ workspace' = workspace
            /\ act[Review].at # "store"
  PROVE  AppliedInv'
<1>. DEFINE c == act[Review].copy
<1>0. /\ Review \in Actors /\ Stop \in Actors /\ Boot \in Actors
      /\ Review # Stop /\ Review # Boot
      /\ \A w \in Workers : Owner(w) \in Actors /\ Owner(w) # Review
  BY ManualActors, ActorsAre
<1>1. act'[Review] = e /\ \A b \in Actors \ {Review} : act'[b] = act[b]
  BY <1>0, MoveIs, Zenon
<1>2. Queued(Review)' <=> saved
  BY <1>0, MoveIs, Zenon
<1>3. Queued(Stop)' <=> Queued(Stop)
  BY <1>0, MoveIs, Zenon
<1>4. act[Boot] = Idle /\ Follows /\ Deciding /\ Halts /\ Turns
  BY DEF AppliedInv
<1>5. /\ Idle.at = "idle" /\ Idle.copy.status = "none" /\ Idle.event = FALSE
  BY IdleIs, SessionIs DEF Statuses
<1>6. Turns'
  BY <1>0, <1>1, <1>4 DEF Turns, Quiet
<1>7. CASE /\ ~Still /\ e.at \notin {"apply", "revert"}
           /\ e.copy.status \notin {"applied", "reverted"} /\ workspace' = workspace
  <2>1. ~Changing' /\ ~Still' /\ ~Changing
    BY <1>1, <1>7 DEF Still, Changing
  <2>2. Follows'
    BY <1>4, <1>7, <2>1 DEF Follows
  <2>3. Deciding'
    BY <1>1, <1>4, <1>7, <2>1 DEF Deciding, Still
  <2>4. Halts'
    BY <1>0, <1>1, <1>3, <1>4, <2>1 DEF Halts, Halting
  <2>. QED BY <1>0, <1>1, <1>4, <1>6, <2>2, <2>3, <2>4 DEF AppliedInv
<1>8. CASE /\ Still /\ e.at = "store" /\ e.copy.status \in {"applied", "reverted"}
           /\ workspace' # 0 <=> e.copy.status = "applied"
           /\ ~saved
  <2>1. Changing' /\ Still' /\ ~Halting
    BY <1>1, <1>4, <1>8 DEF Still, Changing, Halts
  <2>2. Follows'
    BY <1>1, <1>8, <2>1 DEF Follows
  <2>3. Deciding'
    BY <1>1, <1>4, <1>8, <2>1 DEF Deciding
  <2>4. Halts'
    BY <1>0, <1>1, <1>3, <1>4, <2>1 DEF Halts, Halting
  <2>. QED BY <1>0, <1>1, <1>4, <1>6, <2>2, <2>3, <2>4 DEF AppliedInv
<1>9. CASE /\ Changing /\ e.copy = c /\ e.at \in {"store", "remove", "idle"}
           /\ saved /\ workspace' = workspace
  <2>1. Changing' /\ Still' /\ Still /\ ~Halting
    BY <1>1, <1>4, <1>9 DEF Still, Changing, Halts
  <2>2. Follows'
    BY <1>1, <1>2, <1>4, <1>9, <2>1 DEF Follows
  <2>3. Deciding'
    BY <1>1, <1>4, <1>9, <2>1 DEF Deciding
  <2>4. Halts'
    BY <1>0, <1>1, <1>3, <1>4, <2>1 DEF Halts, Halting
  <2>. QED BY <1>0, <1>1, <1>4, <1>6, <2>2, <2>3, <2>4 DEF AppliedInv
<1>10. CASE /\ e = Idle /\ ~saved /\ workspace' = workspace
            /\ act[Review].at # "store"
  <2>1. ~Changing' /\ ~Still' /\ act'[Review] = Idle
    BY <1>1, <1>5, <1>10 DEF Still, Changing
  <2>2. Follows'
    BY <1>4, <1>10, <2>1 DEF Follows
  <2>3. Deciding'
    BY <1>5, <2>1 DEF Deciding
  <2>4. Halts'
    BY <1>0, <1>1, <1>3, <1>4, <2>1 DEF Halts, Halting
  <2>. QED BY <1>0, <1>1, <1>4, <1>6, <2>2, <2>3, <2>4 DEF AppliedInv
<1>. QED BY <1>7, <1>8, <1>9, <1>10

LEMMA ReviewStepApplied ==
  ASSUME Manual, TypeOK, WorkerInv, AppliedInv, epoch = 0, ReviewStep
  PROVE  AppliedInv'
<1>. DEFINE c == act[Review].copy
<1>0. Review \in Actors /\ c \in Sessions /\ act[Review].at \in Points
  BY ManualActors, CopyTypes
<1>1. /\ ~Queued(Review) /\ act[Review] # Idle /\ UNCHANGED <<file, worker>> /\ epoch' = 0
  BY DEF ReviewStep
<1>2. Deciding
  BY DEF AppliedInv
<1>3. {"start", "spawn", "idle", "gates", "command", "store", "remove"} \subseteq Points
  BY DEF Points
<1>4. \A s \in Sessions, st \in {"awaiting-review", "applied", "reverted", "rejected", "testing",
                                 "running"} :
        With(s, st) \in Sessions /\ With(s, st).status = st
  BY WithIs DEF Statuses
(* A call that does nothing to the workspace.                              *)
<1>5. ASSUME ~Still, workspace' = workspace,
             NEW p \in Points, NEW s \in Sessions, NEW v \in BOOLEAN, NEW saved \in BOOLEAN,
             p \notin {"apply", "revert"}, s.status \notin {"applied", "reverted"},
             Move(Review, Call(p, s, v), saved)
      PROVE  AppliedInv'
  <2>1. Call(p, s, v) \in Calls /\ Call(p, s, v).at = p /\ Call(p, s, v).copy = s
    BY CallIs
  <2>. QED BY <1>1, <1>5, <2>1, ReviewApplied
<1>6. ~Still => c.status \notin {"applied", "reverted"} /\ act[Review].at \notin {"apply", "revert"}
  BY <1>2 DEF Deciding, Still
<1>7. CASE ReviewLeaves
  BY <1>1, <1>7, IdleIs, ReviewApplied DEF ReviewLeaves
<1>8. CASE ReviewSaves
  <2>1. act[Review].event /\ workspace' = workspace
        /\ Move(Review, Call(act[Review].at, c, FALSE), TRUE)
    BY <1>8 DEF ReviewSaves
  <2>2. CASE ~Still
    BY <1>0, <1>5, <1>6, <2>1, <2>2
  <2>3. CASE Still
    <3>1. Changing
      BY <1>2, <2>1, <2>3 DEF Still, Deciding
    <3>2. /\ Call(act[Review].at, c, FALSE) \in Calls
          /\ Call(act[Review].at, c, FALSE).at = act[Review].at
          /\ Call(act[Review].at, c, FALSE).copy = c
      BY <1>0, CallIs
    <3>3. act[Review].at \in {"store", "remove", "idle"}
      BY <3>1 DEF Changing
    <3>. HIDE DEF c
    <3>. QED BY <1>1, <2>1, <3>1, <3>2, <3>3, ReviewApplied DEF c
  <2>. QED BY <2>2, <2>3
<1>9. CASE ReviewLaunches
  <2>1. act[Review].at \in {"create", "continue", "resume", "start"} /\ workspace' = workspace
    BY <1>9 DEF ReviewLaunches
  <2>2. ~Still
    BY <2>1 DEF Still, Changing
  <2>3. /\ Session("preparing") \in Sessions /\ Session("preparing").status = "preparing"
        /\ Continued(c) \in Sessions /\ Continued(c).status = c.status
    BY <1>0, SessionIs, ContinuedIs DEF Statuses
  <2>4. \/ Move(Review, Call("start", Session("preparing"), TRUE), TRUE)
        \/ Move(Review, Call("start", Continued(c), TRUE), TRUE)
        \/ Move(Review, Call("idle", With(c, "awaiting-review"), TRUE), TRUE)
        \/ Move(Review, Call("start", c, TRUE), FALSE)
        \/ Move(Review, Call("spawn", With(c, "running"), FALSE), TRUE)
    BY <1>9, Zenon DEF ReviewLaunches
  <2>5. c.status \notin {"applied", "reverted"}
    BY <1>6, <2>2
  <2>. HIDE DEF c
  <2>6. PICK p \in Points, s \in Sessions, v \in BOOLEAN, saved \in BOOLEAN :
          /\ p \notin {"apply", "revert"} /\ s.status \notin {"applied", "reverted"}
          /\ Move(Review, Call(p, s, v), saved)
    BY <1>0, <1>3, <1>4, <2>3, <2>4, <2>5
  <2>. QED BY <1>5, <2>1, <2>2, <2>6
<1>10. CASE ReviewChecks
  <2>1. /\ act[Review].at \in {"runTests", "gates", "reproduce", "command", "semanticReview",
                               "checkpoint"}
        /\ workspace' = workspace
    BY <1>10 DEF ReviewChecks
  <2>2. ~Still /\ c.status \notin {"applied", "reverted"}
    BY <1>6, <2>1 DEF Still, Changing
  <2>3. PICK p \in Points, s \in Sessions, saved \in BOOLEAN :
          /\ p \notin {"apply", "revert"} /\ s.status \notin {"applied", "reverted"}
          /\ Move(Review, Call(p, s, TRUE), saved)
    <3>1. CASE Move(Review, Call("gates", With(c, "testing"), TRUE), TRUE)
      <4>1. With(c, "testing") \in Sessions /\ With(c, "testing").status = "testing"
        BY <1>0, <1>4
      <4>. QED BY <1>3, <3>1, <4>1
    <3>2. ASSUME NEW r \in Results,
                 Move(Review, Call("idle", With(Marked(c, "tests", r), "awaiting-review"), TRUE), TRUE)
          PROVE  \E p \in Points, s \in Sessions, saved \in BOOLEAN :
                   /\ p \notin {"apply", "revert"} /\ s.status \notin {"applied", "reverted"}
                   /\ Move(Review, Call(p, s, TRUE), saved)
      <4>1. Marked(c, "tests", r) \in Sessions
        BY <1>0, MarkedIs, SessionAssumption
      <4>2. /\ With(Marked(c, "tests", r), "awaiting-review") \in Sessions
            /\ With(Marked(c, "tests", r), "awaiting-review").status = "awaiting-review"
        BY <1>4, <4>1
      <4>. QED BY <1>3, <3>2, <4>2
    <3>3. CASE Move(Review, Call("command", c, TRUE), FALSE)
      BY <1>0, <1>3, <2>2, <3>3
    <3>4. ASSUME NEW g \in Gates, NEW r \in {"passed", "failed"},
                 Move(Review, Call("idle", Marked(c, g, r), TRUE), TRUE)
          PROVE  \E p \in Points, s \in Sessions, saved \in BOOLEAN :
                   /\ p \notin {"apply", "revert"} /\ s.status \notin {"applied", "reverted"}
                   /\ Move(Review, Call(p, s, TRUE), saved)
      <4>1. r \in Results
        BY DEF Results
      <4>2. Marked(c, g, r) \in Sessions /\ Marked(c, g, r).status = c.status
        BY <1>0, <4>1, MarkedIs, ZenonT(40)
      <4>. QED BY <1>3, <2>2, <3>4, <4>2
    <3>5. CASE Move(Review, Call("idle", Kept(c, {patch} \cap {c.diff}), TRUE), TRUE)
      <4>1. {patch} \cap {c.diff} \in SUBSET Contents
        BY DEF TypeOK
      <4>2. /\ Kept(c, {patch} \cap {c.diff}) \in Sessions
            /\ Kept(c, {patch} \cap {c.diff}).status = c.status
        BY <1>0, <4>1, KeptIs
      <4>. QED BY <1>3, <2>2, <3>5, <4>2
    <3>. QED BY <1>10, <3>1, <3>2, <3>3, <3>4, <3>5, Zenon DEF ReviewChecks
  <2>. QED BY <1>5, <2>1, <2>2, <2>3
<1>11. CASE ReviewDecides
  <2>1. CASE act[Review].at \in {"restoreCheckpoint", "reject"}
    <3>1. ~Still /\ workspace' = workspace
      BY <1>11, <2>1 DEF Still, Changing, ReviewDecides
    <3>2. \/ \E x \in Contents :
               Move(Review, Call("store", With(Captured(c, x), "awaiting-review"), FALSE), FALSE)
          \/ Move(Review, Call("remove", With(c, "rejected"), TRUE), TRUE)
      BY <1>11, <2>1, Zenon DEF ReviewDecides
    <3>3. \A x \in Contents :
            /\ With(Captured(c, x), "awaiting-review") \in Sessions
            /\ With(Captured(c, x), "awaiting-review").status = "awaiting-review"
      BY <1>0, <1>4, CapturedIs
    <3>4. With(c, "rejected") \in Sessions /\ With(c, "rejected").status = "rejected"
      BY <1>0, <1>4
    <3>. HIDE DEF c
    <3>5. PICK p \in Points, s \in Sessions, v \in BOOLEAN, saved \in BOOLEAN :
            /\ p \notin {"apply", "revert"} /\ s.status \notin {"applied", "reverted"}
            /\ Move(Review, Call(p, s, v), saved)
      BY <1>3, <3>2, <3>3, <3>4
    <3>. QED BY <1>5, <3>1, <3>5
  <2>2. CASE act[Review].at \in {"apply", "revert"}
    <3>1. PICK st \in {"applied", "reverted"} :
            /\ Move(Review, Call("store", With(c, st), FALSE), FALSE)
            /\ workspace' # 0 <=> st = "applied"
      BY <1>11, <2>2 DEF ReviewDecides
    <3>2. With(c, st) \in Sessions /\ With(c, st).status = st
      BY <1>0, <1>4
    <3>3. PICK e \in Calls : /\ e = Call("store", With(c, st), FALSE)
                             /\ e.at = "store" /\ e.copy.status = st
      <4>1. PICK s \in Sessions : s = With(c, st)
        BY <3>2
      <4>2. /\ Call("store", s, FALSE) \in Calls
            /\ Call("store", s, FALSE).at = "store" /\ Call("store", s, FALSE).copy = s
        BY <1>3, CallIs
      <4>. QED BY <3>2, <4>1, <4>2
    <3>4. Still
      BY <2>2 DEF Still
    <3>5. Move(Review, e, FALSE)
      BY <3>1, <3>3
    <3>. QED BY <1>1, <3>1, <3>3, <3>4, <3>5, ReviewApplied
  <2>3. CASE act[Review].at = "store"
    <3>1. PICK p \in {"remove", "idle"} :
            Move(Review, Call(p, c, TRUE), TRUE) /\ workspace' = workspace
      BY <1>11, <2>3 DEF ReviewDecides
    <3>2. CASE ~Still
      BY <1>0, <1>3, <1>5, <1>6, <3>1, <3>2
    <3>3. CASE Still
      <4>1. Changing
        BY <2>3, <3>3 DEF Still
      <4>2. PICK e \in Calls : e = Call(p, c, TRUE) /\ e.at = p /\ e.copy = c
        <5>1. p \in Points
          BY <1>3
        <5>2. /\ Call(p, c, TRUE) \in Calls
              /\ Call(p, c, TRUE).at = p /\ Call(p, c, TRUE).copy = c
          BY <1>0, <5>1, CallIs
        <5>. HIDE DEF c
        <5>. QED BY <5>2
      <4>3. Move(Review, e, TRUE)
        BY <3>1, <4>2
      <4>. QED BY <1>1, <3>1, <4>1, <4>2, <4>3, ReviewApplied
    <3>. QED BY <3>2, <3>3
  <2>. QED BY <1>11, <2>1, <2>2, <2>3 DEF ReviewDecides
<1>. QED BY <1>7, <1>8, <1>9, <1>10, <1>11 DEF ReviewStep

-----------------------------------------------------------------------------
(***************************************************************************)
(* The steps of a stop, and those of the owner of a worker.                *)
(***************************************************************************)
StopEnds ==
  /\ act[Stop].at \in {"kill", "cancelTests", "drained"} /\ Move(Stop, Idle, FALSE)
StopHalts ==
  LET c == act[Stop].copy IN
  \/ /\ act[Stop].at = "cancel" /\ c.status \in Stopping
     /\ Move(Stop, Call("kill", With(c, "cancelled"), TRUE), TRUE)
  \/ /\ act[Stop].at = "pause"
     /\ Move(Stop, Call("kill", With(c, "paused"), TRUE), TRUE)
  \/ /\ act[Stop].at = "hold"
     /\ Move(Stop, Call("killOnExit", With(c, "paused"), TRUE), TRUE)
StopWaits ==
  LET c == act[Stop].copy IN
  \/ /\ act[Stop].at = "cancel" /\ c.status \notin Stopping
     /\ Move(Stop, Call("kill", c, FALSE), FALSE)
  \/ /\ act[Stop].at = "dispose" /\ map # 0 /\ Move(Stop, Call("load", c, FALSE), FALSE)
  \/ /\ act[Stop].at = "load" /\ Move(Stop, Call("hold", file, FALSE), FALSE)
  \/ /\ act[Stop].at \in {"dispose", "killOnExit"}
     /\ Move(Stop, Call("drain", c, FALSE), FALSE)
  \/ /\ act[Stop].at = "drain" /\ Move(Stop, Call("drained", c, FALSE), FALSE)
StopStep ==
  /\ UNCHANGED <<file, tree, patch, workspace, passedOn, epoch>>
  /\ \A w \in Workers : worker'[w] = "free" <=> worker[w] = "free"
  /\ ~Queued(Stop) /\ act[Stop] # Idle
  /\ \/ act[Stop].event /\ Move(Stop, Call(act[Stop].at, act[Stop].copy, FALSE), TRUE)
     \/ ~act[Stop].event /\ (StopEnds \/ StopHalts \/ StopWaits)

LEMMA StopStepIs ==
  ASSUME Manual, TypeOK, WorkerInv, RequestStep(Stop) \/ SharedStep(Stop)
  PROVE  StopStep
<1>. DEFINE c == act[Stop].copy
<1>0. Stop \in Actors /\ c \in Sessions
  BY ActorsAre, CopyTypes
<1>1. \A p \in {"cancel", "pause", "dispose", "load", "hold", "drain", "kill", "killOnExit",
                "cancelTests", "drained"} :
        At(Stop, p) => /\ ~Queued(Stop) /\ act[Stop] # Idle /\ ~act[Stop].event
                       /\ act[Stop].at = p
  BY IdleIs DEF At
<1>2. \/ Cancel(Stop) \/ Pause(Stop) \/ Dispose(Stop) \/ DisposeLoads(Stop)
      \/ DisposePauses(Stop) \/ DisposeDrains(Stop) \/ CancelTests(Stop) \/ Disposed(Stop)
      \/ Kill(Stop, "idle") \/ Kill(Stop, "drain") \/ AddEvent(Stop)
  BY StopNever, Zenon DEF RequestStep, SharedStep
<1>3. UNCHANGED <<file, tree, patch, workspace, passedOn, epoch>>
  BY <1>2 DEF Cancel, Pause, Dispose, DisposeLoads, DisposePauses, DisposeDrains, CancelTests,
              Disposed, Kill, AddEvent, diskVars, historyVars
<1>4. \A w \in Workers : worker'[w] = "free" <=> worker[w] = "free"
  <2>1. CASE ~Kill(Stop, "idle") /\ ~Kill(Stop, "drain")
    BY <1>2, <2>1
    DEF Cancel, Pause, Dispose, DisposeLoads, DisposePauses, DisposeDrains, CancelTests,
        Disposed, AddEvent, processVars
  <2>2. CASE Kill(Stop, "idle") \/ Kill(Stop, "drain")
    <3>1. \/ worker' = worker
          \/ map # 0 /\ worker' = [worker EXCEPT ![map] = "killed"]
      BY <2>2 DEF Kill
    <3>2. map # 0 => map \in Workers /\ worker[map] # "free"
      BY DEF WorkerInv, ProcessInv, Registered, Running
    <3>. QED BY <3>1, <3>2 DEF TypeOK
  <2>. QED BY <2>1, <2>2
<1>5. CASE Cancel(Stop)
  <2>1. /\ At(Stop, "cancel")
        /\ IF c.status \in Stopping
             THEN Move(Stop, Call("kill", With(c, "cancelled"), TRUE), TRUE)
             ELSE Move(Stop, Call("kill", c, FALSE), FALSE)
    BY <1>5, StopShapes, Zenon
  <2>. QED BY <1>1, <1>3, <1>4, <2>1, Zenon DEF StopStep, StopHalts, StopWaits
<1>6. CASE Pause(Stop)
  <2>1. At(Stop, "pause") /\ Move(Stop, Call("kill", With(c, "paused"), TRUE), TRUE)
    BY <1>6, StopShapes, Zenon
  <2>. QED BY <1>1, <1>3, <1>4, <2>1, Zenon DEF StopStep, StopHalts
<1>7. CASE Dispose(Stop)
  <2>1. /\ At(Stop, "dispose")
        /\ IF map = 0 THEN Move(Stop, Call("drain", c, FALSE), FALSE)
                      ELSE Move(Stop, Call("load", c, FALSE), FALSE)
    BY <1>7, StopShapes, Zenon
  <2>. QED BY <1>1, <1>3, <1>4, <2>1 DEF StopStep, StopWaits
<1>8. CASE DisposeLoads(Stop)
  <2>1. At(Stop, "load") /\ Move(Stop, Call("hold", file, FALSE), FALSE)
    BY <1>8, StopShapes, Zenon
  <2>. QED BY <1>1, <1>3, <1>4, <2>1, Zenon DEF StopStep, StopWaits
<1>9. CASE DisposePauses(Stop)
  <2>1. At(Stop, "hold") /\ Move(Stop, Call("killOnExit", With(c, "paused"), TRUE), TRUE)
    BY <1>9, StopShapes, Zenon
  <2>. QED BY <1>1, <1>3, <1>4, <2>1, Zenon DEF StopStep, StopHalts
<1>10. CASE DisposeDrains(Stop)
  <2>1. At(Stop, "drain") /\ Move(Stop, Call("drained", c, FALSE), FALSE)
    BY <1>10, StopShapes, Zenon
  <2>. QED BY <1>1, <1>3, <1>4, <2>1, Zenon DEF StopStep, StopWaits
<1>11. CASE Kill(Stop, "drain")
  <2>1. At(Stop, "killOnExit") /\ Move(Stop, Call("drain", c, FALSE), FALSE)
    BY <1>11, StopShapes, Zenon
  <2>. QED BY <1>1, <1>3, <1>4, <2>1 DEF StopStep, StopWaits
<1>12. CASE Kill(Stop, "idle") \/ CancelTests(Stop) \/ Disposed(Stop)
  <2>1. /\ At(Stop, "kill") \/ At(Stop, "cancelTests") \/ At(Stop, "drained")
        /\ Move(Stop, Idle, FALSE)
    BY <1>12, StopShapes
  <2>. QED BY <1>1, <1>3, <1>4, <2>1 DEF StopStep, StopEnds
<1>13. CASE AddEvent(Stop)
  <2>1. act[Stop].event /\ ~Queued(Stop) /\ Save(Stop, c, act[Stop].at)
    BY <1>13 DEF AddEvent
  <2>2. act[Stop].at \in Points /\ act[Stop] # Idle
    BY <1>0, <2>1, CopyTypes, IdleIs
  <2>3. Move(Stop, Call(act[Stop].at, c, FALSE), TRUE)
    BY <1>0, <2>1, <2>2, Moves
  <2>. QED BY <1>3, <1>4, <2>1, <2>2, <2>3 DEF StopStep
<1>. QED BY <1>2, <1>5, <1>6, <1>7, <1>8, <1>9, <1>10, <1>11, <1>12, <1>13

OwnerReads(w) ==
  LET o == Owner(w) IN
  /\ act[o] = Idle
  /\ \/ Running(w) /\ Move(o, Call("line", file, FALSE), FALSE)
     \/ /\ worker[w] \in {"ok", "failed"}
        /\ \E p \in {"ok", "failed", "settle"} : Move(o, Call(p, file, FALSE), FALSE)
  /\ UNCHANGED patch
OwnerSaves(w) ==
  LET o == Owner(w)  c == act[o].copy IN
  /\ act[o] # Idle
  /\ \/ Move(o, Call(act[o].at, c, FALSE), TRUE) /\ act[o].event
     \/ Move(o, Call("idle", c, TRUE), TRUE) /\ act[o].at = "line"
     \/ Move(o, Call("settle", c, TRUE), TRUE) /\ act[o].at = "store"
     \/ Move(o, Call("settle", With(c, "failed"), TRUE), TRUE) /\ act[o].at \in {"ok", "failed"}
     \/ /\ Move(o, Idle, FALSE) /\ act[o].at = "settle" /\ ~act[o].event
        /\ \A v \in Workers : worker'[v] = "free"
  /\ UNCHANGED patch
OwnerCaptures(w) ==
  LET o == Owner(w)  c == act[o].copy IN
  /\ act[o].at = "ok" /\ act[o] # Idle /\ worker[w] \in {"ok", "failed"}
  /\ tree \in Contents /\ patch' = tree
  /\ \/ Move(o, Call("store", With(Captured(c, tree), "awaiting-review"), FALSE), FALSE)
     \/ /\ HalfCaptures
        /\ Move(o, Call("store", With(HalfCaptured(c, tree), "failed"), FALSE), FALSE)
OwnerStep(w) ==
  /\ UNCHANGED <<file, tree, workspace, passedOn, epoch>>
  /\ ~Queued(Owner(w)) /\ worker[w] # "free"
  /\ worker' = worker \/ (\A v \in Workers : worker'[v] = "free")
  /\ OwnerReads(w) \/ OwnerSaves(w) \/ OwnerCaptures(w)

LEMMA OwnerStepIs ==
  ASSUME Manual, TypeOK, WorkerInv, NEW w \in Workers,
         Line(w) \/ WorkerStep(w) \/ SharedStep(Owner(w))
  PROVE  OwnerStep(w)
<1>. DEFINE o == Owner(w)
            c == act[o].copy
<1>0. /\ o \in Actors /\ c \in Sessions
      /\ {"line", "ok", "failed", "store", "settle"} \subseteq OwnerPoints
      /\ {"idle", "settle"} \subseteq Points
  BY ActorsAre, CopyTypes DEF OwnerPoints, Points
<1>1. \A p \in {"line", "ok", "failed", "store", "settle"} :
        At(o, p) => /\ ~Queued(o) /\ act[o] # Idle /\ act[o].event = FALSE /\ act[o].at = p
                    /\ worker[w] # "free"
                    /\ p # "line" => worker[w] \in {"ok", "failed"}
  BY <1>0, OwnerAt
<1>2. act[o] = Idle => ~Queued(o)
  <2>1. Idle.copy.status = "none"
    BY IdleIs, SessionIs DEF Statuses
  <2>. QED BY <2>1 DEF Queued, WorkerInv, OneEntry
<1>3. \/ Line(w) \/ LineSaved(w) \/ Finish(w) \/ FinishFailed(w) \/ FinishCaptured(w)
      \/ FinishHalfCaptured(w) \/ Settle(w) \/ Store(o) \/ AddEvent(o)
  BY OwnerNever, Zenon DEF WorkerStep, SharedStep
<1>4. UNCHANGED <<file, tree, workspace, passedOn, epoch>>
  BY <1>3 DEF Line, LineSaved, Finish, FinishFailed, FinishCaptured, FinishHalfCaptured,
              Settle, Store, AddEvent, diskVars, historyVars
<1>5. CASE Line(w)
  <2>1. Running(w) /\ act[o] = Idle /\ Move(o, Call("line", file, FALSE), FALSE)
    BY <1>5, OwnerShapes, Zenon
  <2>2. worker[w] # "free"
    BY <2>1 DEF Running
  <2>3. worker' = worker /\ patch' = patch
    BY <1>5 DEF Line, processVars, diskVars
  <2>. QED BY <1>2, <1>4, <2>1, <2>2, <2>3, Zenon DEF OwnerStep, OwnerReads
<1>6. CASE LineSaved(w)
  <2>1. At(o, "line") /\ Move(o, Call("idle", c, TRUE), TRUE)
    BY <1>6, OwnerShapes, Zenon
  <2>2. worker' = worker /\ patch' = patch
    BY <1>6 DEF LineSaved, processVars, diskVars
  <2>. QED BY <1>1, <1>4, <2>1, <2>2, Zenon DEF OwnerStep, OwnerSaves
<1>7. CASE Finish(w)
  <2>1. PICK p \in {"ok", "failed", "settle"} :
          /\ worker[w] \in {"ok", "failed"} /\ act[o] = Idle
          /\ Move(o, Call(p, file, FALSE), FALSE)
    BY <1>7, OwnerShapes, Zenon
  <2>2. worker' = worker /\ patch' = patch /\ worker[w] # "free"
    BY <1>7, <2>1 DEF Finish, processVars, diskVars
  <2>. QED BY <1>2, <1>4, <2>1, <2>2, Zenon DEF OwnerStep, OwnerReads
<1>8. CASE FinishFailed(w)
  <2>1. PICK p \in {"ok", "failed"} :
          At(o, p) /\ Move(o, Call("settle", With(c, "failed"), TRUE), TRUE)
    BY <1>8, OwnerShapes
  <2>2. worker' = worker /\ patch' = patch
    BY <1>8 DEF FinishFailed, processVars, diskVars
  <2>3. ~Queued(o) /\ act[o] # Idle /\ act[o].at \in {"ok", "failed"} /\ worker[w] # "free"
    BY <1>1, <2>1
  <2>. QED BY <1>4, <2>1, <2>2, <2>3, Zenon DEF OwnerStep, OwnerSaves
<1>9. CASE FinishCaptured(w)
  <2>1. /\ At(o, "ok") /\ tree \in Contents
        /\ Move(o, Call("store", With(Captured(c, tree), "awaiting-review"), FALSE), FALSE)
    BY <1>9, OwnerShapes, Zenon
  <2>2. worker' = worker /\ patch' = tree
    BY <1>9 DEF FinishCaptured, processVars
  <2>3. /\ ~Queued(o) /\ act[o] # Idle /\ act[o].at = "ok" /\ worker[w] # "free"
        /\ worker[w] \in {"ok", "failed"}
    BY <1>1, <2>1
  <2>. QED BY <1>4, <2>1, <2>2, <2>3, Zenon DEF OwnerStep, OwnerCaptures
<1>10. CASE FinishHalfCaptured(w)
  <2>1. /\ At(o, "ok") /\ tree \in Contents
        /\ Move(o, Call("store", With(HalfCaptured(c, tree), "failed"), FALSE), FALSE)
    BY <1>10, OwnerShapes, Zenon
  <2>2. worker' = worker /\ patch' = tree /\ HalfCaptures
    BY <1>10 DEF FinishHalfCaptured, processVars
  <2>3. /\ ~Queued(o) /\ act[o] # Idle /\ act[o].at = "ok" /\ worker[w] # "free"
        /\ worker[w] \in {"ok", "failed"}
    BY <1>1, <2>1
  <2>. QED BY <1>4, <2>1, <2>2, <2>3, Zenon DEF OwnerStep, OwnerCaptures
<1>11. CASE Settle(w)
  <2>1. At(o, "settle") /\ Move(o, Idle, FALSE)
    BY <1>11, OwnerShapes, Zenon
  <2>2. ~Queued(o) /\ act[o] # Idle /\ act[o].at = "settle" /\ worker[w] # "free"
        /\ act[o].event = FALSE
    BY <1>1, <2>1
  <2>3. patch' = patch /\ worker' = [worker EXCEPT ![w] = "free"]
    BY <1>11 DEF Settle, diskVars
  <2>4. \A v \in Workers \ {w} : worker[v] = "free"
    BY <2>2 DEF WorkerInv, ProcessInv, Lives
  <2>5. \A v \in Workers : worker'[v] = "free"
    BY <2>3, <2>4 DEF TypeOK
  <2>. QED BY <1>4, <2>1, <2>2, <2>3, <2>5, Zenon DEF OwnerStep, OwnerSaves
<1>12. CASE Store(o)
  <2>1. At(o, "store")
    BY <1>12 DEF Store
  <2>2. /\ ~Queued(o) /\ worker[w] # "free" /\ act[o] # Idle /\ act[o].at = "store"
    BY <1>1, <2>1
  <2>3. c.status \in {"awaiting-review", "failed"}
    BY <2>2 DEF WorkerInv, Placed, ProperOwner
  <2>4. SaveAndEvent(o, c, "settle") /\ worker' = worker /\ patch' = patch
    BY <1>12, <2>3 DEF Store, Rest, Owner, processVars, diskVars
  <2>5. Move(o, Call("settle", c, TRUE), TRUE)
    BY <1>0, <2>4, Moves
  <2>. QED BY <1>4, <2>2, <2>4, <2>5, Zenon DEF OwnerStep, OwnerSaves
<1>13. CASE AddEvent(o)
  <2>1. /\ act[o].event /\ ~Queued(o) /\ Save(o, c, act[o].at)
        /\ worker' = worker /\ patch' = patch
    BY <1>13 DEF AddEvent, processVars, diskVars
  <2>2. act[o] # Idle /\ act[o].at \in Points
    BY <1>0, <2>1, IdleIs, CopyTypes
  <2>3. Move(o, Call(act[o].at, c, FALSE), TRUE)
    BY <1>0, <2>1, <2>2, Moves
  <2>4. worker[w] # "free"
    BY <2>2 DEF WorkerInv, ProcessInv, Finishing
  <2>. QED BY <1>4, <2>1, <2>2, <2>3, <2>4, Zenon DEF OwnerStep, OwnerSaves
<1>. QED BY <1>3, <1>5, <1>6, <1>7, <1>8, <1>9, <1>10, <1>11, <1>12, <1>13

(* A stop may save only while the workspace is as the file says.           *)
LEMMA StopApplied ==
  ASSUME Manual, TypeOK, WorkerInv, AppliedInv, epoch = 0, epoch' = 0,
         NEW e \in Calls, NEW saved \in BOOLEAN, Move(Stop, e, saved), ~Queued(Stop),
         UNCHANGED <<file, workspace>>,
         \A w \in Workers : worker'[w] = "free" <=> worker[w] = "free",
         saved \/ e.event => e.copy.status \in {"cancelled", "paused"},
         \/ saved \/ e.event \/ e.at \in {"pause", "load", "hold"}
         \/ e.at = "cancel" /\ e.copy.status \in Stopping
         => file.status # "applied" /\ ~Still
  PROVE  AppliedInv'
<1>0. /\ Review \in Actors /\ Stop \in Actors /\ Boot \in Actors
      /\ Stop # Review /\ Stop # Boot
      /\ \A w \in Workers : Owner(w) \in Actors /\ Owner(w) # Stop
  BY ManualActors, ActorsAre
<1>1. act'[Stop] = e /\ \A b \in Actors \ {Stop} : act'[b] = act[b]
  BY <1>0, MoveIs, ZenonT(40)
<1>2. Queued(Stop)' <=> saved
  BY <1>0, MoveIs, Zenon
<1>3. Queued(Review)' <=> Queued(Review)
  BY <1>0, MoveIs, Zenon
<1>4. act[Boot] = Idle /\ Follows /\ Deciding /\ Turns
  BY DEF AppliedInv
<1>5. (Changing' <=> Changing) /\ (Still' <=> Still) /\ act'[Review] = act[Review]
  BY <1>0, <1>1 DEF Changing, Still
<1>6. Follows' /\ Deciding'
  BY <1>3, <1>4, <1>5 DEF Follows, Deciding
<1>7. Halts'
  BY <1>1, <1>2, <1>5 DEF Halts, Halting
<1>8. Turns'
  BY <1>0, <1>1, <1>4 DEF Turns, Quiet
<1>. QED BY <1>0, <1>1, <1>4, <1>6, <1>7, <1>8 DEF AppliedInv

LEMMA Unquiet ==
  ASSUME Manual, TypeOK, WorkerInv, ~Quiet
  PROVE  act[Review] = Idle /\ ~Changing /\ ~Still
<1>1. act[Review] = Idle
  BY DEF WorkerInv, ProcessInv, AtWork
<1>2. Idle.at = "idle" /\ Idle.copy.status = "none"
  BY IdleIs, SessionIs DEF Statuses
<1>. QED BY <1>1, <1>2 DEF Changing, Still

LEMMA StopStepApplied ==
  ASSUME Manual, TypeOK, WorkerInv, AppliedInv, epoch = 0, StopStep
  PROVE  AppliedInv'
<1>. DEFINE c == act[Stop].copy
<1>0. Stop \in Actors /\ c \in Sessions /\ act[Stop].at \in Points /\ file \in Sessions
  BY ActorsAre, CopyTypes DEF TypeOK
<1>1. /\ epoch' = 0 /\ UNCHANGED <<file, workspace>> /\ ~Queued(Stop)
      /\ \A w \in Workers : worker'[w] = "free" <=> worker[w] = "free"
  BY DEF StopStep
<1>2. Halts /\ Turns
  BY DEF AppliedInv
<1>3. {"kill", "killOnExit", "load", "hold", "drain", "drained"} \subseteq Points
  BY DEF Points
<1>4. \A st \in {"cancelled", "paused"} : With(c, st) \in Sessions /\ With(c, st).status = st
  BY <1>0, WithIs DEF Statuses
<1>5. ASSUME NEW p \in Points, NEW s \in Sessions, NEW v \in BOOLEAN, NEW saved \in BOOLEAN,
             Move(Stop, Call(p, s, v), saved),
             saved \/ v => s.status \in {"cancelled", "paused"},
             saved \/ v \/ p \in {"pause", "load", "hold"}
               \/ (p = "cancel" /\ s.status \in Stopping)
               => Halting \/ ~Quiet
      PROVE  AppliedInv'
  <2>1. PICK e \in Calls : e = Call(p, s, v) /\ e.at = p /\ e.copy = s /\ e.event = v
    BY CallIs
  <2>2. Move(Stop, e, saved)
    BY <1>5, <2>1
  <2>3. Halting \/ ~Quiet => file.status # "applied" /\ ~Still
    BY <1>2, Unquiet DEF Halts, Turns
  <2>. QED BY <1>1, <1>5, <2>1, <2>2, <2>3, StopApplied
<1>6. CASE act[Stop].event /\ Move(Stop, Call(act[Stop].at, c, FALSE), TRUE)
  <2>1. Halting /\ c.status \in {"cancelled", "paused"}
    BY <1>2, <1>6 DEF Halting, Halts
  <2>. HIDE DEF c
  <2>. QED BY <1>0, <1>5, <1>6, <2>1
<1>7. CASE StopEnds
  <2>1. Idle \in Calls /\ Idle.at = "idle" /\ Idle.event = FALSE /\ Move(Stop, Idle, FALSE)
    BY <1>7, IdleIs DEF StopEnds
  <2>. QED BY <1>1, <2>1, StopApplied
<1>8. CASE StopHalts
  <2>1. PICK p \in {"kill", "killOnExit"}, st \in {"cancelled", "paused"} :
          Move(Stop, Call(p, With(c, st), TRUE), TRUE)
    BY <1>8, Zenon DEF StopHalts
  <2>2. Halting
    BY <1>8 DEF StopHalts, Halting
  <2>3. PICK s \in Sessions : s = With(c, st) /\ s.status \in {"cancelled", "paused"}
    BY <1>4
  <2>. QED BY <1>3, <1>5, <2>1, <2>2, <2>3
<1>9. CASE StopWaits
  <2>1. map # 0 => ~Quiet
    BY DEF WorkerInv, ProcessInv, Registered, Running, Quiet
  <2>2. PICK p \in {"kill", "load", "hold", "drain", "drained"}, s \in Sessions :
          /\ Move(Stop, Call(p, s, FALSE), FALSE)
          /\ p = "load" => map # 0
          /\ p = "hold" => act[Stop].at = "load"
    <3>. HIDE DEF c
    <3>. QED BY <1>0, <1>9, Zenon DEF StopWaits, c
  <2>3. p = "hold" => Halting
    BY <2>2 DEF Halting
  <2>4. p \in Points
    BY <1>3
  <2>. QED BY <1>5, <2>1, <2>2, <2>3, <2>4
<1>. QED BY <1>6, <1>7, <1>8, <1>9 DEF StopStep

(* The owner of a worker saves only a session that is not applied.         *)
LEMMA OwnerStepApplied ==
  ASSUME Manual, TypeOK, WorkerInv, AppliedInv, epoch = 0, NEW w \in Workers, OwnerStep(w)
  PROVE  AppliedInv'
<1>. DEFINE o == Owner(w)
            c == act[o].copy
<1>0. /\ Review \in Actors /\ Stop \in Actors /\ Boot \in Actors /\ o \in Actors
      /\ Review # o /\ Stop # o /\ Boot # o
      /\ \A v \in Workers \ {w} : Owner(v) \in Actors /\ Owner(v) # o
  BY ManualActors, ActorsAre
<1>1. /\ epoch' = 0 /\ UNCHANGED <<file, workspace>> /\ ~Queued(o) /\ ~Quiet
      /\ worker' = worker \/ (\A v \in Workers : worker'[v] = "free")
  BY DEF OwnerStep, Quiet
<1>2. act[Boot] = Idle /\ Follows /\ Deciding /\ Halts /\ Turns
  BY DEF AppliedInv
<1>3. act[Review] = Idle /\ ~Changing /\ ~Still
  BY <1>1, Unquiet
<1>4. file.status # "applied" /\ c.status # "applied" /\ file \in Sessions /\ c \in Sessions
      /\ act[o].at \in Points
  BY <1>0, <1>1, <1>2, CopyTypes DEF Turns, TypeOK
<1>5. \E e \in Calls, saved \in BOOLEAN : Move(o, e, saved) /\ e.copy.status # "applied"
  <2>1. \A s \in Sessions, st \in {"failed", "awaiting-review"} :
          With(s, st) \in Sessions /\ With(s, st).status = st
    BY WithIs DEF Statuses
  <2>2. {"line", "ok", "failed", "store", "settle", "idle"} \subseteq Points
    BY DEF Points
  <2>3. ASSUME NEW p \in Points, NEW s \in Sessions, NEW v \in BOOLEAN, NEW saved \in BOOLEAN,
               Move(o, Call(p, s, v), saved), s.status # "applied"
        PROVE  \E e \in Calls, t \in BOOLEAN : Move(o, e, t) /\ e.copy.status # "applied"
    <3>1. Call(p, s, v) \in Calls /\ Call(p, s, v).copy = s
      BY CallIs
    <3>. QED BY <2>3, <3>1
  <2>4. CASE OwnerReads(w)
    <3>1. PICK p \in {"line", "ok", "failed", "settle"} : Move(o, Call(p, file, FALSE), FALSE)
      BY <2>4, Zenon DEF OwnerReads
    <3>2. p \in Points
      BY <2>2
    <3>. QED BY <1>4, <2>3, <3>1, <3>2
  <2>5. CASE OwnerSaves(w)
    <3>1. CASE Move(o, Idle, FALSE)
      BY <3>1, IdleIs, SessionIs DEF Statuses
    <3>2. PICK s \in Sessions : s = With(c, "failed") /\ s.status # "applied"
      BY <1>4, <2>1
    <3>3. PICK d \in Sessions : d = c /\ d.status # "applied"
      BY <1>4
    <3>4. \/ Move(o, Idle, FALSE)
          \/ \E p \in Points, v \in BOOLEAN :
               Move(o, Call(p, d, v), TRUE) \/ Move(o, Call(p, s, v), TRUE)
      <4>1. \/ Move(o, Idle, FALSE)
            \/ Move(o, Call(act[o].at, c, FALSE), TRUE) \/ Move(o, Call("idle", c, TRUE), TRUE)
            \/ Move(o, Call("settle", c, TRUE), TRUE)
            \/ Move(o, Call("settle", With(c, "failed"), TRUE), TRUE)
        BY <2>5, Zenon DEF OwnerSaves
      <4>. HIDE DEF c
      <4>. QED BY <1>4, <2>2, <3>2, <3>3, <4>1
    <3>. QED BY <2>3, <3>1, <3>2, <3>3, <3>4
  <2>6. CASE OwnerCaptures(w)
    <3>1. tree \in Contents
      BY <2>6 DEF OwnerCaptures
    <3>2. Captured(c, tree) \in Sessions
      BY <1>4, <3>1, CapturedIs
    <3>3. HalfCaptured(c, tree) \in Sessions
      BY <1>4, <3>1, HalfCapturedIs
    <3>4. PICK s \in Sessions : /\ Move(o, Call("store", s, FALSE), FALSE)
                                /\ s.status # "applied"
      <4>1. \/ Move(o, Call("store", With(Captured(c, tree), "awaiting-review"), FALSE), FALSE)
            \/ Move(o, Call("store", With(HalfCaptured(c, tree), "failed"), FALSE), FALSE)
        BY <2>6, Zenon DEF OwnerCaptures
      <4>2. /\ With(Captured(c, tree), "awaiting-review") \in Sessions
            /\ With(Captured(c, tree), "awaiting-review").status # "applied"
        BY <2>1, <3>2
      <4>3. /\ With(HalfCaptured(c, tree), "failed") \in Sessions
            /\ With(HalfCaptured(c, tree), "failed").status # "applied"
        BY <2>1, <3>3
      <4>. QED BY <4>1, <4>2, <4>3
    <3>. QED BY <2>2, <2>3, <3>4
  <2>. QED BY <2>4, <2>5, <2>6 DEF OwnerStep
<1>6. PICK e \in Calls, saved \in BOOLEAN : Move(o, e, saved) /\ e.copy.status # "applied"
  BY <1>5
<1>. HIDE DEF o
<1>7. act'[o] = e /\ \A b \in Actors \ {o} : act'[b] = act[b]
  BY <1>0, <1>1, <1>6, MoveIs, ZenonT(40)
<1>8. (Queued(Review)' <=> Queued(Review)) /\ (Queued(Stop)' <=> Queued(Stop))
  BY <1>0, <1>1, <1>6, MoveIs, Zenon
<1>9. ~Changing' /\ ~Still' /\ act'[Review] = act[Review]
  BY <1>0, <1>3, <1>7 DEF Changing, Still
<1>10. Follows' /\ Deciding'
  BY <1>1, <1>2, <1>3, <1>8, <1>9 DEF Follows, Deciding
<1>11. Halts'
  BY <1>0, <1>1, <1>2, <1>3, <1>7, <1>8, <1>9 DEF Halts, Halting
<1>12. Turns'
  BY <1>0, <1>1, <1>2, <1>4, <1>6, <1>7 DEF Turns, o
<1>. QED BY <1>0, <1>2, <1>7, <1>10, <1>11, <1>12 DEF AppliedInv

LEMMA SpawnApplied ==
  ASSUME Manual, TypeOK, WorkerInv, AppliedInv, epoch = 0, NEW w \in Workers,
         Spawn(Review, w, "start")
  PROVE  AppliedInv'
<1>0. /\ Review \in Actors /\ Stop \in Actors /\ Boot \in Actors
      /\ Stop # Review /\ Boot # Review
      /\ \A v \in Workers : Owner(v) \in Actors /\ Owner(v) # Review
  BY ManualActors, ActorsAre
<1>1. /\ act[Review].at = "spawn" /\ ~Queued(Review) /\ Leave(Review)
      /\ UNCHANGED <<file, queue, workspace>> /\ epoch' = 0
  BY DEF Spawn, At, Starts, Rest, Review, Leave, diskVars
<1>2. act' = [act EXCEPT ![Review] = Idle]
  BY <1>1 DEF Leave
<1>3. act'[Review] = Idle /\ \A b \in Actors \ {Review} : act'[b] = act[b]
  BY <1>0, <1>2 DEF TypeOK
<1>4. Idle.at = "idle" /\ Idle.copy.status = "none"
  BY IdleIs, SessionIs DEF Statuses
<1>5. act[Boot] = Idle /\ Follows /\ Deciding /\ Halts /\ Turns
  BY DEF AppliedInv
<1>6. ~Changing /\ act[Review] # Idle /\ file.status # "applied"
  BY <1>1, <1>4, <1>5 DEF Changing, Deciding
<1>7. ~Changing' /\ ~Still'
  BY <1>3, <1>4 DEF Changing, Still
<1>8. Follows' /\ Deciding'
  BY <1>1, <1>3, <1>4, <1>5, <1>6, <1>7 DEF Follows, Deciding
<1>9. Queued(Stop)' <=> Queued(Stop)
  BY <1>1 DEF Queued
<1>10. Halts'
  BY <1>0, <1>1, <1>3, <1>5, <1>6, <1>7, <1>9 DEF Halts, Halting
<1>11. Turns'
  BY <1>0, <1>1, <1>3, <1>5, <1>6 DEF Turns
<1>. QED BY <1>0, <1>3, <1>5, <1>8, <1>10, <1>11 DEF AppliedInv

(* A write brings the workspace and the file together, or is of a call     *)
(* that leaves the workspace alone.                                        *)
LEMMA WriteApplied ==
  ASSUME Manual, TypeOK, WorkerInv, AppliedInv, epoch = 0, Write
  PROVE  AppliedInv'
<1>0. /\ Review \in Actors /\ Stop \in Actors /\ Boot \in Actors
      /\ Stop # Review /\ Boot # Review /\ Stop # Boot
      /\ \A v \in Workers : Owner(v) \in Actors /\ Owner(v) # Review /\ Owner(v) # Stop
  BY ManualActors, ActorsAre
<1>1. PICK b \in Actors :
        /\ file' = act[b].copy /\ act[b].copy.status # "none" /\ act[b] # Idle
        /\ act'[b] \in {act[b], Idle}
        /\ act'[b] = Idle => act[b].at = "idle"
        /\ \A d \in Actors \ {b} : act'[d] = act[d]
        /\ \A d \in Actors \ {b} : Queued(d)' <=> Queued(d)
        /\ Queued(b) /\ ~Queued(b)'
  BY WriteIs, Zenon DEF WorkerInv
<1>2. UNCHANGED <<worker, workspace>> /\ epoch' = 0
  BY DEF Write, processVars, diskVars
<1>3. Idle.at = "idle" /\ Idle.copy.status = "none" /\ Idle.event = FALSE
  BY IdleIs, SessionIs DEF Statuses
<1>4. act[Boot] = Idle /\ Follows /\ Deciding /\ Halts /\ Turns
  BY DEF AppliedInv
<1>5. \A d \in Actors : act'[d] = act[d] \/ act'[d] = Idle
  BY <1>1
<1>6. act'[Boot] = Idle
  BY <1>0, <1>4, <1>5
<1>7. \A w \in Workers : act'[Owner(w)].copy.status # "applied"
  BY <1>0, <1>3, <1>4, <1>5 DEF Turns
<1>8. Halting' => Halting
  BY <1>0, <1>1, <1>3 DEF Halting
<1>9. act'[Stop].event \/ Queued(Stop)' => act'[Stop].copy.status \in {"cancelled", "paused"}
  BY <1>0, <1>1, <1>3, <1>4 DEF Halts
<1>10. CASE b = Review
  <2>1. Quiet
    BY <1>0, <1>1, <1>10, ReviewPlace
  <2>2. Turns'
    BY <1>2, <1>7, <2>1 DEF Turns, Quiet
  <2>3. CASE Changing
    <3>1. /\ ~Halting /\ file'.status = act[Review].copy.status
          /\ workspace # 0 <=> act[Review].copy.status = "applied"
          /\ act[Review].copy.status \in {"applied", "reverted"}
      BY <1>1, <1>4, <1>10, <2>3 DEF Halts, Still, Follows, Changing
    <3>2. Halts'
      BY <1>8, <1>9, <3>1 DEF Halts
    <3>3. CASE act'[Review] = Idle
      <4>1. ~Changing' /\ ~Still'
        BY <1>3, <3>3 DEF Changing, Still
      <4>2. Follows' /\ Deciding'
        BY <1>2, <1>3, <3>1, <3>3, <4>1 DEF Follows, Deciding
      <4>. QED BY <1>6, <2>2, <3>2, <4>2 DEF AppliedInv
    <3>4. CASE act'[Review] = act[Review]
      <4>1. Changing' /\ Still'
        BY <2>3, <3>4 DEF Changing, Still
      <4>2. Follows'
        BY <1>2, <3>1, <3>4, <4>1 DEF Follows
      <4>3. Deciding'
        BY <2>3, <3>1, <3>4, <4>1 DEF Deciding, Changing
      <4>. QED BY <1>6, <2>2, <3>2, <4>2, <4>3 DEF AppliedInv
    <3>. QED BY <1>1, <1>10, <3>3, <3>4
  <2>4. CASE ~Changing
    <3>1. /\ act[Review].at \notin {"apply", "revert"}
          /\ act[Review].copy.status \notin {"applied", "reverted"}
          /\ file.status # "applied" /\ workspace = 0 /\ file'.status # "applied"
      BY <1>1, <1>4, <1>10, <2>4 DEF Deciding, Follows
    <3>2. ~Changing' /\ ~Still'
      BY <1>1, <1>3, <1>10, <3>1 DEF Changing, Still
    <3>3. Follows'
      BY <1>2, <3>1, <3>2 DEF Follows
    <3>4. Deciding'
      BY <1>1, <1>3, <1>10, <3>1, <3>2 DEF Deciding
    <3>5. Halts'
      BY <1>9, <3>1, <3>2 DEF Halts
    <3>. QED BY <1>6, <2>2, <3>3, <3>4, <3>5 DEF AppliedInv
  <2>. QED BY <2>3, <2>4
<1>11. CASE b # Review
  <2>1. act'[Review] = act[Review] /\ (Queued(Review)' <=> Queued(Review))
    BY <1>0, <1>1, <1>11
  <2>2. ~Still /\ file.status # "applied" /\ file'.status # "applied"
    <3>1. CASE b = Stop
      BY <1>1, <1>4, <3>1 DEF Halts, Halting
    <3>2. ASSUME NEW w \in Workers, b = Owner(w)
          PROVE  ~Still /\ file.status # "applied" /\ file'.status # "applied"
      <4>1. worker[w] # "free"
        BY <1>1, <3>2 DEF WorkerInv, ProcessInv, Finishing
      <4>2. ~Quiet
        BY <4>1 DEF Quiet
      <4>. QED BY <1>1, <1>4, <3>2, <4>2, Unquiet DEF Turns
    <3>3. b \in {Stop, Boot} \/ \E w \in Workers : b = Owner(w)
      BY <1>11, ManualActors DEF Actors, Requests
    <3>. QED BY <1>1, <1>4, <3>1, <3>2, <3>3
  <2>3. ~Changing /\ ~Changing' /\ ~Still'
    BY <2>1, <2>2 DEF Still, Changing
  <2>4. Follows'
    BY <1>2, <1>4, <2>2, <2>3 DEF Follows
  <2>5. Deciding'
    BY <1>4, <2>1, <2>2, <2>3 DEF Deciding
  <2>6. Halts'
    BY <1>9, <2>2, <2>3 DEF Halts
  <2>7. Turns'
    BY <1>7, <2>2 DEF Turns
  <2>. QED BY <1>6, <2>4, <2>5, <2>6, <2>7 DEF AppliedInv
<1>. QED BY <1>10, <1>11

LEMMA RequestApplied ==
  ASSUME Manual, TypeOK, WorkerInv, AppliedInv, epoch = 0,
         NEW a \in Requests, NEW op \in Operations \ {"line"}, Request(a, op)
  PROVE  AppliedInv'
<1>0. /\ Review \in Actors /\ Stop \in Actors /\ Boot \in Actors
      /\ Stop # Review /\ Boot # Review /\ Stop # Boot
      /\ \A v \in Workers : Owner(v) \in Actors /\ Owner(v) # Review /\ Owner(v) # Stop
  BY ManualActors, ActorsAre
<1>1. /\ act[a] = Idle /\ ~Queued(a) /\ a \in {Review, Stop}
      /\ op \in Points /\ op \in Names /\ op # "line"
      /\ op \in Stops <=> a = Stop
      /\ Calm \/ (a = Stop /\ \A b \in Actors : act[b].at \notin Launching)
      /\ Accepts(op, file)
      /\ Move(a, Call(op, file, FALSE), FALSE)
      /\ UNCHANGED <<file, worker>>
  BY RequestIs, Zenon
<1>2. UNCHANGED workspace /\ epoch' = 0
  BY DEF Request, diskVars
<1>3. PICK e \in Calls : /\ e = Call(op, file, FALSE)
                         /\ e.at = op /\ e.copy = file /\ e.event = FALSE
  <2>1. file \in Sessions
    BY DEF TypeOK
  <2>2. /\ Call(op, file, FALSE) \in Calls /\ Call(op, file, FALSE).at = op
        /\ Call(op, file, FALSE).copy = file /\ Call(op, file, FALSE).event = FALSE
    BY <1>1, <2>1, CallIs
  <2>. QED BY <2>2
<1>4. Move(a, e, FALSE)
  BY <1>1, <1>3
<1>5. act[Boot] = Idle /\ Follows /\ Deciding /\ Halts /\ Turns
  BY DEF AppliedInv
<1>6. CASE a = Stop
  <2>1. op \in Stops
    BY <1>1, <1>6
  <2>2. op = "pause" \/ (op = "cancel" /\ file.status \in Stopping) =>
          file.status \in {"preparing", "running", "testing", "paused"}
    BY <1>1 DEF Accepts, Stopping
  <2>3. op = "pause" \/ (op = "cancel" /\ file.status \in Stopping) =>
          file.status # "applied" /\ ~Still
    BY <1>5, <2>2 DEF Deciding
  <2>4. \/ FALSE \/ e.event \/ e.at \in {"pause", "load", "hold"}
        \/ e.at = "cancel" /\ e.copy.status \in Stopping
        => file.status # "applied" /\ ~Still
    BY <1>3, <2>1, <2>3 DEF Stops
  <2>. QED BY <1>1, <1>2, <1>3, <1>4, <1>6, <2>4, StopApplied
<1>7. CASE a = Review
  <2>1. op \notin Stops /\ op \notin {"store", "remove", "idle"} /\ Calm
    BY <1>1, <1>7, <1>0 DEF Names
  <2>2. /\ file.status \in {"applied", "reverted"} => op = "revert"
        /\ op # "revert" => file.status # "applied"
        /\ op = "apply" => file.status = "awaiting-review"
        /\ op = "revert" => file.status = "applied"
    BY <1>1, <2>1 DEF Accepts, Stops, Names, CanContinue, Reviewable, CanRestore, CanApply,
                      CanReject
  <2>3. act'[Review] = e /\ \A b \in Actors \ {Review} : act'[b] = act[b]
    BY <1>0, <1>1, <1>4, <1>7, MoveIs
  <2>4. ~Queued(Review)' /\ (Queued(Stop)' <=> Queued(Stop))
    BY <1>0, <1>1, <1>4, <1>7, MoveIs
  <2>5. Idle.at = "idle" /\ Idle.copy.status = "none" /\ Idle.event = FALSE
    BY IdleIs, SessionIs DEF Statuses
  <2>6. ~Changing /\ ~Changing'
    BY <1>1, <1>3, <1>7, <2>1, <2>3, <2>5 DEF Changing
  <2>7. Follows'
    BY <1>1, <1>2, <1>5, <2>6 DEF Follows
  <2>8. Deciding'
    BY <1>1, <1>3, <2>2, <2>3, <2>4, <2>6 DEF Deciding, Still
  <2>9. ~Halting' /\ ~act'[Stop].event /\ ~Queued(Stop)'
    <3>1. act[Stop] = Idle
      BY <1>0, <2>1 DEF Calm
    <3>2. ~Queued(Stop)
      BY <2>5, <3>1 DEF Queued, WorkerInv, OneEntry
    <3>. QED BY <1>0, <2>3, <2>4, <2>5, <3>1, <3>2 DEF Halting
  <2>10. Halts'
    BY <2>9 DEF Halts
  <2>11. Turns'
    BY <1>0, <1>1, <1>5, <2>3 DEF Turns, Quiet
  <2>. QED BY <1>0, <1>5, <2>3, <2>7, <2>8, <2>10, <2>11 DEF AppliedInv
<1>. QED BY <1>1, <1>6, <1>7

LEMMA StartsApplied == Manual /\ Init => AppliedInv
<1>. SUFFICES ASSUME Manual, Init PROVE AppliedInv
  OBVIOUS
<1>0. /\ Review \in Actors /\ Stop \in Actors /\ Boot \in Actors
      /\ \A w \in Workers : Owner(w) \in Actors
  BY ManualActors, ActorsAre
<1>1. /\ \A a \in Actors : act[a] = Idle
      /\ \A w \in Workers : worker[w] = "free"
      /\ queue = <<>> /\ workspace = 0 /\ file.status = "none"
  BY SessionIs DEF Init, Statuses
<1>2. Idle.at = "idle" /\ Idle.event = FALSE /\ Idle.copy.status = "none"
  BY IdleIs, SessionIs DEF Statuses
<1>3. ~Changing /\ ~Still /\ ~Queued(Stop)
  BY <1>0, <1>1, <1>2 DEF Changing, Still, Queued
<1>4. Follows /\ Deciding
  BY <1>0, <1>1, <1>2, <1>3 DEF Follows, Deciding
<1>5. Halts
  BY <1>0, <1>1, <1>2, <1>3 DEF Halts, Halting
<1>6. Turns
  BY <1>0, <1>1, <1>2 DEF Turns, Quiet
<1>. QED BY <1>0, <1>1, <1>4, <1>5, <1>6 DEF AppliedInv

(* While it has not restarted, initialize() has nothing to do.             *)
LEMMA BootIdle ==
  ASSUME Manual, TypeOK, act[Boot] = Idle
  PROVE  ~Initialize /\ ~SharedStep(Boot)
<1>1. Idle.at = "idle" /\ Idle.event = FALSE
  BY IdleIs
<1>2. \A p \in {"initialize", "runTests", "verify", "gates", "accept", "again", "store",
                "start", "repair", "recover", "spawn", "spawnRepair", "spawnRecovered"} :
        ~At(Boot, p)
  BY <1>1 DEF At
<1>3. ~Initialize /\ ~AddEvent(Boot) /\ ~Store(Boot) /\ ~Tests(Boot) /\ ~Accept(Boot)
      /\ ~Repair(Boot)
  BY <1>1, <1>2 DEF Initialize, AddEvent, Store, Tests, Accept, Repair, Ready
<1>4. \A outcome \in Outcomes(Boot) : ~GatesRun(Boot, outcome)
  BY <1>2 DEF GatesRun
<1>5. ASSUME NEW p \in DOMAIN Starts
      PROVE  ~Launch(Boot, p) /\ \A w \in Workers : ~Spawn(Boot, w, p)
  <2>1. p \in {"start", "repair", "recover"}
        /\ Starts[p] \in {"spawn", "spawnRepair", "spawnRecovered"}
    BY DEF Starts
  <2>. QED BY <1>2, <2>1 DEF Launch, Spawn
<1>. QED BY <1>3, <1>4, <1>5, Zenon DEF SharedStep

LEMMA EpochSteps == [Next]_vars => epoch' = epoch \/ Restart
<1>. SUFFICES ASSUME [Next]_vars, ~Restart PROVE epoch' = epoch
  OBVIOUS
<1>1. CASE UNCHANGED vars
  BY <1>1 DEF vars
<1>2. CASE Write \/ Initialize
  BY <1>2 DEF Write, Initialize
<1>3. ASSUME NEW a \in Actors, SharedStep(a) PROVE epoch' = epoch
  BY <1>3 DEF SharedStep, AddEvent, Store, Tests, Accept, Repair, GatesRun, Launch, Spawn
<1>4. ASSUME NEW a \in Requests, RequestStep(a) PROVE epoch' = epoch
  BY <1>4
  DEF RequestStep, Refused, Create, ContinueTask, Resume, Reproduce, CancelTests, Checkpoint,
      Restore, GateRun, Apply, Reject, RemoveWorktree, Revert, Cancel, Pause, Kill, Dispose,
      DisposeLoads, DisposePauses, DisposeDrains, Disposed
<1>5. ASSUME NEW w \in Workers, WorkerStep(w) \/ Line(w) PROVE epoch' = epoch
  BY <1>5 DEF WorkerStep, LineSaved, Finish, FinishFailed, FinishCaptured, FinishHalfCaptured,
              Settle, Line
<1>6. ASSUME NEW a \in Requests, NEW op \in Operations \ {"line"}, Request(a, op)
      PROVE  epoch' = epoch
  BY <1>6 DEF Request
<1>7. ASSUME NEW w \in Workers, \/ \E c \in Contents : Edit(w, c)
                                \/ \E end \in {"ok", "failed"} : Exit(w, end)
      PROVE  epoch' = epoch
  BY <1>7 DEF Edit, Exit
<1>. QED BY <1>1, <1>2, <1>3, <1>4, <1>5, <1>6, <1>7, Zenon DEF Next, ManagerStep

LEMMA AppliedInduction ==
  ASSUME Manual, TypeOK, WorkerInv, AppliedInv, [Next]_vars
  PROVE  AppliedInv'
<1>1. CASE epoch # 0
  <2>1. epoch' # 0
    <3>1. epoch' = epoch \/ Restart
      BY EpochSteps
    <3>. QED BY <1>1, <3>1 DEF Restart, TypeOK
  <2>. QED BY <2>1 DEF AppliedInv
<1>2. CASE epoch = 0
  <2>0. act[Boot] = Idle
    BY <1>2 DEF AppliedInv
  <2>1. CASE Write
    BY <1>2, <2>1, WriteApplied
  <2>2. ASSUME NEW a \in Actors, SharedStep(a) PROVE AppliedInv'
    <3>1. CASE a = Review
      <4>1. CASE \E w \in Workers : Spawn(Review, w, "start")
        BY <1>2, <4>1, SpawnApplied
      <4>2. CASE \A w \in Workers : ~Spawn(Review, w, "start")
        BY <1>2, <2>2, <3>1, <4>2, SharedStepIs, ReviewStepApplied
      <4>. QED BY <4>1, <4>2
    <3>2. CASE a = Stop
      BY <1>2, <2>2, <3>2, StopStepIs, StopStepApplied
    <3>3. CASE a = Boot
      BY <2>0, <2>2, <3>3, BootIdle
    <3>4. ASSUME NEW w \in Workers, a = Owner(w) PROVE AppliedInv'
      BY <1>2, <2>2, <3>4, OwnerStepIs, OwnerStepApplied
    <3>5. a \in {Review, Stop, Boot} \/ \E w \in Workers : a = Owner(w)
      BY ManualActors DEF Actors, Requests
    <3>. QED BY <3>1, <3>2, <3>3, <3>4, <3>5
  <2>3. ASSUME NEW a \in Requests, RequestStep(a) PROVE AppliedInv'
    <3>1. CASE a = Review
      BY <1>2, <2>3, <3>1, RequestStepIs, ReviewStepApplied
    <3>2. CASE a = Stop
      BY <1>2, <2>3, <3>2, StopStepIs, StopStepApplied
    <3>. QED BY <3>1, <3>2, ManualActors
  <2>4. ASSUME NEW w \in Workers, Line(w) \/ WorkerStep(w) PROVE AppliedInv'
    BY <1>2, <2>4, OwnerStepIs, OwnerStepApplied
  <2>5. ASSUME NEW a \in Requests, NEW op \in Operations \ {"line"}, Request(a, op)
        PROVE  AppliedInv'
    BY <1>2, <2>5, RequestApplied
  <2>6. ASSUME UNCHANGED <<file, queue, act, workspace, epoch>>,
               Quiet' <=> Quiet
        PROVE  AppliedInv'
    <3>1. (Changing' <=> Changing) /\ (Still' <=> Still) /\ (Halting' <=> Halting)
      BY <2>6 DEF Changing, Still, Halting, Queued
    <3>2. act[Boot] = Idle /\ Follows /\ Deciding /\ Halts /\ Turns
      BY <1>2 DEF AppliedInv
    <3>3. Follows' /\ Deciding' /\ Halts' /\ Turns'
      BY <2>6, <3>1, <3>2 DEF Follows, Deciding, Halts, Turns, Queued
    <3>. QED BY <2>6, <3>2, <3>3 DEF AppliedInv
  <2>7. ASSUME NEW w \in Workers, NEW c \in Contents, Edit(w, c) PROVE AppliedInv'
    <3>1. UNCHANGED <<file, queue, act, workspace, epoch, worker>>
      BY <2>7 DEF Edit, storeVars, processVars
    <3>2. Quiet' <=> Quiet
      BY <3>1 DEF Quiet
    <3>. QED BY <2>6, <3>1, <3>2
  <2>8. ASSUME NEW w \in Workers, NEW end \in {"ok", "failed"}, Exit(w, end)
        PROVE  AppliedInv'
    <3>1. /\ UNCHANGED <<file, queue, act, workspace, epoch>>
          /\ worker' = [worker EXCEPT ![w] = end] /\ Running(w)
      BY <2>8 DEF Exit, storeVars, diskVars
    <3>2. worker'[w] = end
      BY <3>1 DEF TypeOK
    <3>3. ~Quiet' /\ ~Quiet
      BY <3>1, <3>2 DEF Quiet, Running
    <3>. QED BY <2>6, <3>1, <3>3
  <2>9. CASE Restart
    <3>1. epoch' # 0
      BY <1>2, <2>9 DEF Restart
    <3>. QED BY <3>1 DEF AppliedInv
  <2>10. CASE UNCHANGED vars
    <3>1. UNCHANGED <<file, queue, act, workspace, epoch, worker>>
      BY <2>10 DEF vars, storeVars, processVars, diskVars
    <3>2. Quiet' <=> Quiet
      BY <3>1 DEF Quiet
    <3>. QED BY <2>6, <3>1, <3>2
  <2>11. ~Initialize
    BY <2>0, BootIdle
  <2>. QED
    BY <2>1, <2>2, <2>3, <2>4, <2>5, <2>7, <2>8, <2>9, <2>10, <2>11, Zenon
    DEF Next, ManagerStep
<1>. QED BY <1>1, <1>2

(* While requests come one at a time, verification is asked for by hand    *)
(* and nothing crashes, a session at rest says applied exactly while its   *)
(* patch is in the operator's workspace: a cancel, a pause or a shutdown   *)
(* that comes while apply() or revert() is at work does not save over it.  *)
THEOREM AppliedTogether == Manual => (Spec => []AppliedOnDisk)
<1>. SUFFICES ASSUME Manual PROVE Spec => []AppliedOnDisk
  OBVIOUS
<1>1. Init => AppliedInv
  BY StartsApplied
<1>2. TypeOK /\ WorkerInv /\ AppliedInv /\ [Next]_vars => AppliedInv'
  BY AppliedInduction
<1>3. AppliedInv => AppliedOnDisk
  <2>. SUFFICES ASSUME AppliedInv, Calm, epoch = 0
                PROVE  workspace # 0 <=> file.status = "applied"
    BY DEF AppliedOnDisk
  <2>1. act[Review] = Idle
    BY ManualActors DEF Calm
  <2>2. ~Changing
    BY <2>1, IdleIs, SessionIs DEF Changing, Statuses
  <2>. QED BY <2>2 DEF AppliedInv, Follows
<1>. QED BY <1>1, <1>2, <1>3, WorkersInvariant, PTL DEF Spec

-----------------------------------------------------------------------------
(***************************************************************************)
(* The retained patch and the worktree.  A diff in any copy is that of the *)
(* patch file and of the worktree, unless they are gone; while a worker    *)
(* edits there is no diff anywhere; and the worktree goes only when the    *)
(* file and whatever is still to be written say that the session is over.  *)
(***************************************************************************)
Over == {"applied", "rejected", "reverted", "cancelled"}
Starting == {"none", "preparing", "running"}
Matches(s, t, p) ==
  /\ s.diff # 0 => p \in {0, s.diff} /\ t \in {s.diff, Gone}
  /\ s.status \in Starting => s.diff = 0
Agrees(s) == Matches(s, tree, patch)
Agreed == Agrees(file) /\ \A a \in Actors : Agrees(act[a].copy)

Blank == \E w \in Workers :
           worker[w] # "free" /\ act[Owner(w)].at \notin {"store", "settle"}
Fresh ==
  /\ act[Review].at \in {"start", "spawn"} => act[Review].copy.diff = 0
  /\ act[Boot].at \in {"recover", "spawnRecovered"} => act[Boot].copy.diff = 0
  /\ \A a \in {Review, Boot} : act[a].at \in SpawnPoints /\ ~Queued(a) => file.diff = 0
  /\ act[Review].at = "create" => file.status = "none" /\ act[Review].copy.status = "none"
  /\ Blank => file.diff = 0 /\ \A a \in Actors : act[a].copy.diff = 0

(* A request in progress that is not about to start a worker has beside it *)
(* a stop at most, and that one can only cancel.                           *)
InFlight == act[Review] # Idle /\ act[Review].at \notin {"create", "start", "spawn"}
StopPauses == {"pause", "load", "hold", "killOnExit"}
Beside ==
  InFlight =>
    /\ act[Boot] = Idle /\ act[Stop].at \notin StopPauses
    /\ act[Stop].event \/ Queued(Stop) => act[Stop].copy.status = "cancelled"
    /\ file.status \notin Starting /\ act[Review].copy.status \notin Starting
Removing ==
  act[Review].at = "remove" =>
    /\ act[Review].copy.status \in Over
    /\ ~Queued(Review) => file.status \in Over
Removed ==
  tree = Gone =>
    /\ file.status \in Over \cup {"none"} /\ Quiet
    /\ \A a \in Actors : act[a].event \/ Queued(a) => act[a].copy.status \in Over
    /\ act[Review].at \in {"idle", "create", "reject", "revert", "store", "remove"}
    /\ act[Review].at = "store" => act[Review].copy.status = "reverted"
    /\ act[Boot].at \in {"idle", "initialize"} /\ act[Stop].at \notin StopPauses
RetainedInv ==
  /\ Agreed /\ Fresh /\ Beside /\ Removing /\ Removed
  /\ act[Review].at # "restoreCheckpoint"

(* A request in progress leaves, goes on towards a worker, or goes on with *)
(* the session it has; it removes the worktree after the session is over.  *)
LEMMA ReviewRetains ==
  ASSUME Manual, TypeOK, WorkerInv, RetainedInv,
         NEW e \in Calls, NEW saved \in BOOLEAN, Move(Review, e, saved),
         ~Queued(Review), act[Review] # Idle, UNCHANGED <<file, worker>>,
         \/ UNCHANGED <<tree, patch>>
         \/ tree' = tree /\ patch' = 0
         \/ /\ tree' = Gone /\ patch' = patch /\ act[Review].at = "remove"
            /\ ~act[Review].event /\ e = Idle /\ ~saved
         \/ tree' = 0 /\ patch' = patch /\ act[Review].at = "create",
         e.copy.diff \in {0, act[Review].copy.diff},
         e.copy.status \in Starting => e.copy.diff = 0,
         e.at \in {"start", "spawn"} => e.copy.diff = 0,
         e.at \in SpawnPoints => saved,
         e.at \notin {"create", "restoreCheckpoint"},
         e = Idle \/ e.at \in {"start", "spawn"} \/ (InFlight /\ e.copy.status \notin Starting),
         e.at = "remove" => e.copy.status \in Over /\ saved,
         tree' = Gone /\ tree = Gone =>
           /\ e.at \in {"idle", "reject", "revert", "store", "remove"}
           /\ e.at = "store" => e.copy.status = "reverted"
           /\ e.event \/ saved => e.copy.status \in Over
  PROVE  RetainedInv'
<1>0. /\ Review \in Actors /\ Stop \in Actors /\ Boot \in Actors
      /\ Review # Stop /\ Review # Boot
      /\ \A w \in Workers : Owner(w) \in Actors /\ Owner(w) # Review
  BY ManualActors, ActorsAre
<1>1. act'[Review] = e /\ \A b \in Actors \ {Review} : act'[b] = act[b]
  BY <1>0, MoveIs, Zenon
<1>2. Queued(Review)' <=> saved
  BY <1>0, MoveIs, Zenon
<1>3. \A b \in Actors \ {Review} : Queued(b)' <=> Queued(b)
  BY <1>0, MoveIs, Zenon
<1>4. /\ Quiet /\ Quiet' /\ ~Blank'
      /\ act[Review].at \in LaunchPoints => \A b \in Actors \ {Review} : act[b] = Idle
  BY ReviewPlace DEF Quiet, Blank
<1>5. Agreed /\ Fresh /\ Beside /\ Removing /\ Removed
  BY DEF RetainedInv
<1>6. /\ Idle.at = "idle" /\ Idle.event = FALSE
      /\ Idle.copy.diff = 0 /\ Idle.copy.status = "none"
  BY IdleIs, SessionIs DEF Statuses
<1>7. Agreed'
  <2>1. /\ Matches(file, tree', patch')
        /\ \A b \in Actors \ {Review} : Matches(act[b].copy, tree', patch')
    <3>1. /\ Matches(file, tree, patch)
          /\ \A b \in Actors \ {Review} : Matches(act[b].copy, tree, patch)
      BY <1>5 DEF Agreed, Agrees
    <3>2. CASE act[Review].at # "create"
      BY <3>1, <3>2 DEF Matches
    <3>3. CASE act[Review].at = "create"
      <4>1. \A b \in Actors \ {Review} : act[b].copy.diff = 0
        BY <1>4, <1>6, <3>3 DEF LaunchPoints
      <4>2. file.diff = 0
        BY <1>5, <3>1, <3>3 DEF Fresh, Matches, Starting
      <4>. QED BY <3>1, <4>1, <4>2 DEF Matches
    <3>. QED BY <3>2, <3>3
  <2>2. Matches(e.copy, tree', patch')
    <3>1. Matches(act[Review].copy, tree, patch)
      BY <1>0, <1>5 DEF Agreed, Agrees
    <3>2. act[Review].at = "create" => act[Review].copy.diff = 0
      BY <1>5, <3>1 DEF Fresh, Matches, Starting
    <3>. QED BY <3>1, <3>2 DEF Matches
  <2>. QED BY <1>0, <1>1, <2>1, <2>2 DEF Agreed, Agrees
<1>8. Fresh'
  BY <1>0, <1>1, <1>2, <1>3, <1>4, <1>5 DEF Fresh
<1>9. Beside'
  BY <1>0, <1>1, <1>3, <1>5 DEF Beside, InFlight
<1>10. Removing'
  BY <1>1, <1>2 DEF Removing
<1>11. Removed'
  <2>. SUFFICES ASSUME tree' = Gone PROVE Removed'
    BY DEF Removed
  <2>1. CASE tree = Gone
    BY <1>0, <1>1, <1>2, <1>3, <1>4, <1>5, <2>1 DEF Removed
  <2>2. CASE tree # Gone
    <3>1. /\ act[Review].at = "remove" /\ e = Idle /\ ~saved /\ InFlight
      BY <2>2, SessionAssumption DEF InFlight, Gone
    <3>2. file.status \in Over
      BY <1>5, <3>1 DEF Removing
    <3>3. /\ act[Boot] = Idle /\ act[Stop].at \notin StopPauses
          /\ act[Stop].event \/ Queued(Stop) => act[Stop].copy.status \in Over
      BY <1>5, <3>1 DEF Beside, Over
    <3>4. \A w \in Workers : act[Owner(w)] = Idle
      BY <1>4 DEF WorkerInv, ProcessInv, Finishing, Quiet
    <3>5. \A b \in Actors : act[b] = Idle => ~Queued(b)
      BY <1>6 DEF WorkerInv, OneEntry, Queued
    <3>6. \A b \in Actors \ {Review} : act[b].event \/ Queued(b) => act[b].copy.status \in Over
      <4>1. \A b \in Actors : b \in {Review, Stop, Boot} \/ \E w \in Workers : b = Owner(w)
        BY ManualActors DEF Actors, Requests
      <4>. QED BY <1>6, <3>3, <3>4, <3>5, <4>1
    <3>. QED BY <1>0, <1>1, <1>2, <1>3, <1>4, <1>6, <3>1, <3>2, <3>3, <3>6 DEF Removed
  <2>. QED BY <2>1, <2>2
<1>. QED BY <1>1, <1>7, <1>8, <1>9, <1>10, <1>11 DEF RetainedInv

LEMMA ReviewStepRetains ==
  ASSUME Manual, TypeOK, WorkerInv, RetainedInv, ReviewStep
  PROVE  RetainedInv'
<1>. DEFINE c == act[Review].copy
<1>0. /\ Review \in Actors /\ c \in Sessions /\ act[Review].at \in Points
      /\ act[Review].at \in ReviewPoints
      /\ act[Review].event => c.status # "none"
  BY ManualActors, CopyTypes DEF WorkerInv, Placed, ProperReview
<1>1. ~Queued(Review) /\ act[Review] # Idle /\ UNCHANGED <<file, worker>>
  BY DEF ReviewStep
<1>2. Fresh /\ Beside /\ Removing /\ Removed /\ act[Review].at # "restoreCheckpoint"
  BY DEF RetainedInv
<1>3. Matches(c, tree, patch)
  BY <1>0 DEF RetainedInv, Agreed, Agrees
<1>4. \A s \in Sessions, st \in Statuses :
        With(s, st) \in Sessions /\ With(s, st).status = st /\ With(s, st).diff = s.diff
  BY WithIs
<1>5. InFlight => c.status \notin Starting
  BY <1>2 DEF Beside
<1>6. {"start", "spawn", "idle", "gates", "command", "store", "remove"} \subseteq Points
  BY DEF Points
(* It goes on with the session it has.                                     *)
<1>7. ASSUME UNCHANGED <<tree, patch>>, InFlight, NEW p \in Points, NEW s \in Sessions, NEW v \in BOOLEAN,
             NEW saved \in BOOLEAN, Move(Review, Call(p, s, v), saved),
             p \notin {"create", "start", "spawn", "spawnRecovered", "restoreCheckpoint"},
             s.diff = c.diff, s.status \notin Starting,
             p = "remove" => s.status \in Over /\ saved,
             tree = Gone =>
               /\ p \in {"idle", "store", "remove"} /\ (p = "store" => s.status = "reverted")
               /\ v \/ saved => s.status \in Over
      PROVE  RetainedInv'
  <2>1. PICK e \in Calls : e = Call(p, s, v) /\ e.at = p /\ e.copy = s /\ e.event = v
    BY CallIs
  <2>2. Move(Review, e, saved)
    BY <1>7, <2>1
  <2>3. e.copy.diff \in {0, act[Review].copy.diff}
    BY <1>7, <2>1
  <2>4. e.at \notin SpawnPoints /\ e.at \notin {"start", "spawn", "create", "restoreCheckpoint"}
    BY <1>7, <2>1 DEF SpawnPoints
  <2>. HIDE DEF c
  <2>. QED BY <1>1, <1>7, <2>1, <2>2, <2>3, <2>4, ReviewRetains
<1>8. CASE ReviewLeaves
  <2>1. /\ Idle \in Calls /\ Idle.at = "idle" /\ Idle.copy.diff = 0 /\ Idle.copy.status = "none"
        /\ Idle.event = FALSE
    BY IdleIs, SessionIs DEF Statuses
  <2>2. /\ Move(Review, Idle, FALSE) /\ ~act[Review].event
        /\ \/ UNCHANGED <<tree, patch>>
           \/ tree' = Gone /\ patch' = patch /\ act[Review].at = "remove"
    BY <1>8 DEF ReviewLeaves
  <2>. QED BY <1>1, <2>1, <2>2, ReviewRetains DEF SpawnPoints
<1>9. CASE ReviewSaves
  <2>1. /\ act[Review].event /\ UNCHANGED <<tree, patch>>
        /\ Move(Review, Call(act[Review].at, c, FALSE), TRUE)
    BY <1>9 DEF ReviewSaves
  <2>2. PICK e \in Calls : /\ e = Call(act[Review].at, c, FALSE)
                           /\ e.at = act[Review].at /\ e.copy = c /\ e.event = FALSE
    <3>1. /\ Call(act[Review].at, c, FALSE) \in Calls
          /\ Call(act[Review].at, c, FALSE).at = act[Review].at
          /\ Call(act[Review].at, c, FALSE).copy = c
          /\ Call(act[Review].at, c, FALSE).event = FALSE
      BY <1>0, CallIs, ZenonT(40)
    <3>. HIDE DEF c
    <3>. QED BY <3>1
  <2>3. Move(Review, e, TRUE)
    BY <2>1, <2>2
  <2>4. act[Review].at # "create"
    BY <1>0, <1>2, <2>1 DEF Fresh
  <2>5. e.at \in {"start", "spawn"} \/ (InFlight /\ e.copy.status \notin Starting)
    BY <1>1, <1>5, <2>2, <2>4 DEF InFlight
  <2>6. e.at \in {"start", "spawn"} => e.copy.diff = 0
    BY <1>2, <2>2 DEF Fresh
  <2>7. e.at = "remove" => e.copy.status \in Over
    BY <1>2, <2>2 DEF Removing
  <2>8. tree = Gone =>
           /\ e.at \in {"idle", "reject", "revert", "store", "remove"}
           /\ e.at = "store" => e.copy.status = "reverted"
           /\ e.copy.status \in Over
    BY <1>0, <1>2, <2>1, <2>2, <2>4 DEF Removed
  <2>9. e.copy.diff \in {0, c.diff} /\ (e.copy.status \in Starting => e.copy.diff = 0)
    BY <1>3, <2>2 DEF Matches
  <2>10. e.at \notin {"create", "restoreCheckpoint"}
    BY <1>2, <2>2, <2>4
  <2>. QED BY <1>1, <2>1, <2>3, <2>5, <2>6, <2>7, <2>8, <2>9, <2>10, ReviewRetains
<1>10. CASE ~act[Review].event /\ ReviewLaunches
  <2>1. CASE act[Review].at = "create"
    <3>1. /\ tree' = 0 /\ patch' = patch
          /\ Move(Review, Call("start", Session("preparing"), TRUE), TRUE)
      BY <1>10, <2>1, Zenon DEF ReviewLaunches
    <3>2. PICK e \in Calls : /\ e = Call("start", Session("preparing"), TRUE)
                             /\ e.at = "start" /\ e.copy.diff = 0
      <4>1. /\ Session("preparing") \in Sessions /\ Session("preparing").diff = 0
        BY SessionIs DEF Statuses
      <4>2. /\ Call("start", Session("preparing"), TRUE) \in Calls
            /\ Call("start", Session("preparing"), TRUE).at = "start"
            /\ Call("start", Session("preparing"), TRUE).copy = Session("preparing")
        BY <1>6, <4>1, CallIs
      <4>. QED BY <4>1, <4>2
    <3>3. Move(Review, e, TRUE)
      BY <3>1, <3>2
    <3>4. tree' # Gone
      BY <3>1, SessionAssumption DEF Gone
    <3>. QED BY <1>1, <2>1, <3>1, <3>2, <3>3, <3>4, ReviewRetains DEF SpawnPoints
  <2>2. CASE act[Review].at = "continue" \/ (act[Review].at = "resume" /\ c.diff = 0)
    <3>1. PICK s \in Sessions, saved \in BOOLEAN :
            /\ tree # Gone /\ tree' = tree /\ patch' \in {0, patch}
            /\ Move(Review, Call("start", s, TRUE), saved) /\ s.diff = 0
      <4>1. Continued(c) \in Sessions /\ Continued(c).diff = 0
        BY <1>0, ContinuedIs
      <4>2. \/ Move(Review, Call("start", Continued(c), TRUE), TRUE)
            \/ c.diff = 0 /\ Move(Review, Call("start", c, TRUE), FALSE)
        BY <1>10, <2>2 DEF ReviewLaunches
      <4>3. tree # Gone /\ tree' = tree /\ patch' \in {0, patch}
        BY <1>10, <2>2 DEF ReviewLaunches
      <4>. HIDE DEF c
      <4>. QED BY <1>0, <4>1, <4>2, <4>3
    <3>2. PICK e \in Calls : e = Call("start", s, TRUE) /\ e.at = "start" /\ e.copy = s
      <4>1. /\ Call("start", s, TRUE) \in Calls /\ Call("start", s, TRUE).at = "start"
            /\ Call("start", s, TRUE).copy = s
        BY <1>6, CallIs, ZenonT(40)
      <4>. QED BY <4>1
    <3>3. Move(Review, e, saved)
      BY <3>1, <3>2
    <3>4. UNCHANGED <<tree, patch>> \/ (tree' = tree /\ patch' = 0)
      BY <3>1
    <3>5. e.copy.diff = 0
      BY <3>1, <3>2
    <3>. QED BY <1>1, <3>1, <3>2, <3>3, <3>4, <3>5, ReviewRetains DEF SpawnPoints
  <2>3. CASE act[Review].at = "resume" /\ c.diff # 0
    <3>1. /\ tree # Gone /\ UNCHANGED <<tree, patch>>
          /\ Move(Review, Call("idle", With(c, "awaiting-review"), TRUE), TRUE)
      BY <1>10, <2>3 DEF ReviewLaunches
    <3>2. PICK s \in Sessions : /\ s = With(c, "awaiting-review") /\ s.status \notin Starting
                                /\ s.diff = c.diff
      <4>1. /\ With(c, "awaiting-review") \in Sessions
            /\ With(c, "awaiting-review").status = "awaiting-review"
            /\ With(c, "awaiting-review").diff = c.diff
        BY <1>0, <1>4 DEF Statuses
      <4>2. "awaiting-review" \notin Starting
        BY DEF Starting
      <4>. HIDE DEF c
      <4>. QED BY <4>1, <4>2
    <3>3. InFlight /\ Move(Review, Call("idle", s, TRUE), TRUE)
      BY <1>1, <2>3, <3>1, <3>2 DEF InFlight
    <3>. HIDE DEF c
    <3>. QED BY <1>6, <1>7, <3>1, <3>2, <3>3
  <2>4. CASE act[Review].at = "start"
    <3>1. /\ UNCHANGED <<tree, patch>>
          /\ Move(Review, Call("spawn", With(c, "running"), FALSE), TRUE)
      BY <1>10, <2>4 DEF ReviewLaunches
    <3>2. PICK e \in Calls : /\ e = Call("spawn", With(c, "running"), FALSE)
                             /\ e.at = "spawn" /\ e.copy.diff = c.diff
      <4>1. With(c, "running") \in Sessions /\ With(c, "running").diff = c.diff
        BY <1>0, <1>4 DEF Statuses
      <4>. HIDE DEF c
      <4>2. PICK s \in Sessions : s = With(c, "running") /\ s.diff = c.diff
        BY <4>1
      <4>3. /\ Call("spawn", s, FALSE) \in Calls /\ Call("spawn", s, FALSE).at = "spawn"
            /\ Call("spawn", s, FALSE).copy = s
        BY <1>6, CallIs
      <4>. QED BY <4>2, <4>3
    <3>3. Move(Review, e, TRUE) /\ c.diff = 0 /\ tree # Gone
      BY <1>2, <2>4, <3>1, <3>2 DEF Fresh, Removed
    <3>4. e.copy.diff = 0
      BY <3>2, <3>3
    <3>. HIDE DEF c
    <3>. QED BY <1>1, <3>1, <3>2, <3>3, <3>4, ReviewRetains DEF SpawnPoints
  <2>. QED BY <1>10, <2>1, <2>2, <2>3, <2>4 DEF ReviewLaunches
<1>11. CASE ~act[Review].event /\ ReviewChecks
  <2>1. /\ UNCHANGED <<tree, patch>> /\ InFlight /\ tree # Gone
        /\ act[Review].at \in {"runTests", "gates", "reproduce", "command", "semanticReview",
                               "checkpoint"}
    <3>1. /\ UNCHANGED <<tree, patch>>
          /\ act[Review].at \in {"runTests", "gates", "reproduce", "command", "semanticReview",
                                 "checkpoint"}
      BY <1>11 DEF ReviewChecks
    <3>. QED BY <1>1, <1>2, <3>1 DEF InFlight, Removed
  <2>2. c.status \notin Starting
    BY <1>5, <2>1
  <2>3. PICK p \in {"gates", "idle", "command"}, s \in Sessions, saved \in BOOLEAN :
          /\ Move(Review, Call(p, s, TRUE), saved)
          /\ s.diff = c.diff /\ s.status \notin Starting
    <3>0. "testing" \notin Starting /\ "awaiting-review" \notin Starting
      BY DEF Starting
    <3>1. CASE Move(Review, Call("gates", With(c, "testing"), TRUE), TRUE)
      <4>1. /\ With(c, "testing") \in Sessions /\ With(c, "testing").status = "testing"
            /\ With(c, "testing").diff = c.diff
        BY <1>0, <1>4 DEF Statuses
      <4>. QED BY <3>0, <3>1, <4>1
    <3>2. ASSUME NEW r \in Results,
                 Move(Review, Call("idle", With(Marked(c, "tests", r), "awaiting-review"), TRUE), TRUE)
          PROVE  \E p \in {"gates", "idle", "command"}, s \in Sessions, saved \in BOOLEAN :
                   /\ Move(Review, Call(p, s, TRUE), saved)
                   /\ s.diff = c.diff /\ s.status \notin Starting
      <4>0. "tests" \in Gates
        BY SessionAssumption
      <4>1. Marked(c, "tests", r) \in Sessions /\ Marked(c, "tests", r).diff = c.diff
        BY <1>0, <4>0, MarkedIs, ZenonT(40)
      <4>2. /\ With(Marked(c, "tests", r), "awaiting-review") \in Sessions
            /\ With(Marked(c, "tests", r), "awaiting-review").status = "awaiting-review"
            /\ With(Marked(c, "tests", r), "awaiting-review").diff = c.diff
        BY <1>4, <4>1 DEF Statuses
      <4>. QED BY <3>0, <3>2, <4>2
    <3>3. CASE Move(Review, Call("command", c, TRUE), FALSE)
      BY <1>0, <2>2, <3>3
    <3>4. ASSUME NEW g \in Gates, NEW r \in {"passed", "failed"},
                 Move(Review, Call("idle", Marked(c, g, r), TRUE), TRUE)
          PROVE  \E p \in {"gates", "idle", "command"}, s \in Sessions, saved \in BOOLEAN :
                   /\ Move(Review, Call(p, s, TRUE), saved)
                   /\ s.diff = c.diff /\ s.status \notin Starting
      <4>1. r \in Results
        BY DEF Results
      <4>2. /\ Marked(c, g, r) \in Sessions /\ Marked(c, g, r).status = c.status
            /\ Marked(c, g, r).diff = c.diff
        BY <1>0, <4>1, MarkedIs, ZenonT(40)
      <4>. QED BY <2>2, <3>4, <4>2
    <3>5. CASE Move(Review, Call("idle", Kept(c, {patch} \cap {c.diff}), TRUE), TRUE)
      <4>1. {patch} \cap {c.diff} \in SUBSET Contents
        BY DEF TypeOK
      <4>2. /\ Kept(c, {patch} \cap {c.diff}) \in Sessions
            /\ Kept(c, {patch} \cap {c.diff}).status = c.status
            /\ Kept(c, {patch} \cap {c.diff}).diff = c.diff
        BY <1>0, <4>1, KeptIs
      <4>. QED BY <2>2, <3>5, <4>2
    <3>. QED BY <1>11, <3>1, <3>2, <3>3, <3>4, <3>5, Zenon DEF ReviewChecks
  <2>4. p \in Points
    BY <1>6
  <2>. HIDE DEF c
  <2>. QED BY <1>7, <2>1, <2>3, <2>4
<1>12. CASE ~act[Review].event /\ ReviewDecides
  <2>1. /\ UNCHANGED <<tree, patch>> /\ InFlight
        /\ act[Review].at \in {"apply", "revert", "reject", "store"}
    <3>1. /\ UNCHANGED <<tree, patch>>
          /\ act[Review].at \in {"apply", "revert", "reject", "store"}
      BY <1>2, <1>12 DEF ReviewDecides
    <3>. QED BY <1>1, <3>1 DEF InFlight
  <2>2. c.status \notin Starting
    BY <1>5, <2>1
  <2>3. PICK p \in {"store", "remove", "idle"}, s \in Sessions, v \in BOOLEAN, saved \in BOOLEAN :
          /\ Move(Review, Call(p, s, v), saved)
          /\ s.diff = c.diff /\ s.status \notin Starting
          /\ p = "remove" => s.status \in Over /\ saved
          /\ tree = Gone =>
               /\ p = "store" => s.status = "reverted"
               /\ v \/ saved => s.status \in Over
    <3>1. \A st \in {"applied", "reverted", "rejected"} :
            /\ With(c, st) \in Sessions /\ With(c, st).status = st /\ With(c, st).diff = c.diff
            /\ st \in Over /\ st \notin Starting
      BY <1>0, <1>4 DEF Statuses, Over, Starting
    <3>2. CASE act[Review].at = "apply"
      <4>1. Move(Review, Call("store", With(c, "applied"), FALSE), FALSE) /\ tree # Gone
        BY <1>2, <1>12, <3>2 DEF ReviewDecides, Removed
      <4>. HIDE DEF c
      <4>. QED BY <3>1, <4>1
    <3>3. CASE act[Review].at = "revert"
      <4>1. Move(Review, Call("store", With(c, "reverted"), FALSE), FALSE)
        BY <1>12, <3>3 DEF ReviewDecides
      <4>. HIDE DEF c
      <4>. QED BY <3>1, <4>1
    <3>4. CASE act[Review].at = "reject"
      <4>1. Move(Review, Call("remove", With(c, "rejected"), TRUE), TRUE)
        BY <1>12, <3>4 DEF ReviewDecides
      <4>. HIDE DEF c
      <4>. QED BY <3>1, <4>1
    <3>5. CASE act[Review].at = "store"
      <4>1. PICK p \in {"remove", "idle"} :
              (p = "remove" <=> c.status = "applied") /\ Move(Review, Call(p, c, TRUE), TRUE)
        BY <1>12, <3>5 DEF ReviewDecides
      <4>2. tree = Gone => c.status = "reverted"
        BY <1>2, <3>5 DEF Removed
      <4>3. "applied" \in Over /\ "reverted" \in Over
        BY DEF Over
      <4>. HIDE DEF c
      <4>. QED BY <1>0, <2>2, <4>1, <4>2, <4>3
    <3>. QED BY <2>1, <3>2, <3>3, <3>4, <3>5
  <2>4. p \in Points
    BY <1>6
  <2>. HIDE DEF c
  <2>. QED BY <1>7, <2>1, <2>3, <2>4
<1>. QED BY <1>8, <1>9, <1>10, <1>11, <1>12 DEF ReviewStep

(* A stop beside a request in progress cancels or waits; it pauses only    *)
(* while a worker runs.                                                    *)
LEMMA StopRetains ==
  ASSUME Manual, TypeOK, WorkerInv, RetainedInv,
         NEW e \in Calls, NEW saved \in BOOLEAN, Move(Stop, e, saved), ~Queued(Stop),
         UNCHANGED <<file, tree, patch>>,
         \A w \in Workers : worker'[w] = "free" <=> worker[w] = "free",
         Agrees(e.copy), Blank => e.copy.diff = 0,
         InFlight => /\ e.at \notin StopPauses
                     /\ e.event \/ saved => e.copy.status = "cancelled",
         tree = Gone => /\ e.at \notin StopPauses
                        /\ e.event \/ saved => e.copy.status \in Over
  PROVE  RetainedInv'
<1>0. /\ Review \in Actors /\ Stop \in Actors /\ Boot \in Actors
      /\ Stop # Review /\ Stop # Boot
      /\ \A w \in Workers : Owner(w) \in Actors /\ Owner(w) # Stop
  BY ManualActors, ActorsAre
<1>1. act'[Stop] = e /\ \A b \in Actors \ {Stop} : act'[b] = act[b]
  BY <1>0, MoveIs, ZenonT(40)
<1>2. Queued(Stop)' <=> saved
  BY <1>0, MoveIs, Zenon
<1>3. \A b \in Actors \ {Stop} : Queued(b)' <=> Queued(b)
  BY <1>0, MoveIs, Zenon
<1>4. (Quiet' <=> Quiet) /\ (Blank' <=> Blank) /\ (InFlight' <=> InFlight)
  BY <1>0, <1>1 DEF Quiet, Blank, InFlight
<1>5. Agreed /\ Fresh /\ Beside /\ Removing /\ Removed /\ act[Review].at # "restoreCheckpoint"
  BY DEF RetainedInv
<1>6. Agreed'
  BY <1>0, <1>1, <1>5 DEF Agreed, Agrees, Matches
<1>7. Fresh'
  BY <1>0, <1>1, <1>3, <1>4, <1>5 DEF Fresh
<1>8. Beside'
  BY <1>0, <1>1, <1>2, <1>4, <1>5 DEF Beside
<1>9. Removing'
  BY <1>0, <1>1, <1>3, <1>5 DEF Removing
<1>10. Removed'
  BY <1>0, <1>1, <1>2, <1>3, <1>4, <1>5 DEF Removed
<1>. QED BY <1>0, <1>1, <1>5, <1>6, <1>7, <1>8, <1>9, <1>10 DEF RetainedInv

LEMMA StopStepRetains ==
  ASSUME Manual, TypeOK, WorkerInv, RetainedInv, StopStep
  PROVE  RetainedInv'
<1>. DEFINE c == act[Stop].copy
<1>0. Stop \in Actors /\ c \in Sessions /\ act[Stop].at \in Points /\ file \in Sessions
  BY ActorsAre, CopyTypes DEF TypeOK
<1>1. /\ ~Queued(Stop) /\ UNCHANGED <<file, tree, patch>>
      /\ \A w \in Workers : worker'[w] = "free" <=> worker[w] = "free"
  BY DEF StopStep
<1>2. Agreed /\ Fresh /\ Beside /\ Removed
  BY DEF RetainedInv
<1>3. Agrees(c) /\ Agrees(file)
  BY <1>0, <1>2 DEF Agreed
<1>4. Blank => c.diff = 0 /\ file.diff = 0
  BY <1>0, <1>2 DEF Fresh
<1>5. {"kill", "killOnExit", "load", "hold", "drain", "drained"} \subseteq Points
  BY DEF Points
<1>6. InFlight \/ tree = Gone => Quiet /\ act[Stop].at \notin StopPauses
  BY <1>2, ReviewPlace DEF InFlight, Beside, Removed
<1>7. InFlight => (act[Stop].event => c.status = "cancelled")
  BY <1>2 DEF Beside
<1>8. tree = Gone => (act[Stop].event => c.status \in Over)
  BY <1>0, <1>2 DEF Removed
<1>9. "cancelled" \in Over
  BY DEF Over
<1>10. ASSUME NEW p \in Points, NEW s \in Sessions, NEW v \in BOOLEAN, NEW saved \in BOOLEAN,
              Move(Stop, Call(p, s, v), saved), Agrees(s), Blank => s.diff = 0,
              InFlight => p \notin StopPauses /\ (v \/ saved => s.status = "cancelled"),
              tree = Gone => p \notin StopPauses /\ (v \/ saved => s.status \in Over)
       PROVE  RetainedInv'
  <2>1. PICK e \in Calls : e = Call(p, s, v) /\ e.at = p /\ e.copy = s /\ e.event = v
    BY CallIs
  <2>2. Move(Stop, e, saved) /\ Agrees(e.copy)
    BY <1>10, <2>1
  <2>. HIDE DEF c
  <2>. QED BY <1>1, <1>10, <2>1, <2>2, StopRetains
<1>11. CASE act[Stop].event /\ Move(Stop, Call(act[Stop].at, c, FALSE), TRUE)
  <2>. HIDE DEF c
  <2>. QED BY <1>0, <1>3, <1>4, <1>6, <1>7, <1>8, <1>10, <1>11
<1>12. CASE StopEnds
  <2>1. /\ Idle \in Calls /\ Idle.at = "idle" /\ Idle.event = FALSE /\ Idle.copy.diff = 0
        /\ Idle.copy.status = "none" /\ Move(Stop, Idle, FALSE)
    BY <1>12, IdleIs, SessionIs DEF StopEnds, Statuses
  <2>2. Agrees(Idle.copy)
    BY <2>1 DEF Agrees, Matches
  <2>3. Idle.at \notin StopPauses
    BY <2>1 DEF StopPauses
  <2>. QED BY <1>1, <2>1, <2>2, <2>3, StopRetains
<1>13. CASE StopHalts
  <2>1. PICK p \in {"kill", "killOnExit"}, st \in {"cancelled", "paused"} :
          /\ Move(Stop, Call(p, With(c, st), TRUE), TRUE)
          /\ p = "killOnExit" \/ st = "paused" => act[Stop].at \in StopPauses
    BY <1>13 DEF StopHalts, StopPauses
  <2>2. With(c, st) \in Sessions /\ With(c, st).status = st /\ With(c, st).diff = c.diff
    BY <1>0, WithIs DEF Statuses
  <2>3. Agrees(With(c, st))
    BY <1>3, <2>2 DEF Agrees, Matches, Starting
  <2>4. InFlight \/ tree = Gone => p \notin StopPauses /\ st = "cancelled"
    BY <1>6, <2>1 DEF StopPauses
  <2>5. p \in Points
    BY <1>5
  <2>. HIDE DEF c
  <2>. QED BY <1>4, <1>9, <1>10, <2>1, <2>2, <2>3, <2>4, <2>5
<1>14. CASE StopWaits
  <2>1. map # 0 => ~Quiet
    BY DEF WorkerInv, ProcessInv, Registered, Running, Quiet
  <2>2. PICK p \in {"kill", "load", "hold", "drain", "drained"}, s \in {c, file} :
          /\ Move(Stop, Call(p, s, FALSE), FALSE)
          /\ p = "load" => map # 0
          /\ p = "hold" => act[Stop].at = "load"
    <3>. HIDE DEF c
    <3>. QED BY <1>14, Zenon DEF StopWaits, c
  <2>3. InFlight \/ tree = Gone => p \notin StopPauses
    BY <1>6, <2>1, <2>2 DEF StopPauses
  <2>4. p \in Points /\ s \in Sessions /\ Agrees(s) /\ (Blank => s.diff = 0)
    BY <1>0, <1>3, <1>4, <1>5
  <2>. HIDE DEF c
  <2>. QED BY <1>10, <2>2, <2>3, <2>4
<1>. QED BY <1>11, <1>12, <1>13, <1>14 DEF StopStep

(* The owner of a worker is alone with the worktree; while the worker edits *)
(* there is no diff, and when it has ended its owner captures one.         *)
LEMMA OwnerRetains ==
  ASSUME Manual, TypeOK, WorkerInv, RetainedInv, NEW w \in Workers,
         NEW e \in Calls, NEW saved \in BOOLEAN, Move(Owner(w), e, saved),
         ~Queued(Owner(w)), UNCHANGED <<file, tree>>, worker[w] # "free",
         worker' = worker \/ (\A v \in Workers : worker'[v] = "free"),
         patch' = patch \/ act[Owner(w)].at \notin {"store", "settle"},
         Matches(e.copy, tree, patch'),
         e.at \notin {"store", "settle"} =>
           \/ \A v \in Workers : worker'[v] = "free"
           \/ e.copy.diff = 0 /\ act[Owner(w)].at \notin {"store", "settle"}
  PROVE  RetainedInv'
<1>. DEFINE o == Owner(w)
<1>0. /\ Review \in Actors /\ Stop \in Actors /\ Boot \in Actors /\ o \in Actors
      /\ Review # o /\ Stop # o /\ Boot # o
      /\ \A v \in Workers \ {w} : Owner(v) \in Actors /\ Owner(v) # o
  BY ManualActors, ActorsAre
<1>1. o \in Actors /\ Move(o, e, saved) /\ ~Queued(o)
  BY <1>0
<1>2. /\ ~Quiet /\ act[Review] = Idle /\ Idle.at = "idle"
      /\ act[Boot].at \notin LaunchPoints
  BY Unquiet, IdleIs DEF Quiet, WorkerInv, Alone
<1>3. \A v \in Workers \ {w} : worker[v] = "free"
  BY DEF WorkerInv, ProcessInv, Lives
<1>4. Blank <=> act[o].at \notin {"store", "settle"}
  BY <1>3 DEF Blank
<1>5. Blank' => /\ act'[o].at \notin {"store", "settle"}
                /\ ~(\A v \in Workers : worker'[v] = "free")
  <2>1. ASSUME NEW v \in Workers, worker'[v] # "free", act'[Owner(v)].at \notin {"store", "settle"}
        PROVE  v = w /\ ~(\A u \in Workers : worker'[u] = "free")
    BY <1>3, <2>1
  <2>. QED BY <2>1 DEF Blank
<1>. HIDE DEF o
<1>6. act'[o] = e /\ \A b \in Actors \ {o} : act'[b] = act[b]
  BY <1>1, MoveIs, Zenon
<1>7. \A b \in Actors \ {o} : Queued(b)' <=> Queued(b)
  BY <1>1, MoveIs, Zenon
<1>8. Agreed /\ Fresh /\ Removed /\ tree # Gone
  BY <1>2 DEF RetainedInv, Removed
<1>9. Blank => file.diff = 0 /\ \A a \in Actors : act[a].copy.diff = 0
  BY <1>8 DEF Fresh
<1>10. Agreed'
  <2>1. /\ Matches(file, tree, patch) /\ \A b \in Actors : Matches(act[b].copy, tree, patch)
    BY <1>8 DEF Agreed, Agrees
  <2>2. /\ Matches(file, tree, patch') /\ \A b \in Actors : Matches(act[b].copy, tree, patch')
    <3>1. CASE patch' = patch
      BY <2>1, <3>1
    <3>2. CASE Blank
      BY <1>9, <2>1, <3>2 DEF Matches
    <3>. QED BY <1>4, <3>1, <3>2 DEF o
  <2>. QED BY <1>6, <2>2 DEF Agreed, Agrees
<1>11. Fresh'
  <2>1. Blank' => file.diff = 0 /\ \A a \in Actors : act'[a].copy.diff = 0
    <3>. SUFFICES ASSUME Blank'
                  PROVE  file.diff = 0 /\ \A a \in Actors : act'[a].copy.diff = 0
      OBVIOUS
    <3>1. e.copy.diff = 0 /\ act[o].at \notin {"store", "settle"}
      BY <1>1, <1>5, <1>6 DEF o
    <3>2. Blank
      BY <1>4, <3>1
    <3>. QED BY <1>6, <1>9, <3>1, <3>2
  <2>. QED BY <1>0, <1>2, <1>6, <1>7, <1>8, <2>1 DEF Fresh, SpawnPoints
<1>12. ~InFlight' /\ act'[Review].at = "idle"
  BY <1>0, <1>2, <1>6 DEF InFlight
<1>. QED
  BY <1>8, <1>10, <1>11, <1>12 DEF RetainedInv, Beside, Removing, Removed

LEMMA OwnerStepRetains ==
  ASSUME Manual, TypeOK, WorkerInv, RetainedInv, NEW w \in Workers, OwnerStep(w)
  PROVE  RetainedInv'
<1>. DEFINE o == Owner(w)
            c == act[o].copy
<1>0. /\ o \in Actors /\ c \in Sessions /\ file \in Sessions /\ act[o].at \in Points
      /\ {"line", "ok", "failed", "store", "settle", "idle"} \subseteq Points
  BY ActorsAre, CopyTypes DEF TypeOK, Points
<1>1. /\ ~Queued(o) /\ UNCHANGED <<file, tree>> /\ worker[w] # "free"
      /\ worker' = worker \/ (\A v \in Workers : worker'[v] = "free")
  BY DEF OwnerStep
<1>2. Matches(c, tree, patch) /\ Matches(file, tree, patch)
  BY <1>0 DEF RetainedInv, Agreed, Agrees
<1>3. act[o].at \notin {"store", "settle"} => c.diff = 0 /\ file.diff = 0
  <2>1. act[o].at \notin {"store", "settle"} => Blank
    BY <1>1 DEF Blank
  <2>. QED BY <1>0, <2>1 DEF RetainedInv, Fresh
<1>4. ASSUME NEW p \in Points, NEW s \in Sessions, NEW v \in BOOLEAN, NEW saved \in BOOLEAN,
             Move(o, Call(p, s, v), saved),
             patch' = patch \/ act[o].at \notin {"store", "settle"},
             Matches(s, tree, patch'),
             p \notin {"store", "settle"} => s.diff = 0 /\ act[o].at \notin {"store", "settle"}
      PROVE  RetainedInv'
  <2>1. PICK e \in Calls : e = Call(p, s, v) /\ e.at = p /\ e.copy = s
    BY CallIs
  <2>2. Move(o, e, saved) /\ Matches(e.copy, tree, patch')
    BY <1>4, <2>1
  <2>. HIDE DEF c
  <2>. QED BY <1>1, <1>4, <2>1, <2>2, OwnerRetains
<1>5. CASE OwnerReads(w)
  <2>1. PICK p \in {"line", "ok", "failed", "settle"} :
          Move(o, Call(p, file, FALSE), FALSE) /\ patch' = patch
    BY <1>5, Zenon DEF OwnerReads
  <2>2. act[o].at = "idle"
    BY <1>5, IdleIs DEF OwnerReads
  <2>3. p \in Points
    BY <1>0
  <2>. HIDE DEF c
  <2>. QED BY <1>0, <1>2, <1>3, <1>4, <2>1, <2>2, <2>3
<1>6. CASE OwnerSaves(w)
  <2>0. patch' = patch
    BY <1>6 DEF OwnerSaves
  <2>1. CASE Move(o, Idle, FALSE) /\ \A v \in Workers : worker'[v] = "free"
    <3>1. Idle \in Calls /\ Idle.copy.diff = 0 /\ Idle.copy.status = "none"
      BY IdleIs, SessionIs DEF Statuses
    <3>2. Matches(Idle.copy, tree, patch')
      BY <3>1 DEF Matches
    <3>. HIDE DEF c
    <3>. QED BY <1>1, <2>0, <2>1, <3>1, <3>2, OwnerRetains
  <2>2. CASE Move(o, Call(act[o].at, c, FALSE), TRUE)
    <3>. HIDE DEF c
    <3>. QED BY <1>0, <1>2, <1>3, <1>4, <2>0, <2>2
  <2>3. CASE act[o].at = "line" /\ Move(o, Call("idle", c, TRUE), TRUE)
    <3>. HIDE DEF c
    <3>. QED BY <1>0, <1>2, <1>3, <1>4, <2>0, <2>3
  <2>4. CASE Move(o, Call("settle", c, TRUE), TRUE)
    <3>. HIDE DEF c
    <3>. QED BY <1>0, <1>2, <1>4, <2>0, <2>4
  <2>5. CASE Move(o, Call("settle", With(c, "failed"), TRUE), TRUE)
    <3>1. /\ With(c, "failed") \in Sessions /\ With(c, "failed").status = "failed"
          /\ With(c, "failed").diff = c.diff
      BY <1>0, WithIs DEF Statuses
    <3>2. Matches(With(c, "failed"), tree, patch')
      BY <1>2, <2>0, <3>1 DEF Matches, Starting
    <3>. HIDE DEF c
    <3>. QED BY <1>0, <1>4, <2>0, <2>5, <3>1, <3>2
  <2>. QED BY <1>6, <2>1, <2>2, <2>3, <2>4, <2>5, Zenon DEF OwnerSaves
<1>7. CASE OwnerCaptures(w)
  <2>1. /\ tree \in Contents /\ patch' = tree /\ act[o].at = "ok"
        /\ \/ Move(o, Call("store", With(Captured(c, tree), "awaiting-review"), FALSE), FALSE)
           \/ Move(o, Call("store", With(HalfCaptured(c, tree), "failed"), FALSE), FALSE)
    BY <1>7, Zenon DEF OwnerCaptures
  <2>2. PICK s \in Sessions : /\ Move(o, Call("store", s, FALSE), FALSE)
                              /\ s.diff = tree /\ s.status \notin Starting
    <3>1. Captured(c, tree) \in Sessions /\ Captured(c, tree).diff = tree
      BY <1>0, <2>1, CapturedIs
    <3>2. HalfCaptured(c, tree) \in Sessions /\ HalfCaptured(c, tree).diff = tree
      BY <1>0, <2>1, HalfCapturedIs
    <3>3. \A s \in Sessions, st \in {"awaiting-review", "failed"} :
            /\ With(s, st) \in Sessions /\ With(s, st).status \notin Starting
            /\ With(s, st).diff = s.diff
      BY WithIs DEF Statuses, Starting
    <3>. HIDE DEF c
    <3>. QED BY <2>1, <3>1, <3>2, <3>3
  <2>3. Matches(s, tree, patch')
    BY <2>1, <2>2 DEF Matches
  <2>. HIDE DEF c
  <2>. QED BY <1>0, <1>4, <2>1, <2>2, <2>3
<1>. QED BY <1>5, <1>6, <1>7 DEF OwnerStep

(* initialize() and its recovery come before any request.                  *)
LEMMA BootRetains ==
  ASSUME Manual, TypeOK, WorkerInv, RetainedInv,
         NEW e \in Calls, NEW saved \in BOOLEAN, Move(Boot, e, saved),
         ~Queued(Boot), act[Boot] # Idle, UNCHANGED <<file, tree, patch, worker>>,
         Agrees(e.copy), e.copy.diff \in {0, act[Boot].copy.diff, file.diff},
         e.at \in {"recover", "spawnRecovered"} => e.copy.diff = 0,
         e.at \in SpawnPoints => saved,
         tree = Gone => /\ e.at \in {"idle", "initialize"}
                        /\ e.event \/ saved => e.copy.status \in Over
  PROVE  RetainedInv'
<1>0. /\ Review \in Actors /\ Stop \in Actors /\ Boot \in Actors
      /\ Review # Boot /\ Stop # Boot
      /\ \A w \in Workers : Owner(w) \in Actors /\ Owner(w) # Boot
  BY ManualActors, ActorsAre
<1>1. act'[Boot] = e /\ \A b \in Actors \ {Boot} : act'[b] = act[b]
  BY <1>0, MoveIs, ZenonT(40)
<1>2. Queued(Boot)' <=> saved
  BY <1>0, MoveIs, Zenon
<1>3. \A b \in Actors \ {Boot} : Queued(b)' <=> Queued(b)
  BY <1>0, MoveIs, Zenon
<1>4. (Quiet' <=> Quiet) /\ (Blank' <=> Blank) /\ (InFlight' <=> InFlight)
  BY <1>0, <1>1 DEF Quiet, Blank, InFlight
<1>5. Agreed /\ Fresh /\ Beside /\ Removing /\ Removed /\ act[Review].at # "restoreCheckpoint"
  BY DEF RetainedInv
<1>6. ~InFlight
  BY <1>5 DEF Beside
<1>7. Agreed'
  BY <1>0, <1>1, <1>5 DEF Agreed, Agrees, Matches
<1>8. Fresh'
  BY <1>0, <1>1, <1>2, <1>3, <1>4, <1>5 DEF Fresh
<1>9. Beside' /\ Removing'
  BY <1>0, <1>1, <1>3, <1>4, <1>5, <1>6 DEF Beside, Removing
<1>10. Removed'
  BY <1>0, <1>1, <1>2, <1>3, <1>4, <1>5 DEF Removed
<1>. QED BY <1>0, <1>1, <1>5, <1>7, <1>8, <1>9, <1>10 DEF RetainedInv

LEMMA BootStepRetains ==
  ASSUME Manual, TypeOK, WorkerInv, RetainedInv,
         Initialize \/ Launch(Boot, "recover") \/ AddEvent(Boot)
  PROVE  RetainedInv'
<1>. DEFINE c == act[Boot].copy
<1>0. /\ Boot \in Actors /\ c \in Sessions /\ file \in Sessions /\ Boot \notin Requests
      /\ {"idle", "initialize", "recover", "spawnRecovered"} \subseteq Points
  BY ManualActors, ActorsAre, CopyTypes DEF TypeOK, Points
<1>1. Fresh /\ Removed
  BY DEF RetainedInv
<1>2. Matches(c, tree, patch) /\ Matches(file, tree, patch)
  BY <1>0 DEF RetainedInv, Agreed, Agrees
<1>3. Idle.at = "idle" /\ Idle.event = FALSE /\ Idle.copy.diff = 0 /\ Idle.copy.status = "none"
      /\ Idle \in Calls
  BY IdleIs, SessionIs DEF Statuses
<1>4. UNCHANGED <<file, tree, patch, worker>>
  BY DEF Initialize, Launch, AddEvent, processVars, diskVars
<1>5. ASSUME NEW p \in Points, NEW s \in Sessions, NEW v \in BOOLEAN,
             Move(Boot, Call(p, s, v), TRUE), ~Queued(Boot), act[Boot] # Idle,
             Matches(s, tree, patch), s.diff \in {0, c.diff, file.diff},
             p \in {"recover", "spawnRecovered"} => s.diff = 0, p # "spawn",
             tree = Gone => p \in {"idle", "initialize"} /\ s.status \in Over
      PROVE  RetainedInv'
  <2>1. PICK e \in Calls : e = Call(p, s, v) /\ e.at = p /\ e.copy = s
    BY CallIs
  <2>2. Move(Boot, e, TRUE) /\ Agrees(e.copy)
    BY <1>5, <2>1 DEF Agrees
  <2>. QED BY <1>4, <1>5, <2>1, <2>2, BootRetains
<1>6. CASE Initialize
  <2>1. act[Boot].at = "initialize" /\ ~Queued(Boot)
    BY <1>6 DEF Initialize, At
  <2>2. act[Boot] # Idle
    BY <1>3, <2>1
  <2>3. CASE Leave(Boot)
    <3>1. Move(Boot, Idle, FALSE) /\ Agrees(Idle.copy)
      BY <1>3, <2>3 DEF Leave, Move, Agrees, Matches
    <3>. QED BY <1>3, <1>4, <2>1, <2>2, <3>1, BootRetains DEF SpawnPoints
  <2>4. ASSUME NEW p \in {"idle", "recover"}, NEW st \in {"awaiting-review", "paused"},
               SaveAndEvent(Boot, With(file, st), p),
               file.status \in {"testing", "preparing", "running"},
               p = "recover" => file.status \in Starting
        PROVE  RetainedInv'
    <3>1. /\ With(file, st) \in Sessions /\ With(file, st).status = st
          /\ With(file, st).diff = file.diff
      BY <1>0, WithIs DEF Statuses
    <3>2. Move(Boot, Call(p, With(file, st), TRUE), TRUE)
      BY <1>0, <2>4, <3>1, Moves
    <3>3. tree # Gone
      BY <1>1, <2>4 DEF Removed, Over
    <3>4. Matches(With(file, st), tree, patch)
      BY <1>2, <3>1 DEF Matches, Starting
    <3>5. p = "recover" => file.diff = 0
      BY <1>2, <2>4 DEF Matches
    <3>6. p \in Points
      BY <1>0
    <3>. HIDE DEF c
    <3>. QED BY <1>5, <2>1, <2>2, <3>1, <3>2, <3>3, <3>4, <3>5, <3>6
  <2>. QED BY <1>6, <2>3, <2>4 DEF Initialize, Untested, Manual, Starting
<1>7. CASE Launch(Boot, "recover")
  <2>1. act[Boot].at = "recover" /\ ~Queued(Boot)
    BY <1>7 DEF Launch, At
  <2>2. act[Boot] # Idle /\ Quiet
    BY <1>3, <2>1 DEF WorkerInv, Alone, LaunchPoints
  <2>3. map = 0
    BY <2>2 DEF Quiet, WorkerInv, ProcessInv, Registered, Running
  <2>4. Save(Boot, With(c, "running"), "spawnRecovered")
    BY <1>7, <2>3 DEF Launch, Starts
  <2>5. With(c, "running") \in Sessions /\ With(c, "running").diff = c.diff
    BY <1>0, WithIs DEF Statuses
  <2>6. Move(Boot, Call("spawnRecovered", With(c, "running"), FALSE), TRUE)
    BY <1>0, <2>4, <2>5, Moves
  <2>7. c.diff = 0 /\ tree # Gone
    BY <1>1, <2>1 DEF Fresh, Removed
  <2>8. Matches(With(c, "running"), tree, patch)
    BY <2>5, <2>7 DEF Matches
  <2>. HIDE DEF c
  <2>. QED BY <1>0, <1>5, <2>1, <2>2, <2>5, <2>6, <2>7, <2>8
<1>8. CASE AddEvent(Boot)
  <2>1. act[Boot].event /\ ~Queued(Boot) /\ Save(Boot, c, act[Boot].at)
    BY <1>8 DEF AddEvent
  <2>2. act[Boot] # Idle /\ act[Boot].at \in Points /\ act[Boot].at # "spawn"
    BY <1>0, <1>3, <2>1, CopyTypes DEF WorkerInv, Placed, ProperBoot, BootPoints
  <2>3. Move(Boot, Call(act[Boot].at, c, FALSE), TRUE)
    BY <1>0, <2>1, <2>2, Moves
  <2>4. act[Boot].at \in {"recover", "spawnRecovered"} => c.diff = 0
    BY <1>1 DEF Fresh
  <2>5. tree = Gone => act[Boot].at \in {"idle", "initialize"} /\ c.status \in Over
    BY <1>0, <1>1, <2>1 DEF Removed
  <2>. HIDE DEF c
  <2>. QED BY <1>0, <1>2, <1>5, <2>1, <2>2, <2>3, <2>4, <2>5
<1>. QED BY <1>6, <1>7, <1>8

(* A worker starts on a session without a diff.                            *)
LEMMA SpawnRetains ==
  ASSUME Manual, TypeOK, WorkerInv, RetainedInv, NEW a \in {Review, Boot}, NEW w \in Workers,
         NEW p \in {"start", "recover"}, Spawn(a, w, p), a = Review => p = "start"
  PROVE  RetainedInv'
<1>. DEFINE c == act[a].copy
<1>0. /\ a \in Actors /\ Review \in Actors /\ Stop \in Actors /\ Boot \in Actors
      /\ Review # Boot /\ Stop # Review /\ Stop # Boot /\ c \in Sessions
  BY ManualActors, ActorsAre, CopyTypes
<1>1. act[a].at = Starts[p] /\ ~Queued(a) /\ Starts[p] \in SpawnPoints
      /\ Starts[p] \in LaunchPoints
  BY DEF Spawn, At, Starts, SpawnPoints, LaunchPoints
<1>2. UNCHANGED <<file, tree, patch>>
  BY DEF Spawn, diskVars
<1>3. /\ Idle \in Calls /\ Idle.at = "idle" /\ Idle.event = FALSE
      /\ Idle.copy.diff = 0 /\ Idle.copy.status = "none"
  BY IdleIs, SessionIs DEF Statuses
<1>4. \A b \in Actors \ {a} : act[b] = Idle
  BY <1>1, Zenon DEF WorkerInv, Alone
<1>5. file.diff = 0 /\ Agreed /\ Fresh /\ Removed
  BY <1>1 DEF RetainedInv, Fresh
<1>6. Starts[p] \in {"spawn", "spawnRecovered"} /\ act[a].copy.diff = 0 /\ tree # Gone
  <2>1. a = Review => act[a].at = "spawn"
    BY <1>1 DEF Starts
  <2>2. a = Boot => act[a].at = "spawnRecovered"
    BY <1>1, <1>0 DEF WorkerInv, Placed, ProperBoot, BootPoints, SpawnPoints
  <2>. QED BY <1>0, <1>1, <1>5, <2>1, <2>2 DEF Fresh, Removed, SpawnPoints
<1>7. \E e \in Calls : /\ Move(a, e, FALSE) /\ e.at = "idle" /\ e.copy.diff = 0
                       /\ e = Idle \/ (a = Boot /\ e.copy = c)
  <2>1. CASE Leave(a)
    BY <1>3, <2>1 DEF Leave, Move
  <2>2. CASE EventOnly(a, c, "idle") /\ a = Boot
    <3>1. "idle" \in Points
      BY DEF Points
    <3>2. Move(a, Call("idle", c, TRUE), FALSE)
      BY <1>0, <2>2, <3>1, Moves
    <3>3. /\ Call("idle", c, TRUE) \in Calls /\ Call("idle", c, TRUE).at = "idle"
          /\ Call("idle", c, TRUE).copy = c
      BY <1>0, <3>1, CallIs
    <3>. HIDE DEF c
    <3>4. c.diff = 0
      BY <1>6 DEF c
    <3>. QED BY <2>2, <3>2, <3>3, <3>4
  <2>3. Leave(a) \/ (EventOnly(a, c, "idle") /\ a = Boot)
    BY DEF Spawn, Rest, Review, Boot
  <2>. QED BY <2>1, <2>2, <2>3
<1>8. PICK e \in Calls : /\ Move(a, e, FALSE) /\ e.at = "idle" /\ e.copy.diff = 0
                         /\ e = Idle \/ (a = Boot /\ e.copy = c)
  BY <1>7
<1>9. act'[a] = e /\ \A b \in Actors \ {a} : act'[b] = act[b]
  BY <1>0, <1>1, <1>8, MoveIs, Zenon
<1>10. \A b \in Actors : act'[b].copy.diff = 0 /\ act'[b].at = "idle"
  BY <1>3, <1>4, <1>8, <1>9
<1>11. Agreed'
  BY <1>2, <1>5, <1>10 DEF Agreed, Agrees, Matches
<1>12. Fresh'
  BY <1>0, <1>2, <1>5, <1>10 DEF Fresh, SpawnPoints
<1>13. act'[Review] = Idle
  BY <1>0, <1>4, <1>8, <1>9
<1>. QED
  BY <1>2, <1>3, <1>6, <1>11, <1>12, <1>13 DEF RetainedInv, Beside, InFlight, Removing, Removed

(* What is written is a copy that agrees, or the end of the session.       *)
LEMMA WriteRetains ==
  ASSUME Manual, TypeOK, WorkerInv, RetainedInv, Write
  PROVE  RetainedInv'
<1>0. /\ Review \in Actors /\ Stop \in Actors /\ Boot \in Actors
      /\ Review # Boot /\ Stop # Review /\ Stop # Boot
      /\ \A w \in Workers : Owner(w) \in Actors
  BY ManualActors, ActorsAre
<1>1. PICK b \in Actors :
        /\ file' = act[b].copy /\ act[b].copy.status # "none" /\ act[b] # Idle
        /\ act'[b] \in {act[b], Idle}
        /\ act'[b] = Idle => act[b].at = "idle"
        /\ \A d \in Actors \ {b} : act'[d] = act[d]
        /\ \A d \in Actors \ {b} : Queued(d)' <=> Queued(d)
        /\ Queued(b) /\ ~Queued(b)'
  BY WriteIs, Zenon DEF WorkerInv
<1>2. UNCHANGED <<worker, tree, patch>>
  BY DEF Write, processVars, diskVars
<1>3. /\ Idle.at = "idle" /\ Idle.event = FALSE
      /\ Idle.copy.diff = 0 /\ Idle.copy.status = "none"
  BY IdleIs, SessionIs DEF Statuses
<1>4. Agreed /\ Fresh /\ Beside /\ Removing /\ Removed /\ act[Review].at # "restoreCheckpoint"
  BY DEF RetainedInv
<1>5. \A d \in Actors : /\ act'[d] = act[d] \/ (act'[d] = Idle /\ act[d].at = "idle")
                        /\ Queued(d)' => Queued(d)
  BY <1>1
<1>6. (Quiet' <=> Quiet) /\ (Blank' <=> Blank) /\ (InFlight' => InFlight)
  <2>1. Blank' <=> Blank
    BY <1>0, <1>2, <1>3, <1>5 DEF Blank
  <2>. QED BY <1>0, <1>2, <1>5, <2>1 DEF Quiet, InFlight
<1>7. Agreed'
  BY <1>1, <1>2, <1>3, <1>4, <1>5 DEF Agreed, Agrees, Matches
(* Beside a launch there is no other call.                                 *)
<1>8. ASSUME NEW a \in {Review, Boot}, act[a].at \in LaunchPoints PROVE b = a
  BY <1>0, <1>1, <1>8, Zenon DEF WorkerInv, Alone
<1>9. Fresh'
  <2>1. ASSUME NEW a \in {Review, Boot}, act'[a].at \in SpawnPoints, ~Queued(a)'
        PROVE  act[b].copy.diff = 0
    <3>1. a \in Actors /\ act[a].at \in SpawnPoints /\ act[a].at \in LaunchPoints
      BY <1>0, <1>3, <1>5, <2>1 DEF SpawnPoints, LaunchPoints
    <3>2. b = a
      BY <1>8, <3>1
    <3>. QED BY <1>0, <1>4, <3>1, <3>2
             DEF Fresh, SpawnPoints, WorkerInv, Placed, ProperReview, ProperBoot, ReviewPoints,
                 BootPoints
  <2>2. act'[Review].at # "create"
    <3>. SUFFICES ASSUME act'[Review].at = "create" PROVE FALSE
      OBVIOUS
    <3>1. act[Review].at = "create" /\ act[Review].copy.status = "none"
      BY <1>0, <1>3, <1>4, <1>5 DEF Fresh
    <3>2. b = Review
      BY <1>8, <3>1 DEF LaunchPoints
    <3>. QED BY <1>1, <3>1, <3>2
  <2>3. /\ act'[Review].at \in {"start", "spawn"} => act'[Review].copy.diff = 0
        /\ act'[Boot].at \in {"recover", "spawnRecovered"} => act'[Boot].copy.diff = 0
    BY <1>0, <1>3, <1>4, <1>5 DEF Fresh
  <2>4. Blank' => file'.diff = 0 /\ \A a \in Actors : act'[a].copy.diff = 0
    BY <1>1, <1>3, <1>4, <1>5, <1>6 DEF Fresh
  <2>. QED BY <1>1, <2>1, <2>2, <2>3, <2>4, Zenon DEF Fresh
(* Beside a request in progress only the stop writes.                      *)
<1>10. InFlight => b \in {Review, Stop}
  <2>. SUFFICES ASSUME InFlight PROVE b \in {Review, Stop}
    OBVIOUS
  <2>1. act[Boot] = Idle /\ Quiet
    BY <1>4, ReviewPlace DEF Beside, InFlight
  <2>2. \A w \in Workers : act[Owner(w)] = Idle
    BY <2>1 DEF Quiet, WorkerInv, ProcessInv, Finishing
  <2>3. b \in {Review, Stop, Boot} \/ \E w \in Workers : b = Owner(w)
    BY ManualActors DEF Actors, Requests
  <2>. QED BY <1>1, <2>1, <2>2, <2>3
<1>11. InFlight => /\ file'.status \notin Starting
                   /\ b = Stop => file'.status = "cancelled"
  BY <1>1, <1>4, <1>10 DEF Beside, Starting
<1>12. Beside'
  <2>. SUFFICES ASSUME InFlight'
                PROVE  /\ act'[Boot] = Idle /\ act'[Stop].at \notin StopPauses
                       /\ act'[Stop].event \/ Queued(Stop)' => act'[Stop].copy.status = "cancelled"
                       /\ file'.status \notin Starting /\ act'[Review].copy.status \notin Starting
    BY DEF Beside
  <2>1. act'[Review] = act[Review]
    BY <1>0, <1>5 DEF InFlight
  <2>2. act'[Boot] = Idle
    BY <1>0, <1>4, <1>5, <1>6 DEF Beside
  <2>3. /\ act'[Stop].at \notin StopPauses
        /\ act'[Stop].event => act'[Stop].copy.status = "cancelled"
    BY <1>0, <1>3, <1>4, <1>5, <1>6 DEF Beside, StopPauses
  <2>4. Queued(Stop)' => act'[Stop] = act[Stop] /\ Queued(Stop)
    BY <1>0, <1>1
  <2>. QED BY <1>4, <1>6, <1>11, <2>1, <2>2, <2>3, <2>4 DEF Beside
<1>13. Removing'
  <2>. SUFFICES ASSUME act'[Review].at = "remove"
                PROVE  /\ act'[Review].copy.status \in Over
                       /\ ~Queued(Review)' => file'.status \in Over
    BY DEF Removing
  <2>1. act'[Review] = act[Review] /\ InFlight /\ act[Review].copy.status \in Over
    BY <1>0, <1>3, <1>4, <1>5 DEF InFlight, Removing
  <2>2. b = Review \/ file'.status = "cancelled"
    BY <1>10, <1>11, <2>1
  <2>. QED BY <1>1, <2>1, <2>2 DEF Over
<1>14. Removed'
  <2>. SUFFICES ASSUME tree = Gone PROVE Removed'
    BY <1>2 DEF Removed
  <2>1. Removed /\ tree = Gone
    BY <1>4
  <2>2. file'.status \in Over
    BY <1>1, <2>1 DEF Removed
  <2>3. \A a \in Actors : act'[a].event \/ Queued(a)' => act'[a].copy.status \in Over
    <3>. SUFFICES ASSUME NEW a \in Actors, act'[a].event \/ Queued(a)'
                  PROVE  act'[a].copy.status \in Over
      OBVIOUS
    <3>1. act'[a] = act[a] /\ (act[a].event \/ Queued(a))
      BY <1>1, <1>3, <1>5
    <3>. QED BY <2>1, <3>1 DEF Removed
  <2>4. /\ act'[Review].at \in {"idle", "create", "reject", "revert", "store", "remove"}
        /\ act'[Review].at = "store" => act'[Review].copy.status = "reverted"
        /\ act'[Boot].at \in {"idle", "initialize"} /\ act'[Stop].at \notin StopPauses
    BY <1>0, <1>3, <1>5, <2>1 DEF Removed, StopPauses
  <2>. QED BY <1>6, <2>1, <2>2, <2>3, <2>4 DEF Removed
<1>15. act'[Review].at # "restoreCheckpoint"
  BY <1>0, <1>3, <1>4, <1>5
<1>. QED BY <1>7, <1>9, <1>12, <1>13, <1>14, <1>15 DEF RetainedInv

LEMMA RequestRetains ==
  ASSUME Manual, TypeOK, WorkerInv, RetainedInv, "restoreCheckpoint" \notin Operations,
         NEW a \in Requests, NEW op \in Operations \ {"line"}, Request(a, op)
  PROVE  RetainedInv'
<1>0. /\ Review \in Actors /\ Stop \in Actors /\ Boot \in Actors
      /\ Stop # Review /\ Boot # Review /\ Stop # Boot
      /\ \A v \in Workers : Owner(v) \in Actors /\ Owner(v) # Review /\ Owner(v) # Stop
  BY ManualActors, ActorsAre
<1>1. /\ act[a] = Idle /\ ~Queued(a) /\ a \in {Review, Stop}
      /\ op \in Points /\ op \in Names /\ op # "line"
      /\ op \in Stops <=> a = Stop
      /\ Accepts(op, file)
      /\ Move(a, Call(op, file, FALSE), FALSE)
      /\ UNCHANGED <<file, worker>>
      /\ Calm /\ a = Review => Quiet
  BY RequestIs, Zenon
<1>2. UNCHANGED <<tree, patch>>
  BY DEF Request, diskVars
<1>3. PICK e \in Calls : /\ e = Call(op, file, FALSE)
                         /\ e.at = op /\ e.copy = file /\ e.event = FALSE
  <2>1. file \in Sessions
    BY DEF TypeOK
  <2>2. /\ Call(op, file, FALSE) \in Calls /\ Call(op, file, FALSE).at = op
        /\ Call(op, file, FALSE).copy = file /\ Call(op, file, FALSE).event = FALSE
    BY <1>1, <2>1, CallIs
  <2>. QED BY <2>2
<1>4. Move(a, e, FALSE)
  BY <1>1, <1>3
<1>5. Agreed /\ Fresh /\ Beside /\ Removing /\ Removed /\ act[Review].at # "restoreCheckpoint"
  BY DEF RetainedInv
<1>6. Idle.at = "idle" /\ Idle.copy.status = "none" /\ Idle.event = FALSE /\ Idle.copy.diff = 0
  BY IdleIs, SessionIs DEF Statuses
<1>7. CASE a = Stop
  <2>1. op \in Stops /\ (op = "pause" => file.status \in {"running", "preparing"})
    BY <1>1, <1>7 DEF Accepts
  <2>2. InFlight \/ tree = Gone => op # "pause"
    BY <1>5, <2>1 DEF Beside, Removed, Starting, Over
  <2>3. e.at \in StopPauses => op = "pause"
    BY <1>3, <2>1 DEF Stops, StopPauses
  <2>4. Agrees(e.copy) /\ (Blank => e.copy.diff = 0)
    BY <1>3, <1>5 DEF Agreed, Fresh
  <2>. QED BY <1>1, <1>2, <1>3, <1>4, <1>7, <2>2, <2>3, <2>4, StopRetains
<1>8. CASE a = Review
  <2>1. op \notin Stops /\ op \notin {"store", "remove", "idle", "start", "spawn"}
        /\ op \notin SpawnPoints /\ op # "restoreCheckpoint"
    BY <1>1, <1>8, <1>0 DEF Names, SpawnPoints
  <2>2. Calm /\ Quiet
    BY <1>1, <1>8, <2>1 DEF Request, Manual
  <2>3. /\ op = "create" => file.status = "none"
        /\ op # "create" => file.status \notin Starting
        /\ file.status \in Over \cup {"none"} => op \in {"create", "reject", "revert"}
    BY <1>1, <2>1 DEF Accepts, Stops, Names, CanContinue, Reviewable, CanRestore, CanApply,
                      CanReject, Starting, Over
  <2>4. act'[Review] = e /\ \A b \in Actors \ {Review} : act'[b] = act[b]
    BY <1>0, <1>1, <1>4, <1>8, MoveIs
  <2>5. \A b \in Actors : Queued(b)' <=> Queued(b)
    BY <1>4, <1>8 DEF Move, Queued
  <2>6. \A b \in Actors : act[b] = Idle /\ ~Queued(b)
    BY <1>6, <2>2 DEF Calm, WorkerInv, OneEntry, Queued
  <2>7. Agreed'
    BY <1>0, <1>1, <1>2, <1>3, <1>5, <2>4 DEF Agreed, Agrees, Matches
  <2>8. Quiet' /\ ~Blank'
    BY <1>1, <2>2 DEF Quiet, Blank
  <2>9. Fresh'
    BY <1>0, <1>1, <1>3, <1>6, <2>1, <2>3, <2>4, <2>6, <2>8, ZenonT(40) DEF Fresh, SpawnPoints
  <2>10. Beside' /\ Removing'
    BY <1>0, <1>1, <1>3, <1>6, <2>1, <2>3, <2>4, <2>5, <2>6
    DEF Beside, Removing, InFlight, StopPauses
  <2>11. Removed'
    <3>. SUFFICES ASSUME tree = Gone PROVE Removed'
      BY <1>2 DEF Removed
    <3>1. file.status \in Over \cup {"none"}
      BY <1>5 DEF Removed
    <3>2. \A b \in Actors : ~act'[b].event /\ ~Queued(b)'
      BY <1>3, <1>6, <2>4, <2>5, <2>6
    <3>3. act'[Review].at \in {"create", "reject", "revert"}
      BY <1>3, <2>3, <2>4, <3>1
    <3>4. act'[Boot].at = "idle" /\ act'[Stop].at = "idle"
      BY <1>0, <1>6, <2>4, <2>6
    <3>. QED BY <1>1, <2>8, <3>1, <3>2, <3>3, <3>4 DEF Removed, StopPauses
  <2>. QED BY <1>3, <2>1, <2>4, <2>7, <2>9, <2>10, <2>11 DEF RetainedInv
<1>. QED BY <1>1, <1>7, <1>8

LEMMA EditRetains ==
  ASSUME Manual, TypeOK, WorkerInv, RetainedInv, NEW w \in Workers, NEW c \in Contents,
         Edit(w, c)
  PROVE  RetainedInv'
<1>1. /\ Running(w) /\ tree # Gone /\ tree' = c
      /\ UNCHANGED <<file, queue, act, worker, patch>>
  BY DEF Edit, storeVars, processVars
<1>2. Blank
  BY <1>1 DEF Blank, Running, WorkerInv, ProcessInv, Finishing
<1>3. tree' # Gone
  BY <1>1, SessionAssumption DEF Contents, Gone
<1>4. Agreed /\ Fresh /\ Beside /\ Removing
  BY DEF RetainedInv
<1>5. file.diff = 0 /\ \A a \in Actors : act[a].copy.diff = 0
  BY <1>2, <1>4 DEF Fresh
<1>6. Agreed'
  BY <1>1, <1>4, <1>5 DEF Agreed, Agrees, Matches
<1>7. Fresh' /\ Beside' /\ Removing'
  BY <1>1, <1>4 DEF Fresh, Beside, Removing, InFlight, Blank, Queued
<1>. QED BY <1>1, <1>3, <1>6, <1>7 DEF RetainedInv, Removed

LEMMA StartsRetained == Manual /\ Init => RetainedInv
<1>. SUFFICES ASSUME Manual, Init PROVE RetainedInv
  OBVIOUS
<1>0. Review \in Actors /\ Stop \in Actors /\ Boot \in Actors
  BY ManualActors, ActorsAre
<1>1. Idle.at = "idle" /\ Idle.copy.status = "none" /\ Idle.event = FALSE /\ Idle.copy.diff = 0
  BY IdleIs, SessionIs DEF Statuses
<1>2. /\ \A a \in Actors : act[a] = Idle /\ ~Queued(a)
      /\ file.status = "none" /\ file.diff = 0 /\ Quiet
  BY SessionIs DEF Init, Statuses, Queued, Quiet
<1>3. Agreed
  BY <1>1, <1>2 DEF Agreed, Agrees, Matches
<1>4. Fresh
  BY <1>0, <1>1, <1>2 DEF Fresh, SpawnPoints, Blank, Quiet
<1>. QED
  BY <1>0, <1>1, <1>2, <1>3, <1>4
  DEF RetainedInv, Beside, InFlight, Removing, Removed, StopPauses

LEMMA RestartRetains ==
  ASSUME Manual, TypeOK, WorkerInv, RetainedInv, Restart
  PROVE  RetainedInv'
<1>0. /\ Review \in Actors /\ Stop \in Actors /\ Boot \in Actors
      /\ Review # Boot /\ Stop # Boot
  BY ManualActors, ActorsAre
<1>1. Idle.at = "idle" /\ Idle.copy.status = "none" /\ Idle.event = FALSE /\ Idle.copy.diff = 0
  BY IdleIs, SessionIs DEF Statuses
<1>2. PICK e \in Calls : /\ e.at = "initialize" /\ e.event = FALSE /\ e.copy = Idle.copy
                         /\ e = [Idle EXCEPT !.at = "initialize"]
  <2>1. [Idle EXCEPT !.at = "initialize"] \in Calls
    BY IdleIs DEF Calls, Points
  <2>2. [Idle EXCEPT !.at = "initialize"].at = "initialize"
        /\ [Idle EXCEPT !.at = "initialize"].event = FALSE
        /\ [Idle EXCEPT !.at = "initialize"].copy = Idle.copy
    BY IdleIs DEF Calls
  <2>. QED BY <2>1, <2>2
<1>3. act' = [a \in Actors |-> IF a = Boot THEN e ELSE Idle]
  BY <1>2 DEF Restart
<1>4. /\ act'[Boot] = e /\ \A a \in Actors \ {Boot} : act'[a] = Idle
  BY <1>0, <1>3
<1>5. /\ queue' = <<>> /\ UNCHANGED <<file, tree, patch>>
      /\ \A w \in Workers : worker'[w] = "free"
  BY DEF Restart, diskVars
<1>6. \A a \in Actors : /\ act'[a].copy.diff = 0 /\ act'[a].copy.status = "none"
                        /\ ~act'[a].event /\ ~Queued(a)'
  <2>1. \A a \in Actors : act'[a].copy = Idle.copy /\ ~act'[a].event
    BY <1>1, <1>2, <1>4
  <2>2. \A a \in Actors : ~Queued(a)'
    BY <1>5 DEF Queued
  <2>. QED BY <1>1, <2>1, <2>2
<1>7. act'[Review] = Idle /\ act'[Stop] = Idle /\ act'[Boot].at = "initialize"
  BY <1>0, <1>2, <1>4
<1>8. Agreed /\ Removed
  BY DEF RetainedInv
<1>9. Agreed'
  BY <1>5, <1>6, <1>8 DEF Agreed, Agrees, Matches
<1>10. Fresh'
  BY <1>0, <1>1, <1>5, <1>6, <1>7 DEF Fresh, SpawnPoints, Blank
<1>11. Removed'
  BY <1>1, <1>5, <1>6, <1>7, <1>8 DEF Removed, Quiet, StopPauses
<1>. QED
  BY <1>1, <1>7, <1>9, <1>10, <1>11 DEF RetainedInv, Beside, InFlight, Removing

LEMMA RetainedInduction ==
  ASSUME Manual, "restoreCheckpoint" \notin Operations,
         TypeOK, WorkerInv, RetainedInv, [Next]_vars
  PROVE  RetainedInv'
<1>1. CASE Write
  BY <1>1, WriteRetains
<1>2. ASSUME NEW a \in Actors, SharedStep(a) PROVE RetainedInv'
  <2>1. CASE a = Review
    <3>1. CASE \E w \in Workers : Spawn(Review, w, "start")
      BY <3>1, SpawnRetains
    <3>2. CASE \A w \in Workers : ~Spawn(Review, w, "start")
      BY <1>2, <2>1, <3>2, SharedStepIs, ReviewStepRetains
    <3>. QED BY <3>1, <3>2
  <2>2. CASE a = Stop
    BY <1>2, <2>2, StopStepIs, StopStepRetains
  <2>3. CASE a = Boot
    <3>1. CASE \E w \in Workers : Spawn(Boot, w, "recover")
      <4>1. Boot # Review
        BY ManualActors
      <4>. QED BY <3>1, <4>1, SpawnRetains
    <3>2. CASE \A w \in Workers : ~Spawn(Boot, w, "recover")
      <4>1. AddEvent(Boot) \/ Launch(Boot, "recover")
        BY <1>2, <2>3, <3>2, BootNever, Zenon DEF SharedStep
      <4>. QED BY <4>1, BootStepRetains
    <3>. QED BY <3>1, <3>2
  <2>4. ASSUME NEW w \in Workers, a = Owner(w) PROVE RetainedInv'
    BY <1>2, <2>4, OwnerStepIs, OwnerStepRetains
  <2>5. a \in {Review, Stop, Boot} \/ \E w \in Workers : a = Owner(w)
    BY ManualActors DEF Actors, Requests
  <2>. QED BY <2>1, <2>2, <2>3, <2>4, <2>5
<1>3. ASSUME NEW a \in Requests, RequestStep(a) PROVE RetainedInv'
  <2>1. CASE a = Review
    BY <1>3, <2>1, RequestStepIs, ReviewStepRetains
  <2>2. CASE a = Stop
    BY <1>3, <2>2, StopStepIs, StopStepRetains
  <2>. QED BY <2>1, <2>2, ManualActors
<1>4. ASSUME NEW w \in Workers, Line(w) \/ WorkerStep(w) PROVE RetainedInv'
  BY <1>4, OwnerStepIs, OwnerStepRetains
<1>5. ASSUME NEW a \in Requests, NEW op \in Operations \ {"line"}, Request(a, op)
      PROVE  RetainedInv'
  BY <1>5, RequestRetains
<1>6. ASSUME UNCHANGED <<file, queue, act, tree, patch>>,
             \A v \in Workers : worker'[v] = "free" <=> worker[v] = "free"
      PROVE  RetainedInv'
  <2>1. (Quiet' <=> Quiet) /\ (Blank' <=> Blank)
    BY <1>6 DEF Quiet, Blank
  <2>2. Agreed /\ Fresh /\ Beside /\ Removing /\ Removed /\ act[Review].at # "restoreCheckpoint"
    BY DEF RetainedInv
  <2>3. Agreed' /\ Fresh' /\ Beside' /\ Removing' /\ Removed'
    BY <1>6, <2>1, <2>2
    DEF Agreed, Agrees, Matches, Fresh, Beside, InFlight, Removing, Removed, Queued
  <2>. QED BY <1>6, <2>2, <2>3 DEF RetainedInv
<1>7. ASSUME NEW w \in Workers, NEW end \in {"ok", "failed"}, Exit(w, end)
      PROVE  RetainedInv'
  <2>1. /\ UNCHANGED <<file, queue, act, tree, patch>> /\ worker' = [worker EXCEPT ![w] = end]
        /\ worker[w] # "free"
    BY <1>7 DEF Exit, storeVars, diskVars, Running
  <2>2. \A v \in Workers : worker'[v] = "free" <=> worker[v] = "free"
    BY <2>1 DEF TypeOK
  <2>. QED BY <1>6, <2>1, <2>2
<1>8. CASE UNCHANGED vars
  <2>1. UNCHANGED <<file, queue, act, tree, patch, worker>>
    BY <1>8 DEF vars, storeVars, processVars, diskVars
  <2>. QED BY <1>6, <2>1
<1>9. ASSUME NEW w \in Workers, NEW c \in Contents, Edit(w, c) PROVE RetainedInv'
  BY <1>9, EditRetains
<1>. QED
  BY <1>1, <1>2, <1>3, <1>4, <1>5, <1>7, <1>8, <1>9, BootStepRetains, RestartRetains, Zenon
  DEF Next, ManagerStep

(* While requests come one at a time, verification is asked for by hand    *)
(* and no checkpoint is restored, the patch that a session at rest retains *)
(* is the one its diff describes, and a session that can go on has its     *)
(* worktree: also after a crash between the patch file and the save, or    *)
(* between the save of a decision and the removal of the worktree.         *)
THEOREM RetainedIsIntact ==
  Manual /\ "restoreCheckpoint" \notin Operations => (Spec => []ReviewIntact)
<1>. SUFFICES ASSUME Manual, "restoreCheckpoint" \notin Operations PROVE Spec => []ReviewIntact
  OBVIOUS
<1>1. Init => RetainedInv
  BY StartsRetained
<1>2. TypeOK /\ WorkerInv /\ RetainedInv /\ [Next]_vars => RetainedInv'
  BY RetainedInduction
<1>3. RetainedInv => ReviewIntact
  BY DEF RetainedInv, Agreed, Agrees, Matches, Removed, Over, ReviewIntact
<1>. QED BY <1>1, <1>2, <1>3, WorkersInvariant, PTL DEF Spec

-----------------------------------------------------------------------------
(***************************************************************************)
(* What the gates of a copy say was found on the content of its diff: a    *)
(* gate runs on the worktree, and while it does that is the diff's content *)
(* in every copy.                                                          *)
(***************************************************************************)
Checked(s, p) == \A g \in Gates : s.diff # 0 /\ s.quality[g] = "passed" => p[g] = s.diff
Verified(s) == Checked(s, passedOn)
VerifiedInv ==
  /\ Verified(file) /\ \A a \in Actors : Verified(act[a].copy)
  /\ act[Review].at = "apply" => CanApply(act[Review].copy)

LEMMA MoveVerifies ==
  ASSUME Manual, TypeOK, VerifiedInv, NEW a \in Actors, NEW e \in Calls, NEW saved \in BOOLEAN,
         Move(a, e, saved), file' = file,
         \/ passedOn' = passedOn
         \/ /\ Checked(file, passedOn')
            /\ \A b \in Actors : b # a => Checked(act[b].copy, passedOn'),
         Checked(e.copy, passedOn'),
         a = Review /\ e.at = "apply" => CanApply(e.copy)
  PROVE  VerifiedInv'
<1>1. act'[a] = e /\ \A b \in Actors : b # a => act'[b] = act[b]
  BY DEF Move, TypeOK
<1>2. Verified(file)'
  BY DEF VerifiedInv, Verified, Checked
<1>3. \A b \in Actors : Verified(act[b].copy)'
  <2>1. \A b \in Actors : b # a => Checked(act[b].copy, passedOn')
    BY DEF VerifiedInv, Verified
  <2>. QED BY <1>1, <2>1 DEF Verified, Checked
<1>4. act'[Review].at = "apply" => CanApply(act'[Review].copy)
  BY <1>1, ManualActors DEF VerifiedInv
<1>. QED BY <1>2, <1>3, <1>4 DEF VerifiedInv, CanApply, Reviewable

LEMMA ReviewStepVerifies ==
  ASSUME Manual, TypeOK, WorkerInv, RetainedInv, VerifiedInv, ReviewStep
  PROVE  VerifiedInv'
<1>. DEFINE c == act[Review].copy
<1>0. /\ Review \in Actors /\ c \in Sessions /\ file \in Sessions /\ act[Review].at \in Points
      /\ {"start", "spawn", "idle", "gates", "command", "store", "remove"} \subseteq Points
  BY ManualActors, CopyTypes DEF TypeOK, Points
<1>1. file' = file
  BY DEF ReviewStep
<1>2. Checked(c, passedOn)
  BY <1>0 DEF VerifiedInv, Verified
<1>3. \A s \in Sessions, st \in Statuses :
        /\ With(s, st) \in Sessions /\ With(s, st).diff = s.diff
        /\ With(s, st).quality = s.quality
  BY WithIs
(* It keeps the gates of its diff, or has no diff.                         *)
<1>4. ASSUME passedOn' = passedOn, NEW p \in Points, NEW s \in Sessions, NEW v \in BOOLEAN,
             NEW saved \in BOOLEAN, Move(Review, Call(p, s, v), saved),
             s.diff = 0 \/ (s.diff = c.diff /\ s.quality = c.quality), p # "apply"
      PROVE  VerifiedInv'
  <2>1. PICK e \in Calls : e = Call(p, s, v) /\ e.at = p /\ e.copy = s
    BY CallIs
  <2>2. Checked(e.copy, passedOn')
    BY <1>2, <1>4, <2>1 DEF Checked
  <2>3. Move(Review, e, saved)
    BY <1>4, <2>1
  <2>. HIDE DEF c
  <2>. QED BY <1>0, <1>1, <1>4, <2>1, <2>2, <2>3, MoveVerifies
(* A gate that passed did so on the content of every diff.                 *)
<1>5. ASSUME NEW g \in Gates, NEW r \in Results, NEW p \in Points, NEW s \in Sessions,
             Move(Review, Call(p, s, TRUE), TRUE), p # "apply",
             tree # Gone, s.diff = c.diff, s.quality = [c.quality EXCEPT ![g] = r],
             passedOn' = IF r = "passed" THEN [passedOn EXCEPT ![g] = tree] ELSE passedOn
      PROVE  VerifiedInv'
  <2>1. PICK e \in Calls : e = Call(p, s, TRUE) /\ e.at = p /\ e.copy = s
    BY CallIs
  <2>2. ASSUME NEW t \in Sessions, Checked(t, passedOn), Agrees(t) PROVE Checked(t, passedOn')
    <3>1. t.diff # 0 => tree = t.diff
      BY <1>5, <2>2 DEF Agrees, Matches
    <3>2. \A h \in Gates : passedOn'[h] = passedOn[h] \/ passedOn'[h] = tree
      BY <1>5 DEF TypeOK
    <3>. QED BY <2>2, <3>1, <3>2 DEF Checked
  <2>3. Agrees(file) /\ \A b \in Actors : Agrees(act[b].copy) /\ act[b].copy \in Sessions
    BY CopyTypes DEF RetainedInv, Agreed
  <2>4. Checked(file, passedOn') /\ \A b \in Actors : Checked(act[b].copy, passedOn')
    BY <1>0, <2>2, <2>3 DEF VerifiedInv, Verified
  <2>5. Checked(s, passedOn')
    <3>1. \A h \in Gates \ {g} : s.quality[h] = c.quality[h]
      BY <1>0, <1>5 DEF Sessions
    <3>2. s.quality[g] = r
      BY <1>0, <1>5 DEF Sessions
    <3>3. r = "passed" => passedOn'[g] = tree
      BY <1>5 DEF TypeOK
    <3>4. c.diff # 0 => tree = c.diff
      BY <1>0, <1>5, <2>3 DEF Agrees, Matches
    <3>5. Checked(c, passedOn')
      BY <1>0, <2>4
    <3>. HIDE DEF c
    <3>. QED BY <1>5, <3>1, <3>2, <3>3, <3>4, <3>5 DEF Checked
  <2>6. Move(Review, e, TRUE) /\ Checked(e.copy, passedOn') /\ e.at # "apply"
    BY <1>5, <2>1, <2>5
  <2>. HIDE DEF c
  <2>. QED BY <1>0, <1>1, <2>4, <2>6, MoveVerifies
<1>6. CASE ReviewLeaves
  <2>1. Idle \in Calls /\ Idle.at = "idle" /\ Idle.copy.diff = 0
    BY IdleIs, SessionIs DEF Statuses
  <2>2. Move(Review, Idle, FALSE) /\ passedOn' = passedOn
    BY <1>6 DEF ReviewLeaves
  <2>3. Checked(Idle.copy, passedOn')
    BY <2>1 DEF Checked
  <2>. QED BY <1>0, <1>1, <2>1, <2>2, <2>3, MoveVerifies
<1>7. CASE ReviewSaves
  <2>1. passedOn' = passedOn /\ Move(Review, Call(act[Review].at, c, FALSE), TRUE)
    BY <1>7 DEF ReviewSaves
  <2>2. PICK e \in Calls : /\ e = Call(act[Review].at, c, FALSE)
                           /\ e.at = act[Review].at /\ e.copy = c
    <3>1. /\ Call(act[Review].at, c, FALSE) \in Calls
          /\ Call(act[Review].at, c, FALSE).at = act[Review].at
          /\ Call(act[Review].at, c, FALSE).copy = c
      BY <1>0, CallIs, ZenonT(40)
    <3>. HIDE DEF c
    <3>. QED BY <3>1
  <2>3. Move(Review, e, TRUE)
    BY <2>1, <2>2
  <2>4. e.at = "apply" => CanApply(e.copy)
    BY <2>2 DEF VerifiedInv
  <2>5. Checked(e.copy, passedOn')
    BY <1>2, <2>1, <2>2
  <2>. HIDE DEF c
  <2>. QED BY <1>0, <1>1, <2>1, <2>3, <2>4, <2>5, MoveVerifies
<1>8. CASE ReviewLaunches
  <2>1. /\ Session("preparing") \in Sessions /\ Session("preparing").diff = 0
        /\ Continued(c) \in Sessions /\ Continued(c).diff = 0
    BY <1>0, SessionIs, ContinuedIs DEF Statuses
  <2>2. /\ passedOn' = passedOn
        /\ \/ Move(Review, Call("start", Session("preparing"), TRUE), TRUE)
           \/ Move(Review, Call("start", Continued(c), TRUE), TRUE)
           \/ Move(Review, Call("idle", With(c, "awaiting-review"), TRUE), TRUE)
           \/ Move(Review, Call("start", c, TRUE), FALSE)
           \/ Move(Review, Call("spawn", With(c, "running"), FALSE), TRUE)
    BY <1>8, Zenon DEF ReviewLaunches
  <2>3. {"awaiting-review", "running"} \subseteq Statuses
    BY DEF Statuses
  <2>. HIDE DEF c
  <2>. QED BY <1>0, <1>3, <1>4, <2>1, <2>2, <2>3
<1>9. CASE ReviewChecks
  <2>1. tree # Gone
    <3>1. act[Review].at \in {"runTests", "gates", "reproduce", "command", "semanticReview",
                              "checkpoint"}
      BY <1>9 DEF ReviewChecks
    <3>. QED BY <3>1 DEF RetainedInv, Removed
  <2>2. CASE Move(Review, Call("gates", With(c, "testing"), TRUE), TRUE) /\ passedOn' = passedOn
    <3>1. "testing" \in Statuses
      BY DEF Statuses
    <3>. HIDE DEF c
    <3>. QED BY <1>0, <1>3, <1>4, <2>2, <3>1
  <2>3. ASSUME NEW outcome \in Outcomes(Review), TestsStatus(outcome) \in Results,
               Passed("tests", outcome),
               Move(Review, Call("idle", With(Marked(c, "tests", TestsStatus(outcome)),
                                              "awaiting-review"), TRUE), TRUE)
        PROVE  VerifiedInv'
    <3>0. "tests" \in Gates /\ "awaiting-review" \in Statuses
      BY SessionAssumption DEF Statuses
    <3>1. PICK r \in Results : r = TestsStatus(outcome)
      BY <2>3
    <3>2. r = "passed" <=> outcome = "passed"
      BY <3>1 DEF TestsStatus
    <3>3. passedOn' = IF r = "passed" THEN [passedOn EXCEPT !["tests"] = tree] ELSE passedOn
      BY <2>3, <3>2 DEF Passed
    <3>4. /\ Marked(c, "tests", r) \in Sessions /\ Marked(c, "tests", r).diff = c.diff
          /\ Marked(c, "tests", r).quality = [c.quality EXCEPT !["tests"] = r]
      BY <1>0, <3>0, MarkedIs
    <3>5. PICK s \in Sessions : /\ s = With(Marked(c, "tests", r), "awaiting-review")
                                /\ s.diff = c.diff
                                /\ s.quality = [c.quality EXCEPT !["tests"] = r]
      BY <1>3, <3>0, <3>4
    <3>6. Move(Review, Call("idle", s, TRUE), TRUE)
      BY <2>3, <3>1, <3>5
    <3>. HIDE DEF c
    <3>. QED BY <1>0, <1>5, <2>1, <3>0, <3>3, <3>5, <3>6
  <2>4. CASE Move(Review, Call("command", c, TRUE), FALSE) /\ passedOn' = passedOn
    <3>. HIDE DEF c
    <3>. QED BY <1>0, <1>4, <2>4
  <2>5. ASSUME NEW g \in Gates \ {"tests"}, NEW r \in {"passed", "failed"}, Passed(g, r),
               Move(Review, Call("idle", Marked(c, g, r), TRUE), TRUE)
        PROVE  VerifiedInv'
    <3>1. r \in Results /\ passedOn' = IF r = "passed" THEN [passedOn EXCEPT ![g] = tree]
                                                       ELSE passedOn
      BY <2>5 DEF Passed, Results
    <3>2. PICK s \in Sessions : /\ s = Marked(c, g, r) /\ s.diff = c.diff
                                /\ s.quality = [c.quality EXCEPT ![g] = r]
      BY <1>0, <3>1, MarkedIs
    <3>3. Move(Review, Call("idle", s, TRUE), TRUE)
      BY <2>5, <3>2
    <3>. HIDE DEF c
    <3>. QED BY <1>0, <1>5, <2>1, <3>1, <3>2, <3>3
  <2>6. CASE /\ Move(Review, Call("idle", Kept(c, {patch} \cap {c.diff}), TRUE), TRUE)
             /\ passedOn' = passedOn
    <3>1. {patch} \cap {c.diff} \in SUBSET Contents
      BY DEF TypeOK
    <3>2. PICK s \in Sessions : /\ s = Kept(c, {patch} \cap {c.diff})
                                /\ s.diff = c.diff /\ s.quality = c.quality
      BY <1>0, <3>1, KeptIs
    <3>3. Move(Review, Call("idle", s, TRUE), TRUE)
      BY <2>6, <3>2
    <3>. HIDE DEF c
    <3>. QED BY <1>0, <1>4, <2>6, <3>2, <3>3
  <2>. QED BY <1>9, <2>2, <2>3, <2>4, <2>5, <2>6, Zenon DEF ReviewChecks
<1>10. CASE ReviewDecides
  <2>1. /\ passedOn' = passedOn
        /\ \/ \E st \in {"applied", "reverted"} :
                Move(Review, Call("store", With(c, st), FALSE), FALSE)
           \/ Move(Review, Call("remove", With(c, "rejected"), TRUE), TRUE)
           \/ \E p \in {"remove", "idle"} : Move(Review, Call(p, c, TRUE), TRUE)
    BY <1>10 DEF ReviewDecides, RetainedInv
  <2>2. {"applied", "reverted", "rejected"} \subseteq Statuses
    BY DEF Statuses
  <2>. HIDE DEF c
  <2>. QED BY <1>0, <1>3, <1>4, <2>1, <2>2
<1>. QED BY <1>6, <1>7, <1>8, <1>9, <1>10 DEF ReviewStep

(* The other calls run no gate; one keeps the gates of its diff or of the  *)
(* file's, has no diff, or has one that was just captured.                 *)
LEMMA OtherVerifies ==
  ASSUME Manual, TypeOK, VerifiedInv, file' = file, passedOn' = passedOn,
         NEW a \in Actors, a # Review, NEW e \in Calls, NEW saved \in BOOLEAN,
         Move(a, e, saved),
         \/ e.copy.diff = 0 \/ e.copy.quality = Unchecked
         \/ \E s \in {file, act[a].copy} : /\ e.copy.diff = s.diff
                                           /\ e.copy.quality = s.quality
  PROVE  VerifiedInv'
<1>1. Checked(file, passedOn) /\ Checked(act[a].copy, passedOn)
  BY DEF VerifiedInv, Verified
<1>2. Checked(e.copy, passedOn')
  BY <1>1 DEF Checked, Unchecked
<1>. QED BY <1>2, MoveVerifies

LEMMA OtherCallVerifies ==
  ASSUME Manual, TypeOK, VerifiedInv, file' = file, passedOn' = passedOn,
         NEW a \in Actors, a # Review, NEW p \in Points, NEW s \in Sessions, NEW v \in BOOLEAN,
         NEW saved \in BOOLEAN, Move(a, Call(p, s, v), saved),
         \/ s.diff = 0 \/ s.quality = Unchecked
         \/ \E t \in {file, act[a].copy} : s.diff = t.diff /\ s.quality = t.quality
  PROVE  VerifiedInv'
<1>1. PICK e \in Calls : e = Call(p, s, v) /\ e.copy = s
  BY CallIs
<1>2. Move(a, e, saved)
  BY <1>1
<1>. QED BY <1>1, <1>2, OtherVerifies

LEMMA OtherLeaveVerifies ==
  ASSUME Manual, TypeOK, VerifiedInv, file' = file, passedOn' = passedOn,
         NEW a \in Actors, a # Review, Move(a, Idle, FALSE)
  PROVE  VerifiedInv'
<1>1. Idle \in Calls /\ Idle.copy.diff = 0
  BY IdleIs, SessionIs DEF Statuses
<1>. QED BY <1>1, OtherVerifies

LEMMA StopStepVerifies ==
  ASSUME Manual, TypeOK, VerifiedInv, StopStep
  PROVE  VerifiedInv'
<1>. DEFINE c == act[Stop].copy
<1>0. /\ Stop \in Actors /\ Stop # Review /\ c \in Sessions /\ file \in Sessions
      /\ act[Stop].at \in Points
      /\ {"kill", "killOnExit", "load", "hold", "drain", "drained"} \subseteq Points
  BY ManualActors, ActorsAre, CopyTypes DEF TypeOK, Points
<1>1. file' = file /\ passedOn' = passedOn
  BY DEF StopStep
<1>2. CASE Move(Stop, Idle, FALSE)
  BY <1>0, <1>1, <1>2, OtherLeaveVerifies
<1>3. ASSUME NEW p \in Points, NEW s \in Sessions, NEW v \in BOOLEAN, NEW saved \in BOOLEAN,
             Move(Stop, Call(p, s, v), saved),
             \E t \in {file, c} : s.diff = t.diff /\ s.quality = t.quality
      PROVE  VerifiedInv'
  BY <1>0, <1>1, <1>3, OtherCallVerifies
<1>4. CASE StopHalts
  <2>1. PICK p \in {"kill", "killOnExit"}, st \in {"cancelled", "paused"} :
          Move(Stop, Call(p, With(c, st), TRUE), TRUE)
    BY <1>4, Zenon DEF StopHalts
  <2>2. /\ With(c, st) \in Sessions /\ With(c, st).diff = c.diff
        /\ With(c, st).quality = c.quality
    BY <1>0, WithIs DEF Statuses
  <2>3. p \in Points
    BY <1>0
  <2>. HIDE DEF c
  <2>. QED BY <1>3, <2>1, <2>2, <2>3
<1>5. CASE StopWaits \/ Move(Stop, Call(act[Stop].at, c, FALSE), TRUE)
  <2>1. PICK p \in Points, s \in {c, file}, saved \in BOOLEAN :
          Move(Stop, Call(p, s, FALSE), saved)
    <3>. HIDE DEF c
    <3>. QED BY <1>0, <1>5 DEF StopWaits, c
  <2>. HIDE DEF c
  <2>. QED BY <1>0, <1>3, <2>1
<1>. QED BY <1>2, <1>4, <1>5 DEF StopStep, StopEnds

LEMMA OwnerStepVerifies ==
  ASSUME Manual, ~HalfCaptures, TypeOK, VerifiedInv, NEW w \in Workers, OwnerStep(w)
  PROVE  VerifiedInv'
<1>. DEFINE o == Owner(w)
            c == act[o].copy
<1>0. /\ o \in Actors /\ o # Review /\ c \in Sessions /\ file \in Sessions
      /\ act[o].at \in Points
      /\ {"line", "ok", "failed", "store", "settle", "idle"} \subseteq Points
  BY ManualActors, ActorsAre, CopyTypes DEF TypeOK, Points
<1>1. file' = file /\ passedOn' = passedOn
  BY DEF OwnerStep
<1>2. CASE Move(o, Idle, FALSE)
  BY <1>0, <1>1, <1>2, OtherLeaveVerifies
<1>3. ASSUME NEW p \in Points, NEW s \in Sessions, NEW v \in BOOLEAN, NEW saved \in BOOLEAN,
             Move(o, Call(p, s, v), saved),
             \/ s.quality = Unchecked
             \/ \E t \in {file, c} : s.diff = t.diff /\ s.quality = t.quality
      PROVE  VerifiedInv'
  BY <1>0, <1>1, <1>3, OtherCallVerifies
<1>4. CASE OwnerReads(w)
  <2>1. PICK p \in {"line", "ok", "failed", "settle"} : Move(o, Call(p, file, FALSE), FALSE)
    BY <1>4, Zenon DEF OwnerReads
  <2>2. p \in Points
    BY <1>0
  <2>. HIDE DEF c
  <2>. QED BY <1>0, <1>3, <2>1, <2>2
<1>5. CASE OwnerSaves(w)
  <2>1. /\ With(c, "failed") \in Sessions /\ With(c, "failed").diff = c.diff
        /\ With(c, "failed").quality = c.quality
    BY <1>0, WithIs DEF Statuses
  <2>2. \/ Move(o, Idle, FALSE)
        \/ Move(o, Call(act[o].at, c, FALSE), TRUE) \/ Move(o, Call("idle", c, TRUE), TRUE)
        \/ Move(o, Call("settle", c, TRUE), TRUE)
        \/ Move(o, Call("settle", With(c, "failed"), TRUE), TRUE)
    BY <1>5, Zenon DEF OwnerSaves
  <2>. HIDE DEF c
  <2>. QED BY <1>0, <1>2, <1>3, <2>1, <2>2
<1>6. CASE OwnerCaptures(w)
  <2>1. /\ tree \in Contents
        /\ Move(o, Call("store", With(Captured(c, tree), "awaiting-review"), FALSE), FALSE)
    BY <1>6 DEF OwnerCaptures
  <2>2. Captured(c, tree) \in Sessions /\ Captured(c, tree).quality = Unchecked
    BY <1>0, <2>1, CapturedIs
  <2>3. PICK s \in Sessions : /\ s = With(Captured(c, tree), "awaiting-review")
                              /\ s.quality = Unchecked
    BY <2>2, WithIs DEF Statuses
  <2>. HIDE DEF c
  <2>. QED BY <1>0, <1>3, <2>1, <2>3
<1>. QED BY <1>4, <1>5, <1>6 DEF OwnerStep

LEMMA BootStepVerifies ==
  ASSUME Manual, TypeOK, WorkerInv, VerifiedInv,
         \/ Initialize \/ Launch(Boot, "recover") \/ AddEvent(Boot)
         \/ \E w \in Workers : Spawn(Boot, w, "recover")
  PROVE  VerifiedInv'
<1>. DEFINE c == act[Boot].copy
<1>0. /\ Boot \in Actors /\ Boot # Review /\ c \in Sessions /\ file \in Sessions
      /\ Boot \notin Requests /\ act[Boot].at \in Points
      /\ {"idle", "recover", "spawnRecovered"} \subseteq Points
  BY ManualActors, ActorsAre, CopyTypes DEF TypeOK, Points
<1>1. file' = file /\ passedOn' = passedOn
  BY DEF Initialize, Launch, AddEvent, Spawn, historyVars
<1>2. CASE Leave(Boot)
  BY <1>0, <1>1, <1>2, OtherLeaveVerifies DEF Leave, Move
<1>3. ASSUME NEW s \in Sessions, \E t \in {file, c} : s.diff = t.diff /\ s.quality = t.quality,
             NEW p \in Points, Save(Boot, s, p) \/ SaveAndEvent(Boot, s, p) \/ EventOnly(Boot, s, p)
      PROVE  VerifiedInv'
  <2>1. PICK v \in BOOLEAN, saved \in BOOLEAN : Move(Boot, Call(p, s, v), saved)
    BY <1>0, <1>3, Moves
  <2>. QED BY <1>0, <1>1, <1>3, <2>1, OtherCallVerifies
<1>4. \A s \in Sessions, st \in {"awaiting-review", "paused", "running"} :
        /\ With(s, st) \in Sessions /\ With(s, st).diff = s.diff
        /\ With(s, st).quality = s.quality
  BY WithIs DEF Statuses
<1>5. CASE Initialize
  <2>1. \/ Leave(Boot)
        \/ \E st \in {"awaiting-review", "paused"}, p \in {"idle", "recover"} :
             SaveAndEvent(Boot, With(file, st), p)
    BY <1>5 DEF Initialize, Untested, Manual
  <2>. HIDE DEF c
  <2>. QED BY <1>0, <1>2, <1>3, <1>4, <2>1
<1>6. CASE Launch(Boot, "recover")
  <2>1. act[Boot].at = "recover"
    BY <1>6 DEF Launch, At
  <2>2. Quiet
    BY <2>1 DEF WorkerInv, Alone, LaunchPoints
  <2>3. map = 0
    BY <2>2 DEF Quiet, WorkerInv, ProcessInv, Registered, Running
  <2>4. Save(Boot, With(c, "running"), "spawnRecovered")
    BY <1>6, <2>3 DEF Launch, Starts
  <2>. HIDE DEF c
  <2>. QED BY <1>0, <1>3, <1>4, <2>4
<1>7. CASE AddEvent(Boot)
  <2>1. Save(Boot, c, act[Boot].at)
    BY <1>7 DEF AddEvent
  <2>. HIDE DEF c
  <2>. QED BY <1>0, <1>3, <2>1
<1>8. CASE \E w \in Workers : Spawn(Boot, w, "recover")
  <2>1. EventOnly(Boot, c, "idle")
    BY <1>8 DEF Spawn
  <2>. HIDE DEF c
  <2>. QED BY <1>0, <1>3, <2>1
<1>. QED BY <1>5, <1>6, <1>7, <1>8

LEMMA WriteVerifies ==
  ASSUME Manual, TypeOK, WorkerInv, VerifiedInv, Write
  PROVE  VerifiedInv'
<1>1. PICK b \in Actors :
        /\ file' = act[b].copy
        /\ act'[b] \in {act[b], Idle}
        /\ \A d \in Actors \ {b} : act'[d] = act[d]
  BY WriteIs, Zenon DEF WorkerInv
<1>2. passedOn' = passedOn
  BY DEF Write, historyVars
<1>3. Idle.at = "idle" /\ Idle.copy.diff = 0 /\ Review \in Actors
  BY IdleIs, SessionIs, ManualActors DEF Statuses
<1>4. \A a \in Actors : act'[a] = act[a] \/ act'[a] = Idle
  BY <1>1
<1>5. Verified(file)' /\ \A a \in Actors : Verified(act[a].copy)'
  BY <1>1, <1>2, <1>3, <1>4 DEF VerifiedInv, Verified, Checked
<1>6. act'[Review].at = "apply" => CanApply(act'[Review].copy)
  BY <1>3, <1>4 DEF VerifiedInv
<1>. QED BY <1>5, <1>6 DEF VerifiedInv, CanApply, Reviewable

LEMMA RequestVerifies ==
  ASSUME Manual, TypeOK, WorkerInv, VerifiedInv,
         NEW a \in Requests, NEW op \in Operations \ {"line"}, Request(a, op)
  PROVE  VerifiedInv'
<1>1. /\ a \in Actors /\ op \in Points /\ Move(a, Call(op, file, FALSE), FALSE)
      /\ file' = file /\ Accepts(op, file)
  BY RequestIs, ActorsAre, Zenon
<1>2. passedOn' = passedOn /\ file \in Sessions
  BY DEF Request, historyVars, TypeOK
<1>3. PICK e \in Calls : e = Call(op, file, FALSE) /\ e.at = op /\ e.copy = file
  <2>1. /\ Call(op, file, FALSE) \in Calls /\ Call(op, file, FALSE).at = op
        /\ Call(op, file, FALSE).copy = file
    BY <1>1, <1>2, CallIs
  <2>. QED BY <2>1
<1>4. op = "apply" => CanApply(file)
  BY <1>1 DEF Accepts
<1>5. Checked(e.copy, passedOn')
  BY <1>2, <1>3 DEF VerifiedInv, Verified
<1>6. Move(a, e, FALSE) /\ (e.at = "apply" => CanApply(e.copy))
  BY <1>1, <1>3, <1>4
<1>. QED BY <1>1, <1>2, <1>5, <1>6, MoveVerifies

LEMMA VerifiedInduction ==
  ASSUME Manual, ~HalfCaptures, TypeOK, WorkerInv, RetainedInv, VerifiedInv, [Next]_vars
  PROVE  VerifiedInv'
<1>1. ASSUME NEW w \in Workers, Spawn(Review, w, "start") PROVE VerifiedInv'
  <2>1. Move(Review, Idle, FALSE) /\ file' = file /\ passedOn' = passedOn
    BY <1>1 DEF Spawn, Rest, Review, Leave, Move
  <2>2. /\ Idle \in Calls /\ Idle.at = "idle" /\ Idle.copy.diff = 0 /\ Review \in Actors
    BY IdleIs, SessionIs, ManualActors DEF Statuses
  <2>3. Checked(Idle.copy, passedOn')
    BY <2>2 DEF Checked
  <2>. QED BY <2>1, <2>2, <2>3, MoveVerifies
<1>2. ASSUME NEW a \in Actors, SharedStep(a) PROVE VerifiedInv'
  <2>1. CASE a = Review
    <3>1. CASE \A w \in Workers : ~Spawn(Review, w, "start")
      BY <1>2, <2>1, <3>1, SharedStepIs, ReviewStepVerifies
    <3>. QED BY <1>1, <3>1
  <2>2. CASE a = Stop
    BY <1>2, <2>2, StopStepIs, StopStepVerifies
  <2>3. CASE a = Boot
    <3>1. \/ AddEvent(Boot) \/ Launch(Boot, "recover")
          \/ \E w \in Workers : Spawn(Boot, w, "recover")
      BY <1>2, <2>3, BootNever, Zenon DEF SharedStep
    <3>. QED BY <3>1, BootStepVerifies
  <2>4. ASSUME NEW w \in Workers, a = Owner(w) PROVE VerifiedInv'
    BY <1>2, <2>4, OwnerStepIs, OwnerStepVerifies
  <2>5. a \in {Review, Stop, Boot} \/ \E w \in Workers : a = Owner(w)
    BY ManualActors DEF Actors, Requests
  <2>. QED BY <2>1, <2>2, <2>3, <2>4, <2>5
<1>3. ASSUME NEW a \in Requests, RequestStep(a) PROVE VerifiedInv'
  <2>1. CASE a = Review
    BY <1>3, <2>1, RequestStepIs, ReviewStepVerifies
  <2>2. CASE a = Stop
    BY <1>3, <2>2, StopStepIs, StopStepVerifies
  <2>. QED BY <2>1, <2>2, ManualActors
<1>4. ASSUME NEW w \in Workers, Line(w) \/ WorkerStep(w) PROVE VerifiedInv'
  BY <1>4, OwnerStepIs, OwnerStepVerifies
<1>5. ASSUME UNCHANGED <<file, act, passedOn>> PROVE VerifiedInv'
  BY <1>5 DEF VerifiedInv, Verified, Checked, CanApply, Reviewable
<1>6. ASSUME NEW w \in Workers, \/ \E c \in Contents : Edit(w, c)
                                \/ \E end \in {"ok", "failed"} : Exit(w, end)
      PROVE  VerifiedInv'
  <2>1. UNCHANGED <<file, act, passedOn>>
    BY <1>6 DEF Edit, Exit, storeVars, historyVars
  <2>. QED BY <1>5, <2>1
<1>7. CASE UNCHANGED vars
  <2>1. UNCHANGED <<file, act, passedOn>>
    BY <1>7 DEF vars, storeVars, historyVars
  <2>. QED BY <1>5, <2>1
<1>8. CASE Restart
  <2>1. UNCHANGED <<file, passedOn>>
    BY <1>8 DEF Restart, historyVars
  <2>2. \A a \in Actors : act'[a].copy.diff = 0
    <3>1. [Idle EXCEPT !.at = "initialize"].copy = Idle.copy /\ Idle.copy.diff = 0
      BY IdleIs, SessionIs DEF Calls, Statuses
    <3>2. \A a \in Actors : act'[a] \in {Idle, [Idle EXCEPT !.at = "initialize"]}
      BY <1>8 DEF Restart
    <3>. QED BY <3>1, <3>2
  <2>3. act'[Review].at # "apply"
    <3>1. act'[Review] = Idle
      BY <1>8, ManualActors DEF Restart
    <3>. QED BY <3>1, IdleIs
  <2>. QED BY <2>1, <2>2, <2>3 DEF VerifiedInv, Verified, Checked
<1>. QED
  BY <1>2, <1>3, <1>4, <1>6, <1>7, <1>8, RequestVerifies, BootStepVerifies, WriteVerifies, Zenon
  DEF Next, ManagerStep

(* Only apply() puts a patch into the operator's workspace.                *)
LEMMA OnlyApplies ==
  ASSUME Manual, TypeOK, WorkerInv, [Next]_vars, workspace' \notin {0, workspace}
  PROVE  Apply(Review)
<1>1. ~Write /\ ~Initialize /\ ~Restart /\ ~(UNCHANGED vars)
  BY DEF Write, Initialize, Restart, vars, diskVars
<1>2. ASSUME NEW a \in Actors, SharedStep(a) PROVE FALSE
  BY <1>2 DEF SharedStep, AddEvent, Store, Tests, Accept, Repair, GatesRun, Launch, Spawn,
              diskVars
<1>3. ASSUME NEW a \in Requests, RequestStep(a) PROVE a = Review /\ Apply(a)
  <2>1. Apply(a)
    BY <1>3
    DEF RequestStep, Refused, Create, ContinueTask, Resume, Reproduce, CancelTests, Checkpoint,
        Restore, GateRun, Reject, RemoveWorktree, Revert, Cancel, Pause, Kill, Dispose,
        DisposeLoads, DisposePauses, DisposeDrains, Disposed, diskVars
  <2>2. a # Stop
    BY <2>1, StopNever DEF RequestStep
  <2>. QED BY <2>1, <2>2, ManualActors
<1>4. ASSUME NEW w \in Workers, WorkerStep(w) \/ Line(w) PROVE FALSE
  BY <1>4 DEF WorkerStep, LineSaved, Finish, FinishFailed, FinishCaptured, FinishHalfCaptured,
              Settle, Line, diskVars
<1>5. ASSUME NEW a \in Requests, NEW op \in Operations \ {"line"}, Request(a, op) PROVE FALSE
  BY <1>5 DEF Request, diskVars
<1>6. ASSUME NEW w \in Workers, \/ \E c \in Contents : Edit(w, c)
                                \/ \E end \in {"ok", "failed"} : Exit(w, end)
      PROVE  FALSE
  BY <1>6 DEF Edit, Exit, diskVars
<1>. QED BY <1>1, <1>2, <1>3, <1>4, <1>5, <1>6, Zenon DEF Next, ManagerStep

(* What apply() puts into the operator's workspace is the content of the   *)
(* diff it was asked to apply, and every gate passed last on exactly that  *)
(* content: for requests one at a time, verification by hand, no restored  *)
(* checkpoint and captures that succeed or fail as a whole, also across    *)
(* crashes, stops and edits of the worker.                                 *)
THEOREM OnlyVerifiedIsApplied ==
  Manual /\ ~HalfCaptures /\ "restoreCheckpoint" \notin Operations
    => (Spec => AppliedWasVerified)
<1>. SUFFICES ASSUME Manual, ~HalfCaptures, "restoreCheckpoint" \notin Operations
              PROVE  Spec => AppliedWasVerified
  OBVIOUS
<1>1. Init => RetainedInv
  BY StartsRetained
<1>2. TypeOK /\ WorkerInv /\ RetainedInv /\ [Next]_vars => RetainedInv'
  BY RetainedInduction
<1>3. Init => VerifiedInv
  <2>. SUFFICES ASSUME Init PROVE VerifiedInv
    OBVIOUS
  <2>1. /\ \A a \in Actors : act[a] = Idle
        /\ file.diff = 0 /\ Review \in Actors
    BY SessionIs, ManualActors DEF Init, Statuses
  <2>2. Idle.at = "idle" /\ Idle.copy.diff = 0
    BY IdleIs, SessionIs DEF Statuses
  <2>. QED BY <2>1, <2>2 DEF VerifiedInv, Verified, Checked
<1>4. TypeOK /\ WorkerInv /\ RetainedInv /\ VerifiedInv /\ [Next]_vars => VerifiedInv'
  BY VerifiedInduction
<1>5. TypeOK /\ WorkerInv /\ RetainedInv /\ VerifiedInv /\ [Next]_vars =>
        [workspace' \notin {0, workspace} =>
           /\ \E a \in Requests : At(a, "apply") /\ act[a].copy.diff = workspace'
           /\ \A g \in Gates : passedOn[g] = workspace']_vars
  <2>. SUFFICES ASSUME TypeOK, WorkerInv, RetainedInv, VerifiedInv, [Next]_vars,
                       workspace' \notin {0, workspace}
                PROVE  /\ \E a \in Requests : At(a, "apply") /\ act[a].copy.diff = workspace'
                       /\ \A g \in Gates : passedOn[g] = workspace'
    OBVIOUS
  <2>0. Review \in Requests /\ Review \in Actors
    BY ManualActors
  <2>1. At(Review, "apply") /\ patch # 0 /\ workspace' = patch
    BY OnlyApplies DEF Apply, Ready, Possible
  <2>2. CanApply(act[Review].copy)
    BY <2>1 DEF VerifiedInv, At
  <2>3. act[Review].copy.diff = workspace'
    BY <2>0, <2>1, <2>2 DEF CanApply, Reviewable, RetainedInv, Agreed, Agrees, Matches
  <2>4. \A g \in Gates : passedOn[g] = workspace'
    BY <2>0, <2>2, <2>3 DEF CanApply, Reviewable, VerifiedInv, Verified, Checked
  <2>. QED BY <2>0, <2>1, <2>3, <2>4
<1>. QED BY <1>1, <1>2, <1>3, <1>4, <1>5, WorkersInvariant, PTL DEF Spec, AppliedWasVerified

-----------------------------------------------------------------------------
(***************************************************************************)
(* The repair budget of autonomous sessions.  Nothing but a request to stop*)
(* tests may interrupt: cancel, pause and dispose save a copy they loaded  *)
(* before a repair was counted, and so does the end of a resumption by     *)
(* initialize().                                                           *)
(*                                                                         *)
(* Then one call at a time holds the session, and passes it on to the      *)
(* worker it starts: its copy is the file, but for what it is about to     *)
(* save, and a repair is counted in the file before its worker starts.     *)
(***************************************************************************)
Uninterrupted ==
  ~Overlap /\ ~AutoResume /\ Operations \cap {"cancel", "pause", "dispose"} = {}

Movers == Actors \ {Stop}
Resting(a) == act[a].at = "settle" /\ ~act[a].event /\ ~Queued(a)
Doing(a) == act[a] # Idle /\ ~Resting(a)
Waits(a) == act[a] = Idle /\ \E w \in Workers : a = Owner(w) /\ worker[w] # "free"
Holds(a) == Doing(a) \/ Waits(a)
Sole == \A a, b \in Movers : Holds(a) /\ Holds(b) => a = b

Barred ==
  {"recover", "spawnRecovered", "cancel", "pause", "dispose", "kill", "killOnExit",
   "load", "hold", "drain", "drained"}
Budgeted(s, r) == r <= s.fix /\ s.fix <= MaxFix
(* What a call may be when r repairs have been started.                    *)
Fit(e, r) ==
  /\ e.at \notin Barred
  /\ e.at = "create" => r = 0
  /\ e.at \in {"create", "initialize"} => ~e.event
  /\ e.at = "again" => e.copy.fix < MaxFix
  /\ e.at \in {"repair", "spawnRepair"} => r < e.copy.fix
  /\ e.at \in {"spawn", "spawnRepair"} => e.copy.status = "running"
  /\ e.at # "initialize" => Budgeted(e.copy, r)
  /\ e.at \notin {"create", "initialize"} => e.copy.status # "none"
Synced(e, s) == \/ e.at = "initialize" \/ s = e.copy
                \/ e.at = "store" /\ ~e.event
Works(e) == e = Idle \/ (e.at \in {"idle", "line"} /\ e.copy.status = "running")

StopHarmless == act[Stop] = Idle \/ (act[Stop].at = "cancelTests" /\ ~act[Stop].event)
Ended == \A w \in Workers : worker[w] = "free" => act[Owner(w)] = Idle
OneSave ==
  /\ Len(queue) <= 1
  /\ \A i \in 1..Len(queue) :
       /\ queue[i][1] \in Movers /\ queue[i][2] = act[queue[i][1]].copy
       /\ act[queue[i][1]] # Idle
       /\ act[queue[i][1]].at \notin {"create", "initialize"}
Progressing ==
  \A a \in Movers : Doing(a) =>
    Fit(act[a], repairs) /\ (Queued(a) \/ Synced(act[a], file))
Attended ==
  \A w \in Workers : Running(w) => file.status = "running" /\ Works(act[Owner(w)])
Counted ==
  /\ Budgeted(file, repairs)
  /\ file.status = "none" => repairs = 0 /\ \A w \in Workers : worker[w] = "free"
BudgetInv ==
  /\ Sole /\ StopHarmless /\ Ended /\ OneSave /\ Progressing /\ Attended /\ Counted

LEMMA SoleActors ==
  ASSUME Uninterrupted
  PROVE  /\ Requests = {Review, Stop}
         /\ Actors = {Review, Stop, Boot} \cup {Owner(w) : w \in Workers}
         /\ Movers = {Review, Boot} \cup {Owner(w) : w \in Workers}
         /\ Review # Stop /\ Review # Boot /\ Stop # Boot
         /\ \A w \in Workers : Owner(w) \notin {Review, Stop, Boot} \cup Requests
         /\ \A v, w \in Workers : Owner(v) = Owner(w) => v = w
<1>1. Reviews = {Review}
  BY DEF Uninterrupted, Reviews, Review
<1>2. /\ Requests = {Review, Stop}
      /\ Actors = {Review, Stop, Boot} \cup {Owner(w) : w \in Workers}
      /\ Review # Stop /\ Review # Boot /\ Stop # Boot
      /\ \A w \in Workers : Owner(w) \notin {Review, Stop, Boot}
      /\ \A v, w \in Workers : Owner(v) = Owner(w) => v = w
  BY <1>1 DEF Requests, Actors, Review, Stop, Boot, Owner
<1>. QED BY <1>2 DEF Movers

LEMMA FixIs ==
  ASSUME NEW s \in Sessions
  PROVE  /\ \A st \in Statuses : With(s, st).fix = s.fix
         /\ \A g \in Gates, r \in Results : Marked(s, g, r).fix = s.fix
         /\ \A c \in Contents : /\ Captured(s, c).fix = s.fix
                                /\ HalfCaptured(s, c).fix = s.fix
         /\ \A C \in SUBSET Contents : Kept(s, C).fix = s.fix
         /\ Continued(s).fix = 0
         /\ Repaired(s).fix = s.fix + 1 /\ Repaired(s).status = s.status
         /\ s.fix \in Nat
BY DEF With, Marked, Captured, HalfCaptured, Kept, Continued, Repaired, Sessions

LEMMA QueuedHolds ==
  ASSUME TypeOK, BudgetInv, NEW a \in Actors, Queued(a)
  PROVE  a \in Movers /\ Doing(a) /\ Holds(a)
<1>1. PICK i \in 1..Len(queue) : queue[i][1] = a
  BY DEF Queued
<1>2. a \in Movers /\ act[a] # Idle
  BY <1>1 DEF BudgetInv, OneSave
<1>. QED BY <1>2 DEF Doing, Resting, Holds

(* The call that holds the session moves on.                               *)
LEMMA HolderKeeps ==
  ASSUME TypeOK, BudgetInv, NEW a \in Movers, ~Queued(a),
         \A b \in Movers : Holds(b) => b = a,
         \A w \in Workers : a = Owner(w) => worker[w] # "free",
         NEW e \in Calls, NEW saved \in BOOLEAN, Move(a, e, saved),
         file' = file, worker' = worker, repairs' \in {repairs, 0},
         saved => e # Idle /\ e.at \notin {"create", "initialize"},
         e = Idle \/ (Fit(e, repairs') /\ (saved \/ Synced(e, file))),
         \A w \in Workers : a = Owner(w) /\ Running(w) => Works(e)
  PROVE  BudgetInv'
<1>0. a \in Actors /\ a # Stop /\ Stop \in Actors /\ \A w \in Workers : Owner(w) \in Actors
  BY ActorsAre DEF Movers
<1>1. /\ act'[a] = e /\ \A b \in Actors : b # a => act'[b] = act[b]
      /\ Queued(a)' <=> saved
      /\ \A b \in Actors : b # a => (Queued(b)' <=> Queued(b))
  BY <1>0, MoveIs
<1>2. \A b \in Movers : b # a => ~Holds(b)' /\ ~Doing(b)'
  <2>. SUFFICES ASSUME NEW b \in Movers, b # a PROVE ~Holds(b)'
    BY DEF Holds
  <2>1. ~Holds(b) /\ b \in Actors
    BY DEF Movers
  <2>2. act'[b] = act[b] /\ (Queued(b)' <=> Queued(b))
    BY <1>1, <2>1
  <2>3. ~Doing(b)'
    BY <2>1, <2>2 DEF Holds, Doing, Resting
  <2>4. ~Waits(b)'
    BY <2>1, <2>2 DEF Holds, Waits
  <2>. QED BY <2>3, <2>4 DEF Holds
<1>3. Sole'
  BY <1>2, Zenon DEF Sole
<1>4. StopHarmless'
  BY <1>0, <1>1 DEF BudgetInv, StopHarmless
<1>5. Ended'
  BY <1>0, <1>1 DEF BudgetInv, Ended
<1>6. queue = <<>>
  <2>1. \A b \in Actors : ~Queued(b)
    BY QueuedHolds, Zenon
  <2>2. \A i \in 1..Len(queue) : queue[i][1] \in Actors
    BY QueueIs
  <2>3. queue \in Seq(Actors \X Sessions)
    BY DEF TypeOK
  <2>4. ~(1 \in 1..Len(queue))
    BY <2>1, <2>2 DEF Queued
  <2>. QED BY <2>3, <2>4
<1>7. OneSave'
  <2>1. CASE ~saved
    BY <1>6, <2>1 DEF Move, OneSave
  <2>2. CASE saved
    <3>1. queue' = << <<a, e.copy>> >>
      BY <1>6, <2>2 DEF Move
    <3>2. Len(queue') = 1 /\ queue'[1] = <<a, e.copy>>
      BY <3>1
    <3>. QED BY <1>1, <2>2, <3>2 DEF OneSave
  <2>. QED BY <2>1, <2>2
<1>8. Progressing'
  <2>1. Doing(a)' => e # Idle
    BY <1>1 DEF Doing
  <2>2. Doing(a)' => Fit(act'[a], repairs') /\ (Queued(a)' \/ Synced(act'[a], file'))
    BY <1>1, <2>1, Zenon
  <2>. QED BY <1>2, <2>2, Zenon DEF Progressing
<1>9. Attended'
  <2>. SUFFICES ASSUME NEW w \in Workers, Running(w)'
                PROVE  file'.status = "running" /\ Works(act'[Owner(w)])
    BY DEF Attended
  <2>1. Running(w) /\ file'.status = "running" /\ Works(act[Owner(w)])
    BY DEF BudgetInv, Attended, Running
  <2>2. CASE a = Owner(w)
    BY <1>1, <2>1, <2>2
  <2>3. CASE a # Owner(w)
    BY <1>0, <1>1, <2>1, <2>3
  <2>. QED BY <2>2, <2>3
<1>10. Counted'
  <2>1. repairs' <= repairs
    BY DEF TypeOK
  <2>2. file.fix \in Nat /\ repairs' \in Nat /\ repairs \in Nat
    BY FixIs DEF TypeOK
  <2>3. Budgeted(file, repairs')
    BY <2>1, <2>2 DEF BudgetInv, Counted, Budgeted
  <2>. QED BY <2>3 DEF BudgetInv, Counted
<1>. QED BY <1>3, <1>4, <1>5, <1>7, <1>8, <1>9, <1>10 DEF BudgetInv

Soft == Points \ (Barred \cup {"create", "again", "repair", "spawn", "spawnRepair", "initialize"})

LEMMA DoingHolds ==
  ASSUME TypeOK, BudgetInv, NEW a \in Movers, Doing(a)
  PROVE  /\ a \in Actors /\ act[a].copy \in Sessions /\ act[a] \in Calls
         /\ \A b \in Movers : Holds(b) => b = a
         /\ \A w \in Workers : a = Owner(w) => worker[w] # "free"
         /\ Fit(act[a], repairs) /\ (Queued(a) \/ Synced(act[a], file))
         /\ repairs \in Nat /\ MaxFix \in Nat /\ file \in Sessions
<1>1. a \in Actors /\ act[a].copy \in Sessions /\ act[a] \in Calls
  BY CopyTypes DEF Movers
<1>2. \A b \in Movers : Holds(b) => b = a
  BY DEF BudgetInv, Sole, Holds
<1>3. \A w \in Workers : a = Owner(w) => worker[w] # "free"
  BY DEF BudgetInv, Ended, Doing
<1>4. Fit(act[a], repairs) /\ (Queued(a) \/ Synced(act[a], file))
  BY DEF BudgetInv, Progressing
<1>. QED BY <1>1, <1>2, <1>3, <1>4, SessionAssumption DEF TypeOK

LEMMA AtDoes ==
  ASSUME NEW a, NEW p, At(a, p), p \notin {"idle", "settle"}
  PROVE  act[a].at = p /\ ~act[a].event /\ ~Queued(a) /\ Doing(a)
BY IdleIs DEF At, Doing, Resting

(* It keeps its repairs and goes where nothing is asked of them.           *)
LEMMA SoftCall ==
  ASSUME TypeOK, BudgetInv, NEW a \in Movers, ~Queued(a), Doing(a),
         NEW p \in Soft, NEW s \in Sessions, NEW v \in BOOLEAN, NEW saved \in BOOLEAN,
         Move(a, Call(p, s, v), saved),
         file' = file, worker' = worker, repairs' = repairs,
         Budgeted(s, repairs), s.status # "none",
         saved \/ s = file \/ (p = "store" /\ ~v),
         \A w \in Workers : a = Owner(w) /\ Running(w) => Works(Call(p, s, v))
  PROVE  BudgetInv'
<1>1. p \in Points /\ p \notin Barred
        /\ p \notin {"create", "again", "repair", "spawn", "spawnRepair", "initialize"}
  BY DEF Soft
<1>2. PICK e \in Calls : /\ e = Call(p, s, v) /\ e.at = p /\ e.copy = s /\ e.event = v
  BY <1>1, CallIs
<1>3. e # Idle
  BY <1>2, IdleIs, SessionIs DEF Statuses
<1>4. Fit(e, repairs')
  BY <1>1, <1>2 DEF Fit
<1>5. saved \/ Synced(e, file)
  BY <1>2 DEF Synced
<1>6. /\ \A b \in Movers : Holds(b) => b = a
      /\ \A w \in Workers : a = Owner(w) => worker[w] # "free"
  BY DoingHolds
<1>7. Move(a, e, saved) /\ e.at \notin {"create", "initialize"}
      /\ \A w \in Workers : a = Owner(w) /\ Running(w) => Works(e)
  BY <1>1, <1>2
<1>. QED BY <1>3, <1>4, <1>5, <1>6, <1>7, HolderKeeps

(* A call that is past its first await, and its worker past its lines.     *)
LEMMA BusyCall ==
  ASSUME TypeOK, BudgetInv, NEW a \in Movers, NEW q, At(a, q),
         q \notin {"idle", "settle", "line", "initialize"},
         NEW p \in Soft, NEW s \in Sessions,
         s.fix = act[a].copy.fix, s.status # "none",
         \/ SaveAndEvent(a, s, p) \/ Save(a, s, p)
         \/ s = file /\ (EventOnly(a, s, p) \/ Await(a, s, p))
         \/ p = "store" /\ Await(a, s, p),
         file' = file, worker' = worker, repairs' = repairs
  PROVE  BudgetInv'
<1>1. act[a].at = q /\ ~act[a].event /\ ~Queued(a) /\ Doing(a)
  BY AtDoes
<1>2. Fit(act[a], repairs) /\ a \in Actors
  BY <1>1, DoingHolds
<1>3. Budgeted(s, repairs)
  BY <1>1, <1>2 DEF Fit, Budgeted
<1>4. \A w \in Workers : a = Owner(w) => ~Running(w)
  BY <1>1, IdleIs DEF BudgetInv, Attended, Works
<1>5. p \in Points
  BY DEF Soft
<1>6. \E v \in BOOLEAN, saved \in BOOLEAN :
        /\ Move(a, Call(p, s, v), saved)
        /\ saved \/ s = file \/ (p = "store" /\ ~v)
  BY <1>2, <1>5, Moves
<1>. QED BY <1>1, <1>3, <1>4, <1>6, SoftCall

LEMMA MoverLeaves ==
  ASSUME TypeOK, BudgetInv, NEW a \in Movers, NEW q, At(a, q),
         q \notin {"idle", "settle"}, Leave(a),
         file' = file, worker' = worker, repairs' = repairs
  PROVE  BudgetInv'
<1>1. ~Queued(a) /\ Doing(a)
  BY AtDoes
<1>2. /\ a \in Actors /\ Idle \in Calls /\ "idle" \in Points /\ Idle.copy \in Sessions
      /\ \A b \in Movers : Holds(b) => b = a
      /\ \A w \in Workers : a = Owner(w) => worker[w] # "free"
  BY <1>1, DoingHolds, IdleIs DEF Points
<1>3. Move(a, Idle, FALSE) /\ Works(Idle)
  BY <1>2, Moves DEF Works
<1>. QED BY <1>1, <1>2, <1>3, HolderKeeps

LEMMA SoftAre ==
  {"start", "verify", "gates", "accept", "command", "store", "remove", "idle", "settle",
   "line", "ok", "failed"} \subseteq Soft
BY DEF Soft, Points, Barred

LEMMA BusyIs ==
  ASSUME TypeOK, BudgetInv, NEW a \in Movers, NEW q, At(a, q),
         q \notin {"idle", "settle", "line", "initialize", "create"}
  PROVE  /\ a \in Actors /\ act[a].copy \in Sessions /\ act[a].at = q /\ q \notin Barred
         /\ act[a].copy.status # "none" /\ Budgeted(act[a].copy, repairs)
         /\ q # "store" => act[a].copy = file
         /\ ~Queued(a) /\ Doing(a) /\ Fit(act[a], repairs)
<1>1. act[a].at = q /\ ~act[a].event /\ ~Queued(a) /\ Doing(a)
  BY AtDoes
<1>2. a \in Actors /\ act[a].copy \in Sessions /\ Fit(act[a], repairs) /\ Synced(act[a], file)
  BY <1>1, DoingHolds
<1>. QED BY <1>1, <1>2 DEF Fit, Synced

(* A call goes where its repairs count.                                    *)
LEMMA HardCall ==
  ASSUME TypeOK, BudgetInv, NEW a \in Movers, NEW q, At(a, q),
         q \notin {"idle", "settle", "line", "initialize"},
         NEW p \in Points \ {"create", "initialize", "idle"}, NEW s \in Sessions,
         SaveAndEvent(a, s, p) \/ Save(a, s, p),
         file' = file, worker' = worker, repairs' \in {repairs, 0},
         \A v \in BOOLEAN : Fit(Call(p, s, v), repairs')
  PROVE  BudgetInv'
<1>1. act[a].at = q /\ ~act[a].event /\ ~Queued(a) /\ Doing(a)
  BY AtDoes
<1>2. /\ a \in Actors /\ \A b \in Movers : Holds(b) => b = a
      /\ \A w \in Workers : a = Owner(w) => worker[w] # "free"
  BY <1>1, DoingHolds
<1>3. \A w \in Workers : a = Owner(w) => ~Running(w)
  BY <1>1, IdleIs DEF BudgetInv, Attended, Works
<1>4. \E v \in BOOLEAN : Move(a, Call(p, s, v), TRUE)
  BY <1>2, Moves
<1>5. PICK v \in BOOLEAN : Move(a, Call(p, s, v), TRUE)
  BY <1>4
<1>6. PICK e \in Calls : e = Call(p, s, v) /\ e.at = p
  BY CallIs
<1>7. e # Idle /\ e.at \notin {"create", "initialize"} /\ Fit(e, repairs')
  BY <1>6, IdleIs
<1>. QED BY <1>1, <1>2, <1>3, <1>5, <1>6, <1>7, HolderKeeps

LEMMA AddEventBudgets ==
  ASSUME TypeOK, BudgetInv, NEW a \in Movers, AddEvent(a)
  PROVE  BudgetInv'
<1>1. /\ act[a].event /\ ~Queued(a) /\ Save(a, act[a].copy, act[a].at)
      /\ file' = file /\ worker' = worker /\ repairs' = repairs
  BY DEF AddEvent, processVars, historyVars
<1>2. Doing(a)
  BY <1>1, IdleIs DEF Doing, Resting
<1>3. /\ a \in Actors /\ act[a].copy \in Sessions /\ act[a].at \in Points
      /\ \A b \in Movers : Holds(b) => b = a
      /\ \A w \in Workers : a = Owner(w) => worker[w] # "free"
      /\ Fit(act[a], repairs)
  BY <1>2, DoingHolds, CopyTypes
<1>4. Move(a, Call(act[a].at, act[a].copy, FALSE), TRUE)
  BY <1>1, <1>3, Moves
<1>5. PICK e \in Calls : /\ e = Call(act[a].at, act[a].copy, FALSE)
                         /\ e.at = act[a].at /\ e.copy = act[a].copy /\ e.event = FALSE
  <2>1. FALSE \in BOOLEAN
    OBVIOUS
  <2>2. /\ Call(act[a].at, act[a].copy, FALSE) \in Calls
        /\ Call(act[a].at, act[a].copy, FALSE).at = act[a].at
        /\ Call(act[a].at, act[a].copy, FALSE).copy = act[a].copy
        /\ Call(act[a].at, act[a].copy, FALSE).event = FALSE
    BY <1>3, <2>1, CallIs, ZenonT(40)
  <2>. QED BY <2>2
<1>6. Fit(e, repairs') /\ e.at \notin {"create", "initialize"} /\ e.copy.status # "none"
  BY <1>1, <1>3, <1>5 DEF Fit
<1>7. e # Idle
  BY <1>6, IdleIs, SessionIs DEF Statuses
<1>8. \A w \in Workers : a = Owner(w) /\ Running(w) => Works(e)
  BY <1>1, <1>5, IdleIs DEF BudgetInv, Attended, Works
<1>. QED BY <1>1, <1>3, <1>4, <1>5, <1>6, <1>7, <1>8, HolderKeeps

LEMMA AcceptBudgets ==
  ASSUME TypeOK, BudgetInv, NEW a \in Movers, Accept(a)
  PROVE  BudgetInv'
<1>1. /\ At(a, "accept")
      /\ SaveAndEvent(a, With(act[a].copy, "awaiting-review"), Rest(a))
      /\ file' = file /\ worker' = worker /\ repairs' = repairs
  BY DEF Accept, processVars, historyVars
<1>2. a \in Actors /\ act[a].copy \in Sessions
  BY <1>1, BusyIs
<1>3. "awaiting-review" \in Statuses /\ "awaiting-review" # "none"
  BY DEF Statuses
<1>4. PICK s \in Sessions : /\ s = With(act[a].copy, "awaiting-review")
                            /\ s.fix = act[a].copy.fix /\ s.status # "none"
  BY <1>2, <1>3, WithIs, FixIs
<1>5. Rest(a) \in Soft
  BY <1>2, RestTypes, SoftAre
<1>. QED BY <1>1, <1>4, <1>5, BusyCall

LEMMA StoreBudgets ==
  ASSUME TypeOK, BudgetInv, NEW a \in Movers, Store(a)
  PROVE  BudgetInv'
<1>1. /\ At(a, "store")
      /\ \E p \in {"remove", "verify", Rest(a)} : SaveAndEvent(a, act[a].copy, p)
      /\ file' = file /\ worker' = worker /\ repairs' = repairs
  BY DEF Store, processVars, historyVars
<1>2. a \in Actors /\ act[a].copy \in Sessions /\ act[a].copy.status # "none"
  BY <1>1, BusyIs
<1>3. {"remove", "verify", Rest(a)} \subseteq Soft
  BY <1>2, RestTypes, SoftAre
<1>. QED BY <1>1, <1>2, <1>3, BusyCall

LEMMA TestsBudgets ==
  ASSUME TypeOK, BudgetInv, NEW a \in Movers, Tests(a)
  PROVE  BudgetInv'
<1>1. /\ \E q \in {"runTests", "verify"} : At(a, q)
      /\ SaveAndEvent(a, With(act[a].copy, "testing"), "gates")
      /\ file' = file /\ worker' = worker /\ repairs' = repairs
  BY DEF Tests, Ready, historyVars
<1>2. PICK q \in {"runTests", "verify"} : At(a, q)
  BY <1>1
<1>3. a \in Actors /\ act[a].copy \in Sessions
  BY <1>2, BusyIs
<1>4. "testing" \in Statuses /\ "testing" # "none"
  BY DEF Statuses
<1>5. PICK s \in Sessions : /\ s = With(act[a].copy, "testing")
                            /\ s.fix = act[a].copy.fix /\ s.status # "none"
  BY <1>3, <1>4, WithIs, FixIs
<1>6. "gates" \in Soft
  BY SoftAre
<1>. QED BY <1>1, <1>2, <1>5, <1>6, BusyCall

LEMMA GatesRunBudgets ==
  ASSUME TypeOK, BudgetInv, NEW a \in Movers, NEW outcome \in Outcomes(a), GatesRun(a, outcome)
  PROVE  BudgetInv'
<1>. DEFINE m == Marked(act[a].copy, "tests", TestsStatus(outcome))
            s == IF a \in Requests THEN With(m, "awaiting-review") ELSE m
<1>1. /\ At(a, "gates") /\ SaveAndEvent(a, s, Verdict(a, outcome))
      /\ file' = file /\ worker' = worker /\ repairs' = repairs
  BY DEF GatesRun
<1>2. /\ a \in Actors /\ act[a].copy \in Sessions /\ act[a].copy.status # "none"
      /\ Budgeted(act[a].copy, repairs)
  BY <1>1, BusyIs
<1>3. "tests" \in Gates /\ TestsStatus(outcome) \in Results
  BY SessionAssumption DEF TestsStatus, Results
<1>4. m \in Sessions /\ m.fix = act[a].copy.fix /\ m.status = act[a].copy.status
  BY <1>2, <1>3, MarkedIs, FixIs, ZenonT(40)
<1>. HIDE DEF m
<1>5. "awaiting-review" \in Statuses /\ "awaiting-review" # "none"
  BY DEF Statuses
<1>6. With(m, "awaiting-review") \in Sessions /\ With(m, "awaiting-review").fix = m.fix
      /\ With(m, "awaiting-review").status = "awaiting-review"
  BY <1>4, <1>5, WithIs, FixIs
<1>7. s \in Sessions /\ s.fix = act[a].copy.fix /\ s.status # "none"
  BY <1>2, <1>4, <1>5, <1>6
<1>. HIDE DEF s
<1>8. CASE Verdict(a, outcome) = "again" /\ act[a].copy.fix < MaxFix
  <2>1. "again" \in Points \ {"create", "initialize", "idle"} /\ "again" \notin Barred
    BY DEF Points, Barred
  <2>2. Budgeted(s, repairs)
    BY <1>2, <1>7 DEF Budgeted
  <2>3. ASSUME NEW v \in BOOLEAN PROVE Fit(Call("again", s, v), repairs')
    <3>1. PICK e \in Calls : e = Call("again", s, v) /\ e.at = "again" /\ e.copy = s
      BY <1>7, <2>1, CallIs
    <3>2. Fit(e, repairs')
      BY <1>1, <1>7, <1>8, <2>1, <2>2, <3>1 DEF Fit
    <3>. QED BY <3>1, <3>2
  <2>. QED BY <1>1, <1>7, <1>8, <2>1, <2>3, HardCall
<1>9. CASE Verdict(a, outcome) \in {"idle", "accept"}
  <2>1. Verdict(a, outcome) \in Soft
    BY <1>9, SoftAre
  <2>. QED BY <1>1, <1>7, <2>1, BusyCall
<1>10. \/ Verdict(a, outcome) = "again" /\ act[a].copy.fix < MaxFix
       \/ Verdict(a, outcome) \in {"idle", "accept"}
  BY DEF Verdict
<1>. QED BY <1>8, <1>9, <1>10

LEMMA RepairBudgets ==
  ASSUME TypeOK, BudgetInv, NEW a \in Movers, Repair(a)
  PROVE  BudgetInv'
<1>1. /\ At(a, "again") /\ SaveAndEvent(a, Repaired(act[a].copy), "repair")
      /\ file' = file /\ worker' = worker /\ repairs' = repairs
  BY DEF Repair, Repaired, processVars, historyVars
<1>2. /\ a \in Actors /\ act[a].copy \in Sessions /\ act[a].copy.status # "none"
      /\ Budgeted(act[a].copy, repairs) /\ act[a].at = "again"
      /\ Fit(act[a], repairs)
  BY <1>1, BusyIs
<1>3. PICK s \in Sessions : /\ s = Repaired(act[a].copy) /\ s.fix = act[a].copy.fix + 1
                            /\ s.status # "none"
  BY <1>2, RepairedIs, FixIs
<1>4. act[a].copy.fix < MaxFix
  BY <1>2 DEF Fit
<1>5. "repair" \in Points \ {"create", "initialize", "idle"} /\ "repair" \notin Barred
  BY DEF Points, Barred
<1>6. act[a].copy.fix \in Nat /\ repairs \in Nat /\ MaxFix \in Nat
  BY <1>2, FixIs, SessionAssumption DEF TypeOK
<1>7. repairs < s.fix /\ Budgeted(s, repairs)
  BY <1>2, <1>3, <1>4, <1>6 DEF Budgeted
<1>8. ASSUME NEW v \in BOOLEAN PROVE Fit(Call("repair", s, v), repairs')
  <2>1. PICK e \in Calls : e = Call("repair", s, v) /\ e.at = "repair" /\ e.copy = s
    BY <1>5, CallIs
  <2>2. Fit(e, repairs')
    BY <1>1, <1>3, <1>5, <1>7, <2>1 DEF Fit
  <2>. QED BY <2>1, <2>2
<1>. QED BY <1>1, <1>3, <1>5, <1>8, HardCall

LEMMA LaunchBudgets ==
  ASSUME TypeOK, BudgetInv, NEW a \in Movers, NEW p \in DOMAIN Starts, Launch(a, p)
  PROVE  BudgetInv'
<1>1. /\ At(a, p)
      /\ \/ Save(a, With(act[a].copy, "running"), Starts[p])
         \/ Leave(a)
         \/ SaveAndEvent(a, With(act[a].copy, "failed"), Rest(a))
      /\ file' = file /\ worker' = worker /\ repairs' = repairs
  BY DEF Launch, processVars, historyVars
<1>2. p \in {"start", "repair", "recover"}
  BY StartsIn
<1>3. /\ a \in Actors /\ act[a].copy \in Sessions /\ act[a].copy.status # "none"
      /\ Budgeted(act[a].copy, repairs) /\ act[a].at = p /\ p \notin Barred
      /\ Fit(act[a], repairs)
  BY <1>1, <1>2, BusyIs
<1>4. /\ p \in {"start", "repair"}
      /\ Starts[p] = IF p = "start" THEN "spawn" ELSE "spawnRepair"
  BY <1>2, <1>3 DEF Barred, Starts
<1>5. {"running", "failed"} \subseteq Statuses /\ "none" \notin {"running", "failed"}
  BY DEF Statuses
<1>6. CASE Save(a, With(act[a].copy, "running"), Starts[p])
  <2>1. PICK s \in Sessions : /\ s = With(act[a].copy, "running")
                              /\ s.fix = act[a].copy.fix /\ s.status = "running"
    BY <1>3, <1>5, WithIs, FixIs
  <2>2. /\ Starts[p] \in {"spawn", "spawnRepair"}
        /\ Starts[p] \in Points \ {"create", "initialize", "idle"} /\ Starts[p] \notin Barred
    BY <1>4 DEF Points, Barred
  <2>3. Starts[p] = "spawnRepair" => repairs < s.fix
    BY <1>3, <1>4, <2>1 DEF Fit
  <2>4. Budgeted(s, repairs)
    BY <1>3, <2>1 DEF Budgeted
  <2>5. ASSUME NEW v \in BOOLEAN PROVE Fit(Call(Starts[p], s, v), repairs')
    <3>1. PICK e \in Calls : e = Call(Starts[p], s, v) /\ e.at = Starts[p] /\ e.copy = s
      BY <2>2, CallIs
    <3>2. Fit(e, repairs')
      BY <1>1, <1>5, <2>1, <2>2, <2>3, <2>4, <3>1 DEF Fit
    <3>. QED BY <3>1, <3>2
  <2>. QED BY <1>1, <1>2, <1>6, <2>1, <2>2, <2>5, HardCall
<1>7. CASE Leave(a)
  BY <1>1, <1>2, <1>7, MoverLeaves
<1>8. CASE SaveAndEvent(a, With(act[a].copy, "failed"), Rest(a))
  <2>1. PICK s \in Sessions : /\ s = With(act[a].copy, "failed")
                              /\ s.fix = act[a].copy.fix /\ s.status = "failed"
    BY <1>3, <1>5, WithIs, FixIs
  <2>2. Rest(a) \in Soft
    BY <1>3, RestTypes, SoftAre
  <2>. QED BY <1>1, <1>2, <1>8, <2>1, <2>2, BusyCall
<1>. QED BY <1>1, <1>6, <1>7, <1>8

(* The call that starts a worker hands the session over to it.             *)
LEMMA SpawnBudgets ==
  ASSUME Uninterrupted, TypeOK, BudgetInv, NEW a \in Movers, NEW w \in Workers,
         NEW p \in DOMAIN Starts, Spawn(a, w, p)
  PROVE  BudgetInv'
<1>1. /\ At(a, Starts[p]) /\ worker[w] = "free"
      /\ worker' = [worker EXCEPT ![w] = "alive"]
      /\ p # "recover" => \/ Rest(a) = "settle" /\ Await(a, act[a].copy, "settle")
                          \/ Rest(a) # "settle" /\ Leave(a)
      /\ repairs' = IF p = "repair" THEN repairs + 1 ELSE repairs
      /\ file' = file
  BY DEF Spawn
<1>2. p \in {"start", "repair", "recover"}
  BY StartsIn
<1>3. Starts[p] = CASE p = "start" -> "spawn" [] p = "repair" -> "spawnRepair"
                    [] OTHER -> "spawnRecovered"
  BY <1>2 DEF Starts
<1>4. /\ a \in Actors /\ act[a].copy \in Sessions /\ act[a].at = Starts[p]
      /\ Starts[p] \notin Barred /\ Budgeted(act[a].copy, repairs)
      /\ act[a].copy = file /\ ~Queued(a) /\ Doing(a) /\ Fit(act[a], repairs)
  BY <1>1, <1>2, <1>3, BusyIs
<1>5. p \in {"start", "repair"}
  BY <1>2, <1>3, <1>4 DEF Barred
<1>6. /\ file.status = "running"
      /\ p = "repair" => repairs < file.fix
  BY <1>3, <1>4, <1>5 DEF Fit
<1>7. \A b \in Movers : Holds(b) => b = a
  BY <1>4, DoingHolds
<1>8. \A v \in Workers : /\ worker'[v] = IF v = w THEN "alive" ELSE worker[v]
                         /\ worker[v] = "free" => Owner(v) # a /\ act[Owner(v)] = Idle
  BY <1>1, <1>4 DEF TypeOK, BudgetInv, Ended, Doing
<1>9. \E e \in Calls :
        /\ Move(a, e, FALSE) /\ queue' = queue
        /\ \/ e = Idle /\ Rest(a) # "settle"
           \/ e.at = "settle" /\ ~e.event
  <2>1. "settle" \in Points /\ FALSE \in BOOLEAN
    BY DEF Points
  <2>2. CASE Leave(a) /\ Rest(a) # "settle"
    BY <1>4, <2>1, <2>2, Moves, IdleIs DEF Leave
  <2>3. CASE Await(a, act[a].copy, "settle")
    BY <1>4, <2>1, <2>3, Moves, CallIs DEF Await
  <2>. QED BY <1>1, <1>5, <2>2, <2>3
<1>10. PICK e \in Calls :
        /\ Move(a, e, FALSE) /\ queue' = queue
        /\ \/ e = Idle /\ Rest(a) # "settle"
           \/ e.at = "settle" /\ ~e.event
  BY <1>9
<1>11. /\ act'[a] = e /\ ~Queued(a)'
       /\ \A b \in Actors \ {a} : act'[b] = act[b] /\ (Queued(b)' <=> Queued(b))
  BY <1>4, <1>10, MoveIs
<1>12. Stop \in Actors \ {a} /\ Movers \subseteq Actors /\ \A v \in Workers : Owner(v) \in Actors
  BY ActorsAre DEF Movers
<1>13. \A b \in Movers : ~Doing(b)'
  <2>1. ~Doing(a)'
    BY <1>10, <1>11 DEF Doing, Resting
  <2>2. ASSUME NEW b \in Movers, b # a PROVE ~Doing(b)'
    <3>1. ~Doing(b) /\ act'[b] = act[b] /\ (Queued(b)' <=> Queued(b))
      BY <1>7, <1>11, <1>12, <2>2 DEF Holds
    <3>. QED BY <3>1 DEF Doing, Resting
  <2>. QED BY <2>1, <2>2
<1>14. Sole'
  <2>. SUFFICES ASSUME NEW b \in Movers, Waits(b)' PROVE b = Owner(w)
    BY <1>13 DEF Sole, Holds
  <2>1. PICK v \in Workers : b = Owner(v) /\ worker'[v] # "free"
    BY DEF Waits
  <2>2. act'[b] = Idle
    BY DEF Waits
  <2>. SUFFICES ASSUME v # w PROVE FALSE
    BY <2>1
  <2>3. b # a
    <3>1. Rest(Owner(v)) = "settle"
      BY DEF Rest, Owner
    <3>. QED BY <1>10, <1>11, <2>1, <2>2, <3>1, IdleIs
  <2>4. act[b] = Idle /\ worker[v] # "free"
    BY <1>8, <1>11, <1>12, <2>1, <2>2, <2>3
  <2>5. Holds(b)
    BY <2>1, <2>4 DEF Holds, Waits
  <2>. QED BY <1>7, <2>3, <2>5
<1>15. StopHarmless'
  BY <1>11, <1>12 DEF BudgetInv, StopHarmless
<1>16. Ended'
  BY <1>8, <1>11, <1>12 DEF Ended
<1>17. OneSave'
  <2>. SUFFICES ASSUME NEW i \in 1..Len(queue)
                PROVE  /\ queue[i][1] \in Movers /\ queue[i][2] = act'[queue[i][1]].copy
                       /\ act'[queue[i][1]] # Idle
                       /\ act'[queue[i][1]].at \notin {"create", "initialize"}
    BY <1>10 DEF BudgetInv, OneSave
  <2>1. queue[i][1] # a
    BY <1>4 DEF Queued
  <2>. QED BY <1>11, <1>12, <2>1 DEF BudgetInv, OneSave
<1>18. Progressing'
  BY <1>13 DEF Progressing
<1>19. Attended'
  <2>. SUFFICES ASSUME NEW v \in Workers, Running(v)'
                PROVE  Works(act'[Owner(v)])
    BY <1>1, <1>6 DEF Attended
  <2>1. CASE v = w
    BY <1>1, <1>8, <1>11, <1>12, <2>1 DEF Works
  <2>2. CASE v # w
    <3>1. Running(v)
      BY <1>8, <2>2 DEF Running
    <3>2. Works(act[Owner(v)])
      BY <3>1 DEF BudgetInv, Attended
    <3>3. Owner(v) # a
      BY <1>3, <1>4, <1>5, <3>2, IdleIs DEF Works
    <3>. QED BY <1>11, <1>12, <3>2, <3>3
  <2>. QED BY <2>1, <2>2
<1>20. Counted'
  <2>1. file.fix \in Nat /\ repairs \in Nat /\ MaxFix \in Nat
    BY FixIs, SessionAssumption DEF TypeOK
  <2>2. Budgeted(file, repairs')
    BY <1>1, <1>4, <1>6, <2>1 DEF Budgeted
  <2>. QED BY <1>1, <1>6, <2>2 DEF Counted
<1>. QED BY <1>14, <1>15, <1>16, <1>17, <1>18, <1>19, <1>20 DEF BudgetInv

(* Nothing moves but Stop, and workers only from one condition to another. *)
LEMMA OthersBudget ==
  ASSUME TypeOK, BudgetInv,
         file' = file, queue' = queue, repairs' = repairs,
         \A b \in Movers : act'[b] = act[b],
         act'[Stop] = act[Stop] \/ act'[Stop] = Idle
           \/ (act'[Stop].at = "cancelTests" /\ ~act'[Stop].event),
         \A w \in Workers : /\ worker'[w] = "free" <=> worker[w] = "free"
                            /\ Running(w)' => Running(w)
  PROVE  BudgetInv'
<1>1. \A b \in Movers : /\ Doing(b)' <=> Doing(b)
                        /\ Waits(b)' <=> Waits(b)
                        /\ Queued(b)' <=> Queued(b)
  BY DEF Doing, Resting, Queued, Waits
<1>2. \A w \in Workers : Owner(w) \in Movers
  <2>1. \A w \in Workers : Owner(w) # Stop
    BY DEF Owner, Stop
  <2>. QED BY <2>1, ActorsAre DEF Movers
<1>3. Sole'
  BY <1>1 DEF BudgetInv, Sole, Holds
<1>4. StopHarmless'
  BY DEF BudgetInv, StopHarmless
<1>5. Ended'
  BY <1>2 DEF BudgetInv, Ended
<1>6. OneSave'
  BY DEF BudgetInv, OneSave
<1>7. Progressing'
  BY <1>1 DEF BudgetInv, Progressing
<1>8. Attended'
  BY <1>2 DEF BudgetInv, Attended
<1>9. Counted'
  BY DEF BudgetInv, Counted
<1>. QED BY <1>3, <1>4, <1>5, <1>6, <1>7, <1>8, <1>9 DEF BudgetInv

LEMMA SharedBudgets ==
  ASSUME Uninterrupted, TypeOK, BudgetInv, NEW a \in Actors, SharedStep(a)
  PROVE  BudgetInv'
<1>1. a # Stop
  <2>. SUFFICES ASSUME a = Stop PROVE FALSE
    OBVIOUS
  <2>1. act[a].at \in {"idle", "cancelTests"} /\ ~act[a].event
    BY IdleIs DEF BudgetInv, StopHarmless
  <2>2. \A p \in DOMAIN Starts : /\ p \in {"start", "repair", "recover"}
                                 /\ Starts[p] \in {"spawn", "spawnRepair", "spawnRecovered"}
    BY StartsIn DEF Starts
  <2>3. CASE AddEvent(a)
    BY <2>1, <2>3 DEF AddEvent
  <2>4. CASE Store(a) \/ Tests(a) \/ Accept(a) \/ Repair(a)
    BY <2>1, <2>4 DEF Store, Tests, Accept, Repair, Ready, At
  <2>5. CASE \E outcome \in Outcomes(a) : GatesRun(a, outcome)
    BY <2>1, <2>5 DEF GatesRun, At
  <2>6. CASE \E p \in DOMAIN Starts : Launch(a, p) \/ \E w \in Workers : Spawn(a, w, p)
    BY <2>1, <2>2, <2>6 DEF Launch, Spawn, At
  <2>. QED BY <2>3, <2>4, <2>5, <2>6 DEF SharedStep
<1>2. a \in Movers
  BY <1>1 DEF Movers
<1>. QED BY <1>2, AddEventBudgets, StoreBudgets, TestsBudgets, AcceptBudgets, RepairBudgets,
            GatesRunBudgets, LaunchBudgets, SpawnBudgets DEF SharedStep

LEMMA ContinueBudgets ==
  ASSUME TypeOK, BudgetInv, NEW a \in Movers, ContinueTask(a)
  PROVE  BudgetInv'
<1>1. /\ At(a, "continue") /\ SaveAndEvent(a, Continued(act[a].copy), "start")
      /\ file' = file /\ worker' = worker /\ repairs' = 0
  BY DEF ContinueTask, Ready, Continued, processVars
<1>2. act[a].copy \in Sessions /\ act[a].copy.status # "none"
  BY <1>1, BusyIs
<1>3. PICK s \in Sessions : s = Continued(act[a].copy) /\ s.fix = 0 /\ s.status # "none"
  BY <1>2, ContinuedIs, FixIs
<1>4. "start" \in Points \ {"create", "initialize", "idle"} /\ "start" \notin Barred
  BY DEF Points, Barred
<1>5. Budgeted(s, 0)
  BY <1>3, SessionAssumption DEF Budgeted
<1>6. ASSUME NEW v \in BOOLEAN PROVE Fit(Call("start", s, v), repairs')
  <2>1. PICK e \in Calls : e = Call("start", s, v) /\ e.at = "start" /\ e.copy = s
    BY <1>4, CallIs
  <2>2. Fit(e, repairs')
    BY <1>1, <1>3, <1>4, <1>5, <2>1 DEF Fit
  <2>. QED BY <2>1, <2>2
<1>. QED BY <1>1, <1>3, <1>4, <1>6, HardCall

LEMMA CreateBudgets ==
  ASSUME TypeOK, BudgetInv, NEW a \in Movers, Create(a)
  PROVE  BudgetInv'
<1>1. /\ At(a, "create") /\ SaveAndEvent(a, Session("preparing"), "start")
      /\ file' = file /\ worker' = worker /\ repairs' = repairs
  BY DEF Create, processVars, historyVars
<1>2. Fit(act[a], repairs) /\ act[a].at = "create"
  BY <1>1, AtDoes, DoingHolds
<1>3. repairs = 0
  BY <1>2 DEF Fit
<1>4. "preparing" \in Statuses
  BY DEF Statuses
<1>5. PICK s \in Sessions : s = Session("preparing") /\ s.fix = 0 /\ s.status = "preparing"
  BY <1>4, SessionIs DEF Session
<1>6. "start" \in Points \ {"create", "initialize", "idle"} /\ "start" \notin Barred
  BY DEF Points, Barred
<1>7. Budgeted(s, 0)
  BY <1>5, SessionAssumption DEF Budgeted
<1>8. ASSUME NEW v \in BOOLEAN PROVE Fit(Call("start", s, v), repairs')
  <2>1. PICK e \in Calls : e = Call("start", s, v) /\ e.at = "start" /\ e.copy = s
    BY <1>6, CallIs
  <2>2. Fit(e, repairs')
    BY <1>1, <1>3, <1>5, <1>6, <1>7, <2>1 DEF Fit
  <2>. QED BY <2>1, <2>2
<1>. QED BY <1>1, <1>5, <1>6, <1>8, HardCall

LEMMA StopBarred ==
  ASSUME TypeOK, BudgetInv, NEW a \in Movers, NEW q \in Barred, At(a, q)
  PROVE  FALSE
BY BusyIs DEF Barred

LEMMA ReviewBudgets ==
  ASSUME TypeOK, BudgetInv, NEW a \in Movers, a \in Requests, RequestStep(a)
  PROVE  BudgetInv'
<1>0. {"awaiting-review", "applied", "rejected", "reverted"} \subseteq Statuses
        /\ "none" \notin {"awaiting-review", "applied", "rejected", "reverted"}
        /\ {"passed", "failed"} \subseteq Results
  BY DEF Statuses, Results
<1>. DEFINE Same == file' = file /\ worker' = worker /\ repairs' = repairs
            c == act[a].copy
<1>1. CASE Refused(a)
  <2>1. At(a, act[a].at) /\ ~Possible(act[a].at) /\ Leave(a) /\ Same
    BY <1>1 DEF Refused, processVars, historyVars
  <2>2. act[a].at \notin {"idle", "settle"}
    BY <2>1 DEF Possible
  <2>. QED BY <2>1, <2>2, MoverLeaves
<1>2. CASE Resume(a)
  <2>1. /\ At(a, "resume") /\ Same
        /\ \/ SaveAndEvent(a, With(c, "awaiting-review"), "idle")
           \/ EventOnly(a, c, "start")
    BY <1>2 DEF Resume, Ready, processVars, historyVars
  <2>2. c \in Sessions /\ c.status # "none" /\ c = file
    BY <2>1, BusyIs
  <2>3. PICK s \in Sessions : /\ s = With(c, "awaiting-review")
                              /\ s.fix = c.fix /\ s.status = "awaiting-review"
    BY <1>0, <2>2, WithIs, FixIs
  <2>4. "idle" \in Soft /\ "start" \in Soft
    BY SoftAre
  <2>5. CASE SaveAndEvent(a, With(c, "awaiting-review"), "idle")
    BY <2>1, <2>3, <2>4, <2>5, BusyCall
  <2>6. CASE EventOnly(a, c, "start")
    BY <2>1, <2>2, <2>4, <2>6, BusyCall
  <2>. QED BY <2>1, <2>5, <2>6
<1>3. CASE Reproduce(a)
  <2>1. At(a, "reproduce") /\ Same /\ EventOnly(a, c, "command")
    BY <1>3 DEF Reproduce, Ready, processVars, historyVars
  <2>2. c \in Sessions /\ c.status # "none" /\ c = file
    BY <2>1, BusyIs
  <2>. QED BY <2>1, <2>2, SoftAre, BusyCall
<1>4. CASE CancelTests(a)
  <2>1. At(a, "cancelTests") /\ Same /\ Leave(a)
    BY <1>4 DEF CancelTests, historyVars
  <2>. QED BY <2>1, MoverLeaves
<1>5. CASE Checkpoint(a)
  <2>. DEFINE C == {patch} \cap {c.diff}
  <2>1. At(a, "checkpoint") /\ Same /\ SaveAndEvent(a, Kept(c, C), "idle")
    BY <1>5 DEF Checkpoint, Ready, Kept, processVars, historyVars
  <2>2. c \in Sessions /\ c.status # "none"
    BY <2>1, BusyIs
  <2>3. C \in SUBSET Contents
    BY DEF TypeOK
  <2>. HIDE DEF C
  <2>4. Kept(c, C) \in Sessions /\ Kept(c, C).fix = c.fix /\ Kept(c, C).status = c.status
    BY <2>2, <2>3, KeptIs, FixIs
  <2>. QED BY <2>1, <2>2, <2>4, SoftAre, BusyCall
<1>6. CASE \E n \in Contents : Restore(a, n)
  <2>1. PICK n \in Contents : Restore(a, n)
    BY <1>6
  <2>. DEFINE s == With(Captured(c, n), "awaiting-review")
  <2>2. At(a, "restoreCheckpoint") /\ Same /\ Await(a, s, "store")
    BY <2>1 DEF Restore, Ready, processVars, historyVars
  <2>3. c \in Sessions
    BY <2>2, BusyIs
  <2>4. Captured(c, n) \in Sessions /\ Captured(c, n).fix = c.fix
    BY <2>3, CapturedIs, FixIs
  <2>5. s \in Sessions /\ s.fix = c.fix /\ s.status # "none"
    BY <1>0, <2>4, WithIs, FixIs
  <2>. HIDE DEF s
  <2>. QED BY <2>2, <2>5, SoftAre, BusyCall
<1>7. CASE \E g \in Gates \ {"tests"}, r \in {"passed", "failed"} : GateRun(a, g, r)
  <2>1. PICK g \in Gates \ {"tests"}, r \in {"passed", "failed"} : GateRun(a, g, r)
    BY <1>7
  <2>. DEFINE s == Marked(c, g, r)
              q == IF g = "reproduction" THEN "command" ELSE g
  <2>2. At(a, q) /\ Same /\ SaveAndEvent(a, s, "idle")
    BY <2>1 DEF GateRun, processVars
  <2>3. q \in {"command", "semanticReview"}
    BY SessionAssumption
  <2>. HIDE DEF q
  <2>4. c \in Sessions /\ c.status # "none"
    BY <2>2, <2>3, BusyIs
  <2>5. s \in Sessions /\ s.fix = c.fix /\ s.status # "none"
    <3>1. g \in Gates /\ r \in Results
      BY <1>0, <2>1
    <3>2. s \in Sessions /\ s.status = c.status
      BY <2>4, <3>1, MarkedIs, ZenonT(40)
    <3>. QED BY <2>4, <3>1, <3>2, FixIs
  <2>. HIDE DEF s
  <2>. QED BY <2>2, <2>3, <2>5, SoftAre, BusyCall
<1>8. CASE Apply(a) \/ Revert(a) \/ Reject(a)
  <2>1. PICK q \in {"apply", "revert", "reject"}, st \in {"applied", "reverted", "rejected"} :
          /\ At(a, q) /\ Same
          /\ Await(a, With(c, st), "store") \/ SaveAndEvent(a, With(c, st), "remove")
    BY <1>8 DEF Apply, Revert, Reject, Ready, processVars, historyVars
  <2>2. c \in Sessions
    BY <2>1, BusyIs
  <2>3. With(c, st) \in Sessions /\ With(c, st).fix = c.fix /\ With(c, st).status # "none"
    BY <1>0, <2>1, <2>2, WithIs, FixIs, ZenonT(40)
  <2>. QED BY <2>1, <2>3, SoftAre, BusyCall
<1>9. CASE RemoveWorktree(a)
  <2>1. At(a, "remove") /\ Same /\ Leave(a)
    BY <1>9 DEF RemoveWorktree, processVars, historyVars
  <2>. QED BY <2>1, MoverLeaves
<1>10. CASE \/ Cancel(a) \/ Pause(a) \/ Kill(a, "idle") \/ Kill(a, "drain")
            \/ Dispose(a) \/ DisposeLoads(a) \/ DisposePauses(a) \/ DisposeDrains(a)
            \/ Disposed(a)
  <2>1. \E q \in Barred : At(a, q)
    BY <1>10 DEF Cancel, Pause, Kill, Dispose, DisposeLoads, DisposePauses, DisposeDrains,
                 Disposed, Barred
  <2>. QED BY <2>1, StopBarred
<1>. QED BY <1>1, <1>2, <1>3, <1>4, <1>5, <1>6, <1>7, <1>8, <1>9, <1>10,
            CreateBudgets, ContinueBudgets DEF RequestStep

LEMMA StopBudgets ==
  ASSUME TypeOK, BudgetInv, RequestStep(Stop)
  PROVE  BudgetInv'
<1>1. act[Stop].at \in {"idle", "cancelTests"} /\ Stop \in Actors /\ Stop \in Requests
  BY IdleIs, ActorsAre DEF BudgetInv, StopHarmless, Requests
<1>. DEFINE Same == /\ file' = file /\ queue' = queue /\ worker' = worker
                    /\ repairs' = repairs /\ act' = [act EXCEPT ![Stop] = Idle]
<1>2. Same
  <2>1. CASE Refused(Stop)
    BY <1>1, <2>1 DEF Refused, Leave, processVars, historyVars
  <2>2. CASE CancelTests(Stop)
    BY <2>2 DEF CancelTests, Leave, historyVars
  <2>3. CASE \/ Create(Stop) \/ ContinueTask(Stop) \/ Resume(Stop)
             \/ Reproduce(Stop) \/ Checkpoint(Stop)
             \/ \E c \in Contents : Restore(Stop, c)
             \/ Apply(Stop) \/ Reject(Stop) \/ RemoveWorktree(Stop) \/ Revert(Stop)
    BY <1>1, <2>3 DEF Create, ContinueTask, Resume, Reproduce, Checkpoint, Restore, Apply,
                      Reject, RemoveWorktree, Revert, Ready, At
  <2>4. CASE \E g \in Gates \ {"tests"}, r \in {"passed", "failed"} : GateRun(Stop, g, r)
    <3>1. PICK g \in Gates \ {"tests"}, r \in {"passed", "failed"} : GateRun(Stop, g, r)
      BY <2>4
    <3>2. act[Stop].at \in {"command", "semanticReview"}
      BY <3>1, SessionAssumption DEF GateRun, At
    <3>. QED BY <1>1, <3>2
  <2>5. CASE \/ Cancel(Stop) \/ Pause(Stop) \/ Kill(Stop, "idle") \/ Kill(Stop, "drain")
             \/ Dispose(Stop) \/ DisposeLoads(Stop) \/ DisposePauses(Stop)
             \/ DisposeDrains(Stop) \/ Disposed(Stop)
    BY <1>1, <2>5 DEF Cancel, Pause, Kill, Dispose, DisposeLoads, DisposePauses,
                      DisposeDrains, Disposed, At
  <2>. QED BY <2>1, <2>2, <2>3, <2>4, <2>5 DEF RequestStep
<1>3. \A b \in Movers : act'[b] = act[b]
  BY <1>2 DEF Movers, TypeOK
<1>4. act'[Stop] = Idle
  BY <1>1, <1>2 DEF TypeOK
<1>5. \A w \in Workers : /\ worker'[w] = "free" <=> worker[w] = "free"
                         /\ Running(w)' => Running(w)
  BY <1>2 DEF Running
<1>. QED BY <1>2, <1>3, <1>4, <1>5, OthersBudget

(* A worker's owner begins to handle a line, or the worker's end.          *)
LEMMA OwnerBegins ==
  ASSUME Uninterrupted, TypeOK, BudgetInv, NEW w \in Workers,
         act[Owner(w)] = Idle, worker[w] # "free",
         NEW p \in Soft, Await(Owner(w), file, p),
         Running(w) => p = "line",
         file' = file, worker' = worker, repairs' = repairs
  PROVE  BudgetInv'
<1>1. Owner(w) \in Movers /\ Owner(w) \in Actors /\ p \in Points /\ p \notin Barred
        /\ p \notin {"create", "again", "repair", "spawn", "spawnRepair", "initialize"}
  BY SoleActors, ActorsAre DEF Movers, Soft
<1>2. \A v \in Workers : Owner(v) = Owner(w) => v = w
  BY SoleActors
<1>3. Holds(Owner(w)) /\ ~Queued(Owner(w))
  BY DEF Holds, Waits, Queued, BudgetInv, OneSave
<1>4. \A b \in Movers : Holds(b) => b = Owner(w)
  BY <1>1, <1>3 DEF BudgetInv, Sole
<1>5. file \in Sessions /\ file.status # "none" /\ Budgeted(file, repairs)
  BY DEF TypeOK, BudgetInv, Counted
<1>6. FALSE \in BOOLEAN
  OBVIOUS
<1>7. /\ Call(p, file, FALSE) \in Calls /\ Call(p, file, FALSE).at = p
      /\ Call(p, file, FALSE).copy = file
  BY <1>1, <1>5, <1>6, CallIs
<1>8. PICK e \in Calls : Move(Owner(w), e, FALSE) /\ e.at = p /\ e.copy = file
  BY <1>1, <1>5, <1>7, Moves
<1>9. Fit(e, repairs') /\ Synced(e, file)
  BY <1>1, <1>5, <1>8 DEF Fit, Synced
<1>10. Running(w) => Works(e)
  BY <1>8 DEF BudgetInv, Attended, Works
<1>. QED BY <1>1, <1>2, <1>3, <1>4, <1>6, <1>8, <1>9, <1>10, HolderKeeps

LEMMA SettleBudgets ==
  ASSUME Uninterrupted, TypeOK, BudgetInv, NEW w \in Workers, Settle(w)
  PROVE  BudgetInv'
<1>. DEFINE a == Owner(w)
<1>1. /\ act[a].at = "settle" /\ ~act[a].event /\ ~Queued(a)
      /\ worker' = [worker EXCEPT ![w] = "free"] /\ act' = [act EXCEPT ![a] = Idle]
      /\ file' = file /\ queue' = queue /\ repairs' = repairs
  BY DEF Settle, Leave, At, historyVars
<1>2. a \in Actors /\ a # Stop /\ Stop \in Actors /\ Movers \subseteq Actors
        /\ \A v \in Workers : Owner(v) \in Actors /\ (Owner(v) = a => v = w)
  BY SoleActors, ActorsAre DEF Movers
<1>. HIDE DEF a
<1>3. act'[a] = Idle /\ \A b \in Actors : b # a => act'[b] = act[b]
  BY <1>1, <1>2 DEF TypeOK
<1>4. \A v \in Workers : worker'[v] = IF v = w THEN "free" ELSE worker[v]
  BY <1>1 DEF TypeOK
<1>5. \A b \in Movers : /\ Holds(b)' => Holds(b)
                        /\ Doing(b) <=> Doing(b)'
                        /\ Queued(b)' <=> Queued(b)
  <2>1. \A b : Queued(b)' <=> Queued(b)
    BY <1>1 DEF Queued
  <2>2. ~Holds(a)'
    BY <1>2, <1>3, <1>4 DEF Holds, Doing, Waits, a
  <2>3. ~Doing(a) /\ ~Doing(a)'
    BY <1>1, <1>3, IdleIs DEF Doing, Resting
  <2>4. ASSUME NEW b \in Movers, b # a
        PROVE  (Holds(b)' => Holds(b)) /\ (Doing(b) <=> Doing(b)')
    <3>1. act'[b] = act[b]
      BY <1>2, <1>3, <2>4
    <3>2. Doing(b)' <=> Doing(b)
      BY <2>1, <3>1 DEF Doing, Resting
    <3>3. Waits(b)' => Waits(b)
      BY <1>4, <3>1 DEF Waits
    <3>. QED BY <3>2, <3>3 DEF Holds
  <2>. QED BY <2>1, <2>2, <2>3, <2>4
<1>6. Sole'
  BY <1>5 DEF BudgetInv, Sole
<1>7. StopHarmless'
  BY <1>2, <1>3 DEF BudgetInv, StopHarmless
<1>8. Ended'
  BY <1>2, <1>3, <1>4 DEF BudgetInv, Ended, a
<1>9. OneSave'
  BY <1>1, <1>2, <1>3 DEF BudgetInv, OneSave, Queued
<1>10. Progressing'
  <2>. SUFFICES ASSUME NEW b \in Movers, Doing(b)'
                PROVE  Fit(act'[b], repairs') /\ (Queued(b)' \/ Synced(act'[b], file'))
    BY DEF Progressing
  <2>1. b # a /\ Doing(b)
    BY <1>1, <1>3, <1>5 DEF Doing
  <2>. QED BY <1>1, <1>2, <1>3, <1>5, <2>1 DEF BudgetInv, Progressing
<1>11. Attended'
  <2>. SUFFICES ASSUME NEW v \in Workers, Running(v)'
                PROVE  file'.status = "running" /\ Works(act'[Owner(v)])
    BY DEF Attended
  <2>1. v # w /\ Running(v)
    BY <1>4 DEF Running
  <2>2. act'[Owner(v)] = act[Owner(v)]
    BY <1>2, <1>3, <2>1
  <2>. QED BY <1>1, <2>1, <2>2 DEF BudgetInv, Attended
<1>12. Counted'
  BY <1>1, <1>4 DEF BudgetInv, Counted
<1>. QED BY <1>6, <1>7, <1>8, <1>9, <1>10, <1>11, <1>12 DEF BudgetInv

LEMMA WorkerBudgets ==
  ASSUME Uninterrupted, TypeOK, BudgetInv, NEW w \in Workers, WorkerStep(w)
  PROVE  BudgetInv'
<1>. DEFINE Same == file' = file /\ worker' = worker /\ repairs' = repairs
            a == Owner(w)
            c == act[a].copy
<1>0. a \in Movers
  BY SoleActors
<1>1. CASE LineSaved(w)
  <2>1. At(a, "line") /\ SaveAndEvent(a, c, "idle") /\ Same
    BY <1>1 DEF LineSaved, Chain, processVars, historyVars
  <2>2. act[a].at = "line" /\ ~Queued(a) /\ Doing(a)
    BY <2>1, AtDoes
  <2>3. /\ a \in Actors /\ c \in Sessions /\ Fit(act[a], repairs)
        /\ \A v \in Workers : a = Owner(v) => v = w
    BY <1>0, <2>2, DoingHolds, SoleActors
  <2>4. Budgeted(c, repairs) /\ c.status # "none"
    BY <2>2, <2>3 DEF Fit
  <2>5. TRUE \in BOOLEAN /\ "idle" \in Points /\ "idle" \in Soft
    BY SoftAre DEF Points
  <2>6. Move(a, Call("idle", c, TRUE), TRUE)
    BY <2>1, <2>3, <2>5, Moves
  <2>7. Running(w) => c.status = "running"
    BY <2>2, IdleIs DEF BudgetInv, Attended, Works
  <2>8. Call("idle", c, TRUE).at = "idle" /\ Call("idle", c, TRUE).copy = c
    BY <2>3, <2>5, CallIs, ZenonT(40)
  <2>9. \A v \in Workers : a = Owner(v) /\ Running(v) => Works(Call("idle", c, TRUE))
    BY <2>3, <2>7, <2>8 DEF Works
  <2>. HIDE DEF a
  <2>. QED BY <1>0, <2>1, <2>2, <2>3, <2>4, <2>5, <2>6, <2>9, SoftCall
<1>2. CASE Finish(w)
  <2>1. /\ worker[w] \in {"ok", "failed"} /\ act[a] = Idle /\ Same
        /\ \E p \in {"settle", worker[w]} : Await(a, file, p)
    BY <1>2 DEF Finish, Chain, processVars, historyVars
  <2>2. {"settle", worker[w]} \subseteq Soft /\ ~Running(w) /\ worker[w] # "free"
    BY <2>1, SoftAre DEF Running
  <2>. QED BY <2>1, <2>2, OwnerBegins
<1>3. CASE FinishFailed(w)
  <2>1. PICK q \in {"ok", "failed"} :
          At(a, q) /\ SaveAndEvent(a, With(c, "failed"), "settle") /\ Same
    BY <1>3 DEF FinishFailed, Chain, processVars, historyVars
  <2>2. c \in Sessions /\ "failed" \in Statuses
    BY <1>0, <2>1, BusyIs DEF Statuses
  <2>3. With(c, "failed") \in Sessions /\ With(c, "failed").fix = c.fix
        /\ With(c, "failed").status # "none"
    BY <2>2, WithIs, FixIs
  <2>. QED BY <1>0, <2>1, <2>3, SoftAre, BusyCall
<1>4. CASE FinishCaptured(w)
  <2>. DEFINE s == Captured(c, tree)
  <2>1. /\ At(a, "ok") /\ tree # Gone /\ Same
        /\ \E st \in {"testing", "awaiting-review"} : Await(a, With(s, st), "store")
    BY <1>4 DEF FinishCaptured, Chain, processVars, historyVars
  <2>2. PICK st \in {"testing", "awaiting-review"} : Await(a, With(s, st), "store")
    BY <2>1
  <2>3. tree \in Contents
    BY <2>1, SessionAssumption DEF TypeOK, Gone, Contents
  <2>4. c \in Sessions /\ st \in Statuses /\ st # "none"
    BY <1>0, <2>1, BusyIs DEF Statuses
  <2>5. s \in Sessions /\ s.fix = c.fix
    BY <2>3, <2>4, CapturedIs, FixIs
  <2>. HIDE DEF s
  <2>6. With(s, st) \in Sessions /\ With(s, st).fix = c.fix /\ With(s, st).status # "none"
    BY <2>4, <2>5, WithIs, FixIs
  <2>. QED BY <1>0, <2>1, <2>2, <2>6, SoftAre, BusyCall
<1>5. CASE FinishHalfCaptured(w)
  <2>. DEFINE s == HalfCaptured(c, tree)
  <2>1. At(a, "ok") /\ tree # Gone /\ Same /\ Await(a, With(s, "failed"), "store")
    BY <1>5 DEF FinishHalfCaptured, HalfCaptured, Chain, processVars, historyVars
  <2>2. tree \in Contents
    BY <2>1, SessionAssumption DEF TypeOK, Gone, Contents
  <2>3. c \in Sessions /\ "failed" \in Statuses
    BY <1>0, <2>1, BusyIs DEF Statuses
  <2>4. s \in Sessions /\ s.fix = c.fix
    BY <2>2, <2>3, HalfCapturedIs, FixIs
  <2>. HIDE DEF s
  <2>5. With(s, "failed") \in Sessions /\ With(s, "failed").fix = c.fix
        /\ With(s, "failed").status # "none"
    BY <2>3, <2>4, WithIs, FixIs
  <2>. QED BY <1>0, <2>1, <2>5, SoftAre, BusyCall
<1>. QED BY <1>1, <1>2, <1>3, <1>4, <1>5, SettleBudgets DEF WorkerStep

LEMMA WriteBudgets ==
  ASSUME TypeOK, BudgetInv, Write
  PROVE  BudgetInv'
<1>1. queue # <<>> /\ Len(queue) = 1 /\ Head(queue) = queue[1] /\ Len(Tail(queue)) = 0
  BY QueueIs DEF Write, BudgetInv, OneSave
<1>2. PICK a \in Movers : a = queue[1][1]
  BY <1>1 DEF BudgetInv, OneSave
<1>3. /\ queue[1][2] = act[a].copy /\ act[a] # Idle
      /\ act[a].at \notin {"create", "initialize"}
  BY <1>1, <1>2 DEF BudgetInv, OneSave
<1>4. /\ file' = act[a].copy /\ worker' = worker /\ repairs' = repairs /\ queue' = Tail(queue)
      /\ act' = [act EXCEPT ![a] = IF @.at = "idle" /\ ~@.event THEN Idle ELSE @]
  BY <1>1, <1>2, <1>3 DEF Write, processVars, historyVars
<1>5. a \in Actors /\ a # Stop /\ Stop \in Actors /\ Movers \subseteq Actors
        /\ \A w \in Workers : Owner(w) \in Actors
  BY ActorsAre DEF Movers
<1>6. /\ act'[a] = Idle \/ act'[a] = act[a]
      /\ \A b \in Actors : b # a => act'[b] = act[b]
  BY <1>4, <1>5 DEF TypeOK
<1>7. Queued(a)
  BY <1>1, <1>2 DEF Queued
<1>8. /\ \A b : ~Queued(b)'
      /\ Len(queue') <= 1 /\ ~\E i \in 1..Len(queue') : TRUE
  <2>1. Len(queue') = 0
    BY <1>1, <1>4
  <2>2. ~\E i \in 1..Len(queue') : TRUE
    BY <2>1
  <2>. QED BY <2>1, <2>2 DEF Queued
<1>9. Doing(a)
  BY <1>3, <1>7 DEF Doing, Resting
<1>10. \A b \in Movers : Holds(b) => b = a
  BY <1>9, DoingHolds
<1>11. Fit(act[a], repairs)
  BY <1>9, DoingHolds
<1>12. \A b \in Movers : b # a => ~Queued(b)
  BY QueuedHolds, <1>10, <1>5
<1>13. \A b \in Movers : b # a => ~Holds(b)'
  <2>. SUFFICES ASSUME NEW b \in Movers, b # a PROVE ~Holds(b)'
    OBVIOUS
  <2>1. ~Holds(b) /\ act'[b] = act[b] /\ ~Queued(b) /\ ~Queued(b)'
    BY <1>5, <1>6, <1>8, <1>10, <1>12
  <2>2. ~Doing(b)'
    BY <2>1 DEF Holds, Doing, Resting
  <2>3. ~Waits(b)'
    BY <1>4, <2>1 DEF Holds, Waits
  <2>. QED BY <2>2, <2>3 DEF Holds
<1>14. Sole'
  BY <1>13, Zenon DEF Sole
<1>15. StopHarmless'
  BY <1>5, <1>6 DEF BudgetInv, StopHarmless
<1>16. Ended'
  BY <1>4, <1>5, <1>6 DEF BudgetInv, Ended
<1>17. OneSave'
  BY <1>8 DEF OneSave
<1>18. Progressing'
  <2>. SUFFICES ASSUME NEW b \in Movers, Doing(b)'
                PROVE  Fit(act'[b], repairs') /\ Synced(act'[b], file')
    BY DEF Progressing
  <2>1. b = a /\ act'[a] = act[a]
    BY <1>6, <1>13 DEF Holds, Doing
  <2>. QED BY <1>4, <1>11, <2>1 DEF Synced
<1>19. Attended'
  <2>. SUFFICES ASSUME NEW w \in Workers, Running(w)'
                PROVE  file'.status = "running" /\ Works(act'[Owner(w)])
    BY DEF Attended
  <2>1. Running(w) /\ worker[w] # "free"
    BY <1>4 DEF Running
  <2>2. Works(act[Owner(w)])
    BY <2>1 DEF BudgetInv, Attended
  <2>3. Owner(w) \in Movers
    <3>1. Owner(w) # Stop
      BY DEF Owner, Stop
    <3>. QED BY <1>5, <3>1 DEF Movers
  <2>4. Holds(Owner(w))
    BY <2>1, <2>2, <2>3 DEF Holds, Waits, Works, Doing, Resting
  <2>5. Owner(w) = a
    BY <1>10, <2>3, <2>4
  <2>6. act[a].copy.status = "running"
    BY <1>3, <2>2, <2>5 DEF Works
  <2>. QED BY <1>4, <1>6, <2>2, <2>5, <2>6 DEF Works
<1>20. Counted'
  BY <1>3, <1>4, <1>11 DEF Fit, Counted
<1>. QED BY <1>14, <1>15, <1>16, <1>17, <1>18, <1>19, <1>20 DEF BudgetInv

LEMMA InitializeBudgets ==
  ASSUME Uninterrupted, TypeOK, BudgetInv, Initialize
  PROVE  BudgetInv'
<1>1. /\ At(Boot, "initialize")
      /\ \/ \E st \in {"awaiting-review", "paused"}, p \in {"verify", "idle"} :
              SaveAndEvent(Boot, With(file, st), p)
         \/ Leave(Boot)
      /\ file' = file /\ worker' = worker /\ repairs' = repairs
  BY DEF Initialize, Untested, Uninterrupted, processVars, historyVars
<1>2. Boot \in Movers /\ Boot \in Actors /\ \A w \in Workers : Owner(w) # Boot
  BY SoleActors
<1>3. CASE \E st \in {"awaiting-review", "paused"}, p \in {"verify", "idle"} :
              SaveAndEvent(Boot, With(file, st), p)
  <2>1. PICK st \in {"awaiting-review", "paused"}, p \in {"verify", "idle"} :
              SaveAndEvent(Boot, With(file, st), p)
    BY <1>3
  <2>2. p \in Soft /\ p \in Points /\ TRUE \in BOOLEAN /\ st \in Statuses /\ st # "none"
    BY <2>1, SoftAre DEF Points, Statuses
  <2>3. file \in Sessions
    BY DEF TypeOK
  <2>4. PICK s \in Sessions : /\ s = With(file, st) /\ s.fix = file.fix /\ s.status # "none"
    BY <2>2, <2>3, WithIs, FixIs
  <2>5. Move(Boot, Call(p, s, TRUE), TRUE)
    BY <1>2, <2>1, <2>2, <2>4, Moves
  <2>6. Budgeted(s, repairs)
    BY <2>4 DEF BudgetInv, Counted, Budgeted
  <2>7. ~Queued(Boot) /\ Doing(Boot)
    BY <1>1, AtDoes
  <2>. QED BY <1>1, <1>2, <2>2, <2>4, <2>5, <2>6, <2>7, SoftCall
<1>4. CASE Leave(Boot)
  BY <1>1, <1>2, <1>4, MoverLeaves
<1>. QED BY <1>1, <1>3, <1>4

LEMMA RestartBudgets ==
  ASSUME Uninterrupted, TypeOK, BudgetInv, Restart
  PROVE  BudgetInv'
<1>1. /\ file.status # "none" /\ file' = file /\ repairs' = repairs /\ queue' = <<>>
      /\ act' = [a \in Actors |-> IF a = Boot THEN [Idle EXCEPT !.at = "initialize"]
                                  ELSE Idle]
      /\ worker' = [w \in Workers |-> "free"]
  BY DEF Restart, historyVars
<1>2. /\ Stop \in Actors /\ Stop # Boot /\ Movers \subseteq Actors /\ Boot \in Actors
      /\ \A w \in Workers : Owner(w) \in Actors /\ Owner(w) # Boot
  BY SoleActors, ActorsAre DEF Movers
<1>3. \A a \in Actors : a # Boot => act'[a] = Idle
  BY <1>1
<1>4. act'[Boot].at = "initialize" /\ ~act'[Boot].event
  BY <1>1, <1>2 DEF Idle
<1>5. \A w \in Workers : worker'[w] = "free"
  BY <1>1
<1>6. \A b \in Movers : Holds(b)' => b = Boot
  BY <1>2, <1>3, <1>5 DEF Holds, Doing, Waits
<1>7. Sole' /\ StopHarmless' /\ Ended'
  BY <1>2, <1>3, <1>6 DEF Sole, StopHarmless, Ended
<1>8. OneSave'
  BY <1>1 DEF OneSave
<1>9. Fit(act'[Boot], repairs') /\ Synced(act'[Boot], file')
  BY <1>4 DEF Fit, Synced, Barred
<1>10. Progressing'
  BY <1>6, <1>9 DEF Progressing, Holds
<1>11. Attended'
  BY <1>5 DEF Attended, Running
<1>12. Counted'
  BY <1>1 DEF BudgetInv, Counted
<1>. QED BY <1>7, <1>8, <1>10, <1>11, <1>12 DEF BudgetInv

LEMMA StartsBudgeted == Uninterrupted /\ Init => BudgetInv
<1>. SUFFICES ASSUME Uninterrupted, Init PROVE BudgetInv
  OBVIOUS
<1>1. /\ \A a \in Actors : act[a] = Idle
      /\ \A w \in Workers : worker[w] = "free"
      /\ queue = <<>> /\ repairs = 0 /\ file.fix = 0
  BY DEF Init, Session
<1>2. Stop \in Actors /\ Movers \subseteq Actors /\ \A w \in Workers : Owner(w) \in Actors
  BY ActorsAre DEF Movers
<1>3. \A b \in Movers : ~Holds(b)
  BY <1>1, <1>2 DEF Holds, Doing, Waits
<1>4. Sole /\ StopHarmless /\ Ended
  BY <1>1, <1>2, <1>3 DEF Sole, StopHarmless, Ended
<1>5. OneSave
  BY <1>1 DEF OneSave
<1>6. Progressing
  BY <1>3 DEF Progressing, Holds
<1>7. Attended
  BY <1>1 DEF Attended, Running
<1>8. Counted
  BY <1>1, SessionAssumption DEF Counted, Budgeted
<1>. QED BY <1>4, <1>5, <1>6, <1>7, <1>8 DEF BudgetInv

LEMMA RequestBudgets ==
  ASSUME Uninterrupted, TypeOK, BudgetInv,
         NEW a \in Requests, NEW op \in Operations \ {"line"}, Request(a, op)
  PROVE  BudgetInv'
<1>1. /\ act[a] = Idle /\ (op \in Stops <=> a = Stop)
      /\ Calm \/ op \in Stops
      /\ Accepts(op, file) /\ Await(a, file, op)
      /\ file' = file /\ worker' = worker /\ repairs' = repairs
  BY DEF Request, Uninterrupted, processVars, historyVars
<1>2. a \in {Review, Stop} /\ a \in Actors /\ \A b \in Movers : b \in Actors /\ b # Stop
  BY SoleActors DEF Movers
<1>3. op \in Points /\ op \in Names /\ op # "line" /\ op \notin {"cancel", "pause", "dispose"}
  BY SessionAssumption DEF Points, Names, Uninterrupted
<1>4. /\ file \in Sessions /\ FALSE \in BOOLEAN
      /\ Call(op, file, FALSE) \in Calls
      /\ Call(op, file, FALSE).at = op /\ Call(op, file, FALSE).copy = file
      /\ Call(op, file, FALSE).event = FALSE
  BY <1>3, CallIs, ZenonT(40) DEF TypeOK
<1>5. ~Queued(a)
  BY <1>1 DEF Queued, BudgetInv, OneSave
<1>6. Move(a, Call(op, file, FALSE), FALSE)
  BY <1>1, <1>2, <1>3, <1>4, Moves
<1>7. PICK e \in Calls : /\ Move(a, e, FALSE) /\ e.at = op /\ e.copy = file
                         /\ e.event = FALSE
  BY <1>4, <1>6
<1>8. CASE a = Stop
  <2>1. op = "cancelTests"
    BY <1>1, <1>3, <1>8 DEF Stops
  <2>2. /\ act'[Stop] = e /\ queue' = queue
        /\ \A b \in Movers : act'[b] = act[b]
    BY <1>1, <1>2, <1>4, <1>5, <1>7, <1>8, MoveIs DEF Await
  <2>3. \A w \in Workers : /\ worker'[w] = "free" <=> worker[w] = "free"
                           /\ Running(w)' => Running(w)
    BY <1>1 DEF Running
  <2>. QED BY <1>1, <1>7, <2>1, <2>2, <2>3, OthersBudget
<1>9. CASE a = Review
  <2>1. op \notin Stops /\ Calm /\ Review # Stop /\ Review \in Movers
        /\ \A w \in Workers : Review # Owner(w) /\ Owner(w) \in Actors
    BY <1>1, <1>9, SoleActors, ActorsAre
  <2>2. \A w \in Workers : worker[w] = "free"
    <3>. SUFFICES ASSUME NEW w \in Workers, worker[w] # "free" PROVE FALSE
      OBVIOUS
    <3>1. file.status = "running"
      BY <2>1 DEF Calm, Running, BudgetInv, Attended
    <3>2. ~Accepts(op, file)
      BY <1>3, <2>1, <3>1 DEF Accepts, Stops, Names, CanContinue, Reviewable, CanRestore,
                              CanApply, CanReject
    <3>. QED BY <1>1, <3>2
  <2>3. \A b \in Movers : ~Holds(b)
    BY <1>2, <2>1, <2>2 DEF Calm, Holds, Doing, Waits
  <2>4. op \notin Barred /\ op \notin {"again", "repair", "spawn", "spawnRepair", "initialize"}
    BY <1>3, <2>1 DEF Barred, Stops, Names
  <2>5. op # "create" => file.status # "none"
    BY <1>1, <1>3, <2>1 DEF Accepts, Stops, Names, CanContinue, Reviewable, CanRestore,
                            CanApply, CanReject
  <2>6. op = "create" => repairs = 0
    BY <1>1 DEF Accepts, BudgetInv, Counted
  <2>7. Fit(e, repairs') /\ Synced(e, file)
    BY <1>1, <1>7, <2>4, <2>5, <2>6 DEF Fit, Synced, BudgetInv, Counted
  <2>. QED BY <1>1, <1>4, <1>5, <1>7, <1>9, <2>1, <2>3, <2>7, HolderKeeps
<1>. QED BY <1>2, <1>8, <1>9

LEMMA BudgetInduction ==
  ASSUME Uninterrupted, TypeOK, BudgetInv, [Next]_vars
  PROVE  BudgetInv'
<1>1. CASE ManagerStep
  <2>1. ASSUME NEW a \in Requests, RequestStep(a) PROVE BudgetInv'
    <3>1. a \in {Review, Stop} /\ Review \in Movers
      BY SoleActors
    <3>. QED BY <2>1, <3>1, ReviewBudgets, StopBudgets
  <2>. QED BY <1>1, <2>1, WriteBudgets, InitializeBudgets, SharedBudgets, WorkerBudgets
           DEF ManagerStep
<1>2. CASE \E a \in Requests, op \in Operations \ {"line"} : Request(a, op)
  BY <1>2, RequestBudgets
<1>3. CASE \E w \in Workers : Line(w)
  <2>1. PICK w \in Workers : Line(w)
    BY <1>3
  <2>2. /\ Running(w) /\ act[Owner(w)] = Idle /\ Await(Owner(w), file, "line")
        /\ file' = file /\ worker' = worker /\ repairs' = repairs
    BY <2>1 DEF Line, Chain, processVars, historyVars
  <2>3. worker[w] # "free" /\ "line" \in Soft
    BY <2>2, SoftAre DEF Running
  <2>. QED BY <2>2, <2>3, OwnerBegins
<1>4. CASE \E w \in Workers : \E end \in {"ok", "failed"} : Exit(w, end)
  <2>1. PICK w \in Workers, end \in {"ok", "failed"} : Exit(w, end)
    BY <1>4
  <2>2. /\ Running(w) /\ worker' = [worker EXCEPT ![w] = end]
        /\ file' = file /\ queue' = queue /\ act' = act /\ repairs' = repairs
    BY <2>1 DEF Exit, storeVars, historyVars
  <2>3. \A v \in Workers : /\ worker'[v] = "free" <=> worker[v] = "free"
                           /\ Running(v)' => Running(v)
    BY <2>1, <2>2 DEF Running, TypeOK
  <2>. QED BY <2>2, <2>3, OthersBudget
<1>5. CASE (\E w \in Workers : \E c \in Contents : Edit(w, c)) \/ UNCHANGED vars
  <2>1. /\ file' = file /\ queue' = queue /\ act' = act /\ repairs' = repairs
        /\ worker' = worker
    BY <1>5 DEF Edit, vars, storeVars, processVars, historyVars
  <2>2. \A v \in Workers : /\ worker'[v] = "free" <=> worker[v] = "free"
                           /\ Running(v)' => Running(v)
    BY <2>1 DEF Running
  <2>. QED BY <2>1, <2>2, OthersBudget
<1>. QED BY <1>1, <1>2, <1>3, <1>4, <1>5, RestartBudgets DEF Next

(* The repairs started since the last message stay within the budget, when *)
(* requests come one at a time and nothing is cancelled, paused or resumed *)
(* in the background: every repair is counted in the file before its       *)
(* worker starts, and no older copy of the file is saved over it.          *)
THEOREM RepairsWithinBudget == Uninterrupted => (Spec => []RepairBudget)
<1>. SUFFICES ASSUME Uninterrupted PROVE Spec => []RepairBudget
  OBVIOUS
<1>1. Init => BudgetInv
  BY StartsBudgeted
<1>2. TypeOK /\ BudgetInv /\ [Next]_vars => BudgetInv'
  BY BudgetInduction
<1>3. TypeOK /\ BudgetInv => RepairBudget
  <2>. SUFFICES ASSUME TypeOK, BudgetInv PROVE RepairBudget
    OBVIOUS
  <2>1. file.fix \in Nat /\ repairs \in Nat /\ MaxFix \in Nat
    BY FixIs, SessionAssumption DEF TypeOK
  <2>2. Budgeted(file, repairs)
    BY DEF BudgetInv, Counted
  <2>. QED BY <2>1, <2>2 DEF Budgeted, RepairBudget
<1>. QED BY <1>1, <1>2, <1>3, SessionTypeCorrect, PTL DEF Spec
=============================================================================
