-------------------------------- MODULE Missions --------------------------------
(***************************************************************************)
(* One-click missions: src/src/ide/oneClickMission.ts.  The executions of  *)
(* one mission each work on their own copy of the run and persist it after *)
(* every change; cancel() persists another copy.                           *)
(***************************************************************************)
EXTENDS DurableWrites

CONSTANT Stages   (* Number of automatic stages; the code has six.          *)

ASSUME MissionAssumption == Stages \in Nat \ {0}

Mission == <<"mission", 1>>
Executions == {c \in Calls : c[1] = "mission" /\ c[2] = "execute"}
Cancels == {c \in Calls : c[1] = "mission" /\ c[2] = "cancel"}
Recovery == <<"mission", "recover", 1>>

(* The gates stand for the stages that wait for an approval.               *)
NewRun ==
  [status |-> "running", stages |-> [i \in 1..Stages |-> "pending"], gates |-> "pending"]

Active(run) == {i \in 1..Stages : run.stages[i] = "running"}
Pending(run) == {i \in 1..Stages : run.stages[i] = "pending"}
First(S) == CHOOSE i \in S : \A j \in S : i <= j
(* stages.find(): only the first running stage is changed.                 *)
Settled(run, status) ==
  IF Active(run) = {} THEN run
  ELSE [run EXCEPT !.stages[First(Active(run))] = status]

Load(c, p) ==
  /\ Mission \in Records /\ disk[Mission] # Absent
  /\ Read(c, disk[Mission], {Mission}, p)

Persist(c, run, p) ==
  Write(c, Mission, run, [at |-> p, copy |-> run, todo |-> {Mission}])

StartMission(e) ==
  /\ Mission \in Records /\ disk[Mission] = Absent
  /\ \A d \in Executions : call[d] = Idle
  /\ Persist(e, NewRun, "stage")

BeginStage(e) ==
  LET run == call[e].copy IN
  /\ At(e, "stage") /\ Pending(run) # {}
  /\ Persist(e, [run EXCEPT !.stages[First(Pending(run))] = "running"], "operation")

EndStage(e) ==
  /\ At(e, "operation")
  /\ Persist(e, Settled(call[e].copy, "completed"), "stage")

FailStage(e) ==
  /\ At(e, "operation")
  /\ Persist(e, [Settled(call[e].copy, "failed") EXCEPT !.status = "failed"], "return")

Conclude(e, signals) ==
  LET run == call[e].copy IN
  /\ At(e, "stage") /\ Pending(run) = {}
  /\ Persist(e, [run EXCEPT !.status = IF signals THEN "awaiting-approval" ELSE "completed",
                            !.gates = IF signals THEN "awaiting-approval" ELSE "skipped"],
             "return")

ResumeMission(e) == Load(e, "resume")

Resumable(run) == run.status \in {"paused", "failed"}

Resumed(e) ==
  /\ At(e, "resume") /\ Resumable(call[e].copy)
  /\ Persist(e, [call[e].copy EXCEPT !.status = "running", !.stages = NewRun.stages], "stage")

ResumeRefused(e) == At(e, "resume") /\ ~Resumable(call[e].copy) /\ Leave(e)

CancelMission(c) == Load(c, "cancel")

Cancellable(run) == run.status \notin {"completed", "cancelled"}

Cancelled(c) ==
  /\ At(c, "cancel") /\ Cancellable(call[c].copy)
  /\ Persist(c, [call[c].copy EXCEPT !.status = "cancelled"], "return")

CancelIgnored(c) == At(c, "cancel") /\ ~Cancellable(call[c].copy) /\ Leave(c)

(* Mutant: the interrupted stage stays running.                            *)
MutantInterrupted(run) == [run EXCEPT !.status = "paused"]

(* recoverInterrupted(), awaited before the daemon serves requests.        *)
Interrupted(run) == [Settled(run, "pending") EXCEPT !.status = "paused"]

Recovered ==
  LET run == call[Recovery].copy IN
  /\ Recovery \in Calls /\ At(Recovery, "recover")
  /\ IF run # Absent /\ run.status = "running"
       THEN Persist(Recovery, Interrupted(run), "return")
       ELSE Leave(Recovery)

MissionRequest ==
  \/ \E e \in Executions : call[e] = Idle /\ (StartMission(e) \/ ResumeMission(e))
  \/ \E c \in Cancels : CancelMission(c)

MissionStep ==
  \/ \E e \in Executions :
       \/ BeginStage(e) \/ EndStage(e) \/ FailStage(e) \/ Resumed(e) \/ ResumeRefused(e)
       \/ \E signals \in BOOLEAN : Conclude(e, signals)
  \/ \E c \in Cancels : Cancelled(c) \/ CancelIgnored(c)
  \/ Recovered

(* At rest no mission says it runs; unless it was cancelled, none of its   *)
(* stages does either; and a verdict stands on completed stages only,      *)
(* whatever was cancelled, resumed twice or recovered in between.          *)
MissionRests ==
  LET run == disk[Mission] IN
  Resting /\ run # Absent =>
    /\ run.status # "running"
    /\ run.status # "cancelled" => Active(run) = {}
    /\ run.status \in {"completed", "awaiting-approval"} =>
         run.gates # "pending" /\ \A i \in 1..Stages : run.stages[i] = "completed"
=============================================================================
