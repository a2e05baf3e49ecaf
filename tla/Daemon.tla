--------------------------------- MODULE Daemon ---------------------------------
(***************************************************************************)
(* The daemon (src/src/ide/daemon.ts) around the services that are small:  *)
(* it recovers interrupted missions before it serves, routes requests to   *)
(* the services, and stops in the middle of anything, or after close().    *)
(***************************************************************************)
EXTENDS Missions, Registries, EditPredictions

CONSTANTS
  Workloads,    (* The sets of services the clients use in one behaviour.   *)
  MaxRestarts   (* Bound on crashes and restarts after close().             *)

VARIABLES
  workload,
  restarts

vars == <<storeVars, predictionVars, workload, restarts>>

ServiceInit ==
  /\ StoreInit /\ PredictionsInit
  /\ workload \in Workloads
  /\ restarts = 0

Serving == Recovery \in Calls => call[Recovery] = Idle

(* handleRequest(): the server listens until close() has disposed.         *)
Request ==
  /\ Serving
  /\ \/ "mission" \in workload /\ MissionRequest /\ UNCHANGED predictionVars
     \/ "fleet" \in workload /\ FleetRequest /\ UNCHANGED predictionVars
     \/ "memory" \in workload /\ MemoryRequest /\ UNCHANGED predictionVars
     \/ "predictions" \in workload /\ PredictionRequest /\ UNCHANGED storeVars
  /\ UNCHANGED <<workload, restarts>>

Step ==
  /\ \/ /\ MissionStep \/ RegistryStep \/ WriteNext \/ \E c \in Calls : Return(c)
        /\ UNCHANGED predictionVars
     \/ PredictionStep /\ UNCHANGED storeVars
  /\ UNCHANGED <<workload, restarts>>

Close ==
  /\ Serving /\ "predictions" \in workload
  /\ Dispose
  /\ UNCHANGED <<storeVars, workload, restarts>>

(* The process ends anywhere, also after close(); the calls, the writes    *)
(* that wait and the caches are gone.  startIdeDaemon() reads the missions *)
(* and the scorecard: initialize() starts clean when it cannot use the     *)
(* file (unreadable, too large, of more than 100 models), which stays.     *)
Restart ==
  /\ restarts < MaxRestarts /\ restarts' = restarts + 1
  /\ chain' = <<>>
  /\ call' = [c \in Calls |->
                IF c # Recovery \/ Mission \notin Records THEN Idle
                ELSE [at |-> "recover", copy |-> disk[Mission], todo |-> {Mission}]]
  /\ cache' = [kind \in Kinds |-> <<>>]
  /\ flight' = [p \in Prompts |-> Nobody]
  /\ ask' = [a \in Clients |-> NotAsking]
  /\ fresh' = {}
  /\ score' \in {0, diskScore} /\ unread' = (score' # diskScore) /\ pending' = 0
  /\ timer' = FALSE /\ persists' = <<>>
  /\ closing' = "no" /\ awaited' = 0 /\ owed' = 0 /\ lost' = FALSE
  /\ UNCHANGED <<disk, withdrawn, diskScore, workload>>

Next == Request \/ Step \/ Close \/ Restart

Spec == ServiceInit /\ [][Next]_vars
=============================================================================
