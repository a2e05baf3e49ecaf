------------------------------ MODULE DaemonClient ------------------------------
(***************************************************************************)
(* The extension's client of the daemon (daemonClient.ts): it starts the   *)
(* daemon on the first request, restarts it for new settings and stops it; *)
(* and the life of the daemon processes it spawns (daemonCli.ts).          *)
(***************************************************************************)
EXTENDS Naturals, FiniteSets

CONSTANTS
  Callers,      (* The commands and views of the extension.                 *)
  Workspaces,
  MaxSpawns     (* Bound on the daemons that are started.                   *)

ASSUME ClientAssumption == MaxSpawns \in Nat \ {0} /\ Workspaces # {}

VARIABLES
  active,       (* this.active                                              *)
  starting,     (* this.starting: the daemon it is a promise of             *)
  daemon,       (* the daemons, by the order of their spawnDaemon() calls   *)
  spawned,      (* how many of them there are                               *)
  caller,       (* whether each waits for start() or restart()              *)
  disposed      (* dispose() was called                                     *)

vars == <<active, starting, daemon, spawned, caller, disposed>>

None == 0
Ids == 1..MaxSpawns
NotSpawned == [at |-> "none", settled |-> FALSE, killed |-> FALSE,
               workspace |-> CHOOSE w \in Workspaces : TRUE]

Init ==
  /\ active = None /\ starting = None
  /\ daemon = [d \in Ids |-> NotSpawned] /\ spawned = 0
  /\ caller = [c \in Callers |-> "idle"]
  /\ disposed = FALSE

Running(d) == daemon[d].at \in {"booting", "serving", "closing"}

-----------------------------------------------------------------------------
(* stop() kills the active daemon, not one that is starting.               *)
Stopped ==
  IF active = None THEN daemon ELSE [daemon EXCEPT ![active].killed = TRUE]

(* spawnDaemon() first reads the key from the keychain.                    *)
Spawn(daemons, w) ==
  /\ spawned < MaxSpawns
  /\ spawned' = spawned + 1 /\ starting' = spawned + 1
  /\ daemon' = [daemons EXCEPT ![spawned + 1] =
                  [NotSpawned EXCEPT !.at = "keychain", !.workspace = w]]

Waits(c) == caller' = [caller EXCEPT ![c] = "waiting"]

Shares == starting # None

(* An active daemon of the workspace is returned, a start in progress is   *)
(* shared, whichever workspace it is for; otherwise a new one is spawned.  *)
Start(c, w) ==
  /\ ~disposed /\ caller[c] # "waiting"
  /\ LET found == active # None /\ daemon[active].workspace = w IN
     \/ /\ found /\ caller' = [caller EXCEPT ![c] = "served"]
        /\ UNCHANGED <<active, starting, daemon, spawned>>
     \/ /\ ~found /\ Shares /\ Waits(c)
        /\ UNCHANGED <<active, starting, daemon, spawned>>
     \/ ~found /\ ~Shares /\ Waits(c) /\ active' = None /\ Spawn(Stopped, w)
  /\ UNCHANGED disposed

(* LlmProviderSetup and LocalAiSetup restart the daemon for new settings:  *)
(* stop(), then start().                                                   *)
Restart(c, w) ==
  /\ ~disposed /\ caller[c] # "waiting"
  /\ active' = None /\ Waits(c)
  /\ \/ Shares /\ daemon' = Stopped /\ UNCHANGED <<starting, spawned>>
     \/ ~Shares /\ Spawn(Stopped, w)
  /\ UNCHANGED disposed

Dispose ==
  /\ ~disposed /\ disposed' = TRUE
  /\ active' = None /\ daemon' = Stopped
  /\ UNCHANGED <<starting, spawned, caller>>

-----------------------------------------------------------------------------
(* The answer of the keychain, after which the child is spawned.           *)
KeyRead(d) ==
  /\ daemon[d].at = "keychain"
  /\ daemon' = [daemon EXCEPT ![d].at = "booting"]
  /\ UNCHANGED <<active, starting, spawned, caller, disposed>>

(* Mutant: what comes after the deadline still counts.                     *)
MutantOpen(d) == TRUE
Open(d) == ~daemon[d].settled

(* finish(): the first outcome of a start settles it for all who wait.     *)
Finish(d, ok) ==
  /\ starting' = IF starting = d THEN None ELSE starting
  /\ caller' = [c \in Callers |->
                  IF starting # d \/ caller[c] # "waiting" THEN caller[c]
                  ELSE IF ok THEN "served" ELSE "rejected"]

(* The child prints its descriptor.                                        *)
Descriptor(d) ==
  /\ daemon[d].at = "booting" /\ Open(d)
  /\ daemon' = [daemon EXCEPT ![d].at = "serving", ![d].settled = TRUE]
  /\ active' = d
  /\ Finish(d, TRUE)
  /\ UNCHANGED <<spawned, disposed>>

(* Mutant: without the deadline.                                           *)
MutantStartFails(d) == FALSE

(* Its first line is no descriptor, or START_TIMEOUT_MS has passed.        *)
StartFails(d) ==
  /\ daemon[d].at = "booting" /\ Open(d)
  /\ daemon' = [daemon EXCEPT ![d].settled = TRUE, ![d].killed = TRUE]
  /\ Finish(d, FALSE)
  /\ UNCHANGED <<active, spawned, disposed>>

(* A child that was killed while it boots may print its line all the same; *)
(* its reader is closed by then.                                           *)
LateDescriptor(d) ==
  /\ daemon[d].at = "booting" /\ ~Open(d)
  /\ daemon' = [daemon EXCEPT ![d].at = "serving"]
  /\ UNCHANGED <<active, starting, spawned, caller, disposed>>

(* SIGTERM: close() disposes the services before the process exits.        *)
CloseBegins(d) ==
  /\ daemon[d].at = "serving" /\ daemon[d].killed
  /\ daemon' = [daemon EXCEPT ![d].at = "closing"]
  /\ UNCHANGED <<active, starting, spawned, caller, disposed>>

Ends(d) ==
  /\ daemon' = [daemon EXCEPT ![d].at = "ended"]
  /\ UNCHANGED <<active, starting, spawned, caller, disposed>>
KilledEnds(d) == Running(d) /\ daemon[d].killed /\ Ends(d)
Crashes(d) == Running(d) /\ ~daemon[d].killed /\ Ends(d)

Forgets(d) == IF active = d THEN None ELSE active

(* The exit event comes later than the exit.                               *)
ExitSeen(d) ==
  /\ daemon[d].at = "ended"
  /\ daemon' = [daemon EXCEPT ![d].at = "gone", ![d].settled = TRUE]
  /\ \/ daemon[d].settled /\ active' = Forgets(d) /\ UNCHANGED <<starting, caller>>
     \/ ~daemon[d].settled /\ Finish(d, FALSE) /\ UNCHANGED active
  /\ UNCHANGED <<spawned, disposed>>

StartStep(d) == KeyRead(d) \/ StartFails(d) \/ ExitSeen(d)

Next ==
  \/ \E c \in Callers, w \in Workspaces : Start(c, w) \/ Restart(c, w)
  \/ Dispose
  \/ \E d \in Ids :
       \/ StartStep(d) \/ Descriptor(d) \/ LateDescriptor(d) \/ CloseBegins(d)
       \/ KilledEnds(d) \/ Crashes(d)

(* The keychain answers, the deadline passes and exits are reported; that  *)
(* a child prints its descriptor is not assumed.                           *)
Spec == Init /\ [][Next]_vars /\ \A d \in Ids : WF_vars(StartStep(d))

-----------------------------------------------------------------------------
Live == {d \in Ids : Running(d) /\ ~daemon[d].killed}

(* start(), stop(), finish() and the exit handler: however starts,         *)
(* restarts, deadlines, crashes and late exits interleave, no more than    *)
(* one daemon lives that was not told to stop, it is the one that stop()   *)
(* or the next start reaches, and one that was killed, for being late or   *)
(* replaced, is never the active one.                                      *)
OneDaemon ==
  /\ Cardinality(Live) <= 1
  /\ Live \subseteq {active, starting}
  /\ active # None => ~daemon[active].killed

(* The deadline of spawnDaemon(): whoever waits for a start is answered.   *)
Answered == \A c \in Callers : caller[c] = "waiting" ~> caller[c] # "waiting"
=============================================================================
