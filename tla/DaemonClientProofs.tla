--------------------------- MODULE DaemonClientProofs ---------------------------
(***************************************************************************)
(* A theorem of DaemonClient: one daemon lives, and the client knows it.   *)
(***************************************************************************)
EXTENDS DaemonClient, FiniteSetTheorems, TLAPS

Places == {"none", "keychain", "booting", "serving", "closing", "ended", "gone"}
Daemons ==
  [at : Places, settled : BOOLEAN, killed : BOOLEAN, workspace : Workspaces]

ClientType ==
  /\ active \in Ids \cup {None} /\ starting \in Ids \cup {None}
  /\ spawned \in 0..MaxSpawns
  /\ daemon \in [Ids -> Daemons]

(* What start() has not come to is as it was made.                         *)
Fresh(d) ==
  d > spawned => daemon[d].at = "none" /\ ~daemon[d].settled /\ ~daemon[d].killed

(* Whose start is not settled is the one that is starting; who lives on    *)
(* after it is the active one.                                             *)
Known(d) ==
  /\ daemon[d].at # "none" /\ ~daemon[d].settled => starting = d
  /\ Running(d) /\ daemon[d].settled /\ ~daemon[d].killed => active = d
  /\ daemon[d].at \in {"serving", "closing"} => daemon[d].settled
  /\ daemon[d].at = "keychain" => ~daemon[d].settled
  /\ daemon[d].at = "booting" /\ daemon[d].settled => daemon[d].killed

(* A daemon is starting only when none is active, and neither is killed.   *)
Exclusive ==
  /\ active # None => ~daemon[active].killed /\ daemon[active].settled
  /\ starting # None =>
       /\ active = None
       /\ ~daemon[starting].killed /\ ~daemon[starting].settled

ClientInv ==
  /\ ClientType /\ Exclusive
  /\ \A d \in Ids : Fresh(d) /\ Known(d)

(* The members of Ids are numbers above None.                              *)
LEMMA IdsAreNumbers == MaxSpawns \in Nat /\ Ids \subseteq Nat /\ None \notin Ids
BY ClientAssumption DEF Ids, None

LEMMA NotSpawnedType ==
  /\ NotSpawned \in Daemons
  /\ NotSpawned.at = "none" /\ ~NotSpawned.settled /\ ~NotSpawned.killed
<1>1. (CHOOSE w \in Workspaces : TRUE) \in Workspaces
  BY ClientAssumption
<1> QED BY <1>1 DEF NotSpawned, Daemons, Places

LEMMA InitClient == Init => ClientInv
<1> SUFFICES ASSUME Init PROVE ClientInv
  OBVIOUS
<1>3. ClientType
  BY NotSpawnedType, IdsAreNumbers DEF Init, ClientType
<1>4. Exclusive /\ \A d \in Ids : Fresh(d) /\ Known(d)
  BY NotSpawnedType DEF Init, Exclusive, Fresh, Known, Running
<1> QED BY <1>3, <1>4 DEF ClientInv

(* stop() leaves no daemon that lives and has settled.                     *)
LEMMA StoppedKnown ==
  ASSUME ClientInv
  PROVE  /\ Stopped \in [Ids -> Daemons]
         /\ \A d \in Ids :
              /\ Stopped[d].at = daemon[d].at
              /\ Stopped[d].settled = daemon[d].settled
              /\ Stopped[d].killed = (daemon[d].killed \/ d = active)
<1> USE IdsAreNumbers DEF ClientInv, ClientType
<1>1. CASE active = None
  BY <1>1 DEF Stopped, Daemons
<1>2. CASE active # None
  <2>1. Stopped = [daemon EXCEPT ![active].killed = TRUE] /\ active \in Ids
    BY <1>2 DEF Stopped
  <2>2. daemon[active] \in Daemons
    BY <2>1
  <2>3. [daemon[active] EXCEPT !.killed = TRUE] \in Daemons
    BY <2>2 DEF Daemons
  <2> QED BY <2>1, <2>2, <2>3 DEF Daemons
<1> QED BY <1>1, <1>2

(* A new daemon, when none is starting and the active one is stopped.      *)
LEMMA SpawnStep ==
  ASSUME ClientInv, starting = None, active' = None, NEW w \in Workspaces, Spawn(Stopped, w)
  PROVE  ClientInv'
<1> DEFINE n == spawned + 1
           new == [NotSpawned EXCEPT !.at = "keychain", !.workspace = w]
<1> USE IdsAreNumbers
<1>1. spawned \in Nat /\ n \in Ids /\ n # None
  BY DEF Spawn, ClientInv, ClientType, Ids, None
<1>2. new \in Daemons /\ new.at = "keychain" /\ ~new.settled /\ ~new.killed
  BY NotSpawnedType DEF Daemons, Places
<1>4. /\ Stopped \in [Ids -> Daemons]
      /\ \A d \in Ids : /\ Stopped[d].at = daemon[d].at
                        /\ Stopped[d].settled = daemon[d].settled
                        /\ Stopped[d].killed = (daemon[d].killed \/ d = active)
  BY StoppedKnown
<1>5. daemon' = [Stopped EXCEPT ![n] = new] /\ starting' = n /\ spawned' = n
  BY DEF Spawn
<1> HIDE DEF n, new
<1>6. daemon'[n] = new /\ \A d \in Ids \ {n} : daemon'[d] = Stopped[d]
  BY <1>1, <1>4, <1>5
<1>7. ClientType'
  <2>1. spawned' \in 0..MaxSpawns
    BY <1>1, <1>5 DEF Ids
  <2>2. daemon' \in [Ids -> Daemons]
    BY <1>1, <1>2, <1>4, <1>5
  <2> QED BY <1>1, <1>5, <2>1, <2>2 DEF ClientType
<1>8. Exclusive'
  BY <1>1, <1>2, <1>5, <1>6 DEF Exclusive
<1>9. ASSUME NEW d \in Ids PROVE (Fresh(d) /\ Known(d))'
  <2>1. CASE d = n
    BY <1>1, <1>2, <1>5, <1>6, <2>1 DEF Fresh, Known, Running
  <2>2. CASE d # n
    <3>1. daemon'[d] = Stopped[d]
      BY <1>6, <2>2
    <3>2. Fresh(d) /\ Known(d)
      BY DEF ClientInv
    <3>3. daemon[d].at = "none" \/ daemon[d].settled
      BY <3>2, <1>1 DEF Known
    <3>4. d > spawned' => d > spawned /\ d # active
      <4>1. d > spawned' => d > spawned
        BY <1>1, <1>5 DEF n
      <4>2. active # None => daemon[active].settled
        BY DEF ClientInv, Exclusive
      <4> QED BY <3>2, <4>1, <4>2, <1>1 DEF Fresh
    <3> QED
      BY <3>1, <3>2, <3>3, <3>4, <1>4 DEF Fresh, Known, Running
  <2> QED BY <2>1, <2>2
<1> QED BY <1>7, <1>8, <1>9 DEF ClientInv

(* stop() with nothing spawned after it: by restart() during a start, and  *)
(* by dispose().                                                           *)
LEMMA StopStep ==
  ASSUME ClientInv, active' = None, daemon' = Stopped, UNCHANGED <<starting, spawned>>
  PROVE  ClientInv'
<1> USE IdsAreNumbers
<1>1. /\ Stopped \in [Ids -> Daemons]
      /\ \A d \in Ids : /\ Stopped[d].at = daemon[d].at
                        /\ Stopped[d].settled = daemon[d].settled
                        /\ Stopped[d].killed = (daemon[d].killed \/ d = active)
  BY StoppedKnown
<1>2. ClientType'
  BY <1>1 DEF ClientInv, ClientType
<1>3. Exclusive'
  <2>1. starting # None => starting \in Ids
    BY DEF ClientInv, ClientType
  <2> QED BY <1>1, <2>1 DEF ClientInv, Exclusive
<1>4. ASSUME NEW d \in Ids PROVE (Fresh(d) /\ Known(d))'
  <2>1. Fresh(d) /\ Known(d) /\ (active = d => daemon[d].settled)
    BY DEF ClientInv, Exclusive
  <2> QED BY <1>1, <2>1 DEF Fresh, Known, Running
<1> QED BY <1>2, <1>3, <1>4 DEF ClientInv

LEMMA CallsKeep ==
  ASSUME ClientInv, NEW c \in Callers, NEW w \in Workspaces, Start(c, w) \/ Restart(c, w)
  PROVE  ClientInv'
<1>1. CASE Start(c, w)
  <2>1. CASE UNCHANGED <<active, starting, daemon, spawned>>
    BY <2>1 DEF ClientInv, ClientType, Exclusive, Fresh, Known, Running
  <2>2. CASE ~Shares /\ active' = None /\ Spawn(Stopped, w)
    BY <2>2, SpawnStep DEF Shares
  <2> QED BY <1>1, <2>1, <2>2 DEF Start
<1>2. CASE Restart(c, w)
  <2>1. CASE Shares /\ daemon' = Stopped /\ UNCHANGED <<starting, spawned>>
    BY <1>2, <2>1, StopStep DEF Restart
  <2>2. CASE ~Shares /\ Spawn(Stopped, w)
    BY <1>2, <2>2, SpawnStep DEF Restart, Shares
  <2> QED BY <1>2, <2>1, <2>2 DEF Restart
<1> QED BY <1>1, <1>2

(* A daemon that moves on without its start being settled by it.           *)
LEMMA MoveStep ==
  ASSUME ClientInv, NEW d \in Ids, NEW at \in Places,
         daemon' = [daemon EXCEPT ![d].at = at],
         UNCHANGED <<active, starting, spawned>>,
         daemon[d].at # "none",
         at # "none" /\ at # "keychain",
         at = "booting" => daemon[d].at = "keychain",
         at \in {"serving", "closing"} => daemon[d].settled /\ daemon[d].killed
  PROVE  ClientInv'
<1> USE IdsAreNumbers
<1>1. daemon[d] \in Daemons /\ daemon \in [Ids -> Daemons]
  BY DEF ClientInv, ClientType
<1>2. daemon' \in [Ids -> Daemons]
  BY <1>1 DEF Daemons
<1>3. /\ \A e \in Ids : /\ daemon'[e].settled = daemon[e].settled
                        /\ daemon'[e].killed = daemon[e].killed
      /\ \A e \in Ids \ {d} : daemon'[e].at = daemon[e].at
      /\ daemon'[d].at = at
  BY <1>1 DEF Daemons
<1>4. ClientType'
  BY <1>2 DEF ClientInv, ClientType
<1>5. Exclusive'
  <2>1. active \in Ids \cup {None} /\ starting \in Ids \cup {None}
    BY DEF ClientInv, ClientType
  <2> QED BY <1>3, <2>1 DEF ClientInv, Exclusive
<1>6. ASSUME NEW e \in Ids PROVE (Fresh(e) /\ Known(e))'
  <2>1. Fresh(e) /\ Known(e)
    BY DEF ClientInv
  <2> QED BY <1>3, <2>1 DEF Fresh, Known, Running
<1> QED BY <1>4, <1>5, <1>6 DEF ClientInv

(* What finish() leaves: the start of d is settled, whatever its outcome.  *)
LEMMA FinishStep ==
  ASSUME ClientInv, NEW d \in Ids, NEW at \in Places, NEW ok \in BOOLEAN,
         NEW killed \in BOOLEAN, Finish(d, ok), UNCHANGED spawned,
         daemon[d].at # "none", ~daemon[d].settled,
         daemon' = [daemon EXCEPT ![d] = [@ EXCEPT !.at = at, !.settled = TRUE,
                                                   !.killed = killed]],
         at \notin {"none", "keychain"},
         ok => active' = d /\ ~killed, at = "booting" => killed,
         ~ok => active' = active /\ (killed \/ at = "gone")
  PROVE  ClientInv'
<1> USE IdsAreNumbers
<1>1. daemon[d] \in Daemons /\ daemon \in [Ids -> Daemons] /\ starting = d
  BY DEF ClientInv, ClientType, Known
<1>2. starting' = None /\ active = None
  BY <1>1 DEF ClientInv, Exclusive, Finish
<1> DEFINE settled == [daemon[d] EXCEPT !.at = at, !.settled = TRUE, !.killed = killed]
<1>3. /\ settled \in Daemons
      /\ settled.at = at /\ settled.settled /\ settled.killed = killed
  BY <1>1 DEF Daemons
<1>4. daemon' = [daemon EXCEPT ![d] = settled]
  OBVIOUS
<1> HIDE DEF settled
<1>5. /\ daemon' \in [Ids -> Daemons]
      /\ daemon'[d] = settled /\ \A e \in Ids \ {d} : daemon'[e] = daemon[e]
  BY <1>1, <1>3, <1>4
<1>6. ClientType'
  BY <1>2, <1>5 DEF ClientInv, ClientType
<1>7. Exclusive'
  BY <1>2, <1>3, <1>5 DEF Exclusive
<1>8. ASSUME NEW e \in Ids PROVE (Fresh(e) /\ Known(e))'
  <2>1. Fresh(e) /\ Known(e)
    BY DEF ClientInv
  <2>2. CASE e = d
    BY <1>3, <1>5, <2>1, <2>2 DEF Fresh, Known, Running
  <2>3. CASE e # d
    BY <1>1, <1>2, <1>5, <2>1, <2>3 DEF Fresh, Known, Running
  <2> QED BY <2>2, <2>3
<1> QED BY <1>6, <1>7, <1>8 DEF ClientInv

(* The exit of a daemon whose start was settled.                           *)
LEMMA ExitStep ==
  ASSUME ClientInv, NEW d \in Ids, ExitSeen(d), daemon[d].settled
  PROVE  ClientInv'
<1> USE IdsAreNumbers
<1>1. daemon[d] \in Daemons /\ daemon \in [Ids -> Daemons] /\ daemon[d].at = "ended"
  BY DEF ClientInv, ClientType, ExitSeen
<1>2. /\ daemon' = [daemon EXCEPT ![d].at = "gone", ![d].settled = TRUE]
      /\ active' = Forgets(d) /\ UNCHANGED <<starting, spawned>>
  BY DEF ExitSeen
<1>3. /\ daemon' \in [Ids -> Daemons]
      /\ daemon'[d].at = "gone" /\ daemon'[d].settled
      /\ daemon'[d].killed = daemon[d].killed
      /\ \A e \in Ids \ {d} : daemon'[e] = daemon[e]
  BY <1>1, <1>2 DEF Daemons, Places
<1>4. ClientType'
  BY <1>2, <1>3 DEF ClientInv, ClientType, Forgets
<1>5. Exclusive'
  <2>1. active \in Ids \cup {None} /\ starting \in Ids \cup {None}
    BY DEF ClientInv, ClientType
  <2>2. starting # d
    BY <2>1 DEF ClientInv, Exclusive
  <2> QED BY <1>2, <1>3, <2>1, <2>2 DEF ClientInv, Exclusive, Forgets
<1>6. ASSUME NEW e \in Ids PROVE (Fresh(e) /\ Known(e))'
  <2>1. Fresh(e) /\ Known(e)
    BY DEF ClientInv
  <2>2. CASE e = d
    BY <1>1, <1>2, <1>3, <2>1, <2>2 DEF Fresh, Known, Running
  <2>3. CASE e # d
    BY <1>2, <1>3, <2>1, <2>3 DEF Fresh, Known, Running, Forgets
  <2> QED BY <2>2, <2>3
<1> QED BY <1>4, <1>5, <1>6 DEF ClientInv

LEMMA DaemonKeeps ==
  ASSUME ClientInv, NEW d \in Ids,
         \/ StartStep(d) \/ Descriptor(d) \/ LateDescriptor(d) \/ CloseBegins(d)
         \/ KilledEnds(d) \/ Crashes(d)
  PROVE  ClientInv'
<1>0. daemon[d] \in Daemons /\ Known(d) /\ daemon \in [Ids -> Daemons]
  BY DEF ClientInv, ClientType
<1>1. CASE KeyRead(d)
  BY <1>0, <1>1, MoveStep DEF KeyRead, Places
<1>2. CASE Descriptor(d)
  <2>1. daemon[d].at = "booting" /\ ~daemon[d].settled /\ Finish(d, TRUE) /\ active' = d
    BY <1>2 DEF Descriptor, Open
  <2>2. daemon' = [daemon EXCEPT ![d] = [@ EXCEPT !.at = "serving", !.settled = TRUE,
                                                  !.killed = FALSE]]
    <3>1. starting = d /\ ~daemon[d].killed
      <4>1. starting = d
        BY <1>0, <2>1 DEF Known
      <4> QED BY <4>1, IdsAreNumbers DEF ClientInv, Exclusive
    <3> QED BY <1>0, <1>2, <3>1 DEF Descriptor, Daemons
  <2> QED BY <1>2, <2>1, <2>2, FinishStep DEF Descriptor, Places
<1>3. CASE StartFails(d)
  <2>1. daemon[d].at = "booting" /\ ~daemon[d].settled /\ Finish(d, FALSE) /\ active' = active
    BY <1>3 DEF StartFails, Open
  <2>2. daemon' = [daemon EXCEPT ![d] = [@ EXCEPT !.at = "booting", !.settled = TRUE,
                                                  !.killed = TRUE]]
    BY <1>0, <1>3, <2>1 DEF StartFails, Daemons
  <2> QED BY <1>3, <2>1, <2>2, FinishStep DEF StartFails, Places
<1>4. CASE ExitSeen(d)
  <2>1. CASE daemon[d].settled
    BY <1>4, <2>1, ExitStep
  <2>2. CASE ~daemon[d].settled
    <3>1. daemon[d].at = "ended" /\ Finish(d, FALSE) /\ active' = active
      BY <1>4, <2>2 DEF ExitSeen
    <3>2. daemon' = [daemon EXCEPT ![d] = [@ EXCEPT !.at = "gone", !.settled = TRUE,
                                                    !.killed = daemon[d].killed]]
      BY <1>0, <1>4 DEF ExitSeen, Daemons
    <3>3. daemon[d].killed \in BOOLEAN
      BY <1>0 DEF Daemons
    <3> QED BY <1>4, <2>2, <3>1, <3>2, <3>3, FinishStep DEF ExitSeen, Places
  <2> QED BY <2>1, <2>2
<1>5. CASE LateDescriptor(d)
  <2>1. daemon[d].at = "booting" /\ daemon[d].settled /\ daemon[d].killed
    BY <1>0, <1>5 DEF LateDescriptor, Open, Known
  <2> QED BY <1>5, <2>1, MoveStep DEF LateDescriptor, Places
<1>6. CASE CloseBegins(d)
  <2>1. daemon[d].at = "serving" /\ daemon[d].settled /\ daemon[d].killed
    BY <1>0, <1>6 DEF CloseBegins, Known
  <2> QED BY <1>6, <2>1, MoveStep DEF CloseBegins, Places
<1>7. CASE KilledEnds(d) \/ Crashes(d)
  BY <1>7, MoveStep DEF KilledEnds, Crashes, Ends, Running, Places
<1> QED BY <1>1, <1>2, <1>3, <1>4, <1>5, <1>6, <1>7 DEF StartStep

LEMMA NextClient == ClientInv /\ [Next]_vars => ClientInv'
<1> SUFFICES ASSUME ClientInv, [Next]_vars PROVE ClientInv'
  OBVIOUS
<1>1. CASE UNCHANGED vars
  BY <1>1 DEF vars, ClientInv, ClientType, Exclusive, Fresh, Known, Running
<1>2. CASE Dispose
  BY <1>2, StopStep DEF Dispose
<1>3. ASSUME NEW c \in Callers, NEW w \in Workspaces, Start(c, w) \/ Restart(c, w)
      PROVE  ClientInv'
  BY <1>3, CallsKeep
<1>4. ASSUME NEW d \in Ids,
             \/ StartStep(d) \/ Descriptor(d) \/ LateDescriptor(d) \/ CloseBegins(d)
             \/ KilledEnds(d) \/ Crashes(d)
      PROVE  ClientInv'
  BY <1>4, DaemonKeeps
<1> QED BY <1>1, <1>2, <1>3, <1>4 DEF Next

(* Who lives is starting or active, and there is no more than one of the   *)
(* two.                                                                    *)
LEMMA ClientInvImplies == ClientInv => OneDaemon
<1> SUFFICES ASSUME ClientInv PROVE OneDaemon
  OBVIOUS
<1>1. Live \subseteq {active, starting}
  <2> SUFFICES ASSUME NEW d \in Ids, Running(d), ~daemon[d].killed
               PROVE  d \in {active, starting}
    BY DEF Live
  <2>1. Known(d)
    BY DEF ClientInv
  <2> QED BY <2>1 DEF Known, Running
<1>2. Live \subseteq Ids /\ None \notin Live
  BY IdsAreNumbers DEF Live
<1>3. \E d : Live \subseteq {d}
  <2>1. CASE starting = None
    BY <1>1, <1>2, <2>1
  <2>2. CASE starting # None
    BY <1>1, <1>2, <2>2 DEF ClientInv, Exclusive
  <2> QED BY <2>1, <2>2
<1>4. Cardinality(Live) <= 1
  <2>1. PICK d : Live \subseteq {d}
    BY <1>3
  <2>2. IsFiniteSet({d}) /\ Cardinality({d}) = 1
    BY FS_Singleton
  <2> QED BY <2>1, <2>2, FS_Subset
<1>5. active # None => ~daemon[active].killed
  BY DEF ClientInv, Exclusive
<1> QED BY <1>1, <1>4, <1>5 DEF OneDaemon

(* However starts, restarts, deadlines, crashes and exits interleave, the  *)
(* client never has two daemons that it did not stop, none it has lost     *)
(* sight of, and none that it has killed and still uses.                   *)
THEOREM ClientHasOneDaemon == Spec => []OneDaemon
<1>1. Spec => []ClientInv
  BY InitClient, NextClient, PTL DEF Spec
<1> QED BY <1>1, ClientInvImplies, PTL
=============================================================================
