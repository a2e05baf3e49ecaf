------------------------------- MODULE Registries -------------------------------
(***************************************************************************)
(* The agent fleet (src/src/ide/agentFleet.ts) and the governed memory     *)
(* (src/src/ide/governedMemory.ts): records that a call reads, and writes  *)
(* back whole.                                                             *)
(***************************************************************************)
EXTENDS DurableWrites

Nodes == {k \in Records : k[1] = "node"}
Entries == {k \in Records : k[1] = "entry"}
Of(collection, operation) == {c \in Calls : c[1] = collection /\ c[2] = operation}

Status(s) == [status |-> s]

(* A new record has an id of its own: nothing else writes it before it is. *)
Add(c, k, s) ==
  /\ call[c] = Idle /\ disk[k] = Absent
  /\ \A i \in 1..Len(chain) : chain[i][2] # k
  /\ Write(c, k, Status(s), Returning)

(* The record c works on, which it has read under p.                       *)
Fetch(c, k, p) == disk[k] # Absent /\ Read(c, disk[k], {k}, p)

Replace(c, k, s) == k \in call[c].todo /\ Write(c, k, Status(s), Returning)

-----------------------------------------------------------------------------
(***************************************************************************)
(* The fleet.  The load a heartbeat reports is left out.                   *)
(***************************************************************************)
Register(c, k) == Add(c, k, "online")

Heartbeat(c, k) == Fetch(c, k, "heartbeat")

(* Mutant: a revoked node's heartbeat is accepted.                         *)
MutantBeats(node) == TRUE

Beats(node) == node.status # "revoked"

HeartbeatRecorded(c, k, draining) ==
  /\ At(c, "heartbeat") /\ Beats(call[c].copy)
  /\ Replace(c, k, IF draining THEN "draining" ELSE "online")

HeartbeatRefused(c) == At(c, "heartbeat") /\ ~Beats(call[c].copy) /\ Leave(c)

RevokeNode(c, k) == Fetch(c, k, "revoke")

NodeRevoked(c, k) == At(c, "revoke") /\ Replace(c, k, "revoked")

-----------------------------------------------------------------------------
(***************************************************************************)
(* The memory: an audit lists every entry, then writes them one by one.    *)
(***************************************************************************)
WriteEntry(c, k) == Add(c, k, "active")

Audited == {k \in Entries : disk[k] # Absent /\ disk[k].status # "revoked"}

Audit(c) == Read(c, Absent, Audited, "audit")

(* An entry whose sources changed is stale, and may be active again later. *)
AuditEntry(c, k, stale) ==
  /\ At(c, "audit")
  /\ k \in call[c].todo /\ \A j \in call[c].todo : k[2] <= j[2]
  /\ Write(c, k, Status(IF stale THEN "stale" ELSE "active"),
           [call[c] EXCEPT !.todo = @ \ {k}])

AuditEnds(c) == At(c, "audit") /\ call[c].todo = {} /\ Leave(c)

RevokeEntry(c, k) == Fetch(c, k, "revoke")

EntryRevoked(c, k) == At(c, "revoke") /\ Replace(c, k, "revoked")

-----------------------------------------------------------------------------
FleetRequest ==
  \E k \in Nodes :
    \/ \E c \in Of("node", "register") : Register(c, k)
    \/ \E c \in Of("node", "heartbeat") : Heartbeat(c, k)
    \/ \E c \in Of("node", "revoke") : RevokeNode(c, k)

MemoryRequest ==
  \/ \E k \in Entries :
       \/ \E c \in Of("entry", "write") : WriteEntry(c, k)
       \/ \E c \in Of("entry", "revoke") : RevokeEntry(c, k)
  \/ \E c \in Of("entry", "audit") : Audit(c)

RegistryStep ==
  \/ \E k \in Nodes :
       \/ \E c \in Of("node", "heartbeat"), draining \in BOOLEAN :
            HeartbeatRecorded(c, k, draining)
       \/ \E c \in Of("node", "revoke") : NodeRevoked(c, k)
  \/ \E c \in Of("node", "heartbeat") : HeartbeatRefused(c)
  \/ \E k \in Entries :
       \/ \E c \in Of("entry", "audit"), stale \in BOOLEAN : AuditEntry(c, k, stale)
       \/ \E c \in Of("entry", "revoke") : EntryRevoked(c, k)
  \/ \E c \in Of("entry", "audit") : AuditEnds(c)
=============================================================================
