----------------------------- MODULE DurableWrites -----------------------------
(***************************************************************************)
(* The daemon's durable store (src/src/ide/durableStore.ts) as its         *)
(* services see it: a record is read at once and written by a chain of     *)
(* writes, one after the other.  A service's call is an actor that reads a *)
(* copy, and queues its own version of the record after the await.         *)
(***************************************************************************)
EXTENDS Naturals, Sequences, FiniteSets

CONSTANTS
  Records,    (* The records, <<collection, number>>.                       *)
  Calls,      (* The calls, <<collection, operation, number>>.              *)
  Absent      (* The contents of a record that was never written.           *)

ASSUME StoreAssumption ==
  /\ \A k \in Records : k = <<k[1], k[2]>> /\ k[2] \in Nat
  /\ \A c \in Calls : c = <<c[1], c[2], c[3]>>

VARIABLES
  disk,       (* <collection>/<id>.json                                     *)
  chain,      (* writeChain: <<call, record, contents>>                     *)
  call,       (* the calls in progress: where they wait, the copy they work *)
              (* on and the records they have yet to write                  *)
  withdrawn   (* history: records revoked or cancelled by a call that no    *)
              (* other call of the collection overlapped                    *)

storeVars == <<disk, chain, call, withdrawn>>

Idle == [at |-> "idle", copy |-> Absent, todo |-> {}]

StoreInit ==
  /\ disk = [k \in Records |-> Absent]
  /\ chain = <<>>
  /\ call = [c \in Calls |-> Idle]
  /\ withdrawn = {}

(* c's awaits are over and it continues at p.                              *)
Writing(c) == \E i \in 1..Len(chain) : chain[i][1] = c
At(c, p) == call[c].at = p /\ ~Writing(c)
Resting == chain = <<>> /\ \A c \in Calls : call[c] = Idle

Read(c, copy, todo, p) ==
  /\ call[c] = Idle
  /\ call' = [call EXCEPT ![c] = [at |-> p, copy |-> copy, todo |-> todo]]
  /\ UNCHANGED <<disk, chain, withdrawn>>

(* writeJson(): the contents are those of the copy, which its call does    *)
(* not change before the write is done.                                    *)
Write(c, k, v, next) ==
  /\ chain' = Append(chain, <<c, k, v>>)
  /\ call' = [call EXCEPT ![c] = next]
  /\ UNCHANGED <<disk, withdrawn>>

Leave(c) ==
  /\ call' = [call EXCEPT ![c] = Idle]
  /\ UNCHANGED <<disk, chain, withdrawn>>

Returning == [at |-> "return", copy |-> Absent, todo |-> {}]
Return(c) == At(c, "return") /\ Leave(c)

Revoking(v) == v # Absent /\ v.status \in {"revoked", "cancelled"}
Alone(c) == \A b \in Calls : b[1] = c[1] /\ b # c => call[b] = Idle

WriteNext ==
  /\ chain # <<>> /\ chain' = Tail(chain)
  /\ LET w == Head(chain) IN
       /\ disk' = [disk EXCEPT ![w[2]] = w[3]]
       /\ withdrawn' = IF Revoking(w[3]) /\ Alone(w[1])
                         THEN withdrawn \cup {w[2]} ELSE withdrawn
  /\ UNCHANGED call

(* A revocation or cancellation that nothing overlapped is never undone.   *)
(* One that is overlapped may be: every call writes the whole copy it read *)
(* (agentFleet.ts:91, governedMemory.ts:159, oneClickMission.ts:170).      *)
WithdrawnStays == \A k \in withdrawn : Revoking(disk[k])
=============================================================================
