------------------------------ MODULE SemanticIndex ------------------------------
(***************************************************************************)
(* The semantic index of the daemon, src/src/ide/semanticIndex.ts, and the *)
(* editor that reports saves and deletions to it (hawkCodingCore.ts of the *)
(* extension).  A version number stands for the contents of a file and     *)
(* also for its size and mtime; the limits on files, bytes and chunks are  *)
(* one limit on bytes.                                                     *)
(***************************************************************************)
EXTENDS Integers, Sequences, FiniteSets

CONSTANTS
  Files,        (* The source files.                                        *)
  Order,        (* collectSourceFiles(): the order it finds them in.        *)
  Blank,        (* The files that have nothing to index.                    *)
  NoFile,       (* What a search or a rebuild is about.                     *)
  Calls,        (* The requests that can be in progress at once.            *)
  MaxBytes,     (* MAX_TOTAL_BYTES                                          *)
  Embeddings,   (* embeddings.enabled                                       *)
  MaxEdits, MaxRequests, MaxFailures, MaxRestarts   (* Bounds of the model. *)

ASSUME FilesAssumption == IsFiniteSet(Files) /\ Blank \subseteq Files /\ NoFile \notin Files
ASSUME OrderAssumption ==
  {Order[i] : i \in 1..Len(Order)} = Files /\ Len(Order) = Cardinality(Files)
ASSUME BoundsAssumption ==
  /\ {MaxBytes, MaxEdits, MaxRequests, MaxFailures, MaxRestarts} \subseteq Nat
  /\ Embeddings \in BOOLEAN

VARIABLES
  workspace,    (* the version of each file, counted over its whole life    *)
  gone,         (* the files that do not exist now                          *)
  files,        (* this.files                                               *)
  chunks,       (* this.chunks: what a search ranks                         *)
  stats,        (* currentStats is set                                      *)
  loaded,       (* this.loaded                                              *)
  loading,      (* loadPersistentIndex(): its place, and what it has read   *)
  build,        (* this.building and the variables of buildNow()            *)
  disk,         (* semantic-index-v2.json                                   *)
  stored,       (* that file exists                                         *)
  call,         (* the requests in progress                                 *)
  rebuildDue,   (* the extension's rebuildTimer                             *)
  unsure,       (* history: the files whose operations met another or were  *)
                (* rejected, or which changed unreported, since the last    *)
                (* rebuild                                                  *)
  met,          (* history: those among them that met the present build     *)
  unsaved,      (* history: the files whose facts a persist may have left   *)
                (* behind: it failed, it was one of several under way, or   *)
                (* a build was                                              *)
  spent         (* what is used up of the bounds                            *)

tableVars == <<files, chunks, stats>>
loadVars == <<loaded, loading>>
diskVars == <<disk, stored>>
historyVars == <<unsure, met, unsaved>>
editorVars == <<workspace, gone, rebuildDue, spent>>
vars == <<editorVars, tableVars, loadVars, build, diskVars, call, historyVars>>

NoEntry == [stat |-> 0, content |-> 0]
Empty == [f \in Files |-> NoEntry]
Idle == [at |-> "idle", op |-> "none", f |-> NoFile, stat |-> 0, content |-> 0, image |-> Empty]
NotLoading == [at |-> "no", image |-> Empty]
NoBuild ==
  [at |-> "none", todo |-> {}, waiting |-> {}, stat |-> [f \in Files |-> 0],
   previous |-> Empty, read |-> [f \in Files |-> 0], next |-> Empty,
   changed |-> FALSE, detached |-> FALSE, table |-> Empty, image |-> Empty]

Changes == {"update", "remove"}
InFlight == {c \in Calls : call[c].at # "idle"}
Touched == {call[c].f : c \in {d \in InFlight : call[d].op \in Changes}}

(* What indexOneFile() finds in a file, and what it makes of it.           *)
Content(f) == IF f \in gone \cup Blank THEN 0 ELSE workspace[f]
(* Mutant: the stamp is taken after the text.                              *)
MutantFacts(f, stat, content) ==
  IF content = 0 THEN NoEntry ELSE [stat |-> workspace[f], content |-> content]
Facts(f, stat, content) ==
  IF content = 0 THEN NoEntry ELSE [stat |-> stat, content |-> content]

(* A file grows and shrinks with its versions: it has one byte or two.     *)
Size(v) == IF v = 0 THEN 0 ELSE 1 + ((v + 1) % 2)
Weight(content) == Cardinality({x \in Files \X {1, 2} : x[2] <= Size(content[x[1]])})
Bytes(table) == Weight([f \in Files |-> table[f].content])
Fits(f, entry) == Bytes([files EXCEPT ![f] = entry]) <= MaxBytes

Image == [f \in Files |-> Facts(f, workspace[f], Content(f))]

Init ==
  /\ workspace = [f \in Files |-> 1] /\ gone = {}
  /\ files = Empty /\ chunks = Empty /\ stats = FALSE
  /\ loaded = FALSE /\ loading = NotLoading
  /\ build = NoBuild
  /\ stored \in BOOLEAN /\ disk = IF stored THEN Image ELSE Empty
  /\ call = [c \in Calls |-> Idle]
  /\ rebuildDue = FALSE
  /\ unsure = {} /\ met = {} /\ unsaved = {}
  /\ spent = [edits |-> 0, requests |-> 0, failures |-> 0, restarts |-> 0]

-----------------------------------------------------------------------------
(* Where a request goes on once ensureBuilt() or build() has returned.     *)
Onward(r) ==
  CASE r.op = "update" -> [r EXCEPT !.at = "stat"]
    [] r.op = "remove" -> [r EXCEPT !.at = "remove"]
    [] OTHER -> Idle

(* build(): one build at a time, which every caller waits for.             *)
Build(c, r) ==
  /\ call' = [call EXCEPT ![c] = [r EXCEPT !.at = "wait"]]
  /\ \/ build # NoBuild /\ UNCHANGED <<build, loadVars, met>>
     \/ /\ build = NoBuild /\ loaded
        /\ build' = [NoBuild EXCEPT !.at = "scan"] /\ met' = {}
        /\ UNCHANGED loadVars
     \/ /\ build = NoBuild /\ ~loaded
        /\ build' = [NoBuild EXCEPT !.at = "load"] /\ met' = {}
        /\ loaded' = TRUE /\ loading' = [NotLoading EXCEPT !.at = "asked"]

(* ensureBuilt() sets loaded before it has loaded anything.                *)
EnsureBuilt(c, r) ==
  \/ /\ ~loaded
     /\ loaded' = TRUE /\ loading' = [NotLoading EXCEPT !.at = "asked"]
     /\ call' = [call EXCEPT ![c] = [r EXCEPT !.at = "load"]]
     /\ UNCHANGED <<build, met>>
  \/ /\ loaded /\ stats
     /\ call' = [call EXCEPT ![c] = Onward(r)]
     /\ UNCHANGED <<build, loadVars, met>>
  \/ loaded /\ ~stats /\ Build(c, r)

Request(c, op, f) ==
  LET r == [Idle EXCEPT !.op = op, !.f = f] IN
  /\ call[c] = Idle
  /\ IF op = "build" THEN Build(c, r) ELSE EnsureBuilt(c, r)
  /\ unsure' = unsure \cup ({f} \cap Touched)
  /\ UNCHANGED <<tableVars, diskVars, unsaved>>

-----------------------------------------------------------------------------
(* The editor: onDidSaveTextDocument and onDidDeleteFiles report a change, *)
(* and anything else may change a file that nobody reports.                *)
Save(c, f) ==
  /\ spent.edits < MaxEdits
  /\ workspace' = IF f \in Blank THEN workspace ELSE [workspace EXCEPT ![f] = @ + 1]
  /\ gone' = gone \ {f}
  /\ spent' = [spent EXCEPT !.edits = @ + 1]
  /\ Request(c, "update", f)
  /\ UNCHANGED rebuildDue

Delete(c, f) ==
  /\ spent.edits < MaxEdits /\ f \notin gone
  /\ workspace' = [workspace EXCEPT ![f] = @ + 1]
  /\ gone' = gone \cup {f}
  /\ spent' = [spent EXCEPT !.edits = @ + 1]
  /\ Request(c, "remove", f)
  /\ UNCHANGED rebuildDue

ChangeUnreported(f) ==
  /\ spent.edits < MaxEdits /\ f \notin Blank
  /\ workspace' = [workspace EXCEPT ![f] = @ + 1]
  /\ gone' \in {gone \cup {f}, gone \ {f}}
  /\ spent' = [spent EXCEPT !.edits = @ + 1]
  /\ unsure' = unsure \cup {f} /\ met' = met \cup {f}
  /\ UNCHANGED <<tableVars, loadVars, build, diskVars, call, rebuildDue, unsaved>>

Ask(c, op) ==
  /\ spent.requests < MaxRequests
  /\ spent' = [spent EXCEPT !.requests = @ + 1]
  /\ Request(c, op, NoFile)
  /\ UNCHANGED <<workspace, gone, rebuildDue>>

RebuildTimer(c) ==
  /\ rebuildDue /\ rebuildDue' = FALSE
  /\ Request(c, "build", NoFile)
  /\ UNCHANGED <<workspace, gone, spent>>

-----------------------------------------------------------------------------
(* loadPersistentIndex(), by the first request or by its build.            *)
ReadDisk ==
  /\ loading.at = "asked"
  /\ loading' = [at |-> IF stored THEN "read" ELSE "missing", image |-> disk]
  /\ UNCHANGED <<editorVars, tableVars, loaded, build, diskVars, call, historyVars>>

Usable == loading.at = "read" /\ Bytes(loading.image) <= MaxBytes

(* The map is replaced: a build that looks things up in the old one keeps  *)
(* the old one to itself.                                                  *)
Detached ==
  IF build.at \in {"none", "load", "scan"} THEN build
  ELSE [build EXCEPT !.detached = TRUE,
                     !.table = IF build.detached THEN build.table ELSE files]

(* A build has already replaced the map that the load replaces now.        *)
Late == stats \/ build.at = "embed"

Loaded ==
  /\ loading.at \in {"read", "missing"} /\ loading' = NotLoading
  /\ \/ /\ Usable
        /\ files' = loading.image /\ chunks' = loading.image /\ stats' = TRUE
        /\ build' = IF build.at = "load" THEN [build EXCEPT !.at = "scan"] ELSE Detached
        /\ call' = [c \in Calls |->
                      IF call[c].at = "load" THEN Onward(call[c]) ELSE call[c]]
        /\ unsure' = IF Late THEN Files ELSE unsure
        /\ met' = IF Late THEN Files ELSE met
        /\ UNCHANGED loaded
     \/ /\ ~Usable /\ build.at = "load"
        /\ build' = [build EXCEPT !.at = "scan"]
        /\ UNCHANGED <<tableVars, call, loaded, unsure, met>>
     \/ /\ ~Usable /\ build.at # "load"
        /\ \E c \in Calls :
             /\ call[c].at = "load"
             /\ IF stats THEN /\ call' = [call EXCEPT ![c] = Onward(@)]
                              /\ UNCHANGED <<build, loaded, met>>
                ELSE /\ call' = [call EXCEPT ![c].at = "wait"]
                     /\ build' = IF build = NoBuild THEN [NoBuild EXCEPT !.at = "scan"] ELSE build
                     /\ met' = IF build = NoBuild THEN {} ELSE met
                     /\ UNCHANGED loaded
        /\ UNCHANGED <<tableVars, unsure>>
  /\ UNCHANGED <<editorVars, diskVars, unsaved>>

-----------------------------------------------------------------------------
(* buildNow(): find the files, stat them all, read the changed ones two at *)
(* a time, swap the map.                                                   *)
(* Mutant: whatever is indexed already is reused.                          *)
MutantUnchanged(b, f) == b.previous[f] # NoEntry
Unchanged(b, f) == b.previous[f] # NoEntry /\ b.previous[f].stat = b.stat[f]
Place(f) == CHOOSE i \in 1..Len(Order) : Order[i] = f
UpTo(f, todo) == {g \in todo : Place(g) <= Place(f)}
Batch(todo) == {f \in todo : Cardinality(UpTo(f, todo)) <= 2}
Reads(b, todo) == {f \in Batch(todo) : ~Unchanged(b, f)}
Lookup == IF build.detached THEN build.table ELSE files

Planned(b, todo) ==
  Weight([f \in Files |-> IF f \notin todo THEN 0
                          ELSE IF Unchanged(b, f) THEN b.previous[f].content
                          ELSE IF f \in Blank THEN 0 ELSE b.stat[f]])
Accepted(b) == {f \in b.todo : Planned(b, UpTo(f, b.todo)) <= MaxBytes}

Scan ==
  /\ build.at = "scan"
  /\ build' = [build EXCEPT !.at = "stat", !.todo = Files \ gone, !.waiting = Files \ gone]
  /\ UNCHANGED <<editorVars, tableVars, loadVars, diskVars, call, historyVars>>

StatFile(f) ==
  /\ build.at = "stat" /\ f \in build.waiting
  /\ build' =
       IF f \in gone
       THEN [build EXCEPT !.waiting = @ \ {f}, !.todo = @ \ {f}]
       ELSE [build EXCEPT !.waiting = @ \ {f}, !.stat[f] = workspace[f],
                          !.previous[f] = Lookup[f]]
  /\ UNCHANGED <<editorVars, tableVars, loadVars, diskVars, call, historyVars>>

ReadFile(f) ==
  /\ build.at = "read" /\ f \in build.waiting
  /\ build' = [build EXCEPT !.waiting = @ \ {f}, !.read[f] = Content(f)]
  /\ UNCHANGED <<editorVars, tableVars, loadVars, diskVars, call, historyVars>>

Settled(r, ok) == IF ok THEN Onward(r) ELSE Idle

(* The promise of the build settles, and with it those who wait for it.    *)
EndBuild(ok) ==
  LET waiting == {c \in Calls : call[c].at = "wait"}
      rejected == {call[c].f : c \in {d \in waiting : ~ok /\ call[d].op \in Changes}} IN
  /\ build' = NoBuild
  /\ call' = [c \in Calls |-> IF c \in waiting THEN Settled(call[c], ok) ELSE call[c]]
  /\ rebuildDue' = (rebuildDue \/ rejected # {})
  /\ unsure' = met \cup (unsure \cap Touched) \cup rejected /\ met' = {}

(* commitStats() at the end of a build; it persists what has changed.      *)
CommitBuild(b, table) ==
  /\ chunks' = table /\ stats' = TRUE
  /\ \/ /\ b.changed /\ build' = [b EXCEPT !.at = "persist", !.image = table]
        /\ UNCHANGED <<call, rebuildDue, historyVars>>
     \/ ~b.changed /\ EndBuild(TRUE) /\ unsaved' = unsaved \cup unsure

Leftovers(table) == \E f \in Files : table[f] # NoEntry

(* No await lies between the last read of a batch and the next batch, or   *)
(* the swap after the last one.                                            *)
Swap(b, left) ==
  LET c == [b EXCEPT !.changed = @ \/ Leftovers(left)] IN
  /\ files' = b.next
  /\ \/ /\ Embeddings /\ \E f \in Files : b.read[f] # 0
        /\ build' = [c EXCEPT !.at = "embed"]
        /\ UNCHANGED <<chunks, stats, call, rebuildDue, historyVars>>
     \/ /\ ~(Embeddings /\ \E f \in Files : b.read[f] # 0)
        /\ CommitBuild(c, b.next)

Plan ==
  /\ build.at = "stat" /\ build.waiting = {}
  /\ LET todo == Accepted(build)
         b == [build EXCEPT !.at = "read", !.todo = todo, !.waiting = Reads(build, todo)] IN
     \/ /\ todo # {} /\ build' = b
        /\ UNCHANGED <<tableVars, call, rebuildDue, historyVars>>
     \/ todo = {} /\ Swap(b, Lookup)
  /\ UNCHANGED <<workspace, gone, spent, loadVars, diskVars>>

Integrate ==
  /\ build.at = "read" /\ build.waiting = {}
  /\ LET batch == Batch(build.todo)
         todo == build.todo \ batch
         left == [f \in Files |-> IF f \in batch THEN NoEntry ELSE Lookup[f]]
         b == [build EXCEPT
                 !.todo = todo, !.waiting = Reads(build, todo),
                 !.next = [f \in Files |->
                             IF f \notin batch THEN @[f]
                             ELSE IF Unchanged(build, f) THEN build.previous[f]
                             ELSE Facts(f, build.stat[f], build.read[f])],
                 !.changed = @ \/ \E f \in Reads(build, build.todo) : build.read[f] # 0,
                 !.table = IF build.detached THEN left ELSE @] IN
     \/ /\ todo # {} /\ build' = b
        /\ files' = IF build.detached THEN files ELSE left
        /\ UNCHANGED <<chunks, stats, call, rebuildDue, historyVars>>
     \/ todo = {} /\ Swap(b, left)
  /\ UNCHANGED <<workspace, gone, spent, loadVars, diskVars>>

BuildEmbedded ==
  /\ build.at = "embed" /\ CommitBuild(build, files)
  /\ UNCHANGED <<files, workspace, gone, spent, loadVars, diskVars>>

(* The requests that are writing the index.                                *)
Writers == {c \in Calls : call[c].at = "persist"}

BuildPersisted ==
  /\ build.at = "persist" /\ disk' = build.image /\ stored' = TRUE /\ EndBuild(TRUE)
  /\ unsaved' = IF Writers = {} THEN {} ELSE unsaved \cup unsure
  /\ UNCHANGED <<workspace, gone, spent, tableVars, loadVars>>

Failing ==
  spent.failures < MaxFailures /\ spent' = [spent EXCEPT !.failures = @ + 1]

BuildPersistFails ==
  /\ build.at = "persist" /\ Failing /\ EndBuild(FALSE)
  /\ unsaved' = unsaved \cup unsure
  /\ UNCHANGED <<workspace, gone, tableVars, loadVars, diskVars>>

BuildStep ==
  \/ Scan \/ Plan \/ Integrate \/ BuildEmbedded \/ BuildPersisted
  \/ \E f \in Files : StatFile(f) \/ ReadFile(f)

-----------------------------------------------------------------------------
(* updateFile() and removeFile() change the live map and persist it all.   *)
Commit(c, table) ==
  LET lost == IF build = NoBuild THEN {} ELSE {call[c].f}
      behind == IF Writers = {} THEN {} ELSE {call[c].f}
      aside == {f \in Files : build.next[f] # NoEntry} IN
  /\ files' = table /\ chunks' = table /\ stats' = TRUE
  /\ call' = [call EXCEPT ![c].at = "persist", ![c].image = table]
  /\ unsure' = unsure \cup lost /\ met' = met \cup lost
  /\ unsaved' = unsaved \cup behind \cup aside
  /\ UNCHANGED <<editorVars, loadVars, build, diskVars>>

Dropped(c) == [files EXCEPT ![call[c].f] = NoEntry]

RemoveReported(c) == call[c].at = "remove" /\ Commit(c, Dropped(c))

StatSaved(c) ==
  /\ call[c].at = "stat"
  /\ \/ call[c].f \in gone /\ Commit(c, Dropped(c))
     \/ /\ call[c].f \notin gone
        /\ call' = [call EXCEPT ![c].at = "read", ![c].stat = workspace[call[c].f]]
        /\ UNCHANGED <<editorVars, tableVars, loadVars, build, diskVars, historyVars>>

ReadSaved(c) ==
  /\ call[c].at = "read"
  /\ call' = [call EXCEPT ![c].at = "land", ![c].content = Content(call[c].f)]
  /\ UNCHANGED <<editorVars, tableVars, loadVars, build, diskVars, historyVars>>

(* Facts of a file that no longer fits are dropped, never kept.            *)
Land(c) ==
  LET f == call[c].f
      entry == Facts(f, call[c].stat, call[c].content)
      kept == entry # NoEntry /\ Fits(f, entry) IN
  /\ call[c].at = "land"
  /\ \/ ~kept /\ Commit(c, Dropped(c))
     \/ kept /\ ~Embeddings /\ Commit(c, [files EXCEPT ![f] = entry])
     \/ /\ kept /\ Embeddings
        /\ call' = [call EXCEPT ![c].at = "embed"]
        /\ UNCHANGED <<editorVars, tableVars, loadVars, build, diskVars, historyVars>>

Embedded(c) ==
  /\ call[c].at = "embed"
  /\ LET f == call[c].f IN
     Commit(c, [files EXCEPT ![f] = Facts(f, call[c].stat, call[c].content)])

Persisted(c) ==
  /\ call[c].at = "persist" /\ disk' = call[c].image /\ stored' = TRUE
  /\ call' = [call EXCEPT ![c] = Idle]
  /\ unsaved' = IF build = NoBuild /\ Writers = {c} /\ call[c].image = files
                THEN {} ELSE unsaved
  /\ UNCHANGED <<editorVars, tableVars, loadVars, build, unsure, met>>

(* The extension schedules a rebuild when a request of its own fails.      *)
PersistFails(c) ==
  /\ call[c].at = "persist" /\ Failing
  /\ call' = [call EXCEPT ![c] = Idle]
  /\ rebuildDue' = TRUE
  /\ unsaved' = unsaved \cup {call[c].f}
  /\ UNCHANGED <<workspace, gone, tableVars, loadVars, build, diskVars, unsure, met>>

CallStep(c) ==
  \/ RemoveReported(c) \/ StatSaved(c) \/ ReadSaved(c) \/ Land(c)
  \/ Embedded(c) \/ Persisted(c)

(* What is on disk of this file is not what is known of it.                *)
Differs(f) == stats /\ disk[f] # (IF build.next[f] = NoEntry THEN files[f] ELSE build.next[f])

(* The daemon ends at any point and starts again; the requests it had not  *)
(* answered are rejected.  Nothing rebuilds an index that loads.           *)
Restart ==
  /\ spent.restarts < MaxRestarts
  /\ spent' = [spent EXCEPT !.restarts = @ + 1]
  /\ files' = Empty /\ chunks' = Empty /\ stats' = FALSE
  /\ loaded' = FALSE /\ loading' = NotLoading /\ build' = NoBuild
  /\ call' = [c \in Calls |-> Idle]
  /\ rebuildDue' = (rebuildDue \/ Touched # {})
  /\ unsure' = unsure \cup Touched \cup {f \in unsaved : Differs(f)}
  /\ met' = {} /\ unsaved' = {}
  /\ UNCHANGED <<workspace, gone, diskVars>>

(* What only a turn of the microtask queue separates from the step before. *)
Prompt ==
  \/ build.at \in {"stat", "read"} /\ build.waiting = {}
  \/ \E c \in Calls : call[c].at = "remove"

Next ==
  \/ Plan \/ Integrate \/ \E c \in Calls : RemoveReported(c)
  \/ /\ ~Prompt
     /\ \/ BuildStep \/ BuildPersistFails \/ ReadDisk \/ Loaded \/ Restart
        \/ \E f \in Files : ChangeUnreported(f)
        \/ \E c \in Calls :
             \/ CallStep(c) \/ PersistFails(c) \/ RebuildTimer(c)
             \/ \E f \in Files : Save(c, f) \/ Delete(c, f)
             \/ \E op \in {"build", "search"} : Ask(c, op)

(* The disk answers, and the extension's timer fires.                      *)
Spec ==
  /\ Init /\ [][Next]_vars
  /\ WF_vars(BuildStep) /\ WF_vars(ReadDisk) /\ WF_vars(Loaded)
  /\ \A c \in Calls : WF_vars(CallStep(c))
  /\ WF_vars(\E c \in Calls : RebuildTimer(c))

-----------------------------------------------------------------------------
AtRest == InFlight = {} /\ build = NoBuild /\ loading.at = "no"

(* Every file fits, however large.                                         *)
Roomy == 2 * Cardinality(Files) <= MaxBytes
Indexed(f) ==
  /\ chunks[f].content \in {Content(f), 0}
  /\ Roomy => chunks[f].content = Content(f)

(* updateFile(), removeFile(), buildNow(): at rest a search finds every    *)
(* file as it is, whatever was saved, deleted, rebuilt, loaded or crashed, *)
(* and never an older text of it.  Excepted, until a rebuild that met none *)
(* of them, are the files of an operation that met another one or was      *)
(* rejected, of a change nobody reported, and of a change that a crash     *)
(* undid because its persist had failed or was one of several under way    *)
(* (two persists may land in either order) or ran beside a build.          *)
SavedIsIndexed == (AtRest /\ stats) => \A f \in Files \ unsure : Indexed(f)

(* indexOneFile() stamps facts with the stat taken before the read: facts  *)
(* whose stamp is the file's size and mtime are those of its text, in      *)
(* memory, in a build and on disk, so that a build may reuse them.         *)
ReuseIsSound ==
  LET tables == {files, chunks, disk, loading.image, build.next, build.previous,
                 build.table, build.image} \cup {call[c].image : c \in Calls} IN
  \A t \in tables : \A f \in Files :
    (t[f] # NoEntry /\ t[f].stat = workspace[f]) => t[f].content = workspace[f]
=============================================================================
