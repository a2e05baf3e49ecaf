-------------------------- MODULE SemanticIndexProofs --------------------------
(***************************************************************************)
(* Theorems of SemanticIndex.  Facts whose stamp is that of the file are   *)
(* the facts of its text, so a build may reuse them (IndexInv); and at     *)
(* rest a search finds every file as it is, but for those whose operations *)
(* met or were rejected (SureInv, which rests on IndexInv), after a crash  *)
(* too (DiskInv: what the file holds, and what is being written).          *)
(***************************************************************************)
EXTENDS SemanticIndex, FiniteSetTheorems, TLAPS

Entries == [stat : Nat, content : Nat]

(* A stamp is never newer than the text it was taken for, nor the text     *)
(* than the file; a blank file has none.                                   *)
Good(t, ws) ==
  /\ t \in [Files -> Entries]
  /\ \A f \in Files : /\ t[f].stat <= t[f].content /\ t[f].content <= ws[f]
                      /\ f \in Blank => t[f].content = 0
Noted(f, s, c, v) == s \in Nat /\ c \in Nat /\ s <= v /\ c <= v /\ (c # 0 => s <= c)
                     /\ (f \in Blank => c = 0)

(* A request on its way: nothing is read before the stat is taken.         *)
CallOK(r, ws) ==
  /\ r = [at |-> r.at, op |-> r.op, f |-> r.f, stat |-> r.stat, content |-> r.content,
          image |-> r.image]
  /\ r.op \in Changes => r.f \in Files
  /\ r.at \in {"stat", "read", "land", "embed", "remove"} => r.op \in Changes
  /\ r.at \in {"load", "wait", "stat", "read"} => r.content = 0
  /\ r.f \in Files => Noted(r.f, r.stat, r.content, ws[r.f])
  /\ Good(r.image, ws)

BuildOK(b, ws) ==
  /\ b = [at |-> b.at, todo |-> b.todo, waiting |-> b.waiting, stat |-> b.stat,
          previous |-> b.previous, read |-> b.read, next |-> b.next,
          changed |-> b.changed, detached |-> b.detached, table |-> b.table,
          image |-> b.image]
  /\ Good(b.previous, ws) /\ Good(b.next, ws) /\ Good(b.table, ws) /\ Good(b.image, ws)
  /\ b.stat \in [Files -> Nat] /\ b.read \in [Files -> Nat]
  /\ \A f \in Files : Noted(f, b.stat[f], b.read[f], ws[f])
  /\ b.at \in {"none", "load", "scan", "stat"} => \A f \in Files : b.read[f] = 0

CallsOK(calls, ws) ==
  calls = [c \in Calls |-> calls[c]] /\ \A c \in Calls : CallOK(calls[c], ws)

IndexInv ==
  /\ workspace \in [Files -> Nat]
  /\ Good(files, workspace) /\ Good(chunks, workspace) /\ Good(disk, workspace)
  /\ Good(loading.image, workspace)
  /\ BuildOK(build, workspace) /\ CallsOK(call, workspace)

-----------------------------------------------------------------------------
LEMMA EmptyGood == ASSUME NEW ws \in [Files -> Nat] PROVE Good(Empty, ws)
BY DEF Good, Empty, NoEntry, Entries

LEMMA FactsNoted ==
  ASSUME NEW f, NEW s, NEW c, NEW v \in Nat, Noted(f, s, c, v)
  PROVE  /\ Facts(f, s, c) \in Entries
         /\ Facts(f, s, c).stat <= Facts(f, s, c).content
         /\ Facts(f, s, c).content <= v
         /\ f \in Blank => Facts(f, s, c).content = 0
BY DEF Facts, NoEntry, Entries, Noted

LEMMA PutGood ==
  ASSUME NEW ws \in [Files -> Nat], NEW t, Good(t, ws), NEW f \in Files, NEW e \in Entries,
         e.stat <= e.content, e.content <= ws[f], f \in Blank => e.content = 0
  PROVE  Good([t EXCEPT ![f] = e], ws)
BY DEF Good

LEMMA DropGood ==
  ASSUME NEW ws \in [Files -> Nat], NEW t, Good(t, ws), NEW f \in Files
  PROVE  Good([t EXCEPT ![f] = NoEntry], ws)
<1>1. NoEntry \in Entries /\ NoEntry.stat = 0 /\ NoEntry.content = 0
  BY DEF NoEntry, Entries
<1>2. ws[f] \in Nat
  OBVIOUS
<1> QED BY <1>1, <1>2, PutGood

(* Files only get newer, which keeps all that is noted of them.            *)
Newer(old, new) ==
  old \in [Files -> Nat] /\ new \in [Files -> Nat] /\ \A f \in Files : old[f] <= new[f]

LEMMA GoodNewer ==
  ASSUME NEW old, NEW new, Newer(old, new), NEW t, Good(t, old) PROVE Good(t, new)
BY DEF Good, Newer, Entries

LEMMA NotedNewer ==
  ASSUME NEW f, NEW s, NEW c, NEW v \in Nat, NEW u \in Nat, v <= u, Noted(f, s, c, v)
  PROVE  Noted(f, s, c, u)
<1>1. s \in Nat /\ c \in Nat
  BY DEF Noted
<1> QED BY <1>1 DEF Noted

LEMMA CallNewer ==
  ASSUME NEW old, NEW new, Newer(old, new), NEW r, CallOK(r, old) PROVE CallOK(r, new)
<1>1. Good(r.image, new)
  BY GoodNewer DEF CallOK
<1>2. r.f \in Files => Noted(r.f, r.stat, r.content, new[r.f])
  BY NotedNewer DEF CallOK, Newer
<1> QED BY <1>1, <1>2 DEF CallOK

LEMMA BuildNewer ==
  ASSUME NEW old, NEW new, Newer(old, new), NEW b, BuildOK(b, old) PROVE BuildOK(b, new)
<1>1. Good(b.previous, new) /\ Good(b.next, new) /\ Good(b.table, new) /\ Good(b.image, new)
  BY GoodNewer DEF BuildOK
<1>2. \A f \in Files : Noted(f, b.stat[f], b.read[f], new[f])
  BY NotedNewer DEF BuildOK, Newer
<1> QED BY <1>1, <1>2 DEF BuildOK

(* Requests and builds as they begin.                                      *)
LEMMA Beginnings ==
  ASSUME NEW ws \in [Files -> Nat]
  PROVE  /\ CallOK(Idle, ws)
         /\ BuildOK(NoBuild, ws)
         /\ BuildOK([NoBuild EXCEPT !.at = "scan"], ws)
         /\ BuildOK([NoBuild EXCEPT !.at = "load"], ws)
<1>1. Good(Empty, ws)
  BY EmptyGood
<1>2. CallOK(Idle, ws)
  BY <1>1, FilesAssumption DEF CallOK, Idle, Changes
<1>3. \A f \in Files : Noted(f, 0, 0, ws[f])
  BY DEF Noted
<1>4. BuildOK(NoBuild, ws)
  BY <1>1, <1>3 DEF BuildOK, NoBuild
<1>a. NoBuild.at = "none"
  BY DEF NoBuild
<1>5. BuildOK([NoBuild EXCEPT !.at = "scan"], ws)
  BY <1>4, <1>a DEF BuildOK
<1>6. BuildOK([NoBuild EXCEPT !.at = "load"], ws)
  BY <1>4, <1>a DEF BuildOK
<1> QED BY <1>2, <1>4, <1>5, <1>6

(* A request that has read nothing may wait, load or go on.                *)
LEMMA Moves ==
  ASSUME NEW ws \in [Files -> Nat], NEW r, CallOK(r, ws), r.content = 0
  PROVE  /\ CallOK([r EXCEPT !.at = "wait"], ws)
         /\ CallOK([r EXCEPT !.at = "load"], ws)
         /\ CallOK(Onward(r), ws)
<1>1. CallOK([r EXCEPT !.at = "wait"], ws)
  BY DEF CallOK
<1>2. CallOK([r EXCEPT !.at = "load"], ws)
  BY DEF CallOK
<1>3. CASE r.op = "update"
  <2>1. Onward(r) = [r EXCEPT !.at = "stat"]
    BY <1>3 DEF Onward
  <2> QED BY <1>1, <1>2, <1>3, <2>1 DEF CallOK, Changes
<1>4. CASE r.op = "remove"
  <2>1. Onward(r) = [r EXCEPT !.at = "remove"]
    BY <1>4 DEF Onward
  <2> QED BY <1>1, <1>2, <1>4, <2>1 DEF CallOK, Changes
<1>5. CASE r.op \notin Changes
  <2>1. Onward(r) = Idle
    BY <1>5 DEF Onward, Changes
  <2> QED BY <1>1, <1>2, <2>1, Beginnings
<1> QED BY <1>3, <1>4, <1>5 DEF Changes

-----------------------------------------------------------------------------
(* A change of one request.                                                *)
LEMMA CallPut ==
  ASSUME NEW ws, CallsOK(call, ws), NEW c \in Calls, NEW r, CallOK(r, ws)
  PROVE  CallsOK([call EXCEPT ![c] = r], ws)
BY DEF CallsOK

LEMMA BuildCall ==
  ASSUME IndexInv, NEW c \in Calls, NEW r, CallOK(r, workspace), r.content = 0, Build(c, r)
  PROVE  BuildOK(build', workspace) /\ CallsOK(call', workspace) /\ Good(loading'.image, workspace)
<1> USE DEF IndexInv
<1>1. CallsOK(call', workspace)
  <2>1. CallOK([r EXCEPT !.at = "wait"], workspace)
    BY Moves
  <2>2. call' = [call EXCEPT ![c] = [r EXCEPT !.at = "wait"]]
    BY DEF Build
  <2> QED BY <2>1, <2>2, CallPut
<1>2. BuildOK(build', workspace)
  BY Beginnings DEF Build, loadVars
<1>3. Good(loading'.image, workspace)
  <2>1. CASE loading' = loading
    BY <2>1
  <2>2. CASE loading' = [NotLoading EXCEPT !.at = "asked"]
    BY <2>2, EmptyGood DEF NotLoading
  <2> QED BY <2>1, <2>2 DEF Build, loadVars
<1> QED BY <1>1, <1>2, <1>3

LEMMA RequestCall ==
  ASSUME IndexInv, NEW c \in Calls, NEW op, NEW f, Request(c, op, f),
         op \in Changes => f \in Files
  PROVE  /\ BuildOK(build', workspace) /\ CallsOK(call', workspace)
         /\ Good(loading'.image, workspace) /\ UNCHANGED <<tableVars, disk>>
<1> USE DEF IndexInv
<1> DEFINE r == [Idle EXCEPT !.op = op, !.f = f]
<1>1. r = [at |-> "idle", op |-> op, f |-> f, stat |-> 0, content |-> 0, image |-> Empty]
  <2> DEFINE i == Idle
  <2>1. i = [at |-> "idle", op |-> "none", f |-> NoFile, stat |-> 0, content |-> 0,
             image |-> Empty]
    BY DEF Idle
  <2>2. r = [i EXCEPT !.op = op, !.f = f]
    OBVIOUS
  <2> HIDE DEF i, r
  <2> QED BY <2>1, <2>2
<1>2. CallOK(r, workspace) /\ r.content = 0
  <2>1. Good(Empty, workspace)
    BY EmptyGood
  <2>2. f \in Files => Noted(f, 0, 0, workspace[f])
    BY DEF Noted
  <2> QED BY <1>1, <2>1, <2>2 DEF CallOK
<1>3. Build(c, r) \/ EnsureBuilt(c, r)
  BY DEF Request
<1>u. UNCHANGED <<tableVars, disk>>
  BY DEF Request, diskVars
<1> HIDE DEF r
<1>4. CASE Build(c, r)
  BY <1>2, <1>4, <1>u, BuildCall
<1>5. CASE EnsureBuilt(c, r) /\ ~Build(c, r)
  <2>1. CallOK([r EXCEPT !.at = "load"], workspace) /\ CallOK(Onward(r), workspace)
    BY <1>2, Moves
  <2>2. \/ call' = [call EXCEPT ![c] = [r EXCEPT !.at = "load"]]
        \/ call' = [call EXCEPT ![c] = Onward(r)]
    BY <1>5 DEF EnsureBuilt
  <2>3. CallsOK(call', workspace)
    BY <2>1, <2>2, CallPut
  <2>4. build' = build
    BY <1>5 DEF EnsureBuilt
  <2>5. Good(loading'.image, workspace)
    <3>1. CASE loading' = loading
      BY <3>1
    <3>2. CASE loading' = [NotLoading EXCEPT !.at = "asked"]
      BY <3>2, EmptyGood DEF NotLoading
    <3> QED BY <1>5, <3>1, <3>2 DEF EnsureBuilt, loadVars
  <2> QED BY <2>3, <2>4, <2>5, <1>u
<1> QED BY <1>3, <1>4, <1>5

(* What was right of an older workspace is right of a newer one.           *)
LEMMA InvNewer ==
  ASSUME Newer(workspace, workspace'),
         Good(files', workspace), Good(chunks', workspace), Good(disk', workspace),
         Good(loading'.image, workspace), BuildOK(build', workspace),
         CallsOK(call', workspace)
  PROVE  IndexInv'
<1>1. /\ Good(files', workspace') /\ Good(chunks', workspace') /\ Good(disk', workspace')
      /\ Good(loading'.image, workspace')
  BY GoodNewer
<1>2. BuildOK(build', workspace')
  BY BuildNewer
<1>3. CallsOK(call', workspace')
  BY CallNewer DEF CallsOK
<1>4. workspace' \in [Files -> Nat]
  BY DEF Newer
<1> QED BY <1>1, <1>2, <1>3, <1>4 DEF IndexInv

LEMMA SameWorkspace == IndexInv => Newer(workspace, workspace)
BY DEF IndexInv, Newer

LEMMA OneNewer ==
  ASSUME IndexInv, NEW f \in Files
  PROVE  Newer(workspace, [workspace EXCEPT ![f] = @ + 1])
BY DEF IndexInv, Newer

(* The actions of the editor, which change files or ask for something.     *)
LEMMA EditorKeeps ==
  ASSUME IndexInv,
         \/ \E f \in Files : ChangeUnreported(f)
         \/ \E c \in Calls :
              \/ \E f \in Files : Save(c, f) \/ Delete(c, f)
              \/ RebuildTimer(c) \/ \E op \in {"build", "search"} : Ask(c, op)
  PROVE  IndexInv'
<1>1. ASSUME NEW f \in Files, ChangeUnreported(f) PROVE IndexInv'
  <2>1. Newer(workspace, workspace')
    BY <1>1, OneNewer DEF ChangeUnreported
  <2>2. UNCHANGED <<tableVars, loadVars, build, disk, call>>
    BY <1>1 DEF ChangeUnreported, diskVars
  <2> QED BY <2>1, <2>2, InvNewer DEF IndexInv, tableVars, diskVars, loadVars
<1>2. ASSUME NEW c \in Calls, NEW op, NEW f, Request(c, op, f),
             op \in Changes => f \in Files, Newer(workspace, workspace')
      PROVE  IndexInv'
  <2>1. /\ BuildOK(build', workspace) /\ CallsOK(call', workspace)
        /\ Good(loading'.image, workspace) /\ UNCHANGED <<tableVars, disk>>
    BY <1>2, RequestCall
  <2>2. Good(files', workspace) /\ Good(chunks', workspace) /\ Good(disk', workspace)
    BY <2>1 DEF IndexInv, tableVars, diskVars
  <2> QED BY <1>2, <2>1, <2>2, InvNewer
<1>3. ASSUME NEW c \in Calls, NEW f \in Files, Save(c, f) PROVE IndexInv'
  <2>1. Newer(workspace, workspace') /\ Request(c, "update", f)
    BY <1>3, OneNewer, SameWorkspace DEF Save
  <2> QED BY <1>2, <2>1
<1>4. ASSUME NEW c \in Calls, NEW f \in Files, Delete(c, f) PROVE IndexInv'
  <2>1. Newer(workspace, workspace') /\ Request(c, "remove", f)
    BY <1>4, OneNewer DEF Delete
  <2> QED BY <1>2, <2>1
<1>5. ASSUME NEW c \in Calls, RebuildTimer(c) PROVE IndexInv'
  <2>1. Newer(workspace, workspace') /\ Request(c, "build", NoFile)
    BY <1>5, SameWorkspace DEF RebuildTimer
  <2> QED BY <1>2, <2>1 DEF Changes
<1>6. ASSUME NEW c \in Calls, NEW op \in {"build", "search"}, Ask(c, op) PROVE IndexInv'
  <2>1. Newer(workspace, workspace') /\ Request(c, op, NoFile)
    BY <1>6, SameWorkspace DEF Ask
  <2> QED BY <1>2, <2>1 DEF Changes
<1> QED BY <1>1, <1>3, <1>4, <1>5, <1>6

-----------------------------------------------------------------------------
(* What a step leaves right of the workspace that it leaves alone.         *)
LEMMA InvSame ==
  ASSUME IndexInv, workspace' = workspace,
         Good(files', workspace), Good(chunks', workspace), Good(disk', workspace),
         Good(loading'.image, workspace), BuildOK(build', workspace),
         CallsOK(call', workspace)
  PROVE  IndexInv'
BY SameWorkspace, InvNewer

(* The promise of a build settles.                                         *)
LEMMA EndBuildCalls ==
  ASSUME IndexInv, NEW ok \in BOOLEAN, EndBuild(ok)
  PROVE  BuildOK(build', workspace) /\ CallsOK(call', workspace)
<1> USE DEF IndexInv
<1>1. BuildOK(build', workspace)
  BY Beginnings DEF EndBuild
<1>2. ASSUME NEW c \in Calls, call[c].at = "wait" PROVE CallOK(Settled(call[c], ok), workspace)
  <2>1. CallOK(call[c], workspace) /\ call[c].content = 0
    BY <1>2 DEF CallsOK, CallOK
  <2> QED BY <2>1, Moves, Beginnings DEF Settled
<1>3. call' = [c \in Calls |-> IF call[c].at = "wait" THEN Settled(call[c], ok) ELSE call[c]]
  BY DEF EndBuild
<1>4. CallsOK(call', workspace)
  BY <1>2, <1>3 DEF CallsOK
<1> QED BY <1>1, <1>4

LEMMA CommitBuildStep ==
  ASSUME IndexInv, NEW b, BuildOK(b, workspace), NEW table, Good(table, workspace),
         CommitBuild(b, table)
  PROVE  /\ Good(chunks', workspace)
         /\ BuildOK(build', workspace) /\ CallsOK(call', workspace)
<1>1. Good(chunks', workspace)
  BY DEF CommitBuild
<1>2. CASE build' = [b EXCEPT !.at = "persist", !.image = table] /\ UNCHANGED call
  <2>1. BuildOK(build', workspace)
    BY <1>2 DEF BuildOK
  <2> QED BY <1>1, <1>2, <2>1 DEF IndexInv
<1>3. CASE EndBuild(TRUE)
  BY <1>1, <1>3, EndBuildCalls
<1> QED BY <1>2, <1>3 DEF CommitBuild

LEMMA SwapStep ==
  ASSUME IndexInv, NEW b, BuildOK(b, workspace), NEW left, Swap(b, left)
  PROVE  /\ Good(files', workspace) /\ Good(chunks', workspace)
         /\ BuildOK(build', workspace) /\ CallsOK(call', workspace)
<1> DEFINE c == [b EXCEPT !.changed = @ \/ Leftovers(left)]
<1>1. BuildOK(c, workspace) /\ c.next = b.next
  BY DEF BuildOK
<1>2. files' = b.next /\ Good(b.next, workspace)
  BY DEF Swap, BuildOK
<1>3. \/ build' = [c EXCEPT !.at = "embed"] /\ UNCHANGED <<chunks, call>>
      \/ CommitBuild(c, b.next)
  BY DEF Swap
<1> HIDE DEF c
<1>4. BuildOK([c EXCEPT !.at = "embed"], workspace)
  BY <1>1 DEF BuildOK
<1>5. CASE build' = [c EXCEPT !.at = "embed"] /\ UNCHANGED <<chunks, call>>
  BY <1>2, <1>4, <1>5 DEF IndexInv
<1>6. CASE CommitBuild(c, b.next)
  BY <1>1, <1>2, <1>6, CommitBuildStep
<1> QED BY <1>3, <1>5, <1>6

LEMMA LookupGood == ASSUME IndexInv PROVE Good(Lookup, workspace)
BY DEF IndexInv, Lookup, BuildOK

LEMMA ContentNoted ==
  ASSUME IndexInv, NEW f \in Files
  PROVE  /\ Content(f) \in Nat /\ Content(f) \in {0, workspace[f]} /\ workspace[f] \in Nat
         /\ f \in Blank => Content(f) = 0
BY DEF IndexInv, Content

(* What a step may change of a build.                                      *)
LEMMA BuildChanges ==
  ASSUME NEW ws, NEW b, BuildOK(b, ws), NEW x
  PROVE  /\ BuildOK([b EXCEPT !.todo = x], ws)
         /\ BuildOK([b EXCEPT !.waiting = x], ws)
         /\ BuildOK([b EXCEPT !.changed = x], ws)
         /\ BuildOK([b EXCEPT !.detached = x], ws)
         /\ BuildOK([b EXCEPT !.at = "read"], ws)
<1>1. BuildOK([b EXCEPT !.todo = x], ws)
  BY DEF BuildOK
<1>2. BuildOK([b EXCEPT !.waiting = x], ws)
  BY DEF BuildOK
<1>3. BuildOK([b EXCEPT !.changed = x], ws)
  BY DEF BuildOK
<1>4. BuildOK([b EXCEPT !.at = "read"], ws)
  BY DEF BuildOK
<1>5. BuildOK([b EXCEPT !.detached = x], ws)
  BY DEF BuildOK
<1> QED BY <1>1, <1>2, <1>3, <1>4, <1>5

LEMMA BuildTables ==
  ASSUME NEW ws, NEW b, BuildOK(b, ws), NEW t, Good(t, ws)
  PROVE  BuildOK([b EXCEPT !.next = t], ws) /\ BuildOK([b EXCEPT !.table = t], ws)
<1>1. BuildOK([b EXCEPT !.next = t], ws)
  BY DEF BuildOK
<1>2. BuildOK([b EXCEPT !.table = t], ws)
  BY DEF BuildOK
<1> QED BY <1>1, <1>2

LEMMA BuildReads ==
  ASSUME NEW ws, NEW b, BuildOK(b, ws), NEW todo, NEW waiting
  PROVE  BuildOK([b EXCEPT !.at = "read", !.todo = todo, !.waiting = waiting], ws)
<1> DEFINE r1 == [b EXCEPT !.at = "read"]
           r2 == [r1 EXCEPT !.todo = todo]
<1>1. BuildOK(r1, ws)
  BY BuildChanges
<1> HIDE DEF r1
<1>2. BuildOK(r2, ws)
  BY <1>1, BuildChanges
<1> HIDE DEF r2
<1>3. BuildOK([r2 EXCEPT !.waiting = waiting], ws)
  BY <1>2, BuildChanges
<1> QED BY <1>3, Zenon DEF r1, r2

LEMMA BuildIntegrates ==
  ASSUME NEW ws, NEW b, BuildOK(b, ws), NEW todo, NEW waiting, NEW next, Good(next, ws),
         NEW changed, NEW table, Good(table, ws)
  PROVE  BuildOK([b EXCEPT !.todo = todo, !.waiting = waiting, !.next = next,
                           !.changed = changed, !.table = table], ws)
<1> DEFINE r1 == [b EXCEPT !.todo = todo]
           r2 == [r1 EXCEPT !.waiting = waiting]
           r3 == [r2 EXCEPT !.next = next]
           r4 == [r3 EXCEPT !.changed = changed]
<1>1. BuildOK(r1, ws)
  BY BuildChanges
<1> HIDE DEF r1
<1>2. BuildOK(r2, ws)
  BY <1>1, BuildChanges
<1> HIDE DEF r2
<1>3. BuildOK(r3, ws)
  BY <1>2, BuildTables
<1> HIDE DEF r3
<1>4. BuildOK(r4, ws)
  BY <1>3, BuildChanges
<1> HIDE DEF r4
<1>5. BuildOK([r4 EXCEPT !.table = table], ws)
  BY <1>4, BuildTables
<1> QED BY <1>5, Zenon DEF r1, r2, r3, r4

(* The steps of a build that keep it going.                                *)
LEMMA PlanStep ==
  ASSUME IndexInv, Plan PROVE IndexInv'
<1> DEFINE todo == Accepted(build)
           reads == Reads(build, todo)
           b == [build EXCEPT !.at = "read", !.todo = todo, !.waiting = reads]
<1>1. BuildOK(b, workspace)
  <2>1. BuildOK(build, workspace)
    BY DEF IndexInv
  <2> HIDE DEF todo, reads
  <2> QED BY <2>1, BuildReads, Zenon
<1>2. \/ build' = b /\ UNCHANGED <<files, chunks, call>>
      \/ Swap(b, Lookup)
  BY DEF Plan, tableVars, diskVars
<1>3. UNCHANGED <<workspace, disk, loading>>
  BY DEF Plan, loadVars, diskVars
<1> HIDE DEF b
<1>4. CASE build' = b /\ UNCHANGED <<files, chunks, call>>
  BY <1>1, <1>3, <1>4, InvSame DEF IndexInv
<1>5. CASE Swap(b, Lookup)
  BY <1>1, <1>3, <1>5, SwapStep, InvSame DEF IndexInv
<1> QED BY <1>2, <1>4, <1>5

LEMMA IntegrateStep ==
  ASSUME IndexInv, Integrate PROVE IndexInv'
<1> DEFINE batch == Batch(build.todo)
           todo == build.todo \ batch
           left == [f \in Files |-> IF f \in batch THEN NoEntry ELSE Lookup[f]]
           next == [f \in Files |->
                      IF f \notin batch THEN build.next[f]
                      ELSE IF Unchanged(build, f) THEN build.previous[f]
                      ELSE Facts(f, build.stat[f], build.read[f])]
           changed == \/ build.changed
                      \/ \E f \in Reads(build, build.todo) : build.read[f] # 0
           table == IF build.detached THEN left ELSE build.table
           reads == Reads(build, todo)
           b == [build EXCEPT !.todo = todo, !.waiting = reads,
                              !.next = next, !.changed = changed, !.table = table]
<1>0. BuildOK(build, workspace) /\ workspace \in [Files -> Nat]
  BY DEF IndexInv
<1>1. Good(left, workspace)
  <2>1. NoEntry \in Entries /\ NoEntry.stat = 0 /\ NoEntry.content = 0
    BY DEF NoEntry, Entries
  <2> HIDE DEF batch
  <2> QED BY <1>0, <2>1, LookupGood DEF Good
<1>2. Good(next, workspace)
  <2>1. \A f \in Files : /\ Facts(f, build.stat[f], build.read[f]) \in Entries
                         /\ Facts(f, build.stat[f], build.read[f]).stat
                              <= Facts(f, build.stat[f], build.read[f]).content
                         /\ Facts(f, build.stat[f], build.read[f]).content <= workspace[f]
                         /\ f \in Blank => Facts(f, build.stat[f], build.read[f]).content = 0
    BY <1>0, FactsNoted DEF BuildOK
  <2> HIDE DEF batch
  <2> QED BY <1>0, <2>1 DEF BuildOK, Good
<1>3. UNCHANGED <<workspace, disk, loading>>
  BY DEF Integrate, loadVars, diskVars
<1>4. \/ /\ build' = b /\ files' \in {files, left} /\ UNCHANGED <<chunks, call>>
      \/ Swap(b, left)
  BY DEF Integrate
<1>5. Good(table, workspace) /\ build.at = "read"
  BY <1>0, <1>1 DEF BuildOK, Integrate
<1> HIDE DEF batch, todo, left, next, changed, table, reads
<1>6. BuildOK(b, workspace)
  BY <1>0, <1>2, <1>5, BuildIntegrates, Zenon
<1> HIDE DEF b
<1>7. CASE build' = b /\ files' \in {files, left} /\ UNCHANGED <<chunks, call>>
  BY <1>1, <1>3, <1>6, <1>7, InvSame DEF IndexInv
<1>8. CASE Swap(b, left)
  BY <1>3, <1>6, <1>8, SwapStep, InvSame DEF IndexInv
<1> QED BY <1>4, <1>7, <1>8

LEMMA FileStep ==
  ASSUME IndexInv, NEW f \in Files, StatFile(f) \/ ReadFile(f) PROVE IndexInv'
<1>0. BuildOK(build, workspace) /\ workspace \in [Files -> Nat] /\ Good(Lookup, workspace)
  BY LookupGood DEF IndexInv
<1>1. UNCHANGED <<workspace, files, chunks, disk, loading, call>>
  BY DEF StatFile, ReadFile, editorVars, diskVars, tableVars, loadVars
<1>2. CASE StatFile(f) /\ f \in gone
  <2>1. BuildOK(build', workspace)
    BY <1>0, <1>2 DEF StatFile, BuildOK
  <2> QED BY <1>1, <2>1, InvSame DEF IndexInv
<1>3. CASE StatFile(f) /\ f \notin gone
  <2> DEFINE stat == [build.stat EXCEPT ![f] = workspace[f]]
             previous == [build.previous EXCEPT ![f] = Lookup[f]]
  <2>1. /\ build' = [build EXCEPT !.waiting = @ \ {f}, !.stat = stat, !.previous = previous]
        /\ build.at = "stat"
    BY <1>3 DEF StatFile
  <2>2. stat \in [Files -> Nat] /\ \A g \in Files : Noted(g, stat[g], build.read[g], workspace[g])
    BY <1>0, <2>1 DEF BuildOK, Noted
  <2>3. Good(previous, workspace)
    BY <1>0, PutGood DEF BuildOK, Good
  <2> HIDE DEF stat, previous
  <2>4. BuildOK(build', workspace)
    BY <1>0, <2>1, <2>2, <2>3 DEF BuildOK
  <2> QED BY <1>1, <2>4, InvSame DEF IndexInv
<1>4. CASE ReadFile(f)
  <2> DEFINE read == [build.read EXCEPT ![f] = Content(f)]
  <2>1. /\ build' = [build EXCEPT !.waiting = @ \ {f}, !.read = read]
        /\ build.at = "read"
    BY <1>4 DEF ReadFile
  <2>2. Noted(f, build.stat[f], Content(f), workspace[f])
    BY <1>0, ContentNoted DEF BuildOK, Noted
  <2>3. read \in [Files -> Nat] /\ \A g \in Files : Noted(g, build.stat[g], read[g], workspace[g])
    BY <1>0, <2>2, ContentNoted DEF BuildOK
  <2> HIDE DEF read
  <2>4. BuildOK(build', workspace)
    BY <1>0, <2>1, <2>3 DEF BuildOK
  <2> QED BY <1>1, <2>4, InvSame DEF IndexInv
<1> QED BY <1>2, <1>3, <1>4
LEMMA BuildKeeps ==
  ASSUME IndexInv, BuildStep \/ BuildPersistFails PROVE IndexInv'
<1>1. CASE Scan
  <2> DEFINE todo == Files \ gone
  <2>1. build' = [build EXCEPT !.at = "stat", !.todo = todo, !.waiting = todo]
    BY <1>1 DEF Scan
  <2>2. BuildOK(build, workspace) /\ build.at = "scan"
    BY <1>1 DEF Scan, IndexInv
  <2> HIDE DEF todo
  <2>3. BuildOK(build', workspace)
    BY <2>1, <2>2 DEF BuildOK
  <2>4. UNCHANGED <<workspace, files, chunks, disk, loading, call>>
    BY <1>1 DEF Scan, editorVars, diskVars, tableVars, loadVars
  <2> QED BY <2>3, <2>4, InvSame DEF IndexInv
<1>2. CASE BuildEmbedded
  <2>1. CommitBuild(build, files) /\ UNCHANGED <<workspace, files, disk, loading>>
    BY <1>2 DEF BuildEmbedded, loadVars, diskVars
  <2> QED BY <2>1, CommitBuildStep, InvSame DEF IndexInv
<1>3. CASE BuildPersisted
  <2>1. EndBuild(TRUE) /\ UNCHANGED <<workspace, files, chunks, loading>> /\ disk' = build.image
    BY <1>3 DEF BuildPersisted, loadVars, tableVars, diskVars
  <2>2. Good(disk', workspace)
    BY <2>1 DEF IndexInv, BuildOK
  <2> QED BY <2>1, <2>2, EndBuildCalls, InvSame DEF IndexInv
<1>4. CASE BuildPersistFails
  <2>1. EndBuild(FALSE) /\ UNCHANGED <<workspace, files, chunks, loading, disk>>
    BY <1>4 DEF BuildPersistFails, loadVars, tableVars, diskVars
  <2> QED BY <2>1, EndBuildCalls, InvSame DEF IndexInv
<1>5. ASSUME NEW f \in Files, StatFile(f) \/ ReadFile(f) PROVE IndexInv'
  BY <1>5, FileStep
<1> QED BY <1>1, <1>2, <1>3, <1>4, <1>5, PlanStep, IntegrateStep DEF BuildStep

-----------------------------------------------------------------------------
(* The steps of a request.                                                 *)
LEMMA CallCommits ==
  ASSUME NEW ws, NEW r, CallOK(r, ws), NEW t, Good(t, ws)
  PROVE  CallOK([r EXCEPT !.at = "persist", !.image = t], ws)
<1> DEFINE r1 == [r EXCEPT !.at = "persist"]
<1>1. CallOK(r1, ws)
  BY DEF CallOK
<1> HIDE DEF r1
<1>2. CallOK([r1 EXCEPT !.image = t], ws)
  BY <1>1 DEF CallOK
<1> QED BY <1>2, Zenon DEF r1

LEMMA CallStats ==
  ASSUME NEW ws, NEW r, CallOK(r, ws), r.at = "stat", NEW s, Noted(r.f, s, 0, ws[r.f])
  PROVE  CallOK([r EXCEPT !.at = "read", !.stat = s], ws)
<1> DEFINE r1 == [r EXCEPT !.at = "read"]
<1>1. CallOK(r1, ws) /\ r1.content = 0 /\ r1.f = r.f
  BY DEF CallOK
<1> HIDE DEF r1
<1>2. CallOK([r1 EXCEPT !.stat = s], ws)
  BY <1>1 DEF CallOK
<1> QED BY <1>2, Zenon DEF r1

LEMMA CallReads ==
  ASSUME NEW ws, NEW r, CallOK(r, ws), r.at = "read", NEW text, Noted(r.f, r.stat, text, ws[r.f])
  PROVE  CallOK([r EXCEPT !.at = "land", !.content = text], ws)
<1> DEFINE r1 == [r EXCEPT !.at = "land"]
<1>1. CallOK(r1, ws) /\ r1.at = "land" /\ r1.stat = r.stat /\ r1.f = r.f
  BY DEF CallOK
<1> HIDE DEF r1
<1>2. CallOK([r1 EXCEPT !.content = text], ws)
  BY <1>1 DEF CallOK
<1> QED BY <1>2, Zenon DEF r1

LEMMA CommitStep ==
  ASSUME IndexInv, NEW c \in Calls, NEW table, Good(table, workspace), Commit(c, table)
  PROVE  IndexInv'
<1>1. call' = [call EXCEPT ![c].at = "persist", ![c].image = table]
  BY DEF Commit
<1> DEFINE r == [call[c] EXCEPT !.at = "persist", !.image = table]
<1>2. CallOK(call[c], workspace)
  BY DEF IndexInv, CallsOK
<1>3. CallOK(r, workspace)
  BY <1>2, CallCommits, Zenon
<1>4. call' = [call EXCEPT ![c] = r]
  <2>1. call = [d \in Calls |-> call[d]]
    BY DEF IndexInv, CallsOK
  <2> QED BY <1>1, <2>1
<1> HIDE DEF r
<1>5. CallsOK(call', workspace)
  BY <1>3, <1>4, CallPut DEF IndexInv
<1>6. UNCHANGED <<workspace, loading, build, disk>> /\ files' = table /\ chunks' = table
  BY DEF Commit, editorVars, diskVars, loadVars
<1> QED BY <1>5, <1>6, InvSame DEF IndexInv

LEMMA DroppedGood ==
  ASSUME IndexInv, NEW c \in Calls, call[c].f \in Files PROVE Good(Dropped(c), workspace)
BY DropGood DEF IndexInv, Dropped

(* A request whose record alone changes.                                   *)
LEMMA OneCall ==
  ASSUME IndexInv, NEW c \in Calls, NEW r, CallOK(r, workspace),
         call' = [call EXCEPT ![c] = r], Good(disk', workspace),
         UNCHANGED <<workspace, files, chunks, loading, build>>
  PROVE  IndexInv'
<1>1. CallsOK(call', workspace)
  BY CallPut DEF IndexInv
<1> QED BY <1>1, InvSame DEF IndexInv

LEMMA CallKeeps ==
  ASSUME IndexInv, NEW c \in Calls, CallStep(c) \/ PersistFails(c) PROVE IndexInv'
<1>0. /\ CallOK(call[c], workspace) /\ workspace \in [Files -> Nat]
      /\ call = [d \in Calls |-> call[d]] /\ Good(files, workspace)
  BY DEF IndexInv, CallsOK
<1>1. CASE RemoveReported(c)
  <2>1. call[c].f \in Files /\ Commit(c, Dropped(c))
    BY <1>0, <1>1 DEF RemoveReported, CallOK
  <2> QED BY <2>1, DroppedGood, CommitStep
<1>2. CASE StatSaved(c)
  <2>1. call[c].f \in Files /\ call[c].at = "stat"
    BY <1>0, <1>2 DEF StatSaved, CallOK
  <2>2. CASE Commit(c, Dropped(c))
    BY <2>1, <2>2, DroppedGood, CommitStep
  <2>3. CASE /\ call' = [call EXCEPT ![c].at = "read", ![c].stat = workspace[call[c].f]]
             /\ UNCHANGED <<workspace, files, chunks, loading, build, disk>>
    <3> DEFINE now == workspace[call[c].f]
               r == [call[c] EXCEPT !.at = "read", !.stat = now]
    <3>1. Noted(call[c].f, now, 0, workspace[call[c].f])
      BY <1>0, <2>1 DEF Noted
    <3> HIDE DEF now
    <3>2. CallOK(r, workspace)
      BY <1>0, <2>1, <3>1, CallStats, Zenon
    <3>3. call' = [call EXCEPT ![c] = r]
      BY <1>0, <2>3 DEF now
    <3> HIDE DEF r
    <3> QED BY <2>3, <3>2, <3>3, OneCall DEF IndexInv
  <2> QED BY <1>2, <2>2, <2>3 DEF StatSaved, editorVars, diskVars, tableVars, loadVars
<1>3. CASE ReadSaved(c)
  <2>1. call[c].f \in Files /\ call[c].at = "read" /\ call[c].content = 0
    BY <1>0, <1>3 DEF ReadSaved, CallOK
  <2> DEFINE text == Content(call[c].f)
             r == [call[c] EXCEPT !.at = "land", !.content = text]
  <2>2. Noted(call[c].f, call[c].stat, text, workspace[call[c].f])
    <3>1. /\ text \in Nat /\ text \in {0, workspace[call[c].f]}
          /\ call[c].f \in Blank => text = 0
          /\ workspace[call[c].f] \in Nat
      BY <2>1, ContentNoted
    <3>2. Noted(call[c].f, call[c].stat, 0, workspace[call[c].f])
      BY <1>0, <2>1 DEF CallOK
    <3> HIDE DEF text
    <3> QED BY <3>1, <3>2 DEF Noted
  <2> HIDE DEF text
  <2>3. CallOK(r, workspace)
    BY <1>0, <2>1, <2>2, CallReads, Zenon
  <2>4. call' = [call EXCEPT ![c] = r]
    BY <1>0, <1>3 DEF ReadSaved, text
  <2> HIDE DEF r
  <2>5. UNCHANGED <<workspace, files, chunks, loading, build, disk>>
    BY <1>3 DEF ReadSaved, editorVars, diskVars, tableVars, loadVars
  <2> QED BY <2>3, <2>4, <2>5, OneCall DEF IndexInv
<1>4. ASSUME call[c].at \in {"land", "embed"}
      PROVE  LET f == call[c].f IN
             /\ f \in Files
             /\ Good([files EXCEPT ![f] = Facts(f, call[c].stat, call[c].content)], workspace)
  <2> DEFINE f == call[c].f
             entry == Facts(f, call[c].stat, call[c].content)
  <2>1. f \in Files /\ Noted(f, call[c].stat, call[c].content, workspace[f])
    BY <1>0, <1>4 DEF CallOK
  <2>2. workspace[f] \in Nat
    BY <1>0, <2>1
  <2>3. /\ entry \in Entries /\ entry.stat <= entry.content /\ entry.content <= workspace[f]
        /\ f \in Blank => entry.content = 0
    BY <2>1, <2>2, FactsNoted
  <2> HIDE DEF entry
  <2>4. Good([files EXCEPT ![f] = entry], workspace)
    BY <1>0, <2>1, <2>3, PutGood
  <2> QED BY <2>1, <2>4 DEF entry
<1>5. CASE Land(c)
  <2>1. call[c].at = "land"
    BY <1>5 DEF Land
  <2>2. CASE Commit(c, Dropped(c))
    BY <1>4, <2>1, <2>2, DroppedGood, CommitStep
  <2>3. CASE Commit(c, [files EXCEPT ![call[c].f] =
                          Facts(call[c].f, call[c].stat, call[c].content)])
    BY <1>4, <2>1, <2>3, CommitStep
  <2>4. CASE /\ call' = [call EXCEPT ![c].at = "embed"]
             /\ UNCHANGED <<editorVars, tableVars, loadVars, build, disk>>
    <3>1. CallOK([call[c] EXCEPT !.at = "embed"], workspace)
      BY <1>0, <2>1 DEF CallOK
    <3>2. call' = [call EXCEPT ![c] = [call[c] EXCEPT !.at = "embed"]]
      BY <2>4
    <3>3. UNCHANGED <<workspace, files, chunks, loading, build, disk>>
      BY <2>4 DEF editorVars, diskVars, tableVars, loadVars
    <3> QED BY <3>1, <3>2, <3>3, OneCall DEF IndexInv
  <2> QED BY <1>5, <2>2, <2>3, <2>4 DEF Land, diskVars
<1>6. CASE Embedded(c)
  BY <1>4, <1>6, CommitStep DEF Embedded
<1>7. CASE Persisted(c) \/ PersistFails(c)
  <2>1. CallOK(Idle, workspace)
    BY <1>0, Beginnings
  <2>2. Good(disk', workspace)
    BY <1>0, <1>7 DEF Persisted, PersistFails, CallOK, IndexInv, diskVars
  <2>3. /\ call' = [call EXCEPT ![c] = Idle]
        /\ UNCHANGED <<workspace, files, chunks, loading, build>>
    BY <1>7 DEF Persisted, PersistFails, editorVars, diskVars, tableVars, loadVars
  <2> QED BY <2>1, <2>2, <2>3, OneCall
<1> QED BY <1>1, <1>2, <1>3, <1>5, <1>6, <1>7 DEF CallStep

-----------------------------------------------------------------------------
(* The index is loaded, or the daemon starts again.                        *)
LEMMA DetachedOK == ASSUME IndexInv PROVE BuildOK(Detached, workspace)
<1> DEFINE table == IF build.detached THEN build.table ELSE files
           r1 == [build EXCEPT !.detached = TRUE]
<1>1. BuildOK(build, workspace)
  BY DEF IndexInv
<1>2. Good(table, workspace)
  BY <1>1 DEF IndexInv, BuildOK
<1>3. BuildOK(r1, workspace)
  BY <1>1, BuildChanges
<1>4. Detached \in {build, [build EXCEPT !.detached = TRUE, !.table = table]}
  BY DEF Detached
<1> HIDE DEF table, r1
<1>5. BuildOK([r1 EXCEPT !.table = table], workspace)
  BY <1>2, <1>3, BuildTables
<1>6. BuildOK([build EXCEPT !.detached = TRUE, !.table = table], workspace)
  BY <1>5, Zenon DEF r1
<1> QED BY <1>1, <1>4, <1>6

LEMMA LoadKeeps ==
  ASSUME IndexInv, ReadDisk \/ Loaded PROVE IndexInv'
<1>0. /\ BuildOK(build, workspace) /\ CallsOK(call, workspace)
      /\ workspace \in [Files -> Nat] /\ Good(loading.image, workspace)
  BY DEF IndexInv
<1>1. CASE ReadDisk
  <2>1. /\ loading'.image = disk
        /\ UNCHANGED <<workspace, files, chunks, disk, build, call>>
    BY <1>1 DEF ReadDisk, editorVars, diskVars, tableVars
  <2>2. Good(loading'.image, workspace)
    BY <2>1 DEF IndexInv
  <2> QED BY <2>1, <2>2, InvSame DEF IndexInv
<1>2. CASE Loaded
  <2>1. Good(loading'.image, workspace) /\ UNCHANGED <<workspace, disk>>
    BY <1>0, <1>2, EmptyGood DEF Loaded, NotLoading, editorVars, diskVars
  <2>2. Good(files', workspace) /\ Good(chunks', workspace)
    BY <1>0, <1>2 DEF Loaded, tableVars, diskVars, IndexInv
  <2>3. ASSUME build.at = "load" PROVE BuildOK([build EXCEPT !.at = "scan"], workspace)
    BY <1>0, <2>3 DEF BuildOK
  <2>4. BuildOK(build', workspace)
    <3>1. build' \in {build, Detached, [NoBuild EXCEPT !.at = "scan"]}
            \/ (build.at = "load" /\ build' = [build EXCEPT !.at = "scan"])
      BY <1>2 DEF Loaded
    <3> QED BY <1>0, <2>3, <3>1, DetachedOK, Beginnings
  <2>5. ASSUME NEW c \in Calls, call[c].at = "load"
        PROVE  /\ CallOK(Onward(call[c]), workspace)
               /\ CallOK([call[c] EXCEPT !.at = "wait"], workspace)
    <3>1. CallOK(call[c], workspace) /\ call[c].content = 0
      BY <1>0, <2>5 DEF CallsOK, CallOK
    <3> QED BY <1>0, <3>1, Moves
  <2>6. CallsOK(call', workspace)
    <3>1. CASE call' = [c \in Calls |-> IF call[c].at = "load" THEN Onward(call[c]) ELSE call[c]]
      BY <1>0, <2>5, <3>1 DEF CallsOK
    <3>2. ASSUME NEW c \in Calls, call[c].at = "load",
                 \/ call' = [call EXCEPT ![c] = Onward(@)]
                 \/ call' = [call EXCEPT ![c].at = "wait"]
          PROVE  CallsOK(call', workspace)
      <4>1. \/ call' = [call EXCEPT ![c] = Onward(call[c])]
            \/ call' = [call EXCEPT ![c] = [call[c] EXCEPT !.at = "wait"]]
        BY <3>2
      <4>2. /\ CallsOK([call EXCEPT ![c] = Onward(call[c])], workspace)
            /\ CallsOK([call EXCEPT ![c] = [call[c] EXCEPT !.at = "wait"]], workspace)
        BY <1>0, <2>5, <3>2, CallPut, Zenon
      <4> QED BY <4>1, <4>2
    <3>3. CASE UNCHANGED call
      BY <1>0, <3>3
    <3> QED BY <1>2, <3>1, <3>2, <3>3 DEF Loaded
  <2> QED BY <2>1, <2>2, <2>4, <2>6, InvSame DEF IndexInv
<1> QED BY <1>1, <1>2

LEMMA RestartKeeps ==
  ASSUME IndexInv, Restart PROVE IndexInv'
<1>1. workspace \in [Files -> Nat] /\ UNCHANGED <<workspace, disk>>
  BY DEF IndexInv, Restart, diskVars
<1>2. Good(files', workspace) /\ Good(chunks', workspace) /\ Good(loading'.image, workspace)
  BY <1>1, EmptyGood DEF Restart, NotLoading
<1>3. BuildOK(build', workspace)
  BY <1>1, Beginnings DEF Restart
<1>4. CallsOK(call', workspace)
  BY <1>1, Beginnings DEF Restart, CallsOK
<1> QED BY <1>1, <1>2, <1>3, <1>4, InvSame DEF IndexInv

LEMMA IndexStep == IndexInv /\ [Next]_vars => IndexInv'
<1> SUFFICES ASSUME IndexInv, [Next]_vars PROVE IndexInv'
  OBVIOUS
<1>1. CASE Next
  <2>1. ASSUME NEW c \in Calls, RemoveReported(c) PROVE IndexInv'
    BY <2>1, CallKeeps DEF CallStep
  <2> QED BY <1>1, <2>1, PlanStep, IntegrateStep, BuildKeeps, LoadKeeps, RestartKeeps,
             EditorKeeps, CallKeeps, Zenon DEF Next
<1>2. CASE UNCHANGED vars
  <2>1. UNCHANGED <<workspace, files, chunks, disk, loading, build, call>>
    BY <1>2 DEF vars, editorVars, diskVars, tableVars, loadVars
  <2> QED BY <2>1, InvSame DEF IndexInv
<1> QED BY <1>1, <1>2

LEMMA IndexStart == Init => IndexInv
<1> SUFFICES ASSUME Init PROVE IndexInv
  OBVIOUS
<1>1. workspace = [f \in Files |-> 1] /\ workspace \in [Files -> Nat]
  BY DEF Init
<1>2. Good(Empty, workspace)
  BY <1>1, EmptyGood
<1>3. Good(Image, workspace)
  <2>1. \A f \in Files : Noted(f, workspace[f], Content(f), 1)
    BY <1>1 DEF Content, Noted
  <2>2. \A f \in Files : /\ Facts(f, workspace[f], Content(f)) \in Entries
                         /\ Facts(f, workspace[f], Content(f)).stat
                              <= Facts(f, workspace[f], Content(f)).content
                         /\ Facts(f, workspace[f], Content(f)).content <= 1
                         /\ f \in Blank => Facts(f, workspace[f], Content(f)).content = 0
    BY <2>1, FactsNoted
  <2> QED BY <1>1, <2>2 DEF Image, Good
<1>4. Good(files, workspace) /\ Good(chunks, workspace) /\ Good(disk, workspace)
  BY <1>2, <1>3 DEF Init
<1>5. Good(loading.image, workspace)
  BY <1>2 DEF Init, NotLoading
<1>6. BuildOK(build, workspace) /\ CallsOK(call, workspace)
  BY <1>1, Beginnings DEF Init, CallsOK
<1> QED BY <1>1, <1>4, <1>5, <1>6 DEF IndexInv

LEMMA ReuseFollows == IndexInv => ReuseIsSound
<1> SUFFICES ASSUME IndexInv PROVE ReuseIsSound
  OBVIOUS
<1> DEFINE tables == {files, chunks, disk, loading.image, build.next, build.previous,
                      build.table, build.image} \cup {call[c].image : c \in Calls}
<1>1. \A t \in tables : Good(t, workspace)
  BY DEF IndexInv, BuildOK, CallsOK, CallOK
<1>2. ASSUME NEW t, Good(t, workspace), NEW f \in Files, t[f].stat = workspace[f]
      PROVE  t[f].content = workspace[f]
  <2>1. t[f] \in Entries /\ t[f].stat <= t[f].content /\ t[f].content <= workspace[f]
    BY <1>2 DEF Good
  <2>2. t[f].stat \in Nat /\ t[f].content \in Nat
    BY <2>1 DEF Entries
  <2> QED BY <1>2, <2>1, <2>2
<1> HIDE DEF tables
<1>3. \A t \in tables : \A f \in Files :
        (t[f] # NoEntry /\ t[f].stat = workspace[f]) => t[f].content = workspace[f]
  BY <1>1, <1>2, Zenon
<1> QED BY <1>3, Zenon DEF ReuseIsSound, tables

(* buildNow() keeps what it knows of a file whose size and mtime have not  *)
(* changed, and updateFile() races it: whatever is saved, deleted, loaded, *)
(* persisted or lost, facts that may be kept are those of the text.        *)
THEOREM StampsAreSound == Spec => []ReuseIsSound
<1>1. Spec => []IndexInv
  BY IndexStart, IndexStep, PTL DEF Spec
<1>2. []IndexInv => []ReuseIsSound
  BY ReuseFollows, PTL
<1> QED BY <1>1, <1>2, PTL

-----------------------------------------------------------------------------
(* The invariant of SavedIsIndexed.  An entry is right if it holds the     *)
(* text of its file, or nothing and not every file fits.                   *)
Right(e, text) == e.content \in {0, text} /\ (Roomy => e.content = text)

(* A request that is still going to change the index of this file.         *)
Open(r, f) == r.at \notin {"idle", "persist"} /\ r.op \in Changes /\ r.f = f
Pending(f) == \E c \in Calls : Open(call[c], f)

(* What the index knows of a file: a build puts aside what it is done with. *)
Live(f) == IF build.next[f] = NoEntry THEN files[f] ELSE build.next[f]

Alone ==
  \A c, d \in InFlight :
    call[c].op \in Changes /\ call[d].op \in Changes /\ call[c].f = call[d].f
      => c = d \/ call[c].f \in unsure
Answered ==
  \A c \in Calls :
    call[c].at \in {"stat", "read", "land", "embed", "remove", "persist"} => stats

(* A request that met no other has the stat and the text of its file.      *)
Fresh(r) ==
  /\ r.at \in {"read", "land", "embed"} => r.stat = workspace[r.f] /\ r.f \notin gone
  /\ r.at \in {"land", "embed"} => r.content = Content(r.f)
  /\ r.op = "remove" => r.f \in gone
CallsFresh ==
  \A c \in InFlight : call[c].op \in Changes /\ call[c].f \notin unsure => Fresh(call[c])
Proper(r) ==
  /\ r.at \in {"stat", "read", "land", "embed"} => r.op = "update"
  /\ r.at = "remove" => r.op = "remove"
CallsProper == \A c \in Calls : Proper(call[c])

(* What a build has found out about a file that no request met.            *)
Found(b, f) ==
  /\ b.at = "stat" => /\ f \in b.todo <=> f \notin gone
                      /\ f \in b.todo \ b.waiting => b.stat[f] = workspace[f]
  /\ b.at = "read" => /\ f \in b.todo => b.stat[f] = workspace[f] /\ f \notin gone
                      /\ f \in Reads(b, b.todo) \ b.waiting => b.read[f] = Content(f)
                      /\ f \notin b.todo => Right(b.next[f], Content(f))
  /\ b.at = "embed" => Right(files[f], Content(f)) /\ Right(b.next[f], Content(f))
  /\ b.at = "persist" => Right(files[f], Content(f)) /\ Right(chunks[f], Content(f))
Shaped(b) ==
  /\ b.waiting \subseteq b.todo /\ b.todo \subseteq Files
  /\ b.at \in {"none", "load", "scan", "stat"} => b.next = Empty
  /\ b.at = "none" <=> b = NoBuild
  /\ b.at \in {"none", "load", "scan", "stat", "read", "embed", "persist"}
  /\ b.at = "persist" => stats
  /\ b.at = "read" => \A f \in b.todo : b.next[f] = NoEntry
BuildFinds == \A f \in Files \ met : ~Pending(f) => Found(build, f)

Served ==
  stats => \A f \in Files \ unsure :
             ~Pending(f) => /\ Right(Live(f), Content(f))
                            /\ build = NoBuild => Right(chunks[f], Content(f))
Stored ==
  ~stats => /\ loading.at = "read" => stored /\ loading.image = disk
            /\ \A f \in Files \ unsure :
                 ~Pending(f) => ~stored \/ Right(disk[f], Content(f))

CallsSure == Alone /\ Answered /\ CallsFresh /\ CallsProper
SureInv ==
  /\ met \subseteq unsure /\ CallsSure /\ Shaped(build) /\ BuildFinds /\ Served /\ Stored

(* The file holds what has been answered, and what is about to be written  *)
(* holds it too: but for the files that a persist may have left behind.    *)
OnDisk ==
  stored => \A f \in Files \ (unsure \cup unsaved) :
              f \notin Touched => Right(disk[f], Content(f))
CallsWrite ==
  \A c \in Writers : \A f \in Files \ (unsure \cup unsaved) :
    ~Pending(f) => Right(call[c].image[f], Content(f))
BuildWrites ==
  build.at = "persist" =>
    \A f \in Files \ met : ~Pending(f) => Right(build.image[f], Content(f))
DiskInv == OnDisk /\ CallsWrite /\ BuildWrites

-----------------------------------------------------------------------------
(* Every file fits where there is room for all of them.                    *)
LEMMA WeightBound ==
  ASSUME NEW content PROVE Weight(content) \in Nat /\ Weight(content) <= 2 * Cardinality(Files)
<1> DEFINE cells == Files \X {1, 2}
           some == {x \in cells : x[2] <= Size(content[x[1]])}
<1>1. IsFiniteSet(1..2) /\ Cardinality(1..2) = 2
  <2>1. 1 \in Int /\ 2 \in Int /\ ~(1 > 2) /\ 2 - 1 + 1 = 2
    OBVIOUS
  <2> QED BY <2>1, FS_Interval, Zenon
<1>2. 1..2 = {1, 2}
  OBVIOUS
<1>3. IsFiniteSet({1, 2}) /\ Cardinality({1, 2}) = 2
  BY <1>1, <1>2, Zenon
<1>4. IsFiniteSet(cells) /\ Cardinality(cells) = Cardinality(Files) * 2
  BY <1>3, FS_Product, FilesAssumption, Zenon
<1>5. some \subseteq cells
  OBVIOUS
<1>6. IsFiniteSet(some) /\ Cardinality(some) <= Cardinality(cells)
  BY <1>4, <1>5, FS_Subset, Zenon
<1>7. Cardinality(some) \in Nat /\ Cardinality(Files) \in Nat
  BY <1>6, FS_CardinalityType, FilesAssumption, Zenon
<1>8. Weight(content) = Cardinality(some)
  BY Zenon DEF Weight
<1> HIDE DEF some, cells
<1> QED BY <1>4, <1>6, <1>7, <1>8

LEMMA RoomFits ==
  ASSUME Roomy
  PROVE  /\ \A b : Accepted(b) = b.todo
         /\ \A f, e : Fits(f, e)
<1>1. MaxBytes \in Nat /\ Cardinality(Files) \in Nat
  BY BoundsAssumption, FilesAssumption, FS_CardinalityType, Zenon
<1>2. ASSUME NEW content PROVE Weight(content) <= MaxBytes
  <2>1. Weight(content) \in Nat /\ Weight(content) <= 2 * Cardinality(Files)
    BY WeightBound
  <2> QED BY <1>1, <2>1 DEF Roomy
<1>3. ASSUME NEW b PROVE Accepted(b) = b.todo
  <2>1. \A f : Planned(b, UpTo(f, b.todo)) <= MaxBytes
    BY <1>2, Zenon DEF Planned
  <2> QED BY <2>1 DEF Accepted
<1>4. ASSUME NEW f, NEW e PROVE Fits(f, e)
  BY <1>2, Zenon DEF Fits, Bytes
<1> QED BY <1>3, <1>4

(* The texts of the files, and the requests, are as they were.             *)
LEMMA SameTexts ==
  ASSUME UNCHANGED <<workspace, gone>> PROVE \A f \in Files : Content(f)' = Content(f)
BY DEF Content

LEMMA SameCalls ==
  ASSUME UNCHANGED call
  PROVE  InFlight' = InFlight /\ \A f \in Files : Pending(f)' <=> Pending(f)
BY DEF InFlight, Pending

LEMMA CallsStay ==
  ASSUME CallsSure, UNCHANGED <<workspace, gone, call>>, stats => stats', unsure \subseteq unsure'
  PROVE  CallsSure'
<1>1. InFlight' = InFlight /\ \A c \in InFlight : c \in Calls
  BY SameCalls DEF InFlight
<1>2. Alone' /\ Answered' /\ CallsProper'
  BY <1>1 DEF CallsSure, Alone, Answered, CallsProper, Proper
<1>3. CallsFresh'
  <2>1. \A r : Fresh(r)' <=> Fresh(r)
    BY DEF Fresh, Content
  <2> QED BY <1>1, <2>1 DEF CallsSure, CallsFresh
<1> QED BY <1>2, <1>3 DEF CallsSure

(* A step of a build that answers no request.                              *)
LEMMA BuildGoes ==
  ASSUME SureInv, UNCHANGED <<workspace, gone, call, unsure, met, loading, disk, stored>>,
         stats => stats', build' # NoBuild, Shaped(build)', BuildFinds',
         stats' => \A f \in Files \ unsure : ~Pending(f) => Right(Live(f)', Content(f))
  PROVE  SureInv'
<1>1. CallsSure'
  BY CallsStay DEF SureInv
<1>2. Served'
  BY SameTexts, SameCalls DEF Served, Right
<1>3. Stored'
  BY SameTexts, SameCalls DEF SureInv, Stored, Right
<1>4. met' \subseteq unsure'
  BY DEF SureInv
<1> QED BY <1>1, <1>2, <1>3, <1>4 DEF SureInv

(* What has been found out, seen from here.                                *)
LEMMA FoundHere ==
  ASSUME SureInv, NEW f \in Files \ met, ~Pending(f) PROVE Found(build, f)
BY DEF SureInv, BuildFinds

LEMMA LiveHere ==
  ASSUME SureInv, stats, NEW f \in Files \ unsure, ~Pending(f)
  PROVE  Right(Live(f), Content(f)) /\ f \in Files \ met
BY DEF SureInv, Served

LEMMA NothingRight ==
  ASSUME NEW text PROVE NoEntry.content = 0 /\ (text = 0 \/ ~Roomy => Right(NoEntry, text))
BY DEF NoEntry, Right

(* What a build is made of, as a record.                                   *)
LEMMA BuildFields ==
  ASSUME IndexInv
  PROVE  build = [at |-> build.at, todo |-> build.todo, waiting |-> build.waiting,
                  stat |-> build.stat, previous |-> build.previous, read |-> build.read,
                  next |-> build.next, changed |-> build.changed,
                  detached |-> build.detached, table |-> build.table,
                  image |-> build.image]
BY DEF IndexInv, BuildOK

LEMMA ScanSure ==
  ASSUME IndexInv, SureInv, Scan PROVE SureInv'
<1> DEFINE there == Files \ gone
<1>1. /\ build.at = "scan"
      /\ build' = [build EXCEPT !.at = "stat", !.todo = there, !.waiting = there]
      /\ UNCHANGED <<workspace, gone, call, unsure, met, loading, disk, stored, files, chunks, stats>>
  BY DEF Scan, editorVars, diskVars, tableVars, loadVars, historyVars
<1> HIDE DEF there
<1>2. /\ build'.at = "stat" /\ build'.todo = there /\ build'.waiting = there
      /\ build'.next = build.next /\ build.next = Empty
  BY <1>1, BuildFields DEF SureInv, Shaped
<1>3. build' # NoBuild
  BY <1>2 DEF NoBuild
<1>4. Shaped(build)'
  BY <1>2, <1>3 DEF Shaped, there
<1>5. BuildFinds'
  BY <1>1, <1>2 DEF BuildFinds, Found, there
<1>6. stats' => \A f \in Files \ unsure : ~Pending(f) => Right(Live(f)', Content(f))
  BY <1>1, <1>2, LiveHere DEF Live
<1> QED BY <1>1, <1>3, <1>4, <1>5, <1>6, BuildGoes

LEMMA StatSure ==
  ASSUME IndexInv, SureInv, NEW f \in Files, StatFile(f) PROVE SureInv'
<1>1. /\ build.at = "stat" /\ f \in build.waiting
      /\ UNCHANGED <<workspace, gone, call, unsure, met, loading, disk, stored, files, chunks, stats>>
  BY DEF StatFile, editorVars, diskVars, tableVars, loadVars, historyVars
<1>2. /\ build'.at = "stat" /\ build'.next = build.next
      /\ build'.waiting = build.waiting \ {f}
      /\ build'.todo = IF f \in gone THEN build.todo \ {f} ELSE build.todo
  BY <1>1, BuildFields DEF StatFile
<1>3. build' # NoBuild
  BY <1>2 DEF NoBuild
<1>4. Shaped(build)'
  BY <1>1, <1>2, <1>3 DEF SureInv, Shaped
<1>5. /\ f \notin gone => build'.stat[f] = workspace[f]
      /\ \A g \in Files : g # f => build'.stat[g] = build.stat[g]
  BY <1>1, BuildFields DEF StatFile, IndexInv, BuildOK
<1>6. ASSUME NEW g \in Files \ met, ~Pending(g) PROVE Found(build, g)'
  <2>1. Found(build, g)
    BY <1>6, FoundHere
  <2> QED BY <1>1, <1>2, <1>5, <2>1 DEF Found, SureInv, Shaped
<1>7. BuildFinds'
  BY <1>1, <1>6, SameCalls DEF BuildFinds
<1>8. stats' => \A g \in Files \ unsure : ~Pending(g) => Right(Live(g)', Content(g))
  BY <1>1, <1>2, LiveHere DEF Live
<1> QED BY <1>1, <1>3, <1>4, <1>7, <1>8, BuildGoes

LEMMA ReadSure ==
  ASSUME IndexInv, SureInv, NEW f \in Files, ReadFile(f) PROVE SureInv'
<1>1. /\ build.at = "read" /\ f \in build.waiting
      /\ build' = [build EXCEPT !.waiting = @ \ {f}, !.read[f] = Content(f)]
      /\ UNCHANGED <<workspace, gone, call, unsure, met, loading, disk, stored, files, chunks, stats>>
  BY DEF ReadFile, editorVars, diskVars, tableVars, loadVars, historyVars
<1>2. /\ build'.at = "read" /\ build'.next = build.next /\ build'.todo = build.todo
      /\ build'.waiting = build.waiting \ {f} /\ build'.stat = build.stat
      /\ build'.previous = build.previous
  BY <1>1, BuildFields
<1>3. build' # NoBuild
  BY <1>2 DEF NoBuild
<1>4. Shaped(build)'
  BY <1>1, <1>2, <1>3 DEF SureInv, Shaped
<1>5. build'.read[f] = Content(f) /\ \A g \in Files : g # f => build'.read[g] = build.read[g]
  BY <1>1, BuildFields DEF IndexInv, BuildOK
<1>6. Reads(build, build.todo)' = Reads(build, build.todo)
  BY <1>2 DEF Reads, Unchanged, Batch, UpTo
<1>7. ASSUME NEW g \in Files \ met, ~Pending(g) PROVE Found(build, g)'
  <2>1. Found(build, g) /\ Content(g)' = Content(g)
    BY <1>1, <1>7, FoundHere, SameTexts
  <2>2. /\ g \in build'.todo => build'.stat[g] = workspace'[g] /\ g \notin gone'
        /\ g \notin build'.todo => Right(build'.next[g], Content(g)')
    BY <1>1, <1>2, <2>1 DEF Found
  <2>3. g \in Reads(build, build.todo)' \ build'.waiting => build'.read[g] = Content(g)'
    BY <1>1, <1>2, <1>5, <1>6, <2>1 DEF Found
  <2> QED BY <1>2, <2>2, <2>3 DEF Found
<1>8. BuildFinds'
  BY <1>1, <1>7, SameCalls DEF BuildFinds
<1>9. stats' => \A g \in Files \ unsure : ~Pending(g) => Right(Live(g)', Content(g))
  BY <1>1, <1>2, LiveHere DEF Live
<1> QED BY <1>1, <1>3, <1>4, <1>8, <1>9, BuildGoes

-----------------------------------------------------------------------------
(* A request that waited goes on, waits for something else, or is over.    *)
Goes(r, s) ==
  s = r \/ (r.at \in {"load", "wait"} /\ s \in {Onward(r), [r EXCEPT !.at = "wait"], Idle})
Started == {"stat", "remove"}
(* The files whose requests a step rejects.                                *)
Abandons(c) == call'[c] = Idle /\ call[c].at # "idle" /\ call[c].op \in Changes
Abandoned == {call[c].f : c \in {d \in Calls : Abandons(d)}}

LEMMA GoesOn ==
  ASSUME NEW r, CallOK(r, workspace), NEW s, Goes(r, s), r.op \in Changes
  PROVE  /\ s = r \/ s.at \in {"wait", "idle"} \cup Started
         /\ s.at # "idle" => s.op = r.op /\ s.f = r.f /\ r.at # "idle"
         /\ s # r /\ s.at = "stat" => s.op = "update"
         /\ s # r /\ s.at = "remove" => s.op = "remove"
         /\ s # r /\ s.at = "idle" => s = Idle
<1>0. CASE s = r
  BY <1>0
<1>i. CASE s = Idle /\ s # r
  BY <1>i DEF Idle
<1>1. CASE r.at \in {"load", "wait"} /\ s = [r EXCEPT !.at = "wait"]
  BY <1>1 DEF CallOK
<1>2. CASE r.at \in {"load", "wait"} /\ r.op = "update" /\ s = Onward(r)
  <2>1. s = [r EXCEPT !.at = "stat"]
    BY <1>2 DEF Onward
  <2> QED BY <1>2, <2>1 DEF CallOK, Started
<1>3. CASE r.at \in {"load", "wait"} /\ r.op = "remove" /\ s = Onward(r)
  <2>1. s = [r EXCEPT !.at = "remove"]
    BY <1>3 DEF Onward
  <2> QED BY <1>3, <2>1 DEF CallOK, Started
<1> QED BY <1>0, <1>i, <1>1, <1>2, <1>3 DEF Goes, Changes

LEMMA GoesElse ==
  ASSUME NEW r, CallOK(r, workspace), NEW s, Goes(r, s), r.op \notin Changes
  PROVE  /\ s.op \notin Changes
         /\ s = r \/ s.at \in {"wait", "idle"}
<1>0. CASE s = r
  BY <1>0
<1>i. CASE s = Idle
  BY <1>i DEF Idle, Changes
<1>1. CASE r.at \in {"load", "wait"} /\ s = [r EXCEPT !.at = "wait"]
  BY <1>1 DEF CallOK
<1>2. CASE r.at \in {"load", "wait"} /\ s = Onward(r)
  BY <1>i, <1>2 DEF Onward, Changes
<1> QED BY <1>0, <1>i, <1>1, <1>2 DEF Goes

LEMMA CallsAdvance ==
  ASSUME IndexInv, CallsSure, UNCHANGED <<workspace, gone>>, stats => stats',
         \A c \in Calls : Goes(call[c], call'[c]),
         \A c \in Calls : call'[c] # call[c] /\ call'[c].at \in Started => stats',
         unsure \cap Touched \subseteq unsure',
         Abandoned \subseteq unsure'
  PROVE  CallsSure' /\ \A f \in Files \ Abandoned : Pending(f) => Pending(f)'
<1>1. \A c \in Calls : CallOK(call[c], workspace)
  BY DEF IndexInv, CallsOK
<1>2. ASSUME NEW c \in Calls, call'[c].op \in Changes, call'[c].at # "idle"
      PROVE  /\ call[c].op = call'[c].op /\ call[c].f = call'[c].f /\ c \in InFlight
             /\ call'[c] = call[c] \/ call'[c].at \in {"wait"} \cup Started
             /\ call[c].f \in unsure => call[c].f \in unsure'
  <2>1. Goes(call[c], call'[c]) /\ CallOK(call[c], workspace)
    BY <1>1
  <2>2. call[c].op \in Changes
    BY <1>2, <2>1, GoesElse
  <2>3. /\ call'[c] = call[c] \/ call'[c].at \in {"wait", "idle"} \cup Started
        /\ call'[c].op = call[c].op /\ call'[c].f = call[c].f /\ call[c].at # "idle"
    BY <1>2, <2>1, <2>2, GoesOn
  <2>4. c \in InFlight /\ call[c].f \in Touched
    BY <2>2, <2>3 DEF InFlight, Touched
  <2> QED BY <1>2, <2>3, <2>4
<1>3. Alone'
  BY <1>2 DEF CallsSure, Alone, InFlight
<1>4. Answered'
  <2> SUFFICES ASSUME NEW c \in Calls, ~stats',
                      call'[c].at \in {"stat", "read", "land", "embed", "remove", "persist"}
               PROVE  FALSE
    BY DEF Answered
  <2>1. call'[c] # call[c]
    BY DEF CallsSure, Answered
  <2>2. Goes(call[c], call'[c]) /\ CallOK(call[c], workspace)
    BY <1>1
  <2>3. call'[c].at \in {"wait", "idle"} \cup Started
    BY <2>1, <2>2, GoesOn, GoesElse
  <2> QED BY <2>1, <2>3
<1>5. CallsFresh'
  <2> SUFFICES ASSUME NEW c \in InFlight', call'[c].op \in Changes, call'[c].f \notin unsure'
               PROVE  Fresh(call[c])'
    BY DEF CallsFresh
  <2>1. /\ c \in Calls /\ call[c].op = call'[c].op /\ call[c].f = call'[c].f /\ c \in InFlight
        /\ call'[c] = call[c] \/ call'[c].at \in {"wait"} \cup Started
        /\ call[c].f \notin unsure
    BY <1>2 DEF InFlight
  <2>2. Fresh(call[c])
    BY <2>1 DEF CallsSure, CallsFresh
  <2> QED BY <2>1, <2>2 DEF Fresh, Content, Started
<1>6. CallsProper'
  <2> SUFFICES ASSUME NEW c \in Calls, call'[c] # call[c] PROVE Proper(call'[c])
    BY DEF CallsProper, CallsSure, Proper
  <2>1. Goes(call[c], call'[c]) /\ CallOK(call[c], workspace)
    BY <1>1
  <2> QED BY <2>1, GoesOn, GoesElse DEF Proper, Started
<1>7. ASSUME NEW f \in Files \ Abandoned, NEW c \in Calls, Open(call[c], f)
      PROVE  Open(call'[c], f)
  <2>1. Goes(call[c], call'[c]) /\ CallOK(call[c], workspace) /\ call[c].op \in Changes
    BY <1>1, <1>7 DEF Open
  <2>2. call'[c] # Idle
    BY <1>7 DEF Open, Abandoned, Abandons
  <2>3. call'[c].at # "idle"
    BY <2>1, <2>2, <1>7, GoesOn DEF Open
  <2> QED BY <1>2, <1>7, <2>1, <2>3, GoesOn DEF Open, Started
<1> QED BY <1>3, <1>4, <1>5, <1>6, <1>7, Zenon DEF CallsSure, Pending

LEMMA OnwardGoes ==
  ASSUME NEW r, CallOK(r, workspace), r.op \in Changes PROVE Onward(r).at \in Started
<1>1. CASE r.op = "update"
  <2>1. Onward(r) = [r EXCEPT !.at = "stat"]
    BY <1>1 DEF Onward
  <2> QED BY <2>1 DEF CallOK, Started
<1>2. CASE r.op = "remove"
  <2>1. Onward(r) = [r EXCEPT !.at = "remove"]
    BY <1>2 DEF Onward
  <2> QED BY <2>1 DEF CallOK, Started
<1> QED BY <1>1, <1>2 DEF Changes

LEMMA NoBuildSure ==
  /\ NoBuild.at = "none" /\ NoBuild.next = Empty /\ NoBuild.todo = {} /\ NoBuild.waiting = {}
  /\ \A f : Found(NoBuild, f)
  /\ Shaped(NoBuild) /\ Shaped(NoBuild)'
<1>1. /\ NoBuild.at = "none" /\ NoBuild.next = Empty
      /\ NoBuild.todo = {} /\ NoBuild.waiting = {}
  BY DEF NoBuild
<1> QED BY <1>1 DEF Found, Shaped

(* The end of a build: those who wait for it go on or are rejected.        *)
LEMMA EndBuildGoes ==
  ASSUME IndexInv, NEW ok \in BOOLEAN, EndBuild(ok)
  PROVE  (\A c \in Calls : Goes(call[c], call'[c])) /\ Abandoned \subseteq unsure'
<1>1. call' = [c \in Calls |-> IF call[c].at = "wait" THEN Settled(call[c], ok) ELSE call[c]]
  BY DEF EndBuild
<1>2. \A c \in Calls : Goes(call[c], call'[c])
  BY <1>1 DEF Goes, Settled
<1>3. ASSUME NEW c \in Calls, Abandons(c) PROVE call[c].f \in unsure'
  <2>0. call'[c] = Idle /\ call[c].at # "idle" /\ call[c].op \in Changes
    BY <1>3 DEF Abandons
  <2>1. call[c].at = "wait"
    BY <1>1, <2>0 DEF Idle
  <2>2. ~ok
    <3>1. Onward(call[c]).at \in Started
      BY <2>0, OnwardGoes DEF IndexInv, CallsOK
    <3>2. "idle" \notin Started /\ Idle.at = "idle"
      BY DEF Started, Idle
    <3> QED BY <1>1, <2>0, <2>1, <3>1, <3>2 DEF Settled
  <2> QED BY <2>0, <2>1, <2>2 DEF EndBuild
<1> QED BY <1>2, <1>3 DEF Abandoned

(* The end of a build, which has found the files that nothing met.         *)
LEMMA EndBuildSure ==
  ASSUME IndexInv, SureInv, NEW ok \in BOOLEAN, EndBuild(ok), UNCHANGED <<workspace, gone>>, stats',
         \A f \in Files \ met :
           ~Pending(f) => Right(files'[f], Content(f)) /\ Right(chunks'[f], Content(f))
  PROVE  SureInv'
<1>1. /\ build' = NoBuild /\ met' = {} /\ met \subseteq unsure'
      /\ unsure \cap Touched \subseteq unsure'
      /\ call' = [c \in Calls |-> IF call[c].at = "wait" THEN Settled(call[c], ok) ELSE call[c]]
  BY DEF EndBuild
<1>2. (\A c \in Calls : Goes(call[c], call'[c])) /\ Abandoned \subseteq unsure'
  BY EndBuildGoes
<1>4. CallsSure' /\ \A f \in Files \ unsure' : Pending(f) => Pending(f)'
  BY <1>1, <1>2, CallsAdvance DEF SureInv
<1>5. Shaped(build)' /\ BuildFinds'
  <2>1. \A f : Found(NoBuild, f)'
    BY NoBuildSure DEF Found
  <2> QED BY <1>1, <2>1, NoBuildSure DEF BuildFinds
<1>6. Served'
  <2>1. build'.next = Empty /\ \A f \in Files : Empty[f] = NoEntry
    BY <1>1, NoBuildSure DEF Empty
  <2>2. ASSUME NEW f \in Files \ unsure', ~Pending(f)'
        PROVE  Right(files'[f], Content(f)') /\ Right(chunks'[f], Content(f)')
    BY <1>1, <1>4, <2>2, SameTexts
  <2> QED BY <2>1, <2>2 DEF Served, Live, Right
<1>7. Stored'
  BY DEF Stored
<1> QED BY <1>1, <1>4, <1>5, <1>6, <1>7 DEF SureInv

(* The end of a build that may persist the table it has made.              *)
LEMMA CommitSure ==
  ASSUME IndexInv, SureInv, NEW b, BuildOK(b, workspace), NEW table, CommitBuild(b, table),
         UNCHANGED <<workspace, gone, loading, disk, stored>>,
         b.waiting \subseteq b.todo, b.todo \subseteq Files,
         \A f \in Files \ met :
           ~Pending(f) => /\ Right(files'[f], Content(f)) /\ Right(table[f], Content(f))
                          /\ Right(b.next[f], Content(f))
  PROVE  SureInv'
<1>1. chunks' = table /\ stats'
  BY DEF CommitBuild
<1>2. CASE EndBuild(TRUE)
  <2>1. TRUE \in BOOLEAN
    OBVIOUS
  <2> QED BY <1>1, <1>2, <2>1, EndBuildSure
<1>3. CASE /\ build' = [b EXCEPT !.at = "persist", !.image = table]
           /\ UNCHANGED <<call, unsure, met>>
  <2>1. /\ build'.at = "persist" /\ build'.next = b.next
        /\ build'.todo = b.todo /\ build'.waiting = b.waiting
    BY <1>3 DEF BuildOK
  <2>2. build' # NoBuild
    BY <2>1, NoBuildSure
  <2>3. Shaped(build)'
    BY <1>1, <2>1, <2>2 DEF Shaped
  <2>4. BuildFinds'
    BY <1>1, <1>3, <2>1, SameCalls, SameTexts DEF BuildFinds, Found, Right
  <2>5. \A f \in Files \ unsure : ~Pending(f) => Right(Live(f)', Content(f))
    BY <2>1 DEF Live, SureInv
  <2> QED BY <1>1, <1>3, <2>2, <2>3, <2>4, <2>5, BuildGoes
<1> QED BY <1>2, <1>3 DEF CommitBuild, historyVars

LEMMA SwapSure ==
  ASSUME IndexInv, SureInv, NEW b, BuildOK(b, workspace), NEW left, Swap(b, left),
         UNCHANGED <<workspace, gone, loading, disk, stored>>,
         b.waiting \subseteq b.todo, b.todo \subseteq Files,
         \A f \in Files \ met : ~Pending(f) => Right(b.next[f], Content(f))
  PROVE  SureInv'
<1> DEFINE c == [b EXCEPT !.changed = @ \/ Leftovers(left)]
<1>1. /\ BuildOK(c, workspace) /\ c.next = b.next /\ c.todo = b.todo /\ c.waiting = b.waiting
  BY DEF BuildOK
<1>2. files' = b.next
  BY DEF Swap
<1>3. \/ /\ build' = [c EXCEPT !.at = "embed"]
         /\ UNCHANGED <<chunks, stats, call, unsure, met>>
      \/ CommitBuild(c, b.next)
  BY DEF Swap, historyVars
<1> HIDE DEF c
<1>4. CASE CommitBuild(c, b.next)
  BY <1>1, <1>2, <1>4, CommitSure
<1>5. CASE build' = [c EXCEPT !.at = "embed"] /\ UNCHANGED <<chunks, stats, call, unsure, met>>
  <2>1. /\ build'.at = "embed" /\ build'.next = b.next
        /\ build'.todo = b.todo /\ build'.waiting = b.waiting
    BY <1>1, <1>5 DEF BuildOK
  <2>2. build' # NoBuild
    BY <2>1, NoBuildSure
  <2>3. Shaped(build)'
    BY <2>1, <2>2 DEF Shaped
  <2>4. BuildFinds'
    BY <1>2, <1>5, <2>1, SameCalls, SameTexts DEF BuildFinds, Found, Right
  <2>5. \A f \in Files \ unsure : ~Pending(f) => Right(Live(f)', Content(f))
    BY <1>2, <2>1 DEF Live, SureInv
  <2> QED BY <1>5, <2>2, <2>3, <2>4, <2>5, BuildGoes
<1> QED BY <1>3, <1>4, <1>5

LEMMA PlanSure ==
  ASSUME IndexInv, SureInv, Plan PROVE SureInv'
<1> DEFINE todo == Accepted(build)
           reads == Reads(build, todo)
           b == [build EXCEPT !.at = "read", !.todo = todo, !.waiting = reads]
<1>1. /\ build.at = "stat" /\ build.waiting = {}
      /\ UNCHANGED <<workspace, gone, loading, disk, stored>>
      /\ \/ todo # {} /\ build' = b /\ UNCHANGED <<files, chunks, stats, call, unsure, met>>
         \/ todo = {} /\ Swap(b, Lookup)
  BY DEF Plan, loadVars, tableVars, diskVars, historyVars
<1>2. todo \subseteq build.todo /\ (Roomy => todo = build.todo)
  BY RoomFits, Zenon DEF Accepted
<1>3. reads \subseteq todo
  BY DEF Reads, Batch
<1> HIDE DEF todo, reads
<1>4. BuildOK(b, workspace)
  BY BuildReads, Zenon DEF IndexInv
<1>5. /\ b.at = "read" /\ b.todo = todo /\ b.waiting = reads /\ b.next = build.next
      /\ b.stat = build.stat /\ b.previous = build.previous /\ b.read = build.read
  BY BuildFields
<1>6. build.next = Empty /\ build.todo \subseteq Files
  BY <1>1 DEF SureInv, Shaped
<1> HIDE DEF b
<1>7. ASSUME NEW f \in Files \ met, ~Pending(f)
      PROVE  /\ f \in todo => build.stat[f] = workspace[f] /\ f \notin gone
             /\ f \notin todo => Right(NoEntry, Content(f))
  <2>1. f \in build.todo => build.stat[f] = workspace[f] /\ f \notin gone
    BY <1>1, <1>7, FoundHere DEF Found
  <2>2. f \notin build.todo => Content(f) = 0
    BY <1>1, <1>7, FoundHere DEF Found, Content
  <2> QED BY <1>2, <2>1, <2>2, NothingRight
<1>8. CASE todo = {} /\ Swap(b, Lookup)
  <2>1. \A f \in Files \ met : ~Pending(f) => Right(b.next[f], Content(f))
    BY <1>5, <1>6, <1>7, <1>8 DEF Empty
  <2> QED BY <1>1, <1>2, <1>3, <1>4, <1>5, <1>6, <1>8, <2>1, SwapSure
<1>9. CASE build' = b /\ UNCHANGED <<files, chunks, stats, call, unsure, met>>
  <2>1. build' # NoBuild
    BY <1>5, <1>9, NoBuildSure
  <2>2. Shaped(build)'
    BY <1>2, <1>3, <1>5, <1>6, <1>9, <2>1 DEF Shaped, Empty
  <2>3. Reads(b, todo) = reads
    BY <1>5 DEF reads, Reads, Unchanged
  <2>4. ASSUME NEW f \in Files \ met, ~Pending(f) PROVE Found(build, f)'
    BY <1>1, <1>5, <1>6, <1>7, <1>9, <2>3, <2>4, SameTexts DEF Found, Right, Empty
  <2>5. BuildFinds'
    BY <1>9, <2>4, SameCalls DEF BuildFinds
  <2>6. stats' => \A f \in Files \ unsure : ~Pending(f) => Right(Live(f)', Content(f))
    BY <1>5, <1>9, LiveHere DEF Live
  <2> QED BY <1>1, <1>9, <2>1, <2>2, <2>5, <2>6, BuildGoes
<1> QED BY <1>1, <1>8, <1>9

(* What a batch makes of a file that nothing met.                          *)
LEMMA ReusedRight ==
  ASSUME IndexInv, NEW f \in Files, Unchanged(build, f), build.stat[f] = workspace[f],
         f \notin gone
  PROVE  Right(build.previous[f], Content(f))
<1> DEFINE e == build.previous[f]
<1>1. /\ e \in Entries /\ e.stat <= e.content /\ e.content <= workspace[f]
      /\ f \in Blank => e.content = 0
  BY DEF IndexInv, BuildOK, Good
<1>2. e # NoEntry /\ e.stat = workspace[f]
  BY DEF Unchanged
<1> HIDE DEF e
<1>3. e = [stat |-> e.stat, content |-> e.content] /\ e.stat \in Nat /\ e.content \in Nat
  BY <1>1 DEF Entries
<1>4. e.content = workspace[f]
  BY <1>1, <1>2, <1>3
<1>5. f \notin Blank
  BY <1>1, <1>2, <1>3, <1>4 DEF NoEntry
<1> QED BY <1>4, <1>5 DEF Right, Content, e

LEMMA FactsRight ==
  ASSUME NEW f, NEW stat, NEW text PROVE Right(Facts(f, stat, text), text)
BY DEF Facts, NoEntry, Right

LEMMA IntegrateSure ==
  ASSUME IndexInv, SureInv, Integrate PROVE SureInv'
<1> DEFINE batch == Batch(build.todo)
           todo == build.todo \ batch
           left == [f \in Files |-> IF f \in batch THEN NoEntry ELSE Lookup[f]]
           next == [f \in Files |->
                      IF f \notin batch THEN build.next[f]
                      ELSE IF Unchanged(build, f) THEN build.previous[f]
                      ELSE Facts(f, build.stat[f], build.read[f])]
           changed == \/ build.changed
                      \/ \E f \in Reads(build, build.todo) : build.read[f] # 0
           table == IF build.detached THEN left ELSE build.table
           reads == Reads(build, todo)
           b == [build EXCEPT !.todo = todo, !.waiting = reads,
                              !.next = next, !.changed = changed, !.table = table]
<1>0. BuildOK(build, workspace)
  BY DEF IndexInv
<1>1. /\ build.at = "read" /\ build.waiting = {}
      /\ UNCHANGED <<workspace, gone, loading, disk, stored>>
      /\ \/ /\ todo # {} /\ build' = b /\ files' = IF build.detached THEN files ELSE left
            /\ UNCHANGED <<chunks, stats, call, unsure, met>>
         \/ todo = {} /\ Swap(b, left)
  BY DEF Integrate, loadVars, diskVars, historyVars
<1>2. Good(left, workspace) /\ Good(next, workspace)
  <2>1. NoEntry \in Entries /\ NoEntry.stat = 0 /\ NoEntry.content = 0
    BY DEF NoEntry, Entries
  <2>2. \A f \in Files : /\ Facts(f, build.stat[f], build.read[f]) \in Entries
                         /\ Facts(f, build.stat[f], build.read[f]).stat
                              <= Facts(f, build.stat[f], build.read[f]).content
                         /\ Facts(f, build.stat[f], build.read[f]).content <= workspace[f]
                         /\ f \in Blank => Facts(f, build.stat[f], build.read[f]).content = 0
    BY FactsNoted DEF IndexInv, BuildOK
  <2> HIDE DEF batch
  <2>3. Good(left, workspace)
    BY <1>0, <2>1, LookupGood DEF IndexInv, Good
  <2> QED BY <1>0, <2>2, <2>3 DEF BuildOK, Good
<1>3. Good(table, workspace)
  BY <1>0, <1>2 DEF BuildOK
<1>4. batch \subseteq build.todo /\ reads \subseteq todo /\ build.todo \subseteq Files
  BY DEF Batch, Reads, SureInv, Shaped
<1>5. ASSUME NEW f \in Files \ met, ~Pending(f)
      PROVE  /\ f \in todo => build.stat[f] = workspace[f] /\ f \notin gone
             /\ f \notin todo => Right(next[f], Content(f))
  <2>1. Found(build, f)
    BY <1>5, FoundHere
  <2>2. f \in build.todo => build.stat[f] = workspace[f] /\ f \notin gone
    BY <1>1, <2>1 DEF Found
  <2>3. f \notin build.todo => Right(build.next[f], Content(f))
    BY <1>1, <2>1 DEF Found
  <2>4. f \in batch /\ ~Unchanged(build, f) => build.read[f] = Content(f)
    BY <1>1, <2>1 DEF Found, Reads
  <2>5. CASE f \in batch /\ Unchanged(build, f)
    BY <1>4, <1>5, <2>2, <2>5, ReusedRight
  <2>6. CASE f \in batch /\ ~Unchanged(build, f)
    BY <1>4, <1>5, <2>2, <2>4, <2>6, FactsRight
  <2>7. CASE f \notin batch
    BY <1>5, <2>2, <2>3, <2>7
  <2> QED BY <2>5, <2>6, <2>7
<1>6. /\ \A f \in Files : f \in batch => left[f] = NoEntry
      /\ ~build.detached => \A f \in Files : f \notin batch => left[f] = files[f]
      /\ \A f \in Files : f \notin batch => next[f] = build.next[f]
  BY DEF Lookup
<1> HIDE DEF batch, left, next, changed, table, reads
<1>7. BuildOK(b, workspace)
  BY <1>0, <1>2, <1>3, BuildIntegrates, Zenon
<1>8. /\ b.at = "read" /\ b.todo = todo /\ b.waiting = reads /\ b.next = next
      /\ b.stat = build.stat /\ b.previous = build.previous /\ b.read = build.read
  BY <1>1, BuildFields
<1> HIDE DEF b
<1>9. CASE todo = {} /\ Swap(b, left)
  <2>1. \A f \in Files \ met : ~Pending(f) => Right(b.next[f], Content(f))
    BY <1>5, <1>8, <1>9
  <2> QED BY <1>1, <1>4, <1>7, <1>8, <1>9, <2>1, SwapSure
<1>10. CASE /\ build' = b /\ files' = IF build.detached THEN files ELSE left
            /\ UNCHANGED <<chunks, stats, call, unsure, met>>
  <2>1. build' # NoBuild
    BY <1>8, <1>10, NoBuildSure
  <2>2. Shaped(build)'
    BY <1>1, <1>4, <1>6, <1>8, <1>10, <2>1 DEF SureInv, Shaped
  <2>3. Reads(b, todo) = reads
    BY <1>8 DEF reads, Reads, Unchanged
  <2>4. ASSUME NEW f \in Files \ met, ~Pending(f) PROVE Found(build, f)'
    BY <1>1, <1>5, <1>8, <1>10, <2>3, <2>4, SameTexts DEF Found, Right
  <2>5. BuildFinds'
    BY <1>10, <2>4, SameCalls DEF BuildFinds
  <2>6. ASSUME stats', NEW f \in Files \ unsure, ~Pending(f)
        PROVE  Right(Live(f)', Content(f))
    <3>1. Right(Live(f), Content(f)) /\ f \in Files \ met
      BY <1>10, <2>6, LiveHere
    <3>2. f \in batch => build.next[f] = NoEntry /\ f \notin todo
      BY <1>1, <1>4 DEF SureInv, Shaped
    <3>3. f \in batch => Right(next[f], Content(f))
      BY <1>5, <2>6, <3>1, <3>2
    <3> QED BY <1>6, <1>8, <1>10, <3>1, <3>2, <3>3 DEF Live
  <2> QED BY <1>1, <1>10, <2>1, <2>2, <2>5, <2>6, BuildGoes
<1> QED BY <1>1, <1>9, <1>10

LEMMA BuildSure ==
  ASSUME IndexInv, SureInv, BuildStep \/ BuildPersistFails PROVE SureInv'
<1>1. CASE BuildEmbedded
  <2>1. /\ build.at = "embed" /\ CommitBuild(build, files)
        /\ UNCHANGED <<workspace, gone, files, loading, disk, stored>>
    BY <1>1 DEF BuildEmbedded, loadVars, diskVars
  <2>2. \A f \in Files \ met :
          ~Pending(f) => Right(files[f], Content(f)) /\ Right(build.next[f], Content(f))
    BY <2>1, FoundHere DEF Found
  <2>3. BuildOK(build, workspace) /\ build.waiting \subseteq build.todo /\ build.todo \subseteq Files
    BY DEF IndexInv, SureInv, Shaped
  <2> QED BY <2>1, <2>2, <2>3, CommitSure
<1>2. ASSUME build.at = "persist", NEW ok \in BOOLEAN, EndBuild(ok),
             UNCHANGED <<workspace, gone, files, chunks, stats>>
      PROVE  SureInv'
  <2>1. \A f \in Files \ met :
          ~Pending(f) => Right(files[f], Content(f)) /\ Right(chunks[f], Content(f))
    BY <1>2, FoundHere DEF Found
  <2>2. stats'
    BY <1>2 DEF SureInv, Shaped
  <2> QED BY <1>2, <2>1, <2>2, EndBuildSure
<1>3. CASE BuildPersisted
  <2>1. TRUE \in BOOLEAN
    OBVIOUS
  <2> QED BY <1>2, <1>3, <2>1 DEF BuildPersisted, tableVars, diskVars
<1>4. CASE BuildPersistFails
  <2>1. FALSE \in BOOLEAN
    OBVIOUS
  <2> QED BY <1>2, <1>4, <2>1 DEF BuildPersistFails, tableVars, diskVars
<1>5. ASSUME NEW f \in Files, StatFile(f) \/ ReadFile(f) PROVE SureInv'
  BY <1>5, StatSure, ReadSure
<1> QED BY <1>1, <1>3, <1>4, <1>5, ScanSure, PlanSure, IntegrateSure DEF BuildStep

-----------------------------------------------------------------------------
(* The index is loaded.                                                    *)
LEMMA ReadDiskSure ==
  ASSUME IndexInv, SureInv, ReadDisk PROVE SureInv'
<1>1. /\ loading' = [at |-> IF stored THEN "read" ELSE "missing", image |-> disk]
      /\ UNCHANGED <<workspace, gone, files, chunks, stats, build, disk, stored, call,
                     unsure, met>>
  BY DEF ReadDisk, editorVars, tableVars, diskVars, historyVars
<1>2. CallsSure'
  BY <1>1, CallsStay DEF SureInv
<1>3. Shaped(build)' /\ BuildFinds'
  BY <1>1, SameCalls, SameTexts DEF SureInv, Shaped, BuildFinds, Found, Right, Reads, Unchanged,
     Batch, UpTo
<1>4. Served'
  BY <1>1, SameCalls, SameTexts DEF SureInv, Served, Right, Live
<1>5. Stored'
  BY <1>1, SameCalls, SameTexts DEF SureInv, Stored, Right
<1> QED BY <1>1, <1>2, <1>3, <1>4, <1>5 DEF SureInv

(* A build that is just beginning has found nothing yet.                   *)
LEMMA BeginningSure ==
  ASSUME build'.at \in {"load", "scan"}, build'.next = Empty,
         build'.waiting \subseteq build'.todo, build'.todo \subseteq Files
  PROVE  Shaped(build)' /\ BuildFinds' /\ build' # NoBuild
<1>1. build' # NoBuild
  BY NoBuildSure
<1> QED BY <1>1 DEF Shaped, Found, BuildFinds

LEMMA NewBuildSure ==
  ASSUME build' \in {[NoBuild EXCEPT !.at = "scan"], [NoBuild EXCEPT !.at = "load"]}
  PROVE  Shaped(build)' /\ BuildFinds' /\ build' # NoBuild /\ build'.next = Empty
<1>1. /\ build'.at \in {"load", "scan"} /\ build'.next = Empty
      /\ build'.waiting = {} /\ build'.todo = {}
  BY DEF NoBuild
<1> QED BY <1>1, BeginningSure

LEMMA LoadScans ==
  ASSUME IndexInv, SureInv, build.at = "load", build' = [build EXCEPT !.at = "scan"]
  PROVE  /\ Shaped(build)' /\ BuildFinds' /\ build' # NoBuild
         /\ build'.next = Empty /\ build.next = Empty
<1>1. /\ build'.at = "scan" /\ build'.next = build.next
      /\ build'.waiting = build.waiting /\ build'.todo = build.todo
      /\ build.next = Empty /\ build.waiting \subseteq build.todo /\ build.todo \subseteq Files
  BY BuildFields DEF SureInv, Shaped
<1> QED BY <1>1, BeginningSure

LEMMA DetachedFields ==
  ASSUME IndexInv
  PROVE  /\ Detached.at = build.at /\ Detached.todo = build.todo
         /\ Detached.waiting = build.waiting /\ Detached.stat = build.stat
         /\ Detached.previous = build.previous /\ Detached.read = build.read
         /\ Detached.next = build.next
         /\ build.at = "none" => Detached = build
BY BuildFields DEF Detached

LEMMA DetachedSure ==
  ASSUME IndexInv, SureInv, UNCHANGED <<workspace, gone>>, stats => stats', build' = Detached
  PROVE  /\ Shaped(build)' /\ build'.next = build.next
         /\ build' = NoBuild => build = NoBuild
         /\ \A f : Found(build, f) /\ build.at \notin {"embed", "persist"} => Found(build, f)'
<1>1. /\ build'.at = build.at /\ build'.todo = build.todo /\ build'.waiting = build.waiting
      /\ build'.stat = build.stat /\ build'.previous = build.previous /\ build'.read = build.read
      /\ build'.next = build.next
      /\ build.at = "none" => build' = build
  BY DetachedFields
<1>2. build' = NoBuild => build'.at = "none"
  BY NoBuildSure
<1>3. build' = NoBuild <=> build'.at = "none"
  BY <1>1, <1>2 DEF SureInv, Shaped
<1>4. build' = NoBuild => build = NoBuild
  BY <1>1, <1>2 DEF SureInv, Shaped
<1>5. Shaped(build)'
  BY <1>1, <1>3 DEF SureInv, Shaped
<1>6. \A todo : Reads(build', todo) = Reads(build, todo)
  BY <1>1 DEF Reads, Unchanged
<1>7. ASSUME NEW f, Found(build, f), build.at \notin {"embed", "persist"}
      PROVE  Found(build, f)'
  <2>1. Content(f)' = Content(f)
    BY DEF Content
  <2>2. CASE build.at = "stat"
    BY <1>1, <1>7, <2>2 DEF Found
  <2>3. CASE build.at = "read"
    BY <1>1, <1>6, <1>7, <2>1, <2>3 DEF Found, Right
  <2>4. CASE build.at \notin {"stat", "read", "embed", "persist"}
    BY <1>1, <2>4 DEF Found
  <2> QED BY <1>7, <2>2, <2>3, <2>4
<1> QED BY <1>1, <1>4, <1>5, <1>7

(* Everything has met something.                                           *)
LEMMA AllMet ==
  ASSUME Answered', CallsProper', Shaped(build)', stats', unsure' = Files, met' = Files,
         CallsOK(call', workspace')
  PROVE  SureInv'
<1>1. \A c \in InFlight' : call'[c].op \in Changes => call'[c].f \in Files
  BY DEF CallsOK, CallOK, InFlight
<1>2. CallsSure'
  BY <1>1 DEF CallsSure, Alone, CallsFresh
<1> QED BY <1>2 DEF SureInv, BuildFinds, Served, Stored

LEMMA LoadedUsable ==
  ASSUME IndexInv, SureInv, UNCHANGED <<workspace, gone, disk, stored>>,
         Usable, loading' = NotLoading,
         files' = loading.image, chunks' = loading.image, stats' = TRUE,
         build' = IF build.at = "load" THEN [build EXCEPT !.at = "scan"] ELSE Detached,
         call' = [c \in Calls |-> IF call[c].at = "load" THEN Onward(call[c]) ELSE call[c]],
         unsure' = IF Late THEN Files ELSE unsure, met' = IF Late THEN Files ELSE met,
         CallsOK(call', workspace')
  PROVE  SureInv'
<1>1. /\ Shaped(build)' /\ build'.next = build.next
      /\ build' = NoBuild => build = NoBuild
      /\ (\A f \in Files \ met : ~Pending(f) => Found(build, f)')
           \/ build.at \in {"embed", "persist"}
  <2>1. CASE build.at = "load"
    BY <2>1, LoadScans, BeginningSure, BuildFields DEF Found
  <2>2. CASE build.at # "load"
    BY <2>2, DetachedSure, FoundHere
  <2> QED BY <2>1, <2>2
<1>2. CallsSure' /\ \A f \in Files : Pending(f) => Pending(f)'
  <2>1. \A c \in Calls : Goes(call[c], call'[c])
    BY DEF Goes
  <2>2. ASSUME NEW c \in Calls, Abandons(c) PROVE FALSE
    <3>0. call'[c] = Idle /\ call[c].at # "idle" /\ call[c].op \in Changes
      BY <2>2 DEF Abandons
    <3>1. Onward(call[c]).at \in Started
      BY <3>0, OnwardGoes DEF IndexInv, CallsOK
    <3>2. "idle" \notin Started /\ Idle.at = "idle"
      BY DEF Started, Idle
    <3> QED BY <3>0, <3>1, <3>2
  <2>3. unsure \cap Touched \subseteq unsure'
    <3>1. Touched \subseteq Files
      BY DEF Touched, InFlight, IndexInv, CallsOK, CallOK
    <3> QED BY <3>1
  <2>4. Abandoned = {}
    BY <2>2 DEF Abandoned
  <2> QED BY <2>1, <2>3, <2>4, CallsAdvance DEF SureInv
<1>3. CASE Late
  BY <1>1, <1>2, <1>3, AllMet DEF CallsSure
<1>4. CASE ~Late
  <2>1. ~stats /\ build.at \notin {"embed", "persist"} /\ unsure' = unsure /\ met' = met
    BY <1>4 DEF Late, SureInv, Shaped
  <2>2. met \subseteq unsure /\ \A f \in Files \ unsure : f \in Files \ met
    BY DEF SureInv
  <2>3. BuildFinds'
    BY <1>1, <1>2, <2>1 DEF BuildFinds
  <2>4. \A f \in Files \ unsure : ~Pending(f) => Right(loading.image[f], Content(f))
    BY <2>1 DEF SureInv, Stored, Usable
  <2>5. \A f \in Files \ unsure :
          ~Pending(f) /\ build.next[f] # NoEntry => Right(build.next[f], Content(f))
    <3>1. CASE build.at = "read"
      BY <2>2, <3>1, FoundHere DEF Found, SureInv, Shaped
    <3>2. CASE build.at # "read"
      BY <2>1, <3>2 DEF SureInv, Shaped, Empty
    <3> QED BY <3>1, <3>2
  <2>6. Served'
    <3>1. ASSUME NEW f \in Files \ unsure, ~Pending(f)'
          PROVE  /\ Right(loading.image[f], Content(f)')
                 /\ build.next[f] # NoEntry => Right(build.next[f], Content(f)')
      BY <1>2, <2>4, <2>5, <3>1, SameTexts
    <3> QED BY <1>1, <2>1, <3>1 DEF Served, Live, Right
  <2>7. Stored'
    BY DEF Stored
  <2> QED BY <1>1, <1>2, <2>1, <2>2, <2>3, <2>6, <2>7 DEF SureInv
<1> QED BY <1>3, <1>4

(* There is nothing on disk to load: a build of this load goes on.         *)
LEMMA LoadedByBuild ==
  ASSUME IndexInv, SureInv, loading' = NotLoading, build.at = "load",
         build' = [build EXCEPT !.at = "scan"],
         UNCHANGED <<workspace, gone, disk, stored, files, chunks, stats, call, unsure, met>>
  PROVE  SureInv'
<1>1. /\ Shaped(build)' /\ BuildFinds' /\ build' # NoBuild
      /\ build'.next = Empty /\ build.next = Empty
  BY LoadScans
<1>2. CallsSure'
  BY CallsStay DEF SureInv
<1>3. Served'
  BY <1>1, SameCalls, SameTexts DEF SureInv, Served, Right, Live
<1>4. Stored'
  BY SameCalls, SameTexts DEF SureInv, Stored, Right, NotLoading
<1> QED BY <1>1, <1>2, <1>3, <1>4 DEF SureInv

(* A request of this load goes on, or asks for a build.                    *)
LEMMA LoadedByCall ==
  ASSUME IndexInv, SureInv, loading' = NotLoading,
         UNCHANGED <<workspace, gone, disk, stored, files, chunks, stats, unsure>>,
         NEW c \in Calls, call[c].at = "load",
         \/ stats /\ call' = [call EXCEPT ![c] = Onward(@)] /\ UNCHANGED <<build, met>>
         \/ /\ ~stats /\ call' = [call EXCEPT ![c].at = "wait"]
            /\ build' = IF build = NoBuild THEN [NoBuild EXCEPT !.at = "scan"] ELSE build
            /\ met' = IF build = NoBuild THEN {} ELSE met
  PROVE  SureInv'
<1>0. CallOK(call[c], workspace) /\ call = [d \in Calls |-> call[d]]
  BY DEF IndexInv, CallsOK
<1>1. /\ \A d \in Calls : d # c => call'[d] = call[d]
      /\ call'[c] \in {Onward(call[c]), [call[c] EXCEPT !.at = "wait"]}
      /\ call'[c] = [call[c] EXCEPT !.at = "wait"] \/ stats'
  BY <1>0
<1>2. /\ \A d \in Calls : Goes(call[d], call'[d])
      /\ \A d \in Calls : call'[d] # call[d] /\ call'[d].at \in Started => stats'
  <2>1. ASSUME call'[c] = [call[c] EXCEPT !.at = "wait"] PROVE call'[c].at \notin Started
    BY <1>0, <2>1 DEF CallOK, Started
  <2> QED BY <1>1, <2>1 DEF Goes
<1>3. Abandoned = {}
  <2>1. ASSUME NEW d \in Calls, Abandons(d) PROVE FALSE
    <3>1. call'[d] = Idle /\ call[d].at # "idle" /\ call[d].op \in Changes
      BY <2>1 DEF Abandons
    <3>2. d = c /\ Idle.at = "idle"
      BY <1>1, <3>1 DEF Idle
    <3>3. [call[c] EXCEPT !.at = "wait"].at = "wait" /\ Onward(call[c]).at \in Started
      BY <1>0, <3>1, <3>2, OnwardGoes DEF CallOK
    <3> QED BY <1>1, <3>1, <3>2, <3>3 DEF Started
  <2> QED BY <2>1 DEF Abandoned
<1>4. CallsSure' /\ \A f \in Files : Pending(f) => Pending(f)'
  BY <1>2, <1>3, CallsAdvance DEF SureInv
<1>5. Shaped(build)' /\ BuildFinds' /\ met' \subseteq unsure'
  <2>1. CASE build = NoBuild /\ ~stats
    BY <2>1, NewBuildSure
  <2>2. CASE UNCHANGED <<build, met>>
    <3>1. \A f : Found(build, f) => Found(build, f)'
      BY <2>2 DEF Found, Right, Content, Reads, Unchanged, Batch, UpTo
    <3>2. Shaped(build)'
      BY <2>2 DEF SureInv, Shaped
    <3>3. BuildFinds'
      BY <1>4, <2>2, <3>1, FoundHere DEF BuildFinds
    <3> QED BY <2>2, <3>2, <3>3 DEF SureInv
  <2> QED BY <2>1, <2>2
<1>6. Served'
  <2>1. stats' => UNCHANGED build
    OBVIOUS
  <2> QED BY <1>4, <2>1, SameTexts DEF SureInv, Served, Right, Live
<1>7. Stored'
  BY <1>4, SameTexts DEF SureInv, Stored, Right, NotLoading
<1> QED BY <1>4, <1>5, <1>6, <1>7 DEF SureInv

LEMMA LoadedSure ==
  ASSUME IndexInv, SureInv, Loaded, IndexInv' PROVE SureInv'
<1>1. loading' = NotLoading /\ UNCHANGED <<workspace, gone, disk, stored>>
  BY DEF Loaded, editorVars, diskVars
<1>2. CASE Usable
  <2>1. CallsOK(call', workspace')
    BY DEF IndexInv
  <2> QED BY <1>1, <1>2, <2>1, LoadedUsable, Zenon DEF Loaded
<1>3. CASE ~Usable /\ build.at = "load"
  BY <1>1, <1>3, LoadedByBuild DEF Loaded, tableVars, diskVars
<1>4. CASE ~Usable /\ build.at # "load"
  <2>1. UNCHANGED <<files, chunks, stats, unsure>>
    BY <1>4 DEF Loaded, tableVars, diskVars
  <2>2. PICK c \in Calls :
          /\ call[c].at = "load"
          /\ \/ stats /\ call' = [call EXCEPT ![c] = Onward(@)] /\ UNCHANGED <<build, met>>
             \/ /\ ~stats /\ call' = [call EXCEPT ![c].at = "wait"]
                /\ build' = IF build = NoBuild THEN [NoBuild EXCEPT !.at = "scan"] ELSE build
                /\ met' = IF build = NoBuild THEN {} ELSE met
    BY <1>4 DEF Loaded
  <2> QED BY <1>1, <2>1, <2>2, LoadedByCall, Zenon
<1> QED BY <1>2, <1>3, <1>4

-----------------------------------------------------------------------------
(* A request is made.                                                      *)
LEMMA RequestMade ==
  ASSUME IndexInv, SureInv, NEW c \in Calls, NEW op, NEW f, Request(c, op, f)
  PROVE  /\ call[c] = Idle /\ UNCHANGED <<files, chunks, stats, disk, stored>>
         /\ unsure' = unsure \cup ({f} \cap Touched)
         /\ \E s : /\ call' = [call EXCEPT ![c] = s]
                   /\ s.at \in {"idle", "load", "wait"} \cup Started
                   /\ s.at # "idle" => s.op = op /\ s.f = f
                   /\ op \in Changes => s.at # "idle"
                   /\ s.at \in Started => stats
                   /\ s.at = "stat" => op = "update"
                   /\ s.at = "remove" => op = "remove"
         /\ \/ UNCHANGED <<build, met>>
            \/ /\ build = NoBuild /\ met' = {}
               /\ build' \in {[NoBuild EXCEPT !.at = "scan"], [NoBuild EXCEPT !.at = "load"]}
         /\ UNCHANGED loading \/ loading' = [NotLoading EXCEPT !.at = "asked"]
<1> DEFINE r == [Idle EXCEPT !.op = op, !.f = f]
<1>1. r = [at |-> "idle", op |-> op, f |-> f, stat |-> 0, content |-> 0, image |-> Empty]
  <2> DEFINE i == Idle
  <2>1. i = [at |-> "idle", op |-> "none", f |-> NoFile, stat |-> 0, content |-> 0,
             image |-> Empty]
    BY DEF Idle
  <2>2. r = [i EXCEPT !.op = op, !.f = f]
    OBVIOUS
  <2> HIDE DEF i, r
  <2> QED BY <2>1, <2>2
<1>2. /\ call[c] = Idle /\ UNCHANGED <<files, chunks, stats, disk, stored>>
      /\ unsure' = unsure \cup ({f} \cap Touched)
  BY DEF Request, tableVars, diskVars
<1>3. Build(c, r) \/ EnsureBuilt(c, r)
  BY DEF Request
<1> HIDE DEF r
<1>4. /\ \/ call' = [call EXCEPT ![c] = [r EXCEPT !.at = "wait"]]
         \/ call' = [call EXCEPT ![c] = [r EXCEPT !.at = "load"]]
         \/ stats /\ call' = [call EXCEPT ![c] = Onward(r)]
      /\ \/ UNCHANGED <<build, met>>
         \/ /\ build = NoBuild /\ met' = {}
            /\ build' \in {[NoBuild EXCEPT !.at = "scan"], [NoBuild EXCEPT !.at = "load"]}
      /\ UNCHANGED loading \/ loading' = [NotLoading EXCEPT !.at = "asked"]
  <2>1. CASE Build(c, r)
    BY <2>1 DEF Build, loadVars
  <2>2. CASE EnsureBuilt(c, r) /\ ~Build(c, r)
    BY <2>2 DEF EnsureBuilt, loadVars
  <2> QED BY <1>3, <2>1, <2>2
<1>6. /\ op = "update" => Onward(r) = [r EXCEPT !.at = "stat"]
      /\ op = "remove" => Onward(r) = [r EXCEPT !.at = "remove"]
      /\ op \notin Changes => Onward(r) = Idle
  BY <1>1 DEF Onward, Changes
<1>7. /\ Onward(r).at \in {"idle"} \cup Started
      /\ Onward(r).at # "idle" => Onward(r).op = op /\ Onward(r).f = f
      /\ op \in Changes => Onward(r).at # "idle"
      /\ Onward(r).at = "stat" => op = "update"
      /\ Onward(r).at = "remove" => op = "remove"
  BY <1>1, <1>6 DEF Changes, Idle, Started
<1>8. \E s : /\ call' = [call EXCEPT ![c] = s]
             /\ s.at \in {"idle", "load", "wait"} \cup Started
             /\ s.at # "idle" => s.op = op /\ s.f = f
             /\ op \in Changes => s.at # "idle"
             /\ s.at \in Started => stats
             /\ s.at = "stat" => op = "update"
             /\ s.at = "remove" => op = "remove"
  <2>1. CASE call' = [call EXCEPT ![c] = [r EXCEPT !.at = "wait"]]
    <3> DEFINE s == [r EXCEPT !.at = "wait"]
    <3>1. s.at = "wait" /\ s.op = op /\ s.f = f
      BY <1>1
    <3> HIDE DEF s
    <3> QED BY <2>1, <3>1 DEF s, Started
  <2>2. CASE call' = [call EXCEPT ![c] = [r EXCEPT !.at = "load"]]
    <3> DEFINE s == [r EXCEPT !.at = "load"]
    <3>1. s.at = "load" /\ s.op = op /\ s.f = f
      BY <1>1
    <3> HIDE DEF s
    <3> QED BY <2>2, <3>1 DEF s, Started
  <2>3. CASE stats /\ call' = [call EXCEPT ![c] = Onward(r)]
    BY <1>7, <2>3
  <2> QED BY <1>4, <2>1, <2>2, <2>3
<1> QED BY <1>2, <1>4, <1>8

LEMMA RequestSure ==
  ASSUME IndexInv, SureInv, NEW c \in Calls, NEW op, NEW f, Request(c, op, f),
         op \in Changes => f \in Files, op \notin Changes => f = NoFile,
         \A g \in Files : g # f => workspace'[g] = workspace[g] /\ (g \in gone' <=> g \in gone),
         op = "remove" => f \in gone'
  PROVE  SureInv'
<1>1. /\ call[c] = Idle /\ UNCHANGED <<files, chunks, stats, disk, stored>>
      /\ unsure' = unsure \cup ({f} \cap Touched)
      /\ \/ UNCHANGED <<build, met>>
         \/ /\ build = NoBuild /\ met' = {}
            /\ build' \in {[NoBuild EXCEPT !.at = "scan"], [NoBuild EXCEPT !.at = "load"]}
      /\ UNCHANGED loading \/ loading' = [NotLoading EXCEPT !.at = "asked"]
  BY RequestMade
<1>2. PICK s : /\ call' = [call EXCEPT ![c] = s]
               /\ s.at \in {"idle", "load", "wait"} \cup Started
               /\ s.at # "idle" => s.op = op /\ s.f = f
               /\ op \in Changes => s.at # "idle"
               /\ s.at \in Started => stats
               /\ s.at = "stat" => op = "update"
               /\ s.at = "remove" => op = "remove"
  BY RequestMade
<1>3. call'[c] = s /\ \A d \in Calls : d # c => call'[d] = call[d]
  <2>1. call = [d \in Calls |-> call[d]]
    BY DEF IndexInv, CallsOK
  <2> QED BY <1>2, <2>1
<1>4. call[c].at = "idle"
  BY <1>1 DEF Idle
<1>5. \A d \in Calls : call[d].op \in Changes => call[d].f \in Files
  BY DEF IndexInv, CallsOK, CallOK
<1>6. /\ \A g \in Files : g # f => (Pending(g)' <=> Pending(g)) /\ Content(g)' = Content(g)
      /\ f \in Files => Pending(f)'
  <2>1. \A g \in Files : g # f => ~Open(s, g) /\ ~Open(call[c], g)
    BY <1>2, <1>4 DEF Open
  <2>2. \A g \in Files : g # f => (Pending(g)' <=> Pending(g))
    BY <1>3, <2>1 DEF Pending
  <2>3. f \in Files => Open(s, f)
    BY <1>2, FilesAssumption DEF Open, Started
  <2>4. \A g \in Files : g # f => Content(g)' = Content(g)
    BY DEF Content
  <2> QED BY <1>3, <2>2, <2>3, <2>4 DEF Pending
<1>7. CallsSure'
  <2>1. Alone'
    <3>1. ASSUME NEW d \in InFlight, call[d].op \in Changes, call[d].f = f PROVE f \in unsure'
      BY <1>1, <3>1 DEF Touched
    <3> QED BY <1>1, <1>2, <1>3, <3>1 DEF SureInv, CallsSure, Alone, InFlight
  <2>2. Answered'
    BY <1>1, <1>2, <1>3 DEF SureInv, CallsSure, Answered, Started
  <2>3. CallsFresh'
    <3> SUFFICES ASSUME NEW d \in InFlight', call'[d].op \in Changes, call'[d].f \notin unsure'
                 PROVE  Fresh(call[d])'
      BY DEF CallsFresh
    <3>1. CASE d = c
      BY <1>2, <1>3, <3>1 DEF Fresh, InFlight, Started
    <3>2. CASE d # c
      <4>1. d \in InFlight /\ call'[d] = call[d] /\ call[d].f \in Files
        BY <1>3, <1>5, <3>2 DEF InFlight
      <4>2. call[d].f # f /\ call[d].f \notin unsure
        BY <1>1, <4>1 DEF Touched
      <4>3. Fresh(call[d])
        BY <4>1, <4>2 DEF SureInv, CallsSure, CallsFresh
      <4> QED BY <4>1, <4>2, <4>3 DEF Fresh, Content
    <3> QED BY <3>1, <3>2
  <2>4. CallsProper'
    <3>1. s.at = "idle" \/ s.op = op
      BY <1>2
    <3>2. Proper(s)
      BY <1>2, <3>1 DEF Proper, Started
    <3> QED BY <1>3, <3>2 DEF SureInv, CallsSure, CallsProper, Proper
  <2> QED BY <2>1, <2>2, <2>3, <2>4 DEF CallsSure
<1>8. Shaped(build)' /\ BuildFinds' /\ met' \subseteq unsure'
  <2>1. CASE build' \in {[NoBuild EXCEPT !.at = "scan"], [NoBuild EXCEPT !.at = "load"]}
             /\ met' = {}
    BY <2>1, NewBuildSure
  <2>2. CASE UNCHANGED <<build, met>>
    <3>1. Shaped(build)'
      BY <1>1, <2>2 DEF SureInv, Shaped
    <3>2. \A todo : Reads(build', todo) = Reads(build, todo)
      BY <2>2 DEF Reads, Unchanged
    <3>3. ASSUME NEW g \in Files \ met, ~Pending(g)' PROVE Found(build, g)'
      <4>1. g # f /\ Found(build, g) /\ Content(g)' = Content(g)
        BY <1>6, <3>3, FoundHere
      <4> QED BY <1>1, <2>2, <3>2, <4>1 DEF Found, Right
    <3>4. BuildFinds'
      BY <2>2, <3>3 DEF BuildFinds
    <3> QED BY <1>1, <2>2, <3>1, <3>4 DEF SureInv
  <2> QED BY <1>1, <2>1, <2>2
<1>9. Served'
  <2>1. /\ build'.next = build.next
        /\ build' = NoBuild => build = NoBuild
    BY <1>1, NewBuildSure, NoBuildSure
  <2>2. ASSUME NEW g \in Files \ unsure', ~Pending(g)', stats'
        PROVE  Right(Live(g)', Content(g)') /\ (build' = NoBuild => Right(chunks'[g], Content(g)'))
    <3>1. g \in Files \ unsure /\ ~Pending(g) /\ Content(g)' = Content(g) /\ stats
      BY <1>1, <1>6, <2>2
    <3>2. Right(Live(g), Content(g)) /\ (build = NoBuild => Right(chunks[g], Content(g)))
      BY <3>1 DEF SureInv, Served
    <3> QED BY <1>1, <2>1, <3>1, <3>2 DEF Live
  <2> QED BY <2>2 DEF Served, Right
<1>10. Stored'
  <2>1. loading'.at = "read" => UNCHANGED loading
    BY <1>1 DEF NotLoading
  <2> QED BY <1>1, <1>6, <2>1 DEF SureInv, Stored, Right
<1> QED BY <1>7, <1>8, <1>9, <1>10 DEF SureInv

LEMMA ChangeSure ==
  ASSUME IndexInv, SureInv, NEW f \in Files, ChangeUnreported(f) PROVE SureInv'
<1>1. /\ \A g \in Files : g # f => workspace'[g] = workspace[g] /\ (g \in gone' <=> g \in gone)
      /\ unsure' = unsure \cup {f} /\ met' = met \cup {f}
      /\ UNCHANGED <<files, chunks, stats, loading, build, disk, stored, call>>
  BY DEF ChangeUnreported, tableVars, diskVars, loadVars, IndexInv
<1>2. \A g \in Files : g # f => Content(g)' = Content(g)
  BY <1>1 DEF Content
<1>3. CallsSure'
  <2>1. Alone' /\ Answered' /\ CallsProper'
    BY <1>1 DEF SureInv, CallsSure, Alone, Answered, CallsProper, Proper, InFlight
  <2>2. CallsFresh'
    <3> SUFFICES ASSUME NEW d \in InFlight, call[d].op \in Changes, call[d].f \notin unsure'
                 PROVE  Fresh(call[d])'
      BY <1>1 DEF CallsFresh, InFlight
    <3>1. call[d].f \in Files /\ call[d].f # f /\ call[d].f \notin unsure
      BY <1>1 DEF InFlight, IndexInv, CallsOK, CallOK
    <3>2. Fresh(call[d])
      BY <3>1 DEF SureInv, CallsSure, CallsFresh
    <3> QED BY <1>1, <1>2, <3>1, <3>2 DEF Fresh
  <2> QED BY <2>1, <2>2 DEF CallsSure
<1>4. Shaped(build)' /\ met' \subseteq unsure'
  BY <1>1 DEF SureInv, Shaped
<1>5. BuildFinds'
  <2>1. \A todo : Reads(build', todo) = Reads(build, todo)
    BY <1>1 DEF Reads, Unchanged
  <2>2. ASSUME NEW g \in Files \ met', ~Pending(g)' PROVE Found(build, g)'
    <3>1. g # f /\ Found(build, g) /\ Content(g)' = Content(g)
      BY <1>1, <1>2, <2>2, SameCalls, FoundHere
    <3> QED BY <1>1, <2>1, <3>1 DEF Found, Right
  <2> QED BY <2>2 DEF BuildFinds
<1>6. Served'
  BY <1>1, <1>2, SameCalls DEF SureInv, Served, Live, Right
<1>7. Stored'
  BY <1>1, <1>2, SameCalls DEF SureInv, Stored, Right
<1> QED BY <1>3, <1>4, <1>5, <1>6, <1>7 DEF SureInv

LEMMA EditorSure ==
  ASSUME IndexInv, SureInv,
         \/ \E f \in Files : ChangeUnreported(f)
         \/ \E c \in Calls :
              \/ \E f \in Files : Save(c, f) \/ Delete(c, f)
              \/ RebuildTimer(c) \/ \E op \in {"build", "search"} : Ask(c, op)
  PROVE  SureInv'
<1>1. ASSUME NEW c \in Calls, NEW f \in Files, Save(c, f) PROVE SureInv'
  <2>1. /\ Request(c, "update", f)
        /\ \A g \in Files : g # f => workspace'[g] = workspace[g] /\ (g \in gone' <=> g \in gone)
    BY <1>1 DEF Save, IndexInv
  <2>2. "update" \in Changes /\ "update" # "remove"
    BY DEF Changes
  <2> QED BY <2>1, <2>2, RequestSure
<1>2. ASSUME NEW c \in Calls, NEW f \in Files, Delete(c, f) PROVE SureInv'
  <2>1. /\ Request(c, "remove", f) /\ f \in gone'
        /\ \A g \in Files : g # f => workspace'[g] = workspace[g] /\ (g \in gone' <=> g \in gone)
    BY <1>2 DEF Delete, IndexInv
  <2>2. "remove" \in Changes
    BY DEF Changes
  <2> QED BY <2>1, <2>2, RequestSure
<1>3. ASSUME NEW c \in Calls, NEW op \in {"build", "search"}, Request(c, op, NoFile),
             UNCHANGED <<workspace, gone>>
      PROVE  SureInv'
  <2>1. op \notin Changes /\ op # "remove"
    BY DEF Changes
  <2>2. \A g \in Files : g # NoFile => workspace'[g] = workspace[g] /\ (g \in gone' <=> g \in gone)
    BY <1>3
  <2> QED BY <1>3, <2>1, <2>2, RequestSure
<1>4. ASSUME NEW c \in Calls, RebuildTimer(c) PROVE SureInv'
  BY <1>3, <1>4 DEF RebuildTimer
<1>5. ASSUME NEW c \in Calls, NEW op \in {"build", "search"}, Ask(c, op) PROVE SureInv'
  BY <1>3, <1>5 DEF Ask
<1> QED BY <1>1, <1>2, <1>4, <1>5, ChangeSure

-----------------------------------------------------------------------------
(* A step of a request that leaves the index alone.                        *)
LEMMA CallOnly ==
  ASSUME SureInv, stats, CallsSure', \A f \in Files : Pending(f)' <=> Pending(f),
         UNCHANGED <<workspace, gone, files, chunks, stats, build, unsure, met>>
  PROVE  SureInv'
<1>1. Shaped(build)' /\ met' \subseteq unsure' /\ Stored'
  BY DEF SureInv, Shaped, Stored
<1>2. BuildFinds'
  <2>1. \A todo : Reads(build', todo) = Reads(build, todo)
    BY DEF Reads, Unchanged
  <2>2. ASSUME NEW g \in Files \ met, ~Pending(g)' PROVE Found(build, g)'
    <3>1. Found(build, g) /\ Content(g)' = Content(g)
      BY <2>2, SameTexts, FoundHere
    <3> QED BY <2>1, <3>1 DEF Found, Right
  <2> QED BY <2>2 DEF BuildFinds
<1>3. Served'
  BY SameTexts DEF SureInv, Served, Live, Right
<1> QED BY <1>1, <1>2, <1>3 DEF SureInv

LEMMA CallMoves ==
  ASSUME IndexInv, SureInv, stats, NEW c \in Calls, NEW r, call' = [call EXCEPT ![c] = r],
         r.op = call[c].op, r.f = call[c].f, Proper(r), Fresh(call[c]) => Fresh(r),
         call[c].at \notin {"idle", "persist"}, r.at \notin {"idle", "persist"},
         UNCHANGED <<workspace, gone, files, chunks, stats, build, unsure, met>>
  PROVE  SureInv'
<1>1. call'[c] = r /\ \A d \in Calls : d # c => call'[d] = call[d]
  BY DEF IndexInv, CallsOK
<1>2. InFlight' = InFlight
  BY <1>1 DEF InFlight
<1>3. \A f \in Files : Pending(f)' <=> Pending(f)
  <2>1. \A f \in Files, d \in Calls : Open(call'[d], f) <=> Open(call[d], f)
    BY <1>1 DEF Open
  <2> QED BY <2>1 DEF Pending
<1>4. CallsSure'
  <2>1. Alone' /\ Answered'
    BY <1>1, <1>2 DEF SureInv, CallsSure, Alone, Answered, InFlight
  <2>2. CallsProper'
    BY <1>1 DEF SureInv, CallsSure, CallsProper, Proper
  <2>3. CallsFresh'
    <3> SUFFICES ASSUME NEW d \in InFlight, call'[d].op \in Changes, call'[d].f \notin unsure
                 PROVE  Fresh(call'[d])
      BY <1>2 DEF CallsFresh, Fresh, Content
    <3>1. Fresh(call[d])
      BY <1>1 DEF SureInv, CallsSure, CallsFresh, InFlight
    <3> QED BY <1>1, <3>1 DEF InFlight
  <2> QED BY <2>1, <2>2, <2>3 DEF CallsSure
<1> QED BY <1>3, <1>4, CallOnly

LEMMA CallEnds ==
  ASSUME IndexInv, SureInv, NEW c \in Calls, call[c].at = "persist",
         call' = [call EXCEPT ![c] = Idle],
         UNCHANGED <<workspace, gone, files, chunks, stats, build, unsure, met>>
  PROVE  SureInv'
<1>1. call'[c] = Idle /\ Idle.at = "idle" /\ \A d \in Calls : d # c => call'[d] = call[d]
  BY DEF IndexInv, CallsOK, Idle
<1>2. InFlight' \subseteq InFlight /\ \A d \in InFlight' : call'[d] = call[d]
  BY <1>1 DEF InFlight
<1>3. \A f \in Files : Pending(f)' <=> Pending(f)
  <2>1. \A f \in Files, d \in Calls : Open(call'[d], f) <=> Open(call[d], f)
    BY <1>1 DEF Open
  <2> QED BY <2>1 DEF Pending
<1>4. stats
  BY DEF SureInv, CallsSure, Answered
<1>5. CallsSure'
  <2>1. Alone' /\ Answered'
    BY <1>2, <1>4 DEF SureInv, CallsSure, Alone, Answered
  <2>2. CallsProper'
    BY <1>1 DEF SureInv, CallsSure, CallsProper, Proper
  <2>3. CallsFresh'
    BY <1>2 DEF SureInv, CallsSure, CallsFresh, Fresh, Content
  <2> QED BY <2>1, <2>2, <2>3 DEF CallsSure
<1> QED BY <1>3, <1>4, <1>5, CallOnly

(* A request changes the index.                                            *)
LEMMA ChangeLands ==
  ASSUME IndexInv, SureInv, NEW c \in Calls, NEW table, Commit(c, table),
         call[c].at \in {"stat", "read", "land", "embed", "remove"},
         \A g \in Files : g # call[c].f => table[g] = files[g],
         Fresh(call[c]) => Right(table[call[c].f], Content(call[c].f))
  PROVE  SureInv'
<1> DEFINE f == call[c].f
<1>1. /\ files' = table /\ chunks' = table /\ stats'
      /\ call' = [call EXCEPT ![c].at = "persist", ![c].image = table]
      /\ UNCHANGED <<workspace, gone, loading, build, disk, stored>>
      /\ IF build = NoBuild THEN UNCHANGED <<unsure, met>>
         ELSE unsure' = unsure \cup {f} /\ met' = met \cup {f}
  BY DEF Commit, editorVars, diskVars, loadVars
<1>2. CallOK(call[c], workspace) /\ call = [d \in Calls |-> call[d]]
  BY DEF IndexInv, CallsOK
<1>3. /\ call'[c].at = "persist" /\ call'[c].op = call[c].op /\ call'[c].f = f
      /\ call[c].op \in Changes /\ f \in Files /\ c \in InFlight
      /\ \A d \in Calls : d # c => call'[d] = call[d]
  BY <1>1, <1>2 DEF CallOK, InFlight
<1>4. stats
  BY DEF SureInv, CallsSure, Answered
<1>5. InFlight' = InFlight /\ unsure \subseteq unsure'
  BY <1>1, <1>3 DEF InFlight
<1>6. \A g \in Files : g # f => (Pending(g)' <=> Pending(g))
  <2>1. \A g \in Files, d \in Calls : g # f => (Open(call'[d], g) <=> Open(call[d], g))
    BY <1>3 DEF Open
  <2> QED BY <2>1 DEF Pending
<1>7. CallsSure'
  <2>1. Alone'
    BY <1>3, <1>5 DEF SureInv, CallsSure, Alone, InFlight
  <2>a. Answered'
    BY <1>1 DEF Answered
  <2>2. CallsProper'
    BY <1>3 DEF SureInv, CallsSure, CallsProper, Proper
  <2>3. CallsFresh'
    <3> SUFFICES ASSUME NEW d \in InFlight, call'[d].op \in Changes, call'[d].f \notin unsure
                 PROVE  Fresh(call'[d])
      <4>1. \A r : Fresh(r)' <=> Fresh(r)
        BY <1>1 DEF Fresh, Content
      <4> QED BY <1>5, <4>1 DEF CallsFresh
    <3>1. Fresh(call[d])
      BY <1>3 DEF SureInv, CallsSure, CallsFresh, InFlight
    <3> QED BY <1>3, <3>1 DEF Fresh, InFlight
  <2> QED BY <2>1, <2>a, <2>2, <2>3 DEF CallsSure
<1>8. Shaped(build)' /\ met' \subseteq unsure' /\ Stored'
  BY <1>1 DEF SureInv, Shaped, Stored
<1>9. \A g \in Files \ unsure : g # f /\ ~Pending(g)' =>
        Right(Live(g), Content(g)) /\ Live(g)' = Live(g)
  BY <1>1, <1>4, <1>6, LiveHere DEF Live
<1>10. BuildFinds'
  <2>1. CASE build = NoBuild
    BY <1>1, <2>1, NoBuildSure DEF BuildFinds, Found
  <2>2. CASE build # NoBuild
    <3>1. \A todo : Reads(build', todo) = Reads(build, todo)
      BY <1>1 DEF Reads, Unchanged
    <3>2. ASSUME NEW g \in Files \ met', ~Pending(g)' PROVE Found(build, g)'
      <4>1. g # f /\ Found(build, g) /\ Content(g)' = Content(g)
        BY <1>1, <1>6, <2>2, <3>2, SameTexts, FoundHere
      <4> QED BY <1>1, <3>1, <4>1 DEF Found, Right
    <3> QED BY <3>2 DEF BuildFinds
  <2> QED BY <2>1, <2>2
<1>11. Served'
  <2>1. ASSUME NEW g \in Files \ unsure', ~Pending(g)'
        PROVE  /\ Right(Live(g)', Content(g)')
               /\ build' = NoBuild => Right(chunks'[g], Content(g)')
    <3>1. Content(g)' = Content(g) /\ g \notin unsure
      BY <1>1, <2>1, SameTexts
    <3>2. CASE g # f
      <4>1. build = NoBuild => Live(g) = files[g]
        BY NoBuildSure DEF Live, Empty
      <4> QED BY <1>1, <1>9, <2>1, <3>1, <3>2, <4>1
    <3>3. CASE g = f
      <4>1. build = NoBuild
        BY <1>1, <2>1, <3>3
      <4>2. Fresh(call[c])
        BY <1>3, <3>1, <3>3 DEF SureInv, CallsSure, CallsFresh
      <4>3. Live(g)' = table[g]
        BY <1>1, <4>1, NoBuildSure DEF Live, Empty
      <4> QED BY <1>1, <3>1, <3>3, <4>2, <4>3
    <3> QED BY <3>2, <3>3
  <2> QED BY <2>1 DEF Served, Right
<1> QED BY <1>7, <1>8, <1>10, <1>11 DEF SureInv

(* The steps of a request.                                                 *)
LEMMA CallSure ==
  ASSUME IndexInv, SureInv, NEW c \in Calls, CallStep(c) \/ PersistFails(c) PROVE SureInv'
<1> DEFINE f == call[c].f
           entry == Facts(f, call[c].stat, call[c].content)
<1>0. /\ CallOK(call[c], workspace) /\ Proper(call[c]) /\ files \in [Files -> Entries]
      /\ call = [d \in Calls |-> call[d]]
  BY DEF IndexInv, CallsOK, SureInv, CallsSure, CallsProper, Good
<1>1. ASSUME call[c].at \in {"stat", "read", "land", "embed", "remove"}
      PROVE  stats /\ f \in Files
  BY <1>0, <1>1 DEF SureInv, CallsSure, Answered, CallOK
<1>2. /\ Dropped(c)[f] = NoEntry \/ f \notin Files
      /\ \A g \in Files : g # f => Dropped(c)[g] = files[g]
  BY <1>0 DEF Dropped
<1>3. CASE RemoveReported(c)
  <2>1. call[c].at = "remove" /\ Commit(c, Dropped(c))
    BY <1>3 DEF RemoveReported
  <2>2. Fresh(call[c]) => Content(f) = 0
    BY <1>0, <2>1 DEF Fresh, Proper, Content
  <2>3. Fresh(call[c]) => Right(Dropped(c)[f], Content(f))
    BY <1>1, <1>2, <2>1, <2>2, NothingRight
  <2> QED BY <1>2, <2>1, <2>3, ChangeLands
<1>4. CASE StatSaved(c)
  <2>1. call[c].at = "stat"
    BY <1>4 DEF StatSaved
  <2>2. CASE f \in gone /\ Commit(c, Dropped(c))
    <3>1. Right(Dropped(c)[f], Content(f))
      BY <1>1, <1>2, <2>1, <2>2, NothingRight DEF Content
    <3> QED BY <1>2, <2>1, <2>2, <3>1, ChangeLands
  <2>3. CASE /\ f \notin gone
             /\ call' = [call EXCEPT ![c].at = "read", ![c].stat = workspace[f]]
             /\ UNCHANGED <<workspace, gone, files, chunks, stats, build, unsure, met>>
    <3> DEFINE now == workspace[f]
               r == [call[c] EXCEPT !.at = "read", !.stat = now]
    <3>1. r.at = "read" /\ r.stat = now /\ r.op = call[c].op /\ r.f = f
      BY <1>0 DEF CallOK
    <3>2. call' = [call EXCEPT ![c] = r]
      BY <1>0, <2>3
    <3> HIDE DEF r
    <3>3. Proper(r) /\ (Fresh(call[c]) => Fresh(r))
      BY <1>0, <2>1, <2>3, <3>1 DEF Proper, Fresh
    <3> QED BY <1>1, <2>1, <2>3, <3>1, <3>2, <3>3, CallMoves
  <2> QED BY <1>4, <2>2, <2>3 DEF StatSaved, editorVars, diskVars, tableVars, historyVars
<1>5. CASE ReadSaved(c)
  <2> DEFINE text == Content(f)
             r == [call[c] EXCEPT !.at = "land", !.content = text]
  <2>1. /\ call[c].at = "read"
        /\ UNCHANGED <<workspace, gone, files, chunks, stats, build, unsure, met>>
    BY <1>5 DEF ReadSaved, editorVars, diskVars, tableVars, historyVars
  <2>2. call' = [call EXCEPT ![c] = r]
    BY <1>0, <1>5 DEF ReadSaved
  <2> HIDE DEF text
  <2>3. /\ r.at = "land" /\ r.content = text /\ r.op = call[c].op /\ r.f = f
        /\ r.stat = call[c].stat
    BY <1>0 DEF CallOK
  <2> HIDE DEF r
  <2>4. Proper(r) /\ (Fresh(call[c]) => Fresh(r))
    BY <1>0, <2>1, <2>3 DEF Proper, Fresh, text
  <2> QED BY <1>1, <2>1, <2>2, <2>3, <2>4, CallMoves
<1>6. ASSUME call[c].at \in {"land", "embed"}
      PROVE  /\ Fresh(call[c]) => Right(entry, Content(f))
             /\ [files EXCEPT ![f] = entry][f] = entry
             /\ \A g \in Files : g # f => [files EXCEPT ![f] = entry][g] = files[g]
  <2>1. Fresh(call[c]) => Right(entry, Content(f))
    BY <1>6, FactsRight DEF Fresh
  <2> HIDE DEF entry
  <2> QED BY <1>0, <1>1, <1>6, <2>1
<1>7. CASE Land(c)
  <2>1. /\ call[c].at = "land"
        /\ \/ ~(entry # NoEntry /\ Fits(f, entry)) /\ Commit(c, Dropped(c))
           \/ Commit(c, [files EXCEPT ![f] = entry])
           \/ /\ call' = [call EXCEPT ![c].at = "embed"]
              /\ UNCHANGED <<workspace, gone, files, chunks, stats, build, unsure, met>>
    BY <1>7 DEF Land, editorVars, diskVars, tableVars, historyVars
  <2>2. CASE ~(entry # NoEntry /\ Fits(f, entry)) /\ Commit(c, Dropped(c))
    <3>1. Roomy => entry = NoEntry
      BY <2>2, RoomFits, Zenon
    <3>2. Fresh(call[c]) => Right(NoEntry, Content(f))
      BY <1>6, <2>1, <3>1, NothingRight
    <3>3. Fresh(call[c]) => Right(Dropped(c)[f], Content(f))
      BY <1>1, <1>2, <2>1, <3>2
    <3> QED BY <1>2, <2>1, <2>2, <3>3, ChangeLands
  <2>3. CASE Commit(c, [files EXCEPT ![f] = entry])
    <3> DEFINE table == [files EXCEPT ![f] = entry]
    <3>1. /\ Fresh(call[c]) => Right(table[f], Content(f))
          /\ \A g \in Files : g # f => table[g] = files[g]
      BY <1>6, <2>1, Zenon
    <3> HIDE DEF table
    <3> QED BY <2>1, <2>3, <3>1, ChangeLands DEF table
  <2>4. CASE /\ call' = [call EXCEPT ![c].at = "embed"]
             /\ UNCHANGED <<workspace, gone, files, chunks, stats, build, unsure, met>>
    <3> DEFINE r == [call[c] EXCEPT !.at = "embed"]
    <3>1. /\ r.at = "embed" /\ r.content = call[c].content /\ r.op = call[c].op /\ r.f = f
          /\ r.stat = call[c].stat
      BY <1>0 DEF CallOK
    <3>2. call' = [call EXCEPT ![c] = r]
      BY <2>4
    <3> HIDE DEF r
    <3>3. Proper(r) /\ (Fresh(call[c]) => Fresh(r))
      BY <1>0, <2>1, <3>1 DEF Proper, Fresh
    <3> QED BY <1>1, <2>1, <2>4, <3>1, <3>2, <3>3, CallMoves
  <2> QED BY <2>1, <2>2, <2>3, <2>4
<1>8. CASE Embedded(c)
  <2> DEFINE table == [files EXCEPT ![f] = entry]
  <2>1. call[c].at = "embed" /\ Commit(c, table)
    BY <1>8 DEF Embedded
  <2>2. /\ Fresh(call[c]) => Right(table[f], Content(f))
        /\ \A g \in Files : g # f => table[g] = files[g]
    BY <1>6, <2>1, Zenon
  <2> HIDE DEF table
  <2> QED BY <2>1, <2>2, ChangeLands
<1>9. CASE Persisted(c) \/ PersistFails(c)
  BY <1>9, CallEnds DEF Persisted, PersistFails, editorVars, diskVars, tableVars, historyVars
<1> QED BY <1>3, <1>4, <1>5, <1>7, <1>8, <1>9 DEF CallStep

-----------------------------------------------------------------------------
(* A crash forgets what it knew, and the disk has it.                      *)
LEMMA RestartSure ==
  ASSUME IndexInv, SureInv, OnDisk, Restart PROVE SureInv'
<1>1. /\ stats' = FALSE /\ loading' = NotLoading /\ build' = NoBuild
      /\ call' = [c \in Calls |-> Idle] /\ met' = {}
      /\ unsure' = unsure \cup Touched \cup {f \in unsaved : Differs(f)}
      /\ UNCHANGED <<workspace, gone, disk, stored>>
  BY DEF Restart, diskVars
<1>2. InFlight' = {}
  BY <1>1 DEF InFlight, Idle
<1>3. CallsSure'
  BY <1>1, <1>2 DEF CallsSure, Alone, Answered, CallsFresh, CallsProper, Proper, Idle
<1>4. Shaped(build)' /\ BuildFinds'
  <2>1. \A f : Found(NoBuild, f)'
    BY NoBuildSure DEF Found
  <2> QED BY <1>1, <2>1, NoBuildSure DEF BuildFinds
<1>5. Served'
  BY <1>1 DEF Served
<1>6. ASSUME NEW f \in Files \ unsure' PROVE ~stored \/ Right(disk[f], Content(f))
  <2>1. f \notin unsure /\ f \notin Touched /\ ~(f \in unsaved /\ Differs(f))
    BY <1>1, <1>6
  <2>2. ~Pending(f)
    BY <2>1 DEF Pending, Open, Touched, InFlight
  <2>3. CASE stats /\ f \in unsaved
    <3>1. disk[f] = Live(f)
      BY <2>1, <2>3 DEF Differs, Live
    <3> QED BY <1>6, <2>1, <2>2, <2>3, <3>1, LiveHere
  <2>4. CASE ~stats
    BY <2>1, <2>2, <2>4 DEF SureInv, Stored
  <2>5. CASE f \notin unsaved
    BY <2>1, <2>5 DEF OnDisk
  <2> QED BY <2>3, <2>4, <2>5
<1>7. Stored'
  BY <1>1, <1>6, SameTexts DEF Stored, Right, NotLoading
<1> QED BY <1>1, <1>3, <1>4, <1>5, <1>7 DEF SureInv

LEMMA SureStutters ==
  ASSUME IndexInv, SureInv, UNCHANGED vars PROVE SureInv'
<1>1. UNCHANGED <<workspace, gone, files, chunks, stats, build, loading, disk, stored, call, unsure, met>>
  BY DEF vars, editorVars, diskVars, tableVars, loadVars, historyVars
<1>2. CallsSure'
  BY <1>1, CallsStay DEF SureInv
<1>3. CASE stats
  BY <1>1, <1>2, <1>3, SameCalls, CallOnly
<1>4. CASE ~stats
  <2>1. Shaped(build)' /\ met' \subseteq unsure' /\ Served'
    BY <1>1, <1>4 DEF SureInv, Shaped, Served
  <2>2. \A todo : Reads(build', todo) = Reads(build, todo)
    BY <1>1 DEF Reads, Unchanged
  <2>3. ASSUME NEW g \in Files \ met, ~Pending(g)' PROVE Found(build, g)'
    <3>1. Found(build, g) /\ Content(g)' = Content(g)
      BY <1>1, <2>3, SameCalls, SameTexts, FoundHere
    <3> QED BY <1>1, <2>2, <3>1 DEF Found, Right
  <2>4. BuildFinds'
    BY <1>1, <2>3 DEF BuildFinds
  <2>5. Stored'
    BY <1>1, SameCalls, SameTexts DEF SureInv, Stored, Right
  <2> QED BY <1>2, <2>1, <2>4, <2>5 DEF SureInv
<1> QED BY <1>3, <1>4

LEMMA SureStep == IndexInv /\ SureInv /\ OnDisk /\ [Next]_vars => SureInv'
<1> SUFFICES ASSUME IndexInv, SureInv, OnDisk, [Next]_vars PROVE SureInv'
  OBVIOUS
<1>1. ASSUME NEW c \in Calls, RemoveReported(c) PROVE SureInv'
  BY <1>1, CallSure DEF CallStep
<1>2. ASSUME Loaded PROVE SureInv'
  <2>1. IndexInv'
    BY <1>2, LoadKeeps
  <2> QED BY <1>2, <2>1, LoadedSure
<1>3. CASE Next
  BY <1>1, <1>2, <1>3, PlanSure, IntegrateSure, BuildSure, ReadDiskSure, RestartSure,
     EditorSure, CallSure, Zenon DEF Next
<1>4. CASE UNCHANGED vars
  BY <1>4, SureStutters
<1> QED BY <1>3, <1>4

-----------------------------------------------------------------------------
(* What a step that writes nothing leaves on disk and on its way there.    *)
LEMMA DiskStays ==
  ASSUME DiskInv, UNCHANGED <<disk, stored>>,
         \A c \in Writers' : c \in Writers /\ call'[c].image = call[c].image,
         \A f \in Files \ (unsure' \cup unsaved') :
           /\ f \notin unsure \cup unsaved
           /\ f \notin Touched' => f \notin Touched /\ Content(f)' = Content(f)
           /\ ~Pending(f)' => ~Pending(f) /\ Content(f)' = Content(f)
  PROVE  OnDisk' /\ CallsWrite'
<1>1. OnDisk'
  <2> SUFFICES ASSUME stored, NEW f \in Files \ (unsure' \cup unsaved'), f \notin Touched'
               PROVE  Right(disk[f], Content(f)')
    BY DEF OnDisk, Right
  <2> QED BY DEF DiskInv, OnDisk
<1>2. CallsWrite'
  <2> SUFFICES ASSUME NEW c \in Writers', NEW f \in Files \ (unsure' \cup unsaved'), ~Pending(f)'
               PROVE  Right(call[c].image[f], Content(f)')
    BY DEF CallsWrite, Right
  <2> QED BY DEF DiskInv, CallsWrite
<1> QED BY <1>1, <1>2

LEMMA ImageStays ==
  ASSUME DiskInv,
         build'.at = "persist" =>
           /\ build.at = "persist" /\ build'.image = build.image
           /\ \A f \in Files \ met' :
                f \notin met /\ (~Pending(f)' => ~Pending(f) /\ Content(f)' = Content(f))
  PROVE  BuildWrites'
<1> SUFFICES ASSUME build'.at = "persist", NEW f \in Files \ met', ~Pending(f)'
             PROVE  Right(build'.image[f], Content(f)')
  BY DEF BuildWrites, Right
<1> QED BY DEF DiskInv, BuildWrites

(* The requests that go on write nothing yet.                              *)
LEMMA RequestsGo ==
  ASSUME IndexInv, \A c \in Calls : Goes(call[c], call'[c])
  PROVE  /\ \A c \in Writers' : c \in Writers /\ call'[c] = call[c]
         /\ \A f \in Files \ Abandoned :
              (f \in Touched => f \in Touched') /\ (Pending(f) => Pending(f)')
<1>1. \A c \in Calls : CallOK(call[c], workspace)
  BY DEF IndexInv, CallsOK
<1>2. ASSUME NEW c \in Writers' PROVE c \in Writers /\ call'[c] = call[c]
  <2>1. c \in Calls /\ call'[c].at = "persist"
    BY DEF Writers
  <2>2. Goes(call[c], call'[c]) /\ CallOK(call[c], workspace)
    BY <1>1, <2>1
  <2>3. call'[c] = call[c]
    BY <2>1, <2>2, GoesOn, GoesElse DEF Started
  <2> QED BY <2>1, <2>3 DEF Writers
<1>3. ASSUME NEW c \in Calls, call[c].op \in Changes, call[c].f \notin Abandoned,
             call[c].at # "idle"
      PROVE  /\ call'[c].at # "idle" /\ call'[c].op = call[c].op /\ call'[c].f = call[c].f
             /\ call'[c] = call[c] \/ call'[c].at \in {"wait"} \cup Started
  <2>1. Goes(call[c], call'[c]) /\ CallOK(call[c], workspace)
    BY <1>1
  <2>2. call'[c] # Idle
    BY <1>3 DEF Abandoned, Abandons
  <2>3. call'[c].at # "idle"
    BY <1>3, <2>1, <2>2, GoesOn
  <2> QED BY <1>3, <2>1, <2>3, GoesOn
<1>4. ASSUME NEW f \in Files \ Abandoned, f \in Touched PROVE f \in Touched'
  <2>1. PICK c \in Calls : call[c].at # "idle" /\ call[c].op \in Changes /\ call[c].f = f
    BY <1>4 DEF Touched, InFlight
  <2>2. call'[c].at # "idle" /\ call'[c].op \in Changes /\ call'[c].f = f
    BY <1>3, <1>4, <2>1
  <2> QED BY <2>2 DEF Touched, InFlight
<1>5. ASSUME NEW f \in Files \ Abandoned, Pending(f) PROVE Pending(f)'
  <2>1. PICK c \in Calls : Open(call[c], f)
    BY <1>5 DEF Pending
  <2>2. Open(call'[c], f)
    BY <1>3, <1>5, <2>1 DEF Open, Started
  <2> QED BY <2>2 DEF Pending, Open
<1> QED BY <1>2, <1>4, <1>5

(* A step by which requests go on, and no file changes.                    *)
LEMMA GoingKeepsDisk ==
  ASSUME IndexInv, DiskInv, UNCHANGED <<workspace, gone, disk, stored>>,
         \A c \in Calls : Goes(call[c], call'[c]),
         \A f \in Files \ (unsure' \cup unsaved') :
           f \notin unsure \cup unsaved /\ f \notin Abandoned
  PROVE  OnDisk' /\ CallsWrite'
BY RequestsGo, SameTexts, DiskStays

(* A build that answers nobody and does not begin to write.                *)
LEMMA BuildKeepsDisk ==
  ASSUME DiskInv, UNCHANGED <<workspace, gone, disk, stored, call, unsure, unsaved>>,
         build'.at # "persist"
  PROVE  DiskInv'
<1>1. OnDisk' /\ CallsWrite'
  BY SameCalls, SameTexts, DiskStays DEF Writers, Touched, InFlight
<1>2. BuildWrites'
  BY ImageStays
<1> QED BY <1>1, <1>2 DEF DiskInv

(* A build that ends and has written nothing.                              *)
LEMMA EndBuildDisk ==
  ASSUME IndexInv, DiskInv, NEW ok \in BOOLEAN, EndBuild(ok), unsaved' = unsaved \cup unsure,
         UNCHANGED <<workspace, gone, disk, stored>>
  PROVE  DiskInv'
<1>1. OnDisk' /\ CallsWrite'
  BY EndBuildGoes, GoingKeepsDisk
<1>2. build'.at # "persist"
  BY NoBuildSure DEF EndBuild
<1> QED BY <1>1, <1>2, ImageStays DEF DiskInv

(* The end of a build that may write the table it has made.                *)
LEMMA CommitDisk ==
  ASSUME IndexInv, DiskInv, SureInv', NEW b, {"at", "image"} \subseteq DOMAIN b, NEW table,
         CommitBuild(b, table), UNCHANGED <<workspace, gone, disk, stored>>
  PROVE  DiskInv'
<1>1. CASE EndBuild(TRUE) /\ unsaved' = unsaved \cup unsure
  <2>1. TRUE \in BOOLEAN
    OBVIOUS
  <2> QED BY <1>1, <2>1, EndBuildDisk
<1>2. CASE /\ build' = [b EXCEPT !.at = "persist", !.image = table]
           /\ UNCHANGED <<call, unsure, met, unsaved>>
  <2>1. OnDisk' /\ CallsWrite'
    BY <1>2, SameCalls, SameTexts, DiskStays DEF Writers, Touched, InFlight
  <2>2. build'.at = "persist" /\ build'.image = table /\ chunks' = table
    BY <1>2 DEF CommitBuild
  <2>3. BuildWrites'
    BY <2>2 DEF BuildWrites, SureInv, BuildFinds, Found
  <2> QED BY <2>1, <2>3 DEF DiskInv
<1> QED BY <1>1, <1>2 DEF CommitBuild, historyVars

LEMMA SwapDisk ==
  ASSUME IndexInv, DiskInv, SureInv', NEW b, {"at", "image"} \subseteq DOMAIN b, NEW left,
         Swap(b, left), UNCHANGED <<workspace, gone, disk, stored>>
  PROVE  DiskInv'
<1> DEFINE c == [b EXCEPT !.changed = @ \/ Leftovers(left)]
<1>1. {"at", "image"} \subseteq DOMAIN c
  OBVIOUS
<1>2. \/ build' = [c EXCEPT !.at = "embed"] /\ UNCHANGED <<call, unsure, unsaved>>
      \/ CommitBuild(c, b.next)
  BY DEF Swap, historyVars
<1> HIDE DEF c
<1>3. CASE CommitBuild(c, b.next)
  BY <1>1, <1>3, CommitDisk
<1>4. CASE build' = [c EXCEPT !.at = "embed"] /\ UNCHANGED <<call, unsure, unsaved>>
  <2>1. build'.at = "embed"
    BY <1>1, <1>4
  <2> QED BY <1>4, <2>1, BuildKeepsDisk
<1> QED BY <1>2, <1>3, <1>4

(* The steps of a build.                                                   *)
LEMMA BuildDisk ==
  ASSUME IndexInv, SureInv, DiskInv, SureInv',
         Plan \/ Integrate \/ BuildStep \/ BuildPersistFails
  PROVE  DiskInv'
<1>0. {"at", "image"} \subseteq DOMAIN build
  BY BuildFields
<1> USE DEF historyVars, diskVars, tableVars, editorVars
<1>1. ASSUME Plan PROVE DiskInv'
  <2> DEFINE todo == Accepted(build)
             reads == Reads(build, todo)
             b == [build EXCEPT !.at = "read", !.todo = todo, !.waiting = reads]
  <2>1. /\ UNCHANGED <<workspace, gone, disk, stored>>
        /\ \/ build' = b /\ UNCHANGED <<call, unsure, unsaved>>
           \/ Swap(b, Lookup)
    BY <1>1 DEF Plan
  <2>2. {"at", "image"} \subseteq DOMAIN b /\ b.at = "read"
    BY <1>0
  <2> HIDE DEF b
  <2> QED BY <2>1, <2>2, BuildKeepsDisk, SwapDisk
<1>2. ASSUME Integrate PROVE DiskInv'
  <2> DEFINE batch == Batch(build.todo)
             todo == build.todo \ batch
             left == [f \in Files |-> IF f \in batch THEN NoEntry ELSE Lookup[f]]
             next == [f \in Files |->
                        IF f \notin batch THEN build.next[f]
                        ELSE IF Unchanged(build, f) THEN build.previous[f]
                        ELSE Facts(f, build.stat[f], build.read[f])]
             changed == \/ build.changed
                        \/ \E f \in Reads(build, build.todo) : build.read[f] # 0
             table == IF build.detached THEN left ELSE build.table
             reads == Reads(build, todo)
             b == [build EXCEPT !.todo = todo, !.waiting = reads,
                                !.next = next, !.changed = changed, !.table = table]
  <2>1. /\ UNCHANGED <<workspace, gone, disk, stored>> /\ build.at = "read"
        /\ \/ build' = b /\ UNCHANGED <<call, unsure, unsaved>>
           \/ Swap(b, left)
    BY <1>2 DEF Integrate
  <2> HIDE DEF batch, todo, left, next, changed, table, reads
  <2>2. {"at", "image"} \subseteq DOMAIN b /\ b.at = build.at
    BY <1>0
  <2> HIDE DEF b
  <2> QED BY <2>1, <2>2, BuildKeepsDisk, SwapDisk
<1>3. CASE BuildEmbedded
  BY <1>0, <1>3, CommitDisk DEF BuildEmbedded
<1>4. CASE BuildPersistFails
  <2>1. FALSE \in BOOLEAN
    OBVIOUS
  <2> QED BY <1>4, <2>1, EndBuildDisk DEF BuildPersistFails
<1>5. CASE Scan \/ \E f \in Files : StatFile(f) \/ ReadFile(f)
  <2> DEFINE quiet == UNCHANGED <<workspace, gone, disk, stored, call, unsure, unsaved>>
  <2>1. ASSUME Scan PROVE quiet /\ build'.at = "stat"
    BY <1>0, <2>1 DEF Scan
  <2>2. ASSUME NEW f \in Files, StatFile(f) PROVE quiet /\ build'.at = "stat"
    BY <1>0, <2>2 DEF StatFile
  <2>3. ASSUME NEW f \in Files, ReadFile(f) PROVE quiet /\ build'.at = "read"
    BY <1>0, <2>3 DEF ReadFile
  <2>4. quiet /\ build'.at # "persist"
    BY <1>5, <2>1, <2>2, <2>3
  <2> QED BY <2>4, BuildKeepsDisk
<1>6. CASE BuildPersisted
  <2>1. /\ build.at = "persist" /\ disk' = build.image /\ EndBuild(TRUE) /\ TRUE \in BOOLEAN
        /\ unsaved' = (IF Writers = {} THEN {} ELSE unsaved \cup unsure)
        /\ UNCHANGED <<workspace, gone>>
    BY <1>6 DEF BuildPersisted
  <2>2. (\A c \in Calls : Goes(call[c], call'[c])) /\ Abandoned \subseteq unsure'
    BY <2>1, EndBuildGoes
  <2>3. /\ \A c \in Writers' : c \in Writers /\ call'[c] = call[c]
        /\ \A f \in Files \ unsure' : Pending(f) => Pending(f)'
    BY <2>2, RequestsGo
  <2>4. met \subseteq unsure' /\ build'.at # "persist"
    BY <2>1, NoBuildSure DEF EndBuild
  <2>5. OnDisk'
    <3> SUFFICES ASSUME NEW f \in Files \ (unsure' \cup unsaved'), f \notin Touched'
                 PROVE  Right(build.image[f], Content(f)')
      BY <2>1 DEF OnDisk, Right
    <3>1. ~Pending(f)'
      BY DEF Pending, Open, Touched, InFlight
    <3> QED BY <2>1, <2>3, <2>4, <3>1, SameTexts DEF DiskInv, BuildWrites
  <2>6. CallsWrite'
    <3> SUFFICES ASSUME NEW c \in Writers', NEW f \in Files \ (unsure' \cup unsaved'), ~Pending(f)'
                 PROVE  Right(call[c].image[f], Content(f)')
      BY <2>3 DEF CallsWrite, Right
    <3>1. c \in Writers /\ f \notin unsure \cup unsaved /\ ~Pending(f)
      BY <2>1, <2>3
    <3> QED BY <2>1, <3>1, SameTexts DEF DiskInv, CallsWrite
  <2> QED BY <2>4, <2>5, <2>6, ImageStays DEF DiskInv
<1> QED BY <1>1, <1>2, <1>3, <1>4, <1>5, <1>6 DEF BuildStep

(* The index is loaded.                                                    *)
LEMMA LoadDisk ==
  ASSUME IndexInv, DiskInv, ReadDisk \/ Loaded PROVE DiskInv'
<1>0. /\ {"at", "image"} \subseteq DOMAIN build
      /\ \A c \in Calls : CallOK(call[c], workspace)
      /\ call = [c \in Calls |-> call[c]]
  BY BuildFields DEF IndexInv, CallsOK
<1>1. UNCHANGED <<workspace, gone, disk, stored, unsaved>>
  BY DEF ReadDisk, Loaded, editorVars, diskVars, historyVars
<1>2. \A c \in Calls :
        call'[c] = call[c]
          \/ (call[c].at = "load" /\ call'[c] \in {Onward(call[c]), [call[c] EXCEPT !.at = "wait"]})
  BY <1>0 DEF ReadDisk, Loaded
<1>3. \A c \in Calls : Goes(call[c], call'[c])
  BY <1>2 DEF Goes
<1>4. ASSUME NEW c \in Calls, Abandons(c) PROVE FALSE
  <2>1. call'[c] = Idle /\ call[c].at # "idle" /\ call[c].op \in Changes /\ Idle.at = "idle"
    BY <1>4 DEF Abandons, Idle
  <2>2. Onward(call[c]).at \in Started /\ "idle" \notin Started
    BY <1>0, <2>1, OnwardGoes DEF Started
  <2>3. [call[c] EXCEPT !.at = "wait"].at = "wait"
    BY <1>0 DEF CallOK
  <2> QED BY <1>2, <2>1, <2>2, <2>3
<1>5. Abandoned = {}
  BY <1>4 DEF Abandoned
<1>6. \A f \in Files : f \notin unsure' => f \notin unsure
  BY DEF ReadDisk, Loaded, historyVars
<1>7. OnDisk' /\ CallsWrite'
  BY <1>1, <1>3, <1>5, <1>6, GoingKeepsDisk
<1>8. ASSUME build'.at = "persist"
      PROVE  /\ build.at = "persist" /\ build'.image = build.image
             /\ \A f \in Files : f \notin met' => f \notin met
  <2>1. \/ UNCHANGED <<build, met>>
        \/ build' = [build EXCEPT !.at = "scan"]
        \/ build' = [NoBuild EXCEPT !.at = "scan"]
        \/ build' = Detached /\ met' = (IF Late THEN Files ELSE met)
    BY DEF ReadDisk, Loaded, historyVars
  <2>2. [NoBuild EXCEPT !.at = "scan"].at = "scan"
    BY DEF NoBuild
  <2>3. Detached.at = build.at /\ Detached.image = build.image
    BY BuildFields DEF Detached
  <2> QED BY <1>0, <1>8, <2>1, <2>2, <2>3
<1>9. \A f \in Files : Pending(f) => Pending(f)'
  BY <1>3, <1>5, RequestsGo
<1>10. BuildWrites'
  BY <1>1, <1>8, <1>9, SameTexts, ImageStays
<1> QED BY <1>7, <1>10 DEF DiskInv

(* A crash, after which the exceptions are those of unsure alone.          *)
LEMMA RestartDisk ==
  ASSUME IndexInv, SureInv', Restart PROVE DiskInv'
<1>1. /\ stats' = FALSE /\ build' = NoBuild /\ call' = [c \in Calls |-> Idle]
  BY DEF Restart
<1>2. Writers' = {} /\ (\A f \in Files : ~Pending(f)') /\ build'.at # "persist"
  BY <1>1, NoBuildSure DEF Writers, Pending, Open, Idle
<1>3. OnDisk'
  BY <1>1, <1>2 DEF OnDisk, SureInv, Stored
<1> QED BY <1>2, <1>3 DEF DiskInv, CallsWrite, BuildWrites

(* The editor reports a change, or something changes a file.               *)
LEMMA EditorDisk ==
  ASSUME IndexInv, SureInv, DiskInv,
         \/ \E f \in Files : ChangeUnreported(f)
         \/ \E c \in Calls :
              \/ \E f \in Files : Save(c, f) \/ Delete(c, f)
              \/ RebuildTimer(c) \/ \E op \in {"build", "search"} : Ask(c, op)
  PROVE  DiskInv'
<1>1. ASSUME NEW f \in Files, ChangeUnreported(f) PROVE DiskInv'
  <2>1. /\ unsure' = unsure \cup {f} /\ met' = met \cup {f} /\ unsaved' = unsaved
        /\ UNCHANGED <<disk, stored, build, call>>
        /\ \A g \in Files : g # f => Content(g)' = Content(g)
    BY <1>1 DEF ChangeUnreported, diskVars, Content, IndexInv
  <2>2. OnDisk' /\ CallsWrite'
    BY <2>1, SameCalls, DiskStays DEF Writers, Touched, InFlight
  <2>3. BuildWrites'
    BY <2>1, SameCalls, ImageStays
  <2> QED BY <2>2, <2>3 DEF DiskInv
<1>2. ASSUME NEW c \in Calls, NEW op, NEW f, Request(c, op, f),
             \A g \in Files : g # f => Content(g)' = Content(g),
             op \in Changes \/ f \notin Files
      PROVE  DiskInv'
  <2>0. UNCHANGED <<disk, stored, unsaved>>
    BY <1>2 DEF Request, diskVars
  <2>1. /\ call[c] = Idle
        /\ unsure' = unsure \cup ({f} \cap Touched)
        /\ \/ UNCHANGED <<build, met>>
           \/ build' \in {[NoBuild EXCEPT !.at = "scan"], [NoBuild EXCEPT !.at = "load"]}
    BY <1>2, RequestMade
  <2>2. PICK s : /\ call' = [call EXCEPT ![c] = s]
                 /\ s.at \in {"idle", "load", "wait"} \cup Started
                 /\ s.at # "idle" => s.op = op /\ s.f = f
                 /\ op \in Changes => s.at # "idle"
    <3>1. Request(c, op, f)
      BY <1>2
    <3> QED BY <3>1, RequestMade
  <2>3. call'[c] = s /\ call[c].at = "idle" /\ \A d \in Calls : d # c => call'[d] = call[d]
    BY <2>1, <2>2 DEF IndexInv, CallsOK, Idle
  <2>4. \A d \in Writers' : d \in Writers /\ call'[d].image = call[d].image
    BY <2>2, <2>3 DEF Writers, Started
  <2>5. ASSUME NEW g \in Files
        PROVE  /\ g \notin Touched' => g \notin Touched /\ g # f
               /\ ~Pending(g)' => ~Pending(g) /\ g # f
    <3>1. \A d \in Calls : call[d].at # "idle" => call'[d] = call[d]
      BY <2>3
    <3>2. g = f => call'[c].at \notin {"idle", "persist"} /\ call'[c].op \in Changes /\ call'[c].f = g
      BY <1>2, <2>2, <2>3 DEF Started
    <3>3. g \notin Touched' => g \notin Touched /\ g # f
      BY <3>1, <3>2 DEF Touched, InFlight
    <3>4. ~Pending(g)' => ~Pending(g) /\ g # f
      BY <3>1, <3>2 DEF Pending, Open
    <3> QED BY <3>3, <3>4
  <2>6. OnDisk' /\ CallsWrite'
    BY <1>2, <2>0, <2>1, <2>4, <2>5, DiskStays
  <2>7. build'.at = "persist" => UNCHANGED <<build, met>>
    BY <2>1 DEF NoBuild
  <2>8. BuildWrites'
    BY <1>2, <2>5, <2>7, ImageStays
  <2> QED BY <2>6, <2>8 DEF DiskInv
<1>3. ASSUME NEW c \in Calls, NEW f \in Files, Save(c, f) \/ Delete(c, f) PROVE DiskInv'
  <2>1. \A g \in Files : g # f => Content(g)' = Content(g)
    BY <1>3 DEF Save, Delete, Content, IndexInv
  <2>2. \E op \in Changes : Request(c, op, f)
    BY <1>3 DEF Save, Delete, Changes
  <2> QED BY <1>2, <2>1, <2>2
<1>4. ASSUME NEW c \in Calls, NEW op \in {"build", "search"}, Request(c, op, NoFile),
             UNCHANGED <<workspace, gone>>
      PROVE  DiskInv'
  BY <1>2, <1>4, SameTexts, FilesAssumption
<1>5. ASSUME NEW c \in Calls, RebuildTimer(c) PROVE DiskInv'
  BY <1>4, <1>5 DEF RebuildTimer
<1>6. ASSUME NEW c \in Calls, NEW op \in {"build", "search"}, Ask(c, op) PROVE DiskInv'
  BY <1>4, <1>6 DEF Ask
<1> QED BY <1>1, <1>3, <1>5, <1>6

(* A request changes the index, and what it writes is what is served then. *)
LEMMA ChangeDisk ==
  ASSUME IndexInv, DiskInv, SureInv', NEW c \in Calls, NEW table, Commit(c, table),
         call[c].at \in {"stat", "read", "land", "embed", "remove"}
  PROVE  DiskInv'
<1> DEFINE f == call[c].f
<1>1. /\ files' = table /\ stats'
      /\ call' = [call EXCEPT ![c].at = "persist", ![c].image = table]
      /\ UNCHANGED <<workspace, gone, build, disk, stored>>
      /\ unsure \subseteq unsure' /\ met \subseteq met' /\ unsaved \subseteq unsaved'
      /\ build # NoBuild => f \in met'
      /\ Writers # {} => f \in unsaved'
      /\ \A g \in Files : build.next[g] # NoEntry => g \in unsaved'
  BY DEF Commit, editorVars, diskVars
<1>2. CallOK(call[c], workspace) /\ call = [d \in Calls |-> call[d]]
  BY DEF IndexInv, CallsOK
<1>3. /\ call'[c].at = "persist" /\ call'[c].op = call[c].op /\ call'[c].f = f
      /\ call'[c].image = table
      /\ \A d \in Calls : d # c => call'[d] = call[d]
  BY <1>1, <1>2 DEF CallOK
<1>4. ASSUME NEW g \in Files
      PROVE  /\ g \in Touched => g \in Touched'
             /\ g # f => (Pending(g) => Pending(g)')
  <2>1. \A d \in Calls : call[d].at # "idle" => /\ call'[d].at # "idle" /\ call'[d].f = call[d].f
                                                /\ call'[d].op = call[d].op
    BY <1>3
  <2>2. \A d \in Calls : g # f => (Open(call[d], g) => Open(call'[d], g))
    BY <1>3 DEF Open
  <2> QED BY <2>1, <2>2 DEF Touched, InFlight, Pending
<1>5. OnDisk'
  <2> SUFFICES ASSUME stored, NEW g \in Files \ (unsure' \cup unsaved'), g \notin Touched'
               PROVE  Right(disk[g], Content(g)')
    BY <1>1 DEF OnDisk, Right
  <2> QED BY <1>1, <1>4, SameTexts DEF DiskInv, OnDisk
<1>6. CallsWrite'
  <2> SUFFICES ASSUME NEW d \in Writers', NEW g \in Files \ (unsure' \cup unsaved'), ~Pending(g)'
               PROVE  Right(call'[d].image[g], Content(g)')
    BY DEF CallsWrite, Right
  <2>1. CASE d = c
    <3>1. Right(Live(g)', Content(g)')
      BY <1>1 DEF SureInv, Served, Right
    <3>2. Live(g)' = table[g]
      BY <1>1 DEF Live
    <3> QED BY <1>3, <2>1, <3>1, <3>2
  <2>2. CASE d # c
    <3>1. d \in Writers /\ call'[d] = call[d]
      BY <1>3, <2>2 DEF Writers
    <3>2. g # f
      BY <1>1, <3>1
    <3>3. ~Pending(g) /\ g \notin unsure \cup unsaved /\ Content(g)' = Content(g)
      BY <1>1, <1>4, <3>2, SameTexts
    <3> QED BY <3>1, <3>3 DEF DiskInv, CallsWrite
  <2> QED BY <2>1, <2>2
<1>7. BuildWrites'
  <2>1. build.at = "persist" => build # NoBuild
    BY NoBuildSure
  <2>2. build.at = "persist" =>
          \A g \in Files \ met' : g \notin met /\ (~Pending(g)' => ~Pending(g))
    BY <1>1, <1>4, <2>1
  <2> QED BY <1>1, <2>2, SameTexts, ImageStays
<1> QED BY <1>5, <1>6, <1>7 DEF DiskInv

(* The steps of a request.                                                 *)
LEMMA CallDisk ==
  ASSUME IndexInv, SureInv, DiskInv, SureInv', NEW c \in Calls, CallStep(c) \/ PersistFails(c)
  PROVE  DiskInv'
<1> DEFINE f == call[c].f
<1>0. CallOK(call[c], workspace) /\ call = [d \in Calls |-> call[d]]
  BY DEF IndexInv, CallsOK
<1>1. ASSUME NEW r, call' = [call EXCEPT ![c] = r], r.op = call[c].op, r.f = f,
             call[c].at \in {"stat", "read", "land"}, r.at \in {"read", "land", "embed"},
             UNCHANGED <<workspace, gone, build, disk, stored, unsure, met, unsaved>>
      PROVE  DiskInv'
  <2>1. call'[c] = r /\ \A d \in Calls : d # c => call'[d] = call[d]
    BY <1>0, <1>1
  <2>2. \A d \in Writers' : d \in Writers /\ call'[d].image = call[d].image
    BY <1>1, <2>1 DEF Writers
  <2>3. \A g \in Files : (g \in Touched => g \in Touched') /\ (Pending(g) => Pending(g)')
    <3>1. \A d \in Calls : call[d].at # "idle" => /\ call'[d].at # "idle" /\ call'[d].f = call[d].f
                                                  /\ call'[d].op = call[d].op
      BY <1>1, <2>1
    <3>2. \A g, d \in Calls \cup Files : Open(call[d], g) /\ d \in Calls => Open(call'[d], g)
      BY <1>1, <2>1 DEF Open
    <3> QED BY <3>1, <3>2 DEF Touched, InFlight, Pending
  <2>4. OnDisk' /\ CallsWrite'
    BY <1>1, <2>2, <2>3, SameTexts, DiskStays
  <2>5. BuildWrites'
    BY <1>1, <2>3, SameTexts, ImageStays
  <2> QED BY <2>4, <2>5 DEF DiskInv
<1> USE DEF editorVars, diskVars, historyVars
<1>2. CASE StatSaved(c) /\ ~Commit(c, Dropped(c))
  <2> DEFINE r == [call[c] EXCEPT !.at = "read", !.stat = workspace[f]]
  <2>1. /\ call' = [call EXCEPT ![c].at = "read", ![c].stat = workspace[f]]
        /\ call[c].at = "stat"
        /\ UNCHANGED <<workspace, gone, build, disk, stored, unsure, met, unsaved>>
    BY <1>2 DEF StatSaved
  <2>2. call' = [call EXCEPT ![c] = r] /\ r.op = call[c].op /\ r.f = f /\ r.at = "read"
    BY <1>0, <2>1 DEF CallOK
  <2> HIDE DEF r
  <2> QED BY <1>1, <2>1, <2>2
<1>3. CASE ReadSaved(c)
  <2> DEFINE text == Content(f)
             r == [call[c] EXCEPT !.at = "land", !.content = text]
  <2>1. /\ call' = [call EXCEPT ![c].at = "land", ![c].content = text]
        /\ call[c].at = "read"
        /\ UNCHANGED <<workspace, gone, build, disk, stored, unsure, met, unsaved>>
    BY <1>3 DEF ReadSaved
  <2> HIDE DEF text
  <2>2. call' = [call EXCEPT ![c] = r] /\ r.op = call[c].op /\ r.f = f /\ r.at = "land"
    BY <1>0, <2>1 DEF CallOK
  <2> HIDE DEF r
  <2> QED BY <1>1, <2>1, <2>2
<1>4. CASE Land(c) /\ ~\E table : Commit(c, table)
  <2> DEFINE r == [call[c] EXCEPT !.at = "embed"]
  <2>1. /\ call' = [call EXCEPT ![c].at = "embed"] /\ call[c].at = "land"
        /\ UNCHANGED <<workspace, gone, build, disk, stored, unsure, met, unsaved>>
    BY <1>4 DEF Land
  <2>2. call' = [call EXCEPT ![c] = r] /\ r.op = call[c].op /\ r.f = f /\ r.at = "embed"
    BY <1>0, <2>1 DEF CallOK
  <2> HIDE DEF r
  <2> QED BY <1>1, <2>1, <2>2
<1>5. CASE /\ call[c].at \in {"stat", "read", "land", "embed", "remove"}
           /\ \E table : Commit(c, table)
  BY <1>5, ChangeDisk
<1>6. ASSUME call[c].at = "persist", call' = [call EXCEPT ![c] = Idle],
             UNCHANGED <<workspace, gone, build, unsure, met>>
      PROVE  /\ \A d \in Calls : d # c => call'[d] = call[d]
             /\ Writers' = Writers \ {c}
             /\ \A g \in Files : /\ g # f => (g \in Touched => g \in Touched')
                                 /\ Pending(g) => Pending(g)'
             /\ BuildWrites'
  <2>1. call'[c] = Idle /\ Idle.at = "idle" /\ \A d \in Calls : d # c => call'[d] = call[d]
    BY <1>0, <1>6 DEF Idle
  <2>2. Writers' = Writers \ {c}
    BY <2>1 DEF Writers
  <2>3. ASSUME NEW g \in Files
        PROVE  (g # f => (g \in Touched => g \in Touched')) /\ (Pending(g) => Pending(g)')
    <3>1. g # f => (g \in Touched => g \in Touched')
      BY <2>1 DEF Touched, InFlight
    <3>2. Pending(g) => Pending(g)'
      BY <1>6, <2>1 DEF Pending, Open
    <3> QED BY <3>1, <3>2
  <2>4. BuildWrites'
    BY <1>6, <2>3, SameTexts, ImageStays
  <2> QED BY <2>1, <2>2, <2>3, <2>4
<1>7. CASE PersistFails(c)
  <2>1. /\ call[c].at = "persist" /\ call' = [call EXCEPT ![c] = Idle]
        /\ unsaved' = unsaved \cup {f}
        /\ UNCHANGED <<workspace, gone, build, disk, stored, unsure, met>>
    BY <1>7 DEF PersistFails
  <2>2. OnDisk' /\ CallsWrite'
    BY <1>6, <2>1, SameTexts, DiskStays DEF Writers
  <2> QED BY <1>6, <2>1, <2>2 DEF DiskInv
<1>8. CASE Persisted(c)
  <2>1. /\ call[c].at = "persist" /\ call' = [call EXCEPT ![c] = Idle]
        /\ disk' = call[c].image
        /\ \/ unsaved' = unsaved
           \/ build = NoBuild /\ Writers = {c} /\ call[c].image = files /\ unsaved' = {}
        /\ UNCHANGED <<workspace, gone, files, chunks, build, unsure, met>>
    BY <1>8 DEF Persisted, tableVars
  <2>2. c \in Writers
    BY <2>1 DEF Writers
  <2>3. OnDisk'
    <3> SUFFICES ASSUME NEW g \in Files \ (unsure \cup unsaved'), g \notin Touched'
                 PROVE  Right(call[c].image[g], Content(g))
      BY <2>1, SameTexts DEF OnDisk, Right
    <3>1. ~Pending(g)'
      BY DEF Pending, Open, Touched, InFlight
    <3>2. ~Pending(g)
      BY <1>6, <2>1, <3>1
    <3>3. CASE unsaved' = unsaved
      BY <2>2, <3>2, <3>3 DEF DiskInv, CallsWrite
    <3>4. CASE build = NoBuild /\ call[c].image = files
      <4>1. stats
        BY <2>1 DEF SureInv, CallsSure, Answered
      <4>2. Right(Live(g), Content(g))
        BY <3>2, <4>1 DEF SureInv, Served
      <4>3. Live(g) = files[g]
        BY <3>4, NoBuildSure DEF Live, Empty
      <4> QED BY <3>4, <4>2, <4>3
    <3> QED BY <2>1, <3>3, <3>4
  <2>4. CallsWrite'
    <3> SUFFICES ASSUME NEW d \in Writers', NEW g \in Files \ (unsure \cup unsaved'), ~Pending(g)'
                 PROVE  Right(call'[d].image[g], Content(g))
      BY <2>1, SameTexts DEF CallsWrite, Right
    <3>1. d \in Writers /\ d # c /\ call'[d] = call[d] /\ unsaved' = unsaved /\ ~Pending(g)
      BY <1>6, <2>1 DEF Writers
    <3> QED BY <3>1 DEF DiskInv, CallsWrite
  <2> QED BY <1>6, <2>1, <2>3, <2>4 DEF DiskInv
<1> QED
  <2>1. CASE \E table : Commit(c, table)
    <3>1. CASE Persisted(c) \/ PersistFails(c)
      BY <1>7, <1>8, <3>1
    <3>2. CASE ~(Persisted(c) \/ PersistFails(c))
      <4>1. call[c].at \in {"stat", "read", "land", "embed", "remove"}
        BY <3>2 DEF CallStep, RemoveReported, StatSaved, ReadSaved, Land, Embedded
      <4> QED BY <1>5, <2>1, <4>1
    <3> QED BY <3>1, <3>2
  <2>2. CASE ~\E table : Commit(c, table)
    BY <1>2, <1>3, <1>4, <1>7, <1>8, <2>2 DEF CallStep, RemoveReported, Embedded
  <2> QED BY <2>1, <2>2

LEMMA DiskStep == IndexInv /\ SureInv /\ DiskInv /\ [Next]_vars /\ SureInv' => DiskInv'
<1> SUFFICES ASSUME IndexInv, SureInv, DiskInv, [Next]_vars, SureInv' PROVE DiskInv'
  OBVIOUS
<1>1. ASSUME NEW c \in Calls, RemoveReported(c) PROVE DiskInv'
  BY <1>1, CallDisk DEF CallStep
<1>2. CASE Next
  BY <1>1, <1>2, BuildDisk, LoadDisk, RestartDisk, EditorDisk, CallDisk, Zenon DEF Next
<1>3. CASE UNCHANGED vars
  <2>1. UNCHANGED <<workspace, gone, build, disk, stored, call, unsure, met, unsaved>>
    BY <1>3 DEF vars, editorVars, diskVars, historyVars
  <2>2. OnDisk' /\ CallsWrite'
    BY <2>1, SameCalls, SameTexts, DiskStays DEF Writers, Touched, InFlight
  <2>3. BuildWrites'
    BY <2>1, SameCalls, SameTexts, ImageStays
  <2> QED BY <2>2, <2>3 DEF DiskInv
<1> QED BY <1>2, <1>3

LEMMA SureStart == Init => SureInv /\ DiskInv
<1> SUFFICES ASSUME Init PROVE SureInv /\ DiskInv
  OBVIOUS
<1>1. /\ build = NoBuild /\ stats = FALSE /\ unsure = {} /\ met = {} /\ gone = {}
      /\ call = [c \in Calls |-> Idle] /\ loading = NotLoading
      /\ stored => disk = Image
  BY DEF Init
<1>2. InFlight = {}
  BY <1>1 DEF InFlight, Idle
<1>3. CallsSure
  BY <1>1, <1>2 DEF CallsSure, Alone, Answered, CallsFresh, CallsProper, Proper, Idle
<1>4. Shaped(build) /\ BuildFinds
  BY <1>1, NoBuildSure DEF BuildFinds
<1>5. Served /\ met \subseteq unsure
  BY <1>1 DEF Served
<1>6. \A f \in Files : Right(Image[f], Content(f))
  BY FactsRight DEF Image
<1>7. Stored
  BY <1>1, <1>6 DEF Stored, NotLoading
<1>8. DiskInv
  <2>1. Writers = {} /\ build.at # "persist"
    BY <1>1, NoBuildSure DEF Writers, Idle
  <2>2. OnDisk
    BY <1>1, <1>6 DEF OnDisk
  <2> QED BY <2>1, <2>2 DEF DiskInv, CallsWrite, BuildWrites
<1> QED BY <1>3, <1>4, <1>5, <1>7, <1>8 DEF SureInv

LEMMA SureFollows == SureInv => SavedIsIndexed
<1> SUFFICES ASSUME SureInv, AtRest, stats, NEW f \in Files \ unsure PROVE Indexed(f)
  BY DEF SavedIsIndexed
<1>1. ~Pending(f)
  BY DEF AtRest, InFlight, Pending, Open
<1>2. Right(chunks[f], Content(f))
  BY <1>1 DEF SureInv, Served, AtRest
<1> QED BY <1>2 DEF Indexed, Right

(* updateFile(), removeFile(), buildNow(): at rest a search finds every    *)
(* file as it is, through saves, deletions, rebuilds, loads, failed        *)
(* persists and restarts, in any order, of any number of files; but for    *)
(* the files that two operations met at, that a rejected report named or   *)
(* that changed unreported, and those of a change that a crash undid       *)
(* because its persist had failed or was one of several under way or ran   *)
(* beside a build.  An answered update whose persist was alone is on disk. *)
THEOREM SavesAreIndexed == Spec => []SavedIsIndexed
<1> DEFINE Inv == IndexInv /\ SureInv /\ DiskInv
<1>1. Init => Inv
  BY IndexStart, SureStart
<1>2. Inv /\ [Next]_vars => Inv'
  BY IndexStep, SureStep, DiskStep DEF DiskInv
<1>3. Inv => SavedIsIndexed
  BY SureFollows
<1> QED BY <1>1, <1>2, <1>3, PTL DEF Spec
=============================================================================
