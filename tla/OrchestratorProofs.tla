--------------------------- MODULE OrchestratorProofs ---------------------------
(***************************************************************************)
(* Proofs about Orchestrator: dependencies first, starts within the retry  *)
(* budget, a success on disk is final and every container has its task,    *)
(* for every set of runs, task graph, budget, pool and number of crashes;  *)
(* the pool and the slots are exact and an ended run is settled under the  *)
(* hypotheses their theorems name.                                         *)
(*                                                                         *)
(* A run exists in memory, on disk and in the persist calls between them.  *)
(* The argument is about that history: each snapshot is sound by itself,   *)
(* they are ordered from the disk to the memory, and what has a container  *)
(* or an execution is shown as running by those a restart could find.      *)
(***************************************************************************)
EXTENDS Orchestrator, SequenceTheorems, FunctionTheorems, FiniteSetTheorems, TLAPS

Statuses == {"absent", "queued", "running", "succeeded", "failed", "cancelled"}
TaskStatuses == {"pending", "running", "succeeded", "failed", "skipped", "cancelled"}
Snapshots ==
  [status : Statuses, cancel : BOOLEAN, task : [Tasks -> TaskStatuses],
   attempt : [Tasks -> Nat], where : [Tasks -> Nat]]

Roles == {"start", "main", "heartbeat", "cancel", "task"}
Callers == [role : Roles, t : Nat, a : Nat]
Entries == [who : Callers, snap : Snapshots]

Places == {"mkdir", "saving", "running", "waiting", "recovering", "closing"}
Execs == [r : Runs, t : Tasks, a : Nat, at : Places]
MainPlaces ==
  {"none", "spec", "created", "started", "failing", "loop", "dispatch", "race",
   "delay", "close", "closing"}

Types ==
  /\ run \in [Runs -> Snapshots]
  /\ main \in [Runs -> MainPlaces]
  /\ execs \in SUBSET Execs
  /\ chain \in [Runs -> Seq(Entries)]
  /\ landed \in [Runs -> BOOLEAN]
  /\ cancelling \in [Runs -> {"no", "removing", "saving"}]
  /\ loading \in SUBSET Runs
  /\ DOMAIN disk = Runs
  /\ \A r \in Runs : disk[r].snap \in Snapshots
  /\ containers \in [Runs -> [Tasks -> {"none", "running", "ok", "bad"}]]
  /\ launches \in [Runs -> [Tasks -> Nat]]

(* What holds in every snapshot of a run by itself.                        *)
InBudget(x) ==
  \A t \in Tasks : /\ x.attempt[t] <= Retries[t] + 1
                   /\ x.task[t] = "pending" => x.attempt[t] <= Retries[t]
InDependencyOrder(x) ==
  \A t \in Tasks : x.task[t] \in {"running", "succeeded"} =>
    \A d \in DependsOn[t] : x.task[d] = "succeeded"
Sound(x) == InBudget(x) /\ InDependencyOrder(x)

(* x may come before y in the history of a run.                            *)
Ahead(x, y) ==
  \A t \in Tasks : /\ x.attempt[t] <= y.attempt[t]
                   /\ x.task[t] = "succeeded" => y.task[t] = "succeeded"

(* The history of a run: the disk, the persist calls and the memory.       *)
AllSound(d, c, x) ==
  Sound(d) /\ Sound(x) /\ \A k \in 1..Len(c) : Sound(c[k].snap)
InOrder(d, c, x) ==
  /\ Ahead(d, x)
  /\ \A k \in 1..Len(c) : Ahead(d, c[k].snap) /\ Ahead(c[k].snap, x)
  /\ \A k \in 1..Len(c) : \A j \in k..Len(c) : Ahead(c[k].snap, c[j].snap)

SoundInv == \A r \in Runs : AllSound(disk[r].snap, chain[r], run[r])
OrderInv == \A r \in Runs : InOrder(disk[r].snap, chain[r], run[r])
LandedInv ==
  \A r \in Runs : landed[r] => /\ chain[r] # <<>>
                               /\ disk[r].snap = Head(chain[r]).snap

(* An execution that has not ended is the current attempt of a task that   *)
(* is running, and the only one.                                           *)
BusyInv ==
  \A e \in execs :
    /\ e.a <= run[e.r].attempt[e.t]
    /\ e.at # "closing" => /\ run[e.r].task[e.t] = "running"
                           /\ run[e.r].attempt[e.t] = e.a
UniqueInv ==
  \A e, f \in execs : e.r = f.r /\ e.t = f.t /\ e.a = f.a => e = f
LoadingInv ==
  \A r \in loading : /\ main[r] = "none" /\ cancelling[r] = "no"
                     /\ chain[r] = <<>>
                     /\ \A e \in execs : e.r # r

(* The persist call an execution waits for before its container starts,    *)
(* and those behind it, show its attempt.                                  *)
PastCalls(c, x) ==
  \A k \in 1..Len(c) : c[k].who.role = "task" =>
    c[k].who.t \in Tasks /\ c[k].who.a <= x.attempt[c[k].who.t]
SavesPast == \A r \in Runs : PastCalls(chain[r], run[r])
NotSaved(c, t, a) == \A k \in 1..Len(c) : c[k].who # TaskCaller(t, a)
SavesAttempt(c, t, a) ==
  \A k \in 1..Len(c) : c[k].who = TaskCaller(t, a) =>
    \A j \in k..Len(c) : c[j].snap.task[t] = "running" /\ c[j].snap.attempt[t] = a
SavingInv ==
  \A e \in execs : /\ e.at = "mkdir" => NotSaved(chain[e.r], e.t, e.a)
                   /\ e.at = "saving" => SavesAttempt(chain[e.r], e.t, e.a)

(* Each start belongs to an attempt that is on disk.                       *)
LaunchInv ==
  /\ \A r \in Runs, t \in Tasks : launches[r][t] <= disk[r].snap.attempt[t]
  /\ \A e \in execs : e.at \in {"mkdir", "saving"} => launches[e.r][e.t] < e.a

(* What a restart may find shows a task that has a container as running.   *)
ShowsRunning(d, c, x, t) ==
  /\ d.task[t] = "running" /\ x.task[t] = "running"
  /\ \A k \in 1..Len(c) : c[k].snap.task[t] = "running"
ContainerInv ==
  \A r \in Runs, t \in Tasks : containers[r][t] # "none" /\ <<r, t>> \notin unseen =>
    ShowsRunning(disk[r].snap, chain[r], run[r], t)

Inv ==
  /\ Types /\ SoundInv /\ OrderInv /\ LandedInv /\ BusyInv /\ UniqueInv
  /\ LoadingInv /\ SavesPast /\ SavingInv /\ LaunchInv /\ ContainerInv

-----------------------------------------------------------------------------
(***************************************************************************)
(* Induction.  The library's induction theorems take an operator, which no *)
(* prover here can instantiate; that a nonempty set of numbers has a least *)
(* element says the same of sets.                                          *)
(***************************************************************************)
Smaller == {p \in Nat \X Nat : p[1] < p[2]}

LEMMA SmallerWellFounded == IsWellFoundedOn(Smaller, Nat)
<1>1. Smaller = OpToRel(<, Nat)
  BY DEF Smaller, OpToRel
<1>. QED BY <1>1, NatLessThanWellFounded, Zenon

LEMMA SmallerIsLess == \A x, y \in Nat : <<x, y>> \in Smaller <=> x < y
BY DEF Smaller

LEMMA Least ==
  ASSUME NEW S \in SUBSET Nat, S # {}
  PROVE  \E m \in S : \A k \in S : m <= k
<1>1. PICK m \in S : \A k \in S : ~(<<k, m>> \in Smaller)
  BY SmallerWellFounded, WFMin, Zenon
<1>2. ASSUME NEW k \in S PROVE m <= k
  <2>1. k \in Nat /\ m \in Nat
    OBVIOUS
  <2>2. ~(k < m)
    BY <1>1, <2>1, SmallerIsLess, Zenon
  <2>. QED BY <2>1, <2>2
<1>. QED BY <1>2

(***************************************************************************)
(* skipTasksWithFailedDependencies: the recursion of its pass has a        *)
(* solution, so Skipped changes pending tasks only.                        *)
(***************************************************************************)
SkipStep(x, f, t) ==
  /\ x[t] = "pending"
  /\ \E d \in DependsOn[t] : \/ x[d] \in Unsuccessful
                             \/ d < t /\ f[d]
SolvesTo(x, n, f) == f = [t \in 1..n |-> SkipStep(x, f, t)]

LEMMA SkipStepLocal ==
  ASSUME NEW x, NEW f, NEW g, NEW t, \A d \in DependsOn[t] : d < t => f[d] = g[d]
  PROVE  SkipStep(x, f, t) = SkipStep(x, g, t)
<1>1. SkipStep(x, f, t) => SkipStep(x, g, t)
  BY Zenon DEF SkipStep
<1>2. SkipStep(x, g, t) => SkipStep(x, f, t)
  BY Zenon DEF SkipStep
<1>. QED BY <1>1, <1>2, Zenon DEF SkipStep

LEMMA SkipSolvesZero ==
  ASSUME NEW x PROVE \E f : SolvesTo(x, 0, f)
<1> DEFINE f == [t \in 1..0 |-> TRUE]
<1>1. f = [t \in 1..0 |-> SkipStep(x, f, t)]
  OBVIOUS
<1>. QED BY <1>1, Zenon DEF SolvesTo

LEMMA SkipSolvesNext ==
  ASSUME NEW x, NEW m \in Tasks, NEW g, SolvesTo(x, m - 1, g)
  PROVE  \E f : SolvesTo(x, m, f)
<1> DEFINE f == [t \in 1..m |-> IF t = m THEN SkipStep(x, g, m) ELSE g[t]]
<1>1. ASSUME NEW t \in 1..m PROVE f[t] = SkipStep(x, f, t)
  <2>1. \A d \in DependsOn[t] : d < t => f[d] = g[d]
    BY TaskAssumption, SizeAssumption DEF Tasks
  <2>2. f[t] = SkipStep(x, g, t)
    <3>1. CASE t = m
      BY <3>1
    <3>2. CASE t # m
      <4>1. t \in 1..(m - 1)
        BY <3>2, SizeAssumption DEF Tasks
      <4>2. g[t] = SkipStep(x, g, t)
        BY <4>1, Zenon DEF SolvesTo
      <4>. QED BY <3>2, <4>2
    <3>. QED BY <3>1, <3>2
  <2>. HIDE DEF f
  <2>3. SkipStep(x, f, t) = SkipStep(x, g, t)
    BY <2>1, SkipStepLocal, Zenon
  <2>. QED BY <2>2, <2>3
<1>2. f = [t \in 1..m |-> SkipStep(x, f, t)]
  BY <1>1
<1>. QED BY <1>2, Zenon DEF SolvesTo

LEMMA SkipSolves == ASSUME NEW x PROVE \E f : SolvesTo(x, T, f)
<1> DEFINE S == {n \in Nat : n <= T /\ ~\E f : SolvesTo(x, n, f)}
<1>1. SUFFICES S = {}
  BY SizeAssumption
<1>2. SUFFICES ASSUME S # {} PROVE FALSE
  OBVIOUS
<1>3. PICK m \in S : \A k \in S : m <= k
  BY <1>2, Least
<1>4. m \in Nat /\ m <= T /\ ~\E f : SolvesTo(x, m, f)
  OBVIOUS
<1>5. m # 0
  BY <1>4, SkipSolvesZero
<1>6. m - 1 \in Nat /\ m \in Tasks /\ ~(m <= m - 1) /\ m - 1 <= T
  BY <1>4, <1>5, SizeAssumption DEF Tasks
<1>7. \E g : SolvesTo(x, m - 1, g)
  BY <1>3, <1>6
<1>. QED BY <1>4, <1>6, <1>7, SkipSolvesNext

LEMMA SkippedOnlyPending ==
  ASSUME NEW r \in Runs, NEW t \in Tasks
  PROVE  \/ Skipped(r)[t] = run[r].task[t]
         \/ run[r].task[t] = "pending" /\ Skipped(r)[t] = "skipped"
<1> DEFINE x == run[r].task
           skip == CHOOSE f : SolvesTo(x, T, f)
<1>1. SolvesTo(x, T, skip)
  BY SkipSolves, Zenon
<1>2. skip[t] = SkipStep(x, skip, t)
  BY <1>1, Zenon DEF SolvesTo, Tasks
<1>3. Skipped(r) = [u \in Tasks |-> IF skip[u] THEN "skipped" ELSE run[r].task[u]]
  BY Zenon DEF Skipped, SolvesTo, SkipStep, Tasks
<1>4. CASE skip[t]
  BY <1>2, <1>3, <1>4, Zenon DEF SkipStep
<1>5. CASE ~skip[t]
  BY <1>3, <1>5, Zenon
<1>. QED BY <1>4, <1>5

LEMMA SkippedType ==
  ASSUME NEW r \in Runs, run[r].task \in [Tasks -> TaskStatuses]
  PROVE  Skipped(r) \in [Tasks -> TaskStatuses]
<1>1. Skipped(r) = [t \in Tasks |-> Skipped(r)[t]]
  BY Zenon DEF Skipped
<1>2. \A t \in Tasks : Skipped(r)[t] \in TaskStatuses
  BY SkippedOnlyPending DEF TaskStatuses
<1>. QED BY <1>1, <1>2

-----------------------------------------------------------------------------
(***************************************************************************)
(* Steps of a snapshot.                                                    *)
(***************************************************************************)
(* A step that ends no running task.                                       *)
Goes(x, y) ==
  /\ Ahead(x, y)
  /\ Sound(x) => Sound(y)
  /\ \A t \in Tasks : x.task[t] = "running" =>
       y.task[t] = "running" /\ y.attempt[t] = x.attempt[t]

LEMMA AheadReflexive == ASSUME NEW x \in Snapshots PROVE Ahead(x, x)
BY DEF Ahead, Snapshots

LEMMA AheadTransitive ==
  ASSUME NEW x \in Snapshots, NEW y \in Snapshots, NEW z \in Snapshots,
         Ahead(x, y), Ahead(y, z)
  PROVE  Ahead(x, z)
BY DEF Ahead, Snapshots

(* Pending tasks that are settled without success.                         *)
LEMMA SettlingGoes ==
  ASSUME NEW x \in Snapshots, NEW y \in Snapshots, y.attempt = x.attempt,
         \A t \in Tasks : \/ y.task[t] = x.task[t]
                          \/ /\ x.task[t] = "pending"
                             /\ y.task[t] \in {"failed", "skipped", "cancelled"}
  PROVE  Goes(x, y)
<1>1. Ahead(x, y)
  BY DEF Ahead, Snapshots
<1>2. \A t \in Tasks : x.task[t] = "running" =>
        y.task[t] = "running" /\ y.attempt[t] = x.attempt[t]
  OBVIOUS
<1>3. ASSUME Sound(x) PROVE Sound(y)
  <2>1. InBudget(y)
    BY <1>3 DEF Sound, InBudget
  <2>2. InDependencyOrder(y)
    <3>1. SUFFICES ASSUME NEW t \in Tasks, y.task[t] \in {"running", "succeeded"},
                          NEW d \in DependsOn[t]
                   PROVE  y.task[d] = "succeeded"
      BY Zenon DEF InDependencyOrder
    <3>2. d \in Tasks /\ x.task[t] \in {"running", "succeeded"}
      BY <3>1, TaskAssumption
    <3>3. x.task[d] = "succeeded"
      BY <1>3, <3>2, Zenon DEF Sound, InDependencyOrder
    <3>. QED BY <3>2, <3>3
  <2>. QED BY <2>1, <2>2 DEF Sound
<1>. QED BY <1>1, <1>2, <1>3 DEF Goes

LEMMA SameGoes == ASSUME NEW x \in Snapshots PROVE Goes(x, x)
BY SettlingGoes

(***************************************************************************)
(* Steps of the chain: a persist call of w with the snapshot y may be      *)
(* added behind, the first may return.                                     *)
(***************************************************************************)
Follows(c, d, w, y) ==
  \/ d = c
  \/ d = Append(c, [who |-> w, snap |-> y])
  \/ c # <<>> /\ d = Tail(c)
  \/ c # <<>> /\ d = Append(Tail(c), [who |-> w, snap |-> y])

Traces(c, d, w, y) ==
  \A k \in 1..Len(d) : \A j \in k..Len(d) :
    \/ d[j] = [who |-> w, snap |-> y]
    \/ \E m \in 1..Len(c) : \E n \in m..Len(c) : d[k] = c[m] /\ d[j] = c[n]

LEMMA AppendTraces ==
  ASSUME NEW c \in Seq(Entries), NEW w \in Callers, NEW y \in Snapshots
  PROVE  /\ Append(c, [who |-> w, snap |-> y]) \in Seq(Entries)
         /\ Traces(c, Append(c, [who |-> w, snap |-> y]), w, y)
<1> DEFINE e == [who |-> w, snap |-> y]
<1>1. e \in Entries
  BY DEF Entries
<1> HIDE DEF e
<1>2. /\ Append(c, e) \in Seq(Entries) /\ Len(Append(c, e)) = Len(c) + 1
      /\ Append(c, e)[Len(c) + 1] = e
      /\ \A i \in 1..Len(c) : Append(c, e)[i] = c[i]
  BY <1>1, AppendProperties
<1>3. Len(c) \in Nat
  OBVIOUS
<1>4. ASSUME NEW k \in 1..Len(Append(c, e)), NEW j \in k..Len(Append(c, e)),
             Append(c, e)[j] # e
      PROVE  \E m \in 1..Len(c) : \E n \in m..Len(c) :
               Append(c, e)[k] = c[m] /\ Append(c, e)[j] = c[n]
  <2>1. k \in 1..Len(c) /\ j \in k..Len(c) /\ j \in 1..Len(c)
    BY <1>2, <1>3, <1>4
  <2>2. Append(c, e)[k] = c[k] /\ Append(c, e)[j] = c[j]
    BY <1>2, <2>1
  <2>. QED BY <2>1, <2>2
<1>5. Traces(c, Append(c, e), w, y)
  BY <1>4, Zenon DEF Traces, e
<1>. QED BY <1>2, <1>5 DEF e

LEMMA TailTraces ==
  ASSUME NEW c \in Seq(Entries), c # <<>>, NEW w, NEW y
  PROVE  Tail(c) \in Seq(Entries) /\ Traces(c, Tail(c), w, y)
<1>1. /\ Tail(c) \in Seq(Entries) /\ Len(Tail(c)) = Len(c) - 1
      /\ \A i \in 1..Len(Tail(c)) : Tail(c)[i] = c[i + 1]
  BY HeadTailProperties
<1>2. Len(c) \in Nat
  OBVIOUS
<1>3. ASSUME NEW k \in 1..Len(Tail(c)), NEW j \in k..Len(Tail(c))
      PROVE  \E m \in 1..Len(c) : \E n \in m..Len(c) :
               Tail(c)[k] = c[m] /\ Tail(c)[j] = c[n]
  <2>1. k + 1 \in 1..Len(c) /\ j + 1 \in (k + 1)..Len(c) /\ j \in 1..Len(Tail(c))
    BY <1>1, <1>2
  <2>2. Tail(c)[k] = c[k + 1] /\ Tail(c)[j] = c[j + 1]
    BY <1>1, <2>1
  <2>. QED BY <2>1, <2>2
<1>. QED BY <1>1, <1>3, Zenon DEF Traces

LEMMA FollowsTraces ==
  ASSUME NEW c \in Seq(Entries), NEW w \in Callers, NEW y \in Snapshots, NEW d,
         Follows(c, d, w, y)
  PROVE  d \in Seq(Entries) /\ Traces(c, d, w, y)
<1>1. CASE d = c
  BY <1>1, Zenon DEF Traces
<1>2. CASE d = Append(c, [who |-> w, snap |-> y])
  BY <1>2, AppendTraces, Zenon
<1>3. CASE c # <<>> /\ d = Tail(c)
  BY <1>3, TailTraces, Zenon
<1>4. CASE c # <<>> /\ d = Append(Tail(c), [who |-> w, snap |-> y])
  <2>1. Tail(c) \in Seq(Entries) /\ Traces(c, Tail(c), w, y)
    BY <1>4, TailTraces, Zenon
  <2>2. d \in Seq(Entries) /\ Traces(Tail(c), d, w, y)
    BY <1>4, <2>1, AppendTraces, Zenon
  <2>3. Traces(c, d, w, y)
    <3>1. SUFFICES ASSUME NEW k \in 1..Len(d), NEW j \in k..Len(d),
                          d[j] # [who |-> w, snap |-> y]
                   PROVE  \E m \in 1..Len(c) : \E n \in m..Len(c) : d[k] = c[m] /\ d[j] = c[n]
      BY Zenon DEF Traces
    <3>2. PICK m \in 1..Len(Tail(c)) : \E n \in m..Len(Tail(c)) :
            d[k] = Tail(c)[m] /\ d[j] = Tail(c)[n]
      BY <2>2, <3>1, Zenon DEF Traces
    <3>3. PICK n \in m..Len(Tail(c)) : d[k] = Tail(c)[m] /\ d[j] = Tail(c)[n]
      BY <3>2, Zenon
    <3>4. Len(Tail(c)) = Len(c) - 1 /\ Len(c) \in Nat
          /\ \A i \in 1..Len(Tail(c)) : Tail(c)[i] = c[i + 1]
      BY <1>4, HeadTailProperties
    <3>5. m + 1 \in 1..Len(c) /\ n + 1 \in (m + 1)..Len(c) /\ n \in 1..Len(Tail(c))
      BY <3>4
    <3>6. d[k] = c[m + 1] /\ d[j] = c[n + 1]
      BY <3>3, <3>4, <3>5
    <3>. QED BY <3>5, <3>6
  <2>. QED BY <2>2, <2>3
<1>. QED BY <1>1, <1>2, <1>3, <1>4, Zenon DEF Follows

(***************************************************************************)
(* What such a step of the chain keeps, when the memory moves from x to y. *)
(***************************************************************************)
LEMMA AtMost == \A p, q, s \in Nat : p <= q /\ q <= s => p <= s
OBVIOUS

LEMMA EntryType ==
  ASSUME NEW c \in Seq(Entries), NEW k \in 1..Len(c)
  PROVE  c[k].snap \in Snapshots /\ c[k].who \in Callers
<1>1. c[k] \in Entries
  BY ElementOfSeq, Zenon
<1>. QED BY <1>1 DEF Entries

LEMMA HistoryFollows ==
  ASSUME NEW c \in Seq(Entries), NEW d, NEW w \in Callers, NEW z \in Snapshots,
         NEW x \in Snapshots, NEW y \in Snapshots,
         Follows(c, d, w, y), AllSound(z, c, x), InOrder(z, c, x),
         Ahead(x, y), Sound(y)
  PROVE  AllSound(z, d, y) /\ InOrder(z, d, y)
<1>1. d \in Seq(Entries) /\ Traces(c, d, w, y)
  BY FollowsTraces, Zenon
<1>2. \A m \in 1..Len(c) : c[m].snap \in Snapshots
  BY EntryType, Zenon
<1>3. \A k \in 1..Len(d) : k \in k..Len(d)
  BY <1>1
<1>4. Ahead(z, y)
  BY AheadTransitive, Zenon DEF InOrder
<1>5. ASSUME NEW k \in 1..Len(d)
      PROVE  Sound(d[k].snap) /\ Ahead(z, d[k].snap) /\ Ahead(d[k].snap, y)
  <2>1. CASE d[k] = [who |-> w, snap |-> y]
    <3>1. d[k].snap = y
      BY <2>1
    <3>. QED BY <1>4, <3>1, AheadReflexive, Zenon
  <2>2. CASE \E n \in 1..Len(c) : d[k] = c[n]
    <3>1. PICK n \in 1..Len(c) : d[k] = c[n]
      BY <2>2
    <3>2. Ahead(z, c[n].snap) /\ Ahead(c[n].snap, x) /\ Sound(c[n].snap)
      BY Zenon DEF InOrder, AllSound
    <3>. QED BY <1>2, <3>1, <3>2, AheadTransitive, Zenon
  <2>3. \A m \in 1..Len(c) : \A n \in m..Len(c) : n \in 1..Len(c)
    OBVIOUS
  <2>. QED BY <1>1, <1>3, <2>1, <2>2, <2>3, Zenon DEF Traces
<1>6. ASSUME NEW k \in 1..Len(d), NEW j \in k..Len(d)
      PROVE  Ahead(d[k].snap, d[j].snap)
  <2>1. CASE d[j] = [who |-> w, snap |-> y]
    <3>1. d[j].snap = y
      BY <2>1
    <3>. QED BY <1>5, <3>1, Zenon
  <2>2. CASE \E m \in 1..Len(c) : \E n \in m..Len(c) : d[k] = c[m] /\ d[j] = c[n]
    <3>1. PICK m \in 1..Len(c) : \E n \in m..Len(c) : d[k] = c[m] /\ d[j] = c[n]
      BY <2>2
    <3>2. PICK n \in m..Len(c) : d[k] = c[m] /\ d[j] = c[n]
      BY <3>1
    <3>. QED BY <3>2, Zenon DEF InOrder
  <2>. QED BY <1>1, <2>1, <2>2, Zenon DEF Traces
<1>7. AllSound(z, d, y)
  BY <1>5, Zenon DEF AllSound
<1>. QED BY <1>4, <1>5, <1>6, <1>7, Zenon DEF InOrder

LEMMA SavesFollow ==
  ASSUME NEW c \in Seq(Entries), NEW d, NEW w \in Callers, NEW y \in Snapshots,
         Follows(c, d, w, y), NEW t \in Tasks, NEW a, SavesAttempt(c, t, a),
         y.task[t] = "running", y.attempt[t] = a
  PROVE  SavesAttempt(d, t, a)
<1>1. d \in Seq(Entries) /\ Traces(c, d, w, y)
  BY FollowsTraces, Zenon
<1>2. SUFFICES ASSUME NEW k \in 1..Len(d), d[k].who = TaskCaller(t, a),
                      NEW j \in k..Len(d)
               PROVE  d[j].snap.task[t] = "running" /\ d[j].snap.attempt[t] = a
  BY Zenon DEF SavesAttempt
<1>3. CASE d[j] = [who |-> w, snap |-> y]
  <2>1. d[j].snap = y
    BY <1>3
  <2>. QED BY <2>1
<1>4. CASE \E m \in 1..Len(c) : \E n \in m..Len(c) : d[k] = c[m] /\ d[j] = c[n]
  <2>1. PICK m \in 1..Len(c) : \E n \in m..Len(c) : d[k] = c[m] /\ d[j] = c[n]
    BY <1>4
  <2>2. PICK n \in m..Len(c) : d[k] = c[m] /\ d[j] = c[n]
    BY <2>1
  <2>. QED BY <1>2, <2>2, Zenon DEF SavesAttempt
<1>. QED BY <1>1, <1>3, <1>4, Zenon DEF Traces

LEMMA EntryFollows ==
  ASSUME NEW c \in Seq(Entries), NEW d, NEW w \in Callers, NEW y \in Snapshots,
         Follows(c, d, w, y), NEW k \in 1..Len(d)
  PROVE  \/ d[k].who = w /\ d[k].snap = y
         \/ \E m \in 1..Len(c) : d[k] = c[m]
<1>1. d \in Seq(Entries) /\ Traces(c, d, w, y)
  BY FollowsTraces, Zenon
<1>2. k \in k..Len(d)
  BY <1>1
<1>3. CASE d[k] = [who |-> w, snap |-> y]
  BY <1>3
<1>4. CASE \E m \in 1..Len(c) : \E n \in m..Len(c) : d[k] = c[m] /\ d[k] = c[n]
  BY <1>4
<1>. QED BY <1>1, <1>2, <1>3, <1>4, Zenon DEF Traces

LEMMA PastFollows ==
  ASSUME NEW c \in Seq(Entries), NEW d, NEW w \in Callers,
         NEW x \in Snapshots, NEW y \in Snapshots,
         Follows(c, d, w, y), PastCalls(c, x), Ahead(x, y),
         w.role = "task" => w.t \in Tasks /\ w.a <= y.attempt[w.t]
  PROVE  PastCalls(d, y)
<1>1. SUFFICES ASSUME NEW k \in 1..Len(d), d[k].who.role = "task"
               PROVE  d[k].who.t \in Tasks /\ d[k].who.a <= y.attempt[d[k].who.t]
  BY Zenon DEF PastCalls
<1>2. CASE d[k].who = w
  BY <1>1, <1>2
<1>3. CASE \E m \in 1..Len(c) : d[k] = c[m]
  <2>1. PICK m \in 1..Len(c) : d[k] = c[m]
    BY <1>3
  <2>2. c[m].who \in Callers
    BY EntryType, Zenon
  <2>3. c[m].who.t \in Tasks /\ c[m].who.a <= x.attempt[c[m].who.t]
    BY <1>1, <2>1 DEF PastCalls
  <2>4. x.attempt[c[m].who.t] <= y.attempt[c[m].who.t]
    BY <2>3, Zenon DEF Ahead
  <2>5. c[m].who.a \in Nat /\ x.attempt[c[m].who.t] \in Nat /\ y.attempt[c[m].who.t] \in Nat
    BY <2>2, <2>3 DEF Callers, Snapshots
  <2>6. c[m].who.a <= y.attempt[c[m].who.t]
    BY <2>3, <2>4, <2>5, AtMost, Zenon
  <2>. QED BY <2>1, <2>3, <2>6, Zenon
<1>. QED BY <1>1, <1>2, <1>3, EntryFollows

LEMMA NotSavedFollows ==
  ASSUME NEW c \in Seq(Entries), NEW d, NEW w \in Callers, NEW y \in Snapshots,
         Follows(c, d, w, y), NEW t, NEW a, NotSaved(c, t, a), w # TaskCaller(t, a)
  PROVE  NotSaved(d, t, a)
<1>1. SUFFICES ASSUME NEW k \in 1..Len(d) PROVE d[k].who # TaskCaller(t, a)
  BY Zenon DEF NotSaved
<1>2. \/ d[k].who = w
      \/ \E m \in 1..Len(c) : d[k] = c[m]
  BY <1>1, EntryFollows
<1>. QED BY <1>2, Zenon DEF NotSaved

LEMMA ShowsFollow ==
  ASSUME NEW c \in Seq(Entries), NEW d, NEW w \in Callers, NEW z, NEW x,
         NEW y \in Snapshots, Follows(c, d, w, y), NEW t \in Tasks,
         ShowsRunning(z, c, x, t), y.task[t] = "running"
  PROVE  ShowsRunning(z, d, y, t)
<1>1. ASSUME NEW k \in 1..Len(d) PROVE d[k].snap.task[t] = "running"
  <2>1. \/ d[k].snap = y
        \/ \E m \in 1..Len(c) : d[k] = c[m]
    BY EntryFollows
  <2>. QED BY <2>1, Zenon DEF ShowsRunning
<1>. QED BY <1>1, Zenon DEF ShowsRunning

LEMMA CallersType ==
  /\ \A x \in {"start", "main", "heartbeat", "cancel"} :
       Caller(x) \in Callers /\ Caller(x).role # "task"
  /\ \A t \in Tasks, a \in Nat :
       /\ TaskCaller(t, a) \in Callers /\ TaskCaller(t, a).t = t
       /\ TaskCaller(t, a).a = a /\ TaskCaller(t, a).role = "task"
BY SizeAssumption DEF Caller, TaskCaller, Callers, Roles, Tasks

-----------------------------------------------------------------------------
(***************************************************************************)
(* Steps of a state, part by part.                                         *)
(***************************************************************************)
RunsAdvance == \A r \in Runs : Ahead(run[r], run'[r]) /\ Sound(run'[r])
DiskKept == \A r \in Runs : disk'[r].snap = disk[r].snap
ChainFollows ==
  \A r \in Runs : \E w \in Callers : Follows(chain[r], chain'[r], w, run'[r])
LandedFollows ==
  \A r \in Runs : landed'[r] =>
    /\ landed[r]
    /\ \/ chain'[r] = chain[r]
       \/ \E w \in Callers : chain'[r] = Append(chain[r], [who |-> w, snap |-> run'[r]])

LEMMA HistoryKept ==
  ASSUME Types, Types', SoundInv, OrderInv, RunsAdvance, DiskKept, ChainFollows
  PROVE  SoundInv' /\ OrderInv'
<1>1. ASSUME NEW r \in Runs
      PROVE  /\ AllSound(disk[r].snap, chain'[r], run'[r])
             /\ InOrder(disk[r].snap, chain'[r], run'[r])
  <2>1. PICK w \in Callers : Follows(chain[r], chain'[r], w, run'[r])
    BY Zenon DEF ChainFollows
  <2>2. /\ chain[r] \in Seq(Entries) /\ disk[r].snap \in Snapshots
        /\ run[r] \in Snapshots /\ run'[r] \in Snapshots
    BY DEF Types
  <2>3. /\ AllSound(disk[r].snap, chain[r], run[r])
        /\ InOrder(disk[r].snap, chain[r], run[r])
        /\ Ahead(run[r], run'[r]) /\ Sound(run'[r])
    BY Zenon DEF SoundInv, OrderInv, RunsAdvance
  <2>. QED BY <2>1, <2>2, <2>3, HistoryFollows, Zenon
<1>2. \A r \in Runs : /\ AllSound(disk'[r].snap, chain'[r], run'[r])
                      /\ InOrder(disk'[r].snap, chain'[r], run'[r])
  BY <1>1, Zenon DEF DiskKept
<1>3. SoundInv'
  BY <1>2, Zenon DEF SoundInv
<1>4. OrderInv'
  BY <1>2, Zenon DEF OrderInv
<1>. QED BY <1>3, <1>4

LEMMA HeadKept ==
  ASSUME NEW c \in Seq(Entries), c # <<>>, NEW e \in Entries
  PROVE  Append(c, e) # <<>> /\ Head(Append(c, e)) = Head(c)
BY HeadTailAppend, AppendProperties

LEMMA LandedKept ==
  ASSUME Types, Types', LandedInv, DiskKept, LandedFollows
  PROVE  LandedInv'
<1>1. SUFFICES ASSUME NEW r \in Runs, landed'[r]
               PROVE  chain'[r] # <<>> /\ disk'[r].snap = Head(chain'[r]).snap
  BY Zenon DEF LandedInv
<1>2. chain[r] # <<>> /\ disk[r].snap = Head(chain[r]).snap
  BY <1>1, Zenon DEF LandedInv, LandedFollows
<1>3. disk'[r].snap = disk[r].snap
  BY <1>1, Zenon DEF DiskKept
<1>4. CASE chain'[r] = chain[r]
  BY <1>2, <1>3, <1>4
<1>5. CASE \E w \in Callers : chain'[r] = Append(chain[r], [who |-> w, snap |-> run'[r]])
  <2>1. PICK w \in Callers : chain'[r] = Append(chain[r], [who |-> w, snap |-> run'[r]])
    BY <1>5
  <2>2. chain[r] \in Seq(Entries) /\ [who |-> w, snap |-> run'[r]] \in Entries
    BY <1>1 DEF Types, Entries
  <2>. QED BY <1>2, <1>3, <2>1, <2>2, HeadKept, Zenon
<1>. QED BY <1>1, <1>4, <1>5, Zenon DEF LandedFollows

(* A step that ends no running task, and whose persist call, if any, is    *)
(* nobody's who starts a container; and one that moves no execution on.    *)
CalmHistory ==
  /\ \A r \in Runs : Goes(run[r], run'[r])
  /\ DiskKept /\ LandedFollows
  /\ \A r \in Runs : \E w \in Callers :
       w.role # "task" /\ Follows(chain[r], chain'[r], w, run'[r])
  /\ launches' = launches /\ unseen' = unseen
  /\ \A r \in Runs, t \in Tasks : containers'[r][t] # "none" => containers[r][t] # "none"
Calm ==
  /\ CalmHistory
  /\ execs' \subseteq execs
  /\ loading' = loading
  /\ \A r \in loading : /\ main'[r] = main[r] /\ cancelling'[r] = cancelling[r]
                        /\ chain'[r] = chain[r]

LEMMA CalmKeepsHistory ==
  ASSUME Inv, Types', CalmHistory
  PROVE  /\ RunsAdvance /\ SoundInv' /\ OrderInv' /\ LandedInv' /\ SavesPast'
         /\ ContainerInv'
<1>1. RunsAdvance
  BY Zenon DEF RunsAdvance, CalmHistory, Goes, Inv, SoundInv, AllSound
<1>2. ChainFollows
  BY Zenon DEF ChainFollows, CalmHistory
<1>3. SoundInv' /\ OrderInv' /\ LandedInv'
  BY <1>1, <1>2, HistoryKept, LandedKept, Zenon DEF Inv, CalmHistory
<1>4. SavesPast'
  <2>1. ASSUME NEW r \in Runs PROVE PastCalls(chain'[r], run'[r])
    <3>1. PICK w \in Callers : w.role # "task" /\ Follows(chain[r], chain'[r], w, run'[r])
      BY Zenon DEF CalmHistory
    <3>2. chain[r] \in Seq(Entries) /\ run[r] \in Snapshots /\ run'[r] \in Snapshots
      BY DEF Inv, Types
    <3>3. PastCalls(chain[r], run[r]) /\ Ahead(run[r], run'[r])
      BY <1>1, Zenon DEF Inv, SavesPast, RunsAdvance
    <3>. QED BY <3>1, <3>2, <3>3, PastFollows, Zenon
  <2>. QED BY <2>1, Zenon DEF SavesPast
<1>5. ContainerInv'
  <2>1. SUFFICES ASSUME NEW r \in Runs, NEW t \in Tasks,
                        containers'[r][t] # "none", <<r, t>> \notin unseen'
                 PROVE  ShowsRunning(disk'[r].snap, chain'[r], run'[r], t)
    BY Zenon DEF ContainerInv
  <2>2. ShowsRunning(disk[r].snap, chain[r], run[r], t)
    BY <2>1, Zenon DEF CalmHistory, Inv, ContainerInv
  <2>3. PICK w \in Callers : w.role # "task" /\ Follows(chain[r], chain'[r], w, run'[r])
    BY <2>1, Zenon DEF CalmHistory
  <2>4. chain[r] \in Seq(Entries) /\ run'[r] \in Snapshots
    BY <2>1 DEF Inv, Types
  <2>5. run'[r].task[t] = "running"
    BY <2>1, <2>2, Zenon DEF CalmHistory, Goes, ShowsRunning
  <2>6. disk'[r].snap = disk[r].snap
    BY <2>1, Zenon DEF CalmHistory, DiskKept
  <2>. QED BY <2>1, <2>2, <2>3, <2>4, <2>5, <2>6, ShowsFollow, Zenon
<1>. QED BY <1>1, <1>3, <1>4, <1>5

LEMMA ExecType ==
  ASSUME Types, NEW e \in execs
  PROVE  e \in Execs /\ e.r \in Runs /\ e.t \in Tasks /\ e.a \in Nat /\ e.at \in Places
BY DEF Types, Execs

LEMMA KeptExec ==
  ASSUME Inv, Types', CalmHistory, NEW e \in execs
  PROVE  /\ e.r \in Runs /\ e.t \in Tasks /\ e.a \in Nat
         /\ e.a <= run'[e.r].attempt[e.t]
         /\ e.at # "closing" => /\ run'[e.r].task[e.t] = "running"
                                /\ run'[e.r].attempt[e.t] = e.a
         /\ e.at = "mkdir" => NotSaved(chain'[e.r], e.t, e.a)
         /\ e.at = "saving" => SavesAttempt(chain'[e.r], e.t, e.a)
<1>1. RunsAdvance
  BY CalmKeepsHistory, Zenon
<1>2. e.r \in Runs /\ e.t \in Tasks /\ e.a \in Nat
  BY ExecType, Zenon DEF Inv
<1>3. /\ e.a <= run[e.r].attempt[e.t]
      /\ e.at # "closing" => /\ run[e.r].task[e.t] = "running"
                             /\ run[e.r].attempt[e.t] = e.a
  BY Zenon DEF Inv, BusyInv
<1>4. run[e.r].attempt[e.t] <= run'[e.r].attempt[e.t]
  BY <1>1, <1>2, Zenon DEF RunsAdvance, Ahead
<1>5. run[e.r].attempt[e.t] \in Nat /\ run'[e.r].attempt[e.t] \in Nat
  BY <1>2 DEF Inv, Types, Snapshots
<1>6. e.a <= run'[e.r].attempt[e.t]
  BY <1>2, <1>3, <1>4, <1>5, AtMost, Zenon
<1>7. e.at # "closing" => /\ run'[e.r].task[e.t] = "running"
                          /\ run'[e.r].attempt[e.t] = e.a
  BY <1>2, <1>3, Zenon DEF CalmHistory, Goes
<1>8. PICK w \in Callers : w.role # "task" /\ Follows(chain[e.r], chain'[e.r], w, run'[e.r])
  BY <1>2, Zenon DEF CalmHistory
<1>9. chain[e.r] \in Seq(Entries) /\ run'[e.r] \in Snapshots
  BY <1>2 DEF Inv, Types
<1>10. w # TaskCaller(e.t, e.a)
  BY <1>2, <1>8, CallersType
<1>11. ASSUME e.at = "mkdir" PROVE NotSaved(chain'[e.r], e.t, e.a)
  BY <1>2, <1>8, <1>9, <1>10, <1>11, NotSavedFollows, Zenon DEF Inv, SavingInv
<1>12. ASSUME e.at = "saving" PROVE SavesAttempt(chain'[e.r], e.t, e.a)
  <2>1. e.at # "closing"
    BY <1>12
  <2>. QED BY <1>2, <1>7, <1>8, <1>9, <1>12, <2>1, SavesFollow, Zenon DEF Inv, SavingInv
<1>. QED BY <1>2, <1>6, <1>7, <1>11, <1>12

LEMMA CalmKeepsExecs ==
  ASSUME Inv, Types', Calm
  PROVE  BusyInv' /\ UniqueInv' /\ LoadingInv' /\ SavingInv' /\ LaunchInv'
<1>1. CalmHistory /\ \A e \in execs' : e \in execs
  BY Zenon DEF Calm
<1>2. BusyInv'
  BY <1>1, KeptExec, Zenon DEF BusyInv
<1>3. UniqueInv'
  BY <1>1, Zenon DEF Inv, UniqueInv
<1>4. LoadingInv'
  BY <1>1, ZenonT(40) DEF Inv, LoadingInv, Calm
<1>5. SavingInv'
  BY <1>1, KeptExec, Zenon DEF SavingInv
<1>6. LaunchInv'
  BY <1>1, Zenon DEF Inv, LaunchInv, CalmHistory, DiskKept
<1>. QED BY <1>2, <1>3, <1>4, <1>5, <1>6

(* New executions, of tasks that run and have no execution yet.            *)
LEMMA NewExecs ==
  ASSUME Inv, Types', CalmHistory, NEW N, execs' = execs \cup N,
         \A f \in N :
           /\ f.at \in {"mkdir", "recovering"} /\ f.a \in Nat
           /\ run'[f.r].task[f.t] = "running" /\ run'[f.r].attempt[f.t] = f.a
           /\ f.at = "mkdir" => NotSaved(chain'[f.r], f.t, f.a) /\ launches[f.r][f.t] < f.a
           /\ f.r \notin loading'
           /\ \A e \in execs : ~(e.r = f.r /\ e.t = f.t /\ e.a = f.a)
           /\ \A g \in N : f.r = g.r /\ f.t = g.t /\ f.a = g.a => f = g,
         loading' \subseteq loading,
         \A r \in loading' : /\ main'[r] = main[r] /\ cancelling'[r] = cancelling[r]
                             /\ chain'[r] = chain[r]
  PROVE  BusyInv' /\ UniqueInv' /\ LoadingInv' /\ SavingInv' /\ LaunchInv'
<1>1. \A f \in execs' : f \in execs \/ f \in N
  OBVIOUS
<1>2. BusyInv'
  <2>1. SUFFICES ASSUME NEW f \in execs'
                 PROVE  /\ f.a <= run'[f.r].attempt[f.t]
                        /\ f.at # "closing" => /\ run'[f.r].task[f.t] = "running"
                                               /\ run'[f.r].attempt[f.t] = f.a
    BY Zenon DEF BusyInv
  <2>2. CASE f \in execs
    BY <2>2, KeptExec, Zenon
  <2>3. CASE f \in N
    <3>1. run'[f.r].task[f.t] = "running" /\ run'[f.r].attempt[f.t] = f.a /\ f.a \in Nat
      BY <2>3, Zenon
    <3>. QED BY <3>1
  <2>. QED BY <1>1, <2>1, <2>2, <2>3
<1>3. UniqueInv'
  <2>1. SUFFICES ASSUME NEW f \in execs', NEW g \in execs',
                        f.r = g.r, f.t = g.t, f.a = g.a
                 PROVE  f = g
    BY Zenon DEF UniqueInv
  <2>2. CASE f \in execs /\ g \in execs
    BY <2>1, <2>2, Zenon DEF Inv, UniqueInv
  <2>3. CASE f \in N /\ g \in N
    BY <2>1, <2>3, Zenon
  <2>4. ~(f \in execs /\ g \in N) /\ ~(f \in N /\ g \in execs)
    BY <2>1, Zenon
  <2>. QED BY <1>1, <2>1, <2>2, <2>3, <2>4, Zenon
<1>4. LoadingInv'
  <2>1. \A r \in loading' : \A f \in execs' : f.r # r
    BY <1>1, SMTT(40) DEF Inv, LoadingInv
  <2>2. \A r \in loading' : /\ main'[r] = "none" /\ cancelling'[r] = "no"
                            /\ chain'[r] = <<>>
    BY ZenonT(40) DEF Inv, LoadingInv
  <2>. QED BY <2>1, <2>2, Zenon DEF LoadingInv
<1>5. SavingInv'
  <2>1. \A f \in N : f.at # "saving"
    BY Zenon
  <2>. QED BY <1>1, <2>1, KeptExec, Zenon DEF SavingInv
<1>6. LaunchInv'
  <2>1. \A f \in execs' : f.at \in {"mkdir", "saving"} => launches[f.r][f.t] < f.a
    BY <1>1 DEF Inv, LaunchInv
  <2>. QED BY <2>1, Zenon DEF Inv, LaunchInv, CalmHistory, DiskKept
<1>. QED BY <1>2, <1>3, <1>4, <1>5, <1>6

LEMMA CalmKeeps == ASSUME Inv, Types', Calm PROVE Inv'
BY CalmKeepsHistory, CalmKeepsExecs, Zenon DEF Inv, Calm

-----------------------------------------------------------------------------
(***************************************************************************)
(* The calm actions.                                                       *)
(***************************************************************************)
RunCalm == run' \in [Runs -> Snapshots] /\ \A r \in Runs : Goes(run[r], run'[r])
ChainCalm ==
  /\ chain' \in [Runs -> Seq(Entries)]
  /\ landed' \in [Runs -> BOOLEAN]
  /\ LandedFollows
  /\ \A r \in Runs : \E w \in Callers :
       w.role # "task" /\ Follows(chain[r], chain'[r], w, run'[r])
RestCalm ==
  /\ main' \in [Runs -> MainPlaces]
  /\ cancelling' \in [Runs -> {"no", "removing", "saving"}]
  /\ containers' \in [Runs -> [Tasks -> {"none", "running", "ok", "bad"}]]
  /\ \A r \in Runs, t \in Tasks : containers'[r][t] # "none" => containers[r][t] # "none"
  /\ execs' \subseteq execs
  /\ UNCHANGED <<disk, launches, unseen, loading>>
  /\ \A r \in loading : /\ main'[r] = main[r] /\ cancelling'[r] = cancelling[r]
                        /\ chain'[r] = chain[r]

LEMMA CalmStep == ASSUME Inv, RunCalm, ChainCalm, RestCalm PROVE Inv'
<1>1. Types
  BY Zenon DEF Inv
<1>2. Types'
  <2>1. disk' = disk /\ launches' = launches /\ loading' = loading
    BY Zenon DEF RestCalm
  <2>2. execs' \in SUBSET Execs
    BY <1>1, Zenon DEF RestCalm, Types
  <2>. QED BY <1>1, <2>1, <2>2, Zenon DEF Types, RunCalm, ChainCalm, RestCalm
<1>3. Calm
  <2>1. DiskKept
    BY Zenon DEF DiskKept, RestCalm
  <2>. QED BY <2>1, Zenon DEF Calm, CalmHistory, RunCalm, ChainCalm, RestCalm
<1>. QED BY <1>2, <1>3, CalmKeeps, Zenon

(* Only the main place, the cancel call and the chain of run r change.     *)
LEMMA RestAt ==
  ASSUME Inv, NEW r \in Runs, r \notin loading,
         UNCHANGED <<execs, disk, containers, launches, unseen, loading>>,
         main' \in [Runs -> MainPlaces],
         cancelling' \in [Runs -> {"no", "removing", "saving"}],
         \A s \in Runs : s # r => /\ main'[s] = main[s] /\ chain'[s] = chain[s]
                                  /\ cancelling'[s] = cancelling[s]
  PROVE  RestCalm
BY Zenon DEF RestCalm, Inv, Types

LEMMA RunKept == ASSUME Inv, run' = run PROVE RunCalm
<1>1. run \in [Runs -> Snapshots]
  BY Zenon DEF Inv, Types
<1>2. \A r \in Runs : Goes(run[r], run[r])
  BY <1>1, SameGoes
<1>. QED BY <1>1, <1>2, Zenon DEF RunCalm

LEMMA RunGoes ==
  ASSUME Inv, NEW r \in Runs, NEW y \in Snapshots, Goes(run[r], y),
         run' = [run EXCEPT ![r] = y]
  PROVE  RunCalm
<1>1. run \in [Runs -> Snapshots]
  BY Zenon DEF Inv, Types
<1>2. run' \in [Runs -> Snapshots] /\ run'[r] = y
  BY <1>1
<1>3. \A s \in Runs : s # r => run'[s] = run[s]
  BY <1>1
<1>4. \A s \in Runs : Goes(run[s], run[s])
  BY <1>1, SameGoes
<1>. QED BY <1>2, <1>3, <1>4, Zenon DEF RunCalm

LEMMA StatusGoes ==
  ASSUME NEW x \in Snapshots, NEW s \in Statuses
  PROVE  [x EXCEPT !.status = s] \in Snapshots /\ Goes(x, [x EXCEPT !.status = s])
<1> DEFINE y == [x EXCEPT !.status = s]
<1>1. y \in Snapshots /\ y.attempt = x.attempt /\ y.task = x.task
  BY DEF Snapshots
<1> HIDE DEF y
<1>2. Goes(x, y)
  BY <1>1, SettlingGoes
<1>. QED BY <1>1, <1>2 DEF y

LEMMA TasksGo ==
  ASSUME NEW x \in Snapshots, NEW f \in [Tasks -> TaskStatuses],
         \A t \in Tasks : \/ f[t] = x.task[t]
                          \/ /\ x.task[t] = "pending"
                             /\ f[t] \in {"failed", "skipped", "cancelled"}
  PROVE  /\ [x EXCEPT !.task = f] \in Snapshots /\ Goes(x, [x EXCEPT !.task = f])
         /\ [x EXCEPT !.cancel = TRUE, !.task = f] \in Snapshots
         /\ Goes(x, [x EXCEPT !.cancel = TRUE, !.task = f])
<1> DEFINE y == [x EXCEPT !.task = f]
           z == [x EXCEPT !.cancel = TRUE, !.task = f]
<1>1. y \in Snapshots /\ y.attempt = x.attempt /\ y.task = f
  BY DEF Snapshots
<1>2. z \in Snapshots /\ z.attempt = x.attempt /\ z.task = f
  BY DEF Snapshots
<1> HIDE DEF y, z
<1>3. Goes(x, y)
  BY <1>1, SettlingGoes
<1>4. Goes(x, z)
  BY <1>2, SettlingGoes
<1>. QED BY <1>1, <1>2, <1>3, <1>4 DEF y, z

LEMMA ChainKept ==
  ASSUME Inv, RunCalm, chain' = chain, landed' = landed PROVE ChainCalm
<1>1. chain \in [Runs -> Seq(Entries)] /\ landed \in [Runs -> BOOLEAN]
  BY Zenon DEF Inv, Types
<1>2. Caller("main") \in Callers /\ Caller("main").role # "task"
  BY CallersType
<1>3. \A r \in Runs : Follows(chain[r], chain'[r], Caller("main"), run'[r])
  BY Zenon DEF Follows
<1>4. LandedFollows
  BY Zenon DEF LandedFollows
<1>. QED BY <1>1, <1>2, <1>3, <1>4, Zenon DEF ChainCalm

LEMMA EntryIn ==
  ASSUME NEW w \in Callers, NEW y \in Snapshots
  PROVE  [who |-> w, snap |-> y] \in Entries
BY DEF Entries

(* persist() is called, behind what is left of the chain.                  *)
LEMMA ChainPersists ==
  ASSUME Inv, RunCalm, NEW r \in Runs,
         NEW x \in {"start", "main", "heartbeat", "cancel"}, NEW q,
         PersistAfter(q, r, Caller(x)),
         \/ q = chain[r] /\ landed' = landed
         \/ q = Tail(chain[r]) /\ chain[r] # <<>> /\ landed' = [landed EXCEPT ![r] = FALSE]
  PROVE  ChainCalm /\ (\A s \in Runs : s # r => chain'[s] = chain[s])
<1> DEFINE w == Caller(x)
<1>1. w \in Callers /\ w.role # "task"
  BY CallersType
<1> HIDE DEF w
<1>2. /\ chain \in [Runs -> Seq(Entries)] /\ landed \in [Runs -> BOOLEAN]
      /\ run'[r] \in Snapshots
  BY DEF Inv, Types, RunCalm
<1>3. chain' = [chain EXCEPT ![r] = Append(q, [who |-> w, snap |-> run'[r]])]
  BY Zenon DEF PersistAfter, w
<1>4. /\ chain'[r] = Append(q, [who |-> w, snap |-> run'[r]])
      /\ \A s \in Runs : s # r => chain'[s] = chain[s]
  BY <1>2, <1>3
<1>5. Follows(chain[r], chain'[r], w, run'[r])
  BY <1>4, Zenon DEF Follows
<1>6. chain'[r] \in Seq(Entries)
  BY <1>1, <1>2, <1>5, FollowsTraces, Zenon
<1>7. chain' \in [Runs -> Seq(Entries)]
  BY <1>2, <1>3, <1>4, <1>6
<1>8. \A s \in Runs : Follows(chain[s], chain'[s], w, run'[s])
  BY <1>4, <1>5, Zenon DEF Follows
<1>9. landed' \in [Runs -> BOOLEAN]
  BY <1>2
<1>10. LandedFollows
  <2>1. CASE q = chain[r] /\ landed' = landed
    BY <1>1, <1>4, <2>1, Zenon DEF LandedFollows
  <2>2. CASE landed' = [landed EXCEPT ![r] = FALSE]
    <3>1. ~landed'[r] /\ \A s \in Runs : s # r => landed'[s] = landed[s]
      BY <1>2, <2>2
    <3>. QED BY <1>4, <3>1, Zenon DEF LandedFollows
  <2>. QED BY <2>1, <2>2
<1>. QED BY <1>1, <1>4, <1>7, <1>8, <1>9, <1>10, Zenon DEF ChainCalm

(* A persist call returns.                                                 *)
LEMMA ChainPops ==
  ASSUME Inv, RunCalm, NEW r \in Runs, NEW w, Persisted(r, w), Pop(r)
  PROVE  ChainCalm /\ (\A s \in Runs : s # r => chain'[s] = chain[s])
<1>1. /\ chain \in [Runs -> Seq(Entries)] /\ landed \in [Runs -> BOOLEAN]
      /\ chain[r] # <<>> /\ landed' = [landed EXCEPT ![r] = FALSE]
      /\ chain' = [chain EXCEPT ![r] = Tail(chain[r])]
  BY DEF Inv, Types, Persisted, Pop
<1>2. Caller("main") \in Callers /\ Caller("main").role # "task"
  BY CallersType
<1>3. /\ chain'[r] = Tail(chain[r])
      /\ \A s \in Runs : s # r => chain'[s] = chain[s]
  BY <1>1
<1>4. Tail(chain[r]) \in Seq(Entries)
  BY <1>1, HeadTailProperties
<1>5. chain' \in [Runs -> Seq(Entries)]
  BY <1>1, <1>4
<1>6. \A s \in Runs : Follows(chain[s], chain'[s], Caller("main"), run'[s])
  BY <1>1, <1>3, Zenon DEF Follows
<1>7. /\ landed' \in [Runs -> BOOLEAN] /\ ~landed'[r]
      /\ \A s \in Runs : s # r => landed'[s] = landed[s]
  BY <1>1
<1>8. LandedFollows
  BY <1>3, <1>7, Zenon DEF LandedFollows
<1>. QED BY <1>2, <1>3, <1>5, <1>6, <1>7, <1>8, Zenon DEF ChainCalm

LEMMA MainAt ==
  ASSUME Inv, NEW r \in Runs, NEW p \in MainPlaces, main' = [main EXCEPT ![r] = p]
  PROVE  main' \in [Runs -> MainPlaces] /\ \A s \in Runs : s # r => main'[s] = main[s]
BY DEF Inv, Types

LEMMA CancellingAt ==
  ASSUME Inv, NEW r \in Runs, NEW p \in {"no", "removing", "saving"},
         cancelling' = [cancelling EXCEPT ![r] = p]
  PROVE  /\ cancelling' \in [Runs -> {"no", "removing", "saving"}]
         /\ \A s \in Runs : s # r => cancelling'[s] = cancelling[s]
BY DEF Inv, Types

LEMMA Untouched ==
  ASSUME Inv
  PROVE  /\ main' = main => /\ main' \in [Runs -> MainPlaces]
                            /\ \A s \in Runs : main'[s] = main[s]
         /\ cancelling' = cancelling =>
              /\ cancelling' \in [Runs -> {"no", "removing", "saving"}]
              /\ \A s \in Runs : cancelling'[s] = cancelling[s]
         /\ chain' = chain => \A s \in Runs : chain'[s] = chain[s]
BY Zenon DEF Inv, Types

(* Run r is not being loaded.                                              *)
LEMMA NotLoading ==
  ASSUME Inv, NEW r \in Runs,
         \/ main[r] # "none" \/ cancelling[r] # "no" \/ chain[r] # <<>>
         \/ \E e \in execs : e.r = r
  PROVE  r \notin loading
BY Zenon DEF Inv, LoadingInv

LEMMA StartKeeps == ASSUME Inv, NEW r \in Runs, Start(r) PROVE Inv'
<1>1. /\ loading = {} /\ run' = [run EXCEPT ![r].status = "queued"]
      /\ main' = [main EXCEPT ![r] = "spec"]
  BY DEF Start, Serving
<1>2. UNCHANGED <<chain, landed, execs, disk, containers, launches, unseen, loading, cancelling>>
  BY DEF Start, cancelVars, startupVars, historyVars
<1>3. RunCalm
  <2> DEFINE y == [run[r] EXCEPT !.status = "queued"]
  <2>1. y \in Snapshots /\ Goes(run[r], y)
    BY StatusGoes DEF Inv, Types, Statuses
  <2>2. run' = [run EXCEPT ![r] = y]
    BY <1>1
  <2> HIDE DEF y
  <2>. QED BY <2>1, <2>2, RunGoes, Zenon
<1>4. ChainCalm
  BY <1>2, <1>3, ChainKept, Zenon
<1>5. /\ main' \in [Runs -> MainPlaces]
      /\ \A s \in Runs : s # r => main'[s] = main[s]
  BY <1>1, MainAt DEF MainPlaces
<1>6. RestCalm
  BY <1>1, <1>2, <1>5, RestAt, Untouched, Zenon
<1>. QED BY <1>3, <1>4, <1>6, CalmStep, Zenon

LEMMA SpecWrittenKeeps == ASSUME Inv, NEW r \in Runs, SpecWritten(r) PROVE Inv'
<1>1. /\ main[r] = "spec" /\ run' = run /\ main' = [main EXCEPT ![r] = "created"]
      /\ PersistAfter(chain[r], r, Caller("start"))
  BY DEF SpecWritten, Persist
<1>2. UNCHANGED <<landed, execs, disk, containers, launches, unseen, loading, cancelling>>
  BY DEF SpecWritten, cancelVars, startupVars, historyVars
<1>3. RunCalm
  BY <1>1, RunKept, Zenon
<1>4. ChainCalm /\ \A s \in Runs : s # r => chain'[s] = chain[s]
  BY <1>1, <1>2, <1>3, ChainPersists
<1>5. /\ main' \in [Runs -> MainPlaces] /\ r \notin loading
      /\ \A s \in Runs : s # r => main'[s] = main[s]
  BY <1>1, MainAt, NotLoading DEF MainPlaces
<1>6. RestCalm
  BY <1>2, <1>4, <1>5, RestAt, Untouched, Zenon
<1>. QED BY <1>3, <1>4, <1>6, CalmStep, Zenon

LEMMA ExecuteKeeps == ASSUME Inv, NEW r \in Runs, Execute(r) PROVE Inv'
<1>1. /\ chain[r] # <<>> /\ run' = [run EXCEPT ![r].status = "running"]
      /\ main' = [main EXCEPT ![r] = "started"]
      /\ landed' = [landed EXCEPT ![r] = FALSE]
      /\ PersistAfter(Tail(chain[r]), r, Caller("main"))
  BY DEF Execute, Persisted
<1>2. UNCHANGED <<execs, disk, containers, launches, unseen, loading, cancelling>>
  BY DEF Execute, cancelVars, startupVars, historyVars
<1>3. RunCalm
  <2> DEFINE y == [run[r] EXCEPT !.status = "running"]
  <2>1. y \in Snapshots /\ Goes(run[r], y)
    BY StatusGoes DEF Inv, Types, Statuses
  <2>2. run' = [run EXCEPT ![r] = y]
    BY <1>1
  <2> HIDE DEF y
  <2>. QED BY <2>1, <2>2, RunGoes, Zenon
<1>4. ChainCalm /\ \A s \in Runs : s # r => chain'[s] = chain[s]
  BY <1>1, <1>2, <1>3, ChainPersists
<1>5. /\ main' \in [Runs -> MainPlaces] /\ r \notin loading
      /\ \A s \in Runs : s # r => main'[s] = main[s]
  BY <1>1, MainAt, NotLoading DEF MainPlaces
<1>6. RestCalm
  BY <1>2, <1>4, <1>5, RestAt, Untouched, Zenon
<1>. QED BY <1>3, <1>4, <1>6, CalmStep, Zenon

(* A call of r that returns without changing the run.                      *)
LEMMA ReturnKeeps ==
  ASSUME Inv, NEW r \in Runs, NEW w, Persisted(r, w), Pop(r), run' = run,
         main' \in [Runs -> MainPlaces], \A s \in Runs : s # r => main'[s] = main[s],
         cancelling' \in [Runs -> {"no", "removing", "saving"}],
         \A s \in Runs : s # r => cancelling'[s] = cancelling[s],
         UNCHANGED <<execs, disk, containers, launches, unseen, loading>>
  PROVE  Inv'
<1>1. RunCalm
  BY RunKept, Zenon
<1>2. ChainCalm /\ \A s \in Runs : s # r => chain'[s] = chain[s]
  BY <1>1, ChainPops, Zenon
<1>3. r \notin loading
  BY NotLoading DEF Persisted
<1>4. RestCalm
  BY <1>2, <1>3, RestAt, Zenon
<1>. QED BY <1>1, <1>2, <1>4, CalmStep, Zenon

LEMMA EnterLoopKeeps == ASSUME Inv, NEW r \in Runs, EnterLoop(r) PROVE Inv'
<1>1. /\ Persisted(r, Caller("main")) /\ Pop(r) /\ main' = [main EXCEPT ![r] = "loop"]
      /\ UNCHANGED <<run, cancelling, execs, disk, containers, launches, unseen, loading>>
  BY DEF EnterLoop, runVars, cancelVars, startupVars, historyVars
<1>2. main' \in [Runs -> MainPlaces] /\ \A s \in Runs : s # r => main'[s] = main[s]
  BY <1>1, MainAt DEF MainPlaces
<1>. QED BY <1>1, <1>2, ReturnKeeps, Untouched, Zenon

LEMMA ClosedKeeps == ASSUME Inv, NEW r \in Runs, Closed(r) PROVE Inv'
<1>1. /\ Persisted(r, Caller("main")) /\ Pop(r) /\ main' = [main EXCEPT ![r] = "none"]
      /\ UNCHANGED <<run, cancelling, execs, disk, containers, launches, unseen, loading>>
  BY DEF Closed, runVars, cancelVars, startupVars, historyVars
<1>2. main' \in [Runs -> MainPlaces] /\ \A s \in Runs : s # r => main'[s] = main[s]
  BY <1>1, MainAt DEF MainPlaces
<1>. QED BY <1>1, <1>2, ReturnKeeps, Untouched, Zenon

LEMMA HeartbeatPersistedKeeps ==
  ASSUME Inv, NEW r \in Runs, HeartbeatPersisted(r) PROVE Inv'
<1>1. /\ Persisted(r, Caller("heartbeat")) /\ Pop(r)
      /\ UNCHANGED <<run, main, cancelling, execs, disk, containers, launches, unseen, loading>>
  BY DEF HeartbeatPersisted, runVars, executeVars, cancelVars, startupVars, historyVars
<1>. QED BY <1>1, ReturnKeeps, Untouched, Zenon

LEMMA CancelReturnsKeeps == ASSUME Inv, NEW r \in Runs, CancelReturns(r) PROVE Inv'
<1>1. /\ Persisted(r, Caller("cancel")) /\ Pop(r)
      /\ cancelling' = [cancelling EXCEPT ![r] = "no"]
      /\ UNCHANGED <<run, main, execs, disk, containers, launches, unseen, loading>>
  BY DEF CancelReturns, runVars, executeVars, startupVars, historyVars
<1>2. /\ cancelling' \in [Runs -> {"no", "removing", "saving"}]
      /\ \A s \in Runs : s # r => cancelling'[s] = cancelling[s]
  BY <1>1, CancellingAt, Zenon
<1>. QED BY <1>1, <1>2, ReturnKeeps, Untouched, Zenon

LEMMA CancelSavesKeeps == ASSUME Inv, NEW r \in Runs, CancelSaves(r) PROVE Inv'
<1>1. /\ cancelling[r] = "removing" /\ run' = run
      /\ cancelling' = [cancelling EXCEPT ![r] = "saving"]
      /\ PersistAfter(chain[r], r, Caller("cancel"))
  BY DEF CancelSaves, Persist
<1>2. UNCHANGED <<landed, execs, disk, containers, launches, unseen, loading, main>>
  BY DEF CancelSaves, executeVars, startupVars, historyVars
<1>3. RunCalm
  BY <1>1, RunKept, Zenon
<1>4. ChainCalm /\ \A s \in Runs : s # r => chain'[s] = chain[s]
  BY <1>1, <1>2, <1>3, ChainPersists
<1>5. /\ cancelling' \in [Runs -> {"no", "removing", "saving"}] /\ r \notin loading
      /\ \A s \in Runs : s # r => cancelling'[s] = cancelling[s]
  BY <1>1, CancellingAt, NotLoading
<1>6. RestCalm
  BY <1>2, <1>4, <1>5, RestAt, Untouched, Zenon
<1>. QED BY <1>3, <1>4, <1>6, CalmStep, Zenon

LEMMA HeartbeatKeeps == ASSUME Inv, NEW e \in execs, Heartbeat(e) PROVE Inv'
<1>1. run' = run /\ PersistAfter(chain[e.r], e.r, Caller("heartbeat"))
  BY DEF Heartbeat, Persist
<1>2. UNCHANGED <<landed, execs, disk, containers, launches, unseen, loading, main, cancelling>>
  BY DEF Heartbeat, executeVars, cancelVars, startupVars, historyVars
<1>3. e.r \in Runs /\ e.r \notin loading
  BY ExecType, NotLoading, Zenon DEF Inv
<1>4. RunCalm
  BY <1>1, RunKept, Zenon
<1>5. ChainCalm /\ \A s \in Runs : s # e.r => chain'[s] = chain[s]
  BY <1>1, <1>2, <1>3, <1>4, ChainPersists
<1>6. RestCalm
  BY <1>2, <1>3, <1>5, RestAt, Untouched, Zenon
<1>. QED BY <1>4, <1>5, <1>6, CalmStep, Zenon

(* A step of execute() that settles pending tasks and writes nothing.      *)
LEMMA SettleKeeps ==
  ASSUME Inv, NEW r \in Runs, main[r] # "none", NEW f \in [Tasks -> TaskStatuses],
         \A t \in Tasks : \/ f[t] = run[r].task[t]
                          \/ /\ run[r].task[t] = "pending"
                             /\ f[t] \in {"failed", "skipped", "cancelled"},
         run' = [run EXCEPT ![r].task = f],
         main' \in [Runs -> MainPlaces], \A s \in Runs : s # r => main'[s] = main[s],
         UNCHANGED <<chain, landed, execs, disk, containers, launches, unseen,
                     loading, cancelling>>
  PROVE  Inv'
<1>1. RunCalm
  <2> DEFINE y == [run[r] EXCEPT !.task = f]
  <2>1. run[r] \in Snapshots
    BY DEF Inv, Types
  <2>2. y \in Snapshots /\ Goes(run[r], y)
    BY <2>1, TasksGo, Zenon
  <2>3. run' = [run EXCEPT ![r] = y]
    OBVIOUS
  <2> HIDE DEF y
  <2>. QED BY <2>2, <2>3, RunGoes, Zenon
<1>2. ChainCalm
  BY <1>1, ChainKept, Zenon
<1>3. RestCalm
  BY NotLoading, RestAt, Untouched, Zenon
<1>. QED BY <1>1, <1>2, <1>3, CalmStep, Zenon

LEMMA LoopCancelledKeeps == ASSUME Inv, NEW r \in Runs, LoopCancelled(r) PROVE Inv'
<1>1. /\ main[r] = "loop" /\ run' = [run EXCEPT ![r].task = Skipped(r)]
      /\ main' = [main EXCEPT ![r] = IF ActiveIds(r) = {} THEN "close" ELSE "race"]
      /\ UNCHANGED <<chain, landed, execs, disk, containers, launches, unseen,
                     loading, cancelling>>
  BY DEF LoopCancelled, cancelVars, startupVars, historyVars
<1>2. run[r].task \in [Tasks -> TaskStatuses]
  BY DEF Inv, Types, Snapshots
<1>3. Skipped(r) \in [Tasks -> TaskStatuses]
  BY <1>2, SkippedType, Zenon
<1>4. \A t \in Tasks : \/ Skipped(r)[t] = run[r].task[t]
                       \/ /\ run[r].task[t] = "pending"
                          /\ Skipped(r)[t] \in {"failed", "skipped", "cancelled"}
  BY SkippedOnlyPending
<1>5. main' \in [Runs -> MainPlaces] /\ \A s \in Runs : s # r => main'[s] = main[s]
  BY <1>1, MainAt DEF MainPlaces
<1>6. main[r] # "none"
  BY <1>1
<1>. QED BY <1>1, <1>3, <1>4, <1>5, <1>6, SettleKeeps, Zenon

LEMMA LoopSchedulesKeeps == ASSUME Inv, NEW r \in Runs, LoopSchedules(r) PROVE Inv'
<1>1. /\ main[r] = "loop" /\ run' = [run EXCEPT ![r].task = Skipped(r)]
      /\ main' = [main EXCEPT ![r] = "dispatch"]
      /\ UNCHANGED <<chain, landed, execs, disk, containers, launches, unseen,
                     loading, cancelling>>
  BY DEF LoopSchedules, cancelVars, startupVars, historyVars
<1>2. run[r].task \in [Tasks -> TaskStatuses]
  BY DEF Inv, Types, Snapshots
<1>3. Skipped(r) \in [Tasks -> TaskStatuses]
  BY <1>2, SkippedType, Zenon
<1>4. \A t \in Tasks : \/ Skipped(r)[t] = run[r].task[t]
                       \/ /\ run[r].task[t] = "pending"
                          /\ Skipped(r)[t] \in {"failed", "skipped", "cancelled"}
  BY SkippedOnlyPending
<1>5. main' \in [Runs -> MainPlaces] /\ \A s \in Runs : s # r => main'[s] = main[s]
  BY <1>1, MainAt DEF MainPlaces
<1>6. main[r] # "none"
  BY <1>1
<1>. QED BY <1>1, <1>3, <1>4, <1>5, <1>6, SettleKeeps, Zenon

LEMMA GiveUpKeeps == ASSUME Inv, NEW r \in Runs, GiveUp(r) PROVE Inv'
<1> DEFINE f == [t \in Tasks |-> IF run[r].task[t] = "pending" THEN "skipped"
                                 ELSE run[r].task[t]]
<1>1. /\ main[r] = "dispatch" /\ run' = [run EXCEPT ![r].task = f]
      /\ main' = [main EXCEPT ![r] = "close"]
      /\ UNCHANGED <<chain, landed, execs, disk, containers, launches, unseen,
                     loading, cancelling>>
  BY DEF GiveUp, Dispatched, cancelVars, startupVars, historyVars
<1>2. run[r].task \in [Tasks -> TaskStatuses]
  BY DEF Inv, Types, Snapshots
<1>3. f \in [Tasks -> TaskStatuses]
  BY <1>2 DEF TaskStatuses
<1>4. \A t \in Tasks : \/ f[t] = run[r].task[t]
                       \/ /\ run[r].task[t] = "pending"
                          /\ f[t] \in {"failed", "skipped", "cancelled"}
  OBVIOUS
<1>5. main' \in [Runs -> MainPlaces] /\ \A s \in Runs : s # r => main'[s] = main[s]
  BY <1>1, MainAt DEF MainPlaces
<1>6. main[r] # "none"
  BY <1>1
<1> HIDE DEF f
<1>. QED BY <1>1, <1>3, <1>4, <1>5, <1>6, SettleKeeps, Zenon

LEMMA FailUnplaceableKeeps ==
  ASSUME Inv, NEW r \in Runs, FailUnplaceable(r) PROVE Inv'
<1> DEFINE f == [t \in Tasks |-> IF Ready(r, t) THEN "failed" ELSE run[r].task[t]]
           y == [run[r] EXCEPT !.task = f]
<1>1. /\ main[r] = "dispatch" /\ run' = [run EXCEPT ![r] = y]
      /\ main' = [main EXCEPT ![r] = "failing"]
      /\ PersistAfter(chain[r], r, Caller("main"))
  BY DEF FailUnplaceable, Dispatched, Persist
<1>2. UNCHANGED <<landed, execs, disk, containers, launches, unseen, loading, cancelling>>
  BY DEF FailUnplaceable, cancelVars, startupVars, historyVars
<1>3. RunCalm
  <2>1. run[r] \in Snapshots /\ run[r].task \in [Tasks -> TaskStatuses]
    BY DEF Inv, Types, Snapshots
  <2>2. f \in [Tasks -> TaskStatuses]
    BY <2>1 DEF TaskStatuses
  <2>3. \A t \in Tasks : \/ f[t] = run[r].task[t]
                         \/ /\ run[r].task[t] = "pending"
                            /\ f[t] \in {"failed", "skipped", "cancelled"}
    BY DEF Ready
  <2> HIDE DEF f
  <2>4. y \in Snapshots /\ Goes(run[r], y)
    BY <2>1, <2>2, <2>3, TasksGo, Zenon
  <2> HIDE DEF y
  <2>. QED BY <1>1, <2>4, RunGoes, Zenon
<1> HIDE DEF y
<1>4. ChainCalm /\ \A s \in Runs : s # r => chain'[s] = chain[s]
  BY <1>1, <1>2, <1>3, ChainPersists
<1>5. /\ main' \in [Runs -> MainPlaces] /\ r \notin loading
      /\ \A s \in Runs : s # r => main'[s] = main[s]
  BY <1>1, MainAt, NotLoading DEF MainPlaces
<1>6. RestCalm
  BY <1>2, <1>4, <1>5, RestAt, Untouched, Zenon
<1>. QED BY <1>3, <1>4, <1>6, CalmStep, Zenon

LEMMA CloseKeeps == ASSUME Inv, NEW r \in Runs, Close(r) PROVE Inv'
<1> DEFINE y == [run[r] EXCEPT !.status = FinalStatus(r)]
<1>1. /\ main[r] = "close" /\ run' = [run EXCEPT ![r] = y]
      /\ main' = [main EXCEPT ![r] = "closing"]
      /\ PersistAfter(chain[r], r, Caller("main"))
  BY DEF Close, Persist
<1>2. UNCHANGED <<landed, execs, disk, containers, launches, unseen, loading, cancelling>>
  BY DEF Close, cancelVars, startupVars, historyVars
<1>3. RunCalm
  <2>1. run[r] \in Snapshots /\ FinalStatus(r) \in Statuses
    BY DEF Inv, Types, FinalStatus, Statuses
  <2>2. y \in Snapshots /\ Goes(run[r], y)
    BY <2>1, StatusGoes, Zenon
  <2> HIDE DEF y
  <2>. QED BY <1>1, <2>2, RunGoes, Zenon
<1> HIDE DEF y
<1>4. ChainCalm /\ \A s \in Runs : s # r => chain'[s] = chain[s]
  BY <1>1, <1>2, <1>3, ChainPersists
<1>5. /\ main' \in [Runs -> MainPlaces] /\ r \notin loading
      /\ \A s \in Runs : s # r => main'[s] = main[s]
  BY <1>1, MainAt, NotLoading DEF MainPlaces
<1>6. RestCalm
  BY <1>2, <1>4, <1>5, RestAt, Untouched, Zenon
<1>. QED BY <1>3, <1>4, <1>6, CalmStep, Zenon

(* A step of execute() that only waits, or stops waiting.                  *)
LEMMA MoveKeeps ==
  ASSUME Inv, NEW r \in Runs, main[r] # "none", NEW p \in MainPlaces,
         main' = [main EXCEPT ![r] = p],
         UNCHANGED <<run, chain, landed, execs, disk, containers, launches, unseen,
                     loading, cancelling>>
  PROVE  Inv'
<1>1. RunCalm
  BY RunKept, Zenon
<1>2. ChainCalm
  BY <1>1, ChainKept, Zenon
<1>3. /\ main' \in [Runs -> MainPlaces]
      /\ \A s \in Runs : s # r => main'[s] = main[s]
  BY MainAt, Zenon
<1>4. RestCalm
  BY <1>3, NotLoading, RestAt, Untouched, Zenon
<1>. QED BY <1>1, <1>2, <1>4, CalmStep, Zenon

LEMMA WaitKeeps ==
  ASSUME Inv, NEW r \in Runs, RaceActive(r) \/ ResourceDelay(r) \/ DelayEnds(r)
  PROVE  Inv'
<1>1. /\ main[r] \in {"dispatch", "delay"}
      /\ \E p \in {"race", "delay", "loop"} : main' = [main EXCEPT ![r] = p]
      /\ UNCHANGED <<run, chain, landed, execs, disk, containers, launches, unseen,
                     loading, cancelling>>
  BY DEF RaceActive, ResourceDelay, DelayEnds, Dispatched, runVars, cancelVars,
         startupVars, historyVars
<1>2. PICK p \in {"race", "delay", "loop"} : main' = [main EXCEPT ![r] = p]
  BY <1>1
<1>3. main[r] # "none" /\ p \in MainPlaces
  BY <1>1 DEF MainPlaces
<1>. QED BY <1>1, <1>2, <1>3, MoveKeeps, Zenon

(* A step of Docker that starts nothing.                                   *)
LEMMA DockerKeeps ==
  ASSUME Inv,
         containers' \in [Runs -> [Tasks -> {"none", "running", "ok", "bad"}]],
         \A r \in Runs, t \in Tasks : containers'[r][t] # "none" => containers[r][t] # "none",
         UNCHANGED <<run, main, chain, landed, execs, disk, launches, unseen,
                     loading, cancelling>>
  PROVE  Inv'
<1>1. RunCalm
  BY RunKept, Zenon
<1>2. ChainCalm
  BY <1>1, ChainKept, Zenon
<1>3. RestCalm
  BY Untouched, Zenon DEF RestCalm, Inv, Types
<1>. QED BY <1>1, <1>2, <1>3, CalmStep, Zenon

LEMMA ContainerExitsKeeps ==
  ASSUME Inv, NEW r \in Runs, NEW t \in Tasks, ContainerExits(r, t) PROVE Inv'
<1>1. /\ containers[r][t] = "running"
      /\ \E o \in {"ok", "bad", "none"} : containers' = [containers EXCEPT ![r][t] = o]
  BY DEF ContainerExits
<1>2. PICK o \in {"ok", "bad", "none"} : containers' = [containers EXCEPT ![r][t] = o]
  BY <1>1
<1>3. UNCHANGED <<run, main, chain, landed, execs, disk, launches, unseen, loading, cancelling>>
  BY DEF ContainerExits, runVars, executeVars, cancelVars, startupVars, historyVars
<1>4. containers \in [Runs -> [Tasks -> {"none", "running", "ok", "bad"}]]
  BY Zenon DEF Inv, Types
<1>5. containers' \in [Runs -> [Tasks -> {"none", "running", "ok", "bad"}]]
  BY <1>2, <1>4
<1>6. \A s \in Runs, u \in Tasks : containers'[s][u] # "none" => containers[s][u] # "none"
  BY <1>1, <1>2, <1>4
<1>. QED BY <1>3, <1>5, <1>6, DockerKeeps, Zenon

LEMMA RemoveWorkerKeeps ==
  ASSUME Inv, NEW r \in Runs, NEW t \in Tasks, RemoveWorker(r, t) PROVE Inv'
<1>1. containers' = [containers EXCEPT ![r][t] = "none"]
  BY DEF RemoveWorker
<1>2. UNCHANGED <<run, main, chain, landed, execs, disk, launches, unseen, loading, cancelling>>
  BY DEF RemoveWorker, runVars, executeVars, startupVars, historyVars
<1>3. containers \in [Runs -> [Tasks -> {"none", "running", "ok", "bad"}]]
  BY Zenon DEF Inv, Types
<1>4. containers' \in [Runs -> [Tasks -> {"none", "running", "ok", "bad"}]]
  BY <1>1, <1>3
<1>5. \A s \in Runs, u \in Tasks : containers'[s][u] # "none" => containers[s][u] # "none"
  BY <1>1, <1>3
<1>. QED BY <1>2, <1>4, <1>5, DockerKeeps, Zenon

LEMMA CleanupOrphansKeeps == ASSUME Inv, CleanupOrphans PROVE Inv'
<1>1. containers' = [r \in Runs |-> [t \in Tasks |->
                       IF <<r, t>> \in keep THEN containers[r][t] ELSE "none"]]
  BY DEF CleanupOrphans
<1>2. UNCHANGED <<run, main, chain, landed, execs, disk, launches, unseen, loading, cancelling>>
  BY DEF CleanupOrphans, runVars, executeVars, cancelVars, historyVars
<1>3. containers \in [Runs -> [Tasks -> {"none", "running", "ok", "bad"}]]
  BY Zenon DEF Inv, Types
<1>4. containers' \in [Runs -> [Tasks -> {"none", "running", "ok", "bad"}]]
  BY <1>1, <1>3
<1>5. \A s \in Runs, u \in Tasks : containers'[s][u] # "none" => containers[s][u] # "none"
  BY <1>1, <1>3
<1>. QED BY <1>2, <1>4, <1>5, DockerKeeps, Zenon

LEMMA CancelKeeps == ASSUME Inv, NEW r \in Runs, Cancel(r) PROVE Inv'
<1> DEFINE f == [t \in Tasks |-> IF run[r].task[t] = "pending" THEN "cancelled"
                                 ELSE run[r].task[t]]
           y == [run[r] EXCEPT !.cancel = TRUE, !.task = f]
<1>1. /\ loading = {} /\ run' = [run EXCEPT ![r] = y]
      /\ cancelling' = [cancelling EXCEPT ![r] = "removing"]
  BY DEF Cancel, Serving
<1>2. UNCHANGED <<chain, landed, execs, disk, containers, launches, unseen, loading, main>>
  BY DEF Cancel, executeVars, startupVars, historyVars
<1>3. RunCalm
  <2>1. run[r] \in Snapshots /\ run[r].task \in [Tasks -> TaskStatuses]
    BY DEF Inv, Types, Snapshots
  <2>2. f \in [Tasks -> TaskStatuses]
    BY <2>1 DEF TaskStatuses
  <2>3. \A t \in Tasks : \/ f[t] = run[r].task[t]
                         \/ /\ run[r].task[t] = "pending"
                            /\ f[t] \in {"failed", "skipped", "cancelled"}
    OBVIOUS
  <2> HIDE DEF f
  <2>4. y \in Snapshots /\ Goes(run[r], y)
    BY <2>1, <2>2, <2>3, TasksGo, Zenon
  <2> HIDE DEF y
  <2>. QED BY <1>1, <2>4, RunGoes, Zenon
<1>4. ChainCalm
  BY <1>2, <1>3, ChainKept, Zenon
<1>5. /\ cancelling' \in [Runs -> {"no", "removing", "saving"}]
      /\ \A s \in Runs : s # r => cancelling'[s] = cancelling[s]
  BY <1>1, CancellingAt, Zenon
<1>6. RestCalm
  BY <1>1, <1>2, <1>5, RestAt, Untouched, Zenon
<1>. QED BY <1>3, <1>4, <1>6, CalmStep, Zenon

LEMMA TaskEndsKeeps == ASSUME Inv, NEW e \in execs, TaskEnds(e) PROVE Inv'
<1>1. e.r \in Runs
  BY ExecType, Zenon DEF Inv
<1>2. /\ Persisted(e.r, TaskCaller(e.t, e.a)) /\ Pop(e.r) /\ execs' = execs \ {e}
      /\ UNCHANGED <<run, disk, containers, launches, unseen, loading, cancelling>>
  BY DEF TaskEnds, runVars, cancelVars, startupVars, historyVars
<1>3. main' = [main EXCEPT ![e.r] = "loop"] \/ main' = main
  BY DEF TaskEnds
<1>4. /\ main' \in [Runs -> MainPlaces]
      /\ \A s \in Runs : s # e.r => main'[s] = main[s]
  <2>1. CASE main' = [main EXCEPT ![e.r] = "loop"]
    BY <1>1, <2>1, MainAt DEF MainPlaces
  <2>2. CASE main' = main
    BY <2>2, Untouched, Zenon
  <2>. QED BY <1>3, <2>1, <2>2
<1>5. RunCalm
  BY <1>2, RunKept, Zenon
<1>6. ChainCalm /\ \A s \in Runs : s # e.r => chain'[s] = chain[s]
  BY <1>1, <1>2, <1>5, ChainPops, Zenon
<1>7. e.r \notin loading
  BY <1>1, NotLoading, Zenon
<1>8. RestCalm
  BY <1>2, <1>4, <1>6, <1>7, Untouched, Zenon DEF RestCalm, Inv, Types
<1>. QED BY <1>5, <1>6, <1>8, CalmStep, Zenon

-----------------------------------------------------------------------------
(***************************************************************************)
(* Steps of an execution.                                                  *)
(***************************************************************************)
LEMMA MovedFacts ==
  ASSUME Types, UniqueInv, NEW e \in execs, NEW at \in Places
  PROVE  /\ MovedTo(e, at) \in SUBSET Execs
         /\ \A f \in MovedTo(e, at) :
              \/ f \in execs /\ f # e
              \/ f.r = e.r /\ f.t = e.t /\ f.a = e.a /\ f.at = at
         /\ \A f, g \in MovedTo(e, at) : f.r = g.r /\ f.t = g.t /\ f.a = g.a => f = g
<1> DEFINE m == [e EXCEPT !.at = at]
<1>1. e \in Execs /\ execs \in SUBSET Execs
  BY DEF Types
<1>2. m \in Execs /\ m.r = e.r /\ m.t = e.t /\ m.a = e.a /\ m.at = at
  BY <1>1 DEF Execs
<1>3. MovedTo(e, at) = (execs \ {e}) \cup {m}
  BY DEF MovedTo
<1> HIDE DEF m
<1>4. \A f \in execs : f # e => ~(f.r = m.r /\ f.t = m.t /\ f.a = m.a)
  BY <1>2, Zenon DEF UniqueInv
<1>5. \A f, g \in execs : f.r = g.r /\ f.t = g.t /\ f.a = g.a => f = g
  BY Zenon DEF UniqueInv
<1>6. \A f \in MovedTo(e, at) : (f \in execs /\ f # e) \/ f = m
  BY <1>3
<1>7. \A f, g \in MovedTo(e, at) : f.r = g.r /\ f.t = g.t /\ f.a = g.a => f = g
  BY <1>4, <1>5, <1>6, Zenon
<1>8. MovedTo(e, at) \in SUBSET Execs
  BY <1>1, <1>2, <1>3
<1>. QED BY <1>2, <1>6, <1>7, <1>8, Zenon

(* Execution e moves on; at "closing" its task has ended.                  *)
MoveStep(e, at) ==
  /\ execs' = MovedTo(e, at) /\ e.at # "closing"
  /\ main' = main /\ cancelling' = cancelling /\ loading' = loading
  /\ DiskKept /\ LandedFollows
  /\ \A s \in Runs : s # e.r => chain'[s] = chain[s] /\ run'[s] = run[s]
  /\ Follows(chain[e.r], chain'[e.r], TaskCaller(e.t, e.a), run'[e.r])
  /\ Ahead(run[e.r], run'[e.r]) /\ Sound(run'[e.r])
  /\ \A t \in Tasks : (t # e.t \/ at # "closing") /\ run[e.r].task[t] = "running" =>
       run'[e.r].task[t] = "running" /\ run'[e.r].attempt[t] = run[e.r].attempt[t]

LEMMA MoveKeepsHistory ==
  ASSUME Inv, Types', NEW e \in execs, NEW at \in Places, MoveStep(e, at)
  PROVE  /\ RunsAdvance /\ SoundInv' /\ OrderInv' /\ LandedInv' /\ SavesPast'
<1>1. /\ e.r \in Runs /\ e.t \in Tasks /\ e.a \in Nat
      /\ e.a <= run[e.r].attempt[e.t]
  BY ExecType, Zenon DEF Inv, BusyInv
<1>2. \A r \in Runs : Ahead(run[r], run[r]) /\ Sound(run[r])
  BY AheadReflexive DEF Inv, Types, SoundInv, AllSound
<1>3. RunsAdvance
  BY <1>2, Zenon DEF RunsAdvance, MoveStep
<1>4. TaskCaller(e.t, e.a) \in Callers /\ TaskCaller(e.t, e.a).t = e.t
      /\ TaskCaller(e.t, e.a).a = e.a
  BY <1>1, CallersType
<1>5. \A r \in Runs : Follows(chain[r], chain'[r], TaskCaller(e.t, e.a), run'[r])
  BY Zenon DEF MoveStep, Follows
<1>6. ChainFollows
  BY <1>4, <1>5, Zenon DEF ChainFollows
<1>7. SoundInv' /\ OrderInv' /\ LandedInv'
  BY <1>3, <1>6, HistoryKept, LandedKept, Zenon DEF Inv, MoveStep
<1>8. SavesPast'
  <2>1. ASSUME NEW r \in Runs PROVE PastCalls(chain'[r], run'[r])
    <3>1. chain[r] \in Seq(Entries) /\ run[r] \in Snapshots /\ run'[r] \in Snapshots
      BY DEF Inv, Types
    <3>2. PastCalls(chain[r], run[r]) /\ Ahead(run[r], run'[r])
      BY <1>3, Zenon DEF Inv, SavesPast, RunsAdvance
    <3>3. CASE r = e.r
      <4>1. run[r].attempt[e.t] \in Nat /\ run'[r].attempt[e.t] \in Nat
        BY <1>1, <3>1 DEF Snapshots
      <4>2. run[r].attempt[e.t] <= run'[r].attempt[e.t]
        BY <1>1, <3>2, Zenon DEF Ahead
      <4>3. e.a <= run'[r].attempt[e.t]
        BY <1>1, <3>3, <4>1, <4>2, AtMost, Zenon
      <4>. QED BY <1>1, <1>4, <1>5, <3>1, <3>2, <4>3, PastFollows, Zenon
    <3>4. CASE r # e.r
      BY <3>2, <3>4, Zenon DEF MoveStep
    <3>. QED BY <3>3, <3>4
  <2>. QED BY <2>1, Zenon DEF SavesPast
<1>. QED BY <1>3, <1>7, <1>8

(* Every other execution that has not ended is of another task.            *)
LEMMA OtherTask ==
  ASSUME Inv, NEW e \in execs, e.at # "closing", NEW f \in execs, f # e, f.at # "closing"
  PROVE  f.r # e.r \/ f.t # e.t
<1>1. run[e.r].attempt[e.t] = e.a /\ run[f.r].attempt[f.t] = f.a
  BY Zenon DEF Inv, BusyInv
<1>2. ~(e.r = f.r /\ e.t = f.t /\ e.a = f.a)
  BY Zenon DEF Inv, UniqueInv
<1>. QED BY <1>1, <1>2

LEMMA MoveKeepsExecs ==
  ASSUME Inv, Types', NEW e \in execs, NEW at \in Places, at # "mkdir", MoveStep(e, at),
         at = "saving" => SavesAttempt(chain'[e.r], e.t, e.a)
  PROVE  BusyInv' /\ UniqueInv' /\ LoadingInv' /\ SavingInv'
<1>1. RunsAdvance /\ Types /\ UniqueInv
  BY MoveKeepsHistory, Zenon DEF Inv
<1>2. /\ e.r \in Runs /\ e.t \in Tasks /\ e.a \in Nat /\ e.at # "closing"
      /\ run[e.r].task[e.t] = "running" /\ run[e.r].attempt[e.t] = e.a
  BY ExecType, Zenon DEF Inv, BusyInv, MoveStep
<1>3. /\ execs' = MovedTo(e, at)
      /\ \A f \in execs' : \/ f \in execs /\ f # e
                           \/ f.r = e.r /\ f.t = e.t /\ f.a = e.a /\ f.at = at
      /\ UniqueInv'
  BY <1>1, MovedFacts, Zenon DEF MoveStep, UniqueInv
<1>4. ASSUME NEW f \in execs, f # e
      PROVE  /\ f.r \in Runs /\ f.t \in Tasks /\ f.a \in Nat
             /\ f.a <= run'[f.r].attempt[f.t]
             /\ f.at # "closing" => /\ run'[f.r].task[f.t] = "running"
                                    /\ run'[f.r].attempt[f.t] = f.a
  <2>1. f.r \in Runs /\ f.t \in Tasks /\ f.a \in Nat
    BY <1>1, ExecType, Zenon
  <2>2. /\ f.a <= run[f.r].attempt[f.t]
        /\ f.at # "closing" => /\ run[f.r].task[f.t] = "running"
                               /\ run[f.r].attempt[f.t] = f.a
    BY Zenon DEF Inv, BusyInv
  <2>3. run[f.r].attempt[f.t] <= run'[f.r].attempt[f.t]
    BY <1>1, <2>1, Zenon DEF RunsAdvance, Ahead
  <2>4. run[f.r].attempt[f.t] \in Nat /\ run'[f.r].attempt[f.t] \in Nat
    BY <2>1 DEF Inv, Types, Snapshots
  <2>5. f.a <= run'[f.r].attempt[f.t]
    BY <2>1, <2>2, <2>3, <2>4, AtMost, Zenon
  <2>6. ASSUME f.at # "closing"
        PROVE  run'[f.r].task[f.t] = "running" /\ run'[f.r].attempt[f.t] = f.a
    <3>1. f.r # e.r \/ f.t # e.t
      BY <1>2, <1>4, <2>6, OtherTask, Zenon
    <3>. QED BY <2>1, <2>2, <2>6, <3>1, Zenon DEF MoveStep
  <2>. QED BY <2>1, <2>5, <2>6
<1>5. BusyInv'
  <2>1. SUFFICES ASSUME NEW f \in execs'
                 PROVE  /\ f.a <= run'[f.r].attempt[f.t]
                        /\ f.at # "closing" => /\ run'[f.r].task[f.t] = "running"
                                               /\ run'[f.r].attempt[f.t] = f.a
    BY Zenon DEF BusyInv
  <2>2. CASE f \in execs /\ f # e
    BY <1>4, <2>2, Zenon
  <2>3. CASE f.r = e.r /\ f.t = e.t /\ f.a = e.a /\ f.at = at
    <3>1. run[e.r].attempt[e.t] <= run'[e.r].attempt[e.t]
      BY <1>1, <1>2, Zenon DEF RunsAdvance, Ahead
    <3>2. e.a <= run'[e.r].attempt[e.t]
      BY <1>2, <3>1
    <3>3. at # "closing" => /\ run'[e.r].task[e.t] = "running"
                            /\ run'[e.r].attempt[e.t] = e.a
      BY <1>2, Zenon DEF MoveStep
    <3>. QED BY <2>3, <3>2, <3>3
  <2>. QED BY <1>3, <2>1, <2>2, <2>3, Zenon
<1>6. LoadingInv'
  <2>1. e.r \notin loading
    BY <1>2, NotLoading, Zenon
  <2>2. \A f \in execs' : f.r \notin loading
    BY <1>3, <2>1, Zenon DEF Inv, LoadingInv
  <2>3. ASSUME NEW r \in loading
        PROVE  main'[r] = "none" /\ cancelling'[r] = "no" /\ chain'[r] = <<>>
    <3>1. r \in Runs /\ r # e.r
      BY <1>1, <2>1, Zenon DEF Types
    <3>2. chain'[r] = chain[r] /\ main' = main /\ cancelling' = cancelling
      BY <3>1, Zenon DEF MoveStep
    <3>. QED BY <3>2, Zenon DEF Inv, LoadingInv
  <2>4. loading' = loading
    BY Zenon DEF MoveStep
  <2>. QED BY <2>2, <2>3, <2>4, Zenon DEF LoadingInv
<1>7. SavingInv'
  <2>1. SUFFICES ASSUME NEW f \in execs'
                 PROVE  /\ f.at = "mkdir" => NotSaved(chain'[f.r], f.t, f.a)
                        /\ f.at = "saving" => SavesAttempt(chain'[f.r], f.t, f.a)
    BY Zenon DEF SavingInv
  <2>2. CASE f.r = e.r /\ f.t = e.t /\ f.a = e.a /\ f.at = at
    BY <2>2
  <2>3. CASE f \in execs /\ f # e
    <3>1. /\ f.at = "mkdir" => NotSaved(chain[f.r], f.t, f.a)
          /\ f.at = "saving" => SavesAttempt(chain[f.r], f.t, f.a)
      BY <2>3, Zenon DEF Inv, SavingInv
    <3>2. f.r \in Runs /\ f.t \in Tasks /\ f.a \in Nat
      BY <1>4, <2>3, Zenon
    <3>3. CASE f.r # e.r
      BY <3>1, <3>2, <3>3, Zenon DEF MoveStep
    <3>4. CASE f.r = e.r
      <4>1. Follows(chain[f.r], chain'[f.r], TaskCaller(e.t, e.a), run'[f.r])
        BY <3>4, Zenon DEF MoveStep
      <4>2. TaskCaller(e.t, e.a) \in Callers /\ chain[f.r] \in Seq(Entries)
            /\ run'[f.r] \in Snapshots
        BY <1>2, <3>2, CallersType DEF Inv, Types
      <4>3. TaskCaller(e.t, e.a) # TaskCaller(f.t, f.a)
        <5>1. ~(f.t = e.t /\ f.a = e.a)
          BY <1>1, <2>3, <3>4, Zenon DEF UniqueInv
        <5>. QED BY <5>1 DEF TaskCaller
      <4>4. f.at = "mkdir" => NotSaved(chain'[f.r], f.t, f.a)
        BY <3>1, <4>1, <4>2, <4>3, NotSavedFollows, Zenon
      <4>5. ASSUME f.at = "saving" PROVE SavesAttempt(chain'[f.r], f.t, f.a)
        <5>1. run'[f.r].task[f.t] = "running" /\ run'[f.r].attempt[f.t] = f.a
          BY <1>4, <2>3, <4>5
        <5>. QED BY <3>1, <3>2, <4>1, <4>2, <4>5, <5>1, SavesFollow, ZenonT(40)
      <4>. QED BY <4>4, <4>5
    <3>. QED BY <3>3, <3>4
  <2>. QED BY <1>3, <2>1, <2>2, <2>3, Zenon
<1>. QED BY <1>3, <1>5, <1>6, <1>7

LEMMA MoveTypes ==
  ASSUME Inv, NEW e \in execs, NEW at \in Places, execs' = MovedTo(e, at),
         run' \in [Runs -> Snapshots], chain' \in [Runs -> Seq(Entries)],
         landed' \in [Runs -> BOOLEAN],
         containers' \in [Runs -> [Tasks -> {"none", "running", "ok", "bad"}]],
         launches' \in [Runs -> [Tasks -> Nat]],
         UNCHANGED <<main, cancelling, loading, disk>>
  PROVE  Types'
<1>1. execs' \in SUBSET Execs
  BY MovedFacts, Zenon DEF Inv
<1>. QED BY <1>1, Zenon DEF Types, Inv

(* The execution persists the run.                                         *)
LEMMA MovePersists ==
  ASSUME Inv, run' \in [Runs -> Snapshots], NEW e \in execs,
         Persist(e.r, TaskCaller(e.t, e.a)), landed' = landed
  PROVE  /\ chain' \in [Runs -> Seq(Entries)] /\ landed' \in [Runs -> BOOLEAN]
         /\ chain'[e.r] = Append(chain[e.r], [who |-> TaskCaller(e.t, e.a), snap |-> run'[e.r]])
         /\ Follows(chain[e.r], chain'[e.r], TaskCaller(e.t, e.a), run'[e.r])
         /\ \A s \in Runs : s # e.r => chain'[s] = chain[s]
         /\ LandedFollows
<1> DEFINE w == TaskCaller(e.t, e.a)
<1>1. /\ chain \in [Runs -> Seq(Entries)] /\ landed \in [Runs -> BOOLEAN]
      /\ e.r \in Runs /\ e.t \in Tasks /\ e.a \in Nat
  BY ExecType, Zenon DEF Inv, Types
<1>2. w \in Callers /\ run'[e.r] \in Snapshots
  BY <1>1, CallersType
<1>3. chain' = [chain EXCEPT ![e.r] = Append(chain[e.r], [who |-> w, snap |-> run'[e.r]])]
  BY Zenon DEF Persist, PersistAfter
<1> HIDE DEF w
<1>4. /\ chain'[e.r] = Append(chain[e.r], [who |-> w, snap |-> run'[e.r]])
      /\ \A s \in Runs : s # e.r => chain'[s] = chain[s]
  BY <1>1, <1>3
<1>5. Follows(chain[e.r], chain'[e.r], w, run'[e.r])
  BY <1>4, Zenon DEF Follows
<1>6. chain'[e.r] \in Seq(Entries)
  BY <1>1, <1>2, <1>5, FollowsTraces, Zenon
<1>7. chain' \in [Runs -> Seq(Entries)]
  BY <1>1, <1>3, <1>4, <1>6
<1>8. LandedFollows
  BY <1>2, <1>4, Zenon DEF LandedFollows
<1>. QED BY <1>1, <1>4, <1>5, <1>7, <1>8, Zenon DEF w

LEMMA MoveContainers ==
  ASSUME Inv, Types', NEW e \in execs, NEW at \in Places, MoveStep(e, at),
         \A r \in Runs, t \in Tasks :
           containers'[r][t] # "none" /\ <<r, t>> \notin unseen' =>
             /\ containers[r][t] # "none" /\ <<r, t>> \notin unseen
             /\ run'[r].task[t] = "running"
  PROVE  ContainerInv'
<1>1. SUFFICES ASSUME NEW r \in Runs, NEW t \in Tasks,
                      containers'[r][t] # "none", <<r, t>> \notin unseen'
               PROVE  ShowsRunning(disk'[r].snap, chain'[r], run'[r], t)
  BY Zenon DEF ContainerInv
<1>2. ShowsRunning(disk[r].snap, chain[r], run[r], t) /\ run'[r].task[t] = "running"
  BY <1>1, Zenon DEF Inv, ContainerInv
<1>3. e.t \in Tasks /\ e.a \in Nat
  BY ExecType, Zenon DEF Inv
<1>4. TaskCaller(e.t, e.a) \in Callers
  BY <1>3, CallersType
<1>5. Follows(chain[r], chain'[r], TaskCaller(e.t, e.a), run'[r])
  BY <1>1, Zenon DEF MoveStep, Follows
<1>6. chain[r] \in Seq(Entries) /\ run'[r] \in Snapshots
  BY <1>1 DEF Inv, Types
<1>7. disk'[r].snap = disk[r].snap
  BY <1>1, Zenon DEF MoveStep, DiskKept
<1>. QED BY <1>1, <1>2, <1>4, <1>5, <1>6, <1>7, ShowsFollow, Zenon

LEMMA MoveLaunches ==
  ASSUME Inv, NEW e \in execs, NEW at \in Places, MoveStep(e, at),
         launches' = launches, at # "mkdir", at = "saving" => e.at = "mkdir"
  PROVE  LaunchInv'
<1>1. \A f \in execs' : \/ f \in execs /\ f # e
                        \/ f.r = e.r /\ f.t = e.t /\ f.a = e.a /\ f.at = at
  BY MovedFacts, Zenon DEF MoveStep, Inv
<1>2. \A f \in execs' : f.at \in {"mkdir", "saving"} => launches'[f.r][f.t] < f.a
  BY <1>1, Zenon DEF Inv, LaunchInv
<1>3. \A r \in Runs, t \in Tasks : launches'[r][t] <= disk'[r].snap.attempt[t]
  BY Zenon DEF Inv, LaunchInv, MoveStep, DiskKept
<1>. QED BY <1>2, <1>3, Zenon DEF LaunchInv

LEMMA SameRun ==
  ASSUME Inv, run' = run
  PROVE  /\ run' \in [Runs -> Snapshots]
         /\ \A r \in Runs : Ahead(run[r], run'[r]) /\ Sound(run'[r])
<1>1. run \in [Runs -> Snapshots]
  BY Zenon DEF Inv, Types
<1>2. \A r \in Runs : Ahead(run[r], run[r])
  BY <1>1, AheadReflexive
<1>. QED BY <1>1, <1>2, Zenon DEF Inv, SoundInv, AllSound

LEMMA ReattachKeeps == ASSUME Inv, NEW e \in execs, Reattach(e) PROVE Inv'
<1>1. /\ e.at = "recovering" /\ execs' = MovedTo(e, "waiting")
      /\ UNCHANGED <<run, main, chain, landed, cancelling, loading, disk, containers,
                     launches, unseen>>
  BY DEF Reattach, runVars, executeVars, cancelVars, startupVars, historyVars
<1>2. "waiting" \in Places /\ e.at # "closing" /\ e.r \in Runs
  BY <1>1, ExecType DEF Places, Inv
<1>3. /\ run' \in [Runs -> Snapshots]
      /\ \A r \in Runs : Ahead(run[r], run'[r]) /\ Sound(run'[r])
  BY <1>1, SameRun, Zenon
<1>4. Types'
  BY <1>1, <1>2, <1>3, MoveTypes, Zenon DEF Inv, Types
<1>5. MoveStep(e, "waiting")
  <2>1. DiskKept /\ LandedFollows
    BY <1>1, Zenon DEF DiskKept, LandedFollows
  <2>. QED BY <1>1, <1>2, <1>3, <2>1, Zenon DEF MoveStep, Follows
<1>6. RunsAdvance /\ SoundInv' /\ OrderInv' /\ LandedInv' /\ SavesPast'
  BY <1>2, <1>4, <1>5, MoveKeepsHistory, Zenon
<1>7. BusyInv' /\ UniqueInv' /\ LoadingInv' /\ SavingInv'
  <2>1. "waiting" # "mkdir" /\ "waiting" # "saving"
    OBVIOUS
  <2>. QED BY <1>2, <1>4, <1>5, <2>1, MoveKeepsExecs, Zenon
<1>8. LaunchInv'
  <2>1. "waiting" # "mkdir" /\ "waiting" # "saving"
    OBVIOUS
  <2>. QED BY <1>1, <1>2, <1>5, <2>1, MoveLaunches, Zenon
<1>9. ContainerInv'
  BY <1>1, <1>2, <1>4, <1>5, MoveContainers, Zenon DEF Inv, ContainerInv, ShowsRunning
<1>. QED BY <1>4, <1>6, <1>7, <1>8, <1>9, Zenon DEF Inv

LEMMA DirectoryMadeKeeps == ASSUME Inv, NEW e \in execs, DirectoryMade(e) PROVE Inv'
<1>1. /\ e.at = "mkdir" /\ execs' = MovedTo(e, "saving")
      /\ Persist(e.r, TaskCaller(e.t, e.a))
      /\ UNCHANGED <<run, main, landed, cancelling, loading, disk, containers,
                     launches, unseen>>
  BY DEF DirectoryMade, executeVars, cancelVars, startupVars, historyVars
<1>2. "saving" \in Places /\ e.at # "closing" /\ "saving" # "mkdir"
  BY <1>1 DEF Places
<1>3. e.r \in Runs /\ e.t \in Tasks /\ e.a \in Nat
  BY ExecType, Zenon DEF Inv
<1>4. /\ run' \in [Runs -> Snapshots]
      /\ \A r \in Runs : Ahead(run[r], run'[r]) /\ Sound(run'[r])
  BY <1>1, SameRun, Zenon
<1>5. /\ chain' \in [Runs -> Seq(Entries)] /\ landed' \in [Runs -> BOOLEAN]
      /\ chain'[e.r] = Append(chain[e.r], [who |-> TaskCaller(e.t, e.a), snap |-> run'[e.r]])
      /\ Follows(chain[e.r], chain'[e.r], TaskCaller(e.t, e.a), run'[e.r])
      /\ \A s \in Runs : s # e.r => chain'[s] = chain[s]
      /\ LandedFollows
  BY <1>1, <1>4, MovePersists, Zenon
<1>6. Types'
  BY <1>1, <1>2, <1>4, <1>5, MoveTypes, Zenon DEF Inv, Types
<1>7. MoveStep(e, "saving")
  BY <1>1, <1>2, <1>3, <1>4, <1>5, Zenon DEF MoveStep, DiskKept
<1>8. RunsAdvance /\ SoundInv' /\ OrderInv' /\ LandedInv' /\ SavesPast'
  BY <1>2, <1>6, <1>7, MoveKeepsHistory, Zenon
<1>9. SavesAttempt(chain'[e.r], e.t, e.a)
  <2>1. NotSaved(chain[e.r], e.t, e.a)
    BY <1>1, Zenon DEF Inv, SavingInv
  <2>2. SavesAttempt(chain[e.r], e.t, e.a)
    BY <2>1, Zenon DEF NotSaved, SavesAttempt
  <2>3. /\ TaskCaller(e.t, e.a) \in Callers /\ chain[e.r] \in Seq(Entries)
        /\ run'[e.r] \in Snapshots
    BY <1>3, <1>4, CallersType DEF Inv, Types
  <2>4. run'[e.r].task[e.t] = "running" /\ run'[e.r].attempt[e.t] = e.a
    BY <1>1, <1>2, Zenon DEF Inv, BusyInv
  <2>5. Follows(chain[e.r], chain'[e.r], TaskCaller(e.t, e.a), run'[e.r])
    BY <1>5
  <2>. QED BY <1>3, <2>2, <2>3, <2>4, <2>5, SavesFollow, Zenon
<1>10. BusyInv' /\ UniqueInv' /\ LoadingInv' /\ SavingInv'
  BY <1>2, <1>6, <1>7, <1>9, MoveKeepsExecs, Zenon
<1>11. LaunchInv'
  BY <1>1, <1>2, <1>7, MoveLaunches, Zenon
<1>12. ContainerInv'
  BY <1>1, <1>2, <1>6, <1>7, MoveContainers, Zenon DEF Inv, ContainerInv, ShowsRunning
<1>. QED BY <1>6, <1>8, <1>10, <1>11, <1>12, Zenon DEF Inv

(* What the disk and the chain show when the container of e is started.    *)
LEMMA AttemptSaved ==
  ASSUME Inv, NEW e \in execs, e.at = "saving", Persisted(e.r, TaskCaller(e.t, e.a))
  PROVE  /\ chain[e.r] # <<>> /\ disk[e.r].snap.task[e.t] = "running"
         /\ disk[e.r].snap.attempt[e.t] = e.a
         /\ \A k \in 1..Len(chain[e.r]) : chain[e.r][k].snap.task[e.t] = "running"
<1>1. /\ chain[e.r] # <<>> /\ landed[e.r] /\ Head(chain[e.r]).who = TaskCaller(e.t, e.a)
  BY DEF Persisted
<1>2. e.r \in Runs /\ e.t \in Tasks
  BY ExecType, Zenon DEF Inv
<1>3. disk[e.r].snap = Head(chain[e.r]).snap
  BY <1>1, <1>2, Zenon DEF Inv, LandedInv
<1>4. chain[e.r] \in Seq(Entries)
  BY <1>2 DEF Inv, Types
<1>5. Head(chain[e.r]) = chain[e.r][1] /\ 1 \in 1..Len(chain[e.r]) /\ 1 \in 1..Len(chain[e.r])
  BY <1>1, <1>4
<1>6. SavesAttempt(chain[e.r], e.t, e.a)
  BY Zenon DEF Inv, SavingInv
<1>7. \A j \in 1..Len(chain[e.r]) : /\ chain[e.r][j].snap.task[e.t] = "running"
                                    /\ chain[e.r][j].snap.attempt[e.t] = e.a
  BY <1>1, <1>5, <1>6, Zenon DEF SavesAttempt
<1>. QED BY <1>1, <1>3, <1>5, <1>7, Zenon

LEMMA LaunchContainerKeeps == ASSUME Inv, NEW e \in execs, LaunchContainer(e) PROVE Inv'
<1>1. /\ e.at = "saving" /\ execs' = MovedTo(e, "running")
      /\ Persisted(e.r, TaskCaller(e.t, e.a)) /\ Pop(e.r)
      /\ containers' = [containers EXCEPT ![e.r][e.t] =
                          IF containers[e.r][e.t] = "none" THEN "running" ELSE "none"]
      /\ launches' = [launches EXCEPT ![e.r][e.t] =
                        IF containers[e.r][e.t] = "none" THEN launches[e.r][e.t] + 1
                        ELSE launches[e.r][e.t]]
      /\ UNCHANGED <<run, main, cancelling, loading, disk, unseen>>
  BY DEF LaunchContainer, Container, runVars, executeVars, cancelVars, startupVars
<1>2. "running" \in Places /\ e.at # "closing" /\ "running" # "mkdir" /\ "running" # "saving"
  BY <1>1 DEF Places
<1>3. e.r \in Runs /\ e.t \in Tasks /\ e.a \in Nat
  BY ExecType, Zenon DEF Inv
<1>4. /\ run' \in [Runs -> Snapshots]
      /\ \A r \in Runs : Ahead(run[r], run'[r]) /\ Sound(run'[r])
  BY <1>1, SameRun, Zenon
<1>5. RunCalm
  BY <1>1, RunKept, Zenon
<1>6. ChainCalm /\ \A s \in Runs : s # e.r => chain'[s] = chain[s]
  BY <1>1, <1>3, <1>5, ChainPops, Zenon
<1>7. /\ chain[e.r] \in Seq(Entries) /\ chain[e.r] # <<>>
      /\ chain'[e.r] = Tail(chain[e.r])
  BY <1>1, <1>3 DEF Inv, Types, Persisted, Pop
<1>8. /\ containers \in [Runs -> [Tasks -> {"none", "running", "ok", "bad"}]]
      /\ launches \in [Runs -> [Tasks -> Nat]]
  BY Zenon DEF Inv, Types
<1>9. /\ containers' \in [Runs -> [Tasks -> {"none", "running", "ok", "bad"}]]
      /\ \A r \in Runs, t \in Tasks : (r # e.r \/ t # e.t) =>
           containers'[r][t] = containers[r][t]
  BY <1>1, <1>3, <1>8
<1>10. /\ launches' \in [Runs -> [Tasks -> Nat]]
       /\ launches'[e.r][e.t] <= launches[e.r][e.t] + 1
       /\ \A r \in Runs, t \in Tasks : (r # e.r \/ t # e.t) =>
            launches'[r][t] = launches[r][t]
  BY <1>1, <1>3, <1>8
<1>11. Types'
  BY <1>1, <1>2, <1>4, <1>6, <1>9, <1>10, MoveTypes, Zenon DEF ChainCalm
<1>12. MoveStep(e, "running")
  BY <1>1, <1>2, <1>3, <1>4, <1>6, <1>7, Zenon DEF MoveStep, DiskKept, Follows, ChainCalm
<1>13. RunsAdvance /\ SoundInv' /\ OrderInv' /\ LandedInv' /\ SavesPast'
  BY <1>2, <1>11, <1>12, MoveKeepsHistory, Zenon
<1>14. BusyInv' /\ UniqueInv' /\ LoadingInv' /\ SavingInv'
  BY <1>2, <1>11, <1>12, MoveKeepsExecs, Zenon
<1>15. /\ disk[e.r].snap.task[e.t] = "running" /\ disk[e.r].snap.attempt[e.t] = e.a
       /\ \A k \in 1..Len(chain[e.r]) : chain[e.r][k].snap.task[e.t] = "running"
  BY <1>1, AttemptSaved, Zenon
<1>16. LaunchInv'
  <2>1. launches[e.r][e.t] < e.a /\ launches[e.r][e.t] \in Nat
    BY <1>1, <1>3, <1>8 DEF Inv, LaunchInv
  <2>2. launches'[e.r][e.t] <= disk[e.r].snap.attempt[e.t]
    <3>1. launches'[e.r][e.t] \in Nat
      BY <1>3, <1>10
    <3>. QED BY <1>3, <1>10, <1>15, <2>1, <3>1
  <2>3. \A r \in Runs, t \in Tasks : launches'[r][t] <= disk'[r].snap.attempt[t]
    BY <1>1, <1>10, <2>2, Zenon DEF Inv, LaunchInv
  <2>4. ASSUME NEW f \in execs', f.at \in {"mkdir", "saving"}
        PROVE  launches'[f.r][f.t] < f.a
    <3>1. f \in execs /\ f # e
      BY <1>1, <1>2, <2>4, MovedFacts, Zenon DEF Inv
    <3>2. f.r # e.r \/ f.t # e.t
      BY <1>2, <2>4, <3>1, OtherTask
    <3>3. f.r \in Runs /\ f.t \in Tasks
      BY <3>1, ExecType, Zenon DEF Inv
    <3>4. launches[f.r][f.t] < f.a
      BY <2>4, <3>1, Zenon DEF Inv, LaunchInv
    <3>. QED BY <1>10, <3>2, <3>3, <3>4
  <2>. QED BY <2>3, <2>4, Zenon DEF LaunchInv
<1>17. ContainerInv'
  <2>1. SUFFICES ASSUME NEW r \in Runs, NEW t \in Tasks,
                        containers'[r][t] # "none", <<r, t>> \notin unseen'
                 PROVE  ShowsRunning(disk'[r].snap, chain'[r], run'[r], t)
    BY Zenon DEF ContainerInv
  <2>2. ShowsRunning(disk[r].snap, chain[r], run[r], t)
    <3>1. CASE r # e.r \/ t # e.t
      BY <1>1, <1>9, <2>1, <3>1, Zenon DEF Inv, ContainerInv
    <3>2. CASE r = e.r /\ t = e.t
      <4>1. run[r].task[t] = "running"
        BY <1>2, <3>2, Zenon DEF Inv, BusyInv
      <4>. QED BY <1>15, <3>2, <4>1, Zenon DEF ShowsRunning
    <3>. QED BY <3>1, <3>2
  <2>3. TaskCaller(e.t, e.a) \in Callers
    BY <1>3, CallersType
  <2>4. chain[r] \in Seq(Entries) /\ run'[r] \in Snapshots
    BY <1>4, <2>1 DEF Inv, Types
  <2>5. Follows(chain[r], chain'[r], TaskCaller(e.t, e.a), run'[r])
    BY <1>12, <2>1, Zenon DEF MoveStep, Follows
  <2>6. run'[r].task[t] = "running"
    BY <1>1, <2>2, Zenon DEF ShowsRunning
  <2>7. ShowsRunning(disk[r].snap, chain'[r], run'[r], t)
    BY <2>1, <2>2, <2>3, <2>4, <2>5, <2>6, ShowsFollow
  <2>. QED BY <1>1, <2>7
<1>. QED BY <1>11, <1>13, <1>14, <1>16, <1>17, Zenon DEF Inv

(* A running task ends with the status v.                                  *)
LEMMA TaskEnded ==
  ASSUME NEW x \in Snapshots, NEW t \in Tasks, x.task[t] = "running",
         NEW v \in TaskStatuses, v # "running",
         v = "pending" => x.attempt[t] <= Retries[t],
         NEW y, y = [x EXCEPT !.task[t] = v]
  PROVE  /\ y \in Snapshots /\ y.attempt = x.attempt
         /\ \A u \in Tasks : u # t => y.task[u] = x.task[u]
         /\ Ahead(x, y) /\ (Sound(x) => Sound(y))
<1>1. y \in Snapshots /\ y.attempt = x.attempt /\ y.task = [x.task EXCEPT ![t] = v]
  BY DEF Snapshots
<1>2. /\ y.task[t] = v
      /\ \A u \in Tasks : u # t => y.task[u] = x.task[u]
  BY <1>1 DEF Snapshots
<1>3. Ahead(x, y)
  BY <1>1, <1>2 DEF Ahead, Snapshots
<1>4. ASSUME Sound(x) PROVE Sound(y)
  <2>1. InBudget(y)
    BY <1>1, <1>2, <1>4 DEF Sound, InBudget
  <2>2. InDependencyOrder(y)
    <3>1. SUFFICES ASSUME NEW u \in Tasks, y.task[u] \in {"running", "succeeded"},
                          NEW d \in DependsOn[u]
                   PROVE  y.task[d] = "succeeded"
      BY Zenon DEF InDependencyOrder
    <3>2. d \in Tasks /\ x.task[u] \in {"running", "succeeded"}
      BY <1>2, <3>1, TaskAssumption
    <3>3. x.task[d] = "succeeded"
      BY <1>4, <3>2, Zenon DEF Sound, InDependencyOrder
    <3>4. d # t
      BY <3>3
    <3>. QED BY <1>2, <3>2, <3>3, <3>4
  <2>. QED BY <2>1, <2>2 DEF Sound
<1>. QED BY <1>1, <1>2, <1>3, <1>4

(* The last step of an attempt: its task ends and the run is persisted.    *)
LEMMA EndKeeps ==
  ASSUME Inv, NEW e \in execs, e.at # "closing",
         NEW v \in TaskStatuses, v # "running",
         v = "pending" => run[e.r].attempt[e.t] <= Retries[e.t],
         run' = [run EXCEPT ![e.r].task[e.t] = v],
         execs' = MovedTo(e, "closing"), Persist(e.r, TaskCaller(e.t, e.a)),
         containers' \in [Runs -> [Tasks -> {"none", "running", "ok", "bad"}]],
         \A r \in Runs, t \in Tasks :
           containers'[r][t] # "none" /\ <<r, t>> \notin unseen' =>
             /\ containers[r][t] # "none" /\ <<r, t>> \notin unseen
             /\ r # e.r \/ t # e.t,
         UNCHANGED <<main, landed, cancelling, loading, disk, launches>>
  PROVE  Inv'
<1> DEFINE y == [run[e.r] EXCEPT !.task[e.t] = v]
<1>1. /\ e.r \in Runs /\ e.t \in Tasks /\ e.a \in Nat
      /\ run[e.r].task[e.t] = "running"
  BY ExecType, Zenon DEF Inv, BusyInv
<1>2. "closing" \in Places /\ "closing" # "mkdir" /\ "closing" # "saving"
  BY DEF Places
<1>3. run \in [Runs -> Snapshots] /\ run[e.r] \in Snapshots
  BY <1>1 DEF Inv, Types
<1>4. run' = [run EXCEPT ![e.r] = y]
  OBVIOUS
<1>5. /\ y \in Snapshots /\ y.attempt = run[e.r].attempt
      /\ \A u \in Tasks : u # e.t => y.task[u] = run[e.r].task[u]
      /\ Ahead(run[e.r], y) /\ Sound(y)
  <2>1. Sound(run[e.r])
    BY <1>1, Zenon DEF Inv, SoundInv, AllSound
  <2>2. y = [run[e.r] EXCEPT !.task[e.t] = v]
    OBVIOUS
  <2> HIDE DEF y
  <2>. QED BY <1>1, <1>3, <2>1, <2>2, TaskEnded
<1> HIDE DEF y
<1>6. /\ run' \in [Runs -> Snapshots] /\ run'[e.r] = y
      /\ \A s \in Runs : s # e.r => run'[s] = run[s]
  BY <1>1, <1>3, <1>4, <1>5
<1>7. /\ chain' \in [Runs -> Seq(Entries)] /\ landed' \in [Runs -> BOOLEAN]
      /\ Follows(chain[e.r], chain'[e.r], TaskCaller(e.t, e.a), run'[e.r])
      /\ \A s \in Runs : s # e.r => chain'[s] = chain[s]
      /\ LandedFollows
  BY <1>6, MovePersists, Zenon
<1>8. Types'
  <2>1. launches' \in [Runs -> [Tasks -> Nat]]
    BY Zenon DEF Inv, Types
  <2>. QED BY <1>2, <1>6, <1>7, <2>1, MoveTypes, Zenon
<1>9. MoveStep(e, "closing")
  <2>1. \A t \in Tasks : t # e.t /\ run[e.r].task[t] = "running" =>
          run'[e.r].task[t] = "running" /\ run'[e.r].attempt[t] = run[e.r].attempt[t]
    BY <1>5, <1>6, Zenon
  <2>2. Ahead(run[e.r], run'[e.r]) /\ Sound(run'[e.r])
    BY <1>5, <1>6, Zenon
  <2>. QED BY <1>6, <1>7, <2>1, <2>2, Zenon DEF MoveStep, DiskKept
<1>10. RunsAdvance /\ SoundInv' /\ OrderInv' /\ LandedInv' /\ SavesPast'
  BY <1>2, <1>8, <1>9, MoveKeepsHistory, Zenon
<1>11. BusyInv' /\ UniqueInv' /\ LoadingInv' /\ SavingInv'
  BY <1>2, <1>8, <1>9, MoveKeepsExecs, Zenon
<1>12. LaunchInv'
  BY <1>2, <1>9, MoveLaunches, Zenon
<1>13. ContainerInv'
  <2>1. ASSUME NEW r \in Runs, NEW t \in Tasks,
               containers'[r][t] # "none", <<r, t>> \notin unseen'
        PROVE  /\ containers[r][t] # "none" /\ <<r, t>> \notin unseen
               /\ run'[r].task[t] = "running"
    <3>1. /\ containers[r][t] # "none" /\ <<r, t>> \notin unseen
          /\ r # e.r \/ t # e.t
      BY <2>1, Zenon
    <3>2. run[r].task[t] = "running"
      BY <2>1, <3>1, Zenon DEF Inv, ContainerInv, ShowsRunning
    <3>. QED BY <1>5, <1>6, <2>1, <3>1, <3>2, Zenon
  <2>. QED BY <1>2, <1>8, <1>9, <2>1, MoveContainers, Zenon
<1>. QED BY <1>8, <1>10, <1>11, <1>12, <1>13, Zenon DEF Inv

LEMMA RetryStatusFacts ==
  ASSUME NEW e
  PROVE  /\ RetryStatus(e) \in TaskStatuses /\ RetryStatus(e) # "running"
         /\ RetryStatus(e) = "pending" => run[e.r].attempt[e.t] <= Retries[e.t]
BY DEF RetryStatus, TaskStatuses

LEMMA WorkerReturnsKeeps == ASSUME Inv, NEW e \in execs, WorkerReturns(e) PROVE Inv'
<1>1. /\ e.at \in {"running", "waiting"} /\ execs' = MovedTo(e, "closing")
      /\ containers' = [containers EXCEPT ![e.r][e.t] = "none"]
      /\ Persist(e.r, TaskCaller(e.t, e.a))
      /\ UNCHANGED <<main, landed, cancelling, loading, disk, launches, unseen>>
  BY DEF WorkerReturns, executeVars, cancelVars, startupVars, historyVars
<1>2. \E ok \in {FALSE, Container(e) = "ok"} :
        run' = [run EXCEPT ![e.r].task[e.t] =
                  IF run[e.r].cancel THEN "cancelled"
                  ELSE IF ok THEN "succeeded" ELSE RetryStatus(e)]
  BY Zenon DEF WorkerReturns
<1>3. PICK v \in {"cancelled", "succeeded", RetryStatus(e)} :
        run' = [run EXCEPT ![e.r].task[e.t] = v]
  <2>1. PICK ok \in {FALSE, Container(e) = "ok"} :
          run' = [run EXCEPT ![e.r].task[e.t] =
                    IF run[e.r].cancel THEN "cancelled"
                    ELSE IF ok THEN "succeeded" ELSE RetryStatus(e)]
    BY <1>2
  <2>2. CASE run[e.r].cancel
    BY <2>1, <2>2
  <2>3. CASE ~run[e.r].cancel /\ ok
    BY <2>1, <2>3
  <2>4. CASE ~run[e.r].cancel /\ ~ok
    BY <2>1, <2>4
  <2>. QED BY <2>2, <2>3, <2>4
<1>4. /\ v \in TaskStatuses /\ v # "running"
      /\ v = "pending" => run[e.r].attempt[e.t] <= Retries[e.t]
  BY <1>3, RetryStatusFacts DEF TaskStatuses
<1>5. e.r \in Runs /\ e.t \in Tasks
  BY ExecType, Zenon DEF Inv
<1>6. containers \in [Runs -> [Tasks -> {"none", "running", "ok", "bad"}]]
  BY Zenon DEF Inv, Types
<1>7. containers' \in [Runs -> [Tasks -> {"none", "running", "ok", "bad"}]]
  BY <1>1, <1>5, <1>6
<1>8. \A r \in Runs, t \in Tasks :
        containers'[r][t] # "none" =>
          containers[r][t] # "none" /\ (r # e.r \/ t # e.t)
  BY <1>1, <1>5, <1>6
<1>9. e.at # "closing"
  BY <1>1
<1>. QED BY <1>1, <1>3, <1>4, <1>7, <1>8, <1>9, EndKeeps, Zenon

LEMMA WorkerLostKeeps == ASSUME Inv, NEW e \in execs, WorkerLost(e) PROVE Inv'
<1>1. /\ e.at = "recovering" /\ execs' = MovedTo(e, "closing")
      /\ run' = [run EXCEPT ![e.r].task[e.t] = RetryStatus(e)]
      /\ unseen' = IF containers[e.r][e.t] = "none" THEN unseen
                   ELSE unseen \cup {<<e.r, e.t>>}
      /\ Persist(e.r, TaskCaller(e.t, e.a))
      /\ UNCHANGED <<main, landed, cancelling, loading, disk, launches, containers>>
  BY DEF WorkerLost, Container, executeVars, cancelVars, startupVars
<1>2. /\ RetryStatus(e) \in TaskStatuses /\ RetryStatus(e) # "running"
      /\ RetryStatus(e) = "pending" => run[e.r].attempt[e.t] <= Retries[e.t]
  BY RetryStatusFacts
<1>3. containers' \in [Runs -> [Tasks -> {"none", "running", "ok", "bad"}]]
  BY <1>1, Zenon DEF Inv, Types
<1>4. \A r \in Runs, t \in Tasks :
        containers'[r][t] # "none" /\ <<r, t>> \notin unseen' =>
          /\ containers[r][t] # "none" /\ <<r, t>> \notin unseen
          /\ r # e.r \/ t # e.t
  BY <1>1
<1>5. e.at # "closing"
  BY <1>1
<1>. QED BY <1>1, <1>2, <1>3, <1>4, <1>5, EndKeeps, Zenon

Assigned(x, t, i) ==
  [x EXCEPT !.task[t] = "running", !.attempt[t] = x.attempt[t] + 1, !.where[t] = i]

LEMMA AssignGoes ==
  ASSUME NEW x \in Snapshots, NEW t \in Tasks, x.task[t] = "pending",
         \A d \in DependsOn[t] : x.task[d] = "succeeded",
         NEW i \in Nat
  PROVE  /\ Assigned(x, t, i) \in Snapshots /\ Goes(x, Assigned(x, t, i))
         /\ Assigned(x, t, i).task[t] = "running"
         /\ Assigned(x, t, i).attempt[t] = x.attempt[t] + 1
<1> DEFINE y == Assigned(x, t, i)
<1>1. x.attempt[t] + 1 \in Nat
  BY DEF Snapshots
<1>2. /\ y \in Snapshots /\ y.task = [x.task EXCEPT ![t] = "running"]
      /\ y.attempt = [x.attempt EXCEPT ![t] = x.attempt[t] + 1]
  BY <1>1 DEF Assigned, Snapshots, TaskStatuses
<1> HIDE DEF y
<1>3. /\ y.task[t] = "running" /\ y.attempt[t] = x.attempt[t] + 1
      /\ \A u \in Tasks : u # t => y.task[u] = x.task[u] /\ y.attempt[u] = x.attempt[u]
  BY <1>2 DEF Snapshots
<1>4. Ahead(x, y)
  BY <1>3 DEF Ahead, Snapshots
<1>5. ASSUME Sound(x) PROVE Sound(y)
  <2>1. InBudget(y)
    <3>1. SUFFICES ASSUME NEW u \in Tasks
                   PROVE  /\ y.attempt[u] <= Retries[u] + 1
                          /\ y.task[u] = "pending" => y.attempt[u] <= Retries[u]
      BY Zenon DEF InBudget
    <3>2. /\ x.attempt[u] <= Retries[u] + 1
          /\ x.task[u] = "pending" => x.attempt[u] <= Retries[u]
      BY <1>5, Zenon DEF Sound, InBudget
    <3>3. x.attempt[u] \in Nat /\ Retries[u] \in Nat
      BY TaskAssumption DEF Snapshots
    <3>4. CASE u = t
      BY <1>3, <3>2, <3>3, <3>4
    <3>5. CASE u # t
      BY <1>3, <3>2, <3>5
    <3>. QED BY <3>4, <3>5
  <2>2. InDependencyOrder(y)
    <3>1. SUFFICES ASSUME NEW u \in Tasks, y.task[u] \in {"running", "succeeded"},
                          NEW d \in DependsOn[u]
                   PROVE  y.task[d] = "succeeded"
      BY Zenon DEF InDependencyOrder
    <3>2. d \in Tasks
      BY TaskAssumption
    <3>3. x.task[d] = "succeeded"
      <4>1. CASE u = t
        BY <4>1
      <4>2. CASE u # t
        <5>1. x.task[u] \in {"running", "succeeded"}
          BY <1>3, <3>1, <4>2
        <5>. QED BY <1>5, <5>1, Zenon DEF Sound, InDependencyOrder
      <4>. QED BY <4>1, <4>2
    <3>4. d # t
      BY <3>3
    <3>. QED BY <1>3, <3>2, <3>3, <3>4
  <2>. QED BY <2>1, <2>2 DEF Sound
<1>6. \A u \in Tasks : x.task[u] = "running" =>
        y.task[u] = "running" /\ y.attempt[u] = x.attempt[u]
  BY <1>3
<1>7. Goes(x, y)
  BY <1>4, <1>5, <1>6 DEF Goes
<1>. QED BY <1>2, <1>3, <1>7 DEF y

LEMMA AssignKeeps ==
  ASSUME Inv, NEW r \in Runs, NEW t \in Tasks, NEW i \in Instances, Assign(r, t, i)
  PROVE  Inv'
<1> DEFINE y == Assigned(run[r], t, i)
           e == [r |-> r, t |-> t, a |-> run[r].attempt[t] + 1, at |-> "mkdir"]
<1>1. /\ main[r] = "dispatch" /\ run' = [run EXCEPT ![r] = y]
      /\ execs' = execs \cup {e}
      /\ UNCHANGED <<main, chain, landed, cancelling, loading, disk, containers,
                     launches, unseen>>
  BY DEF Assign, Assigned, cancelVars, startupVars, historyVars
<1>2. run[r].task[t] = "pending" /\ \A d \in DependsOn[t] : run[r].task[d] = "succeeded"
  BY Zenon DEF Assign, Assignable, Ready
<1>3. run[r] \in Snapshots /\ run[r].attempt[t] \in Nat
  BY DEF Inv, Types, Snapshots
<1>4. i \in Nat
  BY SizeAssumption DEF Instances
<1>5. e \in Execs /\ e.r = r /\ e.t = t /\ e.a = run[r].attempt[t] + 1 /\ e.at = "mkdir"
  BY <1>3 DEF Execs, Places
<1>6. /\ y \in Snapshots /\ Goes(run[r], y)
      /\ y.task[t] = "running" /\ y.attempt[t] = run[r].attempt[t] + 1
  BY <1>2, <1>3, <1>4, AssignGoes, Zenon
<1> HIDE DEF y, e
<1>7. RunCalm
  BY <1>1, <1>6, RunGoes, Zenon
<1>8. run'[r] = y
  BY <1>1 DEF Inv, Types
<1>9. ChainCalm
  BY <1>1, <1>7, ChainKept, Zenon
<1>10. Types'
  <2>1. execs' \in SUBSET Execs
    BY <1>1, <1>5 DEF Inv, Types
  <2>. QED BY <1>1, <1>7, <1>9, <2>1, Zenon DEF Inv, Types, RunCalm, ChainCalm
<1>11. CalmHistory
  BY <1>1, <1>7, <1>9, Zenon DEF CalmHistory, RunCalm, ChainCalm, DiskKept
<1>12. /\ RunsAdvance /\ SoundInv' /\ OrderInv' /\ LandedInv' /\ SavesPast' /\ ContainerInv'
  BY <1>10, <1>11, CalmKeepsHistory, Zenon
<1>13. NotSaved(chain[r], t, e.a)
  <2>1. SUFFICES ASSUME NEW k \in 1..Len(chain[r]), chain[r][k].who = TaskCaller(t, e.a)
                 PROVE  FALSE
    BY Zenon DEF NotSaved
  <2>2. PastCalls(chain[r], run[r])
    BY Zenon DEF Inv, SavesPast
  <2>3. e.a \in Nat
    BY <1>3, <1>5
  <2>4. /\ chain[r][k].who.role = "task" /\ chain[r][k].who.t = t
        /\ chain[r][k].who.a = e.a
    BY <2>1, <2>3, CallersType
  <2>5. e.a <= run[r].attempt[t]
    BY <2>1, <2>2, <2>4, Zenon DEF PastCalls
  <2>. QED BY <1>3, <1>5, <2>5
<1>14. launches[r][t] < e.a
  <2>1. /\ launches[r][t] <= disk[r].snap.attempt[t]
        /\ disk[r].snap.attempt[t] <= run[r].attempt[t]
    BY Zenon DEF Inv, LaunchInv, OrderInv, InOrder, Ahead
  <2>2. launches[r][t] \in Nat /\ disk[r].snap.attempt[t] \in Nat
    BY DEF Inv, Types, Snapshots
  <2>. QED BY <1>3, <1>5, <2>1, <2>2
<1>15. \A f \in execs : ~(f.r = r /\ f.t = t /\ f.a = e.a)
  BY <1>3, <1>5 DEF Inv, BusyInv
<1>16. r \notin loading
  BY <1>1, NotLoading
<1>17. BusyInv' /\ UniqueInv' /\ LoadingInv' /\ SavingInv' /\ LaunchInv'
  <2> DEFINE N == {e}
  <2>1. ASSUME NEW f \in N
        PROVE  /\ f.at \in {"mkdir", "recovering"} /\ f.a \in Nat
               /\ run'[f.r].task[f.t] = "running" /\ run'[f.r].attempt[f.t] = f.a
               /\ f.at = "mkdir" => NotSaved(chain'[f.r], f.t, f.a) /\ launches[f.r][f.t] < f.a
               /\ f.r \notin loading'
               /\ \A d \in execs : ~(d.r = f.r /\ d.t = f.t /\ d.a = f.a)
               /\ \A g \in N : f.r = g.r /\ f.t = g.t /\ f.a = g.a => f = g
    <3>1. f = e /\ f.r = r /\ f.t = t /\ f.at = "mkdir" /\ f.a \in Nat
      BY <1>3, <1>5, <2>1
    <3>2. run'[r].task[t] = "running" /\ run'[r].attempt[t] = e.a
      BY <1>5, <1>6, <1>8
    <3>3. NotSaved(chain'[r], t, e.a) /\ r \notin loading'
      BY <1>1, <1>13, <1>16, Zenon
    <3>4. \A g \in N : f = g
      BY <3>1
    <3>. QED BY <1>14, <1>15, <3>1, <3>2, <3>3, <3>4, Zenon
  <2>2. execs' = execs \cup N
    BY <1>1
  <2>3. /\ loading' \subseteq loading
        /\ \A s \in loading' : /\ main'[s] = main[s] /\ cancelling'[s] = cancelling[s]
                               /\ chain'[s] = chain[s]
    BY <1>1, Zenon
  <2> HIDE DEF N
  <2>. QED BY <1>10, <1>11, <2>1, <2>2, <2>3, NewExecs, Zenon
<1>. QED BY <1>10, <1>12, <1>17, Zenon DEF Inv

LEMMA LoadKeeps == ASSUME Inv, NEW r \in Runs, Load(r) PROVE Inv'
<1> DEFINE N == IF run[r].status \in Terminal THEN {}
                ELSE {[r |-> r, t |-> t, a |-> run[r].attempt[t], at |-> "recovering"] :
                        t \in Recovered(r)}
<1>1. /\ r \in loading /\ loading' = loading \ {r}
      /\ UNCHANGED <<landed, cancelling, disk, containers, launches, unseen>>
  BY DEF Load, cancelVars, historyVars
<1>2. /\ execs' = execs \cup N
      /\ RunCalm /\ ChainCalm
      /\ \A s \in Runs : s # r => chain'[s] = chain[s] /\ main'[s] = main[s]
      /\ main' \in [Runs -> MainPlaces]
      /\ run'[r].task = run[r].task /\ run'[r].attempt = run[r].attempt
  <2>1. CASE run[r].status \in Terminal
    <3>1. UNCHANGED <<run, main, chain, execs>>
      BY <2>1 DEF Load, runVars
    <3>2. RunCalm
      BY <3>1, RunKept, Zenon
    <3>3. ChainCalm
      BY <1>1, <3>1, <3>2, ChainKept, Zenon
    <3>4. execs' = execs \cup N
      BY <2>1, <3>1
    <3> HIDE DEF N
    <3>. QED BY <3>1, <3>2, <3>3, <3>4, Zenon DEF Inv, Types
  <2>2. CASE run[r].status \notin Terminal
    <3> DEFINE y == [run[r] EXCEPT !.status = "running"]
    <3>1. /\ run' = [run EXCEPT ![r] = y]
          /\ execs' = execs \cup N
          /\ main' = [main EXCEPT ![r] = "started"]
          /\ PersistAfter(chain[r], r, Caller("main"))
      BY <2>2 DEF Load, Persist
    <3>2. run[r] \in Snapshots /\ run \in [Runs -> Snapshots]
      BY DEF Inv, Types
    <3>3. y \in Snapshots /\ Goes(run[r], y)
      BY <3>2, StatusGoes DEF Statuses
    <3>4. y.task = run[r].task /\ y.attempt = run[r].attempt
      BY <3>2 DEF Snapshots
    <3> HIDE DEF y, N
    <3>5. RunCalm
      BY <3>1, <3>3, RunGoes, Zenon
    <3>6. ChainCalm /\ \A s \in Runs : s # r => chain'[s] = chain[s]
      BY <1>1, <3>1, <3>5, ChainPersists
    <3>7. main' \in [Runs -> MainPlaces] /\ \A s \in Runs : s # r => main'[s] = main[s]
      BY <3>1, MainAt DEF MainPlaces
    <3>8. run'[r] = y
      BY <3>1, <3>2
    <3>. QED BY <3>1, <3>4, <3>5, <3>6, <3>7, <3>8, Zenon
  <2>. QED BY <2>1, <2>2
<1>3. ASSUME NEW f \in N
      PROVE  /\ f \in Execs /\ f.at = "recovering" /\ f.r = r /\ f.t \in Tasks
             /\ f.a = run[r].attempt[f.t] /\ f.a \in Nat
             /\ run[r].task[f.t] = "running"
             /\ f = [r |-> r, t |-> f.t, a |-> run[r].attempt[f.t], at |-> "recovering"]
  <2>1. PICK t \in Recovered(r) :
          f = [r |-> r, t |-> t, a |-> run[r].attempt[t], at |-> "recovering"]
    BY <1>3
  <2>2. t \in Tasks /\ run[r].task[t] = "running"
    BY DEF Recovered, Running
  <2>3. run[r].attempt[t] \in Nat
    BY <2>2 DEF Inv, Types, Snapshots
  <2>. QED BY <2>1, <2>2, <2>3 DEF Execs, Places
<1> HIDE DEF N
<1>4. Types'
  <2>1. execs' \in SUBSET Execs
    BY <1>2, <1>3 DEF Inv, Types
  <2>2. loading' \in SUBSET Runs
    BY <1>1 DEF Inv, Types
  <2>. QED BY <1>1, <1>2, <2>1, <2>2, Zenon DEF Inv, Types, RunCalm, ChainCalm
<1>5. CalmHistory
  BY <1>1, <1>2, Zenon DEF CalmHistory, RunCalm, ChainCalm, DiskKept
<1>6. /\ RunsAdvance /\ SoundInv' /\ OrderInv' /\ LandedInv' /\ SavesPast' /\ ContainerInv'
  BY <1>4, <1>5, CalmKeepsHistory, Zenon
<1>7. BusyInv' /\ UniqueInv' /\ LoadingInv' /\ SavingInv' /\ LaunchInv'
  <2>1. ASSUME NEW f \in N
        PROVE  /\ f.at \in {"mkdir", "recovering"} /\ f.a \in Nat
               /\ run'[f.r].task[f.t] = "running" /\ run'[f.r].attempt[f.t] = f.a
               /\ f.at = "mkdir" => NotSaved(chain'[f.r], f.t, f.a) /\ launches[f.r][f.t] < f.a
               /\ f.r \notin loading'
               /\ \A d \in execs : ~(d.r = f.r /\ d.t = f.t /\ d.a = f.a)
               /\ \A g \in N : f.r = g.r /\ f.t = g.t /\ f.a = g.a => f = g
    <3>1. /\ f.at = "recovering" /\ f.r = r /\ f.a \in Nat
          /\ run'[f.r].task[f.t] = "running" /\ run'[f.r].attempt[f.t] = f.a
      BY <1>2, <1>3, Zenon
    <3>2. f.r \notin loading'
      BY <1>1, <3>1
    <3>3. \A d \in execs : d.r # r
      BY <1>1, Zenon DEF Inv, LoadingInv
    <3>4. \A g \in N : f.t = g.t => f = g
      BY <1>3, Zenon
    <3>5. f.at # "mkdir" /\ f.at \in {"mkdir", "recovering"}
      BY <3>1
    <3>. QED BY <3>1, <3>2, <3>3, <3>4, <3>5, Zenon
  <2>2. /\ loading' \subseteq loading
        /\ \A s \in loading' : s \in Runs /\ s # r
    BY <1>1 DEF Inv, Types
  <2>3. \A s \in loading' : /\ main'[s] = main[s] /\ cancelling'[s] = cancelling[s]
                            /\ chain'[s] = chain[s]
    BY <1>1, <1>2, <2>2, Zenon
  <2>4. execs' = execs \cup N
    BY <1>2
  <2>. QED BY <1>4, <1>5, <2>1, <2>2, <2>3, <2>4, NewExecs, Zenon
<1>. QED BY <1>4, <1>6, <1>7, Zenon DEF Inv

(***************************************************************************)
(* The write of a snapshot, and a crash.                                   *)
(***************************************************************************)
LEMMA WriteKeeps == ASSUME Inv, NEW r \in Runs, Write(r) PROVE Inv'
<1> DEFINE h == chain[r][1].snap
<1>1. /\ chain[r] # <<>>
      /\ disk' = [disk EXCEPT ![r] = [snap |-> Head(chain[r]).snap, agents |-> agents[r]]]
      /\ landed' = [landed EXCEPT ![r] = TRUE]
      /\ UNCHANGED <<run, main, chain, execs, cancelling, loading, containers,
                     launches, unseen>>
  BY DEF Write, runVars, executeVars, cancelVars, startupVars, historyVars
<1>2. chain[r] \in Seq(Entries)
  BY DEF Inv, Types
<1>3. Head(chain[r]) = chain[r][1] /\ 1 \in 1..Len(chain[r])
  BY <1>1, <1>2
<1>4. h \in Snapshots
  BY <1>2, <1>3, EntryType, Zenon
<1>5. /\ DOMAIN disk' = Runs /\ disk'[r].snap = h
      /\ \A s \in Runs : s # r => disk'[s] = disk[s]
  BY <1>1, <1>3 DEF Inv, Types
<1> HIDE DEF h
<1>6. Types'
  <2>1. landed' \in [Runs -> BOOLEAN]
    BY <1>1 DEF Inv, Types
  <2>2. \A s \in Runs : disk'[s].snap \in Snapshots
    BY <1>4, <1>5, Zenon DEF Inv, Types
  <2>. QED BY <1>1, <1>5, <2>1, <2>2, Zenon DEF Inv, Types
<1>7. AllSound(h, chain[r], run[r])
  BY <1>3, Zenon DEF Inv, SoundInv, AllSound, h
<1>8. SoundInv'
  BY <1>1, <1>5, <1>7, Zenon DEF Inv, SoundInv
<1>9. InOrder(h, chain[r], run[r]) /\ Ahead(disk[r].snap, h)
  BY <1>3, Zenon DEF Inv, OrderInv, InOrder, h
<1>10. OrderInv'
  BY <1>1, <1>5, <1>9, Zenon DEF Inv, OrderInv
<1>11. LandedInv'
  <2>1. ASSUME NEW s \in Runs, landed'[s]
        PROVE  chain[s] # <<>> /\ disk'[s].snap = Head(chain[s]).snap
    <3>1. CASE s = r
      BY <1>1, <1>3, <1>5, <3>1 DEF h
    <3>2. CASE s # r
      <4>1. landed[s]
        BY <1>1, <2>1, <3>2 DEF Inv, Types
      <4>. QED BY <1>5, <3>2, <4>1, Zenon DEF Inv, LandedInv
    <3>. QED BY <3>1, <3>2
  <2>. QED BY <1>1, <2>1, Zenon DEF LandedInv
<1>12. BusyInv' /\ UniqueInv' /\ LoadingInv' /\ SavingInv' /\ SavesPast'
  BY <1>1, Zenon DEF Inv, BusyInv, UniqueInv, LoadingInv, SavingInv, SavesPast
<1>13. LaunchInv'
  <2>1. ASSUME NEW s \in Runs, NEW t \in Tasks
        PROVE  launches[s][t] <= disk'[s].snap.attempt[t]
    <3>1. launches[s][t] <= disk[s].snap.attempt[t]
      BY Zenon DEF Inv, LaunchInv
    <3>2. CASE s = r
      <4>1. disk[s].snap.attempt[t] <= h.attempt[t]
        BY <1>9, <3>2, Zenon DEF Ahead
      <4>2. launches[s][t] \in Nat /\ disk[s].snap.attempt[t] \in Nat /\ h.attempt[t] \in Nat
        BY <1>4 DEF Inv, Types, Snapshots
      <4>3. launches[s][t] <= h.attempt[t]
        BY <3>1, <4>1, <4>2, AtMost, Zenon
      <4>. QED BY <1>5, <3>2, <4>3
    <3>3. CASE s # r
      BY <1>5, <3>1, <3>3
    <3>. QED BY <3>2, <3>3
  <2>. QED BY <1>1, <2>1, Zenon DEF Inv, LaunchInv
<1>14. ContainerInv'
  <2>1. SUFFICES ASSUME NEW s \in Runs, NEW t \in Tasks,
                        containers[s][t] # "none", <<s, t>> \notin unseen
                 PROVE  ShowsRunning(disk'[s].snap, chain[s], run[s], t)
    BY <1>1, Zenon DEF ContainerInv
  <2>2. ShowsRunning(disk[s].snap, chain[s], run[s], t)
    BY <2>1, Zenon DEF Inv, ContainerInv
  <2>3. CASE s = r
    <3>1. h.task[t] = "running"
      BY <1>3, <2>2, <2>3, Zenon DEF ShowsRunning, h
    <3>. QED BY <1>5, <2>2, <2>3, <3>1, Zenon DEF ShowsRunning
  <2>4. CASE s # r
    BY <1>5, <2>1, <2>2, <2>4, Zenon
  <2>. QED BY <2>3, <2>4
<1>. QED BY <1>6, <1>8, <1>10, <1>11, <1>12, <1>13, <1>14, Zenon DEF Inv

LEMMA EmptyHistory ==
  ASSUME NEW x \in Snapshots
  PROVE  /\ Sound(x) => AllSound(x, <<>>, x)
         /\ InOrder(x, <<>>, x) /\ PastCalls(<<>>, x)
         /\ \A t \in Tasks : x.task[t] = "running" => ShowsRunning(x, <<>>, x, t)
<1>1. Len(<<>>) = 0 /\ \A k \in 1..Len(<<>>) : FALSE
  OBVIOUS
<1>2. Ahead(x, x)
  BY AheadReflexive
<1>. QED BY <1>1, <1>2, Zenon DEF AllSound, InOrder, PastCalls, ShowsRunning

LEMMA CrashKeeps == ASSUME Inv, Crash PROVE Inv'
<1>1. /\ run' = [r \in Runs |-> disk[r].snap]
      /\ main' = [r \in Runs |-> "none"] /\ execs' = {}
      /\ chain' = [r \in Runs |-> <<>>] /\ landed' = [r \in Runs |-> FALSE]
      /\ cancelling' = [r \in Runs |-> "no"]
      /\ loading' = {r \in Runs : disk[r].snap.status # "absent"}
      /\ UNCHANGED <<disk, containers, launches, unseen>>
  BY DEF Crash
<1>2. \A r \in Runs : /\ run'[r] = disk[r].snap /\ chain'[r] = <<>> /\ ~landed'[r]
                      /\ main'[r] = "none" /\ cancelling'[r] = "no"
                      /\ disk[r].snap \in Snapshots
  BY <1>1 DEF Inv, Types
<1>3. <<>> \in Seq(Entries)
  OBVIOUS
<1>4. Types'
  <2>1. run' \in [Runs -> Snapshots] /\ chain' \in [Runs -> Seq(Entries)]
    BY <1>1, <1>2, <1>3
  <2>2. /\ main' \in [Runs -> MainPlaces] /\ landed' \in [Runs -> BOOLEAN]
        /\ cancelling' \in [Runs -> {"no", "removing", "saving"}]
        /\ execs' \in SUBSET Execs /\ loading' \in SUBSET Runs
    BY <1>1 DEF MainPlaces
  <2>. QED BY <1>1, <2>1, <2>2, Zenon DEF Inv, Types
<1>5. SoundInv' /\ OrderInv' /\ SavesPast'
  <2>1. \A r \in Runs : Sound(disk[r].snap)
    BY Zenon DEF Inv, SoundInv, AllSound
  <2>2. \A r \in Runs : /\ AllSound(disk[r].snap, <<>>, disk[r].snap)
                        /\ InOrder(disk[r].snap, <<>>, disk[r].snap)
                        /\ PastCalls(<<>>, disk[r].snap)
    BY <1>2, <2>1, EmptyHistory, Zenon
  <2>. QED BY <1>1, <1>2, <2>2, Zenon DEF SoundInv, OrderInv, SavesPast
<1>6. LandedInv'
  BY <1>2, Zenon DEF LandedInv
<1>7. \A e \in execs' : FALSE
  BY <1>1
<1>8. BusyInv' /\ UniqueInv' /\ SavingInv'
  BY <1>7, Zenon DEF BusyInv, UniqueInv, SavingInv
<1>9. LoadingInv'
  <2>1. \A r \in loading' : r \in Runs
    BY <1>1
  <2>. QED BY <1>2, <1>7, <2>1, Zenon DEF LoadingInv
<1>10. LaunchInv'
  BY <1>1, <1>7, Zenon DEF Inv, LaunchInv
<1>11. ContainerInv'
  <2>1. SUFFICES ASSUME NEW r \in Runs, NEW t \in Tasks,
                        containers[r][t] # "none", <<r, t>> \notin unseen
                 PROVE  ShowsRunning(disk[r].snap, <<>>, disk[r].snap, t)
    BY <1>1, <1>2, Zenon DEF ContainerInv
  <2>2. disk[r].snap.task[t] = "running"
    BY <2>1, Zenon DEF Inv, ContainerInv, ShowsRunning
  <2>. QED BY <1>2, <2>1, <2>2, EmptyHistory, Zenon
<1>. QED BY <1>4, <1>5, <1>6, <1>8, <1>9, <1>10, <1>11, Zenon DEF Inv

-----------------------------------------------------------------------------
(***************************************************************************)
(* The invariant and the theorems.                                         *)
(***************************************************************************)
LEMMA InitInv == ASSUME Init PROVE Inv
<1>1. /\ NewRun \in Snapshots
      /\ \A t \in Tasks : NewRun.task[t] = "pending" /\ NewRun.attempt[t] = 0
  BY DEF NewRun, Snapshots, Statuses, TaskStatuses
<1>2. Sound(NewRun)
  <2>1. InBudget(NewRun)
    BY <1>1, TaskAssumption DEF InBudget
  <2>2. InDependencyOrder(NewRun)
    BY <1>1 DEF InDependencyOrder
  <2>. QED BY <2>1, <2>2 DEF Sound
<1>3. /\ run = [r \in Runs |-> NewRun]
      /\ main = [r \in Runs |-> "none"] /\ execs = {}
      /\ chain = [r \in Runs |-> <<>>] /\ landed = [r \in Runs |-> FALSE]
      /\ cancelling = [r \in Runs |-> "no"] /\ loading = {}
      /\ disk = [r \in Runs |-> [snap |-> NewRun, agents |-> NewAgents]]
      /\ containers = [r \in Runs |-> [t \in Tasks |-> "none"]]
      /\ launches = [r \in Runs |-> [t \in Tasks |-> 0]]
  BY DEF Init
<1> HIDE DEF NewRun
<1>4. \A r \in Runs : /\ run[r] = NewRun /\ chain[r] = <<>> /\ ~landed[r]
                      /\ disk[r].snap = NewRun
  BY <1>3
<1>5. \A r \in Runs, t \in Tasks : containers[r][t] = "none" /\ launches[r][t] = 0
  BY <1>3
<1>6. Types
  <2>1. <<>> \in Seq(Entries)
    OBVIOUS
  <2>2. run \in [Runs -> Snapshots] /\ chain \in [Runs -> Seq(Entries)]
    BY <1>1, <1>3, <2>1
  <2>3. /\ main \in [Runs -> MainPlaces] /\ landed \in [Runs -> BOOLEAN]
        /\ cancelling \in [Runs -> {"no", "removing", "saving"}]
        /\ execs \in SUBSET Execs /\ loading \in SUBSET Runs
        /\ DOMAIN disk = Runs
    BY <1>3 DEF MainPlaces
  <2>4. /\ containers \in [Runs -> [Tasks -> {"none", "running", "ok", "bad"}]]
        /\ launches \in [Runs -> [Tasks -> Nat]]
    BY <1>3
  <2>. QED BY <1>1, <1>4, <2>2, <2>3, <2>4, Zenon DEF Types
<1>7. SoundInv /\ OrderInv /\ SavesPast
  <2>1. /\ AllSound(NewRun, <<>>, NewRun) /\ InOrder(NewRun, <<>>, NewRun)
        /\ PastCalls(<<>>, NewRun)
    BY <1>1, <1>2, EmptyHistory, Zenon
  <2>. QED BY <1>4, <2>1, Zenon DEF SoundInv, OrderInv, SavesPast
<1>8. LandedInv
  BY <1>4, Zenon DEF LandedInv
<1>9. \A e \in execs : FALSE
  BY <1>3
<1>10. BusyInv /\ UniqueInv /\ SavingInv
  BY <1>9, Zenon DEF BusyInv, UniqueInv, SavingInv
<1>11. LoadingInv
  BY <1>3 DEF LoadingInv
<1>12. LaunchInv
  <2>1. \A r \in Runs, t \in Tasks : launches[r][t] <= disk[r].snap.attempt[t]
    BY <1>1, <1>4, <1>5
  <2>. QED BY <1>9, <2>1, Zenon DEF LaunchInv
<1>13. ContainerInv
  BY <1>5, Zenon DEF ContainerInv
<1>. QED BY <1>6, <1>7, <1>8, <1>10, <1>11, <1>12, <1>13, Zenon DEF Inv

LEMMA StutterKeeps == ASSUME Inv, UNCHANGED vars PROVE Inv'
<1>1. UNCHANGED <<run, main, chain, landed, execs, disk, containers, launches,
                  unseen, loading, cancelling>>
  BY DEF vars, runVars, executeVars, cancelVars, startupVars, historyVars
<1>. QED BY <1>1, DockerKeeps, Zenon DEF Inv, Types

LEMMA NextInv == ASSUME Inv, [Next]_vars PROVE Inv'
<1>1. ASSUME NEW r \in Runs, ExecuteStep(r) PROVE Inv'
  <2>1. CASE SpecWritten(r) \/ Execute(r) \/ EnterLoop(r) \/ Closed(r)
    BY <2>1, SpecWrittenKeeps, ExecuteKeeps, EnterLoopKeeps, ClosedKeeps, Zenon
  <2>2. CASE LoopCancelled(r) \/ LoopSchedules(r) \/ GiveUp(r)
    BY <2>2, LoopCancelledKeeps, LoopSchedulesKeeps, GiveUpKeeps, Zenon
  <2>3. CASE \E t \in Tasks, i \in Instances : Assign(r, t, i)
    BY <2>3, AssignKeeps, Zenon
  <2>4. CASE RaceActive(r) \/ ResourceDelay(r) \/ DelayEnds(r)
    BY <2>4, WaitKeeps, Zenon
  <2>5. CASE FailUnplaceable(r) \/ Close(r)
    BY <2>5, FailUnplaceableKeeps, CloseKeeps, Zenon
  <2>. QED BY <1>1, <2>1, <2>2, <2>3, <2>4, <2>5, Zenon DEF ExecuteStep
<1>2. ASSUME NEW e \in execs, TaskStep(e) PROVE Inv'
  BY <1>2, DirectoryMadeKeeps, LaunchContainerKeeps, WorkerReturnsKeeps,
     ReattachKeeps, WorkerLostKeeps, TaskEndsKeeps, Zenon DEF TaskStep
<1>3. ASSUME NEW r \in Runs, CancelStep(r) PROVE Inv'
  BY <1>3, RemoveWorkerKeeps, CancelSavesKeeps, CancelReturnsKeeps, Zenon
     DEF CancelStep
<1>4. ASSUME NEW r \in Runs,
             \/ Start(r) \/ Cancel(r) \/ Write(r) \/ HeartbeatPersisted(r) \/ Load(r)
             \/ \E t \in Tasks : ContainerExits(r, t)
      PROVE  Inv'
  BY <1>4, StartKeeps, CancelKeeps, WriteKeeps, HeartbeatPersistedKeeps,
     LoadKeeps, ContainerExitsKeeps, Zenon
<1>5. ASSUME NEW e \in execs, Heartbeat(e) PROVE Inv'
  BY <1>5, HeartbeatKeeps, Zenon
<1>6. CASE CleanupOrphans \/ Crash
  BY <1>6, CleanupOrphansKeeps, CrashKeeps, Zenon
<1>7. CASE UNCHANGED vars
  BY <1>7, StutterKeeps, Zenon
<1>. QED BY <1>1, <1>2, <1>3, <1>4, <1>5, <1>6, <1>7, Zenon DEF Next

LEMMA Invariant == Spec => []Inv
BY InitInv, NextInv, PTL DEF Spec

(* Every reachable state of the runs, the pool's executions, the persist   *)
(* chains, the disk and the containers is well typed.                      *)
THEOREM OrchestratorTypeCorrect == Spec => []Types
<1>1. Inv => Types
  BY DEF Inv
<1>. QED BY <1>1, Invariant, PTL

(* A task runs, and has a result, only after its dependencies succeeded,   *)
(* whatever the graph, also in the graph continued after a restart: every  *)
(* snapshot a restart could find is in that order by itself.               *)
THEOREM DependenciesFirst == Spec => []DependencyOrder
<1>1. Inv => DependencyOrder
  BY Zenon DEF Inv, SoundInv, AllSound, Sound, InDependencyOrder, DependencyOrder
<1>. QED BY <1>1, Invariant, PTL

(* However often the process crashes, a task's container is started at     *)
(* most once per attempt of its budget: each start uses up an attempt that *)
(* is already on disk.                                                     *)
THEOREM LaunchesWithinBudget == Spec => []LaunchBudget
<1>1. ASSUME Inv PROVE LaunchBudget
  <2>1. SUFFICES ASSUME NEW r \in Runs, NEW t \in Tasks
                 PROVE  launches[r][t] <= Retries[t] + 1
    BY Zenon DEF LaunchBudget
  <2>2. launches[r][t] <= disk[r].snap.attempt[t]
    BY <1>1, Zenon DEF Inv, LaunchInv
  <2>3. disk[r].snap.attempt[t] <= Retries[t] + 1
    BY <1>1, Zenon DEF Inv, SoundInv, AllSound, Sound, InBudget
  <2>4. /\ launches[r][t] \in Nat /\ disk[r].snap.attempt[t] \in Nat
        /\ Retries[t] + 1 \in Nat
    BY <1>1, TaskAssumption DEF Inv, Types, Snapshots
  <2>. QED BY <2>2, <2>3, <2>4, AtMost, Zenon
<1>. QED BY <1>1, Invariant, PTL

(* A container belongs to a task that is running, unless Docker did not    *)
(* show it when recovery asked.                                            *)
THEOREM ContainersHaveTasks == Spec => []ContainerHasTask
<1>1. Inv => ContainerHasTask
  BY Zenon DEF Inv, ContainerInv, ShowsRunning, ContainerHasTask
<1>. QED BY <1>1, Invariant, PTL

LEMMA DiskWritten ==
  ASSUME [Next]_vars PROVE disk' = disk \/ \E s \in Runs : Write(s)
<1>1. ASSUME NEW s \in Runs, ExecuteStep(s) PROVE disk' = disk
  <2>1. CASE \E u \in Tasks, i \in Instances : Assign(s, u, i)
    BY <2>1, Zenon DEF Assign
  <2>2. CASE SpecWritten(s) \/ Execute(s) \/ EnterLoop(s) \/ Closed(s) \/ Close(s)
    BY <2>2, Zenon DEF SpecWritten, Execute, EnterLoop, Close, Closed
  <2>3. CASE LoopCancelled(s) \/ LoopSchedules(s) \/ GiveUp(s) \/ FailUnplaceable(s)
    BY <2>3, Zenon DEF LoopCancelled, LoopSchedules, FailUnplaceable, GiveUp
  <2>4. CASE RaceActive(s) \/ ResourceDelay(s) \/ DelayEnds(s)
    BY <2>4, Zenon DEF RaceActive, ResourceDelay, DelayEnds
  <2>. QED BY <1>1, <2>1, <2>2, <2>3, <2>4, Zenon DEF ExecuteStep
<1>2. ASSUME NEW e \in execs, TaskStep(e) \/ Heartbeat(e) PROVE disk' = disk
  BY <1>2 DEF TaskStep, DirectoryMade, LaunchContainer, WorkerReturns, Reattach,
     WorkerLost, TaskEnds, Heartbeat
<1>3. ASSUME NEW s \in Runs, Start(s) \/ Cancel(s) \/ CancelStep(s)
             \/ HeartbeatPersisted(s) \/ Load(s) \/ \E u \in Tasks : ContainerExits(s, u)
      PROVE  disk' = disk
  BY <1>3 DEF Start, Cancel, CancelStep, RemoveWorker, CancelSaves, CancelReturns,
     HeartbeatPersisted, Load, ContainerExits
<1>4. CASE CleanupOrphans \/ Crash \/ UNCHANGED vars
  BY <1>4 DEF CleanupOrphans, Crash, vars
<1>. QED BY <1>1, <1>2, <1>3, <1>4, Zenon DEF Next

LEMMA DiskGoesForward ==
  ASSUME Inv, [Next]_vars, NEW r \in Runs, NEW t \in Tasks,
         disk[r].snap.task[t] = "succeeded"
  PROVE  disk'[r].snap.task[t] = "succeeded"
<1>1. CASE disk' = disk
  BY <1>1
<1>2. CASE \E s \in Runs : Write(s)
  <2>1. PICK s \in Runs : Write(s)
    BY <1>2
  <2>2. /\ chain[s] # <<>>
        /\ disk' = [disk EXCEPT ![s] = [snap |-> Head(chain[s]).snap, agents |-> agents[s]]]
    BY <2>1 DEF Write
  <2>3. chain[s] \in Seq(Entries) /\ DOMAIN disk = Runs
    BY DEF Inv, Types
  <2>4. Head(chain[s]) = chain[s][1] /\ 1 \in 1..Len(chain[s])
    BY <2>2, <2>3
  <2>5. Ahead(disk[s].snap, Head(chain[s]).snap)
    BY <2>4, Zenon DEF Inv, OrderInv, InOrder
  <2>6. CASE s = r
    <3>1. Head(chain[s]).snap.task[t] = "succeeded"
      BY <2>5, <2>6, Zenon DEF Ahead
    <3>. QED BY <2>2, <2>3, <2>6, <3>1
  <2>7. CASE s # r
    BY <2>2, <2>7
  <2>. QED BY <2>6, <2>7
<1>. QED BY <1>1, <1>2, DiskWritten, Zenon

LEMMA DoneIsNotLaunched ==
  ASSUME Inv, [Next]_vars, NEW r \in Runs, NEW t \in Tasks,
         disk[r].snap.task[t] = "succeeded"
  PROVE  launches'[r][t] = launches[r][t]
<1>1. CASE launches' = launches
  BY <1>1
<1>2. ASSUME NEW e \in execs, LaunchContainer(e)
      PROVE  launches'[r][t] = launches[r][t]
  <2>1. /\ e.at = "saving" /\ Persisted(e.r, TaskCaller(e.t, e.a))
        /\ launches' = [launches EXCEPT ![e.r][e.t] =
                          IF Container(e) = "none" THEN @ + 1 ELSE @]
    BY <1>2 DEF LaunchContainer
  <2>2. disk[e.r].snap.task[e.t] = "running"
    BY <2>1, AttemptSaved, Zenon
  <2>3. ~(r = e.r /\ t = e.t)
    BY <2>2
  <2>4. e.r \in Runs /\ e.t \in Tasks
    BY ExecType, Zenon DEF Inv
  <2>5. launches \in [Runs -> [Tasks -> Nat]]
    BY DEF Inv, Types
  <2>. QED BY <2>1, <2>3, <2>4, <2>5
<1>3. ASSUME NEW s \in Runs, ExecuteStep(s) PROVE launches' = launches
  <2>1. CASE \E u \in Tasks, i \in Instances : Assign(s, u, i)
    BY <2>1, Zenon DEF Assign, historyVars
  <2>2. CASE SpecWritten(s) \/ Execute(s) \/ EnterLoop(s) \/ Closed(s) \/ Close(s)
    BY <2>2, Zenon DEF SpecWritten, Execute, EnterLoop, Close, Closed, historyVars
  <2>3. CASE LoopCancelled(s) \/ LoopSchedules(s) \/ GiveUp(s) \/ FailUnplaceable(s)
    BY <2>3, Zenon DEF LoopCancelled, LoopSchedules, FailUnplaceable, GiveUp, historyVars
  <2>4. CASE RaceActive(s) \/ ResourceDelay(s) \/ DelayEnds(s)
    BY <2>4, Zenon DEF RaceActive, ResourceDelay, DelayEnds, historyVars
  <2>. QED BY <1>3, <2>1, <2>2, <2>3, <2>4, Zenon DEF ExecuteStep
<1>4. ASSUME NEW e \in execs, TaskStep(e) \/ Heartbeat(e), ~LaunchContainer(e)
      PROVE  launches' = launches
  BY <1>4 DEF TaskStep, DirectoryMade, WorkerReturns, Reattach,
     WorkerLost, TaskEnds, Heartbeat, historyVars
<1>5. ASSUME NEW s \in Runs, Start(s) \/ Cancel(s) \/ CancelStep(s) \/ Write(s)
             \/ HeartbeatPersisted(s) \/ Load(s) \/ \E u \in Tasks : ContainerExits(s, u)
      PROVE  launches' = launches
  BY <1>5 DEF Start, Cancel, CancelStep, RemoveWorker, CancelSaves, CancelReturns,
     Write, HeartbeatPersisted, Load, ContainerExits, historyVars
<1>6. CASE CleanupOrphans \/ Crash \/ UNCHANGED vars
  BY <1>6 DEF CleanupOrphans, Crash, vars, historyVars
<1>. QED BY <1>1, <1>2, <1>3, <1>4, <1>5, <1>6, Zenon DEF Next

(* A task that succeeded on disk keeps its success and is never started    *)
(* again, by this process or one that recovers the run.                    *)
THEOREM TaskCompletesOnce == Spec => SuccessIsFinal
<1>1. ASSUME Inv, [Next]_vars
      PROVE  \A r \in Runs, t \in Tasks : disk[r].snap.task[t] = "succeeded" =>
               /\ disk'[r].snap.task[t] = "succeeded"
               /\ launches'[r][t] = launches[r][t]
  BY <1>1, DiskGoesForward, DoneIsNotLaunched, Zenon
<1>. QED BY <1>1, Invariant, PTL DEF Spec, SuccessIsFinal

-----------------------------------------------------------------------------
(***************************************************************************)
(* The pool: sets of executions and the CPUs they use.                     *)
(***************************************************************************)
CpusOf(S) == UNION {{e} \X (1..Cpu[e.r]) : e \in S}

LEMMA UpTo ==
  ASSUME NEW n \in Nat PROVE IsFiniteSet(1..n) /\ Cardinality(1..n) = n
<1>1. 1 \in Int /\ n \in Int
  OBVIOUS
<1>2. IsFiniteSet(1..n) /\ Cardinality(1..n) = IF 1 > n THEN 0 ELSE n - 1 + 1
  BY <1>1, FS_Interval, Zenon
<1>3. (IF 1 > n THEN 0 ELSE n - 1 + 1) = n
  OBVIOUS
<1>. QED BY <1>2, <1>3

LEMMA CpusOfOne ==
  ASSUME NEW e, e.r \in Runs
  PROVE  /\ IsFiniteSet({e} \X (1..Cpu[e.r]))
         /\ Cardinality({e} \X (1..Cpu[e.r])) = Cpu[e.r]
<1>1. Cpu[e.r] \in Nat
  BY ResourceAssumption
<1>2. IsFiniteSet(1..Cpu[e.r]) /\ Cardinality(1..Cpu[e.r]) = Cpu[e.r]
  BY <1>1, UpTo, Zenon
<1>3. IsFiniteSet({e}) /\ Cardinality({e}) = 1
  BY FS_Singleton, Zenon
<1>4. /\ IsFiniteSet({e} \X (1..Cpu[e.r]))
      /\ Cardinality({e} \X (1..Cpu[e.r])) = 1 * Cpu[e.r]
  <2> DEFINE one == {e}
             cpus == 1..Cpu[e.r]
  <2>1. IsFiniteSet(one) /\ Cardinality(one) = 1 /\ IsFiniteSet(cpus) /\ Cardinality(cpus) = Cpu[e.r]
    BY <1>2, <1>3
  <2> HIDE DEF one, cpus
  <2>2. IsFiniteSet(one \X cpus) /\ Cardinality(one \X cpus) = Cardinality(one) * Cardinality(cpus)
    BY <2>1, FS_Product, Zenon
  <2>3. IsFiniteSet(one \X cpus) /\ Cardinality(one \X cpus) = 1 * Cpu[e.r]
    BY <2>1, <2>2
  <2>. QED BY <2>3 DEF one, cpus
<1>. QED BY <1>1, <1>4

LEMMA CpusOfUnion ==
  ASSUME NEW S, NEW U
  PROVE  /\ CpusOf(S \cup U) = CpusOf(S) \cup CpusOf(U)
         /\ S \cap U = {} => CpusOf(S) \cap CpusOf(U) = {}
<1>1. \A V, u : u \in CpusOf(V) <=> \E e \in V : u \in {e} \X (1..Cpu[e.r])
  BY Zenon DEF CpusOf
<1>2. CpusOf(S \cup U) = CpusOf(S) \cup CpusOf(U)
  BY <1>1
<1>3. ASSUME S \cap U = {}, NEW u, u \in CpusOf(S), u \in CpusOf(U) PROVE FALSE
  <2>1. PICK e \in S : u \in {e} \X (1..Cpu[e.r])
    BY <1>1, <1>3, Zenon
  <2>2. PICK f \in U : u \in {f} \X (1..Cpu[f.r])
    BY <1>1, <1>3, Zenon
  <2>3. u[1] = e /\ u[1] = f
    BY <2>1, <2>2
  <2>. QED BY <1>3, <2>3
<1>. QED BY <1>2, <1>3

LEMMA CpusOfSingleton == ASSUME NEW e PROVE CpusOf({e}) = {e} \X (1..Cpu[e.r])
BY DEF CpusOf

(* A set of executions whose CPUs are counted.                             *)
Counted(S) == IsFiniteSet(S) /\ IsFiniteSet(CpusOf(S))

LEMMA CountAdd ==
  ASSUME NEW S, Counted(S), NEW U, Counted(U), S \cap U = {}
  PROVE  /\ Counted(S \cup U)
         /\ Cardinality(S \cup U) = Cardinality(S) + Cardinality(U)
         /\ Cardinality(CpusOf(S \cup U)) = Cardinality(CpusOf(S)) + Cardinality(CpusOf(U))
<1>1. /\ CpusOf(S \cup U) = CpusOf(S) \cup CpusOf(U)
      /\ CpusOf(S) \cap CpusOf(U) = {}
  BY CpusOfUnion, Zenon
<1>2. Cardinality({}) = 0
  BY FS_EmptySet, Zenon
<1>3. /\ Cardinality(S) \in Nat /\ Cardinality(U) \in Nat
      /\ Cardinality(CpusOf(S)) \in Nat /\ Cardinality(CpusOf(U)) \in Nat
  BY FS_CardinalityType, Zenon DEF Counted
<1>4. /\ IsFiniteSet(S \cup U)
      /\ Cardinality(S \cup U) = Cardinality(S) + Cardinality(U) - Cardinality(S \cap U)
  BY FS_Union, Zenon DEF Counted
<1>5. /\ IsFiniteSet(CpusOf(S) \cup CpusOf(U))
      /\ Cardinality(CpusOf(S) \cup CpusOf(U)) =
           Cardinality(CpusOf(S)) + Cardinality(CpusOf(U))
             - Cardinality(CpusOf(S) \cap CpusOf(U))
  BY FS_Union, Zenon DEF Counted
<1>6. Cardinality(S \cap U) = 0 /\ Cardinality(CpusOf(S) \cap CpusOf(U)) = 0
  BY <1>1, <1>2
<1>7. Counted(S \cup U)
  BY <1>1, <1>4, <1>5, Zenon DEF Counted
<1>8. Cardinality(S \cup U) = Cardinality(S) + Cardinality(U)
  BY <1>3, <1>4, <1>6
<1>9. Cardinality(CpusOf(S \cup U)) = Cardinality(CpusOf(S)) + Cardinality(CpusOf(U))
  <2> DEFINE c == Cardinality(CpusOf(S))
             d == Cardinality(CpusOf(U))
  <2>1. Cardinality(CpusOf(S \cup U)) = c + d - 0
    BY <1>1, <1>5, <1>6, Zenon
  <2>2. c \in Nat /\ d \in Nat
    BY <1>3
  <2> HIDE DEF c, d
  <2>3. c + d - 0 = c + d
    BY <2>2
  <2>. QED BY <2>1, <2>3, Zenon DEF c, d
<1>. QED BY <1>7, <1>8, <1>9

LEMMA CountOne ==
  ASSUME NEW e, e.r \in Runs
  PROVE  /\ Counted({e}) /\ Cardinality({e}) = 1
         /\ Cardinality(CpusOf({e})) = Cpu[e.r]
<1>1. IsFiniteSet({e}) /\ Cardinality({e}) = 1
  BY FS_Singleton, Zenon
<1>2. CpusOf({e}) = {e} \X (1..Cpu[e.r])
  BY CpusOfSingleton, Zenon
<1>3. IsFiniteSet(CpusOf({e})) /\ Cardinality(CpusOf({e})) = Cpu[e.r]
  BY <1>2, CpusOfOne, Zenon
<1>. QED BY <1>1, <1>3, Zenon DEF Counted

LEMMA CountRemove ==
  ASSUME NEW S, Counted(S), NEW e \in S, e.r \in Runs
  PROVE  /\ Counted(S \ {e})
         /\ Cardinality(S \ {e}) \in Nat /\ Cardinality(CpusOf(S \ {e})) \in Nat
         /\ Cardinality(S) = Cardinality(S \ {e}) + 1
         /\ Cardinality(CpusOf(S)) = Cardinality(CpusOf(S \ {e})) + Cpu[e.r]
<1>1. S = (S \ {e}) \cup {e} /\ (S \ {e}) \cap {e} = {}
  OBVIOUS
<1>2. CpusOf(S) = CpusOf(S \ {e}) \cup CpusOf({e})
  BY <1>1, CpusOfUnion, Zenon
<1>3. Counted(S \ {e})
  <2>1. IsFiniteSet(S \ {e})
    BY FS_RemoveElement, Zenon DEF Counted
  <2>2. CpusOf(S \ {e}) \in SUBSET CpusOf(S)
    BY <1>2
  <2>3. IsFiniteSet(CpusOf(S \ {e}))
    BY <2>2, FS_Subset, Zenon DEF Counted
  <2>. QED BY <2>1, <2>3 DEF Counted
<1>4. Cardinality(S \ {e}) \in Nat /\ Cardinality(CpusOf(S \ {e})) \in Nat
  BY <1>3, FS_CardinalityType, Zenon DEF Counted
<1>5. /\ Counted({e}) /\ Cardinality({e}) = 1
      /\ Cardinality(CpusOf({e})) = Cpu[e.r]
  BY CountOne, Zenon
<1>6. /\ Cardinality(S) = Cardinality(S \ {e}) + Cardinality({e})
      /\ Cardinality(CpusOf(S)) = Cardinality(CpusOf(S \ {e})) + Cardinality(CpusOf({e}))
  BY <1>1, <1>3, <1>5, CountAdd, ZenonT(40)
<1>. QED BY <1>3, <1>4, <1>5, <1>6

(* The executions that recovery adds for the tasks in U.                   *)
Recovering(r, U) ==
  {[r |-> r, t |-> t, a |-> run[r].attempt[t], at |-> "recovering"] : t \in U}

LEMMA CountRecovering ==
  ASSUME NEW r \in Runs, NEW U, IsFiniteSet(U)
  PROVE  /\ Counted(Recovering(r, U))
         /\ Cardinality(Recovering(r, U)) = Cardinality(U)
         /\ Cardinality(CpusOf(Recovering(r, U))) = Cardinality(U) * Cpu[r]
<1> DEFINE R == Recovering(r, U)
           f == [t \in U |-> [r |-> r, t |-> t, a |-> run[r].attempt[t], at |-> "recovering"]]
<1>1. f \in Bijection(U, R)
  <2>1. f \in [U -> R]
    BY DEF Recovering
  <2>2. \A t, u \in U : f[t] = f[u] => t = u
    OBVIOUS
  <2>3. \A e \in R : \E t \in U : f[t] = e
    BY DEF Recovering
  <2> HIDE DEF f, R
  <2>. QED BY <2>1, <2>2, <2>3, Fun_IsBij, Zenon
<1>2. ExistsBijection(U, R)
  BY <1>1, Zenon DEF ExistsBijection
<1>3. IsFiniteSet(R) /\ Cardinality(R) = Cardinality(U)
  BY <1>2, FS_Bijection, Zenon
<1>4. CpusOf(R) = R \X (1..Cpu[r])
  <2>1. \A e \in R : e.r = r
    BY DEF Recovering
  <2> HIDE DEF R
  <2>. QED BY <2>1 DEF CpusOf
<1>5. Cpu[r] \in Nat
  BY ResourceAssumption
<1>6. IsFiniteSet(1..Cpu[r]) /\ Cardinality(1..Cpu[r]) = Cpu[r]
  BY <1>5, UpTo, Zenon
<1>7. /\ IsFiniteSet(R \X (1..Cpu[r]))
      /\ Cardinality(R \X (1..Cpu[r])) = Cardinality(R) * Cardinality(1..Cpu[r])
  BY <1>3, <1>6, FS_Product, Zenon
<1> HIDE DEF R
<1>8. Counted(R) /\ Cardinality(CpusOf(R)) = Cardinality(U) * Cpu[r]
  BY <1>3, <1>4, <1>6, <1>7, Zenon DEF Counted
<1>. QED BY <1>3, <1>8, Zenon DEF R

(***************************************************************************)
(* What a step does to the executions and to the pool.                     *)
(***************************************************************************)
Dispatch(r, t) == [r |-> r, t |-> t, a |-> run[r].attempt[t] + 1, at |-> "mkdir"]

PoolKept == execs' = execs /\ pool' = pool
PoolMoves ==
  \E e \in execs : \E at \in Places : execs' = MovedTo(e, at) /\ pool' = pool
PoolReleases == \E e \in execs : execs' = execs \ {e} /\ pool' = Released(pool, e.r)
PoolReserves ==
  \E r \in Runs : \E t \in Tasks :
    /\ CanReserveWorker(r)
    /\ execs' = execs \cup {Dispatch(r, t)} /\ pool' = Reserved(pool, r, 1)
PoolRecovers ==
  \E r \in loading :
    /\ execs' = execs \cup Recovering(r, Recovered(r))
    /\ pool' = Reserved(pool, r, Cardinality(Recovered(r)))
PoolEmpties == execs' = {} /\ pool' = [workers |-> 0, cpu |-> 0] /\ epoch' = epoch + 1
PoolStep ==
  PoolKept \/ PoolMoves \/ PoolReleases \/ PoolReserves \/ PoolRecovers \/ PoolEmpties

LEMMA ExecutePools == ASSUME NEW r \in Runs, ExecuteStep(r) PROVE PoolStep
<1>1. CASE SpecWritten(r) \/ Execute(r) \/ EnterLoop(r) \/ Closed(r) \/ Close(r)
  BY <1>1 DEF SpecWritten, Execute, EnterLoop, Closed, Close, PoolStep, PoolKept
<1>2. CASE LoopCancelled(r) \/ LoopSchedules(r) \/ GiveUp(r) \/ FailUnplaceable(r)
  BY <1>2 DEF LoopCancelled, LoopSchedules, GiveUp, FailUnplaceable, PoolStep, PoolKept
<1>3. CASE RaceActive(r) \/ ResourceDelay(r) \/ DelayEnds(r)
  BY <1>3 DEF RaceActive, ResourceDelay, DelayEnds, PoolStep, PoolKept
<1>4. ASSUME NEW t \in Tasks, NEW i \in Instances, Assign(r, t, i) PROVE PoolStep
  <2>1. /\ CanReserveWorker(r) /\ execs' = execs \cup {Dispatch(r, t)}
        /\ pool' = Reserved(pool, r, 1)
    BY <1>4, Zenon DEF Assign, Assignable, Dispatch
  <2>. QED BY <2>1, Zenon DEF PoolStep, PoolReserves
<1>. QED BY <1>1, <1>2, <1>3, <1>4, Zenon DEF ExecuteStep

LEMMA TaskPools == ASSUME NEW e \in execs, TaskStep(e) PROVE PoolStep
<1>1. CASE DirectoryMade(e)
  BY <1>1 DEF DirectoryMade, PoolStep, PoolMoves, Places
<1>2. CASE LaunchContainer(e)
  BY <1>2 DEF LaunchContainer, PoolStep, PoolMoves, Places
<1>3. CASE WorkerReturns(e)
  BY <1>3 DEF WorkerReturns, PoolStep, PoolMoves, Places
<1>4. CASE Reattach(e)
  BY <1>4 DEF Reattach, PoolStep, PoolMoves, Places
<1>5. CASE WorkerLost(e)
  BY <1>5 DEF WorkerLost, PoolStep, PoolMoves, Places
<1>6. CASE TaskEnds(e)
  BY <1>6, Zenon DEF TaskEnds, PoolStep, PoolReleases
<1>. QED BY <1>1, <1>2, <1>3, <1>4, <1>5, <1>6, Zenon DEF TaskStep

LEMMA LoadPools == ASSUME NEW r \in Runs, Load(r) PROVE PoolStep
<1>1. CASE run[r].status \in Terminal
  BY <1>1 DEF Load, PoolStep, PoolKept
<1>2. CASE run[r].status \notin Terminal
  <2>1. /\ r \in loading /\ execs' = execs \cup Recovering(r, Recovered(r))
        /\ pool' = Reserved(pool, r, Cardinality(Recovered(r)))
    BY <1>2, Zenon DEF Load, Recovering
  <2>. QED BY <2>1, Zenon DEF PoolStep, PoolRecovers
<1>. QED BY <1>1, <1>2

LEMMA NextPools == ASSUME [Next]_vars PROVE PoolStep
<1>1. ASSUME NEW r \in Runs, Start(r) \/ Cancel(r) \/ CancelStep(r) PROVE PoolStep
  BY <1>1 DEF Start, Cancel, CancelStep, RemoveWorker, CancelSaves, CancelReturns,
       PoolStep, PoolKept
<1>2. ASSUME NEW r \in Runs, \/ Write(r) \/ HeartbeatPersisted(r)
                             \/ \E t \in Tasks : ContainerExits(r, t)
      PROVE  PoolStep
  BY <1>2 DEF Write, HeartbeatPersisted, ContainerExits, PoolStep, PoolKept
<1>3. ASSUME NEW e \in execs, Heartbeat(e) PROVE PoolStep
  BY <1>3 DEF Heartbeat, PoolStep, PoolKept
<1>4. CASE CleanupOrphans
  BY <1>4 DEF CleanupOrphans, PoolStep, PoolKept
<1>5. CASE Crash
  BY <1>5 DEF Crash, PoolStep, PoolEmpties
<1>6. CASE UNCHANGED vars
  BY <1>6 DEF vars, PoolStep, PoolKept
<1>. QED BY <1>1, <1>2, <1>3, <1>4, <1>5, <1>6, ExecutePools, TaskPools, LoadPools, Zenon DEF Next

(* The counts of the pool are those of the executions.                     *)
PoolInv == Counted(execs) /\ PoolExact

LEMMA MovedOne ==
  ASSUME Inv, NEW e \in execs, NEW at \in Places
  PROVE  \E m : /\ MovedTo(e, at) = (execs \ {e}) \cup {m}
                /\ m \notin execs \ {e} /\ m.r = e.r
<1> DEFINE m == [e EXCEPT !.at = at]
<1>1. e \in Execs
  BY DEF Inv, Types
<1>2. m.r = e.r /\ m.t = e.t /\ m.a = e.a
  BY <1>1 DEF Execs
<1>3. MovedTo(e, at) = (execs \ {e}) \cup {m}
  BY DEF MovedTo
<1> HIDE DEF m
<1>4. m \notin execs \ {e}
  BY <1>2, Zenon DEF Inv, UniqueInv
<1>. QED BY <1>2, <1>3, <1>4

LEMMA DispatchIsNew ==
  ASSUME Inv, NEW r \in Runs, NEW t \in Tasks
  PROVE  Dispatch(r, t) \notin execs /\ Dispatch(r, t).r = r
<1>1. /\ Dispatch(r, t).r = r /\ Dispatch(r, t).t = t
      /\ Dispatch(r, t).a = run[r].attempt[t] + 1
  BY DEF Dispatch
<1>2. run[r].attempt[t] \in Nat
  BY DEF Inv, Types, Snapshots
<1>3. ~(run[r].attempt[t] + 1 <= run[r].attempt[t])
  BY <1>2
<1>. QED BY <1>1, <1>3, Zenon DEF Inv, BusyInv

LEMMA PoolMovesKeep == ASSUME Inv, PoolInv, PoolMoves PROVE PoolInv'
<1>1. PICK e \in execs : \E at \in Places : execs' = MovedTo(e, at) /\ pool' = pool
  BY Zenon DEF PoolMoves
<1>2. PICK at \in Places : execs' = MovedTo(e, at) /\ pool' = pool
  BY <1>1
<1>3. PICK m : /\ execs' = (execs \ {e}) \cup {m} /\ m \notin execs \ {e}
               /\ m.r = e.r
  BY <1>2, MovedOne, Zenon
<1>4. e.r \in Runs
  BY ExecType, Zenon DEF Inv
<1> DEFINE S == execs \ {e}
<1>5. /\ Counted(S) /\ Cardinality(S) \in Nat /\ Cardinality(CpusOf(S)) \in Nat
      /\ Cardinality(execs) = Cardinality(S) + 1
      /\ Cardinality(CpusOf(execs)) = Cardinality(CpusOf(S)) + Cpu[e.r]
  BY <1>4, CountRemove, Zenon DEF PoolInv
<1>6. Counted({m}) /\ Cardinality({m}) = 1 /\ Cardinality(CpusOf({m})) = Cpu[e.r]
  BY <1>3, <1>4, CountOne, Zenon
<1>7. execs' = S \cup {m} /\ S \cap {m} = {}
  BY <1>3
<1> HIDE DEF S
<1>8. /\ Counted(execs')
      /\ Cardinality(execs') = Cardinality(S) + Cardinality({m})
      /\ Cardinality(CpusOf(execs')) = Cardinality(CpusOf(S)) + Cardinality(CpusOf({m}))
  BY <1>5, <1>6, <1>7, CountAdd, Zenon
<1>9. /\ Cardinality(execs') = Cardinality(execs)
      /\ Cardinality(CpusOf(execs')) = Cardinality(CpusOf(execs))
  BY <1>5, <1>6, <1>8, Zenon
<1>. QED BY <1>2, <1>8, <1>9, Zenon DEF PoolInv, PoolExact, CpuInUse, CpusOf, Counted

LEMMA PoolNumbers ==
  ASSUME PoolInv
  PROVE  /\ pool.workers \in Nat /\ pool.cpu \in Nat
         /\ pool.workers = Cardinality(execs) /\ pool.cpu = Cardinality(CpusOf(execs))
BY FS_CardinalityType, Zenon DEF PoolInv, PoolExact, CpuInUse, CpusOf, Counted

LEMMA LessOf ==
  ASSUME NEW x \in Nat, NEW y \in Nat, NEW z \in Nat, x = y + z
  PROVE  Less(x, z) = y
BY DEF Less

LEMMA PoolReleasesKeep ==
  ASSUME Inv, PoolInv, PoolReleases
  PROVE  PoolInv' /\ pool'.workers <= pool.workers /\ pool'.cpu <= pool.cpu
<1>1. PICK e \in execs : execs' = execs \ {e} /\ pool' = Released(pool, e.r)
  BY Zenon DEF PoolReleases
<1>2. e.r \in Runs /\ Cpu[e.r] \in Nat
  BY ExecType, ResourceAssumption DEF Inv
<1> DEFINE S == execs \ {e}
<1>3. /\ Counted(S) /\ Cardinality(S) \in Nat /\ Cardinality(CpusOf(S)) \in Nat
      /\ Cardinality(execs) = Cardinality(S) + 1
      /\ Cardinality(CpusOf(execs)) = Cardinality(CpusOf(S)) + Cpu[e.r]
  BY <1>2, CountRemove, Zenon DEF PoolInv
<1>4. execs' = S
  BY <1>1
<1> HIDE DEF S
<1>5. pool'.workers = Less(pool.workers, 1) /\ pool'.cpu = Less(pool.cpu, Cpu[e.r])
  BY <1>1 DEF Released
<1>6. pool'.workers = Cardinality(S)
  BY <1>3, <1>5, PoolNumbers, LessOf
<1>7. pool'.cpu = Cardinality(CpusOf(S))
  BY <1>2, <1>3, <1>5, PoolNumbers, LessOf
<1>8. PoolInv'
  BY <1>3, <1>4, <1>6, <1>7, Zenon DEF PoolInv, PoolExact, CpuInUse, CpusOf, Counted
<1>9. pool'.workers <= pool.workers /\ pool'.cpu <= pool.cpu
  BY <1>2, <1>3, <1>6, <1>7, PoolNumbers
<1>. QED BY <1>8, <1>9

LEMMA PoolAdds ==
  ASSUME PoolInv, NEW U, Counted(U), execs \cap U = {}, NEW n, NEW r \in Runs,
         Cardinality(U) = n, Cardinality(CpusOf(U)) = n * Cpu[r],
         execs' = execs \cup U, pool' = Reserved(pool, r, n)
  PROVE  PoolInv'
<1>1. /\ Counted(execs')
      /\ Cardinality(execs') = Cardinality(execs) + Cardinality(U)
      /\ Cardinality(CpusOf(execs')) = Cardinality(CpusOf(execs)) + Cardinality(CpusOf(U))
  BY CountAdd, Zenon DEF PoolInv
<1>2. pool'.workers = pool.workers + n /\ pool'.cpu = pool.cpu + n * Cpu[r]
  BY Zenon DEF Reserved
<1>3. pool'.workers = Cardinality(execs') /\ pool'.cpu = Cardinality(CpusOf(execs'))
  BY <1>1, <1>2, PoolNumbers, Zenon
<1>. QED BY <1>1, <1>3, Zenon DEF PoolInv, PoolExact, CpuInUse, CpusOf, Counted

LEMMA PoolReservesKeep ==
  ASSUME Inv, PoolInv, PoolReserves PROVE PoolInv' /\ WithinCeilings'
<1>1. PICK r \in Runs : \E t \in Tasks :
              /\ CanReserveWorker(r)
              /\ execs' = execs \cup {Dispatch(r, t)} /\ pool' = Reserved(pool, r, 1)
  BY Zenon DEF PoolReserves
<1>2. PICK t \in Tasks :
              /\ CanReserveWorker(r)
              /\ execs' = execs \cup {Dispatch(r, t)} /\ pool' = Reserved(pool, r, 1)
  BY <1>1
<1>3. Dispatch(r, t) \notin execs /\ Dispatch(r, t).r = r
  BY DispatchIsNew, Zenon
<1> DEFINE d == Dispatch(r, t)
<1> HIDE DEF d
<1>4. execs \cap {d} = {} /\ execs' = execs \cup {d} /\ d.r = r
  BY <1>2, <1>3 DEF d
<1>5. Counted({d}) /\ Cardinality({d}) = 1 /\ Cardinality(CpusOf({d})) = Cpu[r]
  BY <1>4, CountOne, Zenon
<1>6. Cpu[r] \in Nat /\ 1 * Cpu[r] = Cpu[r]
  BY ResourceAssumption
<1>7. PoolInv'
  BY <1>2, <1>4, <1>5, <1>6, PoolAdds, Zenon
<1>8. WithinCeilings'
  <2>1. pool'.workers = pool.workers + 1 /\ pool'.cpu = pool.cpu + Cpu[r]
    BY <1>2, <1>6, Zenon DEF Reserved
  <2>. QED BY <1>2, <1>6, <2>1, PoolNumbers, ResourceAssumption
           DEF CanReserveWorker, WithinCeilings
<1>. QED BY <1>7, <1>8

LEMMA TasksFinite == ASSUME NEW U, U \subseteq Tasks PROVE IsFiniteSet(U)
<1>1. IsFiniteSet(Tasks)
  BY SizeAssumption, UpTo, Zenon DEF Tasks
<1>. QED BY <1>1, FS_Subset, Zenon

LEMMA PoolRecoversKeep == ASSUME Inv, PoolInv, PoolRecovers PROVE PoolInv'
<1>1. PICK r \in loading :
        /\ execs' = execs \cup Recovering(r, Recovered(r))
        /\ pool' = Reserved(pool, r, Cardinality(Recovered(r)))
  BY Zenon DEF PoolRecovers
<1>2. r \in Runs /\ \A e \in execs : e.r # r
  BY DEF Inv, Types, LoadingInv
<1>3. IsFiniteSet(Recovered(r))
  BY TasksFinite DEF Recovered, Running
<1>4. execs \cap Recovering(r, Recovered(r)) = {}
  BY <1>2 DEF Recovering
<1>. QED BY <1>1, <1>2, <1>3, <1>4, CountRecovering, PoolAdds, Zenon

LEMMA PoolNone == execs = {} /\ pool = [workers |-> 0, cpu |-> 0] => PoolInv
<1>1. IsFiniteSet({}) /\ Cardinality({}) = 0
  BY FS_EmptySet, Zenon
<1>2. CpusOf({}) = {}
  BY DEF CpusOf
<1>. QED BY <1>1, <1>2 DEF PoolInv, PoolExact, CpuInUse, CpusOf, Counted

LEMMA PoolEmptiesKeep == ASSUME PoolEmpties PROVE PoolInv'
<1>1. execs' = {} /\ pool' = [workers |-> 0, cpu |-> 0]
  BY Zenon DEF PoolEmpties
<1>2. IsFiniteSet({}) /\ Cardinality({}) = 0
  BY FS_EmptySet, Zenon
<1>3. CpusOf({}) = {}
  BY DEF CpusOf
<1>. QED BY <1>1, <1>2, <1>3 DEF PoolInv, PoolExact, CpuInUse, CpusOf, Counted

LEMMA PoolStepKeeps == ASSUME Inv, PoolInv, [Next]_vars PROVE PoolInv'
<1>1. CASE PoolKept
  BY <1>1, Zenon DEF PoolKept, PoolInv, PoolExact, CpuInUse, Counted
<1>. QED BY <1>1, NextPools, PoolMovesKeep, PoolReleasesKeep, PoolReservesKeep,
            PoolRecoversKeep, PoolEmptiesKeep, Zenon DEF PoolStep

LEMMA PoolInvariant == Spec => []PoolInv
<1>1. Init => PoolInv
  BY PoolNone, Zenon DEF Init
<1>. QED BY <1>1, PoolStepKeeps, Invariant, PTL DEF Spec

-----------------------------------------------------------------------------
(***************************************************************************)
(* The slots of the agents, until the process crashes for the first time.  *)
(***************************************************************************)
AgentStates ==
  [held : [Instances -> SUBSET (Tasks \X Nat)],
   failed : [Instances -> Nat], completed : [Instances -> Nat]]
AgentsType == agents \in [Runs -> AgentStates]

FirstInv ==
  /\ epoch \in Nat
  /\ epoch = 0 => loading = {} /\ AgentsType /\ WithinCeilings /\ SlotsExact

(* A step that starts and ends no task.                                    *)
RunningKept ==
  \A r \in Runs : \A t \in Tasks :
    /\ run'[r].task[t] = "running" <=> run[r].task[t] = "running"
    /\ run'[r].where[t] = run[r].where[t]
SlotsKept == agents' = agents /\ RunningKept
SlotTaken ==
  \E r \in Runs : \E t \in Tasks : \E i \in Instances :
    /\ run[r].task[t] = "pending" /\ CanRun(r, t, i)
    /\ \E a : run' = [run EXCEPT ![r].task[t] = "running", ![r].attempt[t] = a,
                                 ![r].where[t] = i]
    /\ agents' = [agents EXCEPT ![r].held[i] = Pushed(@, t)]
SlotFreed ==
  \E e \in execs : \E z, A :
    /\ e.at # "closing" /\ z # "running"
    /\ run' = [run EXCEPT ![e.r].task[e.t] = z]
    /\ agents' = [agents EXCEPT ![e.r] = A]
    /\ AgentsType => A \in AgentStates /\ A.held = ReleasedBy(e).held
SlotStep == SlotsKept \/ SlotTaken \/ SlotFreed

LEMMA RunSame == ASSUME run' = run PROVE RunningKept
BY Zenon DEF RunningKept

LEMMA StatusSame ==
  ASSUME Inv, NEW r \in Runs, NEW q, run' = [run EXCEPT ![r].status = q]
  PROVE  RunningKept
BY DEF Inv, Types, Snapshots, RunningKept

LEMMA TasksSame ==
  ASSUME Inv, NEW r \in Runs, NEW f, NEW q,
         \A t \in Tasks : f[t] = "running" <=> run[r].task[t] = "running",
         \/ run' = [run EXCEPT ![r].task = f]
         \/ run' = [run EXCEPT ![r].cancel = q, ![r].task = f]
  PROVE  RunningKept
<1>1. run \in [Runs -> Snapshots]
  BY DEF Inv, Types
<1>2. /\ run'[r].task = f /\ run'[r].where = run[r].where
      /\ \A s \in Runs : s # r => run'[s] = run[s]
  BY <1>1 DEF Snapshots
<1>. QED BY <1>2, Zenon DEF RunningKept

LEMMA SkippedSame ==
  ASSUME Inv, NEW r \in Runs, run' = [run EXCEPT ![r].task = Skipped(r)]
  PROVE  RunningKept
<1>1. \A t \in Tasks : Skipped(r)[t] = "running" <=> run[r].task[t] = "running"
  BY SkippedOnlyPending
<1>. QED BY <1>1, TasksSame, Zenon

LEMMA ExecuteSlots == ASSUME Inv, NEW r \in Runs, ExecuteStep(r) PROVE SlotStep
<1>1. CASE SpecWritten(r) \/ EnterLoop(r) \/ Closed(r) \/ RaceActive(r)
           \/ ResourceDelay(r) \/ DelayEnds(r)
  <2>1. run' = run /\ agents' = agents
    BY <1>1 DEF SpecWritten, EnterLoop, Closed, RaceActive, ResourceDelay,
         DelayEnds, runVars
  <2>. QED BY <2>1, RunSame, Zenon DEF SlotStep, SlotsKept
<1>2. CASE Execute(r) \/ Close(r)
  <2>1. agents' = agents /\ \E q : run' = [run EXCEPT ![r].status = q]
    BY <1>2 DEF Execute, Close
  <2>. QED BY <2>1, StatusSame, Zenon DEF SlotStep, SlotsKept
<1>3. CASE LoopCancelled(r) \/ LoopSchedules(r)
  <2>1. agents' = agents /\ run' = [run EXCEPT ![r].task = Skipped(r)]
    BY <1>3, Zenon DEF LoopCancelled, LoopSchedules
  <2>. QED BY <2>1, SkippedSame, Zenon DEF SlotStep, SlotsKept
<1>4. CASE FailUnplaceable(r)
  <2> DEFINE f == [t \in Tasks |-> IF Ready(r, t) THEN "failed" ELSE run[r].task[t]]
  <2>1. agents' = agents /\ run' = [run EXCEPT ![r].task = f]
    BY <1>4, Zenon DEF FailUnplaceable
  <2>2. \A t \in Tasks : f[t] = "running" <=> run[r].task[t] = "running"
    BY DEF Ready
  <2> HIDE DEF f
  <2>. QED BY <2>1, <2>2, TasksSame, Zenon DEF SlotStep, SlotsKept
<1>5. CASE GiveUp(r)
  <2> DEFINE f == [t \in Tasks |-> IF run[r].task[t] = "pending" THEN "skipped"
                                   ELSE run[r].task[t]]
  <2>1. agents' = agents /\ run' = [run EXCEPT ![r].task = f]
    BY <1>5, Zenon DEF GiveUp
  <2>2. \A t \in Tasks : f[t] = "running" <=> run[r].task[t] = "running"
    OBVIOUS
  <2> HIDE DEF f
  <2>. QED BY <2>1, <2>2, TasksSame, Zenon DEF SlotStep, SlotsKept
<1>6. ASSUME NEW t \in Tasks, NEW i \in Instances, Assign(r, t, i) PROVE SlotStep
  <2>1. /\ run[r].task[t] = "pending" /\ CanRun(r, t, i)
        /\ \E a : run' = [run EXCEPT ![r].task[t] = "running", ![r].attempt[t] = a,
                                     ![r].where[t] = i]
        /\ agents' = [agents EXCEPT ![r].held[i] = Pushed(@, t)]
    BY <1>6, Zenon DEF Assign, Assignable, Ready
  <2>. QED BY <2>1, Zenon DEF SlotStep, SlotTaken
<1>. QED BY <1>1, <1>2, <1>3, <1>4, <1>5, <1>6, Zenon DEF ExecuteStep

LEMMA ReleasedType ==
  ASSUME AgentsType, NEW e \in execs, e.r \in Runs
  PROVE  /\ ReleasedBy(e) \in AgentStates
         /\ \A ok \in BOOLEAN : /\ Completed(e, ok) \in AgentStates
                                /\ Completed(e, ok).held = ReleasedBy(e).held
<1>1. agents[e.r] \in AgentStates
  BY DEF AgentsType
<1>2. ReleasedBy(e) \in AgentStates
  <2> DEFINE A == agents[e.r]
             i == run[e.r].where[e.t]
             X == A.held[i] \ EntriesOf(A.held[i], e.t)
             H == [A.held EXCEPT ![i] = X]
  <2>1. A \in AgentStates /\ A.held \in [Instances -> SUBSET (Tasks \X Nat)]
    BY <1>1 DEF AgentStates
  <2>2. ReleasedBy(e) = [A EXCEPT !.held = H]
    BY DEF ReleasedBy
  <2>3. i \in Instances => X \in SUBSET (Tasks \X Nat)
    <3> HIDE DEF i, A
    <3>1. i \in Instances => A.held[i] \in SUBSET (Tasks \X Nat)
      BY <2>1
    <3>. QED BY <3>1
  <2> HIDE DEF X, i, A
  <2>4. H \in [Instances -> SUBSET (Tasks \X Nat)]
    BY <2>1, <2>3
  <2> HIDE DEF H
  <2>. QED BY <2>1, <2>2, <2>4 DEF AgentStates
<1>3. ASSUME NEW ok \in BOOLEAN
      PROVE  /\ Completed(e, ok) \in AgentStates
             /\ Completed(e, ok).held = ReleasedBy(e).held
  <2> DEFINE A == ReleasedBy(e)
             i == run[e.r].where[e.t]
  <2>1. A \in AgentStates
    BY <1>2
  <2>2. Completed(e, ok) = IF ok THEN [A EXCEPT !.completed[i] = @ + 1]
                           ELSE [A EXCEPT !.failed[i] = @ + 1]
    BY DEF Completed
  <2> HIDE DEF A, i
  <2>3. /\ [A EXCEPT !.completed[i] = @ + 1] \in AgentStates
        /\ [A EXCEPT !.completed[i] = @ + 1].held = A.held
    BY <2>1 DEF AgentStates
  <2>4. /\ [A EXCEPT !.failed[i] = @ + 1] \in AgentStates
        /\ [A EXCEPT !.failed[i] = @ + 1].held = A.held
    BY <2>1 DEF AgentStates
  <2>. QED BY <2>2, <2>3, <2>4 DEF A
<1>. QED BY <1>2, <1>3

LEMMA TaskSlots == ASSUME Inv, NEW e \in execs, TaskStep(e) PROVE SlotStep
<1>1. e.r \in Runs
  BY ExecType, Zenon DEF Inv
<1>2. CASE DirectoryMade(e) \/ LaunchContainer(e) \/ Reattach(e) \/ TaskEnds(e)
  <2>1. run' = run /\ agents' = agents
    BY <1>2 DEF DirectoryMade, LaunchContainer, Reattach, TaskEnds, runVars
  <2>. QED BY <2>1, RunSame, Zenon DEF SlotStep, SlotsKept
<1>3. CASE WorkerReturns(e)
  <2>1. e.at # "closing"
    BY <1>3 DEF WorkerReturns
  <2>2. PICK ok \in {FALSE, Container(e) = "ok"} :
          /\ agents' = [agents EXCEPT ![e.r] = Completed(e, ok)]
          /\ run' = [run EXCEPT ![e.r].task[e.t] =
                       IF run[e.r].cancel THEN "cancelled"
                       ELSE IF ok THEN "succeeded" ELSE RetryStatus(e)]
    BY <1>3, Zenon DEF WorkerReturns
  <2>3. ok \in BOOLEAN
    BY <2>2
  <2> DEFINE z == IF run[e.r].cancel THEN "cancelled"
                  ELSE IF ok THEN "succeeded" ELSE RetryStatus(e)
  <2>4. z # "running"
    BY DEF RetryStatus
  <2>5. run' = [run EXCEPT ![e.r].task[e.t] = z]
    BY <2>2
  <2> HIDE DEF z
  <2>6. AgentsType => /\ Completed(e, ok) \in AgentStates
                      /\ Completed(e, ok).held = ReleasedBy(e).held
    BY <1>1, <2>3, ReleasedType, Zenon
  <2>. QED BY <2>1, <2>2, <2>4, <2>5, <2>6, Zenon DEF SlotStep, SlotFreed
<1>4. CASE WorkerLost(e)
  <2>1. e.at # "closing"
    BY <1>4 DEF WorkerLost
  <2>2. /\ agents' = [agents EXCEPT ![e.r] = ReleasedBy(e)]
        /\ run' = [run EXCEPT ![e.r].task[e.t] = RetryStatus(e)]
    BY <1>4, Zenon DEF WorkerLost
  <2>3. RetryStatus(e) # "running"
    BY DEF RetryStatus
  <2>4. AgentsType => ReleasedBy(e) \in AgentStates
    BY <1>1, ReleasedType, Zenon
  <2>. QED BY <2>1, <2>2, <2>3, <2>4, Zenon DEF SlotStep, SlotFreed
<1>. QED BY <1>2, <1>3, <1>4, Zenon DEF TaskStep

LEMMA NextSlots ==
  ASSUME Inv, [Next]_vars
  PROVE  \/ Crash
         \/ epoch' = epoch /\ loading' = loading /\ SlotStep
         \/ epoch' = epoch /\ \E r \in loading : Load(r)
<1> DEFINE G == epoch' = epoch /\ loading' = loading /\ SlotStep
<1>1. ASSUME NEW r \in Runs, ExecuteStep(r) PROVE G
  <2>1. epoch' = epoch /\ loading' = loading
    <3>1. CASE \E t \in Tasks, i \in Instances : Assign(r, t, i)
      BY <3>1 DEF Assign, startupVars, historyVars
    <3>2. CASE ~\E t \in Tasks, i \in Instances : Assign(r, t, i)
      BY <1>1, <3>2 DEF ExecuteStep, SpecWritten, Execute, EnterLoop, LoopCancelled,
           LoopSchedules, RaceActive, FailUnplaceable, ResourceDelay, DelayEnds,
           GiveUp, Close, Closed, startupVars, historyVars
    <3>. QED BY <3>1, <3>2
  <2>. QED BY <1>1, <2>1, ExecuteSlots, Zenon
<1>2. ASSUME NEW e \in execs, TaskStep(e) PROVE G
  <2>1. epoch' = epoch /\ loading' = loading
    BY <1>2 DEF TaskStep, DirectoryMade, LaunchContainer, WorkerReturns, Reattach,
         WorkerLost, TaskEnds, startupVars, historyVars
  <2>. QED BY <1>2, <2>1, TaskSlots, Zenon
<1>3. ASSUME NEW r \in Runs, CancelStep(r) \/ Write(r) \/ HeartbeatPersisted(r)
                             \/ \E t \in Tasks : ContainerExits(r, t)
      PROVE  G
  <2>1. run' = run /\ agents' = agents /\ epoch' = epoch /\ loading' = loading
    BY <1>3 DEF CancelStep, RemoveWorker, CancelSaves, CancelReturns, Write,
         HeartbeatPersisted, ContainerExits, runVars, startupVars, historyVars
  <2>. QED BY <2>1, RunSame, Zenon DEF SlotStep, SlotsKept
<1>4. ASSUME NEW r \in Runs, Start(r) PROVE G
  <2>1. /\ agents' = agents /\ epoch' = epoch /\ loading' = loading
        /\ run' = [run EXCEPT ![r].status = "queued"]
    BY <1>4 DEF Start, startupVars, historyVars
  <2>. QED BY <2>1, StatusSame, Zenon DEF SlotStep, SlotsKept
<1>5. ASSUME NEW r \in Runs, Cancel(r) PROVE G
  <2> DEFINE f == [t \in Tasks |-> IF run[r].task[t] = "pending" THEN "cancelled"
                                   ELSE run[r].task[t]]
  <2>1. /\ agents' = agents /\ epoch' = epoch /\ loading' = loading
        /\ run' = [run EXCEPT ![r].cancel = TRUE, ![r].task = f]
    BY <1>5, Zenon DEF Cancel, startupVars, historyVars
  <2>2. \A t \in Tasks : f[t] = "running" <=> run[r].task[t] = "running"
    OBVIOUS
  <2> HIDE DEF f
  <2>. QED BY <2>1, <2>2, TasksSame, Zenon DEF SlotStep, SlotsKept
<1>6. ASSUME NEW e \in execs, Heartbeat(e) PROVE G
  <2>1. run' = run /\ agents' = agents /\ epoch' = epoch /\ loading' = loading
    BY <1>6 DEF Heartbeat, startupVars, historyVars
  <2>. QED BY <2>1, RunSame, Zenon DEF SlotStep, SlotsKept
<1>7. CASE CleanupOrphans \/ UNCHANGED vars
  <2>1. run' = run /\ agents' = agents /\ epoch' = epoch /\ loading' = loading
    BY <1>7 DEF CleanupOrphans, vars, runVars, startupVars, historyVars
  <2>. QED BY <2>1, RunSame, Zenon DEF SlotStep, SlotsKept
<1>8. ASSUME NEW r \in Runs, Load(r) PROVE r \in loading /\ epoch' = epoch
  BY <1>8 DEF Load, historyVars
<1>. QED BY <1>1, <1>2, <1>3, <1>4, <1>5, <1>6, <1>7, <1>8, Zenon DEF Next

(* The entries of the tasks that run on i.                                 *)
Placed(r, i) == {u \in Tasks : run[r].task[u] = "running" /\ run[r].where[u] = i}
Places1(U) == {<<t, 1>> : t \in U}

LEMMA SlotsAre ==
  SlotsExact <=> \A r \in Runs : \A i \in Instances :
                   /\ agents[r].held[i] = Places1(Placed(r, i))
                   /\ Cardinality(agents[r].held[i]) <= Capacity[i]
BY Zenon DEF SlotsExact, Places1, Placed

LEMMA SlotsFinite == ASSUME NEW U, U \subseteq Tasks PROVE IsFiniteSet(Places1(U))
<1>1. IsFiniteSet(Tasks) /\ IsFiniteSet({1})
  BY TasksFinite, FS_Singleton, Zenon
<1>2. IsFiniteSet(Tasks \X {1})
  BY <1>1, FS_Product, Zenon
<1>3. Places1(U) \in SUBSET (Tasks \X {1})
  BY DEF Places1
<1>. QED BY <1>2, <1>3, FS_Subset, Zenon

LEMMA SlotsKeptKeep ==
  ASSUME SlotsExact, SlotsKept PROVE SlotsExact'
<1>1. \A r \in Runs, i \in Instances : Placed(r, i)' = Placed(r, i)
  BY DEF SlotsKept, RunningKept, Placed
<1>2. agents' = agents
  BY DEF SlotsKept
<1>3. \A r \in Runs, i \in Instances :
        /\ agents[r].held[i] = Places1(Placed(r, i))
        /\ Cardinality(agents[r].held[i]) <= Capacity[i]
  BY SlotsAre, Zenon
<1>4. \A r \in Runs, i \in Instances :
        /\ agents'[r].held[i] = Places1(Placed(r, i)')
        /\ Cardinality(agents'[r].held[i]) <= Capacity[i]
  BY <1>1, <1>2, <1>3, Zenon
<1>. QED BY <1>4, Zenon DEF SlotsExact, Places1, Placed

LEMMA PushedFirst ==
  ASSUME NEW U, NEW t, t \notin U
  PROVE  Pushed(Places1(U), t) = Places1(U \cup {t})
<1>1. EntriesOf(Places1(U), t) = {}
  BY DEF EntriesOf, Places1
<1>2. Cardinality({}) = 0
  BY FS_EmptySet, Zenon
<1>3. Pushed(Places1(U), t) = Places1(U) \cup {<<t, 1>>}
  BY <1>1, <1>2 DEF Pushed
<1>. QED BY <1>3 DEF Places1

LEMMA SlotTakenKeeps ==
  ASSUME Inv, AgentsType, SlotsExact, SlotTaken PROVE AgentsType' /\ SlotsExact'
<1>1. PICK r \in Runs, t \in Tasks, i \in Instances :
        /\ run[r].task[t] = "pending" /\ CanRun(r, t, i)
        /\ \E a : run' = [run EXCEPT ![r].task[t] = "running", ![r].attempt[t] = a,
                                     ![r].where[t] = i]
        /\ agents' = [agents EXCEPT ![r].held[i] = Pushed(@, t)]
  BY Zenon DEF SlotTaken
<1> DEFINE U == Placed(r, i)
<1>2. /\ agents[r].held[i] = Places1(U)
      /\ Cardinality(agents[r].held[i]) < Capacity[i]
      /\ t \notin U /\ U \subseteq Tasks
  BY <1>1, SlotsAre DEF CanRun, Placed
<1> HIDE DEF U
<1>3. Pushed(agents[r].held[i], t) = Places1(U \cup {t})
  BY <1>2, PushedFirst, Zenon
<1>4. agents[r] \in AgentStates /\ agents \in [Runs -> AgentStates]
  BY DEF AgentsType
<1> DEFINE B == [agents[r] EXCEPT !.held[i] = Places1(U \cup {t})]
<1>5. agents' = [agents EXCEPT ![r] = B]
  BY <1>1, <1>3
<1>6. Places1(U \cup {t}) \in SUBSET (Tasks \X Nat)
  BY <1>2 DEF Places1
<1>7. /\ B \in AgentStates /\ B.held[i] = Places1(U \cup {t})
      /\ \A j \in Instances : j # i => B.held[j] = agents[r].held[j]
  BY <1>4, <1>6 DEF AgentStates
<1> HIDE DEF B
<1>8. /\ agents' \in [Runs -> AgentStates] /\ agents'[r] = B
      /\ \A s \in Runs : s # r => agents'[s] = agents[s]
  BY <1>4, <1>5, <1>7
<1>9. /\ Placed(r, i)' = U \cup {t}
      /\ \A s \in Runs, j \in Instances : s # r \/ j # i => Placed(s, j)' = Placed(s, j)
  <2>1. run \in [Runs -> Snapshots]
    BY DEF Inv, Types
  <2>2. PICK a : run' = [run EXCEPT ![r].task[t] = "running", ![r].attempt[t] = a,
                                     ![r].where[t] = i]
    BY <1>1, Zenon
  <2>3. /\ run'[r].task[t] = "running" /\ run'[r].where[t] = i
        /\ \A u \in Tasks : u # t => /\ run'[r].task[u] = run[r].task[u]
                                     /\ run'[r].where[u] = run[r].where[u]
        /\ \A s \in Runs : s # r => run'[s] = run[s]
    BY <2>1, <2>2 DEF Snapshots
  <2>4. Placed(r, i)' = U \cup {t}
    BY <2>3 DEF Placed, U
  <2>5. ASSUME NEW s \in Runs, NEW j \in Instances, s # r PROVE Placed(s, j)' = Placed(s, j)
    BY <2>3, <2>5 DEF Placed
  <2>6. ASSUME NEW j \in Instances, j # i PROVE Placed(r, j)' = Placed(r, j)
    BY <1>1, <2>3, <2>6 DEF Placed
  <2>. QED BY <2>4, <2>5, <2>6
<1>10. Cardinality(Places1(U \cup {t})) <= Capacity[i]
  <2>1. Places1(U \cup {t}) = Places1(U) \cup {<<t, 1>>}
    BY DEF Places1
  <2>2. IsFiniteSet(Places1(U)) /\ <<t, 1>> \notin Places1(U)
    BY <1>2, SlotsFinite DEF Places1
  <2>3. Cardinality(Places1(U \cup {t})) = Cardinality(Places1(U)) + 1
    BY <2>1, <2>2, FS_AddElement, Zenon
  <2>4. Cardinality(Places1(U)) \in Nat /\ Capacity[i] \in Nat
    BY <2>2, FS_CardinalityType, ResourceAssumption
  <2>. QED BY <1>2, <2>3, <2>4
<1>11. ASSUME NEW s \in Runs, NEW j \in Instances
       PROVE  /\ agents'[s].held[j] = Places1(Placed(s, j)')
              /\ Cardinality(agents'[s].held[j]) <= Capacity[j]
  <2>1. CASE s = r /\ j = i
    BY <1>7, <1>8, <1>9, <1>10, <2>1, Zenon
  <2>2. CASE s # r \/ j # i
    <3>1. agents'[s].held[j] = agents[s].held[j]
      BY <1>7, <1>8, <2>2, Zenon
    <3>2. Placed(s, j)' = Placed(s, j)
      BY <1>9, <2>2, Zenon
    <3>. QED BY <3>1, <3>2, SlotsAre, Zenon
  <2>. QED BY <2>1, <2>2
<1>12. SlotsExact'
  BY <1>11, Zenon DEF SlotsExact, Places1, Placed
<1>. QED BY <1>8, <1>12, Zenon DEF AgentsType

LEMMA ReleasedHeld ==
  ASSUME NEW e, agents[e.r] \in AgentStates
  PROVE  \A j \in Instances : ReleasedBy(e).held[j] =
           IF j = run[e.r].where[e.t]
             THEN agents[e.r].held[j] \ EntriesOf(agents[e.r].held[j], e.t)
             ELSE agents[e.r].held[j]
<1> DEFINE A == agents[e.r]
           h == A.held
           i == run[e.r].where[e.t]
           X == h[i] \ EntriesOf(h[i], e.t)
           H == [h EXCEPT ![i] = X]
<1>1. A \in AgentStates /\ h \in [Instances -> SUBSET (Tasks \X Nat)]
  BY DEF AgentStates
<1>2. ReleasedBy(e) = [A EXCEPT !.held = H]
  BY DEF ReleasedBy
<1>3. \A j \in Instances : H[j] = IF j = i THEN X ELSE h[j]
  <2> HIDE DEF X, i, h
  <2>. QED BY <1>1
<1> HIDE DEF H, A
<1>4. ReleasedBy(e).held = H
  BY <1>1, <1>2 DEF AgentStates
<1>. QED BY <1>3, <1>4, Zenon DEF A

LEMMA SlotFreedKeeps ==
  ASSUME Inv, AgentsType, SlotsExact, SlotFreed PROVE AgentsType' /\ SlotsExact'
<1>1. PICK e \in execs : \E z, A :
        /\ e.at # "closing" /\ z # "running"
        /\ run' = [run EXCEPT ![e.r].task[e.t] = z]
        /\ agents' = [agents EXCEPT ![e.r] = A]
        /\ A \in AgentStates /\ A.held = ReleasedBy(e).held
  BY Zenon DEF SlotFreed
<1>2. PICK z, A :
        /\ e.at # "closing" /\ z # "running"
        /\ run' = [run EXCEPT ![e.r].task[e.t] = z]
        /\ agents' = [agents EXCEPT ![e.r] = A]
        /\ A \in AgentStates /\ A.held = ReleasedBy(e).held
  BY <1>1, Zenon
<1> DEFINE r == e.r
           t == e.t
           i == run[r].where[t]
<1>3. r \in Runs /\ t \in Tasks /\ run[r].task[t] = "running"
  BY <1>2, ExecType, Zenon DEF Inv, BusyInv
<1>4. agents[r] \in AgentStates /\ agents \in [Runs -> AgentStates]
  BY <1>3 DEF AgentsType
<1>5. /\ agents' \in [Runs -> AgentStates] /\ agents'[r] = A
      /\ \A s \in Runs : s # r => agents'[s] = agents[s]
  BY <1>2, <1>3, <1>4
<1>6. \A j \in Instances :
        A.held[j] = IF j = i THEN agents[r].held[j] \ EntriesOf(agents[r].held[j], t)
                    ELSE agents[r].held[j]
  BY <1>2, <1>4, ReleasedHeld, Zenon
<1>7. \A s \in Runs : \A j \in Instances :
        Placed(s, j)' = IF s = r THEN Placed(s, j) \ {t} ELSE Placed(s, j)
  <2>1. run \in [Runs -> Snapshots]
    BY DEF Inv, Types
  <2>2. run' = [run EXCEPT ![r].task[t] = z]
    BY <1>2
  <2> HIDE DEF r, t, i
  <2>3. /\ run'[r].task[t] = z /\ run'[r].where = run[r].where
        /\ \A u \in Tasks : u # t => run'[r].task[u] = run[r].task[u]
        /\ \A s \in Runs : s # r => run'[s] = run[s]
    BY <1>3, <2>1, <2>2 DEF Snapshots
  <2>4. ASSUME NEW j \in Instances PROVE Placed(r, j)' = Placed(r, j) \ {t}
    BY <1>2, <2>3 DEF Placed
  <2>5. ASSUME NEW s \in Runs, NEW j \in Instances, s # r
        PROVE  Placed(s, j)' = Placed(s, j)
    BY <2>3, <2>5 DEF Placed
  <2>. QED BY <2>4, <2>5, Zenon
<1>8. \A s \in Runs : \A j \in Instances :
        /\ agents[s].held[j] = Places1(Placed(s, j))
        /\ Cardinality(agents[s].held[j]) <= Capacity[j]
  BY SlotsAre, Zenon
<1>9. \A j \in Instances : t \in Placed(r, j) => j = i
  BY DEF Placed
<1> HIDE DEF r, t, i
<1>10. ASSUME NEW s \in Runs, NEW j \in Instances
       PROVE  /\ agents'[s].held[j] = Places1(Placed(s, j)')
              /\ Cardinality(agents'[s].held[j]) <= Capacity[j]
  <2> DEFINE V == Placed(s, j)
  <2>1. agents[s].held[j] = Places1(V) /\ Cardinality(Places1(V)) <= Capacity[j]
    BY <1>8, Zenon
  <2>2. V \subseteq Tasks
    BY DEF Placed
  <2>3. Placed(s, j)' = IF s = r THEN V \ {t} ELSE V
    BY <1>7
  <2>4. s = r /\ t \in V => j = i
    BY <1>9
  <2> HIDE DEF V
  <2>5. CASE s = r /\ j = i
    <3>1. agents'[s].held[j] = Places1(V) \ EntriesOf(Places1(V), t)
      BY <1>5, <1>6, <2>1, <2>5, Zenon
    <3>2. Places1(V) \ EntriesOf(Places1(V), t) = Places1(V \ {t})
      BY DEF Places1, EntriesOf
    <3>3. IsFiniteSet(Places1(V)) /\ Places1(V \ {t}) \in SUBSET Places1(V)
      BY <2>2, SlotsFinite DEF Places1
    <3>4. /\ Cardinality(Places1(V \ {t})) <= Cardinality(Places1(V))
          /\ IsFiniteSet(Places1(V \ {t}))
      BY <3>3, FS_Subset, Zenon
    <3>5. /\ Cardinality(Places1(V \ {t})) \in Nat /\ Cardinality(Places1(V)) \in Nat
          /\ Capacity[j] \in Nat
      BY <3>3, <3>4, FS_CardinalityType, ResourceAssumption
    <3>6. Cardinality(Places1(V \ {t})) <= Capacity[j]
      BY <2>1, <3>4, <3>5
    <3>. QED BY <2>3, <2>5, <3>1, <3>2, <3>6, Zenon
  <2>6. CASE ~(s = r /\ j = i)
    <3>1. agents'[s].held[j] = agents[s].held[j]
      BY <1>5, <1>6, <2>6, Zenon
    <3>2. Placed(s, j)' = V
      BY <2>3, <2>4, <2>6
    <3>. QED BY <2>1, <3>1, <3>2, Zenon
  <2>. QED BY <2>5, <2>6
<1>11. SlotsExact'
  BY <1>10, Zenon DEF SlotsExact, Places1, Placed
<1>. QED BY <1>5, <1>11, Zenon DEF AgentsType

LEMMA CeilingsKeep ==
  ASSUME Inv, PoolInv, FirstInv, loading = {}, WithinCeilings, [Next]_vars, epoch' = epoch
  PROVE  WithinCeilings'
<1>1. PoolStep
  BY NextPools, Zenon
<1>2. epoch' # epoch + 1
  BY DEF FirstInv
<1>3. CASE PoolKept \/ PoolMoves
  BY <1>3, Zenon DEF PoolKept, PoolMoves, WithinCeilings
<1>4. CASE PoolReleases
  <2>1. /\ PoolInv' /\ pool'.workers <= pool.workers /\ pool'.cpu <= pool.cpu
    BY <1>4, PoolReleasesKeep, Zenon
  <2>2. pool'.workers \in Nat /\ pool'.cpu \in Nat
    BY <2>1, FS_CardinalityType, Zenon DEF PoolInv, PoolExact, CpuInUse, CpusOf, Counted
  <2>. QED BY <2>1, <2>2, PoolNumbers, ResourceAssumption DEF WithinCeilings
<1>5. CASE PoolReserves
  BY <1>5, PoolReservesKeep, Zenon
<1>. QED BY <1>1, <1>2, <1>3, <1>4, <1>5, Zenon DEF PoolStep, PoolRecovers, PoolEmpties

LEMMA FirstStep == ASSUME Inv, PoolInv, FirstInv, [Next]_vars PROVE FirstInv'
<1>1. CASE Crash
  <2>1. epoch' = epoch + 1
    BY <1>1 DEF Crash
  <2>. QED BY <2>1 DEF FirstInv
<1>2. CASE epoch' = epoch /\ loading' = loading /\ SlotStep
  <2>1. epoch' \in Nat
    BY <1>2 DEF FirstInv
  <2>2. SUFFICES ASSUME epoch = 0
                 PROVE  loading' = {} /\ AgentsType' /\ WithinCeilings' /\ SlotsExact'
    BY <1>2, <2>1 DEF FirstInv
  <2>3. loading = {} /\ AgentsType /\ WithinCeilings /\ SlotsExact
    BY <2>2, Zenon DEF FirstInv
  <2>4. WithinCeilings'
    BY <1>2, <2>3, CeilingsKeep, Zenon
  <2>5. AgentsType' /\ SlotsExact'
    <3>1. CASE SlotsKept
      <4>1. AgentsType'
        BY <2>3, <3>1, Zenon DEF AgentsType, SlotsKept
      <4>. QED BY <2>3, <3>1, <4>1, SlotsKeptKeep, Zenon
    <3>. QED BY <1>2, <2>3, <3>1, SlotTakenKeeps, SlotFreedKeeps, Zenon DEF SlotStep
  <2>. QED BY <1>2, <2>3, <2>4, <2>5, Zenon
<1>3. CASE epoch' = epoch /\ \E r \in loading : Load(r)
  BY <1>3, Zenon DEF FirstInv
<1>. QED BY <1>1, <1>2, <1>3, NextSlots, Zenon

LEMMA FirstInit == ASSUME Init PROVE FirstInv
<1>1. /\ run = [r \in Runs |-> NewRun] /\ agents = [r \in Runs |-> NewAgents]
      /\ pool = [workers |-> 0, cpu |-> 0] /\ loading = {} /\ epoch = 0
  BY DEF Init
<1>2. AgentsType
  BY <1>1 DEF AgentsType, AgentStates, NewAgents
<1>3. WithinCeilings
  BY <1>1, ResourceAssumption DEF WithinCeilings
<1>4. SlotsExact
  <2>1. SUFFICES ASSUME NEW r \in Runs, NEW i \in Instances
                 PROVE  /\ agents[r].held[i] = Places1(Placed(r, i))
                        /\ Cardinality(agents[r].held[i]) <= Capacity[i]
    BY SlotsAre, Zenon
  <2>2. agents[r].held[i] = {}
    BY <1>1 DEF NewAgents
  <2>3. Placed(r, i) = {}
    BY <1>1 DEF Placed, NewRun
  <2>4. Places1({}) = {}
    BY DEF Places1
  <2>5. Cardinality({}) = 0 /\ Capacity[i] \in Nat
    BY FS_EmptySet, ResourceAssumption
  <2>. QED BY <2>2, <2>3, <2>4, <2>5
<1>. QED BY <1>1, <1>2, <1>3, <1>4 DEF FirstInv

LEMMA FirstInvariant == Spec => []FirstInv
BY FirstInit, FirstStep, Invariant, PoolInvariant, PTL DEF Spec

(* The pool counts exactly the executions in progress and the CPUs they    *)
(* were given, over all runs, also after any number of crashes.            *)
THEOREM PoolCountsExecutions == Spec => []PoolExact
<1>1. PoolInv => PoolExact
  BY DEF PoolInv
<1>. QED BY <1>1, PoolInvariant, PTL

(* Until the process crashes for the first time the books are exact: the   *)
(* pool, its ceilings, and the slots of every agent instance.  Afterwards  *)
(* recovered workers are reserved without asking the ceilings, and agents  *)
(* may be on disk in a later state than the tasks.                         *)
THEOREM BooksAreExact == Spec => [](epoch = 0 => BooksExact)
<1>1. PoolInv /\ FirstInv => (epoch = 0 => BooksExact)
  BY Zenon DEF PoolInv, FirstInv, BooksExact
<1>. QED BY <1>1, PoolInvariant, FirstInvariant, PTL

-----------------------------------------------------------------------------
(***************************************************************************)
(* The end of a run, when no task is retried.                              *)
(***************************************************************************)
NoRetries == \A t \in Tasks : Retries[t] = 0

AllSettled(x) == \A t \in Tasks : x.task[t] \in Settled
(* What a run shows, in memory and in every snapshot.                      *)
Consistent(x) ==
  /\ x.status \in Terminal => AllSettled(x)
  /\ x.status = "absent" => \A t \in Tasks : x.task[t] # "running"
  /\ x.cancel => \A t \in Tasks : x.task[t] # "pending"
  /\ \A t \in Tasks : x.task[t] = "running" => x.attempt[t] # 0
ConsistentInv ==
  \A r \in Runs : /\ Consistent(disk[r].snap) /\ Consistent(run[r])
                  /\ \A k \in 1..Len(chain[r]) : Consistent(chain[r][k].snap)

(* A running task has an active entry, an execution that is closing has    *)
(* settled its task, and so has execute() all of them when it closes.      *)
ActiveInv ==
  /\ active \in [Runs -> [Tasks -> Nat]]
  /\ \A r \in Runs : r \notin loading =>
       \A t \in Tasks : run[r].task[t] = "running" => active[r][t] # 0
ClosingInv == \A e \in execs : e.at = "closing" => run[e.r].task[e.t] \in Settled
CloseInv ==
  \A r \in Runs : /\ main[r] # "none" => run[r].status # "absent"
                  /\ main[r] = "close" => AllSettled(run[r])
EndInv == ConsistentInv /\ ActiveInv /\ ClosingInv /\ CloseInv

(* A step that at most settles tasks of a run.                             *)
Settles(x, y) ==
  /\ \A t \in Tasks : y.task[t] = x.task[t] \/ y.task[t] \in Settled
  /\ \A t \in Tasks : y.attempt[t] = x.attempt[t]
  /\ y.cancel => x.cancel \/ \A t \in Tasks : y.task[t] # "pending"
  /\ \/ y.status = x.status
     \/ y.status \in {"queued", "running"}
     \/ y.status \in Terminal /\ AllSettled(x)

LEMMA SettlesSame == ASSUME NEW x PROVE Settles(x, x)
BY Zenon DEF Settles

LEMMA SettlesKeeps ==
  ASSUME NEW x, NEW y, Settles(x, y), Consistent(x)
  PROVE  /\ Consistent(y)
         /\ \A t \in Tasks : x.task[t] \in Settled => y.task[t] \in Settled
         /\ \A t \in Tasks : y.task[t] = "running" => x.task[t] = "running"
         /\ x.status # "absent" => y.status # "absent"
<1>1. /\ \A t \in Tasks : x.task[t] \in Settled => y.task[t] \in Settled
      /\ \A t \in Tasks : y.task[t] = "running" => x.task[t] = "running"
      /\ \A t \in Tasks : y.task[t] = "pending" => x.task[t] = "pending"
  BY DEF Settles, Settled
<1>2. y.status \in Terminal => AllSettled(y)
  <2>1. y.status \in Terminal => AllSettled(x)
    BY DEF Settles, Consistent, Terminal
  <2>. QED BY <1>1, <2>1, Zenon DEF AllSettled
<1>3. y.status = "absent" => x.status = "absent"
  BY DEF Settles, Terminal
<1>4. y.status = "absent" => \A t \in Tasks : y.task[t] # "running"
  BY <1>1, <1>3, Zenon DEF Consistent
<1>5. y.cancel => \A t \in Tasks : y.task[t] # "pending"
  BY <1>1, Zenon DEF Settles, Consistent
<1>6. \A t \in Tasks : y.task[t] = "running" => y.attempt[t] # 0
  BY <1>1, Zenon DEF Settles, Consistent
<1>. QED BY <1>1, <1>2, <1>3, <1>4, <1>5, <1>6, Zenon DEF Consistent

(***************************************************************************)
(* The persist calls a step adds show the run as the step leaves it, and   *)
(* what it writes to disk is one of them.                                  *)
(***************************************************************************)
LEMMA ChainStays == ASSUME chain' = chain PROVE ChainFollows
BY CallersType, Zenon DEF ChainFollows, Follows

LEMMA ChainAppends ==
  ASSUME Inv, NEW r \in Runs, NEW w \in Callers, NEW q, PersistAfter(q, r, w),
         q = chain[r] \/ (chain[r] # <<>> /\ q = Tail(chain[r]))
  PROVE  ChainFollows
<1>1. chain \in [Runs -> Seq(Entries)]
  BY DEF Inv, Types
<1>2. chain' = [chain EXCEPT ![r] = Append(q, [who |-> w, snap |-> run'[r]])]
  BY Zenon DEF PersistAfter
<1>3. /\ chain'[r] = Append(q, [who |-> w, snap |-> run'[r]])
      /\ \A s \in Runs : s # r => chain'[s] = chain[s]
  BY <1>1, <1>2
<1>. QED BY <1>3, Zenon DEF ChainFollows, Follows

LEMMA ChainReturns ==
  ASSUME Inv, NEW r \in Runs, NEW w, Persisted(r, w), Pop(r)
  PROVE  ChainFollows
<1>1. chain \in [Runs -> Seq(Entries)]
  BY DEF Inv, Types
<1>2. chain[r] # <<>> /\ chain' = [chain EXCEPT ![r] = Tail(chain[r])]
  BY DEF Persisted, Pop
<1>3. chain'[r] = Tail(chain[r]) /\ \A s \in Runs : s # r => chain'[s] = chain[s]
  BY <1>1, <1>2
<1>. QED BY <1>2, <1>3, CallersType, Zenon DEF ChainFollows, Follows

LEMMA ExecuteChain == ASSUME Inv, NEW r \in Runs, ExecuteStep(r) PROVE ChainFollows
<1>1. Caller("start") \in Callers /\ Caller("main") \in Callers
  BY CallersType
<1>2. CASE SpecWritten(r) \/ FailUnplaceable(r) \/ Close(r)
  BY <1>1, <1>2, ChainAppends, Zenon DEF SpecWritten, FailUnplaceable, Close, Persist
<1>3. CASE Execute(r)
  BY <1>1, <1>3, ChainAppends, Zenon DEF Execute, Persisted
<1>4. CASE EnterLoop(r) \/ Closed(r)
  BY <1>4, ChainReturns, Zenon DEF EnterLoop, Closed
<1>5. CASE LoopCancelled(r) \/ LoopSchedules(r) \/ RaceActive(r)
           \/ ResourceDelay(r) \/ DelayEnds(r) \/ GiveUp(r)
  BY <1>5, ChainStays DEF LoopCancelled, LoopSchedules, RaceActive, ResourceDelay,
     DelayEnds, GiveUp
<1>6. ASSUME NEW t \in Tasks, NEW i \in Instances, Assign(r, t, i) PROVE ChainFollows
  BY <1>6, ChainStays, Zenon DEF Assign
<1>. QED BY <1>2, <1>3, <1>4, <1>5, <1>6, Zenon DEF ExecuteStep

LEMMA TaskChain ==
  ASSUME Inv, NEW e \in execs, TaskStep(e) \/ Heartbeat(e) PROVE ChainFollows
<1>1. /\ e.r \in Runs /\ TaskCaller(e.t, e.a) \in Callers
      /\ Caller("heartbeat") \in Callers
  <2>1. e.r \in Runs /\ e.t \in Tasks /\ e.a \in Nat
    BY ExecType, Zenon DEF Inv
  <2>. QED BY <2>1, CallersType
<1>2. CASE DirectoryMade(e) \/ WorkerReturns(e) \/ WorkerLost(e) \/ Heartbeat(e)
  BY <1>1, <1>2, ChainAppends, Zenon
     DEF DirectoryMade, WorkerReturns, WorkerLost, Heartbeat, Persist
<1>3. CASE LaunchContainer(e) \/ TaskEnds(e)
  BY <1>1, <1>3, ChainReturns, Zenon DEF LaunchContainer, TaskEnds
<1>4. CASE Reattach(e)
  BY <1>4, ChainStays DEF Reattach
<1>. QED BY <1>2, <1>3, <1>4, Zenon DEF TaskStep

LEMMA NextChain == ASSUME Inv, [Next]_vars PROVE Crash \/ ChainFollows
<1>1. Caller("main") \in Callers /\ Caller("cancel") \in Callers
  BY CallersType
<1>2. ASSUME NEW r \in Runs, \/ Start(r) \/ Cancel(r) \/ Write(r)
                             \/ \E t \in Tasks : RemoveWorker(r, t) \/ ContainerExits(r, t)
      PROVE  ChainFollows
  BY <1>2, ChainStays DEF Start, Cancel, Write, RemoveWorker, ContainerExits
<1>3. ASSUME NEW r \in Runs, CancelSaves(r) PROVE ChainFollows
  BY <1>1, <1>3, ChainAppends, Zenon DEF CancelSaves, Persist
<1>4. ASSUME NEW r \in Runs, CancelReturns(r) \/ HeartbeatPersisted(r) PROVE ChainFollows
  BY <1>4, ChainReturns, Zenon DEF CancelReturns, HeartbeatPersisted
<1>5. ASSUME NEW r \in Runs, Load(r) PROVE ChainFollows
  <2>1. CASE run[r].status \in Terminal
    BY <1>5, <2>1, ChainStays DEF Load
  <2>2. CASE run[r].status \notin Terminal
    BY <1>1, <1>5, <2>2, ChainAppends, Zenon DEF Load, Persist
  <2>. QED BY <2>1, <2>2
<1>6. CASE CleanupOrphans \/ UNCHANGED vars
  BY <1>6, ChainStays DEF CleanupOrphans, vars
<1>. QED BY <1>2, <1>3, <1>4, <1>5, <1>6, ExecuteChain, TaskChain, Zenon
         DEF Next, CancelStep

LEMMA SnapshotsConsistent ==
  ASSUME Inv, Inv', ConsistentInv, [Next]_vars, \A r \in Runs : Consistent(run'[r])
  PROVE  ConsistentInv'
<1>1. ASSUME NEW r \in Runs, NEW k \in 1..Len(chain'[r])
      PROVE  Consistent(chain'[r][k].snap)
  <2>1. CASE Crash
    <3>1. chain'[r] = <<>>
      BY <2>1 DEF Crash
    <3>. QED BY <3>1
  <2>2. CASE ChainFollows
    <3> DEFINE c == chain[r]
               d == chain'[r]
               y == run'[r]
    <3>1. PICK w \in Callers : Follows(c, d, w, y)
      BY <2>2, Zenon DEF ChainFollows
    <3>2. c \in Seq(Entries) /\ y \in Snapshots /\ k \in 1..Len(d)
      BY DEF Inv, Types
    <3> HIDE DEF c, d, y
    <3>3. d[k].snap = y \/ \E m \in 1..Len(c) : d[k] = c[m]
      BY <3>1, <3>2, EntryFollows
    <3> USE DEF c, d, y
    <3>. QED BY <3>3, Zenon DEF ConsistentInv
  <2>. QED BY <2>1, <2>2, NextChain, Zenon
<1>2. ASSUME NEW r \in Runs PROVE Consistent(disk'[r].snap)
  <2>1. CASE disk' = disk
    BY <2>1, Zenon DEF ConsistentInv
  <2>2. CASE \E s \in Runs : Write(s)
    <3>1. PICK s \in Runs : Write(s)
      BY <2>2
    <3>2. /\ chain[s] # <<>>
          /\ disk' = [disk EXCEPT ![s] = [snap |-> Head(chain[s]).snap, agents |-> agents[s]]]
      BY <3>1 DEF Write
    <3>3. chain[s] \in Seq(Entries) /\ DOMAIN disk = Runs
      BY DEF Inv, Types
    <3>4. Head(chain[s]) = chain[s][1] /\ 1 \in 1..Len(chain[s])
      BY <3>2, <3>3
    <3>5. Consistent(Head(chain[s]).snap)
      BY <3>4, Zenon DEF ConsistentInv
    <3>6. CASE s = r
      BY <3>2, <3>3, <3>5, <3>6
    <3>7. CASE s # r
      <4>1. disk'[r] = disk[r]
        BY <3>2, <3>7
      <4>. QED BY <4>1, Zenon DEF ConsistentInv
    <3>. QED BY <3>6, <3>7
  <2>. QED BY <2>1, <2>2, DiskWritten, Zenon
<1>. QED BY <1>1, <1>2, Zenon DEF ConsistentInv

(***************************************************************************)
(* The steps that leave the active entries alone: all but Assign, TaskEnds,*)
(* Load and Crash.                                                         *)
(***************************************************************************)
EndKept ==
  /\ active' = active /\ loading' = loading
  /\ \A r \in Runs : Settles(run[r], run'[r])
MainKept ==
  \A r \in Runs :
    /\ main'[r] # "none" => main[r] # "none" \/ run'[r].status # "absent"
    /\ main'[r] = "close" => main[r] = "close" \/ AllSettled(run'[r])
ExecsKept ==
  \A e \in execs' : e.at = "closing" => e \in execs \/ run'[e.r].task[e.t] \in Settled
QuietStep == EndKept /\ MainKept /\ ExecsKept

LEMMA QuietKeeps ==
  ASSUME Inv, Inv', EndInv, [Next]_vars, QuietStep PROVE EndInv'
<1>1. \A r \in Runs : /\ Settles(run[r], run'[r]) /\ Consistent(run[r])
                      /\ Consistent(run'[r])
  BY SettlesKeeps, Zenon DEF QuietStep, EndKept, EndInv, ConsistentInv
<1>2. ConsistentInv'
  BY <1>1, SnapshotsConsistent, Zenon DEF EndInv
<1>3. /\ \A r \in Runs, t \in Tasks : run[r].task[t] \in Settled => run'[r].task[t] \in Settled
      /\ \A r \in Runs, t \in Tasks : run'[r].task[t] = "running" => run[r].task[t] = "running"
      /\ \A r \in Runs : run[r].status # "absent" => run'[r].status # "absent"
  BY <1>1, SettlesKeeps, Zenon
<1>4. ActiveInv'
  BY <1>3, Zenon DEF EndInv, ActiveInv, QuietStep, EndKept
<1>5. ClosingInv'
  <2>1. \A e \in execs : e.r \in Runs /\ e.t \in Tasks
    BY ExecType, Zenon DEF Inv
  <2>. QED BY <1>3, <2>1, Zenon DEF EndInv, ClosingInv, QuietStep, ExecsKept
<1>6. CloseInv'
  BY <1>3, Zenon DEF EndInv, CloseInv, QuietStep, MainKept, AllSettled
<1>. QED BY <1>2, <1>4, <1>5, <1>6, Zenon DEF EndInv

LEMMA SameEnd == ASSUME run' = run, active' = active, loading' = loading PROVE EndKept
BY SettlesSame, Zenon DEF EndKept

LEMMA SameExecs == ASSUME execs' = execs PROVE ExecsKept
BY Zenon DEF ExecsKept

LEMMA SameMain == ASSUME main' = main PROVE MainKept
BY Zenon DEF MainKept

LEMMA MainMoves ==
  ASSUME Inv, NEW r \in Runs, NEW x, main' = [main EXCEPT ![r] = x],
         x = "none" \/ main[r] # "none" \/ run'[r].status # "absent",
         x = "close" => AllSettled(run'[r])
  PROVE  MainKept
<1>1. main'[r] = x /\ \A s \in Runs : s # r => main'[s] = main[s]
  BY DEF Inv, Types
<1>. QED BY <1>1, Zenon DEF MainKept

LEMMA ExecMoves ==
  ASSUME NEW e \in execs, NEW at, execs' = MovedTo(e, at),
         e \in Execs, at = "closing" => run'[e.r].task[e.t] \in Settled
  PROVE  ExecsKept
<1>1. ASSUME NEW f \in execs', f \notin execs PROVE f.r = e.r /\ f.t = e.t /\ f.at = at
  BY <1>1 DEF MovedTo, Execs
<1>. QED BY <1>1, Zenon DEF ExecsKept

LEMMA RunSettles ==
  ASSUME NEW r \in Runs, NEW y, run'[r] = y, \A s \in Runs : s # r => run'[s] = run[s],
         active' = active, loading' = loading, Settles(run[r], y)
  PROVE  EndKept
BY SettlesSame, Zenon DEF EndKept

LEMMA QuietSame ==
  ASSUME Inv, NEW r \in Runs,
         \/ SpecWritten(r) \/ EnterLoop(r) \/ RaceActive(r) \/ ResourceDelay(r)
         \/ DelayEnds(r) \/ Closed(r) \/ CancelStep(r) \/ Write(r)
         \/ HeartbeatPersisted(r) \/ \E t \in Tasks : ContainerExits(r, t)
  PROVE  QuietStep
<1>1. run' = run /\ active' = active /\ loading' = loading /\ execs' = execs
  BY DEF SpecWritten, EnterLoop, RaceActive, ResourceDelay, DelayEnds, Closed,
     CancelStep, RemoveWorker, CancelSaves, CancelReturns, Write, HeartbeatPersisted,
     ContainerExits, Dispatched, runVars, executeVars, startupVars
<1>2. EndKept /\ ExecsKept
  BY <1>1, SameEnd, SameExecs, Zenon
<1>3. CASE CancelStep(r) \/ Write(r) \/ HeartbeatPersisted(r)
           \/ \E t \in Tasks : ContainerExits(r, t)
  <2>1. main' = main
    BY <1>3 DEF CancelStep, RemoveWorker, CancelSaves, CancelReturns, Write,
       HeartbeatPersisted, ContainerExits, executeVars
  <2>. QED BY <1>2, <2>1, SameMain, Zenon DEF QuietStep
<1>4. CASE SpecWritten(r) \/ EnterLoop(r) \/ RaceActive(r) \/ ResourceDelay(r)
           \/ DelayEnds(r) \/ Closed(r)
  <2>1. PICK x \in {"created", "loop", "race", "delay", "none"} :
          main' = [main EXCEPT ![r] = x] /\ main[r] # "none"
    BY <1>4 DEF SpecWritten, EnterLoop, RaceActive, ResourceDelay, DelayEnds, Closed,
       Dispatched
  <2>2. x # "close"
    OBVIOUS
  <2>3. MainKept
    BY <2>1, <2>2, MainMoves, Zenon
  <2>. QED BY <1>2, <2>3, Zenon DEF QuietStep
<1>. QED BY <1>3, <1>4

LEMMA QuietExec ==
  ASSUME Inv, NEW e \in execs,
         DirectoryMade(e) \/ LaunchContainer(e) \/ Reattach(e) \/ Heartbeat(e)
  PROVE  QuietStep
<1>1. run' = run /\ active' = active /\ loading' = loading /\ main' = main
  BY DEF DirectoryMade, LaunchContainer, Reattach, Heartbeat, runVars, executeVars, startupVars
<1>2. e \in Execs
  BY ExecType, Zenon DEF Inv
<1>3. CASE Heartbeat(e)
  BY <1>1, <1>3, SameEnd, SameMain, SameExecs, Zenon DEF QuietStep, Heartbeat
<1>4. CASE DirectoryMade(e) \/ LaunchContainer(e) \/ Reattach(e)
  <2>1. PICK at \in {"saving", "running", "waiting"} : execs' = MovedTo(e, at)
    BY <1>4 DEF DirectoryMade, LaunchContainer, Reattach
  <2>2. at # "closing"
    OBVIOUS
  <2>3. ExecsKept
    BY <1>2, <2>1, <2>2, ExecMoves, Zenon
  <2>. QED BY <1>1, <2>3, SameEnd, SameMain, Zenon DEF QuietStep
<1>. QED BY <1>3, <1>4

LEMMA StatusSettles ==
  ASSUME NEW x \in Snapshots, NEW s \in {"queued", "running"}
  PROVE  Settles(x, [x EXCEPT !.status = s]) /\ [x EXCEPT !.status = s].status = s
<1> DEFINE y == [x EXCEPT !.status = s]
<1>1. y.status = s /\ y.task = x.task /\ y.attempt = x.attempt /\ y.cancel = x.cancel
  BY DEF Snapshots
<1> HIDE DEF y
<1>2. Settles(x, y)
  BY <1>1 DEF Settles
<1>. QED BY <1>1, <1>2 DEF y

LEMMA TasksSettle ==
  ASSUME NEW x \in Snapshots, NEW f,
         \A t \in Tasks : f[t] = x.task[t] \/ f[t] \in Settled
  PROVE  Settles(x, [x EXCEPT !.task = f]) /\ [x EXCEPT !.task = f].task = f
<1> DEFINE y == [x EXCEPT !.task = f]
<1>1. y.status = x.status /\ y.task = f /\ y.attempt = x.attempt /\ y.cancel = x.cancel
  BY DEF Snapshots
<1> HIDE DEF y
<1>2. Settles(x, y)
  BY <1>1, Zenon DEF Settles
<1>. QED BY <1>1, <1>2 DEF y

LEMMA AllAreSettled ==
  ASSUME Inv, NEW r \in Runs, ActiveInv, r \notin loading, ActiveIds(r) = {},
         NEW f, \A t \in Tasks : \/ f[t] = run[r].task[t] /\ f[t] # "pending"
                                 \/ f[t] \in Settled
  PROVE  \A t \in Tasks : f[t] \in Settled
<1>1. \A t \in Tasks : active[r][t] = 0
  BY Zenon DEF ActiveIds
<1>2. \A t \in Tasks : run[r].task[t] # "running" /\ run[r].task[t] \in TaskStatuses
  BY <1>1 DEF ActiveInv, Inv, Types, Snapshots
<1>. QED BY <1>2 DEF TaskStatuses, Settled

LEMMA QuietStart == ASSUME Inv, NEW r \in Runs, Start(r) \/ Execute(r) PROVE QuietStep
<1>1. PICK s \in {"queued", "running"}, x \in {"spec", "started"} :
        run' = [run EXCEPT ![r].status = s] /\ main' = [main EXCEPT ![r] = x]
  BY DEF Start, Execute
<1>2. active' = active /\ loading' = loading /\ execs' = execs
  BY DEF Start, Execute, startupVars
<1>3. run \in [Runs -> Snapshots]
  BY DEF Inv, Types
<1>4. /\ run'[r] = [run[r] EXCEPT !.status = s]
      /\ \A q \in Runs : q # r => run'[q] = run[q]
  BY <1>1, <1>3
<1>5. run[r] \in Snapshots
  BY <1>3
<1>6. Settles(run[r], run'[r]) /\ run'[r].status = s
  <2> DEFINE w == run[r]
  <2>1. w \in Snapshots /\ run'[r] = [w EXCEPT !.status = s] /\ s \in {"queued", "running"}
    BY <1>1, <1>4, <1>5
  <2> HIDE DEF w
  <2>2. Settles(w, [w EXCEPT !.status = s]) /\ [w EXCEPT !.status = s].status = s
    BY <2>1, StatusSettles
  <2>. QED BY <2>1, <2>2 DEF w
<1>7. EndKept
  BY <1>2, <1>4, <1>6, RunSettles, Zenon
<1>8. x # "close" /\ s # "absent"
  OBVIOUS
<1>9. MainKept
  BY <1>1, <1>6, <1>8, MainMoves, Zenon
<1>. QED BY <1>2, <1>7, <1>9, SameExecs, Zenon DEF QuietStep

LEMMA QuietTasks ==
  ASSUME Inv, EndInv, NEW r \in Runs, NEW f, NEW x,
         run' = [run EXCEPT ![r].task = f], main' = [main EXCEPT ![r] = x],
         active' = active, loading' = loading, execs' = execs, main[r] # "none",
         \A t \in Tasks : f[t] = run[r].task[t] \/ f[t] \in Settled,
         x = "close" => \A t \in Tasks : f[t] \in Settled
  PROVE  QuietStep
<1>1. run \in [Runs -> Snapshots]
  BY DEF Inv, Types
<1>2. /\ run'[r] = [run[r] EXCEPT !.task = f]
      /\ \A q \in Runs : q # r => run'[q] = run[q]
  BY <1>1
<1>3. run[r] \in Snapshots
  BY <1>1
<1>4. Settles(run[r], run'[r]) /\ run'[r].task = f
  <2> DEFINE w == run[r]
  <2>1. /\ w \in Snapshots /\ run'[r] = [w EXCEPT !.task = f]
        /\ \A t \in Tasks : f[t] = w.task[t] \/ f[t] \in Settled
    BY <1>2, <1>3
  <2> HIDE DEF w
  <2>2. Settles(w, [w EXCEPT !.task = f]) /\ [w EXCEPT !.task = f].task = f
    BY <2>1, TasksSettle
  <2>. QED BY <2>1, <2>2 DEF w
<1>5. EndKept
  BY <1>2, <1>4, RunSettles, Zenon
<1>6. MainKept
  BY <1>4, MainMoves, Zenon DEF AllSettled
<1>. QED BY <1>5, <1>6, SameExecs, Zenon DEF QuietStep

LEMMA QuietLoop ==
  ASSUME Inv, EndInv, NEW r \in Runs,
         \/ LoopCancelled(r) \/ LoopSchedules(r) \/ FailUnplaceable(r) \/ GiveUp(r)
  PROVE  QuietStep
<1>1. active' = active /\ loading' = loading /\ execs' = execs /\ main[r] # "none"
  BY DEF LoopCancelled, LoopSchedules, FailUnplaceable, GiveUp, Dispatched, startupVars
<1>2. r \notin loading
  BY <1>1, NotLoading, Zenon
<1>3. \A t \in Tasks : Skipped(r)[t] = run[r].task[t] \/ Skipped(r)[t] \in Settled
  BY SkippedOnlyPending DEF Settled
<1>4. CASE LoopSchedules(r)
  <2>1. /\ run' = [run EXCEPT ![r].task = Skipped(r)]
        /\ main' = [main EXCEPT ![r] = "dispatch"]
    BY <1>4 DEF LoopSchedules
  <2>2. "dispatch" # "close"
    OBVIOUS
  <2>. QED BY <1>1, <1>3, <2>1, <2>2, QuietTasks, Zenon
<1>5. CASE LoopCancelled(r)
  <2> DEFINE x == IF ActiveIds(r) = {} THEN "close" ELSE "race"
  <2>1. /\ run' = [run EXCEPT ![r].task = Skipped(r)] /\ run[r].cancel
        /\ main' = [main EXCEPT ![r] = x]
    BY <1>5 DEF LoopCancelled
  <2>2. x = "close" => ActiveIds(r) = {}
    OBVIOUS
  <2>3. \A t \in Tasks : run[r].task[t] # "pending"
    BY <2>1, Zenon DEF EndInv, ConsistentInv, Consistent
  <2>4. ActiveInv
    BY DEF EndInv
  <2>5. x = "close" => \A t \in Tasks : Skipped(r)[t] \in Settled
    BY <1>2, <1>3, <2>2, <2>3, <2>4, AllAreSettled, Zenon
  <2> HIDE DEF x
  <2>. QED BY <1>1, <1>3, <2>1, <2>5, QuietTasks, Zenon
<1>6. CASE FailUnplaceable(r)
  <2> DEFINE f == [t \in Tasks |-> IF Ready(r, t) THEN "failed" ELSE run[r].task[t]]
  <2>1. run' = [run EXCEPT ![r].task = f] /\ main' = [main EXCEPT ![r] = "failing"]
    BY <1>6 DEF FailUnplaceable
  <2>2. "failing" # "close"
    OBVIOUS
  <2>3. \A t \in Tasks : f[t] = run[r].task[t] \/ f[t] \in Settled
    BY DEF Settled
  <2> HIDE DEF f
  <2>. QED BY <1>1, <2>1, <2>2, <2>3, QuietTasks, Zenon
<1>7. CASE GiveUp(r)
  <2> DEFINE f == [t \in Tasks |-> IF run[r].task[t] = "pending" THEN "skipped"
                                   ELSE run[r].task[t]]
  <2>1. /\ run' = [run EXCEPT ![r].task = f] /\ main' = [main EXCEPT ![r] = "close"]
        /\ ActiveIds(r) = {}
    BY <1>7 DEF GiveUp
  <2>2. \A t \in Tasks : \/ f[t] = run[r].task[t] /\ f[t] # "pending"
                         \/ f[t] \in Settled
    BY DEF Settled
  <2>3. ActiveInv
    BY DEF EndInv
  <2> HIDE DEF f
  <2>4. \A t \in Tasks : f[t] \in Settled
    BY <1>2, <2>1, <2>2, <2>3, AllAreSettled, Zenon
  <2>. QED BY <1>1, <2>1, <2>2, <2>4, QuietTasks, Zenon
<1>. QED BY <1>4, <1>5, <1>6, <1>7

LEMMA QuietClose == ASSUME Inv, EndInv, NEW r \in Runs, Close(r) PROVE QuietStep
<1>1. /\ main[r] = "close" /\ run' = [run EXCEPT ![r].status = FinalStatus(r)]
      /\ main' = [main EXCEPT ![r] = "closing"]
      /\ active' = active /\ loading' = loading /\ execs' = execs
  BY DEF Close, startupVars
<1>2. AllSettled(run[r])
  BY <1>1, Zenon DEF EndInv, CloseInv
<1>3. FinalStatus(r) \in Terminal
  BY DEF FinalStatus, Terminal
<1>4. run \in [Runs -> Snapshots]
  BY DEF Inv, Types
<1>5. /\ run'[r] = [run[r] EXCEPT !.status = FinalStatus(r)]
      /\ \A q \in Runs : q # r => run'[q] = run[q]
  BY <1>1, <1>4
<1>6. /\ run'[r].status = FinalStatus(r) /\ run'[r].task = run[r].task
      /\ run'[r].attempt = run[r].attempt /\ run'[r].cancel = run[r].cancel
  BY <1>4, <1>5 DEF Snapshots
<1>7. Settles(run[r], run'[r])
  BY <1>2, <1>3, <1>6, Zenon DEF Settles
<1>8. EndKept
  BY <1>1, <1>5, <1>7, RunSettles, Zenon
<1>9. main[r] # "none" /\ "closing" # "close"
  BY <1>1
<1>10. MainKept
  BY <1>1, <1>9, MainMoves, Zenon
<1>. QED BY <1>1, <1>8, <1>10, SameExecs, Zenon DEF QuietStep

LEMMA QuietCancel == ASSUME Inv, EndInv, NEW r \in Runs, Cancel(r) PROVE QuietStep
<1> DEFINE f == [t \in Tasks |-> IF run[r].task[t] = "pending" THEN "cancelled"
                                 ELSE run[r].task[t]]
           y == [run[r] EXCEPT !.cancel = TRUE, !.task = f]
<1>1. run' = [run EXCEPT ![r] = y]
  BY DEF Cancel
<1>2. main' = main /\ active' = active /\ loading' = loading /\ execs' = execs
  BY DEF Cancel, executeVars, startupVars
<1>3. run \in [Runs -> Snapshots]
  BY DEF Inv, Types
<1>4. \A t \in Tasks : f[t] # "pending" /\ (f[t] = run[r].task[t] \/ f[t] \in Settled)
  BY DEF Settled
<1> HIDE DEF f
<1>5. y.status = run[r].status /\ y.task = f /\ y.attempt = run[r].attempt
  BY <1>3 DEF Snapshots
<1> HIDE DEF y
<1>6. run'[r] = y /\ \A q \in Runs : q # r => run'[q] = run[q]
  BY <1>1, <1>3
<1>7. Settles(run[r], y)
  BY <1>4, <1>5, Zenon DEF Settles
<1>8. EndKept
  BY <1>2, <1>6, <1>7, RunSettles, Zenon
<1>. QED BY <1>2, <1>8, SameExecs, SameMain, Zenon DEF QuietStep

LEMMA QuietWorker ==
  ASSUME Inv, EndInv, NoRetries, NEW e \in execs, WorkerReturns(e) \/ WorkerLost(e)
  PROVE  QuietStep
<1>1. /\ e.at # "closing" /\ execs' = MovedTo(e, "closing")
      /\ main' = main /\ active' = active /\ loading' = loading
  BY DEF WorkerReturns, WorkerLost, executeVars, startupVars
<1>2. e \in Execs /\ e.r \in Runs /\ e.t \in Tasks
  BY ExecType, Zenon DEF Inv
<1>3. run \in [Runs -> Snapshots]
  BY DEF Inv, Types
<1>4. run[e.r].task[e.t] = "running" /\ run[e.r].attempt[e.t] # 0
  <2>1. run[e.r].task[e.t] = "running"
    BY <1>1, Zenon DEF Inv, BusyInv
  <2>. QED BY <1>2, <2>1, Zenon DEF EndInv, ConsistentInv, Consistent
<1>5. RetryStatus(e) = "failed"
  <2>1. run[e.r].attempt[e.t] \in Nat /\ Retries[e.t] = 0
    BY <1>2, <1>3 DEF Snapshots, NoRetries
  <2>. QED BY <1>4, <2>1 DEF RetryStatus
<1>6. PICK v \in Settled : run' = [run EXCEPT ![e.r].task[e.t] = v]
  <2>1. "failed" \in Settled /\ "cancelled" \in Settled /\ "succeeded" \in Settled
    BY DEF Settled
  <2>2. CASE WorkerLost(e)
    BY <1>5, <2>1, <2>2, Zenon DEF WorkerLost
  <2>3. CASE WorkerReturns(e)
    <3>1. PICK ok \in {FALSE, Container(e) = "ok"} :
            run' = [run EXCEPT ![e.r].task[e.t] =
                      IF run[e.r].cancel THEN "cancelled"
                      ELSE IF ok THEN "succeeded" ELSE RetryStatus(e)]
      BY <2>3, Zenon DEF WorkerReturns
    <3> DEFINE v == IF run[e.r].cancel THEN "cancelled"
                    ELSE IF ok THEN "succeeded" ELSE RetryStatus(e)
    <3>2. v \in Settled
      BY <1>5, <2>1, Zenon
    <3>. QED BY <3>1, <3>2, Zenon
  <2>. QED BY <2>2, <2>3
<1> DEFINE r == e.r
           t == e.t
           y == [run[r] EXCEPT !.task[t] = v]
<1>7. run' = [run EXCEPT ![r] = y]
  BY <1>6
<1>8. /\ y.status = run[r].status /\ y.cancel = run[r].cancel
      /\ y.attempt = run[r].attempt /\ y.task = [run[r].task EXCEPT ![t] = v]
  BY <1>2, <1>3 DEF Snapshots
<1>9. run[r].task \in [Tasks -> TaskStatuses]
  BY <1>2, <1>3 DEF Snapshots
<1> HIDE DEF y
<1>10. run'[r] = y /\ \A q \in Runs : q # r => run'[q] = run[q]
  BY <1>2, <1>3, <1>7
<1>11. y.task[t] = v /\ \A u \in Tasks : u # t => y.task[u] = run[r].task[u]
  BY <1>2, <1>8, <1>9
<1>12. Settles(run[r], y)
  BY <1>6, <1>8, <1>11, Zenon DEF Settles
<1>13. EndKept
  BY <1>1, <1>2, <1>10, <1>12, RunSettles, Zenon
<1>14. ExecsKept
  BY <1>1, <1>2, <1>6, <1>10, <1>11, ExecMoves, Zenon
<1>. QED BY <1>1, <1>13, <1>14, SameMain, Zenon DEF QuietStep

LEMMA NextQuiet ==
  ASSUME Inv, EndInv, NoRetries, [Next]_vars
  PROVE  \/ QuietStep \/ Crash
         \/ \E r \in Runs : \/ Load(r)
                            \/ \E t \in Tasks, i \in Instances : Assign(r, t, i)
         \/ \E e \in execs : TaskEnds(e)
<1>1. ASSUME CleanupOrphans \/ UNCHANGED vars PROVE QuietStep
  <2>1. run' = run /\ active' = active /\ loading' = loading /\ main' = main /\ execs' = execs
    BY <1>1 DEF CleanupOrphans, vars, runVars, executeVars, startupVars
  <2>. QED BY <2>1, SameEnd, SameMain, SameExecs, Zenon DEF QuietStep
<1>2. ASSUME NEW r \in Runs, ExecuteStep(r)
      PROVE  QuietStep \/ \E t \in Tasks, i \in Instances : Assign(r, t, i)
  BY <1>2, QuietSame, QuietStart, QuietLoop, QuietClose, Zenon DEF ExecuteStep
<1>3. ASSUME NEW r \in Runs, \/ Start(r) \/ Cancel(r) \/ CancelStep(r) \/ Write(r)
                             \/ HeartbeatPersisted(r) \/ \E t \in Tasks : ContainerExits(r, t)
      PROVE  QuietStep
  BY <1>3, QuietSame, QuietStart, QuietCancel, Zenon
<1>4. ASSUME NEW e \in execs, TaskStep(e) \/ Heartbeat(e)
      PROVE  QuietStep \/ TaskEnds(e)
  BY <1>4, QuietExec, QuietWorker, Zenon DEF TaskStep
<1>. QED BY <1>1, <1>2, <1>3, <1>4, Zenon DEF Next

LEMMA AssignEnds ==
  ASSUME Inv, Inv', EndInv, [Next]_vars, NEW r \in Runs, NEW t \in Tasks,
         NEW i \in Instances, Assign(r, t, i)
  PROVE  EndInv'
<1> DEFINE a == run[r].attempt[t] + 1
           y == [run[r] EXCEPT !.task[t] = "running", !.attempt[t] = a, !.where[t] = i]
<1>1. /\ main[r] = "dispatch" /\ run[r].task[t] = "pending"
      /\ run' = [run EXCEPT ![r] = y] /\ active' = [active EXCEPT ![r][t] = a]
      /\ execs' = execs \cup {[r |-> r, t |-> t, a |-> a, at |-> "mkdir"]}
      /\ main' = main /\ loading' = loading
  BY DEF Assign, Assignable, Ready, startupVars
<1>2. run \in [Runs -> Snapshots] /\ run[r] \in Snapshots
  BY DEF Inv, Types
<1>3. run[r].task \in [Tasks -> TaskStatuses] /\ run[r].attempt \in [Tasks -> Nat]
  BY <1>2 DEF Snapshots
<1>4. a \in Nat /\ a # 0
  BY <1>3
<1>5. /\ y.status = run[r].status /\ y.cancel = run[r].cancel
      /\ y.task = [run[r].task EXCEPT ![t] = "running"]
      /\ y.attempt = [run[r].attempt EXCEPT ![t] = a]
  BY <1>2 DEF Snapshots
<1> HIDE DEF y, a
<1>6. /\ y.task[t] = "running" /\ y.attempt[t] = a
      /\ \A u \in Tasks : u # t => /\ y.task[u] = run[r].task[u]
                                   /\ y.attempt[u] = run[r].attempt[u]
  BY <1>3, <1>5
<1>7. run'[r] = y /\ \A q \in Runs : q # r => run'[q] = run[q]
  BY <1>1, <1>2
<1>8. r \notin loading /\ Consistent(run[r]) /\ run[r].status # "absent"
  BY <1>1, NotLoading, Zenon DEF EndInv, ConsistentInv, CloseInv
<1>9. ~AllSettled(run[r])
  BY <1>1 DEF AllSettled, Settled
<1>10. Consistent(y)
  <2>1. y.status \notin Terminal /\ y.status # "absent"
    BY <1>5, <1>8, <1>9, Zenon DEF Consistent
  <2>2. ~y.cancel
    BY <1>1, <1>5, <1>8, Zenon DEF Consistent
  <2>3. \A u \in Tasks : y.task[u] = "running" => y.attempt[u] # 0
    BY <1>4, <1>6, <1>8, Zenon DEF Consistent
  <2>. QED BY <2>1, <2>2, <2>3, Zenon DEF Consistent
<1>11. \A q \in Runs : Consistent(run'[q])
  BY <1>7, <1>10, Zenon DEF EndInv, ConsistentInv
<1>12. ConsistentInv'
  BY <1>11, SnapshotsConsistent, Zenon DEF EndInv
<1>13. ActiveInv'
  <2>1. active \in [Runs -> [Tasks -> Nat]]
    BY DEF EndInv, ActiveInv
  <2>2. /\ active' \in [Runs -> [Tasks -> Nat]] /\ active'[r][t] = a
        /\ \A q \in Runs : \A u \in Tasks : ~(q = r /\ u = t) => active'[q][u] = active[q][u]
    BY <1>1, <1>4, <2>1
  <2>3. ASSUME NEW q \in Runs, q \notin loading', NEW u \in Tasks, run'[q].task[u] = "running"
        PROVE  active'[q][u] # 0
    <3>1. CASE q = r /\ u = t
      BY <1>4, <2>2, <3>1
    <3>2. CASE ~(q = r /\ u = t)
      <4>1. run[q].task[u] = "running" /\ q \notin loading
        BY <1>1, <1>6, <1>7, <2>3, <3>2
      <4>2. active[q][u] # 0
        BY <4>1, Zenon DEF EndInv, ActiveInv
      <4>. QED BY <2>2, <3>2, <4>2, Zenon
    <3>. QED BY <3>1, <3>2
  <2>. QED BY <2>2, <2>3, Zenon DEF ActiveInv
<1>14. ClosingInv'
  <2>1. SUFFICES ASSUME NEW e \in execs', e.at = "closing"
                 PROVE  run'[e.r].task[e.t] \in Settled
    BY Zenon DEF ClosingInv
  <2>2. e \in execs
    BY <1>1, <2>1
  <2>3. e.r \in Runs /\ e.t \in Tasks /\ run[e.r].task[e.t] \in Settled
    BY <2>1, <2>2, ExecType, Zenon DEF Inv, EndInv, ClosingInv
  <2>4. ~(e.r = r /\ e.t = t)
    BY <1>1, <2>3 DEF Settled
  <2>5. run'[e.r].task[e.t] = run[e.r].task[e.t]
    BY <1>6, <1>7, <2>3, <2>4, Zenon
  <2>. QED BY <2>3, <2>5, Zenon
<1>15. CloseInv'
  <2>1. ASSUME NEW q \in Runs
        PROVE  /\ main'[q] # "none" => run'[q].status # "absent"
               /\ main'[q] = "close" => AllSettled(run'[q])
    <3>1. main'[q] = main[q]
      BY <1>1, Zenon
    <3>2. CASE q = r
      BY <1>1, <1>5, <1>7, <1>8, <3>1, <3>2
    <3>3. CASE q # r
      BY <1>7, <3>1, <3>3, Zenon DEF EndInv, CloseInv
    <3>. QED BY <3>2, <3>3
  <2>. QED BY <2>1, Zenon DEF CloseInv
<1>. QED BY <1>12, <1>13, <1>14, <1>15, Zenon DEF EndInv

LEMMA TaskEndsEnds ==
  ASSUME Inv, Inv', EndInv, [Next]_vars, NEW e \in execs, TaskEnds(e) PROVE EndInv'
<1>1. /\ e.at = "closing" /\ run' = run /\ active' = [active EXCEPT ![e.r][e.t] = 0]
      /\ execs' = execs \ {e} /\ loading' = loading
      /\ \/ main' = main
         \/ main[e.r] = "race" /\ main' = [main EXCEPT ![e.r] = "loop"]
  BY DEF TaskEnds, runVars, startupVars
<1>2. e.r \in Runs /\ e.t \in Tasks /\ run[e.r].task[e.t] \in Settled
  BY <1>1, ExecType, Zenon DEF Inv, EndInv, ClosingInv
<1>3. ConsistentInv'
  BY <1>1, SnapshotsConsistent, Zenon DEF EndInv, ConsistentInv
<1>4. active \in [Runs -> [Tasks -> Nat]]
  BY DEF EndInv, ActiveInv
<1>5. /\ active' \in [Runs -> [Tasks -> Nat]]
      /\ \A q \in Runs : \A u \in Tasks : ~(q = e.r /\ u = e.t) => active'[q][u] = active[q][u]
  BY <1>1, <1>2, <1>4
<1>6. "running" \notin Settled
  BY DEF Settled
<1>7. ActiveInv'
  <2>1. \A q \in Runs : \A u \in Tasks : run[q].task[u] = "running" => ~(q = e.r /\ u = e.t)
    BY <1>2, <1>6, Zenon
  <2>2. ASSUME NEW q \in Runs, q \notin loading', NEW u \in Tasks, run'[q].task[u] = "running"
        PROVE  active'[q][u] # 0
    <3>1. run[q].task[u] = "running" /\ q \notin loading
      BY <1>1, <2>2
    <3>2. active[q][u] # 0
      BY <3>1, Zenon DEF EndInv, ActiveInv
    <3>. QED BY <1>5, <2>1, <3>1, <3>2, Zenon
  <2>. QED BY <1>5, <2>2, Zenon DEF ActiveInv
<1>8. ClosingInv'
  BY <1>1, Zenon DEF EndInv, ClosingInv
<1>9. \A q \in Runs : main'[q] = main[q] \/ (main[q] = "race" /\ main'[q] = "loop")
  BY <1>1, <1>2 DEF Inv, Types
<1>10. CloseInv'
  BY <1>1, <1>9 DEF EndInv, CloseInv
<1>. QED BY <1>3, <1>7, <1>8, <1>10, Zenon DEF EndInv

LEMMA CrashEnds ==
  ASSUME Inv, Inv', EndInv, [Next]_vars, Crash PROVE EndInv'
<1>1. /\ run' = [r \in Runs |-> disk[r].snap] /\ main' = [r \in Runs |-> "none"]
      /\ active' = [r \in Runs |-> [t \in Tasks |-> 0]] /\ execs' = {}
      /\ loading' = {r \in Runs : disk[r].snap.status # "absent"}
  BY DEF Crash
<1>2. \A r \in Runs : Consistent(disk[r].snap) /\ run'[r] = disk[r].snap /\ main'[r] = "none"
  BY <1>1, Zenon DEF EndInv, ConsistentInv
<1>3. ConsistentInv'
  BY <1>2, SnapshotsConsistent, Zenon DEF EndInv
<1>4. ActiveInv'
  <2>1. active' \in [Runs -> [Tasks -> Nat]]
    BY <1>1
  <2>2. \A r \in Runs : r \notin loading' => disk[r].snap.status = "absent"
    BY <1>1, Zenon
  <2>3. \A r \in Runs : r \notin loading' => \A t \in Tasks : run'[r].task[t] # "running"
    BY <1>2, <2>2, Zenon DEF Consistent
  <2>. QED BY <2>1, <2>3, Zenon DEF ActiveInv
<1>5. ClosingInv'
  BY <1>1, Zenon DEF ClosingInv
<1>6. CloseInv'
  BY <1>2 DEF CloseInv
<1>. QED BY <1>3, <1>4, <1>5, <1>6, Zenon DEF EndInv

LEMMA LoadEnds ==
  ASSUME Inv, Inv', EndInv, [Next]_vars, NEW r \in Runs, Load(r) PROVE EndInv'
<1>1. r \in loading /\ loading' = loading \ {r} /\ Consistent(run[r])
  BY Zenon DEF Load, EndInv, ConsistentInv
<1>2. CASE run[r].status \in Terminal
  <2>1. run' = run /\ main' = main /\ active' = active /\ execs' = execs
    BY <1>2, Zenon DEF Load, runVars
  <2>2. ConsistentInv'
    BY <2>1, SnapshotsConsistent, Zenon DEF EndInv, ConsistentInv
  <2>3. \A t \in Tasks : run[r].task[t] # "running"
    BY <1>1, <1>2 DEF Consistent, AllSettled, Settled
  <2>4. ActiveInv'
    BY <1>1, <2>1, <2>3, Zenon DEF EndInv, ActiveInv
  <2>5. ClosingInv' /\ CloseInv'
    BY <2>1, Zenon DEF EndInv, ClosingInv, CloseInv
  <2>. QED BY <2>2, <2>4, <2>5, Zenon DEF EndInv
<1>3. CASE run[r].status \notin Terminal
  <2> DEFINE x == run[r]
             y == [x EXCEPT !.status = "running"]
             f == [t \in Tasks |-> IF t \in Recovered(r) THEN x.attempt[t] ELSE 0]
  <2>1. /\ run' = [run EXCEPT ![r].status = "running"]
        /\ active' = [active EXCEPT ![r] = f]
        /\ main' = [main EXCEPT ![r] = "started"]
        /\ execs' = execs \cup {[r |-> r, t |-> t, a |-> x.attempt[t],
                                 at |-> "recovering"] : t \in Recovered(r)}
    BY <1>3 DEF Load
  <2>2. run \in [Runs -> Snapshots] /\ x \in Snapshots
    BY DEF Inv, Types
  <2>3. Settles(x, y) /\ y.status = "running"
    BY <2>2, StatusSettles
  <2>4. run'[r] = y /\ \A q \in Runs : q # r => run'[q] = run[q]
    BY <2>1, <2>2
  <2>5. y.task = x.task
    BY <2>2 DEF Snapshots
  <2>6. Consistent(y)
    BY <1>1, <2>3, SettlesKeeps, Zenon
  <2>7. f \in [Tasks -> Nat]
    BY <2>2 DEF Snapshots
  <2>8. \A t \in Tasks : x.task[t] = "running" => f[t] # 0
    BY <1>1, <1>3 DEF Recovered, Running, Consistent
  <2> HIDE DEF x, y, f
  <2>9. \A q \in Runs : Consistent(run'[q])
    BY <2>4, <2>6, Zenon DEF EndInv, ConsistentInv
  <2>10. ConsistentInv'
    BY <2>9, SnapshotsConsistent, Zenon DEF EndInv
  <2>11. ActiveInv'
    <3>1. active \in [Runs -> [Tasks -> Nat]]
      BY DEF EndInv, ActiveInv
    <3>2. /\ active' \in [Runs -> [Tasks -> Nat]] /\ active'[r] = f
          /\ \A q \in Runs : q # r => active'[q] = active[q]
      BY <2>1, <2>7, <3>1
    <3>3. ASSUME NEW q \in Runs, q \notin loading', NEW u \in Tasks,
                 run'[q].task[u] = "running"
          PROVE  active'[q][u] # 0
      <4>1. CASE q = r
        BY <2>4, <2>5, <2>8, <3>2, <3>3, <4>1, Zenon
      <4>2. CASE q # r
        <5>1. q \notin loading /\ run[q].task[u] = "running"
          BY <1>1, <2>4, <3>3, <4>2
        <5>. QED BY <3>2, <4>2, <5>1, Zenon DEF EndInv, ActiveInv
      <4>. QED BY <4>1, <4>2
    <3>. QED BY <3>2, <3>3, Zenon DEF ActiveInv
  <2>12. ClosingInv'
    <3>1. SUFFICES ASSUME NEW e \in execs', e.at = "closing"
                   PROVE  run'[e.r].task[e.t] \in Settled
      BY Zenon DEF ClosingInv
    <3>2. e \in execs
      BY <2>1, <3>1
    <3>3. e.r \in Runs /\ run[e.r].task[e.t] \in Settled
      BY <3>1, <3>2, ExecType, Zenon DEF Inv, EndInv, ClosingInv
    <3>. QED BY <2>4, <2>5, <3>3, Zenon DEF x
  <2>13. CloseInv'
    <3>1. main'[r] = "started" /\ \A q \in Runs : q # r => main'[q] = main[q]
      BY <2>1 DEF Inv, Types
    <3>2. run'[r].status # "absent"
      BY <2>3, <2>4
    <3>3. main'[r] # "close"
      BY <3>1
    <3>. QED BY <2>4, <3>1, <3>2, <3>3, Zenon DEF EndInv, CloseInv
  <2>. QED BY <2>10, <2>11, <2>12, <2>13, Zenon DEF EndInv
<1>. QED BY <1>2, <1>3

LEMMA EndStep == ASSUME NoRetries, Inv, Inv', EndInv, [Next]_vars PROVE EndInv'
BY NextQuiet, QuietKeeps, AssignEnds, TaskEndsEnds, CrashEnds, LoadEnds, Zenon

LEMMA EndInit == ASSUME Init PROVE EndInv
<1>1. /\ run = [r \in Runs |-> NewRun] /\ main = [r \in Runs |-> "none"]
      /\ active = [r \in Runs |-> [t \in Tasks |-> 0]] /\ execs = {}
      /\ chain = [r \in Runs |-> <<>>]
      /\ disk = [r \in Runs |-> [snap |-> NewRun, agents |-> NewAgents]]
  BY DEF Init
<1>2. Consistent(NewRun)
  BY DEF Consistent, NewRun, Terminal
<1>3. ConsistentInv
  BY <1>1, <1>2 DEF ConsistentInv
<1>4. ActiveInv
  BY <1>1 DEF ActiveInv, NewRun
<1>5. ClosingInv /\ CloseInv
  BY <1>1 DEF ClosingInv, CloseInv
<1>. QED BY <1>3, <1>4, <1>5 DEF EndInv

(* A run that shows its end has no task left to run or still running, also *)
(* after crashes, if no task is ever retried.  With retries it is false:   *)
(* the end of a failed attempt deletes the active entry of its retry, and  *)
(* the run may be closed while the retry runs.                             *)
THEOREM EndedRunsAreSettled == NoRetries => (Spec => []EndedRunSettled)
<1>1. ASSUME NoRetries PROVE Spec => []EndedRunSettled
  <2>1. EndInv => EndedRunSettled
    BY Zenon DEF EndInv, ConsistentInv, Consistent, AllSettled, EndedRunSettled
  <2>2. Inv /\ Inv' /\ EndInv /\ [Next]_vars => EndInv'
    BY <1>1, EndStep, Zenon
  <2>. QED BY <2>1, <2>2, EndInit, Invariant, PTL DEF Spec
<1>. QED BY <1>1
====
