------------------------------ MODULE DaemonProofs ------------------------------
(***************************************************************************)
(* What holds of the daemon's services for every set of records, calls and *)
(* requests, and any number of restarts: the scorecard never goes back, a  *)
(* prompt is generated once, and a revocation lasts.                       *)
(***************************************************************************)
EXTENDS Daemon, FiniteSetTheorems, SequenceTheorems, TLAPS

-----------------------------------------------------------------------------
(***************************************************************************)
(* The scorecard.  The snapshots that wait are ordered and below the       *)
(* counters, and above the file once the process has read or written it;   *)
(* what waits from dispose()'s own snapshot on holds what is owed.         *)
(***************************************************************************)
ScoreType ==
  /\ score \in Nat /\ diskScore \in Nat /\ owed \in Nat /\ awaited \in Nat
  /\ persists \in Seq(Nat)
  /\ closing \in {"no", "flush", "drain"}
  /\ unread \in BOOLEAN /\ lost \in BOOLEAN

Ordered ==
  /\ \A i \in 1..Len(persists) : persists[i] <= score
  /\ \A i, j \in 1..Len(persists) : i <= j => persists[i] <= persists[j]

AboveFile ==
  ~unread =>
    /\ diskScore <= score
    /\ \A i \in 1..Len(persists) : diskScore <= persists[i]

Owing ==
  /\ owed <= score
  /\ awaited <= Len(persists)
  /\ closing # "no" =>
       \A i \in 1..Len(persists) : closing = "drain" \/ awaited <= i => persists[i] >= owed
  /\ closing = "drain" \/ (closing = "flush" /\ awaited = 0) => lost \/ diskScore >= owed

ScoreInv == ScoreType /\ Ordered /\ AboveFile /\ Owing

(* The ordered snapshots are what ScoreKept asks for.                      *)
LEMMA ScoreInvKept == ScoreInv => ScoreKept
<1> SUFFICES ASSUME ScoreInv PROVE ScoreKept
  OBVIOUS
<1> USE DEF ScoreInv, ScoreType
<1>1. closing = "drain" => lost \/ diskScore >= owed
  BY DEF Owing
<1>2. ASSUME NEW i \in 1..Len(persists)
      PROVE  persists[i] >= IF i > 1 THEN persists[i - 1] ELSE IF unread THEN 0 ELSE diskScore
  <2>1. CASE i > 1
    <3>1. i - 1 \in 1..Len(persists) /\ i - 1 <= i
      BY <2>1
    <3> QED BY <2>1, <3>1 DEF Ordered
  <2>2. CASE ~(i > 1)
    <3>1. persists[i] >= 0 /\ (unread \/ persists[i] >= diskScore)
      BY DEF AboveFile
    <3> QED BY <2>2, <3>1
  <2> QED BY <2>1, <2>2
<1>3. unread \/ diskScore <= score
  BY DEF AboveFile
<1> QED BY <1>1, <1>2, <1>3 DEF ScoreKept, Ordered

(* The variables the invariant is about.                                   *)
scoreInvVars == <<score, persists, diskScore, unread, closing, awaited, owed, lost>>

LEMMA ScoreUnchanged == ASSUME ScoreInv, UNCHANGED scoreInvVars PROVE ScoreInv'
BY DEF ScoreInv, ScoreType, Ordered, AboveFile, Owing, scoreInvVars

(* Counting more leaves the snapshots where they are.                      *)
LEMMA ScoreGrows ==
  ASSUME ScoreInv, score' \in Nat, score' >= score,
         UNCHANGED <<persists, diskScore, unread, closing, awaited, owed, lost>>
  PROVE  ScoreInv'
<1> USE DEF ScoreInv, ScoreType
<1>1. Ordered'
  BY DEF Ordered
<1>2. AboveFile'
  BY DEF AboveFile
<1>3. Owing'
  BY DEF Owing
<1> QED BY <1>1, <1>2, <1>3

(* serve() counts up.                                                      *)
LEMMA ServeCounts ==
  ASSUME ScoreInv, NEW generated \in Nat, NEW n \in Nat, NEW useful \in BOOLEAN,
         Serve(generated, n, useful)
  PROVE  score' \in Nat /\ score' >= score
BY DEF ScoreInv, ScoreType, Serve

(* A snapshot of the counters is appended.                                 *)
LEMMA SnapshotAppended ==
  ASSUME ScoreInv, persists' = Append(persists, score), UNCHANGED <<score, diskScore, unread>>
  PROVE  /\ Ordered' /\ AboveFile'
         /\ persists' \in Seq(Nat) /\ Len(persists') = Len(persists) + 1
         /\ \A i \in 1..Len(persists) : persists'[i] = persists[i]
         /\ persists'[Len(persists) + 1] = score
<1> USE DEF ScoreInv, ScoreType
<1>1. /\ persists' \in Seq(Nat) /\ Len(persists') = Len(persists) + 1
      /\ \A i \in 1..Len(persists) : persists'[i] = persists[i]
      /\ persists'[Len(persists) + 1] = score
  BY AppendProperties
<1>2. \A i \in 1..Len(persists') : i \in 1..Len(persists) \/ i = Len(persists) + 1
  BY <1>1
<1>3. \A i \in 1..Len(persists') : persists'[i] <= score'
  BY <1>1, <1>2 DEF Ordered
<1>4. ASSUME NEW i \in 1..Len(persists'), NEW j \in 1..Len(persists'), i <= j
      PROVE  persists'[i] <= persists'[j]
  <2>1. CASE j = Len(persists) + 1
    BY <1>1, <1>3, <2>1
  <2>2. CASE j \in 1..Len(persists)
    <3>1. i \in 1..Len(persists)
      BY <1>1, <1>4, <2>2
    <3> QED BY <1>1, <1>4, <2>2, <3>1 DEF Ordered
  <2> QED BY <1>2, <2>1, <2>2
<1>5. AboveFile'
  BY <1>1, <1>2 DEF AboveFile
<1> QED BY <1>1, <1>3, <1>4, <1>5 DEF Ordered

(* The next snapshot is written, or its write fails.                       *)
LEMMA PersistKeeps ==
  ASSUME ScoreInv, NEW written \in BOOLEAN, PersistNext(written)
  PROVE  ScoreInv'
<1> USE DEF ScoreInv, ScoreType
<1>1. /\ persists # <<>> /\ diskScore' = IF written THEN persists[1] ELSE diskScore
      /\ persists' = [i \in 1..(Len(persists) - 1) |-> persists[i + 1]]
      /\ awaited' = IF awaited = 0 THEN 0 ELSE awaited - 1
      /\ unread' = (unread /\ ~written)
      /\ lost' = (~written /\ (lost \/ (closing = "flush" /\ awaited = 1)))
      /\ UNCHANGED <<score, closing, owed>>
  BY DEF PersistNext, NextSnapshot
<1>2. Len(persists) \in Nat \ {0} /\ 1 \in 1..Len(persists) /\ persists[1] \in Nat
  BY <1>1, EmptySeq
<1>3. persists' \in Seq(Nat) /\ Len(persists') = Len(persists) - 1
  BY <1>1, <1>2
<1>4. \A i \in 1..Len(persists') :
        /\ i + 1 \in 1..Len(persists) /\ 1 <= i + 1 /\ persists'[i] = persists[i + 1]
        /\ persists[i + 1] \in Nat
  BY <1>1, <1>2, <1>3
<1>5. ScoreType'
  <2>1. unread' \in BOOLEAN /\ lost' \in BOOLEAN
    BY <1>1, Zenon
  <2> QED BY <1>1, <1>2, <1>3, <2>1
<1>6. Ordered'
  <2>1. ASSUME NEW i \in 1..Len(persists') PROVE persists'[i] <= score'
    BY <1>1, <1>4 DEF Ordered
  <2>2. ASSUME NEW i \in 1..Len(persists'), NEW j \in 1..Len(persists'), i <= j
        PROVE  persists'[i] <= persists'[j]
    <3>1. i + 1 <= j + 1
      BY <1>3, <2>2
    <3> QED BY <1>4, <3>1 DEF Ordered
  <2> QED BY <2>1, <2>2 DEF Ordered
<1>7. AboveFile'
  <2>1. CASE written
    BY <1>1, <1>2, <1>4, <2>1 DEF Ordered, AboveFile
  <2>2. CASE ~written
    BY <1>1, <1>4, <2>2 DEF AboveFile
  <2> QED BY <2>1, <2>2
<1>8. Owing'
  <2>1. owed' <= score' /\ awaited' <= Len(persists')
    BY <1>1, <1>2, <1>3 DEF Owing
  <2>2. ASSUME closing' # "no", NEW i \in 1..Len(persists'),
               closing' = "drain" \/ awaited' <= i
        PROVE  persists'[i] >= owed'
    <3>1. closing = "drain" \/ awaited <= i + 1
      BY <1>1, <1>3, <2>2
    <3> QED BY <1>1, <1>4, <2>2, <3>1 DEF Owing
  <2>3. ASSUME closing' = "drain" \/ (closing' = "flush" /\ awaited' = 0)
        PROVE  lost' \/ diskScore' >= owed'
    <3>1. awaited \in {0, 1} \/ closing = "drain"
      BY <1>1, <2>3
    <3>2. CASE written
      <4>1. persists[1] >= owed
        BY <1>1, <1>2, <2>3, <3>1 DEF Owing
      <4> QED BY <1>1, <3>2, <4>1
    <3>3. CASE ~written
      <4>1. CASE closing = "flush" /\ awaited = 1
        BY <1>1, <3>3, <4>1
      <4>2. CASE closing = "drain" \/ awaited = 0
        <5>1. lost \/ diskScore >= owed
          BY <1>1, <2>3, <4>2 DEF Owing
        <5> QED BY <1>1, <3>3, <5>1
      <4> QED BY <1>1, <2>3, <3>1, <4>1, <4>2
    <3> QED BY <3>2, <3>3
  <2> QED BY <2>1, <2>2, <2>3 DEF Owing
<1> QED BY <1>5, <1>6, <1>7, <1>8

(* dispose() owes what has been counted, and its own snapshot holds it.    *)
LEMMA DisposeKeeps == ASSUME ScoreInv, Dispose PROVE ScoreInv'
<1> USE DEF ScoreInv, ScoreType
<1>1. /\ closing' = "flush" /\ owed' = score /\ awaited' = Len(persists) + 1
      /\ persists' = Append(persists, score) /\ UNCHANGED <<score, diskScore, unread>>
      /\ lost' = FALSE
  BY DEF Dispose
<1>2. /\ Ordered' /\ AboveFile'
      /\ persists' \in Seq(Nat) /\ Len(persists') = Len(persists) + 1
      /\ persists'[Len(persists) + 1] = score
  BY <1>1, SnapshotAppended
<1>3. Len(persists) \in Nat
  BY LenProperties
<1>4. ScoreType'
  <2>1. unread' \in BOOLEAN /\ lost' \in BOOLEAN
    BY <1>1, Zenon
  <2> QED BY <1>1, <1>2, <1>3, <2>1
<1>5. Owing'
  <2>1. \A i \in 1..Len(persists') : awaited' <= i => persists'[i] >= owed'
    BY <1>1, <1>2, <1>3
  <2> QED BY <1>1, <1>2, <1>3, <2>1 DEF Owing
<1> QED BY <1>2, <1>4, <1>5

(* The timer's snapshot comes after those that are awaited.                *)
LEMMA TimerKeeps == ASSUME ScoreInv, TimerFires PROVE ScoreInv'
<1> USE DEF ScoreInv, ScoreType
<1>1. /\ persists' = Append(persists, score)
      /\ UNCHANGED <<score, diskScore, unread, closing, awaited, owed, lost>>
  BY DEF TimerFires, closeVars
<1>2. /\ Ordered' /\ AboveFile'
      /\ persists' \in Seq(Nat) /\ Len(persists') = Len(persists) + 1
      /\ \A i \in 1..Len(persists) : persists'[i] = persists[i]
      /\ persists'[Len(persists) + 1] = score
  BY <1>1, SnapshotAppended
<1>3. Len(persists) \in Nat
  BY LenProperties
<1>4. ScoreType'
  BY <1>1, <1>2
<1>5. Owing'
  <2>1. ASSUME closing' # "no", NEW i \in 1..Len(persists'),
               closing' = "drain" \/ awaited' <= i
        PROVE  persists'[i] >= owed'
    <3>1. CASE i = Len(persists) + 1
      BY <1>1, <1>2, <3>1 DEF Owing
    <3>2. CASE i \in 1..Len(persists)
      BY <1>1, <1>2, <2>1, <3>2 DEF Owing
    <3> QED BY <1>2, <1>3, <3>1, <3>2
  <2> QED BY <1>1, <1>2, <1>3, <2>1 DEF Owing
<1> QED BY <1>2, <1>4, <1>5

LEMMA FlushedKeeps == ASSUME ScoreInv, Flushed PROVE ScoreInv'
<1> USE DEF ScoreInv, ScoreType
<1>1. /\ closing = "flush" /\ awaited = 0 /\ closing' = "drain"
      /\ awaited' = Len(persists)
      /\ UNCHANGED <<score, persists, diskScore, unread, owed, lost>>
  BY DEF Flushed, scoreVars
<1>2. Len(persists) \in Nat
  BY LenProperties
<1>3. ScoreType' /\ Ordered' /\ AboveFile'
  BY <1>1, <1>2 DEF Ordered, AboveFile
<1>4. Owing'
  BY <1>1, <1>2 DEF Owing
<1> QED BY <1>3, <1>4

(* Every step of the engine keeps the snapshots in order.                  *)
LEMMA ScoreEngineStep == ASSUME ScoreInv, PredictionRequest \/ PredictionStep PROVE ScoreInv'
<1> USE DEF scoreInvVars, scoreVars, closeVars
<1>1. ASSUME NEW a \in Clients, NEW p \in Prompts, NEW expired \in SUBSET Prompts,
             Ask(a, p, expired)
      PROVE  ScoreInv'
  BY <1>1, ScoreUnchanged DEF Ask
<1>2. ASSUME NEW expired \in SUBSET Prompts, RecordFeedback(expired) PROVE ScoreInv'
  BY <1>2, ScoreGrows DEF RecordFeedback, ScoreInv, ScoreType
<1>3. CASE ClearCache
  BY <1>3, ScoreUnchanged DEF ClearCache
<1>4. ASSUME NEW a \in Clients, Hit(a) PROVE ScoreInv'
  <2>1. PICK e \in Cached(ask[a].prompt) : Serve(0, 1, e.useful)
    BY <1>4 DEF Hit
  <2>2. score' \in Nat /\ score' >= score
    BY <2>1 DEF Serve, ScoreInv, ScoreType
  <2> QED BY <1>4, <2>2, ScoreGrows DEF Hit
<1>5. ASSUME NEW a \in Clients, Continuation(a) PROVE ScoreInv'
  <2>1. score' \in Nat /\ score' >= score
    BY <1>5 DEF Continuation, Serve, ScoreInv, ScoreType
  <2> QED BY <1>5, <2>1, ScoreGrows DEF Continuation
<1>6. ASSUME NEW a \in Clients, Join(a) \/ Miss(a) \/ GenerationFails(a) PROVE ScoreInv'
  BY <1>6, ScoreUnchanged DEF Join, Miss, GenerationFails
<1>7. ASSUME NEW a \in Clients, NEW useful \in BOOLEAN, Generated(a, useful) PROVE ScoreInv'
  <2>1. Answered(a) \subseteq Clients
    BY DEF Answered
  <2>2. Cardinality(Answered(a)) \in Nat
    BY <2>1, PredictionAssumption, FS_Subset, FS_CardinalityType
  <2>3. Serve(1, Cardinality(Answered(a)), useful)
    BY <1>7 DEF Generated
  <2>4. score' \in Nat /\ score' >= score
    BY <2>2, <2>3, ServeCounts
  <2> QED BY <1>7, <2>4, ScoreGrows DEF Generated
<1> QED BY <1>1, <1>2, <1>3, <1>4, <1>5, <1>6, <1>7, TimerKeeps, PersistKeeps, FlushedKeeps
        DEF PredictionRequest, PredictionStep

LEMMA ScoreStep == ASSUME ScoreInv, [Next]_vars PROVE ScoreInv'
<1> USE DEF scoreInvVars, predictionVars, scoreVars, closeVars
<1>1. CASE Request
  BY <1>1, ScoreEngineStep, ScoreUnchanged DEF Request
<1>2. CASE Step
  BY <1>2, ScoreEngineStep, ScoreUnchanged DEF Step
<1>3. CASE Close
  BY <1>3, DisposeKeeps DEF Close
<1>4. CASE Restart
  <2>1. /\ score' \in {0, diskScore} /\ diskScore' = diskScore /\ persists' = <<>>
        /\ unread' = (score' # diskScore)
        /\ closing' = "no" /\ awaited' = 0 /\ owed' = 0 /\ lost' = FALSE
    BY <1>4 DEF Restart
  <2>2. persists' \in Seq(Nat) /\ Len(persists') = 0
    BY <2>1, EmptySeq
  <2>3. unread' \in BOOLEAN /\ lost' \in BOOLEAN /\ (~unread' => score' = diskScore')
    BY <2>1, Zenon
  <2>4. ScoreType'
    BY <2>1, <2>2, <2>3 DEF ScoreInv, ScoreType
  <2>5. Ordered' /\ AboveFile'
    BY <2>2, <2>3, <2>4 DEF ScoreType, Ordered, AboveFile
  <2>6. Owing'
    BY <2>1, <2>2, <2>4 DEF ScoreType, Owing
  <2> QED BY <2>4, <2>5, <2>6 DEF ScoreInv
<1>5. CASE UNCHANGED vars
  BY <1>5, ScoreUnchanged DEF vars
<1> QED BY <1>1, <1>2, <1>3, <1>4, <1>5 DEF Next

(* Once a process has read or written the scorecard file, the file never   *)
(* goes back, and when dispose() returns it holds what was counted before  *)
(* the call, unless dispose()'s write and those after it failed: for every *)
(* number of requests, snapshots that wait, failed writes and restarts,    *)
(* among them starts that do not read the file.                            *)
THEOREM ScorecardKept == Spec => []ScoreKept
<1>1. ServiceInit => ScoreInv
  <2> SUFFICES ASSUME ServiceInit PROVE ScoreInv
    OBVIOUS
  <2>1. /\ score = 0 /\ diskScore = 0 /\ persists = <<>> /\ unread = FALSE
        /\ closing = "no" /\ awaited = 0 /\ owed = 0 /\ lost = FALSE
    BY DEF ServiceInit, PredictionsInit
  <2>2. unread \in BOOLEAN /\ lost \in BOOLEAN
    BY <2>1, Zenon
  <2>3. persists \in Seq(Nat) /\ Len(persists) = 0
    BY <2>1, EmptySeq
  <2> QED BY <2>1, <2>2, <2>3 DEF ScoreInv, ScoreType, Ordered, AboveFile, Owing
<1>2. ScoreInv /\ [Next]_vars => ScoreInv'
  BY ScoreStep
<1> QED BY <1>1, <1>2, ScoreInvKept, PTL DEF Spec

-----------------------------------------------------------------------------
(***************************************************************************)
(* The generations.  Since the last clear, the request that generates the  *)
(* answer to a single prompt is the one in flight.                         *)
(***************************************************************************)
AskType ==
  [at : {"idle", "lookup", "joined", "generating"}, prompt : Prompts \cup {<<>>},
   of : Clients \cup {Nobody}]

GenerationType ==
  /\ ask \in [Clients -> AskType]
  /\ flight \in [Prompts -> Clients \cup {Nobody}]
  /\ fresh \subseteq Clients

Generating ==
  /\ \A a \in Clients :
       /\ ask[a].at # "idle" => ask[a].prompt \in Prompts
       /\ ask[a].at = "generating" => ask[a].of = a
  /\ \A a \in fresh :
       /\ ask[a].at = "generating"
       /\ ask[a].prompt[1] = "single" => flight[ask[a].prompt] = a

GenerationInv == GenerationType /\ Generating

LEMMA GenerationUnchanged ==
  ASSUME GenerationInv, UNCHANGED <<ask, flight, fresh>> PROVE GenerationInv'
BY DEF GenerationInv, GenerationType, Generating

(* A request that does not generate may change its place.                  *)
LEMMA AskChanges ==
  ASSUME GenerationInv, NEW a \in Clients, NEW x \in AskType, ask[a].at # "generating",
         x.at # "generating", x.at # "idle" => x.prompt \in Prompts,
         ask' = [ask EXCEPT ![a] = x], UNCHANGED <<flight, fresh>>
  PROVE  GenerationInv'
<1> USE DEF GenerationInv, GenerationType, Generating
<1>1. a \notin fresh
  OBVIOUS
<1>2. /\ ask' \in [Clients -> AskType] /\ ask'[a] = x
      /\ \A b \in Clients \ {a} : ask'[b] = ask[b]
  OBVIOUS
<1> QED BY <1>1, <1>2

(* The request that starts the generation puts itself in flight.           *)
LEMMA MissKeeps == ASSUME GenerationInv, NEW a \in Clients, Miss(a) PROVE GenerationInv'
<1> USE DEF GenerationInv, GenerationType, Generating
<1>1. PICK x : x = [ask[a] EXCEPT !.at = "generating", !.of = a]
  OBVIOUS
<1>2. /\ ask[a].at = "lookup" /\ ask[a].prompt \in Prompts /\ flight[ask[a].prompt] = Nobody
      /\ ask' = [ask EXCEPT ![a] = x]
      /\ flight' = [flight EXCEPT ![ask[a].prompt] = a]
      /\ fresh' = fresh \cup {a}
  BY <1>1 DEF Miss
<1>3. x \in AskType /\ x.at = "generating" /\ x.of = a /\ x.prompt = ask[a].prompt
  <2>1. ask[a] \in AskType
    OBVIOUS
  <2> QED BY <1>1, <2>1 DEF AskType
<1>4. /\ ask' \in [Clients -> AskType] /\ ask'[a] = x
      /\ \A b \in Clients \ {a} : ask'[b] = ask[b]
  BY <1>2, <1>3
<1>5. /\ flight' \in [Prompts -> Clients \cup {Nobody}] /\ flight'[ask[a].prompt] = a
      /\ \A p \in Prompts : p # ask[a].prompt => flight'[p] = flight[p]
  BY <1>2
<1>6. ASSUME NEW b \in fresh, b # a, ask[b].prompt[1] = "single"
      PROVE  flight'[ask[b].prompt] = b
  <2>1. flight[ask[b].prompt] = b /\ b # Nobody /\ ask[b].prompt \in Prompts
    BY <1>6, PredictionAssumption
  <2> QED BY <1>2, <1>5, <2>1
<1>7. GenerationType'
  BY <1>2, <1>4, <1>5
<1>8. \A b \in Clients :
        /\ ask'[b].at # "idle" => ask'[b].prompt \in Prompts
        /\ ask'[b].at = "generating" => ask'[b].of = b
  BY <1>2, <1>3, <1>4
<1>9. \A b \in fresh' :
        /\ ask'[b].at = "generating"
        /\ ask'[b].prompt[1] = "single" => flight'[ask'[b].prompt] = b
  BY <1>2, <1>3, <1>4, <1>5, <1>6
<1>10. Generating'
  BY <1>8, <1>9 DEF Generating
<1> QED BY <1>7, <1>10, Zenon DEF GenerationInv

(* The request that ends detaches no other: what it removes is its own, or *)
(* a multi-file prompt's.                                                  *)
LEMMA FinishKeeps == ASSUME GenerationInv, NEW a \in Clients, Finish(a) PROVE GenerationInv'
<1> USE DEF GenerationInv, GenerationType, Generating
<1>1. /\ ask[a].at = "generating"
      /\ ask' = [b \in Clients |-> IF b \in Answered(a) THEN NotAsking ELSE ask[b]]
      /\ flight' = Landed(a) /\ fresh' = fresh \ {a}
  BY DEF Finish
<1>2. NotAsking \in AskType /\ NotAsking.at = "idle"
  BY DEF NotAsking, AskType
<1>3. ask' \in [Clients -> AskType]
  BY <1>1, <1>2
<1>4. ask[a].prompt \in Prompts
  BY <1>1
<1>5. flight' \in [Prompts -> Clients \cup {Nobody}]
  BY <1>1, <1>4 DEF Landed
<1>6. ASSUME NEW b \in fresh'
      PROVE  ask'[b] = ask[b] /\ (ask[b].prompt[1] = "single" => flight'[ask[b].prompt] = b)
  <2>1. b \in fresh /\ b \in Clients /\ b # a /\ ask[b].of = b /\ ask[b].prompt \in Prompts
    BY <1>1
  <2>2. b \notin Answered(a)
    BY <2>1 DEF Answered
  <2>3. ASSUME ask[b].prompt[1] = "single" PROVE flight'[ask[b].prompt] = flight[ask[b].prompt]
    <3>1. CASE ask[a].prompt = ask[b].prompt
      <4>1. flight[ask[a].prompt] # a /\ ask[a].prompt[1] # "multi"
        BY <2>1, <2>3, <3>1
      <4> QED BY <1>1, <4>1 DEF Landed
    <3>2. CASE ask[a].prompt # ask[b].prompt
      BY <1>1, <1>4, <2>1, <3>2 DEF Landed
    <3> QED BY <3>1, <3>2
  <2> QED BY <1>1, <2>1, <2>2, <2>3
<1>7. \A b \in Clients :
        /\ ask'[b].at # "idle" => ask'[b].prompt \in Prompts
        /\ ask'[b].at = "generating" => ask'[b].of = b
  BY <1>1, <1>2
<1>8. fresh' \subseteq Clients /\ fresh' \subseteq fresh
  BY <1>1
<1>9. GenerationType'
  BY <1>3, <1>5, <1>8, Zenon DEF GenerationType
<1>10. \A b \in fresh' :
        /\ ask'[b].at = "generating"
        /\ ask'[b].prompt[1] = "single" => flight'[ask'[b].prompt] = b
  BY <1>6, <1>8
<1>11. Generating'
  BY <1>7, <1>10 DEF Generating
<1> QED BY <1>9, <1>11, Zenon DEF GenerationInv

LEMMA GenerationStep == ASSUME GenerationInv, [Next]_vars PROVE GenerationInv'
<1> USE DEF predictionVars, scoreVars, closeVars
<1>1. ASSUME NEW a \in Clients, NEW p \in Prompts, NEW expired \in SUBSET Prompts,
             Ask(a, p, expired)
      PROVE  GenerationInv'
  <2>1. PICK x : x = [at |-> "lookup", prompt |-> p, of |-> Nobody]
    OBVIOUS
  <2>2. x \in AskType /\ x.at = "lookup" /\ x.prompt = p
    BY <2>1 DEF AskType
  <2>3. ask[a].at # "generating" /\ ask' = [ask EXCEPT ![a] = x] /\ UNCHANGED <<flight, fresh>>
    BY <1>1, <2>1 DEF Ask, NotAsking
  <2> QED BY <2>2, <2>3, AskChanges
<1>2. ASSUME NEW a \in Clients, Hit(a) \/ Continuation(a) PROVE GenerationInv'
  <2>1. NotAsking \in AskType /\ NotAsking.at = "idle"
    BY DEF NotAsking, AskType
  <2>2. ask[a].at # "generating" /\ ask' = [ask EXCEPT ![a] = NotAsking]
        /\ UNCHANGED <<flight, fresh>>
    BY <1>2 DEF Hit, Continuation
  <2> QED BY <2>1, <2>2, AskChanges
<1>3. ASSUME NEW a \in Clients, Join(a) PROVE GenerationInv'
  <2>1. PICK x : x = [ask[a] EXCEPT !.at = "joined", !.of = flight[ask[a].prompt]]
    OBVIOUS
  <2>2. /\ ask[a] \in AskType /\ ask[a].at = "lookup" /\ ask[a].prompt \in Prompts
        /\ ask' = [ask EXCEPT ![a] = x] /\ UNCHANGED <<flight, fresh>>
    BY <1>3, <2>1 DEF Join, GenerationInv, GenerationType, Generating
  <2>3. flight[ask[a].prompt] \in Clients \cup {Nobody}
    BY <2>2 DEF GenerationInv, GenerationType
  <2>4. x \in AskType /\ x.at = "joined" /\ x.prompt = ask[a].prompt
    BY <2>1, <2>2, <2>3 DEF AskType
  <2> QED BY <2>2, <2>4, AskChanges
<1>4. ASSUME NEW a \in Clients, NEW useful \in BOOLEAN, Generated(a, useful) PROVE GenerationInv'
  BY <1>4, FinishKeeps DEF Generated
<1>5. ASSUME NEW a \in Clients, GenerationFails(a) PROVE GenerationInv'
  BY <1>5, FinishKeeps DEF GenerationFails
<1>6. CASE ClearCache
  <2>1. /\ ask' = ask /\ fresh' = {} /\ flight' = [p \in Prompts |-> Nobody]
    BY <1>6 DEF ClearCache
  <2> QED BY <2>1 DEF GenerationInv, GenerationType, Generating
<1>7. CASE TimerFires \/ (\E written \in BOOLEAN : PersistNext(written)) \/ Flushed
  BY <1>7, GenerationUnchanged DEF TimerFires, PersistNext, Flushed
<1>8. ASSUME NEW expired \in SUBSET Prompts, RecordFeedback(expired) PROVE GenerationInv'
  BY <1>8, GenerationUnchanged DEF RecordFeedback
<1>9. CASE PredictionRequest
  BY <1>1, <1>6, <1>8, <1>9 DEF PredictionRequest
<1>10. CASE PredictionStep
  BY <1>2, <1>3, <1>4, <1>5, <1>7, <1>10, MissKeeps DEF PredictionStep
<1>11. CASE Request
  BY <1>9, <1>11, GenerationUnchanged DEF Request
<1>12. CASE Step
  BY <1>10, <1>12, GenerationUnchanged DEF Step
<1>13. CASE Close
  BY <1>13, GenerationUnchanged DEF Close, Dispose
<1>14. CASE Restart
  <2>1. /\ ask' = [a \in Clients |-> NotAsking] /\ fresh' = {}
        /\ flight' = [p \in Prompts |-> Nobody]
    BY <1>14 DEF Restart
  <2>2. NotAsking \in AskType /\ NotAsking.at = "idle"
    BY DEF NotAsking, AskType
  <2> QED BY <2>1, <2>2 DEF GenerationInv, GenerationType, Generating
<1>15. CASE UNCHANGED vars
  BY <1>15, GenerationUnchanged DEF vars
<1> QED BY <1>11, <1>12, <1>13, <1>14, <1>15 DEF Next

(* Between two clears a prompt for one file is generated by one request at *)
(* a time, however many ask for it, for every set of requests and prompts. *)
THEOREM GeneratedOnce == Spec => []OneGenerationPerPrompt
<1>1. ServiceInit => GenerationInv
  <2> SUFFICES ASSUME ServiceInit PROVE GenerationInv
    OBVIOUS
  <2>1. /\ ask = [a \in Clients |-> NotAsking] /\ fresh = {}
        /\ flight = [p \in Prompts |-> Nobody]
    BY DEF ServiceInit, PredictionsInit
  <2>2. NotAsking \in AskType /\ NotAsking.at = "idle"
    BY DEF NotAsking, AskType
  <2> QED BY <2>1, <2>2 DEF GenerationInv, GenerationType, Generating
<1>2. GenerationInv /\ [Next]_vars => GenerationInv'
  BY GenerationStep
<1>3. GenerationInv => OneGenerationPerPrompt
  <2> SUFFICES ASSUME GenerationInv, NEW a \in fresh, NEW b \in fresh,
                      ask[a].prompt = ask[b].prompt, ask[a].prompt[1] = "single"
               PROVE  a = b
    BY DEF OneGenerationPerPrompt
  <2> QED BY DEF GenerationInv, Generating
<1> QED BY <1>1, <1>2, <1>3, PTL DEF Spec

-----------------------------------------------------------------------------
(***************************************************************************)
(* Revocations.  A record is withdrawn when a revocation is written that   *)
(* no other call of the collection overlaps.  From then on every copy of   *)
(* the record that is read is revoked, every entry of the chain that       *)
(* writes it revokes it, and what still works on it does not write.        *)
(***************************************************************************)
Places == {"idle", "return", "stage", "operation", "resume", "cancel", "recover",
           "heartbeat", "revoke", "audit"}
Statuses == {"pending", "running", "paused", "failed", "completed", "cancelled",
             "awaiting-approval", "skipped", "online", "draining", "revoked", "active",
             "stale"}
Runs == [status : Statuses, stages : [1..Stages -> Statuses], gates : Statuses]
Contents(k) == IF k[1] = "mission" THEN Runs ELSE [status : Statuses]
Values == Runs \cup [status : Statuses]
CallRecords == [at : Places, copy : Values \cup {Absent}, todo : SUBSET Records]

Gone(k, v) ==
  v # Absent /\ v.status = IF k[1] = "mission" THEN "cancelled" ELSE "revoked"

(* A call's state x leaves the withdrawn record k as it is.                *)
Harmless(k, x) ==
  /\ x.at \notin {"stage", "operation"}
  /\ x.at \in {"resume", "cancel", "recover"} => Gone(k, x.copy)
  /\ x.at = "heartbeat" /\ k \in x.todo => Gone(k, x.copy)
  /\ x.at = "audit" => k \notin x.todo

(* A mission's executions work on runs; only what runs is executed.        *)
MissionCopy(x) ==
  /\ x.at \in {"stage", "operation", "resume", "cancel", "recover"} => Mission \in x.todo
  /\ x.at \in {"stage", "operation"} => x.copy \in Runs /\ x.copy.status = "running"
  /\ x.at \in {"resume", "cancel"} => x.copy \in Runs
  /\ x.at = "recover" => x.copy \in Runs \cup {Absent}

CallOK(c, x) ==
  /\ x \in CallRecords
  /\ c[1] = "mission" => MissionCopy(x)
  /\ \A k \in withdrawn : k[1] = c[1] => Harmless(k, x)

(* The entry (c, k, v) of the chain.                                       *)
EntryOK(c, k, v) ==
  /\ k[1] = c[1] /\ (k[1] = "mission" => k = Mission) /\ v \in Contents(k)
  /\ call[c].at # "idle"
  /\ Revoking(v) => Gone(k, v) /\ call[c].at = "return"
  /\ k \in withdrawn => Gone(k, v)

StoreType ==
  /\ disk \in [Records -> Values \cup {Absent}]
  /\ \A k \in Records : disk[k] \in Contents(k) \cup {Absent}
  /\ chain \in Seq(Calls \X Records \X Values)
  /\ DOMAIN call = Calls
  /\ withdrawn \subseteq Records

ChainOK ==
  /\ \A i \in 1..Len(chain) : EntryOK(chain[i][1], chain[i][2], chain[i][3])
  /\ \A i, j \in 1..Len(chain) : chain[i][1] = chain[j][1] => i = j

WithdrawnOK ==
  \A k \in withdrawn : Gone(k, disk[k]) /\ (k[1] = "mission" => k = Mission)

StoreInv ==
  StoreType /\ (\A c \in Calls : CallOK(c, call[c])) /\ ChainOK /\ WithdrawnOK

(* The entries of the chain, with the types of their parts.                *)
LEMMA ChainTyped ==
  ASSUME StoreInv
  PROVE  /\ Len(chain) \in Nat
         /\ \A i \in 1..Len(chain) :
              /\ chain[i][1] \in Calls /\ chain[i][2] \in Records /\ chain[i][3] \in Values
              /\ EntryOK(chain[i][1], chain[i][2], chain[i][3])
<1>1. chain \in Seq(Calls \X Records \X Values)
  BY DEF StoreInv, StoreType
<1>2. \A i \in 1..Len(chain) : chain[i] \in Calls \X Records \X Values
  BY <1>1, ElementOfSeq
<1> QED BY <1>1, <1>2, LenProperties DEF StoreInv, ChainOK

LEMMA IdleNotWriting ==
  ASSUME StoreInv, NEW c \in Calls, call[c] = Idle PROVE ~Writing(c)
<1>1. call[c].at = "idle"
  BY DEF Idle
<1> QED BY <1>1, ChainTyped, Zenon DEF Writing, EntryOK

(* What is over, or only waits for its last write, does no harm.           *)
LEMMA AtRest ==
  ASSUME NEW c \in Calls PROVE CallOK(c, Idle) /\ CallOK(c, Returning)
<1>1. /\ Idle.at = "idle" /\ Idle.copy = Absent /\ Idle.todo = {}
      /\ Returning.at = "return" /\ Returning.copy = Absent /\ Returning.todo = {}
  BY DEF Idle, Returning
<1>2. Idle \in CallRecords /\ Returning \in CallRecords
  BY DEF Idle, Returning, CallRecords, Places
<1> QED BY <1>1, <1>2 DEF CallOK, MissionCopy, Harmless

(* A call that writes nothing may change its state.                        *)
LEMMA CallChanges ==
  ASSUME StoreInv, NEW c \in Calls, NEW x, CallOK(c, x), ~Writing(c),
         call' = [call EXCEPT ![c] = x], UNCHANGED <<disk, chain, withdrawn>>
  PROVE  StoreInv'
<1>1. /\ DOMAIN call' = Calls /\ call'[c] = x
      /\ \A b \in Calls : b # c => call'[b] = call[b]
  BY DEF StoreInv, StoreType
<1>2. StoreType'
  BY <1>1 DEF StoreInv, StoreType
<1>3. \A b \in Calls : CallOK(b, call'[b])
  BY <1>1, Zenon DEF StoreInv
<1>4. \A b \in Calls : CallOK(b, call[b])'
  BY <1>3 DEF CallOK, Harmless, MissionCopy
<1>5. ASSUME NEW i \in 1..Len(chain)
      PROVE  EntryOK(chain[i][1], chain[i][2], chain[i][3])'
  <2>1. /\ chain[i][1] # c /\ chain[i][1] \in Calls
        /\ EntryOK(chain[i][1], chain[i][2], chain[i][3])
    BY ChainTyped DEF Writing
  <2>2. call'[chain[i][1]] = call[chain[i][1]]
    BY <1>1, <2>1
  <2> QED BY <2>1, <2>2 DEF EntryOK
<1>6. ChainOK'
  BY <1>5 DEF StoreInv, ChainOK
<1>7. WithdrawnOK'
  BY DEF StoreInv, WithdrawnOK
<1> QED BY <1>2, <1>4, <1>6, <1>7, Zenon DEF StoreInv

LEMMA ReadKeeps ==
  ASSUME StoreInv, NEW c \in Calls, NEW copy, NEW todo, NEW p,
         Read(c, copy, todo, p), CallOK(c, [at |-> p, copy |-> copy, todo |-> todo])
  PROVE  StoreInv'
<1>1. ~Writing(c)
  BY IdleNotWriting DEF Read
<1> QED BY <1>1, CallChanges DEF Read

LEMMA LeaveKeeps ==
  ASSUME StoreInv, NEW c \in Calls, ~Writing(c), Leave(c) PROVE StoreInv'
<1>1. CallOK(c, Idle)
  BY AtRest
<1> QED BY <1>1, CallChanges DEF Leave

(* A call that has no entry in the chain may append one.                   *)
LEMMA WriteKeeps ==
  ASSUME StoreInv, NEW c \in Calls, NEW k \in Records, NEW v \in Contents(k), NEW next,
         ~Writing(c), Write(c, k, v, next), CallOK(c, next),
         k[1] = c[1], k[1] = "mission" => k = Mission, next.at # "idle",
         Revoking(v) => Gone(k, v) /\ next.at = "return",
         k \in withdrawn => Gone(k, v)
  PROVE  StoreInv'
<1>1. /\ chain' = Append(chain, <<c, k, v>>) /\ call' = [call EXCEPT ![c] = next]
      /\ UNCHANGED <<disk, withdrawn>>
  BY DEF Write
<1>2. /\ DOMAIN call' = Calls /\ call'[c] = next
      /\ \A b \in Calls : b # c => call'[b] = call[b]
  BY <1>1 DEF StoreInv, StoreType
<1>3. v \in Values
  BY DEF Contents, Values
<1>4. chain \in Seq(Calls \X Records \X Values) /\ <<c, k, v>> \in Calls \X Records \X Values
  BY <1>3 DEF StoreInv, StoreType
<1>5. /\ chain' \in Seq(Calls \X Records \X Values) /\ Len(chain') = Len(chain) + 1
      /\ \A i \in 1..Len(chain) : chain'[i] = chain[i]
      /\ chain'[Len(chain) + 1] = <<c, k, v>>
  BY <1>1, <1>4, AppendProperties
<1>6. Len(chain) \in Nat
  BY ChainTyped
<1>7. \A i \in 1..Len(chain') : i \in 1..Len(chain) \/ i = Len(chain) + 1
  BY <1>5, <1>6
<1>8. StoreType'
  BY <1>1, <1>2, <1>5 DEF StoreInv, StoreType
<1>9. \A b \in Calls : CallOK(b, call'[b])
  BY <1>2, Zenon DEF StoreInv
<1>10. \A b \in Calls : CallOK(b, call[b])'
  BY <1>1, <1>9 DEF CallOK, Harmless, MissionCopy
<1>11. ASSUME NEW i \in 1..Len(chain')
       PROVE  EntryOK(chain[i][1], chain[i][2], chain[i][3])'
  <2>1. CASE i = Len(chain) + 1
    <3>1. chain'[i][1] = c /\ chain'[i][2] = k /\ chain'[i][3] = v
      BY <1>5, <2>1
    <3> QED BY <1>1, <1>2, <3>1 DEF EntryOK
  <2>2. CASE i \in 1..Len(chain)
    <3>1. /\ chain[i][1] # c /\ chain[i][1] \in Calls /\ chain'[i] = chain[i]
          /\ EntryOK(chain[i][1], chain[i][2], chain[i][3])
      BY <1>5, <2>2, ChainTyped DEF Writing
    <3>2. call'[chain[i][1]] = call[chain[i][1]]
      BY <1>2, <3>1
    <3> QED BY <1>1, <3>1, <3>2 DEF EntryOK
  <2> QED BY <1>7, <2>1, <2>2
<1>12. ASSUME NEW i \in 1..Len(chain'), NEW j \in 1..Len(chain'),
              chain'[i][1] = chain'[j][1]
       PROVE  i = j
  <2>1. \A l \in 1..Len(chain) : chain'[l] = chain[l] /\ chain[l][1] # c
    BY <1>5 DEF Writing
  <2>2. chain'[Len(chain) + 1][1] = c
    BY <1>5
  <2>3. \A l, m \in 1..Len(chain) : chain[l][1] = chain[m][1] => l = m
    BY DEF StoreInv, ChainOK
  <2> QED BY <1>7, <1>12, <2>1, <2>2, <2>3
<1>13. ChainOK'
  BY <1>11, <1>12 DEF ChainOK
<1>14. WithdrawnOK'
  BY <1>1 DEF StoreInv, WithdrawnOK
<1> QED BY <1>8, <1>10, <1>13, <1>14, Zenon DEF StoreInv

(* The entry w at the head of the chain is written; a revocation that      *)
(* nothing overlaps is from then on kept.                                  *)
LEMMA WriteNextKeeps == ASSUME StoreInv, WriteNext PROVE StoreInv'
<1> DEFINE w == Head(chain)
           kept == withdrawn \cup {w[2]}
<1>1. chain \in Seq(Calls \X Records \X Values) /\ chain # <<>> /\ chain' = Tail(chain)
  BY DEF StoreInv, StoreType, WriteNext
<1>2. /\ Len(chain) \in Nat /\ 1 \in 1..Len(chain) /\ w = chain[1]
  BY <1>1, HeadTailProperties, EmptySeq, LenProperties
<1>3. /\ chain' \in Seq(Calls \X Records \X Values) /\ Len(chain') = Len(chain) - 1
      /\ \A i \in 1..Len(chain') : chain'[i] = chain[i + 1] /\ i + 1 \in 1..Len(chain)
  BY <1>1, <1>2, HeadTailProperties
<1>4. /\ w[1] \in Calls /\ w[2] \in Records /\ w[3] \in Values
      /\ EntryOK(w[1], w[2], w[3])
  BY <1>2, ChainTyped
<1>5. /\ disk' = [disk EXCEPT ![w[2]] = w[3]] /\ call' = call
      /\ withdrawn' = withdrawn \/ (withdrawn' = kept /\ Revoking(w[3]) /\ Alone(w[1]))
  BY DEF WriteNext
<1> HIDE DEF w
<1>6. /\ disk' \in [Records -> Values \cup {Absent}]
      /\ disk'[w[2]] = w[3]
      /\ \A k \in Records : k # w[2] => disk'[k] = disk[k]
  BY <1>4, <1>5 DEF StoreInv, StoreType
<1>7. StoreType'
  <2>1. \A k \in Records : disk'[k] \in Contents(k) \cup {Absent}
    BY <1>4, <1>6 DEF StoreInv, StoreType, EntryOK
  <2>2. DOMAIN call' = Calls /\ withdrawn' \subseteq Records
    BY <1>4, <1>5 DEF StoreInv, StoreType
  <2>3. \A k \in Records : (disk[k] \in Contents(k) \cup {Absent})'
    BY <2>1 DEF Contents
  <2> QED BY <1>3, <1>6, <2>2, <2>3 DEF StoreType
<1>8. WithdrawnOK'
  <2> SUFFICES ASSUME NEW k \in withdrawn'
               PROVE  Gone(k, disk'[k]) /\ (k[1] = "mission" => k = Mission)
    BY DEF WithdrawnOK, Gone
  <2>1. CASE k = w[2]
    <3>1. Gone(k, w[3])
      BY <1>4, <1>5, <2>1 DEF EntryOK
    <3> QED BY <1>4, <1>6, <2>1, <3>1 DEF EntryOK
  <2>2. CASE k # w[2]
    <3>1. k \in withdrawn /\ k \in Records
      BY <1>5, <2>2 DEF StoreInv, StoreType
    <3> QED BY <1>6, <2>2, <3>1 DEF StoreInv, WithdrawnOK
  <2> QED BY <2>1, <2>2
<1>9. ASSUME NEW c \in Calls PROVE CallOK(c, call[c])'
  <2>1. CallOK(c, call[c])
    BY DEF StoreInv
  <2>2. ASSUME withdrawn' = kept, Revoking(w[3]), Alone(w[1]), c[1] = w[1][1]
        PROVE  Harmless(w[2], call[c])
    <3>1. CASE c = w[1]
      <4>1. call[c].at = "return"
        BY <1>4, <2>2, <3>1 DEF EntryOK
      <4> QED BY <4>1 DEF Harmless
    <3>2. CASE c # w[1]
      <4>1. call[c].at = "idle"
        BY <2>2, <3>2 DEF Alone, Idle
      <4> QED BY <4>1 DEF Harmless
    <3> QED BY <3>1, <3>2
  <2> QED BY <1>4, <1>5, <2>1, <2>2 DEF CallOK, EntryOK, Harmless, MissionCopy
<1>10. ASSUME NEW i \in 1..Len(chain')
       PROVE  EntryOK(chain[i][1], chain[i][2], chain[i][3])'
  <2>1. /\ i + 1 \in 1..Len(chain) /\ i + 1 # 1 /\ chain'[i] = chain[i + 1]
    BY <1>2, <1>3
  <2> PICK x : x = chain[i + 1]
    OBVIOUS
  <2>2. x[1] \in Calls /\ x[1] # w[1] /\ EntryOK(x[1], x[2], x[3])
    BY <1>2, <2>1, ChainTyped DEF StoreInv, ChainOK
  <2>3. EntryOK(x[1], x[2], x[3])'
    <3>1. CASE withdrawn' = withdrawn
      BY <1>5, <2>2, <3>1 DEF EntryOK
    <3>2. CASE withdrawn' = kept /\ Alone(w[1])
      <4>1. x[1][1] # w[1][1]
        BY <2>2, <3>2 DEF Alone, EntryOK, Idle
      <4>2. x[2] # w[2]
        BY <1>4, <2>2, <4>1 DEF EntryOK
      <4> QED BY <1>5, <2>2, <3>2, <4>2 DEF EntryOK
    <3> QED BY <1>5, <3>1, <3>2
  <2> QED BY <2>1, <2>3 DEF EntryOK
<1>11. ASSUME NEW i \in 1..Len(chain'), NEW j \in 1..Len(chain'), chain'[i][1] = chain'[j][1]
       PROVE  i = j
  <2>1. i \in Nat /\ j \in Nat /\ i + 1 \in 1..Len(chain) /\ j + 1 \in 1..Len(chain)
    BY <1>2, <1>3
  <2>2. i + 1 = j + 1
    <3>1. chain[i + 1][1] = chain[j + 1][1]
      BY <1>3, <1>11
    <3>2. \A a, b \in 1..Len(chain) : chain[a][1] = chain[b][1] => a = b
      BY DEF StoreInv, ChainOK
    <3> QED BY <2>1, <3>1, <3>2
  <2> QED BY <2>1, <2>2
<1>12. ChainOK'
  BY <1>10, <1>11 DEF ChainOK
<1> QED BY <1>7, <1>8, <1>9, <1>12, Zenon DEF StoreInv

(* Only the contents the store is meant to hold: what is withdrawn is no   *)
(* longer absent.                                                          *)
LEMMA WithdrawnGone ==
  ASSUME StoreInv, NEW k \in withdrawn
  PROVE  /\ k \in Records /\ Gone(k, disk[k]) /\ disk[k] # Absent
         /\ disk[k] \in Contents(k) /\ (k[1] = "mission" => k = Mission)
<1>1. k \in Records /\ Gone(k, disk[k]) /\ (k[1] = "mission" => k = Mission)
  BY DEF StoreInv, StoreType, WithdrawnOK
<1>2. disk[k] # Absent
  BY <1>1, Zenon DEF Gone
<1>3. disk[k] \in Contents(k)
  BY <1>1, <1>2, Zenon DEF StoreInv, StoreType
<1> QED BY <1>1, <1>2, <1>3

-----------------------------------------------------------------------------
(* The missions.                                                           *)
MissionCalls == {c \in Calls : c[1] = "mission"}

(* No mission that an execution works on is withdrawn.                     *)
LEMMA MissionCall ==
  ASSUME StoreInv, NEW c \in MissionCalls
  PROVE  /\ call[c] \in CallRecords /\ MissionCopy(call[c])
         /\ \A k \in withdrawn : k[1] = "mission" => k = Mission /\ Harmless(k, call[c])
<1>1. c \in Calls /\ c[1] = "mission" /\ CallOK(c, call[c])
  BY DEF StoreInv, MissionCalls
<1>2. call[c] \in CallRecords /\ MissionCopy(call[c])
  BY <1>1, Zenon DEF CallOK
<1>3. ASSUME NEW k \in withdrawn, k[1] = "mission" PROVE k = Mission /\ Harmless(k, call[c])
  BY <1>1, <1>3, WithdrawnGone DEF CallOK
<1> QED BY <1>2, <1>3

LEMMA MissionKept ==
  ASSUME StoreInv, NEW c \in MissionCalls,
         call[c].at \in {"stage", "operation", "resume", "cancel", "recover"}
  PROVE  Mission \in Records
BY MissionCall DEF MissionCopy, CallRecords

LEMMA LoadKeeps ==
  ASSUME StoreInv, NEW c \in MissionCalls, NEW p \in {"resume", "cancel"}, Load(c, p)
  PROVE  StoreInv'
<1> DEFINE x == [at |-> p, copy |-> disk[Mission], todo |-> {Mission}]
<1>1. Mission \in Records /\ disk[Mission] # Absent /\ c \in Calls /\ c[1] = "mission"
  BY DEF Load, MissionCalls
<1>2. disk[Mission] \in Runs
  BY <1>1 DEF StoreInv, StoreType, Contents, Mission
<1>3. x.at = p /\ x.copy = disk[Mission] /\ x.todo = {Mission}
  OBVIOUS
<1>4. x \in CallRecords
  <2>1. disk[Mission] \in Values /\ p \in Places /\ {Mission} \in SUBSET Records
    BY <1>1, <1>2 DEF Values, Places
  <2> QED BY <2>1, Zenon DEF CallRecords
<1>5. \A k \in withdrawn : k[1] = c[1] => k = Mission /\ Gone(k, disk[Mission])
  BY <1>1, WithdrawnGone
<1>6. Read(c, disk[Mission], {Mission}, p)
  BY DEF Load
<1> HIDE DEF x
<1>7. CallOK(c, x)
  BY <1>2, <1>3, <1>4, <1>5 DEF CallOK, MissionCopy, Harmless
<1> QED BY <1>1, <1>6, <1>7, ReadKeeps DEF x

(* A mission that is not withdrawn is written, or again withdrawn.         *)
LEMMA RunPersisted ==
  ASSUME StoreInv, NEW c \in MissionCalls, ~Writing(c), Mission \in Records,
         NEW v \in Runs, NEW p \in {"return", "stage", "operation"},
         Persist(c, v, p), Mission \notin withdrawn,
         p # "return" => v.status = "running",
         v.status # "revoked", v.status = "cancelled" => p = "return"
  PROVE  StoreInv'
<1> DEFINE x == [at |-> p, copy |-> v, todo |-> {Mission}]
<1>1. /\ c \in Calls /\ c[1] = "mission" /\ Mission[1] = "mission"
      /\ Mission[1] = c[1]
  BY DEF MissionCalls, Mission
<1>2. x.at = p /\ x.copy = v /\ Mission \in x.todo /\ x \in CallRecords
  BY DEF CallRecords, Values, Places
<1>3. \A k \in withdrawn : k[1] # c[1]
  BY <1>1, WithdrawnGone
<1>4. CallOK(c, x)
  BY <1>2, <1>3 DEF CallOK, MissionCopy
<1>5. v \in Contents(Mission)
  BY <1>1 DEF Contents
<1>6. Revoking(v) => Gone(Mission, v) /\ x.at = "return"
  BY <1>1, <1>2 DEF Revoking, Gone
<1>7. x.at # "idle"
  BY <1>2
<1>8. Write(c, Mission, v, x)
  BY DEF Persist
<1> HIDE DEF x
<1> QED BY <1>1, <1>4, <1>5, <1>6, <1>7, <1>8, WriteKeeps, Zenon

(* The stage that is settled is the only part of a run that changes.       *)
LEMMA SettledRun ==
  ASSUME NEW run \in Runs, NEW s \in Statuses
  PROVE  Settled(run, s) \in Runs /\ Settled(run, s).status = run.status
<1>1. CASE Active(run) = {}
  BY <1>1 DEF Settled
<1>2. CASE Active(run) # {}
  <2> DEFINE f == [run.stages EXCEPT ![First(Active(run))] = s]
  <2>1. f \in [1..Stages -> Statuses]
    BY DEF Runs
  <2>2. Settled(run, s) = [run EXCEPT !.stages = f]
    BY <1>2 DEF Settled
  <2> HIDE DEF f
  <2> QED BY <2>1, <2>2 DEF Runs
<1> QED BY <1>1, <1>2

LEMMA StartKeeps ==
  ASSUME StoreInv, NEW e \in MissionCalls, call[e] = Idle, StartMission(e) PROVE StoreInv'
<1>1. Mission \in Records /\ Mission \notin withdrawn /\ Persist(e, NewRun, "stage")
  BY WithdrawnGone DEF StartMission
<1>2. NewRun \in Runs /\ NewRun.status = "running"
  <2>1. [i \in 1..Stages |-> "pending"] \in [1..Stages -> Statuses] /\ "running" \in Statuses
    BY DEF Statuses
  <2> QED BY <2>1 DEF NewRun, Runs, Statuses
<1>3. ~Writing(e)
  BY IdleNotWriting DEF MissionCalls
<1> QED BY <1>1, <1>2, <1>3, RunPersisted

(* An execution in a stage, or between two, has a mission nothing withdrew.*)
LEMMA Executing ==
  ASSUME StoreInv, NEW e \in MissionCalls, call[e].at \in {"stage", "operation"}
  PROVE  /\ call[e].copy \in Runs /\ call[e].copy.status = "running"
         /\ \A k \in withdrawn : k[1] # "mission"
         /\ Mission \notin withdrawn
<1>1. Mission[1] = "mission"
  BY DEF Mission
<1> QED BY <1>1, MissionCall DEF MissionCopy, Harmless

LEMMA ExecutionKeeps ==
  ASSUME StoreInv, NEW e \in MissionCalls
  PROVE  /\ BeginStage(e) \/ EndStage(e) \/ FailStage(e) => StoreInv'
         /\ \A signals \in BOOLEAN : Conclude(e, signals) => StoreInv'
<1> DEFINE run == call[e].copy
<1> SUFFICES ASSUME \/ BeginStage(e) \/ EndStage(e) \/ FailStage(e)
                    \/ \E signals \in BOOLEAN : Conclude(e, signals)
             PROVE  StoreInv'
  OBVIOUS
<1>1. /\ call[e].at \in {"stage", "operation"} /\ ~Writing(e)
  <2>1. CASE BeginStage(e)  BY <2>1 DEF BeginStage, At
  <2>2. CASE EndStage(e)  BY <2>2 DEF EndStage, At
  <2>3. CASE FailStage(e)  BY <2>3 DEF FailStage, At
  <2>4. ASSUME NEW signals \in BOOLEAN, Conclude(e, signals)
        PROVE  call[e].at \in {"stage", "operation"} /\ ~Writing(e)
    <3>1. At(e, "stage")
      BY <2>4, Zenon DEF Conclude
    <3> QED BY <3>1 DEF At
  <2> QED BY <2>1, <2>2, <2>3, <2>4
<1>2. run \in Runs /\ run.status = "running" /\ Mission \notin withdrawn /\ Mission \in Records
  BY <1>1, Executing, MissionKept
<1> HIDE DEF run
<1>3. ASSUME BeginStage(e) PROVE StoreInv'
  <2> DEFINE f == [run.stages EXCEPT ![First(Pending(run))] = "running"]
             v == [run EXCEPT !.stages = f]
  <2>1. f \in [1..Stages -> Statuses]
    BY <1>2 DEF Runs, Statuses
  <2>2. Persist(e, v, "operation")
    BY <1>3 DEF BeginStage, run
  <2> HIDE DEF f
  <2>3. v \in Runs /\ v.status = "running"
    BY <1>2, <2>1 DEF Runs
  <2> HIDE DEF v
  <2> QED BY <1>1, <1>2, <2>2, <2>3, RunPersisted
<1>4. ASSUME EndStage(e) PROVE StoreInv'
  <2> DEFINE v == Settled(run, "completed")
  <2>1. v \in Runs /\ v.status = "running"
    BY <1>2, SettledRun DEF Statuses
  <2>2. Persist(e, v, "stage")
    BY <1>4 DEF EndStage, run
  <2> HIDE DEF v
  <2> QED BY <1>1, <1>2, <2>1, <2>2, RunPersisted
<1>5. ASSUME FailStage(e) PROVE StoreInv'
  <2> DEFINE v == [Settled(run, "failed") EXCEPT !.status = "failed"]
  <2>1. Settled(run, "failed") \in Runs
    BY <1>2, SettledRun DEF Statuses
  <2>2. v \in Runs /\ v.status = "failed"
    BY <2>1 DEF Runs, Statuses
  <2>3. Persist(e, v, "return")
    BY <1>5 DEF FailStage, run
  <2> HIDE DEF v
  <2> QED BY <1>1, <1>2, <2>2, <2>3, RunPersisted
<1>6. ASSUME NEW signals \in BOOLEAN, Conclude(e, signals) PROVE StoreInv'
  <2> DEFINE s == IF signals THEN "awaiting-approval" ELSE "completed"
             g == IF signals THEN "awaiting-approval" ELSE "skipped"
             v == [run EXCEPT !.status = s, !.gates = g]
  <2>1. s \in {"awaiting-approval", "completed"} /\ g \in Statuses
    BY DEF Statuses
  <2>2. Persist(e, v, "return")
    BY <1>6, Zenon DEF Conclude, run
  <2> HIDE DEF s, g
  <2>3. v \in Runs /\ v.status = s
    BY <1>2, <2>1 DEF Runs, Statuses
  <2> HIDE DEF v
  <2> QED BY <1>1, <1>2, <2>1, <2>2, <2>3, RunPersisted
<1> QED BY <1>3, <1>4, <1>5, <1>6

(* Only a mission that is not cancelled is resumed or cancelled.           *)
LEMMA LoadedKeeps ==
  ASSUME StoreInv, NEW c \in MissionCalls
  PROVE  Resumed(c) \/ ResumeRefused(c) \/ Cancelled(c) \/ CancelIgnored(c) => StoreInv'
<1> DEFINE run == call[c].copy
<1> SUFFICES ASSUME Resumed(c) \/ ResumeRefused(c) \/ Cancelled(c) \/ CancelIgnored(c)
             PROVE  StoreInv'
  OBVIOUS
<1>1. call[c].at \in {"resume", "cancel"} /\ ~Writing(c)
  BY DEF Resumed, ResumeRefused, Cancelled, CancelIgnored, At
<1>2. run \in Runs /\ Mission \in Records
  BY <1>1, MissionCall, MissionKept DEF MissionCopy
<1>3. Mission \in withdrawn => run.status = "cancelled"
  BY <1>1, MissionCall DEF Harmless, Gone, Mission
<1> HIDE DEF run
<1>4. ASSUME Resumed(c) PROVE StoreInv'
  <2> DEFINE v == [run EXCEPT !.status = "running", !.stages = NewRun.stages]
  <2>1. NewRun.stages \in [1..Stages -> Statuses]
    BY DEF NewRun, Statuses
  <2>2. v \in Runs /\ v.status = "running"
    BY <1>2, <2>1 DEF Runs, Statuses
  <2>3. Persist(c, v, "stage") /\ Mission \notin withdrawn
    BY <1>3, <1>4 DEF Resumed, Resumable, run
  <2> HIDE DEF v
  <2> QED BY <1>1, <1>2, <2>2, <2>3, RunPersisted
<1>5. ASSUME Cancelled(c) PROVE StoreInv'
  <2> DEFINE v == [run EXCEPT !.status = "cancelled"]
  <2>1. v \in Runs /\ v.status = "cancelled"
    BY <1>2 DEF Runs, Statuses
  <2>2. Persist(c, v, "return") /\ Mission \notin withdrawn
    BY <1>3, <1>5 DEF Cancelled, Cancellable, run
  <2> HIDE DEF v
  <2> QED BY <1>1, <1>2, <2>1, <2>2, RunPersisted
<1>6. ASSUME ResumeRefused(c) \/ CancelIgnored(c) PROVE StoreInv'
  BY <1>1, <1>6, LeaveKeeps DEF ResumeRefused, CancelIgnored, MissionCalls
<1> QED BY <1>4, <1>5, <1>6

LEMMA RecoveredKeeps == ASSUME StoreInv, Recovered PROVE StoreInv'
<1> DEFINE run == call[Recovery].copy
<1>1. /\ Recovery \in Calls /\ Recovery \in MissionCalls
      /\ call[Recovery].at = "recover" /\ ~Writing(Recovery)
  BY DEF Recovered, At, MissionCalls, Recovery
<1>2. CASE ~(run # Absent /\ run.status = "running")
  BY <1>1, <1>2, LeaveKeeps DEF Recovered
<1>3. CASE run # Absent /\ run.status = "running"
  <2> DEFINE v == [Settled(run, "pending") EXCEPT !.status = "paused"]
  <2>1. run \in Runs /\ Mission \in Records
    BY <1>1, <1>3, MissionCall, MissionKept DEF MissionCopy
  <2>2. Mission \notin withdrawn
    BY <1>1, <1>3, MissionCall DEF Harmless, Gone, Mission
  <2>3. Persist(Recovery, v, "return")
    BY <1>3 DEF Recovered, Interrupted
  <2>4. Settled(run, "pending") \in Runs
    BY <2>1, SettledRun DEF Statuses
  <2>5. v \in Runs /\ v.status = "paused"
    BY <2>4 DEF Runs, Statuses
  <2> HIDE DEF v
  <2> QED BY <1>1, <2>1, <2>2, <2>3, <2>5, RunPersisted
<1> QED BY <1>2, <1>3

-----------------------------------------------------------------------------
(* The fleet and the memory.                                               *)
RegistryRecords == Nodes \cup Entries

LEMMA StatusContents ==
  ASSUME NEW k \in RegistryRecords, NEW s \in Statuses
  PROVE  Status(s) \in Contents(k) /\ Status(s).status = s /\ k[1] # "mission"
<1>1. k[1] # "mission"
  BY DEF RegistryRecords, Nodes, Entries
<1> QED BY <1>1 DEF Contents, Status

(* A record that is added was not there, so nothing has withdrawn it.      *)
LEMMA AddKeeps ==
  ASSUME StoreInv, NEW c \in Calls, NEW k \in RegistryRecords, c[1] = k[1],
         NEW s \in {"online", "active"}, Add(c, k, s)
  PROVE  StoreInv'
<1>1. /\ k \in Records /\ ~Writing(c) /\ Write(c, k, Status(s), Returning)
      /\ Returning.at # "idle"
  BY IdleNotWriting DEF Add, RegistryRecords, Nodes, Entries, Returning
<1>2. k \notin withdrawn
  BY WithdrawnGone DEF Add
<1>3. /\ Status(s) \in Contents(k) /\ ~Revoking(Status(s)) /\ k[1] # "mission"
  BY StatusContents DEF Revoking, Statuses
<1>4. CallOK(c, Returning)
  BY AtRest
<1> QED BY <1>1, <1>2, <1>3, <1>4, WriteKeeps

LEMMA FetchKeeps ==
  ASSUME StoreInv, NEW c \in Calls, NEW k \in RegistryRecords, c[1] = k[1],
         NEW p \in {"heartbeat", "revoke"}, Fetch(c, k, p)
  PROVE  StoreInv'
<1> DEFINE x == [at |-> p, copy |-> disk[k], todo |-> {k}]
<1>1. k \in Records /\ k[1] # "mission"
  BY DEF RegistryRecords, Nodes, Entries
<1>2. /\ x.at = p /\ x.copy = disk[k] /\ x.todo = {k} /\ p \in Places
      /\ {k} \in SUBSET Records
  BY <1>1 DEF Places
<1>3. x \in CallRecords
  <2>1. disk[k] \in Values \cup {Absent}
    BY <1>1 DEF StoreInv, StoreType
  <2> QED BY <1>2, <2>1, Zenon DEF CallRecords
<1>4. Read(c, disk[k], {k}, p)
  BY DEF Fetch
<1> HIDE DEF x
<1>5. \A j \in withdrawn : Harmless(j, x)
  BY <1>2, WithdrawnGone DEF Harmless
<1>6. CallOK(c, x)
  BY <1>1, <1>3, <1>5 DEF CallOK
<1> QED BY <1>4, <1>6, ReadKeeps DEF x

(* A record that is withdrawn is replaced by a revocation only.            *)
LEMMA ReplaceKeeps ==
  ASSUME StoreInv, NEW c \in Calls, NEW k \in RegistryRecords, c[1] = k[1],
         ~Writing(c), NEW s \in Statuses \ {"cancelled"}, Replace(c, k, s),
         k \in withdrawn => s = "revoked"
  PROVE  StoreInv'
<1>1. /\ k \in Records /\ Write(c, k, Status(s), Returning)
      /\ Returning.at = "return"
  BY DEF Replace, RegistryRecords, Nodes, Entries, Returning
<1>2. Status(s) \in Contents(k) /\ Status(s).status = s /\ k[1] # "mission"
  BY StatusContents
<1>3. Revoking(Status(s)) => Gone(k, Status(s))
  BY <1>2 DEF Revoking, Gone
<1>4. ASSUME k \in withdrawn PROVE Gone(k, Status(s))
  <2>1. /\ disk[k] # Absent /\ disk[k] \in [status : Statuses]
        /\ disk[k].status = "revoked" /\ s = "revoked"
    BY <1>2, <1>4, WithdrawnGone DEF Gone, Contents
  <2>2. disk[k] = Status(s)
    BY <2>1 DEF Status
  <2> QED BY <1>2, <2>1, <2>2 DEF Gone
<1>5. CallOK(c, Returning)
  BY AtRest
<1> QED BY <1>1, <1>2, <1>3, <1>4, <1>5, WriteKeeps

LEMMA AuditKeeps ==
  ASSUME StoreInv, NEW c \in Of("entry", "audit"), Audit(c) PROVE StoreInv'
<1> DEFINE x == [at |-> "audit", copy |-> Absent, todo |-> Audited]
<1>1. c \in Calls /\ c[1] = "entry"
  BY DEF Of
<1>2. x \in CallRecords
  BY DEF CallRecords, Places, Audited, Entries
<1>3. x.at = "audit" /\ x.todo = Audited
  OBVIOUS
<1>4. Read(c, Absent, Audited, "audit")
  BY DEF Audit
<1> HIDE DEF x
<1>5. ASSUME NEW k \in withdrawn, k[1] = "entry" PROVE k \notin Audited
  BY <1>5, WithdrawnGone DEF Gone, Audited
<1>6. CallOK(c, x)
  BY <1>1, <1>2, <1>3, <1>5 DEF CallOK, Harmless
<1> QED BY <1>1, <1>4, <1>6, ReadKeeps DEF x

(* An audit has no withdrawn entry left to write.                          *)
LEMMA AuditEntryKeeps ==
  ASSUME StoreInv, NEW c \in Of("entry", "audit"), NEW k \in Entries, NEW stale \in BOOLEAN,
         AuditEntry(c, k, stale)
  PROVE  StoreInv'
<1> DEFINE s == IF stale THEN "stale" ELSE "active"
           x == [call[c] EXCEPT !.todo = @ \ {k}]
<1>1. /\ c \in Calls /\ c[1] = "entry" /\ k[1] = "entry" /\ k \in Records
      /\ k \in RegistryRecords /\ k[1] = c[1]
  BY DEF Of, Entries, RegistryRecords
<1>2. /\ call[c].at = "audit" /\ ~Writing(c) /\ k \in call[c].todo
      /\ Write(c, k, Status(s), x)
  BY DEF AuditEntry, At
<1>3. CallOK(c, call[c])
  BY <1>1 DEF StoreInv
<1>4. /\ x \in CallRecords /\ x.at = "audit" /\ x.todo \subseteq call[c].todo
  BY <1>2, <1>3 DEF CallOK, CallRecords
<1>5. s \in Statuses /\ s \notin {"revoked", "cancelled"}
  BY DEF Statuses
<1> HIDE DEF s, x
<1>6. Status(s) \in Contents(k) /\ ~Revoking(Status(s)) /\ k[1] # "mission"
  BY <1>1, <1>5, StatusContents DEF Revoking
<1>7. k \notin withdrawn
  BY <1>1, <1>2, <1>3 DEF CallOK, Harmless
<1>8. CallOK(c, x)
  BY <1>1, <1>2, <1>3, <1>4 DEF CallOK, Harmless
<1>9. x.at # "idle"
  BY <1>4
<1> QED BY <1>1, <1>2, <1>6, <1>7, <1>8, <1>9, WriteKeeps

-----------------------------------------------------------------------------
(* The steps of the daemon.                                                *)
LEMMA MissionKeeps == ASSUME StoreInv, MissionRequest \/ MissionStep PROVE StoreInv'
<1>1. Executions \subseteq MissionCalls /\ Cancels \subseteq MissionCalls
  BY DEF Executions, Cancels, MissionCalls
<1>2. ASSUME NEW e \in Executions, call[e] = Idle, StartMission(e) \/ ResumeMission(e)
      PROVE  StoreInv'
  BY <1>1, <1>2, StartKeeps, LoadKeeps DEF ResumeMission
<1>3. ASSUME NEW c \in Cancels, CancelMission(c) PROVE StoreInv'
  BY <1>1, <1>3, LoadKeeps DEF CancelMission
<1>4. ASSUME NEW e \in Executions, BeginStage(e) \/ EndStage(e) \/ FailStage(e) PROVE StoreInv'
  BY <1>1, <1>4, ExecutionKeeps
<1>5. ASSUME NEW e \in Executions, NEW signals \in BOOLEAN, Conclude(e, signals)
      PROVE  StoreInv'
  BY <1>1, <1>5, ExecutionKeeps
<1>6. ASSUME NEW e \in Executions, Resumed(e) \/ ResumeRefused(e) PROVE StoreInv'
  BY <1>1, <1>6, LoadedKeeps
<1>7. ASSUME NEW c \in Cancels, Cancelled(c) \/ CancelIgnored(c) PROVE StoreInv'
  BY <1>1, <1>7, LoadedKeeps
<1>8. CASE MissionRequest
  BY <1>2, <1>3, <1>8 DEF MissionRequest
<1>9. CASE MissionStep
  BY <1>4, <1>5, <1>6, <1>7, <1>9, RecoveredKeeps DEF MissionStep
<1> QED BY <1>8, <1>9

LEMMA FleetKeeps ==
  ASSUME StoreInv, NEW k \in Nodes, NEW c \in Calls, c[1] = "node"
  PROVE  /\ Register(c, k) \/ Heartbeat(c, k) \/ RevokeNode(c, k) => StoreInv'
         /\ \A draining \in BOOLEAN : HeartbeatRecorded(c, k, draining) => StoreInv'
         /\ HeartbeatRefused(c) \/ NodeRevoked(c, k) => StoreInv'
<1>1. k \in RegistryRecords /\ c[1] = k[1] /\ k[1] = "node"
  BY DEF Nodes, RegistryRecords
<1>2. Register(c, k) \/ Heartbeat(c, k) \/ RevokeNode(c, k) => StoreInv'
  BY <1>1, AddKeeps, FetchKeeps DEF Register, Heartbeat, RevokeNode
<1>3. ASSUME NEW draining \in BOOLEAN, HeartbeatRecorded(c, k, draining) PROVE StoreInv'
  <2> DEFINE s == IF draining THEN "draining" ELSE "online"
  <2>1. s \in Statuses \ {"cancelled"}
    BY DEF Statuses
  <2>2. /\ ~Writing(c) /\ call[c].at = "heartbeat" /\ call[c].copy.status # "revoked"
        /\ k \in call[c].todo /\ Replace(c, k, s)
    BY <1>3 DEF HeartbeatRecorded, At, Beats, Replace
  <2>3. k \notin withdrawn
    <3>1. CallOK(c, call[c])
      BY DEF StoreInv
    <3> QED BY <1>1, <2>2, <3>1 DEF CallOK, Harmless, Gone
  <2> HIDE DEF s
  <2> QED BY <1>1, <2>1, <2>2, <2>3, ReplaceKeeps
<1>4. ASSUME HeartbeatRefused(c) PROVE StoreInv'
  BY <1>4, LeaveKeeps DEF HeartbeatRefused, At
<1>5. ASSUME NodeRevoked(c, k) PROVE StoreInv'
  BY <1>1, <1>5, ReplaceKeeps DEF NodeRevoked, At, Statuses
<1> QED BY <1>2, <1>3, <1>4, <1>5

LEMMA RegistryKeeps ==
  ASSUME StoreInv, FleetRequest \/ MemoryRequest \/ RegistryStep PROVE StoreInv'
<1>1. \A collection, operation : \A c \in Of(collection, operation) :
        c \in Calls /\ c[1] = collection
  BY DEF Of
<1>2. CASE FleetRequest
  BY <1>1, <1>2, FleetKeeps DEF FleetRequest
<1>3. ASSUME NEW k \in Entries, NEW c \in Calls, c[1] = "entry",
             WriteEntry(c, k) \/ RevokeEntry(c, k) \/ EntryRevoked(c, k)
      PROVE  StoreInv'
  <2>1. k \in RegistryRecords /\ c[1] = k[1]
    BY <1>3 DEF Entries, RegistryRecords
  <2>2. CASE WriteEntry(c, k)
    BY <2>1, <2>2, AddKeeps DEF WriteEntry
  <2>3. CASE RevokeEntry(c, k)
    BY <2>1, <2>3, FetchKeeps DEF RevokeEntry
  <2>4. CASE EntryRevoked(c, k)
    BY <2>1, <2>4, ReplaceKeeps DEF EntryRevoked, At, Statuses
  <2> QED BY <1>3, <2>2, <2>3, <2>4
<1>4. CASE MemoryRequest
  BY <1>1, <1>3, <1>4, AuditKeeps DEF MemoryRequest
<1>5. CASE RegistryStep
  <2>1. ASSUME NEW k \in Nodes, NEW c \in Of("node", "heartbeat"), NEW draining \in BOOLEAN,
               HeartbeatRecorded(c, k, draining)
        PROVE  StoreInv'
    BY <1>1, <2>1, FleetKeeps
  <2>2. ASSUME NEW k \in Nodes, NEW c \in Of("node", "revoke"), NodeRevoked(c, k)
        PROVE  StoreInv'
    BY <1>1, <2>2, FleetKeeps
  <2>3. ASSUME NEW c \in Of("node", "heartbeat"), HeartbeatRefused(c) PROVE StoreInv'
    BY <1>1, <2>3, LeaveKeeps DEF HeartbeatRefused, At
  <2>4. ASSUME NEW c \in Of("entry", "audit"), AuditEnds(c) PROVE StoreInv'
    BY <1>1, <2>4, LeaveKeeps DEF AuditEnds, At
  <2> QED BY <1>1, <1>3, <1>5, <2>1, <2>2, <2>3, <2>4, AuditEntryKeeps DEF RegistryStep
<1> QED BY <1>2, <1>4, <1>5

(* After a restart only the recovery of the missions is under way.         *)
LEMMA RestartKeeps == ASSUME StoreInv, Restart PROVE StoreInv'
<1> DEFINE x == [at |-> "recover", copy |-> disk[Mission], todo |-> {Mission}]
<1>1. /\ chain' = <<>> /\ disk' = disk /\ withdrawn' = withdrawn
      /\ DOMAIN call' = Calls
      /\ \A c \in Calls : \/ call'[c] = Idle
                          \/ c = Recovery /\ Mission \in Records /\ call'[c] = x
  BY DEF Restart
<1>2. StoreType'
  <2>1. chain' \in Seq(Calls \X Records \X Values)
    BY <1>1
  <2> QED BY <1>1, <2>1 DEF StoreInv, StoreType, Contents
<1>3. ChainOK'
  BY <1>1 DEF ChainOK
<1>4. WithdrawnOK'
  BY <1>1 DEF StoreInv, WithdrawnOK
<1>5. ASSUME NEW c \in Calls, Mission \in Records, c = Recovery PROVE CallOK(c, x)
  <2>1. c[1] = "mission" /\ Mission[1] = "mission"
    BY <1>5 DEF Recovery, Mission
  <2>2. disk[Mission] \in Runs \cup {Absent}
    BY <1>5, <2>1 DEF StoreInv, StoreType, Contents
  <2>3. x.at = "recover" /\ x.copy = disk[Mission] /\ x.todo = {Mission}
    OBVIOUS
  <2>4. x \in CallRecords
    <3>1. /\ disk[Mission] \in Values \cup {Absent} /\ "recover" \in Places
          /\ {Mission} \in SUBSET Records
      BY <1>5, <2>2 DEF Values, Places
    <3> QED BY <3>1, Zenon DEF CallRecords
  <2> HIDE DEF x
  <2>5. \A k \in withdrawn : k[1] = "mission" => Gone(k, x.copy)
    BY <2>3, WithdrawnGone
  <2> QED BY <2>1, <2>2, <2>3, <2>4, <2>5 DEF CallOK, MissionCopy, Harmless
<1> HIDE DEF x
<1>6. \A c \in Calls : CallOK(c, call'[c])
  BY <1>1, <1>5, AtRest
<1>7. \A c \in Calls : CallOK(c, call[c])'
  BY <1>1, <1>6 DEF CallOK
<1> QED BY <1>2, <1>3, <1>4, <1>7, Zenon DEF StoreInv

LEMMA StoreUnchanged == ASSUME StoreInv, UNCHANGED storeVars PROVE StoreInv'
<1>1. UNCHANGED <<disk, chain, call, withdrawn>>
  BY DEF storeVars
<1> QED BY <1>1 DEF StoreInv, StoreType, ChainOK, EntryOK, WithdrawnOK, CallOK, Contents

LEMMA StoreStep == ASSUME StoreInv, [Next]_vars PROVE StoreInv'
<1>1. CASE Request
  BY <1>1, MissionKeeps, RegistryKeeps, StoreUnchanged DEF Request
<1>2. ASSUME NEW c \in Calls, Return(c) PROVE StoreInv'
  BY <1>2, LeaveKeeps DEF Return, At
<1>3. CASE Step
  BY <1>2, <1>3, MissionKeeps, RegistryKeeps, WriteNextKeeps, StoreUnchanged DEF Step
<1>4. CASE Close
  BY <1>4, StoreUnchanged DEF Close
<1>5. CASE UNCHANGED vars
  BY <1>5, StoreUnchanged DEF vars
<1> QED BY <1>1, <1>3, <1>4, <1>5, RestartKeeps DEF Next

LEMMA StoreStart == ServiceInit => StoreInv
<1> SUFFICES ASSUME ServiceInit PROVE StoreInv
  OBVIOUS
<1>1. /\ disk = [k \in Records |-> Absent] /\ chain = <<>> /\ withdrawn = {}
      /\ call = [c \in Calls |-> Idle]
  BY DEF ServiceInit, StoreInit
<1>2. StoreType
  BY <1>1 DEF StoreType
<1>3. \A c \in Calls : CallOK(c, call[c])
  BY <1>1, AtRest
<1>4. ChainOK /\ WithdrawnOK
  BY <1>1 DEF ChainOK, WithdrawnOK
<1> QED BY <1>2, <1>3, <1>4 DEF StoreInv

(* A revocation of a node or an entry, or a cancellation of a mission,     *)
(* that no other call of its collection overlaps is never undone: not by   *)
(* a heartbeat, an audit, a resume, or a recovery after a crash, for any   *)
(* number of records, calls and stages.                                    *)
THEOREM WithdrawnLasts == Spec => []WithdrawnStays
<1>1. ServiceInit => StoreInv
  BY StoreStart
<1>2. StoreInv /\ [Next]_vars => StoreInv'
  BY StoreStep
<1>3. StoreInv => WithdrawnStays
  BY WithdrawnGone DEF WithdrawnStays, Gone, Revoking
<1> QED BY <1>1, <1>2, <1>3, PTL DEF Spec

-----------------------------------------------------------------------------
(***************************************************************************)
(* The missions come to rest.  A run that says it is running is worked on, *)
(* is about to be written or waits for the recovery; whatever its status,  *)
(* its stages are those it may rest with.                                  *)
(***************************************************************************)
RunOK(v) ==
  /\ v.status = "running" =>
       /\ \A i, j \in Active(v) : i = j
       /\ \A i \in 1..Stages : v.stages[i] \in {"pending", "completed", "running"}
  /\ v.status \notin {"running", "cancelled"} => Active(v) = {}
  /\ v.status \in {"completed", "awaiting-approval"} =>
       v.gates # "pending" /\ \A i \in 1..Stages : v.stages[i] = "completed"

CopyOK(x) ==
  /\ x.at \in {"stage", "operation", "resume", "cancel"} => RunOK(x.copy)
  /\ x.at = "stage" => Active(x.copy) = {}

Running == disk[Mission] # Absent /\ disk[Mission].status = "running"

RunsOK ==
  /\ Mission \in Records /\ Recovery \in Calls
  /\ disk[Mission] # Absent => RunOK(disk[Mission])
  /\ \A c \in MissionCalls : CopyOK(call[c])

EntriesOK ==
  \A i \in 1..Len(chain) :
    chain[i][2] = Mission =>
      /\ RunOK(chain[i][3])
      /\ chain[i][3].status = "running" => call[chain[i][1]].at \in {"stage", "operation"}

UnderWay ==
  Running => \/ \E c \in MissionCalls : call[c].at \in {"stage", "operation", "recover"}
             \/ \E i \in 1..Len(chain) : chain[i][2] = Mission

Recovering ==
  call[Recovery].at = "recover" =>
    /\ call[Recovery].copy = disk[Mission] /\ chain = <<>>
    /\ \A c \in Calls \ {Recovery} : call[c] = Idle

RestInv == RunsOK /\ EntriesOK /\ UnderWay /\ Recovering

LEMMA RestInvRests == RestInv => MissionRests
<1> SUFFICES ASSUME RestInv, Resting, disk[Mission] # Absent
             PROVE  /\ disk[Mission].status # "running"
                    /\ disk[Mission].status # "cancelled" => Active(disk[Mission]) = {}
                    /\ disk[Mission].status \in {"completed", "awaiting-approval"} =>
                         /\ disk[Mission].gates # "pending"
                         /\ \A i \in 1..Stages : disk[Mission].stages[i] = "completed"
  BY DEF MissionRests
<1>1. Len(chain) = 0 /\ \A c \in Calls : call[c].at = "idle"
  BY DEF Resting, Idle
<1>2. ~Running
  BY <1>1 DEF RestInv, UnderWay, MissionCalls
<1> QED BY <1>2 DEF RestInv, RunsOK, RunOK, Running

(* A mission's call that reads or leaves.                                  *)
LEMMA Moved ==
  ASSUME StoreInv, RestInv, NEW c \in MissionCalls, ~Writing(c), NEW x, CopyOK(x),
         call' = [call EXCEPT ![c] = x], UNCHANGED <<disk, chain>>, x.at # "recover",
         call[Recovery].at # "recover" \/ c = Recovery,
         call[c].at \notin {"stage", "operation"}, call[c].at = "recover" => ~Running
  PROVE  RestInv'
<1>1. /\ c \in Calls /\ MissionCalls \subseteq Calls
      /\ \A b \in Calls : call'[b] = IF b = c THEN x ELSE call[b]
  BY DEF StoreInv, StoreType, MissionCalls
<1>2. RunsOK'
  <2>1. /\ Mission \in Records /\ Recovery \in Calls
        /\ (disk[Mission] # Absent => RunOK(disk[Mission]))'
    BY DEF RestInv, RunsOK, RunOK
  <2>2. ASSUME NEW b \in MissionCalls PROVE CopyOK(call[b])'
    <3>1. CASE b = c  BY <1>1, <3>1 DEF CopyOK, RunOK
    <3>2. CASE b # c
      <4>1. call'[b] = call[b] /\ CopyOK(call[b])
        BY <1>1, <3>2 DEF RestInv, RunsOK
      <4> QED BY <4>1 DEF CopyOK, RunOK
    <3> QED BY <3>1, <3>2
  <2> QED BY <2>1, <2>2 DEF RunsOK
<1>3. EntriesOK'
  <2>1. \A i \in 1..Len(chain) : chain[i][1] \in Calls /\ chain[i][1] # c
    BY ChainTyped DEF Writing
  <2> QED BY <1>1, <2>1 DEF RestInv, EntriesOK
<1>4. UnderWay'
  BY <1>1 DEF RestInv, UnderWay, Running
<1>5. Recovering'
  BY <1>1 DEF RestInv, RunsOK, Recovering
<1> QED BY <1>2, <1>3, <1>4, <1>5 DEF RestInv

(* A mission's call that writes a run; if it still runs, so does the call. *)
LEMMA Stored ==
  ASSUME StoreInv, RestInv, NEW c \in MissionCalls, ~Writing(c), NEW v, NEW p,
         Persist(c, v, p), RunOK(v), v.status = "running" => p \in {"stage", "operation"},
         p = "stage" => Active(v) = {}, p \in {"stage", "operation", "return"}, v \in Runs,
         call[Recovery].at # "recover" \/ c = Recovery
  PROVE  RestInv'
<1> DEFINE x == [at |-> p, copy |-> v, todo |-> {Mission}]
<1>1. /\ chain' = Append(chain, <<c, Mission, v>>) /\ call' = [call EXCEPT ![c] = x]
      /\ disk' = disk /\ x.at = p /\ x.copy = v
  BY DEF Persist, Write
<1> HIDE DEF x
<1>2. /\ c \in Calls /\ MissionCalls \subseteq Calls
      /\ \A b \in Calls : call'[b] = IF b = c THEN x ELSE call[b]
  BY <1>1 DEF StoreInv, StoreType, MissionCalls
<1>3. /\ chain \in Seq(Calls \X Records \X Values)
      /\ <<c, Mission, v>> \in Calls \X Records \X Values
  <2>1. chain \in Seq(Calls \X Records \X Values)
    BY DEF StoreInv, StoreType
  <2>2. Mission \in Records /\ v \in Values
    BY DEF RestInv, RunsOK, Values
  <2> QED BY <1>2, <2>1, <2>2, Zenon
<1>4. /\ Len(chain) \in Nat /\ Len(chain') = Len(chain) + 1
      /\ \A i \in 1..Len(chain) : chain'[i] = chain[i]
      /\ chain'[Len(chain) + 1] = <<c, Mission, v>>
  BY <1>1, <1>3, AppendProperties, LenProperties
<1>5. Len(chain) + 1 \in 1..Len(chain') /\ chain'[Len(chain) + 1][2] = Mission
  BY <1>4
<1>6. RunsOK'
  <2>1. CopyOK(x)
    BY <1>1 DEF CopyOK
  <2>2. \A b \in MissionCalls : CopyOK(call'[b])
    BY <1>2, <2>1 DEF RestInv, RunsOK
  <2>3. disk'[Mission] # Absent => RunOK(disk'[Mission])
    BY <1>1 DEF RestInv, RunsOK
  <2> QED BY <2>2, <2>3 DEF RestInv, RunsOK, CopyOK, RunOK
<1>7. EntriesOK'
  <2>1. \A i \in 1..Len(chain) : chain[i][1] \in Calls /\ chain[i][1] # c
    BY ChainTyped DEF Writing
  <2>2. ASSUME NEW i \in 1..Len(chain'), chain'[i][2] = Mission
        PROVE  /\ RunOK(chain'[i][3])
               /\ chain'[i][3].status = "running" =>
                    call'[chain'[i][1]].at \in {"stage", "operation"}
    <3>1. CASE i \in 1..Len(chain)
      BY <1>2, <1>4, <2>1, <2>2, <3>1 DEF RestInv, EntriesOK
    <3>2. CASE i = Len(chain) + 1
      BY <1>1, <1>2, <1>4, <3>2
    <3> QED BY <1>4, <3>1, <3>2
  <2> QED BY <2>2 DEF EntriesOK, RunOK
<1>8. UnderWay'
  BY <1>5 DEF UnderWay
<1>9. Recovering'
  BY <1>1, <1>2 DEF RestInv, RunsOK, Recovering
<1> QED BY <1>6, <1>7, <1>8, <1>9 DEF RestInv

(* Settling the stage that runs leaves none running.                       *)
LEMMA NoneActive ==
  ASSUME NEW run \in Runs, RunOK(run), run.status = "running",
         NEW s \in Statuses \ {"running"}
  PROVE  /\ Settled(run, s) \in Runs /\ Settled(run, s).status = "running"
         /\ Active(Settled(run, s)) = {}
         /\ \A i \in 1..Stages : Settled(run, s).stages[i] \in {"pending", "completed", s}
<1>1. Settled(run, s) \in Runs /\ Settled(run, s).status = "running"
  BY SettledRun
<1>2. /\ \A i, j \in Active(run) : i = j
      /\ \A i \in 1..Stages : run.stages[i] \in {"pending", "completed", "running"}
  BY DEF RunOK
<1>3. \A i \in 1..Stages : Settled(run, s).stages[i] \in {"pending", "completed", s}
  <2>1. CASE Active(run) = {}
    BY <1>2, <2>1 DEF Settled, Active
  <2>2. CASE Active(run) # {}
    <3>1. PICK n \in Active(run) : Active(run) = {n}
      BY <1>2, <2>2
    <3>2. n \in 1..Stages /\ n <= n
      BY <3>1, MissionAssumption DEF Active
    <3>3. First(Active(run)) = n
      BY <3>1, <3>2 DEF First
    <3>4. Settled(run, s).stages = [run.stages EXCEPT ![n] = s]
      BY <2>2, <3>3 DEF Settled, Runs
    <3>5. run.stages \in [1..Stages -> Statuses]
      BY DEF Runs
    <3>6. \A i \in 1..Stages : i # n => run.stages[i] # "running"
      BY <3>1 DEF Active
    <3> QED BY <1>2, <3>2, <3>4, <3>5, <3>6
  <2> QED BY <2>1, <2>2
<1>4. Active(Settled(run, s)) = {}
  BY <1>3 DEF Active
<1> QED BY <1>1, <1>3, <1>4

(* A call at work means that the recovery is over.                         *)
LEMMA RecoveryOver ==
  ASSUME RestInv, NEW c \in Calls, call[c] # Idle
  PROVE  call[Recovery].at # "recover" \/ c = Recovery
BY DEF RestInv, Recovering

LEMMA StartRests ==
  ASSUME StoreInv, RestInv, NEW e \in MissionCalls, call[e] = Idle, StartMission(e),
         call[Recovery].at # "recover"
  PROVE  RestInv'
<1>1. NewRun.stages = [i \in 1..Stages |-> "pending"] /\ NewRun.status = "running"
  BY DEF NewRun
<1>2. Active(NewRun) = {} /\ RunOK(NewRun)
  BY <1>1 DEF Active, RunOK
<1>3. NewRun \in Runs
  <2>1. [i \in 1..Stages |-> "pending"] \in [1..Stages -> Statuses] /\ "running" \in Statuses
    BY DEF Statuses
  <2> QED BY <2>1 DEF NewRun, Runs, Statuses
<1>4. ~Writing(e) /\ Persist(e, NewRun, "stage")
  BY IdleNotWriting DEF MissionCalls, StartMission
<1> QED BY <1>1, <1>2, <1>3, <1>4, Stored

LEMMA ExecutionRests ==
  ASSUME StoreInv, RestInv, NEW e \in MissionCalls
  PROVE  /\ BeginStage(e) \/ EndStage(e) \/ FailStage(e) => RestInv'
         /\ \A signals \in BOOLEAN : Conclude(e, signals) => RestInv'
<1> DEFINE run == call[e].copy
<1> SUFFICES ASSUME \/ BeginStage(e) \/ EndStage(e) \/ FailStage(e)
                    \/ \E signals \in BOOLEAN : Conclude(e, signals)
             PROVE  RestInv'
  OBVIOUS
<1>1. call[e].at \in {"stage", "operation"} /\ ~Writing(e)
  <2>1. CASE BeginStage(e)  BY <2>1 DEF BeginStage, At
  <2>2. CASE EndStage(e)  BY <2>2 DEF EndStage, At
  <2>3. CASE FailStage(e)  BY <2>3 DEF FailStage, At
  <2>4. ASSUME NEW signals \in BOOLEAN, Conclude(e, signals)
        PROVE  call[e].at \in {"stage", "operation"} /\ ~Writing(e)
    <3>1. At(e, "stage")
      BY <2>4, Zenon DEF Conclude
    <3> QED BY <3>1 DEF At
  <2> QED BY <2>1, <2>2, <2>3, <2>4
<1>2. /\ run \in Runs /\ run.status = "running" /\ RunOK(run)
      /\ call[e].at = "stage" => Active(run) = {}
  BY <1>1, Executing DEF RestInv, RunsOK, CopyOK
<1>3. call[Recovery].at # "recover" \/ e = Recovery
  BY <1>1, RecoveryOver DEF Idle, MissionCalls
<1> HIDE DEF run
<1>4. ASSUME BeginStage(e) PROVE RestInv'
  <2> DEFINE n == First(Pending(run))
             f == [run.stages EXCEPT ![n] = "running"]
             v == [run EXCEPT !.stages = f]
  <2>1. Persist(e, v, "operation") /\ Active(run) = {}
    BY <1>2, <1>4 DEF BeginStage, At, run
  <2> HIDE DEF n
  <2>2. run.stages \in [1..Stages -> Statuses]
    BY <1>2 DEF Runs
  <2>3. /\ f \in [1..Stages -> Statuses]
        /\ \A i \in 1..Stages : f[i] = IF i = n THEN "running" ELSE run.stages[i]
    BY <2>2 DEF Statuses
  <2> HIDE DEF f
  <2>4. v \in Runs /\ v.status = "running" /\ v.stages = f
    BY <1>2, <2>3 DEF Runs
  <2> HIDE DEF v
  <2>5. \A i \in Active(v) : i = n
    BY <2>1, <2>3, <2>4 DEF Active
  <2>6. \A i \in 1..Stages : v.stages[i] \in {"pending", "completed", "running"}
    BY <1>2, <2>3, <2>4 DEF RunOK
  <2>7. RunOK(v)
    BY <2>4, <2>5, <2>6 DEF RunOK
  <2> QED BY <1>1, <1>3, <2>1, <2>4, <2>7, Stored
<1>5. ASSUME EndStage(e) PROVE RestInv'
  <2> DEFINE v == Settled(run, "completed")
  <2>1. /\ v \in Runs /\ v.status = "running" /\ Active(v) = {}
        /\ \A i \in 1..Stages : v.stages[i] \in {"pending", "completed"}
    BY <1>2, NoneActive DEF Statuses
  <2>2. Persist(e, v, "stage")
    BY <1>5 DEF EndStage, run
  <2> HIDE DEF v
  <2>3. RunOK(v)
    BY <2>1 DEF RunOK
  <2> QED BY <1>1, <1>3, <2>1, <2>2, <2>3, Stored
<1>6. ASSUME FailStage(e) PROVE RestInv'
  <2> DEFINE r == Settled(run, "failed")
             v == [r EXCEPT !.status = "failed"]
  <2>1. r \in Runs /\ Active(r) = {}
    BY <1>2, NoneActive DEF Statuses
  <2>2. Persist(e, v, "return")
    BY <1>6 DEF FailStage, run
  <2> HIDE DEF r
  <2>3. v \in Runs /\ v.status = "failed" /\ v.stages = r.stages
    BY <2>1 DEF Runs, Statuses
  <2> HIDE DEF v
  <2>4. Active(v) = {}
    BY <2>1, <2>3 DEF Active
  <2>5. RunOK(v)
    BY <2>3, <2>4 DEF RunOK
  <2> QED BY <1>1, <1>3, <2>2, <2>3, <2>5, Stored
<1>7. ASSUME NEW signals \in BOOLEAN, Conclude(e, signals) PROVE RestInv'
  <2> DEFINE s == IF signals THEN "awaiting-approval" ELSE "completed"
             g == IF signals THEN "awaiting-approval" ELSE "skipped"
             v == [run EXCEPT !.status = s, !.gates = g]
  <2>1. /\ s \in {"awaiting-approval", "completed"} /\ g \in Statuses \ {"pending"}
        /\ s \in Statuses
    BY DEF Statuses
  <2>2. Persist(e, v, "return") /\ Active(run) = {} /\ Pending(run) = {}
    <3>1. Persist(e, v, "return") /\ At(e, "stage") /\ Pending(run) = {}
      BY <1>7, Zenon DEF Conclude, run
    <3> QED BY <1>2, <3>1 DEF At
  <2> HIDE DEF s, g
  <2>3. v \in Runs /\ v.status = s /\ v.gates = g /\ v.stages = run.stages
    BY <1>2, <2>1 DEF Runs
  <2> HIDE DEF v
  <2>4. \A i \in 1..Stages : v.stages[i] = "completed"
    BY <1>2, <2>2, <2>3 DEF RunOK, Active, Pending
  <2>5. Active(v) = {}
    BY <2>4 DEF Active
  <2>6. RunOK(v)
    BY <2>1, <2>3, <2>4, <2>5 DEF RunOK
  <2> QED BY <1>1, <1>3, <2>1, <2>2, <2>3, <2>6, Stored
<1> QED BY <1>4, <1>5, <1>6, <1>7

LEMMA LoadRests ==
  ASSUME StoreInv, RestInv, NEW c \in MissionCalls, NEW p \in {"resume", "cancel"},
         Load(c, p), call[Recovery].at # "recover"
  PROVE  RestInv'
<1> DEFINE x == [at |-> p, copy |-> disk[Mission], todo |-> {Mission}]
<1>1. /\ call' = [call EXCEPT ![c] = x] /\ UNCHANGED <<disk, chain>>
      /\ call[c] = Idle /\ RunOK(disk[Mission])
  BY DEF Load, Read, RestInv, RunsOK
<1>2. x.at = p /\ x.copy = disk[Mission]
  OBVIOUS
<1> HIDE DEF x
<1>3. CopyOK(x)
  BY <1>1, <1>2 DEF CopyOK
<1>4. call[c].at = "idle" /\ ~Writing(c)
  BY <1>1, IdleNotWriting DEF Idle, MissionCalls
<1> QED BY <1>1, <1>2, <1>3, <1>4, Moved

LEMMA LeaveRests ==
  ASSUME StoreInv, RestInv, NEW c \in MissionCalls, ~Writing(c), Leave(c),
         call[c].at \in {"resume", "cancel", "return", "recover"},
         call[c].at = "recover" => ~Running
  PROVE  RestInv'
<1>1. Idle.at = "idle" /\ CopyOK(Idle)
  BY DEF Idle, CopyOK
<1>2. call[Recovery].at # "recover" \/ c = Recovery
  BY <1>1, RecoveryOver DEF MissionCalls
<1>3. call' = [call EXCEPT ![c] = Idle] /\ UNCHANGED <<disk, chain>>
  BY DEF Leave
<1> QED BY <1>1, <1>2, <1>3, Moved

LEMMA LoadedRests ==
  ASSUME StoreInv, RestInv, NEW c \in MissionCalls
  PROVE  Resumed(c) \/ ResumeRefused(c) \/ Cancelled(c) \/ CancelIgnored(c) => RestInv'
<1> DEFINE run == call[c].copy
<1> SUFFICES ASSUME Resumed(c) \/ ResumeRefused(c) \/ Cancelled(c) \/ CancelIgnored(c)
             PROVE  RestInv'
  OBVIOUS
<1>1. call[c].at \in {"resume", "cancel"} /\ ~Writing(c)
  BY DEF Resumed, ResumeRefused, Cancelled, CancelIgnored, At
<1>2. run \in Runs
  BY <1>1, MissionCall DEF MissionCopy
<1>3. call[Recovery].at # "recover" \/ c = Recovery
  BY <1>1, RecoveryOver DEF Idle, MissionCalls
<1> HIDE DEF run
<1>4. ASSUME Resumed(c) PROVE RestInv'
  <2> DEFINE f == [i \in 1..Stages |-> "pending"]
             v == [run EXCEPT !.status = "running", !.stages = f]
  <2>1. Persist(c, v, "stage")
    BY <1>4 DEF Resumed, NewRun, run
  <2>2. f \in [1..Stages -> Statuses] /\ \A i \in 1..Stages : f[i] = "pending"
    BY DEF Statuses
  <2> HIDE DEF f
  <2>3. v \in Runs /\ v.status = "running" /\ v.stages = f
    BY <1>2, <2>2 DEF Runs, Statuses
  <2> HIDE DEF v
  <2>4. Active(v) = {} /\ RunOK(v)
    BY <2>2, <2>3 DEF Active, RunOK
  <2> QED BY <1>1, <1>3, <2>1, <2>3, <2>4, Stored
<1>5. ASSUME Cancelled(c) PROVE RestInv'
  <2> DEFINE v == [run EXCEPT !.status = "cancelled"]
  <2>1. v \in Runs /\ v.status = "cancelled"
    BY <1>2 DEF Runs, Statuses
  <2>2. Persist(c, v, "return")
    BY <1>5 DEF Cancelled, run
  <2> HIDE DEF v
  <2>3. RunOK(v)
    BY <2>1 DEF RunOK
  <2> QED BY <1>1, <1>3, <2>1, <2>2, <2>3, Stored
<1>6. ASSUME ResumeRefused(c) \/ CancelIgnored(c) PROVE RestInv'
  <2>1. Leave(c)
    BY <1>6 DEF ResumeRefused, CancelIgnored
  <2> QED BY <1>1, <2>1, LeaveRests
<1> QED BY <1>4, <1>5, <1>6

(* The recovery has read what is on disk, and nothing is written before it.*)
LEMMA RecoveredRests == ASSUME StoreInv, RestInv, Recovered PROVE RestInv'
<1> DEFINE run == call[Recovery].copy
<1>1. /\ Recovery \in MissionCalls /\ call[Recovery].at = "recover" /\ ~Writing(Recovery)
  BY DEF Recovered, At, MissionCalls, Recovery
<1>2. run = disk[Mission]
  BY <1>1 DEF RestInv, Recovering
<1>3. CASE ~(run # Absent /\ run.status = "running")
  <2>1. Leave(Recovery) /\ ~Running
    BY <1>2, <1>3 DEF Recovered, Running
  <2> QED BY <1>1, <2>1, LeaveRests
<1>4. CASE run # Absent /\ run.status = "running"
  <2> DEFINE r == Settled(run, "pending")
             v == [r EXCEPT !.status = "paused"]
  <2>1. run \in Runs /\ RunOK(run)
    BY <1>1, <1>2, <1>4, MissionCall DEF MissionCopy, RestInv, RunsOK
  <2>2. r \in Runs /\ Active(r) = {}
    BY <1>4, <2>1, NoneActive DEF Statuses
  <2>3. Persist(Recovery, v, "return")
    BY <1>4 DEF Recovered, Interrupted
  <2> HIDE DEF r
  <2>4. v \in Runs /\ v.status = "paused" /\ v.stages = r.stages
    BY <2>2 DEF Runs, Statuses
  <2> HIDE DEF v
  <2>5. Active(v) = {}
    BY <2>2, <2>4 DEF Active
  <2>6. RunOK(v)
    BY <2>4, <2>5 DEF RunOK
  <2> QED BY <1>1, <2>3, <2>4, <2>6, Stored
<1> QED BY <1>3, <1>4

LEMMA ReturnRests ==
  ASSUME StoreInv, RestInv, NEW c \in MissionCalls, Return(c) PROVE RestInv'
<1>1. call[c].at = "return" /\ ~Writing(c) /\ Leave(c)
  BY DEF Return, At
<1> QED BY <1>1, LeaveRests

LEMMA MissionStepRests == ASSUME StoreInv, RestInv, MissionStep PROVE RestInv'
<1>1. Executions \subseteq MissionCalls /\ Cancels \subseteq MissionCalls
  BY DEF Executions, Cancels, MissionCalls
<1>2. ASSUME NEW e \in Executions, BeginStage(e) \/ EndStage(e) \/ FailStage(e) PROVE RestInv'
  BY <1>1, <1>2, ExecutionRests
<1>3. ASSUME NEW e \in Executions, NEW signals \in BOOLEAN, Conclude(e, signals)
      PROVE  RestInv'
  BY <1>1, <1>3, ExecutionRests
<1>4. ASSUME NEW e \in Executions, Resumed(e) \/ ResumeRefused(e) PROVE RestInv'
  BY <1>1, <1>4, LoadedRests
<1>5. ASSUME NEW c \in Cancels, Cancelled(c) \/ CancelIgnored(c) PROVE RestInv'
  BY <1>1, <1>5, LoadedRests
<1> QED BY <1>2, <1>3, <1>4, <1>5, RecoveredRests DEF MissionStep

LEMMA MissionRequestRests ==
  ASSUME StoreInv, RestInv, MissionRequest, call[Recovery].at # "recover" PROVE RestInv'
<1>1. Executions \subseteq MissionCalls /\ Cancels \subseteq MissionCalls
  BY DEF Executions, Cancels, MissionCalls
<1>2. ASSUME NEW e \in Executions, call[e] = Idle, StartMission(e) \/ ResumeMission(e)
      PROVE  RestInv'
  BY <1>1, <1>2, StartRests, LoadRests DEF ResumeMission
<1>3. ASSUME NEW c \in Cancels, CancelMission(c) PROVE RestInv'
  BY <1>1, <1>3, LoadRests DEF CancelMission
<1> QED BY <1>2, <1>3 DEF MissionRequest

(* A run that is written as running is still worked on.                    *)
LEMMA WriteNextRests == ASSUME StoreInv, RestInv, WriteNext PROVE RestInv'
<1> DEFINE w == Head(chain)
<1>1. chain \in Seq(Calls \X Records \X Values) /\ chain # <<>> /\ chain' = Tail(chain)
  BY DEF StoreInv, StoreType, WriteNext
<1>2. Len(chain) \in Nat /\ 1 \in 1..Len(chain) /\ w = chain[1]
  BY <1>1, HeadTailProperties, EmptySeq, LenProperties
<1>3. /\ Len(chain') = Len(chain) - 1
      /\ \A i \in 1..Len(chain') : chain'[i] = chain[i + 1] /\ i + 1 \in 1..Len(chain)
  BY <1>1, <1>2, HeadTailProperties
<1>4. w[1] \in Calls /\ EntryOK(w[1], w[2], w[3])
  BY <1>2, ChainTyped
<1>5. disk' = [disk EXCEPT ![w[2]] = w[3]] /\ call' = call
  BY DEF WriteNext
<1>6. w[2] = Mission =>
        RunOK(w[3]) /\ (w[3].status = "running" => call[w[1]].at \in {"stage", "operation"})
  BY <1>2 DEF RestInv, EntriesOK
<1> HIDE DEF w
<1>7. disk'[Mission] = IF w[2] = Mission THEN w[3] ELSE disk[Mission]
  BY <1>5 DEF StoreInv, StoreType, RestInv, RunsOK
<1>8. RunsOK'
  <2>1. disk'[Mission] # Absent => RunOK(disk'[Mission])
    BY <1>6, <1>7 DEF RestInv, RunsOK
  <2>2. \A c \in MissionCalls : CopyOK(call[c])'
    BY <1>5 DEF RestInv, RunsOK, CopyOK, RunOK
  <2>3. (disk[Mission] # Absent => RunOK(disk[Mission]))'
    BY <2>1 DEF RunOK
  <2> QED BY <2>2, <2>3 DEF RestInv, RunsOK, MissionCalls
<1>9. EntriesOK'
  <2>1. ASSUME NEW i \in 1..Len(chain'), chain'[i][2] = Mission
        PROVE  /\ RunOK(chain'[i][3])
               /\ chain'[i][3].status = "running" =>
                    call'[chain'[i][1]].at \in {"stage", "operation"}
    <3>1. i + 1 \in 1..Len(chain) /\ chain'[i] = chain[i + 1]
      BY <1>3
    <3> QED BY <1>5, <2>1, <3>1 DEF RestInv, EntriesOK
  <2> QED BY <2>1 DEF EntriesOK, RunOK
<1>10. UnderWay'
  <2>1. ASSUME Running', w[2] = Mission
        PROVE  \E c \in MissionCalls : call[c].at \in {"stage", "operation"}
    <3>1. w[1] \in MissionCalls
      BY <1>4, <2>1 DEF EntryOK, Mission, MissionCalls
    <3>2. w[3].status = "running"
      BY <1>7, <2>1 DEF Running
    <3> QED BY <1>6, <2>1, <3>1, <3>2
  <2>2. ASSUME Running', w[2] # Mission, NEW i \in 1..Len(chain), chain[i][2] = Mission
        PROVE  \E j \in 1..Len(chain') : chain'[j][2] = Mission
    <3>1. i # 1 /\ i \in 1..Len(chain)
      BY <1>2, <2>2
    <3>2. i - 1 \in 1..Len(chain') /\ (i - 1) + 1 = i
      BY <1>2, <1>3, <3>1
    <3>3. chain'[i - 1] = chain[i]
      BY <1>3, <3>2
    <3> QED BY <2>2, <3>2, <3>3
  <2>3. ASSUME Running', w[2] # Mission PROVE Running
    BY <1>7, <2>3 DEF Running
  <2>4. MissionCalls' = MissionCalls
    BY DEF MissionCalls
  <2> QED BY <1>5, <2>1, <2>2, <2>3, <2>4 DEF RestInv, UnderWay
<1>11. Recovering'
  BY <1>1, <1>5 DEF RestInv, Recovering
<1> QED BY <1>8, <1>9, <1>10, <1>11 DEF RestInv

(* After a restart the recovery has the run that was left.                 *)
LEMMA RestartRests == ASSUME StoreInv, RestInv, Restart PROVE RestInv'
<1> DEFINE x == [at |-> "recover", copy |-> disk[Mission], todo |-> {Mission}]
<1>1. /\ chain' = <<>> /\ disk' = disk
      /\ \A c \in Calls : call'[c] = IF c # Recovery THEN Idle ELSE x
  BY DEF Restart, RestInv, RunsOK
<1>2. x.at = "recover" /\ x.copy = disk[Mission] /\ Idle.at = "idle"
  BY DEF Idle
<1> HIDE DEF x
<1>3. /\ Mission \in Records /\ Recovery \in Calls
      /\ Recovery \in MissionCalls /\ MissionCalls \subseteq Calls
  BY DEF RestInv, RunsOK, MissionCalls, Recovery
<1>4. CopyOK(x) /\ CopyOK(Idle)
  BY <1>2 DEF CopyOK
<1>5. RunsOK'
  <2>1. \A c \in MissionCalls : CopyOK(call'[c])
    BY <1>1, <1>3, <1>4
  <2>2. disk'[Mission] # Absent => RunOK(disk'[Mission])
    BY <1>1 DEF RestInv, RunsOK
  <2> QED BY <1>3, <2>1, <2>2 DEF RunsOK, CopyOK, RunOK
<1>6. EntriesOK'
  BY <1>1 DEF EntriesOK
<1>7. UnderWay'
  <2>1. call'[Recovery].at = "recover"
    BY <1>1, <1>2, <1>3
  <2>2. MissionCalls' = MissionCalls
    BY DEF MissionCalls
  <2> QED BY <1>3, <2>1, <2>2 DEF UnderWay
<1>8. Recovering'
  BY <1>1, <1>2, <1>3 DEF Recovering
<1> QED BY <1>5, <1>6, <1>7, <1>8 DEF RestInv

(* The calls of the other collections leave the mission alone.             *)
Aside(c) ==
  /\ c \in Calls /\ c[1] # "mission" /\ ~Writing(c) /\ disk' = disk
  /\ \A b \in Calls : b # c => call'[b] = call[b]
  /\ \/ chain' = chain
     \/ \E k \in RegistryRecords, v \in Values : chain' = Append(chain, <<c, k, v>>)

LEMMA AsideRests ==
  ASSUME StoreInv, RestInv, NEW c, Aside(c), call[Recovery].at # "recover" PROVE RestInv'
<1>1. /\ MissionCalls \subseteq Calls /\ c \notin MissionCalls
      /\ Recovery \in Calls /\ Recovery # c
      /\ \A b \in Calls : b # c => call'[b] = call[b]
  BY DEF Aside, MissionCalls, RestInv, RunsOK, Recovery
<1>2. \A b \in MissionCalls : call'[b] = call[b]
  BY <1>1
<1>3. disk' = disk /\ Len(chain) \in Nat /\ chain \in Seq(Calls \X Records \X Values)
  BY ChainTyped DEF Aside, StoreInv, StoreType
<1>4. RunsOK'
  <2>1. \A b \in MissionCalls : CopyOK(call'[b])
    BY <1>2 DEF RestInv, RunsOK
  <2> QED BY <1>3, <2>1 DEF RestInv, RunsOK, CopyOK, RunOK, MissionCalls
<1>5. \A i \in 1..Len(chain) :
        chain[i][1] \in Calls /\ call'[chain[i][1]] = call[chain[i][1]]
  BY <1>1, ChainTyped DEF Writing, Aside
<1>6. /\ Len(chain') \in Nat /\ Len(chain) <= Len(chain')
      /\ \A i \in 1..Len(chain) : chain'[i] = chain[i]
      /\ \A i \in 1..Len(chain') : i \notin 1..Len(chain) => chain'[i][2] # Mission
  <2>1. ASSUME NEW k \in RegistryRecords, NEW v \in Values, chain' = Append(chain, <<c, k, v>>)
        PROVE  /\ Len(chain') = Len(chain) + 1
               /\ \A i \in 1..Len(chain) : chain'[i] = chain[i]
               /\ chain'[Len(chain) + 1][2] # Mission
    <3>1. k \in Records /\ k # Mission /\ c \in Calls
      BY DEF Aside, RegistryRecords, Nodes, Entries, Mission
    <3>2. <<c, k, v>> \in Calls \X Records \X Values
      BY <3>1
    <3>3. /\ Len(chain') = Len(chain) + 1
          /\ \A i \in 1..Len(chain) : chain'[i] = chain[i]
          /\ chain'[Len(chain) + 1] = <<c, k, v>>
      BY <1>3, <2>1, <3>2, AppendProperties
    <3> QED BY <3>1, <3>3
  <2> QED BY <1>3, <2>1 DEF Aside
<1>7. EntriesOK'
  <2>1. ASSUME NEW i \in 1..Len(chain'), chain'[i][2] = Mission
        PROVE  /\ RunOK(chain'[i][3])
               /\ chain'[i][3].status = "running" =>
                    call'[chain'[i][1]].at \in {"stage", "operation"}
    <3>1. i \in 1..Len(chain) /\ chain'[i] = chain[i]
      BY <1>6, <2>1
    <3> QED BY <1>5, <2>1, <3>1 DEF RestInv, EntriesOK
  <2> QED BY <2>1 DEF EntriesOK, RunOK
<1>8. UnderWay'
  <2>1. Running' = Running /\ MissionCalls' = MissionCalls
    BY <1>3 DEF Running, MissionCalls
  <2>2. \A i \in 1..Len(chain) : i \in 1..Len(chain') /\ chain'[i] = chain[i]
    BY <1>3, <1>6
  <2> QED BY <1>2, <2>1, <2>2 DEF RestInv, UnderWay
<1>9. Recovering'
  BY <1>1 DEF Recovering
<1> QED BY <1>4, <1>7, <1>8, <1>9 DEF RestInv

LEMMA ReadAside ==
  ASSUME StoreInv, NEW c \in Calls, c[1] # "mission", NEW copy, NEW todo, NEW p,
         Read(c, copy, todo, p)
  PROVE  Aside(c)
BY IdleNotWriting DEF Read, Aside, StoreInv, StoreType

LEMMA LeaveAside ==
  ASSUME StoreInv, NEW c \in Calls, c[1] # "mission", ~Writing(c), Leave(c) PROVE Aside(c)
BY DEF Leave, Aside, StoreInv, StoreType

LEMMA WriteAside ==
  ASSUME StoreInv, NEW c \in Calls, c[1] # "mission", ~Writing(c),
         NEW k \in RegistryRecords, NEW s \in Statuses, NEW next, Write(c, k, Status(s), next)
  PROVE  Aside(c)
<1>1. Status(s) \in Values
  BY DEF Status, Values
<1> QED BY <1>1 DEF Write, Aside, StoreInv, StoreType

LEMMA AddAside ==
  ASSUME StoreInv, NEW c \in Calls, c[1] # "mission", NEW k \in RegistryRecords,
         NEW s \in {"online", "active"}, Add(c, k, s)
  PROVE  Aside(c)
<1>1. ~Writing(c) /\ Write(c, k, Status(s), Returning) /\ s \in Statuses
  BY IdleNotWriting DEF Add, Statuses
<1> QED BY <1>1, WriteAside

LEMMA RequestAside ==
  ASSUME StoreInv, FleetRequest \/ MemoryRequest PROVE \E c \in Calls : Aside(c)
<1>1. \A operation : /\ \A c \in Of("node", operation) : c \in Calls /\ c[1] # "mission"
                     /\ \A c \in Of("entry", operation) : c \in Calls /\ c[1] # "mission"
  BY DEF Of
<1>2. Nodes \subseteq RegistryRecords /\ Entries \subseteq RegistryRecords
  BY DEF RegistryRecords
<1>3. ASSUME NEW k \in RegistryRecords, NEW c \in Calls, c[1] # "mission",
             \/ Register(c, k) \/ Heartbeat(c, k) \/ RevokeNode(c, k)
             \/ WriteEntry(c, k) \/ RevokeEntry(c, k)
      PROVE  Aside(c)
  <2>1. CASE Register(c, k) \/ WriteEntry(c, k)
    BY <1>3, <2>1, AddAside DEF Register, WriteEntry
  <2>2. CASE Heartbeat(c, k) \/ RevokeNode(c, k) \/ RevokeEntry(c, k)
    BY <1>3, <2>2, ReadAside DEF Heartbeat, RevokeNode, RevokeEntry, Fetch
  <2> QED BY <1>3, <2>1, <2>2
<1>4. ASSUME NEW c \in Calls, c[1] # "mission", Audit(c) PROVE Aside(c)
  BY <1>4, ReadAside DEF Audit
<1>5. CASE FleetRequest
  BY <1>1, <1>2, <1>3, <1>5 DEF FleetRequest
<1>6. CASE MemoryRequest
  BY <1>1, <1>2, <1>3, <1>4, <1>6 DEF MemoryRequest
<1> QED BY <1>5, <1>6

LEMMA StepAside ==
  ASSUME StoreInv, RegistryStep PROVE \E c \in Calls : Aside(c) /\ call[c] # Idle
<1>1. \A operation : /\ \A c \in Of("node", operation) : c \in Calls /\ c[1] # "mission"
                     /\ \A c \in Of("entry", operation) : c \in Calls /\ c[1] # "mission"
  BY DEF Of
<1>2. Nodes \subseteq RegistryRecords /\ Entries \subseteq RegistryRecords
  BY DEF RegistryRecords
<1>3. Idle.at = "idle"
  BY DEF Idle
<1>4. ASSUME NEW k \in RegistryRecords, NEW c \in Calls, c[1] # "mission", NEW b \in BOOLEAN,
             \/ HeartbeatRecorded(c, k, b) \/ NodeRevoked(c, k)
             \/ AuditEntry(c, k, b) \/ EntryRevoked(c, k)
      PROVE  Aside(c) /\ call[c] # Idle
  <2>1. /\ call[c].at \in {"heartbeat", "revoke", "audit"} /\ ~Writing(c)
    BY <1>4 DEF HeartbeatRecorded, NodeRevoked, AuditEntry, EntryRevoked, At
  <2>2. PICK s \in Statuses : \E next : Write(c, k, Status(s), next)
    <3>1. CASE HeartbeatRecorded(c, k, b)
      BY <3>1 DEF HeartbeatRecorded, Replace, Statuses
    <3>2. CASE NodeRevoked(c, k) \/ EntryRevoked(c, k)
      BY <3>2 DEF NodeRevoked, EntryRevoked, Replace, Statuses
    <3>3. CASE AuditEntry(c, k, b)
      BY <3>3 DEF AuditEntry, Statuses
    <3> QED BY <1>4, <3>1, <3>2, <3>3
  <2> QED BY <1>3, <1>4, <2>1, <2>2, WriteAside
<1>5. ASSUME NEW c \in Calls, c[1] # "mission", HeartbeatRefused(c) \/ AuditEnds(c)
      PROVE  Aside(c) /\ call[c] # Idle
  <2>1. /\ call[c].at \in {"heartbeat", "audit"} /\ ~Writing(c) /\ Leave(c)
    BY <1>5 DEF HeartbeatRefused, AuditEnds, At
  <2> QED BY <1>3, <1>5, <2>1, LeaveAside
<1> QED BY <1>1, <1>2, <1>4, <1>5 DEF RegistryStep

LEMMA RestUnchanged == ASSUME RestInv, UNCHANGED storeVars PROVE RestInv'
<1>1. UNCHANGED <<disk, chain, call>>
  BY DEF storeVars
<1>2. RunsOK'
  <2>1. /\ Mission \in Records /\ Recovery \in Calls
        /\ (disk[Mission] # Absent => RunOK(disk[Mission]))'
    BY <1>1 DEF RestInv, RunsOK, RunOK
  <2>2. \A c \in MissionCalls : CopyOK(call[c])'
    BY <1>1 DEF RestInv, RunsOK, CopyOK, RunOK
  <2> QED BY <2>1, <2>2 DEF RunsOK, MissionCalls
<1>3. EntriesOK'
  <2>1. ASSUME NEW i \in 1..Len(chain'), chain'[i][2] = Mission
        PROVE  /\ RunOK(chain[i][3])'
               /\ chain'[i][3].status = "running" =>
                    call'[chain'[i][1]].at \in {"stage", "operation"}
    <3>1. /\ RunOK(chain[i][3])
          /\ chain[i][3].status = "running" => call[chain[i][1]].at \in {"stage", "operation"}
      BY <1>1, <2>1 DEF RestInv, EntriesOK
    <3> QED BY <1>1, <3>1 DEF RunOK
  <2> QED BY <2>1 DEF EntriesOK
<1>4. UnderWay' /\ Recovering'
  BY <1>1 DEF RestInv, UnderWay, Running, Recovering, MissionCalls
<1> QED BY <1>2, <1>3, <1>4 DEF RestInv

LEMMA RestStep == ASSUME StoreInv, RestInv, [Next]_vars PROVE RestInv'
<1>1. CASE Request
  <2>1. call[Recovery].at # "recover"
    BY <1>1 DEF Request, Serving, RestInv, RunsOK, Idle
  <2>2. CASE MissionRequest
    BY <2>1, <2>2, MissionRequestRests
  <2>3. CASE FleetRequest \/ MemoryRequest
    BY <2>1, <2>3, RequestAside, AsideRests
  <2>4. CASE UNCHANGED storeVars
    BY <2>4, RestUnchanged
  <2> QED BY <1>1, <2>2, <2>3, <2>4 DEF Request
<1>2. CASE Step
  <2>1. CASE RegistryStep
    <3>1. PICK c \in Calls : Aside(c) /\ call[c] # Idle
      BY <2>1, StepAside
    <3>2. call[Recovery].at # "recover"
      BY <3>1, RecoveryOver DEF Aside, Recovery
    <3> QED BY <3>1, <3>2, AsideRests
  <2>2. ASSUME NEW c \in Calls, Return(c) PROVE RestInv'
    <3>1. /\ call[c].at = "return" /\ ~Writing(c) /\ Leave(c) /\ call[c] # Idle
      BY <2>2 DEF Return, At, Idle
    <3>2. CASE c \in MissionCalls
      BY <2>2, <3>2, ReturnRests
    <3>3. CASE c \notin MissionCalls
      <4>1. Aside(c)
        BY <3>1, <3>3, LeaveAside DEF MissionCalls
      <4>2. call[Recovery].at # "recover"
        BY <3>1, RecoveryOver
      <4> QED BY <4>1, <4>2, AsideRests
    <3> QED BY <3>2, <3>3
  <2> QED BY <1>2, <2>1, <2>2, MissionStepRests, WriteNextRests, RestUnchanged DEF Step
<1>3. CASE Close
  BY <1>3, RestUnchanged DEF Close
<1>4. CASE UNCHANGED vars
  BY <1>4, RestUnchanged DEF vars
<1> QED BY <1>1, <1>2, <1>3, <1>4, RestartRests DEF Next

(* When no call is under way and nothing waits to be written, a mission    *)
(* does not say that it runs; none of its stages does unless it was        *)
(* cancelled, and a verdict stands on completed stages: whatever was       *)
(* cancelled, resumed twice or recovered, in a daemon that keeps missions  *)
(* and recovers them, for any number of executions, cancels and stages.    *)
THEOREM MissionsRest ==
  ASSUME Mission \in Records, Recovery \in Calls PROVE Spec => []MissionRests
<1>1. ServiceInit => StoreInv
  BY StoreStart
<1>2. ServiceInit => RestInv
  <2> SUFFICES ASSUME ServiceInit PROVE RestInv
    OBVIOUS
  <2>1. /\ disk[Mission] = Absent /\ chain = <<>>
        /\ \A c \in Calls : call[c] = Idle
    BY DEF ServiceInit, StoreInit
  <2>2. Idle.at = "idle" /\ \A c \in MissionCalls : call[c].at = "idle"
    BY <2>1 DEF Idle, MissionCalls
  <2> QED BY <2>1, <2>2 DEF RestInv, RunsOK, EntriesOK, UnderWay, Running, Recovering, CopyOK
<1>3. StoreInv /\ [Next]_vars => StoreInv'
  BY StoreStep
<1>4. StoreInv /\ RestInv /\ [Next]_vars => RestInv'
  BY RestStep
<1>5. RestInv => MissionRests
  BY RestInvRests
<1> QED BY <1>1, <1>2, <1>3, <1>4, <1>5, PTL DEF Spec
=============================================================================
