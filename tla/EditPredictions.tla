---------------------------- MODULE EditPredictions ----------------------------
(***************************************************************************)
(* Edit predictions: src/src/ide/editPredictionEngine.ts.  Requests are    *)
(* answered from a cache, join a generation in flight or start one; what   *)
(* they were worth is counted in a scorecard that a timer persists.        *)
(***************************************************************************)
EXTENDS Naturals, Sequences, FiniteSets

CONSTANTS
  Clients,      (* The requests that can be in progress at once.            *)
  Nobody,       (* No client.                                               *)
  Prompts,      (* The normalised requests, <<kind, number>>.               *)
  Continues,    (* <<q, p>>: q types on into an answer to p.                *)
  MaxEntries,   (* maxCacheEntries                                          *)
  MaxScore      (* Bound on the updates of the scorecard that are counted.  *)

ASSUME PredictionAssumption == IsFiniteSet(Clients) /\ Nobody \notin Clients

VARIABLES
  cache,        (* cache and multiFileCache: entries in insertion order     *)
  flight,       (* inFlight and multiFileInFlight: who generates the answer *)
  ask,          (* the requests in progress                                 *)
  fresh,        (* history: generations started since the last clear        *)
  score,        (* number of updates of the aggregate counters              *)
  pending,      (* pendingFeedback: number of predictions not yet judged    *)
  timer,        (* persistTimer is set                                      *)
  persists,     (* persistQueue: the snapshots that wait                    *)
  diskScore,    (* the scorecard file                                       *)
  unread,       (* history: nobody has read what the file holds             *)
  closing,      (* dispose(): "no", "flush" its own snapshot, "drain"       *)
  awaited,      (* the number of queued snapshots dispose() waits for       *)
  owed,         (* history: the score when dispose() was called             *)
  lost          (* history: dispose()'s snapshot was not written, nor a later one *)

scoreVars == <<timer, persists, diskScore, unread>>
closeVars == <<closing, awaited, owed, lost>>
predictionVars ==
  <<cache, flight, ask, fresh, score, pending, scoreVars, closeVars>>

Kinds == {"single", "multi"}
NotAsking == [at |-> "idle", prompt |-> <<>>, of |-> Nobody]

PredictionsInit ==
  /\ cache = [kind \in Kinds |-> <<>>]
  /\ flight = [p \in Prompts |-> Nobody]
  /\ ask = [a \in Clients |-> NotAsking]
  /\ fresh = {}
  /\ score = 0 /\ diskScore = 0
  /\ pending = 0 /\ timer = FALSE /\ persists = <<>>
  /\ unread = FALSE
  /\ closing = "no" /\ awaited = 0 /\ owed = 0 /\ lost = FALSE

Entry(p, useful) == [prompt |-> p, useful |-> useful]
Without(entries, p) == SelectSeq(entries, LAMBDA e : e.prompt # p)
Cached(p) == {e \in {cache[p[1]][i] : i \in 1..Len(cache[p[1]])} : e.prompt = p}
(* The oldest entries go first.                                            *)
Newest(entries, n) ==
  IF Len(entries) <= n THEN entries
  ELSE SubSeq(entries, Len(entries) - n + 1, Len(entries))

(* A multi-file answer replaces an older one of its prompt in its place.   *)
Replaced(p, useful) ==
  IF Cached(p) = {} THEN Append(cache["multi"], Entry(p, useful))
  ELSE [i \in 1..Len(cache["multi"]) |->
          IF cache["multi"][i].prompt = p THEN Entry(p, useful) ELSE cache["multi"][i]]

(* putCache() bounds one cache; a multi-file answer bounds the sum of both *)
(* and takes the room from the multi-file entries.                         *)
Put(p, useful) ==
  IF p[1] = "single"
  THEN [cache EXCEPT !["single"] =
          Newest(Append(Without(@, p), Entry(p, useful)), MaxEntries)]
  ELSE [cache EXCEPT !["multi"] =
          Newest(Replaced(p, useful), MaxEntries - Len(cache["single"]))]

(* serve(): a useful answer is counted and may be judged.                  *)
Serve(generated, n, useful) ==
  LET served == IF useful THEN n ELSE 0 IN
  /\ score' = score + generated + served
  /\ pending' = pending + served
  /\ timer' = (timer \/ generated + served > 0)

(* What has expired is dropped, whichever that is.                         *)
Cleanup(expired) ==
  cache' = [kind \in Kinds |-> SelectSeq(cache[kind], LAMBDA e : e.prompt \notin expired)]

(* After the cleanup the request awaits the index.                         *)
Ask(a, p, expired) ==
  /\ ask[a] = NotAsking /\ score < MaxScore
  /\ Cleanup(expired)
  /\ ask' = [ask EXCEPT ![a] = [at |-> "lookup", prompt |-> p, of |-> Nobody]]
  /\ UNCHANGED <<flight, fresh, score, pending, scoreVars, closeVars>>

Hit(a) ==
  LET p == ask[a].prompt IN
  /\ ask[a].at = "lookup"
  /\ \E e \in Cached(p) :
       /\ cache' = [cache EXCEPT ![p[1]] = Append(Without(@, p), e)]
       /\ Serve(0, 1, e.useful)
  /\ ask' = [ask EXCEPT ![a] = NotAsking]
  /\ UNCHANGED <<flight, fresh, persists, diskScore, unread, closeVars>>

(* findContinuation(): what was typed is the start of the cached answer.   *)
(* An entry of p's own may be there and have expired during the await, as  *)
(* in Join and Miss.                                                       *)
Continuation(a) ==
  LET p == ask[a].prompt IN
  /\ ask[a].at = "lookup"
  /\ \E q \in Prompts : \E e \in Cached(q) : <<p, q>> \in Continues /\ e.useful
  /\ cache' = Put(p, TRUE)
  /\ Serve(0, 1, TRUE)
  /\ ask' = [ask EXCEPT ![a] = NotAsking]
  /\ UNCHANGED <<flight, fresh, persists, diskScore, unread, closeVars>>

Join(a) ==
  LET p == ask[a].prompt IN
  /\ ask[a].at = "lookup" /\ flight[p] # Nobody
  /\ ask' = [ask EXCEPT ![a].at = "joined", ![a].of = flight[p]]
  /\ UNCHANGED <<cache, flight, fresh, score, pending, scoreVars, closeVars>>

Miss(a) ==
  LET p == ask[a].prompt IN
  /\ ask[a].at = "lookup" /\ flight[p] = Nobody
  /\ ask' = [ask EXCEPT ![a].at = "generating", ![a].of = a]
  /\ flight' = [flight EXCEPT ![p] = a]
  /\ fresh' = fresh \cup {a}
  /\ UNCHANGED <<cache, score, pending, scoreVars, closeVars>>

(* Mutant: the entry in flight is removed whoever put it there.            *)
MutantLanded(a) == [flight EXCEPT ![ask[a].prompt] = Nobody]

(* The finally blocks: only predict() asks whether the entry is its own.   *)
Landed(a) ==
  LET p == ask[a].prompt IN
  IF p[1] = "multi" \/ flight[p] = a THEN [flight EXCEPT ![p] = Nobody] ELSE flight

(* The generation and all that joined it end together.                     *)
Answered(a) == {b \in Clients : ask[b].of = a}
Finish(a) ==
  /\ ask[a].at = "generating"
  /\ ask' = [b \in Clients |-> IF b \in Answered(a) THEN NotAsking ELSE ask[b]]
  /\ flight' = Landed(a)
  /\ fresh' = fresh \ {a}

(* A clear in between is not noticed: the answer enters the cleared cache. *)
Generated(a, useful) ==
  /\ Finish(a)
  /\ cache' = Put(ask[a].prompt, useful)
  /\ Serve(1, Cardinality(Answered(a)), useful)
  /\ UNCHANGED <<persists, diskScore, unread, closeVars>>

GenerationFails(a) ==
  /\ Finish(a)
  /\ UNCHANGED <<cache, score, pending, scoreVars, closeVars>>

ClearCache ==
  /\ cache' = [kind \in Kinds |-> <<>>]
  /\ flight' = [p \in Prompts |-> Nobody]
  /\ fresh' = {}
  /\ UNCHANGED <<ask, score, pending, scoreVars, closeVars>>

RecordFeedback(expired) ==
  /\ pending > 0 /\ score < MaxScore
  /\ Cleanup(expired)
  /\ pending' = pending - 1
  /\ score' = score + 1 /\ timer' = TRUE
  /\ UNCHANGED <<flight, ask, fresh, persists, diskScore, unread, closeVars>>

TimerFires ==
  /\ timer /\ timer' = FALSE
  /\ persists' = Append(persists, score)
  /\ UNCHANGED <<cache, flight, ask, fresh, score, pending, diskScore, unread, closeVars>>

(* Mutant: the snapshots are not chained, and the last may be first.       *)
MutantNextSnapshot == Len(persists)

NextSnapshot == 1

(* A write that fails is dropped without a word, and the next one goes on. *)
PersistNext(written) ==
  /\ persists # <<>>
  /\ diskScore' = IF written THEN persists[NextSnapshot] ELSE diskScore
  /\ persists' = [i \in 1..(Len(persists) - 1) |->
                    persists[IF i < NextSnapshot THEN i ELSE i + 1]]
  /\ awaited' = IF awaited = 0 THEN 0 ELSE awaited - 1
  /\ unread' = (unread /\ ~written)
  /\ lost' = (~written /\ (lost \/ (closing = "flush" /\ awaited = 1)))
  /\ UNCHANGED <<cache, flight, ask, fresh, score, pending, timer, closing, owed>>

(* dispose(), while requests may still be served.                          *)
Dispose ==
  /\ closing = "no" /\ closing' = "flush"
  /\ timer' = FALSE
  /\ persists' = Append(persists, score)
  /\ awaited' = Len(persists) + 1
  /\ owed' = score /\ lost' = FALSE
  /\ UNCHANGED <<cache, flight, ask, fresh, score, pending, diskScore, unread>>

Flushed ==
  /\ closing = "flush" /\ awaited = 0
  /\ closing' = "drain" /\ awaited' = Len(persists)
  /\ UNCHANGED <<cache, flight, ask, fresh, score, pending, scoreVars, owed, lost>>

PredictionRequest ==
  \/ \E expired \in SUBSET Prompts :
       (\E a \in Clients, p \in Prompts : Ask(a, p, expired)) \/ RecordFeedback(expired)
  \/ ClearCache

PredictionStep ==
  \/ \E a \in Clients : \/ Hit(a) \/ Continuation(a) \/ Join(a) \/ Miss(a)
                        \/ \E useful \in BOOLEAN : Generated(a, useful)
                        \/ GenerationFails(a)
  \/ TimerFires \/ (\E written \in BOOLEAN : PersistNext(written)) \/ Flushed

(* Between two clears a prompt is generated by one request at a time, the  *)
(* others join it: a request the clear has detached does not, when it      *)
(* ends, detach the one that replaced it.  (Multi-file requests do:        *)
(* editPredictionEngine.ts:379.)                                           *)
OneGenerationPerPrompt ==
  \A a, b \in fresh :
    ask[a].prompt = ask[b].prompt /\ ask[a].prompt[1] = "single" => a = b

(* Once a process has read or written the scorecard file, the file never   *)
(* goes back to an older count and holds nothing the process does not      *)
(* count, whichever writes fail; and when dispose() returns, it holds      *)
(* every update made before the call, unless dispose()'s own write and     *)
(* those after it failed.  (A start that cannot read the file counts from  *)
(* nothing, and its first write replaces what the file held.)              *)
ScoreKept ==
  /\ closing = "drain" => lost \/ diskScore >= owed
  /\ unread \/ diskScore <= score
  /\ \A i \in 1..Len(persists) :
       /\ persists[i] <= score
       /\ persists[i] >= IF i > 1 THEN persists[i - 1] ELSE IF unread THEN 0 ELSE diskScore
=============================================================================
