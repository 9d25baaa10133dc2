----------------------------- MODULE StoresProofs -----------------------------
(***************************************************************************)
(* Proofs about what the stores keep: the database's record of a werewolf  *)
(* match, the object archive of finished matches, and accounts, sessions   *)
(* and the rate limiter; whatever request fails, whoever else writes and   *)
(* whenever the process dies.  And about the artifact of a simulated poker *)
(* match: it is the match that was played.                                 *)
(***************************************************************************)
EXTENDS MCServices, SumTheorems, FiniteSetTheorems, SequenceTheorems, WellFoundedInduction, TLAPS

-----------------------------------------------------------------------------
(* The record of a match.                                                   *)

MatchStates == {"new", "running", "tracing", "decided", "failed", "crashed"}
SaveStages == {"none", "start", "match", "seats", "events", "traces", "done", "failed"}

\* The traces a save still has to write play no part in what is shown here.
RecordTypes ==
  /\ match \in [state : MatchStates, events : Nat, kept : BOOLEAN]
  /\ save \in [at : SaveStages, todo : {save.todo}]
  /\ row \in {"none", "running", "completed", "deleted"}
  /\ seatRows \in {"none", "seated", "revealed"}
  /\ summaryRow \in BOOLEAN
  /\ failures \in Nat

\* Where the save is, the match and its row have been: a save follows a verdict,
\* the outcome is written before the seats, the seats before the events, and a row
\* that was there once is there or was deleted, with all that referenced it.
SaveFollows ==
  /\ match.state = "decided" => save.at # "none"
  /\ save.at # "none" => match.state \in {"decided", "crashed"} /\ row # "none"
  /\ match.state \in {"running", "tracing"} => row # "none"
  /\ save.at \in {"seats", "events", "traces", "done"} => row \in {"completed", "deleted"}
  /\ save.at \in {"events", "traces", "done"} => seatRows = "revealed" \/ row = "deleted"
  /\ save.at \in {"traces", "done"} => eventRows = 1..match.events \/ row = "deleted"
  /\ seatRows # "none" => HasRow

\* Every event on its way or stored was emitted.
EventsEmitted == ingest \subseteq 1..match.events /\ eventRows \subseteq 1..match.events

RecordsInv == RecordTypes /\ SaveFollows /\ EventsEmitted /\ RecordsSound

LEMMA InitRecordsInv == RecordsInit => RecordsInv
<1> SUFFICES ASSUME RecordsInit PROVE RecordsInv
  OBVIOUS
<1> USE DEF RecordsInit
<1>1. match.state = "new" /\ match.events = 0 /\ match.kept = TRUE /\ save.at = "none"
  OBVIOUS
<1>2. match \in [state : MatchStates, events : Nat, kept : BOOLEAN]
  BY DEF MatchStates
<1>3. save \in [at : SaveStages, todo : {save.todo}]
  BY DEF SaveStages
<1>4. RecordTypes
  BY <1>2, <1>3 DEF RecordTypes
<1>5. SaveFollows /\ EventsEmitted
  BY <1>1 DEF SaveFollows, EventsEmitted
<1>6. RecordsSound
  BY <1>1 DEF RecordsSound, RecordsComplete, RecordsKept
<1> QED BY <1>4, <1>5, <1>6 DEF RecordsInv

\* A step of the game emits the next event, and only while nothing is saved.
LEMMA EmitKeeps ==
  ASSUME RecordsInv, NEW state \in {"tracing", "decided"}, match.state = "running",
         Emit(state), UNCHANGED <<tables, failures>>,
         save' = IF state = "decided" THEN [save EXCEPT !.at = "start"] ELSE save
  PROVE  RecordsInv'
<1> USE DEF RecordsInv, Emit, tables
<1>1. /\ match'.state = state /\ match'.events = match.events + 1
      /\ match'.kept = match.kept /\ match.events \in Nat
      /\ save.at = "none" /\ save'.at = IF state = "decided" THEN "start" ELSE "none"
      /\ row' = row /\ row # "none"
  BY DEF RecordTypes, SaveFollows
<1>2. RecordTypes'
  <2> DEFINE moved == [match EXCEPT !.state = state]
  <2>1. moved \in [state : MatchStates, events : Nat, kept : BOOLEAN]
    BY DEF RecordTypes, MatchStates
  <2>2. match' = [moved EXCEPT !.events = match.events + 1]
    BY DEF RecordTypes
  <2> HIDE DEF moved
  <2>3. match' \in [state : MatchStates, events : Nat, kept : BOOLEAN]
    BY <1>1, <2>1, <2>2
  <2>4. save' \in [at : SaveStages, todo : {save'.todo}]
    BY DEF RecordTypes, SaveStages
  <2> QED BY <2>3, <2>4 DEF RecordTypes
<1>3. SaveFollows'
  BY <1>1 DEF SaveFollows, HasRow
<1>4. EventsEmitted'
  BY <1>1 DEF EventsEmitted
<1>5. RecordsSound'
  BY <1>1 DEF RecordsSound, RecordsComplete, RecordsKept, EventsEmitted, Decided
<1> QED BY <1>2, <1>3, <1>4, <1>5

\* An event that arrives is one that was emitted; after the verdict's back-fill it
\* is there already.
LEMMA IngestKeeps ==
  ASSUME RecordsInv, NEW seq \in ingest, IngestEvent(seq)
  PROVE  RecordsInv'
<1> USE DEF RecordsInv, IngestEvent
<1>1. EventsEmitted'
  BY DEF EventsEmitted
<1>2. seq \in 1..match.events
  BY DEF EventsEmitted
<1>3. SaveFollows'
  BY <1>2 DEF SaveFollows, HasRow
<1>4. RecordsSound'
  BY <1>1, <1>2 DEF RecordsSound, RecordsComplete, RecordsKept, EventsEmitted, Decided
<1> QED BY <1>1, <1>3, <1>4 DEF RecordTypes

\* The process dies: the match is gone from memory, and a save with it.
LEMMA CrashKeeps == ASSUME RecordsInv, Crash PROVE RecordsInv'
<1> USE DEF RecordsInv, Crash, Fails, tables
<1>1. /\ match'.state = "crashed" /\ match'.events = match.events
      /\ failures' > 0 /\ failures' \in Nat
      /\ save'.at = IF save.at \in {"none", "done"} THEN save.at ELSE "failed"
  BY DEF RecordTypes
<1>2. RecordTypes'
  <2>1. match' \in [state : MatchStates, events : Nat, kept : BOOLEAN]
    BY DEF RecordTypes, MatchStates
  <2>2. save' \in [at : SaveStages, todo : {save'.todo}]
    BY DEF RecordTypes, SaveStages
  <2> QED BY <2>1, <2>2, <1>1 DEF RecordTypes
<1>3. SaveFollows' /\ EventsEmitted'
  BY <1>1 DEF SaveFollows, EventsEmitted, HasRow, RecordTypes
<1>4. RecordsSound'
  BY <1>1 DEF RecordsSound, RecordsComplete, RecordsKept, Decided
<1> QED BY <1>2, <1>3, <1>4

LEMMA RunStepKeeps == ASSUME RecordsInv, RunStep PROVE RecordsInv'
<1> USE DEF RecordsInv, RecordTypes, SaveFollows, EventsEmitted, MatchStates, SaveStages,
            RecordsSound, RecordsComplete, RecordsKept, tables, Fails, HasRow, Decided
<1>1. CASE InsertMatch
  BY <1>1 DEF InsertMatch
<1>2. CASE InsertSeats
  BY <1>2 DEF InsertSeats
<1>3. CASE StartRun
  BY <1>3 DEF StartRun
<1>4. CASE StartThrows
  BY <1>4 DEF StartThrows
<1>5. CASE Step
  BY <1>5, EmitKeeps DEF Step
<1>6. CASE RecordTrace
  BY <1>6 DEF RecordTrace
<1>7. CASE TraceFails
  BY <1>7 DEF TraceFails
<1>8. CASE RunFails
  BY <1>8 DEF RunFails
<1>9. CASE Decide
  BY <1>9, EmitKeeps DEF Decide
<1>10. ASSUME NEW seq \in ingest, IngestEvent(seq) PROVE RecordsInv'
  BY <1>10, IngestKeeps
<1>11. ASSUME NEW seq \in ingest, IngestFails(seq) PROVE RecordsInv'
  BY <1>11 DEF IngestFails
<1> QED BY <1>1, <1>2, <1>3, <1>4, <1>5, <1>6, <1>7, <1>8, <1>9, <1>10, <1>11 DEF RunStep

\* One request after the other, each of which may fail or have its answer lost.
LEMMA SaveStepKeeps == ASSUME RecordsInv, SaveStep PROVE RecordsInv'
<1> USE DEF RecordsInv, RecordTypes, SaveFollows, EventsEmitted, MatchStates, SaveStages,
            RecordsSound, RecordsComplete, RecordsKept, tables, Fails, HasRow, Decided,
            Goes, Saved, Lost
<1>1. CASE ReadTraces
  BY <1>1 DEF ReadTraces
<1>2. CASE SaveMatchRow
  BY <1>2 DEF SaveMatchRow
<1>3. CASE RevealSeats
  BY <1>3 DEF RevealSeats
<1>4. CASE BackfillEvents
  BY <1>4 DEF BackfillEvents, BackfilledEvents
<1>5. CASE BackfillTrace
  BY <1>5 DEF BackfillTrace
<1>6. CASE SaveSummary
  BY <1>6 DEF SaveSummary
<1>7. CASE SaveRefused
  BY <1>7 DEF SaveRefused
<1> QED BY <1>1, <1>2, <1>3, <1>4, <1>5, <1>6, <1>7 DEF SaveStep

\* Deleting a match, and the cleaner's taking one out of memory.
LEMMA RemovalKeeps == ASSUME RecordsInv, DeleteMatchArtifact \/ Clean PROVE RecordsInv'
<1> USE DEF RecordsInv, RecordTypes, SaveFollows, EventsEmitted, MatchStates, SaveStages,
            RecordsSound, RecordsComplete, RecordsKept, tables, HasRow, Decided
<1>1. CASE DeleteMatchArtifact
  BY <1>1 DEF DeleteMatchArtifact
<1>2. CASE Clean
  BY <1>2 DEF Clean, Listed
<1> QED BY <1>1, <1>2

\* RecordsInv is inductive.
THEOREM RecordsInvariant == RecordsSpec => []RecordsInv
<1>1. RecordsInv /\ [RecordsNext]_recordVars => RecordsInv'
  <2> SUFFICES ASSUME RecordsInv, [RecordsNext]_recordVars PROVE RecordsInv'
    OBVIOUS
  <2>1. CASE UNCHANGED recordVars
    BY <2>1 DEF recordVars, RecordsInv, RecordTypes, SaveFollows, EventsEmitted, HasRow,
                RecordsSound, RecordsComplete, RecordsKept, Decided
  <2> QED
    BY <2>1, RunStepKeeps, SaveStepKeeps, CrashKeeps, RemovalKeeps DEF RecordsNext
<1> QED BY <1>1, InitRecordsInv, PTL DEF RecordsSpec

\* What can be read of a match is complete, and what a match left behind can be
\* read: postgres-werewolf-orchestrator.ts, werewolf-match-artifacts.ts and
\* match-ttl-cleaner.ts, for any number of events, traces and failures.
THEOREM RecordsAreSound == RecordsSpec => []RecordsSound
<1>1. RecordsInv => RecordsSound
  BY DEF RecordsInv
<1> QED BY <1>1, RecordsInvariant, PTL

-----------------------------------------------------------------------------
(* The object archive.                                                      *)

PutsLeft == {PutOrder, <<"replay", "decision-trace", "manifest">>,
             <<"decision-trace", "manifest">>, <<"manifest">>, <<>>}
Done == {m \in Matches : saver[m].at = "done"}
Begun == {m \in Matches : created[m] > 0}
Newer(m, ms) == {k \in ms : created[k] > created[m]}

ArchiveTypes ==
  /\ blobs = [m \in Matches |-> blobs[m]]
  /\ saver = [m \in Matches |-> saver[m]] /\ deleter = [m \in Matches |-> deleter[m]]
  /\ created \in [Matches -> Nat]
  /\ overtaken \in BOOLEAN
  /\ tail \in Seq(Appends)
  /\ readFile = [a \in Appends |-> readFile[a]]

\* How far the save of a match is, and what it has put by then.
SaverWellFormed(m) ==
  /\ saver[m].at \in {"idle", "put", "index", "done", "failed"}
  /\ saver[m].at = "idle" => saver[m] = Idle
  /\ saver[m].at = "put" => saver[m].todo \in PutsLeft

PutInOrder(m) ==
  Untouched(m) =>
    /\ saver[m].at = "idle" => blobs[m] = {}
    /\ saver[m].at = "put" => blobs[m] = Parts \ ToSet(saver[m].todo)
    /\ saver[m].at \in {"index", "done"} => blobs[m] = Parts
    /\ "manifest" \in blobs[m] => blobs[m] = Parts

\* createdAt tells the saved matches apart, and grows.
CreatedInOrder ==
  /\ \A m \in Matches : created[m] > 0 <=> saver[m] # Idle
  /\ \A m \in Matches : created[m] <= Cardinality(Begun)
  /\ \A k, m \in Begun : created[k] = created[m] => k = m

\* The index and every copy of it that somebody has read list saved matches.
IndexSaved ==
  /\ index \subseteq Done
  /\ \A m \in Matches : saver[m].at = "index" => saver[m].read \subseteq Done
  /\ \A m \in Matches : deleter[m].at = "index" => deleter[m].read \subseteq Done

\* A saved match that the index does not list has newer ones in front of it.
IndexNewest ==
  \A m \in Matches : Stored(m) /\ Untouched(m) /\ m \notin index =>
    Cardinality(Newer(m, Matches)) >= MaxIndexEntries

IndexBounded ==
  /\ Cardinality(index) <= MaxIndexEntries
  /\ \A m \in Matches :
       deleter[m].at = "index" => Cardinality(deleter[m].read) <= MaxIndexEntries

\* One append runs at a time, the first of the chain, and what it has read is the file.
OneAppend ==
  /\ \A a \in Appends : readFile[a] # NotRead =>
       tail # <<>> /\ Head(tail) = a /\ readFile[a].file = traceFile
  /\ logged \subseteq traceFile

ArchiveInv ==
  /\ ArchiveTypes
  /\ \A m \in Matches : SaverWellFormed(m) /\ PutInOrder(m)
  /\ CreatedInOrder
  /\ IndexSaved
  /\ overtaken \/ IndexNewest
  /\ IndexBounded
  /\ OneAppend

\* A put takes the first part that is left; the manifest is the last.
LEMMA SuffixesShrink ==
  /\ PutOrder \in PutsLeft /\ ToSet(PutOrder) = Parts /\ ToSet(<<>>) = {}
  /\ "manifest" \in Parts
  /\ \A todo \in PutsLeft : todo # <<>> =>
       /\ Head(todo) \in Parts /\ Tail(todo) \in PutsLeft
       /\ "manifest" \in ToSet(todo)
       /\ (Parts \ ToSet(todo)) \cup {Head(todo)} = Parts \ ToSet(Tail(todo))
<1>1. /\ ToSet(PutOrder) = {"summary", "replay", "decision-trace", "manifest"}
      /\ ToSet(<<"replay", "decision-trace", "manifest">>) = {"replay", "decision-trace", "manifest"}
      /\ ToSet(<<"decision-trace", "manifest">>) = {"decision-trace", "manifest"}
      /\ ToSet(<<"manifest">>) = {"manifest"}
      /\ ToSet(<<>>) = {}
  BY DEF ToSet, PutOrder
<1>2. /\ Head(PutOrder) = "summary" /\ Tail(PutOrder) = <<"replay", "decision-trace", "manifest">>
      /\ Head(<<"replay", "decision-trace", "manifest">>) = "replay"
      /\ Tail(<<"replay", "decision-trace", "manifest">>) = <<"decision-trace", "manifest">>
      /\ Head(<<"decision-trace", "manifest">>) = "decision-trace"
      /\ Tail(<<"decision-trace", "manifest">>) = <<"manifest">>
      /\ Head(<<"manifest">>) = "manifest" /\ Tail(<<"manifest">>) = <<>>
  BY DEF PutOrder
<1> QED BY <1>1, <1>2 DEF PutsLeft, Parts

\* No more than MaxIndexEntries of a set of saved matches are its newest: each has
\* its own number of newer ones.
LEMMA NewestBounded ==
  ASSUME NEW ms \in SUBSET Begun, IsFiniteSet(Matches), MaxIndexEntries \in Nat,
         created \in [Matches -> Nat],
         \A k, m \in Begun : created[k] = created[m] => k = m
  PROVE  Cardinality(Newest(ms)) <= MaxIndexEntries
<1> DEFINE rank == [m \in Newest(ms) |-> Cardinality(Newer(m, ms))]
<1>1. ms \subseteq Matches /\ IsFiniteSet(ms) /\ Newest(ms) \subseteq ms /\ IsFiniteSet(Newest(ms))
  BY FS_Subset DEF Newest, Begun
<1>2. \A m \in ms : IsFiniteSet(Newer(m, ms)) /\ Cardinality(Newer(m, ms)) \in Nat
  BY <1>1, FS_Subset, FS_CardinalityType DEF Newer
<1>3. rank \in [Newest(ms) -> 0..(MaxIndexEntries - 1)]
  BY <1>1, <1>2 DEF Newest, Newer
<1>4. ASSUME NEW k \in Newest(ms), NEW m \in Newest(ms), created[k] > created[m]
      PROVE  rank[k] # rank[m]
  <2>1. Newer(k, ms) \subseteq Newer(m, ms) /\ k \in Newer(m, ms) /\ k \notin Newer(k, ms)
    BY <1>1, <1>4 DEF Newer, Begun
  <2>2. Cardinality(Newer(k, ms)) # Cardinality(Newer(m, ms))
    BY <2>1, <1>1, <1>2, FS_Subset
  <2> QED BY <2>2
<1>5. \A k, m \in Newest(ms) : k # m => rank[k] # rank[m]
  <2>1. \A k, m \in Newest(ms) : k # m => created[k] > created[m] \/ created[m] > created[k]
    BY <1>1 DEF Begun
  <2> QED BY <2>1, <1>4
<1>6. IsFiniteSet(0..(MaxIndexEntries - 1)) /\ Cardinality(0..(MaxIndexEntries - 1)) = MaxIndexEntries
  BY FS_Interval
<1>7. Cardinality(Newest(ms)) \in Nat
  BY <1>1, FS_CardinalityType
<1> HIDE DEF rank
<1>8. ~ MaxIndexEntries < Cardinality(Newest(ms))
  BY <1>1, <1>3, <1>5, <1>6, FS_PigeonHole
<1> QED BY <1>7, <1>8

\* Newer matches only become more: whoever is counted stays counted.
LEMMA NewerGrows ==
  ASSUME IsFiniteSet(Matches), NEW m \in Matches, NEW S \in SUBSET Matches,
         NEW T \in SUBSET Matches, S \subseteq T
  PROVE  Cardinality(S) <= Cardinality(T) /\ Cardinality(S) \in Nat /\ Cardinality(T) \in Nat
BY FS_Subset, FS_CardinalityType

LEMMA InitArchiveInv == ArchiveInit => ArchiveInv
<1> SUFFICES ASSUME ArchiveInit PROVE ArchiveInv
  OBVIOUS
<1> USE DEF ArchiveInit
<1>1. ArchiveTypes
  <2>1. tail \in Seq(Appends)
    BY EmptySeq
  <2>2. created \in [Matches -> Nat] /\ overtaken \in BOOLEAN
    OBVIOUS
  <2>3. blobs = [m \in Matches |-> blobs[m]]
    OBVIOUS
  <2>4. saver = [m \in Matches |-> saver[m]] /\ deleter = [m \in Matches |-> deleter[m]]
    OBVIOUS
  <2>5. readFile = [a \in Appends |-> readFile[a]]
    OBVIOUS
  <2> QED BY <2>1, <2>2, <2>3, <2>4, <2>5 DEF ArchiveTypes
<1>2. \A m \in Matches : SaverWellFormed(m) /\ PutInOrder(m)
  BY SuffixesShrink DEF SaverWellFormed, PutInOrder, Idle
<1>3. CreatedInOrder
  <2>1. Begun = {}
    BY DEF Begun
  <2> QED BY <2>1, FS_EmptySet DEF CreatedInOrder
<1>4. IndexSaved /\ IndexNewest
  BY DEF IndexSaved, IndexNewest, Idle, Stored
<1>5. IndexBounded
  BY ArchiveAssumption, FS_EmptySet DEF IndexBounded, Idle
<1>6. OneAppend
  BY DEF OneAppend
<1> QED BY <1>1, <1>2, <1>3, <1>4, <1>5, <1>6 DEF ArchiveInv

\* A new save is newer than all before it, and pushes none of them down unrightly.
LEMMA BeginSaveKeeps ==
  ASSUME ArchiveInv, NEW n \in Matches, BeginSave(n)
  PROVE  ArchiveInv'
<1> USE DEF BeginSave, ArchiveInv, traces
<1>1. /\ ArchiveTypes'
      /\ \A m \in Matches : m # n => saver'[m] = saver[m] /\ created'[m] = created[m]
      /\ saver'[n] = [at |-> "put", todo |-> PutOrder]
      /\ created[n] = 0
  <2>1. IsFiniteSet(Begun) /\ Cardinality(Begun) \in Nat
    BY ArchiveAssumption, FS_Subset, FS_CardinalityType DEF Begun
  <2>2. created' = [created EXCEPT ![n] = 1 + Cardinality(Begun)]
    BY DEF Begun
  <2>3. created' \in [Matches -> Nat]
    BY <2>1, <2>2 DEF ArchiveTypes
  <2>4. created[n] = 0
    BY DEF ArchiveTypes, CreatedInOrder
  <2>5. \A m \in Matches : m # n => saver'[m] = saver[m] /\ created'[m] = created[m]
    BY <2>2 DEF ArchiveTypes
  <2>6. saver' = [m \in Matches |-> saver'[m]] /\ saver'[n] = [at |-> "put", todo |-> PutOrder]
    BY DEF ArchiveTypes
  <2> QED BY <2>3, <2>4, <2>5, <2>6 DEF ArchiveTypes
<1>2. created'[n] = 1 + Cardinality(Begun) /\ Cardinality(Begun) \in Nat /\ IsFiniteSet(Begun)
  BY ArchiveAssumption, FS_Subset, FS_CardinalityType DEF ArchiveTypes, Begun
<1>3. Begun' = Begun \cup {n} /\ n \notin Begun /\ Cardinality(Begun') = 1 + Cardinality(Begun)
  <2>1. n \notin Begun /\ n \in Begun'
    BY <1>1, <1>2 DEF Begun
  <2>2. \A m \in Matches : m # n => (m \in Begun' <=> m \in Begun)
    BY <1>1 DEF Begun
  <2>3. Begun \subseteq Matches /\ Begun' \subseteq Matches
    BY DEF Begun
  <2>4. Begun' = Begun \cup {n}
    BY <2>1, <2>2, <2>3
  <2> HIDE DEF ArchiveInv, BeginSave
  <2>5. Cardinality(Begun \cup {n}) = Cardinality(Begun) + 1
    BY <2>1, <1>2, FS_AddElement
  <2> QED BY <2>1, <2>4, <2>5, <1>2
<1>4. \A m \in Matches : SaverWellFormed(m)' /\ PutInOrder(m)'
  BY <1>1, SuffixesShrink DEF SaverWellFormed, PutInOrder, Untouched, Idle
<1>5. CreatedInOrder'
  <2>1. \A m \in Matches : created[m] \in Nat /\ created[m] <= Cardinality(Begun)
    BY DEF ArchiveTypes, CreatedInOrder
  <2>2. \A m \in Matches : created'[m] <= Cardinality(Begun')
    BY <2>1, <1>1, <1>2, <1>3
  <2>3. \A k, m \in Begun' : created'[k] = created'[m] => k = m
    BY <2>1, <1>1, <1>2, <1>3 DEF CreatedInOrder, Begun
  <2>4. \A m \in Matches : created'[m] > 0 <=> saver'[m] # Idle
    BY <1>1, <1>2 DEF CreatedInOrder, Idle
  <2> QED BY <2>2, <2>3, <2>4 DEF CreatedInOrder
<1>6. Done' = Done
  BY <1>1 DEF Done, Idle
<1>7. IndexSaved'
  BY <1>1, <1>6 DEF IndexSaved
<1>8. IndexNewest => IndexNewest'
  <2> SUFFICES ASSUME IndexNewest, NEW m \in Matches, Stored(m)', Untouched(m), m \notin index
               PROVE  Cardinality(Newer(m, Matches))' >= MaxIndexEntries
    BY DEF IndexNewest, Untouched
  <2>1. m # n /\ Stored(m)
    BY <1>1 DEF Stored
  <2>2. Newer(m, Matches) \subseteq Newer(m, Matches)' /\ Newer(m, Matches)' \subseteq Matches
    BY <2>1, <1>1, <1>2 DEF Newer, ArchiveTypes
  <2> QED BY <2>1, <2>2, NewerGrows, ArchiveAssumption DEF IndexNewest
<1>9. IndexBounded' /\ OneAppend'
  BY DEF IndexBounded, OneAppend
<1> QED BY <1>1, <1>4, <1>5, <1>7, <1>8, <1>9

\* A step that leaves createdAt, the index and every done save alone.
LEMMA QuietStep ==
  ASSUME ArchiveInv, UNCHANGED <<index, created, overtaken, traces>>, Done' = Done,
         \A m \in Matches : saver'[m] = Idle <=> saver[m] = Idle,
         \A m \in Matches : saver'[m].at = "index" =>
           saver'[m].read \in {index, saver[m].read} /\ (saver'[m].read # index => saver[m].at = "index"),
         \A m \in Matches : deleter'[m].at = "index" =>
           deleter'[m].read \in {index, deleter[m].read} /\ (deleter'[m].read # index => deleter[m].at = "index"),
         \A m \in Matches : Untouched(m)' => Untouched(m)
  PROVE  CreatedInOrder' /\ IndexSaved' /\ (overtaken' \/ IndexNewest') /\ IndexBounded' /\ OneAppend'
<1> USE DEF ArchiveInv, traces
<1>1. CreatedInOrder'
  BY DEF CreatedInOrder, Begun
<1>2. IndexSaved'
  BY DEF IndexSaved
<1>3. IndexNewest => IndexNewest'
  BY DEF IndexNewest, Stored, Done, Newer
<1>4. IndexBounded' /\ OneAppend'
  BY DEF IndexBounded, OneAppend
<1> QED BY <1>1, <1>2, <1>3, <1>4

LEMMA SaverKeeps ==
  ASSUME ArchiveInv, NEW n \in Matches, PutBlob(n) \/ ReadIndexToAdd(n) \/ SaveFails(n)
  PROVE  ArchiveInv'
<1> USE DEF ArchiveInv
<1>0. saver[n].at \in {"put", "index"} /\ saver[n] # Idle /\ UNCHANGED <<deleter, traces>>
  BY DEF PutBlob, ReadIndexToAdd, SaveFails, Idle
<1>1. CASE PutBlob(n)
  <2> USE <1>1 DEF PutBlob
  <2>1. /\ ArchiveTypes' /\ saver'[n] = [at |-> "put", todo |-> Tail(saver[n].todo)]
        /\ blobs'[n] = blobs[n] \cup {Head(saver[n].todo)}
        /\ \A m \in Matches : m # n => saver'[m] = saver[m] /\ blobs'[m] = blobs[m]
    BY DEF ArchiveTypes, traces
  <2>2. \A m \in Matches : SaverWellFormed(m)' /\ PutInOrder(m)'
    <3>1. ASSUME NEW m \in Matches, m # n PROVE SaverWellFormed(m)' /\ PutInOrder(m)'
      BY <2>1, <3>1 DEF SaverWellFormed, PutInOrder, Untouched
    <3>2. SaverWellFormed(n)' /\ Tail(saver[n].todo) \in PutsLeft
      BY <2>1, SuffixesShrink DEF SaverWellFormed
    <3>3. PutInOrder(n)'
      <4>1. Untouched(n) => blobs'[n] = Parts \ ToSet(Tail(saver[n].todo))
        BY <2>1, SuffixesShrink DEF SaverWellFormed, PutInOrder
      <4>2. Tail(saver[n].todo) # <<>> => "manifest" \in ToSet(Tail(saver[n].todo))
        BY <3>2, SuffixesShrink
      <4>3. saver'[n].at = "put" /\ saver'[n].todo = Tail(saver[n].todo)
        BY <2>1
      <4>4. Tail(saver[n].todo) = <<>> => Parts \ ToSet(Tail(saver[n].todo)) = Parts
        BY SuffixesShrink
      <4>5. Untouched(n) /\ "manifest" \in blobs'[n] => blobs'[n] = Parts
        BY <4>1, <4>2, <4>4
      <4> QED BY <4>1, <4>3, <4>5 DEF PutInOrder, Untouched
    <3> QED BY <3>1, <3>2, <3>3
  <2>3. Done' = Done
    BY <2>1 DEF Done
  <2> QED BY <2>1, <2>2, <2>3, <1>0, QuietStep DEF Untouched, Idle
<1>2. CASE ReadIndexToAdd(n)
  <2> USE <1>2 DEF ReadIndexToAdd
  <2>1. /\ ArchiveTypes' /\ saver'[n] = [at |-> "index", read |-> index]
        /\ \A m \in Matches : m # n => saver'[m] = saver[m]
    BY DEF ArchiveTypes, traces
  <2>2. \A m \in Matches : SaverWellFormed(m)' /\ PutInOrder(m)'
    BY <2>1, SuffixesShrink DEF SaverWellFormed, PutInOrder, Untouched
  <2>3. Done' = Done
    BY <2>1 DEF Done
  <2> QED BY <2>1, <2>2, <2>3, <1>0, QuietStep DEF Untouched, Idle
<1>3. CASE SaveFails(n)
  <2> USE <1>3 DEF SaveFails
  <2>1. /\ ArchiveTypes' /\ saver'[n] = [at |-> "failed"]
        /\ \A m \in Matches : m # n => saver'[m] = saver[m]
    BY DEF ArchiveTypes, traces
  <2>2. \A m \in Matches : SaverWellFormed(m)' /\ PutInOrder(m)'
    BY <2>1, SuffixesShrink DEF SaverWellFormed, PutInOrder, Untouched
  <2>3. Done' = Done
    BY <2>1, <1>0 DEF Done
  <2> QED BY <2>1, <2>2, <2>3, <1>0, QuietStep DEF Untouched, Idle
<1> QED BY <1>1, <1>2, <1>3

\* Whoever the new index drops has enough newer matches in it.
LEMMA AddToIndexKeeps ==
  ASSUME ArchiveInv, NEW n \in Matches, AddToIndex(n)
  PROVE  ArchiveInv'
<1> USE DEF ArchiveInv, AddToIndex
<1>1. /\ ArchiveTypes' /\ saver'[n] = [at |-> "done"] /\ saver[n].at = "index"
      /\ \A m \in Matches : m # n => saver'[m] = saver[m]
  BY DEF ArchiveTypes, traces
<1>2. Done' = Done \cup {n}
  BY <1>1 DEF Done
<1>3. \A m \in Matches : SaverWellFormed(m)' /\ PutInOrder(m)'
  BY <1>1 DEF SaverWellFormed, PutInOrder, Untouched
<1>4. CreatedInOrder'
  BY <1>1 DEF CreatedInOrder, Begun, Idle
<1> DEFINE entries == saver[n].read \cup {n}
<1>5. entries \subseteq Done' /\ entries \subseteq Begun /\ index' = Newest(entries)
  <2>1. Done \subseteq Begun /\ n \in Begun
    BY <1>1 DEF Done, Begun, CreatedInOrder, Idle
  <2> QED BY <2>1, <1>1, <1>2 DEF IndexSaved, WithEntry, Done
<1>6. IndexSaved'
  BY <1>1, <1>2, <1>5 DEF IndexSaved, Newest
<1>7. (overtaken \/ IndexNewest) => (overtaken' \/ IndexNewest')
  <2> SUFFICES ASSUME IndexNewest, saver[n].read = index, NEW m \in Matches,
                      Stored(m)', Untouched(m)', m \notin index'
               PROVE  Cardinality(Newer(m, Matches)) >= MaxIndexEntries
    BY DEF IndexNewest, Newer
  <2>1. CASE m \in entries
    <3>1. Newer(m, entries) \subseteq Newer(m, Matches) /\ Newer(m, Matches) \subseteq Matches
      BY <1>5 DEF Newer, Begun
    <3>2. ~(Cardinality(Newer(m, entries)) < MaxIndexEntries)
      BY <2>1, <1>5 DEF Newest, Newer
    <3>3. /\ Cardinality(Newer(m, entries)) <= Cardinality(Newer(m, Matches))
          /\ Cardinality(Newer(m, entries)) \in Nat /\ Cardinality(Newer(m, Matches)) \in Nat
      BY <3>1, NewerGrows, ArchiveAssumption
    <3> QED BY <3>2, <3>3, ArchiveAssumption
  <2>2. CASE m \notin entries
    BY <2>2, <1>1 DEF IndexNewest, Stored, Untouched
  <2> QED BY <2>1, <2>2
<1>8. IndexBounded'
  <2>1. Cardinality(index') <= MaxIndexEntries
    BY <1>5, NewestBounded, ArchiveAssumption DEF ArchiveTypes, CreatedInOrder
  <2> QED BY <2>1 DEF IndexBounded
<1>9. OneAppend'
  BY DEF OneAppend, traces
<1> QED BY <1>1, <1>3, <1>4, <1>6, <1>7, <1>8, <1>9

LEMMA DeleterKeeps ==
  ASSUME ArchiveInv, NEW n \in Matches, BeginDelete(n) \/ DeleteBlob(n) \/ ReadIndexToPrune(n)
  PROVE  ArchiveInv'
<1> USE DEF ArchiveInv
<1>1. /\ ArchiveTypes' /\ UNCHANGED <<saver, index, created, overtaken, traces>>
      /\ deleter'[n].at \in {"delete", "index"} /\ ~ Untouched(n)'
      /\ deleter'[n].at = "index" => deleter'[n].read = index
      /\ \A m \in Matches : m # n => deleter'[m] = deleter[m] /\ blobs'[m] = blobs[m]
  BY DEF ArchiveTypes, traces, BeginDelete, DeleteBlob, ReadIndexToPrune, Untouched, Idle
<1>2. \A m \in Matches : SaverWellFormed(m)' /\ PutInOrder(m)'
  BY <1>1 DEF SaverWellFormed, PutInOrder, Untouched
<1>3. Done' = Done
  BY <1>1 DEF Done
<1> QED BY <1>1, <1>2, <1>3, QuietStep DEF Untouched

LEMMA PruneIndexKeeps ==
  ASSUME ArchiveInv, NEW n \in Matches, PruneIndex(n)
  PROVE  ArchiveInv'
<1> USE DEF ArchiveInv, PruneIndex
<1>1. /\ ArchiveTypes' /\ UNCHANGED <<saver, blobs, created, traces>>
      /\ deleter'[n] = [at |-> "done"] /\ ~ Untouched(n)'
      /\ \A m \in Matches : m # n => deleter'[m] = deleter[m]
  BY DEF ArchiveTypes, traces, Untouched, Idle
<1>2. \A m \in Matches : SaverWellFormed(m)' /\ PutInOrder(m)'
  BY <1>1 DEF SaverWellFormed, PutInOrder, Untouched
<1>3. CreatedInOrder'
  BY <1>1 DEF CreatedInOrder, Begun
<1>4. Done' = Done /\ deleter[n].read \subseteq Done /\ index' = deleter[n].read \ {n}
  BY <1>1 DEF Done, IndexSaved
<1>5. IndexSaved'
  BY <1>1, <1>4 DEF IndexSaved
<1>6. (overtaken \/ IndexNewest) => (overtaken' \/ IndexNewest')
  BY <1>1 DEF IndexNewest, Stored, Untouched, Newer
<1>7. IndexBounded'
  <2>1. IsFiniteSet(deleter[n].read) /\ Cardinality(deleter[n].read) <= MaxIndexEntries
    BY <1>4, ArchiveAssumption, FS_Subset DEF Done, IndexBounded
  <2>2. Cardinality(index') <= MaxIndexEntries
    BY <2>1, <1>4, FS_Subset, FS_CardinalityType, ArchiveAssumption
  <2> QED BY <2>2, <1>1 DEF IndexBounded
<1>8. OneAppend'
  BY <1>1 DEF OneAppend, traces
<1> QED BY <1>1, <1>2, <1>3, <1>5, <1>6, <1>7, <1>8

\* The chain: a call goes to its end, only the first may read, and it leaves when it
\* has written.
LEMMA AppendKeeps ==
  ASSUME ArchiveInv, NEW a \in Appends, CallAppend(a) \/ ReadTraceFile(a) \/ WriteTraceFile(a)
  PROVE  ArchiveInv'
<1> USE DEF ArchiveInv
<1>1. UNCHANGED artifacts
  BY DEF CallAppend, ReadTraceFile, WriteTraceFile
<1>2. ArchiveTypes' /\ OneAppend'
  <2>1. CASE CallAppend(a)
    <3>1. tail' \in Seq(Appends) /\ tail' # <<>> /\ (tail # <<>> => Head(tail') = Head(tail))
      BY <2>1, AppendProperties, HeadTailAppend DEF CallAppend, Chain, ArchiveTypes
    <3> QED BY <3>1, <2>1, <1>1 DEF CallAppend, ArchiveTypes, OneAppend, artifacts
  <2>2. CASE ReadTraceFile(a)
    <3>1. tail # <<>> /\ Head(tail) = a
      BY <2>2 DEF ReadTraceFile, MayRun, ToSet, ArchiveTypes
    <3> QED BY <3>1, <2>2, <1>1 DEF ReadTraceFile, ArchiveTypes, OneAppend, artifacts
  <2>3. CASE WriteTraceFile(a)
    <3>1. PICK i \in DOMAIN tail : tail' = RemoveAt(tail, i)
      BY <2>3 DEF WriteTraceFile
    <3>2. tail' \in Seq(Appends)
      <4>1. i \in 1..Len(tail) /\ Len(tail) \in Nat /\ \A j \in 1..Len(tail) : tail[j] \in Appends
        BY DEF ArchiveTypes
      <4>2. SubSeq(tail, 1, i - 1) \in Seq(Appends) /\ SubSeq(tail, i + 1, Len(tail)) \in Seq(Appends)
        BY <4>1, SubSeqProperties
      <4> QED BY <3>1, <4>2, ConcatProperties DEF RemoveAt
    <3>3. \A b \in Appends : readFile'[b] = NotRead
      BY <2>3 DEF WriteTraceFile, ArchiveTypes, OneAppend
    <3>4. readFile[a].file = traceFile
      BY <2>3 DEF WriteTraceFile, OneAppend
    <3> QED BY <3>2, <3>3, <3>4, <2>3, <1>1 DEF WriteTraceFile, ArchiveTypes, OneAppend, artifacts
  <2> QED BY <2>1, <2>2, <2>3
<1>3. \A m \in Matches : SaverWellFormed(m)' /\ PutInOrder(m)'
  BY <1>1 DEF SaverWellFormed, PutInOrder, Untouched, artifacts
<1>4. CreatedInOrder' /\ IndexSaved' /\ IndexBounded'
  BY <1>1 DEF CreatedInOrder, Begun, IndexSaved, IndexBounded, Done, artifacts
<1>5. (overtaken \/ IndexNewest) => (overtaken' \/ IndexNewest')
  BY <1>1 DEF IndexNewest, Stored, Untouched, Newer, artifacts
<1> QED BY <1>2, <1>3, <1>4, <1>5

LEMMA ArchiveNextKeeps == ArchiveInv /\ [ArchiveNext]_archiveVars => ArchiveInv'
<1> SUFFICES ASSUME ArchiveInv, [ArchiveNext]_archiveVars PROVE ArchiveInv'
  OBVIOUS
<1>1. CASE UNCHANGED archiveVars
  <2> USE <1>1 DEF ArchiveInv, archiveVars, artifacts, traces
  <2>1. ArchiveTypes' /\ OneAppend'
    BY DEF ArchiveTypes, OneAppend
  <2>2. \A m \in Matches : SaverWellFormed(m)' /\ PutInOrder(m)'
    BY DEF SaverWellFormed, PutInOrder, Untouched
  <2>3. CreatedInOrder' /\ IndexSaved' /\ IndexBounded'
    BY DEF CreatedInOrder, Begun, IndexSaved, IndexBounded, Done
  <2>4. (overtaken \/ IndexNewest) => (overtaken' \/ IndexNewest')
    BY DEF IndexNewest, Stored, Untouched, Newer
  <2> QED BY <2>1, <2>2, <2>3, <2>4
<1> QED
  BY <1>1, BeginSaveKeeps, SaverKeeps, AddToIndexKeeps, DeleterKeeps, PruneIndexKeeps, AppendKeeps
     DEF ArchiveNext

LEMMA ArchiveInvImplies == ArchiveInv => ArchiveSound
<1> SUFFICES ASSUME ArchiveInv PROVE ArchiveSound
  OBVIOUS
<1> USE DEF ArchiveInv
<1>1. ASSUME NEW m \in Matches, Untouched(m), m \in index \/ "manifest" \in blobs[m]
      PROVE  blobs[m] = Parts
  BY <1>1 DEF PutInOrder, IndexSaved, Done
<1>2. overtaken \/ \A m \in Matches :
        Stored(m) /\ Untouched(m) /\ m \notin index =>
          Cardinality({k \in Matches : created[k] > created[m]}) >= MaxIndexEntries
  BY DEF IndexNewest, Newer
<1>3. \A m \in Matches : m \in index => saver[m].at = "done"
  BY DEF IndexSaved, Done
<1> QED BY <1>1, <1>2, <1>3 DEF ArchiveSound, IndexBounded, OneAppend

\* ArchiveInv is inductive.
THEOREM ArchiveInvariant == ArchiveSpec => []ArchiveInv
BY InitArchiveInv, ArchiveNextKeeps, PTL DEF ArchiveSpec

\* Nothing half-written is listed, a saved match is listed unless newer ones fill the
\* index or its writers overlapped, and no acknowledged trace is lost:
\* object-store/*.ts, for any number of matches, appends and deletes.
THEOREM ArchiveIsSound == ArchiveSpec => []ArchiveSound
BY ArchiveInvImplies, ArchiveInvariant, PTL

-----------------------------------------------------------------------------
(* Accounts and sessions.                                                   *)

CallStages == {"hook", "touch", "limiter", "handler", "insert", "destroy", "issue"}

CookieFits(cookie) == cookie \in {Keep, Clear} \/ \E s \in Sids : cookie = Set(s)

\* What a request knows when it gets to a stage: the session that it touches or
\* destroys, and an account before it issues a session for it.
CallFits(c) ==
  /\ calls[c].at \in CallStages =>
       calls[c] \in [at : CallStages, kind : Kinds, email : Emails, stale : BOOLEAN,
                     sid : 0..MaxSessions]
  /\ calls[c].at \in {"touch", "destroy"} => calls[c].sid # 0
  /\ calls[c].at \in {"destroy", "issue"} => Registered(calls[c].email)
  /\ calls[c].at = "answered" => CookieFits(calls[c].cookie)

CallsFit ==
  /\ calls = [c \in 1..MaxCalls |-> calls[c]]
  /\ \A c \in 1..MaxCalls : CallFits(c)

AccountTypes ==
  /\ clock \in Nat
  /\ accounts \subseteq [id : Kinds, email : Emails]
  /\ sessions \in [Sids -> [user : Kinds \cup {"none"}, until : Nat]]
  /\ jar \in [sid : 0..MaxSessions, until : Nat]
  /\ destroyed \subseteq Sids
  /\ hits \in [count : Nat, resetAt : Nat]
  /\ passes \in Seq(Nat)

\* What AccountsSound says of accounts and sessions.
SessionsSound ==
  /\ \A s \in destroyed : sessions[s] = NoSession
  /\ \A s \in Sids : sessions[s] # NoSession => \E a \in accounts : a.id = sessions[s].user
  /\ \A a, b \in accounts : a.email = b.email => a = b

\* The request goes on to a stage, or is answered; the others stay where they are.
LEMMA AtKeeps ==
  ASSUME CallsFit, NEW c \in 1..MaxCalls, NEW at \in CallStages, At(c, at),
         calls[c].at \in CallStages, accounts \subseteq accounts',
         at \in {"touch", "destroy"} => calls[c].sid # 0,
         at \in {"destroy", "issue"} => \E a \in accounts' : a.email = calls[c].email
  PROVE  CallsFit'
<1>1. /\ calls' = [d \in 1..MaxCalls |-> calls'[d]]
      /\ \A d \in 1..MaxCalls : d # c => calls'[d] = calls[d]
  BY DEF CallsFit, At
<1>2. calls'[c] = [calls[c] EXCEPT !.at = at]
  BY DEF CallsFit, At
<1>3. calls[c] \in [at : CallStages, kind : Kinds, email : Emails, stale : BOOLEAN, sid : 0..MaxSessions]
  BY DEF CallsFit, CallFits
<1>4. /\ calls'[c] \in [at : CallStages, kind : Kinds, email : Emails, stale : BOOLEAN, sid : 0..MaxSessions]
      /\ calls'[c].at = at /\ calls'[c].email = calls[c].email /\ calls'[c].sid = calls[c].sid
  BY <1>2, <1>3
<1>5. CallFits(c)'
  BY <1>4 DEF CallFits, Registered, CallStages
<1>6. \A d \in 1..MaxCalls : d # c => CallFits(d)'
  BY <1>1 DEF CallsFit, CallFits, Registered, CookieFits, Sids
<1> QED BY <1>1, <1>5, <1>6 DEF CallsFit

LEMMA EndsKeeps ==
  ASSUME CallsFit, NEW c \in 1..MaxCalls, NEW cookie, Ends(c, cookie), CookieFits(cookie),
         accounts \subseteq accounts'
  PROVE  CallsFit'
<1>1. /\ calls' = [d \in 1..MaxCalls |-> calls'[d]]
      /\ calls'[c] = [at |-> "answered", cookie |-> cookie]
      /\ \A d \in 1..MaxCalls : d # c => calls'[d] = calls[d]
  BY DEF CallsFit, Ends
<1>2. CallFits(c)'
  BY <1>1 DEF CallFits, CallStages, CookieFits, Sids
<1>3. \A d \in 1..MaxCalls : d # c => CallFits(d)'
  BY <1>1 DEF CallsFit, CallFits, Registered, CookieFits, Sids
<1> QED BY <1>1, <1>2, <1>3 DEF CallsFit

LEMMA HookCookieFits == \A c : CookieFits(HookCookie(c)) /\ CookieFits(Keep) /\ CookieFits(Clear)
BY DEF CookieFits, HookCookie

LEMMA LeastNumber ==
  ASSUME NEW S \in SUBSET Nat, S # {}
  PROVE  \E x \in S : \A y \in S : x <= y
<1>1. PICK x \in S : \A y \in S : ~ (<<y, x>> \in OpToRel(<, Nat))
  <2> DEFINE R == OpToRel(<, Nat)
  <2>1. IsWellFoundedOn(R, Nat)
    BY NatLessThanWellFounded
  <2> HIDE DEF R
  <2>2. \E x \in S : \A y \in S : ~ (<<y, x>> \in R)
    BY <2>1, WFMin
  <2> QED BY <2>2 DEF R
<1>2. ASSUME NEW y \in S PROVE x <= y
  <2>1. ~ (y < x)
    BY <1>1 DEF OpToRel
  <2> QED BY <2>1
<1> QED BY <1>2

LEMMA SessionIdIssued ==
  ASSUME Unissued # {}
  PROVE  LET s == CHOOSE t \in Unissued : \A u \in Unissued : t <= u
         IN  s \in Unissued
<1>1. Unissued \subseteq Nat
  BY AccountsAssumption DEF Unissued, Sids
<1>2. \E x \in Unissued : \A y \in Unissued : x <= y
  BY <1>1, LeastNumber
<1> QED BY <1>2

\* A browser's request, its answer and every stage of a handler between them.
CallStep(c) ==
  \/ \E kind \in Kinds, e \in Emails : Send(c, kind, e)
  \/ FindSession(c) \/ TouchSession(c) \/ Visit(c)
  \/ FindByEmail(c) \/ HashPassword(c) \/ CreateUser(c) \/ VerifyPassword(c)
  \/ DestroySession(c) \/ LogoutAnonymous(c) \/ CreateSession(c) \/ Receive(c)

LEMMA RowsKept ==
  ASSUME AccountTypes, SessionsSound,
         UNCHANGED <<clock, accounts, sessions, jar, destroyed, limiter>>
  PROVE  AccountTypes' /\ SessionsSound'
BY DEF AccountTypes, SessionsSound, Sids, limiter

\* The request and the hook.
LEMMA HookKeeps ==
  ASSUME CallsFit, AccountTypes, SessionsSound, NEW c \in 1..MaxCalls,
         (\E kind \in Kinds, e \in Emails : Send(c, kind, e)) \/ FindSession(c) \/ TouchSession(c)
  PROVE  CallsFit' /\ AccountTypes' /\ SessionsSound'
<1>0. 0 \in 0..MaxSessions /\ jar.sid \in 0..MaxSessions
  BY AccountsAssumption DEF AccountTypes
<1>1. ASSUME NEW kind \in Kinds, NEW e \in Emails, Send(c, kind, e)
      PROVE  CallsFit' /\ AccountTypes' /\ SessionsSound'
  <2>1. /\ calls' = [d \in 1..MaxCalls |-> calls'[d]]
        /\ calls'[c] = [at |-> "hook", kind |-> kind, email |-> e, stale |-> FALSE,
                        sid |-> IF kind = "bearer" \/ jar.until <= clock THEN 0 ELSE jar.sid]
        /\ \A d \in 1..MaxCalls : d # c => calls'[d] = calls[d]
    BY <1>1 DEF Send, CallsFit
  <2>2. CallFits(c)'
    BY <1>0, <2>1 DEF CallFits, CallStages
  <2>3. \A d \in 1..MaxCalls : d # c => CallFits(d)'
    BY <1>1, <2>1 DEF CallsFit, CallFits, Registered, CookieFits, Sids, Send
  <2>4. AccountTypes' /\ SessionsSound'
    BY <1>1, RowsKept DEF Send
  <2> QED BY <2>1, <2>2, <2>3, <2>4 DEF CallsFit
<1>2. CASE FindSession(c)
  <2>1. calls[c] \in [at : CallStages, kind : Kinds, email : Emails, stale : BOOLEAN, sid : 0..MaxSessions]
    BY <1>2 DEF FindSession, CallsFit, CallFits, CallStages
  <2>2. AccountTypes' /\ SessionsSound'
    BY <1>2, RowsKept DEF FindSession
  <2>3. CASE calls[c].sid # 0 /\ Live(calls[c].sid)
    BY <2>2, <1>2, <2>3, AtKeeps DEF FindSession, CallStages
  <2>4. CASE ~(calls[c].sid # 0 /\ Live(calls[c].sid))
    <3>1. /\ calls' = [d \in 1..MaxCalls |-> calls'[d]]
          /\ calls'[c] = [at |-> AfterHook(calls[c].kind), kind |-> calls[c].kind,
                          email |-> calls[c].email, stale |-> calls[c].sid # 0, sid |-> 0]
          /\ \A d \in 1..MaxCalls : d # c => calls'[d] = calls[d]
      BY <1>2, <2>4 DEF FindSession, CallsFit
    <3>2. AfterHook(calls[c].kind) \in {"limiter", "handler"}
      BY DEF AfterHook
    <3>3. CallFits(c)'
      BY <1>0, <2>1, <3>1, <3>2 DEF CallFits, CallStages
    <3>4. \A d \in 1..MaxCalls : d # c => CallFits(d)'
      BY <1>2, <3>1 DEF CallsFit, CallFits, Registered, CookieFits, Sids, FindSession
    <3> QED BY <2>2, <3>1, <3>3, <3>4 DEF CallsFit
  <2> QED BY <2>3, <2>4
<1>3. CASE TouchSession(c)
  <2>1. AfterHook(calls[c].kind) \in {"limiter", "handler"}
    BY DEF AfterHook
  <2>2. calls[c].sid \in Sids
    BY <1>3, AccountsAssumption DEF TouchSession, CallsFit, CallFits, CallStages, Sids
  <2>3. CallsFit'
    BY <1>3, <2>1, AtKeeps DEF TouchSession, CallStages
  <2>4. sessions' \in [Sids -> [user : Kinds \cup {"none"}, until : Nat]]
    <3>1. /\ sessions[calls[c].sid] \in [user : Kinds \cup {"none"}, until : Nat]
          /\ clock + SessionTtl \in Nat
      BY <2>2, AccountsAssumption DEF AccountTypes
    <3>2. [sessions[calls[c].sid] EXCEPT !.until = clock + SessionTtl]
            \in [user : Kinds \cup {"none"}, until : Nat]
      BY <3>1
    <3>3. CASE sessions[calls[c].sid] = NoSession
      BY <1>3, <3>3 DEF TouchSession, Touched, AccountTypes
    <3>4. CASE sessions[calls[c].sid] # NoSession
      BY <1>3, <3>2, <3>4 DEF TouchSession, Touched, AccountTypes
    <3> QED BY <3>3, <3>4
  <2>5. /\ \A s \in Sids : sessions[s] = NoSession => sessions'[s] = NoSession
        /\ \A s \in Sids : sessions'[s].user = sessions[s].user
    BY <1>3, <2>2 DEF TouchSession, Touched, AccountTypes
  <2>6. AccountTypes'
    BY <1>3, <2>4 DEF TouchSession, AccountTypes, Sids, limiter
  <2>7. SessionsSound'
    BY <1>3, <2>5 DEF TouchSession, SessionsSound, AccountTypes, Sids
  <2> QED BY <2>3, <2>6, <2>7
<1> QED BY <1>1, <1>2, <1>3

\* Handlers that write nothing.
LEMMA ReadersKeep ==
  ASSUME CallsFit, AccountTypes, SessionsSound, NEW c \in 1..MaxCalls,
         Visit(c) \/ LogoutAnonymous(c) \/ FindByEmail(c) \/ HashPassword(c) \/ VerifyPassword(c)
  PROVE  CallsFit' /\ AccountTypes' /\ SessionsSound'
<1>1. AccountTypes' /\ SessionsSound' /\ accounts \subseteq accounts'
  BY RowsKept DEF Visit, LogoutAnonymous, FindByEmail, HashPassword, VerifyPassword
<1>2. CASE Visit(c) \/ LogoutAnonymous(c)
  BY <1>1, <1>2, EndsKeeps, HookCookieFits DEF Visit, LogoutAnonymous
<1>3. CASE FindByEmail(c) \/ HashPassword(c)
  BY <1>1, <1>3, EndsKeeps, AtKeeps, HookCookieFits DEF FindByEmail, HashPassword, CallStages
<1>4. CASE VerifyPassword(c)
  <2>1. CASE Ends(c, HookCookie(c))
    BY <1>1, <2>1, EndsKeeps, HookCookieFits
  <2>2. CASE ~ Ends(c, HookCookie(c))
    <3>1. [id |-> "register", email |-> calls[c].email] \in accounts
      BY <1>4, <2>2 DEF VerifyPassword
    <3>2. \E a \in accounts' : a.email = calls[c].email
      BY <3>1, <1>4 DEF VerifyPassword
    <3> QED BY <1>1, <1>4, <2>2, <3>2, AtKeeps DEF VerifyPassword, CallStages
  <2> QED BY <2>1, <2>2
<1> QED BY <1>2, <1>3, <1>4, <1>1

\* The index on the email, asked at the insert, makes the account of an email one.
LEMMA CreateUserKeeps ==
  ASSUME CallsFit, AccountTypes, SessionsSound, NEW c \in 1..MaxCalls, CreateUser(c)
  PROVE  CallsFit' /\ AccountTypes' /\ SessionsSound'
<1> USE DEF CreateUser
<1>1. calls[c].kind \in Kinds /\ calls[c].email \in Emails /\ accounts \subseteq accounts'
  BY DEF CallsFit, CallFits, CallStages
<1>2. CASE EmailTaken(calls[c].email)
  BY <1>1, <1>2, RowsKept, EndsKeeps, HookCookieFits
<1>3. CASE ~ EmailTaken(calls[c].email)
  <2>1. accounts' = accounts \cup {[id |-> calls[c].kind, email |-> calls[c].email]}
    BY <1>3
  <2> DEFINE new == [id |-> calls[c].kind, email |-> calls[c].email]
  <2>2. new \in accounts' /\ new.email = calls[c].email /\ ~ Registered(calls[c].email)
    BY <2>1, <1>3 DEF EmailTaken
  <2>3. CallsFit'
    BY <1>1, <1>3, <2>2, EndsKeeps, AtKeeps, HookCookieFits DEF CallStages
  <2>4. AccountTypes'
    BY <1>1, <2>1 DEF AccountTypes, Sids, limiter
  <2>5. \A a, b \in accounts' : a.email = b.email => a = b
    BY <2>1, <2>2 DEF SessionsSound, Registered
  <2> QED BY <2>1, <2>3, <2>4, <2>5 DEF SessionsSound, Sids
<1> QED BY <1>2, <1>3

\* A session is destroyed for good; a new one has an id that no other ever had.
LEMMA SessionsKeep ==
  ASSUME CallsFit, AccountTypes, SessionsSound, NEW c \in 1..MaxCalls,
         DestroySession(c) \/ CreateSession(c)
  PROVE  CallsFit' /\ AccountTypes' /\ SessionsSound'
<1>1. CASE DestroySession(c)
  <2> USE <1>1 DEF DestroySession
  <2>1. calls[c].sid \in Sids
    BY AccountsAssumption DEF CallsFit, CallFits, CallStages, Sids
  <2>2. CallsFit'
    <3>1. CASE calls[c].kind = "logout"
      BY <3>1, EndsKeeps, HookCookieFits
    <3>2. CASE calls[c].kind # "logout"
      <4>1. calls[c].at = "destroy" /\ \E a \in accounts' : a.email = calls[c].email
        BY <3>2 DEF CallsFit, CallFits, Registered
      <4> QED BY <3>2, <4>1, AtKeeps DEF CallStages
    <3> QED BY <3>1, <3>2
  <2>3. NoSession \in [user : Kinds \cup {"none"}, until : Nat]
    BY DEF NoSession
  <2>4. AccountTypes'
    BY <2>1, <2>3 DEF AccountTypes, Sids, limiter
  <2>5. SessionsSound'
    BY <2>1 DEF SessionsSound, AccountTypes, Sids
  <2> QED BY <2>2, <2>4, <2>5
<1>2. CASE CreateSession(c)
  <2> USE <1>2 DEF CreateSession
  <2> DEFINE s == CHOOSE t \in Unissued : \A u \in Unissued : t <= u
             user == AccountOf(calls[c].email)
  <2>1. s \in Sids /\ s \notin destroyed
    BY SessionIdIssued DEF Unissued
  <2>2. user \in accounts
    BY DEF CallsFit, CallFits, AccountOf, Registered
  <2>3. sessions' = [sessions EXCEPT ![s] = [user |-> user.id, until |-> clock + SessionTtl]]
    OBVIOUS
  <2>4. CallsFit'
    <3>1. CookieFits(Set(s)) /\ Ends(c, Set(s))
      BY <2>1 DEF CookieFits
    <3> QED BY <3>1, EndsKeeps
  <2> HIDE DEF s, user, CreateSession
  <2>5. user.id \in Kinds /\ clock + SessionTtl \in Nat
    BY <2>2, AccountsAssumption DEF AccountTypes
  <2>6. sessions' \in [Sids -> [user : Kinds \cup {"none"}, until : Nat]]
    BY <2>1, <2>3, <2>5 DEF AccountTypes
  <2>7. AccountTypes'
    BY <2>6, <1>2 DEF AccountTypes, Sids, limiter, CreateSession
  <2>8. sessions'[s].user = user.id /\ \A t \in Sids : t # s => sessions'[t] = sessions[t]
    BY <2>1, <2>3 DEF AccountTypes
  <2>9. SessionsSound'
    <3>1. \A t \in destroyed : sessions'[t] = NoSession
      BY <2>1, <2>8 DEF SessionsSound, AccountTypes
    <3>2. \A t \in Sids : sessions'[t] # NoSession => \E a \in accounts : a.id = sessions'[t].user
      BY <2>2, <2>8 DEF SessionsSound
    <3> QED BY <3>1, <3>2, <1>2 DEF SessionsSound, Sids, CreateSession
  <2> QED BY <2>4, <2>7, <2>9
<1> QED BY <1>1, <1>2

\* The browser keeps the cookie that an answer sets.
LEMMA ReceiveKeeps ==
  ASSUME CallsFit, AccountTypes, SessionsSound, NEW c \in 1..MaxCalls, Receive(c)
  PROVE  CallsFit' /\ AccountTypes' /\ SessionsSound'
<1> USE DEF Receive
<1>1. /\ calls' = [d \in 1..MaxCalls |-> calls'[d]] /\ calls'[c] = Open
      /\ \A d \in 1..MaxCalls : d # c => calls'[d] = calls[d]
  BY DEF CallsFit
<1>2. CallsFit'
  <2>1. CallFits(c)'
    BY <1>1 DEF CallFits, Open, CallStages
  <2>2. \A d \in 1..MaxCalls : d # c => CallFits(d)'
    BY <1>1 DEF CallsFit, CallFits, Registered, CookieFits, Sids
  <2> QED BY <1>1, <2>1, <2>2 DEF CallsFit
<1>3. jar' \in [sid : 0..MaxSessions, until : Nat]
  <2>1. CASE jar' = jar
    BY <2>1 DEF AccountTypes
  <2>2. CASE jar' = NoCookie
    BY <2>2, AccountsAssumption DEF NoCookie
  <2>3. ASSUME NEW s \in Sids, jar' = [sid |-> s, until |-> clock + SessionTtl]
        PROVE  jar' \in [sid : 0..MaxSessions, until : Nat]
    <3>1. s \in 0..MaxSessions /\ clock + SessionTtl \in Nat
      BY AccountsAssumption DEF Sids, AccountTypes
    <3> QED BY <2>3, <3>1
  <2> QED BY <2>1, <2>2, <2>3
<1>4. AccountTypes' /\ SessionsSound'
  BY <1>3 DEF AccountTypes, SessionsSound, Sids, limiter
<1> QED BY <1>2, <1>4

\* When the limiter let requests pass: since a time, and in the window before it.
Since(p, t) == {i \in DOMAIN p : p[i] >= t}
Before(p, t) == {i \in DOMAIN p : p[i] < t /\ p[i] >= t - RateWindow}
In(p, t) == {i \in DOMAIN p : p[i] \in t..(t + RateWindow - 1)}
WindowStart == hits.resetAt - RateWindow

\* A window lets no more through than its maximum, and neither did the one before;
\* with the entry pruned, the last window's passes are all there are.
WindowsBounded ==
  /\ \A i \in DOMAIN passes :
       /\ passes[i] <= clock
       /\ passes[i] < (IF hits = NoHits THEN clock ELSE hits.resetAt)
  /\ hits # NoHits =>
       /\ WindowStart \in 0..clock /\ hits.count > 0
       /\ Cardinality(Since(passes, WindowStart)) <= RateMax
       /\ Cardinality(Since(passes, WindowStart)) <= hits.count
       /\ Cardinality(Before(passes, WindowStart)) <= RateMax
  /\ hits = NoHits => Cardinality(Since(passes, clock - RateWindow)) <= RateMax
  /\ \A t \in Nat : PassesIn(t) <= 2 * RateMax

LEMMA PassesFinite ==
  ASSUME NEW p \in Seq(Nat), NEW S \in SUBSET DOMAIN p
  PROVE  IsFiniteSet(S) /\ Cardinality(S) \in Nat
<1>1. DOMAIN p = 1..Len(p) /\ Len(p) \in Nat
  OBVIOUS
<1>2. IsFiniteSet(1..Len(p))
  BY <1>1, FS_Interval
<1>3. IsFiniteSet(S)
  BY <1>1, <1>2, FS_Subset
<1> QED BY <1>3, FS_CardinalityType

\* A stretch as long as the window that reaches the present meets at most two
\* windows of the limiter.
LEMMA StretchBounded ==
  ASSUME NEW p \in Seq(Nat), NEW now \in Nat, NEW s \in Nat, s <= now,
         NEW t \in Nat, t > now - RateWindow,
         Cardinality(Since(p, s)) <= RateMax, Cardinality(Before(p, s)) <= RateMax
  PROVE  Cardinality(In(p, t)) <= 2 * RateMax
<1>1. RateWindow \in Nat \ {0} /\ RateMax \in Nat /\ \A i \in DOMAIN p : p[i] \in Nat
  BY AccountsAssumption
<1>2. In(p, t) \subseteq Since(p, s) \cup Before(p, s)
  BY <1>1 DEF In, Since, Before
<1>3. /\ IsFiniteSet(Since(p, s)) /\ Cardinality(Since(p, s)) \in Nat
      /\ IsFiniteSet(Before(p, s)) /\ Cardinality(Before(p, s)) \in Nat
      /\ Cardinality(Since(p, s) \cap Before(p, s)) \in Nat
      /\ Cardinality(In(p, t)) \in Nat
  BY PassesFinite DEF Since, Before, In
<1>4. /\ IsFiniteSet(Since(p, s) \cup Before(p, s))
      /\ Cardinality(Since(p, s) \cup Before(p, s))
           = Cardinality(Since(p, s)) + Cardinality(Before(p, s))
               - Cardinality(Since(p, s) \cap Before(p, s))
  BY <1>3, FS_Union
<1>5. Cardinality(In(p, t)) <= Cardinality(Since(p, s) \cup Before(p, s))
  BY <1>2, <1>4, FS_Subset
<1> QED BY <1>1, <1>3, <1>4, <1>5

LEMMA ClockKeeps ==
  ASSUME WindowsBounded, AccountTypes, Tick
  PROVE  WindowsBounded'
<1> USE DEF Tick, limiter
<1>1. /\ clock \in Nat /\ clock' = clock + 1 /\ passes' = passes /\ hits' = hits
      /\ passes \in Seq(Nat) /\ \A i \in DOMAIN passes : passes[i] \in Nat
      /\ hits.resetAt \in Nat /\ RateWindow \in Nat /\ RateMax \in Nat
  BY AccountsAssumption DEF AccountTypes
<1>2. Since(passes, clock - RateWindow)' \subseteq Since(passes, clock - RateWindow)
  BY <1>1 DEF Since
<1>3. Cardinality(Since(passes, clock - RateWindow)') <= Cardinality(Since(passes, clock - RateWindow))
  <2>1. IsFiniteSet(Since(passes, clock - RateWindow))
    BY <1>1, PassesFinite DEF Since
  <2> QED BY <1>2, <2>1, FS_Subset
<1>4. Cardinality(Since(passes, clock - RateWindow)) \in Nat /\ Cardinality(Since(passes, clock - RateWindow)') \in Nat
  <2>1. Since(passes, clock - RateWindow) \subseteq DOMAIN passes /\ Since(passes, clock - RateWindow)' \subseteq DOMAIN passes
    BY <1>1 DEF Since
  <2> QED BY <2>1, <1>1, PassesFinite
<1>5. /\ WindowStart' = WindowStart /\ Since(passes, WindowStart)' = Since(passes, WindowStart)
      /\ Before(passes, WindowStart)' = Before(passes, WindowStart) /\ \A t \in Nat : PassesIn(t)' = PassesIn(t)
  BY <1>1 DEF WindowStart, Since, Before, PassesIn
<1>6. \A i \in DOMAIN passes' :
        /\ passes'[i] <= clock'
        /\ passes'[i] < (IF hits' = NoHits THEN clock' ELSE hits'.resetAt)
  BY <1>1 DEF WindowsBounded
<1>7. hits' # NoHits =>
       /\ WindowStart' \in 0..clock' /\ hits'.count > 0
       /\ Cardinality(Since(passes, WindowStart)') <= RateMax
       /\ Cardinality(Since(passes, WindowStart)') <= hits'.count
       /\ Cardinality(Before(passes, WindowStart)') <= RateMax
  BY <1>1, <1>5 DEF WindowsBounded
<1>8. hits' = NoHits => Cardinality(Since(passes, clock - RateWindow)') <= RateMax
  BY <1>1, <1>3, <1>4 DEF WindowsBounded
<1> QED BY <1>5, <1>6, <1>7, <1>8 DEF WindowsBounded

LEMMA PruneKeeps ==
  ASSUME WindowsBounded, AccountTypes, Prune
  PROVE  WindowsBounded'
<1> USE DEF Prune, MayPrune
<1>1. /\ clock \in Nat /\ clock' = clock /\ passes' = passes /\ hits' = NoHits /\ hits # NoHits
      /\ passes \in Seq(Nat) /\ \A i \in DOMAIN passes : passes[i] \in Nat
      /\ hits.resetAt \in Nat /\ RateWindow \in Nat /\ RateMax \in Nat
      /\ hits.resetAt <= clock
  BY AccountsAssumption DEF AccountTypes
<1>2. Since(passes, clock - RateWindow) \subseteq Since(passes, WindowStart)
  BY <1>1 DEF Since, WindowStart
<1>3. /\ IsFiniteSet(Since(passes, WindowStart)) /\ Cardinality(Since(passes, WindowStart)) \in Nat
      /\ Cardinality(Since(passes, clock - RateWindow)) \in Nat
  BY <1>1, PassesFinite DEF Since
<1>4. Cardinality(Since(passes, clock - RateWindow)) <= RateMax
  <2>1. Cardinality(Since(passes, clock - RateWindow)) <= Cardinality(Since(passes, WindowStart))
    BY <1>2, <1>3, FS_Subset
  <2> QED BY <2>1, <1>1, <1>3 DEF WindowsBounded
<1>5. /\ Since(passes, clock - RateWindow)' = Since(passes, clock - RateWindow)
      /\ \A t \in Nat : PassesIn(t)' = PassesIn(t)
  BY <1>1 DEF Since, PassesIn
<1>6. \A i \in DOMAIN passes : passes[i] <= clock /\ passes[i] < clock
  BY <1>1 DEF WindowsBounded
<1> QED BY <1>1, <1>4, <1>5, <1>6 DEF WindowsBounded

\* The first request of a window passes; the one before it is over, or was pruned.
LEMMA FreshKeeps ==
  ASSUME WindowsBounded, AccountTypes, passes' \in Seq(Nat), hits = NoHits \/ hits.resetAt <= clock,
         hits' = [count |-> 1, resetAt |-> clock + RateWindow],
         passes' = Append(passes, clock), clock' = clock
  PROVE  WindowsBounded'
<1>1. /\ clock \in Nat /\ passes \in Seq(Nat) /\ \A i \in DOMAIN passes : passes[i] \in Nat
      /\ hits.resetAt \in Nat /\ RateWindow \in Nat \ {0} /\ RateMax \in Nat \ {0}
      /\ passes' \in Seq(Nat)
  BY AccountsAssumption DEF AccountTypes
<1> DEFINE n == Len(passes) + 1
<1>2. /\ n \in Nat /\ n \notin DOMAIN passes /\ DOMAIN passes' = DOMAIN passes \cup {n}
      /\ passes'[n] = clock /\ \A i \in DOMAIN passes : passes'[i] = passes[i]
  BY <1>1, AppendProperties
<1>3. \A i \in DOMAIN passes : passes[i] < clock
  BY <1>1 DEF WindowsBounded
<1>4. hits' # NoHits /\ hits'.count = 1 /\ hits'.resetAt = clock + RateWindow /\ WindowStart' = clock
  BY <1>1 DEF NoHits, WindowStart
<1> HIDE DEF n
<1>5. Cardinality(Since(passes, WindowStart)') = 1
  <2>1. Since(passes, WindowStart)' = {n}
    BY <1>1, <1>2, <1>3, <1>4 DEF Since
  <2> QED BY <2>1, FS_Singleton
<1>6. Cardinality(Before(passes, WindowStart)') <= RateMax
  <2>1. Before(passes, WindowStart)' = Since(passes, clock - RateWindow)
    BY <1>1, <1>2, <1>3, <1>4 DEF Since, Before
  <2>2. CASE hits = NoHits
    BY <2>1, <2>2 DEF WindowsBounded
  <2>3. CASE hits # NoHits
    <3>1. Since(passes, clock - RateWindow) \subseteq Since(passes, WindowStart)
      BY <1>1, <2>3 DEF Since, WindowStart
    <3>2. IsFiniteSet(Since(passes, WindowStart)) /\ Cardinality(Since(passes, WindowStart)) \in Nat
      BY <1>1, PassesFinite DEF Since
    <3>3. Cardinality(Since(passes, clock - RateWindow)) \in Nat
      BY <1>1, PassesFinite DEF Since
    <3>4. Cardinality(Since(passes, clock - RateWindow)) <= Cardinality(Since(passes, WindowStart))
      BY <3>1, <3>2, FS_Subset
    <3> QED BY <2>1, <2>3, <3>2, <3>3, <3>4, <1>1 DEF WindowsBounded
  <2> QED BY <2>2, <2>3
<1>7. ASSUME NEW t \in Nat PROVE PassesIn(t)' <= 2 * RateMax
  <2>1. CASE t > clock - RateWindow
    <3>1. Since(passes', clock) = Since(passes, WindowStart)' /\ Before(passes', clock) = Before(passes, WindowStart)'
      BY <1>4 DEF Since, Before
    <3>2. Cardinality(Since(passes', clock)) <= RateMax /\ Cardinality(Before(passes', clock)) <= RateMax
      BY <3>1, <1>1, <1>5, <1>6
    <3> DEFINE now == clock
    <3>3. now \in Nat /\ t > now - RateWindow
      BY <2>1, <1>1
    <3>4. Cardinality(Since(passes', now)) <= RateMax /\ Cardinality(Before(passes', now)) <= RateMax
      BY <3>2
    <3> HIDE DEF now
    <3>5. now <= now
      BY <3>3
    <3>6. Cardinality(In(passes', t)) <= 2 * RateMax
      BY <3>3, <3>4, <3>5, <1>1, StretchBounded
    <3> QED BY <3>6 DEF PassesIn, In
  <2>2. CASE t <= clock - RateWindow
    <3>1. In(passes', t) = In(passes, t)
      BY <2>2, <1>1, <1>2 DEF In
    <3> QED BY <3>1 DEF PassesIn, In, WindowsBounded
  <2> QED BY <1>1, <2>1, <2>2
<1>8. \A i \in DOMAIN passes' : passes'[i] <= clock' /\ passes'[i] < hits'.resetAt
  BY <1>1, <1>2, <1>3, <1>4
<1> QED BY <1>1, <1>4, <1>5, <1>6, <1>7, <1>8 DEF WindowsBounded

\* Another request in the window passes while the count allows it.
LEMMA LaterKeeps ==
  ASSUME WindowsBounded, AccountTypes, passes' \in Seq(Nat), hits # NoHits, hits.resetAt > clock,
         hits' = [hits EXCEPT !.count = @ + 1], clock' = clock,
         \/ hits'.count <= RateMax /\ passes' = Append(passes, clock)
         \/ passes' = passes
  PROVE  WindowsBounded'
<1>1. /\ clock \in Nat /\ passes \in Seq(Nat) /\ \A i \in DOMAIN passes : passes[i] \in Nat
      /\ hits.resetAt \in Nat /\ hits.count \in Nat
      /\ RateWindow \in Nat \ {0} /\ RateMax \in Nat \ {0} /\ passes' \in Seq(Nat)
  BY AccountsAssumption DEF AccountTypes
<1>2. /\ hits'.resetAt = hits.resetAt /\ hits'.count = hits.count + 1 /\ hits' # NoHits
      /\ WindowStart' = WindowStart /\ WindowStart \in 0..clock /\ WindowStart > clock - RateWindow
  <2>1. hits'.resetAt = hits.resetAt /\ hits'.count = hits.count + 1
    BY DEF AccountTypes
  <2> QED BY <2>1, <1>1 DEF NoHits, WindowStart, WindowsBounded
<1> DEFINE s == WindowStart
<1>3. /\ Cardinality(Since(passes, s)) <= RateMax /\ Cardinality(Since(passes, s)) <= hits.count
      /\ Cardinality(Before(passes, s)) <= RateMax
  BY DEF WindowsBounded
<1>4. CASE passes' = passes
  <2>1. \A t \in Nat : PassesIn(t)' = PassesIn(t)
    BY <1>4 DEF PassesIn
  <2>2. Cardinality(Since(passes, s)) \in Nat
    BY <1>1, PassesFinite DEF Since
  <2>3. Cardinality(Since(passes, s)) <= hits'.count
    BY <1>1, <1>2, <1>3, <2>2
  <2> QED BY <1>1, <1>2, <1>3, <1>4, <2>1, <2>3 DEF WindowsBounded
<1>5. CASE hits'.count <= RateMax /\ passes' = Append(passes, clock)
  <2> DEFINE n == Len(passes) + 1
  <2>1. /\ n \in Nat /\ n \notin DOMAIN passes /\ DOMAIN passes' = DOMAIN passes \cup {n}
        /\ passes'[n] = clock /\ \A i \in DOMAIN passes : passes'[i] = passes[i]
    BY <1>1, <1>5, AppendProperties
  <2> HIDE DEF n
  <2>2. s \in Nat /\ s <= clock /\ s' = s
    BY <1>1, <1>2
  <2> HIDE DEF s
  <2>3. Since(passes', s) = Since(passes, s) \cup {n} /\ n \notin Since(passes, s)
    BY <2>1, <2>2, <1>1 DEF Since
  <2>4. /\ Cardinality(Since(passes', s)) = Cardinality(Since(passes, s)) + 1
        /\ Cardinality(Since(passes, s)) \in Nat
    <3>1. IsFiniteSet(Since(passes, s)) /\ Cardinality(Since(passes, s)) \in Nat
      BY <1>1, PassesFinite DEF Since
    <3> QED BY <2>3, <3>1, FS_AddElement
  <2>5. Cardinality(Since(passes', s)) <= hits'.count /\ Cardinality(Since(passes', s)) <= RateMax
    <3> DEFINE before == Cardinality(Since(passes, s))
               after == Cardinality(Since(passes', s))
               count == hits.count
               count2 == hits'.count
    <3>1. before \in Nat /\ after = before + 1 /\ before <= count
      BY <2>4, <1>3
    <3>2. count \in Nat /\ count2 = count + 1 /\ count2 <= RateMax /\ RateMax \in Nat
      BY <1>1, <1>2, <1>5
    <3> HIDE DEF before, after, count, count2
    <3>3. after <= count2 /\ after <= RateMax
      BY <3>1, <3>2
    <3> QED BY <3>3 DEF after, count2
  <2>6. Before(passes', s) = Before(passes, s)
    BY <2>1, <2>2, <1>1 DEF Before
  <2>7. ASSUME NEW t \in Nat PROVE PassesIn(t)' <= 2 * RateMax
    <3>1. CASE t > clock - RateWindow
      <4>1. Cardinality(In(passes', t)) <= 2 * RateMax
        BY <3>1, <2>2, <2>5, <2>6, <1>1, <1>3, StretchBounded
      <4> QED BY <4>1 DEF PassesIn, In
    <3>2. CASE t <= clock - RateWindow
      <4>1. PassesIn(t)' = PassesIn(t)
        <5>1. n \in DOMAIN passes' /\ clock \notin t..(t + RateWindow - 1)
          BY <3>2, <1>1, <2>1
        <5>2. n \notin In(passes', t)
          BY <2>1, <5>1 DEF In
        <5>3. In(passes', t) = In(passes, t)
          BY <2>1, <5>2 DEF In
        <5> QED BY <5>3 DEF PassesIn, In
      <4> QED BY <4>1 DEF WindowsBounded
    <3> QED BY <1>1, <3>1, <3>2
  <2>8. \A i \in DOMAIN passes' : passes'[i] <= clock' /\ passes'[i] < hits'.resetAt
    <3>1. \A i \in DOMAIN passes : passes[i] <= clock /\ passes[i] < hits.resetAt
      BY DEF WindowsBounded
    <3>2. passes'[n] <= clock /\ passes'[n] < hits.resetAt
      BY <1>1, <2>1
    <3> QED BY <1>2, <2>1, <3>1, <3>2
  <2>9. /\ Cardinality(Since(passes, WindowStart)') <= RateMax
        /\ Cardinality(Since(passes, WindowStart)') <= hits'.count
        /\ Cardinality(Before(passes, WindowStart)') <= RateMax
    <3>1. Since(passes, WindowStart)' = Since(passes', s) /\ Before(passes, WindowStart)' = Before(passes', s)
      BY <1>2 DEF s, Since, Before
    <3> QED BY <3>1, <2>5, <2>6, <1>3
  <2> QED BY <1>1, <1>2, <2>7, <2>8, <2>9 DEF WindowsBounded
<1> QED BY <1>4, <1>5

LEMMA CheckRateKeeps ==
  ASSUME CallsFit, AccountTypes, SessionsSound, WindowsBounded, NEW c \in 1..MaxCalls, CheckRate(c)
  PROVE  CallsFit' /\ AccountTypes' /\ SessionsSound' /\ WindowsBounded'
<1>1. UNCHANGED <<clock, accounts, sessions, jar, destroyed>> /\ calls[c].at = "limiter"
  BY DEF CheckRate
<1>2. /\ clock \in Nat /\ hits \in [count : Nat, resetAt : Nat] /\ passes \in Seq(Nat)
      /\ clock + RateWindow \in Nat
  BY AccountsAssumption DEF AccountTypes
<1>3. Append(passes, clock) \in Seq(Nat)
  BY <1>2, AppendProperties
<1>4. CASE hits = NoHits \/ hits.resetAt <= clock
  <2>1. /\ hits' = [count |-> 1, resetAt |-> clock + RateWindow]
        /\ passes' = Append(passes, clock) /\ At(c, "handler")
    BY <1>4 DEF CheckRate
  <2>2. WindowsBounded'
    BY <1>1, <1>3, <1>4, <2>1, FreshKeeps
  <2>3. hits' \in [count : Nat, resetAt : Nat]
    BY <1>2, <2>1
  <2>4. CallsFit'
    BY <1>1, <2>1, AtKeeps DEF CallStages
  <2> QED BY <1>1, <1>3, <2>1, <2>2, <2>3, <2>4 DEF AccountTypes, SessionsSound, Sids
<1>5. CASE ~(hits = NoHits \/ hits.resetAt <= clock)
  <2>1. /\ hits' = [hits EXCEPT !.count = @ + 1]
        /\ \/ hits'.count <= RateMax /\ passes' = Append(passes, clock) /\ At(c, "handler")
           \/ passes' = passes /\ Ends(c, HookCookie(c))
    BY <1>5 DEF CheckRate, WithinMax
  <2>2. hits # NoHits /\ hits.resetAt > clock
    BY <1>2, <1>5
  <2>3. hits' \in [count : Nat, resetAt : Nat] /\ passes' \in Seq(Nat)
    <3>1. [hits EXCEPT !.count = @ + 1] \in [count : Nat, resetAt : Nat]
      BY <1>2
    <3> QED BY <1>2, <1>3, <2>1, <3>1
  <2>4. WindowsBounded'
    BY <1>1, <2>1, <2>2, <2>3, LaterKeeps
  <2>5. CallsFit'
    BY <1>1, <2>1, AtKeeps, EndsKeeps, HookCookieFits DEF CallStages
  <2> QED BY <1>1, <2>3, <2>4, <2>5 DEF AccountTypes, SessionsSound, Sids
<1> QED BY <1>4, <1>5

AccountsInv == CallsFit /\ AccountTypes /\ SessionsSound /\ WindowsBounded

LEMMA InitAccountsInv == AccountsInit => AccountsInv
<1> SUFFICES ASSUME AccountsInit PROVE AccountsInv
  OBVIOUS
<1> USE DEF AccountsInit
<1>1. CallsFit
  <2>1. \A c \in 1..MaxCalls : calls[c].at = "free"
    BY DEF Open
  <2> QED BY <2>1 DEF CallsFit, CallFits, CallStages
<1>2. AccountTypes
  <2>1. passes \in Seq(Nat)
    BY EmptySeq
  <2>2. jar \in [sid : 0..MaxSessions, until : Nat] /\ hits \in [count : Nat, resetAt : Nat]
    BY AccountsAssumption DEF NoCookie, NoHits
  <2>3. sessions \in [Sids -> [user : Kinds \cup {"none"}, until : Nat]]
    BY DEF NoSession
  <2> QED BY <2>1, <2>2, <2>3 DEF AccountTypes
<1>3. SessionsSound
  BY DEF SessionsSound
<1>4. WindowsBounded
  <2>1. DOMAIN passes = {}
    OBVIOUS
  <2>2. Since(passes, clock - RateWindow) = {} /\ \A t \in Nat : In(passes, t) = {}
    BY <2>1 DEF Since, In
  <2>3. Cardinality({}) = 0
    BY FS_EmptySet
  <2>4. \A t \in Nat : PassesIn(t) = 0
    BY <2>2, <2>3 DEF PassesIn, In
  <2>5. RateMax \in Nat /\ 0 <= 2 * RateMax /\ hits = NoHits
    BY AccountsAssumption
  <2> HIDE DEF AccountsInit
  <2>6. Cardinality(Since(passes, clock - RateWindow)) <= RateMax
    BY <2>2, <2>3, <2>5
  <2>7. \A t \in Nat : PassesIn(t) <= 2 * RateMax
    BY <2>4, <2>5
  <2> QED BY <2>1, <2>5, <2>6, <2>7 DEF WindowsBounded
<1> QED BY <1>1, <1>2, <1>3, <1>4 DEF AccountsInv

LEMMA WindowsKept ==
  ASSUME WindowsBounded, UNCHANGED <<clock, limiter>>
  PROVE  WindowsBounded'
BY DEF WindowsBounded, limiter, WindowStart, Since, Before, PassesIn

LEMMA CallsKept ==
  ASSUME CallsFit, UNCHANGED <<calls, accounts>>
  PROVE  CallsFit'
BY DEF CallsFit, CallFits, Registered, CookieFits, Sids

LEMMA AccountsNextKeeps == AccountsInv /\ [AccountsNext]_accountVars => AccountsInv'
<1> SUFFICES ASSUME AccountsInv, [AccountsNext]_accountVars PROVE AccountsInv'
  OBVIOUS
<1> USE DEF AccountsInv
<1>1. CASE UNCHANGED accountVars
  BY <1>1, RowsKept, WindowsKept, CallsKept DEF accountVars, limiter
<1>2. CASE Tick
  <2>1. AccountTypes' /\ SessionsSound'
    BY <1>2 DEF Tick, AccountTypes, SessionsSound, Sids, limiter
  <2> QED BY <1>2, <2>1, ClockKeeps, CallsKept DEF Tick
<1>3. CASE Prune
  <2>1. NoHits \in [count : Nat, resetAt : Nat]
    BY DEF NoHits
  <2>2. AccountTypes' /\ SessionsSound'
    BY <1>3, <2>1 DEF Prune, AccountTypes, SessionsSound, Sids
  <2> QED BY <1>3, <2>2, PruneKeeps, CallsKept DEF Prune
<1>4. ASSUME NEW c \in 1..MaxCalls, CheckRate(c) PROVE AccountsInv'
  BY <1>4, CheckRateKeeps
<1>5. ASSUME NEW c \in 1..MaxCalls, CallStep(c) PROVE AccountsInv'
  <2>1. UNCHANGED <<clock, limiter>>
    BY <1>5 DEF CallStep, Send, FindSession, TouchSession, Visit, FindByEmail, HashPassword,
                CreateUser, VerifyPassword, DestroySession, LogoutAnonymous, CreateSession,
                Receive, limiter
  <2>2. CallsFit' /\ AccountTypes' /\ SessionsSound'
    BY <1>5, HookKeeps, ReadersKeep, CreateUserKeeps, SessionsKeep, ReceiveKeeps DEF CallStep
  <2> QED BY <2>1, <2>2, WindowsKept
<1> QED BY <1>1, <1>2, <1>3, <1>4, <1>5 DEF AccountsNext, CallStep

LEMMA AccountsInvImplies == AccountsInv => AccountsSound
<1> SUFFICES ASSUME AccountsInv PROVE AccountsSound
  OBVIOUS
<1>1. \A t \in 0..clock : PassesIn(t) <= 2 * RateMax
  BY DEF AccountsInv, WindowsBounded, AccountTypes
<1> QED BY <1>1 DEF AccountsInv, SessionsSound, AccountsSound

\* AccountsInv is inductive.
THEOREM AccountsInvariant == AccountsSpec => []AccountsInv
BY InitAccountsInv, AccountsNextKeeps, PTL DEF AccountsSpec

\* A destroyed session stays destroyed, an email has one account, and the limiter
\* lets at most twice its maximum through in any stretch of its window: packages/auth,
\* for any number of requests, sessions and emails, at any moment.
THEOREM AccountsAreSound == AccountsSpec => []AccountsSound
BY AccountsInvImplies, AccountsInvariant, PTL

-----------------------------------------------------------------------------
(* The stores together.                                                     *)

LEMMA ServicesStep ==
  ASSUME [ServicesNext]_serviceVars
  PROVE  [RecordsNext]_recordVars /\ [ArchiveNext]_archiveVars /\ [AccountsNext]_accountVars
BY DEF ServicesNext, serviceVars, NpcOnly, TableOnly, SimOnly, RecordsOnly, ArchiveOnly, AccountsOnly

\* What the database, the archive and the session store keep is sound, whichever of
\* the services runs.
THEOREM StoresAreSound == ServicesSpec => []StoresSound
<1>1. ServicesInit => RecordsInit /\ ArchiveInit /\ AccountsInit
  BY DEF ServicesInit
<1>2. ServicesSpec => RecordsSpec /\ ArchiveSpec /\ AccountsSpec
  BY <1>1, ServicesStep, PTL DEF ServicesSpec, RecordsSpec, ArchiveSpec, AccountsSpec
<1>3. RecordsSound /\ ArchiveSound /\ AccountsSound => StoresSound
  BY DEF StoresSound
<1> QED BY <1>2, <1>3, RecordsAreSound, ArchiveIsSound, AccountsAreSound, PTL

-----------------------------------------------------------------------------
(* A simulated match and its artifact.                                      *)

\* Whoever may be dealt in, and what he brings to the next hand: what his last one left
\* him, or what he bought.
Bots == 1 .. Len(job.request.buyIns)
Anyone == {Guest} \cup Bots
Brought(a) == IF a \in DealtIn THEN LeftWith(a) ELSE Bought(a)

\* A hand that was dealt: the stacks of its players.
HandOf(h) ==
  /\ h = [number |-> h.number, before |-> h.before] /\ h.number \in Nat
  /\ h.before \in [DOMAIN h.before -> Nat] /\ DOMAIN h.before \subseteq Anyone

JobStages == {"none", "seating", "playing", "saving", "saved", "failed"}
Requests == [maxSeats : Nat, hands : Nat, buyIns : Seq(Nat)]
Failures ==
  {"none", "storage", "trace_limit", "table_full", "hand_in_progress", "not_found"}
SimTypes ==
  /\ form \in Requests
  /\ job \in [stage : JobStages, by : {"page", "api", "schedule"}, request : Requests,
              seated : Nat, failure : Failures, answered : {job.answered}]
  /\ simTable \in [live : BOOLEAN, inHand : BOOLEAN, handNumber : Nat, leaving : BOOLEAN]
  /\ stacks \in [DOMAIN stacks -> Nat \ {0}] /\ DOMAIN stacks \subseteq Anyone
  /\ HandOf(simHand) /\ HandOf(ownHand.dealt)
  /\ ownHand = [stage |-> ownHand.stage, dealt |-> ownHand.dealt]
  /\ played \in Seq(Range(played)) /\ traceLog \in Seq(Range(traceLog))

\* A match that has begun fits the schema, the page's its form as well; one that failed
\* had a cause; and a scheduled one has its table for itself.
JobInv ==
  /\ job.stage # "none" => /\ Len(job.request.buyIns) >= 2
                           /\ \A i \in Bots : job.request.buyIns[i] > 0
  /\ job.stage # "none" /\ job.by = "page" => PageAccepts(job.request)
  /\ submission \in {"submitting", "done"} => job.stage # "none" /\ job.by = "page"
  /\ submission = "done" => job.stage = "saved"
  /\ job.stage # "failed" => job.failure = "none"
  /\ job.by = "schedule" => simTable.live /\ ownHand.stage = "none"
  /\ Excused

\* The bots sit down in their order, and a hand is under way if the table says so.
SeatingInv ==
  /\ job.stage \in {"none", "seating"} => simHand = NoHand /\ played = <<>>
  /\ job.stage = "none" => /\ stacks = <<>> /\ traceLog = <<>> /\ job.seated = 0
                           /\ ownHand.stage = "none"
  /\ job.stage = "seating" => /\ job.seated < Len(job.request.buyIns)
                              /\ DOMAIN stacks \ {Guest} \subseteq 1 .. job.seated
  /\ simTable.inHand => simHand # NoHand \/ ownHand.stage # "none"
  /\ simHand # NoHand => simHand.number # 0
  /\ ownHand.stage = "none" => ownHand.dealt = NoHand

\* The hands are numbered in their order, and divide what their players brought.
HandsInv ==
  /\ \A i \in DOMAIN played : LET h == played[i] IN
       /\ h.number \in Nat \ {0} /\ h.number <= simTable.handNumber
       /\ simHand # NoHand => h.number < simHand.number
       /\ DOMAIN h.before \subseteq Anyone
       /\ DOMAIN h.after = DOMAIN h.before /\ h.after \in [DOMAIN h.before -> Nat]
  /\ \A i, j \in DOMAIN played : i < j => played[i].number < played[j].number
  /\ simHand.number <= simTable.handNumber

\* Unless the owner dealt a hand, whoever sits there has what his last hand left him or
\* what he bought; who is not the guest and has left had nothing left; and the hands
\* were played with the chips that their players bought.
ChipsInv ==
  ownHand.stage = "none" =>
    /\ simHand # NoHand => simTable.inHand /\ simHand.before = stacks
    /\ \A a \in DOMAIN stacks : stacks[a] = Brought(a)
    /\ \A a \in DealtIn \ DOMAIN stacks : a = Guest \/ LeftWith(a) = 0
    /\ \A a \in DealtIn \cap DOMAIN stacks : a \in DOMAIN Last(played).before
    /\ SumOf([a \in DealtIn |-> LeftWith(a)]) = SumOf([a \in DealtIn |-> Bought(a)])

\* The log has the decisions of the hands that were played, and of the owner's.
TracesInv ==
  job.stage # "failed" => \A i \in DOMAIN traceLog : LET t == traceLog[i] IN
    /\ \/ \E j \in DOMAIN played : played[j].number = t.hand /\ t.agent \in DOMAIN played[j].before
       \/ ownHand.dealt.number = t.hand /\ t.agent \in DOMAIN ownHand.dealt.before
    /\ \E o \in Outcomes : t = Trace(t.hand, t.agent, o)

\* The artifact is made of what is there, when there is no hand left to play.
Told ==
  LET summary == MatchSummary(played)
  IN [hands    |-> summary.hands, finalStacks |-> summary.stacks, agentIds |-> summary.agentIds,
      analysis |-> Analysis(summary.agentIds, traceLog)]
AnswerInv ==
  /\ Len(played) < job.request.hands =>
       Cardinality({a \in DealtIn \ {Guest} : LeftWith(a) > 0}) <= 1
  /\ \A a \in DealtIn :
       IF a \in DOMAIN job.answered
       THEN a \in DOMAIN FinalStacks(played) /\ FinalStacks(played)[a] = job.answered[a]
       ELSE a = Guest \/ LeftWith(a) = 0
SavedInv ==
  /\ artifact = IF job.stage = "saved" THEN Told ELSE NoArtifact
  /\ job.stage \in {"saving", "saved"} /\ ownHand.stage = "none" => AnswerInv

SimInv ==
  SimTypes /\ JobInv /\ SeatingInv /\ HandsInv /\ ChipsInv /\ TracesInv /\ SavedInv

-----------------------------------------------------------------------------
(* Counting a log by agents.                                                *)

\* Counts of the places with each key add up to the places.
CountsBy(counts, key, P, A) ==
  /\ IsFiniteSet(P) /\ IsFiniteSet(A) /\ key \in [P -> A]
  /\ counts = [a \in A |-> Cardinality({i \in P : key[i] = a})]

LEMMA CountsAddUp ==
  ASSUME NEW P, NEW A, NEW key, NEW counts, CountsBy(counts, key, P, A)
  PROVE  SumOf(counts) = Cardinality(P)
<1> USE DEF CountsBy
<1> DEFINE F == [i \in P |-> [a \in A |-> IF key[i] = a THEN 1 ELSE 0]]
           G == [a \in A |-> [i \in P |-> IF key[i] = a THEN 1 ELSE 0]]
           rows == [i \in P |-> 1]
           Own(a) == {i \in P : key[i] = a}
<1>1. \A i \in P : SumOf(F[i]) = 1
  <2> SUFFICES ASSUME NEW i \in P PROVE SumOf(F[i]) = 1
    OBVIOUS
  <2> DEFINE f == [a \in A |-> IF key[i] = a THEN 1 ELSE 0]
  <2>1. F[i] = f /\ DOMAIN f = A /\ {key[i]} \in SUBSET A
    OBVIOUS
  <2>2. \A a \in DOMAIN f : f[a] = IF a \in {key[i]} THEN 1 ELSE 0
    OBVIOUS
  <2>3. Cardinality({key[i]}) = 1
    BY FS_Singleton
  <2> HIDE DEF f, F
  <2>4. SumOf(f) = Cardinality({key[i]}) * 1
    BY <2>1, <2>2, SumConstant
  <2> QED BY <2>1, <2>3, <2>4
<1>2. \A a \in A : SumOf(G[a]) = counts[a]
  <2> SUFFICES ASSUME NEW a \in A PROVE SumOf(G[a]) = counts[a]
    OBVIOUS
  <2> DEFINE f == [i \in P |-> IF key[i] = a THEN 1 ELSE 0]
             W == Own(a)
  <2>1. G[a] = f /\ DOMAIN f = P /\ W \in SUBSET P
    OBVIOUS
  <2>2. \A i \in DOMAIN f : f[i] = IF i \in W THEN 1 ELSE 0
    OBVIOUS
  <2>3. counts[a] = Cardinality(W)
    OBVIOUS
  <2>4. Cardinality(W) \in Nat
    BY <2>1, FS_Subset, FS_CardinalityType
  <2> HIDE DEF f, G, W
  <2>5. SumOf(f) = Cardinality(W) * 1
    BY <2>1, <2>2, SumConstant
  <2> QED BY <2>1, <2>3, <2>4, <2>5
<1>3. SumOf(rows) = Cardinality(P)
  <2>1. SumOf(rows) = Cardinality(P) * 1
    <3>1. IsFiniteSet(DOMAIN rows) /\ P \in SUBSET DOMAIN rows /\ \A i \in DOMAIN rows : rows[i] = IF i \in P THEN 1 ELSE 0
      OBVIOUS
    <3> HIDE DEF rows
    <3> QED BY <3>1, SumConstant
  <2>2. Cardinality(P) \in Nat
    BY FS_CardinalityType
  <2> QED BY <2>1, <2>2
<1>4. SumsTable(rows, counts, F, G, P, A)
  <2>1. SumsRows(rows, F, P, A)
    BY <1>1 DEF SumsRows
  <2>2. SumsRows(counts, G, A, P)
    BY <1>2 DEF SumsRows
  <2> QED BY <2>1, <2>2 DEF SumsTable
<1> HIDE DEF rows, F, G
<1> QED BY <1>3, <1>4, SumSwap

\* Two functions have the same values, each at its place.
Renames(f, e, m) ==
  /\ Summable(f) /\ Summable(e) /\ m \in [DOMAIN f -> DOMAIN e]
  /\ \A x, y \in DOMAIN f : m[x] = m[y] => x = y
  /\ \A z \in DOMAIN e : \E x \in DOMAIN f : m[x] = z
  /\ \A x \in DOMAIN f : f[x] = e[m[x]]

LEMMA SumRenamed ==
  ASSUME NEW f, NEW e, NEW m, Renames(f, e, m)
  PROVE  SumOf(f) = SumOf(e)
BY SumReindex DEF Renames

\* Sums over the summaries of some agents, one for each, are sums over the agents.
SumsUp(by, counts, x, k, A) ==
  /\ IsFiniteSet(A) /\ DOMAIN x = A
  /\ \A a \in A : x[a].agent = a /\ x[a].metrics[k] \in Nat
  /\ by = [y \in {x[a] : a \in A} |-> y.metrics[k]]
  /\ counts = [a \in A |-> x[a].metrics[k]]

LEMMA BySummaries ==
  ASSUME NEW A, NEW x, NEW k, NEW by, NEW counts, SumsUp(by, counts, x, k, A)
  PROVE  SumOf(by) = SumOf(counts)
<1> USE DEF SumsUp
<1> DEFINE S == {x[a] : a \in A}
           m == [a \in A |-> x[a]]
<1>1. IsFiniteSet(S)
  <2>1. m \in Surjection(A, S)
    BY DEF Surjection
  <2> HIDE DEF S, m
  <2> QED BY <2>1, FS_Surjection
<1>2. Summable(by) /\ Summable(counts) /\ DOMAIN counts = A /\ DOMAIN by = S
  BY <1>1 DEF Summable
<1>3. Renames(counts, by, m)
  BY <1>2 DEF Renames
<1> HIDE DEF m
<1> QED BY <1>3, SumRenamed

\* Hands that are numbered in the order of their play are sorted already.
Ascending(list) ==
  /\ \A i \in DOMAIN list : list[i].number \in Nat
  /\ \A i, j \in DOMAIN list : i < j => list[i].number < list[j].number

LEMMA SortedAlready ==
  ASSUME NEW T, NEW list \in Seq(T), Ascending(list)
  PROVE  Sorted(list) = list
<1> DEFINE Earlier(i) == {j \in DOMAIN list : list[j].number < list[i].number}
           n == Len(list)
<1>1. n \in Nat /\ DOMAIN list = 1 .. n /\ list = [k \in DOMAIN list |-> list[k]]
  OBVIOUS
<1>2. \A i \in DOMAIN list : Cardinality(Earlier(i)) = i - 1
  <2> SUFFICES ASSUME NEW i \in DOMAIN list PROVE Cardinality(Earlier(i)) = i - 1
    OBVIOUS
  <2>1. Earlier(i) = 1 .. (i - 1)
    <3>1. ASSUME NEW j \in DOMAIN list PROVE list[j].number < list[i].number <=> j < i
      <4>1. list[i].number \in Nat /\ list[j].number \in Nat /\ i \in Nat /\ j \in Nat
        BY <1>1 DEF Ascending
      <4>2. j < i => list[j].number < list[i].number
        BY DEF Ascending
      <4>3. i < j => list[i].number < list[j].number
        BY DEF Ascending
      <4> QED BY <4>1, <4>2, <4>3
    <3> QED BY <1>1, <3>1
  <2>2. i - 1 \in Nat
    BY <1>1
  <2> QED BY <2>1, <2>2, UpTo
<1> HIDE DEF n
<1>3. \A k \in DOMAIN list : (CHOOSE i \in DOMAIN list : Cardinality(Earlier(i)) = k - 1) = k
  <2> SUFFICES ASSUME NEW k \in DOMAIN list
               PROVE  (CHOOSE i \in DOMAIN list : Cardinality(Earlier(i)) = k - 1) = k
    OBVIOUS
  <2>1. \A i \in DOMAIN list : i \in Nat /\ Cardinality(Earlier(i)) = i - 1
    BY <1>1, <1>2
  <2> HIDE DEF Earlier
  <2>2. \A i \in DOMAIN list : Cardinality(Earlier(i)) = k - 1 <=> i = k
    BY <2>1
  <2> QED BY <2>2
<1>4. Sorted(list) = [k \in DOMAIN list |-> list[CHOOSE i \in DOMAIN list : Cardinality(Earlier(i)) = k - 1]]
  BY DEF Sorted
<1> HIDE DEF Earlier
<1> QED BY <1>1, <1>3, <1>4

\* The places of a log, by whose they are.
Own(ts, a) == {i \in DOMAIN ts : ts[i].agent = a}

\* What a log's analysis has to show: every decision counted once.
Counted(A, ts) ==
  LET analysis == Analysis(A, ts)
      sums(k) == SumOf([x \in analysis.agents |-> x.metrics[k]])
  IN /\ sums("decisions") = analysis.totals.decisions /\ analysis.totals.decisions = Len(ts)
     /\ sums("fallbacks") = analysis.totals.fallbacks
     /\ analysis.totals.fallbacks = analysis.totals.timeouts + analysis.totals.invalid
     /\ analysis.totals.fallbacks = Cardinality({i \in DOMAIN ts : ts[i].fallback})

\* The sum of the agents' counts of one kind of place is the count of those places.
AgentsSum(B, ts, k) == SumOf([y \in {AgentSummary(a, ts) : a \in B} |-> y.metrics[k]])
AgentsTell(B, ts, k, P) ==
  /\ IsFiniteSet(B) /\ P \subseteq DOMAIN ts
  /\ \A i \in DOMAIN ts : ts[i].agent \in B
  /\ \A a \in B : AgentSummary(a, ts).metrics[k] = Cardinality(Own(ts, a) \cap P)

LEMMA AgentsCount ==
  ASSUME NEW T, NEW ts \in Seq(T), NEW B, NEW P, NEW k, AgentsTell(B, ts, k, P)
  PROVE  AgentsSum(B, ts, k) = Cardinality(P)
<1> USE DEF AgentsTell
<1> DEFINE x == [a \in B |-> AgentSummary(a, ts)]
           by == [y \in {AgentSummary(a, ts) : a \in B} |-> y.metrics[k]]
           counts == [a \in B |-> x[a].metrics[k]]
           key == [i \in P |-> ts[i].agent]
<1>1. IsFiniteSet(P)
  <2>1. Len(ts) \in Nat /\ DOMAIN ts = 1 .. Len(ts)
    OBVIOUS
  <2>2. IsFiniteSet(1 .. Len(ts))
    BY <2>1, FS_Interval
  <2> QED BY <2>1, <2>2, FS_Subset
<1>2. DOMAIN x = B /\ \A a \in B : x[a] = AgentSummary(a, ts) /\ x[a].agent = a
  BY DEF AgentSummary
<1>3. \A a \in B : Own(ts, a) \cap P = {i \in P : key[i] = a}
  BY DEF Own
<1>4. \A a \in B : x[a].metrics[k] = Cardinality({i \in P : key[i] = a})
  BY <1>2, <1>3
<1>5. \A a \in B : x[a].metrics[k] \in Nat
  <2> SUFFICES ASSUME NEW a \in B PROVE x[a].metrics[k] \in Nat
    OBVIOUS
  <2> DEFINE Q == {i \in P : key[i] = a}
  <2>1. IsFiniteSet(Q)
    BY <1>1, FS_Subset
  <2>2. Cardinality(Q) \in Nat
    BY <2>1, FS_CardinalityType
  <2> QED BY <2>2, <1>4
<1>6. key \in [P -> B]
  OBVIOUS
<1>7. counts = [a \in B |-> Cardinality({i \in P : key[i] = a})]
  BY <1>4
<1>8. by = [y \in {x[a] : a \in B} |-> y.metrics[k]]
  <2>1. {x[a] : a \in B} = {AgentSummary(a, ts) : a \in B}
    BY <1>2
  <2> QED BY <2>1
<1>9. counts = [a \in B |-> x[a].metrics[k]]
  OBVIOUS
<1> HIDE DEF x, by, counts, key
<1>10. SumOf(counts) = Cardinality(P)
  <2>1. CountsBy(counts, key, P, B)
    BY <1>1, <1>6, <1>7 DEF CountsBy
  <2> QED BY <2>1, CountsAddUp
<1>11. SumOf(by) = SumOf(counts)
  <2>1. SumsUp(by, counts, x, k, B)
    BY <1>2, <1>5, <1>8, <1>9 DEF SumsUp
  <2> QED BY <2>1, BySummaries
<1>12. SumOf(by) = Cardinality(P)
  BY <1>10, <1>11
<1> QED BY <1>12 DEF by, AgentsSum

\* A log's analysis counts every decision once, in the totals and for its agent.
LEMMA CountedOnce ==
  ASSUME NEW T, NEW ts \in Seq(T), NEW A, IsFiniteSet(A),
         \A i \in DOMAIN ts : \E o \in Outcomes : ts[i] = Trace(ts[i].hand, ts[i].agent, o)
  PROVE  Counted(A, ts)
<1> DEFINE D == DOMAIN ts
           B == A \cup {ts[i].agent : i \in D}
           Late == {i \in D : ts[i].timedOut}
           Bad == {i \in D : ts[i].invalid}
           Fallen == {i \in D : ts[i].fallback}
           totals == Metrics(ts, D)
           summaries == {AgentSummary(a, ts) : a \in B}
<1>1. Len(ts) \in Nat /\ D = 1 .. Len(ts)
  OBVIOUS
<1>2. IsFiniteSet(D) /\ Cardinality(D) = Len(ts)
  <2>1. IsFiniteSet(1 .. Len(ts)) /\ Cardinality(1 .. Len(ts)) = IF 1 > Len(ts) THEN 0 ELSE Len(ts) - 1 + 1
    BY <1>1, FS_Interval
  <2> QED BY <2>1, <1>1
<1>3. IsFiniteSet(B)
  <2> DEFINE E == {ts[i].agent : i \in D}
             who == [i \in D |-> ts[i].agent]
  <2>1. who \in Surjection(D, E)
    BY DEF Surjection
  <2> HIDE DEF who, E, D
  <2>2. IsFiniteSet(E)
    BY <1>2, <2>1, FS_Surjection
  <2>3. IsFiniteSet(A \cup E)
    BY <2>2, FS_Union
  <2> QED BY <2>3 DEF E
<1>4. \A i \in D : /\ ts[i].fallback <=> ts[i].timedOut \/ ts[i].invalid
                   /\ ~(ts[i].timedOut /\ ts[i].invalid)
  <2> SUFFICES ASSUME NEW i \in D
               PROVE  /\ ts[i].fallback <=> ts[i].timedOut \/ ts[i].invalid
                      /\ ~(ts[i].timedOut /\ ts[i].invalid)
    OBVIOUS
  <2>1. PICK o \in Outcomes : ts[i] = Trace(ts[i].hand, ts[i].agent, o)
    OBVIOUS
  <2> DEFINE t == ts[i]
  <2>2. /\ t.timedOut = (o = "late") /\ t.invalid = (o = "invalid")
        /\ t.fallback = (o \in {"late", "invalid"})
    BY <2>1 DEF Trace
  <2> QED BY <2>2
<1>5. totals.decisions = Cardinality(D) /\ totals.timeouts = Cardinality(Late)
      /\ totals.invalid = Cardinality(Bad) /\ totals.fallbacks = Cardinality(Fallen)
  BY DEF Metrics
<1>6. Cardinality(Fallen) = Cardinality(Late) + Cardinality(Bad)
  <2>1. Fallen = Late \cup Bad /\ Late \cap Bad = {}
    BY <1>4
  <2>2. IsFiniteSet(Late) /\ IsFiniteSet(Bad)
    BY <1>2, FS_Subset
  <2> HIDE DEF Late, Bad, Fallen
  <2>3. Cardinality(Late \cup Bad) = Cardinality(Late) + Cardinality(Bad) - Cardinality(Late \cap Bad)
    BY <2>2, FS_Union
  <2>4. Cardinality({}) = 0 /\ Cardinality(Late) \in Nat /\ Cardinality(Bad) \in Nat
    BY <2>2, FS_EmptySet, FS_CardinalityType
  <2>5. Cardinality(Fallen) = Cardinality(Late) + Cardinality(Bad) - 0
    BY <2>1, <2>3, <2>4
  <2> QED BY <2>4, <2>5
<1>7. Analysis(A, ts).totals = totals /\ Analysis(A, ts).agents = summaries
  BY DEF Analysis
<1>8. \A a \in B : /\ AgentSummary(a, ts).metrics["decisions"] = Cardinality(Own(ts, a) \cap D)
                   /\ AgentSummary(a, ts).metrics["fallbacks"] = Cardinality(Own(ts, a) \cap Fallen)
  <2> SUFFICES ASSUME NEW a \in B
               PROVE  /\ AgentSummary(a, ts).metrics["decisions"] = Cardinality(Own(ts, a) \cap D)
                      /\ AgentSummary(a, ts).metrics["fallbacks"] = Cardinality(Own(ts, a) \cap Fallen)
    OBVIOUS
  <2>1. AgentSummary(a, ts).metrics = Metrics(ts, Own(ts, a))
    BY DEF AgentSummary, Own
  <2>2. /\ Own(ts, a) \cap D = Own(ts, a)
        /\ Own(ts, a) \cap Fallen = {i \in Own(ts, a) : ts[i].fallback}
    BY DEF Own
  <2>3. /\ Metrics(ts, Own(ts, a)).decisions = Cardinality(Own(ts, a))
        /\ Metrics(ts, Own(ts, a)).fallbacks = Cardinality({i \in Own(ts, a) : ts[i].fallback})
    BY DEF Metrics
  <2> QED BY <2>1, <2>2, <2>3
<1>9. D \in SUBSET DOMAIN ts /\ Fallen \in SUBSET DOMAIN ts /\ \A i \in DOMAIN ts : ts[i].agent \in B
  OBVIOUS
<1> HIDE DEF D, B, Fallen
<1>10. AgentsSum(B, ts, "decisions") = Cardinality(D)
  <2>1. AgentsTell(B, ts, "decisions", D)
    BY <1>3, <1>8, <1>9 DEF AgentsTell
  <2> QED BY <2>1, AgentsCount
<1>11. AgentsSum(B, ts, "fallbacks") = Cardinality(Fallen)
  <2>1. AgentsTell(B, ts, "fallbacks", Fallen)
    BY <1>3, <1>8, <1>9 DEF AgentsTell
  <2> QED BY <2>1, AgentsCount
<1> HIDE DEF totals
<1>12. /\ SumOf([x \in Analysis(A, ts).agents |-> x.metrics["decisions"]]) = Cardinality(D)
       /\ SumOf([x \in Analysis(A, ts).agents |-> x.metrics["fallbacks"]]) = Cardinality(Fallen)
  BY <1>7, <1>10, <1>11 DEF AgentsSum
<1> QED BY <1>2, <1>5, <1>6, <1>7, <1>12 DEF Counted, Fallen, D

-----------------------------------------------------------------------------
(* What was played.                                                         *)

\* What the types say of the sequences and functions, in a form of its own.
LEMMA SimShapes ==
  ASSUME SimTypes
  PROVE  /\ Len(played) \in Nat /\ DOMAIN played = 1 .. Len(played)
         /\ Len(job.request.buyIns) \in Nat /\ \A a \in Bots : job.request.buyIns[a] \in Nat
         /\ Guest \notin Bots /\ IsFiniteSet(Anyone)
         /\ IsFiniteSet(DOMAIN stacks) /\ IsFiniteSet(DOMAIN simHand.before)
         /\ IsFiniteSet(DOMAIN ownHand.dealt.before)
<1>1. played \in Seq(Range(played)) /\ job.request.buyIns \in Seq(Nat)
  BY DEF SimTypes, Requests
<1>2. Len(played) \in Nat /\ DOMAIN played = 1 .. Len(played)
  BY <1>1
<1>3. Len(job.request.buyIns) \in Nat /\ \A a \in Bots : job.request.buyIns[a] \in Nat
  BY <1>1 DEF Bots
<1>4. Guest \notin Bots
  BY <1>3 DEF Guest, Bots
<1>5. IsFiniteSet(Anyone)
  <2>1. IsFiniteSet(1 .. Len(job.request.buyIns))
    BY <1>3, UpTo
  <2>2. IsFiniteSet({Guest})
    BY FS_Singleton
  <2> QED BY <2>1, <2>2, FS_Union DEF Anyone, Bots
<1>6. /\ DOMAIN stacks \subseteq Anyone /\ DOMAIN simHand.before \subseteq Anyone
      /\ DOMAIN ownHand.dealt.before \subseteq Anyone
  BY DEF SimTypes, HandOf
<1>7. /\ IsFiniteSet(DOMAIN stacks) /\ IsFiniteSet(DOMAIN simHand.before)
      /\ IsFiniteSet(DOMAIN ownHand.dealt.before)
  BY <1>5, <1>6, FS_Subset
<1> QED BY <1>2, <1>3, <1>4, <1>5, <1>7

LEMMA DealtAreThese ==
  ASSUME SimTypes, HandsInv
  PROVE  DealtIn \subseteq Anyone /\ IsFiniteSet(DealtIn)
<1>1. DealtIn \subseteq Anyone
  BY DEF HandsInv, DealtIn
<1> QED BY <1>1, SimShapes, FS_Subset

\* The last hand of a player.
LEMMA LastHandIs ==
  ASSUME SimTypes, HandsInv, NEW a \in DealtIn
  PROVE  /\ LastHandOf(a) \in DOMAIN played /\ a \in DOMAIN played[LastHandOf(a)].before
         /\ \A i \in DOMAIN played : a \in DOMAIN played[i].before => i <= LastHandOf(a)
         /\ LeftWith(a) \in Nat
<1> DEFINE S == {i \in DOMAIN played : a \in DOMAIN played[i].before}
<1>1. S \subseteq Nat /\ S # {} /\ S \subseteq 1 .. Len(played)
  BY SimShapes DEF DealtIn
<1>2. IsFiniteSet(S)
  <2>1. IsFiniteSet(1 .. Len(played))
    BY SimShapes, UpTo
  <2> QED BY <1>1, <2>1, FS_Subset
<1>3. Max(S) \in S /\ \A i \in S : i <= Max(S)
  BY <1>1, <1>2, MaxOfNaturals
<1>4. LastHandOf(a) = Max(S)
  BY DEF LastHandOf
<1>5. /\ LastHandOf(a) \in DOMAIN played /\ a \in DOMAIN played[LastHandOf(a)].before
      /\ \A i \in DOMAIN played : a \in DOMAIN played[i].before => i <= LastHandOf(a)
  BY <1>3, <1>4
<1>6. LeftWith(a) \in Nat
  BY <1>5 DEF LeftWith, HandsInv
<1> QED BY <1>5, <1>6

LEMMA LastIsLatest ==
  ASSUME SimTypes, HandsInv, played # <<>>
  PROVE  /\ Last(played) = played[Len(played)] /\ Len(played) \in DOMAIN played
         /\ Last(played).after \in [DOMAIN Last(played).before -> Nat]
         /\ DOMAIN Last(played).before \subseteq DealtIn
         /\ \A a \in DOMAIN Last(played).before : LeftWith(a) = Last(played).after[a]
<1>1. Len(played) # 0
  BY DEF SimTypes
<1>2. Len(played) \in DOMAIN played
  BY <1>1, SimShapes
<1>3. Last(played) = played[Len(played)]
  BY DEF Last
<1>4. DOMAIN Last(played).before \subseteq DealtIn
  BY <1>2, <1>3 DEF DealtIn
<1>5. Last(played).after \in [DOMAIN Last(played).before -> Nat]
  BY <1>2, <1>3 DEF HandsInv
<1>6. ASSUME NEW a \in DOMAIN Last(played).before PROVE LeftWith(a) = Last(played).after[a]
  <2>1. LastHandOf(a) = Len(played)
    <3>1. LastHandOf(a) \in DOMAIN played /\ Len(played) <= LastHandOf(a)
      BY <1>2, <1>3, <1>4, LastHandIs
    <3> QED BY <3>1, SimShapes
  <2> QED BY <1>3, <2>1 DEF LeftWith
<1> QED BY <1>2, <1>3, <1>4, <1>5, <1>6

\* What was bought is at least a chip, once a match began.
LEMMA BoughtIsSome ==
  ASSUME SimTypes, JobInv, job.stage # "none"
  PROVE  \A a \in Anyone : Bought(a) \in Nat \ {0}
BY SimShapes DEF JobInv, Bought, Anyone

-----------------------------------------------------------------------------
(* The saved match.                                                         *)

LEMMA ArtifactTells ==
  ASSUME SimInv, job.stage = "saved"
  PROVE  /\ artifact.hands = [i \in DOMAIN played |-> played[i].number]
         /\ artifact.finalStacks = FinalStacks(played)
         /\ artifact.agentIds = DealtIn
         /\ artifact.analysis = Analysis(DealtIn, traceLog)
         /\ artifact # NoArtifact
<1>1. Sorted(played) = played
  <2>1. played \in Seq(Range(played)) /\ Ascending(played)
    BY DEF SimInv, SimTypes, HandsInv, Ascending
  <2> QED BY <2>1, SortedAlready
<1>2. /\ MatchSummary(played).hands = [i \in DOMAIN played |-> played[i].number]
      /\ MatchSummary(played).stacks = FinalStacks(played)
      /\ MatchSummary(played).agentIds = DealtIn
  BY <1>1 DEF MatchSummary, DealtIn
<1>3. artifact = Told
  BY DEF SimInv, SavedInv
<1>4. artifact # NoArtifact
  <2>1. "analysis" \in DOMAIN Told /\ "analysis" \notin DOMAIN NoArtifact
    BY DEF Told, NoArtifact
  <2> QED BY <1>3, <2>1
<1> QED BY <1>2, <1>3, <1>4 DEF Told

LEMMA HandsAreTold == ASSUME SimInv, job.stage = "saved" PROVE HandsTold
<1>1. /\ artifact.hands = [i \in DOMAIN played |-> played[i].number]
      /\ artifact.agentIds = DealtIn
  BY ArtifactTells
<1>2. \A i, j \in DOMAIN played : i < j => played[i].number < played[j].number
  BY DEF SimInv, HandsInv
<1> QED BY <1>1, <1>2 DEF HandsTold

LEMMA DecisionsAreTold == ASSUME SimInv, job.stage = "saved" PROVE DecisionsTold
<1>1. artifact.analysis = Analysis(DealtIn, traceLog)
  BY ArtifactTells
<1>2. Counted(DealtIn, traceLog)
  <2>1. traceLog \in Seq(Range(traceLog)) /\ IsFiniteSet(DealtIn)
    BY DealtAreThese DEF SimInv, SimTypes
  <2>2. \A i \in DOMAIN traceLog : \E o \in Outcomes : traceLog[i] = Trace(traceLog[i].hand, traceLog[i].agent, o)
    BY DEF SimInv, TracesInv
  <2> QED BY <2>1, <2>2, CountedOnce
<1>3. ASSUME NEW x \in Analysis(DealtIn, traceLog).agents, NEW h \in x.hands
      PROVE  \/ \E i \in DOMAIN played : played[i].number = h /\ x.agent \in DOMAIN played[i].before
             \/ ownHand.dealt.number = h /\ x.agent \in DOMAIN ownHand.dealt.before
  <2>1. PICK a : x = AgentSummary(a, traceLog)
    BY DEF Analysis
  <2>2. PICK i \in DOMAIN traceLog : traceLog[i].agent = a /\ h = traceLog[i].hand
    BY <2>1 DEF AgentSummary
  <2>3. x.agent = a
    BY <2>1 DEF AgentSummary
  <2> QED BY <2>2, <2>3 DEF SimInv, TracesInv
<1> HIDE DEF SimInv
<1> QED BY <1>1, <1>2, <1>3 DEF DecisionsTold, Counted

\* The chips are in the last hand's stacks, or left with whoever was not in it.
LEMMA ChipsAreTold ==
  ASSUME SimInv, ownHand.stage = "none"
  PROVE  LET final == FinalStacks(played)
         IN SumOf(final) + SumOf([a \in DealtIn \ DOMAIN final |-> LeftWith(a)])
              = SumOf([a \in DealtIn |-> Bought(a)])
<1> DEFINE final == FinalStacks(played)
           all == [a \in DealtIn |-> LeftWith(a)]
<1>1. SimTypes /\ HandsInv /\ SumOf(all) = SumOf([a \in DealtIn |-> Bought(a)])
  BY DEF SimInv, ChipsInv
<1>2. Summable(all) /\ DOMAIN all = DealtIn
  BY <1>1, DealtAreThese, LastHandIs DEF Summable
<1>3. final = [a \in DOMAIN final |-> all[a]] /\ DOMAIN final \subseteq DealtIn
  <2>1. CASE played = <<>>
    BY <2>1 DEF FinalStacks
  <2>2. CASE played # <<>>
    BY <1>1, <2>2, LastIsLatest DEF FinalStacks
  <2> QED BY <2>1, <2>2
<1>4. /\ Restrict(all, DOMAIN final) = final
      /\ Restrict(all, DealtIn \ DOMAIN final) = [a \in DealtIn \ DOMAIN final |-> LeftWith(a)]
  <2> HIDE DEF final
  <2> QED BY <1>2, <1>3 DEF Restrict
<1>5. DOMAIN final \in SUBSET DOMAIN all
  BY <1>2, <1>3
<1> HIDE DEF final, all
<1>6. SumOf(all) = SumOf(Restrict(all, DOMAIN final)) + SumOf(Restrict(all, DOMAIN all \ DOMAIN final))
  BY <1>2, <1>5, SumSplit
<1> QED BY <1>1, <1>2, <1>4, <1>6 DEF final

LEMMA StacksAreTold ==
  ASSUME SimInv, job.stage = "saved", ownHand.stage = "none" PROVE StacksTold
<1>1. artifact.finalStacks = FinalStacks(played)
  BY ArtifactTells
<1>2. AnswerInv
  BY DEF SimInv, SavedInv
<1> QED BY <1>1, <1>2, ChipsAreTold DEF StacksTold, AnswerInv

LEMMA SimSound == SimInv => SimulationSound
<1> SUFFICES ASSUME SimInv PROVE SimulationSound
  OBVIOUS
<1>1. artifact # NoArtifact => job.stage = "saved"
  BY DEF SimInv, SavedInv
<1>2. job.stage = "saved" => artifact # NoArtifact
  BY ArtifactTells
<1>3. submission = "done" => artifact # NoArtifact /\ PageAccepts(job.request)
  BY <1>2 DEF SimInv, JobInv
<1>4. Excused
  BY DEF SimInv, JobInv
<1>5. job.stage = "saved" => HandsTold /\ DecisionsTold /\ (ownHand.stage = "none" => StacksTold)
  BY HandsAreTold, DecisionsAreTold, StacksAreTold
<1> QED BY <1>1, <1>3, <1>4, <1>5 DEF SimulationSound

-----------------------------------------------------------------------------
(* What stays true of what stays as it is.                                  *)

\* The hands that were played say the same as long as nobody plays another.
LEMMA PlayedStays ==
  ASSUME played' = played, job'.request = job.request
  PROVE  /\ Bots' = Bots /\ Anyone' = Anyone /\ DealtIn' = DealtIn
         /\ \A a : /\ Bought(a)' = Bought(a) /\ LastHandOf(a)' = LastHandOf(a)
                   /\ LeftWith(a)' = LeftWith(a) /\ Brought(a)' = Brought(a)
         /\ FinalStacks(played)' = FinalStacks(played)
         /\ PageAccepts(job.request)' = PageAccepts(job.request)
<1>1. Bots' = Bots /\ DealtIn' = DealtIn /\ \A a : Bought(a)' = Bought(a) /\ LastHandOf(a)' = LastHandOf(a)
  BY DEF Bots, DealtIn, Bought, LastHandOf
<1>2. \A a : LeftWith(a)' = LeftWith(a)
  BY <1>1 DEF LeftWith
<1>3. \A a : Brought(a)' = Brought(a)
  BY <1>1, <1>2 DEF Brought
<1> QED BY <1>1, <1>2, <1>3 DEF Anyone, FinalStacks, PageAccepts

LEMMA HandsStay ==
  ASSUME SimTypes, HandsInv, UNCHANGED <<played, simHand>>, job'.request = job.request,
         simTable'.handNumber \in Nat, simTable.handNumber <= simTable'.handNumber
  PROVE  HandsInv'
<1>1. Anyone' = Anyone
  BY PlayedStays
<1>2. simTable.handNumber \in Nat /\ simHand.number \in Nat
  BY DEF SimTypes, HandOf
<1>3. \A i \in DOMAIN played : played[i].number <= simTable'.handNumber
  <2>1. \A i \in DOMAIN played : played[i].number \in Nat /\ played[i].number <= simTable.handNumber
    BY DEF HandsInv
  <2> QED BY <1>2, <2>1
<1>4. simHand.number <= simTable'.handNumber
  BY <1>2 DEF HandsInv
<1> QED BY <1>1, <1>3, <1>4 DEF HandsInv

LEMMA TracesStay ==
  ASSUME TracesInv, UNCHANGED <<played, traceLog>>, ownHand'.dealt = ownHand.dealt,
         job'.stage # "failed" => job.stage # "failed"
  PROVE  TracesInv'
BY DEF TracesInv

LEMMA SavedStays ==
  ASSUME SavedInv, UNCHANGED <<played, artifact>>, job' = job,
         job.stage = "saved" => traceLog' = traceLog,
         ownHand'.stage = "none" => ownHand.stage = "none"
  PROVE  SavedInv'
<1>1. AnswerInv' = AnswerInv
  <2>1. /\ DealtIn' = DealtIn /\ \A a : LeftWith(a)' = LeftWith(a)
        /\ FinalStacks(played)' = FinalStacks(played)
    BY PlayedStays
  <2>2. {a \in DealtIn \ {Guest} : LeftWith(a) > 0}' = {a \in DealtIn \ {Guest} : LeftWith(a) > 0}
    BY <2>1
  <2> QED BY <2>1, <2>2 DEF AnswerInv
<1>2. job.stage = "saved" => Told' = Told
  BY DEF Told
<1> QED BY <1>1, <1>2 DEF SavedInv

\* What the invariant says of the table and of what was played at it.
AtTheTable == SeatingInv /\ HandsInv /\ ChipsInv /\ TracesInv /\ SavedInv

LEMMA TableStays ==
  ASSUME SimInv, UNCHANGED <<job, seating, played, traceLog, artifact>>
  PROVE  AtTheTable' /\ Excused' = Excused
<1>1. UNCHANGED <<job, stacks, simTable, simHand, ownHand, played, traceLog, artifact>>
  BY DEF seating
<1>2. SeatingInv'
  BY <1>1 DEF SimInv, SeatingInv
<1>3. HandsInv'
  BY <1>1, HandsStay DEF SimInv, SimTypes
<1>4. ChipsInv'
  BY <1>1, PlayedStays DEF SimInv, ChipsInv
<1>5. TracesInv' /\ SavedInv'
  BY <1>1, TracesStay, SavedStays DEF SimInv
<1>6. Excused' = Excused
  BY <1>1 DEF Excused
<1> QED BY <1>2, <1>3, <1>4, <1>5, <1>6 DEF AtTheTable

LEMMA TypesStay ==
  ASSUME SimTypes, UNCHANGED <<job, seating, played, traceLog>>, form' \in Requests
  PROVE  SimTypes'
<1>1. UNCHANGED <<job, stacks, simTable, simHand, ownHand, played, traceLog>>
  BY DEF seating
<1>2. Anyone' = Anyone
  BY <1>1, PlayedStays
<1> QED BY <1>1, <1>2 DEF SimTypes, HandOf

\* Nothing was dealt yet.
Pristine ==
  /\ stacks = <<>> /\ simHand = NoHand /\ ownHand = [stage |-> "none", dealt |-> NoHand]
  /\ played = <<>> /\ traceLog = <<>>
  /\ simTable \in [live : BOOLEAN, inHand : BOOLEAN, handNumber : Nat, leaving : BOOLEAN]

LEMMA PristineFits ==
  Pristine => /\ HandsInv /\ ChipsInv /\ TracesInv /\ HandOf(NoHand)
              /\ stacks \in [DOMAIN stacks -> Nat \ {0}] /\ DOMAIN stacks = {}
              /\ played \in Seq(Range(played)) /\ traceLog \in Seq(Range(traceLog))
<1> SUFFICES ASSUME Pristine
             PROVE  /\ HandsInv /\ ChipsInv /\ TracesInv /\ HandOf(NoHand)
                    /\ stacks \in [DOMAIN stacks -> Nat \ {0}] /\ DOMAIN stacks = {}
                    /\ played \in Seq(Range(played)) /\ traceLog \in Seq(Range(traceLog))
  OBVIOUS
<1> USE DEF Pristine
<1>1. DealtIn = {} /\ DOMAIN played = {} /\ DOMAIN traceLog = {} /\ DOMAIN stacks = {}
  BY DEF DealtIn
<1>2. HandsInv
  BY <1>1 DEF HandsInv, NoHand
<1>3. ChipsInv
  <2>1. [a \in DealtIn |-> LeftWith(a)] = [a \in DealtIn |-> Bought(a)]
    BY <1>1
  <2> QED BY <1>1, <2>1 DEF ChipsInv
<1>4. TracesInv
  BY <1>1 DEF TracesInv
<1>5. HandOf(NoHand)
  BY DEF HandOf, NoHand
<1> QED BY <1>1, <1>2, <1>3, <1>4, <1>5

LEMMA InitSimInv == SimInit => SimInv
<1> SUFFICES ASSUME SimInit PROVE SimInv
  OBVIOUS
<1> USE DEF SimInit
<1>1. PICK by \in {"page", "api", "schedule"} :
        job = [stage |-> "none", by |-> by, request |-> form, seated |-> 0,
               failure |-> "none", answered |-> <<>>]
  OBVIOUS
<1>2. form \in Requests
  <2>1. Max(Buys) \in Nat /\ MaxTableSeats \in Nat /\ MaxSimHands \in Nat
    BY SimulationAssumption
  <2> HIDE DEF SimInit
  <2>2. form = [maxSeats |-> MaxTableSeats, hands |-> MaxSimHands, buyIns |-> <<Max(Buys), Max(Buys)>>]
    BY DEF SimInit
  <2> QED BY <2>1, <2>2 DEF Requests
<1>3. Pristine
  BY DEF Pristine
<1>4. job \in [stage : JobStages, by : {"page", "api", "schedule"}, request : Requests,
               seated : Nat, failure : Failures, answered : {job.answered}]
  BY <1>1, <1>2 DEF JobStages, Failures
<1> HIDE DEF SimInit
<1>5. SimTypes
  BY <1>2, <1>3, <1>4, PristineFits DEF SimTypes, Pristine
<1>6. JobInv
  BY <1>1 DEF JobInv, Excused, SimInit
<1>7. SeatingInv
  BY <1>1 DEF SeatingInv, SimInit
<1>8. SavedInv
  BY <1>1 DEF SavedInv, SimInit
<1> QED BY <1>3, <1>5, <1>6, <1>7, <1>8, PristineFits DEF SimInv

-----------------------------------------------------------------------------
(* Before the hands.                                                        *)

LEMMA EditedStep ==
  ASSUME SimInv, NEW f \in Requests, Edited(f)
  PROVE  SimInv'
<1>1. form' = f /\ job.stage = "none" /\ UNCHANGED <<submission, job, seating, played, traceLog, artifact>>
  BY DEF Edited
<1>2. AtTheTable' /\ Excused' = Excused
  BY <1>1, TableStays
<1>3. SimTypes'
  BY <1>1, TypesStay DEF SimInv
<1>4. JobInv'
  BY <1>1, <1>2, PlayedStays DEF SimInv, JobInv, seating
<1> QED BY <1>2, <1>3, <1>4 DEF SimInv, AtTheTable

LEMMA FormStep ==
  ASSUME SimInv, UpdateField \/ UpdateAgent \/ AddAgent \/ RemoveFormAgent
  PROVE  SimInv'
<1>1. form \in Requests
  BY DEF SimInv, SimTypes
<1>2. Buys \subseteq Nat /\ Max(Buys) \in Nat /\ MaxTableSeats \in Nat /\ MaxSimHands \in Nat
  BY SimulationAssumption
<1>3. CASE UpdateField
  <2>1. \A m \in 1 .. MaxTableSeats + 1 : [form EXCEPT !.maxSeats = m] \in Requests
    BY <1>1, <1>2 DEF Requests
  <2>2. \A n \in 0 .. MaxSimHands + 1 : [form EXCEPT !.hands = n] \in Requests
    BY <1>1, <1>2 DEF Requests
  <2>3. CASE \E m \in 1 .. MaxTableSeats + 1 : Edited([form EXCEPT !.maxSeats = m])
    BY <2>1, <2>3, EditedStep
  <2>4. CASE \E n \in 0 .. MaxSimHands + 1 : Edited([form EXCEPT !.hands = n])
    BY <2>2, <2>4, EditedStep
  <2> QED BY <1>3, <2>3, <2>4 DEF UpdateField
<1>4. CASE UpdateAgent
  <2>1. PICK i \in DOMAIN form.buyIns : \E b \in Buys : Edited([form EXCEPT !.buyIns[i] = b])
    BY <1>4 DEF UpdateAgent
  <2>2. PICK b \in Buys : Edited([form EXCEPT !.buyIns[i] = b])
    BY <2>1
  <2>3. [form EXCEPT !.buyIns[i] = b] \in Requests
    <3>1. form.buyIns \in Seq(Nat) /\ b \in Nat
      BY <1>1, <1>2 DEF Requests
    <3>2. [form.buyIns EXCEPT ![i] = b] \in Seq(Nat)
      BY <3>1
    <3> QED BY <1>1, <3>2 DEF Requests
  <2> QED BY <2>2, <2>3, EditedStep
<1>5. CASE AddAgent
  <2>1. Edited([form EXCEPT !.buyIns = Append(@, Max(Buys))])
    BY <1>5 DEF AddAgent
  <2>2. [form EXCEPT !.buyIns = Append(@, Max(Buys))] \in Requests
    <3>1. form.buyIns \in Seq(Nat)
      BY <1>1 DEF Requests
    <3>2. Append(form.buyIns, Max(Buys)) \in Seq(Nat)
      BY <1>2, <3>1
    <3> QED BY <1>1, <3>2 DEF Requests
  <2> QED BY <2>1, <2>2, EditedStep
<1>6. CASE RemoveFormAgent
  <2>1. PICK i \in DOMAIN form.buyIns : Edited([form EXCEPT !.buyIns = RemoveAt(@, i)])
    BY <1>6 DEF RemoveFormAgent
  <2> DEFINE s == form.buyIns
  <2>2. s \in Seq(Nat) /\ i \in 1 .. Len(s) /\ Len(s) \in Nat
    BY <1>1 DEF Requests
  <2>3. RemoveAt(s, i) \in Seq(Nat)
    <3> HIDE DEF s
    <3>1. SubSeq(s, 1, i - 1) \in Seq(Nat) /\ SubSeq(s, i + 1, Len(s)) \in Seq(Nat)
      BY <2>2
    <3> QED BY <3>1 DEF RemoveAt
  <2>4. [form EXCEPT !.buyIns = RemoveAt(@, i)] \in Requests
    BY <1>1, <2>3 DEF Requests
  <2> QED BY <2>1, <2>4, EditedStep
<1> QED BY <1>3, <1>4, <1>5, <1>6

LEMMA AnsweredStep == ASSUME SimInv, Answered PROVE SimInv'
<1>1. /\ submission = "submitting" /\ UNCHANGED <<form, job, seating, played, traceLog, artifact>>
      /\ submission' \in {"done", "error"} /\ (submission' = "done" => job.stage = "saved")
  BY DEF Answered
<1>2. AtTheTable' /\ Excused' = Excused
  BY <1>1, TableStays
<1>3. SimTypes'
  <2>1. form' \in Requests
    BY <1>1 DEF SimInv, SimTypes
  <2> QED BY <1>1, <2>1, TypesStay DEF SimInv
<1>4. JobInv'
  BY <1>1, <1>2, PlayedStays DEF SimInv, JobInv, seating
<1> QED BY <1>2, <1>3, <1>4 DEF SimInv, AtTheTable

\* The table of a match is made, for a request that fits.
LEMMA CreatedStep ==
  ASSUME SimInv, NEW by \in {"page", "api", "schedule"},
         NEW r \in Requests, Created(by, r),
         Len(r.buyIns) >= 2, \A i \in DOMAIN r.buyIns : r.buyIns[i] > 0,
         by = "page" => PageAccepts(r), UNCHANGED form,
         submission' \in {"submitting", "done"} => by = "page" /\ submission' = "submitting"
  PROVE  SimInv'
<1>1. /\ job.stage = "none" /\ job.by = by
      /\ job' = [job EXCEPT !.stage = "seating", !.request = r]
      /\ UNCHANGED <<seating, played, traceLog, artifact>>
  BY DEF Created
<1>2. job \in [stage : JobStages, by : {"page", "api", "schedule"}, request : Requests,
               seated : Nat, failure : Failures, answered : {job.answered}]
  BY DEF SimInv, SimTypes
<1>3. /\ job'.stage = "seating" /\ job'.request = r /\ job'.by = by
      /\ job'.failure = job.failure /\ job'.seated = job.seated /\ job'.answered = job.answered
      /\ job' \in [stage : JobStages, by : {"page", "api", "schedule"}, request : Requests,
                   seated : Nat, failure : Failures, answered : {job'.answered}]
  BY <1>1, <1>2 DEF JobStages
<1>4. job.failure = "none"
  BY <1>1 DEF SimInv, JobInv
<1>5. Pristine /\ artifact = NoArtifact
  <2>1. ownHand = [stage |-> "none", dealt |-> NoHand]
    <3>1. ownHand.stage = "none" /\ ownHand.dealt = NoHand
      BY <1>1 DEF SimInv, SeatingInv
    <3> QED BY <3>1 DEF SimInv, SimTypes
  <2> QED BY <1>1, <2>1 DEF SimInv, SimTypes, SeatingInv, SavedInv, Pristine
<1>6. Pristine'
  BY <1>1, <1>5 DEF Pristine, seating
<1>7. /\ HandsInv' /\ ChipsInv' /\ TracesInv' /\ HandOf(NoHand)'
      /\ stacks' \in [DOMAIN stacks' -> Nat \ {0}] /\ DOMAIN stacks' = {}
      /\ played' \in Seq(Range(played')) /\ traceLog' \in Seq(Range(traceLog'))
  <2>1. Pristine' => (/\ HandsInv /\ ChipsInv /\ TracesInv /\ HandOf(NoHand)
                      /\ stacks \in [DOMAIN stacks -> Nat \ {0}] /\ DOMAIN stacks = {}
                      /\ played \in Seq(Range(played)) /\ traceLog \in Seq(Range(traceLog)))'
    BY PristineFits, PTL
  <2> QED BY <1>6, <2>1
<1>8. SimTypes'
  <2>1. HandOf(simHand)' /\ HandOf(ownHand.dealt)'
    BY <1>6, <1>7 DEF Pristine, NoHand, HandOf
  <2>2. form' \in Requests
    BY DEF SimInv, SimTypes
  <2> QED BY <1>3, <1>6, <1>7, <2>1, <2>2 DEF SimTypes, Pristine
<1>9. JobInv'
  <2>1. DOMAIN r.buyIns = 1 .. Len(r.buyIns)
    BY DEF Requests
  <2>2. PageAccepts(job'.request) = PageAccepts(r)
    BY <1>3
  <2>3. by = "schedule" => simTable'.live /\ ownHand'.stage = "none"
    BY <1>1 DEF SimInv, JobInv, seating
  <2>4. Excused'
    BY <1>3, <1>4 DEF Excused
  <2> QED BY <1>3, <1>4, <2>1, <2>2, <2>3, <2>4 DEF JobInv, Bots, PageAccepts
<1>10. SeatingInv'
  <2>1. ~simTable.inHand
    BY <1>5 DEF SimInv, SeatingInv, Pristine
  <2>2. job.seated = 0
    BY <1>1 DEF SimInv, SeatingInv
  <2> QED BY <1>1, <1>3, <1>6, <1>7, <2>1, <2>2 DEF SeatingInv, Pristine, seating
<1>11. SavedInv'
  BY <1>1, <1>3, <1>5 DEF SavedInv
<1> QED BY <1>7, <1>8, <1>9, <1>10, <1>11 DEF SimInv

LEMMA SubmittedStep == ASSUME SimInv, Submitted PROVE SimInv'
<1>1. form \in Requests
  BY DEF SimInv, SimTypes
<1>2. CASE ~PageAccepts(form)
  <2>1. submission' = "error" /\ UNCHANGED <<form, job, seating, played, traceLog, artifact>>
    BY <1>2 DEF Submitted
  <2>2. AtTheTable' /\ Excused' = Excused
    BY <2>1, TableStays
  <2>3. SimTypes'
    BY <1>1, <2>1, TypesStay DEF SimInv
  <2>4. JobInv'
    BY <2>1, <2>2, PlayedStays DEF SimInv, JobInv, seating
  <2> QED BY <2>2, <2>3, <2>4 DEF SimInv, AtTheTable
<1>3. CASE PageAccepts(form)
  <2>1. SchemaAccepts(form)
    BY <1>1, <1>3 DEF PageAccepts, SchemaAccepts, Requests
  <2>2. Len(form.buyIns) >= 2 /\ \A i \in DOMAIN form.buyIns : form.buyIns[i] > 0
    BY <1>1, <1>3 DEF PageAccepts, ToSet, Requests
  <2>3. Created("page", form) /\ submission' = "submitting" /\ UNCHANGED form
    BY <1>3, <2>1 DEF Submitted
  <2> QED BY <1>1, <1>3, <2>2, <2>3, CreatedStep
<1> QED BY <1>2, <1>3

LEMMA PostedStep == ASSUME SimInv, Posted PROVE SimInv'
<1>1. PICK m \in 2 .. MaxTableSeats, n \in 1 .. MaxTableSeats + 1, b \in Buys, h \in 1 .. MaxSimHands :
        LET r == [maxSeats |-> m, buyIns |-> [i \in 1 .. n |-> b], hands |-> h]
        IN SchemaAccepts(r) /\ Created("api", r)
  BY DEF Posted
<1> DEFINE r == [maxSeats |-> m, buyIns |-> [i \in 1 .. n |-> b], hands |-> h]
<1>2. m \in Nat /\ n \in Nat /\ b \in Nat /\ h \in Nat /\ h >= 1
  BY SimulationAssumption
<1>3. r.buyIns \in Seq(Nat) /\ Len(r.buyIns) = n /\ DOMAIN r.buyIns = 1 .. n /\ r.hands = h
  BY <1>2
<1>4. r \in Requests
  BY <1>2, <1>3 DEF Requests
<1>5. Len(r.buyIns) >= 2 /\ \A i \in DOMAIN r.buyIns : r.buyIns[i] > 0
  <2>1. Len(r.buyIns) >= 2 /\ 0 \notin ToSet(r.buyIns)
    BY <1>1 DEF SchemaAccepts
  <2> HIDE DEF r
  <2>2. \A i \in DOMAIN r.buyIns : r.buyIns[i] # 0 /\ r.buyIns[i] \in Nat
    BY <1>3, <2>1 DEF ToSet
  <2> QED BY <2>1, <2>2
<1>6. submission' = submission /\ UNCHANGED form
  BY DEF Posted
<1>7. job.stage = "none" /\ job.by = "api"
  BY <1>1 DEF Created
<1>8. submission \notin {"submitting", "done"}
  BY <1>7 DEF SimInv, JobInv
<1>9. Created("api", r)
  BY <1>1
<1> HIDE DEF r
<1> QED BY <1>2, <1>3, <1>4, <1>5, <1>6, <1>8, <1>9, CreatedStep

\* The larger of two, the smaller of two.
LEMMA OfTwo ==
  ASSUME NEW a \in Nat, NEW b \in Nat
  PROVE  Max({a, b}) \in {a, b} /\ Min({a, b}) \in {a, b}
<1>1. \E x \in {a, b} : \A y \in {a, b} : x >= y
  OBVIOUS
<1>2. \E x \in {a, b} : \A y \in {a, b} : x =< y
  OBVIOUS
<1> QED BY <1>1, <1>2 DEF Max, Min

LEMMA ScheduledStep == ASSUME SimInv, Scheduled PROVE SimInv'
<1>1. PICK n \in 2 .. MaxTableSeats + 1, b \in Buys \ {0}, h \in 1 .. MaxSimHands :
        Created("schedule", [maxSeats |-> TableFor(n), buyIns |-> [i \in 1 .. n |-> b], hands |-> h])
  BY DEF Scheduled
<1> DEFINE r == [maxSeats |-> TableFor(n), buyIns |-> [i \in 1 .. n |-> b], hands |-> h]
<1>2. n \in Nat /\ n >= 2 /\ b \in Nat \ {0} /\ h \in Nat /\ h >= 1 /\ MaxTableSeats \in Nat
  BY SimulationAssumption
<1>3. TableFor(n) \in Nat
  <2>1. Min({MaxTableSeats, n}) \in Nat
    BY <1>2, OfTwo
  <2> QED BY <2>1, OfTwo DEF TableFor
<1>4. r.buyIns \in Seq(Nat) /\ Len(r.buyIns) = n /\ DOMAIN r.buyIns = 1 .. n /\ r.hands = h
      /\ \A i \in DOMAIN r.buyIns : r.buyIns[i] > 0
  BY <1>2
<1>5. r \in Requests
  BY <1>2, <1>3, <1>4 DEF Requests
<1>6. submission' = submission /\ UNCHANGED form
  BY DEF Scheduled
<1>7. job.stage = "none" /\ job.by = "schedule"
  BY <1>1 DEF Created
<1>8. submission \notin {"submitting", "done"}
  BY <1>7 DEF SimInv, JobInv
<1>9. Created("schedule", r)
  BY <1>1
<1> HIDE DEF r
<1> QED BY <1>2, <1>4, <1>5, <1>6, <1>8, <1>9, CreatedStep

\* An exception: the table and the hands stay as they are, and nothing is saved.
FailureHas(reason) ==
  /\ Running /\ reason \in Failures \ {"none"} /\ FailsWith(reason)
  /\ traceLog' \in Seq(Range(traceLog'))
  /\ reason = "table_full" /\ job.by = "page" => Guest \in DOMAIN stacks
  /\ reason = "hand_in_progress" => ownHand.stage # "none"
  /\ reason = "not_found" => ~simTable.live

LEMMA FailedStep == ASSUME SimInv, NEW reason, FailureHas(reason) PROVE SimInv'
<1>1. /\ job.stage \in {"seating", "playing", "saving"}
      /\ job' = [job EXCEPT !.stage = "failed", !.failure = reason]
      /\ UNCHANGED <<form, submission, stacks, simTable, simHand, ownHand, played, artifact>>
  BY DEF FailureHas, FailsWith, Running, seating
<1>2. job \in [stage : JobStages, by : {"page", "api", "schedule"}, request : Requests,
               seated : Nat, failure : Failures, answered : {job.answered}]
  BY DEF SimInv, SimTypes
<1>3. /\ job'.stage = "failed" /\ job'.failure = reason /\ job'.by = job.by
      /\ job'.request = job.request
      /\ job' \in [stage : JobStages, by : {"page", "api", "schedule"}, request : Requests,
                   seated : Nat, failure : Failures, answered : {job'.answered}]
  BY <1>1, <1>2 DEF FailureHas, JobStages
<1>4. Bots' = Bots /\ Anyone' = Anyone /\ PageAccepts(job.request)' = PageAccepts(job.request)
  BY <1>1, <1>3, PlayedStays
<1>5. SimTypes'
  BY <1>1, <1>3, <1>4 DEF SimInv, SimTypes, HandOf, FailureHas
<1>6. JobInv'
  <2>1. Excused'
    BY <1>1, <1>3 DEF Excused, FailureHas, Failures, SimInv, JobInv
  <2> QED BY <1>1, <1>3, <1>4, <2>1 DEF SimInv, JobInv
<1>7. SeatingInv'
  BY <1>1, <1>3 DEF SimInv, SeatingInv
<1>8. HandsInv'
  BY <1>1, <1>3, HandsStay DEF SimInv, SimTypes
<1>9. ChipsInv'
  BY <1>1, <1>3, PlayedStays DEF SimInv, ChipsInv
<1>10. TracesInv' /\ SavedInv'
  BY <1>1, <1>3 DEF SimInv, TracesInv, SavedInv
<1> QED BY <1>5, <1>6, <1>7, <1>8, <1>9, <1>10 DEF SimInv

LEMMA StorageFailsStep == ASSUME SimInv, StorageFails PROVE SimInv'
<1>1. FailureHas("storage")
  BY DEF StorageFails, FailureHas, Failures, SimInv, SimTypes
<1> QED BY <1>1, FailedStep

\* One more sits down, with what he bought.
LEMMA SatDown ==
  ASSUME SimTypes, NEW a \in Anyone, NEW b \in Nat \ {0}, SitDown(a, b)
  PROVE  /\ DOMAIN stacks' = DOMAIN stacks \cup {a} /\ stacks' \in [DOMAIN stacks' -> Nat \ {0}]
         /\ stacks'[a] = b /\ \A c \in DOMAIN stacks \ {a} : stacks'[c] = stacks[c]
         /\ DOMAIN stacks' \subseteq Anyone
BY DEF SimTypes, SitDown

LEMMA SeatFailsStep == ASSUME SimInv, SeatNext, SeatFailure # "none" PROVE SimInv'
<1>1. job.stage = "seating" /\ FailsWith(SeatFailure) /\ traceLog' = traceLog
  BY DEF SeatNext
<1>2. SeatFailure \in Failures \ {"none"} /\ traceLog' \in Seq(Range(traceLog'))
  BY <1>1 DEF SeatFailure, Failures, SimInv, SimTypes
<1>3. SeatFailure = "not_found" => ~simTable.live
  BY DEF SeatFailure
<1>4. SeatFailure = "hand_in_progress" => ownHand.stage # "none"
  BY <1>1 DEF SeatFailure, SimInv, SeatingInv
<1>5. ASSUME SeatFailure = "table_full", job.by = "page" PROVE Guest \in DOMAIN stacks
  <2> SUFFICES ASSUME Guest \notin DOMAIN stacks PROVE FALSE
    OBVIOUS
  <2>1. FreeSeats = 0
    BY <1>5 DEF SeatFailure
  <2>2. /\ DOMAIN stacks \subseteq 1 .. job.seated /\ job.seated < Len(job.request.buyIns)
        /\ job.seated \in Nat /\ job.request.maxSeats \in Nat
    BY <1>1 DEF SimInv, SimTypes, SeatingInv, Requests
  <2>3. Len(job.request.buyIns) <= job.request.maxSeats
    BY <1>1, <1>5 DEF SimInv, JobInv, PageAccepts
  <2>4. IsFiniteSet(1 .. job.seated) /\ Cardinality(1 .. job.seated) = job.seated
    BY <2>2, UpTo
  <2>5. Cardinality(DOMAIN stacks) <= job.seated /\ Cardinality(DOMAIN stacks) \in Nat
    BY <2>2, <2>4, FS_Subset, FS_CardinalityType
  <2>6. Len(job.request.buyIns) \in Nat
    BY SimShapes DEF SimInv
  <2>7. job.request.maxSeats - Cardinality(DOMAIN stacks) = 0
    BY <2>1 DEF FreeSeats
  <2> QED BY <2>2, <2>3, <2>5, <2>6, <2>7
<1>6. FailureHas(SeatFailure)
  BY <1>1, <1>2, <1>3, <1>4, <1>5 DEF FailureHas, Running
<1> QED BY <1>6, FailedStep

LEMMA SeatNextStep == ASSUME SimInv, SeatNext PROVE SimInv'
<1>1. CASE SeatFailure # "none"
  BY <1>1, SeatFailsStep
<1>2. CASE SeatFailure = "none"
  <2> DEFINE n == job.seated + 1
             stage == IF n = Len(job.request.buyIns) THEN "playing" ELSE "seating"
  <2>1. /\ job.stage = "seating" /\ SitDown(n, job.request.buyIns[n])
        /\ job' = [job EXCEPT !.seated = n, !.stage = stage]
        /\ UNCHANGED <<form, submission, simTable, simHand, ownHand, played, traceLog, artifact>>
    BY <1>2 DEF SeatNext
  <2>2. /\ job \in [stage : JobStages, by : {"page", "api", "schedule"}, request : Requests,
                    seated : Nat, failure : Failures, answered : {job.answered}]
        /\ job.seated \in Nat
    BY DEF SimInv, SimTypes
  <2>3. n \in Nat /\ stage \in {"seating", "playing"} /\ stage \in JobStages
    BY <2>2 DEF JobStages
  <2>4. /\ job'.stage = stage /\ job'.seated = n /\ job'.failure = job.failure
        /\ job'.by = job.by /\ job'.request = job.request
        /\ job' \in [stage : JobStages, by : {"page", "api", "schedule"}, request : Requests,
                     seated : Nat, failure : Failures, answered : {job'.answered}]
    <3> HIDE DEF n, stage
    <3> QED BY <2>1, <2>2, <2>3
  <2>5. /\ simHand = NoHand /\ played = <<>> /\ artifact = NoArtifact
        /\ DOMAIN stacks \ {Guest} \subseteq 1 .. job.seated /\ job.seated < Len(job.request.buyIns)
    BY <2>1 DEF SimInv, SeatingInv, SavedInv
  <2>6. n \in Bots /\ job.request.buyIns[n] = Bought(n) /\ Bought(n) \in Nat \ {0}
    <3>1. n \in Bots
      BY <2>2, <2>5, SimShapes DEF Bots, SimInv
    <3>2. n # Guest
      BY <3>1, SimShapes DEF SimInv
    <3> HIDE DEF n
    <3>3. Bought(n) \in Nat \ {0}
      BY <2>1, <3>1, BoughtIsSome DEF SimInv, Anyone
    <3> QED BY <3>1, <3>2, <3>3 DEF Bought
  <2>7. /\ DOMAIN stacks' = DOMAIN stacks \cup {n} /\ stacks' \in [DOMAIN stacks' -> Nat \ {0}]
        /\ stacks'[n] = Bought(n) /\ \A c \in DOMAIN stacks \ {n} : stacks'[c] = stacks[c]
        /\ DOMAIN stacks' \subseteq Anyone
    <3> HIDE DEF n
    <3>1. n \in Anyone
      BY <2>6 DEF Anyone
    <3> QED BY <2>1, <2>6, <3>1, SatDown DEF SimInv
  <2>8. (DOMAIN stacks \ {Guest})' \subseteq 1 .. n
    BY <2>2, <2>5, <2>7
  <2>9. n < Len(job.request.buyIns) \/ stage = "playing"
    BY <2>2, <2>5, SimShapes DEF SimInv
  <2> HIDE DEF n, stage
  <2>10. /\ Bots' = Bots /\ Anyone' = Anyone /\ DealtIn' = DealtIn
         /\ \A a : Bought(a)' = Bought(a) /\ LeftWith(a)' = LeftWith(a) /\ Brought(a)' = Brought(a)
         /\ PageAccepts(job.request)' = PageAccepts(job.request)
    BY <2>1, <2>4, PlayedStays
  <2>11. SimTypes'
    BY <2>1, <2>4, <2>7, <2>10 DEF SimInv, SimTypes, HandOf
  <2>12. JobInv'
    <3>1. Excused'
      BY <2>1, <2>4 DEF SimInv, JobInv, Excused
    <3> QED BY <2>1, <2>3, <2>4, <2>10, <3>1 DEF SimInv, JobInv
  <2>13. SeatingInv'
    BY <2>1, <2>3, <2>4, <2>5, <2>8, <2>9 DEF SimInv, SeatingInv
  <2>14. HandsInv'
    BY <2>1, <2>4, HandsStay DEF SimInv, SimTypes
  <2>15. ChipsInv'
    <3>1. DealtIn = {}
      BY <2>5 DEF DealtIn
    <3>2. \A a \in DOMAIN stacks' : ownHand.stage = "none" => stacks'[a] = Brought(a)
      BY <2>7, <3>1 DEF SimInv, ChipsInv, Brought
    <3> QED BY <2>1, <2>5, <2>10, <3>1, <3>2 DEF SimInv, ChipsInv
  <2>16. TracesInv'
    BY <2>1, TracesStay DEF SimInv
  <2>17. SavedInv'
    BY <2>1, <2>3, <2>4, <2>5 DEF SavedInv
  <2> QED BY <2>11, <2>12, <2>13, <2>14, <2>15, <2>16, <2>17 DEF SimInv
<1> QED BY <1>1, <1>2

-----------------------------------------------------------------------------
(* Who else is at the table.                                                *)

\* Somebody else does something at the table; the simulation goes on.
OthersDo ==
  /\ Running /\ UNCHANGED <<form, submission, job, simHand, played, artifact>>
  /\ job.by = "schedule" => simTable'.live /\ ownHand'.stage = "none"
  /\ simTable' \in [live : BOOLEAN, inHand : BOOLEAN, handNumber : Nat, leaving : BOOLEAN]
  /\ simTable.handNumber <= simTable'.handNumber
  /\ simTable'.inHand => simHand # NoHand \/ ownHand'.stage # "none"
  /\ ownHand' = [stage |-> ownHand'.stage, dealt |-> ownHand'.dealt] /\ HandOf(ownHand'.dealt)
  /\ ownHand'.stage = "none" => ownHand' = ownHand
  /\ stacks' \in [DOMAIN stacks' -> Nat \ {0}]
  /\ DOMAIN stacks' \subseteq DOMAIN stacks \cup {Guest}
  /\ traceLog' \in Seq(Range(traceLog'))

LEMMA OthersStep ==
  ASSUME SimInv, OthersDo, ChipsInv', TracesInv'
  PROVE  SimInv'
<1>1. /\ job.stage \in {"seating", "playing", "saving"}
      /\ UNCHANGED <<form, submission, job, simHand, played, artifact>>
  BY DEF OthersDo, Running
<1>2. Bots' = Bots /\ Anyone' = Anyone /\ PageAccepts(job.request)' = PageAccepts(job.request)
  BY <1>1, PlayedStays
<1>3. SimTypes'
  <2>1. DOMAIN stacks' \subseteq Anyone
    BY DEF SimInv, SimTypes, OthersDo, Anyone
  <2> QED BY <1>1, <1>2, <2>1 DEF SimInv, SimTypes, HandOf, OthersDo
<1>4. JobInv'
  <2>1. Excused'
    BY <1>1 DEF SimInv, JobInv, Excused
  <2> QED BY <1>1, <1>2, <2>1 DEF SimInv, JobInv, OthersDo
<1>5. SeatingInv'
  BY <1>1 DEF SimInv, SeatingInv, OthersDo
<1>6. HandsInv'
  BY <1>1, HandsStay DEF SimInv, SimTypes, OthersDo
<1>7. SavedInv'
  BY <1>1, SavedStays DEF SimInv, OthersDo
<1> QED BY <1>3, <1>4, <1>5, <1>6, <1>7 DEF SimInv

LEMMA GuestSitsStep == ASSUME SimInv, GuestSits PROVE SimInv'
<1>1. /\ Running /\ job.by # "schedule" /\ ~simTable.inHand
      /\ Guest \notin DOMAIN stacks /\ Guest \notin DealtIn /\ SitDown(Guest, 1)
      /\ UNCHANGED <<form, submission, job, simTable, simHand, ownHand, played, traceLog, artifact>>
  BY DEF GuestSits, Found, DealtIn
<1>2. /\ DealtIn' = DealtIn
      /\ \A a : Bought(a)' = Bought(a) /\ LeftWith(a)' = LeftWith(a) /\ Brought(a)' = Brought(a)
  BY <1>1, PlayedStays
<1>3. /\ DOMAIN stacks' = DOMAIN stacks \cup {Guest} /\ stacks' \in [DOMAIN stacks' -> Nat \ {0}]
      /\ stacks'[Guest] = 1 /\ \A c \in DOMAIN stacks \ {Guest} : stacks'[c] = stacks[c]
  BY <1>1, SatDown DEF SimInv, Anyone
<1>4. Brought(Guest) = 1
  BY <1>1 DEF Brought, Bought
<1>5. ChipsInv'
  BY <1>1, <1>2, <1>3, <1>4 DEF SimInv, ChipsInv
<1>6. TracesInv'
  BY <1>1, TracesStay DEF SimInv
<1>7. OthersDo
  BY <1>1, <1>3 DEF OthersDo, SimInv, SimTypes, SeatingInv
<1> QED BY <1>5, <1>6, <1>7, OthersStep

LEMMA GuestLeavesStep == ASSUME SimInv, GuestLeaves PROVE SimInv'
<1>1. /\ Running /\ job.by # "schedule"
      /\ UNCHANGED <<form, submission, job, simHand, ownHand, played, traceLog, artifact>>
      /\ IF simTable.inHand
         THEN simTable' = [simTable EXCEPT !.leaving = TRUE] /\ UNCHANGED stacks
         ELSE stacks' = Restrict(stacks, DOMAIN stacks \ {Guest}) /\ UNCHANGED simTable
  BY DEF GuestLeaves, Found
<1>2. /\ DealtIn' = DealtIn
      /\ \A a : Bought(a)' = Bought(a) /\ LeftWith(a)' = LeftWith(a) /\ Brought(a)' = Brought(a)
  BY <1>1, PlayedStays
<1>3. /\ simTable' \in [live : BOOLEAN, inHand : BOOLEAN, handNumber : Nat, leaving : BOOLEAN]
      /\ simTable'.handNumber = simTable.handNumber /\ simTable'.inHand = simTable.inHand
  BY <1>1 DEF SimInv, SimTypes
<1>4. /\ stacks' \in [DOMAIN stacks' -> Nat \ {0}] /\ DOMAIN stacks' \subseteq DOMAIN stacks
      /\ DOMAIN stacks \ {Guest} \subseteq DOMAIN stacks'
      /\ \A a \in DOMAIN stacks' : stacks'[a] = stacks[a]
      /\ simTable.inHand => stacks' = stacks
  BY <1>1 DEF SimInv, SimTypes, Restrict
<1>5. ChipsInv'
  BY <1>1, <1>2, <1>3, <1>4 DEF SimInv, ChipsInv
<1>6. TracesInv'
  BY <1>1, TracesStay DEF SimInv
<1>7. OthersDo
  <2>1. simTable.handNumber \in Nat
    BY DEF SimInv, SimTypes
  <2> QED BY <1>1, <1>3, <1>4, <2>1 DEF OthersDo, SimInv, SimTypes, SeatingInv
<1> QED BY <1>5, <1>6, <1>7, OthersStep

LEMMA TableDeletedStep == ASSUME SimInv, TableDeleted PROVE SimInv'
<1>1. /\ Running /\ job.by # "schedule" /\ simTable' = [simTable EXCEPT !.live = FALSE]
      /\ UNCHANGED <<form, submission, job, stacks, simHand, ownHand, played, traceLog, artifact>>
  BY DEF TableDeleted, Found
<1>2. /\ DealtIn' = DealtIn
      /\ \A a : Bought(a)' = Bought(a) /\ LeftWith(a)' = LeftWith(a) /\ Brought(a)' = Brought(a)
  BY <1>1, PlayedStays
<1>3. /\ simTable' \in [live : BOOLEAN, inHand : BOOLEAN, handNumber : Nat, leaving : BOOLEAN]
      /\ simTable'.handNumber = simTable.handNumber /\ simTable'.inHand = simTable.inHand
      /\ simTable.handNumber \in Nat
  BY <1>1 DEF SimInv, SimTypes
<1>4. ChipsInv'
  BY <1>1, <1>2, <1>3 DEF SimInv, ChipsInv
<1>5. TracesInv'
  BY <1>1, TracesStay DEF SimInv
<1>6. OthersDo
  BY <1>1, <1>3 DEF OthersDo, SimInv, SimTypes, SeatingInv
<1> QED BY <1>4, <1>5, <1>6, OthersStep

LEMMA DealtIsHand == ASSUME SimTypes PROVE HandOf(Dealt) /\ Dealt.number > 0 /\ Dealt # NoHand
BY DEF SimTypes, HandOf, Dealt, NoHand

LEMMA HandBegins ==
  ASSUME SimTypes, simTable' = [simTable EXCEPT !.inHand = TRUE, !.handNumber = @ + 1]
  PROVE  /\ simTable' \in [live : BOOLEAN, inHand : BOOLEAN, handNumber : Nat, leaving : BOOLEAN]
         /\ simTable'.live = simTable.live /\ simTable'.inHand
         /\ simTable'.handNumber = simTable.handNumber + 1 /\ simTable.handNumber \in Nat
<1> DEFINE Tables == [live : BOOLEAN, inHand : BOOLEAN, handNumber : Nat, leaving : BOOLEAN]
           t == [simTable EXCEPT !.inHand = TRUE]
           n == simTable.handNumber + 1
<1>1. simTable \in Tables
  BY DEF SimTypes
<1>2. /\ t \in Tables /\ t.live = simTable.live /\ t.inHand = TRUE
      /\ n \in Nat /\ simTable.handNumber \in Nat
  <2>1. t \in Tables
    BY <1>1
  <2>2. t.live = simTable.live /\ t.inHand = TRUE
    BY <1>1
  <2>3. n \in Nat /\ simTable.handNumber \in Nat
    BY <1>1
  <2> QED BY <2>1, <2>2, <2>3
<1>3. simTable' = [t EXCEPT !.handNumber = n]
  OBVIOUS
<1> HIDE DEF t, n
<1>4. simTable' \in Tables /\ simTable'.live = t.live /\ simTable'.inHand = t.inHand /\ simTable'.handNumber = n
  BY <1>2, <1>3
<1> QED BY <1>2, <1>4 DEF n

\* The decisions of a hand are its players', and the log has them after what it had.
LogGrows(h, ts, log) ==
  /\ HandOf(h) /\ IsFiniteSet(DOMAIN h.before) /\ ts \in Decisions(h)
  /\ log = traceLog \o ts \/ (OverLimits(ts) /\ log = Cut(ts))

LEMMA DecisionsOfPlayers ==
  ASSUME NEW h, IsFiniteSet(DOMAIN h.before), NEW ts \in Decisions(h)
  PROVE  /\ ts \in Seq(Range(ts)) /\ Len(ts) \in Nat
         /\ \A i \in DOMAIN ts : \E a \in DOMAIN h.before, o \in Outcomes : ts[i] = Trace(h.number, a, o)
<1> DEFINE S == DOMAIN h.before
           all == SetToSeq(S)
           n == Cardinality(S)
<1>1. all \in [1 .. n -> S] /\ n \in Nat
  <2>1. n \in Nat
    BY FS_CardinalityType
  <2>2. \E f : f \in Bijection(1 .. n, S)
    BY FS_CardinalityType DEF ExistsBijection
  <2>3. PICK f \in [1 .. n -> S] : \A x, y \in 1 .. n : f[x] = f[y] => x = y
    BY <2>2 DEF Bijection, Injection, IsInjective
  <2>4. IsInjective(f)
    BY <2>3 DEF IsInjective
  <2> QED BY <2>1, <2>4 DEF SetToSeq
<1>2. CASE ts \in {<<Trace(h.number, a, "late")>> : a \in S}
  <2>1. PICK a \in S : ts = <<Trace(h.number, a, "late")>>
    BY <1>2
  <2>2. /\ ts \in Seq({Trace(h.number, a, "late")}) /\ Len(ts) = 1 /\ DOMAIN ts = {1}
        /\ ts[1] = Trace(h.number, a, "late")
    BY <2>1
  <2> QED BY <2>2 DEF Range, Outcomes
<1>3. CASE ts \in {[i \in DOMAIN all |-> Trace(h.number, all[i], o)] : o \in Outcomes}
  <2>1. PICK o \in Outcomes : ts = [i \in DOMAIN all |-> Trace(h.number, all[i], o)]
    BY <1>3
  <2>2. DOMAIN ts = 1 .. n /\ \A i \in DOMAIN ts : all[i] \in S /\ ts[i] = Trace(h.number, all[i], o)
    BY <1>1, <2>1
  <2>3. ts \in [1 .. n -> Range(ts)]
    BY <2>1, <2>2 DEF Range
  <2> HIDE DEF n, all
  <2>4. ts \in Seq(Range(ts)) /\ Len(ts) = n
    BY <1>1, <2>3
  <2> QED BY <1>1, <2>2, <2>4
<1> QED BY <1>2, <1>3 DEF Decisions

LEMMA LogHas ==
  ASSUME SimTypes, NEW h, NEW ts, NEW log, LogGrows(h, ts, log)
  PROVE  /\ log \in Seq(Range(log))
         /\ \A i \in DOMAIN log :
              \/ i \in DOMAIN traceLog /\ log[i] = traceLog[i]
              \/ \E a \in DOMAIN h.before, o \in Outcomes : log[i] = Trace(h.number, a, o)
<1>1. /\ ts \in Seq(Range(ts)) /\ Len(ts) \in Nat
      /\ \A i \in DOMAIN ts : \E a \in DOMAIN h.before, o \in Outcomes : ts[i] = Trace(h.number, a, o)
  BY DecisionsOfPlayers DEF LogGrows
<1>2. traceLog \in Seq(Range(traceLog)) /\ TraceLimit \in Nat
  BY SimulationAssumption DEF SimTypes
<1> DEFINE all == traceLog \o ts
           T == Range(traceLog) \cup Range(ts)
<1>3. all \in Seq(T) /\ Len(all) = Len(traceLog) + Len(ts) /\ Len(all) \in Nat /\ Len(traceLog) \in Nat
  BY <1>1, <1>2
<1>4. \A i \in 1 .. Len(all) : all[i] = IF i <= Len(traceLog) THEN traceLog[i] ELSE ts[i - Len(traceLog)]
  BY <1>1, <1>2
<1>5. \A i \in 1 .. Len(all) :
        \/ i \in DOMAIN traceLog /\ all[i] = traceLog[i]
        \/ \E a \in DOMAIN h.before, o \in Outcomes : all[i] = Trace(h.number, a, o)
  <2> SUFFICES ASSUME NEW i \in 1 .. Len(all)
               PROVE  \/ i \in DOMAIN traceLog /\ all[i] = traceLog[i]
                      \/ \E a \in DOMAIN h.before, o \in Outcomes : all[i] = Trace(h.number, a, o)
    OBVIOUS
  <2>1. CASE i <= Len(traceLog)
    BY <1>2, <1>3, <1>4, <2>1
  <2>2. CASE ~(i <= Len(traceLog))
    <3>1. i - Len(traceLog) \in DOMAIN ts /\ all[i] = ts[i - Len(traceLog)]
      BY <1>1, <1>2, <1>3, <1>4, <2>2
    <3> QED BY <1>1, <3>1
  <2> QED BY <2>1, <2>2
<1> HIDE DEF all, T
<1>6. /\ log \in Seq(T) /\ Len(log) <= Len(all)
      /\ \A i \in 1 .. Len(log) : log[i] = all[i]
  <2>1. CASE log = all
    BY <1>3, <2>1
  <2>2. CASE OverLimits(ts) /\ log = SubSeq(all, 1, TraceLimit)
    <3>1. TraceLimit <= Len(all)
      BY <1>2, <1>3, <2>2 DEF OverLimits
    <3>2. log \in Seq(T) /\ Len(log) = TraceLimit /\ \A i \in 1 .. TraceLimit : log[i] = all[i]
      BY <1>2, <1>3, <2>2, <3>1
    <3> QED BY <3>1, <3>2
  <2> QED BY <2>1, <2>2 DEF LogGrows, Cut, all
<1>7. log = [i \in 1 .. Len(log) |-> log[i]] /\ Len(log) \in Nat /\ DOMAIN log = 1 .. Len(log)
  BY <1>6
<1>8. log \in Seq(Range(log))
  <2>1. \A i \in 1 .. Len(log) : log[i] \in Range(log)
    BY <1>7 DEF Range
  <2> QED BY <1>7, <2>1
<1>9. \A i \in DOMAIN log : i \in 1 .. Len(all) /\ log[i] = all[i]
  BY <1>3, <1>6, <1>7
<1> QED BY <1>5, <1>8, <1>9

\* What a hand leaves at the table, and to whom.
SettlesHand(h, d) ==
  /\ HandOf(h) /\ IsFiniteSet(DOMAIN h.before) /\ d \in DivisionsOf(h.before) /\ Settle(d)

LEMMA Settled ==
  ASSUME SimTypes, NEW h, NEW d, SettlesHand(h, d)
  PROVE  /\ d \in [DOMAIN h.before -> Nat] /\ SumOf(d) = SumOf(h.before)
         /\ stacks' \in [DOMAIN stacks' -> Nat \ {0}] /\ DOMAIN stacks' \subseteq DOMAIN stacks
         /\ \A a \in DOMAIN stacks' : stacks'[a] = Seated(d)[a]
         /\ \A a \in DOMAIN stacks \ DOMAIN stacks' : a = Guest \/ Seated(d)[a] = 0
         /\ simTable' \in [live : BOOLEAN, inHand : BOOLEAN, handNumber : Nat, leaving : BOOLEAN]
         /\ simTable'.live = simTable.live /\ simTable'.handNumber = simTable.handNumber
         /\ ~simTable'.inHand
<1>1. h.before \in [DOMAIN h.before -> Nat] /\ d \in DivisionsOf(h.before) /\ Settle(d)
  BY DEF SettlesHand, HandOf
<1>2. Summable(h.before) /\ \A a \in DOMAIN h.before : h.before[a] >= 0
  BY <1>1 DEF Summable, SettlesHand
<1>3. SumOf(h.before) \in Nat
  BY <1>2, SumLeast
<1>4. d \in [DOMAIN h.before -> 0 .. SumOf(h.before)] /\ SumOf(d) = SumOf(h.before)
  BY <1>1 DEF DivisionsOf
<1>5. d \in [DOMAIN h.before -> Nat]
  BY <1>3, <1>4
<1> DEFINE after == Seated(d)
           W == {a \in DOMAIN stacks : after[a] > 0 /\ ~(a = Guest /\ simTable.leaving)}
<1>6. after \in [DOMAIN stacks -> Nat]
  BY <1>5 DEF Seated, SimTypes
<1>7. stacks' = Restrict(after, W)
  BY <1>1 DEF Settle
<1> HIDE DEF after
<1>8. DOMAIN stacks' = W /\ \A a \in W : stacks'[a] = after[a]
  BY <1>7 DEF Restrict
<1>9. stacks' \in [DOMAIN stacks' -> Nat \ {0}]
  <2>1. stacks' = [a \in W |-> after[a]]
    BY <1>7 DEF Restrict
  <2> QED BY <1>6, <2>1
<1>10. \A a \in DOMAIN stacks \ DOMAIN stacks' : a = Guest \/ after[a] = 0
  BY <1>6, <1>8
<1>11. simTable' = [simTable EXCEPT !.inHand = FALSE, !.leaving = FALSE]
  BY <1>1 DEF Settle
<1>12. /\ simTable' \in [live : BOOLEAN, inHand : BOOLEAN, handNumber : Nat, leaving : BOOLEAN]
       /\ simTable'.live = simTable.live /\ simTable'.handNumber = simTable.handNumber
       /\ ~simTable'.inHand
  BY <1>11 DEF SimTypes
<1> QED BY <1>4, <1>5, <1>8, <1>9, <1>10, <1>12 DEF after

LEMMA OwnerDealsStep == ASSUME SimInv, OwnerDeals PROVE SimInv'
<1>1. /\ Running /\ job.by # "schedule" /\ ownHand.stage = "none"
      /\ ownHand' = [stage |-> "running", dealt |-> Dealt]
      /\ simTable' = [simTable EXCEPT !.inHand = TRUE, !.handNumber = @ + 1]
      /\ UNCHANGED <<form, submission, job, stacks, simHand, played, traceLog, artifact>>
  BY DEF OwnerDeals, Found
<1>2. ownHand'.stage = "running" /\ ownHand'.dealt = Dealt /\ HandOf(ownHand'.dealt)
  BY <1>1, DealtIsHand DEF SimInv
<1>3. /\ simTable' \in [live : BOOLEAN, inHand : BOOLEAN, handNumber : Nat, leaving : BOOLEAN]
      /\ simTable.handNumber <= simTable'.handNumber
  <2>1. simTable' = [simTable EXCEPT !.inHand = TRUE, !.handNumber = @ + 1]
    BY <1>1
  <2> QED BY <2>1, HandBegins DEF SimInv
<1>4. ChipsInv'
  BY <1>2 DEF ChipsInv
<1>5. TracesInv'
  <2>1. ownHand.dealt = NoHand /\ DOMAIN NoHand.before = {}
    BY <1>1 DEF SimInv, SeatingInv, NoHand
  <2> QED BY <1>1, <2>1 DEF SimInv, TracesInv
<1>6. OthersDo
  BY <1>1, <1>2, <1>3 DEF OthersDo, SimInv, SimTypes
<1> QED BY <1>4, <1>5, <1>6, OthersStep

\* The log after the owner's hand.
LEMMA OwnTraces ==
  ASSUME SimInv, Running, NEW ts, LogGrows(ownHand.dealt, ts, traceLog'),
         UNCHANGED <<job, played>>, ownHand'.dealt = ownHand.dealt
  PROVE  TracesInv' /\ traceLog' \in Seq(Range(traceLog'))
<1>1. /\ traceLog' \in Seq(Range(traceLog'))
      /\ \A i \in DOMAIN traceLog' :
           \/ i \in DOMAIN traceLog /\ traceLog'[i] = traceLog[i]
           \/ \E a \in DOMAIN ownHand.dealt.before, o \in Outcomes :
                traceLog'[i] = Trace(ownHand.dealt.number, a, o)
  BY LogHas DEF SimInv
<1>2. job.stage # "failed"
  BY DEF Running
<1>3. ASSUME NEW i \in DOMAIN traceLog'
      PROVE  /\ \/ \E j \in DOMAIN played : /\ played[j].number = traceLog'[i].hand
                                            /\ traceLog'[i].agent \in DOMAIN played[j].before
                \/ /\ ownHand.dealt.number = traceLog'[i].hand
                   /\ traceLog'[i].agent \in DOMAIN ownHand.dealt.before
             /\ \E o \in Outcomes : traceLog'[i] = Trace(traceLog'[i].hand, traceLog'[i].agent, o)
  <2>1. CASE i \in DOMAIN traceLog /\ traceLog'[i] = traceLog[i]
    BY <1>2, <2>1 DEF SimInv, TracesInv
  <2>2. CASE \E a \in DOMAIN ownHand.dealt.before, o \in Outcomes :
               traceLog'[i] = Trace(ownHand.dealt.number, a, o)
    <3>1. PICK a \in DOMAIN ownHand.dealt.before :
            \E o \in Outcomes : traceLog'[i] = Trace(ownHand.dealt.number, a, o)
      BY <2>2
    <3>2. PICK o \in Outcomes : traceLog'[i] = Trace(ownHand.dealt.number, a, o)
      BY <3>1
    <3>3. traceLog'[i].hand = ownHand.dealt.number /\ traceLog'[i].agent = a
      BY <3>2 DEF Trace
    <3> QED BY <3>2, <3>3
  <2> QED BY <1>1, <2>1, <2>2
<1>4. TracesInv'
  BY <1>3 DEF TracesInv
<1> QED BY <1>1, <1>4

LEMMA OwnerHandEndsStep == ASSUME SimInv, OwnerHandEnds PROVE SimInv'
<1>1. /\ Running /\ ownHand.stage = "running"
      /\ UNCHANGED <<form, submission, job, simHand, played, artifact>>
  BY DEF OwnerHandEnds
<1>2. PICK ts \in Decisions(ownHand.dealt) :
        \/ /\ ~OverLimits(ts) /\ traceLog' = traceLog \o ts
           /\ \E d \in DivisionsOf(ownHand.dealt.before) : Settle(d)
           /\ ownHand' = [ownHand EXCEPT !.stage = "storing"]
        \/ /\ traceLog' = IF OverLimits(ts) THEN Cut(ts) ELSE traceLog \o ts
           /\ simTable' = [simTable EXCEPT !.inHand = FALSE] /\ UNCHANGED stacks
           /\ ownHand' = [ownHand EXCEPT !.stage = "over"]
  BY DEF OwnerHandEnds
<1>3. HandOf(ownHand.dealt) /\ IsFiniteSet(DOMAIN ownHand.dealt.before)
  BY SimShapes DEF SimInv, SimTypes
<1>4. LogGrows(ownHand.dealt, ts, traceLog')
  BY <1>2, <1>3 DEF LogGrows
<1>5. /\ ownHand' = [stage |-> ownHand'.stage, dealt |-> ownHand'.dealt]
      /\ ownHand'.stage \in {"storing", "over"} /\ ownHand'.dealt = ownHand.dealt
  BY <1>2 DEF SimInv, SimTypes
<1>6. TracesInv' /\ traceLog' \in Seq(Range(traceLog'))
  BY <1>1, <1>4, <1>5, OwnTraces
<1>7. ChipsInv'
  BY <1>5 DEF ChipsInv
<1>8. job.by # "schedule"
  BY <1>1 DEF SimInv, JobInv
<1>9. /\ simTable' \in [live : BOOLEAN, inHand : BOOLEAN, handNumber : Nat, leaving : BOOLEAN]
      /\ simTable'.handNumber = simTable.handNumber /\ simTable.handNumber \in Nat
      /\ stacks' \in [DOMAIN stacks' -> Nat \ {0}] /\ DOMAIN stacks' \subseteq DOMAIN stacks
  <2>1. CASE \E d \in DivisionsOf(ownHand.dealt.before) : Settle(d)
    <3>1. PICK d \in DivisionsOf(ownHand.dealt.before) : Settle(d)
      BY <2>1
    <3>2. SettlesHand(ownHand.dealt, d)
      BY <1>3, <3>1 DEF SettlesHand
    <3>3. simTable.handNumber \in Nat
      BY DEF SimInv, SimTypes
    <3> QED BY <3>2, <3>3, Settled DEF SimInv
  <2>2. CASE simTable' = [simTable EXCEPT !.inHand = FALSE] /\ UNCHANGED stacks
    BY <2>2 DEF SimInv, SimTypes
  <2> QED BY <1>2, <2>1, <2>2
<1>10. OthersDo
  BY <1>1, <1>3, <1>5, <1>6, <1>8, <1>9 DEF OthersDo
<1> QED BY <1>6, <1>7, <1>10, OthersStep

LEMMA OwnerSaveFailsStep == ASSUME SimInv, OwnerSaveFails PROVE SimInv'
<1>1. /\ Running /\ ownHand.stage = "storing"
      /\ ownHand' = [ownHand EXCEPT !.stage = "over"]
      /\ simTable' = [simTable EXCEPT !.inHand = FALSE]
      /\ UNCHANGED <<form, submission, job, stacks, simHand, played, traceLog, artifact>>
  BY DEF OwnerSaveFails
<1>2. /\ ownHand' = [stage |-> ownHand'.stage, dealt |-> ownHand'.dealt]
      /\ ownHand'.stage = "over" /\ ownHand'.dealt = ownHand.dealt
  BY <1>1 DEF SimInv, SimTypes
<1>3. /\ simTable' \in [live : BOOLEAN, inHand : BOOLEAN, handNumber : Nat, leaving : BOOLEAN]
      /\ simTable'.handNumber = simTable.handNumber /\ simTable.handNumber \in Nat
  BY <1>1 DEF SimInv, SimTypes
<1>4. ChipsInv'
  BY <1>2 DEF ChipsInv
<1>5. TracesInv'
  BY <1>1, <1>2, TracesStay DEF SimInv
<1>6. job.by # "schedule"
  BY <1>1 DEF SimInv, JobInv
<1>7. OthersDo
  BY <1>1, <1>2, <1>3, <1>6 DEF OthersDo, SimInv, SimTypes
<1> QED BY <1>4, <1>5, <1>7, OthersStep

-----------------------------------------------------------------------------
(* The hands.                                                               *)

LEMMA DealFailsStep == ASSUME SimInv, DealHand, DealFailure # "none" PROVE SimInv'
<1>1. /\ job.stage = "playing" /\ simHand = NoHand /\ MoreHands
      /\ FailsWith(DealFailure) /\ traceLog' = traceLog
  BY DEF DealHand
<1>2. ~(Cardinality(DOMAIN stacks) < 2)
  <2>1. Cardinality(DOMAIN stacks) \in Nat
    BY SimShapes, FS_CardinalityType DEF SimInv
  <2> QED BY <1>1, <2>1 DEF MoreHands
<1>3. DealFailure = "hand_in_progress" /\ simTable.inHand
  BY <1>2 DEF DealFailure
<1>4. ownHand.stage # "none"
  BY <1>1, <1>3 DEF SimInv, SeatingInv
<1>5. FailureHas(DealFailure)
  BY <1>1, <1>3, <1>4 DEF FailureHas, Running, Failures, SimInv, SimTypes
<1> QED BY <1>5, FailedStep

LEMMA DealHandStep == ASSUME SimInv, DealHand PROVE SimInv'
<1>1. CASE DealFailure # "none"
  BY <1>1, DealFailsStep
<1>2. CASE DealFailure = "none"
  <2>1. /\ job.stage = "playing" /\ simHand = NoHand /\ simHand' = Dealt
        /\ simTable' = [simTable EXCEPT !.inHand = TRUE, !.handNumber = @ + 1]
        /\ UNCHANGED <<form, submission, job, stacks, ownHand, played, traceLog, artifact>>
    BY <1>2 DEF DealHand
  <2>2. HandOf(Dealt) /\ Dealt.number > 0 /\ Dealt # NoHand
    BY DealtIsHand DEF SimInv
  <2>3. /\ simTable' \in [live : BOOLEAN, inHand : BOOLEAN, handNumber : Nat, leaving : BOOLEAN]
        /\ simTable'.live = simTable.live /\ simTable'.inHand
        /\ simTable'.handNumber = simTable.handNumber + 1 /\ simTable.handNumber \in Nat
    BY <2>1, HandBegins DEF SimInv
  <2>4. /\ Bots' = Bots /\ Anyone' = Anyone /\ DealtIn' = DealtIn
        /\ \A a : Bought(a)' = Bought(a) /\ LeftWith(a)' = LeftWith(a) /\ Brought(a)' = Brought(a)
        /\ PageAccepts(job.request)' = PageAccepts(job.request)
    BY <2>1, PlayedStays
  <2>5. SimTypes'
    <3>1. HandOf(simHand)'
      BY <2>1, <2>2, <2>4 DEF HandOf
    <3> QED BY <2>1, <2>3, <2>4, <3>1 DEF SimInv, SimTypes, HandOf
  <2>6. JobInv'
    <3>1. Excused'
      BY <2>1 DEF SimInv, JobInv, Excused
    <3> QED BY <2>1, <2>3, <2>4, <3>1 DEF SimInv, JobInv
  <2>7. SeatingInv'
    BY <2>1, <2>2 DEF SimInv, SeatingInv
  <2>8. HandsInv'
    <3>1. Dealt.number = simTable.handNumber + 1
      BY DEF Dealt
    <3>2. \A i \in DOMAIN played : /\ played[i].number \in Nat \ {0}
                                   /\ played[i].number < Dealt.number
                                   /\ played[i].number <= simTable'.handNumber
      <4>1. \A i \in DOMAIN played : /\ played[i].number \in Nat \ {0}
                                     /\ played[i].number <= simTable.handNumber
        BY DEF SimInv, HandsInv
      <4> QED BY <2>3, <3>1, <4>1
    <3>3. simHand'.number <= simTable'.handNumber
      BY <2>1, <2>3, <3>1
    <3>4. \A i \in DOMAIN played : /\ DOMAIN played[i].before \subseteq Anyone
                                   /\ DOMAIN played[i].after = DOMAIN played[i].before
                                   /\ played[i].after \in [DOMAIN played[i].before -> Nat]
      BY DEF SimInv, HandsInv
    <3>5. \A i, j \in DOMAIN played : i < j => played[i].number < played[j].number
      BY DEF SimInv, HandsInv
    <3> QED BY <2>1, <2>4, <3>2, <3>3, <3>4, <3>5 DEF HandsInv
  <2>9. ChipsInv'
    <3>1. Dealt.before = stacks
      BY DEF Dealt
    <3> QED BY <2>1, <2>3, <2>4, <3>1 DEF SimInv, ChipsInv
  <2>10. TracesInv' /\ SavedInv'
    BY <2>1, TracesStay, SavedStays DEF SimInv
  <2> QED BY <2>5, <2>6, <2>7, <2>8, <2>9, <2>10 DEF SimInv
<1> QED BY <1>1, <1>2

\* A hand that was played to its end.
HandPlayed(ts, d) ==
  /\ job.stage = "playing" /\ simHand # NoHand /\ simHand' = NoHand
  /\ ts \in Decisions(simHand) /\ traceLog' = traceLog \o ts
  /\ d \in DivisionsOf(simHand.before) /\ Settle(d)
  /\ played' = Append(played, [number |-> simHand.number, before |-> simHand.before, after |-> d])
  /\ UNCHANGED <<form, submission, job, ownHand, artifact>>

\* The hands before it are as they were; its players are dealt in, and have now what it
\* left them.
GrownBy(d) ==
  LET n == Len(played) + 1
  IN /\ Len(played') = n /\ DOMAIN played' = DOMAIN played \cup {n} /\ n \notin DOMAIN played
     /\ n \in Nat /\ \A i \in DOMAIN played : i \in Nat /\ i < n /\ played'[i] = played[i]
     /\ played'[n].number = simHand.number /\ played'[n].before = simHand.before
     /\ played'[n].after = d
     /\ Last(played)' = played'[n] /\ played' # <<>> /\ played' \in Seq(Range(played'))

LEMMA PlayedGrows ==
  ASSUME SimTypes, NEW ts, NEW d, HandPlayed(ts, d)
  PROVE  GrownBy(d)
<1> DEFINE n == Len(played) + 1
           record == [number |-> simHand.number, before |-> simHand.before, after |-> d]
<1>1. played \in Seq(Range(played)) /\ Len(played) \in Nat /\ DOMAIN played = 1 .. Len(played)
  BY SimShapes DEF SimTypes
<1>2. played' = Append(played, record)
  BY DEF HandPlayed
<1>3. played' \in Seq(Range(played) \cup {record})
  BY <1>1, <1>2
<1>4. Len(played') = n /\ DOMAIN played' = 1 .. n /\ n \in Nat
  BY <1>1, <1>2
<1>5. played'[n] = record /\ \A i \in DOMAIN played : i \in Nat /\ i < n /\ played'[i] = played[i]
  BY <1>1, <1>2
<1>6. DOMAIN played' = DOMAIN played \cup {n} /\ n \notin DOMAIN played
  BY <1>1, <1>4
<1>7. Last(played)' = played'[n] /\ played' # <<>>
  BY <1>4, <1>1 DEF Last
<1>8. played' \in Seq(Range(played'))
  <2>1. played' = [i \in 1 .. Len(played') |-> played'[i]] /\ Len(played') \in Nat
    BY <1>3
  <2>2. \A i \in 1 .. Len(played') : played'[i] \in Range(played')
    BY <1>4 DEF Range
  <2> QED BY <2>1, <2>2
<1>9. /\ played'[n].number = simHand.number /\ played'[n].before = simHand.before
      /\ played'[n].after = d
  BY <1>5
<1>10. \A i \in DOMAIN played : i \in Nat /\ i < n /\ played'[i] = played[i]
  BY <1>5
<1> HIDE DEF record
<1> QED BY <1>4, <1>6, <1>7, <1>8, <1>9, <1>10 DEF GrownBy

LEMMA LastHands ==
  ASSUME SimTypes, HandsInv, NEW d, GrownBy(d)
  PROVE  /\ DealtIn' = DealtIn \cup DOMAIN simHand.before
         /\ \A a \in DOMAIN simHand.before : LeftWith(a)' = d[a]
         /\ \A a \in DealtIn \ DOMAIN simHand.before : LeftWith(a)' = LeftWith(a)
<1> DEFINE n == Len(played) + 1
<1>1. /\ DOMAIN played' = DOMAIN played \cup {n} /\ n \in Nat
      /\ \A i \in DOMAIN played : i \in Nat /\ i < n /\ played'[i] = played[i]
      /\ played'[n].before = simHand.before /\ played'[n].after = d
  BY DEF GrownBy
<1> HIDE DEF n
<1>2. DealtIn' = DealtIn \cup DOMAIN simHand.before
  <2>1. DealtIn' = UNION {DOMAIN played'[i].before : i \in DOMAIN played \cup {n}}
    BY <1>1 DEF DealtIn
  <2>2. \A i \in DOMAIN played : DOMAIN played'[i].before = DOMAIN played[i].before
    BY <1>1
  <2>3. DOMAIN played'[n].before = DOMAIN simHand.before
    BY <1>1
  <2> QED BY <2>1, <2>2, <2>3 DEF DealtIn
<1>3. ASSUME NEW a \in DOMAIN simHand.before PROVE LeftWith(a)' = d[a]
  <2> DEFINE Dealings == {i \in DOMAIN played' : a \in DOMAIN played'[i].before}
  <2>1. n \in Dealings /\ \A i \in Dealings : i \in Nat /\ n >= i
    BY <1>1
  <2>2. LastHandOf(a)' = Max(Dealings)
    BY DEF LastHandOf
  <2> HIDE DEF Dealings
  <2>3. \A x \in Dealings : (\A y \in Dealings : x >= y) => x = n
    BY <2>1, <1>1
  <2>4. Max(Dealings) = n
    BY <2>1, <2>3 DEF Max
  <2> QED BY <1>1, <2>2, <2>4 DEF LeftWith
<1>4. ASSUME NEW a \in DealtIn \ DOMAIN simHand.before PROVE LeftWith(a)' = LeftWith(a)
  <2>1. {i \in DOMAIN played' : a \in DOMAIN played'[i].before}
          = {i \in DOMAIN played : a \in DOMAIN played[i].before}
    BY <1>1
  <2>2. LastHandOf(a)' = LastHandOf(a)
    BY <2>1 DEF LastHandOf
  <2>3. LastHandOf(a) \in DOMAIN played
    BY LastHandIs
  <2> QED BY <1>1, <2>2, <2>3 DEF LeftWith
<1> QED BY <1>2, <1>3, <1>4

\* A sum over a set, in two parts.
LEMMA SumOfParts ==
  ASSUME NEW f, Summable(f), NEW A \in SUBSET DOMAIN f
  PROVE  SumOf(f) = SumOf([a \in A |-> f[a]]) + SumOf([a \in DOMAIN f \ A |-> f[a]])
BY SumSplit DEF Restrict

\* The chips that a hand divides are those that its players brought, and what they and
\* the others had bought.
LEMMA HandChips ==
  ASSUME SimInv, ownHand.stage = "none", simHand # NoHand, job.stage # "none",
         NEW d \in [DOMAIN stacks -> Nat], SumOf(d) = SumOf(stacks)
  PROVE  LET all == DealtIn \cup DOMAIN stacks
         IN SumOf([a \in all |-> IF a \in DOMAIN stacks THEN d[a] ELSE LeftWith(a)])
              = SumOf([a \in all |-> Bought(a)])
<1> DEFINE S == DOMAIN stacks
           D == DealtIn
           all == D \cup S
           left == [a \in all |-> IF a \in S THEN d[a] ELSE LeftWith(a)]
           brought == [a \in all |-> Brought(a)]
           bought == [a \in all |-> Bought(a)]
           rest == [a \in all \ S |-> LeftWith(a)]
           new == [a \in all \ D |-> Bought(a)]
           leftBefore == [a \in D |-> LeftWith(a)]
           boughtBefore == [a \in D |-> Bought(a)]
<1>1. SimTypes /\ HandsInv /\ JobInv /\ ChipsInv
  BY DEF SimInv
<1>2. D \subseteq Anyone /\ S \subseteq Anyone /\ IsFiniteSet(D) /\ IsFiniteSet(S)
  BY <1>1, DealtAreThese, SimShapes DEF SimTypes
<1>3. IsFiniteSet(all)
  BY <1>2, FS_Union
<1>4. /\ \A a \in D : LeftWith(a) \in Nat
      /\ \A a \in all : Bought(a) \in Nat
  BY <1>1, <1>2, LastHandIs, BoughtIsSome
<1>5. /\ \A a \in S : stacks[a] = Brought(a)
      /\ SumOf(leftBefore) = SumOf(boughtBefore)
      /\ stacks = [a \in S |-> stacks[a]]
  BY <1>1 DEF ChipsInv, SimTypes
<1>6. \A a : Brought(a) = IF a \in D THEN LeftWith(a) ELSE Bought(a)
  BY DEF Brought
<1>7. \A a \in all : Brought(a) \in Nat
  BY <1>4, <1>6
<1> HIDE DEF D
<1>8. Summable(left) /\ Summable(brought) /\ Summable(bought)
  BY <1>3, <1>4, <1>7 DEF Summable
<1>9. [a \in S |-> left[a]] = d /\ [a \in all \ S |-> left[a]] = rest
  OBVIOUS
<1>10. [a \in S |-> brought[a]] = stacks /\ [a \in all \ S |-> brought[a]] = rest
  <2>1. [a \in S |-> brought[a]] = stacks
    BY <1>5
  <2>2. \A a \in all \ S : brought[a] = LeftWith(a)
    BY <1>6
  <2> QED BY <2>1, <2>2
<1>11. [a \in D |-> brought[a]] = leftBefore /\ [a \in all \ D |-> brought[a]] = new
  <2>1. \A a \in D : brought[a] = LeftWith(a)
    BY <1>6
  <2>2. \A a \in all \ D : brought[a] = Bought(a)
    BY <1>6
  <2> QED BY <2>1, <2>2
<1>12. [a \in D |-> bought[a]] = boughtBefore /\ [a \in all \ D |-> bought[a]] = new
  OBVIOUS
<1>13. DOMAIN left = all /\ DOMAIN brought = all /\ DOMAIN bought = all
       /\ S \in SUBSET all /\ D \in SUBSET all
  OBVIOUS
<1> HIDE DEF left, brought, bought, rest, new, leftBefore, boughtBefore, all, S
<1>14. SumOf(left) = SumOf(d) + SumOf(rest)
  BY <1>8, <1>9, <1>13, SumOfParts
<1>15. SumOf(brought) = SumOf(stacks) + SumOf(rest)
  BY <1>8, <1>10, <1>13, SumOfParts
<1>16. SumOf(brought) = SumOf(leftBefore) + SumOf(new)
  BY <1>8, <1>11, <1>13, SumOfParts
<1>17. SumOf(bought) = SumOf(boughtBefore) + SumOf(new)
  BY <1>8, <1>12, <1>13, SumOfParts
<1>18. SumOf(left) = SumOf(bought)
  BY <1>5, <1>14, <1>15, <1>16, <1>17
<1> QED BY <1>18 DEF left, bought, all, S, D

LEMMA HandPlayedChips ==
  ASSUME SimInv, NEW ts, NEW d, HandPlayed(ts, d), ownHand.stage = "none"
  PROVE  ChipsInv'
<1>1. simHand # NoHand /\ job.stage = "playing" /\ simHand' = NoHand /\ UNCHANGED <<job, ownHand>>
  BY DEF HandPlayed
<1>2. SimTypes /\ HandsInv /\ simHand.before = stacks
  BY <1>1 DEF SimInv, ChipsInv
<1> DEFINE S == DOMAIN stacks
<1>3. GrownBy(d)
  BY <1>2, PlayedGrows
<1>4. /\ DealtIn' = DealtIn \cup S
      /\ \A a \in S : LeftWith(a)' = d[a]
      /\ \A a \in DealtIn \ S : LeftWith(a)' = LeftWith(a)
  BY <1>2, <1>3, LastHands
<1>5. \A a : Bought(a)' = Bought(a)
  BY <1>1 DEF Bought
<1>6. SettlesHand(simHand, d)
  BY <1>2, SimShapes DEF SettlesHand, HandPlayed, SimTypes
<1>7. /\ d \in [S -> Nat] /\ SumOf(d) = SumOf(stacks)
      /\ DOMAIN stacks' \subseteq S /\ \A a \in DOMAIN stacks' : stacks'[a] = Seated(d)[a]
      /\ \A a \in S \ DOMAIN stacks' : a = Guest \/ Seated(d)[a] = 0
  BY <1>2, <1>6, Settled
<1>8. \A a \in S : Seated(d)[a] = d[a]
  BY <1>7 DEF Seated
<1>9. \A a \in DOMAIN stacks' : stacks'[a] = Brought(a)'
  BY <1>4, <1>7, <1>8 DEF Brought
<1>10. \A a \in DealtIn' \ DOMAIN stacks' : a = Guest \/ LeftWith(a)' = 0
  <2> SUFFICES ASSUME NEW a \in DealtIn' \ DOMAIN stacks' PROVE a = Guest \/ LeftWith(a)' = 0
    OBVIOUS
  <2>1. CASE a \in S
    BY <1>4, <1>7, <1>8, <2>1
  <2>2. CASE a \notin S
    <3>1. a \in DealtIn \ DOMAIN stacks
      BY <1>4, <2>2
    <3>2. a = Guest \/ LeftWith(a) = 0
      BY <1>1, <3>1 DEF SimInv, ChipsInv
    <3> QED BY <1>4, <3>1, <3>2
  <2> QED BY <2>1, <2>2
<1>11. \A a \in DealtIn' \cap DOMAIN stacks' : a \in DOMAIN Last(played)'.before
  BY <1>2, <1>3, <1>7 DEF GrownBy
<1>12. SumOf([a \in DealtIn |-> LeftWith(a)])' = SumOf([a \in DealtIn |-> Bought(a)])'
  <2> DEFINE all == DealtIn \cup S
  <2>1. SumOf([a \in all |-> IF a \in S THEN d[a] ELSE LeftWith(a)]) = SumOf([a \in all |-> Bought(a)])
    BY <1>1, <1>7, HandChips
  <2>2. [a \in DealtIn |-> LeftWith(a)]' = [a \in all |-> IF a \in S THEN d[a] ELSE LeftWith(a)]
    BY <1>4
  <2>3. [a \in DealtIn |-> Bought(a)]' = [a \in all |-> Bought(a)]
    BY <1>4, <1>5
  <2> QED BY <2>1, <2>2, <2>3
<1> QED BY <1>1, <1>9, <1>10, <1>11, <1>12 DEF ChipsInv

LEMMA HandPlayedStep ==
  ASSUME SimInv, NEW ts, NEW d, HandPlayed(ts, d)
  PROVE  SimInv'
<1> DEFINE n == Len(played) + 1
<1>1. /\ job.stage = "playing" /\ simHand # NoHand /\ simHand' = NoHand
      /\ UNCHANGED <<form, submission, job, ownHand, artifact>>
  BY DEF HandPlayed
<1>2. SimTypes /\ HandsInv /\ TracesInv
  BY DEF SimInv
<1>3. /\ DOMAIN played' = DOMAIN played \cup {n} /\ n \notin DOMAIN played
      /\ n \in Nat /\ \A i \in DOMAIN played : i \in Nat /\ i < n /\ played'[i] = played[i]
      /\ played'[n].number = simHand.number /\ played'[n].before = simHand.before
      /\ played'[n].after = d /\ played' \in Seq(Range(played'))
  BY <1>2, PlayedGrows DEF GrownBy
<1>4. HandOf(simHand) /\ IsFiniteSet(DOMAIN simHand.before) /\ SettlesHand(simHand, d)
  BY <1>2, SimShapes DEF SettlesHand, HandPlayed, SimTypes
<1>5. /\ d \in [DOMAIN simHand.before -> Nat]
      /\ stacks' \in [DOMAIN stacks' -> Nat \ {0}] /\ DOMAIN stacks' \subseteq DOMAIN stacks
      /\ simTable' \in [live : BOOLEAN, inHand : BOOLEAN, handNumber : Nat, leaving : BOOLEAN]
      /\ simTable'.live = simTable.live /\ simTable'.handNumber = simTable.handNumber
      /\ ~simTable'.inHand
  BY <1>2, <1>4, Settled
<1>6. LogGrows(simHand, ts, traceLog')
  BY <1>4 DEF LogGrows, HandPlayed
<1>7. /\ traceLog' \in Seq(Range(traceLog'))
      /\ \A i \in DOMAIN traceLog' :
           \/ i \in DOMAIN traceLog /\ traceLog'[i] = traceLog[i]
           \/ \E a \in DOMAIN simHand.before, o \in Outcomes :
                traceLog'[i] = Trace(simHand.number, a, o)
  BY <1>2, <1>6, LogHas
<1> HIDE DEF n
<1>8. Bots' = Bots /\ Anyone' = Anyone
  BY <1>1 DEF Anyone, Bots
<1>9. HandOf(NoHand)'
  BY DEF HandOf, NoHand
<1>10. SimTypes'
  BY <1>1, <1>2, <1>3, <1>5, <1>7, <1>8, <1>9 DEF SimTypes, HandOf
<1>11. JobInv'
  <2>1. PageAccepts(job.request)' = PageAccepts(job.request)
    BY <1>1 DEF PageAccepts
  <2>2. Excused'
    BY <1>1 DEF SimInv, JobInv, Excused
  <2> QED BY <1>1, <1>5, <1>8, <2>1, <2>2 DEF SimInv, JobInv
<1>12. SeatingInv'
  BY <1>1, <1>5 DEF SimInv, SeatingInv
<1>13. HandsInv'
  <2>1. /\ simHand.number \in Nat \ {0} /\ simHand.number <= simTable.handNumber
        /\ DOMAIN simHand.before \subseteq Anyone
    <3>1. simHand.number \in Nat /\ simHand.number <= simTable.handNumber /\ DOMAIN simHand.before \subseteq Anyone
      BY <1>2, <1>4 DEF HandOf, HandsInv
    <3>2. simHand.number # 0
      BY <1>1 DEF SimInv, SeatingInv
    <3> QED BY <3>1, <3>2
  <2>2. \A i \in DOMAIN played' :
          /\ played'[i].number \in Nat \ {0} /\ played'[i].number <= simTable.handNumber
          /\ DOMAIN played'[i].before \subseteq Anyone
          /\ DOMAIN played'[i].after = DOMAIN played'[i].before
          /\ played'[i].after \in [DOMAIN played'[i].before -> Nat]
    <3>1. \A i \in DOMAIN played :
            /\ played[i].number \in Nat \ {0} /\ played[i].number <= simTable.handNumber
            /\ DOMAIN played[i].before \subseteq Anyone
            /\ DOMAIN played[i].after = DOMAIN played[i].before
            /\ played[i].after \in [DOMAIN played[i].before -> Nat]
      BY <1>2 DEF HandsInv
    <3>2. \A i \in DOMAIN played' : i = n \/ (i \in DOMAIN played /\ played'[i] = played[i])
      BY <1>3
    <3>3. /\ DOMAIN played'[n].after = DOMAIN played'[n].before
          /\ played'[n].after \in [DOMAIN played'[n].before -> Nat]
      BY <1>3, <1>5
    <3> QED BY <1>3, <2>1, <3>1, <3>2, <3>3
  <2>3. \A i, j \in DOMAIN played' : i < j => played'[i].number < played'[j].number
    <3>1. /\ \A i, j \in DOMAIN played : i < j => played[i].number < played[j].number
          /\ \A i \in DOMAIN played : played[i].number < simHand.number
      BY <1>1, <1>2 DEF HandsInv
    <3> SUFFICES ASSUME NEW i \in DOMAIN played', NEW j \in DOMAIN played', i < j
                 PROVE  played'[i].number < played'[j].number
      OBVIOUS
    <3>2. i \in DOMAIN played
      BY <1>3
    <3>3. CASE j = n
      BY <1>3, <3>1, <3>2, <3>3
    <3>4. CASE j \in DOMAIN played
      BY <1>3, <3>1, <3>2, <3>4
    <3> QED BY <1>3, <3>3, <3>4
  <2>4. NoHand.number = 0 /\ simTable.handNumber \in Nat
    BY <1>2 DEF NoHand, SimTypes
  <2> QED BY <1>1, <1>5, <1>8, <2>2, <2>3, <2>4 DEF HandsInv
<1>14. ChipsInv'
  BY <1>1, HandPlayedChips DEF ChipsInv
<1>15. TracesInv'
  <2>1. ASSUME NEW i \in DOMAIN traceLog'
        PROVE  /\ \/ \E j \in DOMAIN played' : /\ played'[j].number = traceLog'[i].hand
                                               /\ traceLog'[i].agent \in DOMAIN played'[j].before
                  \/ /\ ownHand.dealt.number = traceLog'[i].hand
                     /\ traceLog'[i].agent \in DOMAIN ownHand.dealt.before
               /\ \E o \in Outcomes : traceLog'[i] = Trace(traceLog'[i].hand, traceLog'[i].agent, o)
    <3>1. CASE i \in DOMAIN traceLog /\ traceLog'[i] = traceLog[i]
      <4>1. /\ \/ \E j \in DOMAIN played : /\ played[j].number = traceLog[i].hand
                                           /\ traceLog[i].agent \in DOMAIN played[j].before
               \/ /\ ownHand.dealt.number = traceLog[i].hand
                  /\ traceLog[i].agent \in DOMAIN ownHand.dealt.before
            /\ \E o \in Outcomes : traceLog[i] = Trace(traceLog[i].hand, traceLog[i].agent, o)
        BY <1>1, <1>2, <3>1 DEF TracesInv
      <4> HIDE DEF Trace
      <4> QED BY <1>3, <3>1, <4>1
    <3>2. CASE \E a \in DOMAIN simHand.before, o \in Outcomes :
                 traceLog'[i] = Trace(simHand.number, a, o)
      <4>1. PICK a \in DOMAIN simHand.before :
              \E o \in Outcomes : traceLog'[i] = Trace(simHand.number, a, o)
        BY <3>2
      <4>2. PICK o \in Outcomes : traceLog'[i] = Trace(simHand.number, a, o)
        BY <4>1
      <4>3. traceLog'[i].hand = simHand.number /\ traceLog'[i].agent = a
        BY <4>2 DEF Trace
      <4> QED BY <1>3, <4>2, <4>3
    <3> QED BY <1>7, <3>1, <3>2
  <2> QED BY <1>1, <2>1 DEF TracesInv
<1>16. SavedInv'
  BY <1>1 DEF SimInv, SavedInv
<1> QED BY <1>10, <1>11, <1>12, <1>13, <1>14, <1>15, <1>16 DEF SimInv

LEMMA EndHandStep == ASSUME SimInv, EndHand PROVE SimInv'
<1>1. PICK ts \in Decisions(simHand) :
        IF OverLimits(ts)
        THEN traceLog' = Cut(ts) /\ FailsWith("trace_limit")
        ELSE /\ traceLog' = traceLog \o ts
             /\ \E d \in DivisionsOf(simHand.before) :
                  /\ played' = Append(played, [number |-> simHand.number,
                                               before |-> simHand.before, after |-> d])
                  /\ Settle(d)
             /\ simHand' = NoHand
             /\ UNCHANGED <<form, submission, job, ownHand, artifact>>
  BY DEF EndHand
<1>2. job.stage = "playing" /\ simHand # NoHand
  BY DEF EndHand
<1>3. CASE OverLimits(ts)
  <2>1. LogGrows(simHand, ts, traceLog')
    BY <1>1, <1>3, SimShapes DEF LogGrows, SimInv, SimTypes
  <2>2. traceLog' \in Seq(Range(traceLog'))
    BY <2>1, LogHas DEF SimInv
  <2>3. FailureHas("trace_limit")
    BY <1>1, <1>2, <1>3, <2>2 DEF FailureHas, Running, Failures
  <2> QED BY <2>3, FailedStep
<1>4. CASE ~OverLimits(ts)
  <2>1. PICK d \in DivisionsOf(simHand.before) :
          /\ played' = Append(played, [number |-> simHand.number,
                                       before |-> simHand.before, after |-> d])
          /\ Settle(d)
    BY <1>1, <1>4
  <2>2. HandPlayed(ts, d)
    BY <1>1, <1>2, <1>4, <2>1 DEF HandPlayed
  <2> QED BY <2>2, HandPlayedStep
<1> QED BY <1>3, <1>4

\* What the answer says when there is no hand left to play.
LEMMA AnswerTells ==
  ASSUME SimInv, ownHand.stage = "none", simTable.live, ~MoreHands
  PROVE  /\ Len(played) < job.request.hands =>
              Cardinality({a \in DealtIn \ {Guest} : LeftWith(a) > 0}) <= 1
         /\ \A a \in DealtIn :
              IF a \in DOMAIN stacks
              THEN a \in DOMAIN FinalStacks(played) /\ FinalStacks(played)[a] = stacks[a]
              ELSE a = Guest \/ LeftWith(a) = 0
<1>1. SimTypes /\ HandsInv /\ ChipsInv
  BY DEF SimInv
<1>2. /\ \A a \in DOMAIN stacks : stacks[a] = Brought(a)
      /\ \A a \in DealtIn \ DOMAIN stacks : a = Guest \/ LeftWith(a) = 0
      /\ \A a \in DealtIn \cap DOMAIN stacks : a \in DOMAIN Last(played).before
  BY <1>1 DEF ChipsInv
<1>3. ASSUME Len(played) < job.request.hands
      PROVE  Cardinality({a \in DealtIn \ {Guest} : LeftWith(a) > 0}) <= 1
  <2> DEFINE rich == {a \in DealtIn \ {Guest} : LeftWith(a) > 0}
  <2>1. rich \subseteq DOMAIN stacks
    BY <1>2
  <2>2. IsFiniteSet(DOMAIN stacks)
    BY <1>1, SimShapes
  <2> HIDE DEF rich
  <2>3. /\ Cardinality(rich) <= Cardinality(DOMAIN stacks) /\ IsFiniteSet(rich)
        /\ Cardinality(DOMAIN stacks) \in Nat
    BY <2>1, <2>2, FS_Subset, FS_CardinalityType
  <2>4. Cardinality(rich) \in Nat
    BY <2>3, FS_CardinalityType
  <2>5. ~(Cardinality(DOMAIN stacks) >= 2)
    BY <1>3 DEF MoreHands
  <2>6. Cardinality(rich) <= 1
    BY <2>3, <2>4, <2>5
  <2> QED BY <2>6 DEF rich
<1>4. ASSUME NEW a \in DealtIn
      PROVE  IF a \in DOMAIN stacks
             THEN a \in DOMAIN FinalStacks(played) /\ FinalStacks(played)[a] = stacks[a]
             ELSE a = Guest \/ LeftWith(a) = 0
  <2>1. CASE a \in DOMAIN stacks
    <3>1. played # <<>>
      BY DEF DealtIn
    <3>2. /\ a \in DOMAIN Last(played).before /\ LeftWith(a) = Last(played).after[a]
          /\ DOMAIN Last(played).after = DOMAIN Last(played).before
      BY <1>1, <1>2, <2>1, <3>1, LastIsLatest
    <3>3. FinalStacks(played) = Last(played).after
      BY <3>1 DEF FinalStacks
    <3>4. stacks[a] = LeftWith(a)
      BY <1>2, <2>1 DEF Brought
    <3> QED BY <2>1, <3>2, <3>3, <3>4
  <2>2. CASE a \notin DOMAIN stacks
    BY <1>2, <2>2
  <2> QED BY <2>1, <2>2
<1> QED BY <1>3, <1>4

LEMMA HandsPlayedStep == ASSUME SimInv, HandsPlayed PROVE SimInv'
<1>1. job.stage = "playing" /\ simHand = NoHand /\ ~MoreHands
  BY DEF HandsPlayed
<1>2. CASE ~simTable.live
  <2>1. FailsWith("not_found") /\ traceLog' = traceLog
    BY <1>2 DEF HandsPlayed
  <2>2. FailureHas("not_found")
    BY <1>1, <1>2, <2>1 DEF FailureHas, Running, Failures, SimInv, SimTypes
  <2> QED BY <2>2, FailedStep
<1>3. CASE simTable.live
  <2>1. /\ job' = [job EXCEPT !.stage = "saving", !.answered = stacks]
        /\ UNCHANGED <<form, submission, stacks, simTable, simHand, ownHand, played, traceLog, artifact>>
    BY <1>3 DEF HandsPlayed, seating
  <2>2. job \in [stage : JobStages, by : {"page", "api", "schedule"}, request : Requests,
                 seated : Nat, failure : Failures, answered : {job.answered}]
    BY DEF SimInv, SimTypes
  <2>3. /\ job'.stage = "saving" /\ job'.answered = stacks /\ job'.by = job.by
        /\ job'.request = job.request /\ job'.failure = job.failure
        /\ job' \in [stage : JobStages, by : {"page", "api", "schedule"}, request : Requests,
                     seated : Nat, failure : Failures, answered : {job'.answered}]
    BY <2>1, <2>2 DEF JobStages
  <2>4. /\ Bots' = Bots /\ Anyone' = Anyone /\ DealtIn' = DealtIn
        /\ \A a : Bought(a)' = Bought(a) /\ LeftWith(a)' = LeftWith(a) /\ Brought(a)' = Brought(a)
        /\ FinalStacks(played)' = FinalStacks(played)
        /\ PageAccepts(job.request)' = PageAccepts(job.request)
    BY <2>1, <2>3, PlayedStays
  <2>5. SimTypes'
    BY <2>1, <2>3, <2>4 DEF SimInv, SimTypes, HandOf
  <2>6. JobInv'
    <3>1. Excused'
      BY <1>1, <2>1, <2>3 DEF SimInv, JobInv, Excused
    <3> QED BY <1>1, <2>1, <2>3, <2>4, <3>1 DEF SimInv, JobInv
  <2>7. SeatingInv'
    BY <1>1, <2>1, <2>3 DEF SimInv, SeatingInv
  <2>8. HandsInv'
    BY <2>1, <2>3, HandsStay DEF SimInv, SimTypes
  <2>9. ChipsInv'
    BY <2>1, <2>4 DEF SimInv, ChipsInv
  <2>10. TracesInv'
    BY <1>1, <2>1, TracesStay DEF SimInv
  <2>11. SavedInv'
    <3>1. ownHand.stage = "none" => AnswerInv'
      <4> SUFFICES ASSUME ownHand.stage = "none" PROVE AnswerInv'
        OBVIOUS
      <4>1. {a \in DealtIn \ {Guest} : LeftWith(a) > 0}' = {a \in DealtIn \ {Guest} : LeftWith(a) > 0}
        BY <2>4
      <4>2. /\ Len(played) < job.request.hands =>
                 Cardinality({a \in DealtIn \ {Guest} : LeftWith(a) > 0}) <= 1
            /\ \A a \in DealtIn :
                 IF a \in DOMAIN stacks
                 THEN a \in DOMAIN FinalStacks(played) /\ FinalStacks(played)[a] = stacks[a]
                 ELSE a = Guest \/ LeftWith(a) = 0
        BY <1>1, <1>3, AnswerTells
      <4> QED BY <2>1, <2>3, <2>4, <4>1, <4>2 DEF AnswerInv
    <3>2. artifact = NoArtifact
      BY <1>1 DEF SimInv, SavedInv
    <3> QED BY <2>1, <2>3, <3>1, <3>2 DEF SavedInv
  <2> QED BY <2>5, <2>6, <2>7, <2>8, <2>9, <2>10, <2>11 DEF SimInv
<1> QED BY <1>2, <1>3

LEMMA SaveMatchStep == ASSUME SimInv, SaveMatch PROVE SimInv'
<1>1. /\ job.stage = "saving" /\ artifact' = Told /\ job' = [job EXCEPT !.stage = "saved"]
      /\ UNCHANGED <<form, submission, stacks, simTable, simHand, ownHand, played, traceLog>>
  BY DEF SaveMatch, Told, seating
<1>2. job \in [stage : JobStages, by : {"page", "api", "schedule"}, request : Requests,
               seated : Nat, failure : Failures, answered : {job.answered}]
  BY DEF SimInv, SimTypes
<1>3. /\ job'.stage = "saved" /\ job'.answered = job.answered /\ job'.by = job.by
      /\ job'.request = job.request /\ job'.failure = job.failure
      /\ job' \in [stage : JobStages, by : {"page", "api", "schedule"}, request : Requests,
                   seated : Nat, failure : Failures, answered : {job'.answered}]
  BY <1>1, <1>2 DEF JobStages
<1>4. /\ Bots' = Bots /\ Anyone' = Anyone /\ DealtIn' = DealtIn
      /\ \A a : Bought(a)' = Bought(a) /\ LeftWith(a)' = LeftWith(a) /\ Brought(a)' = Brought(a)
      /\ FinalStacks(played)' = FinalStacks(played)
      /\ PageAccepts(job.request)' = PageAccepts(job.request)
  BY <1>1, <1>3, PlayedStays
<1>5. SimTypes'
  BY <1>1, <1>3, <1>4 DEF SimInv, SimTypes, HandOf
<1>6. JobInv'
  <2>1. Excused'
    BY <1>1, <1>3 DEF SimInv, JobInv, Excused
  <2> QED BY <1>1, <1>3, <1>4, <2>1 DEF SimInv, JobInv
<1>7. SeatingInv'
  BY <1>1, <1>3 DEF SimInv, SeatingInv
<1>8. HandsInv'
  BY <1>1, <1>3, HandsStay DEF SimInv, SimTypes
<1>9. ChipsInv'
  BY <1>1, <1>4 DEF SimInv, ChipsInv
<1>10. TracesInv'
  BY <1>1, TracesStay DEF SimInv
<1>11. SavedInv'
  <2>1. Told' = Told
    BY <1>1 DEF Told
  <2>2. AnswerInv' = AnswerInv
    <3>1. {a \in DealtIn \ {Guest} : LeftWith(a) > 0}' = {a \in DealtIn \ {Guest} : LeftWith(a) > 0}
      BY <1>4
    <3> QED BY <1>1, <1>3, <1>4, <3>1 DEF AnswerInv
  <2> QED BY <1>1, <1>3, <2>1, <2>2 DEF SimInv, SavedInv
<1> QED BY <1>5, <1>6, <1>7, <1>8, <1>9, <1>10, <1>11 DEF SimInv

LEMMA NextSimInv == SimInv /\ [SimNext]_simVars => SimInv'
<1> SUFFICES ASSUME SimInv, [SimNext]_simVars PROVE SimInv'
  OBVIOUS
<1>1. CASE UNCHANGED simVars
  <2>1. UNCHANGED <<form, submission, job, seating, played, traceLog, artifact>>
    BY <1>1 DEF simVars
  <2>2. AtTheTable' /\ Excused' = Excused
    BY <2>1, TableStays
  <2>3. SimTypes'
    <3>1. form' \in Requests
      BY <2>1 DEF SimInv, SimTypes
    <3> QED BY <2>1, <3>1, TypesStay DEF SimInv
  <2>4. JobInv'
    BY <2>1, <2>2, PlayedStays DEF SimInv, JobInv, seating
  <2> QED BY <2>2, <2>3, <2>4 DEF SimInv, AtTheTable
<1>2. CASE UpdateField \/ UpdateAgent \/ AddAgent \/ RemoveFormAgent
  BY <1>2, FormStep
<1>3. CASE Submitted
  BY <1>3, SubmittedStep
<1>4. CASE Posted
  BY <1>4, PostedStep
<1>5. CASE Scheduled
  BY <1>5, ScheduledStep
<1>6. CASE SeatNext
  BY <1>6, SeatNextStep
<1>7. CASE StorageFails
  BY <1>7, StorageFailsStep
<1>8. CASE GuestSits
  BY <1>8, GuestSitsStep
<1>9. CASE GuestLeaves
  BY <1>9, GuestLeavesStep
<1>10. CASE TableDeleted
  BY <1>10, TableDeletedStep
<1>11. CASE OwnerDeals
  BY <1>11, OwnerDealsStep
<1>12. CASE OwnerHandEnds
  BY <1>12, OwnerHandEndsStep
<1>13. CASE OwnerSaveFails
  BY <1>13, OwnerSaveFailsStep
<1>14. CASE DealHand
  BY <1>14, DealHandStep
<1>15. CASE EndHand
  BY <1>15, EndHandStep
<1>16. CASE HandsPlayed
  BY <1>16, HandsPlayedStep
<1>17. CASE SaveMatch
  BY <1>17, SaveMatchStep
<1>18. CASE Answered
  BY <1>18, AnsweredStep
<1> QED BY <1>1, <1>2, <1>3, <1>4, <1>5, <1>6, <1>7, <1>8, <1>9, <1>10, <1>11, <1>12,
           <1>13, <1>14, <1>15, <1>16, <1>17, <1>18 DEF SimNext

\* The invariant of a simulated match, from the form to the artifact, with a guest who
\* comes and goes, an owner who deals or deletes the table, and a store that may fail.
THEOREM SimulationInvariant == SimSpec => []SimInv
BY InitSimInv, NextSimInv, PTL DEF SimSpec

LEMMA SimulationAlone == ServicesSpec => SimSpec
<1>1. ServicesInit => SimInit
  BY DEF ServicesInit
<1>2. [ServicesNext]_serviceVars => [SimNext]_simVars
  BY DEF ServicesNext, serviceVars, NpcOnly, TableOnly, SimOnly, RecordsOnly, ArchiveOnly, AccountsOnly
<1> QED BY <1>1, <1>2, PTL DEF ServicesSpec, SimSpec

\* The artifact of a simulated match tells it as it was played, whoever started it,
\* whoever joined it or left and however it ended; and a match without one has a
\* cause: routes/simulate.ts, orchestrator.ts and match-artifact-serialization.ts.
THEOREM SimulationIsSound == ServicesSpec => []SimulationSound
BY SimulationInvariant, SimulationAlone, SimSound, PTL
=============================================================================
