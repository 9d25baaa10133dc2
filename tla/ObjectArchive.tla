---------------------------- MODULE ObjectArchive ----------------------------
(***************************************************************************)
(* Finished matches in an object store: ObjectWerewolfMatchArtifactStore,   *)
(* its poker twin ObjectMatchArtifactStore, and                             *)
(* ObjectWerewolfDecisionTraceStore, which logs the traces of a running     *)
(* match (packages/persistence/src).                                        *)
(*                                                                          *)
(* Every get and put is awaited on its own.  The index of all matches is    *)
(* one object, read and written back by every save and every delete; so is  *)
(* the trace file of a match, but there a chain of promises per match lets  *)
(* one append run at a time.                                                *)
(***************************************************************************)
EXTENDS Naturals, Sequences, FiniteSets, SequencesExt

CONSTANTS Matches, Appends,   \* saved matches, appends to one match's trace file
          MaxIndexEntries,    \* limits.maxIndexEntries
          MaxDeletes          \* a bound

ASSUME ArchiveAssumption ==
  IsFiniteSet(Matches) /\ MaxIndexEntries \in Nat \ {0} /\ MaxDeletes \in Nat

VARIABLES blobs,   \* the objects of each match
          index,   \* matches/index.json, a set: it is sorted by createdAt
          created, \* createdAt of each match, 0 before its save
          saver, deleter, \* saveMatchArtifact and deleteMatchArtifact of each match:
                   \* what they still put or delete and the index they have read
          overtaken, \* some index was written from a reading that was out of date
          tail,    \* the chain of appends: those that wait or run, in order
          readFile, \* what the running append has read, or NotRead
          traceFile, logged \* the file, and the appends that have returned

archiveVars == <<blobs, index, created, saver, deleter, overtaken,
                 tail, readFile, traceFile, logged>>
artifacts == <<blobs, index, created, saver, deleter, overtaken>>
traces == <<tail, readFile, traceFile, logged>>

\* The order of the puts, and of the deletes.
BugManifestFirst == <<"manifest", "summary", "replay", "decision-trace">>
PutOrder == <<"summary", "replay", "decision-trace", "manifest">>
Parts == ToSet(PutOrder)
Idle == [at |-> "idle"]
NotRead == [at |-> "waiting"]

-----------------------------------------------------------------------------
(* saveMatchArtifact.                                                       *)

BeginSave(m) ==
  /\ saver[m] = Idle /\ tail = <<>>
  /\ created' = [created EXCEPT ![m] = 1 + Cardinality({k \in Matches : created[k] > 0})]
  /\ saver' = [saver EXCEPT ![m] = [at |-> "put", todo |-> PutOrder]]
  /\ UNCHANGED <<blobs, index, deleter, overtaken, traces>>

PutBlob(m) ==
  /\ saver[m].at = "put" /\ saver[m].todo # <<>>
  /\ blobs' = [blobs EXCEPT ![m] = @ \cup {Head(saver[m].todo)}]
  /\ saver' = [saver EXCEPT ![m] = [at |-> "put", todo |-> Tail(@.todo)]]
  /\ UNCHANGED <<index, created, deleter, overtaken, traces>>

ReadIndexToAdd(m) ==
  /\ saver[m].at = "put" /\ saver[m].todo = <<>>
  /\ saver' = [saver EXCEPT ![m] = [at |-> "index", read |-> index]]
  /\ UNCHANGED <<blobs, index, created, deleter, overtaken, traces>>

\* slice(0, maxIndexEntries) of the list, newest first.
Newest(ms) ==
  {m \in ms : Cardinality({k \in ms : created[k] > created[m]}) < MaxIndexEntries}

BugKeepsAll(entries, m) == entries \cup {m}
WithEntry(entries, m) == Newest(entries \cup {m})

AddToIndex(m) ==
  /\ saver[m].at = "index"
  /\ index' = WithEntry(saver[m].read, m)
  /\ overtaken' = (overtaken \/ saver[m].read # index)
  /\ saver' = [saver EXCEPT ![m] = [at |-> "done"]]
  /\ UNCHANGED <<blobs, created, deleter, traces>>

\* A put fails: saveMatchArtifact throws, what it has put remains.
SaveFails(m) ==
  /\ saver[m].at \in {"put", "index"}
  /\ saver' = [saver EXCEPT ![m] = [at |-> "failed"]]
  /\ UNCHANGED <<blobs, index, created, deleter, overtaken, traces>>

-----------------------------------------------------------------------------
(* deleteMatchArtifact.                                                     *)

BeginDelete(m) ==
  /\ deleter[m] = Idle /\ saver[m] # Idle
  /\ Cardinality({k \in Matches : deleter[k] # Idle}) < MaxDeletes
  /\ deleter' = [deleter EXCEPT ![m] = [at |-> "delete", todo |-> PutOrder]]
  /\ UNCHANGED <<blobs, index, created, saver, overtaken, traces>>

DeleteBlob(m) ==
  /\ deleter[m].at = "delete" /\ deleter[m].todo # <<>>
  /\ blobs' = [blobs EXCEPT ![m] = @ \ {Head(deleter[m].todo)}]
  /\ deleter' = [deleter EXCEPT ![m] = [at |-> "delete", todo |-> Tail(@.todo)]]
  /\ UNCHANGED <<index, created, saver, overtaken, traces>>

ReadIndexToPrune(m) ==
  /\ deleter[m].at = "delete" /\ deleter[m].todo = <<>>
  /\ deleter' = [deleter EXCEPT ![m] = [at |-> "index", read |-> index]]
  /\ UNCHANGED <<blobs, index, created, saver, overtaken, traces>>

PruneIndex(m) ==
  /\ deleter[m].at = "index"
  /\ index' = deleter[m].read \ {m}
  /\ overtaken' = (overtaken \/ deleter[m].read # index)
  /\ deleter' = [deleter EXCEPT ![m] = [at |-> "done"]]
  /\ UNCHANGED <<blobs, created, saver, traces>>

-----------------------------------------------------------------------------
(* appendDecisionTrace, of a match that still runs.  The trace file and the  *)
(* artifacts share no state: the appends are explored before the first save. *)

Chain(a) == Append(tail, a)
CallAppend(a) ==
  /\ a \notin ToSet(tail) \cup logged /\ \A m \in Matches : saver[m] = Idle
  /\ tail' = Chain(a)
  /\ UNCHANGED <<artifacts, readFile, traceFile, logged>>

\* Runs when the append before it in the chain has ended.
BugNoChain(a) == TRUE
MayRun(a) == Head(tail) = a
ReadTraceFile(a) ==
  /\ a \in ToSet(tail) /\ MayRun(a) /\ readFile[a] = NotRead
  /\ readFile' = [readFile EXCEPT ![a] = [at |-> "read", file |-> traceFile]]
  /\ UNCHANGED <<artifacts, tail, traceFile, logged>>

WriteTraceFile(a) ==
  /\ readFile[a] # NotRead
  /\ traceFile' = readFile[a].file \cup {a}
  /\ logged' = logged \cup {a}
  /\ \E i \in DOMAIN tail : tail[i] = a /\ tail' = RemoveAt(tail, i)
  /\ readFile' = [readFile EXCEPT ![a] = NotRead]
  /\ UNCHANGED artifacts

-----------------------------------------------------------------------------
ArchiveInit ==
  /\ blobs = [m \in Matches |-> {}] /\ index = {} /\ created = [m \in Matches |-> 0]
  /\ saver = [m \in Matches |-> Idle] /\ deleter = [m \in Matches |-> Idle]
  /\ overtaken = FALSE
  /\ tail = <<>> /\ readFile = [a \in Appends |-> NotRead]
  /\ traceFile = {} /\ logged = {}

ArchiveNext ==
  \/ \E m \in Matches :
       \/ BeginSave(m) \/ PutBlob(m) \/ ReadIndexToAdd(m) \/ AddToIndex(m) \/ SaveFails(m)
       \/ BeginDelete(m) \/ DeleteBlob(m) \/ ReadIndexToPrune(m) \/ PruneIndex(m)
  \/ \E a \in Appends : CallAppend(a) \/ ReadTraceFile(a) \/ WriteTraceFile(a)

ArchiveSpec == ArchiveInit /\ [][ArchiveNext]_archiveVars

-----------------------------------------------------------------------------
Untouched(m) == deleter[m] = Idle
Stored(m) == saver[m].at = "done"

\* The archive is sound.  What the index lists, or what has its manifest, is all
\* there unless it is being deleted; a saved match is listed unless newer ones
\* fill the index or two writers of the index overlapped; and no trace that was
\* acknowledged is lost, whoever appends at the same time.
ArchiveSound ==
  /\ \A m \in Matches :
       Untouched(m) /\ (m \in index \/ "manifest" \in blobs[m]) => blobs[m] = Parts
  /\ overtaken \/ \A m \in Matches :
       /\ Stored(m) /\ Untouched(m) /\ m \notin index =>
            Cardinality({k \in Matches : created[k] > created[m]}) >= MaxIndexEntries
       /\ deleter[m].at = "done" /\ saver[m].at \in {"failed", "done"} /\ m \in index =>
            saver[m].at = "done"
  /\ Cardinality(index) <= MaxIndexEntries
  /\ logged \subseteq traceFile
=============================================================================
