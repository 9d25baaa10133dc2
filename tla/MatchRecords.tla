---------------------------- MODULE MatchRecords -----------------------------
(***************************************************************************)
(* What Postgres keeps of one werewolf match, and how it gets there:        *)
(* PostgresWerewolfOrchestrator.startMatch (which the lobby registry's      *)
(* runWithPersistence mirrors), PostgresWerewolfMatchRegistry, the replay   *)
(* event store, the decision trace store and the artifact store, with       *)
(* WerewolfMatchTtlCleaner.                                                 *)
(*                                                                          *)
(* Every write is a request of its own to PostgREST: it may fail, it may    *)
(* succeed although the answer is lost, and the process may die between any *)
(* two.  The rows of seats, events, traces and the summary reference the    *)
(* row of the match and go with it (ON DELETE CASCADE).                     *)
(***************************************************************************)
EXTENDS Naturals, FiniteSets, FiniteSetsExt

CONSTANTS MaxEvents,   \* replay events a match emits before its verdict, a bound
          MaxTraces,   \* DEFAULT_..._LIMITS.maxTracesPerMatch
          MaxFailures  \* a bound on what goes wrong

ASSUME RecordsAssumption == {MaxEvents, MaxTraces, MaxFailures} \subseteq Nat

VARIABLES row,      \* werewolf_matches: "none", a status, or "deleted"
          seatRows, \* werewolf_seats: "none", "seated" or "revealed"
          eventRows, traceRows, \* sequence numbers in the two logs
          summaryRow,
          match,    \* in memory: state, events emitted, steps traced, kept by the
                    \* orchestrator or not
          ingest,   \* appendEvent requests under way
          save,     \* saveMatchArtifact: where it is and the traces it still writes
          failures

recordVars == <<row, seatRows, eventRows, traceRows, summaryRow, match, ingest, save, failures>>
tables == <<row, seatRows, eventRows, traceRows, summaryRow>>

HasRow == row \notin {"none", "deleted"}
MayFail == failures < MaxFailures
Fails == failures' = failures + 1
Decided == match.state = "decided"

-----------------------------------------------------------------------------
(* Registry.createMatch and startMatch.                                     *)

InsertMatch ==
  /\ match.state = "new" /\ row = "none"
  /\ row' = "running"
  /\ UNCHANGED <<seatRows, eventRows, traceRows, summaryRow, match, ingest, save, failures>>

InsertSeats ==
  /\ match.state = "new" /\ row = "running" /\ seatRows = "none"
  /\ seatRows' = "seated"
  /\ UNCHANGED <<row, eventRows, traceRows, summaryRow, match, ingest, save, failures>>

StartRun ==
  /\ match.state = "new" /\ seatRows = "seated"
  /\ match' = [match EXCEPT !.state = "running"]
  /\ UNCHANGED <<tables, ingest, save, failures>>

\* Either insert fails, or the in-memory match cannot be made: startMatch throws
\* and leaves in the database what it has written.
StartThrows ==
  /\ match.state = "new" /\ MayFail /\ Fails
  /\ match' = [match EXCEPT !.state = "failed"]
  /\ UNCHANGED <<tables, ingest, save>>

-----------------------------------------------------------------------------
(* The match runs: each step emits events, which nobody waits for, and then *)
(* waits for its decision trace.                                            *)

Emit(state) ==
  /\ match' = [match EXCEPT !.state = state, !.events = @ + 1]
  /\ ingest' = ingest \cup {match.events + 1}

Step ==
  /\ match.state = "running" /\ match.events < MaxEvents
  /\ Emit("tracing")
  /\ UNCHANGED <<tables, save, failures>>

\* appendDecisionTrace of the Postgres store: refused at the limit.
Traced(rows, seq) == IF Cardinality(rows) >= MaxTraces THEN rows ELSE rows \cup {seq}

RecordTrace ==
  /\ match.state = "tracing"
  /\ traceRows' = IF HasRow THEN Traced(traceRows, match.events) ELSE traceRows
  /\ match' = [match EXCEPT !.state = "running"]
  /\ UNCHANGED <<row, seatRows, eventRows, summaryRow, ingest, save, failures>>

\* The runner catches what the trace store throws and plays on.
TraceFails ==
  /\ match.state = "tracing" /\ MayFail /\ Fails
  /\ match' = [match EXCEPT !.state = "running"]
  /\ UNCHANGED <<tables, ingest, save>>

\* ON CONFLICT DO NOTHING, and a foreign key to the match.
IngestEvent(seq) ==
  /\ seq \in ingest
  /\ ingest' = ingest \ {seq}
  /\ eventRows' = IF HasRow THEN eventRows \cup {seq} ELSE eventRows
  /\ UNCHANGED <<row, seatRows, traceRows, summaryRow, match, save, failures>>

IngestFails(seq) ==
  /\ seq \in ingest /\ MayFail /\ Fails
  /\ ingest' = ingest \ {seq}
  /\ UNCHANGED <<tables, match, save>>

RunFails ==
  /\ match.state = "running" /\ MayFail /\ Fails
  /\ match' = [match EXCEPT !.state = "failed"]
  /\ UNCHANGED <<tables, ingest, save>>

Decide ==
  /\ match.state = "running"
  /\ Emit("decided")
  /\ save' = [save EXCEPT !.at = "start"]
  /\ UNCHANGED <<tables, failures>>

-----------------------------------------------------------------------------
(* persistArtifact and saveMatchArtifact, one request after the other.      *)

\* What a stage does may have happened although the caller sees it fail.
Saved(next) == save'.at = next /\ failures' = failures
Lost == save'.at = "failed" /\ MayFail /\ Fails
Goes(next) == (Saved(next) \/ Lost) /\ UNCHANGED <<match, ingest>>

\* listDecisionTraces; the limits are checked before the first write.
ReadTraces ==
  /\ save.at = "start"
  /\ save' \in [at : {"match", "failed"}, todo : {traceRows}]
  /\ Goes("match") /\ UNCHANGED tables

SaveMatchRow ==
  /\ save.at = "match"
  /\ row' = IF HasRow THEN "completed" ELSE row  \* an update of no row is no error
  /\ save' \in [at : {"seats", "failed"}, todo : {save.todo}]
  /\ Goes("seats")
  /\ UNCHANGED <<seatRows, eventRows, traceRows, summaryRow>>

RevealSeats ==
  /\ save.at = "seats" /\ HasRow
  /\ seatRows' = "revealed"
  /\ save' \in [at : {"events", "failed"}, todo : {save.todo}]
  /\ Goes("events")
  /\ UNCHANGED <<row, eventRows, traceRows, summaryRow>>

\* Back-fills what the live ingestion has not stored.
BugNoBackfill == eventRows
BackfilledEvents == eventRows \cup 1..match.events
BackfillEvents ==
  /\ save.at = "events" /\ HasRow
  /\ eventRows' = BackfilledEvents
  /\ save' \in [at : {"traces", "failed"}, todo : {save.todo}]
  /\ Goes("traces")
  /\ UNCHANGED <<row, seatRows, traceRows, summaryRow>>

\* One trace after the other, each refused at the limit, a stored one as well.
BackfillTrace ==
  /\ save.at = "traces" /\ save.todo # {} /\ HasRow
  /\ Cardinality(traceRows) < MaxTraces
  /\ traceRows' = traceRows \cup {Min(save.todo)}
  /\ save' \in [at : {"traces", "failed"}, todo : {save.todo \ {Min(save.todo)}}]
  /\ Goes("traces")
  /\ UNCHANGED <<row, seatRows, eventRows, summaryRow>>

SaveSummary ==
  /\ save.at = "traces" /\ save.todo = {} /\ HasRow
  /\ summaryRow' = TRUE
  /\ save' \in [at : {"done", "failed"}, todo : {{}}]
  /\ Goes("done")
  /\ UNCHANGED <<row, seatRows, eventRows, traceRows>>

\* Refused: the row it references is gone, or the traces are at their limit.
SaveRefused ==
  /\ \/ save.at \in {"seats", "events", "traces"} /\ ~HasRow
     \/ save.at = "traces" /\ save.todo # {} /\ Cardinality(traceRows) >= MaxTraces
  /\ save' = [save EXCEPT !.at = "failed"]
  /\ UNCHANGED <<tables, match, ingest, failures>>

-----------------------------------------------------------------------------
(* The process dies; what it has sent may still arrive.                     *)
Crash ==
  /\ match.state \notin {"new", "crashed"} /\ MayFail /\ Fails
  /\ match' = [match EXCEPT !.state = "crashed", !.kept = FALSE]
  /\ save' = IF save.at \in {"none", "done"} THEN save ELSE [save EXCEPT !.at = "failed"]
  /\ UNCHANGED <<tables, ingest>>

DeleteMatchArtifact ==
  /\ HasRow
  /\ row' = "deleted" /\ seatRows' = "none" /\ eventRows' = {} /\ traceRows' = {}
  /\ summaryRow' = FALSE
  /\ UNCHANGED <<match, ingest, save, failures>>

BugListsCompleted == row = "completed"
\* listMatchArtifacts: a match that has its summary, and an outcome.
Listed == summaryRow /\ row = "completed"

\* WerewolfMatchTtlCleaner.runOnce, with the time to live over: it goes by what
\* the store lists, not by the state of the match in memory.
Clean ==
  /\ Listed /\ match.kept
  /\ match' = [match EXCEPT !.kept = FALSE]
  /\ UNCHANGED <<tables, ingest, save, failures>>

-----------------------------------------------------------------------------
RecordsInit ==
  /\ row = "none" /\ seatRows = "none" /\ eventRows = {} /\ traceRows = {}
  /\ summaryRow = FALSE
  /\ match = [state |-> "new", events |-> 0, kept |-> TRUE]
  /\ ingest = {} /\ save = [at |-> "none", todo |-> {}] /\ failures = 0

SaveStep ==
  \/ ReadTraces \/ SaveMatchRow \/ RevealSeats \/ BackfillEvents
  \/ BackfillTrace \/ SaveSummary \/ SaveRefused

RunStep ==
  \/ InsertMatch \/ InsertSeats \/ StartRun \/ StartThrows
  \/ Step \/ RecordTrace \/ TraceFails \/ RunFails \/ Decide
  \/ \E seq \in ingest : IngestEvent(seq) \/ IngestFails(seq)

RecordsNext == RunStep \/ SaveStep \/ Crash \/ DeleteMatchArtifact \/ Clean

RecordsSpec == RecordsInit /\ [][RecordsNext]_recordVars

-----------------------------------------------------------------------------
\* A record that can be read is complete: with its summary go the outcome, every
\* role and every event up to the verdict, although the live ingestion may have
\* lost any of them; and only a decided match is ever marked completed.
RecordsComplete ==
  /\ summaryRow =>
       /\ row = "completed" /\ seatRows = "revealed"
       /\ eventRows = 1..match.events
       /\ Decided \/ match.state = "crashed"
  /\ row = "completed" => save.at \notin {"none", "start"}
  /\ eventRows \subseteq 1..match.events

\* A decided match gets its record unless a request failed, somebody deleted the
\* match, or it has as many traces as a match may have; the cleaner takes nothing
\* out of memory that has no record yet.
RecordsKept ==
  /\ save.at = "failed" =>
       failures > 0 \/ row = "deleted" \/ Cardinality(traceRows) >= MaxTraces
  /\ save.at = "done" => summaryRow \/ row = "deleted"
  /\ ~match.kept => summaryRow \/ row = "deleted" \/ match.state = "crashed"

\* The two together: what can be read of a match is complete, and what a match
\* left behind can be read.
RecordsSound == RecordsComplete /\ RecordsKept
=============================================================================
