------------------------------ MODULE Telemetry ------------------------------
(***************************************************************************)
(* The telemetry recorder of src/src/telemetry.rs.  Every answered request *)
(* spawns a task that pushes one record on a shared buffer; the task that  *)
(* fills the buffer flushes it to a new file.  The buffer's lock is let go *)
(* between the push and the flush, and a flush that fails keeps the buffer *)
(* after part of it may have reached the file.                             *)
(***************************************************************************)
EXTENDS Naturals, Sequences, FiniteSets

CONSTANTS
  Events,     \* the records, one for each answered request
  MaxBuffer   \* max_buffer_size

ASSUME MaxBufferAssumption == MaxBuffer \in Nat \ {0}

VARIABLES
  recorder,   \* the task of each record: none, push, flush, done
  buffer,     \* the records in memory, oldest first
  disk,       \* how many lines of the files hold each record
  failures,   \* how many failed flushes each record was in
  lost        \* the records that were in memory when the process stopped

telemetryVars == <<recorder, buffer, disk, failures, lost>>

Buffered == {buffer[i] : i \in DOMAIN buffer}

TelemetryTypeOK ==
  /\ recorder \in [Events -> {"none", "push", "flush", "done"}]
  /\ buffer   \in Seq(Events)
  /\ disk     \in [Events -> Nat]
  /\ failures \in [Events -> Nat]
  /\ lost     \subseteq Events

TelemetryInit ==
  /\ recorder = [e \in Events |-> "none"]
  /\ buffer   = <<>>
  /\ disk     = [e \in Events |-> 0]
  /\ failures = [e \in Events |-> 0]
  /\ lost     = {}

(* main.rs spawns record() and answers the client without waiting for it. *)
SpawnRecord(e) ==
  /\ recorder[e] = "none"
  /\ recorder' = [recorder EXCEPT ![e] = "push"]
  /\ UNCHANGED <<buffer, disk, failures, lost>>

(* Mutant: the buffer is flushed when it is over its size. *)
FlushDueOver(length) == length > MaxBuffer

FlushDue(length) == length >= MaxBuffer

(* record, up to the point where it lets go of the lock. *)
Push(e) ==
  /\ recorder[e] = "push"
  /\ buffer' = Append(buffer, e)
  /\ recorder' = [recorder EXCEPT ![e] = IF FlushDue(Len(buffer')) THEN "flush" ELSE "done"]
  /\ UNCHANGED <<disk, failures, lost>>

(* Mutant: the last of the lines is left out. *)
WrittenButLast(upTo) ==
  [e \in Events |-> disk[e] + Cardinality({i \in 1..(upTo - 1) : buffer[i] = e})]

(* The first lines of the buffer, appended to a file. *)
Written(upTo) ==
  [e \in Events |-> disk[e] + Cardinality({i \in 1..upTo : buffer[i] = e})]

(* flush: someone else emptied the buffer in the meantime. *)
FlushNothing(e) ==
  /\ recorder[e] = "flush"
  /\ buffer = <<>>
  /\ recorder' = [recorder EXCEPT ![e] = "done"]
  /\ UNCHANGED <<buffer, disk, failures, lost>>

(* Mutant: no buffer.clear(). *)
AfterFlushUncleared == buffer

AfterFlush == <<>>

FlushWrites(e) ==
  /\ recorder[e] = "flush"
  /\ buffer # <<>>
  /\ disk' = Written(Len(buffer))
  /\ buffer' = AfterFlush
  /\ recorder' = [recorder EXCEPT ![e] = "done"]
  /\ UNCHANGED <<failures, lost>>

(* Mutant: the buffer is emptied whether or not the flush succeeds. *)
AfterFailedFlushCleared == <<>>

AfterFailedFlush == buffer

(* An error of open, write or flush returns before buffer.clear(), when the
   first lines may already be in the file. *)
FlushFails(e) ==
  /\ recorder[e] = "flush"
  /\ buffer # <<>>
  /\ \E k \in 0..Len(buffer) : disk' = Written(k)
  /\ buffer' = AfterFailedFlush
  /\ failures' = [f \in Events |-> IF f \in Buffered THEN failures[f] + 1 ELSE failures[f]]
  /\ recorder' = [recorder EXCEPT ![e] = "done"]
  /\ UNCHANGED lost

(* Nothing flushes the buffer when the process stops, and its tasks end. *)
StopRecorder ==
  /\ lost' = lost \cup Buffered \cup {e \in Events : recorder[e] = "push"}
  /\ buffer' = <<>>
  /\ recorder' = [e \in Events |-> IF recorder[e] = "none" THEN "none" ELSE "done"]
  /\ UNCHANGED <<disk, failures>>

TelemetryNext ==
  \/ \E e \in Events : \/ SpawnRecord(e) \/ Push(e)
                       \/ FlushNothing(e) \/ FlushWrites(e) \/ FlushFails(e)
  \/ StopRecorder

TelemetrySpec == TelemetryInit /\ [][TelemetryNext]_telemetryVars

---------------------------------------------------------------------------
(* A record that record() took is in the buffer, in a file, or was in memory
   when the process stopped: neither a failed flush nor a second one in the
   same moment drops any. *)
Kept ==
  \A e \in Events : recorder[e] \in {"flush", "done"} =>
    e \in Buffered \/ disk[e] > 0 \/ e \in lost

(* A record has more than one line in the files only when a flush that held it
   failed half way, one extra line for each failed flush at most. *)
NoExtraCopies ==
  \A e \in Events :
    disk[e] <= failures[e] + (IF e \in Buffered \/ recorder[e] \in {"none", "push"} THEN 0 ELSE 1)

(* A full buffer has a task about to flush it, unless a flush failed since:
   then it waits, above its limit, for the next record. *)
FullBufferIsFlushed ==
  Len(buffer) >= MaxBuffer =>
    \/ \E e \in Events : recorder[e] = "flush"
    \/ \E e \in Buffered : failures[e] > 0
=============================================================================
