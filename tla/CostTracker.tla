----------------------------- MODULE CostTracker -----------------------------
(***************************************************************************)
(* The audit rows of src/src/cost_tracker.rs.  record_request,             *)
(* record_error and record_shadow_comparison each spawn a task that writes *)
(* one row; nobody waits for it and nobody learns that it failed.          *)
(***************************************************************************)
EXTENDS Naturals, FiniteSets, Functions

VARIABLES
  queued,    \* rows of spawned tasks that have not written yet
  logs,      \* the table request_logs
  shadows,   \* the table shadow_comparisons
  dropped    \* rows that were never written

trackerVars == <<queued, logs, shadows, dropped>>

TrackerInit == queued = {} /\ logs = {} /\ shadows = {} /\ dropped = {}

LogRow(r, status, cost) == [id |-> r, kind |-> "log", status |-> status, cost |-> cost]

(* record_request and write_request_log *)
SuccessRow(r, cost) == LogRow(r, "success", cost)

(* Mutant: the status is left to the column's default. *)
FailedRowDefault(r) == LogRow(r, "success", 0)

(* record_error: no tokens, no cost *)
FailedRow(r) == LogRow(r, "failed", 0)

(* Mutant: the shadow call's cost is not written. *)
ShadowRowUnpriced(r, status, cost) ==
  [id |-> r, kind |-> "shadow", status |-> status, cost |-> 0]

(* record_shadow_comparison: the cost is NULL unless the call was answered *)
ShadowRow(r, status, cost) ==
  [id |-> r, kind |-> "shadow", status |-> status, cost |-> IF status = "answered" THEN cost ELSE 0]

Queue(row) == queued' = queued \cup {row} /\ UNCHANGED <<logs, shadows, dropped>>

(* Only request_logs has a UNIQUE request_id. *)
Conflicts(row) == row.kind = "log" /\ \E old \in logs : old.id = row.id

WriteRow(row) ==
  /\ row \in queued
  /\ ~Conflicts(row)
  /\ queued' = queued \ {row}
  /\ IF row.kind = "log"
     THEN logs' = logs \cup {row} /\ UNCHANGED shadows
     ELSE shadows' = shadows \cup {row} /\ UNCHANGED logs
  /\ UNCHANGED dropped

(* A database error is logged and the row is gone. *)
WriteFails(row) ==
  /\ row \in queued
  /\ queued' = queued \ {row}
  /\ dropped' = dropped \cup {row}
  /\ UNCHANGED <<logs, shadows>>

StopTracker ==
  /\ dropped' = dropped \cup queued
  /\ queued' = {}
  /\ UNCHANGED <<logs, shadows>>

CostOf(table) == SumFunction([row \in table |-> row.cost])

(* get_daily_report: total_cost_cents, and the counts beside it *)
DailyReport ==
  LET successes == {row \in logs : row.status = "success"}
  IN  [total_requests      |-> Cardinality(logs),
       successful_requests |-> Cardinality(successes),
       failed_requests     |-> Cardinality(logs \ successes),
       total_cost_cents    |-> CostOf(successes)]
=============================================================================
