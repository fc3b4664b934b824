------------------------------- MODULE Records -------------------------------
(***************************************************************************)
(* What requests leave behind (main.rs, streaming.rs): answers in the      *)
(* cache, rows of the audit log, shadow comparisons, telemetry records and *)
(* the cents charged to the spend guard.  All but the charge are left by   *)
(* spawned tasks that race with each other, with later requests and with   *)
(* the process stopping.  Admission, routing and prices are in other       *)
(* modules: here a request that is turned away just ends.                  *)
(***************************************************************************)
EXTENDS Telemetry, SemanticCache, CostTracker

CONSTANTS
  Streams,      \* streamed requests; the others are Events, one record each
  Past,         \* requests whose answers an earlier process left in the cache
  Asks,         \* what each request of Events and Past may ask: [client, model, text]
  Shadowed,     \* those that carry a shadow_model
  CostOfCall,   \* what each request's call costs
  ShadowCost,   \* what its shadow call costs
  MaxStops,     \* bound: how often the process stops
  MaxFaults     \* bound: how often a flush or a write to the database fails

Nobody == "nobody"

ASSUME RecordsAssumption ==
  /\ IsFiniteSet(Events)
  /\ Nobody \notin Events \cup Streams \cup Past
  /\ Streams \cap Events = {} /\ Past \cap (Events \cup Streams) = {}
  /\ Shadowed \subseteq Events
  /\ \A r \in Events \cup Past : \A a \in Asks[r] : a.text \in Int
  /\ CostOfCall \in [Events \cup Streams -> Nat]
  /\ ShadowCost \in [Shadowed -> Nat]
  /\ MaxStops \in Nat /\ MaxFaults \in Nat

VARIABLES
  phase,      \* new, exact, similar, call, audit, ended
  ask,        \* what a request asked
  answer,     \* the request whose call answered this one
  shadow,     \* the shadow task of a request: none, running, ended
  charged,    \* cents the spend guard was told requests really cost
  billed,     \* history: the calls that were answered and settled
  stops, faults

requestVars == <<phase, ask, answer, shadow, charged, billed, stops, faults>>
recordsVars == <<telemetryVars, cacheVars, trackerVars, requestVars>>

Requests == Events \cup Streams
NoAsk == [client |-> "nobody", model |-> "none", text |-> 0]
PossibleAsks == {NoAsk} \cup UNION {Asks[r] : r \in Events \cup Past}

RecordsInit ==
  /\ TelemetryInit /\ TrackerInit
  /\ phase   = [r \in Requests |-> "new"]
  /\ ask \in [Events \cup Past -> PossibleAsks]
  /\ \A r \in Events : ask[r] = NoAsk
  /\ \A r \in Past : ask[r] \in Asks[r]
  /\ CacheInit({RowOf(ask[r], r) : r \in Past})
  /\ answer  = [r \in Requests |-> Nobody]
  /\ shadow  = [r \in Shadowed |-> "none"]
  /\ charged = 0
  /\ billed  = {}
  /\ stops = 0 /\ faults = 0

Becomes(r, p) == phase' = [phase EXCEPT ![r] = p]

---------------------------------------------------------------------------
(* Requests that are not streamed: handle_non_streaming. *)

Arrive(r, a) ==
  /\ phase[r] = "new"
  /\ Becomes(r, "exact")
  /\ ask' = [ask EXCEPT ![r] = a]
  /\ UNCHANGED <<answer, shadow, charged, billed, stops, faults>>
  /\ UNCHANGED <<telemetryVars, cacheVars, trackerVars>>

(* A hit is answered at once: no row, no record, no charge, and it is not
   stored again. *)
Serve(r, row) ==
  /\ answer' = [answer EXCEPT ![r] = row.answer]
  /\ Becomes(r, "ended")
  /\ UNCHANGED <<ask, shadow, charged, billed, stops, faults>>
  /\ UNCHANGED <<telemetryVars, cacheVars, trackerVars>>

(* lookup's two queries are two round trips.  A query that fails, like a
   prompt that cannot be embedded, is a miss. *)
HitExact(r)   == phase[r] = "exact"   /\ \E row \in Exact(ask[r])   : Serve(r, row)
HitSimilar(r) == phase[r] = "similar" /\ \E row \in Similar(ask[r]) : Serve(r, row)

Miss(r) ==
  /\ \/ phase[r] = "exact"   /\ Becomes(r, "similar")
     \/ phase[r] = "similar" /\ Becomes(r, "call")
  /\ UNCHANGED <<ask, answer, shadow, charged, billed, stops, faults>>
  /\ UNCHANGED <<telemetryVars, cacheVars, trackerVars>>

(* The provider answered.  Nothing below waits, so all of it happens. *)
Answered(r) ==
  /\ phase[r] = "call" /\ r \in Events
  /\ Becomes(r, "ended")
  /\ answer' = [answer EXCEPT ![r] = r]
  /\ Store(ask[r], r)
  /\ charged' = charged + CostOfCall[r]
  /\ billed' = billed \cup {r}
  /\ SpawnRecord(r)
  /\ shadow' = [s \in Shadowed |-> IF s = r THEN "running" ELSE shadow[s]]
  /\ Queue(SuccessRow(r, CostOfCall[r]))
  /\ UNCHANGED <<rows, ask, stops, faults>>

(* The connector failed: an error row, and the reservation is released. *)
Failed(r) ==
  /\ phase[r] = "call" /\ r \in Events
  /\ Becomes(r, "ended")
  /\ Queue(FailedRow(r))
  /\ UNCHANGED <<ask, answer, shadow, charged, billed, stops, faults>>
  /\ UNCHANGED <<telemetryVars, cacheVars>>

(* The request is turned away after the lookup, or its client hangs up and
   the handler is dropped where it waits; a stream that never reached a
   payload is released.  None of these leaves a row. *)
Abandoned(r) ==
  /\ phase[r] \in {"exact", "similar", "call"}
  /\ Becomes(r, "ended")
  /\ UNCHANGED <<ask, answer, shadow, charged, billed, stops, faults>>
  /\ UNCHANGED <<telemetryVars, cacheVars, trackerVars>>

---------------------------------------------------------------------------
(* The shadow task, and streams: they are neither cached nor recorded by the
   telemetry. *)

(* A call that was answered is reconciled; every other end of the task
   (unknown model, no key, over the cap, failed) costs nothing. *)
ShadowEnds(r, status) ==
  LET cost == IF status = "answered" THEN ShadowCost[r] ELSE 0
  IN  /\ shadow[r] = "running"
      /\ shadow' = [shadow EXCEPT ![r] = "ended"]
      /\ charged' = charged + cost
      /\ Queue(ShadowRow(r, status, cost))
      /\ UNCHANGED <<phase, ask, answer, billed, stops, faults>>
      /\ UNCHANGED <<telemetryVars, cacheVars>>

StreamBegins(r) ==
  /\ phase[r] = "new" /\ r \in Streams
  /\ Becomes(r, "call")
  /\ UNCHANGED <<ask, answer, shadow, charged, billed, stops, faults>>
  /\ UNCHANGED <<telemetryVars, cacheVars, trackerVars>>

(* The generator sends its payload to the audit task and ends. *)
StreamEnds(r) ==
  /\ phase[r] = "call" /\ r \in Streams
  /\ Becomes(r, "audit")
  /\ answer' = [answer EXCEPT ![r] = r]
  /\ UNCHANGED <<ask, shadow, charged, billed, stops, faults>>
  /\ UNCHANGED <<telemetryVars, cacheVars, trackerVars>>

StreamAudited(r) ==
  /\ phase[r] = "audit"
  /\ Becomes(r, "ended")
  /\ charged' = charged + CostOfCall[r]
  /\ billed' = billed \cup {r}
  /\ Queue(SuccessRow(r, CostOfCall[r]))
  /\ UNCHANGED <<ask, answer, shadow, stops, faults>>
  /\ UNCHANGED <<telemetryVars, cacheVars>>

---------------------------------------------------------------------------
(* The spawned tasks, and the process. *)

Recording(e) ==
  /\ Push(e) \/ FlushNothing(e) \/ FlushWrites(e)
  /\ UNCHANGED <<cacheVars, trackerVars, requestVars>>

Fault == faults < MaxFaults /\ faults' = faults + 1

RecordingFails(e) ==
  /\ FlushFails(e) /\ Fault
  /\ UNCHANGED <<phase, ask, answer, shadow, charged, billed, stops>>
  /\ UNCHANGED <<cacheVars, trackerVars>>

Caching(entry) ==
  /\ \/ Insert(entry) /\ UNCHANGED faults
     \/ InsertFails(entry) /\ Fault
  /\ UNCHANGED <<phase, ask, answer, shadow, charged, billed, stops>>
  /\ UNCHANGED <<telemetryVars, trackerVars>>

Logging(row) ==
  /\ \/ WriteRow(row) /\ UNCHANGED faults
     \/ WriteFails(row) /\ Fault
  /\ UNCHANGED <<phase, ask, answer, shadow, charged, billed, stops>>
  /\ UNCHANGED <<telemetryVars, cacheVars>>

(* Requests and tasks die with the process, and so does what the spend guard
   was told, which `charged` remembers; the tables and files stay. *)
Stop ==
  /\ stops < MaxStops
  /\ stops' = stops + 1
  /\ phase' = [r \in Requests |-> IF phase[r] = "new" THEN "new" ELSE "ended"]
  /\ shadow' = [r \in Shadowed |-> IF shadow[r] = "none" THEN "none" ELSE "ended"]
  /\ StopRecorder /\ StopCache /\ StopTracker
  /\ UNCHANGED <<ask, answer, charged, billed, faults>>

RecordsNext ==
  \/ \E r \in Events :
       \/ \E a \in Asks[r] : Arrive(r, a)
       \/ HitExact(r) \/ HitSimilar(r) \/ Miss(r)
       \/ Answered(r) \/ Failed(r)
       \/ Recording(r) \/ RecordingFails(r)
  \/ \E r \in Requests : Abandoned(r)
  \/ \E r \in Shadowed, status \in {"answered", "skipped", "failed"} : ShadowEnds(r, status)
  \/ \E r \in Streams : StreamBegins(r) \/ StreamEnds(r) \/ StreamAudited(r)
  \/ \E entry \in storing : Caching(entry)
  \/ \E row \in queued : Logging(row)
  \/ Stop

RecordsSpec == RecordsInit /\ [][RecordsNext]_recordsVars
---------------------------------------------------------------------------

(* The rows that were ever spawned, written or not. *)
AuditTrail == queued \cup logs \cup shadows \cup dropped
Successes(table) == {row \in table : row.kind = "log" /\ row.status = "success"}

CostOfLines(lines) == SumFunction([e \in Events |-> lines[e] * CostOfCall[e]])

(* generate_roi_report over the files; csv and buffer are left out *)
RoiReport ==
  [total_requests |-> SumFunction(disk), total_cost_cents |-> CostOfLines(disk)]

RecordsTypeOK ==
  /\ TelemetryTypeOK
  /\ phase \in [Requests -> {"new", "exact", "similar", "call", "audit", "ended"}]
  /\ ask \in [Events \cup Past -> PossibleAsks]
  /\ \A r \in Events : ask[r] \in Asks[r] \cup {NoAsk}
  /\ answer \in [Requests -> Requests \cup Past \cup {Nobody}]
  /\ shadow \in [Shadowed -> {"none", "running", "ended"}]
  /\ \A row \in rows \cup storing : row.answer \in Events \cup Past
  /\ billed \subseteq Requests
  /\ charged \in Nat /\ stops \in 0..MaxStops /\ faults \in 0..MaxFaults

(* An answer from the cache is that of a call made for the same client, for the
   same requested model and for a prompt within the threshold of this one:
   answers do not drift along a chain of prompts, each near the next, whatever
   the races of lookups and stores. *)
AnswersAlike ==
  \A r \in Events : answer[r] \notin {Nobody, r} =>
    LET origin == ask[answer[r]]
    IN  /\ origin.client = ask[r].client
        /\ origin.model = ask[r].model
        /\ Near(origin.text, ask[r].text)

(* Every cent the spend guard was told of is in one spawned row, an audit row or
   a shadow comparison, and no row tells of more. *)
BooksBalance == charged = CostOf(AuditTrail)

(* What the audit trail tells and what it does not.  A request leaves at most one
   row of each kind, a success row exactly when it was settled.  Its log row says
   that its own call answered it, or that nobody did: a request that is served
   from the cache leaves none.  A request that its own call answered has one when
   it is over, unless the process stopped before a stream's audit task settled
   it.  Of a request that nobody answered (turned away, dropped, a stream that
   failed) the trail promises nothing, although src/README.md:15 has every
   request logged. *)
OneTrace ==
  /\ \A row, other \in AuditTrail : row.id = other.id /\ row.kind = other.kind => row = other
  /\ {row.id : row \in Successes(AuditTrail)} = billed
  /\ \A row \in AuditTrail : row.kind = "log" =>
       answer[row.id] = IF row.status = "success" THEN row.id ELSE Nobody
  /\ \A r \in Requests : phase[r] = "ended" /\ answer[r] = r =>
       r \in billed \/ (r \in Streams /\ stops > 0)

(* How far the two cost reports can be apart: the ROI report exceeds the daily
   one by unwritten rows and by the lines failed flushes doubled, and stays below
   it by streams and by the records that are in memory or were lost there. *)
ReportsApart ==
  LET daily    == DailyReport.total_cost_cents
      unwritten == CostOf(Successes(queued \cup dropped))
      streamed == CostOf({row \in Successes(logs) : row.id \in Streams})
      inMemory == [e \in Events |-> IF recorder[e] = "push" \/ e \in Buffered \cup lost THEN 1 ELSE 0]
  IN  /\ RoiReport.total_cost_cents <= daily + unwritten + CostOfLines(failures)
      /\ daily <= RoiReport.total_cost_cents + streamed + CostOfLines(inMemory)
=============================================================================
