--------------------------- MODULE RecordsProofs ----------------------------
(***************************************************************************)
(* Proofs about the recorder of Telemetry and about Records, for any       *)
(* requests, prompts, costs, buffer size and numbers of stops and faults:  *)
(* the recorder's promises, which Records keeps because it implements      *)
(* Telemetry; what the cache answers; that a request leaves one trace;     *)
(* that the books balance; and how far the two cost reports can be apart.  *)
(***************************************************************************)
EXTENDS Records, SumTheorems

(***************************************************************************)
(* The recorder alone.  What makes its properties inductive is that a      *)
(* record is in the buffer at most once and only after its task pushed it. *)
(***************************************************************************)
USE MaxBufferAssumption DEF MaxBufferAssumption

PushedOnce ==
  /\ \A i, j \in 1..Len(buffer) : buffer[i] = buffer[j] => i = j
  /\ \A e \in Events : recorder[e] \in {"none", "push"} => e \notin Buffered

TelemetryInv ==
  TelemetryTypeOK /\ PushedOnce /\ Kept /\ NoExtraCopies /\ FullBufferIsFlushed

LEMMA BufferedIs ==
  ASSUME TelemetryTypeOK
  PROVE  /\ Buffered = {buffer[i] : i \in 1..Len(buffer)}
         /\ Buffered \subseteq Events
BY DEF TelemetryTypeOK, Buffered

(* A flush writes every line of the buffer once, or the first of them. *)
LEMMA WrittenBounds ==
  ASSUME TelemetryTypeOK, PushedOnce, NEW k \in 0..Len(buffer), NEW e \in Events
  PROVE  /\ Written(k)[e] \in Nat
         /\ disk[e] <= Written(k)[e]
         /\ Written(k)[e] <= disk[e] + (IF e \in Buffered THEN 1 ELSE 0)
         /\ k = Len(buffer) /\ e \in Buffered => Written(k)[e] > 0
<1> DEFINE Here == {i \in 1..k : buffer[i] = e}
<1>1. Written(k)[e] = disk[e] + Cardinality(Here)
  BY DEF Written
<1>2. disk[e] \in Nat /\ Len(buffer) \in Nat
  BY DEF TelemetryTypeOK
<1>3. \A i \in Here : i \in 1..Len(buffer) /\ buffer[i] = e /\ e \in Buffered
  BY <1>2, BufferedIs
<1>4. k = Len(buffer) /\ e \in Buffered => Here # {}
  BY BufferedIs
<1>5. CASE Here = {}
  BY <1>1, <1>2, <1>4, <1>5, FS_EmptySet
<1>6. CASE Here # {}
  <2>1. PICK i \in Here : TRUE
    BY <1>6
  <2>2. Here = {i}
    BY <2>1, <1>3 DEF PushedOnce
  <2>3. Cardinality(Here) = 1
    BY <2>2, FS_Singleton
  <2> HIDE DEF Here
  <2>4. QED
    BY <1>1, <1>2, <1>3, <2>1, <2>3
<1>7. QED
  BY <1>5, <1>6

LEMMA WrittenType ==
  ASSUME TelemetryTypeOK, PushedOnce, NEW k \in 0..Len(buffer)
  PROVE  Written(k) \in [Events -> Nat]
BY WrittenBounds DEF Written

LEMMA InitTelemetryInv == TelemetryInit => TelemetryInv
BY DEF TelemetryInit, TelemetryInv, TelemetryTypeOK, PushedOnce, Buffered, Kept, NoExtraCopies,
   FullBufferIsFlushed

LEMMA SpawnInv ==
  ASSUME TelemetryInv, NEW e \in Events, SpawnRecord(e)
  PROVE  TelemetryInv'
BY SMTT(30) DEF SpawnRecord, TelemetryInv, TelemetryTypeOK, PushedOnce, Buffered, Kept, NoExtraCopies,
   FullBufferIsFlushed

LEMMA PushInv ==
  ASSUME TelemetryInv, NEW e \in Events, Push(e)
  PROVE  TelemetryInv'
<1> USE DEF TelemetryInv
<1> DEFINE n == Len(buffer)
<1>1. TelemetryTypeOK'
  BY DEF Push, TelemetryTypeOK
<1>2. /\ n \in Nat /\ Len(buffer') = n + 1
      /\ buffer'[n + 1] = e
      /\ \A i \in 1..n : buffer'[i] = buffer[i]
  BY DEF Push, TelemetryTypeOK
<1>3. Buffered' = Buffered \cup {e}
  <2> HIDE DEF n
  <2>1. 1..(n + 1) = (1..n) \cup {n + 1}
    BY <1>2
  <2>2. Buffered' = {buffer'[i] : i \in 1..(n + 1)}
    <3>1. buffer' \in Seq(Events) /\ DOMAIN buffer' = 1..(n + 1)
      BY <1>1, <1>2 DEF TelemetryTypeOK
    <3>2. QED
      BY <3>1 DEF Buffered
  <2>3. Buffered = {buffer[i] : i \in 1..n}
    BY BufferedIs DEF n
  <2>4. QED
    BY <1>2, <2>1, <2>2, <2>3
<1>4. e \notin Buffered
  BY DEF Push, PushedOnce
<1>5. PushedOnce'
  <2>1. \A i \in 1..n : buffer[i] # e
    BY <1>4, BufferedIs
  <2>2. \A i, j \in 1..Len(buffer') : buffer'[i] = buffer'[j] => i = j
    BY <1>2, <2>1 DEF PushedOnce
  <2>3. \A f \in Events : recorder'[f] \in {"none", "push"} => f \notin Buffered'
    BY <1>3 DEF Push, PushedOnce, TelemetryTypeOK
  <2>4. QED
    BY <2>2, <2>3 DEF PushedOnce
<1>6. Kept'
  BY <1>3 DEF Push, Kept, TelemetryTypeOK
<1>7. NoExtraCopies'
  BY <1>3 DEF Push, NoExtraCopies, TelemetryTypeOK
<1>8. FullBufferIsFlushed'
  BY DEF Push, FullBufferIsFlushed, FlushDue, TelemetryTypeOK
<1>9. QED
  BY <1>1, <1>5, <1>6, <1>7, <1>8

LEMMA FlushNothingInv ==
  ASSUME TelemetryInv, NEW e \in Events, FlushNothing(e)
  PROVE  TelemetryInv'
<1> USE DEF TelemetryInv
<1>1. TelemetryTypeOK' /\ PushedOnce'
  BY DEF FlushNothing, TelemetryTypeOK, PushedOnce, Buffered
<1>2. Kept' /\ NoExtraCopies'
  BY DEF FlushNothing, TelemetryTypeOK, Kept, NoExtraCopies, Buffered
<1>3. FullBufferIsFlushed'
  BY DEF FlushNothing, FullBufferIsFlushed
<1>4. QED
  BY <1>1, <1>2, <1>3

LEMMA FlushWritesInv ==
  ASSUME TelemetryInv, NEW e \in Events, FlushWrites(e)
  PROVE  TelemetryInv'
<1> USE DEF TelemetryInv
<1>1. Len(buffer) \in Nat /\ Len(buffer) \in 0..Len(buffer)
  BY DEF TelemetryTypeOK
<1>2. /\ buffer' = <<>> /\ Len(buffer') = 0 /\ Buffered' = {}
      /\ disk' = Written(Len(buffer))
  BY DEF FlushWrites, AfterFlush, Buffered
<1>3. disk' \in [Events -> Nat]
  BY <1>1, <1>2, WrittenType
<1>4. \A f \in Events :
        /\ disk[f] <= disk'[f] /\ disk'[f] <= disk[f] + 1
        /\ f \in Buffered => disk'[f] > 0
        /\ f \notin Buffered => disk'[f] = disk[f]
  <2>1. TAKE f \in Events
  <2>2. disk[f] \in Nat /\ disk'[f] \in Nat /\ disk'[f] = Written(Len(buffer))[f]
    BY <1>2, <1>3 DEF TelemetryTypeOK
  <2>3. QED
    BY <1>1, <2>2, WrittenBounds
<1>5. TelemetryTypeOK'
  <2>1. <<>> \in Seq(Events)
    OBVIOUS
  <2>2. QED
    BY <1>2, <1>3, <2>1 DEF FlushWrites, TelemetryTypeOK
<1>6. PushedOnce' /\ FullBufferIsFlushed'
  BY <1>2 DEF PushedOnce, FullBufferIsFlushed
<1>7. Kept'
  BY <1>2, <1>3, <1>4 DEF FlushWrites, Kept, TelemetryTypeOK
<1>8. NoExtraCopies'
  <2>1. SUFFICES ASSUME NEW f \in Events
                 PROVE  disk'[f] <= failures'[f] + (IF f \in Buffered' \/ recorder'[f] \in {"none", "push"} THEN 0 ELSE 1)
    BY DEF NoExtraCopies
  <2>2. /\ disk[f] \in Nat /\ disk'[f] \in Nat /\ failures[f] \in Nat
        /\ failures' = failures
        /\ recorder'[f] = (IF f = e THEN "done" ELSE recorder[f])
        /\ recorder[e] = "flush"
    BY <1>3 DEF FlushWrites, TelemetryTypeOK
  <2>3. CASE f \in Buffered
    <3>1. disk[f] <= failures[f] /\ recorder'[f] \notin {"none", "push"}
      BY <2>2, <2>3 DEF NoExtraCopies, PushedOnce
    <3>2. QED
      BY <1>2, <1>4, <2>2, <3>1
  <2>4. CASE f \notin Buffered
    <3>1. disk'[f] = disk[f]
      BY <1>4, <2>4
    <3>2. CASE recorder[f] \in {"none", "push"}
      BY <1>2, <2>2, <2>4, <3>1, <3>2 DEF NoExtraCopies
    <3>3. CASE recorder[f] \notin {"none", "push"}
      BY <1>2, <2>2, <2>4, <3>1, <3>3 DEF NoExtraCopies
    <3>4. QED
      BY <3>2, <3>3
  <2>5. QED
    BY <2>3, <2>4
<1>9. QED
  BY <1>5, <1>6, <1>7, <1>8

LEMMA FlushFailsInv ==
  ASSUME TelemetryInv, NEW e \in Events, FlushFails(e)
  PROVE  TelemetryInv'
<1> USE DEF TelemetryInv
<1>1. PICK k \in 0..Len(buffer) : disk' = Written(k)
  BY DEF FlushFails
<1>2. disk' \in [Events -> Nat]
  BY <1>1, WrittenType
<1>3. \A f \in Events :
        /\ disk[f] <= disk'[f] /\ disk'[f] <= disk[f] + 1
        /\ f \notin Buffered => disk'[f] = disk[f]
  <2>1. TAKE f \in Events
  <2>2. disk[f] \in Nat /\ disk'[f] \in Nat /\ disk'[f] = Written(k)[f]
    BY <1>1, <1>2 DEF TelemetryTypeOK
  <2>3. QED
    BY <2>2, WrittenBounds
<1>4. buffer' = buffer /\ Buffered' = Buffered
  BY DEF FlushFails, AfterFailedFlush, Buffered
<1>5. failures' \in [Events -> Nat]
  BY DEF FlushFails, TelemetryTypeOK
<1>6. TelemetryTypeOK'
  BY <1>2, <1>4, <1>5 DEF FlushFails, TelemetryTypeOK
<1>7. PushedOnce'
  BY <1>4 DEF FlushFails, PushedOnce, TelemetryTypeOK
<1>8. Kept'
  BY <1>2, <1>3, <1>4 DEF FlushFails, Kept, TelemetryTypeOK
<1>9. NoExtraCopies'
  <2>1. SUFFICES ASSUME NEW f \in Events
                 PROVE  disk'[f] <= failures'[f] + (IF f \in Buffered' \/ recorder'[f] \in {"none", "push"} THEN 0 ELSE 1)
    BY DEF NoExtraCopies
  <2>2. /\ disk[f] \in Nat /\ disk'[f] \in Nat /\ failures[f] \in Nat
        /\ failures'[f] = (IF f \in Buffered THEN failures[f] + 1 ELSE failures[f])
        /\ recorder'[f] = (IF f = e THEN "done" ELSE recorder[f])
        /\ recorder[e] = "flush"
    BY <1>2 DEF FlushFails, TelemetryTypeOK
  <2>3. CASE f \in Buffered
    BY <1>3, <1>4, <2>2, <2>3 DEF NoExtraCopies
  <2>4. CASE f \notin Buffered
    BY <1>3, <1>4, <2>2, <2>4 DEF NoExtraCopies
  <2>5. QED
    BY <2>3, <2>4
<1>10. FullBufferIsFlushed'
  <2>1. PICK f \in Buffered : TRUE
    BY BufferedIs, SMTT(30) DEF FlushFails, TelemetryTypeOK
  <2>2. f \in Events /\ failures'[f] > 0
    BY BufferedIs DEF FlushFails, TelemetryTypeOK
  <2>3. QED
    BY <1>4, <2>2 DEF FullBufferIsFlushed
<1>11. QED
  BY <1>6, <1>7, <1>8, <1>9, <1>10

LEMMA StopRecorderInv ==
  ASSUME TelemetryInv, StopRecorder
  PROVE  TelemetryInv'
<1> USE DEF TelemetryInv
<1>1. buffer' = <<>> /\ Len(buffer') = 0 /\ Buffered' = {}
  BY DEF StopRecorder, Buffered
<1>2. TelemetryTypeOK'
  BY <1>1, BufferedIs DEF StopRecorder, TelemetryTypeOK
<1>3. PushedOnce' /\ FullBufferIsFlushed'
  BY <1>1 DEF PushedOnce, FullBufferIsFlushed
<1>4. Kept'
  BY <1>1 DEF StopRecorder, Kept, TelemetryTypeOK
<1>5. NoExtraCopies'
  BY <1>1 DEF StopRecorder, NoExtraCopies, TelemetryTypeOK
<1>6. QED
  BY <1>2, <1>3, <1>4, <1>5

LEMMA TelemetryStep ==
  ASSUME TelemetryInv, [TelemetryNext]_telemetryVars
  PROVE  TelemetryInv'
<1>1. CASE TelemetryNext
  BY <1>1, SpawnInv, PushInv, FlushNothingInv, FlushWritesInv, FlushFailsInv, StopRecorderInv
     DEF TelemetryNext
<1>2. CASE UNCHANGED telemetryVars
  BY <1>2 DEF telemetryVars, TelemetryInv, TelemetryTypeOK, PushedOnce, Buffered, Kept,
     NoExtraCopies, FullBufferIsFlushed
<1>3. QED
  BY <1>1, <1>2

(* The recorder alone, for any records: nothing taken is dropped, nothing is
   doubled but by a failed flush, and a full buffer is flushed
   (telemetry.rs record, flush). *)
THEOREM RecorderSound ==
  TelemetrySpec => [](TelemetryTypeOK /\ Kept /\ NoExtraCopies /\ FullBufferIsFlushed)
<1>1. TelemetryInv /\ [TelemetryNext]_telemetryVars => TelemetryInv'
  BY TelemetryStep
<1>2. TelemetryInv => TelemetryTypeOK /\ Kept /\ NoExtraCopies /\ FullBufferIsFlushed
  BY DEF TelemetryInv
<1>3. QED
  BY InitTelemetryInv, <1>1, <1>2, PTL DEF TelemetrySpec

---------------------------------------------------------------------------
(* The composition. *)
USE ReachAssumption, RecordsAssumption DEF ReachAssumption, RecordsAssumption

---------------------------------------------------------------------------
(* Every step of the composition is a step of the recorder or leaves it
   alone. *)
LEMMA ImplementsTelemetry ==
  ASSUME [RecordsNext]_recordsVars
  PROVE  [TelemetryNext]_telemetryVars
<1> USE DEF TelemetryNext
<1>1. ASSUME NEW r \in Events, NEW a \in Asks[r], Arrive(r, a)
      PROVE  UNCHANGED telemetryVars
  BY <1>1 DEF Arrive
<1>2. ASSUME NEW r \in Events, HitExact(r) \/ HitSimilar(r)
      PROVE  UNCHANGED telemetryVars
  BY <1>2 DEF HitExact, HitSimilar, Serve
<1>3. ASSUME NEW r \in Events, Miss(r) \/ Failed(r)
      PROVE  UNCHANGED telemetryVars
  BY <1>3 DEF Miss, Failed
<1>4. ASSUME NEW r \in Events, Answered(r)
      PROVE  TelemetryNext
  BY <1>4 DEF Answered
<1>5. ASSUME NEW r \in Events, Recording(r) \/ RecordingFails(r)
      PROVE  TelemetryNext
  BY <1>5 DEF Recording, RecordingFails
<1>6. ASSUME NEW r \in Requests, Abandoned(r)
      PROVE  UNCHANGED telemetryVars
  BY <1>6 DEF Abandoned
<1>7. ASSUME NEW r \in Shadowed, NEW status, ShadowEnds(r, status)
      PROVE  UNCHANGED telemetryVars
  BY <1>7 DEF ShadowEnds
<1>8. ASSUME NEW r \in Streams, StreamBegins(r) \/ StreamEnds(r) \/ StreamAudited(r)
      PROVE  UNCHANGED telemetryVars
  BY <1>8 DEF StreamBegins, StreamEnds, StreamAudited
<1>9. ASSUME NEW entry \in storing, Caching(entry)
      PROVE  UNCHANGED telemetryVars
  BY <1>9 DEF Caching
<1>10. ASSUME NEW row \in queued, Logging(row)
       PROVE  UNCHANGED telemetryVars
  BY <1>10 DEF Logging
<1>11. ASSUME Stop
       PROVE  TelemetryNext
  BY <1>11 DEF Stop
<1>12. ASSUME UNCHANGED recordsVars
       PROVE  UNCHANGED telemetryVars
  BY <1>12 DEF recordsVars
<1> HIDE DEF TelemetryNext
<1>13. QED
  BY <1>1, <1>2, <1>3, <1>4, <1>5, <1>6, <1>7, <1>8, <1>9, <1>10, <1>11, <1>12 DEF RecordsNext

LEMMA RecordsImplementTelemetry == RecordsSpec => TelemetrySpec
<1>1. RecordsInit => TelemetryInit
  BY DEF RecordsInit
<1>2. [RecordsNext]_recordsVars => [TelemetryNext]_telemetryVars
  BY ImplementsTelemetry
<1>3. QED
  BY <1>1, <1>2, PTL DEF RecordsSpec, TelemetrySpec

(* No record that was taken disappears but with the process (telemetry.rs
   record, flush). *)
THEOREM RecordsAreKept == RecordsSpec => []Kept
BY RecordsImplementTelemetry, RecorderSound, PTL

(* No record is written twice but by a flush after a failed one. *)
THEOREM NothingDoubled == RecordsSpec => []NoExtraCopies
BY RecordsImplementTelemetry, RecorderSound, PTL

(* A full buffer has somebody about to flush it, or a failed flush behind it. *)
THEOREM FullBuffersFlush == RecordsSpec => []FullBufferIsFlushed
BY RecordsImplementTelemetry, RecorderSound, PTL

---------------------------------------------------------------------------
(* Requests and the cache.  A row of the cache belongs to the request whose call
   answered it, which has asked by then and asks nothing else. *)
HasAsked(r) == r \in Past \/ (r \in Events /\ phase[r] # "new")

RowSound(row) ==
  /\ row.answer \in Events \cup Past
  /\ HasAsked(row.answer)
  /\ row = RowOf(ask[row.answer], row.answer)

RequestsTypeOK ==
  /\ phase \in [Requests -> {"new", "exact", "similar", "call", "audit", "ended"}]
  /\ ask \in [Events \cup Past -> PossibleAsks]
  /\ \A r \in Events : ask[r] \in Asks[r] \cup {NoAsk}
  /\ answer \in [Requests -> Requests \cup Past \cup {Nobody}]
  /\ shadow \in [Shadowed -> {"none", "running", "ended"}]
  /\ billed \subseteq Requests
  /\ charged \in Nat /\ stops \in 0..MaxStops /\ faults \in 0..MaxFaults

CacheSound ==
  /\ \A row \in rows \cup storing : RowSound(row)
  /\ \A row, other \in rows : CacheKey(row) = CacheKey(other) => row = other

Alike(r) ==
  answer[r] \notin {Nobody, r} =>
    /\ HasAsked(r) /\ answer[r] \in Events \cup Past /\ HasAsked(answer[r])
    /\ ask[answer[r]].client = ask[r].client
    /\ ask[answer[r]].model = ask[r].model
    /\ Near(ask[answer[r]].text, ask[r].text)

CacheInv == RequestsTypeOK /\ CacheSound /\ \A r \in Events : Alike(r)

LEMMA AsksAreInt ==
  ASSUME NEW a \in PossibleAsks
  PROVE  a.text \in Int
BY DEF PossibleAsks, NoAsk

LEMMA InitCacheInv == RecordsInit => CacheInv
<1> SUFFICES ASSUME RecordsInit PROVE CacheInv
  OBVIOUS
<1>1. RequestsTypeOK
  BY DEF RecordsInit, RequestsTypeOK
<1>2. CacheSound
  BY DEF RecordsInit, CacheInit, CacheSound, RowSound, HasAsked, RowOf, Requests
<1>3. \A r \in Events : Alike(r)
  BY DEF RecordsInit, Alike, Requests
<1>4. QED
  BY <1>1, <1>2, <1>3 DEF CacheInv

(* What an action has to respect: who has asked keeps asking the same, and a new
   row and a new answer are sound. *)
LEMMA CacheStep ==
  ASSUME CacheInv, RequestsTypeOK',
         \A r \in Events \cup Past : HasAsked(r) => HasAsked(r)' /\ ask'[r] = ask[r],
         \A row \in rows' \cup storing' : row \in rows \cup storing \/ RowSound(row)',
         \A row, other \in rows' : CacheKey(row) = CacheKey(other) => row = other,
         \A r \in Events : answer'[r] = answer[r] \/ Alike(r)'
  PROVE  CacheInv'
<1> USE DEF CacheInv
<1>1. ASSUME NEW row \in rows \cup storing
      PROVE  RowSound(row)'
  BY <1>1 DEF CacheSound, RowSound, RowOf
<1>2. CacheSound'
  BY <1>1 DEF CacheSound, CacheKey
<1>3. ASSUME NEW r \in Events, answer'[r] = answer[r]
      PROVE  Alike(r)'
  BY <1>3 DEF Alike
<1>4. QED
  BY <1>2, <1>3

LEMMA ArriveCache ==
  ASSUME CacheInv, NEW r \in Events, NEW a \in Asks[r], Arrive(r, a)
  PROVE  CacheInv'
<1>1. RequestsTypeOK'
  <2>1. a \in PossibleAsks
    BY DEF PossibleAsks
  <2>2. QED
    BY <2>1 DEF CacheInv, RequestsTypeOK, Arrive, Becomes, requestVars, Requests
<1>2. \A s \in Events \cup Past : HasAsked(s) => HasAsked(s)' /\ ask'[s] = ask[s]
  BY DEF CacheInv, RequestsTypeOK, Arrive, Becomes, HasAsked, Requests
<1>3. rows' = rows /\ storing' = storing /\ answer' = answer
  BY DEF Arrive, cacheVars
<1>4. QED
  BY <1>1, <1>2, <1>3, CacheStep DEF CacheInv, CacheSound

LEMMA HitCache ==
  ASSUME CacheInv, NEW r \in Events, HitExact(r) \/ HitSimilar(r)
  PROVE  CacheInv'
<1>1. PICK row \in rows :
        /\ Serve(r, row)
        /\ row.client = ask[r].client /\ row.model = ask[r].model
        /\ Near(row.text, ask[r].text)
        /\ phase[r] # "new"
  <2>1. ask[r].text \in Int
    BY AsksAreInt DEF CacheInv, RequestsTypeOK
  <2>2. Near(ask[r].text, ask[r].text)
    BY <2>1 DEF Near
  <2>3. QED
    BY <2>2 DEF HitExact, HitSimilar, Exact, Similar, CacheKey
<1>2. RowSound(row)
  BY DEF CacheInv, CacheSound
<1>3. RequestsTypeOK'
  BY <1>1, <1>2 DEF CacheInv, RequestsTypeOK, Serve, Becomes, RowSound, Requests
<1>4. \A s \in Events \cup Past : HasAsked(s) => HasAsked(s)' /\ ask'[s] = ask[s]
  BY <1>1 DEF CacheInv, RequestsTypeOK, Serve, Becomes, HasAsked, Requests
<1>5. rows' = rows /\ storing' = storing
  BY <1>1 DEF Serve, cacheVars
<1>6. Alike(r)'
  <2>1. answer'[r] = row.answer /\ ask' = ask
    BY <1>1 DEF Serve, CacheInv, RequestsTypeOK, Requests
  <2>2. HasAsked(row.answer)' /\ row.answer \in Events \cup Past
    BY <1>2, <1>4 DEF RowSound
  <2>3. HasAsked(r)'
    BY <1>1, <1>4 DEF HasAsked
  <2>4. /\ row.client = ask[row.answer].client
        /\ row.model = ask[row.answer].model
        /\ row.text = ask[row.answer].text
    BY <1>2 DEF RowSound, RowOf
  <2>5. QED
    BY <1>1, <2>1, <2>2, <2>3, <2>4 DEF Alike
<1>7. \A s \in Events : answer'[s] = answer[s] \/ Alike(s)'
  BY <1>1, <1>6 DEF Serve, CacheInv, RequestsTypeOK, Requests
<1>8. QED
  BY <1>3, <1>4, <1>5, <1>7, CacheStep DEF CacheInv, CacheSound

LEMMA AnsweredCache ==
  ASSUME CacheInv, NEW r \in Events, Answered(r)
  PROVE  CacheInv'
<1>1. RequestsTypeOK'
  BY DEF CacheInv, RequestsTypeOK, Answered, Becomes, Requests
<1>2. \A s \in Events \cup Past : HasAsked(s) => HasAsked(s)' /\ ask'[s] = ask[s]
  BY DEF CacheInv, RequestsTypeOK, Answered, Becomes, HasAsked, Requests
<1>3. rows' = rows /\ storing' = storing \cup {RowOf(ask[r], r)} /\ ask' = ask
  BY DEF Answered, Store
<1>4. RowSound(RowOf(ask[r], r))'
  <2>1. HasAsked(r)'
    BY <1>2 DEF Answered, HasAsked
  <2>2. RowOf(ask[r], r).answer = r
    BY DEF RowOf
  <2>3. QED
    BY <1>3, <2>1, <2>2 DEF RowSound, RowOf
<1>5. \A s \in Events : answer'[s] = answer[s] \/ Alike(s)'
  BY DEF Answered, CacheInv, RequestsTypeOK, Requests, Alike
<1>6. QED
  BY <1>1, <1>2, <1>3, <1>4, <1>5, CacheStep DEF CacheInv, CacheSound

LEMMA InsertCache ==
  ASSUME CacheInv, NEW entry \in storing, Caching(entry)
  PROVE  CacheInv'
<1>1. RequestsTypeOK'
  BY DEF CacheInv, RequestsTypeOK, Caching, Fault
<1>2. \A s \in Events \cup Past : HasAsked(s) => HasAsked(s)' /\ ask'[s] = ask[s]
  BY DEF Caching, HasAsked
<1>3. rows' \in {rows, Inserted(entry)} /\ storing' \subseteq storing /\ answer' = answer
  BY DEF Caching, Insert, InsertFails
<1>4. rows' \subseteq rows \cup storing
  BY <1>3 DEF Inserted
<1>5. \A row, other \in rows' : CacheKey(row) = CacheKey(other) => row = other
  BY <1>3 DEF CacheInv, CacheSound, Inserted, Exact
<1>6. QED
  BY <1>1, <1>2, <1>3, <1>4, <1>5, CacheStep DEF CacheInv, CacheSound

(* The other actions leave the cache and what was asked alone. *)
LEMMA OtherCache ==
  ASSUME CacheInv, RequestsTypeOK',
         rows' = rows, storing' \subseteq storing, ask' = ask,
         \A r \in Events : phase[r] # "new" => phase'[r] # "new",
         \A r \in Events : answer'[r] = answer[r]
  PROVE  CacheInv'
<1>1. \A r \in Events \cup Past : HasAsked(r) => HasAsked(r)' /\ ask'[r] = ask[r]
  BY DEF HasAsked
<1>2. QED
  BY <1>1, CacheStep DEF CacheInv, CacheSound

LEMMA MissCache ==
  ASSUME CacheInv, NEW r \in Requests, Miss(r) \/ Failed(r) \/ Abandoned(r)
  PROVE  CacheInv'
<1>1. RequestsTypeOK'
  BY DEF CacheInv, RequestsTypeOK, Miss, Failed, Abandoned, Becomes
<1>2. rows' = rows /\ storing' = storing /\ ask' = ask /\ answer' = answer
  BY DEF Miss, Failed, Abandoned, cacheVars
<1>3. \A s \in Events : phase[s] # "new" => phase'[s] # "new"
  BY DEF Miss, Failed, Abandoned, Becomes, CacheInv, RequestsTypeOK, Requests
<1>4. QED
  BY <1>1, <1>2, <1>3, OtherCache

LEMMA ShadowCache ==
  ASSUME CacheInv, NEW r \in Shadowed, NEW status, ShadowEnds(r, status)
  PROVE  CacheInv'
<1>1. RequestsTypeOK'
  BY DEF CacheInv, RequestsTypeOK, ShadowEnds
<1>2. rows' = rows /\ storing' = storing /\ ask' = ask /\ answer' = answer /\ phase' = phase
  BY DEF ShadowEnds, cacheVars
<1>3. QED
  BY <1>1, <1>2, OtherCache

LEMMA StreamCache ==
  ASSUME CacheInv, NEW r \in Streams, StreamBegins(r) \/ StreamEnds(r) \/ StreamAudited(r)
  PROVE  CacheInv'
<1>1. RequestsTypeOK'
  BY DEF CacheInv, RequestsTypeOK, StreamBegins, StreamEnds, StreamAudited, Becomes, Requests
<1>2. rows' = rows /\ storing' = storing /\ ask' = ask
  BY DEF StreamBegins, StreamEnds, StreamAudited, cacheVars
<1>3. \A s \in Events : answer'[s] = answer[s] /\ phase'[s] = phase[s]
  BY DEF StreamBegins, StreamEnds, StreamAudited, Becomes, CacheInv, RequestsTypeOK, Requests
<1>4. QED
  BY <1>1, <1>2, <1>3, OtherCache

LEMMA TasksCache ==
  ASSUME CacheInv,
         \/ \E e \in Events : Recording(e) \/ RecordingFails(e)
         \/ \E row \in queued : Logging(row)
         \/ Stop
  PROVE  CacheInv'
<1>1. ASSUME NEW e \in Events, Recording(e) \/ RecordingFails(e)
      PROVE  CacheInv'
  <2>1. RequestsTypeOK'
    BY <1>1 DEF CacheInv, RequestsTypeOK, Recording, RecordingFails, Fault, requestVars
  <2>2. rows' = rows /\ storing' = storing /\ ask' = ask /\ answer' = answer /\ phase' = phase
    BY <1>1 DEF Recording, RecordingFails, cacheVars, requestVars
  <2>3. QED
    BY <2>1, <2>2, OtherCache
<1>2. ASSUME NEW row \in queued, Logging(row)
      PROVE  CacheInv'
  <2>1. RequestsTypeOK'
    BY <1>2 DEF CacheInv, RequestsTypeOK, Logging, Fault
  <2>2. rows' = rows /\ storing' = storing /\ ask' = ask /\ answer' = answer /\ phase' = phase
    BY <1>2 DEF Logging, cacheVars
  <2>3. QED
    BY <2>1, <2>2, OtherCache
<1>3. ASSUME Stop
      PROVE  CacheInv'
  <2>1. RequestsTypeOK'
    BY <1>3 DEF CacheInv, RequestsTypeOK, Stop
  <2>2. rows' = rows /\ storing' = {} /\ ask' = ask /\ answer' = answer
    BY <1>3 DEF Stop, StopCache
  <2>3. \A s \in Events : phase[s] # "new" => phase'[s] # "new"
    BY <1>3 DEF Stop, CacheInv, RequestsTypeOK, Requests
  <2>4. QED
    BY <2>1, <2>2, <2>3, OtherCache
<1>4. QED
  BY <1>1, <1>2, <1>3

LEMMA CacheInvStep ==
  ASSUME CacheInv, [RecordsNext]_recordsVars
  PROVE  CacheInv'
<1>1. CASE RecordsNext
  <2>1. \A r \in Events : r \in Requests
    BY DEF Requests
  <2>2. QED
    BY <1>1, <2>1, ArriveCache, HitCache, AnsweredCache, InsertCache, MissCache, ShadowCache,
       StreamCache, TasksCache DEF RecordsNext
<1>2. CASE UNCHANGED recordsVars
  <2>1. RequestsTypeOK'
    BY <1>2 DEF recordsVars, requestVars, CacheInv, RequestsTypeOK
  <2>2. QED
    BY <1>2, <2>1, OtherCache DEF recordsVars, requestVars, cacheVars
<1>3. QED
  BY <1>1, <1>2

LEMMA CacheInvHolds == RecordsSpec => []CacheInv
<1>1. CacheInv /\ [RecordsNext]_recordsVars => CacheInv'
  BY CacheInvStep
<1>2. QED
  BY InitCacheInv, <1>1, PTL DEF RecordsSpec

(* Types of the composition. *)
THEOREM RecordsTypeCorrect == RecordsSpec => []RecordsTypeOK
<1>1. CacheInv /\ TelemetryTypeOK => RecordsTypeOK
  BY DEF CacheInv, RequestsTypeOK, CacheSound, RowSound, RecordsTypeOK
<1>2. QED
  BY <1>1, CacheInvHolds, RecordsImplementTelemetry, RecorderSound, PTL

(* An answer from the cache was made for the same client, the same model and a
   prompt within the threshold, whatever races to the table
   (semantic_cache.rs lookup, store). *)
THEOREM CacheAnswersAlike == RecordsSpec => []AnswersAlike
<1>1. CacheInv => AnswersAlike
  BY DEF CacheInv, Alike, AnswersAlike
<1>2. QED
  BY <1>1, CacheInvHolds, PTL

(* The first answer stored under a key stays (semantic_cache.rs store, ON
   CONFLICT DO NOTHING). *)
THEOREM FirstAnswersStand == RecordsSpec => FirstAnswerStands
<1>1. ASSUME CacheInv, CacheInv', [RecordsNext]_recordsVars
      PROVE  [\A row \in rows : \A other \in rows' : CacheKey(row) = CacheKey(other) => other = row]_rows
  <2>1. rows \subseteq rows'
    <3>1. ASSUME NEW entry \in storing, Caching(entry)
          PROVE  rows \subseteq rows'
      BY <3>1 DEF Caching, Insert, InsertFails, Inserted
    <3>2. QED
      BY <1>1, <3>1 DEF RecordsNext, recordsVars, cacheVars, Arrive, HitExact, HitSimilar, Serve,
         Miss, Answered, Failed, Abandoned, ShadowEnds, StreamBegins, StreamEnds, StreamAudited,
         Recording, RecordingFails, Logging, Stop, StopCache
  <2>2. QED
    BY <1>1, <2>1 DEF CacheInv, CacheSound, CacheKey
<1>2. QED
  BY <1>1, CacheInvHolds, PTL DEF RecordsSpec, FirstAnswerStands

---------------------------------------------------------------------------
(* Traces.  A row is there only when the request or the shadow task that leaves
   it is over; a request is answered when it is over, or by a stream's audit task
   that is on its way to settle it; and what the cache holds was answered by its
   own call, so that nobody is served an answer to his own request. *)
Early == {"new", "exact", "similar", "call"}

RowsOfEnded ==
  \A row \in AuditTrail :
    \/ row.kind = "log" /\ row.id \in Requests /\ phase[row.id] = "ended"
    \/ row.kind = "shadow" /\ row.id \in Shadowed /\ shadow[row.id] = "ended"

CachedAreAnswered ==
  \A row \in rows \cup storing : row.answer \in Events => answer[row.answer] = row.answer

TraceInv ==
  /\ RequestsTypeOK
  /\ RowsOfEnded
  /\ OneTrace
  /\ CachedAreAnswered
  /\ \A r \in Requests : phase[r] \in Early => answer[r] = Nobody
  /\ \A r \in Requests : phase[r] = "audit" => r \in Streams /\ answer[r] = r
  /\ \A r \in Shadowed : shadow[r] # "none" => phase[r] = "ended"

LEMMA InitTraceInv == RecordsInit => TraceInv
<1> SUFFICES ASSUME RecordsInit PROVE TraceInv
  OBVIOUS
<1>1. AuditTrail = {} /\ billed = {}
  BY DEF RecordsInit, TrackerInit, AuditTrail
<1>2. QED
  <2>1. CachedAreAnswered
    BY DEF RecordsInit, CacheInit, CachedAreAnswered, RowOf
  <2>2. QED
    BY <1>1, <2>1, InitCacheInv
    DEF RecordsInit, CacheInv, TraceInv, RowsOfEnded, OneTrace, Successes, Early

LEMMA QueueAdds ==
  ASSUME NEW row, Queue(row)
  PROVE  AuditTrail' = AuditTrail \cup {row}
BY DEF Queue, AuditTrail

(* What the cache holds is the answer of a request that is over. *)
LEMMA AnsweredAreOver ==
  ASSUME TraceInv, NEW row \in rows \cup storing, row.answer \in Events
  PROVE  phase[row.answer] = "ended" /\ answer[row.answer] = row.answer
<1> DEFINE r == row.answer
<1>1. r \in Requests /\ r \notin Streams /\ answer[r] = r /\ r # Nobody
  BY DEF TraceInv, CachedAreAnswered, Requests
<1>2. phase[r] \in {"new", "exact", "similar", "call", "audit", "ended"}
  BY <1>1 DEF TraceInv, RequestsTypeOK
<1>3. QED
  BY <1>1, <1>2 DEF TraceInv, Early

(* Actions that spawn no row. *)
LEMMA NoRow ==
  ASSUME TraceInv, RequestsTypeOK',
         AuditTrail' = AuditTrail, billed' = billed,
         \A r \in Requests : phase[r] = "ended" => phase'[r] = "ended" /\ answer'[r] = answer[r],
         \A r \in Requests : phase[r] # "ended" /\ phase'[r] = "ended" /\ answer'[r] = r =>
           r \in Streams /\ stops' > 0,
         stops > 0 => stops' > 0,
         \A row \in rows' \cup storing' : row \in rows \cup storing,
         \A r \in Shadowed : shadow[r] = "ended" => shadow'[r] = "ended",
         \A r \in Shadowed : shadow'[r] # "none" => shadow[r] # "none",
         \A r \in Requests : phase'[r] \in Early => phase[r] \in Early /\ answer'[r] = answer[r],
         \A r \in Requests : phase'[r] = "audit" => r \in Streams /\ answer'[r] = r
  PROVE  TraceInv'
<1> USE DEF TraceInv
<1>1. RowsOfEnded'
  BY DEF RowsOfEnded
<1>2. Successes(AuditTrail)' = Successes(AuditTrail)
  BY DEF Successes
<1>3. OneTrace'
  <2>1. \A row \in AuditTrail : row.kind = "log" => answer'[row.id] = answer[row.id]
    BY DEF RowsOfEnded
  <2>2. \A r \in Requests : phase'[r] = "ended" /\ answer'[r] = r =>
          r \in billed' \/ (r \in Streams /\ stops' > 0)
    BY DEF OneTrace
  <2>3. QED
    BY <1>2, <2>1, <2>2 DEF OneTrace
<1>4. \A r \in Requests : phase'[r] \in Early => answer'[r] = Nobody
  OBVIOUS
<1>5. \A r \in Shadowed : shadow'[r] # "none" => phase'[r] = "ended"
  BY DEF Requests
<1>6. CachedAreAnswered'
  <2>1. ASSUME NEW row \in rows \cup storing, row.answer \in Events
        PROVE  answer'[row.answer] = row.answer
    <3>1. row.answer \in Requests
      BY <2>1 DEF Requests
    <3>2. phase[row.answer] = "ended" /\ answer[row.answer] = row.answer
      BY <2>1, AnsweredAreOver
    <3>3. QED
      BY <3>1, <3>2
  <2>2. QED
    BY <2>1 DEF CachedAreAnswered
<1>7. QED
  BY <1>1, <1>3, <1>4, <1>5, <1>6

(* A request that ends leaves its only row in the log. *)
LEMMA LogRowTrace ==
  ASSUME TraceInv, RequestsTypeOK',
         NEW r \in Requests, phase[r] # "ended",
         NEW status \in {"success", "failed"}, NEW cost, Queue(LogRow(r, status, cost)),
         \/ status = "success" /\ billed' = billed \cup {r} /\ answer'[r] = r
         \/ status = "failed" /\ billed' = billed /\ answer'[r] = Nobody,
         phase' = [phase EXCEPT ![r] = "ended"], stops' = stops, rows' = rows,
         \A one \in storing' : one \in storing \/ (one.answer = r /\ answer'[r] = r),
         \A s \in Requests \ {r} : answer'[s] = answer[s],
         \A s \in Shadowed : s # r => shadow'[s] = shadow[s]
  PROVE  TraceInv'
<1> USE DEF TraceInv
<1> DEFINE row == LogRow(r, status, cost)
<1>1. AuditTrail' = AuditTrail \cup {row}
  BY QueueAdds
<1>2. row.id = r /\ row.kind = "log" /\ row.status = status
  BY DEF LogRow
<1>3. \A old \in AuditTrail : ~(old.kind = "log" /\ old.id = r)
  BY DEF RowsOfEnded
<1> HIDE DEF row
<1>4. /\ phase'[r] = "ended"
      /\ \A s \in Requests \ {r} : phase'[s] = phase[s]
  BY DEF RequestsTypeOK
<1>5. RowsOfEnded'
  <2>1. \A s \in Shadowed : shadow[s] = "ended" => s # r
    OBVIOUS
  <2>2. QED
    BY <1>1, <1>2, <1>3, <1>4, <2>1 DEF RowsOfEnded
<1>6. OneTrace'
  <2>1. \A one, other \in AuditTrail' : one.id = other.id /\ one.kind = other.kind => one = other
    BY <1>1, <1>2, <1>3 DEF OneTrace
  <2>2. {one.id : one \in Successes(AuditTrail)'} = billed'
    <3>1. Successes(AuditTrail)' = Successes(AuditTrail) \cup (IF status = "success" THEN {row} ELSE {})
      BY <1>1, <1>2 DEF Successes
    <3>2. QED
      BY <3>1, <1>2 DEF OneTrace
  <2>3. \A one \in AuditTrail' : one.kind = "log" =>
          answer'[one.id] = IF one.status = "success" THEN one.id ELSE Nobody
    <3>1. \A one \in AuditTrail : one.kind = "log" => answer'[one.id] = answer[one.id]
      BY <1>3 DEF RowsOfEnded
    <3>2. QED
      BY <1>1, <1>2, <3>1 DEF OneTrace
  <2>4. \A s \in Requests : phase'[s] = "ended" /\ answer'[s] = s =>
          s \in billed' \/ (s \in Streams /\ stops' > 0)
    BY <1>4 DEF OneTrace, Requests
  <2>5. QED
    BY <2>1, <2>2, <2>3, <2>4 DEF OneTrace
<1>7. \A s \in Requests : phase'[s] \in Early => answer'[s] = Nobody
  BY <1>4 DEF Early
<1>8. \A s \in Shadowed : shadow'[s] # "none" => phase'[s] = "ended"
  BY <1>4 DEF Requests
<1>9. \A s \in Requests : phase'[s] = "audit" => s \in Streams /\ answer'[s] = s
  BY <1>4
<1>10. CachedAreAnswered'
  <2>1. ASSUME NEW one \in rows \cup storing, one.answer \in Events
        PROVE  answer'[one.answer] = one.answer
    <3>1. phase[one.answer] = "ended" /\ answer[one.answer] = one.answer
      BY <2>1, AnsweredAreOver
    <3>2. QED
      BY <2>1, <3>1 DEF Requests
  <2>2. QED
    BY <2>1 DEF CachedAreAnswered
<1>11. QED
  BY <1>5, <1>6, <1>7, <1>8, <1>9, <1>10

LEMMA ShadowRowTrace ==
  ASSUME TraceInv, RequestsTypeOK', NEW r \in Shadowed, NEW status, ShadowEnds(r, status)
  PROVE  TraceInv'
<1> USE DEF TraceInv
<1>1. PICK row : /\ AuditTrail' = AuditTrail \cup {row}
                 /\ row.id = r /\ row.kind = "shadow"
  BY QueueAdds DEF ShadowEnds, ShadowRow
<1>2. /\ phase' = phase /\ answer' = answer /\ billed' = billed /\ stops' = stops
      /\ rows' = rows /\ storing' = storing
      /\ shadow[r] = "running" /\ shadow' = [shadow EXCEPT ![r] = "ended"]
  BY DEF ShadowEnds, cacheVars
<1>3. \A old \in AuditTrail : ~(old.kind = "shadow" /\ old.id = r)
  BY <1>2 DEF RowsOfEnded
<1>4. RowsOfEnded'
  BY <1>1, <1>2 DEF RowsOfEnded, RequestsTypeOK
<1>5. OneTrace'
  <2>1. \A one, other \in AuditTrail' : one.id = other.id /\ one.kind = other.kind => one = other
    BY <1>1, <1>3 DEF OneTrace
  <2>2. Successes(AuditTrail)' = Successes(AuditTrail)
    BY <1>1 DEF Successes
  <2>3. QED
    BY <1>1, <1>2, <2>1, <2>2 DEF OneTrace
<1>6. \A s \in Shadowed : shadow'[s] # "none" => phase'[s] = "ended"
  BY <1>2 DEF RequestsTypeOK
<1>7. CachedAreAnswered'
  BY <1>2 DEF CachedAreAnswered
<1>8. QED
  BY <1>2, <1>4, <1>5, <1>6, <1>7

LEMMA TraceStep ==
  ASSUME TraceInv, CacheInv', [RecordsNext]_recordsVars
  PROVE  TraceInv'
<1> USE DEF TraceInv, RequestsTypeOK
<1>1. RequestsTypeOK'
  BY DEF CacheInv
<1>2. \A r \in Events \cup Streams : r \in Requests
  BY DEF Requests
<1>3. ASSUME NEW r \in Events, NEW a \in Asks[r], Arrive(r, a)
      PROVE  TraceInv'
  BY <1>1, <1>2, <1>3, NoRow DEF Arrive, Becomes, trackerVars, cacheVars, AuditTrail, Early
<1>4. ASSUME NEW r \in Events, HitExact(r) \/ HitSimilar(r)
      PROVE  TraceInv'
  <2>1. PICK row \in rows : Serve(r, row) /\ phase[r] \in {"exact", "similar"}
    BY <1>4 DEF HitExact, HitSimilar, Exact, Similar
  <2>2. row.answer # r
    <3>1. row.answer = r => phase[r] = "ended"
      BY AnsweredAreOver
    <3>2. QED
      BY <2>1, <3>1
  <2>3. QED
    BY <1>1, <1>2, <2>1, <2>2, NoRow DEF Serve, Becomes, trackerVars, cacheVars, AuditTrail, Early
<1>5. ASSUME NEW r \in Events, Miss(r)
      PROVE  TraceInv'
  BY <1>1, <1>2, <1>5, NoRow DEF Miss, Becomes, trackerVars, cacheVars, AuditTrail, Early
<1>6. ASSUME NEW r \in Requests, Abandoned(r)
      PROVE  TraceInv'
  <2>1. answer[r] = Nobody /\ answer' = answer /\ r # Nobody
    BY <1>6 DEF Abandoned, Early, Requests
  <2>2. QED
    BY <1>1, <1>6, <2>1, NoRow DEF Abandoned, Becomes, trackerVars, cacheVars, AuditTrail, Early
<1>7. ASSUME NEW r \in Events, Answered(r)
      PROVE  TraceInv'
  <2>1. /\ r \in Requests /\ phase[r] # "ended" /\ Queue(LogRow(r, "success", CostOfCall[r]))
        /\ phase' = [phase EXCEPT ![r] = "ended"] /\ billed' = billed \cup {r}
        /\ stops' = stops /\ rows' = rows
    BY <1>2, <1>7 DEF Answered, Becomes, SuccessRow
  <2>2. answer'[r] = r /\ \A s \in Requests \ {r} : answer'[s] = answer[s]
    BY <1>7, <2>1 DEF Answered
  <2>3. \A one \in storing' : one \in storing \/ (one.answer = r /\ answer'[r] = r)
    BY <1>7, <2>2 DEF Answered, Store, RowOf
  <2>4. \A s \in Shadowed : s # r => shadow'[s] = shadow[s]
    BY <1>7 DEF Answered
  <2> HIDE DEF TraceInv
  <2>5. QED
    BY <1>1, <2>1, <2>2, <2>3, <2>4, LogRowTrace
<1>8. ASSUME NEW r \in Events, Failed(r)
      PROVE  TraceInv'
  BY <1>1, <1>2, <1>8, LogRowTrace DEF Failed, Becomes, FailedRow, Early, cacheVars
<1>9. ASSUME NEW r \in Streams, StreamBegins(r)
      PROVE  TraceInv'
  BY <1>1, <1>2, <1>9, NoRow DEF StreamBegins, Becomes, trackerVars, cacheVars, AuditTrail, Early
<1>10. ASSUME NEW r \in Streams, StreamEnds(r)
       PROVE  TraceInv'
  BY <1>1, <1>2, <1>10, NoRow DEF StreamEnds, Becomes, trackerVars, cacheVars, AuditTrail, Early
<1>11. ASSUME NEW r \in Streams, StreamAudited(r)
       PROVE  TraceInv'
  BY <1>1, <1>2, <1>11, LogRowTrace DEF StreamAudited, Becomes, SuccessRow, cacheVars
<1>12. ASSUME NEW e \in Events, Recording(e) \/ RecordingFails(e)
       PROVE  TraceInv'
  BY <1>1, <1>12, NoRow
  DEF Recording, RecordingFails, trackerVars, requestVars, cacheVars, AuditTrail, Early
<1>13. ASSUME NEW entry \in storing, Caching(entry)
       PROVE  TraceInv'
  <2>1. \A row \in rows' \cup storing' : row \in rows \cup storing
    BY <1>13 DEF Caching, Insert, InsertFails, Inserted
  <2>2. QED
    BY <1>1, <1>13, <2>1, NoRow DEF Caching, trackerVars, AuditTrail, Early
<1>14. ASSUME NEW row \in queued, Logging(row)
       PROVE  TraceInv'
  <2>1. AuditTrail' = AuditTrail
    BY <1>14 DEF Logging, WriteRow, WriteFails, AuditTrail
  <2>2. QED
    BY <1>1, <1>14, <2>1, NoRow DEF Logging, cacheVars, Early
<1>15. ASSUME Stop
       PROVE  TraceInv'
  <2>1. AuditTrail' = AuditTrail
    BY <1>15 DEF Stop, StopTracker, AuditTrail
  <2>2. QED
    <3>1. stops \in Nat /\ stops' > 0
      BY <1>15 DEF Stop
    <3>2. rows' = rows /\ storing' = {} /\ answer' = answer
      BY <1>15 DEF Stop, StopCache
    <3>3. \A r \in Requests : phase[r] # "ended" /\ phase'[r] = "ended" /\ answer'[r] = r => r \in Streams
      <4>1. \A r \in Requests : r # Nobody
        BY DEF Requests
      <4>2. QED
        BY <3>2, <4>1 DEF Early
    <3>4. QED
      BY <1>1, <1>15, <2>1, <3>1, <3>2, <3>3, NoRow DEF Stop, Early
<1>16. ASSUME UNCHANGED recordsVars
       PROVE  TraceInv'
  BY <1>1, <1>16, NoRow DEF recordsVars, requestVars, trackerVars, cacheVars, AuditTrail, Early
<1> HIDE DEF TraceInv, RequestsTypeOK
<1>17. QED
  BY <1>3, <1>4, <1>5, <1>6, <1>7, <1>8, <1>9, <1>10, <1>11, <1>12, <1>13, <1>14, <1>15, <1>16,
     ShadowRowTrace, <1>1 DEF RecordsNext

LEMMA TraceInvHolds == RecordsSpec => []TraceInv
<1>1. TraceInv /\ CacheInv' /\ [RecordsNext]_recordsVars => TraceInv'
  BY TraceStep
<1>2. QED
  BY InitTraceInv, <1>1, CacheInvHolds, PTL DEF RecordsSpec

(* A request leaves at most one row of each kind: success exactly when it was
   settled, and then its own call answered it; failed only when nobody did; none
   when it was served from the cache.  One that its own call answered misses its
   row only as a stream whose audit task died with the process
   (cost_tracker.rs record_request, record_error, record_shadow_comparison). *)
THEOREM TracesAreOne == RecordsSpec => []OneTrace
<1>1. TraceInv => OneTrace
  BY DEF TraceInv
<1>2. QED
  BY <1>1, TraceInvHolds, PTL

---------------------------------------------------------------------------
(* What rows and lines cost. *)
Priced(table) == IsFiniteSet(table) /\ \A row \in table : row.cost \in Nat

LEMMA CostIs ==
  ASSUME NEW table
  PROVE  CostOf(table) = SumFunctionOnSet([row \in table |-> row.cost], table)
BY DEF CostOf, SumFunction

(* The same sum with the costs of a larger table. *)
LEMMA CostWithin ==
  ASSUME NEW table, Priced(table), NEW part, part \subseteq table
  PROVE  /\ IsFiniteSet(part) /\ \A row \in part : [q \in table |-> q.cost][row] \in Nat
         /\ CostOf(part) = SumFunctionOnSet([row \in table |-> row.cost], part)
<1> DEFINE w == [row \in part |-> row.cost]
           v == [row \in table |-> row.cost]
<1>1. IsFiniteSet(part)
  BY FS_Subset DEF Priced
<1>2. \A row \in part : w[row] \in Nat /\ w[row] = v[row]
  BY DEF Priced
<1>3. CostOf(part) = SumFunctionOnSet(w, part)
  BY CostIs
<1> HIDE DEF w, v
<1>4. \A row \in part : w[row] \in Int /\ w[row] = v[row]
  BY <1>2
<1>5. SumFunctionOnSet(w, part) = SumFunctionOnSet(v, part)
  BY <1>1, <1>4, SumsAgree
<1>6. QED
  BY <1>1, <1>2, <1>3, <1>5 DEF v

LEMMA CostOfNothing == CostOf({}) = 0
BY CostIs, SumEmpty

LEMMA CostOfPart ==
  ASSUME NEW table, Priced(table), NEW part, part \subseteq table
  PROVE  CostOf(part) \in Nat /\ CostOf(table) \in Nat /\ CostOf(part) <= CostOf(table)
<1> DEFINE v == [row \in table |-> row.cost]
<1>1. IsFiniteSet(table) /\ \A row \in table : v[row] \in Nat
  BY DEF Priced
<1>2. /\ CostOf(part) = SumFunctionOnSet(v, part) /\ IsFiniteSet(part)
      /\ CostOf(table) = SumFunctionOnSet(v, table)
  BY CostWithin, CostIs
<1> HIDE DEF v
<1>3. QED
  BY <1>1, <1>2, SumOfPart, SumIsNat

LEMMA CostOfUnion ==
  ASSUME NEW one, NEW two, Priced(one \cup two)
  PROVE  /\ CostOf(one \cup two) <= CostOf(one) + CostOf(two)
         /\ one \cap two = {} => CostOf(one \cup two) = CostOf(one) + CostOf(two)
<1> DEFINE v == [row \in one \cup two |-> row.cost]
<1>1. \A row \in one \cup two : v[row] \in Nat /\ v[row] \in Int
  BY DEF Priced
<1>2. /\ CostOf(one) = SumFunctionOnSet(v, one) /\ IsFiniteSet(one)
      /\ CostOf(two) = SumFunctionOnSet(v, two) /\ IsFiniteSet(two)
      /\ CostOf(one \cup two) = SumFunctionOnSet(v, one \cup two)
  BY CostWithin, CostIs, SMTT(30)
<1> HIDE DEF v
<1>3. QED
  BY <1>1, <1>2, SumOfOverlap, SumOfUnion

LEMMA CostAdds ==
  ASSUME NEW table, Priced(table), NEW row, row \notin table, row.cost \in Nat
  PROVE  Priced(table \cup {row}) /\ CostOf(table \cup {row}) = CostOf(table) + row.cost
<1>1. Priced(table \cup {row})
  BY FS_AddElement DEF Priced
<1> DEFINE v == [q \in table \cup {row} |-> q.cost]
<1>2. /\ CostOf(table) = SumFunctionOnSet(v, table)
      /\ CostOf(table \cup {row}) = SumFunctionOnSet(v, table \cup {row})
  BY <1>1, CostWithin, CostIs
<1>3. \A q \in table \cup {row} : v[q] \in Int
  BY <1>1 DEF Priced
<1>4. v[row] = row.cost /\ IsFiniteSet(table)
  BY DEF Priced
<1> HIDE DEF v
<1>5. SumFunctionOnSet(v, table \cup {row}) = v[row] + SumFunctionOnSet(v, table)
  BY <1>3, <1>4, SumAdd
<1>6. CostOf(table) \in Nat
  BY CostOfPart
<1>7. QED
  BY <1>1, <1>2, <1>4, <1>5, <1>6

LEMMA TimesMonotone ==
  ASSUME NEW a \in Nat, NEW b \in Nat, a <= b, NEW c \in Nat
  PROVE  a * c \in Nat /\ b * c \in Nat /\ a * c <= b * c
<1>1. PICK d \in Nat : b = a + d
  <2>1. b - a \in Nat /\ b = a + (b - a)
    OBVIOUS
  <2>2. QED
    BY <2>1
<1>2. a * c \in Nat /\ d * c \in Nat /\ b * c = a * c + d * c
  BY <1>1
<1>3. QED
  BY <1>2

LEMMA LinesOrdered ==
  ASSUME NEW few \in [Events -> Nat], NEW many \in [Events -> Nat],
         \A e \in Events : few[e] <= many[e]
  PROVE  /\ CostOfLines(few) \in Nat /\ CostOfLines(many) \in Nat
         /\ CostOfLines(few) <= CostOfLines(many)
<1> DEFINE w == [e \in Events |-> few[e] * CostOfCall[e]]
           v == [e \in Events |-> many[e] * CostOfCall[e]]
<1>1. \A e \in Events : w[e] \in Nat /\ v[e] \in Nat /\ w[e] <= v[e]
  <2>1. TAKE e \in Events
  <2>2. few[e] \in Nat /\ many[e] \in Nat /\ few[e] <= many[e] /\ CostOfCall[e] \in Nat
    OBVIOUS
  <2>3. QED
    BY <2>2, TimesMonotone
<1>2. CostOfLines(few) = SumFunctionOnSet(w, Events) /\ CostOfLines(many) = SumFunctionOnSet(v, Events)
  BY DEF CostOfLines, SumFunction
<1> HIDE DEF w, v
<1>3. \A e \in Events : w[e] \in Int /\ v[e] \in Int /\ w[e] <= v[e]
  BY <1>1
<1>4. QED
  BY <1>1, <1>2, <1>3, SumsOrdered, SumIsNat

LEMMA LinesAdd ==
  ASSUME NEW one \in [Events -> Nat], NEW two \in [Events -> Nat]
  PROVE  CostOfLines([e \in Events |-> one[e] + two[e]]) = CostOfLines(one) + CostOfLines(two)
<1> DEFINE w == [e \in Events |-> one[e] * CostOfCall[e]]
           v == [e \in Events |-> two[e] * CostOfCall[e]]
           both == [e \in Events |-> one[e] + two[e]]
           u == [e \in Events |-> both[e] * CostOfCall[e]]
<1>1. \A e \in Events : w[e] \in Int /\ v[e] \in Int /\ u[e] = w[e] + v[e]
  <2>1. TAKE e \in Events
  <2>2. one[e] \in Nat /\ two[e] \in Nat /\ CostOfCall[e] \in Nat
    OBVIOUS
  <2>3. QED
    BY <2>2
<1>2. /\ CostOfLines(one) = SumFunctionOnSet(w, Events)
      /\ CostOfLines(two) = SumFunctionOnSet(v, Events)
      /\ CostOfLines(both) = SumFunctionOnSet(u, Events)
  BY DEF CostOfLines, SumFunction
<1> HIDE DEF w, v, u
<1>3. QED
  BY <1>1, <1>2, SumOfSums

---------------------------------------------------------------------------
(* The books.  The recorder has a task for exactly the settled requests, and
   the rows of those cost what one line for each of them does. *)
EventRows(table) == {row \in Successes(table) : row.id \in Events}
Told == [e \in Events |-> IF e \in billed THEN 1 ELSE 0]

AuditInv ==
  /\ Priced(AuditTrail)
  /\ BooksBalance
  /\ \A row \in logs : row.kind = "log"
  /\ \A row \in shadows : row.kind = "shadow"
  /\ \A e \in Events : recorder[e] # "none" <=> e \in billed
  /\ CostOf(EventRows(AuditTrail)) = CostOfLines(Told)

LEMMA InitAudit == RecordsInit => AuditInv
<1> SUFFICES ASSUME RecordsInit PROVE AuditInv
  OBVIOUS
<1>1. AuditTrail = {} /\ EventRows(AuditTrail) = {} /\ logs = {} /\ shadows = {}
  BY DEF RecordsInit, TrackerInit, AuditTrail, EventRows, Successes
<1>2. Priced(AuditTrail) /\ CostOf(AuditTrail) = 0
  BY <1>1, FS_EmptySet, CostOfNothing DEF Priced
<1>3. CostOfLines(Told) = 0
  <2> DEFINE none == [e \in Events |-> 0]
             w == [e \in Events |-> none[e] * CostOfCall[e]]
  <2>1. Told = none
    BY DEF RecordsInit, Told
  <2>2. \A e \in Events : w[e] = 0
    <3>1. TAKE e \in Events
    <3>2. CostOfCall[e] \in Nat /\ none[e] = 0
      OBVIOUS
    <3>3. QED
      BY <3>2
  <2>3. CostOfLines(none) = SumFunctionOnSet(w, Events)
    BY DEF CostOfLines, SumFunction
  <2> HIDE DEF w
  <2>4. SumFunctionOnSet(w, Events) = SumFunctionOnSet(w, Events) + SumFunctionOnSet(w, Events)
    <3>1. \A e \in Events : w[e] \in Int /\ w[e] = w[e] + w[e]
      BY <2>2
    <3>2. QED
      BY <3>1, SumOfSums
  <2>5. SumFunctionOnSet(w, Events) \in Int
    BY <2>2, SumIsInt
  <2>6. SumFunctionOnSet(w, Events) = 0
    <3>1. \A s \in Int : s = s + s => s = 0
      OBVIOUS
    <3> HIDE DEF none
    <3>2. QED
      BY <2>4, <2>5, <3>1, Zenon
  <2> HIDE DEF none
  <2>7. QED
    BY <2>1, <2>3, <2>6
<1>4. BooksBalance
  BY <1>2 DEF BooksBalance, RecordsInit
<1>5. \A e \in Events : recorder[e] # "none" <=> e \in billed
  BY DEF RecordsInit, TelemetryInit
<1>6. QED
  BY <1>1, <1>2, <1>3, <1>4, <1>5, CostOfNothing DEF AuditInv

(* Actions that spawn no row. *)
LEMMA NoRowAudit ==
  ASSUME AuditInv, AuditTrail' = AuditTrail, charged' = charged, billed' = billed,
         \A row \in logs' : row.kind = "log", \A row \in shadows' : row.kind = "shadow",
         \A e \in Events : recorder'[e] # "none" <=> recorder[e] # "none"
  PROVE  AuditInv'
<1>1. EventRows(AuditTrail)' = EventRows(AuditTrail) /\ Told' = Told
  BY DEF EventRows, Successes, Told
<1>2. QED
  BY <1>1 DEF AuditInv, BooksBalance, Priced, CostOfLines

(* Actions that spawn one and leave the settled requests of Events alone. *)
LEMMA RowAudit ==
  ASSUME AuditInv, NEW row, row \notin AuditTrail, row.cost \in Nat,
         AuditTrail' = AuditTrail \cup {row}, charged' = charged + row.cost,
         logs' = logs, shadows' = shadows
  PROVE  /\ Priced(AuditTrail)' /\ BooksBalance'
         /\ \A old \in logs' : old.kind = "log"
         /\ \A old \in shadows' : old.kind = "shadow"
BY CostAdds DEF AuditInv, BooksBalance, Priced

LEMMA OtherRowAudit ==
  ASSUME AuditInv, NEW row, row \notin AuditTrail, row.cost \in Nat,
         AuditTrail' = AuditTrail \cup {row}, charged' = charged + row.cost,
         logs' = logs, shadows' = shadows, recorder' = recorder,
         row \notin EventRows({row}), billed' \cap Events = billed \cap Events
  PROVE  AuditInv'
<1>1. EventRows(AuditTrail)' = EventRows(AuditTrail)
  BY DEF EventRows, Successes
<1>2. Told' = Told
  BY DEF Told
<1>3. \A e \in Events : recorder'[e] # "none" <=> e \in billed'
  BY DEF AuditInv
<1>4. QED
  BY <1>1, <1>2, <1>3, RowAudit DEF AuditInv, CostOfLines

LEMMA AnsweredAudit ==
  ASSUME AuditInv, TraceInv, TelemetryTypeOK, NEW r \in Events, Answered(r)
  PROVE  AuditInv'
<1> DEFINE row == SuccessRow(r, CostOfCall[r])
<1>1. /\ AuditTrail' = AuditTrail \cup {row} /\ logs' = logs /\ shadows' = shadows
      /\ charged' = charged + CostOfCall[r] /\ billed' = billed \cup {r}
      /\ recorder[r] = "none" /\ recorder' = [recorder EXCEPT ![r] = "push"]
  BY QueueAdds DEF Answered, SpawnRecord, Queue
<1>2. /\ row.id = r /\ row.kind = "log" /\ row.status = "success" /\ row.cost = CostOfCall[r]
      /\ CostOfCall[r] \in Nat
  BY DEF SuccessRow, LogRow
<1>3. row \notin AuditTrail
  BY <1>2 DEF TraceInv, RowsOfEnded, Answered
<1>4. r \notin billed
  BY <1>1 DEF AuditInv
<1> HIDE DEF row
<1>5. CostOf(EventRows(AuditTrail)') = CostOf(EventRows(AuditTrail)) + CostOfCall[r]
  <2>1. EventRows(AuditTrail)' = EventRows(AuditTrail) \cup {row} /\ row \notin EventRows(AuditTrail)
    BY <1>1, <1>2, <1>3 DEF EventRows, Successes
  <2>2. Priced(EventRows(AuditTrail))
    BY FS_Subset DEF EventRows, Successes, Priced, AuditInv
  <2>3. QED
    BY <1>2, <2>1, <2>2, CostAdds
<1>6. CostOfLines(Told') = CostOfLines(Told) + CostOfCall[r]
  <2> DEFINE w == [e \in Events |-> Told[e] * CostOfCall[e]]
             v == [e \in Events |-> Told'[e] * CostOfCall[e]]
  <2>1. \A e \in Events : /\ Told'[e] = IF e = r THEN 1 ELSE Told[e]
                          /\ Told[e] \in Nat /\ CostOfCall[e] \in Nat
    BY <1>1 DEF Told
  <2>2. Told[r] = 0
    BY <1>4 DEF Told
  <2>3. \A e \in Events : w[e] \in Int /\ v[e] \in Int
    <3>1. TAKE e \in Events
    <3>2. Told[e] \in Int /\ Told'[e] \in Int /\ CostOfCall[e] \in Int
      BY <2>1
    <3>3. QED
      BY <3>2
  <2>4. w[r] = 0 /\ v[r] = CostOfCall[r] /\ \A e \in Events \ {r} : v[e] = w[e]
    BY <2>1, <2>2
  <2>5. CostOfLines(Told) = SumFunctionOnSet(w, Events) /\ CostOfLines(Told') = SumFunctionOnSet(v, Events)
    BY DEF CostOfLines, SumFunction
  <2> HIDE DEF w, v
  <2>6. SumFunctionOnSet(v, Events) = SumFunctionOnSet(w, Events) + (v[r] - w[r])
    BY <2>3, <2>4, SumUpdate
  <2>7. SumFunctionOnSet(w, Events) \in Int
    BY <2>3, SumIsInt
  <2>8. QED
    BY <1>2, <2>4, <2>5, <2>6, <2>7
<1>7. \A e \in Events : recorder'[e] # "none" <=> e \in billed'
  BY <1>1 DEF AuditInv, TelemetryTypeOK
<1>8. /\ Priced(AuditTrail)' /\ BooksBalance'
      /\ \A old \in logs' : old.kind = "log"
      /\ \A old \in shadows' : old.kind = "shadow"
  BY <1>1, <1>2, <1>3, RowAudit
<1>9. QED
  BY <1>5, <1>6, <1>7, <1>8 DEF AuditInv, CostOfLines

LEMMA FailedAudit ==
  ASSUME AuditInv, TraceInv, NEW r \in Events, Failed(r)
  PROVE  AuditInv'
<1> DEFINE row == FailedRow(r)
<1>1. /\ AuditTrail' = AuditTrail \cup {row} /\ logs' = logs /\ shadows' = shadows
      /\ charged' = charged /\ billed' = billed /\ recorder' = recorder
  BY QueueAdds DEF Failed, Queue, telemetryVars
<1>2. /\ row.id = r /\ row.kind = "log" /\ row.status = "failed" /\ row.cost = 0
  BY DEF FailedRow, LogRow
<1>3. row \notin AuditTrail
  BY <1>2 DEF TraceInv, RowsOfEnded, Failed
<1> HIDE DEF row
<1>4. charged' = charged + row.cost
  BY <1>1, <1>2, CostOfPart DEF AuditInv, BooksBalance
<1>5. row \notin EventRows({row})
  BY <1>2 DEF EventRows, Successes
<1>6. QED
  BY <1>1, <1>2, <1>3, <1>4, <1>5, OtherRowAudit

LEMMA ShadowAudit ==
  ASSUME AuditInv, TraceInv, NEW r \in Shadowed, NEW status, ShadowEnds(r, status)
  PROVE  AuditInv'
<1> DEFINE cost == IF status = "answered" THEN ShadowCost[r] ELSE 0
           row == ShadowRow(r, status, cost)
<1>1. /\ AuditTrail' = AuditTrail \cup {row} /\ logs' = logs /\ shadows' = shadows
      /\ charged' = charged + cost /\ billed' = billed /\ recorder' = recorder
  BY QueueAdds DEF ShadowEnds, Queue, telemetryVars
<1>2. row.id = r /\ row.kind = "shadow" /\ row.cost = cost /\ cost \in Nat
  BY DEF ShadowRow
<1>3. row \notin AuditTrail
  BY <1>2 DEF TraceInv, RowsOfEnded, ShadowEnds
<1> HIDE DEF row, cost
<1>4. row \notin EventRows({row})
  BY <1>2 DEF EventRows, Successes
<1>5. QED
  BY <1>1, <1>2, <1>3, <1>4, OtherRowAudit

LEMMA StreamAudit ==
  ASSUME AuditInv, TraceInv, NEW r \in Streams, StreamAudited(r)
  PROVE  AuditInv'
<1> DEFINE row == SuccessRow(r, CostOfCall[r])
<1>1. /\ AuditTrail' = AuditTrail \cup {row} /\ logs' = logs /\ shadows' = shadows
      /\ charged' = charged + CostOfCall[r] /\ billed' = billed \cup {r} /\ recorder' = recorder
  BY QueueAdds DEF StreamAudited, Queue, telemetryVars
<1>2. row.id = r /\ row.kind = "log" /\ row.cost = CostOfCall[r] /\ CostOfCall[r] \in Nat
  BY DEF SuccessRow, LogRow
<1>3. row \notin AuditTrail
  BY <1>2 DEF TraceInv, RowsOfEnded, StreamAudited
<1> HIDE DEF row
<1>4. r \notin Events
  OBVIOUS
<1>5. row \notin EventRows({row}) /\ billed' \cap Events = billed \cap Events
  BY <1>1, <1>2, <1>4 DEF EventRows, Successes
<1>6. QED
  BY <1>1, <1>2, <1>3, <1>5, OtherRowAudit

LEMMA AuditStep ==
  ASSUME AuditInv, TraceInv, TelemetryTypeOK, [RecordsNext]_recordsVars
  PROVE  AuditInv'
<1> USE DEF telemetryVars, trackerVars, requestVars
<1>1. ASSUME UNCHANGED <<telemetryVars, trackerVars, charged, billed>>
      PROVE  AuditInv'
  BY <1>1, NoRowAudit DEF AuditInv, AuditTrail
<1>2. ASSUME NEW r \in Events, \/ \E a \in Asks[r] : Arrive(r, a)
                               \/ HitExact(r) \/ HitSimilar(r) \/ Miss(r)
      PROVE  AuditInv'
  BY <1>1, <1>2 DEF Arrive, HitExact, HitSimilar, Serve, Miss
<1>3. ASSUME NEW r \in Requests, Abandoned(r)
      PROVE  AuditInv'
  BY <1>1, <1>3 DEF Abandoned
<1>4. ASSUME NEW r \in Streams, StreamBegins(r) \/ StreamEnds(r)
      PROVE  AuditInv'
  BY <1>1, <1>4 DEF StreamBegins, StreamEnds
<1>5. ASSUME NEW entry \in storing, Caching(entry)
      PROVE  AuditInv'
  BY <1>1, <1>5 DEF Caching
<1>6. ASSUME NEW e \in Events, Recording(e) \/ RecordingFails(e)
      PROVE  AuditInv'
  <2>1. \A f \in Events : recorder'[f] # "none" <=> recorder[f] # "none"
    BY <1>6 DEF Recording, RecordingFails, Push, FlushNothing, FlushWrites, FlushFails, TelemetryTypeOK
  <2>2. /\ UNCHANGED <<queued, logs, shadows, dropped, charged, billed>>
    BY <1>6 DEF Recording, RecordingFails
  <2>3. QED
    BY <2>1, <2>2, NoRowAudit DEF AuditInv, AuditTrail
<1>7. ASSUME NEW row \in queued, Logging(row)
      PROVE  AuditInv'
  <2>1. AuditTrail' = AuditTrail
    BY <1>7 DEF Logging, WriteRow, WriteFails, AuditTrail
  <2>2. row.kind \in {"log", "shadow"}
    BY DEF TraceInv, RowsOfEnded, AuditTrail
  <2>3. /\ \A old \in logs' : old.kind = "log"
        /\ \A old \in shadows' : old.kind = "shadow"
    BY <1>7, <2>2 DEF Logging, WriteRow, WriteFails, AuditInv
  <2>4. UNCHANGED <<charged, billed, recorder>>
    BY <1>7 DEF Logging
  <2>5. QED
    BY <2>1, <2>3, <2>4, NoRowAudit
<1>8. CASE Stop
  <2>1. AuditTrail' = AuditTrail /\ UNCHANGED <<logs, shadows, charged, billed>>
    BY <1>8 DEF Stop, StopTracker, AuditTrail
  <2>2. \A e \in Events : recorder'[e] # "none" <=> recorder[e] # "none"
    BY <1>8 DEF Stop, StopRecorder
  <2>3. QED
    BY <2>1, <2>2, NoRowAudit DEF AuditInv
<1>9. CASE UNCHANGED recordsVars
  BY <1>1, <1>9 DEF recordsVars
<1>10. QED
  BY <1>2, <1>3, <1>4, <1>5, <1>6, <1>7, <1>8, <1>9, AnsweredAudit, FailedAudit, ShadowAudit,
     StreamAudit DEF RecordsNext

LEMMA AuditInvHolds == RecordsSpec => []AuditInv
<1>1. AuditInv /\ TraceInv /\ TelemetryTypeOK /\ [RecordsNext]_recordsVars => AuditInv'
  BY AuditStep
<1>2. QED
  BY InitAudit, <1>1, TraceInvHolds, RecordsImplementTelemetry, RecorderSound, PTL DEF RecordsSpec

(* Every cent the spend guard was told of is in exactly one row that was spawned
   (main.rs, streaming.rs: each reconcile is beside a record_request or a
   record_shadow_comparison). *)
THEOREM BooksAlwaysBalance == RecordsSpec => []BooksBalance
<1>1. AuditInv => BooksBalance
  BY DEF AuditInv
<1>2. QED
  BY <1>1, AuditInvHolds, PTL

---------------------------------------------------------------------------
(* The two reports, compared through what one line for each settled request
   would cost. *)
LEMMA ReportsCompared ==
  ASSUME AuditInv, TraceInv, TelemetryTypeOK, Kept, NoExtraCopies
  PROVE  ReportsApart
<1> DEFINE inMemory == [e \in Events |-> IF recorder[e] = "push" \/ e \in Buffered \cup lost THEN 1 ELSE 0]
           written == Successes(logs)
           unwritten == Successes(queued \cup dropped)
           streamed == {row \in written : row.id \in Streams}
<1>1. /\ Told \in [Events -> Nat] /\ inMemory \in [Events -> Nat]
      /\ disk \in [Events -> Nat] /\ failures \in [Events -> Nat]
  BY DEF Told, TelemetryTypeOK
<1>2. DailyReport.total_cost_cents = CostOf(written)
  <2>1. {row \in logs : row.status = "success"} = written
    BY DEF Successes, AuditInv
  <2>2. QED
    BY <2>1 DEF DailyReport
<1>3. \A part : part \subseteq AuditTrail => Priced(part)
  BY FS_Subset DEF AuditInv, Priced
<1>4. /\ written \subseteq AuditTrail /\ unwritten \subseteq AuditTrail
      /\ EventRows(AuditTrail) \subseteq written \cup unwritten
      /\ EventRows(written) \subseteq EventRows(AuditTrail)
  BY DEF Successes, EventRows, AuditTrail, AuditInv
<1>5. written = EventRows(written) \cup streamed /\ EventRows(written) \cap streamed = {}
  <2>1. \A row \in written : row.kind = "log" /\ row.status = "success" /\ row.id \in Requests
    BY DEF Successes, AuditTrail, TraceInv, RowsOfEnded
  <2>2. QED
    BY <2>1 DEF EventRows, Successes, Requests
<1>6. \A part : part \subseteq AuditTrail => CostOf(part) \in Nat
  BY <1>3, CostOfPart
<1>7. CostOf(EventRows(AuditTrail)) = CostOfLines(Told) /\ CostOfLines(Told) \in Nat
  BY <1>1, LinesOrdered DEF AuditInv
<1> HIDE DEF inMemory, written, unwritten, streamed
<1>8. CostOfLines(disk) <= CostOf(written) + CostOf(unwritten) + CostOfLines(failures)
  <2> DEFINE bound == [e \in Events |-> Told[e] + failures[e]]
  <2>1. bound \in [Events -> Nat]
    BY <1>1
  <2>2. \A e \in Events : disk[e] <= bound[e]
    <3>1. TAKE e \in Events
    <3>2. Told[e] = (IF recorder[e] # "none" THEN 1 ELSE 0)
      BY DEF Told, AuditInv
    <3>3. disk[e] \in Nat /\ failures[e] \in Nat
      BY <1>1
    <3>4. QED
      BY <3>2, <3>3 DEF NoExtraCopies
  <2>3. CostOfLines(bound) = CostOfLines(Told) + CostOfLines(failures)
    BY <1>1, LinesAdd
  <2> HIDE DEF bound
  <2>4. CostOfLines(disk) <= CostOfLines(bound) /\ CostOfLines(disk) \in Nat
    BY <1>1, <2>1, <2>2, LinesOrdered
  <2>5. CostOfLines(failures) \in Nat
    BY <1>1, LinesOrdered
  <2>6. Priced(written \cup unwritten)
    BY <1>3, <1>4
  <2>7. CostOf(EventRows(AuditTrail)) <= CostOf(written \cup unwritten)
    BY <1>4, <2>6, CostOfPart
  <2>8. CostOf(written \cup unwritten) <= CostOf(written) + CostOf(unwritten)
    BY <2>6, CostOfUnion
  <2>9. CostOf(written) \in Nat /\ CostOf(unwritten) \in Nat /\ CostOf(written \cup unwritten) \in Nat
    BY <1>4, <1>6
  <2>10. QED
    BY <1>7, <2>3, <2>4, <2>5, <2>7, <2>8, <2>9
<1>9. CostOf(written) <= CostOfLines(disk) + CostOf(streamed) + CostOfLines(inMemory)
  <2> DEFINE bound == [e \in Events |-> disk[e] + inMemory[e]]
  <2>1. bound \in [Events -> Nat]
    BY <1>1
  <2>2. \A e \in Events : Told[e] <= bound[e]
    <3>1. TAKE e \in Events
    <3>2. Told[e] = (IF recorder[e] # "none" THEN 1 ELSE 0)
      BY DEF Told, AuditInv
    <3>3. /\ disk[e] \in Nat
          /\ inMemory[e] = IF recorder[e] = "push" \/ e \in Buffered \cup lost THEN 1 ELSE 0
      BY <1>1 DEF inMemory
    <3>4. recorder[e] \in {"none", "push", "flush", "done"}
      BY DEF TelemetryTypeOK
    <3>5. QED
      BY <3>2, <3>3, <3>4 DEF Kept
  <2>3. CostOfLines(bound) = CostOfLines(disk) + CostOfLines(inMemory)
    BY <1>1, LinesAdd
  <2> HIDE DEF bound
  <2>4. CostOfLines(Told) <= CostOfLines(bound) /\ CostOfLines(bound) \in Nat
    BY <1>1, <2>1, <2>2, LinesOrdered
  <2>5. Priced(EventRows(AuditTrail)) /\ EventRows(written) \subseteq AuditTrail /\ streamed \subseteq AuditTrail
    BY <1>3, <1>4, <1>5 DEF EventRows, Successes
  <2>6. CostOf(EventRows(written)) <= CostOf(EventRows(AuditTrail))
    BY <1>4, <2>5, CostOfPart
  <2>7. CostOf(written) = CostOf(EventRows(written)) + CostOf(streamed)
    <3>1. Priced(EventRows(written) \cup streamed)
      BY <1>3, <1>4, <1>5
    <3>2. CostOf(EventRows(written) \cup streamed) = CostOf(EventRows(written)) + CostOf(streamed)
      BY <1>5, <3>1, CostOfUnion
    <3>3. QED
      BY <1>5, <3>2
  <2>8. /\ CostOf(EventRows(written)) \in Nat /\ CostOf(streamed) \in Nat
        /\ CostOfLines(disk) \in Nat /\ CostOfLines(inMemory) \in Nat
    BY <1>1, <1>6, <2>5, LinesOrdered
  <2>9. QED
    BY <1>7, <2>3, <2>4, <2>6, <2>7, <2>8
<1>10. RoiReport.total_cost_cents = CostOfLines(disk)
  BY DEF RoiReport
<1>11. QED
  BY <1>2, <1>8, <1>9, <1>10 DEF ReportsApart, inMemory, unwritten, streamed, written

(* The cost of the ROI report and that of the daily one are apart by unwritten
   rows, doubled lines, streams and records in memory, and by nothing else
   (telemetry.rs generate_roi_report, cost_tracker.rs get_daily_report). *)
THEOREM ReportsStayApart == RecordsSpec => []ReportsApart
<1>1. AuditInv /\ TraceInv /\ TelemetryTypeOK /\ Kept /\ NoExtraCopies => ReportsApart
  BY ReportsCompared
<1>2. QED
  BY <1>1, AuditInvHolds, TraceInvHolds, RecordsImplementTelemetry, RecorderSound, PTL
=============================================================================
