--------------------------- MODULE DispatchProofs ---------------------------
(***************************************************************************)
(* Proofs about Dispatch for any headers, requests, catalogs, scripts and  *)
(* counts: who a request counts for, whose keys a provider is called with, *)
(* what is read from a stream, what a catalog may add to the registry,     *)
(* whom the choice of a model may turn away, how well it is made, what a   *)
(* request is charged, and its types.                                      *)
(***************************************************************************)
EXTENDS Dispatch, FiniteSetTheorems, TLAPS

LEMMA LeastIs ==
  ASSUME NEW S \in SUBSET Nat, S # {}
  PROVE  Least(S) \in S /\ \A l \in S : Least(S) <= l
<1>1. \E k \in S : \A l \in S : ~ (<<l, k>> \in OpToRel(<, Nat))
  BY NatLessThanWellFounded, WFMin, Zenon
<1>2. PICK k \in S : \A l \in S : ~ (<<l, k>> \in OpToRel(<, Nat))
  BY <1>1
<1>3. \A l \in S : k <= l
  <2>1. TAKE l \in S
  <2>2. l \in Nat /\ k \in Nat /\ <<l, k>> \in Nat \X Nat
    OBVIOUS
  <2>3. ~ (<<l, k>>[1] < <<l, k>>[2])
    BY <1>2, <2>2 DEF OpToRel
  <2>4. QED
    BY <2>2, <2>3
<1>4. QED
  BY <1>3 DEF Least

LEMMA GreatestIs ==
  ASSUME NEW n \in Nat, NEW S \in SUBSET (1..n), S # {}
  PROVE  Greatest(S) \in S /\ \A l \in S : l <= Greatest(S)
<1> DEFINE T == {n - k : k \in S}
<1>1. T \in SUBSET Nat /\ T # {}
  <2>1. \A k \in S : k \in 1..n
    OBVIOUS
  <2>2. \A k \in S : n - k \in Nat
    BY <2>1
  <2>3. QED
    BY <2>2
<1>2. Least(T) \in T /\ \A t \in T : Least(T) <= t
  <2> HIDE DEF T
  <2>1. QED
    BY <1>1, LeastIs
<1>3. PICK k \in S : Least(T) = n - k
  BY <1>2
<1>4. \A l \in S : l <= k
  <2>1. TAKE l \in S
  <2>2. n - l \in T
    OBVIOUS
  <2>3. n - k <= n - l /\ k \in Nat /\ l \in Nat
    BY <1>2, <1>3, <2>2
  <2>4. QED
    BY <2>3
<1>5. QED
  BY <1>4 DEF Greatest

LEMMA GreatestIsOne ==
  ASSUME NEW n \in Nat, NEW S \in SUBSET (1..n), NEW k \in S, \A l \in S : l <= k
  PROVE  Greatest(S) = k
<1>1. Greatest(S) \in S /\ k <= Greatest(S)
  BY GreatestIs
<1>2. \A l \in S : l \in Nat
  OBVIOUS
<1>3. Greatest(S) <= k /\ k \in Nat /\ Greatest(S) \in Nat
  BY <1>1, <1>2
<1>4. QED
  BY <1>1, <1>3

---------------------------------------------------------------------------
(* Streams.  While every cut was after a line, no stop was read yet, and the
   usage is that of the lines that were read. *)
Counts2 == [input : Int, output : Int]

StreamTypeOK ==
  /\ script \in Seq(StreamLines)
  /\ family \in {"anthropic", "gemini", "openai"}
  /\ place \in Nat /\ torn \in BOOLEAN /\ clean \in BOOLEAN
  /\ usage \in Counts2 /\ payload \in [sent : BOOLEAN, usage : Counts2]

Whole == Lines(0, place)
FromLines(u, lines) ==
  /\ \A field \in {"input", "output"} : u[field] \in {script[k][field] : k \in Given(lines, field)} \cup {0}
  /\ family = "anthropic" => u.input = 0
LastOf(u, lines, field) ==
  Given(lines, field) # {} => u[field] = script[Greatest(Given(lines, field))][field]
LastCounts(u, lines) ==
  LastOf(u, lines, "output") /\ (family # "anthropic" => LastOf(u, lines, "input"))

StreamInv ==
  /\ StreamTypeOK
  /\ clean => place % 2 = 0 /\ torn = FALSE
  /\ ~payload.sent => FromLines(usage, Whole)
  /\ ~payload.sent /\ clean => Stops(Whole) = {} /\ LastCounts(usage, Whole)
  /\ payload.sent => FromLines(payload.usage, Whole) /\ (clean => LastCounts(payload.usage, Read(Whole)))

LEMMA FaithfulFromInv == StreamInv => UsageFaithful
BY DEF StreamInv, UsageFaithful, FromLines, LastCounts, LastOf, Whole

LEMMA LinesIn ==
  ASSUME StreamTypeOK, NEW from \in Nat, NEW to \in Nat
  PROVE  /\ Lines(from, to) \subseteq 1..Len(script) /\ Len(script) \in Nat
         /\ \A k \in 1..Len(script) : script[k] \in StreamLines
BY DEF StreamTypeOK, Lines

LEMMA IdleInv == StreamIdle => StreamInv
<1> SUFFICES ASSUME StreamIdle PROVE StreamInv
  OBVIOUS
<1>1. StreamTypeOK
  <2>1. <<>> \in Seq(StreamLines) /\ NoUsage \in Counts2 /\ NoPayload \in [sent : BOOLEAN, usage : Counts2]
    BY DEF NoUsage, NoPayload, Counts2
  <2>2. QED
    BY <2>1 DEF StreamIdle, StreamTypeOK
<1>2. Whole = {} /\ Stops({}) = {} /\ \A field : Given({}, field) = {}
  BY DEF StreamIdle, Whole, Lines, Stops, Given
<1>3. QED
  BY <1>1, <1>2 DEF StreamIdle, StreamInv, FromLines, LastCounts, LastOf, NoUsage, NoPayload

LEMMA OpensInv ==
  ASSUME NEW lines \in Seq(StreamLines), NEW f \in {"anthropic", "gemini", "openai"},
         StreamOpens(lines, f)
  PROVE  StreamInv'
<1>1. StreamTypeOK'
  <2>1. NoUsage \in Counts2 /\ NoPayload \in [sent : BOOLEAN, usage : Counts2]
    BY DEF NoUsage, NoPayload, Counts2
  <2>2. QED
    BY <2>1 DEF StreamOpens, StreamTypeOK
<1>2. Whole' = {}
  <2>1. \A k \in 1..Len(script') : ~(2 * k <= 0)
    OBVIOUS
  <2>2. QED
    BY <1>1, <2>1 DEF StreamOpens, StreamTypeOK, Whole, Lines
<1>3. Stops(Whole)' = {} /\ \A field \in {"input", "output"} : Given(Whole, field)' = {}
  BY <1>2 DEF Stops, Given
<1>4. QED
  BY <1>1, <1>3 DEF StreamOpens, StreamInv, FromLines, LastCounts, LastOf, NoUsage, NoPayload

LEMMA LatestIs ==
  ASSUME StreamTypeOK, NEW lines \in SUBSET (1..Len(script)), NEW field, NEW before
  PROVE  \/ Given(lines, field) = {} /\ Latest(lines, field, before) = before
         \/ \E k \in Given(lines, field) :
              /\ \A l \in Given(lines, field) : l <= k
              /\ Greatest(Given(lines, field)) = k
              /\ Latest(lines, field, before) = script[k][field]
<1>1. Given(lines, field) \in SUBSET (1..Len(script)) /\ Len(script) \in Nat
  <2>1. Len(script) \in Nat
    BY DEF StreamTypeOK
  <2>2. Given(lines, field) \subseteq lines
    BY DEF Given
  <2>3. QED
    BY <2>1, <2>2
<1>2. CASE Given(lines, field) = {}
  BY <1>2 DEF Latest
<1>3. CASE Given(lines, field) # {}
  BY <1>1, <1>3, GreatestIs DEF Latest
<1>4. QED
  BY <1>2, <1>3

(* A place after a line splits the lines that follow from those before. *)
LEMMA WholeSplits ==
  ASSUME StreamTypeOK, place % 2 = 0, NEW to \in Nat, place < to
  PROVE  /\ Lines(0, to) = Whole \cup Lines(place, to)
         /\ \A k \in Whole, l \in Lines(place, to) : k < l
<1>1. DOMAIN script = 1..Len(script) /\ Len(script) \in Nat /\ place \in Nat
  BY DEF StreamTypeOK
<1>2. \A k \in 1..Len(script) : k \in Nat /\ 0 <= 2 * (k - 1)
  BY <1>1
<1>3. \A k \in Nat : 2 * k <= place \/ place <= 2 * (k - 1)
  BY <1>1
<1>4. \A k \in Nat : 2 * k <= place => 2 * k <= to
  BY <1>1
<1>5. QED
  BY <1>1, <1>2, <1>3, <1>4 DEF Whole, Lines

LEMMA ReadSplits ==
  ASSUME StreamTypeOK, place % 2 = 0, NEW to \in Nat, place < to, Stops(Whole) = {}
  PROVE  /\ Stops(Lines(0, to)) = Stops(Lines(place, to))
         /\ Read(Lines(0, to)) = Whole \cup Read(Lines(place, to))
<1> DEFINE new == Lines(place, to)
           S == Stops(new)
<1>1. /\ Lines(0, to) = Whole \cup new
      /\ \A k \in Whole, l \in new : k < l
      /\ new \subseteq 1..Len(script) /\ Whole \subseteq 1..Len(script) /\ Len(script) \in Nat
  BY WholeSplits, LinesIn DEF StreamTypeOK, Whole
<1>2. Stops(Lines(0, to)) = S
  BY <1>1 DEF Stops
<1>3. CASE S = {}
  BY <1>1, <1>2, <1>3 DEF Read
<1>4. CASE S # {}
  <2>1. S \in SUBSET Nat /\ S \subseteq new
    BY <1>1 DEF Stops
  <2>2. Least(S) \in new
    BY <1>4, <2>1, LeastIs
  <2>3. \A k \in Whole : k <= Least(S)
    BY <1>1, <2>2
  <2> HIDE DEF new, S
  <2>4. Read(Lines(0, to)) = {k \in Whole \cup new : k <= Least(S)}
    BY <1>1, <1>2, <1>4 DEF Read
  <2>5. Read(new) = {k \in new : k <= Least(S)}
    BY <1>4 DEF Read, S
  <2>6. QED
    BY <1>2, <2>3, <2>4, <2>5 DEF S, new
<1>5. QED
  BY <1>2, <1>3, <1>4

(* What is read of a chunk. *)
ReadOf(to, tears) == IF Decodes(tears) THEN Read(Lines(place, to)) ELSE {}

LEMMA ReadOfIn ==
  ASSUME StreamTypeOK, NEW to \in Nat, NEW tears
  PROVE  /\ ReadOf(to, tears) \in SUBSET (1..Len(script))
         /\ ReadOf(to, tears) \subseteq Lines(place, to) /\ ReadOf(to, tears) \subseteq Lines(0, to)
<1>1. place \in Nat /\ Lines(place, to) \subseteq 1..Len(script)
  BY LinesIn DEF StreamTypeOK
<1>2. Lines(place, to) \subseteq Lines(0, to)
  BY <1>1 DEF Lines
<1>3. ReadOf(to, tears) \subseteq Lines(place, to)
  BY DEF ReadOf, Read
<1>4. QED
  BY <1>1, <1>2, <1>3

LEMMA ChunkType ==
  ASSUME StreamTypeOK, NEW to \in Nat, NEW tears \in BOOLEAN, Chunk(to, tears)
  PROVE  StreamTypeOK' /\ UsageAfter(ReadOf(to, tears)) \in Counts2
<1> DEFINE lines == ReadOf(to, tears)
           u == UsageAfter(lines)
<1>1. \A field \in {"input", "output"} : Latest(lines, field, usage[field]) \in Int
  <2>1. TAKE field \in {"input", "output"}
  <2>2. \A k \in 1..Len(script) : script[k][field] \in Int
    BY LinesIn DEF StreamLines
  <2>3. usage[field] \in Int
    BY DEF StreamTypeOK, Counts2
  <2>4. \A k \in Given(lines, field) : k \in 1..Len(script)
    BY ReadOfIn DEF Given
  <2>5. QED
    BY <2>2, <2>3, <2>4, ReadOfIn, LatestIs
<1>2. u \in Counts2
  BY <1>1 DEF UsageAfter, Counts2, StreamTypeOK
<1>3. /\ usage' = u /\ payload' \in {payload, Sent(u)} /\ place' = to /\ torn' = tears
      /\ clean' = (clean /\ to % 2 = 0) /\ script' = script /\ family' = family
  BY DEF Chunk, ReadOf
<1> HIDE DEF u
<1>4. payload' \in [sent : BOOLEAN, usage : Counts2]
  <2>1. Sent(u) \in [sent : BOOLEAN, usage : Counts2]
    BY <1>2 DEF Sent
  <2>2. payload \in [sent : BOOLEAN, usage : Counts2]
    BY DEF StreamTypeOK
  <2>3. QED
    BY <1>3, <2>1, <2>2
<1>5. clean' \in BOOLEAN
  BY <1>3
<1>6. QED
  BY <1>2, <1>3, <1>4, <1>5 DEF StreamTypeOK, u

LEMMA ChunkFrom ==
  ASSUME StreamTypeOK, NEW to \in Nat, NEW tears \in BOOLEAN, place < to, FromLines(usage, Whole)
  PROVE  FromLines(UsageAfter(ReadOf(to, tears)), Lines(0, to))
<1> DEFINE lines == ReadOf(to, tears)
           u == UsageAfter(lines)
<1>1. \A field : Given(lines, field) \subseteq Given(Lines(0, to), field)
  BY ReadOfIn DEF Given
<1>2. \A field : Given(Whole, field) \subseteq Given(Lines(0, to), field)
  BY DEF Given, Whole, Lines, StreamTypeOK
<1>3. \A field \in {"input", "output"} :
        \/ u[field] = usage[field]
        \/ \E k \in Given(lines, field) : u[field] = script[k][field]
  <2>1. \A field \in {"input", "output"} :
          u[field] = usage[field] \/ u[field] = Latest(lines, field, usage[field])
    <3>1. /\ u["output"] = Latest(lines, "output", usage["output"])
          /\ u["input"] \in {usage["input"], Latest(lines, "input", usage["input"])}
      BY DEF UsageAfter
    <3> HIDE DEF u
    <3>2. QED
      BY <3>1
  <2> HIDE DEF u
  <2>2. TAKE field \in {"input", "output"}
  <2>3. lines \in SUBSET (1..Len(script))
    BY ReadOfIn
  <2> HIDE DEF lines
  <2>4. \/ Latest(lines, field, usage[field]) = usage[field]
        \/ \E k \in Given(lines, field) : Latest(lines, field, usage[field]) = script[k][field]
    BY <2>3, LatestIs
  <2>5. QED
    BY <2>1, <2>4
<1>4. family = "anthropic" => u.input = usage.input
  BY DEF UsageAfter
<1> HIDE DEF u, lines
<1>5. QED
  BY <1>1, <1>2, <1>3, <1>4 DEF FromLines, u, lines

LEMMA ChunkLast ==
  ASSUME StreamTypeOK, NEW to \in Nat, NEW tears \in BOOLEAN, place < to, place % 2 = 0,
         Decodes(tears), Stops(Whole) = {}, LastCounts(usage, Whole)
  PROVE  LastCounts(UsageAfter(ReadOf(to, tears)), Read(Lines(0, to)))
<1> DEFINE lines == ReadOf(to, tears)
           u == UsageAfter(lines)
<1>1. /\ Read(Lines(0, to)) = Whole \cup lines
      /\ \A k \in Whole, l \in lines : k < l
  BY ReadSplits, WholeSplits, ReadOfIn DEF ReadOf
<1>2. Whole \subseteq 1..Len(script) /\ lines \in SUBSET (1..Len(script)) /\ Len(script) \in Nat
  BY LinesIn, ReadOfIn DEF Whole, StreamTypeOK
<1>3. ASSUME NEW field \in {"input", "output"}, LastOf(usage, Whole, field),
             u[field] = Latest(lines, field, usage[field])
      PROVE  LastOf(u, Whole \cup lines, field)
  <2> HIDE DEF u, lines
  <2>1. Given(Whole \cup lines, field) = Given(Whole, field) \cup Given(lines, field)
    BY DEF Given
  <2>2. CASE Given(lines, field) = {} /\ u[field] = usage[field]
    BY <1>3, <2>1, <2>2 DEF LastOf
  <2>3. ASSUME NEW k \in Given(lines, field), \A l \in Given(lines, field) : l <= k,
               u[field] = script[k][field]
        PROVE  LastOf(u, Whole \cup lines, field)
    <3>1. Given(Whole \cup lines, field) \in SUBSET (1..Len(script))
      BY <1>2 DEF Given
    <3>2. \A l \in Given(Whole, field) : l < k /\ l \in Nat /\ k \in Nat
      BY <1>1, <1>2 DEF Given
    <3>3. \A l \in Given(Whole \cup lines, field) : l <= k
      BY <2>1, <2>3, <3>2
    <3>4. Greatest(Given(Whole \cup lines, field)) = k
      BY <1>2, <2>1, <3>1, <3>3, GreatestIsOne
    <3>5. QED
      BY <2>3, <3>4 DEF LastOf
  <2>4. QED
    BY <1>2, <1>3, <2>2, <2>3, LatestIs
<1>4. /\ u.output = Latest(lines, "output", usage.output)
      /\ family # "anthropic" => u.input = Latest(lines, "input", usage.input)
  BY DEF UsageAfter
<1> HIDE DEF u, lines
<1>5. QED
  BY <1>1, <1>3, <1>4 DEF LastCounts, u, lines

LEMMA ChunkInv ==
  ASSUME StreamInv, NEW to \in Nat, NEW tears \in BOOLEAN, Chunk(to, tears)
  PROVE  StreamInv'
<1> DEFINE lines == ReadOf(to, tears)
           u == UsageAfter(lines)
           all == Lines(0, to)
<1>1. StreamTypeOK /\ StreamTypeOK'
  BY ChunkType DEF StreamInv
<1>2. /\ ~payload.sent /\ place < to /\ (tears => to % 2 = 1)
      /\ usage' = u /\ place' = to /\ torn' = tears /\ clean' = (clean /\ to % 2 = 0)
      /\ payload' = IF Stops(lines) = {} THEN payload ELSE Sent(u)
      /\ script' = script /\ family' = family
  BY DEF Chunk, ReadOf
<1>3. FromLines(u, all)
  BY <1>1, <1>2, ChunkFrom DEF StreamInv
<1>4. ASSUME clean'
      PROVE  /\ LastCounts(u, Read(all))
             /\ Stops(lines) = {} => Stops(all) = {} /\ Read(all) = all
  <2>1. clean /\ place % 2 = 0 /\ torn = FALSE /\ tears = FALSE /\ Stops(Whole) = {} /\ LastCounts(usage, Whole)
    <3>1. clean /\ to % 2 = 0
      BY <1>2, <1>4
    <3>2. tears = FALSE
      BY <1>2, <3>1
    <3>3. QED
      BY <1>2, <3>1, <3>2 DEF StreamInv
  <2>2. Decodes(tears)
    BY <2>1 DEF Decodes
  <2>3. LastCounts(u, Read(all))
    BY <1>1, <1>2, <2>1, <2>2, ChunkLast
  <2>4. Stops(all) = Stops(Lines(place, to))
    BY <1>1, <1>2, <2>1, ReadSplits
  <2>5. Stops(lines) = {} => Stops(Lines(place, to)) = {}
    <3>1. SUFFICES ASSUME Stops(Lines(place, to)) # {}
                   PROVE  Stops(lines) # {}
      OBVIOUS
    <3>2. Stops(Lines(place, to)) \in SUBSET Nat
      BY <1>1, <1>2, LinesIn DEF Stops, StreamTypeOK
    <3>3. Least(Stops(Lines(place, to))) \in Stops(Lines(place, to))
          /\ \A l \in Stops(Lines(place, to)) : Least(Stops(Lines(place, to))) <= l
      BY <3>1, <3>2, LeastIs
    <3>4. Least(Stops(Lines(place, to))) \in Stops(lines)
      BY <2>2, <3>1, <3>2, <3>3 DEF ReadOf, Read, Stops
    <3>5. QED
      BY <3>4
  <2>6. Stops(all) = {} => Read(all) = all
    BY DEF Read
  <2>7. QED
    BY <2>3, <2>4, <2>5, <2>6
<1>5. /\ Whole' = all /\ Read(all)' = Read(all) /\ Stops(all)' = Stops(all)
      /\ \A L, field : Given(L, field)' = Given(L, field)
  BY <1>2 DEF Whole, Lines, Read, Stops, Given
<1> HIDE DEF u, lines, all
<1>6. clean' => place' % 2 = 0 /\ torn' = FALSE
  <2>1. clean' => clean /\ to % 2 = 0
    BY <1>2
  <2>2. to % 2 = 0 => tears = FALSE
    BY <1>2
  <2>3. QED
    BY <1>2, <2>1, <2>2
<1>7. CASE Stops(lines) = {}
  <2>1. payload' = payload /\ ~payload'.sent
    BY <1>2, <1>7
  <2>2. FromLines(usage, Whole)'
    BY <1>2, <1>3, <1>5 DEF FromLines
  <2>3. clean' => Stops(Whole)' = {} /\ LastCounts(usage, Whole)'
    BY <1>2, <1>4, <1>5, <1>7 DEF LastCounts, LastOf, Stops
  <2>4. QED
    BY <1>1, <1>6, <2>1, <2>2, <2>3 DEF StreamInv
<1>8. CASE Stops(lines) # {}
  <2>1. payload'.sent /\ payload'.usage = u
    BY <1>2, <1>8 DEF Sent
  <2>2. FromLines(payload.usage, Whole)'
    BY <1>2, <1>3, <1>5, <2>1 DEF FromLines
  <2>3. clean' => LastCounts(payload.usage, Read(Whole))'
    <3>1. Read(Whole)' = Read(all)
      BY <1>2, <1>5 DEF Read, Stops
    <3>2. QED
      BY <1>2, <1>4, <1>5, <2>1, <3>1 DEF LastCounts, LastOf
  <2>4. QED
    BY <1>1, <1>6, <2>1, <2>2, <2>3 DEF StreamInv
<1>9. QED
  BY <1>7, <1>8

LEMMA EndsInv ==
  ASSUME StreamInv, LoopEnds
  PROVE  StreamInv'
<1>1. /\ ~payload.sent /\ payload' = Sent(usage) /\ payload'.sent /\ payload'.usage = usage
      /\ UNCHANGED <<script, family, place, torn, usage, clean>>
  BY DEF LoopEnds, Sent
<1>2. StreamTypeOK'
  BY <1>1 DEF StreamInv, StreamTypeOK, Sent
<1>3. /\ Whole' = Whole
      /\ \A L, field : Given(L, field)' = Given(L, field)
  BY <1>1 DEF Whole, Lines, Given
<1>4. FromLines(payload.usage, Whole)'
  BY <1>1, <1>3 DEF StreamInv, FromLines
<1>5. clean' => LastCounts(payload.usage, Read(Whole))'
  <2>1. clean => Read(Whole)' = Whole
    BY <1>1, <1>3 DEF StreamInv, Read, Stops
  <2>2. QED
    BY <1>1, <1>3, <2>1 DEF StreamInv, LastCounts, LastOf
<1>6. QED
  BY <1>1, <1>2, <1>4, <1>5 DEF StreamInv

LEMMA StreamStutters ==
  ASSUME StreamInv, UNCHANGED streamVars
  PROVE  StreamInv'
<1>1. UNCHANGED <<script, family, place, torn, usage, payload, clean>>
  BY DEF streamVars
<1>2. /\ StreamTypeOK' /\ Whole' = Whole /\ Stops(Whole)' = Stops(Whole)
      /\ Read(Whole)' = Read(Whole)
      /\ \A L, field : Given(L, field)' = Given(L, field)
  BY <1>1 DEF StreamInv, StreamTypeOK, Whole, Lines, Given, Read, Stops
<1>3. QED
  BY <1>1, <1>2 DEF StreamInv, FromLines, LastCounts, LastOf

LEMMA StreamStep ==
  ASSUME StreamInv, [DispatchNext]_dispatchVars
  PROVE  StreamInv'
<1>1. ASSUME NEW lines \in Scripts[Family(route.provider)], OpenStream(lines)
      PROVE  StreamInv'
  <2>1. Family(route.provider) \in {"anthropic", "gemini", "openai"}
    BY DEF Family
  <2>2. lines \in Seq(StreamLines)
    BY <2>1, DispatchAssumption DEF DispatchAssumption
  <2>3. QED
    BY <1>1, <2>1, <2>2, OpensInv DEF OpenStream
<1>2. CASE ReadStream
  <2>1. ASSUME NEW to \in 1..(2 * Len(script)), NEW tears \in BOOLEAN, Chunk(to, tears)
        PROVE  StreamInv'
    <3>1. Len(script) \in Nat
      BY DEF StreamInv, StreamTypeOK
    <3>2. to \in Nat
      BY <3>1
    <3>3. QED
      BY <2>1, <3>2, ChunkInv
  <2>2. QED
    BY <1>2, <2>1, EndsInv DEF ReadStream
<1>3. CASE NextRequest
  <2>1. <<>> \in Seq(StreamLines)
    OBVIOUS
  <2>2. QED
    BY <1>3, <2>1, OpensInv DEF NextRequest, Cleared
<1>4. CASE UNCHANGED dispatchVars
  BY <1>4, StreamStutters DEF dispatchVars
<1>5. ASSUME \/ FetchCatalog \/ FetchFails \/ Bridge \/ CheckKey \/ Resolve \/ Route
             \/ CallFails \/ SettleStream
             \/ \E h \in HeaderSets, q \in RequestSet : Arrive(h, q)
             \/ \E output \in Counts : Answer(output)
      PROVE  StreamInv'
  <2>1. UNCHANGED streamVars
    BY <1>5 DEF FetchCatalog, FetchFails, Bridge, CheckKey, Resolve, Route, CallFails,
       SettleStream, Arrive, Answer
  <2>2. QED
    BY <2>1, StreamStutters
<1>6. QED
  BY <1>1, <1>2, <1>3, <1>4, <1>5 DEF DispatchNext

LEMMA StreamHolds == DispatchSpec => []StreamInv
<1>1. DispatchInit => StreamInv
  BY IdleInv DEF DispatchInit
<1>2. StreamInv /\ [DispatchNext]_dispatchVars => StreamInv'
  BY StreamStep
<1>3. QED
  BY <1>1, <1>2, PTL DEF DispatchSpec

(* Whatever a provider streams and however it is cut into chunks, what is charged
   is what it reported (streaming.rs, the loop over byte_stream). *)
THEOREM StreamsReadFaithfully == DispatchSpec => []UsageFaithful
BY StreamHolds, FaithfulFromInv, PTL

---------------------------------------------------------------------------
(* Headers.  What the layers leave is the key that was sent, and the provider
   keys that were sent but for the one the composite token names. *)
TokenSent ==
  UsesToken => /\ sent.bearer.provider \in DOMAIN sent.main
               /\ headers.main = [sent.main EXCEPT ![sent.bearer.provider] = sent.bearer.byok]

Carried ==
  /\ headers.apiKey = KeySent /\ headers.alias = sent.alias
  /\ TokenSent
  /\ ~UsesToken => headers.main = sent.main

Shaped(h) == WellFormed(h) /\ DOMAIN h.main = Providers

HeadersInv ==
  /\ Shaped(sent) /\ Shaped(headers)
  /\ outcome \in Outcomes
  /\ stage = "bridge" => headers = sent
  /\ stage = "check" => headers.apiKey = NoValue \/ Carried
  /\ stage \in {"boot", "ready", "bridge", "check", "resolve", "route", "call", "stream"} => outcome = ""
  /\ stage \in {"boot", "ready", "bridge", "check", "resolve", "route"} \/ outcome = "unauthorized" => route = NoRoute
  /\ Admitted => /\ Carried
                 /\ headers.claimed = Hash(KeySent) /\ Hash(KeySent) \in KnownHashes
  /\ route # NoRoute => /\ Admitted /\ route.provider \in Providers
                        /\ route.key = KeyFor(headers, route.provider) /\ Present(route.key)

LEMMA HeadersImply == HeadersInv => IdentityIsKeys /\ OwnKeyOnly
<1> SUFFICES ASSUME HeadersInv PROVE IdentityIsKeys /\ OwnKeyOnly
  OBVIOUS
<1>1. IdentityIsKeys
  BY DEF HeadersInv, IdentityIsKeys
<1>2. ASSUME route # NoRoute
      PROVE  OwnKeyOnly
  <2> DEFINE p == route.provider
  <2>1. /\ p \in DOMAIN sent.main /\ Present(route.key) /\ Carried
        /\ route.key = KeyFor(headers, p)
    BY <1>2 DEF HeadersInv, Shaped
  <2>2. /\ UsesToken /\ sent.bearer.provider = p => headers.main[p] = sent.bearer.byok
        /\ ~(UsesToken /\ sent.bearer.provider = p) => headers.main[p] = sent.main[p]
        /\ headers.alias = sent.alias
    BY <2>1 DEF Carried, TokenSent, HeadersInv, Shaped, WellFormed
  <2>3. /\ Present(headers.main[p]) => route.key = headers.main[p]
        /\ ~Present(headers.main[p]) => p \in Aliased /\ route.key = sent.alias[p]
    BY <2>1, <2>2 DEF KeyFor, Present
  <2> HIDE DEF p
  <2>4. QED
    BY <1>2, <2>1, <2>2, <2>3 DEF OwnKeyOnly, p
<1>3. QED
  BY <1>1, <1>2 DEF OwnKeyOnly

LEMMA InitHeaders == DispatchInit => HeadersInv
<1>1. Shaped(NoHeaders)
  BY DEF Shaped, WellFormed, NoHeaders
<1>2. QED
  BY <1>1 DEF DispatchInit, HeadersInv, Admitted, Outcomes

LEMMA ArriveHeaders ==
  ASSUME HeadersInv, NEW h \in HeaderSets, NEW q \in RequestSet, Arrive(h, q)
  PROVE  HeadersInv'
<1>1. Shaped(h)
  BY DispatchAssumption DEF DispatchAssumption, Shaped
<1>2. QED
  BY <1>1 DEF HeadersInv, Arrive, Goes, Admitted, Outcomes, Shaped, WellFormed

LEMMA BridgeHeaders ==
  ASSUME HeadersInv, Bridge
  PROVE  HeadersInv'
<1>1. sent' = sent /\ headers = sent /\ outcome = "" /\ route' = route /\ route = NoRoute
  BY DEF HeadersInv, Bridge
<1>2. CASE ~NeedsBridge(headers)
  <2>1. stage' = "check" /\ headers' = headers /\ outcome' = outcome
    BY <1>2 DEF Bridge, Goes
  <2>2. Carried' \/ headers'.apiKey = NoValue
    BY <1>1, <2>1 DEF Carried, TokenSent, UsesToken, KeySent
  <2>3. QED
    BY <1>1, <2>1, <2>2 DEF HeadersInv, Admitted, Outcomes, Shaped, WellFormed
<1>3. CASE NeedsBridge(headers) /\ MalformedToken(headers)
  <2>1. stage' = "done" /\ headers' = headers /\ outcome' = "unauthorized"
    BY <1>3 DEF Bridge, Ends
  <2>2. QED
    BY <1>1, <2>1 DEF HeadersInv, Admitted, Outcomes, Shaped, WellFormed
<1>4. CASE NeedsBridge(headers) /\ ~MalformedToken(headers)
  <2>1. stage' = "check" /\ headers' = Bridged(headers) /\ outcome' = outcome
    BY <1>4 DEF Bridge, Goes
  <2>2. /\ sent.apiKey = NoValue
        /\ sent.bearer.provider \in DOMAIN sent.main
    BY <1>1, <1>4 DEF NeedsBridge, MalformedToken
  <2>3. headers' = [apiKey |-> sent.bearer.key, claimed |-> sent.claimed, bearer |-> sent.bearer,
                    main |-> [sent.main EXCEPT ![sent.bearer.provider] = sent.bearer.byok],
                    alias |-> sent.alias]
    BY <1>1, <2>1, <2>2 DEF Bridged, HeadersInv, Shaped, WellFormed
  <2>4. Shaped(headers')
    BY <1>1, <2>2, <2>3 DEF HeadersInv, Shaped, WellFormed
  <2>5. Carried'
    BY <1>1, <2>2, <2>3 DEF Carried, TokenSent, UsesToken, KeySent
  <2>6. QED
    BY <1>1, <2>1, <2>4, <2>5 DEF HeadersInv, Admitted, Outcomes, Shaped, WellFormed
<1>5. QED
  BY <1>2, <1>3, <1>4

LEMMA CheckKeyHeaders ==
  ASSUME HeadersInv, CheckKey
  PROVE  HeadersInv'
<1>1. sent' = sent /\ outcome = "" /\ route' = route /\ route = NoRoute
  BY DEF HeadersInv, CheckKey
<1>2. CASE ~Accepted(headers)
  <2>1. stage' = "done" /\ headers' = headers /\ outcome' = "unauthorized"
    BY <1>2 DEF CheckKey, Ends
  <2>2. QED
    BY <1>1, <2>1 DEF HeadersInv, Admitted, Outcomes, Shaped, WellFormed
<1>3. CASE Accepted(headers)
  <2>1. stage' = "resolve" /\ headers' = Identified(headers) /\ outcome' = outcome
    BY <1>3 DEF CheckKey, Goes
  <2>2. Carried /\ Hash(KeySent) \in KnownHashes
    BY <1>3 DEF HeadersInv, CheckKey, Accepted, Valid, Carried
  <2>3. headers' = [apiKey |-> headers.apiKey, claimed |-> Hash(KeySent), bearer |-> headers.bearer,
                    main |-> headers.main, alias |-> headers.alias]
    BY <2>1, <2>2 DEF Identified, Carried, HeadersInv, Shaped, WellFormed
  <2>4. Shaped(headers')
    BY <2>3 DEF HeadersInv, Shaped, WellFormed
  <2>5. Carried' /\ headers'.claimed = Hash(KeySent') /\ Hash(KeySent') \in KnownHashes
    BY <1>1, <2>2, <2>3 DEF Carried, TokenSent, UsesToken, KeySent
  <2>6. QED
    BY <1>1, <2>1, <2>4, <2>5 DEF HeadersInv, Admitted, Outcomes, Shaped, WellFormed
<1>4. QED
  BY <1>2, <1>3

(* The steps after the headers are settled. *)
LEMMA LaterHeaders ==
  ASSUME HeadersInv, UNCHANGED <<sent, headers>>, Admitted, Admitted',
         outcome' \in Outcomes, outcome' # "unauthorized",
         stage' \in {"resolve", "route", "call", "stream"} => outcome' = "",
         stage' \in {"resolve", "route", "call", "stream", "done"},
         \/ route' = route /\ (stage' \in {"resolve", "route"} => route = NoRoute)
         \/ /\ stage' \notin {"resolve", "route"}
            /\ route'.provider \in Providers
            /\ route'.key = KeyFor(headers, route'.provider) /\ Present(route'.key)
  PROVE  HeadersInv'
<1>1. Carried' = Carried /\ KeySent' = KeySent
  BY DEF Carried, TokenSent, UsesToken, KeySent
<1>2. QED
  BY <1>1 DEF HeadersInv, Shaped, WellFormed

LEMMA RouteHeaders ==
  ASSUME HeadersInv, Route
  PROVE  HeadersInv'
<1>1. PICK m \in target :
        IF Present(RouteFor(m).key)
        THEN stage' = "call" /\ route' = RouteFor(m) /\ outcome' = outcome
        ELSE stage' = "done" /\ outcome' = "no key" /\ route' = route
  BY DEF Route, Goes, Ends
<1>2. /\ RouteFor(m).provider \in Providers
      /\ RouteFor(m).key = KeyFor(headers, RouteFor(m).provider)
  BY DEF RouteFor, DirectRoute, OpenrouterRoute, Keyed, Keys, KeysFrom, HeadersInv, Shaped, Providers
<1>3. UNCHANGED <<sent, headers>> /\ stage = "route" /\ outcome = "" /\ Admitted
  BY DEF Route, HeadersInv, Admitted
<1>4. QED
  BY <1>1, <1>2, <1>3, LaterHeaders DEF Admitted, Outcomes

LEMMA HeadersStep ==
  ASSUME HeadersInv, [DispatchNext]_dispatchVars
  PROVE  HeadersInv'
<1>1. CASE FetchCatalog \/ FetchFails
  BY <1>1 DEF FetchCatalog, FetchFails, Goes, HeadersInv, Admitted, Shaped, WellFormed, Carried,
     TokenSent, UsesToken, KeySent
<1>2. CASE Resolve
  <2>1. /\ UNCHANGED <<sent, headers, route>> /\ stage = "resolve" /\ outcome = ""
        /\ \/ stage' = "done" /\ outcome' = "no model"
           \/ stage' = "route" /\ outcome' = outcome
    BY <1>2 DEF Resolve, Goes, Ends, HeadersInv
  <2>2. Admitted /\ Admitted' /\ outcome' \in Outcomes \ {"unauthorized"} /\ route = NoRoute
    BY <2>1 DEF Admitted, Outcomes, HeadersInv
  <2>3. QED
    BY <2>1, <2>2, LaterHeaders
<1>3. CASE CallFails \/ SettleStream \/ \E output \in Counts : Answer(output)
  <2>1. /\ UNCHANGED <<sent, headers, route>> /\ stage \in {"call", "stream"}
        /\ stage' = "done" /\ outcome' \in {"released", "charged"}
    BY <1>3 DEF CallFails, SettleStream, Answer, Ends
  <2>2. Admitted /\ Admitted' /\ outcome' \in Outcomes \ {"unauthorized"}
    BY <2>1 DEF Admitted, Outcomes
  <2>3. QED
    BY <2>1, <2>2, LaterHeaders
<1>4. ASSUME \/ ReadStream
             \/ \E lines \in Scripts[Family(route.provider)] : OpenStream(lines)
      PROVE  HeadersInv'
  <2>1. /\ UNCHANGED <<sent, headers, route, outcome>>
        /\ stage \in {"call", "stream"} /\ stage' = "stream"
    BY <1>4 DEF ReadStream, OpenStream, Goes
  <2>2. Admitted /\ Admitted' /\ outcome = "" /\ outcome' = ""
    BY <2>1 DEF Admitted, HeadersInv
  <2>3. QED
    BY <2>1, <2>2, LaterHeaders DEF Outcomes
<1>5. CASE NextRequest
  BY <1>5, InitHeaders DEF NextRequest, Cleared, Goes, HeadersInv, Admitted, Outcomes, NoHeaders,
     Shaped, WellFormed
<1>6. CASE UNCHANGED dispatchVars
  BY <1>6 DEF dispatchVars, HeadersInv, Admitted, Shaped, WellFormed, Carried, TokenSent,
     UsesToken, KeySent
<1>7. QED
  BY <1>1, <1>2, <1>3, <1>4, <1>5, <1>6, ArriveHeaders, BridgeHeaders, CheckKeyHeaders,
     RouteHeaders DEF DispatchNext

LEMMA HeadersHold == DispatchSpec => []HeadersInv
<1>1. HeadersInv /\ [DispatchNext]_dispatchVars => HeadersInv'
  BY HeadersStep
<1>2. QED
  BY InitHeaders, <1>1, PTL DEF DispatchSpec

(* A request counts for the hash of a configured key it presented, whatever its
   headers claim (auth.rs api_key_middleware, cursor_bridge_middleware). *)
THEOREM IdentityFromKey == DispatchSpec => []IdentityIsKeys
BY HeadersHold, HeadersImply, PTL

(* A provider is only called with a key that was sent for it (auth.rs
   ClientProviderKeys, main.rs resolve_byok_route). *)
THEOREM KeysGoHome == DispatchSpec => []OwnKeyOnly
BY HeadersHold, HeadersImply, PTL

---------------------------------------------------------------------------
(* The registry.  Ranks number the positions of a finite set in their order. *)

LEMMA RankIs ==
  ASSUME NEW l \in Nat, NEW S \in SUBSET (1..l)
  PROVE  /\ IsFiniteSet(S) /\ Cardinality(S) \in Nat
         /\ \A i \in S : Rank(S, i) \in 1..Cardinality(S)
         /\ \A i, j \in S : i < j => Rank(S, i) # Rank(S, j)
         /\ \A n \in 1..Cardinality(S) : \E i \in S : Rank(S, i) = n
<1> DEFINE Upto(i) == {j \in S : j <= i}
           c == Cardinality(S)
           f == [i \in S |-> Rank(S, i)]
<1>1. IsFiniteSet(S) /\ c \in Nat /\ \A i \in S : i \in Nat
  <2>1. IsFiniteSet(1..l)
    BY FS_Interval
  <2>2. IsFiniteSet(S)
    BY <2>1, FS_Subset
  <2>3. QED
    BY <2>2, FS_CardinalityType
<1>2. ASSUME NEW i \in S
      PROVE  IsFiniteSet(Upto(i)) /\ Rank(S, i) = Cardinality(Upto(i)) /\ Rank(S, i) \in 1..c
  <2>1. Upto(i) \in SUBSET S /\ i \in Upto(i)
    OBVIOUS
  <2>2. Rank(S, i) = Cardinality(Upto(i))
    BY DEF Rank
  <2> HIDE DEF Upto
  <2>3. IsFiniteSet(Upto(i)) /\ Cardinality(Upto(i)) <= c /\ Cardinality(Upto(i)) \in Nat
    BY <1>1, <2>1, FS_Subset, FS_CardinalityType
  <2>4. Cardinality(Upto(i)) # 0
    BY <2>1, <2>3, FS_EmptySet
  <2>5. QED
    BY <1>1, <2>2, <2>3, <2>4
<1>3. ASSUME NEW i \in S, NEW j \in S, i < j
      PROVE  Rank(S, i) # Rank(S, j)
  <2>1. i \in Nat /\ j \in Nat /\ j <= j /\ ~ (j <= i) /\ \A k \in S : k <= i => k <= j
    BY <1>1, <1>3
  <2>2. j \in Upto(j) /\ j \notin Upto(i)
    BY <2>1
  <2>3. \A k \in Upto(i) : k \in Upto(j)
    BY <2>1
  <2> HIDE DEF Upto
  <2>4. Upto(i) \in SUBSET Upto(j)
    BY <2>3
  <2>5. Cardinality(Upto(i)) # Cardinality(Upto(j))
    BY <1>2, <2>2, <2>4, FS_Subset
  <2>6. QED
    BY <1>2, <2>5
<1>4. f \in Injection(S, 1..c)
  <2>1. f \in [S -> 1..c]
    BY <1>2
  <2>2. \A i, j \in S : f[i] = f[j] => i = j
    BY <1>3
  <2>3. QED
    BY <2>1, <2>2 DEF Injection, IsInjective
<1>5. IsFiniteSet(1..c) /\ Cardinality(1..c) = c
  BY <1>1, FS_Interval
<1>6. f \in Surjection(S, 1..c)
  <2> HIDE DEF f
  <2>1. QED
    BY <1>4, <1>5, FS_Injection
<1>7. \A n \in 1..c : \E i \in S : Rank(S, i) = n
  BY <1>6 DEF Surjection
<1>8. QED
  BY <1>1, <1>2, <1>3, <1>7

(* What extend_registry appends is new and has no id twice. *)
LEMMA AppendedIs ==
  ASSUME NEW known, NEW Configs, NEW fetched \in Seq(Configs)
  PROVE  LET added == Appended(known, fetched)
         IN  /\ added \in Seq(Configs)
             /\ \A n \in 1..Len(added) : added[n].api_id \notin Ids(known)
             /\ \A n, m \in 1..Len(added) : added[n].api_id = added[m].api_id => n = m
<1> DEFINE S == Unseen(known, fetched)
           c == Cardinality(S)
           at(n) == CHOOSE i \in S : Rank(S, i) = n
           added == Appended(known, fetched)
<1>1. S \in SUBSET (1..Len(fetched)) /\ Len(fetched) \in Nat
  BY DEF Unseen
<1>2. \A i \in S : fetched[i] \in Configs /\ fetched[i].api_id \notin Ids(known)
  BY <1>1 DEF Unseen
<1>3. \A i, j \in S : fetched[i].api_id = fetched[j].api_id => i = j
  <2>1. \A i, j \in S : j < i => fetched[j].api_id # fetched[i].api_id
    BY <1>1 DEF Unseen
  <2>2. QED
    BY <1>1, <2>1
<1>4. added = [n \in 1..c |-> fetched[at(n)]]
  BY DEF Appended
<1> HIDE DEF S, added
<1>5. c \in Nat /\ \A n \in 1..c : at(n) \in S /\ Rank(S, at(n)) = n
  BY <1>1, RankIs
<1> HIDE DEF at
<1>6. added \in Seq(Configs) /\ Len(added) = c
  BY <1>2, <1>4, <1>5
<1>7. \A n \in 1..c : added[n].api_id \notin Ids(known)
  BY <1>2, <1>4, <1>5
<1>8. \A n, m \in 1..c : added[n].api_id = added[m].api_id => n = m
  BY <1>3, <1>4, <1>5
<1>9. QED
  BY <1>6, <1>7, <1>8 DEF added

Distinct(models) ==
  \A i, j \in 1..Len(models) : models[i].api_id = models[j].api_id => i = j

RegistryInv == extra \in Seq(ModelConfigs) /\ Distinct(Models)

LEMMA ModelsType ==
  ASSUME extra \in Seq(ModelConfigs)
  PROVE  Models \in Seq(ModelConfigs) /\ Len(Models) \in Nat
BY CuratedAssumption DEF CuratedAssumption, Models

LEMMA InitRegistry == DispatchInit => RegistryInv
<1> SUFFICES ASSUME DispatchInit PROVE RegistryInv
  OBVIOUS
<1>1. extra = <<>> /\ extra \in Seq(ModelConfigs)
  <2>1. extra = <<>>
    BY DEF DispatchInit
  <2>2. <<>> \in Seq(ModelConfigs)
    OBVIOUS
  <2>3. QED
    BY <2>1, <2>2
<1>2. Models = Curated
  BY <1>1, CuratedAssumption DEF CuratedAssumption, Models
<1>3. QED
  BY <1>1, <1>2, CuratedAssumption DEF CuratedAssumption, RegistryInv, Distinct

LEMMA ToModelConfigType ==
  ASSUME NEW m \in CatalogEntries
  PROVE  ToModelConfig(m) \in ModelConfigs
BY DEF ToModelConfig, ModelConfigs, CatalogEntries, Model, OrElse, Missing, NeutralLatency,
   NeutralQuality, NeutralContext, Providers

(* What the registry becomes: the old models, and then new ones. *)
LEMMA ExtendedModels ==
  ASSUME RegistryInv, NEW catalog \in Catalogs, ExtendRegistry(catalog)
  PROVE  \E added \in Seq(ModelConfigs) :
           /\ extra' \in Seq(ModelConfigs)
           /\ Len(Models') = Len(Models) + Len(added)
           /\ \A i \in 1..Len(Models) : Models'[i] = Models[i]
           /\ \A i \in 1..Len(added) : Models'[Len(Models) + i] = added[i]
           /\ \A n \in 1..Len(added) : added[n].api_id \notin Ids(Models)
           /\ \A n, m \in 1..Len(added) : added[n].api_id = added[m].api_id => n = m
<1> DEFINE fetched == [i \in DOMAIN catalog |-> ToModelConfig(catalog[i])]
           added   == Appended(Models, fetched)
<1>1. fetched \in Seq(ModelConfigs)
  <2>1. catalog \in Seq(CatalogEntries)
    BY DispatchAssumption DEF DispatchAssumption
  <2>2. Len(catalog) \in Nat /\ DOMAIN catalog = 1..Len(catalog)
        /\ \A i \in 1..Len(catalog) : catalog[i] \in CatalogEntries
    BY <2>1
  <2>3. \A i \in 1..Len(catalog) : ToModelConfig(catalog[i]) \in ModelConfigs
    BY <2>2, ToModelConfigType
  <2>4. QED
    BY <2>2, <2>3
<1> HIDE DEF fetched
<1>2. /\ added \in Seq(ModelConfigs)
      /\ \A n \in 1..Len(added) : added[n].api_id \notin Ids(Models)
      /\ \A n, m \in 1..Len(added) : added[n].api_id = added[m].api_id => n = m
  BY <1>1, AppendedIs
<1>3. extra' = extra \o added
  BY DEF ExtendRegistry, fetched
<1> HIDE DEF added
<1>4. /\ Curated \in Seq(ModelConfigs) /\ extra \in Seq(ModelConfigs)
      /\ Models = Curated \o extra /\ Models' = Curated \o (extra \o added)
  BY <1>3, CuratedAssumption DEF CuratedAssumption, RegistryInv, Models
<1>5. extra' \in Seq(ModelConfigs)
  BY <1>2, <1>3, <1>4
<1>6. Models' = Models \o added
  BY <1>2, <1>4
<1>7. Models \in Seq(ModelConfigs)
  BY <1>4
<1>8. /\ Len(Models') = Len(Models) + Len(added)
      /\ \A i \in 1..Len(Models) : Models'[i] = Models[i]
      /\ \A i \in 1..Len(added) : Models'[Len(Models) + i] = added[i]
  BY <1>2, <1>6, <1>7
<1>9. QED
  BY <1>2, <1>5, <1>8

LEMMA ExtendedRegistry ==
  ASSUME RegistryInv, NEW catalog \in Catalogs, ExtendRegistry(catalog)
  PROVE  RegistryInv' /\ \E n \in Nat : Len(Models') = Len(Models) + n
         /\ \A i \in 1..Len(Models) : Models'[i] = Models[i]
<1>1. PICK added \in Seq(ModelConfigs) :
        /\ extra' \in Seq(ModelConfigs)
        /\ Len(Models') = Len(Models) + Len(added)
        /\ \A i \in 1..Len(Models) : Models'[i] = Models[i]
        /\ \A i \in 1..Len(added) : Models'[Len(Models) + i] = added[i]
        /\ \A n \in 1..Len(added) : added[n].api_id \notin Ids(Models)
        /\ \A n, m \in 1..Len(added) : added[n].api_id = added[m].api_id => n = m
  BY ExtendedModels
<1> DEFINE l == Len(Models)
<1>2. l \in Nat /\ Models \in Seq(ModelConfigs) /\ Len(added) \in Nat
  BY ModelsType DEF RegistryInv
<1>3. \A i \in 1..l : Models[i].api_id \in Ids(Models)
  BY <1>2 DEF Ids
<1>4. ASSUME NEW i \in 1..Len(Models'), NEW j \in 1..Len(Models'), i <= j,
             Models'[i].api_id = Models'[j].api_id
      PROVE  i = j
  <2>1. CASE j <= l
    <3>1. i \in 1..l /\ j \in 1..l
      BY <2>1, <1>1, <1>2, <1>4
    <3>2. Models'[i] = Models[i] /\ Models'[j] = Models[j]
      BY <3>1, <1>1
    <3>3. Models[i].api_id = Models[j].api_id
      BY <3>2, <1>4
    <3>4. \A k, m \in 1..l : Models[k].api_id = Models[m].api_id => k = m
      BY DEF RegistryInv, Distinct
    <3>5. QED
      BY <3>1, <3>3, <3>4
  <2>2. CASE i <= l /\ j > l
    <3>1. j - l \in 1..Len(added) /\ l + (j - l) = j
      BY <2>2, <1>1, <1>2
    <3>2. Models'[j] = added[j - l] /\ added[j - l].api_id \notin Ids(Models)
      BY <3>1, <1>1
    <3>3. i \in 1..l
      BY <2>2, <1>2
    <3>4. QED
      BY <3>2, <3>3, <1>1, <1>3, <1>4
  <2>3. CASE i > l /\ j > l
    <3>1. /\ i - l \in 1..Len(added) /\ l + (i - l) = i
          /\ j - l \in 1..Len(added) /\ l + (j - l) = j
      BY <2>3, <1>1, <1>2
    <3>2. Models'[j] = added[j - l] /\ Models'[i] = added[i - l]
      BY <3>1, <1>1
    <3>3. i - l = j - l
      BY <3>1, <3>2, <1>1, <1>4
    <3>4. QED
      BY <3>3, <1>2
  <2>4. QED
    BY <2>1, <2>2, <2>3, <1>1, <1>2, <1>4
<1>5. Distinct(Models')
  <2>1. \A i, j \in 1..Len(Models') : Models'[i].api_id = Models'[j].api_id => i = j
    <3>1. TAKE i, j \in 1..Len(Models')
    <3>2. i <= j \/ j <= i
      BY <1>1, <1>2
    <3>3. QED
      BY <3>2, <1>4
  <2>2. QED
    BY <2>1 DEF Distinct
<1>6. QED
  BY <1>1, <1>2, <1>5 DEF RegistryInv, Distinct

LEMMA RegistryStep ==
  ASSUME RegistryInv, [DispatchNext]_dispatchVars
  PROVE  RegistryInv'
<1>1. CASE FetchCatalog
  BY <1>1, ExtendedRegistry DEF FetchCatalog
<1>2. CASE UNCHANGED extra
  BY <1>2 DEF RegistryInv, Distinct, Models
<1>3. FetchCatalog \/ UNCHANGED extra
  BY DEF DispatchNext, FetchFails, Arrive, Bridge, CheckKey, Resolve, Route, Answer, CallFails,
     OpenStream, ReadStream, SettleStream, NextRequest, dispatchVars
<1>4. QED
  BY <1>1, <1>2, <1>3

FoundIn(models, id) ==
  {models[i] : i \in {j \in DOMAIN models :
     models[j].api_id = id /\ \A k \in 1..(j - 1) : models[k].api_id # id}}

(* An id is found at its own place. *)
LEMMA FindIs ==
  ASSUME NEW models \in Seq(ModelConfigs), Distinct(models), NEW i \in 1..Len(models),
         NEW id, models[i].api_id = id
  PROVE  FoundIn(models, id) = {models[i]}
<1> DEFINE at == {j \in DOMAIN models :
                    models[j].api_id = id /\ \A k \in 1..(j - 1) : models[k].api_id # id}
<1>1. DOMAIN models = 1..Len(models) /\ Len(models) \in Nat /\ i \in Nat
  OBVIOUS
<1>2. \A j \in 1..Len(models) : models[j].api_id = id => j = i
  BY DEF Distinct
<1>3. \A k \in 1..(i - 1) : k \in 1..Len(models) /\ k # i
  BY <1>1
<1>4. \A k \in 1..(i - 1) : models[k].api_id # id
  BY <1>2, <1>3
<1>5. i \in at
  BY <1>1, <1>4
<1>6. \A j \in at : j = i
  BY <1>1, <1>2
<1> HIDE DEF at
<1>7. {models[k] : k \in at} = {models[i]}
  BY <1>5, <1>6
<1>8. QED
  BY <1>7 DEF at, FoundIn

LEMMA IdsCounted ==
  ASSUME NEW models \in Seq(ModelConfigs), Distinct(models)
  PROVE  Cardinality(Ids(models)) = Len(models)
<1> DEFINE l == Len(models)
           f == [i \in 1..l |-> models[i].api_id]
<1>1. l \in Nat /\ DOMAIN models = 1..l
  OBVIOUS
<1>2. f \in Surjection(1..l, Ids(models))
  BY <1>1 DEF Surjection, Ids
<1>3. f \in Injection(1..l, Ids(models))
  BY <1>1 DEF Injection, IsInjective, Ids, Distinct
<1>4. f \in Bijection(1..l, Ids(models))
  BY <1>2, <1>3 DEF Bijection
<1>5. IsFiniteSet(1..l) /\ Cardinality(1..l) = l
  BY <1>1, FS_Interval
<1> HIDE DEF f, l
<1>6. Cardinality(Ids(models)) = l
  BY <1>2, <1>3, <1>5, FS_Surjection
<1>7. QED
  BY <1>6 DEF l

LEMMA RegistryHolds == DispatchSpec => []RegistryInv
<1>1. RegistryInv /\ [DispatchNext]_dispatchVars => RegistryInv'
  BY RegistryStep
<1>2. QED
  BY InitRegistry, <1>1, PTL DEF DispatchSpec

LEMMA CuratedKept ==
  ASSUME RegistryInv, RegistryInv', NEW catalog \in Catalogs, ExtendRegistry(catalog)
  PROVE  /\ \A id \in Ids(Models) : Find(id)' = Find(id)
         /\ Cardinality(Ids(Models)') = Len(Models')
<1>1. /\ Models \in Seq(ModelConfigs) /\ Models' \in Seq(ModelConfigs)
      /\ Distinct(Models) /\ Distinct(Models')
  BY ModelsType, CuratedAssumption, SMTT(30) DEF CuratedAssumption, RegistryInv, Models, Distinct
<1>2. PICK n \in Nat : /\ Len(Models') = Len(Models) + n
                       /\ \A i \in 1..Len(Models) : Models'[i] = Models[i]
  BY ExtendedRegistry
<1>3. ASSUME NEW id \in Ids(Models)
      PROVE  Find(id)' = Find(id)
  <2>1. PICK i \in 1..Len(Models) : Models[i].api_id = id
    BY <1>1 DEF Ids
  <2>2. FoundIn(Models, id) = {Models[i]}
    BY <1>1, <2>1, FindIs
  <2>3. i \in 1..Len(Models') /\ Models'[i] = Models[i]
    BY <1>1, <1>2
  <2>4. FoundIn(Models', id) = {Models'[i]}
    BY <1>1, <2>1, <2>3, FindIs
  <2>5. Find(id) = FoundIn(Models, id) /\ Find(id)' = FoundIn(Models', id)
    BY DEF Find, FoundIn
  <2>6. QED
    BY <2>2, <2>3, <2>4, <2>5
<1>4. Cardinality(Ids(Models)') = Len(Models')
  BY <1>1, IdsCounted DEF Ids
<1>5. QED
  BY <1>3, <1>4

(* What a known id means does not change when the catalog is added to the
   registry, and no id is ever listed twice (route_engine.rs extend_registry). *)
THEOREM CuratedWinsAlways == DispatchSpec => CuratedWins
<1> DEFINE A == /\ \A id \in Ids(Models) : Find(id)' = Find(id)
                /\ Cardinality(Ids(Models)') = Len(Models')
<1>1. ASSUME RegistryInv, RegistryInv', [DispatchNext]_dispatchVars
      PROVE  [A]_extra
  <2>1. CASE FetchCatalog
    BY <1>1, <2>1, CuratedKept DEF FetchCatalog
  <2>2. CASE UNCHANGED extra
    BY <2>2
  <2>3. FetchCatalog \/ UNCHANGED extra
    BY <1>1 DEF DispatchNext, FetchFails, Arrive, Bridge, CheckKey, Resolve, Route, Answer, CallFails,
       OpenStream, ReadStream, SettleStream, NextRequest, dispatchVars
  <2>4. QED
    BY <2>1, <2>2, <2>3
<1>2. QED
  BY <1>1, RegistryHolds, PTL DEF DispatchSpec, CuratedWins

---------------------------------------------------------------------------
(* The choice of a model.  Among finitely many integers one is the greatest:
   the one that the fewest are at least as great as. *)
LEMMA TopIs ==
  ASSUME NEW l \in Nat, NEW S \in SUBSET (1..l), S # {}, NEW score, \A i \in S : score[i] \in Int
  PROVE  \E i \in S : \A j \in S : score[j] <= score[i]
<1> DEFINE Above(i) == {j \in S : score[i] <= score[j]}
           T == {Cardinality(Above(i)) : i \in S}
<1>1. IsFiniteSet(S)
  <2>1. IsFiniteSet(1..l)
    BY FS_Interval
  <2>2. QED
    BY <2>1, FS_Subset
<1>2. \A i \in S : IsFiniteSet(Above(i)) /\ Cardinality(Above(i)) \in Nat
  <2>1. \A i \in S : Above(i) \in SUBSET S
    OBVIOUS
  <2> HIDE DEF Above
  <2>2. QED
    BY <1>1, <2>1, FS_Subset, FS_CardinalityType
<1>3. Least(T) \in T /\ \A t \in T : Least(T) <= t
  <2>1. T \in SUBSET Nat /\ T # {}
    BY <1>2
  <2> HIDE DEF T
  <2>2. QED
    BY <2>1, LeastIs
<1>4. PICK i \in S : Least(T) = Cardinality(Above(i))
  BY <1>3
<1>5. ASSUME NEW j \in S, ~ (score[j] <= score[i])
      PROVE  FALSE
  <2>1. score[i] \in Int /\ score[j] \in Int /\ score[i] < score[j]
    BY <1>5
  <2>2. i \in Above(i) /\ i \notin Above(j)
    BY <2>1
  <2>3. \A k \in Above(j) : k \in Above(i)
    BY <2>1
  <2>4. Cardinality(Above(j)) \in T
    OBVIOUS
  <2>5. Cardinality(Above(i)) <= Cardinality(Above(j))
    BY <1>3, <1>4, <2>4
  <2> HIDE DEF Above
  <2>6. Above(j) \in SUBSET Above(i)
    BY <2>3
  <2>7. Cardinality(Above(j)) <= Cardinality(Above(i)) /\ Above(j) # Above(i)
        /\ (Cardinality(Above(i)) = Cardinality(Above(j)) => Above(i) = Above(j))
    BY <1>2, <2>2, <2>6, FS_Subset
  <2>8. QED
    BY <1>2, <2>5, <2>7
<1>6. QED
  BY <1>5

LEMMA ScoreType ==
  ASSUME NEW m \in ModelConfigs, NEW input \in Nat, NEW output \in Nat,
         NEW priority \in DOMAIN Weights, Fits(m, input)
  PROVE  Score(m, input, output, priority) \in Int
<1>1. /\ m.cost_in \in Nat /\ m.cost_out \in Nat /\ m.latency \in Nat /\ m.quality \in Nat
      /\ m.context \in Nat /\ m.context > 0
  BY DEF ModelConfigs, Fits
<1>2. /\ Weights[priority].cost \in Int /\ Weights[priority].latency \in Int
      /\ Weights[priority].quality \in Int /\ Weights[priority].context \in Int
  BY DEF Weights
<1>3. input * m.cost_in \in Nat /\ output * m.cost_out \in Nat
  BY <1>1
<1>4. 20000 + input * m.cost_in + output * m.cost_out \in Nat \ {0}
  BY <1>3
<1>5. CostShare(m, input, output) \in Int
  BY <1>4 DEF CostShare, Scale
<1>6. LatencyShare(m) \in Int /\ QualityShare(m) \in Int
  BY <1>1 DEF LatencyShare, QualityShare, Scale
<1>7. ContextShare(m, input) \in Int
  BY <1>1 DEF ContextShare, Scale
<1>8. QED
  BY <1>2, <1>5, <1>6, <1>7 DEF Score

EligibleAt(input, reachable) == {i \in DOMAIN Models : Eligible(Models[i], input, reachable)}

(* select_reachable returns an eligible model whenever there is one. *)
LEMMA SelectReachableIs ==
  ASSUME RegistryInv, NEW input \in Nat, NEW output \in Nat,
         NEW priority \in DOMAIN Weights, NEW reachable
  PROVE  LET choice == SelectReachable(input, output, priority, reachable)
         IN  /\ \A m \in choice : Eligible(m, input, reachable)
             /\ choice = {} => EligibleAt(input, reachable) = {}
<1> DEFINE E     == {i \in DOMAIN Models : Eligible(Models[i], input, reachable)}
           score == [i \in E |-> Score(Models[i], input, output, priority)]
           tops  == {i \in E : score[i] = Max({score[j] : j \in E})}
           first == {j \in tops : \A k \in tops : j <= k}
<1>1. SelectReachable(input, output, priority, reachable) = {Models[i] : i \in first}
  BY DEF SelectReachable
<1>2. E = EligibleAt(input, reachable) /\ first \subseteq E
  BY DEF EligibleAt
<1>3. Models \in Seq(ModelConfigs) /\ Len(Models) \in Nat
  BY ModelsType DEF RegistryInv
<1>4. E \in SUBSET (1..Len(Models)) /\ \A i \in E : Models[i] \in ModelConfigs
  BY <1>3
<1>5. \A i \in E : Fits(Models[i], input) /\ score[i] = Score(Models[i], input, output, priority)
  BY DEF Eligible
<1>6. \A i \in E : score[i] \in Int
  BY <1>4, <1>5, ScoreType
<1>7. ASSUME E # {}
      PROVE  first # {}
  <2> HIDE DEF E, score
  <2>1. PICK i \in E : \A j \in E : score[j] <= score[i]
    BY <1>3, <1>4, <1>6, <1>7, TopIs
  <2>2. score[i] \in {score[j] : j \in E} /\ \A y \in {score[j] : j \in E} : score[i] >= y
    BY <1>6, <2>1
  <2>3. /\ Max({score[j] : j \in E}) \in {score[j] : j \in E}
        /\ \A y \in {score[j] : j \in E} : Max({score[j] : j \in E}) >= y
    BY <2>2 DEF Max
  <2>4. PICK k \in E : score[k] = Max({score[j] : j \in E})
    BY <2>3
  <2>5. tops \in SUBSET Nat /\ tops # {}
    <3>1. k \in tops /\ \A j \in tops : j \in E
      BY <2>4
    <3>2. \A j \in E : j \in Nat
      BY <1>4
    <3>3. QED
      BY <3>1, <3>2
  <2> HIDE DEF tops
  <2>6. Least(tops) \in first
    BY <2>5, LeastIs
  <2>7. QED
    BY <2>6
<1>8. \A m \in {Models[i] : i \in first} : Eligible(m, input, reachable)
  OBVIOUS
<1> HIDE DEF first, E
<1>9. {Models[i] : i \in first} = {} => first = {}
  OBVIOUS
<1>10. QED
  BY <1>1, <1>2, <1>7, <1>8, <1>9

(* The choice of images is eligible, and one that has eyes if any has. *)
LEMMA SelectVisionModelIs ==
  ASSUME RegistryInv, NEW input \in Nat, NEW reachable
  PROVE  LET choice == SelectVisionModel(input, reachable)
         IN  /\ \A m \in choice : Eligible(m, input, reachable)
             /\ choice = {} => \A i \in EligibleAt(input, reachable) : ~Models[i].supports_vision
<1> DEFINE balanced == SelectReachable(input, 1, "balanced", reachable)
           best == SelectReachable(input, 1, "quality", reachable)
           V    == {i \in DOMAIN Models :
                      Models[i].supports_vision /\ Eligible(Models[i], input, reachable)}
           tops == {i \in V : \A j \in V : Models[j].quality <= Models[i].quality}
           last == {j \in tops : \A k \in tops : k <= j}
           sees(choice) == \E m \in choice : m.supports_vision
<1>1. SelectVisionModel(input, reachable) =
        IF balanced = {} \/ sees(balanced) THEN balanced
        ELSE IF sees(best) THEN best ELSE {Models[i] : i \in last}
  BY DEF SelectVisionModel
<1>2. "balanced" \in DOMAIN Weights /\ "quality" \in DOMAIN Weights
  BY DEF Weights
<1>3. /\ \A m \in balanced : Eligible(m, input, reachable)
      /\ \A m \in best : Eligible(m, input, reachable)
      /\ balanced = {} => EligibleAt(input, reachable) = {}
  BY <1>2, SelectReachableIs
<1>4. Models \in Seq(ModelConfigs) /\ Len(Models) \in Nat
  BY ModelsType DEF RegistryInv
<1>5. V \in SUBSET (1..Len(Models)) /\ \A i \in V : Models[i].quality \in Int
  <2>1. \A i \in V : i \in 1..Len(Models) /\ Models[i] \in ModelConfigs
    BY <1>4
  <2>2. QED
    BY <2>1 DEF ModelConfigs
<1>6. \A m \in {Models[i] : i \in last} : Eligible(m, input, reachable)
  OBVIOUS
<1>7. ASSUME V # {}
      PROVE  last # {}
  <2> DEFINE quality == [i \in V |-> Models[i].quality]
  <2> HIDE DEF V
  <2>1. \A i \in V : quality[i] \in Int
    BY <1>5
  <2> HIDE DEF quality
  <2>2. PICK i \in V : \A j \in V : quality[j] <= quality[i]
    BY <1>4, <1>5, <1>7, <2>1, TopIs
  <2>3. i \in tops /\ \A j \in tops : j \in V
    BY <2>2 DEF quality
  <2> HIDE DEF tops
  <2>4. tops \in SUBSET (1..Len(Models)) /\ tops # {}
    BY <1>5, <2>3
  <2>5. Greatest(tops) \in last
    BY <1>4, <2>4, GreatestIs
  <2>6. QED
    BY <2>5
<1>8. \A i \in EligibleAt(input, reachable) : Models[i].supports_vision => i \in V
  BY DEF EligibleAt
<1> HIDE DEF balanced, best, V, last
<1>9. {Models[i] : i \in last} = {} => last = {}
  OBVIOUS
<1>10. CASE balanced = {}
  BY <1>1, <1>3, <1>10
<1>11. CASE balanced # {} /\ sees(balanced)
  BY <1>1, <1>3, <1>11
<1>12. CASE balanced # {} /\ ~sees(balanced) /\ sees(best)
  BY <1>1, <1>3, <1>12
<1>13. CASE balanced # {} /\ ~sees(balanced) /\ ~sees(best)
  BY <1>1, <1>6, <1>7, <1>8, <1>9, <1>13
<1>14. QED
  BY <1>10, <1>11, <1>12, <1>13

LEMMA TaskPriorities == \A task \in DOMAIN TaskRoutes : TaskRoutes[task].priority \in DOMAIN Weights
<1>1. \A t \in DOMAIN TaskRoutes : TaskRoutes[t].priority \in {"cost", "balanced", "quality", "speed"}
  <2>1. DOMAIN TaskRoutes = {"summarise", "answer_question", "extract_action_items", "draft_response", "classify"}
    BY DEF TaskRoutes
  <2>2. /\ TaskRoutes["summarise"].priority = "balanced"
        /\ TaskRoutes["answer_question"].priority = "speed"
        /\ TaskRoutes["extract_action_items"].priority = "cost"
        /\ TaskRoutes["draft_response"].priority = "quality"
        /\ TaskRoutes["classify"].priority = "cost"
    BY DEF TaskRoutes
  <2>3. QED
    BY <2>1, <2>2
<1>2. DOMAIN Weights = {"cost", "balanced", "quality", "speed"}
  BY DEF Weights
<1>3. QED
  BY <1>1, <1>2

LEMMA SelectForTaskIs ==
  ASSUME RegistryInv, NEW task \in DOMAIN TaskRoutes, NEW input \in Nat, NEW reachable
  PROVE  LET choice == SelectForTask(task, input, reachable)
         IN  /\ \A m \in choice : Eligible(m, input, reachable)
             /\ choice = {} => EligibleAt(input, reachable) = {}
<1> DEFINE preferred == {m \in Find(TaskRoutes[task].preferred) : Eligible(m, input, reachable)}
           best == SelectReachable(input, 1, TaskRoutes[task].priority, reachable)
<1>1. SelectForTask(task, input, reachable) = IF preferred # {} THEN preferred ELSE best
  BY DEF SelectForTask
<1>2. TaskRoutes[task].priority \in DOMAIN Weights
  BY TaskPriorities
<1>3. /\ \A m \in best : Eligible(m, input, reachable)
      /\ best = {} => EligibleAt(input, reachable) = {}
  BY <1>2, SelectReachableIs
<1>4. \A m \in preferred : Eligible(m, input, reachable)
  OBVIOUS
<1> HIDE DEF preferred, best
<1>5. QED
  BY <1>1, <1>3, <1>4

(* Whatever is left to the gateway is an eligible model, and nothing only if
   nothing suits. *)
LEMMA ChoiceIs ==
  ASSUME RegistryInv, Routed, request \in RequestSet
  PROVE  /\ \A m \in Choice(request) : m.provider \in Reachable
         /\ Choice(request) = {} => \A m \in ToSet(Models) : ~Suits(m)
<1> DEFINE input == request.input
           E == EligibleAt(input, Reachable)
<1>1. input \in Nat /\ request.output \in Nat /\ request.image \in BOOLEAN
  BY DispatchAssumption DEF DispatchAssumption
<1>2. Choice(request) =
        IF request.kind = "auto"
        THEN IF request.image THEN SelectVisionModel(input, Reachable)
             ELSE SelectReachable(input, request.output, "balanced", Reachable)
        ELSE ChosenForTask(request)
  BY <1>1 DEF Choice, Routed
<1>3. ASSUME NEW choice, \A m \in choice : Eligible(m, input, Reachable)
      PROVE  \A m \in choice : m.provider \in Reachable
  BY <1>3 DEF Eligible
<1>4. E = {} \/ (request.image /\ \A i \in E : ~Models[i].supports_vision)
      => \A m \in ToSet(Models) : ~Suits(m)
  BY DEF EligibleAt, Suits, ToSet
<1>5. /\ \A m \in SelectVisionModel(input, Reachable) : Eligible(m, input, Reachable)
      /\ SelectVisionModel(input, Reachable) = {} => \A i \in E : ~Models[i].supports_vision
  BY <1>1, SelectVisionModelIs
<1> HIDE DEF E
<1>6. CASE request.kind = "auto"
  <2>1. CASE request.image
    BY <1>2, <1>3, <1>4, <1>5, <1>6, <2>1
  <2>2. CASE ~request.image
    <3>1. "balanced" \in DOMAIN Weights
      BY DEF Weights
    <3>2. /\ \A m \in Choice(request) : Eligible(m, input, Reachable)
          /\ Choice(request) = {} => E = {}
      BY <1>1, <1>2, <1>6, <2>2, <3>1, SelectReachableIs DEF E
    <3>3. QED
      BY <1>3, <1>4, <3>2
  <2>3. QED
    BY <2>1, <2>2
<1>7. CASE request.kind # "auto"
  <2>1. request.task \in DOMAIN TaskRoutes
    BY <1>7 DEF Routed
  <2>2. /\ \A m \in SelectForTask(request.task, input, Reachable) : Eligible(m, input, Reachable)
        /\ SelectForTask(request.task, input, Reachable) = {} => E = {}
    BY <1>1, <2>1, SelectForTaskIs DEF E
  <2>3. Choice(request) = SelectForTask(request.task, input, Reachable)
        \/ (request.image /\ Choice(request) = SelectVisionModel(input, Reachable))
    BY <1>2, <1>7 DEF ChosenForTask
  <2>4. QED
    BY <1>3, <1>4, <1>5, <2>2, <2>3
<1>8. QED
  BY <1>6, <1>7

StrandInv ==
  /\ request \in RequestSet \cup {NoRequest}
  /\ Routed /\ stage = "route" => \A m \in target : m.provider \in Reachable
  /\ outcome \in {"no key", "no model"} => stage = "done"
  /\ AutoNeverStrands

LEMMA RouteStrands ==
  ASSUME StrandInv, HeadersInv, Route
  PROVE  StrandInv'
<1>1. PICK m \in target :
        IF Present(RouteFor(m).key)
        THEN stage' = "call" /\ route' = RouteFor(m) /\ outcome' = outcome
        ELSE stage' = "done" /\ outcome' = "no key" /\ route' = route
  BY DEF Route, Goes, Ends
<1>2. stage = "route" /\ outcome = "" /\ UNCHANGED <<extra, headers, request, target>>
  BY DEF Route, HeadersInv
<1>3. ASSUME m.provider \in Reachable
      PROVE  Present(RouteFor(m).key)
  <2>1. CASE m.provider \in Keyed
    BY <2>1 DEF RouteFor, DirectRoute, Keyed
  <2>2. CASE m.provider \notin Keyed
    BY <1>3, <2>2 DEF RouteFor, OpenrouterRoute, Keyed, Reachable
  <2>3. QED
    BY <2>1, <2>2
<1>4. Routed => Present(RouteFor(m).key)
  BY <1>2, <1>3 DEF StrandInv
<1>5. Routed' = Routed
  BY <1>2 DEF Routed
<1>6. QED
  BY <1>1, <1>2, <1>4, <1>5 DEF StrandInv, AutoNeverStrands

LEMMA ResolveStrands ==
  ASSUME StrandInv, HeadersInv, RegistryInv, Resolve
  PROVE  StrandInv'
<1>1. /\ stage = "resolve" /\ outcome = "" /\ UNCHANGED <<extra, headers, request>>
      /\ target' = Choice(request)
      /\ IF target' = {} THEN stage' = "done" /\ outcome' = "no model"
         ELSE stage' = "route" /\ outcome' = outcome
  BY DEF Resolve, Goes, Ends, HeadersInv
<1>2. Routed' = Routed
  BY <1>1 DEF Routed
<1>3. Routed => request \in RequestSet
  <2>1. NoRequest.kind = "none"
    BY DEF NoRequest
  <2>2. request = NoRequest => ~Routed
    BY <2>1 DEF Routed
  <2>3. QED
    BY <2>2 DEF StrandInv
<1>4. Reachable' = Reachable
  BY <1>1 DEF Reachable, Keyed, Keys
<1>5. (\A m \in ToSet(Models) : ~Suits(m))' <=> \A m \in ToSet(Models) : ~Suits(m)
  BY <1>1, <1>4 DEF Models, Suits
<1>6. Routed => /\ \A m \in target' : m.provider \in Reachable'
                /\ target' = {} => (\A m \in ToSet(Models) : ~Suits(m))'
  BY <1>1, <1>3, <1>4, <1>5, ChoiceIs
<1>7. QED
  BY <1>1, <1>2, <1>6 DEF StrandInv, AutoNeverStrands

LEMMA StrandStep ==
  ASSUME StrandInv, HeadersInv, RegistryInv, [DispatchNext]_dispatchVars
  PROVE  StrandInv'
<1>1. CASE FetchCatalog \/ FetchFails
  BY <1>1 DEF FetchCatalog, FetchFails, Goes, HeadersInv, StrandInv, AutoNeverStrands, Routed
<1>2. ASSUME NEW h \in HeaderSets, NEW q \in RequestSet, Arrive(h, q)
      PROVE  StrandInv'
  BY <1>2 DEF Arrive, Goes, HeadersInv, StrandInv, AutoNeverStrands
<1>3. CASE Bridge \/ CheckKey
  <2>1. /\ stage \in {"bridge", "check"} /\ stage' # "route" /\ outcome = ""
        /\ outcome' \in {"", "unauthorized"} /\ UNCHANGED request
    BY <1>3 DEF Bridge, CheckKey, Goes, Ends, HeadersInv
  <2>2. QED
    BY <2>1 DEF StrandInv, AutoNeverStrands
<1>4. ASSUME \/ CallFails \/ ReadStream \/ SettleStream
             \/ \E output \in Counts : Answer(output)
             \/ \E lines \in Scripts[Family(route.provider)] : OpenStream(lines)
      PROVE  StrandInv'
  <2>1. /\ stage \in {"call", "stream"} /\ stage' # "route" /\ outcome = ""
        /\ outcome' \in {"", "released", "charged"} /\ UNCHANGED request
    BY <1>4 DEF CallFails, ReadStream, SettleStream, Answer, OpenStream, Goes, Ends, HeadersInv
  <2>2. QED
    BY <2>1 DEF StrandInv, AutoNeverStrands
<1>5. CASE NextRequest
  BY <1>5 DEF NextRequest, Cleared, Goes, StrandInv, AutoNeverStrands
<1>6. CASE UNCHANGED dispatchVars
  <2>1. UNCHANGED <<extra, stage, headers, request, target, outcome>>
    BY <1>6 DEF dispatchVars
  <2>2. /\ Routed' = Routed /\ Reachable' = Reachable
    BY <2>1 DEF Routed, Reachable, Keyed, Keys
  <2>3. (\A m \in ToSet(Models) : ~Suits(m))' <=> \A m \in ToSet(Models) : ~Suits(m)
    BY <2>1, <2>2 DEF Models, Suits
  <2>4. QED
    BY <2>1, <2>2, <2>3 DEF StrandInv, AutoNeverStrands
<1>7. QED
  BY <1>1, <1>2, <1>3, <1>4, <1>5, <1>6, RouteStrands, ResolveStrands DEF DispatchNext

LEMMA StrandHolds == DispatchSpec => []StrandInv
<1>1. DispatchInit => StrandInv
  BY DEF DispatchInit, StrandInv, AutoNeverStrands
<1>2. StrandInv /\ HeadersInv /\ RegistryInv /\ [DispatchNext]_dispatchVars => StrandInv'
  BY StrandStep
<1>3. QED
  BY <1>1, <1>2, HeadersHold, RegistryHolds, PTL DEF DispatchSpec

(* A client who lets the gateway choose is turned away only when no enabled
   model that its keys reach fits the request, never for a key that is missing
   after the choice (main.rs resolve_model, route_engine.rs select_reachable,
   select_for_task, vision.rs select_vision_model). *)
THEOREM NobodyStranded == DispatchSpec => []AutoNeverStrands
<1>1. StrandInv => AutoNeverStrands
  BY DEF StrandInv
<1>2. QED
  BY <1>1, StrandHolds, PTL

---------------------------------------------------------------------------
(* Prices.  Every model is found under its id, and a free one is OpenRouter's. *)

CatalogConfigs == {m \in ModelConfigs : m.provider = "openrouter"}
FreeInv == extra \in Seq(CatalogConfigs)

LEMMA FreeStep ==
  ASSUME FreeInv, [DispatchNext]_dispatchVars
  PROVE  FreeInv'
<1>1. ASSUME NEW catalog \in Catalogs, ExtendRegistry(catalog)
      PROVE  FreeInv'
  <2> DEFINE fetched == [i \in DOMAIN catalog |-> ToModelConfig(catalog[i])]
  <2>1. catalog \in Seq(CatalogEntries)
    BY DispatchAssumption DEF DispatchAssumption
  <2>2. Len(catalog) \in Nat /\ DOMAIN catalog = 1..Len(catalog)
        /\ \A i \in 1..Len(catalog) : catalog[i] \in CatalogEntries
    BY <2>1
  <2>3. \A i \in 1..Len(catalog) : ToModelConfig(catalog[i]) \in CatalogConfigs
    <3>1. \A m \in CatalogEntries : ToModelConfig(m).provider = "openrouter"
      BY DEF ToModelConfig, Model
    <3>2. QED
      BY <2>2, <3>1, ToModelConfigType DEF CatalogConfigs
  <2>4. fetched \in Seq(CatalogConfigs)
    BY <2>2, <2>3
  <2> HIDE DEF fetched
  <2>5. Appended(Models, fetched) \in Seq(CatalogConfigs)
    BY <2>4, AppendedIs
  <2>6. extra' = extra \o Appended(Models, fetched)
    BY <1>1 DEF ExtendRegistry, fetched
  <2>7. QED
    BY <2>5, <2>6 DEF FreeInv
<1>2. FetchCatalog \/ UNCHANGED extra
  BY DEF DispatchNext, FetchFails, Arrive, Bridge, CheckKey, Resolve, Route, Answer, CallFails,
     OpenStream, ReadStream, SettleStream, NextRequest, dispatchVars
<1>3. QED
  BY <1>1, <1>2 DEF FetchCatalog, FreeInv

LEMMA ModelsPriced ==
  ASSUME RegistryInv, FreeInv, NEW m \in ToSet(Models)
  PROVE  /\ m.cost_in \in Nat /\ m.cost_out \in Nat
         /\ Pricing(m.api_id) = {Price(m)}
         /\ m.cost_in = 0 => m \in ToSet(extra) /\ m.provider = "openrouter"
<1>1. Models \in Seq(ModelConfigs) /\ Len(Models) \in Nat
  BY ModelsType DEF RegistryInv
<1>2. PICK i \in 1..Len(Models) : m = Models[i]
  BY <1>1 DEF ToSet
<1>3. m.cost_in \in Nat /\ m.cost_out \in Nat
  <2>1. m \in ModelConfigs
    BY <1>1, <1>2
  <2>2. QED
    BY <2>1 DEF ModelConfigs
<1>4. FoundIn(Models, m.api_id) = {m}
  BY <1>1, <1>2, FindIs DEF RegistryInv
<1>5. Pricing(m.api_id) = {Price(m)}
  <2>1. Find(m.api_id) = FoundIn(Models, m.api_id)
    BY DEF Find, FoundIn
  <2>2. QED
    BY <1>4, <2>1 DEF Pricing
<1>6. ASSUME m.cost_in = 0
      PROVE  m \in ToSet(extra) /\ m.provider = "openrouter"
  <2>1. /\ Curated \in Seq(ModelConfigs) /\ extra \in Seq(CatalogConfigs) /\ Models = Curated \o extra
        /\ \A k \in 1..Len(Curated) : Curated[k].cost_in > 0
    BY CuratedAssumption DEF CuratedAssumption, FreeInv, Models
  <2>2. ~(i <= Len(Curated))
    <3>1. i \in 1..Len(Curated) => Models[i] = Curated[i]
      BY <2>1
    <3>2. QED
      BY <1>2, <1>6, <2>1, <3>1
  <2>3. i - Len(Curated) \in 1..Len(extra) /\ Models[i] = extra[i - Len(Curated)]
    BY <1>1, <2>1, <2>2
  <2>4. m \in CatalogConfigs
    BY <1>2, <2>1, <2>3
  <2>5. QED
    BY <1>2, <2>1, <2>3, <2>4 DEF CatalogConfigs, ToSet
<1>7. QED
  BY <1>3, <1>5, <1>6

LEMMA ChoiceListed == request.kind \in {"auto", "task", "id"} => Choice(request) \subseteq ToSet(Models)
<1>1. ASSUME NEW id
      PROVE  Find(id) \subseteq ToSet(Models)
  BY DEF Find, ToSet
<1>2. ASSUME NEW input, NEW output, NEW priority, NEW reachable
      PROVE  SelectReachable(input, output, priority, reachable) \subseteq ToSet(Models)
  BY DEF SelectReachable, ToSet
<1>3. ASSUME NEW input, NEW reachable
      PROVE  SelectVisionModel(input, reachable) \subseteq ToSet(Models)
  BY <1>2 DEF SelectVisionModel, ToSet
<1>4. ASSUME NEW task, NEW input, NEW reachable
      PROVE  SelectForTask(task, input, reachable) \subseteq ToSet(Models)
  BY <1>1, <1>2 DEF SelectForTask
<1>5. QED
  BY <1>1, <1>2, <1>3, <1>4 DEF Choice, ChosenForTask, Seeing

(* While a request is called: the price that was reserved is that of the target
   the route was made for. *)
RouteOf(m) ==
  \/ route.fallback = TRUE /\ route.id = Slug(m)
  \/ route.fallback = FALSE /\ route.id = m.api_id
RoutedAtPrice == \E m \in target : reserved = Price(m) /\ RouteOf(m)

PriceInv ==
  /\ stage \notin {"boot", "ready"} => request \in RequestSet
  /\ stage \in {"route", "call", "stream"} => target \subseteq ToSet(Models)
  /\ stage = "stream" => request.stream
  /\ stage \in {"call", "stream"} => RoutedAtPrice
  /\ stage \notin {"call", "stream", "done"} => outcome # "charged"
  /\ ChargedAsReserved

LEMMA UsageCounted ==
  ASSUME StreamInv, payload.sent
  PROVE  payload.usage.input \in Nat /\ payload.usage.output \in Nat
<1>1. payload.usage.input \in Int /\ payload.usage.output \in Int
  BY DEF StreamInv, StreamTypeOK, Counts2
<1>2. \A field \in {"input", "output"} :
        payload.usage[field] \in {script[k][field] : k \in Given(Whole, field)} \cup {0}
  BY DEF StreamInv, FromLines
<1>3. \A field \in {"input", "output"} : \A k \in Given(Whole, field) : script[k][field] >= 0
  BY DEF Given
<1>4. payload.usage.input >= 0 /\ payload.usage.output >= 0
  BY <1>2, <1>3
<1>5. QED
  BY <1>1, <1>4

(* A cost is at the price given, and grows with either count. *)
LEMMA BreakdownIs ==
  ASSUME NEW price, price.input \in Nat, price.output \in Nat,
         NEW input \in Nat, NEW output \in Nat, NEW more \in Nat, NEW longer \in Nat
  PROVE  LET c == CostBreakdown(price, input, output)
         IN  /\ c.price = price /\ c.input = input /\ c.output = output
             /\ input <= more /\ output <= longer =>
                  c.cents <= CostBreakdown(price, more, longer).cents
<1>1. /\ input * price.input \in Nat /\ output * price.output \in Nat
      /\ more * price.input \in Nat /\ longer * price.output \in Nat
  OBVIOUS
<1>2. /\ input <= more => input * price.input <= more * price.input
      /\ output <= longer => output * price.output <= longer * price.output
  OBVIOUS
<1>3. QED
  BY <1>1, <1>2 DEF CostBreakdown

LEMMA RequestCounted ==
  ASSUME request \in RequestSet
  PROVE  request.input \in Nat /\ request.output \in Nat
BY DispatchAssumption DEF DispatchAssumption

(* A charge at the target's price is no more than the estimate for no more
   tokens, and is for nothing only if the catalog says so. *)
LEMMA ChargeAtPrice ==
  ASSUME RegistryInv, FreeInv, request \in RequestSet, target \subseteq ToSet(Models),
         NEW m \in target, reserved = Price(m), RouteOf(m),
         NEW input \in Nat, NEW output \in Nat, outcome' = "charged",
         charge' = CostBreakdown(Price(m), input, output),
         UNCHANGED <<extra, request, target, reserved, route>>
  PROVE  ChargedAsReserved'
<1>1. /\ m \in ToSet(Models) /\ Price(m).input = m.cost_in /\ Price(m).output = m.cost_out
      /\ m.cost_in \in Nat /\ m.cost_out \in Nat
      /\ m.cost_in = 0 => m \in ToSet(extra) /\ m.provider = "openrouter"
  BY ModelsPriced DEF Price
<1>2. /\ charge'.price = Price(m) /\ charge'.input = input /\ charge'.output = output
      /\ input <= request.input /\ output <= request.output => charge'.cents <= Estimate
  BY <1>1, RequestCounted, BreakdownIs DEF Estimate
<1>3. Estimate' = Estimate /\ \A n : Price(n)' = Price(n)
  BY DEF Estimate, CostBreakdown, Price
<1>4. charge'.price = Free => m \in ToSet(extra) /\ m.api_id = route.id
  <2>1. m.provider = "openrouter" => Slug(m) = m.api_id
    BY DEF Slug
  <2>2. QED
    BY <1>1, <1>2, <2>1 DEF Free, RouteOf
<1>5. QED
  BY <1>2, <1>3, <1>4 DEF ChargedAsReserved

LEMMA AnswerPrices ==
  ASSUME PriceInv, RegistryInv, FreeInv, NEW output \in Counts, Answer(output)
  PROVE  PriceInv'
<1>1. /\ stage = "call" /\ stage' = "done" /\ outcome' = "charged"
      /\ charge' = CostBreakdown(reserved, request.input, output)
      /\ UNCHANGED <<extra, request, target, reserved, route>>
  BY DEF Answer, Ends
<1>2. /\ request \in RequestSet /\ target \subseteq ToSet(Models)
      /\ \E m \in target : reserved = Price(m) /\ RouteOf(m)
  BY <1>1 DEF PriceInv, RoutedAtPrice
<1>3. request.input \in Nat /\ output \in Nat
  <2>1. TokenModulus \in Nat /\ output \in 0..(TokenModulus - 1)
    BY DispatchAssumption DEF DispatchAssumption
  <2>2. QED
    BY <1>2, <2>1, RequestCounted
<1>4. ChargedAsReserved'
  BY <1>1, <1>2, <1>3, ChargeAtPrice
<1>5. QED
  BY <1>1, <1>2, <1>4 DEF PriceInv

LEMMA SettlePrices ==
  ASSUME PriceInv, StreamInv, RegistryInv, FreeInv, SettleStream
  PROVE  PriceInv'
<1>1. /\ stage = "stream" /\ payload.sent /\ stage' = "done" /\ outcome' = "charged"
      /\ UNCHANGED <<extra, request, target, reserved, route>>
  BY DEF SettleStream, Ends
<1>2. PICK price \in StreamPrice(route.id) :
        charge' = CostBreakdown(price, payload.usage.input, payload.usage.output)
  BY DEF SettleStream
<1>3. /\ request \in RequestSet /\ request.stream /\ target \subseteq ToSet(Models)
      /\ \E m \in target : reserved = Price(m) /\ RouteOf(m)
  BY <1>1 DEF PriceInv, RoutedAtPrice
<1>4. PICK m \in target : reserved = Price(m) /\ RouteOf(m)
  BY <1>3
<1>5. CASE ~route.fallback
  <2>1. m \in ToSet(Models) /\ route.id = m.api_id
    BY <1>3, <1>4, <1>5 DEF RouteOf
  <2>2. price = Price(m)
    BY <1>2, <2>1, ModelsPriced DEF StreamPrice
  <2>3. ChargedAsReserved'
    BY <1>1, <1>2, <1>3, <1>4, <2>2, UsageCounted, ChargeAtPrice
  <2>4. QED
    BY <1>1, <1>3, <2>3 DEF PriceInv
<1>6. CASE route.fallback
  <2>1. charge'.price = price
    BY <1>2 DEF CostBreakdown
  <2>2. ASSUME price = Free
        PROVE  \E n \in ToSet(extra) : n.api_id = route.id /\ Price(n) = Free
    <3>1. price \in Pricing(route.id)
      BY <1>2, <2>2 DEF StreamPrice, DefaultPrice, Free
    <3>2. PICK n \in ToSet(Models) : n.api_id = route.id /\ price = Price(n)
      BY <3>1 DEF Pricing, Find, ToSet
    <3>3. n.cost_in = 0
      BY <2>2, <3>2 DEF Price, Free
    <3>4. QED
      BY <2>2, <3>2, <3>3, ModelsPriced
  <2>3. \A n : Price(n)' = Price(n)
    BY DEF Price
  <2>4. ChargedAsReserved'
    BY <1>1, <1>3, <1>6, <2>1, <2>2, <2>3 DEF ChargedAsReserved
  <2>5. QED
    BY <1>1, <1>3, <2>4 DEF PriceInv
<1>7. QED
  BY <1>5, <1>6

LEMMA PriceStep ==
  ASSUME PriceInv, StreamInv, HeadersInv, RegistryInv, FreeInv,
         [DispatchNext]_dispatchVars
  PROVE  PriceInv'
<1>1. CASE FetchCatalog \/ FetchFails
  BY <1>1 DEF FetchCatalog, FetchFails, Goes, HeadersInv, PriceInv, ChargedAsReserved
<1>2. ASSUME NEW h \in HeaderSets, NEW q \in RequestSet, Arrive(h, q)
      PROVE  PriceInv'
  BY <1>2 DEF Arrive, Goes, HeadersInv, PriceInv, ChargedAsReserved
<1>3. CASE Bridge \/ CheckKey
  <2>1. /\ stage \in {"bridge", "check"} /\ stage' \in {"check", "resolve", "done"}
        /\ outcome' # "charged" /\ UNCHANGED request
    BY <1>3 DEF Bridge, CheckKey, Goes, Ends, HeadersInv
  <2>2. QED
    BY <2>1 DEF PriceInv, ChargedAsReserved
<1>4. CASE Resolve
  <2>1. /\ stage = "resolve" /\ stage' \in {"route", "done"} /\ outcome' # "charged"
        /\ target' = Choice(request) /\ UNCHANGED <<extra, request>>
    BY <1>4 DEF Resolve, Goes, Ends, HeadersInv
  <2>2. request \in RequestSet
    BY <2>1 DEF PriceInv
  <2>3. Choice(request) \subseteq ToSet(Models)
    BY <2>2, DispatchAssumption, ChoiceListed DEF DispatchAssumption
  <2>4. ToSet(Models)' = ToSet(Models)
    BY <2>1 DEF Models
  <2>5. QED
    BY <2>1, <2>2, <2>3, <2>4 DEF PriceInv, ChargedAsReserved
<1>5. CASE Route
  <2>1. PICK m \in target :
          /\ \E price \in Pricing(m.api_id) : reserved' = price
          /\ IF Present(RouteFor(m).key)
             THEN stage' = "call" /\ route' = RouteFor(m) /\ outcome' = outcome
             ELSE stage' = "done" /\ outcome' = "no key" /\ route' = route
    BY <1>5 DEF Route, Goes, Ends
  <2>2. stage = "route" /\ outcome = "" /\ UNCHANGED <<extra, request, target>>
    BY <1>5 DEF Route, HeadersInv
  <2>3. m \in ToSet(Models) /\ reserved' = Price(m)
    BY <2>1, <2>2, ModelsPriced DEF PriceInv
  <2>4. Price(m)' = Price(m) /\ ToSet(Models)' = ToSet(Models)
    BY <2>2 DEF Models, Price
  <2>5. route' = RouteFor(m) => RouteOf(m)'
    BY DEF RouteOf, RouteFor, DirectRoute, OpenrouterRoute, Slug
  <2>6. stage' = "call" => RoutedAtPrice'
    BY <2>1, <2>2, <2>3, <2>4, <2>5 DEF RoutedAtPrice
  <2>7. QED
    BY <2>1, <2>2, <2>4, <2>6 DEF PriceInv, ChargedAsReserved
<1>6. ASSUME \/ ReadStream
             \/ \E lines \in Scripts[Family(route.provider)] : OpenStream(lines)
      PROVE  PriceInv'
  <2>1. /\ stage \in {"call", "stream"} /\ stage' = "stream" /\ request'.stream /\ outcome' = ""
        /\ UNCHANGED <<extra, request, target, reserved, route>>
    BY <1>6 DEF ReadStream, OpenStream, Goes, HeadersInv, PriceInv
  <2>2. RoutedAtPrice'
    BY <2>1 DEF PriceInv, RoutedAtPrice, RouteOf, Slug, Price
  <2>3. QED
    BY <2>1, <2>2 DEF PriceInv, ChargedAsReserved, Models
<1>7. CASE CallFails
  BY <1>7 DEF CallFails, Ends, PriceInv, ChargedAsReserved
<1>8. CASE NextRequest
  BY <1>8 DEF NextRequest, Cleared, Goes, PriceInv, ChargedAsReserved
<1>9. CASE UNCHANGED dispatchVars
  <2>1. UNCHANGED <<extra, stage, request, target, reserved, route, charge, outcome>>
    BY <1>9 DEF dispatchVars
  <2>2. RoutedAtPrice' <=> RoutedAtPrice
    BY <2>1 DEF RoutedAtPrice, RouteOf, Slug, Price
  <2>3. QED
    BY <2>1, <2>2 DEF PriceInv, ChargedAsReserved, Estimate, CostBreakdown, Price, Models
<1>10. QED
  BY <1>1, <1>2, <1>3, <1>4, <1>5, <1>6, <1>7, <1>8, <1>9, AnswerPrices, SettlePrices
  DEF DispatchNext

LEMMA PricesHold == DispatchSpec => []PriceInv
<1>1. DispatchInit => PriceInv /\ FreeInv
  <2>1. ASSUME DispatchInit PROVE PriceInv
    BY <2>1 DEF DispatchInit, PriceInv, ChargedAsReserved
  <2>2. ASSUME DispatchInit PROVE FreeInv
    <3>1. extra = <<>>
      BY <2>2 DEF DispatchInit
    <3>2. <<>> \in Seq(CatalogConfigs)
      OBVIOUS
    <3>3. QED
      BY <3>1, <3>2 DEF FreeInv
  <2>3. QED
    BY <2>1, <2>2
<1>2. FreeInv /\ [DispatchNext]_dispatchVars => FreeInv'
  BY FreeStep
<1>3. PriceInv /\ StreamInv /\ HeadersInv /\ RegistryInv /\ FreeInv
      /\ [DispatchNext]_dispatchVars => PriceInv'
  BY PriceStep
<1>4. QED
  BY <1>1, <1>2, <1>3, StreamHolds, HeadersHold, RegistryHolds, PTL
  DEF DispatchSpec

(* For any catalog and scripts, a request that stays within the tokens estimated
   for it is charged no more than was reserved, unless it is a stream through
   OpenRouter; and only an entry of the catalog without a price, under the id that
   was sent, makes a call free (main.rs handle_non_streaming and handle_streaming,
   streaming.rs the audit task). *)
THEOREM PricesAreKept == DispatchSpec => []ChargedAsReserved
<1>1. PriceInv => ChargedAsReserved
  BY DEF PriceInv
<1>2. QED
  BY <1>1, PricesHold, PTL

---------------------------------------------------------------------------
(* How well the choice is made.  A choice is one model of the registry or none. *)
OneListed(choice) == choice = {} \/ \E m \in ToSet(Models) : choice = {m}

LEMMA PartOfOne ==
  ASSUME NEW choice, OneListed(choice), NEW part, part \subseteq choice
  PROVE  OneListed(part)
BY DEF OneListed

LEMMA SinglePlace ==
  ASSUME NEW S \in SUBSET DOMAIN Models, \A i, j \in S : i = j
  PROVE  OneListed({Models[i] : i \in S})
<1>1. CASE S = {}
  BY <1>1 DEF OneListed
<1>2. CASE S # {}
  <2>1. PICK i \in S : TRUE
    BY <1>2
  <2>2. {Models[j] : j \in S} = {Models[i]} /\ Models[i] \in ToSet(Models)
    BY <2>1 DEF ToSet
  <2>3. QED
    BY <2>2 DEF OneListed
<1>3. QED
  BY <1>1, <1>2

LEMMA FindOne ==
  ASSUME RegistryInv, NEW id
  PROVE  OneListed(Find(id))
<1> DEFINE at == {j \in DOMAIN Models : Models[j].api_id = id /\ \A k \in 1..(j - 1) : Models[k].api_id # id}
<1>1. Models \in Seq(ModelConfigs) /\ DOMAIN Models = 1..Len(Models)
  BY ModelsType DEF RegistryInv
<1>2. \A i, j \in at : i = j
  BY <1>1 DEF RegistryInv, Distinct
<1>3. Find(id) = {Models[i] : i \in at} /\ at \in SUBSET DOMAIN Models
  BY DEF Find
<1> HIDE DEF at
<1>4. QED
  BY <1>2, <1>3, SinglePlace

(* select_reachable returns one model, and none scores higher. *)
LEMMA SelectReachableOne ==
  ASSUME RegistryInv, NEW input \in Nat, NEW output \in Nat,
         NEW priority \in DOMAIN Weights, NEW reachable
  PROVE  LET choice == SelectReachable(input, output, priority, reachable)
         IN  /\ OneListed(choice)
             /\ \A n \in choice : \A i \in EligibleAt(input, reachable) :
                  Score(Models[i], input, output, priority) <= Score(n, input, output, priority)
<1> DEFINE E     == {i \in DOMAIN Models : Eligible(Models[i], input, reachable)}
           score == [i \in E |-> Score(Models[i], input, output, priority)]
           tops  == {i \in E : score[i] = Max({score[j] : j \in E})}
           first == {j \in tops : \A k \in tops : j <= k}
<1>1. SelectReachable(input, output, priority, reachable) = {Models[i] : i \in first}
  BY DEF SelectReachable
<1>2. E = EligibleAt(input, reachable) /\ E \in SUBSET DOMAIN Models
  BY DEF EligibleAt
<1>3. Models \in Seq(ModelConfigs) /\ Len(Models) \in Nat /\ DOMAIN Models = 1..Len(Models)
  BY ModelsType DEF RegistryInv
<1>4. \A i \in E : i \in Nat /\ Models[i] \in ModelConfigs /\ Fits(Models[i], input)
  BY <1>3 DEF Eligible
<1>5. \A i \in E : score[i] = Score(Models[i], input, output, priority) /\ score[i] \in Int
  BY <1>4, ScoreType
<1>6. first \in SUBSET DOMAIN Models /\ \A i, j \in first : i = j
  <2>1. \A i \in first : i \in Nat /\ i \in DOMAIN Models
    BY <1>2, <1>4
  <2>2. \A i, j \in first : i <= j /\ j <= i
    OBVIOUS
  <2> HIDE DEF first
  <2>3. QED
    BY <2>1, <2>2
<1>7. ASSUME NEW k \in first, NEW i \in E
      PROVE  score[i] <= score[k]
  <2>1. k \in E /\ score[k] = Max({score[j] : j \in E})
    OBVIOUS
  <2> HIDE DEF E, score, first
  <2>2. PICK t \in E : \A j \in E : score[j] <= score[t]
    BY <1>2, <1>3, <1>5, TopIs
  <2>3. score[t] \in {score[j] : j \in E} /\ \A y \in {score[j] : j \in E} : score[t] >= y
    BY <1>5, <2>2
  <2>4. \A y \in {score[j] : j \in E} : Max({score[j] : j \in E}) >= y
    BY <2>3 DEF Max
  <2>5. score[k] >= score[i]
    BY <2>1, <2>4
  <2>6. QED
    BY <1>5, <2>1, <2>5
<1>8. \A k \in first : k \in E
  OBVIOUS
<1> HIDE DEF E, score, first
<1>9. OneListed({Models[i] : i \in first})
  BY <1>6, SinglePlace
<1>10. QED
  BY <1>1, <1>2, <1>5, <1>7, <1>8, <1>9

(* A choice for images is one model, and it has eyes. *)
LEMMA SelectVisionModelOne ==
  ASSUME RegistryInv, NEW input \in Nat, NEW reachable
  PROVE  LET choice == SelectVisionModel(input, reachable)
         IN  OneListed(choice) /\ \A m \in choice : m.supports_vision
<1> DEFINE balanced == SelectReachable(input, 1, "balanced", reachable)
           best == SelectReachable(input, 1, "quality", reachable)
           V    == {i \in DOMAIN Models :
                      Models[i].supports_vision /\ Eligible(Models[i], input, reachable)}
           tops == {i \in V : \A j \in V : Models[j].quality <= Models[i].quality}
           last == {j \in tops : \A k \in tops : k <= j}
           sees(choice) == \E m \in choice : m.supports_vision
<1>1. SelectVisionModel(input, reachable) =
        IF balanced = {} \/ sees(balanced) THEN balanced
        ELSE IF sees(best) THEN best ELSE {Models[i] : i \in last}
  BY DEF SelectVisionModel
<1>2. OneListed(balanced) /\ OneListed(best)
  <2>1. "balanced" \in DOMAIN Weights /\ "quality" \in DOMAIN Weights
    BY DEF Weights
  <2>2. QED
    BY <2>1, SelectReachableOne
<1>3. OneListed({Models[i] : i \in last}) /\ \A m \in {Models[i] : i \in last} : m.supports_vision
  <2>1. Models \in Seq(ModelConfigs) /\ DOMAIN Models = 1..Len(Models) /\ Len(Models) \in Nat
    BY ModelsType DEF RegistryInv
  <2>2. \A i \in last : i \in Nat /\ i \in DOMAIN Models /\ Models[i].supports_vision
    BY <2>1
  <2>3. \A i, j \in last : i <= j /\ j <= i
    OBVIOUS
  <2> HIDE DEF last
  <2>4. last \in SUBSET DOMAIN Models /\ \A i, j \in last : i = j
    BY <2>2, <2>3
  <2>5. QED
    BY <2>2, <2>4, SinglePlace
<1>4. ASSUME NEW choice, OneListed(choice), sees(choice)
      PROVE  \A m \in choice : m.supports_vision
  BY <1>4 DEF OneListed
<1> HIDE DEF balanced, best, last
<1>5. QED
  BY <1>1, <1>2, <1>3, <1>4

LEMMA SelectForTaskOne ==
  ASSUME RegistryInv, NEW task \in DOMAIN TaskRoutes, NEW input \in Nat, NEW reachable
  PROVE  OneListed(SelectForTask(task, input, reachable))
<1> DEFINE preferred == {m \in Find(TaskRoutes[task].preferred) : Eligible(m, input, reachable)}
           best == SelectReachable(input, 1, TaskRoutes[task].priority, reachable)
<1>1. SelectForTask(task, input, reachable) = IF preferred # {} THEN preferred ELSE best
  BY DEF SelectForTask
<1>2. OneListed(preferred)
  BY FindOne, PartOfOne
<1>3. OneListed(best)
  BY TaskPriorities, SelectReachableOne
<1> HIDE DEF preferred, best
<1>4. QED
  BY <1>1, <1>2, <1>3

(* Whatever is asked, the choice is one model or none; what is left to the gateway
   suits the request. *)
LEMMA ChoiceOne ==
  ASSUME RegistryInv, request \in RequestSet
  PROVE  OneListed(Choice(request)) /\ (Routed => \A n \in Choice(request) : Suits(n))
<1> DEFINE input == request.input
           vision == SelectVisionModel(input, Reachable)
           plain == SelectReachable(input, request.output, "balanced", Reachable)
           task == SelectForTask(request.task, input, Reachable)
<1>1. input \in Nat /\ request.output \in Nat /\ request.image \in BOOLEAN
      /\ request.kind \in {"auto", "task", "id"}
  BY DispatchAssumption DEF DispatchAssumption
<1>2. /\ OneListed(vision)
      /\ \A m \in vision : Eligible(m, input, Reachable) /\ m.supports_vision
  BY <1>1, SelectVisionModelOne, SelectVisionModelIs
<1>3. OneListed(plain) /\ \A m \in plain : Eligible(m, input, Reachable)
  <2>1. "balanced" \in DOMAIN Weights
    BY DEF Weights
  <2>2. QED
    BY <1>1, <2>1, SelectReachableOne, SelectReachableIs
<1>4. ASSUME request.task \in DOMAIN TaskRoutes
      PROVE  OneListed(task) /\ \A m \in task : Eligible(m, input, Reachable)
  BY <1>1, <1>4, SelectForTaskOne, SelectForTaskIs
<1>5. CASE request.kind = "auto"
  <2>1. Choice(request) = IF request.image THEN vision ELSE plain
    BY <1>1, <1>5 DEF Choice
  <2> HIDE DEF vision, plain
  <2>2. QED
    BY <1>2, <1>3, <2>1 DEF Suits, input
<1>6. CASE request.kind = "task" /\ request.task \in DOMAIN TaskRoutes
  <2>1. Choice(request) = IF request.image /\ Seeing(task) = {} /\ task # {} THEN vision ELSE task
    BY <1>6 DEF Choice, ChosenForTask
  <2> HIDE DEF vision, task
  <2>2. Seeing(task) # {} => \A m \in task : m.supports_vision
    BY <1>4, <1>6 DEF Seeing, OneListed
  <2>3. QED
    BY <1>2, <1>4, <1>6, <2>1, <2>2 DEF Suits, input
<1>7. CASE request.kind = "task" /\ request.task \notin DOMAIN TaskRoutes
  BY <1>7 DEF Choice, OneListed
<1>8. CASE request.kind = "id"
  <2>1. Choice(request) \subseteq Find(request.id)
    BY <1>8 DEF Choice, Seeing
  <2>2. ~Routed
    BY <1>8 DEF Routed
  <2>3. QED
    BY <2>1, <2>2, FindOne, PartOfOne
<1>9. QED
  BY <1>1, <1>5, <1>6, <1>7, <1>8

(* A share is a quotient: the greater the divisor, the smaller the share. *)
LEMMA QuotientFalls ==
  ASSUME NEW a \in Nat, NEW b \in Nat \ {0}, NEW c \in Nat, b <= c
  PROVE  a \div c <= a \div b /\ a \div b \in Int /\ a \div c \in Int
<1> DEFINE q == a \div b
           p == a \div c
<1>1. q \in Int /\ a < b * (q + 1)
  OBVIOUS
<1>2. p \in Nat /\ c * p <= a
  OBVIOUS
<1>3. ASSUME q + 1 <= p
      PROVE  FALSE
  <2> HIDE DEF p, q
  <2>1. b * p <= c * p
    BY <1>2
  <2>2. b * (q + 1) <= b * p
    BY <1>1, <1>2, <1>3
  <2>3. b * (q + 1) \in Int /\ b * p \in Int /\ c * p \in Int
    BY <1>1, <1>2
  <2>4. QED
    BY <1>1, <1>2, <2>1, <2>2, <2>3
<1> HIDE DEF p, q
<1>4. p <= q
  BY <1>1, <1>2, <1>3
<1>5. QED
  BY <1>1, <1>2, <1>4 DEF p, q

(* What is better in quality and no worse in the rest has the higher score. *)
LEMMA DominantScores ==
  ASSUME NEW m \in ModelConfigs, NEW n \in ModelConfigs, NEW input \in Nat, NEW output \in Nat,
         Fits(m, input), Fits(n, input), Dominates(m, n)
  PROVE  Score(n, input, output, "balanced") < Score(m, input, output, "balanced")
<1>1. /\ m.cost_in \in Nat /\ m.cost_out \in Nat /\ m.latency \in Nat /\ m.quality \in Nat
      /\ n.cost_in \in Nat /\ n.cost_out \in Nat /\ n.latency \in Nat /\ n.quality \in Nat
      /\ m.context \in Nat \ {0} /\ n.context \in Nat \ {0}
  BY DEF ModelConfigs, Fits
<1>2. /\ m.cost_in <= n.cost_in /\ m.cost_out <= n.cost_out /\ m.latency <= n.latency
      /\ n.context <= m.context /\ n.quality < m.quality
  BY <1>1 DEF Dominates
<1>3. /\ CostShare(n, input, output) <= CostShare(m, input, output)
      /\ CostShare(n, input, output) \in Int /\ CostShare(m, input, output) \in Int
  <2>1. /\ input * m.cost_in \in Nat /\ output * m.cost_out \in Nat
        /\ input * n.cost_in \in Nat /\ output * n.cost_out \in Nat
    BY <1>1
  <2>2. input * m.cost_in <= input * n.cost_in /\ output * m.cost_out <= output * n.cost_out
    BY <1>1, <1>2
  <2> DEFINE b == 20000 + input * m.cost_in + output * m.cost_out
             c == 20000 + input * n.cost_in + output * n.cost_out
             a == Scale * 20000
  <2>3. b \in Nat \ {0} /\ c \in Nat /\ b <= c /\ a \in Nat
    BY <2>1, <2>2 DEF Scale
  <2>4. CostShare(m, input, output) = a \div b /\ CostShare(n, input, output) = a \div c
    BY DEF CostShare
  <2> HIDE DEF a, b, c
  <2>5. QED
    BY <2>3, <2>4, QuotientFalls
<1>4. /\ LatencyShare(n) <= LatencyShare(m) /\ LatencyShare(n) \in Int /\ LatencyShare(m) \in Int
  <2> DEFINE b == 200 + m.latency
             c == 200 + n.latency
             a == Scale * 200
  <2>1. b \in Nat \ {0} /\ c \in Nat /\ b <= c /\ a \in Nat
    BY <1>1, <1>2 DEF Scale
  <2>2. LatencyShare(m) = a \div b /\ LatencyShare(n) = a \div c
    BY DEF LatencyShare
  <2> HIDE DEF a, b, c
  <2>3. QED
    BY <2>1, <2>2, QuotientFalls
<1>5. /\ ContextShare(n, input) <= ContextShare(m, input)
      /\ ContextShare(n, input) \in Int /\ ContextShare(m, input) \in Int
  <2> DEFINE a == Scale * input
             p == a \div m.context
             q == a \div n.context
  <2>1. a \in Nat /\ Scale \in Nat
    BY DEF Scale
  <2>2. ContextShare(m, input) = Scale - p /\ ContextShare(n, input) = Scale - q
    BY DEF ContextShare
  <2> HIDE DEF a
  <2>3. p <= q /\ p \in Int /\ q \in Int
    BY <1>1, <1>2, <2>1, QuotientFalls
  <2> HIDE DEF p, q
  <2>4. QED
    BY <2>1, <2>2, <2>3
<1>6. /\ QualityShare(n) + 100 <= QualityShare(m)
      /\ QualityShare(n) \in Int /\ QualityShare(m) \in Int
  BY <1>1, <1>2 DEF QualityShare, Scale
<1>7. /\ Weights["balanced"].cost = 35 /\ Weights["balanced"].latency = 25
      /\ Weights["balanced"].quality = 30 /\ Weights["balanced"].context = 10
  BY DEF Weights
<1>8. QED
  BY <1>3, <1>4, <1>5, <1>6, <1>7 DEF Score

LEMMA ChoiceUndominated ==
  ASSUME RegistryInv, request \in RequestSet, request.kind = "auto", ~request.image,
         NEW n \in Choice(request), NEW m \in ToSet(Models), Suits(m)
  PROVE  ~Dominates(m, n)
<1> DEFINE input == request.input
           output == request.output
<1>1. input \in Nat /\ output \in Nat /\ "balanced" \in DOMAIN Weights
  BY DispatchAssumption DEF DispatchAssumption, Weights
<1>2. Choice(request) = SelectReachable(input, output, "balanced", Reachable)
  BY DEF Choice
<1>3. Models \in Seq(ModelConfigs)
  BY ModelsType DEF RegistryInv
<1>4. PICK i \in DOMAIN Models : m = Models[i]
  BY DEF ToSet
<1>5. i \in EligibleAt(input, Reachable)
  BY <1>4 DEF EligibleAt, Suits
<1>6. Score(m, input, output, "balanced") <= Score(n, input, output, "balanced")
  BY <1>1, <1>2, <1>4, <1>5, SelectReachableOne
<1>7. Eligible(n, input, Reachable) /\ Eligible(m, input, Reachable)
  BY <1>1, <1>2, SelectReachableIs DEF Suits
<1>8. m \in ModelConfigs /\ n \in ModelConfigs /\ Fits(m, input) /\ Fits(n, input)
  <2>1. n \in ToSet(Models)
    BY <1>2 DEF SelectReachable, ToSet
  <2>2. m \in ModelConfigs /\ n \in ModelConfigs
    BY <1>3, <2>1 DEF ToSet
  <2>3. QED
    BY <1>7, <2>2 DEF Eligible
<1>9. /\ Score(m, input, output, "balanced") \in Int
      /\ Score(n, input, output, "balanced") \in Int
  BY <1>1, <1>8, ScoreType
<1>10. ASSUME Dominates(m, n)
       PROVE  FALSE
  BY <1>1, <1>6, <1>8, <1>9, <1>10, DominantScores
<1>11. QED
  BY <1>10

(* There is no target before the choice, and after it what it was made from stays:
   the registry, the headers and the request. *)
TargetInv ==
  /\ stage \in {"boot", "ready", "bridge", "check", "resolve"} => target = {}
  /\ OneListed(target)
  /\ AutoChoosesWell

LEMMA TargetStays ==
  ASSUME TargetInv, UNCHANGED <<extra, headers, request, target>>,
         stage' \in {"boot", "ready", "bridge", "check", "resolve"} => target = {}
  PROVE  TargetInv'
<1>1. Models' = Models /\ Routed' = Routed /\ Reachable' = Reachable
  BY DEF Models, Routed, Reachable, Keyed, Keys
<1>2. \A m : Suits(m)' = Suits(m)
  BY <1>1 DEF Suits
<1>3. OneListed(target)' /\ AutoChoosesWell'
  BY <1>1, <1>2 DEF TargetInv, OneListed, AutoChoosesWell
<1>4. QED
  BY <1>3 DEF TargetInv

LEMMA NoTarget ==
  ASSUME target' = {}
  PROVE  TargetInv'
BY DEF TargetInv, OneListed, AutoChoosesWell

LEMMA ResolveTarget ==
  ASSUME RegistryInv, request \in RequestSet, Resolve
  PROVE  TargetInv'
<1>1. /\ target' = Choice(request) /\ UNCHANGED <<extra, headers, request>>
      /\ stage' \in {"done", "route"}
  BY DEF Resolve, Goes, Ends
<1>2. Models' = Models /\ Routed' = Routed /\ Reachable' = Reachable
  BY <1>1 DEF Models, Routed, Reachable, Keyed, Keys
<1>3. \A m : Suits(m)' = Suits(m)
  BY <1>1, <1>2 DEF Suits
<1>4. OneListed(target)'
  BY <1>1, <1>2, ChoiceOne DEF OneListed
<1>5. AutoChoosesWell'
  <2>1. Routed => \A n \in Choice(request) : Suits(n)
    BY ChoiceOne
  <2>2. request.kind = "auto" /\ ~request.image =>
          \A n \in Choice(request) : \A m \in ToSet(Models) : Suits(m) => ~Dominates(m, n)
    BY ChoiceUndominated
  <2>3. QED
    BY <1>1, <1>2, <1>3, <2>1, <2>2 DEF AutoChoosesWell
<1>6. QED
  BY <1>1, <1>4, <1>5 DEF TargetInv

LEMMA TargetStep ==
  ASSUME TargetInv, PriceInv, RegistryInv, [DispatchNext]_dispatchVars
  PROVE  TargetInv'
<1>1. ASSUME \/ FetchCatalog \/ FetchFails \/ Bridge \/ CheckKey \/ NextRequest
             \/ \E h \in HeaderSets, q \in RequestSet : Arrive(h, q)
      PROVE  TargetInv'
  <2>1. target' = {}
    BY <1>1 DEF FetchCatalog, FetchFails, Bridge, CheckKey, NextRequest, Cleared, Arrive, TargetInv
  <2>2. QED
    BY <2>1, NoTarget
<1>2. CASE Resolve
  BY <1>2, ResolveTarget DEF Resolve, PriceInv
<1>3. ASSUME \/ Route \/ CallFails \/ ReadStream \/ SettleStream
             \/ \E output \in Counts : Answer(output)
             \/ \E lines \in Scripts[Family(route.provider)] : OpenStream(lines)
      PROVE  TargetInv'
  <2>1. /\ UNCHANGED <<extra, headers, request, target>>
        /\ stage' \in {"call", "stream", "done"}
    BY <1>3 DEF Route, CallFails, ReadStream, SettleStream, Answer, OpenStream, Goes, Ends
  <2>2. QED
    BY <2>1, TargetStays
<1>4. CASE UNCHANGED dispatchVars
  BY <1>4, TargetStays DEF dispatchVars, TargetInv
<1>5. QED
  BY <1>1, <1>2, <1>3, <1>4 DEF DispatchNext

LEMMA TargetHolds == DispatchSpec => []TargetInv
<1>1. DispatchInit => TargetInv
  BY DEF DispatchInit, TargetInv, OneListed, AutoChoosesWell
<1>2. TargetInv /\ PriceInv /\ RegistryInv /\ [DispatchNext]_dispatchVars => TargetInv'
  BY TargetStep
<1>3. QED
  BY <1>1, <1>2, PricesHold, RegistryHolds, PTL DEF DispatchSpec

(* What is chosen for a client suits its request, and by the balanced score it is
   never a model that another suitable one beats in quality without being dearer,
   slower or smaller (route_engine.rs select_reachable, vision.rs
   select_vision_model, main.rs resolve_model). *)
THEOREM ChoosesWellAlways == DispatchSpec => []AutoChoosesWell
<1>1. TargetInv => AutoChoosesWell
  BY DEF TargetInv
<1>2. QED
  BY <1>1, TargetHolds, PTL

---------------------------------------------------------------------------
(* Types.  What the parts above leave open: the stage, what was sent, the place in
   the script and the total that is charged, which wraps at its width. *)
ShapeInv ==
  /\ stage \in Stages
  /\ sent \in HeaderSets \cup {NoHeaders}
  /\ place <= 2 * Len(script)
  /\ charge.total \in 0..(TokenModulus - 1)

LEMMA TotalWraps ==
  ASSUME NEW price, NEW input \in Nat, NEW output \in Nat
  PROVE  CostBreakdown(price, input, output).total \in 0..(TokenModulus - 1)
<1>1. TokenModulus \in Nat \ {0} /\ input + output \in Nat
  BY DispatchAssumption DEF DispatchAssumption
<1>2. (input + output) % TokenModulus \in 0..(TokenModulus - 1)
  BY <1>1
<1>3. QED
  BY <1>2 DEF CostBreakdown

LEMMA ShapeStep ==
  ASSUME ShapeInv, StreamInv, PriceInv, [DispatchNext]_dispatchVars
  PROVE  ShapeInv'
<1>1. ASSUME \/ FetchCatalog \/ FetchFails \/ Bridge \/ CheckKey \/ Resolve \/ Route \/ CallFails
             \/ \E h \in HeaderSets, q \in RequestSet : Arrive(h, q)
             \/ UNCHANGED dispatchVars
      PROVE  ShapeInv'
  <2>1. UNCHANGED <<script, place, charge>>
    BY <1>1 DEF FetchCatalog, FetchFails, Bridge, CheckKey, Resolve, Route, CallFails, Arrive,
       dispatchVars, streamVars
  <2>2. stage' \in Stages /\ sent' \in HeaderSets \cup {NoHeaders}
    BY <1>1 DEF FetchCatalog, FetchFails, Bridge, CheckKey, Resolve, Route, CallFails, Arrive,
       dispatchVars, Goes, Ends, ShapeInv, Stages
  <2>3. QED
    BY <2>1, <2>2 DEF ShapeInv
<1>2. ASSUME NEW output \in Counts, Answer(output)
      PROVE  ShapeInv'
  <2>1. request.input \in Nat /\ output \in Nat
    <3>1. request \in RequestSet
      BY <1>2 DEF Answer, PriceInv
    <3>2. TokenModulus \in Nat /\ output \in 0..(TokenModulus - 1)
      BY DispatchAssumption DEF DispatchAssumption
    <3>3. QED
      BY <3>1, <3>2, DispatchAssumption DEF DispatchAssumption
  <2>2. charge'.total \in 0..(TokenModulus - 1)
    BY <1>2, <2>1, TotalWraps DEF Answer
  <2>3. UNCHANGED <<script, place, sent>> /\ stage' = "done"
    BY <1>2 DEF Answer, Ends, streamVars
  <2>4. QED
    BY <2>2, <2>3 DEF ShapeInv, Stages
<1>3. CASE SettleStream
  <2>1. charge'.total \in 0..(TokenModulus - 1)
    BY <1>3, UsageCounted, TotalWraps DEF SettleStream
  <2>2. UNCHANGED <<script, place, sent>> /\ stage' = "done"
    BY <1>3 DEF SettleStream, Ends, streamVars
  <2>3. QED
    BY <2>1, <2>2 DEF ShapeInv, Stages
<1>4. CASE ReadStream
  <2>1. UNCHANGED <<script, sent, charge>> /\ stage' = "stream"
    BY <1>4 DEF ReadStream, Chunk, LoopEnds
  <2>2. Len(script) \in Nat
    BY DEF StreamInv, StreamTypeOK
  <2>3. place' <= 2 * Len(script)
    BY <1>4, <2>2 DEF ReadStream, Chunk, LoopEnds, ShapeInv
  <2>4. QED
    BY <2>1, <2>3 DEF ShapeInv, Stages
<1>5. ASSUME NEW lines \in Scripts[Family(route.provider)], OpenStream(lines)
      PROVE  ShapeInv'
  <2>1. place' = 0 /\ script' = lines /\ stage' = "stream" /\ UNCHANGED <<sent, charge>>
    BY <1>5 DEF OpenStream, StreamOpens, Goes
  <2>2. Len(script') \in Nat
    <3>1. Family(route.provider) \in {"anthropic", "gemini", "openai"}
      BY DEF Family
    <3>2. QED
      BY <2>1, <3>1, DispatchAssumption DEF DispatchAssumption
  <2>3. QED
    BY <2>1, <2>2 DEF ShapeInv, Stages
<1>6. CASE NextRequest
  <2>1. /\ place' = 0 /\ script' = <<>> /\ stage' = "ready" /\ sent' = NoHeaders
        /\ charge' = NoCharge
    BY <1>6 DEF NextRequest, Cleared, StreamOpens, Goes
  <2>2. NoCharge.total \in 0..(TokenModulus - 1)
    BY DispatchAssumption DEF DispatchAssumption, NoCharge
  <2>3. QED
    BY <2>1, <2>2 DEF ShapeInv, Stages
<1>7. QED
  BY <1>1, <1>2, <1>3, <1>4, <1>5, <1>6 DEF DispatchNext

LEMMA ShapeHolds == DispatchSpec => []ShapeInv
<1>1. DispatchInit => ShapeInv
  <2>1. NoCharge.total \in 0..(TokenModulus - 1)
    BY DispatchAssumption DEF DispatchAssumption, NoCharge
  <2>2. DispatchInit => stage \in Stages /\ sent = NoHeaders /\ place = 0 /\ script = <<>> /\ charge = NoCharge
    BY DEF DispatchInit, StreamIdle, Stages
  <2>3. 0 <= 2 * Len(<<>>)
    OBVIOUS
  <2>4. QED
    BY <2>1, <2>2, <2>3 DEF ShapeInv
<1>2. ShapeInv /\ StreamInv /\ PriceInv /\ [DispatchNext]_dispatchVars => ShapeInv'
  BY ShapeStep
<1>3. QED
  BY <1>1, <1>2, StreamHolds, PricesHold, PTL DEF DispatchSpec

(* A request is at one stage and has one outcome, it has at most one target, which the
   registry lists, and its total is of 32 bits (main.rs chat_completions_handler,
   tokens.rs TokenCostBreakdown). *)
THEOREM DispatchTypeCorrect == DispatchSpec => []DispatchTypeOK
<1>1. ShapeInv /\ StreamInv /\ HeadersInv /\ StrandInv /\ TargetInv => DispatchTypeOK
  <2> SUFFICES ASSUME ShapeInv, StreamInv, HeadersInv, StrandInv, TargetInv
               PROVE  DispatchTypeOK
    OBVIOUS
  <2>1. target \subseteq ToSet(Models) /\ Cardinality(target) <= 1
    <3>1. ASSUME target = {}
          PROVE  target \subseteq ToSet(Models) /\ Cardinality(target) <= 1
      <4>1. Cardinality({}) = 0
        BY FS_EmptySet
      <4>2. QED
        BY <3>1, <4>1
    <3>2. ASSUME NEW m \in ToSet(Models), target = {m}
          PROVE  target \subseteq ToSet(Models) /\ Cardinality(target) <= 1
      <4>1. Cardinality({m}) = 1
        BY FS_Singleton
      <4>2. QED
        BY <3>2, <4>1
    <3>3. QED
      BY <3>1, <3>2 DEF TargetInv, OneListed
  <2>2. place \in 0..(2 * Len(script))
    BY DEF ShapeInv, StreamInv, StreamTypeOK
  <2>3. QED
    BY <2>1, <2>2 DEF DispatchTypeOK, ShapeInv, HeadersInv, StrandInv
<1>2. QED
  BY <1>1, ShapeHolds, StreamHolds, HeadersHold, StrandHolds, TargetHolds, PTL
=============================================================================
