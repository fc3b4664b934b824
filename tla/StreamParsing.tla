---------------------------- MODULE StreamParsing ----------------------------
(***************************************************************************)
(* How a stream's usage is read (streaming.rs).  A provider sends the      *)
(* lines of its script in chunks that end where they happen to: after a    *)
(* line, inside one, or inside a character of one.  Each chunk is decoded  *)
(* and split into lines by itself, so that what a cut tears is lost.       *)
(***************************************************************************)
EXTENDS Integers, Sequences

(* A place in a script of n lines is in 0..2n: even after a line, odd inside
   one.  A line is [kind, input, output]: text, usage (Missing counts are -1)
   or stop. *)
StreamLines == [kind : {"text", "usage", "stop"}, input : Int, output : Int]

VARIABLES
  script,    \* what the provider sends
  family,    \* anthropic, gemini or openai: how its lines are read
  place,     \* how far the stream was read
  torn,      \* the last cut is inside a character
  usage,     \* input_tokens and output_tokens so far
  payload,   \* none, or the usage sent to the audit task
  clean      \* history: every cut so far was after a line

streamVars == <<script, family, place, torn, usage, payload, clean>>

NoUsage   == [input |-> 0, output |-> 0]
NoPayload == [sent |-> FALSE, usage |-> NoUsage]

StreamIdle ==
  /\ script = <<>> /\ family = "openai" /\ place = 0 /\ torn = FALSE
  /\ usage = NoUsage /\ payload = NoPayload /\ clean = TRUE

StreamOpens(lines, f) ==
  /\ script' = lines /\ family' = f /\ place' = 0 /\ torn' = FALSE
  /\ usage' = NoUsage /\ payload' = NoPayload /\ clean' = TRUE

(* Whole lines of a chunk from a place to another. *)
Lines(from, to) == {k \in DOMAIN script : from <= 2 * (k - 1) /\ 2 * k <= to}

Least(S)    == CHOOSE k \in S : \A l \in S : k <= l
Greatest(S) == CHOOSE k \in S : \A l \in S : l <= k

(* [DONE], or Anthropic's message_stop: what follows it is not read. *)
Stops(lines) == {k \in lines : script[k].kind = "stop"}
Read(lines) ==
  IF Stops(lines) = {} THEN lines ELSE {k \in lines : k <= Least(Stops(lines))}

Given(lines, field) == {k \in lines : script[k].kind = "usage" /\ script[k][field] >= 0}

(* Mutant: the counts of a stream are added up. *)
LatestSummed(lines, field, before) ==
  IF Given(lines, field) = {} THEN before
  ELSE before + script[Greatest(Given(lines, field))][field]

(* The last count given wins; Anthropic's input count is never looked at. *)
Latest(lines, field, before) ==
  IF Given(lines, field) = {} THEN before ELSE script[Greatest(Given(lines, field))][field]

UsageAfter(lines) ==
  [input  |-> IF family = "anthropic" THEN usage.input ELSE Latest(lines, "input", usage.input),
   output |-> Latest(lines, "output", usage.output)]

Sent(u) == [sent |-> TRUE, usage |-> u]

(* A chunk that does not decode, because it begins or ends inside a
   character, is skipped whole. *)
Decodes(tears) == ~torn /\ ~tears

Chunk(to, tears) ==
  LET lines == IF Decodes(tears) THEN Read(Lines(place, to)) ELSE {}
  IN  /\ ~payload.sent
      /\ place < to
      /\ tears => to % 2 = 1
      /\ place' = to /\ torn' = tears
      /\ clean' = (clean /\ to % 2 = 0)
      /\ usage' = UsageAfter(lines)
      /\ payload' = IF Stops(lines) = {} THEN payload ELSE Sent(UsageAfter(lines))
      /\ UNCHANGED <<script, family>>

(* The stream ends, or reading it fails, before a stop line was seen: what was
   counted so far is sent. *)
LoopEnds ==
  /\ ~payload.sent
  /\ payload' = Sent(usage)
  /\ UNCHANGED <<script, family, place, torn, usage, clean>>

---------------------------------------------------------------------------
(* What is sent to the audit task is what the provider reported: the last counts
   before the stop if no cut tore a line, and never a count that is not in a line
   before the place that was read.  Anthropic's input count is always zero. *)
UsageFaithful ==
  payload.sent =>
    LET whole == Lines(0, place)
        final(field) ==
          Given(Read(whole), field) # {} =>
            payload.usage[field] = script[Greatest(Given(Read(whole), field))][field]
    IN  /\ \A field \in {"input", "output"} :
             payload.usage[field] \in {script[k][field] : k \in Given(whole, field)} \cup {0}
        /\ family = "anthropic" => payload.usage.input = 0
        /\ clean => final("output")
        /\ clean /\ family # "anthropic" => final("input")
=============================================================================
