---------------------------- MODULE SemanticCache ----------------------------
(***************************************************************************)
(* The semantic cache of src/src/semantic_cache.rs: a table of answers,    *)
(* looked up first by the hash of client, model and prompt and then by the *)
(* prompt's embedding, and filled by tasks nobody waits for.  A prompt is  *)
(* a point of a line and the cosine similarity of two prompts is how near  *)
(* they are; the hash is the triple itself.                                *)
(***************************************************************************)
EXTENDS Integers

CONSTANT Reach   \* the largest distance that passes SIMILARITY_THRESHOLD

ASSUME ReachAssumption == Reach \in Nat

VARIABLES
  rows,      \* the table: [client, model, text, answer]
  storing    \* rows that spawned tasks are about to insert

cacheVars == <<rows, storing>>

(* Mutant: two of store's arguments, all of them strings, are swapped. *)
RowOfSwapped(q, a) == [client |-> a, model |-> q.model, text |-> q.text, answer |-> q.client]

RowOf(q, a) == [client |-> q.client, model |-> q.model, text |-> q.text, answer |-> a]

(* cache_key_hash, for a request or a row. *)
CacheKey(q) == <<q.client, q.model, q.text>>

Near(t, u) == t - u <= Reach /\ u - t <= Reach

(* The table outlives the process, and its cache_key is UNIQUE. *)
CacheInit(found) ==
  /\ \A row, other \in found : CacheKey(row) = CacheKey(other) => row = other
  /\ rows = found
  /\ storing = {}

(* The first query of lookup. *)
Exact(q) == {row \in rows : CacheKey(row) = CacheKey(q)}

(* Mutant: the query as it was before it filtered by client. *)
SimilarOfAnyone(q) == {row \in rows : row.model = q.model /\ Near(row.text, q.text)}

(* Its second query.  The index is an approximate one and the filters come
   after it: any row that passes them may be returned. *)
Similar(q) ==
  {row \in rows : row.client = q.client /\ row.model = q.model /\ Near(row.text, q.text)}

(* store, up to its spawned task. *)
Store(q, a) == storing' = storing \cup {RowOf(q, a)}

(* Mutant: ON CONFLICT DO UPDATE. *)
InsertedOver(entry) == (rows \ Exact(entry)) \cup {entry}

(* INSERT ... ON CONFLICT DO NOTHING *)
Inserted(entry) == IF Exact(entry) = {} THEN rows \cup {entry} ELSE rows

Insert(entry) ==
  /\ entry \in storing
  /\ rows' = Inserted(entry)
  /\ storing' = storing \ {entry}

(* The embedder or the database fails: the answer is not cached. *)
InsertFails(entry) ==
  /\ entry \in storing
  /\ storing' = storing \ {entry}
  /\ UNCHANGED rows

StopCache == storing' = {} /\ UNCHANGED rows

---------------------------------------------------------------------------
(* What a client was answered from the cache does not change under the next
   one who asks: of two first answers that race to the table one stays. *)
FirstAnswerStands ==
  [][\A row \in rows : \A other \in rows' : CacheKey(row) = CacheKey(other) => other = row]_rows
=============================================================================
