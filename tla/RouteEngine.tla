----------------------------- MODULE RouteEngine -----------------------------
(***************************************************************************)
(* The route engine (route_engine.rs), the choice of a model for images    *)
(* (vision.rs) and the translation of the OpenRouter catalog               *)
(* (openrouter_catalog.rs).  A choice is the set of models the code may    *)
(* return: empty where it returns an error, a singleton otherwise.         *)
(* Scores are integers in units of 1 / (100 * Scale).                      *)
(***************************************************************************)
EXTENDS Registry, FiniteSetsExt, SequencesExt

Scale == 10000

VARIABLE extra   \* what extend_registry appended to the curated table

Models == Curated \o extra

---------------------------------------------------------------------------
(* The catalog: entries [id, prompt, completion, context, image], where
   Missing stands for what an entry does not give. *)

Missing == -1
CatalogEntries ==
  [id : STRING \X STRING, prompt : Nat \cup {Missing}, completion : Nat \cup {Missing},
   context : Nat \cup {Missing}, image : BOOLEAN]
OrElse(value, default) == IF value = Missing THEN default ELSE value

NeutralLatency == 250
NeutralQuality == 72
NeutralContext == 32

(* to_model_config: a price that is missing or cannot be read is zero. *)
ToModelConfig(m) ==
  Model(m.id, "openrouter", OrElse(m.prompt, 0), OrElse(m.completion, 0),
        NeutralLatency, NeutralQuality, OrElse(m.context, NeutralContext), m.image, TRUE)

Ids(models) == {models[i].api_id : i \in DOMAIN models}

(* Mutant: the catalog is appended as it is. *)
AppendedAll(known, fetched) == fetched

(* The ids that are in `seen` already, from the table or from an earlier entry,
   are skipped. *)
Unseen(known, fetched) ==
  {i \in DOMAIN fetched :
     /\ fetched[i].api_id \notin Ids(known)
     /\ \A j \in 1..(i - 1) : fetched[j].api_id # fetched[i].api_id}

Rank(S, i) == Cardinality({j \in S : j <= i})

(* extend_registry: the others are pushed in their order. *)
Appended(known, fetched) ==
  LET unseen == Unseen(known, fetched)
  IN  [n \in 1..Cardinality(unseen) |-> fetched[CHOOSE i \in unseen : Rank(unseen, i) = n]]

ExtendRegistry(catalog) ==
  extra' = extra \o Appended(Models, [i \in DOMAIN catalog |-> ToModelConfig(catalog[i])])

(* find: the first model of that id, enabled or not. *)
Find(id) ==
  {Models[i] : i \in {j \in DOMAIN Models :
     Models[j].api_id = id /\ \A k \in 1..(j - 1) : Models[k].api_id # id}}

OpenrouterCatalogHas(id) == \E m \in ToSet(Models) : m.provider = "openrouter" /\ m.api_id = id

(* get_pricing *)
Price(m) == [input |-> m.cost_in, output |-> m.cost_out]
Pricing(id) == {Price(m) : m \in Find(id)}

---------------------------------------------------------------------------
(* select_reachable *)

(* A token costs half a cent per thousand thousand: 20000 is ten cents. *)
CostShare(m, input, output) ==
  (Scale * 20000) \div (20000 + input * m.cost_in + output * m.cost_out)
LatencyShare(m)        == (Scale * 200) \div (200 + m.latency)
QualityShare(m)        == (Scale \div 100) * m.quality
ContextShare(m, input) == Scale - (Scale * input) \div m.context

Score(m, input, output, priority) ==
  LET w == Weights[priority]
  IN  w.cost * CostShare(m, input, output) + w.latency * LatencyShare(m)
      + w.quality * QualityShare(m) + w.context * ContextShare(m, input)

Fits(m, input) == input < m.context
Eligible(m, input, reachable) == m.enabled /\ m.provider \in reachable /\ Fits(m, input)

(* The first model with the highest score. *)
SelectReachable(input, output, priority, reachable) ==
  LET E     == {i \in DOMAIN Models : Eligible(Models[i], input, reachable)}
      score == [i \in E |-> Score(Models[i], input, output, priority)]
      tops  == {i \in E : score[i] = Max({score[j] : j \in E})}
  IN  {Models[i] : i \in {j \in tops : \A k \in tops : j <= k}}

(* Mutant: the balanced choice, with eyes or without. *)
SelectVisionModelBalanced(input, reachable) == SelectReachable(input, 1, "balanced", reachable)

(* select_vision_model: the balanced choice, the quality choice, and then the
   last of the models of the highest quality that take images. *)
SelectVisionModel(input, reachable) ==
  LET balanced == SelectReachable(input, 1, "balanced", reachable)
      quality  == SelectReachable(input, 1, "quality", reachable)
      V    == {i \in DOMAIN Models :
                 Models[i].supports_vision /\ Eligible(Models[i], input, reachable)}
      tops == {i \in V : \A j \in V : Models[j].quality <= Models[i].quality}
      sees(choice) == \E m \in choice : m.supports_vision
  IN  IF balanced = {} \/ sees(balanced) THEN balanced
      ELSE IF sees(quality) THEN quality
      ELSE {Models[i] : i \in {j \in tops : \A k \in tops : k <= j}}

(* select_for_task: the preferred model if it is eligible, or the best one. *)
SelectForTask(task, input, reachable) ==
  LET route     == TaskRoutes[task]
      preferred == {m \in Find(route.preferred) : Eligible(m, input, reachable)}
  IN  IF preferred # {} THEN preferred
      ELSE SelectReachable(input, 1, route.priority, reachable)
=============================================================================
