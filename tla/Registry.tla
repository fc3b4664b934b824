------------------------------ MODULE Registry ------------------------------
(***************************************************************************)
(* The data of src/src/route_engine.rs: the curated table of models, the   *)
(* weights of the priorities and the models preferred for tasks.  Tokens   *)
(* are counted in thousands, prices are half cents for a million tokens,   *)
(* qualities hundredths.  A model id is a pair: what is before its slash,  *)
(* empty when it has none, and what is after.                              *)
(***************************************************************************)
EXTENDS Integers, Sequences

Providers == {"anthropic", "openai", "gemini", "deepseek", "mistral", "xai",
              "qwen", "moonshot", "zhipu", "meta", "openrouter"}

(* Provider::openrouter_prefix *)
OpenrouterPrefix ==
  [anthropic |-> "anthropic", openai |-> "openai", gemini |-> "google",
   deepseek |-> "deepseek", mistral |-> "mistralai", xai |-> "x-ai", qwen |-> "qwen",
   moonshot |-> "moonshotai", zhipu |-> "z-ai", meta |-> "meta-llama", openrouter |-> ""]

(* openrouter_slug_override: the ids whose slug is not prefix/id. *)
SlugOverride(id) ==
  IF id = <<"", "gemini-3-flash">> THEN <<"google", "gemini-3-flash-preview">> ELSE <<>>

Model(id, provider, cost_in, cost_out, latency, quality, context, vision, enabled) ==
  [api_id |-> id, provider |-> provider, cost_in |-> cost_in, cost_out |-> cost_out,
   latency |-> latency, quality |-> quality, context |-> context,
   supports_vision |-> vision, enabled |-> enabled]

ModelConfigs ==
  [api_id : STRING \X STRING, provider : Providers, cost_in : Nat, cost_out : Nat,
   latency : Nat, quality : Nat, context : Nat, supports_vision : BOOLEAN, enabled : BOOLEAN]

(* build_registry *)
Curated == <<
  Model(<<"", "claude-opus-5">>, "anthropic", 1000, 5000, 140, 98, 1000, TRUE, TRUE),
  Model(<<"", "claude-opus-4-8">>, "anthropic", 1000, 5000, 260, 93, 1000, TRUE, TRUE),
  Model(<<"", "claude-sonnet-5">>, "anthropic", 600, 3000, 170, 94, 1000, TRUE, TRUE),
  Model(<<"", "claude-haiku-4-5">>, "anthropic", 200, 1000, 90, 80, 200, TRUE, TRUE),
  Model(<<"", "claude-fable-5">>, "anthropic", 2000, 10000, 320, 99, 1000, TRUE, TRUE),
  Model(<<"", "claude-opus-4-7">>, "anthropic", 1000, 5000, 270, 97, 1000, TRUE, TRUE),
  Model(<<"", "claude-opus-4-6">>, "anthropic", 1000, 5000, 260, 96, 1000, TRUE, TRUE),
  Model(<<"", "claude-sonnet-4-6">>, "anthropic", 600, 3000, 170, 91, 1000, TRUE, TRUE),
  Model(<<"", "gpt-5.6-sol">>, "openai", 1000, 6000, 250, 99, 1050, TRUE, TRUE),
  Model(<<"", "gpt-5.6-terra">>, "openai", 500, 3000, 180, 92, 1050, TRUE, TRUE),
  Model(<<"", "gpt-5.6-luna">>, "openai", 200, 1200, 110, 80, 1050, TRUE, TRUE),
  Model(<<"", "gpt-5.5">>, "openai", 1000, 6000, 240, 97, 1000, TRUE, TRUE),
  Model(<<"", "gpt-5.4">>, "openai", 500, 3000, 175, 90, 400, TRUE, TRUE),
  Model(<<"", "gpt-5.4-mini">>, "openai", 150, 900, 130, 78, 400, TRUE, TRUE),
  Model(<<"", "gpt-5.4-nano">>, "openai", 40, 250, 85, 65, 400, FALSE, TRUE),
  Model(<<"", "gpt-oss-20b">>, "openai", 6, 30, 95, 62, 128, FALSE, FALSE),
  Model(<<"", "gemini-3.1-pro">>, "gemini", 400, 2400, 210, 96, 2000, TRUE, TRUE),
  Model(<<"", "gemini-3.5-flash">>, "gemini", 150, 900, 120, 87, 1000, TRUE, TRUE),
  Model(<<"", "gemini-3-flash">>, "gemini", 100, 600, 105, 85, 1000, TRUE, TRUE),
  Model(<<"", "gemini-3.1-flash-lite">>, "gemini", 20, 80, 70, 68, 1000, TRUE, TRUE),
  Model(<<"", "gemini-2.5-pro">>, "gemini", 250, 2000, 200, 89, 1000, TRUE, TRUE),
  Model(<<"", "gemini-2.5-flash-lite">>, "gemini", 20, 80, 65, 66, 1000, TRUE, TRUE),
  Model(<<"", "grok-4.5">>, "xai", 400, 1200, 190, 93, 2000, TRUE, TRUE),
  Model(<<"", "grok-4.3">>, "xai", 250, 500, 160, 88, 1000, TRUE, TRUE),
  Model(<<"", "grok-4.20">>, "xai", 250, 500, 165, 88, 2000, TRUE, TRUE),
  Model(<<"", "grok-4.1-fast">>, "xai", 40, 100, 90, 75, 2000, FALSE, TRUE),
  Model(<<"", "grok-code-fast-1">>, "xai", 40, 300, 100, 78, 256, FALSE, TRUE),
  Model(<<"", "deepseek-v4-flash">>, "deepseek", 28, 56, 140, 85, 1000, FALSE, TRUE),
  Model(<<"", "deepseek-v4-pro">>, "deepseek", 87, 174, 185, 91, 1000, FALSE, TRUE),
  Model(<<"", "deepseek-v3.2">>, "deepseek", 24, 48, 150, 80, 128, FALSE, TRUE),
  Model(<<"", "mistral-large-3">>, "mistral", 100, 300, 165, 86, 128, TRUE, TRUE),
  Model(<<"", "mistral-small-4">>, "mistral", 20, 60, 100, 72, 128, TRUE, TRUE),
  Model(<<"", "codestral-2">>, "mistral", 60, 180, 110, 79, 256, FALSE, TRUE),
  Model(<<"", "ministral-8b">>, "mistral", 20, 20, 60, 58, 128, FALSE, TRUE),
  Model(<<"", "qwen3-max">>, "qwen", 156, 780, 200, 90, 262, TRUE, TRUE),
  Model(<<"", "qwen3-235b-a22b">>, "qwen", 140, 560, 190, 87, 262, FALSE, TRUE),
  Model(<<"", "qwen-turbo">>, "qwen", 10, 40, 80, 62, 1000, FALSE, TRUE),
  Model(<<"", "kimi-k3">>, "moonshot", 600, 3000, 230, 97, 1048, TRUE, TRUE),
  Model(<<"", "kimi-k2.6">>, "moonshot", 190, 800, 175, 89, 256, TRUE, TRUE),
  Model(<<"", "kimi-k2.5">>, "moonshot", 120, 500, 170, 84, 262, TRUE, TRUE),
  Model(<<"", "glm-5">>, "zhipu", 114, 516, 180, 86, 200, FALSE, TRUE),
  Model(<<"", "llama-4-maverick">>, "meta", 40, 120, 150, 83, 1000, TRUE, TRUE),
  Model(<<"", "llama-4-scout">>, "meta", 16, 60, 120, 75, 10000, TRUE, TRUE),
  Model(<<"", "llama-3.3-70b">>, "meta", 24, 80, 130, 70, 128, FALSE, TRUE),
  Model(<<"openrouter", "auto">>, "openrouter", 200, 600, 200, 85, 128, FALSE, TRUE)
  >>

(* No id is listed twice, and no model is free. *)
ASSUME CuratedAssumption ==
  /\ Curated \in Seq(ModelConfigs)
  /\ \A i, j \in 1..Len(Curated) : Curated[i].api_id = Curated[j].api_id => i = j
  /\ \A i \in 1..Len(Curated) : Curated[i].cost_in > 0

(* Of 100: cost, latency, quality, context headroom. *)
Weights ==
  [cost     |-> [cost |-> 60, latency |-> 15, quality |-> 20, context |-> 5],
   balanced |-> [cost |-> 35, latency |-> 25, quality |-> 30, context |-> 10],
   quality  |-> [cost |-> 10, latency |-> 15, quality |-> 65, context |-> 10],
   speed    |-> [cost |-> 10, latency |-> 70, quality |-> 15, context |-> 5]]

(* What MeetingTask's parser accepts, other than spellings, and
   select_for_task's table. *)
TaskRoutes ==
  [summarise            |-> [priority |-> "balanced", preferred |-> <<"", "claude-sonnet-5">>],
   answer_question      |-> [priority |-> "speed",    preferred |-> <<"", "gemini-3-flash">>],
   extract_action_items |-> [priority |-> "cost",     preferred |-> <<"", "deepseek-v4-flash">>],
   draft_response       |-> [priority |-> "quality",  preferred |-> <<"", "claude-opus-5">>],
   classify             |-> [priority |-> "cost",     preferred |-> <<"", "gemini-3.1-flash-lite">>]]
=============================================================================
