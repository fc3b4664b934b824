------------------------------ MODULE Dispatch ------------------------------
(***************************************************************************)
(* What is decided for one request, from its headers to its charge: who    *)
(* sent it, which model answers it, with whose key, at which price and for *)
(* which tokens (auth.rs, route_engine.rs, vision.rs, streaming.rs and the *)
(* handlers of main.rs that call them).  Requests share only the registry, *)
(* which the start extends once, so one request at a time is enough; how   *)
(* many of them race for the guards is the subject of Gateway.             *)
(***************************************************************************)
EXTENDS Auth, RouteEngine, StreamParsing

CONSTANTS
  HeaderSets,     \* the headers a request may come with
  RequestSet,     \* what it may ask: [kind, task, id, image, input, output, stream]
  Catalogs,       \* what OpenRouter's /models may answer
  Scripts,        \* what a provider of each family may stream
  Counts,         \* the output counts a provider may report
  TokenModulus    \* 2^32, in the unit of the counts

ASSUME DispatchAssumption ==
  /\ \A h \in HeaderSets : WellFormed(h) /\ DOMAIN h.main = Providers
  /\ \A f \in {"anthropic", "gemini", "openai"} : Scripts[f] \subseteq Seq(StreamLines)
  /\ \A q \in RequestSet : /\ q.kind \in {"auto", "task", "id"} /\ q.image \in BOOLEAN
                            /\ q.input \in Nat /\ q.output \in Nat
  /\ Catalogs \subseteq Seq(CatalogEntries)
  /\ TokenModulus \in Nat \ {0}
  /\ Counts \subseteq 0..(TokenModulus - 1)

VARIABLES
  stage,      \* boot, ready, bridge, check, resolve, route, call, stream, done
  sent,       \* the headers as the client sent them
  headers,    \* the headers as the layers left them
  request,
  target,     \* the model resolve_model chose, in a singleton
  reserved,   \* the price the reservation was made at
  route,      \* where the call goes: [provider, id, key, fallback]
  charge,     \* what was reconciled: [price, input, output, total, cents]
  outcome

dispatchVars == <<extra, streamVars, stage, sent, headers, request, target, reserved, route, charge, outcome>>

NoHeaders == [apiKey |-> NoValue, claimed |-> NoValue,
              bearer |-> [form |-> "none", key |-> NoValue, provider |-> "", byok |-> NoValue],
              main  |-> [p \in Providers |-> NoValue],
              alias |-> [p \in Aliased |-> NoValue]]
NoRequest == [kind |-> "none", task |-> "", id |-> <<"", "">>, image |-> FALSE,
              input |-> 0, output |-> 0, stream |-> FALSE]
NoPrice   == [input |-> Missing, output |-> Missing]
NoRoute   == [provider |-> "", id |-> <<"", "">>, key |-> NoValue, fallback |-> FALSE]
NoCharge  == [price |-> NoPrice, input |-> 0, output |-> 0, total |-> 0, cents |-> 0]

Cleared ==
  /\ sent' = NoHeaders /\ headers' = NoHeaders /\ request' = NoRequest
  /\ target' = {} /\ reserved' = NoPrice /\ route' = NoRoute
  /\ charge' = NoCharge /\ outcome' = "" /\ StreamOpens(<<>>, "openai")

DispatchInit ==
  /\ extra = <<>> /\ stage = "boot"
  /\ sent = NoHeaders /\ headers = NoHeaders /\ request = NoRequest
  /\ target = {} /\ reserved = NoPrice /\ route = NoRoute
  /\ charge = NoCharge /\ outcome = "" /\ StreamIdle

Goes(to) == stage' = to

Ends(with) == stage' = "done" /\ outcome' = with

---------------------------------------------------------------------------
(* main: the catalog is fetched once; without it the curated table serves. *)

FetchCatalog ==
  /\ stage = "boot" /\ Goes("ready")
  /\ \E catalog \in Catalogs : ExtendRegistry(catalog)
  /\ UNCHANGED <<streamVars, sent, headers, request, target, reserved, route, charge, outcome>>

FetchFails ==
  /\ stage = "boot" /\ Goes("ready")
  /\ UNCHANGED <<extra, streamVars, sent, headers, request, target, reserved, route, charge, outcome>>

Arrive(h, q) ==
  /\ stage = "ready" /\ Goes("bridge")
  /\ sent' = h /\ headers' = h /\ request' = q
  /\ UNCHANGED <<extra, streamVars, target, reserved, route, charge, outcome>>

(* The bridge is the outermost layer, the key check the next. *)
Bridge ==
  /\ stage = "bridge"
  /\ IF ~NeedsBridge(headers) THEN Goes("check") /\ UNCHANGED <<headers, outcome>>
     ELSE IF MalformedToken(headers) THEN Ends("unauthorized") /\ UNCHANGED headers
     ELSE Goes("check") /\ headers' = Bridged(headers) /\ UNCHANGED outcome
  /\ UNCHANGED <<extra, streamVars, sent, request, target, reserved, route, charge>>

CheckKey ==
  /\ stage = "check"
  /\ IF Accepted(headers)
     THEN Goes("resolve") /\ headers' = Identified(headers) /\ UNCHANGED outcome
     ELSE Ends("unauthorized") /\ UNCHANGED headers
  /\ UNCHANGED <<extra, streamVars, sent, request, target, reserved, route, charge>>

---------------------------------------------------------------------------
(* resolve_model *)

Keys == KeysFrom(headers)

(* Mutant: routing as it was before it knew which keys a client has. *)
ReachableAll == Providers

Keyed == {p \in Providers : Present(Keys[p])}

(* reachable_providers: an OpenRouter key reaches them all. *)
Reachable == IF "openrouter" \in Keyed THEN Providers ELSE Keyed

Seeing(choice) == {m \in choice : m.supports_vision}

ChosenForTask(q) ==
  LET choice == SelectForTask(q.task, q.input, Reachable)
  IN  IF q.image /\ Seeing(choice) = {} /\ choice # {}
      THEN SelectVisionModel(q.input, Reachable) ELSE choice

(* A model that is named is neither filtered by enabled, nor by its context,
   nor by what the keys reach. *)
Choice(q) ==
  CASE q.kind = "auto" /\ q.image  -> SelectVisionModel(q.input, Reachable)
    [] q.kind = "auto" /\ ~q.image -> SelectReachable(q.input, q.output, "balanced", Reachable)
    [] q.kind = "task" -> IF q.task \in DOMAIN TaskRoutes THEN ChosenForTask(q) ELSE {}
    [] q.kind = "id"   -> IF q.image THEN Seeing(Find(q.id)) ELSE Find(q.id)

Resolve ==
  /\ stage = "resolve"
  /\ target' = Choice(request)
  /\ IF target' = {} THEN Ends("no model") ELSE Goes("route") /\ UNCHANGED outcome
  /\ UNCHANGED <<extra, streamVars, sent, headers, request, reserved, route, charge>>

---------------------------------------------------------------------------
(* get_pricing, try_reserve (granted here) and resolve_byok_route *)

(* The id OpenRouter knows a model by: verified against the catalog only to
   log a warning. *)
Slug(m) ==
  IF m.provider = "openrouter" \/ m.api_id[1] = OpenrouterPrefix[m.provider] THEN m.api_id
  ELSE IF SlugOverride(m.api_id) # <<>> THEN SlugOverride(m.api_id)
  ELSE <<OpenrouterPrefix[m.provider], m.api_id[2]>>

(* Mutant: the slug is sent to the model's own provider, too. *)
DirectRouteSlugged(m) ==
  [provider |-> m.provider, id |-> Slug(m), key |-> Keys[m.provider], fallback |-> FALSE]

DirectRoute(m) ==
  [provider |-> m.provider, id |-> m.api_id, key |-> Keys[m.provider], fallback |-> FALSE]
OpenrouterRoute(m) ==
  [provider |-> "openrouter", id |-> Slug(m), key |-> Keys["openrouter"], fallback |-> TRUE]

RouteFor(m) == IF m.provider \in Keyed THEN DirectRoute(m) ELSE OpenrouterRoute(m)

Route ==
  /\ stage = "route"
  /\ \E m \in target :
       /\ \E price \in Pricing(m.api_id) : reserved' = price
       /\ IF Present(RouteFor(m).key)
          THEN Goes("call") /\ route' = RouteFor(m) /\ UNCHANGED outcome
          ELSE Ends("no key") /\ UNCHANGED route
  /\ UNCHANGED <<extra, streamVars, sent, headers, request, target, charge>>

---------------------------------------------------------------------------
(* The call and its charge *)

(* Mutant: the total is as wide as it needs to be. *)
CostBreakdownWide(price, input, output) ==
  [price |-> price, input |-> input, output |-> output, total |-> input + output,
   cents |-> input * price.input + output * price.output]

(* TokenCostBreakdown::new: the total wraps, the cost is of the two counts. *)
CostBreakdown(price, input, output) ==
  [price |-> price, input |-> input, output |-> output,
   total |-> (input + output) % TokenModulus,
   cents |-> input * price.input + output * price.output]

(* handle_non_streaming: the input is counted here, the output there. *)
Answer(output) ==
  /\ stage = "call" /\ ~request.stream
  /\ charge' = CostBreakdown(reserved, request.input, output)
  /\ Ends("charged")
  /\ UNCHANGED <<extra, streamVars, sent, headers, request, target, reserved, route>>

CallFails ==
  /\ stage \in {"call", "stream"} /\ ~payload.sent
  /\ Ends("released")
  /\ UNCHANGED <<extra, streamVars, sent, headers, request, target, reserved, route, charge>>

Family(p) == IF p \in {"anthropic", "gemini"} THEN p ELSE "openai"

OpenStream(lines) ==
  /\ stage = "call" /\ request.stream
  /\ StreamOpens(lines, Family(route.provider))
  /\ Goes("stream")
  /\ UNCHANGED <<extra, sent, headers, request, target, reserved, route, charge, outcome>>

ReadStream ==
  /\ stage = "stream"
  /\ \/ \E to \in 1..(2 * Len(script)), tears \in BOOLEAN : Chunk(to, tears)
     \/ LoopEnds
  /\ UNCHANGED <<extra, stage, sent, headers, request, target, reserved, route, charge, outcome>>

(* The audit task looks the price up again, under the id that was sent. *)
DefaultPrice == [input |-> 1000, output |-> 6000]
StreamPrice(id) == IF Pricing(id) = {} THEN {DefaultPrice} ELSE Pricing(id)

SettleStream ==
  /\ stage = "stream" /\ payload.sent
  /\ \E price \in StreamPrice(route.id) :
       charge' = CostBreakdown(price, payload.usage.input, payload.usage.output)
  /\ Ends("charged")
  /\ UNCHANGED <<extra, streamVars, sent, headers, request, target, reserved, route>>

NextRequest ==
  /\ stage = "done" /\ Goes("ready")
  /\ Cleared
  /\ UNCHANGED extra

DispatchNext ==
  \/ FetchCatalog \/ FetchFails
  \/ \E h \in HeaderSets, q \in RequestSet : Arrive(h, q)
  \/ Bridge \/ CheckKey \/ Resolve \/ Route
  \/ \E output \in Counts : Answer(output)
  \/ CallFails
  \/ stage = "call" /\ \E lines \in Scripts[Family(route.provider)] : OpenStream(lines)
  \/ ReadStream \/ SettleStream \/ NextRequest

DispatchSpec == DispatchInit /\ [][DispatchNext]_dispatchVars

---------------------------------------------------------------------------

Stages == {"boot", "ready", "bridge", "check", "resolve", "route", "call", "stream", "done"}
Outcomes == {"", "unauthorized", "no model", "no key", "released", "charged"}

DispatchTypeOK ==
  /\ stage \in Stages /\ outcome \in Outcomes
  /\ sent \in HeaderSets \cup {NoHeaders}
  /\ request \in RequestSet \cup {NoRequest}
  /\ target \subseteq ToSet(Models) /\ Cardinality(target) <= 1
  /\ place \in 0..(2 * Len(script))
  /\ charge.total \in 0..(TokenModulus - 1)

Admitted == stage \in {"resolve", "route", "call", "stream"} \/ outcome \in Outcomes \ {"", "unauthorized"}

(* Where the key of the request is: in X-API-Key or, only if there is no such
   header, in the composite token. *)
UsesToken == sent.apiKey = NoValue
KeySent == IF UsesToken THEN sent.bearer.key ELSE sent.apiKey

(* The client a request counts for - its limits, its cache, its spend - is the
   hash of a key the operator configured and the client presented, whichever of
   the two ways it came and whatever client id the client claimed. *)
IdentityIsKeys ==
  Admitted => headers.claimed = Hash(KeySent) /\ Hash(KeySent) \in KnownHashes

(* A provider is only ever called with a key that came in a header of that
   provider, or in a composite token that names it: the composite token before
   the header, and no client's OpenRouter key as another provider's. *)
OwnKeyOnly ==
  route # NoRoute =>
    LET p == route.provider
    IN  /\ Present(route.key)
        /\ IF UsesToken /\ sent.bearer.provider = p /\ Present(sent.bearer.byok)
           THEN route.key = sent.bearer.byok
           ELSE route.key \in {sent.main[p]} \cup {sent.alias[q] : q \in Aliased \cap {p}}

Routed == request.kind = "auto" \/ (request.kind = "task" /\ request.task \in DOMAIN TaskRoutes)

Suits(m) == Eligible(m, request.input, Reachable) /\ (request.image => m.supports_vision)

(* A client who lets the gateway choose is turned away only when no enabled
   model that its keys reach fits the request: never for a key that is missing
   after the choice, and never because the best-scored model has no eyes. *)
AutoNeverStrands ==
  Routed =>
    /\ outcome # "no key"
    /\ outcome = "no model" => \A m \in ToSet(Models) : ~Suits(m)

Dominates(m, n) ==
  /\ m.cost_in <= n.cost_in /\ m.cost_out <= n.cost_out
  /\ m.latency <= n.latency /\ m.context >= n.context
  /\ m.quality > n.quality

(* The model the gateway chooses suits the request, and by its balanced score it
   is never one that another suitable model beats in quality without being
   dearer, slower or smaller. *)
AutoChoosesWell ==
  Routed => \A n \in target :
    /\ Suits(n)
    /\ request.kind = "auto" /\ ~request.image =>
         \A m \in ToSet(Models) : Suits(m) => ~Dominates(m, n)

(* The catalog never changes what a known id means, and no id is listed twice,
   whatever ids the catalog repeats. *)
CuratedWins ==
  [][/\ \A id \in Ids(Models) : Find(id)' = Find(id)
     /\ Cardinality(Ids(Models)') = Len(Models')]_extra

Free == [input |-> 0, output |-> 0]

(* What try_reserve put aside for the request. *)
Estimate == CostBreakdown(reserved, request.input, request.output).cents

(* The reservation is worth something: a request that uses no more tokens than
   were estimated for it is charged no more than was reserved, although the audit
   task of a stream finds its price anew, by the id that was sent.  And only an
   entry that the catalog lists without a price, under the very id that was sent,
   makes a call free.
   A stream that goes through OpenRouter instead of its model's own provider is
   exempt from the first: it is settled at what the catalog asks for the
   translated id, or at a fixed price if it lists none.  That may be more than was
   reserved, or less: a curated model whose translated id has no price in the
   catalog is streamed for nothing. *)
ChargedAsReserved ==
  outcome = "charged" =>
    /\ ~(request.stream /\ route.fallback) =>
         /\ \E m \in target : charge.price = Price(m)
         /\ charge.input <= request.input /\ charge.output <= request.output =>
              charge.cents <= Estimate
    /\ charge.price = Free =>
         \E m \in ToSet(extra) : m.api_id = route.id /\ Price(m) = Free
=============================================================================
