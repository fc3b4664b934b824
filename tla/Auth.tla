-------------------------------- MODULE Auth --------------------------------
(***************************************************************************)
(* Who a request is from and which provider keys it brought (auth.rs): the *)
(* key store, the two middlewares of the chat route and the BYOK headers.  *)
(* Headers are a record: apiKey (X-API-Key), bearer, claimed (the client   *)
(* id header as the client sent it), and for each provider the values of   *)
(* its header and of its alias.                                            *)
(***************************************************************************)
EXTENDS Integers, Sequences

CONSTANT KeyEntries   \* the entries of ROUTERFUEL_API_KEYS: [form, hash, name]

NoValue == <<"none">>     \* no such header
Blank   == <<"blank">>    \* only spaces
Bytes   == <<"bytes">>    \* not UTF-8

(* extract_header_string *)
Present(value) == value \notin {NoValue, Blank, Bytes}

(* sha256_hex: no two keys have the same hash. *)
Hash(key) == <<"sha256", key>>

(* from_env_string: an entry without a colon or with a hash of another length
   is skipped. *)
KnownHashes == {e.hash : e \in {f \in KeyEntries : f.form = "ok"}}

(* validate, which hashes the header as it is, untrimmed *)
Valid(key) == Hash(key) \in KnownHashes

---------------------------------------------------------------------------
(* ClientProviderKeys *)

Aliased == {"xai", "qwen", "moonshot", "zhipu", "meta"}

WellFormed(headers) ==
  /\ headers = [apiKey |-> headers.apiKey, claimed |-> headers.claimed, bearer |-> headers.bearer,
                main |-> headers.main, alias |-> headers.alias]
  /\ headers.main = [p \in DOMAIN headers.main |-> headers.main[p]]

(* Mutant: the OpenRouter key stands in for every other one. *)
KeyForUniversal(headers, p) ==
  IF Present(headers.main[p]) THEN headers.main[p] ELSE headers.main["openrouter"]

(* from_headers: the provider's own header, or the alias it has. *)
KeyFor(headers, p) ==
  IF Present(headers.main[p]) THEN headers.main[p]
  ELSE IF p \in Aliased /\ Present(headers.alias[p]) THEN headers.alias[p]
  ELSE NoValue

KeysFrom(headers) == [p \in DOMAIN headers.main |-> KeyFor(headers, p)]

---------------------------------------------------------------------------
(* cursor_bridge_middleware.  The bearer header is [form, key, provider,
   byok]: no bearer token, a composite one, or one that is not composite.
   A request that has an X-API-Key, of whatever value, is left alone. *)

NeedsBridge(headers) == headers.apiKey = NoValue /\ headers.bearer.form # "none"

MalformedToken(headers) ==
  headers.bearer.form = "plain" \/ headers.bearer.provider \notin DOMAIN headers.main

Bridged(headers) ==
  LET token == headers.bearer
  IN  [headers EXCEPT !.apiKey = token.key, !.main[token.provider] = token.byok]

---------------------------------------------------------------------------
(* api_key_middleware *)

Accepted(headers) == headers.apiKey \notin {NoValue, Bytes} /\ Valid(headers.apiKey)

(* Mutant: a client id that is there already is kept. *)
IdentifiedUnlessClaimed(headers) ==
  IF headers.claimed = NoValue THEN [headers EXCEPT !.claimed = Hash(headers.apiKey)] ELSE headers

(* The client id is the hash of the key, whatever the client sent under that
   name. *)
Identified(headers) == [headers EXCEPT !.claimed = Hash(headers.apiKey)]
=============================================================================
