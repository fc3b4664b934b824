----------------------------- MODULE MCDispatch -----------------------------
(***************************************************************************)
(* Dispatch for TLC, on the curated table of the code.  Keys are tagged    *)
(* with the provider they are for, so that a key in the wrong place shows. *)
(***************************************************************************)
EXTENDS Dispatch

Key(p)    == <<"key", p>>
Other(p)  == <<"second key", p>>

MCKeyEntries ==
  {[form |-> "ok", hash |-> Hash(<<"acme">>), name |-> "Acme"],
   [form |-> "short", hash |-> Hash(<<"old">>), name |-> "Old"]}

With(apiKey, claimed, bearer, main, alias) ==
  [apiKey |-> apiKey, claimed |-> claimed, bearer |-> bearer,
   main  |-> [p \in Providers |-> IF p \in DOMAIN main THEN main[p] ELSE NoValue],
   alias |-> [p \in Aliased |-> IF p \in DOMAIN alias THEN alias[p] ELSE NoValue]]

NoToken == NoHeaders.bearer
Token(key, p, byok) == [form |-> "composite", key |-> key, provider |-> p, byok |-> byok]
Plain == [NoToken EXCEPT !.form = "plain"]
Empty == [p \in {} |-> NoValue]
Only(S) == [p \in S |-> Key(p)]
Blanks(S) == [p \in S |-> Blank]
Seconds(S) == [p \in S |-> Other(p)]

Native(main, alias) == With(<<"acme">>, Hash(<<"victim">>), NoToken, main, alias)

MCHeaderSets ==
  {Native(Only({p}), Empty) : p \in Providers}
  \cup {Native(Only({p}), Seconds({p})) : p \in {"xai", "moonshot"}}
  \cup {Native(Blanks({p}), Seconds({p})) : p \in Aliased}
  \cup {Native(Empty, Empty),
        Native(Only({"deepseek", "zhipu"}), Empty),
        Native(Only({"deepseek", "mistral"}), Empty),
        Native(Only({"anthropic", "openrouter"}), Empty),
        Native(Only({"anthropic"}), Seconds({"zhipu"})),
        With(<<"old">>, NoValue, NoToken, Only({"openai"}), Empty),
        With(Blank, NoValue, Token(<<"acme">>, "openai", Key("openai")), Empty, Empty),
        With(Bytes, NoValue, NoToken, Empty, Empty),
        With(NoValue, Hash(<<"victim">>), NoToken, Only({"openai"}), Empty),
        With(NoValue, NoValue, Plain, Only({"openai"}), Empty),
        With(NoValue, NoValue, Token(<<"acme">>, "cohere", Key("cohere")), Empty, Empty),
        With(NoValue, Hash(<<"victim">>), Token(<<"acme">>, "moonshot", Other("moonshot")), Only({"moonshot"}), Empty),
        With(NoValue, NoValue, Token(<<"acme">>, "zhipu", Blank), Only({"zhipu"}), Seconds({"zhipu"})),
        With(<<"acme">>, NoValue, Token(<<"old">>, "openai", Other("openai")), Only({"openai"}), Empty)}

Ask(kind, task, id, image, input, output, stream) ==
  [kind |-> kind, task |-> task, id |-> id, image |-> image,
   input |-> input, output |-> output, stream |-> stream]

MCRequestSet ==
  {Ask("auto", "", <<"", "">>, image, input, output, FALSE) :
     image \in BOOLEAN, input \in {1, 150, 1500, 9000, 20000}, output \in {1, 60}}
  \cup {Ask("task", task, <<"", "">>, image, input, 1, FALSE) :
     task \in DOMAIN TaskRoutes \cup {"translate"}, image \in BOOLEAN, input \in {1, 1000}}
  \cup {Ask("id", "", id, image, size, 3 * size, stream) :
     image \in BOOLEAN, stream \in BOOLEAN, size \in {1, 20},
     id \in {<<"", "claude-sonnet-5">>, <<"", "gemini-3-flash">>, <<"", "gpt-oss-20b">>,
             <<"lab", "unpriced">>, <<"openrouter", "auto">>, <<"", "unknown">>}}

Entry(id, prompt, completion, context, image) ==
  [id |-> id, prompt |-> prompt, completion |-> completion, context |-> context, image |-> image]

MCCatalogs ==
  {<<>>,
   <<Entry(<<"anthropic", "claude-sonnet-5">>, 800, 4000, 1000, TRUE),
     Entry(<<"openrouter", "auto">>, Missing, Missing, 2000, TRUE),
     Entry(<<"lab", "unpriced">>, Missing, Missing, 10000, TRUE),
     Entry(<<"lab", "unpriced">>, 50, 90, Missing, FALSE),
     Entry(<<"openai", "gpt-oss-20b">>, Missing, Missing, 128, FALSE)>>}

Text          == [kind |-> "text", input |-> Missing, output |-> Missing]
Usage(in, out) == [kind |-> "usage", input |-> in, output |-> out]
StopLine      == [kind |-> "stop", input |-> Missing, output |-> Missing]

MCScripts ==
  [anthropic |-> {<<Usage(2, Missing), Text, Usage(Missing, 5), StopLine>>},
   gemini    |-> {<<Usage(2, 1), Usage(2, 5)>>},
   openai    |-> {<<Text, Usage(2, 5), StopLine, Usage(3, 15)>>, <<Text, StopLine>>}]

MCCounts == {0, 5, 15}
=============================================================================
