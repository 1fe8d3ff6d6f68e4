---------------------------- MODULE MCStreamDelivery ----------------------------
(* Instance of StreamDelivery for TLC. *)
EXTENDS StreamDelivery

MCRoutes ==
    {<<"google", "chat">>, <<"anthropic", "chat">>, <<"openai", "chat">>,
     <<"openai", "ollama">>, <<"cohere", "ollama">>, <<"google", "generate">>}

\* Markup for Gemini, cut inside entities and tags; two letters for the others.
MCFragments ==
    [google |-> {<<"&", "lt">>, <<";", "thinking">>, <<">", "&", "amp", ";">>},
     anthropic |-> {<<"a">>, <<"b">>},
     openai |-> {<<"a">>, <<"b", "a">>},
     cohere |-> {<<"a">>, <<"b">>}]

\* The detector's six symbols are Cohere's, parallel calls are Anthropic's and
\* OpenAI's.
MCMaxWritten == [google |-> 8, anthropic |-> 1, openai |-> 2, cohere |-> 6]
MCMaxCalls == [google |-> 1, anthropic |-> 2, openai |-> 2, cohere |-> 0]

MCCallNames == {"read_file", RetrieveName}
================================================================================
