----------------------------- MODULE MCToolSession -----------------------------
(* Instance of ToolSession for TLC. *)
EXTENDS ToolSession

MCUserMessages == {<<"long">>, <<"blank">>, <<"media", "short">>}

MCResultTexts == {<<"long">>, <<>>}

\* Without a window the truncation spares the last turn only.
MCSettings == {[truncate |-> TRUE, retain |-> 0], [truncate |-> TRUE, retain |-> 2]}

\* Silence, blanks, a text, one call after a text and two calls at once.
MCAnswers ==
    {<< <<>>, <<>> >>, << <<"blank">>, <<>> >>, << <<"short">>, <<>> >>,
     << <<"short">>, <<"read">> >>, << <<>>, <<"read", "write">> >>}

MCPublishers == {"anthropic", "google", "openai", "cohere"}
================================================================================
