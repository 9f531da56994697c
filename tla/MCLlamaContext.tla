--------------------------- MODULE MCLlamaContext ---------------------------
(* Constants for model checking LlamaContext.                              *)
EXTENDS LlamaContext, TLC

\* Tokens and their bytes.
MCPiece ==
    "a" :> <<"a">> @@ "b" :> <<"b">> @@ "c" :> <<"c">> @@ "ca" :> <<"c", "a">>
    @@ "lead" :> <<"L">> @@ "rest" :> <<"C">> @@ "wide" :> <<"a", "W">>
    @@ "image" :> <<>>
    @@ "open" :> <<"<", ">", "{">> @@ "quoted" :> <<"q", "/", ">", "q">>
    @@ "close" :> <<"}", "/">> @@ "end" :> <<">", "a">>

Ask(prompt, max, vocab) ==
    [prompt |-> prompt, max |-> max, vocab |-> vocab, stops |-> {},
     media |-> FALSE, tools |-> FALSE, prefilled |-> FALSE]

\* Prompts that share nothing, a part or everything with what is in the memory, with media
\* and without; one that does not fit; texts with stop strings and tool turns.
MCRequests ==
    {Ask(p, 3, {"a", "b"}) : p \in {<<"a">>, <<"a", "b">>, <<"a", "b", "a", "b">>, <<"b", "a", "a">>}}
    \cup {[Ask(p, 2, {"a"}) EXCEPT !.media = TRUE] : p \in {<<"image", "a">>, <<"a", "image", "b">>}}
    \cup {Ask(<<"a", "a", "a", "a", "a", "a">>, 3, {"a"})}
    \cup {[Ask(<<"b">>, 4, {"a", "b", "ca", "lead", "rest", "wide"}) EXCEPT !.stops = S] :
             S \in {{<<"a", "b">>, <<"b", "c">>}, {<<"LC", "a">>, <<"a", "a", "b">>},
                    {<<"a", "b", "c">>, <<"b">>}}}
    \cup {[Ask(<<"b">>, 5, {"open", "quoted", "close", "end"})
              EXCEPT !.tools = TRUE, !.prefilled = f, !.stops = S] :
             f \in BOOLEAN, S \in {{}, {<<"q", "/">>}}}
=============================================================================
