-------------------------- MODULE MCProviderExchange --------------------------
\* The shapes of answers: empty, text, calls, thinking before both, text on
\* both sides of a call, two calls at once, arguments that are not JSON.
EXTENDS ProviderExchange

MCShapes == {<<>>, <<"text">>, <<"thinking", "text", "use">>,
             <<"text", "use", "text">>, <<"use", "use">>, <<"text", "broken">>}
=============================================================================
