--------------------------- MODULE MCChatPipeline ---------------------------
(* A small instance of ChatPipeline: a request for every strategy, with and without
   streaming where that matters, and plain ones that differ in one field each. *)
EXTENDS ChatPipeline

CONSTANTS hello, yes, no

MCAsks == {hello}
MCTexts == {yes, no}
MCValid == {yes}
Plain == [ask |-> hello, opts |-> {}, stream |-> FALSE, tools |-> FALSE, signedIn |-> TRUE]
With(opts) == [Plain EXCEPT !.opts = opts]
MCShapes ==
    {Plain,
     [Plain EXCEPT !.signedIn = FALSE],
     [Plain EXCEPT !.tools = TRUE],
     With({"backend"}),
     [With({"constrained"}) EXCEPT !.stream = TRUE],
     With({"agent"}),
     [With({"agent"}) EXCEPT !.stream = TRUE],
     With({"cascade"}),
     With({"best"}),
     With({"best", "verifier"}),
     With({"moa"}),
     With({"masked", "constrained"})}
=============================================================================
