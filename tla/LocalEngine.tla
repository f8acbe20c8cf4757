----------------------------- MODULE LocalEngine -----------------------------
(* LocalEngineAdapter (models/local_engine.py): chat collects every token    *)
(* the loop yields, trims the stop tokens at the end and turns the rest into *)
(* text; stream breaks at the first stop token and sends, token by token,   *)
(* what the text has grown by.  Only one of the stop tokens is passed to the *)
(* loop as its end token.                                                    *)
EXTENDS DecodeLoop, FiniteSetsExt, SequencesExt

CONSTANT TextOf(_)    \* decode_text: the characters a sequence of tokens stands for

VARIABLES shown,      \* the text the client has been given
          answered    \* whether that was all

vars == <<loopVars, shown, answered>>

\* the one of a model's stop tokens that the loop is given
EosOf(stops) == IF stops = {} THEN {NoToken} ELSE stops

\* a call has a kind ("chat" or "stream") and the model's stop tokens
InitIn(calls) ==
    /\ LoopInit(calls)
    /\ call.eos \in EosOf(call.stops)
    /\ shown = <<>>
    /\ answered = FALSE

Delta(token) ==
    LET before == TextOf(out)
        text == TextOf(Append(out, token))
    IN  SubSeq(text, Len(before) + 1, Len(text))

\* Mutated form of Trimmed: what the loop stopped at is taken for output.
TrimmedOfOthers(tokens) ==
    SubSeq(tokens, 1, Max({0} \cup {i \in DOMAIN tokens : tokens[i] \notin call.stops \ {call.eos}}))

Trimmed(tokens) ==
    SubSeq(tokens, 1, Max({0} \cup {i \in DOMAIN tokens : tokens[i] \notin call.stops}))

ChatYields ==
    /\ call.kind = "chat"
    /\ \E token \in Token : Yield(token)
    /\ UNCHANGED <<shown, answered>>

ChatAnswers ==
    /\ call.kind = "chat" /\ done /\ ~answered
    /\ shown' = TextOf(Trimmed(out))
    /\ answered' = TRUE
    /\ UNCHANGED loopVars

StreamYields(token) ==
    /\ call.kind = "stream" /\ ~answered
    /\ token \notin call.stops
    /\ Yield(token)
    /\ shown' = shown \o Delta(token)
    /\ UNCHANGED answered

\* the consumer breaks off, whatever the loop would do next
StreamStops(token) ==
    /\ call.kind = "stream" /\ ~answered
    /\ token \in call.stops
    /\ Yield(token)
    /\ answered' = TRUE
    /\ UNCHANGED shown

StreamEnds ==
    /\ call.kind = "stream" /\ done /\ ~answered
    /\ answered' = TRUE
    /\ UNCHANGED <<loopVars, shown>>

LoopReturns == ~answered /\ Return /\ UNCHANGED <<shown, answered>>

Next ==
    \/ ChatYields \/ ChatAnswers
    \/ \E token \in Token : StreamYields(token) \/ StreamStops(token)
    \/ StreamEnds \/ LoopReturns

-----------------------------------------------------------------------------
\* every character is whole in the text of each prefix of the output
WholeCharacters ==
    \A i, j \in DOMAIN out : i <= j => IsPrefix(TextOf(SubSeq(out, 1, i)), TextOf(SubSeq(out, 1, j)))

\* A client that streams is shown the text a client that waits is given for
\* the same tokens, when no token ends inside a character.
StreamShowsTheAnswer ==
    answered /\ call.kind = "stream" /\ WholeCharacters => shown = TextOf(Trimmed(out))

=============================================================================
