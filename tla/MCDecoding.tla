----------------------------- MODULE MCDecoding -----------------------------
(* Engines with every draft and target over two tokens, and with calls that *)
(* are plain or masked by the automaton of what they ask for (RegexFsa).     *)
EXTENDS Engines, RegexMeaning

-----------------------------------------------------------------------------
(* The vocabulary: characters, a longer token, an end token without a text   *)
(* (5) and one with the text "b" (6), tokens of JSON texts, the two halves  *)
(* of a character (17 and 18), which decode to "?" one by one, and texts     *)
(* that JSON has not everywhere: a zero, a newline and Python's true.        *)

MCToken == 1 .. 21
JsonTokens == {1, 3} \cup 7 .. 16 \cup 19 .. 21

VocabText == << <<"a">>, <<"b">>, <<"1">>, <<"a", "b">>, <<>>, <<"b">>,
                <<"{">>, <<"\"", "a", "\"", ":", " ">>, <<"}">>, <<"-">>, <<",", " ">>,
                <<"\"">>, <<"[">>, <<"]">>, <<"t", "r", "u", "e">>, <<".">>, <<"?">>, <<"?">>,
                <<"0">>, <<"\n">>, <<"T", "r", "u", "e">> >>

MCTextOf(tokens) ==
    LET Half(i, t) == i \in DOMAIN tokens /\ tokens[i] = t
        Piece(i) == CASE Half(i, 17) /\ Half(i + 1, 18) -> <<"e'">>
                      [] Half(i, 18) /\ Half(i - 1, 17) -> <<>>
                      [] OTHER -> VocabText[tokens[i]]
    IN  FlattenSeq([i \in DOMAIN tokens |-> Piece(i)])

MCAlphabet == << "\n", " ", "\"", ",", "-", ".", "0", "1", ":", "T", "[", "]",
                 "a", "b", "e", "f", "l", "n", "r", "s", "t", "u", "{", "}" >>
MCDigits == [c \in {"1"} |-> 1] @@ [c \in {"0"} |-> 0] @@ [c \in {"2"} |-> 2]
MCLetters == {"T", "a", "b", "e", "f", "l", "n", "r", "s", "t", "u"}
MCSpaces == {" ", "\n"}

VocabOf(tokens) == [t \in tokens |-> VocabText[t]]

\* what the models of this instance depend on: the last two tokens, of two
MCContext == {<<1>>} \cup {1, 2} \X {1, 2}
MCContextOf(tokens) == LET last == SubSeq(tokens, Max({1, Len(tokens) - 1}), Len(tokens))
                       IN  IF last \in MCContext THEN last ELSE <<1>>

-----------------------------------------------------------------------------
(* Speculation: every draft and every target over two tokens.               *)

Models == [MCContext -> {1, 2}]

MCJobs == [prompt : {<<1>>}, max : {0, 3, 4}, k : {1, 2, 3}, eos : {2, NoToken},
         draft : Models, target : Models]
MCIdleJob == CHOOSE j \in MCJobs : j.max = 0

-----------------------------------------------------------------------------
(* Calls of the local engine without a mask: any token may come next.       *)

Call(kind, max, eos, stops, grammar, asked) ==
    [kind |-> kind, prompt |-> <<1>>, max |-> max, eos |-> eos, stops |-> stops, grammar |-> grammar,
     asked |-> asked, prefers |-> [c \in MCContext |-> {1, 2, 5, 6, 17, 18}]]

Anything == [form |-> "none"]

PlainCalls == {Call(kind, 3, e, {e} \cup s, NoGrammar, Anything) :
                  kind \in {"chat", "stream"}, e \in {5, 6}, s \in {{}, {5}}}
              \cup {Call("stream", 2, NoToken, {}, NoGrammar, Anything)}
MCIdleCall == Call("chat", 0, NoToken, {}, NoGrammar, Anything)

(* Masked calls: regexes made from characters and classes by every operator, *)
(* one or two deep; schemas of every type; lists of choices.                 *)

LitA == Atomic(<<"a">>, {"a"})
LitB == Atomic(<<"b">>, {"b"})
Atoms == {LitA, LitB, Atomic(<<".">>, Char \ {"\n"}), Atomic(<<"\\", "d">>, DOMAIN Digits),
          Atomic(<<"\\", "W">>, Char \ WordChars), Atomic(<<"[", "^", "a", "]">>, Char \ {"a"}),
          Atomic(<<"[", "1", "-", "a", "]">>, {"1", ":", "T", "[", "]", "a"}), Atomic(<<"\\", ".">>, {"."})}
Repeats(e) == {Again(mark, e) : mark \in {"*", "+", "?"}} \cup {Times(2, "2", e), Times(0, "0", e)}
Short == {LitA, LitB} \cup Repeats(LitA)
Pairs == {Then(l, r) : l, r \in Short} \cup {Or(l, r) : l, r \in Short}
Nested == UNION {Repeats(Or(LitA, Then(LitA, LitB))), Repeats(Then(Again("?", LitA), LitB)),
                 Repeats(Again("+", LitB))}
Regexes == Atoms \cup UNION {Repeats(e) : e \in Atoms} \cup Pairs \cup Nested
           \cup {Then(LitA, Or(l, Then(l, r))) : l \in Short, r \in Repeats(LitB)}

RegexCalls == {Call("chat", 3, 5, {5}, Compiled(asked, VocabOf({1, 2, 3, 4, 5}), 5), asked) :
                 asked \in {[form |-> "regex", regex |-> r] : r \in Regexes}}

Typed(type) == [type |-> type]
KeyA == <<"a">>
Object(prop, required) == [type |-> "object", properties |-> [k \in {KeyA} |-> prop],
                           declared |-> <<KeyA>>, required |-> required]
ArrayOf(prop) == [type |-> "array", items |-> prop]
Properties == {Typed("string"), Typed("integer"), Typed("number"), Typed("boolean"), Typed("null"),
               [enum |-> <<[string |-> TRUE, text |-> <<"a">>, json |-> <<"a">>],
                           [string |-> FALSE, text |-> <<"1", ".", "1">>, json |-> <<"1", ".", "1">>]>>],
               [enum |-> <<[string |-> FALSE, text |-> <<"T", "r", "u", "e">>,
                            json |-> <<"t", "r", "u", "e">>]>>],
               ArrayOf(Typed("integer")), ArrayOf(ArrayOf(Typed("integer"))), Object(Typed("integer"), <<>>),
               Object(Object(Object(Typed("integer"), <<>>), <<>>), <<>>)}
Schemas == {Object(p, <<KeyA>>) : p \in Properties}
           \cup {[type |-> "object", properties |-> <<>>, declared |-> <<>>, required |-> <<>>]}

SchemaCalls == {Call("chat", 6, 5, {5},
                     Compiled([form |-> "schema", schema |-> s], VocabOf({5} \cup JsonTokens), 5),
                     [form |-> "schema", schema |-> s]) : s \in Schemas}

\* lists of choices, all or not all of which the vocabulary can spell, and an
\* end token that is also a character
ChoiceLists == {{<<"a">>, <<"a", "b">>}, {<<"a", "a", "b">>, <<"b">>}, {<<>>, <<"a">>},
                {<<"a", "b", "e">>, <<"1">>}}
ChoiceCalls == {Call("chat", max, 5, {5},
                     Compiled([form |-> "choices", choices |-> cs], VocabOf({1, 2, 3, 4, 5}), 5),
                     [form |-> "choices", choices |-> cs]) : cs \in ChoiceLists, max \in {1, 4}}
EndIsTextCalls == {Call("chat", 3, 6, {6}, Compiled(asked, VocabOf({1, 6}), 6), asked) :
                     asked \in {[form |-> "regex", regex |-> r] : r \in Pairs}}

\* the automaton of the tests: tokens of two classes in turn
TurnCall == Call("chat", 4, NoToken, {}, Alternation({1}, {3}, 3),
                 [form |-> "regex", regex |-> Then(LitA, Then(Atomic(<<"1">>, {"1"}), LitA))])

MCCalls ==
    LET masked == RegexCalls \cup SchemaCalls \cup ChoiceCalls \cup EndIsTextCalls
    IN  {TurnCall} \cup PlainCalls \cup masked

-----------------------------------------------------------------------------
Masked == part = "local" /\ Engine!Constrained

\* the end token has a text of its own, which the mask may take for output
EndHasText == call.eos # NoToken /\ VocabText[call.eos] # <<>>

\* the tokens a mask was compiled over, but for the end token
Writing == {t \in MCToken : VocabText[t] # <<>>} \cap
           (IF call.asked.form = "schema" THEN JsonTokens ELSE 1 .. 4)

(* Where the compiled schema and JSON part: a property of type null is made a *)
(* string; a literal of an enum is written as Python does; and the digits    *)
(* of a number and the characters of a string are taken as they come.        *)

RECURSIVE PartsOf(_)
PartsOf(prop) ==
    {prop} \cup (IF "items" \in DOMAIN prop THEN PartsOf(prop.items) ELSE {})
           \cup (IF "properties" \in DOMAIN prop
                 THEN UNION {PartsOf(prop.properties[key]) : key \in DOMAIN prop.properties} ELSE {})

BySchema == call.asked.form = "schema"

AsksForNull ==
    BySchema /\ \E prop \in PartsOf(call.asked.schema) : "type" \in DOMAIN prop /\ prop.type = "null"

AsksForPython ==
    BySchema /\ \E prop \in PartsOf(call.asked.schema) :
                   "enum" \in DOMAIN prop /\ \E v \in ToSet(prop.enum) : v.text # v.json

HasLeadingZero(text) ==
    \E i \in 1 .. Len(text) - 1 :
        /\ text[i] = "0" /\ text[i + 1] \in DOMAIN Digits
        /\ i > 1 => text[i - 1] \notin DOMAIN Digits \cup {"."}

\* what a schema's mask lets through although JSON does not have it
Loose(text) == BySchema /\ ("\n" \in ToSet(text) \/ HasLeadingZero(text))

\* As long as no end token was yielded the automaton accepts every text that is
\* what was asked for, no other text but the loose ones, and a token it forbids
\* could not have been continued to a fitting one (regex and schema, within two
\* tokens; a list of choices is spelled in one way only).  A schema with a null
\* or with a literal that Python writes in its own way is not among these.
AcceptsWhatFits ==
    /\ Masked /\ ~EndHasText /\ call.eos \notin ToSet(yielded)
    /\ ~AsksForNull /\ ~AsksForPython
    =>  LET text == TextOf(yielded)
        IN  /\ Fits(call.asked, text) => IsAccepting(call.grammar, state)
            /\ IsAccepting(call.grammar, state) => Fits(call.asked, text) \/ Loose(text)
            /\ call.asked.form # "choices" =>
                 \A t \in Writing \ Allowed(call.grammar, state) :
                   \A rest \in {<<>>} \cup {<<u>> : u \in Writing} \cup Writing \X Writing :
                     ~Fits(call.asked, TextOf(yielded \o <<t>> \o rest))

\* A masked answer is what the request asked for, unless the budget ended it,
\* the end token is also a character, the vocabulary cannot spell what the mask
\* had begun (the automaton is at a dead end it does not accept), or the schema
\* or the text is one of those named above.
AnswerFits ==
    Masked /\ answered =>
        \/ Fits(call.asked, shown)
        \/ Len(yielded) = call.max /\ ~IsAccepting(call.grammar, state)
        \/ EndHasText
        \/ ~IsAccepting(call.grammar, state) /\ Allowed(call.grammar, state) = {}
        \/ AsksForNull \/ AsksForPython \/ Loose(shown)

\* regex_to_token_fsa, json_schema_to_token_fsa and the engine's masked decoding: the mask lets
\* through what was asked for and nothing else, token by token and in the end, but for the
\* disagreements named above.
MaskIsExact == AcceptsWhatFits /\ AnswerFits

\* chat.py says of every masked answer that "masking makes the output
\* well-formed by construction", and reports it valid: here of a mask the answer was
\* still on its way through, with tokens of the vocabulary to go on with.
MaskedAnswerIsValid ==
    /\ Masked /\ answered /\ ~EndHasText
    /\ Allowed(call.grammar, state) # {}
    /\ ~AsksForNull /\ ~AsksForPython /\ ~Loose(shown)
    => Fits(call.asked, shown)

=============================================================================
