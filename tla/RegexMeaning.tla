---------------------------- MODULE RegexMeaning ----------------------------
(* What a regex, a canonical JSON instance and a list of choices mean, by    *)
(* the structure of the expression or schema and with no automaton: the     *)
(* reference the compiled masks are compared with.  An expression is a       *)
(* record with an operator; Written is its text, with no more parentheses   *)
(* than the precedence of the operators asks for.                            *)
EXTENDS RegexFsa

Atomic(source, chars) == [op |-> "atom", source |-> source, chars |-> chars]
Then(l, r)  == [op |-> "then", l |-> l, r |-> r]
Or(l, r)    == [op |-> "or", l |-> l, r |-> r]
Again(mark, e) == [op |-> "again", mark |-> mark, e |-> e]    \* e*, e+ or e?
Times(n, digit, e) == [op |-> "times", n |-> n, digit |-> digit, e |-> e]

RECURSIVE Written(_, _)
Written(e, level) ==
    LET Paren(own, text) == IF own < level THEN <<"(">> \o text \o <<")">> ELSE text
    IN  CASE e.op = "atom"  -> e.source
          [] e.op = "or"    -> Paren(0, Written(e.l, 0) \o <<"|">> \o Written(e.r, 0))
          [] e.op = "then"  -> Paren(1, Written(e.l, 1) \o Written(e.r, 1))
          [] e.op = "again" -> Paren(2, Written(e.e, 3) \o <<e.mark>>)
          [] e.op = "times" -> Paren(2, Written(e.e, 3) \o <<"{", e.digit, "}">>)

Upto(text, k) == SubSeq(text, 1, k)
Beyond(text, k)  == SubSeq(text, k + 1, Len(text))

RECURSIVE Matches(_, _)
Matches(e, text) ==
    LET Some(Body(_)) == \E k \in 0 .. Len(text) : Body(k)
    IN  CASE e.op = "atom" -> Len(text) = 1 /\ text[1] \in e.chars
          [] e.op = "or"   -> Matches(e.l, text) \/ Matches(e.r, text)
          [] e.op = "then" -> Some(LAMBDA k : Matches(e.l, Upto(text, k)) /\ Matches(e.r, Beyond(text, k)))
          [] e.op = "again" ->
                \/ e.mark \in {"*", "?"} /\ text = <<>>
                \/ Matches(e.e, text)
                \/ e.mark \in {"*", "+"} /\ \E k \in 1 .. Len(text) - 1 :
                       Matches(e.e, Upto(text, k)) /\ Matches(e, Beyond(text, k))
          [] e.op = "times" ->
                IF e.n = 0 THEN text = <<>>
                ELSE Some(LAMBDA k : /\ Matches(e.e, Upto(text, k))
                                     /\ Matches([e EXCEPT !.n = @ - 1], Beyond(text, k)))

(* JSON's own grammar: no number has a leading zero, no string a raw newline *)
(* (the alphabet has no other control character and no backslash), null is   *)
(* the literal null, and a literal of an enum is what JSON writes for it.    *)

IsDigits(text) == Len(text) > 0 /\ ToSet(text) \subseteq DOMAIN Digits

IsNatural(text) == IsDigits(text) /\ (Len(text) > 1 => text[1] # "0")

IsInteger(text) == IsNatural(text) \/ (text # <<>> /\ text[1] = "-" /\ IsNatural(Tail(text)))

IsString(text) == /\ Len(text) >= 2 /\ text[1] = "\"" /\ Last(text) = "\""
                  /\ ToSet(SubSeq(text, 2, Len(text) - 1)) \cap {"\"", "\n"} = {}

RECURSIVE IsInstance(_, _, _), IsListing(_, _, _)

\* parts with ", " between them: a part is a label and an instance of a property
IsListing(parts, depth, text) ==
    LET label == Head(parts).label
        IsPart(x) == /\ IsPrefix(label, x)
                     /\ IsInstance(Head(parts).prop, depth, Beyond(x, Len(label)))
    IN  IF Len(parts) = 1 THEN IsPart(text)
        ELSE \E k \in 1 .. Len(text) - 2 :
               /\ SubSeq(text, k + 1, k + 2) = Comma
               /\ IsPart(Upto(text, k))
               /\ IsListing(Tail(parts), depth, Beyond(text, k + 2))

\* the canonical instances of a property; an object or array nested deeper than
\* depth, and a property without a type, is written as a string, as documented
IsInstance(prop, depth, text) ==
    LET Within(l, r) == Len(text) >= 2 /\ text[1] = l /\ Last(text) = r
        inner == SubSeq(text, 2, Len(text) - 1)
        keys == IF prop.required # <<>> THEN prop.required ELSE prop.declared
        Member(key) == [label |-> Quote \o key \o Quote \o <<":", " ">>, prop |-> prop.properties[key]]
        commas == Cardinality({i \in DOMAIN inner : inner[i] = ","})
    IN  CASE "enum" \in DOMAIN prop ->
                \E v \in ToSet(prop.enum) : text = IF v.string THEN Quote \o v.text \o Quote ELSE v.json
          [] "enum" \notin DOMAIN prop /\ prop.type = "integer" -> IsInteger(text)
          [] "enum" \notin DOMAIN prop /\ prop.type = "null" -> text = <<"n", "u", "l", "l">>
          [] "enum" \notin DOMAIN prop /\ prop.type = "boolean" ->
                text \in {<<"t", "r", "u", "e">>, <<"f", "a", "l", "s", "e">>}
          [] "enum" \notin DOMAIN prop /\ prop.type = "number" ->
                \/ IsInteger(text)
                \/ \E k \in DOMAIN text : /\ text[k] = "."
                                         /\ IsInteger(Upto(text, k - 1)) /\ IsDigits(Beyond(text, k))
          [] "enum" \notin DOMAIN prop /\ prop.type = "object" /\ depth > 0 ->
                /\ Within("{", "}")
                /\ IF keys = <<>> THEN inner = <<>>
                   ELSE IsListing([i \in DOMAIN keys |-> Member(keys[i])], depth - 1, inner)
          [] "enum" \notin DOMAIN prop /\ prop.type = "array" /\ depth > 0 ->
                /\ Within("[", "]")
                /\ \/ inner = <<>>
                   \/ \E n \in 1 .. commas + 1 :
                        IsListing([i \in 1 .. n |-> [label |-> <<>>, prop |-> prop.items]], depth - 1, inner)
          [] OTHER -> IsString(text)

\* what a constrained request asks for: a regex, a schema or a list of choices
Fits(asked, text) ==
    CASE asked.form = "regex"   -> Matches(asked.regex, text)
      [] asked.form = "schema"  -> IsInstance(asked.schema, 4, text)
      [] asked.form = "choices" -> text \in asked.choices

\* the automaton the chat route builds for it (its branches on choices,
\* json_schema and regex), schemas nested up to depth 3
Compiled(asked, vocab, eos) ==
    CASE asked.form = "choices" -> BuildChoiceFsa(asked.choices, vocab, eos)
      [] asked.form = "schema"  -> RegexToTokenFsa(ObjectRegex(asked.schema, 3), vocab, eos)
      [] asked.form = "regex"   -> RegexToTokenFsa(Written(asked.regex, 0), vocab, eos)

=============================================================================
