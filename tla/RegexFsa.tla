------------------------------ MODULE RegexFsa ------------------------------
(* The compilation of a regex, a JSON schema or a list of choices into an    *)
(* automaton over a model's vocabulary (engines/regex_fsa.py).  A pattern   *)
(* and the text of a token are sequences of characters.                      *)
EXTENDS TokenFsa, Sequences, FiniteSets, FiniteSetsExt, SequencesExt

CONSTANTS Alphabet,  \* the characters, in the order of their code points
          Digits,    \* those of 0 .. 9 in the alphabet, with their value
          Letters,   \* those str.isalnum holds for, but for the digits
          Spaces     \* those str.isspace holds for

Char == ToSet(Alphabet)

WordChars == Letters \cup DOMAIN Digits \cup ({"_"} \cap Char)

Classes == [d |-> DOMAIN Digits, D |-> Char \ DOMAIN Digits,
            w |-> WordChars,     W |-> Char \ WordChars,
            s |-> Spaces,        S |-> Char \ Spaces]

ClassOf(c) == IF c \in DOMAIN Classes THEN Classes[c] ELSE {c}

CharRange(lo, hi) ==
    LET At(c) == CHOOSE i \in DOMAIN Alphabet : Alphabet[i] = c
    IN  {Alphabet[i] : i \in At(lo) .. At(hi)}

-----------------------------------------------------------------------------
(* The Thompson automaton under construction, with the parser's place in    *)
(* the pattern and the last fragment made.  A syntax error puts the place   *)
(* past the end, where every loop of the parser stops.                       *)

Empty == [size |-> 0, eps |-> {}, sym |-> {}, at |-> 1, s |-> 0, a |-> 0]

None == "none"

Peek(p, at) == IF at \in DOMAIN p THEN p[at] ELSE None

Error(p, b) == [b EXCEPT !.at = Len(p) + 2]

SymFrag(b, chars) ==
    LET s == b.size + 1
    IN  [b EXCEPT !.size = s + 1, !.sym = @ \cup {<<s, chars, s + 1>>}, !.s = s, !.a = s + 1]

EmptyFrag(b) == [b EXCEPT !.size = @ + 1, !.s = b.size + 1, !.a = b.size + 1]

\* a fragment around the last one; moves says how they are joined
Wrapped(b, Moves(_, _)) ==
    LET s == b.size + 1
    IN  [b EXCEPT !.size = s + 1, !.eps = @ \cup Moves(s, s + 1), !.s = s, !.a = s + 1]

Star(b)  == Wrapped(b, LAMBDA s, a : {<<s, b.s>>, <<s, a>>, <<b.a, b.s>>, <<b.a, a>>})
Plus(b)  == Wrapped(b, LAMBDA s, a : {<<s, b.s>>, <<b.a, b.s>>, <<b.a, a>>})
Option(b) == Wrapped(b, LAMBDA s, a : {<<s, b.s>>, <<s, a>>, <<b.a, a>>})

Chained(b, frags) ==
    [b EXCEPT !.eps = @ \cup {<<frags[k].a, frags[k + 1].s>> : k \in 1 .. Len(frags) - 1},
              !.s = Head(frags).s, !.a = Last(frags).a]

Frag(b) == [s |-> b.s, a |-> b.a]

\* the characters of a bracketed class from at on: [at, chars]
RECURSIVE ClassItems(_, _, _)
ClassItems(p, at, chars) ==
    CASE Peek(p, at) \in {None, "]"} -> [at |-> at, chars |-> chars]
      [] Peek(p, at) = "\\" -> ClassItems(p, at + 2, chars \cup ClassOf(Peek(p, at + 1)))
      [] /\ Peek(p, at) \notin {None, "]", "\\"}
         /\ Peek(p, at + 1) = "-"
         /\ Peek(p, at + 2) \notin {None, "]"} ->
             ClassItems(p, at + 3, chars \cup CharRange(p[at], p[at + 2]))
      [] OTHER -> ClassItems(p, at + 1, chars \cup {p[at]})

CharClass(p, b) ==
    LET negated == Peek(p, b.at + 1) = "^"
        items == ClassItems(p, IF negated THEN b.at + 2 ELSE b.at + 1, {})
        chars == IF negated THEN Char \ items.chars ELSE items.chars
    IN  IF Peek(p, items.at) = "]"
        THEN SymFrag([b EXCEPT !.at = items.at + 1], chars)
        ELSE Error(p, b)

RECURSIVE Alternatives(_, _, _), Concat(_, _, _), Repeat(_, _), Copies(_, _, _)

Alternatives(p, b, frags) ==
    LET c == Concat(p, b, <<>>)
        all == Append(frags, Frag(c))
    IN  CASE Peek(p, c.at) = "|" -> Alternatives(p, [c EXCEPT !.at = @ + 1], all)
          [] Peek(p, c.at) # "|" /\ frags = <<>> -> c
          [] OTHER -> Wrapped(c, LAMBDA s, a : {<<s, all[k].s>> : k \in DOMAIN all}
                                          \cup {<<all[k].a, a>> : k \in DOMAIN all})

Concat(p, b, frags) ==
    CASE Peek(p, b.at) \notin {None, "|", ")"} ->
             LET r == Repeat(p, b) IN Concat(p, r, Append(frags, Frag(r)))
      [] Peek(p, b.at) \in {None, "|", ")"} /\ frags = <<>> -> EmptyFrag(b)
      [] OTHER -> Chained(b, frags)

Atom(p, b) ==
    LET c == Peek(p, b.at)
        next == [b EXCEPT !.at = @ + 1]
    IN  CASE c = "(" -> LET g == Alternatives(p, next, <<>>)
                        IN  IF Peek(p, g.at) = ")" THEN [g EXCEPT !.at = @ + 1] ELSE Error(p, g)
          [] c = "[" -> CharClass(p, b)
          [] c = "." -> SymFrag(next, Char \ {"\n"})
          [] c = "\\" -> IF Peek(p, b.at + 1) = None THEN Error(p, b)
                         ELSE SymFrag([b EXCEPT !.at = @ + 2], ClassOf(p[b.at + 1]))
          [] c \in {")", "|", "*", "+", "?", "{", None} -> Error(p, b)
          [] OTHER -> SymFrag(next, {c})

\* Mutated form of Copies: the fragment itself again instead of a copy.
CopiesShared(source, b, n) == [k \in 1 .. n + 1 |-> b]

\* n - 1 more copies of an atom, each parsed from its source again
Copies(source, b, n) ==
    IF n = 0 THEN <<b>>
    ELSE LET c == Alternatives(source, [b EXCEPT !.at = 1], <<>>)
         IN  <<b>> \o Copies(source, c, n - 1)

Brace(p, b, source) ==
    LET IsDigit(i) == Peek(p, i) \in DOMAIN Digits
        end == CHOOSE i \in b.at + 1 .. Len(p) + 1 :
                 ~IsDigit(i) /\ \A j \in b.at + 1 .. i - 1 : IsDigit(j)
        n == FoldLeft(LAMBDA acc, c : 10 * acc + Digits[c], 0, SubSeq(p, b.at + 1, end - 1))
        copies == Copies(source, b, n - 1)
    IN  CASE end = b.at + 1 \/ Peek(p, end) # "}" -> Error(p, b)
          [] end > b.at + 1 /\ Peek(p, end) = "}" /\ n = 0 ->
                 EmptyFrag([b EXCEPT !.at = end + 1])
          [] OTHER -> Chained([Last(copies) EXCEPT !.at = end + 1],
                              [k \in DOMAIN copies |-> Frag(copies[k])])

Repeat(p, b) ==
    LET r == Atom(p, b)
        next == [r EXCEPT !.at = @ + 1]
    IN  CASE Peek(p, r.at) = "*" -> Star(next)
          [] Peek(p, r.at) = "+" -> Plus(next)
          [] Peek(p, r.at) = "?" -> Option(next)
          [] Peek(p, r.at) = "{" -> Brace(p, r, SubSeq(p, b.at, r.at - 1))
          [] OTHER -> r

Parse(p) == Alternatives(p, Empty, <<>>)

-----------------------------------------------------------------------------
(* The subset construction over the vocabulary: the states are sets of       *)
(* states of the Thompson automaton, and a token walks its whole text.      *)

RECURSIVE Closure(_, _)
Closure(nfa, states) ==
    LET more == states \cup {e[2] : e \in {x \in nfa.eps : x[1] \in states}}
    IN  IF more = states THEN states ELSE Closure(nfa, more)

Step(nfa, states, ch) ==
    Closure(nfa, {e[3] : e \in {x \in nfa.sym : x[1] \in states /\ ch \in x[2]}})

Walk(nfa, states, text) == FoldLeft(LAMBDA acc, ch : Step(nfa, acc, ch), states, text)

RECURSIVE Subsets(_, _, _, _)
Subsets(nfa, texts, seen, fresh) ==
    LET reached == {Walk(nfa, st, text) : st \in fresh, text \in texts} \ {{}}
    IN  IF fresh = {} THEN seen ELSE Subsets(nfa, texts, seen \cup fresh, reached \ (seen \cup fresh))

\* the end token is allowed where the whole regex has matched
EndMoves(states, matched, eos) == IF eos = NoToken THEN {} ELSE matched \X {eos}

\* the sink that the end token leads to is {}; a token whose text matches
\* goes where its text leads, also when it is the end token
RegexToTokenFsa(p, vocab, eos) ==
    LET nfa == Parse(p)
        start == Closure(nfa, {nfa.s})
        texts == {vocab[t] : t \in DOMAIN vocab} \ {<<>>}
        states == Subsets(nfa, texts, {}, {start})
        matched == {st \in states : nfa.a \in st}
        ends == EndMoves(states, matched, eos)
        sink == IF ends = {} THEN {} ELSE {{}}
        Target(m) == IF vocab[m[2]] = <<>> THEN {} ELSE Walk(nfa, m[1], vocab[m[2]])
        moves == {m \in states \X DOMAIN vocab : Target(m) # {}}
    IN  IF nfa.at # Len(p) + 1 THEN NoGrammar  \* ValueError
        ELSE Fsa([m \in moves \cup ends |-> IF m \in moves THEN Target(m) ELSE {}],
                 start, matched \cup sink)

-----------------------------------------------------------------------------
(* The regex of the canonical instances of a JSON schema.  A property has    *)
(* either a list of literals (enum), each with the text str() has for it and *)
(* what JSON writes for it, or a type; the properties of an object           *)
(* are a function from keys, with the keys declared and those required.     *)

Meta == {".", "[", "]", "(", ")", "|", "*", "+", "?", "{", "}", "\\", "^"}

Escape(text) == FlattenSeq([i \in DOMAIN text |->
                              IF text[i] \in Meta THEN <<"\\", text[i]>> ELSE <<text[i]>>])

Joined(parts, sep) == FlattenSeq([i \in DOMAIN parts |-> IF i = 1 THEN parts[i] ELSE sep \o parts[i]])

Quote == <<"\"">>
Comma == <<",", " ">>
AString == Quote \o <<"[", "^", "\"", "]", "*">> \o Quote
AnInteger == <<"-", "?", "\\", "d", "+">>
AFraction == <<"(", "\\", ".", "\\", "d", "+", ")", "?">>
ABoolean == <<"(", "t", "r", "u", "e", "|", "f", "a", "l", "s", "e", ")">>

\* a literal of an enum: a string is quoted
Literal(v) == IF v.string THEN Quote \o Escape(v.text) \o Quote ELSE Escape(v.text)

RECURSIVE ValueRegex(_, _), ObjectRegex(_, _)

ValueRegex(prop, depth) ==
    LET Item == ValueRegex(prop.items, depth - 1)
    IN  CASE "enum" \in DOMAIN prop ->
                 <<"(">> \o Joined([i \in DOMAIN prop.enum |-> Literal(prop.enum[i])], <<"|">>) \o <<")">>
          [] "enum" \notin DOMAIN prop /\ prop.type = "integer" -> AnInteger
          [] "enum" \notin DOMAIN prop /\ prop.type = "number" -> AnInteger \o AFraction
          [] "enum" \notin DOMAIN prop /\ prop.type = "boolean" -> ABoolean
          [] "enum" \notin DOMAIN prop /\ prop.type = "object" /\ depth > 0 -> ObjectRegex(prop, depth - 1)
          [] "enum" \notin DOMAIN prop /\ prop.type = "array" /\ depth > 0 ->
                 <<"\\", "[", "(">> \o Item \o <<"(">> \o Comma \o Item \o <<")", "*", ")", "?", "\\", "]">>
          [] OTHER -> AString

ObjectRegex(schema, depth) ==
    LET keys == IF schema.required # <<>> THEN schema.required ELSE schema.declared
        Property(key) == IF key \in DOMAIN schema.properties THEN schema.properties[key]
                         ELSE [type |-> "any"]
        Member(key) == Quote \o Escape(key) \o Quote \o <<":", " ">>
                         \o ValueRegex(Property(key), depth)
    IN  <<"\\", "{">> \o Joined([i \in DOMAIN keys |-> Member(keys[i])], Comma) \o <<"\\", "}">>

-----------------------------------------------------------------------------
(* The trie of a list of choices: a state is the sequence of token texts     *)
(* taken.  A choice that the vocabulary cannot spell leaves the moves made   *)
(* before that was found.                                                    *)

\* the longest token text that the rest of a choice starts with
Longest(vocab, rest) ==
    LET fits == {vocab[t] : t \in {u \in DOMAIN vocab : vocab[u] # <<>> /\ IsPrefix(vocab[u], rest)}}
    IN  IF fits = {} THEN <<>> ELSE CHOOSE x \in fits : \A y \in fits : Len(y) <= Len(x)

RECURSIVE Spelling(_, _)
Spelling(vocab, rest) ==
    LET text == Longest(vocab, rest)
    IN  IF text = <<>> THEN <<>>
        ELSE <<text>> \o Spelling(vocab, SubSeq(rest, Len(text) + 1, Len(rest)))

Expressible(vocab, choice) == FlattenSeq(Spelling(vocab, choice)) = choice

Accepted(choices, vocab) == {Spelling(vocab, c) : c \in {d \in choices : Expressible(vocab, d)}}

BuildChoiceFsa(choices, vocab, eos) ==
    LET paths == {Spelling(vocab, c) : c \in choices}
        accepting == Accepted(choices, vocab)
        Spelt(chars) == {t \in DOMAIN vocab : vocab[t] = chars}
        Moves(path) == UNION {{SubSeq(path, 1, i - 1)} \X Spelt(path[i]) : i \in DOMAIN path}
        moves == UNION {Moves(path) : path \in paths}
        ends == IF eos = NoToken THEN {} ELSE accepting \X {eos}
    IN  Fsa([m \in moves \cup ends |-> IF m \in ends THEN m[1] ELSE Append(m[1], vocab[m[2]])],
            <<>>, accepting)

=============================================================================
