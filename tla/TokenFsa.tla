------------------------------ MODULE TokenFsa ------------------------------
(* The automaton a grammar is compiled to (engines/grammar.py): a partial    *)
(* function from states and tokens to states, where it starts, and the      *)
(* states in which generation may stop.                                     *)
EXTENDS Naturals

CONSTANTS NoToken,   \* no token: eos_id = None
          NoGrammar  \* no automaton: grammar = None

Fsa(delta, start, accepting) == [delta |-> delta, start |-> start, accepting |-> accepting]

Allowed(fsa, state) == {move[2] : move \in {m \in DOMAIN fsa.delta : m[1] = state}}

Advance(fsa, state, token) == fsa.delta[state, token]

IsAccepting(fsa, state) == state \in fsa.accepting

\* a terminal state: the output is complete and nothing may follow it
IsFinal(fsa, state) == IsAccepting(fsa, state) /\ Allowed(fsa, state) = {}

\* exactly length tokens, of class A and of class B in turn
Alternation(classA, classB, length) ==
    LET Class(i) == IF i % 2 = 0 THEN classA ELSE classB
        moves == UNION {{i} \X Class(i) : i \in 0 .. length - 1}
    IN  Fsa([m \in moves |-> m[1] + 1], 0, {length})

=============================================================================
