----------------------------- MODULE DecodeLoop -----------------------------
(* decode_iter (engines/decode.py): the loop that appends one token at a     *)
(* time, picked from the logits of a model, or of several fused, after the  *)
(* tokens so far, masked to what a grammar allows.  What the logits prefer  *)
(* is data: prefers gives the tokens that may be picked after a context, one *)
(* of them for greedy decoding, several when a token is sampled.  Under a    *)
(* mask any allowed token may be the best one left.                          *)
EXTENDS TokenFsa, Sequences

CONSTANTS Token,      \* the ids of the vocabulary
          Context,    \* what a model's logits may depend on
          ContextOf(_)  \* the context of a nonempty sequence of tokens

VARIABLES call,       \* the arguments: prompt, max, eos, grammar, prefers
          out,        \* the tokens yielded so far
          state,      \* the grammar's state
          done        \* whether the generator has returned

loopVars == <<call, out, state, done>>

Constrained == call.grammar # NoGrammar

StartState(grammar) == IF grammar = NoGrammar THEN NoGrammar ELSE grammar.start

\* a call; a prompt has at least one token
LoopInit(calls) ==
    /\ call \in calls
    /\ out = <<>>
    /\ state = StartState(call.grammar)
    /\ done = FALSE

Tokens == call.prompt \o out

Running == ~done /\ Len(out) < call.max

Candidates == IF Constrained THEN Allowed(call.grammar, state)
              ELSE call.prefers[ContextOf(Tokens)]

NextState(token) == IF Constrained THEN Advance(call.grammar, state, token) ELSE state

\* after this token the loop returns
Ends(token) ==
    \/ token = call.eos
    \/ Constrained /\ IsFinal(call.grammar, NextState(token))

Yield(token) ==
    /\ Running
    /\ token \in Candidates
    /\ out' = Append(out, token)
    /\ state' = NextState(token)
    /\ done' = Ends(token)
    /\ UNCHANGED call

\* range(max_new_tokens) is exhausted, or the grammar is at a dead end
Return ==
    /\ ~done
    /\ Running => Candidates = {}
    /\ done' = TRUE
    /\ UNCHANGED <<call, out, state>>

LoopNext == (\E token \in Token : Yield(token)) \/ Return

LoopSpec(calls) == LoopInit(calls) /\ [][LoopNext]_loopVars

=============================================================================
