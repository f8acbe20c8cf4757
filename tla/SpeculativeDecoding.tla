------------------------- MODULE SpeculativeDecoding -------------------------
(* speculative_decode (engines/decode.py) with greedy picks, as              *)
(* SpeculativeAdapter calls it: a draft model proposes k tokens, the target  *)
(* reads them in one pass, its own tokens are kept up to and including the  *)
(* first that differs, and one more when none does.  A model is a function  *)
(* from contexts to the token its logits prefer.                             *)
EXTENDS TokenFsa, Sequences

CONSTANTS Token,
          Context,
          ContextOf(_)

VARIABLES job,       \* the arguments: prompt, max, k, eos, draft, target
          out,       \* the tokens generated
          drafted,   \* draft_toks
          accepted,  \* what the target made of them, not yet in out
          phase      \* of the round: draft, verify, keep; or done

roundVars == <<job, out, drafted, accepted, phase>>

Model == [Context -> Token]

\* the token a model prefers after a nonempty sequence
Preferred(model, tokens) == model[ContextOf(tokens)]

\* calls of the adapter: the prompt ends in "assistant: ", so it is not empty
InitIn(jobs) ==
    /\ job \in jobs
    /\ out = <<>>
    /\ drafted = <<>>
    /\ accepted = <<>>
    /\ phase = "draft"

Tokens == job.prompt \o out

MayRound == Len(out) < job.max

Propose ==
    /\ phase = "draft"
    /\ MayRound
    /\ Len(drafted) < job.k
    /\ drafted' = Append(drafted, Preferred(job.draft, Tokens \o drafted))
    /\ UNCHANGED <<job, out, accepted, phase>>

\* the target's one pass over the prompt, the output and the drafted tokens
TargetPass ==
    /\ phase = "draft"
    /\ MayRound
    /\ Len(drafted) = job.k
    /\ phase' = "verify"
    /\ UNCHANGED <<job, out, drafted, accepted>>

\* Mutated form of Row: the row after the drafted token that is being verified.
RowOfNext(j) == Preferred(job.target, Tokens \o SubSeq(drafted, 1, IF j < job.k THEN j + 1 ELSE j))

\* row n - 1 + j of that pass: what the target puts after j drafted tokens
Row(j) == Preferred(job.target, Tokens \o SubSeq(drafted, 1, j))

Verify ==
    /\ phase = "verify"
    /\ Len(accepted) < job.k
    /\ LET j == Len(accepted)
       IN  /\ accepted' = Append(accepted, Row(j))
           /\ phase' = IF drafted[j + 1] = Row(j) THEN "verify" ELSE "keep"
    /\ UNCHANGED <<job, out, drafted>>

Bonus ==
    /\ phase = "verify"
    /\ Len(accepted) = job.k
    /\ accepted' = Append(accepted, Row(job.k))
    /\ phase' = "keep"
    /\ UNCHANGED <<job, out, drafted>>

Keep ==
    /\ phase = "keep"
    /\ out' = Append(out, Head(accepted))
    /\ accepted' = Tail(accepted)
    /\ phase' = IF Head(accepted) = job.eos THEN "done"
                ELSE IF Len(accepted) = 1 THEN "draft" ELSE "keep"
    /\ drafted' = IF phase' = "draft" THEN <<>> ELSE drafted
    /\ UNCHANGED job

Return ==
    /\ phase = "draft"
    /\ ~MayRound
    /\ phase' = "done"
    /\ UNCHANGED <<job, out, drafted, accepted>>

RoundNext == Propose \/ TargetPass \/ Verify \/ Bonus \/ Keep \/ Return

RoundSpec(jobs) == InitIn(jobs) /\ [][RoundNext]_roundVars

\* what is returned: a round may overshoot the budget
Result == SubSeq(out, 1, IF Len(out) < job.max THEN Len(out) ELSE job.max)

-----------------------------------------------------------------------------
(* The call of decode_iter that speculation stands for: the target alone.   *)

Plain == [prompt |-> job.prompt, max |-> job.max, eos |-> job.eos,
          grammar |-> NoGrammar, prefers |-> [c \in Context |-> {job.target[c]}]]

Greedy == INSTANCE DecodeLoop WITH
            call <- Plain, out <- Result, state <- NoGrammar, done <- (phase = "done")

\* Whatever the draft proposes and wherever the target first disagrees, the
\* tokens are those the target alone would decode greedily, one by one, up to
\* the same end (decode.py says "identical to sampling from target alone").
SpeculationIsGreedy ==
    /\ Greedy!LoopInit({Plain})
    /\ [][Greedy!LoopNext]_(Greedy!loopVars)

=============================================================================
