----------------------------- MODULE TurnProofs -----------------------------
(***************************************************************************)
(* What holds of a turn at its two ends: of the speculative decoding that  *)
(* answers it, for any models, prompts and budgets (SpeculativeDecoding),  *)
(* and of the history that records it, for any users, turns and deletes    *)
(* (Conversations).                                                        *)
(***************************************************************************)
EXTENDS Engines, Conversations, SequenceTheorems, TLAPS

-----------------------------------------------------------------------------
(* Speculative decoding.                                                    *)

\* What the models' logits depend on is defined for every nonempty sequence.
ContextsAreRead == \A s \in Seq(Token) : s # <<>> => ContextOf(s) \in Context

JobType == [prompt : Seq(Token) \ {<<>>}, max : Nat, k : Nat \ {0}, eos : Token \cup {NoToken},
            draft : Model, target : Model]

RoundTypeOK ==
    /\ job \in JobType
    /\ out \in Seq(Token) /\ drafted \in Seq(Token) /\ accepted \in Seq(Token)
    /\ phase \in {"draft", "verify", "keep", "done"}

\* The target's own choices, each after the ones before it.
IsTargets(tokens) ==
    \A i \in 1 .. Len(tokens) : tokens[i] = Preferred(job.target, Tokens \o SubSeq(tokens, 1, i - 1))

\* As far as it is verified the draft agrees with the target; what is accepted
\* beyond is the target's.
RoundInv ==
    /\ phase = "draft" => accepted = <<>>
    /\ phase = "verify" =>
         /\ Len(drafted) = job.k /\ Len(accepted) <= job.k
         /\ \A i \in 1 .. Len(accepted) : accepted[i] = drafted[i]
    /\ phase = "keep" => accepted # <<>>
    /\ phase \in {"verify", "keep"} => IsTargets(accepted)

\* A model's preference is a token.
LEMMA PreferredType ==
    ASSUME ContextsAreRead, RoundTypeOK, NEW model \in Model, NEW s \in Seq(Token)
    PROVE  Preferred(model, Tokens \o s) \in Token
<1>1. job.prompt \in Seq(Token) /\ job.prompt # <<>>
  BY DEF RoundTypeOK, JobType
<1>2. Tokens \o s \in Seq(Token) /\ Tokens \o s # <<>>
  BY <1>1 DEF Tokens, RoundTypeOK
<1> QED
  BY <1>2 DEF ContextsAreRead, Preferred, Model

\* One more choice of the target's, after those accepted so far.
LEMMA OneMore ==
    ASSUME RoundTypeOK, NEW s \in Seq(Token), NEW t \in Token, IsTargets(s),
           t = Preferred(job.target, Tokens \o s)
    PROVE  IsTargets(Append(s, t))
<1> SUFFICES ASSUME NEW i \in 1 .. Len(s) + 1
             PROVE  Append(s, t)[i] = Preferred(job.target, Tokens \o SubSeq(Append(s, t), 1, i - 1))
  BY DEF IsTargets
<1>1. SubSeq(Append(s, t), 1, i - 1) = SubSeq(s, 1, i - 1)
  BY SubSeqProperties, AppendProperties
<1>2. CASE i = Len(s) + 1
  <2>1. SubSeq(s, 1, i - 1) = s
    BY <1>2, SubSeqFull
  <2>2. Append(s, t)[i] = t
    BY <1>2, AppendProperties
  <2> QED
    BY <1>1, <2>1, <2>2
<1>3. CASE i \in 1 .. Len(s)
  <2>1. Append(s, t)[i] = s[i]
    BY <1>3, AppendProperties
  <2>2. s[i] = Preferred(job.target, Tokens \o SubSeq(s, 1, i - 1))
    BY <1>3 DEF IsTargets
  <2> QED
    BY <1>1, <2>1, <2>2
<1> QED
  BY <1>2, <1>3

\* The drafted tokens up to j are those accepted, when all of these agree.
LEMMA SamePrefix ==
    ASSUME RoundTypeOK, NEW j \in Nat, j = Len(accepted), j <= Len(drafted),
           \A i \in 1 .. Len(accepted) : accepted[i] = drafted[i]
    PROVE  SubSeq(drafted, 1, j) = accepted
<1>1. /\ SubSeq(drafted, 1, j) \in Seq(Token) /\ Len(SubSeq(drafted, 1, j)) = j
      /\ \A i \in 1 .. j : SubSeq(drafted, 1, j)[i] = drafted[i]
  BY SubSeqProperties DEF RoundTypeOK
<1> QED
  BY <1>1, SeqEqual DEF RoundTypeOK

\* Concatenation does not depend on where it starts.
LEMMA Associates ==
    ASSUME NEW S, NEW x \in Seq(S), NEW y \in Seq(S), NEW z \in Seq(S)
    PROVE  (x \o y) \o z = x \o (y \o z)
BY ConcatAssociative

\* A prefix without the first element.
LEMMA PrefixOfTail ==
    ASSUME NEW S, NEW s \in Seq(S), NEW i \in 1 .. Len(s)
    PROVE  /\ SubSeq(s, 2, i) \in Seq(S)
           /\ SubSeq(Tail(s), 1, i - 1) = SubSeq(s, 2, i)
           /\ SubSeq(s, 1, i) = <<Head(s)>> \o SubSeq(s, 2, i)
<1>1. /\ s # <<>> /\ Head(s) = s[1] /\ Head(s) \in S /\ 1 \in 1 .. Len(s)
      /\ i \in Nat /\ Len(s) \in Nat /\ i >= 1 /\ i <= Len(s)
  OBVIOUS
<1>2. SubSeq(s, 1, i) = <<Head(s)>> \o SubSeq(s, 2, i)
  BY <1>1, SubSeqRecursiveFirst
<1>3. /\ SubSeq(s, 2, i) \in Seq(S) /\ Len(SubSeq(s, 2, i)) = i - 1
      /\ \A n \in 1 .. i - 1 : SubSeq(s, 2, i)[n] = s[n + 1]
  BY <1>1, SubSeqProperties
<1>4. /\ Tail(s) \in Seq(S) /\ Len(Tail(s)) = Len(s) - 1
      /\ \A n \in 1 .. Len(s) - 1 : Tail(s)[n] = s[n + 1]
  BY <1>1, HeadTailProperties
<1>5. /\ SubSeq(Tail(s), 1, i - 1) \in Seq(S) /\ Len(SubSeq(Tail(s), 1, i - 1)) = i - 1
      /\ \A n \in 1 .. i - 1 : SubSeq(Tail(s), 1, i - 1)[n] = Tail(s)[n]
  BY <1>1, <1>4, SubSeqProperties
<1>6. \A n \in 1 .. i - 1 : SubSeq(Tail(s), 1, i - 1)[n] = SubSeq(s, 2, i)[n]
  BY <1>1, <1>3, <1>4, <1>5
<1> QED
  BY <1>2, <1>3, <1>5, <1>6, SeqEqual

\* Tokens that move from what is accepted to the output stay in their order.
LEMMA MoveFirst ==
    ASSUME NEW prompt \in Seq(Token), NEW sent \in Seq(Token), NEW head \in Token, NEW rest \in Seq(Token)
    PROVE  (prompt \o Append(sent, head)) \o rest = (prompt \o sent) \o (<<head>> \o rest)
<1>1. <<head>> \in Seq(Token) /\ prompt \o sent \in Seq(Token)
  OBVIOUS
<1>2. Append(sent, head) = sent \o <<head>>
  BY AppendIsConcat
<1>3. prompt \o (sent \o <<head>>) = (prompt \o sent) \o <<head>>
  BY <1>1, Associates
<1>4. ((prompt \o sent) \o <<head>>) \o rest = (prompt \o sent) \o (<<head>> \o rest)
  BY <1>1, Associates
<1> QED
  BY <1>2, <1>3, <1>4

LEMMA MoveAccepted ==
    ASSUME NEW prompt \in Seq(Token), NEW sent \in Seq(Token), NEW s \in Seq(Token), NEW i \in 1 .. Len(s)
    PROVE  (prompt \o Append(sent, Head(s))) \o SubSeq(Tail(s), 1, i - 1) = (prompt \o sent) \o SubSeq(s, 1, i)
<1>1. /\ SubSeq(s, 2, i) \in Seq(Token)
      /\ SubSeq(Tail(s), 1, i - 1) = SubSeq(s, 2, i)
      /\ SubSeq(s, 1, i) = <<Head(s)>> \o SubSeq(s, 2, i)
  BY PrefixOfTail
<1>2. Head(s) \in Token
  BY Len(s) \in Nat
<1>3. (prompt \o Append(sent, Head(s))) \o SubSeq(s, 2, i) = (prompt \o sent) \o (<<Head(s)>> \o SubSeq(s, 2, i))
  BY <1>1, <1>2, MoveFirst
<1> QED
  BY <1>1, <1>3

\* A round that takes its first accepted token goes on from there.
LEMMA TakeFirst ==
    ASSUME RoundTypeOK, RoundTypeOK', phase = "keep", RoundInv, Keep
    PROVE  /\ Head(accepted) = Preferred(job.target, Tokens)
           /\ IsTargets(accepted)'
<1>1. /\ accepted \in Seq(Token) /\ accepted # <<>> /\ out \in Seq(Token) /\ job.prompt \in Seq(Token)
      /\ IsTargets(accepted)
  BY DEF RoundTypeOK, RoundInv, JobType
<1>2. /\ Head(accepted) = accepted[1] /\ Len(accepted) \in Nat /\ Len(accepted) >= 1
      /\ Head(accepted) \in Token
  BY <1>1
<1>3. Head(accepted) = Preferred(job.target, Tokens)
  <2>1. Tokens \o SubSeq(accepted, 1, 1 - 1) = Tokens
    <3>1. SubSeq(accepted, 1, 0) = <<>>
      BY <1>1
    <3> QED
      BY <1>1, <3>1 DEF Tokens
  <2>2. 1 \in 1 .. Len(accepted)
    BY <1>2
  <2>3. accepted[1] = Preferred(job.target, Tokens \o SubSeq(accepted, 1, 1 - 1))
    BY <1>1, <2>2 DEF IsTargets
  <2> QED
    BY <1>2, <2>1, <2>3
<1>4. /\ out' = Append(out, Head(accepted)) /\ accepted' = Tail(accepted) /\ job' = job
  BY DEF Keep
<1>5. ASSUME NEW i \in 1 .. Len(accepted')
      PROVE  accepted'[i] = Preferred(job.target, Tokens' \o SubSeq(accepted', 1, i - 1))
  <2>1. i + 1 \in 1 .. Len(accepted) /\ accepted'[i] = accepted[i + 1] /\ i \in Nat
    BY <1>1, <1>2, <1>4
  <2>2. Tokens' \o SubSeq(accepted', 1, i - 1) = Tokens \o SubSeq(accepted, 1, i)
    <3>1. /\ Tokens = job.prompt \o out /\ Tokens' = job.prompt \o Append(out, Head(accepted))
          /\ i \in 1 .. Len(accepted)
      BY <1>4, <2>1 DEF Tokens
    <3>2. (job.prompt \o Append(out, Head(accepted))) \o SubSeq(Tail(accepted), 1, i - 1) =
            (job.prompt \o out) \o SubSeq(accepted, 1, i)
      BY <1>1, <3>1, MoveAccepted
    <3> QED
      BY <1>4, <3>1, <3>2
  <2>3. accepted[i + 1] = Preferred(job.target, Tokens \o SubSeq(accepted, 1, (i + 1) - 1))
    BY <1>1, <2>1 DEF IsTargets
  <2>4. (i + 1) - 1 = i
    BY <2>1
  <2> QED
    BY <2>1, <2>2, <2>3, <2>4
<1> QED
  BY <1>3, <1>4, <1>5 DEF IsTargets

\* What a row of the target's pass says of the drafted tokens that it accepts.
LEMMA RowIsNext ==
    ASSUME ContextsAreRead, RoundTypeOK, RoundInv, phase = "verify"
    PROVE  /\ Len(accepted) \in Nat /\ Len(accepted) <= Len(drafted) /\ Len(drafted) = job.k
           /\ Row(Len(accepted)) = Preferred(job.target, Tokens \o accepted)
           /\ Row(Len(accepted)) \in Token
           /\ IsTargets(Append(accepted, Row(Len(accepted))))
<1>1. /\ Len(accepted) \in Nat /\ Len(accepted) <= Len(drafted) /\ Len(drafted) = job.k
      /\ accepted \in Seq(Token) /\ job.target \in Model
      /\ \A i \in 1 .. Len(accepted) : accepted[i] = drafted[i]
      /\ IsTargets(accepted)
  BY DEF RoundTypeOK, RoundInv, JobType
<1>2. SubSeq(drafted, 1, Len(accepted)) = accepted
  BY <1>1, SamePrefix
<1>3. Row(Len(accepted)) = Preferred(job.target, Tokens \o accepted)
  BY <1>2 DEF Row
<1>4. Row(Len(accepted)) \in Token
  BY <1>1, <1>3, PreferredType
<1> QED
  BY <1>1, <1>3, <1>4, OneMore

LEMMA RoundTypeStep ==
    ASSUME ContextsAreRead, RoundTypeOK, RoundInv, RoundNext
    PROVE  RoundTypeOK'
<1>0. /\ job \in JobType /\ out \in Seq(Token) /\ drafted \in Seq(Token) /\ accepted \in Seq(Token)
      /\ phase \in {"draft", "verify", "keep", "done"}
      /\ job.draft \in Model
  BY DEF RoundTypeOK, JobType
<1>1. CASE Propose
  <2>1. Preferred(job.draft, Tokens \o drafted) \in Token
    BY <1>0, PreferredType
  <2> QED
    BY <1>0, <1>1, <2>1 DEF Propose, RoundTypeOK
<1>2. CASE TargetPass
  BY <1>0, <1>2 DEF TargetPass, RoundTypeOK
<1>3. CASE Verify
  <2>1. phase = "verify"
    BY <1>3 DEF Verify
  <2>2. Row(Len(accepted)) \in Token
    BY <2>1, RowIsNext
  <2> QED
    BY <1>0, <1>3, <2>2 DEF Verify, RoundTypeOK
<1>4. CASE Bonus
  <2>1. phase = "verify" /\ Len(accepted) = job.k
    BY <1>4 DEF Bonus
  <2>2. Row(job.k) \in Token
    BY <2>1, RowIsNext
  <2> QED
    BY <1>0, <1>4, <2>2 DEF Bonus, RoundTypeOK
<1>5. CASE Keep
  <2>1. accepted # <<>>
    BY <1>5 DEF Keep, RoundInv
  <2>2. Head(accepted) \in Token /\ Tail(accepted) \in Seq(Token)
    BY <1>0, <2>1
  <2>3. phase' \in {"draft", "verify", "keep", "done"}
    BY <1>5 DEF Keep
  <2>4. <<>> \in Seq(Token)
    OBVIOUS
  <2> QED
    BY <1>0, <1>5, <2>2, <2>3, <2>4 DEF Keep, RoundTypeOK
<1>6. CASE Return
  BY <1>0, <1>6 DEF Return, RoundTypeOK
<1> QED
  BY <1>1, <1>2, <1>3, <1>4, <1>5, <1>6 DEF RoundNext

\* RoundInv is inductive, relative to the types.
LEMMA RoundStep ==
    ASSUME ContextsAreRead, RoundTypeOK, RoundTypeOK', RoundInv, RoundNext
    PROVE  RoundInv'
<1>0. accepted \in Seq(Token) /\ drafted \in Seq(Token) /\ job \in JobType /\ job.k \in Nat
  BY DEF RoundTypeOK, JobType
<1>1. CASE Propose
  BY <1>0, <1>1 DEF Propose, RoundInv
<1>2. CASE TargetPass
  <2>1. /\ phase' = "verify" /\ job' = job /\ drafted' = drafted /\ accepted' = accepted
        /\ accepted = <<>> /\ Len(drafted) = job.k
    BY <1>2 DEF TargetPass, RoundInv
  <2>2. Len(accepted) = 0
    BY <2>1
  <2>3. IsTargets(accepted)'
    BY <2>1, <2>2 DEF IsTargets
  <2> QED
    BY <1>0, <2>1, <2>2, <2>3 DEF RoundInv
<1>3. CASE Verify
  <2> DEFINE j == Len(accepted)
  <2>1. /\ phase = "verify" /\ j < job.k
        /\ accepted' = Append(accepted, Row(j))
        /\ phase' = IF drafted[j + 1] = Row(j) THEN "verify" ELSE "keep"
        /\ job' = job /\ out' = out /\ drafted' = drafted
    BY <1>3 DEF Verify
  <2>2. /\ j \in Nat /\ Len(drafted) = job.k /\ Row(j) \in Token
        /\ IsTargets(Append(accepted, Row(j)))
    BY <2>1, RowIsNext
  <2>3. IsTargets(accepted)'
    BY <2>1, <2>2 DEF IsTargets, Tokens
  <2>4. /\ accepted' # <<>> /\ Len(accepted') = j + 1 /\ accepted'[j + 1] = Row(j)
        /\ \A i \in 1 .. j : accepted'[i] = accepted[i]
    BY <1>0, <2>1, <2>2, AppendProperties
  <2>5. \A i \in 1 .. j : accepted[i] = drafted[i]
    BY <2>1 DEF RoundInv
  <2>6. phase' = "verify" => \A i \in 1 .. Len(accepted') : accepted'[i] = drafted'[i]
    BY <2>1, <2>2, <2>4, <2>5
  <2>7. Len(accepted') <= job'.k /\ Len(drafted') = job'.k
    BY <1>0, <2>1, <2>2, <2>4
  <2> QED
    BY <2>1, <2>3, <2>4, <2>6, <2>7 DEF RoundInv
<1>4. CASE Bonus
  <2>1. /\ phase = "verify" /\ Len(accepted) = job.k /\ accepted' = Append(accepted, Row(job.k))
        /\ phase' = "keep" /\ job' = job /\ out' = out
    BY <1>4 DEF Bonus
  <2>2. Row(job.k) \in Token /\ IsTargets(Append(accepted, Row(job.k)))
    BY <2>1, RowIsNext
  <2>3. accepted' # <<>>
    BY <1>0, <2>1, <2>2, AppendProperties
  <2>4. IsTargets(accepted)'
    BY <2>1, <2>2 DEF IsTargets, Tokens
  <2> QED
    BY <2>1, <2>3, <2>4 DEF RoundInv
<1>5. CASE Keep
  <2>1. phase = "keep" /\ accepted' = Tail(accepted) /\ accepted # <<>>
    BY <1>5 DEF Keep, RoundInv
  <2>2. Len(accepted') = Len(accepted) - 1 /\ Len(accepted) \in Nat /\ Len(accepted) # 0
        /\ accepted' \in Seq(Token)
    BY <1>0, <2>1
  <2>3. IsTargets(accepted)'
    BY <1>5, <2>1, TakeFirst
  <2>4. phase' = "draft" => Len(accepted) = 1
    BY <1>5 DEF Keep
  <2>5. phase' = "keep" => Len(accepted) # 1
    BY <1>5 DEF Keep
  <2>6. phase' = "draft" => accepted' = <<>>
    BY <2>2, <2>4, EmptySeq
  <2>7. phase' = "keep" => accepted' # <<>>
    BY <2>2, <2>5
  <2>8. phase' \in {"draft", "keep", "done"}
    BY <1>5 DEF Keep
  <2> QED
    BY <2>3, <2>6, <2>7, <2>8 DEF RoundInv
<1>6. CASE Return
  BY <1>6 DEF Return, RoundInv
<1> QED
  BY <1>1, <1>2, <1>3, <1>4, <1>5, <1>6 DEF RoundNext

-----------------------------------------------------------------------------
(* Each step of a round is a step of the loop of the target alone, or none.  *)

\* What is returned of some tokens, before and after the budget is used.
Returned(tokens, max) == SubSeq(tokens, 1, IF Len(tokens) < max THEN Len(tokens) ELSE max)

LEMMA ReturnedIs ==
    ASSUME NEW tokens \in Seq(Token), NEW max \in Nat
    PROVE  /\ Len(tokens) <= max => Returned(tokens, max) = tokens
           /\ Len(tokens) >= max => /\ Returned(tokens, max) = SubSeq(tokens, 1, max)
                                    /\ Len(Returned(tokens, max)) = max
<1>0. Len(tokens) \in Nat
  OBVIOUS
<1>1. SubSeq(tokens, 1, Len(tokens)) = tokens
  BY SubSeqFull
<1>2. CASE Len(tokens) < max
  <2>1. Returned(tokens, max) = tokens
    BY <1>1, <1>2 DEF Returned
  <2>2. ~(Len(tokens) >= max)
    BY <1>0, <1>2
  <2> QED
    BY <2>1, <2>2
<1>3. CASE ~(Len(tokens) < max)
  <2>1. Returned(tokens, max) = SubSeq(tokens, 1, max)
    BY <1>3 DEF Returned
  <2>2. max <= Len(tokens)
    BY <1>0, <1>3
  <2>3. Len(SubSeq(tokens, 1, max)) = max
    BY <1>0, <2>2, SubSeqProperties
  <2>4. Len(tokens) <= max => max = Len(tokens)
    BY <1>0, <2>2
  <2> QED
    BY <1>1, <2>1, <2>3, <2>4
<1> QED
  BY <1>2, <1>3

LEMMA ResultIs ==
    ASSUME RoundTypeOK
    PROVE  /\ Len(out) \in Nat /\ job.max \in Nat
           /\ Len(out) <= job.max => Result = out
           /\ Len(out) >= job.max => Result = SubSeq(out, 1, job.max) /\ Len(Result) = job.max
<1>1. out \in Seq(Token) /\ Len(out) \in Nat /\ job.max \in Nat
  BY DEF RoundTypeOK, JobType
<1>2. Result = Returned(out, job.max)
  BY DEF Result, Returned
<1> QED
  BY <1>1, <1>2, ReturnedIs

\* A step that leaves the output alone, and does not end, is none of the loop's.
LEMMA QuietStep ==
    ASSUME job' = job, out' = out, phase # "done", phase' # "done"
    PROVE  UNCHANGED Greedy!loopVars
BY DEF Greedy!loopVars, Result, Plain

\* A token taken within the budget is the one that the target alone would yield.
LEMMA YieldStep ==
    ASSUME ContextsAreRead, RoundTypeOK, RoundTypeOK', RoundInv, Keep, Len(out) < job.max
    PROVE  \E token \in Token : Greedy!Yield(token)
<1> DEFINE token == Head(accepted)
<1>1. /\ phase = "keep" /\ out' = Append(out, token) /\ job' = job
  BY DEF Keep
<1>2. token = Preferred(job.target, Tokens) /\ token \in Token
  <2>1. accepted \in Seq(Token) /\ accepted # <<>>
    BY <1>1 DEF RoundTypeOK, RoundInv
  <2> QED
    BY <1>1, <2>1, TakeFirst
<1>3. Result = out /\ Result' = Append(out, token)
  <2>1. /\ Len(out) \in Nat /\ job.max \in Nat
        /\ Len(out) <= job.max => Result = out
    BY ResultIs
  <2>2. Len(out') = Len(out) + 1 /\ out' \in Seq(Token)
    BY <1>1, <1>2, AppendProperties DEF RoundTypeOK
  <2>3. Result' = Returned(out', job.max)
    BY <1>1 DEF Result, Returned
  <2>4. Returned(out', job.max) = out'
    BY <2>1, <2>2, ReturnedIs
  <2> QED
    BY <1>1, <2>1, <2>3, <2>4
<1>4. Plain' = Plain
  BY <1>1 DEF Plain
<1>5. ContextOf(Tokens) \in Context
  <2>1. /\ job.prompt \in Seq(Token) /\ job.prompt # <<>> /\ out \in Seq(Token)
    BY DEF RoundTypeOK, JobType
  <2>2. Tokens \in Seq(Token) /\ Tokens # <<>>
    BY <2>1 DEF Tokens
  <2> QED
    BY <2>2 DEF ContextsAreRead
<1>6. Greedy!Candidates = {token}
  BY <1>2, <1>3, <1>5 DEF Greedy!Candidates, Greedy!Constrained, Greedy!Tokens, Plain, Preferred, Tokens
<1>7. Greedy!Running
  BY <1>1, <1>3 DEF Greedy!Running, Plain
<1>8. Greedy!Ends(token) <=> token = job.eos
  BY DEF Greedy!Ends, Greedy!Constrained, Plain
<1>9. Greedy!NextState(token) = NoGrammar
  BY DEF Greedy!NextState, Greedy!Constrained, Plain
<1>10. (phase = "done")' = Greedy!Ends(token)
  <2>1. CASE token = job.eos
    <3>1. phase' = "done"
      BY <2>1 DEF Keep
    <3>2. Greedy!Ends(token)
      BY <1>8, <2>1
    <3>3. Greedy!Ends(token) \in BOOLEAN
      BY DEF Greedy!Ends
    <3> QED
      BY <3>1, <3>2, <3>3
  <2>2. CASE token # job.eos
    <3>1. phase' # "done"
      BY <2>2 DEF Keep
    <3>2. ~Greedy!Ends(token)
      BY <1>8, <2>2
    <3>3. Greedy!Ends(token) \in BOOLEAN
      BY DEF Greedy!Ends
    <3> QED
      BY <3>1, <3>2, <3>3
  <2> QED
    BY <2>1, <2>2
<1>11. Greedy!Yield(token)
  BY <1>3, <1>4, <1>6, <1>7, <1>9, <1>10 DEF Greedy!Yield
<1> QED
  BY <1>2, <1>11

\* Beyond the budget nothing more is returned, and the round may end.
LEMMA BeyondStep ==
    ASSUME RoundTypeOK, RoundTypeOK', Keep, Len(out) >= job.max
    PROVE  Greedy!Return \/ UNCHANGED Greedy!loopVars
<1>1. /\ phase = "keep" /\ out' = Append(out, Head(accepted)) /\ job' = job
      /\ out \in Seq(Token) /\ out' \in Seq(Token) /\ Len(out) \in Nat /\ job.max \in Nat
  BY DEF Keep, RoundTypeOK, JobType
<1>2. Plain' = Plain
  BY <1>1 DEF Plain
<1>3. /\ Result = SubSeq(out, 1, job.max) /\ Len(Result) = job.max
  BY ResultIs
<1>4. Len(out') = Len(out) + 1 /\ \A i \in 1 .. Len(out) : out'[i] = out[i]
  BY <1>1
<1>5. Result' = SubSeq(out', 1, job.max)
  <2>1. Result' = Returned(out', job.max)
    BY <1>1 DEF Result, Returned
  <2> QED
    <3>1. Len(out') >= job.max
      BY <1>1, <1>4
    <3>2. Returned(out', job.max) = SubSeq(out', 1, job.max)
      BY <1>1, <3>1, ReturnedIs
    <3> QED
      BY <2>1, <3>2
<1>6. Result' = Result
  <2>1. /\ SubSeq(out, 1, job.max) \in Seq(Token) /\ Len(SubSeq(out, 1, job.max)) = job.max
        /\ \A i \in 1 .. job.max : SubSeq(out, 1, job.max)[i] = out[i]
    BY <1>1, SubSeqProperties
  <2>2. /\ SubSeq(out', 1, job.max) \in Seq(Token) /\ Len(SubSeq(out', 1, job.max)) = job.max
        /\ \A i \in 1 .. job.max : SubSeq(out', 1, job.max)[i] = out'[i]
    BY <1>1, <1>4, SubSeqProperties
  <2>3. \A i \in 1 .. job.max : SubSeq(out', 1, job.max)[i] = SubSeq(out, 1, job.max)[i]
    BY <1>1, <1>4, <2>1, <2>2
  <2>4. SubSeq(out', 1, job.max) = SubSeq(out, 1, job.max)
    BY <2>1, <2>2, <2>3, SeqEqual
  <2> QED
    BY <1>3, <1>5, <2>4
<1>7. CASE phase' = "done"
  <2>1. ~Greedy!Running
    BY <1>1, <1>3 DEF Greedy!Running, Plain
  <2>2. (phase = "done")' = TRUE
    BY <1>7
  <2> QED
    BY <1>1, <1>2, <1>6, <2>1, <2>2 DEF Greedy!Return
<1>8. CASE phase' # "done"
  BY <1>1, <1>2, <1>6, <1>8 DEF Greedy!loopVars
<1> QED
  BY <1>7, <1>8

LEMMA ReturnStep ==
    ASSUME RoundTypeOK, Return
    PROVE  Greedy!Return
<1>1. /\ phase = "draft" /\ phase' = "done" /\ out' = out /\ job' = job /\ ~(Len(out) < job.max)
  BY DEF Return, MayRound
<1>2. Len(Result) = job.max /\ job.max \in Nat
  BY <1>1, ResultIs
<1>3. ~Greedy!Running
  BY <1>2 DEF Greedy!Running, Plain
<1>4. (phase = "done")' = TRUE
  BY <1>1
<1>5. Plain' = Plain /\ Result' = Result
  BY <1>1 DEF Plain, Result
<1> QED
  BY <1>1, <1>3, <1>4, <1>5 DEF Greedy!Return

LEMMA GreedyStep ==
    ASSUME ContextsAreRead, RoundTypeOK, RoundTypeOK', RoundInv, [RoundNext]_roundVars
    PROVE  [Greedy!LoopNext]_(Greedy!loopVars)
<1>1. CASE Propose \/ TargetPass \/ Verify \/ Bonus
  <2>1. job' = job /\ out' = out /\ phase # "done" /\ phase' # "done"
    BY <1>1 DEF Propose, TargetPass, Verify, Bonus
  <2> QED
    BY <2>1, QuietStep
<1>2. CASE Keep
  <2>1. Len(out) < job.max \/ Len(out) >= job.max
    BY DEF RoundTypeOK, JobType
  <2>2. CASE Len(out) < job.max
    BY <1>2, <2>2, YieldStep DEF Greedy!LoopNext
  <2>3. CASE Len(out) >= job.max
    BY <1>2, <2>3, BeyondStep DEF Greedy!LoopNext
  <2> QED
    BY <2>1, <2>2, <2>3
<1>3. CASE Return
  BY <1>3, ReturnStep DEF Greedy!LoopNext
<1>4. CASE UNCHANGED roundVars
  BY <1>4 DEF roundVars, Greedy!loopVars, Plain, Result
<1> QED
  BY <1>1, <1>2, <1>3, <1>4 DEF RoundNext

\* speculative_decode implements decode_iter of the target alone: whatever the
\* draft is, and wherever they disagree, the answer is the target's own greedy
\* one, to the same end.  Of every prompt, budget, draft length and pair of models.
THEOREM SpeculationHolds ==
    ASSUME NEW jobs \in SUBSET JobType, ContextsAreRead
    PROVE  RoundSpec(jobs) => SpeculationIsGreedy
<1>1. InitIn(jobs) => RoundTypeOK /\ RoundInv
  BY DEF InitIn, RoundTypeOK, RoundInv
<1>2. RoundTypeOK /\ RoundInv /\ [RoundNext]_roundVars => (RoundTypeOK /\ RoundInv)'
  <2> SUFFICES ASSUME RoundTypeOK, RoundInv, [RoundNext]_roundVars
               PROVE  (RoundTypeOK /\ RoundInv)'
    OBVIOUS
  <2>1. CASE RoundNext
    BY <2>1, RoundTypeStep, RoundStep
  <2>2. CASE UNCHANGED roundVars
    BY <2>2 DEF roundVars, RoundTypeOK, RoundInv, IsTargets, Tokens
  <2> QED
    BY <2>1, <2>2
<1>3. InitIn(jobs) => Greedy!LoopInit({Plain})
  <2> SUFFICES ASSUME InitIn(jobs)
               PROVE  Greedy!LoopInit({Plain})
    OBVIOUS
  <2>1. out = <<>> /\ phase = "draft"
    BY DEF InitIn
  <2>2. Result = <<>>
    BY <1>1, <2>1, ResultIs
  <2> QED
    BY <2>1, <2>2 DEF Greedy!LoopInit, Greedy!StartState, Plain
<1>4. RoundTypeOK /\ RoundInv /\ (RoundTypeOK /\ RoundInv)' /\ [RoundNext]_roundVars
        => [Greedy!LoopNext]_(Greedy!loopVars)
  BY GreedyStep
<1> QED
  BY <1>1, <1>2, <1>3, <1>4, PTL DEF RoundSpec, SpeculationIsGreedy

-----------------------------------------------------------------------------
(* A stream of the local engine (LocalEngine).                              *)

\* The text of no tokens is empty.
TextsAreRead(characters) == TextOf(<<>>) = <<>> /\ \A s \in Seq(Token) : TextOf(s) \in Seq(characters)

\* The tokens before the stop token that ends the stream.
ShownTokens == IF yielded # <<>> /\ yielded[Len(yielded)] \in call.stops
               THEN SubSeq(yielded, 1, Len(yielded) - 1) ELSE yielded

StreamInv ==
    /\ yielded \in Seq(Token)
    /\ call.kind = "stream" =>
         /\ \A i \in 1 .. Len(yielded) : yielded[i] \in call.stops => answered /\ i = Len(yielded)
         /\ Engine!WholeCharacters => shown = TextOf(ShownTokens)

\* What a text has grown by is put after what it was.
LEMMA GrowthIsAppended ==
    ASSUME NEW characters, NEW before \in Seq(characters), NEW text \in Seq(characters),
           Engine!IsPrefix(before, text)
    PROVE  before \o SubSeq(text, Len(before) + 1, Len(text)) = text
<1> DEFINE rest == SubSeq(text, Len(before) + 1, Len(text))
<1>1. Len(before) \in Nat /\ Len(text) \in Nat /\ Len(before) <= Len(text)
      /\ \A i \in 1 .. Len(before) : before[i] = text[i]
  <2>1. Len(before) <= Len(text) /\ SubSeq(before, 1, Len(before)) = SubSeq(text, 1, Len(before))
    BY DEF Engine!IsPrefix
  <2>2. Len(before) \in Nat /\ Len(text) \in Nat
    BY LenProperties
  <2>3. \A i \in 1 .. Len(before) : SubSeq(before, 1, Len(before))[i] = before[i]
                                    /\ SubSeq(text, 1, Len(before))[i] = text[i]
    BY <2>1, <2>2
  <2> QED
    BY <2>1, <2>2, <2>3
<1>2. /\ rest \in Seq(characters) /\ Len(rest) = Len(text) - Len(before)
      /\ \A i \in 1 .. Len(text) - Len(before) : rest[i] = text[Len(before) + i]
  BY <1>1
<1>3. /\ before \o rest \in Seq(characters) /\ Len(before \o rest) = Len(text)
      /\ \A i \in 1 .. Len(text) : (before \o rest)[i] = text[i]
  <2> HIDE DEF rest
  <2>1. before \o rest \in Seq(characters) /\ Len(before \o rest) = Len(text)
    BY <1>1, <1>2
  <2>2. ASSUME NEW i \in 1 .. Len(text)
        PROVE  (before \o rest)[i] = text[i]
    <3>1. CASE i <= Len(before)
      BY <1>1, <1>2, <3>1
    <3>2. CASE i > Len(before)
      <4>1. (before \o rest)[i] = rest[i - Len(before)] /\ i - Len(before) \in 1 .. Len(text) - Len(before)
        BY <1>1, <1>2, <3>2
      <4>2. Len(before) + (i - Len(before)) = i
        BY <1>1
      <4> QED
        BY <1>2, <4>1, <4>2
    <3>3. i <= Len(before) \/ i > Len(before)
      BY <1>1
    <3> QED
      BY ONLY <3>1, <3>2, <3>3
  <2> QED
    BY <2>1, <2>2
<1> HIDE DEF rest
<1>4. \A s, t \in Seq(characters) : Len(s) = Len(t) /\ (\A i \in 1 .. Len(t) : s[i] = t[i]) => s = t
  BY SeqEqual
<1> QED
  BY <1>3, <1>4 DEF rest

\* A token more.
LEMMA StreamYieldKeeps ==
    ASSUME NEW characters, TextsAreRead(characters), StreamInv, NEW token \in Token,
           Engine!Yield(token), ~answered,
           \/ token \notin call.stops /\ shown' = shown \o Engine!Delta(token) /\ answered' = answered
           \/ token \in call.stops /\ shown' = shown /\ answered'
           \/ call.kind # "stream"
    PROVE  StreamInv'
<1> DEFINE n == Len(yielded)
<1>1. yielded \in Seq(Token) /\ n \in Nat /\ call' = call /\ yielded' = Append(yielded, token)
  BY LenProperties DEF StreamInv, Engine!Yield
<1>2. /\ yielded' \in Seq(Token) /\ Len(yielded') = n + 1 /\ yielded'[n + 1] = token /\ yielded' # <<>>
      /\ \A i \in 1 .. n : yielded'[i] = yielded[i]
  BY <1>1
<1>3. SUFFICES ASSUME call.kind = "stream"
               PROVE  /\ \A i \in 1 .. Len(yielded') : yielded'[i] \in call.stops => answered' /\ i = Len(yielded')
                      /\ Engine!WholeCharacters' => shown' = TextOf(ShownTokens')
  BY <1>1, <1>2 DEF StreamInv
<1>4. \A i \in 1 .. n : yielded[i] \notin call.stops
  BY <1>3 DEF StreamInv
<1>5. \A i \in 1 .. Len(yielded') : yielded'[i] \in call.stops => answered' /\ i = Len(yielded')
  BY <1>1, <1>2, <1>3, <1>4
<1>6. ShownTokens = yielded
  <2>1. yielded # <<>> => n \in 1 .. n
    BY <1>1
  <2> QED
    BY <1>4, <2>1 DEF ShownTokens
<1>7. SubSeq(yielded', 1, n) = yielded /\ SubSeq(yielded', 1, n + 1) = yielded'
      /\ \A i \in 1 .. n : SubSeq(yielded', 1, i) = SubSeq(yielded, 1, i)
  BY <1>1
<1>8. ASSUME Engine!WholeCharacters'
      PROVE  shown' = TextOf(ShownTokens')
  <2>1. \A i, j \in 1 .. n + 1 : i <= j =>
          Engine!IsPrefix(TextOf(SubSeq(yielded', 1, i)), TextOf(SubSeq(yielded', 1, j)))
    BY <1>2, <1>8 DEF Engine!WholeCharacters
  <2>2. Engine!WholeCharacters
    <3>1. \A i \in DOMAIN yielded : i \in 1 .. n /\ i \in 1 .. n + 1
      BY <1>1
    <3>2. \A i, j \in DOMAIN yielded : i <= j =>
            Engine!IsPrefix(TextOf(SubSeq(yielded, 1, i)), TextOf(SubSeq(yielded, 1, j)))
      BY <1>7, <2>1, <3>1
    <3> QED
      BY <3>2 DEF Engine!WholeCharacters
  <2>3. shown = TextOf(yielded)
    BY <1>3, <1>6, <2>2 DEF StreamInv
  <2>4. CASE token \in call.stops
    <3>1. ShownTokens' = SubSeq(yielded', 1, n)
      BY <1>1, <1>2, <2>4 DEF ShownTokens
    <3> QED
      BY <1>3, <1>7, <2>3, <2>4, <3>1
  <2>5. CASE token \notin call.stops
    <3>1. ShownTokens' = yielded'
      BY <1>1, <1>2, <2>5 DEF ShownTokens
    <3>2. TextOf(yielded) \in Seq(characters) /\ TextOf(yielded') \in Seq(characters)
      BY <1>1, <1>2 DEF TextsAreRead
    <3>3. Engine!IsPrefix(TextOf(yielded), TextOf(yielded'))
      <4>1. CASE n = 0
        <5>1. TextOf(yielded) = <<>>
          BY <1>1, <4>1 DEF TextsAreRead
        <5>2. Len(TextOf(yielded')) \in Nat
          BY <3>2, LenProperties
        <5> QED
          BY <3>2, <5>1, <5>2 DEF Engine!IsPrefix
      <4>2. CASE n # 0
        <5>1. n \in 1 .. n + 1 /\ n + 1 \in 1 .. n + 1 /\ n <= n + 1
          BY <1>1, <4>2
        <5>2. Engine!IsPrefix(TextOf(SubSeq(yielded', 1, n)), TextOf(SubSeq(yielded', 1, n + 1)))
          BY <2>1, <5>1
        <5> QED
          BY <1>7, <5>2
      <4> QED
        BY <4>1, <4>2
    <3>4. shown' = TextOf(yielded) \o SubSeq(TextOf(yielded'), Len(TextOf(yielded)) + 1, Len(TextOf(yielded')))
      BY <1>1, <1>3, <2>3, <2>5 DEF Engine!Delta
    <3> QED
      BY <3>1, <3>2, <3>3, <3>4, GrowthIsAppended
  <2> QED
    BY <2>4, <2>5
<1> QED
  BY <1>5, <1>8

LEMMA StreamStays ==
    ASSUME StreamInv, UNCHANGED <<call, yielded, shown>>, answered => answered'
    PROVE  StreamInv'
<1>1. ShownTokens' = ShownTokens /\ (Engine!WholeCharacters' <=> Engine!WholeCharacters)
  BY DEF ShownTokens, Engine!WholeCharacters
<1> QED
  BY <1>1 DEF StreamInv

LEMMA StreamStepKeeps ==
    ASSUME NEW characters, TextsAreRead(characters), StreamInv,
           [Speculating \/ Engaged]_<<part, roundVars, engineVars>>
    PROVE  StreamInv'
<1>1. CASE UNCHANGED engineVars
  BY <1>1, StreamStays DEF engineVars
<1>2. CASE Engine!Next
  <2>1. CASE Engine!ChatYields
    <3>1. PICK token \in Token : Engine!Yield(token)
      BY <2>1 DEF Engine!ChatYields
    <3>2. call.kind # "stream" /\ call' = call
      BY <2>1, <3>1 DEF Engine!ChatYields, Engine!Yield
    <3>3. yielded' \in Seq(Token)
      BY <3>1 DEF StreamInv, Engine!Yield
    <3> QED
      BY <3>2, <3>3 DEF StreamInv
  <2>2. CASE Engine!ChatAnswers
    <3>1. call.kind # "stream" /\ UNCHANGED <<call, yielded>>
      BY <2>2 DEF Engine!ChatAnswers, Engine!loopVars
    <3> QED
      BY <3>1 DEF StreamInv
  <2>3. ASSUME NEW token \in Token, Engine!StreamYields(token) \/ Engine!StreamStops(token)
        PROVE  StreamInv'
    BY <2>3, StreamYieldKeeps DEF Engine!StreamYields, Engine!StreamStops
  <2>4. CASE Engine!StreamEnds \/ Engine!LoopReturns
    BY <2>4, StreamStays DEF Engine!StreamEnds, Engine!LoopReturns, Engine!Return, Engine!loopVars
  <2> QED
    BY <1>2, <2>1, <2>2, <2>3, <2>4 DEF Engine!Next
<1> QED
  BY <1>1, <1>2 DEF Speculating, Engaged

\* What is trimmed of a stream's tokens is the stop token that ended it.
LEMMA TrimmedIsShown ==
    ASSUME StreamInv, call.kind = "stream"
    PROVE  Engine!Trimmed(yielded) = ShownTokens
<1> DEFINE n == Len(yielded)
           S == {0} \cup {i \in DOMAIN yielded : yielded[i] \notin call.stops}
           m == IF yielded # <<>> /\ yielded[n] \in call.stops THEN n - 1 ELSE n
<1>1. yielded \in Seq(Token) /\ n \in Nat /\ DOMAIN yielded = 1 .. n /\ (yielded # <<>> <=> n # 0)
  BY LenProperties, EmptySeq DEF StreamInv
<1>2. \A i \in 1 .. n : yielded[i] \in call.stops => i = n
  BY DEF StreamInv
<1>3. m \in S /\ \A i \in S : m >= i
  <2>1. \A i \in S : i \in 0 .. n
    BY <1>1
  <2>2. \A i \in 0 .. n : i = 0 \/ yielded[i] \notin call.stops => i \in S
    BY <1>1
  <2>3. n \in S => yielded = <<>> \/ yielded[n] \notin call.stops
    BY <1>1
  <2> HIDE DEF S
  <2>4. CASE yielded # <<>> /\ yielded[n] \in call.stops
    <3>0. m = n - 1
      BY ONLY <2>4
    <3>1. m = n - 1 /\ n - 1 \in 0 .. n /\ n - 1 # n
      <4>1. n \in Nat /\ n # 0
        BY <1>1, <2>4
      <4> HIDE DEF n, m
      <4> QED
        BY ONLY <3>0, <4>1
    <3>2. n - 1 = 0 \/ yielded[n - 1] \notin call.stops
      <4>1. n \in Nat
        BY <1>1
      <4> HIDE DEF n, m
      <4> QED
        BY ONLY <1>2, <3>1, <4>1
    <3>3. n - 1 \in S /\ n \notin S
      BY <2>2, <2>3, <2>4, <3>1, <3>2
    <3>4. \A i \in S : i \in 0 .. n /\ i # n
      BY <2>1, <3>3
    <3>5. \A i \in S : n - 1 >= i
      BY <1>1, <3>4
    <3> QED
      BY <3>1, <3>3, <3>5
  <2>5. CASE ~(yielded # <<>> /\ yielded[n] \in call.stops)
    <3>0. m = n
      BY ONLY <2>5
    <3>1. m = n /\ n \in 0 .. n
      <4>1. n \in Nat
        BY <1>1
      <4> HIDE DEF n, m
      <4> QED
        BY ONLY <3>0, <4>1
    <3>2. n \in S
      BY <1>1, <2>2, <2>5, <3>1
    <3>3. \A i \in S : n >= i
      BY <1>1, <2>1
    <3> QED
      BY <3>1, <3>2, <3>3
  <2> QED
    BY <2>4, <2>5
<1>4. Engine!Max(S) = m
  <2>1. m \in Nat /\ S \subseteq Nat
    BY <1>1, <1>3
  <2> HIDE DEF m, S
  <2>2. Engine!Max(S) \in S /\ \A i \in S : Engine!Max(S) >= i
    BY <1>3 DEF Engine!Max
  <2>3. Engine!Max(S) \in Nat /\ Engine!Max(S) >= m /\ m >= Engine!Max(S)
    BY <1>3, <2>1, <2>2
  <2> QED
    BY <2>1, <2>3
<1>5. Engine!Trimmed(yielded) = SubSeq(yielded, 1, m)
  BY <1>4 DEF Engine!Trimmed
<1>6. SubSeq(yielded, 1, n) = yielded
  BY <1>1
<1> QED
  BY <1>5, <1>6 DEF ShownTokens

\* LocalEngineAdapter.stream and chat, for any tokens, stop tokens and texts: a
\* stream whose characters are whole has shown what chat makes of its tokens.
THEOREM StreamHolds ==
    ASSUME NEW characters, TextsAreRead(characters)
    PROVE  EnginesSpec => []StreamShowsTheAnswer
<1>1. EnginesInit => StreamInv
  <2> SUFFICES ASSUME EnginesInit PROVE StreamInv
    OBVIOUS
  <2>1. yielded = <<>> /\ shown = <<>>
    BY DEF EnginesInit, Engine!InitIn, Engine!LoopInit
  <2> QED
    BY <2>1 DEF StreamInv, ShownTokens, TextsAreRead
<1>2. StreamInv /\ [Speculating \/ Engaged]_<<part, roundVars, engineVars>> => StreamInv'
  BY StreamStepKeeps
<1>3. StreamInv => StreamShowsTheAnswer
  BY TrimmedIsShown DEF StreamInv, StreamShowsTheAnswer, Engine!StreamShowsTheAnswer
<1> QED
  BY <1>1, <1>2, <1>3, PTL DEF EnginesSpec

-----------------------------------------------------------------------------
(* The history.                                                             *)

\* A turn records into a conversation of its user's.
OwnConversation(t) == conv[t] \in DOMAIN owner /\ owner[conv[t]] = user[t]

TurnsOwnTheirs ==
    \A t \in Turns : pc[t] \in {"user", "reload", "assistant", "reply", "done"} => OwnConversation(t)

\* A row says where its turn records, and is older than the next.
RowsAreOfTheirTurn ==
    \A m \in messages :
        /\ m.conv = conv[m.turn] /\ OwnConversation(m.turn)
        /\ m.created < clock
        /\ pc[m.turn] \notin {"new", "create", "user"}

\* While its conversation exists, a turn has written what it has come to.
WrittenSoFar ==
    \A t \in Turns : conv[t] \in live =>
        /\ pc[t] \in {"reload", "assistant"} => \E q \in messages : Rows(t) = {q} /\ q.role = "user"
        /\ pc[t] \in {"reply", "done"} => QuestionThenAnswer(t)

RepliesAreDone == \A t \in Turns : replied[t] # NoId => pc[t] = "done" /\ replied[t] = conv[t]

\* A delete is about to remove rows of its conversation, all those of turns that
\* had ended when it read them.
DoomsAreRead ==
    \A d \in Deletes :
        /\ doomed[d].ended \subseteq Ended
        /\ \A m \in doomed[d].rows : m.conv = doomed[d].conv
        /\ \A m \in messages :
             m.conv = doomed[d].conv /\ m.turn \in doomed[d].ended => m \in doomed[d].rows

\* One gateway records one turn at a time.
OneAtATime == oneGateway => \A t, other \in Turns : Recording(t) /\ Recording(other) => t = other

\* A question that waits for its answer is the last message of all.
QuestionIsLast ==
    oneGateway => \A q \in messages :
        pc[q.turn] \in {"reload", "assistant"} => \A m \in messages : m.created <= q.created

HistoryInv ==
    /\ TurnsOwnTheirs
    /\ RowsAreOfTheirTurn
    /\ WrittenSoFar
    /\ RepliesAreDone
    /\ DoomsAreRead
    /\ OneAtATime
    /\ QuestionIsLast
    /\ AnswerFollowsQuestion

\* The row that a turn appends.
NewRow(t, role) == [conv |-> conv[t], turn |-> t, role |-> role, created |-> clock]

LEMMA NewRowIs ==
    ASSUME TypeOK, NEW t \in Turns, NEW role \in {"user", "assistant"}, conv[t] \in live
    PROVE  /\ NewRow(t, role) \in Message
           /\ NewRow(t, role).conv = conv[t] /\ NewRow(t, role).turn = t
           /\ NewRow(t, role).role = role /\ NewRow(t, role).created = clock
BY DEF TypeOK, NewRow, Message

\* Going on, a turn leaves the other turns where they are.
LEMMA GotoIs ==
    ASSUME TypeOK, NEW t \in Turns, NEW where \in PcType, Goto(t, where)
    PROVE  /\ pc' \in [Turns -> PcType] /\ pc'[t] = where
           /\ \A u \in Turns : u # t => pc'[u] = pc[u]
BY DEF TypeOK, Goto

\* A message is inserted, or the turn has failed.
LEMMA Appends ==
    ASSUME TypeOK, NEW t \in Turns, NEW role \in {"user", "assistant"}, NEW where \in PcType,
           AppendMessage(t, role, where)
    PROVE  /\ \/ /\ conv[t] \in live /\ pc'[t] = where
                 /\ messages' = messages \cup {NewRow(t, role)} /\ clock' = clock + 1
              \/ conv[t] \notin live /\ pc'[t] = "failed" /\ messages' = messages /\ clock' = clock
           /\ pc' \in [Turns -> PcType] /\ \A u \in Turns : u # t => pc'[u] = pc[u]
           /\ owner' = owner /\ live' = live /\ user' = user /\ conv' = conv /\ replied' = replied
           /\ dpc' = dpc /\ doomed' = doomed
<1>1. /\ owner' = owner /\ live' = live /\ user' = user /\ conv' = conv /\ replied' = replied
      /\ dpc' = dpc /\ doomed' = doomed
  BY DEF AppendMessage, deletes
<1>2. CASE conv[t] \in live
  <2>1. /\ messages' = messages \cup {NewRow(t, role)} /\ clock' = clock + 1 /\ Goto(t, where)
    BY <1>2 DEF AppendMessage, NewRow
  <2> QED
    BY <1>1, <1>2, <2>1, GotoIs
<1>3. CASE conv[t] \notin live
  <2>1. messages' = messages /\ clock' = clock /\ Goto(t, "failed")
    BY <1>3 DEF AppendMessage
  <2>2. "failed" \in PcType
    BY DEF PcType
  <2> QED
    BY <1>1, <1>3, <2>1, <2>2, GotoIs
<1> QED
  BY <1>2, <1>3

LEMMA HistoryTypeStep ==
    ASSUME TypeOK, Next
    PROVE  TypeOK'
<1>0. oneGateway' = oneGateway
  BY DEF Next
<1>1. ASSUME NEW t \in Turns, Turn(t)
      PROVE  TypeOK'
  <2>1. CASE Lookup(t)
    <3>1. PICK i \in DOMAIN owner \cup {NoId} :
            IF i \in live /\ owner[i] = user[t]
            THEN Goto(t, "user") /\ conv' = [conv EXCEPT ![t] = i]
            ELSE Goto(t, "create") /\ UNCHANGED conv
      BY <2>1 DEF Lookup
    <3>2. i \in Ids \cup {NoId}
      BY DEF TypeOK
    <3>3. pc' \in [Turns -> PcType]
      BY <3>1, GotoIs DEF PcType
    <3>4. conv' \in [Turns -> Ids \cup {NoId}]
      BY <3>1, <3>2 DEF TypeOK
    <3> QED
      BY <1>0, <2>1, <3>3, <3>4 DEF Lookup, TypeOK, table, deletes
  <2>2. CASE Create(t)
    <3>1. PICK i \in Ids \ DOMAIN owner :
            /\ owner' = [j \in DOMAIN owner \cup {i} |-> IF j = i THEN user[t] ELSE owner[j]]
            /\ live' = live \cup {i}
            /\ conv' = [conv EXCEPT ![t] = i]
      BY <2>2 DEF Create
    <3>2. pc' \in [Turns -> PcType]
      BY <2>2, GotoIs DEF Create, PcType
    <3>3. /\ DOMAIN owner' = DOMAIN owner \cup {i}
          /\ \A j \in DOMAIN owner' : owner'[j] \in Users
      BY <3>1 DEF TypeOK
    <3> QED
      BY <1>0, <2>2, <3>1, <3>2, <3>3 DEF Create, TypeOK, deletes
  <2>3. ASSUME NEW role \in {"user", "assistant"}, NEW where \in PcType, AppendMessage(t, role, where)
        PROVE  TypeOK'
    <3>1. /\ pc' \in [Turns -> PcType]
          /\ owner' = owner /\ live' = live /\ user' = user /\ conv' = conv /\ replied' = replied
          /\ dpc' = dpc /\ doomed' = doomed
      BY <2>3, Appends
    <3>2. CASE /\ conv[t] \in live
               /\ messages' = messages \cup {NewRow(t, role)} /\ clock' = clock + 1
      <4>1. NewRow(t, role) \in Message
        BY <3>2, NewRowIs
      <4>2. messages' \subseteq Message /\ clock' \in Nat
        BY <3>2, <4>1 DEF TypeOK
      <4> QED
        BY <1>0, <3>1, <4>2 DEF TypeOK
    <3>3. CASE messages' = messages /\ clock' = clock
      BY <1>0, <3>1, <3>3 DEF TypeOK
    <3> QED
      BY <2>3, <3>2, <3>3, Appends
  <2>4. CASE AppendUser(t) \/ AppendAssistant(t)
    BY <2>3, <2>4 DEF AppendUser, AppendAssistant, PcType
  <2>5. CASE Reload(t)
    <3>1. pc' \in [Turns -> PcType]
      BY <2>5, GotoIs DEF Reload, PcType
    <3> QED
      BY <1>0, <2>5, <3>1 DEF Reload, TypeOK, table, deletes
  <2>6. CASE Reply(t)
    <3>1. pc' \in [Turns -> PcType]
      BY <2>6, GotoIs DEF Reply, PcType
    <3>2. replied' \in [Turns -> Ids \cup {NoId}]
      BY <2>6 DEF Reply, TypeOK
    <3> QED
      BY <1>0, <2>6, <3>1, <3>2 DEF Reply, TypeOK, table, deletes
  <2>7. CASE Crash(t)
    <3>1. pc' \in [Turns -> PcType]
      BY <2>7, GotoIs DEF Crash, PcType
    <3> QED
      BY <1>0, <2>7, <3>1 DEF Crash, TypeOK, table, deletes
  <2> QED
    BY <1>1, <2>1, <2>2, <2>4, <2>5, <2>6, <2>7 DEF Turn
<1>2. ASSUME NEW d \in Deletes, Delete(d)
      PROVE  TypeOK'
  <2>1. NoDoom \in Doom
    BY DEF NoDoom, Doom
  <2>2. CASE DeleteRead(d)
    <3>1. PICK i \in live :
            doomed' = [doomed EXCEPT ![d] = [conv |-> i, rows |-> RowsOf(i), ended |-> Ended]]
      BY <2>2 DEF DeleteRead
    <3>2. [conv |-> i, rows |-> RowsOf(i), ended |-> Ended] \in Doom
      BY DEF TypeOK, Doom, RowsOf, Ended
    <3>3. doomed' \in [Deletes -> Doom]
      BY <3>1, <3>2 DEF TypeOK
    <3> QED
      BY <1>0, <2>2, <3>3 DEF DeleteRead, TypeOK, table, turns
  <2>3. CASE DeleteCommit(d)
    BY <1>0, <2>1, <2>3 DEF DeleteCommit, TypeOK, turns
  <2> QED
    BY <1>2, <2>2, <2>3 DEF Delete
<1> QED
  BY <1>1, <1>2 DEF Next

-----------------------------------------------------------------------------
(* What each step of a turn does, without the functions it updates.          *)

LEMMA LookupIs ==
    ASSUME TypeOK, NEW t \in Turns, Lookup(t)
    PROVE  /\ pc[t] = "new" /\ \A u \in Turns : u # t => pc'[u] = pc[u] /\ conv'[u] = conv[u]
           /\ \/ pc'[t] = "user" /\ conv'[t] \in live /\ owner[conv'[t]] = user[t]
              \/ pc'[t] = "create" /\ conv' = conv
           /\ oneGateway => \A u \in Turns : ~Recording(u)
           /\ pc' \in [Turns -> PcType]
           /\ owner' = owner /\ live' = live /\ messages' = messages /\ clock' = clock
           /\ user' = user /\ replied' = replied /\ dpc' = dpc /\ doomed' = doomed
<1>1. PICK i \in DOMAIN owner \cup {NoId} :
        IF i \in live /\ owner[i] = user[t]
        THEN Goto(t, "user") /\ conv' = [conv EXCEPT ![t] = i]
        ELSE Goto(t, "create") /\ UNCHANGED conv
  BY DEF Lookup
<1>2. "user" \in PcType /\ "create" \in PcType
  BY DEF PcType
<1>3. /\ pc[t] = "new" /\ (oneGateway => \A u \in Turns : ~Recording(u))
      /\ owner' = owner /\ live' = live /\ messages' = messages /\ clock' = clock
      /\ user' = user /\ replied' = replied /\ dpc' = dpc /\ doomed' = doomed
  BY DEF Lookup, table, deletes
<1>4. CASE i \in live /\ owner[i] = user[t]
  <2>1. Goto(t, "user") /\ conv' = [conv EXCEPT ![t] = i]
    BY <1>1, <1>4
  <2>2. conv'[t] = i /\ \A u \in Turns : u # t => conv'[u] = conv[u]
    BY <2>1 DEF TypeOK
  <2>3. /\ pc' \in [Turns -> PcType] /\ pc'[t] = "user"
        /\ \A u \in Turns : u # t => pc'[u] = pc[u]
    BY <1>2, <2>1, GotoIs
  <2> QED
    BY <1>3, <1>4, <2>2, <2>3
<1>5. CASE ~(i \in live /\ owner[i] = user[t])
  <2>1. Goto(t, "create") /\ conv' = conv
    BY <1>1, <1>5
  <2>2. /\ pc' \in [Turns -> PcType] /\ pc'[t] = "create"
        /\ \A u \in Turns : u # t => pc'[u] = pc[u]
    BY <1>2, <2>1, GotoIs
  <2> QED
    BY <1>3, <2>1, <2>2
<1> QED
  BY <1>4, <1>5

LEMMA CreateIs ==
    ASSUME TypeOK, NEW t \in Turns, Create(t)
    PROVE  \E i \in Ids \ DOMAIN owner :
             /\ DOMAIN owner' = DOMAIN owner \cup {i} /\ owner'[i] = user[t]
             /\ \A j \in DOMAIN owner : owner'[j] = owner[j]
             /\ live' = live \cup {i} /\ conv'[t] = i
             /\ pc[t] = "create" /\ pc'[t] = "user"
             /\ \A u \in Turns : u # t => pc'[u] = pc[u] /\ conv'[u] = conv[u]
             /\ messages' = messages /\ clock' = clock
             /\ user' = user /\ replied' = replied /\ dpc' = dpc /\ doomed' = doomed
<1>1. PICK i \in Ids \ DOMAIN owner :
        /\ owner' = [j \in DOMAIN owner \cup {i} |-> IF j = i THEN user[t] ELSE owner[j]]
        /\ live' = live \cup {i}
        /\ conv' = [conv EXCEPT ![t] = i]
  BY DEF Create
<1>2. /\ DOMAIN owner' = DOMAIN owner \cup {i} /\ owner'[i] = user[t]
      /\ \A j \in DOMAIN owner : owner'[j] = owner[j]
  BY <1>1
<1>3. conv'[t] = i /\ \A u \in Turns : u # t => conv'[u] = conv[u]
  BY <1>1 DEF TypeOK
<1>4. Goto(t, "user") /\ "user" \in PcType
  BY DEF Create, PcType
<1>5. pc'[t] = "user" /\ \A u \in Turns : u # t => pc'[u] = pc[u]
  BY <1>4, GotoIs
<1>6. /\ pc[t] = "create" /\ messages' = messages /\ clock' = clock
      /\ user' = user /\ replied' = replied /\ dpc' = dpc /\ doomed' = doomed
  BY DEF Create, deletes
<1> QED
  BY <1>1, <1>2, <1>3, <1>5, <1>6

\* The steps that write nothing, after the conversation is known.
Onward(t) == Reload(t) \/ Reply(t) \/ Crash(t)

LEMMA OnwardIs ==
    ASSUME TypeOK, NEW t \in Turns, Onward(t)
    PROVE  /\ \/ pc[t] = "reload" /\ pc'[t] = "assistant" /\ replied' = replied
              \/ pc[t] = "reply" /\ pc'[t] = "done" /\ replied'[t] = conv[t]
              \/ pc'[t] = "failed" /\ replied' = replied
           /\ pc[t] \notin {"new", "done", "failed"}
           /\ \A u \in Turns : u # t => pc'[u] = pc[u] /\ replied'[u] = replied[u]
           /\ owner' = owner /\ live' = live /\ messages' = messages /\ clock' = clock
           /\ user' = user /\ conv' = conv /\ dpc' = dpc /\ doomed' = doomed
<1>1. "assistant" \in PcType /\ "done" \in PcType /\ "failed" \in PcType
  BY DEF PcType
<1>2. CASE Reload(t)
  <2>1. /\ pc[t] = "reload" /\ (Goto(t, "assistant") \/ Goto(t, "failed"))
        /\ owner' = owner /\ live' = live /\ messages' = messages /\ clock' = clock
        /\ user' = user /\ conv' = conv /\ replied' = replied /\ dpc' = dpc /\ doomed' = doomed
    BY <1>2 DEF Reload, table, deletes
  <2>2. /\ pc'[t] \in {"assistant", "failed"}
        /\ \A u \in Turns : u # t => pc'[u] = pc[u]
    BY <1>1, <2>1, GotoIs
  <2> QED
    BY <2>1, <2>2
<1>3. CASE Reply(t)
  <2>1. /\ pc[t] = "reply"
        /\ \/ Goto(t, "done") /\ replied' = [replied EXCEPT ![t] = conv[t]]
           \/ Goto(t, "failed") /\ replied' = replied
        /\ owner' = owner /\ live' = live /\ messages' = messages /\ clock' = clock
        /\ user' = user /\ conv' = conv /\ dpc' = dpc /\ doomed' = doomed
    BY <1>3 DEF Reply, table, deletes
  <2>2. replied' = [replied EXCEPT ![t] = conv[t]] =>
          replied'[t] = conv[t] /\ \A u \in Turns : u # t => replied'[u] = replied[u]
    BY DEF TypeOK
  <2> QED
    BY <1>1, <2>1, <2>2, GotoIs
<1>4. CASE Crash(t)
  <2>1. /\ pc[t] \notin {"new", "done", "failed"} /\ Goto(t, "failed")
        /\ owner' = owner /\ live' = live /\ messages' = messages /\ clock' = clock
        /\ user' = user /\ conv' = conv /\ replied' = replied /\ dpc' = dpc /\ doomed' = doomed
    BY <1>4 DEF Crash, Recording, table, deletes
  <2> QED
    BY <1>1, <2>1, GotoIs
<1> QED
  BY <1>2, <1>3, <1>4 DEF Onward

-----------------------------------------------------------------------------
(* HistoryInv is inductive: one lemma for each kind of step.                *)

\* A turn that goes on does not take back that others ended.
LEMMA EndedStays ==
    ASSUME NEW t \in Turns, pc[t] \notin {"done", "failed"}, \A u \in Turns : u # t => pc'[u] = pc[u]
    PROVE  Ended \subseteq Ended'
BY DEF Ended

LEMMA LookupStep ==
    ASSUME TypeOK, HistoryInv, NEW t \in Turns, Lookup(t), oneGateway' = oneGateway
    PROVE  HistoryInv'
<1>1. /\ pc[t] = "new" /\ \A u \in Turns : u # t => pc'[u] = pc[u] /\ conv'[u] = conv[u]
      /\ \/ pc'[t] = "user" /\ conv'[t] \in live /\ owner[conv'[t]] = user[t]
         \/ pc'[t] = "create" /\ conv' = conv
      /\ oneGateway => \A u \in Turns : ~Recording(u)
      /\ owner' = owner /\ live' = live /\ messages' = messages /\ clock' = clock
      /\ user' = user /\ replied' = replied /\ dpc' = dpc /\ doomed' = doomed
  BY LookupIs
<1>2. live \subseteq DOMAIN owner /\ \A m \in messages : m.turn \in Turns
  BY DEF TypeOK, Message
<1>3. pc'[t] \in {"user", "create"}
  BY <1>1
<1>4. \A m \in messages : m.turn # t
  BY <1>1 DEF HistoryInv, RowsAreOfTheirTurn
<1>5. TurnsOwnTheirs'
  BY <1>1, <1>2 DEF HistoryInv, TurnsOwnTheirs, OwnConversation
<1>6. RowsAreOfTheirTurn'
  BY <1>1, <1>2, <1>4 DEF HistoryInv, RowsAreOfTheirTurn, OwnConversation
<1>7. WrittenSoFar'
  <2>1. \A u \in Turns : Rows(u)' = Rows(u) /\ (QuestionThenAnswer(u)' <=> QuestionThenAnswer(u))
    BY <1>1 DEF Rows, QuestionThenAnswer
  <2> QED
    BY <1>1, <1>3, <2>1 DEF HistoryInv, WrittenSoFar
<1>8. RepliesAreDone'
  BY <1>1 DEF HistoryInv, RepliesAreDone
<1>9. DoomsAreRead'
  <2>1. Ended \subseteq Ended'
    BY <1>1, EndedStays
  <2> QED
    BY <1>1, <2>1 DEF HistoryInv, DoomsAreRead
<1>10. OneAtATime'
  BY <1>1 DEF OneAtATime, Recording
<1>11. QuestionIsLast'
  BY <1>1, <1>2, <1>4 DEF HistoryInv, QuestionIsLast
<1>12. AnswerFollowsQuestion'
  BY <1>1 DEF HistoryInv, AnswerFollowsQuestion, NextTo
<1> QED
  BY <1>5, <1>6, <1>7, <1>8, <1>9, <1>10, <1>11, <1>12 DEF HistoryInv

LEMMA CreateStep ==
    ASSUME TypeOK, HistoryInv, NEW t \in Turns, Create(t), oneGateway' = oneGateway
    PROVE  HistoryInv'
<1>1. PICK i \in Ids \ DOMAIN owner :
        /\ DOMAIN owner' = DOMAIN owner \cup {i} /\ owner'[i] = user[t]
        /\ \A j \in DOMAIN owner : owner'[j] = owner[j]
        /\ live' = live \cup {i} /\ conv'[t] = i
        /\ pc[t] = "create" /\ pc'[t] = "user"
        /\ \A u \in Turns : u # t => pc'[u] = pc[u] /\ conv'[u] = conv[u]
        /\ messages' = messages /\ clock' = clock
        /\ user' = user /\ replied' = replied /\ dpc' = dpc /\ doomed' = doomed
  BY CreateIs
<1>2. live \subseteq DOMAIN owner /\ \A m \in messages : m.turn \in Turns
  BY DEF TypeOK, Message
<1>4. \A m \in messages : m.turn # t
  BY <1>1 DEF HistoryInv, RowsAreOfTheirTurn
<1>5. TurnsOwnTheirs'
  BY <1>1, <1>2 DEF HistoryInv, TurnsOwnTheirs, OwnConversation
<1>6. RowsAreOfTheirTurn'
  BY <1>1, <1>2, <1>4 DEF HistoryInv, RowsAreOfTheirTurn, OwnConversation
<1>7. WrittenSoFar'
  <2>1. \A u \in Turns : Rows(u)' = Rows(u) /\ (QuestionThenAnswer(u)' <=> QuestionThenAnswer(u))
    BY <1>1 DEF Rows, QuestionThenAnswer
  <2>2. ASSUME NEW u \in Turns, u # t, pc[u] \in {"reload", "assistant", "reply", "done"}, conv'[u] \in live'
        PROVE  conv[u] \in live
    BY <1>1, <2>2 DEF HistoryInv, TurnsOwnTheirs, OwnConversation
  <2> QED
    BY <1>1, <2>1, <2>2 DEF HistoryInv, WrittenSoFar
<1>8. RepliesAreDone'
  BY <1>1 DEF HistoryInv, RepliesAreDone
<1>9. DoomsAreRead'
  <2>1. Ended \subseteq Ended'
    BY <1>1, EndedStays
  <2> QED
    BY <1>1, <2>1 DEF HistoryInv, DoomsAreRead
<1>10. OneAtATime'
  BY <1>1 DEF HistoryInv, OneAtATime, Recording
<1>11. QuestionIsLast'
  BY <1>1, <1>2, <1>4 DEF HistoryInv, QuestionIsLast
<1>12. AnswerFollowsQuestion'
  <2>1. \A m \in messages : m.conv \in live' => m.conv \in live
    BY <1>1 DEF HistoryInv, RowsAreOfTheirTurn, OwnConversation
  <2> QED
    BY <1>1, <2>1 DEF HistoryInv, AnswerFollowsQuestion, NextTo
<1> QED
  BY <1>5, <1>6, <1>7, <1>8, <1>9, <1>10, <1>11, <1>12 DEF HistoryInv

LEMMA OnwardStep ==
    ASSUME TypeOK, HistoryInv, NEW t \in Turns, Onward(t), oneGateway' = oneGateway
    PROVE  HistoryInv'
<1>1. /\ \/ pc[t] = "reload" /\ pc'[t] = "assistant" /\ replied' = replied
         \/ pc[t] = "reply" /\ pc'[t] = "done" /\ replied'[t] = conv[t]
         \/ pc'[t] = "failed" /\ replied' = replied
      /\ pc[t] \notin {"new", "done", "failed"}
      /\ \A u \in Turns : u # t => pc'[u] = pc[u] /\ replied'[u] = replied[u]
      /\ owner' = owner /\ live' = live /\ messages' = messages /\ clock' = clock
      /\ user' = user /\ conv' = conv /\ dpc' = dpc /\ doomed' = doomed
  BY OnwardIs
<1>2. \A m \in messages : m.turn \in Turns
  BY DEF TypeOK, Message
<1>5. TurnsOwnTheirs'
  BY <1>1 DEF HistoryInv, TurnsOwnTheirs, OwnConversation
<1>6. RowsAreOfTheirTurn'
  BY <1>1, <1>2 DEF HistoryInv, RowsAreOfTheirTurn, OwnConversation
<1>7. WrittenSoFar'
  <2>1. \A u \in Turns : Rows(u)' = Rows(u) /\ (QuestionThenAnswer(u)' <=> QuestionThenAnswer(u))
    BY <1>1 DEF Rows, QuestionThenAnswer
  <2> QED
    BY <1>1, <2>1 DEF HistoryInv, WrittenSoFar
<1>8. RepliesAreDone'
  BY <1>1 DEF HistoryInv, RepliesAreDone
<1>9. DoomsAreRead'
  <2>1. Ended \subseteq Ended'
    BY <1>1, EndedStays
  <2> QED
    BY <1>1, <2>1 DEF HistoryInv, DoomsAreRead
<1>10. OneAtATime'
  <2>1. \A u \in Turns : Recording(u)' => Recording(u)
    BY <1>1 DEF Recording
  <2> QED
    BY <1>1, <2>1 DEF HistoryInv, OneAtATime
<1>11. QuestionIsLast'
  <2>1. \A u \in Turns : pc'[u] \in {"reload", "assistant"} => pc[u] \in {"reload", "assistant"}
    BY <1>1
  <2> QED
    BY <1>1, <1>2, <2>1 DEF HistoryInv, QuestionIsLast
<1>12. AnswerFollowsQuestion'
  BY <1>1 DEF HistoryInv, AnswerFollowsQuestion, NextTo
<1> QED
  BY <1>5, <1>6, <1>7, <1>8, <1>9, <1>10, <1>11, <1>12 DEF HistoryInv

\* A message that cannot be inserted: the turn fails, as in a crash.
LEMMA RefusedIsCrash ==
    ASSUME NEW t \in Turns, NEW role, NEW where, AppendMessage(t, role, where), conv[t] \notin live,
           pc[t] \in {"user", "assistant"}
    PROVE  Onward(t)
BY DEF AppendMessage, Onward, Crash, Recording, table

LEMMA AppendUserStep ==
    ASSUME TypeOK, HistoryInv, NEW t \in Turns, AppendUser(t), oneGateway' = oneGateway
    PROVE  HistoryInv'
<1>1. pc[t] = "user" /\ AppendMessage(t, "user", "reload")
  BY DEF AppendUser
<1>2. CASE conv[t] \notin live
  BY <1>1, <1>2, RefusedIsCrash, OnwardStep
<1>3. CASE conv[t] \in live
  <2> DEFINE q == NewRow(t, "user")
  <2>1. /\ pc'[t] = "reload" /\ messages' = messages \cup {q} /\ clock' = clock + 1
        /\ \A u \in Turns : u # t => pc'[u] = pc[u]
        /\ owner' = owner /\ live' = live /\ user' = user /\ conv' = conv /\ replied' = replied
        /\ dpc' = dpc /\ doomed' = doomed
    BY <1>1, <1>3, Appends DEF PcType
  <2>2. q.conv = conv[t] /\ q.turn = t /\ q.role = "user" /\ q.created = clock
    BY <1>3, NewRowIs
  <2>3. /\ \A m \in messages : m.turn \in Turns /\ m.created \in Nat /\ m.created < clock /\ m.turn # t
        /\ clock \in Nat
    BY <1>1 DEF TypeOK, Message, HistoryInv, RowsAreOfTheirTurn
  <2> HIDE DEF q
  <2>4. \A m \in messages' : m.turn = t => m = q
    BY <2>1, <2>3
  <2>5. TurnsOwnTheirs'
    BY <1>1, <2>1 DEF HistoryInv, TurnsOwnTheirs, OwnConversation
  <2>6. RowsAreOfTheirTurn'
    <3> SUFFICES ASSUME NEW m \in messages'
                 PROVE  /\ m.conv = conv'[m.turn] /\ OwnConversation(m.turn)'
                        /\ m.created < clock'
                        /\ pc'[m.turn] \notin {"new", "create", "user"}
      BY DEF RowsAreOfTheirTurn
    <3>1. CASE m = q
      BY <1>1, <2>1, <2>2, <2>3, <3>1 DEF HistoryInv, TurnsOwnTheirs, OwnConversation
    <3>2. CASE m \in messages
      BY <2>1, <2>3, <3>2 DEF HistoryInv, RowsAreOfTheirTurn, OwnConversation
    <3> QED
      BY <2>1, <3>1, <3>2
  <2>7. WrittenSoFar'
    <3>1. Rows(t)' = {q}
      BY <2>1, <2>2, <2>4 DEF Rows
    <3>2. ASSUME NEW u \in Turns, u # t
          PROVE  Rows(u)' = Rows(u) /\ messages \subseteq messages'
      BY <2>1, <2>2, <3>2 DEF Rows
    <3>3. ASSUME NEW u \in Turns, u # t, QuestionThenAnswer(u)
          PROVE  QuestionThenAnswer(u)'
      BY <3>2, <3>3 DEF QuestionThenAnswer
    <3>4. ASSUME NEW u \in Turns, u # t, \E m \in messages : Rows(u) = {m} /\ m.role = "user"
          PROVE  \E m \in messages' : Rows(u)' = {m} /\ m.role = "user"
      BY <3>2, <3>4
    <3> SUFFICES ASSUME NEW u \in Turns, conv'[u] \in live'
                 PROVE  /\ pc'[u] \in {"reload", "assistant"} =>
                             \E m \in messages' : Rows(u)' = {m} /\ m.role = "user"
                        /\ pc'[u] \in {"reply", "done"} => QuestionThenAnswer(u)'
      BY DEF WrittenSoFar
    <3>5. CASE u = t
      BY <2>1, <2>2, <3>1, <3>5
    <3>6. CASE u # t
      <4>1. /\ pc[u] \in {"reload", "assistant"} => \E m \in messages : Rows(u) = {m} /\ m.role = "user"
            /\ pc[u] \in {"reply", "done"} => QuestionThenAnswer(u)
        BY <2>1 DEF HistoryInv, WrittenSoFar
      <4> QED
        BY <2>1, <3>3, <3>4, <3>6, <4>1
    <3> QED
      BY <3>5, <3>6
  <2>8. RepliesAreDone'
    BY <1>1, <2>1 DEF HistoryInv, RepliesAreDone
  <2>9. DoomsAreRead'
    <3>1. Ended \subseteq Ended' /\ t \notin Ended
      BY <1>1, <2>1, EndedStays DEF Ended
    <3> QED
      BY <2>1, <2>2, <3>1 DEF HistoryInv, DoomsAreRead
  <2>10. OneAtATime'
    <3>1. \A u \in Turns : Recording(u)' => Recording(u)
      BY <1>1, <2>1 DEF Recording
    <3> QED
      BY <2>1, <3>1 DEF HistoryInv, OneAtATime
  <2>11. QuestionIsLast'
    <3>1. \A m \in messages' : m.created <= q.created
      BY <2>1, <2>2, <2>3
    <3>2. oneGateway => \A m \in messages' : pc'[m.turn] \in {"reload", "assistant"} => m = q
      <4>1. oneGateway => \A u \in Turns : u # t => ~Recording(u)
        BY <1>1 DEF HistoryInv, OneAtATime, Recording
      <4>2. \A u \in Turns : u # t /\ ~Recording(u) => pc'[u] \notin {"reload", "assistant"}
        BY <2>1 DEF Recording
      <4> QED
        BY <2>1, <2>2, <2>3, <4>1, <4>2
    <3> QED
      BY <3>1, <3>2 DEF QuestionIsLast
  <2>12. AnswerFollowsQuestion'
    <3> SUFFICES ASSUME oneGateway, NEW a \in messages', a.role = "assistant", a.conv \in live
                 PROVE  \E m \in messages' : m.turn = a.turn /\ m.role = "user" /\ NextTo(m, a)'
      BY <2>1 DEF AnswerFollowsQuestion
    <3>1. a \in messages
      BY <2>1, <2>2
    <3>2. PICK m \in messages : m.turn = a.turn /\ m.role = "user" /\ NextTo(m, a)
      BY <3>1 DEF HistoryInv, AnswerFollowsQuestion
    <3>3. a.created <= q.created
      BY <2>2, <2>3, <3>1
    <3>4. NextTo(m, a)'
      BY <2>1, <3>2, <3>3 DEF NextTo
    <3> QED
      BY <2>1, <3>2, <3>4
  <2> QED
    BY <2>5, <2>6, <2>7, <2>8, <2>9, <2>10, <2>11, <2>12 DEF HistoryInv
<1> QED
  BY <1>2, <1>3

LEMMA AppendAssistantStep ==
    ASSUME TypeOK, HistoryInv, NEW t \in Turns, AppendAssistant(t), oneGateway' = oneGateway
    PROVE  HistoryInv'
<1>1. pc[t] = "assistant" /\ AppendMessage(t, "assistant", "reply")
  BY DEF AppendAssistant
<1>2. CASE conv[t] \notin live
  BY <1>1, <1>2, RefusedIsCrash, OnwardStep
<1>3. CASE conv[t] \in live
  <2> DEFINE a == NewRow(t, "assistant")
  <2>1. /\ pc'[t] = "reply" /\ messages' = messages \cup {a} /\ clock' = clock + 1
        /\ \A u \in Turns : u # t => pc'[u] = pc[u]
        /\ owner' = owner /\ live' = live /\ user' = user /\ conv' = conv /\ replied' = replied
        /\ dpc' = dpc /\ doomed' = doomed
    BY <1>1, <1>3, Appends DEF PcType
  <2>2. a.conv = conv[t] /\ a.turn = t /\ a.role = "assistant" /\ a.created = clock
    BY <1>3, NewRowIs
  <2>3. /\ \A m \in messages : m.turn \in Turns /\ m.created \in Nat /\ m.created < clock
        /\ clock \in Nat
    BY <1>1 DEF TypeOK, Message, HistoryInv, RowsAreOfTheirTurn
  <2> HIDE DEF a
  <2>4. PICK q \in messages : Rows(t) = {q} /\ q.role = "user"
    BY <1>1, <1>3 DEF HistoryInv, WrittenSoFar
  <2>5. q.turn = t /\ q.conv = conv[t] /\ q.created < clock
    <3>1. q.turn = t
      BY <2>4 DEF Rows
    <3> QED
      BY <2>3, <3>1 DEF HistoryInv, RowsAreOfTheirTurn
  <2>6. TurnsOwnTheirs'
    BY <1>1, <2>1 DEF HistoryInv, TurnsOwnTheirs, OwnConversation
  <2>7. RowsAreOfTheirTurn'
    <3> SUFFICES ASSUME NEW m \in messages'
                 PROVE  /\ m.conv = conv'[m.turn] /\ OwnConversation(m.turn)'
                        /\ m.created < clock'
                        /\ pc'[m.turn] \notin {"new", "create", "user"}
      BY DEF RowsAreOfTheirTurn
    <3>1. CASE m = a
      BY <1>1, <2>1, <2>2, <2>3, <3>1 DEF HistoryInv, TurnsOwnTheirs, OwnConversation
    <3>2. CASE m \in messages
      BY <2>1, <2>3, <3>2 DEF HistoryInv, RowsAreOfTheirTurn, OwnConversation
    <3> QED
      BY <2>1, <3>1, <3>2
  <2>8. WrittenSoFar'
    <3>1. QuestionThenAnswer(t)'
      <4>1. Rows(t)' = {q, a}
        BY <2>1, <2>2, <2>4 DEF Rows
      <4> QED
        BY <2>1, <2>2, <2>4, <2>5, <4>1 DEF QuestionThenAnswer
    <3>2. ASSUME NEW u \in Turns, u # t
          PROVE  Rows(u)' = Rows(u) /\ messages \subseteq messages'
      BY <2>1, <2>2, <3>2 DEF Rows
    <3>3. ASSUME NEW u \in Turns, u # t, QuestionThenAnswer(u)
          PROVE  QuestionThenAnswer(u)'
      BY <3>2, <3>3 DEF QuestionThenAnswer
    <3>4. ASSUME NEW u \in Turns, u # t, \E m \in messages : Rows(u) = {m} /\ m.role = "user"
          PROVE  \E m \in messages' : Rows(u)' = {m} /\ m.role = "user"
      BY <3>2, <3>4
    <3> SUFFICES ASSUME NEW u \in Turns, conv'[u] \in live'
                 PROVE  /\ pc'[u] \in {"reload", "assistant"} =>
                             \E m \in messages' : Rows(u)' = {m} /\ m.role = "user"
                        /\ pc'[u] \in {"reply", "done"} => QuestionThenAnswer(u)'
      BY DEF WrittenSoFar
    <3>5. CASE u = t
      BY <2>1, <3>1, <3>5
    <3>6. CASE u # t
      <4>1. /\ pc[u] \in {"reload", "assistant"} => \E m \in messages : Rows(u) = {m} /\ m.role = "user"
            /\ pc[u] \in {"reply", "done"} => QuestionThenAnswer(u)
        BY <2>1 DEF HistoryInv, WrittenSoFar
      <4> QED
        BY <2>1, <3>3, <3>4, <3>6, <4>1
    <3> QED
      BY <3>5, <3>6
  <2>9. RepliesAreDone'
    BY <1>1, <2>1 DEF HistoryInv, RepliesAreDone
  <2>10. DoomsAreRead'
    <3>1. Ended \subseteq Ended' /\ t \notin Ended
      BY <1>1, <2>1, EndedStays DEF Ended
    <3> QED
      BY <2>1, <2>2, <3>1 DEF HistoryInv, DoomsAreRead
  <2>11. oneGateway => \A u \in Turns : u # t => ~Recording(u)
    BY <1>1 DEF HistoryInv, OneAtATime, Recording
  <2>12. OneAtATime'
    <3>1. \A u \in Turns : Recording(u)' => Recording(u)
      BY <1>1, <2>1 DEF Recording
    <3> QED
      BY <2>1, <3>1 DEF HistoryInv, OneAtATime
  <2>13. QuestionIsLast'
    <3>1. \A u \in Turns : u # t /\ ~Recording(u) => pc'[u] \notin {"reload", "assistant"}
      BY <2>1 DEF Recording
    <3> QED
      BY <2>1, <2>2, <2>3, <2>11, <3>1 DEF QuestionIsLast
  <2>14. AnswerFollowsQuestion'
    <3> SUFFICES ASSUME oneGateway, NEW b \in messages', b.role = "assistant", b.conv \in live
                 PROVE  \E m \in messages' : m.turn = b.turn /\ m.role = "user" /\ NextTo(m, b)'
      BY <2>1 DEF AnswerFollowsQuestion
    <3>1. CASE b = a
      <4>1. \A m \in messages : m.created <= q.created
        BY <1>1, <2>4, <2>5 DEF HistoryInv, QuestionIsLast
      <4>2. NextTo(q, b)'
        BY <2>1, <2>2, <2>3, <2>5, <3>1, <4>1 DEF NextTo
      <4> QED
        BY <2>1, <2>2, <2>4, <2>5, <3>1, <4>2
    <3>2. CASE b \in messages
      <4>1. PICK m \in messages : m.turn = b.turn /\ m.role = "user" /\ NextTo(m, b)
        BY <3>2 DEF HistoryInv, AnswerFollowsQuestion
      <4>2. b.created <= a.created
        BY <2>2, <2>3, <3>2
      <4>3. NextTo(m, b)'
        BY <2>1, <4>1, <4>2 DEF NextTo
      <4> QED
        BY <2>1, <4>1, <4>3
    <3> QED
      BY <2>1, <3>1, <3>2
  <2> QED
    BY <2>6, <2>7, <2>8, <2>9, <2>10, <2>12, <2>13, <2>14 DEF HistoryInv
<1> QED
  BY <1>2, <1>3

LEMMA DeleteReadStep ==
    ASSUME TypeOK, HistoryInv, NEW d \in Deletes, DeleteRead(d), oneGateway' = oneGateway
    PROVE  HistoryInv'
<1>1. PICK i \in live :
        doomed' = [doomed EXCEPT ![d] = [conv |-> i, rows |-> RowsOf(i), ended |-> Ended]]
  BY DEF DeleteRead
<1>2. /\ owner' = owner /\ live' = live /\ messages' = messages /\ clock' = clock
      /\ pc' = pc /\ user' = user /\ conv' = conv /\ replied' = replied
  BY DEF DeleteRead, table, turns
<1>3. /\ doomed'[d] = [conv |-> i, rows |-> RowsOf(i), ended |-> Ended]
      /\ \A e \in Deletes : e # d => doomed'[e] = doomed[e]
  BY <1>1 DEF TypeOK
<1>4. DoomsAreRead'
  <2>1. Ended' = Ended
    BY <1>2 DEF Ended
  <2>2. doomed'[d].conv = i /\ doomed'[d].rows = RowsOf(i) /\ doomed'[d].ended = Ended
    BY <1>3
  <2> SUFFICES ASSUME NEW e \in Deletes
               PROVE  /\ doomed'[e].ended \subseteq Ended
                      /\ \A m \in doomed'[e].rows : m.conv = doomed'[e].conv
                      /\ \A m \in messages :
                           m.conv = doomed'[e].conv /\ m.turn \in doomed'[e].ended => m \in doomed'[e].rows
    BY <1>2, <2>1 DEF DoomsAreRead
  <2>3. CASE e = d
    BY <2>2, <2>3 DEF RowsOf
  <2>4. CASE e # d
    BY <1>3, <2>4 DEF HistoryInv, DoomsAreRead
  <2> QED
    BY <2>3, <2>4
<1>5. TurnsOwnTheirs' /\ RowsAreOfTheirTurn' /\ RepliesAreDone' /\ OneAtATime' /\ QuestionIsLast'
  BY <1>2 DEF HistoryInv, TurnsOwnTheirs, RowsAreOfTheirTurn, OwnConversation, RepliesAreDone,
              OneAtATime, Recording, QuestionIsLast
<1>6. WrittenSoFar'
  BY <1>2 DEF HistoryInv, WrittenSoFar, Rows, QuestionThenAnswer
<1>7. AnswerFollowsQuestion'
  BY <1>2 DEF HistoryInv, AnswerFollowsQuestion, NextTo
<1> QED
  BY <1>4, <1>5, <1>6, <1>7 DEF HistoryInv

LEMMA DeleteCommitStep ==
    ASSUME TypeOK, HistoryInv, NEW d \in Deletes, DeleteCommit(d), oneGateway' = oneGateway
    PROVE  HistoryInv'
<1>1. /\ live' = live \ {doomed[d].conv} /\ messages' = messages \ doomed[d].rows
      /\ owner' = owner /\ clock' = clock
      /\ pc' = pc /\ user' = user /\ conv' = conv /\ replied' = replied
      /\ doomed' = [doomed EXCEPT ![d] = NoDoom]
  BY DEF DeleteCommit, turns
<1>2. doomed'[d] = NoDoom /\ \A e \in Deletes : e # d => doomed'[e] = doomed[e]
  BY <1>1 DEF TypeOK
<1>3. \A m \in doomed[d].rows : m.conv = doomed[d].conv
  BY DEF HistoryInv, DoomsAreRead
<1>4. \A m \in messages : m.conv \in live' => m \in messages' /\ m.conv \in live
  BY <1>1, <1>3
<1>5. TurnsOwnTheirs' /\ RowsAreOfTheirTurn' /\ RepliesAreDone' /\ OneAtATime' /\ QuestionIsLast'
  BY <1>1 DEF HistoryInv, TurnsOwnTheirs, RowsAreOfTheirTurn, OwnConversation, RepliesAreDone,
              OneAtATime, Recording, QuestionIsLast
<1>6. WrittenSoFar'
  <2>1. ASSUME NEW t \in Turns, conv[t] \in live'
        PROVE  Rows(t)' = Rows(t) /\ conv[t] \in live /\ \A m \in Rows(t) : m \in messages'
    <3>1. \A m \in messages : m.turn = t => m.conv = conv[t]
      BY DEF HistoryInv, RowsAreOfTheirTurn
    <3>2. \A m \in messages : m.turn = t => m \in messages'
      BY <1>4, <2>1, <3>1
    <3> QED
      BY <1>1, <2>1, <3>2 DEF Rows
  <2>2. ASSUME NEW t \in Turns, conv[t] \in live', QuestionThenAnswer(t)
        PROVE  QuestionThenAnswer(t)'
    <3>1. PICK q, a \in messages :
            Rows(t) = {q, a} /\ q.role = "user" /\ a.role = "assistant" /\ q.created < a.created
      BY <2>2 DEF QuestionThenAnswer
    <3>2. Rows(t)' = {q, a} /\ q \in messages' /\ a \in messages'
      BY <2>1, <2>2, <3>1
    <3> QED
      BY <3>1, <3>2 DEF QuestionThenAnswer
  <2>3. ASSUME NEW t \in Turns, conv[t] \in live', \E q \in messages : Rows(t) = {q} /\ q.role = "user"
        PROVE  \E q \in messages' : Rows(t)' = {q} /\ q.role = "user"
    BY <2>1, <2>3
  <2> SUFFICES ASSUME NEW t \in Turns, conv[t] \in live'
               PROVE  /\ pc[t] \in {"reload", "assistant"} =>
                           \E q \in messages' : Rows(t)' = {q} /\ q.role = "user"
                      /\ pc[t] \in {"reply", "done"} => QuestionThenAnswer(t)'
    BY <1>1 DEF WrittenSoFar
  <2>4. /\ pc[t] \in {"reload", "assistant"} => \E q \in messages : Rows(t) = {q} /\ q.role = "user"
        /\ pc[t] \in {"reply", "done"} => QuestionThenAnswer(t)
    BY <2>1 DEF HistoryInv, WrittenSoFar
  <2> QED
    BY <2>2, <2>3, <2>4
<1>7. DoomsAreRead'
  <2>1. Ended' = Ended
    BY <1>1 DEF Ended
  <2> SUFFICES ASSUME NEW e \in Deletes
               PROVE  /\ doomed'[e].ended \subseteq Ended
                      /\ \A m \in doomed'[e].rows : m.conv = doomed'[e].conv
                      /\ \A m \in messages' :
                           m.conv = doomed'[e].conv /\ m.turn \in doomed'[e].ended => m \in doomed'[e].rows
    BY <2>1 DEF DoomsAreRead
  <2>2. CASE e = d
    BY <1>2, <2>2 DEF NoDoom
  <2>3. CASE e # d
    BY <1>1, <1>2, <2>3 DEF HistoryInv, DoomsAreRead
  <2> QED
    BY <2>2, <2>3
<1>8. AnswerFollowsQuestion'
  <2> SUFFICES ASSUME oneGateway, NEW a \in messages', a.role = "assistant", a.conv \in live'
               PROVE  \E q \in messages' : q.turn = a.turn /\ q.role = "user" /\ NextTo(q, a)'
    BY DEF AnswerFollowsQuestion
  <2>1. a \in messages /\ a.conv \in live
    BY <1>1
  <2>2. PICK q \in messages : q.turn = a.turn /\ q.role = "user" /\ NextTo(q, a)
    BY <2>1 DEF HistoryInv, AnswerFollowsQuestion
  <2>3. q \in messages'
    BY <1>4, <2>2 DEF NextTo
  <2>4. NextTo(q, a)'
    BY <1>1, <2>2 DEF NextTo
  <2> QED
    BY <2>2, <2>3, <2>4
<1> QED
  BY <1>5, <1>6, <1>7, <1>8 DEF HistoryInv

LEMMA HistoryStep ==
    ASSUME TypeOK, HistoryInv, [Next]_vars
    PROVE  HistoryInv'
<1>1. CASE Next
  <2>1. oneGateway' = oneGateway
    BY <1>1 DEF Next
  <2>2. ASSUME NEW t \in Turns, Turn(t)
        PROVE  HistoryInv'
    <3>1. \/ Lookup(t) \/ Create(t) \/ AppendUser(t) \/ AppendAssistant(t)
          \/ Onward(t)
      BY <2>2 DEF Turn, Onward
    <3> QED
      BY <2>1, <3>1, LookupStep, CreateStep, AppendUserStep, AppendAssistantStep, OnwardStep
  <2>3. ASSUME NEW d \in Deletes, Delete(d)
        PROVE  HistoryInv'
    BY <2>1, <2>3, DeleteReadStep, DeleteCommitStep DEF Delete
  <2> QED
    BY <1>1, <2>2, <2>3 DEF Next
<1>2. CASE UNCHANGED vars
  <2>1. /\ oneGateway' = oneGateway /\ owner' = owner /\ live' = live /\ messages' = messages
        /\ clock' = clock /\ pc' = pc /\ user' = user /\ conv' = conv /\ replied' = replied
        /\ dpc' = dpc /\ doomed' = doomed
    BY <1>2 DEF vars, table, turns, deletes
  <2>2. TurnsOwnTheirs' /\ RowsAreOfTheirTurn' /\ RepliesAreDone' /\ OneAtATime' /\ QuestionIsLast'
    BY <2>1 DEF HistoryInv, TurnsOwnTheirs, RowsAreOfTheirTurn, OwnConversation, RepliesAreDone,
                OneAtATime, Recording, QuestionIsLast
  <2>3. WrittenSoFar'
    BY <2>1 DEF HistoryInv, WrittenSoFar, Rows, QuestionThenAnswer
  <2>4. AnswerFollowsQuestion' /\ DoomsAreRead'
    BY <2>1 DEF HistoryInv, AnswerFollowsQuestion, NextTo, DoomsAreRead, Ended
  <2> QED
    BY <2>2, <2>3, <2>4 DEF HistoryInv
<1> QED
  BY <1>1, <1>2

LEMMA HistoryInit == Init => TypeOK /\ HistoryInv
<1> SUFFICES ASSUME Init
             PROVE  TypeOK /\ HistoryInv
  OBVIOUS
<1>1. TypeOK
  BY DEF Init, TypeOK, PcType, NoDoom, Doom
<1>2. /\ messages = {} /\ live = {} /\ \A t \in Turns : pc[t] = "new" /\ replied[t] = NoId
      /\ \A d \in Deletes : doomed[d].ended = {} /\ doomed[d].rows = {}
  BY DEF Init, NoDoom
<1>3. HistoryInv
  BY <1>2 DEF HistoryInv, TurnsOwnTheirs, RowsAreOfTheirTurn, WrittenSoFar, RepliesAreDone, DoomsAreRead,
              OneAtATime, Recording, QuestionIsLast, AnswerFollowsQuestion
<1> QED
  BY <1>1, <1>3

\* Every row, turn and delete is of its kind.
THEOREM HistoryTypeCorrect == Spec => []TypeOK
<1>1. Init => TypeOK
  BY HistoryInit
<1>2. TypeOK /\ [Next]_vars => TypeOK'
  <2>1. TypeOK /\ UNCHANGED vars => TypeOK'
    BY DEF TypeOK, vars, table, turns, deletes
  <2> QED
    BY <2>1, HistoryTypeStep
<1> QED
  BY <1>1, <1>2, PTL DEF Spec

\* What every turn and delete has read of the rows still agrees with them.
THEOREM HistoryInvHolds == Spec => []HistoryInv
<1>1. Init => HistoryInv
  BY HistoryInit
<1>2. TypeOK /\ HistoryInv /\ [Next]_vars => HistoryInv'
  BY HistoryStep
<1> QED
  BY <1>1, <1>2, HistoryTypeCorrect, PTL DEF Spec

\* A turn whose conversation id the client was given is in the history whole and in
\* order, and no row is in another user's conversation: for any number of users,
\* turns and deletes, of any interleaving, crash and failed commit.
THEOREM WholeTurnHolds == Spec => []RepliedTurnIsWhole
<1>1. TypeOK /\ HistoryInv => RepliedTurnIsWhole
  <2> SUFFICES ASSUME TypeOK, HistoryInv
               PROVE  RepliedTurnIsWhole
    OBVIOUS
  <2>1. ASSUME NEW t \in Turns, replied[t] \in live
        PROVE  QuestionThenAnswer(t)
    <3>1. replied[t] # NoId
      BY <2>1, NoIdAssumption DEF TypeOK
    <3> QED
      BY <2>1, <3>1 DEF HistoryInv, RepliesAreDone, WrittenSoFar
  <2>2. \A m \in messages : owner[m.conv] = user[m.turn]
    BY DEF HistoryInv, RowsAreOfTheirTurn, OwnConversation
  <2> QED
    BY <2>1, <2>2 DEF RepliedTurnIsWhole
<1> QED
  BY <1>1, HistoryTypeCorrect, HistoryInvHolds, PTL

\* With one gateway process nothing comes between a question and its answer.
THEOREM AnswerHolds == Spec => []AnswerFollowsQuestion
<1>1. HistoryInv => AnswerFollowsQuestion
  BY DEF HistoryInv
<1> QED
  BY <1>1, HistoryInvHolds, PTL

\* A delete leaves no row of a turn that had ended when it read the conversation.
THEOREM DeleteHolds == Spec => DeleteRemovesEndedTurns
<1> DEFINE A == \A d \in Deletes : DeleteCommit(d) =>
                  \A m \in messages' : m.conv = doomed[d].conv => m.turn \notin doomed[d].ended
<1>1. HistoryInv => A
  BY DEF HistoryInv, DoomsAreRead, DeleteCommit
<1>2. HistoryInv => [A]_vars
  BY <1>1
<1> QED
  BY <1>2, HistoryInvHolds, PTL DEF DeleteRemovesEndedTurns

=============================================================================
