------------------------- MODULE ChatPipelineProofs -------------------------
(***************************************************************************)
(* Proofs about the chat route, for any requests, options, texts and       *)
(* bounds: TypeOK, HitIsAnEarlierAnswer, AgentProtocol and TurnSpec.       *)
(***************************************************************************)
EXTENDS ChatPipeline, TLAPS

\* Nothing is said before a strategy has its completion.
Unsaid ==
    \A r \in Requests : pc[r] \in {"new"} \cup (Waiting \ {"stream"}) => answer[r] = <<>>

\* Only plain requests without tools come near the cache.
CacheUsers ==
    \A r \in Requests :
        /\ pc[r] \in {"lookup", "store"} \/ storing[r] => ~shape[r].stream /\ ~shape[r].tools
        /\ pc[r] = "store" => \E text \in Texts : answer[r] = <<text>>

\* q has been answered a, asking for k, and will have no other answer.
Gave(q, k, a) ==
    /\ pc[q] \in {"persist", "answered"}
    /\ ~shape[q].stream
    /\ ~shape[q].tools
    /\ Key(shape[q]) = k
    /\ answer[q] = a

CacheIsGiven ==
    \A k \in Keys : cache[k] # <<>> =>
        /\ \E text \in Texts : cache[k] = <<text>>
        /\ \E q \in Requests : Gave(q, k, cache[k])

HitIsGiven ==
    \A r \in Requests : pc[r] = "hit" =>
        \E q \in Requests : Gave(q, Key(shape[r]), answer[r])

\* The first m messages are answered replies.
AnsweredUpTo(entries, m) ==
    \A i \in 1..m :
        IF entries[i].role = "assistant"
        THEN \A n \in 1..entries[i].n :
                i + n \in 1..m /\ entries[i + n] = [role |-> "tool", n |-> n]
        ELSE LET asked == i - entries[i].n IN
                /\ asked \in 1..m
                /\ entries[asked].role = "assistant"
                /\ entries[i].n <= entries[asked].n

\* The reply at position p is being answered: the calls before next have results.
Answering(entries, p, of, next) ==
    /\ p \in 1..Len(entries)
    /\ Len(entries) = p + next - 1
    /\ next \in 1..of
    /\ entries[p] = [role |-> "assistant", n |-> of]
    /\ \A n \in 1..(next - 1) : entries[p + n] = [role |-> "tool", n |-> n]
    /\ AnsweredUpTo(entries, p - 1)

LoopOf(r) ==
    /\ pc[r] \in {"new", "agent"} => AnsweredUpTo(log[r], Len(log[r]))
    /\ pc[r] = "tools" => \E p \in Nat : Answering(log[r], p, calls[r].of, calls[r].next)
    /\ pc[r] = "new" => tries[r] = 0
    /\ pc[r] \in {"agent", "tools"} => tries[r] <= MaxIters

LoopInv == \A r \in Requests : LoopOf(r)

IInv == TypeOK /\ Unsaid /\ CacheUsers /\ CacheIsGiven /\ HitIsGiven /\ LoopInv

-----------------------------------------------------------------------------
(* Frames: what a step of one request may change *)

\* A step of r changes nothing of the other requests.
OnlyOf(r) ==
    /\ shape' = shape
    /\ \A q \in Requests \ {r} :
        /\ pc'[q] = pc[q]
        /\ answer'[q] = answer[q]
        /\ turn'[q] = turn[q]
        /\ storing'[q] = storing[q]
        /\ log'[q] = log[q]
        /\ calls'[q] = calls[q]
        /\ tries'[q] = tries[q]

\* A request takes steps until it has ended, and touches no other: the frame the
\* other lemmas rest on.
LEMMA StepFrame ==
    ASSUME TypeOK, NEW r \in Requests, Step(r) \/ ClientGone(r)
    PROVE  OnlyOf(r) /\ pc[r] \notin Ended
<1> USE DEF TypeOK, OnlyOf, Goto, AnswerWith, history, loop, vars, Ended, Waiting
<1>1. CASE Reject(r)
  BY <1>1 DEF Reject
<1>2. CASE Start(r)
  BY <1>2 DEF Start
<1>3. CASE ModelRaises(r)
  BY <1>3 DEF ModelRaises
<1>4. CASE AgentCalls(r)
  BY <1>4 DEF AgentCalls
<1>5. CASE RunTool(r)
  BY <1>5 DEF RunTool, NextCall, ToolResult
<1>6. CASE AgentAnswers(r)
  BY <1>6 DEF AgentAnswers
<1>7. CASE BestAnswers(r)
  BY <1>7 DEF BestAnswers
<1>8. CASE CascadeSignal(r)
  BY <1>8 DEF CascadeSignal
<1>9. CASE CascadeVote(r)
  BY <1>9 DEF CascadeVote
<1>10. CASE FrontierAnswers(r)
  BY <1>10 DEF FrontierAnswers
<1>11. CASE LayerProposes(r)
  BY <1>11 DEF LayerProposes
<1>12. CASE AggregatorAnswers(r)
  BY <1>12 DEF AggregatorAnswers
<1>13. CASE MaskedAnswers(r)
  BY <1>13 DEF MaskedAnswers
<1>14. CASE MaskedRaises(r)
  BY <1>14 DEF MaskedRaises
<1>15. CASE ConstrainedAnswers(r)
  BY <1>15 DEF ConstrainedAnswers
<1>16. CASE Repair(r)
  BY <1>16 DEF Repair
<1>17. CASE Lookup(r)
  BY <1>17 DEF Lookup
<1>18. CASE PlainAnswers(r)
  BY <1>18 DEF PlainAnswers
<1>19. CASE Store(r)
  BY <1>19 DEF Store
<1>20. CASE Chunk(r)
  BY <1>20 DEF Chunk
<1>21. CASE StreamEnds(r)
  BY <1>21 DEF StreamEnds
<1>22. CASE Persist(r)
  BY <1>22 DEF Persist
<1>23. CASE ClientGone(r)
  BY <1>23 DEF ClientGone
<1>24. QED
  BY <1>1, <1>2, <1>3, <1>4, <1>5, <1>6, <1>7, <1>8, <1>9, <1>10, <1>11, <1>12, <1>13, <1>14, <1>15, <1>16, <1>17, <1>18, <1>19, <1>20, <1>21, <1>22, <1>23 DEF Step

\* Moving on keeps pc in its type.
LEMMA GotoType ==
    ASSUME TypeOK, NEW r \in Requests, NEW where \in PcType, Goto(r, where)
    PROVE  pc' \in [Requests -> PcType]
BY DEF TypeOK, Goto

\* So does giving the answer, which stays a sequence of texts.
LEMMA AnswerWithType ==
    ASSUME TypeOK, NEW r \in Requests, NEW text \in Texts, AnswerWith(r, text)
    PROVE  answer' \in [Requests -> Seq(Texts)] /\ pc' \in [Requests -> PcType]
BY GotoType DEF TypeOK, AnswerWith, PcType

\* A signal that is recorded, or lost, keeps its type.
LEMMA SignalType ==
    ASSUME TypeOK, NEW r \in Requests, NEW kind \in {"kept", "escalated", "vote"}, Signal(r, kind)
    PROVE  signal' \in [Requests -> {"none", "kept", "escalated", "vote"}]
BY DEF TypeOK, Signal

\* The route a request takes is one of the places where it waits.
LEMMA RouteType ==
    ASSUME NEW q PROVE Route(q) \in Waiting
BY DEF Route, Waiting

\* A step of a request keeps every variable in its type.
LEMMA StepType ==
    ASSUME TypeOK, LoopInv, NEW r \in Requests, Step(r) \/ ClientGone(r)
    PROVE  TypeOK'
<1> Key(shape[r]) \in Keys
  BY DEF TypeOK, Keys
<1> \A where \in PcType : Goto(r, where) => pc' \in [Requests -> PcType]
  BY GotoType
<1> \A text \in Texts : AnswerWith(r, text) =>
        answer' \in [Requests -> Seq(Texts)] /\ pc' \in [Requests -> PcType]
  BY AnswerWithType
<1> USE DEF TypeOK, history, loop, PcType, Waiting, Ended
<1>1. CASE Reject(r)
  BY <1>1 DEF Reject
<1>2. CASE Start(r)
  BY <1>2, RouteType DEF Start
<1>3. CASE ModelRaises(r)
  BY <1>3 DEF ModelRaises
<1>4. CASE AgentCalls(r)
  <2> PICK n \in 1..MaxCalls :
        /\ log' = [log EXCEPT ![r] = Append(@, [role |-> "assistant", n |-> n])]
        /\ calls' = [calls EXCEPT ![r] = [of |-> n, next |-> 1]]
    BY <1>4 DEF AgentCalls
  <2>1. log' \in [Requests -> Seq(Entry)]
    <3> [role |-> "assistant", n |-> n] \in Entry
      BY DEF Entry
    <3> QED  BY DEF TypeOK
  <2>2. calls' \in [Requests -> [of : 0..MaxCalls, next : 1..MaxCalls]]
    BY BoundsAssumption DEF TypeOK
  <2>3. tries' \in [Requests -> Nat]
    BY <1>4 DEF AgentCalls, TypeOK
  <2> QED
    BY <1>4, <2>1, <2>2, <2>3 DEF AgentCalls, TypeOK
<1>5. CASE RunTool(r)
  <2>1. log' \in [Requests -> Seq(Entry)]
    <3> [role |-> "tool", n |-> calls[r].next] \in Entry
      BY DEF Entry, TypeOK
    <3> QED  BY <1>5 DEF RunTool, ToolResult, TypeOK
  <2>2. calls' \in [Requests -> [of : 0..MaxCalls, next : 1..MaxCalls]]
    <3>1. CASE calls[r].next = calls[r].of
      BY <1>5, <3>1 DEF RunTool, NextCall, TypeOK
    <3>2. CASE calls[r].next # calls[r].of
      <4> calls[r].of \in 0..MaxCalls /\ calls[r].next \in 1..calls[r].of
        BY <1>5 DEF RunTool, LoopInv, LoopOf, Answering, TypeOK
      <4> calls[r].next + 1 \in 1..MaxCalls
        BY <3>2, BoundsAssumption
      <4> calls' = [calls EXCEPT ![r].next = @ + 1]
        BY <1>5, <3>2 DEF RunTool, NextCall
      <4> calls \in [Requests -> [of : 0..MaxCalls, next : 1..MaxCalls]]
        BY DEF TypeOK
      <4> HIDE DEF TypeOK
      <4> QED  OBVIOUS
    <3> QED  BY <3>1, <3>2
  <2>3. pc' \in [Requests -> PcType]
    BY <1>5 DEF RunTool, NextCall, TypeOK
  <2> QED
    BY <1>5, <2>1, <2>2, <2>3 DEF RunTool, TypeOK, history
<1>6. CASE AgentAnswers(r)
  BY <1>6 DEF AgentAnswers
<1>7. CASE BestAnswers(r)
  BY <1>7, SignalType DEF BestAnswers, Candidates
<1>8. CASE CascadeSignal(r)
  BY <1>8, SignalType DEF CascadeSignal
<1>9. CASE CascadeVote(r)
  BY <1>9, SignalType DEF CascadeVote, Candidates
<1>10. CASE FrontierAnswers(r)
  BY <1>10, SignalType DEF FrontierAnswers
<1>11. CASE LayerProposes(r)
  BY <1>11 DEF LayerProposes
<1>12. CASE AggregatorAnswers(r)
  BY <1>12 DEF AggregatorAnswers
<1>13. CASE MaskedAnswers(r)
  BY <1>13 DEF MaskedAnswers
<1>14. CASE MaskedRaises(r)
  BY <1>14 DEF MaskedRaises
<1>15. CASE ConstrainedAnswers(r)
  BY <1>15 DEF ConstrainedAnswers
<1>16. CASE Repair(r)
  BY <1>16 DEF Repair
<1>17. CASE Lookup(r)
  BY <1>17 DEF Lookup
<1>18. CASE PlainAnswers(r)
  BY <1>18 DEF PlainAnswers
<1>19. CASE Store(r)
  BY <1>19 DEF Store
<1>20. CASE Chunk(r)
  BY <1>20 DEF Chunk
<1>21. CASE StreamEnds(r)
  BY <1>21 DEF StreamEnds
<1>22. CASE Persist(r)
  BY <1>22 DEF Persist
<1>23. CASE ClientGone(r)
  BY <1>23 DEF ClientGone
<1>24. QED
  BY <1>1, <1>2, <1>3, <1>4, <1>5, <1>6, <1>7, <1>8, <1>9, <1>10, <1>11, <1>12, <1>13, <1>14, <1>15, <1>16, <1>17, <1>18, <1>19, <1>20, <1>21, <1>22, <1>23 DEF Step

-----------------------------------------------------------------------------
(* Effects: what a step does to its own request and to the cache *)

\* r says one more text, or (Records) its answer goes into the history, or neither.
Says(r) ==
    /\ turn' = turn
    /\ \E text \in Texts : answer' = [answer EXCEPT ![r] = Append(@, text)]
Records(r) ==
    /\ answer' = answer
    /\ turn' = [turn EXCEPT ![r] = answer[r]]
    /\ pc'[r] \in Ended
SaysNothing == answer' = answer /\ turn' = turn

\* What a step of r has to respect, whichever it is.
Effect(r) ==
    /\ pc'[r] \in {"new"} \cup (Waiting \ {"stream"}) => answer'[r] = <<>>
    /\ pc'[r] \in {"lookup", "store"} \/ storing'[r] => ~shape[r].stream /\ ~shape[r].tools
    /\ pc'[r] = "store" => \E text \in Texts : answer'[r] = <<text>>
    /\ pc[r] = "persist" =>
        /\ answer'[r] = answer[r]
        /\ pc'[r] = "answered" \/ shape[r].stream
    /\ pc'[r] = "hit" =>
        /\ cache[Key(shape[r])] # <<>>
        /\ answer'[r] = cache[Key(shape[r])]
    /\ \/ cache' = cache
       \/ /\ pc[r] = "store"
          /\ pc'[r] = "persist"
          /\ answer' = answer
          /\ cache' = [cache EXCEPT ![Key(shape[r])] = answer[r]]
    /\ Says(r) \/ Records(r) \/ SaysNothing
    /\ pc'[r] \in {"new", "agent", "tools"} => Start(r) \/ AgentCalls(r) \/ RunTool(r)

\* The answer of a strategy is the first thing said.
LEMMA FirstText ==
    ASSUME TypeOK, Unsaid, NEW r \in Requests, pc[r] \in Waiting \ {"stream"}, NEW text \in Texts
    PROVE  [answer EXCEPT ![r] = <<text>>] = [answer EXCEPT ![r] = Append(@, text)]
<1>1. answer[r] = <<>>
  BY DEF Unsaid
<1>2. Append(<<>>, text) = <<text>>
  OBVIOUS
<1>3. Append(answer[r], text) = <<text>>
  BY <1>1, <1>2, Zenon
<1> QED  BY <1>3

\* Every step has one of these effects: they are what the other proofs use of the
\* single actions.
LEMMA StepEffect ==
    ASSUME TypeOK, Unsaid, CacheUsers, CacheIsGiven, NEW r \in Requests, Step(r) \/ ClientGone(r)
    PROVE  Effect(r)
<1> Key(shape[r]) \in Keys
  BY DEF TypeOK, Keys
<1> \A text \in Texts : AnswerWith(r, text) /\ turn' = turn /\ pc[r] \in Waiting \ {"stream"} =>
        Says(r) /\ answer'[r] = <<text>> /\ pc'[r] = "persist"
  BY FirstText DEF AnswerWith, Goto, Says, TypeOK
<1> USE DEF TypeOK, Unsaid, CacheUsers, CacheIsGiven, Goto, history, loop, vars, Waiting, Ended,
            Effect, Records, SaysNothing
<1>1. CASE Reject(r)
  BY <1>1 DEF Reject
<1>2. CASE Start(r)
  BY <1>2 DEF Start, Route, Asked, Cacheable
<1>3. CASE ModelRaises(r)
  BY <1>3 DEF ModelRaises
<1>4. CASE AgentCalls(r)
  BY <1>4 DEF AgentCalls
<1>5. CASE RunTool(r)
  BY <1>5 DEF RunTool, NextCall
<1>6. CASE AgentAnswers(r)
  BY <1>6 DEF AgentAnswers
<1>7. CASE BestAnswers(r)
  BY <1>7 DEF BestAnswers, Candidates
<1>8. CASE CascadeSignal(r)
  BY <1>8 DEF CascadeSignal
<1>9. CASE CascadeVote(r)
  BY <1>9 DEF CascadeVote, Candidates
<1>10. CASE FrontierAnswers(r)
  BY <1>10 DEF FrontierAnswers
<1>11. CASE LayerProposes(r)
  BY <1>11 DEF LayerProposes
<1>12. CASE AggregatorAnswers(r)
  BY <1>12 DEF AggregatorAnswers
<1>13. CASE MaskedAnswers(r)
  BY <1>13 DEF MaskedAnswers
<1>14. CASE MaskedRaises(r)
  BY <1>14 DEF MaskedRaises
<1>15. CASE ConstrainedAnswers(r)
  BY <1>15 DEF ConstrainedAnswers
<1>16. CASE Repair(r)
  BY <1>16 DEF Repair
<1>17. CASE Lookup(r)
  <2>1. CASE pc'[r] = "hit"
    <3>1. cache[Key(shape[r])] # <<>> /\ answer' = [answer EXCEPT ![r] = cache[Key(shape[r])]]
      BY <1>17, <2>1 DEF Lookup
    <3>2. PICK text \in Texts : cache[Key(shape[r])] = <<text>>
      BY <3>1
    <3>3. Says(r)
      <4>1. answer' = [answer EXCEPT ![r] = Append(@, text)]
        <5>1. pc[r] \in Waiting \ {"stream"}
          BY <1>17 DEF Lookup
        <5>2. [answer EXCEPT ![r] = <<text>>] = [answer EXCEPT ![r] = Append(@, text)]
          BY <5>1, FirstText
        <5> QED  BY <3>1, <3>2, <5>2, Zenon
      <4>2. turn' = turn
        BY <1>17 DEF Lookup
      <4> QED  BY <4>1, <4>2 DEF Says
    <3> QED
      BY <1>17, <2>1, <3>1, <3>3 DEF Lookup
  <2>2. CASE pc'[r] # "hit"
    BY <1>17, <2>2 DEF Lookup
  <2> QED  BY <2>1, <2>2
<1>18. CASE PlainAnswers(r)
  <2> PICK text \in Texts : answer' = [answer EXCEPT ![r] = <<text>>]
    BY <1>18 DEF PlainAnswers
  <2> Says(r)
    BY <1>18, FirstText DEF PlainAnswers, Says
  <2> QED
    BY <1>18 DEF PlainAnswers
<1>19. CASE Store(r)
  BY <1>19 DEF Store
<1>20. CASE Chunk(r)
  BY <1>20 DEF Chunk, Says
<1>21. CASE StreamEnds(r)
  BY <1>21 DEF StreamEnds
<1>22. CASE Persist(r)
  BY <1>22 DEF Persist
<1>23. CASE ClientGone(r)
  BY <1>23 DEF ClientGone
<1>24. QED
  BY <1>1, <1>2, <1>3, <1>4, <1>5, <1>6, <1>7, <1>8, <1>9, <1>10, <1>11, <1>12, <1>13, <1>14, <1>15, <1>16, <1>17, <1>18, <1>19, <1>20, <1>21, <1>22, <1>23 DEF Step

-----------------------------------------------------------------------------
(* The tool loop *)

\* Whether the first m messages are answered depends on these only.
LEMMA SamePrefix ==
    ASSUME NEW entries, NEW longer, NEW m \in Nat, AnsweredUpTo(entries, m),
           \A i \in 1..m : longer[i] = entries[i] /\ entries[i] \in Entry
    PROVE  AnsweredUpTo(longer, m)
BY BoundsAssumption DEF AnsweredUpTo, Entry

\* A reply that asks for tools, appended to answered ones, waits for its first call.
LEMMA NewReply ==
    ASSUME NEW entries \in Seq(Entry), AnsweredUpTo(entries, Len(entries)),
           NEW of \in 1..MaxCalls
    PROVE  Answering(Append(entries, [role |-> "assistant", n |-> of]), Len(entries) + 1, of, 1)
<1> DEFINE longer == Append(entries, [role |-> "assistant", n |-> of])
<1>1. [role |-> "assistant", n |-> of] \in Entry
  BY DEF Entry
<1>2. /\ Len(longer) = Len(entries) + 1
      /\ longer[Len(entries) + 1] = [role |-> "assistant", n |-> of]
      /\ \A i \in 1..Len(entries) : longer[i] = entries[i]
  BY <1>1
<1>3. Len(entries) \in Nat
  OBVIOUS
<1>4. \A i \in 1..Len(entries) : entries[i] \in Entry
  OBVIOUS
<1> HIDE DEF longer
<1>5. AnsweredUpTo(longer, Len(entries))
  BY <1>2, <1>3, <1>4, SamePrefix
<1> QED
  BY <1>2, <1>3, <1>5, BoundsAssumption DEF Answering, longer

\* A result moves the reply on to its next call; the last one completes it.
LEMMA NextResult ==
    ASSUME NEW entries \in Seq(Entry), NEW p \in Nat, NEW of \in 0..MaxCalls, NEW next \in 1..MaxCalls,
           Answering(entries, p, of, next)
    PROVE  LET longer == Append(entries, [role |-> "tool", n |-> next]) IN
            /\ next = of => AnsweredUpTo(longer, Len(longer))
            /\ next # of => Answering(longer, p, of, next + 1)
<1> DEFINE longer == Append(entries, [role |-> "tool", n |-> next])
<1>1. [role |-> "tool", n |-> next] \in Entry
  BY DEF Entry
<1>2. /\ Len(longer) = Len(entries) + 1
      /\ longer[Len(entries) + 1] = [role |-> "tool", n |-> next]
      /\ \A i \in 1..Len(entries) : longer[i] = entries[i]
  BY <1>1
<1>3. Len(entries) \in Nat /\ \A i \in 1..Len(entries) : entries[i] \in Entry
  OBVIOUS
<1> HIDE DEF longer
<1>4. /\ Len(longer) = p + next
      /\ longer[p] = [role |-> "assistant", n |-> of]
      /\ \A n \in 1..next : longer[p + n] = [role |-> "tool", n |-> n]
      /\ p \in 1..Len(longer) /\ next \in 1..of
  <2>1. p \in 1..Len(entries) /\ Len(entries) = p + next - 1 /\ next \in 1..of
    BY DEF Answering
  <2>2. Len(longer) = p + next /\ p \in 1..Len(longer)
    BY <1>2, <2>1
  <2>3. longer[p] = [role |-> "assistant", n |-> of]
    BY <1>2, <2>1 DEF Answering
  <2>4. ASSUME NEW n \in 1..next PROVE longer[p + n] = [role |-> "tool", n |-> n]
    <3>1. CASE n = next
      BY <3>1, <1>2, <2>1
    <3>2. CASE n \in 1..(next - 1)
      <4>1. p + n \in 1..Len(entries)
        BY <3>2, <2>1
      <4> QED  BY <4>1, <3>2, <1>2 DEF Answering
    <3> QED  BY <3>1, <3>2
  <2> QED  BY <2>1, <2>2, <2>3, <2>4
<1>5. AnsweredUpTo(longer, p - 1)
  <2>1. \A i \in 1..(p - 1) : longer[i] = entries[i] /\ entries[i] \in Entry
    BY <1>2, <1>3 DEF Answering
  <2>2. AnsweredUpTo(entries, p - 1)
    BY DEF Answering
  <2> QED
    BY <2>1, <2>2, <1>4, SamePrefix
<1>6. ASSUME next = of PROVE AnsweredUpTo(longer, Len(longer))
  <2> SUFFICES ASSUME NEW i \in 1..(p + of)
               PROVE  IF longer[i].role = "assistant"
                      THEN \A n \in 1..longer[i].n :
                            i + n \in 1..(p + of) /\ longer[i + n] = [role |-> "tool", n |-> n]
                      ELSE LET asked == i - longer[i].n IN
                            /\ asked \in 1..(p + of)
                            /\ longer[asked].role = "assistant"
                            /\ longer[i].n <= longer[asked].n
    BY <1>4, <1>6 DEF AnsweredUpTo
  <2>1. CASE i \in 1..(p - 1)
    <3>1. longer[i] \in Entry
      BY <1>2, <1>3, <2>1 DEF Answering
    <3>2. longer[i].n \in 1..MaxCalls
      BY <3>1 DEF Entry
    <3>3. p - 1 \in Nat /\ of \in Nat /\ longer[i].n \in Nat
      BY <3>2, <1>4, BoundsAssumption
    <3>4. IF longer[i].role = "assistant"
          THEN \A n \in 1..longer[i].n :
                i + n \in 1..(p - 1) /\ longer[i + n] = [role |-> "tool", n |-> n]
          ELSE LET asked == i - longer[i].n IN
                /\ asked \in 1..(p - 1)
                /\ longer[asked].role = "assistant"
                /\ longer[i].n <= longer[asked].n
      BY <1>5, <2>1 DEF AnsweredUpTo
    <3>5. 1..(p - 1) \subseteq 1..(p + of)
      BY <3>3
    <3> QED  BY <3>4, <3>5
  <2>2. CASE i = p
    BY <1>4, <1>6, <2>2
  <2>3. CASE i \in (p + 1)..(p + of)
    <3>1. i - p \in 1..of /\ i = p + (i - p)
      BY <2>3, <1>4
    <3>2. longer[i] = [role |-> "tool", n |-> i - p]
      BY <3>1, <1>4, <1>6
    <3> QED
      BY <3>1, <3>2, <1>4
  <2> QED
    BY <2>1, <2>2, <2>3, <1>4
<1>7. ASSUME next # of PROVE Answering(longer, p, of, next + 1)
  BY <1>4, <1>5, <1>7 DEF Answering
<1> QED
  BY <1>6, <1>7 DEF longer

\* The tool loop keeps its messages in order and its asks counted.
LEMMA StepLoop ==
    ASSUME TypeOK, Unsaid, CacheUsers, CacheIsGiven, LoopInv, NEW r \in Requests, Step(r) \/ ClientGone(r)
    PROVE  LoopInv'
<1> SUFFICES LoopOf(r)'
  <2> ASSUME LoopOf(r)', NEW q \in Requests PROVE LoopOf(q)'
    <3>1. CASE q = r
      BY <3>1
    <3>2. CASE q # r
      BY <3>2, StepFrame DEF OnlyOf, LoopInv, LoopOf
    <3> QED  BY <3>1, <3>2
  <2> QED  BY DEF LoopInv
<1> LoopOf(r) /\ log[r] \in Seq(Entry)
  BY DEF LoopInv, TypeOK
<1> USE DEF TypeOK
<1>1. CASE Start(r)
  <2>1. pc[r] = "new" /\ log'[r] = log[r] /\ tries'[r] = tries[r] /\ pc'[r] \in Waiting
    BY <1>1, RouteType DEF Start, Goto, loop
  <2>2. pc'[r] # "new" /\ pc'[r] # "tools"
    BY <1>1, RouteType DEF Start, Goto, Route, Waiting
  <2> QED
    BY <2>1, <2>2, BoundsAssumption DEF LoopOf
<1>2. CASE AgentCalls(r)
  <2> PICK n \in 1..MaxCalls :
        /\ log' = [log EXCEPT ![r] = Append(@, [role |-> "assistant", n |-> n])]
        /\ calls' = [calls EXCEPT ![r] = [of |-> n, next |-> 1]]
    BY <1>2 DEF AgentCalls
  <2>1. pc'[r] = "tools" /\ tries'[r] = tries[r] + 1 /\ tries[r] < MaxIters
    BY <1>2 DEF AgentCalls, Goto
  <2>2. Answering(log'[r], Len(log[r]) + 1, n, 1)
    BY <1>2, NewReply DEF AgentCalls, LoopOf
  <2>3. Len(log[r]) + 1 \in Nat /\ calls'[r].of = n /\ calls'[r].next = 1
    OBVIOUS
  <2> QED
    BY <2>1, <2>2, <2>3, BoundsAssumption DEF LoopOf
<1>3. CASE RunTool(r)
  <2> PICK p \in Nat : Answering(log[r], p, calls[r].of, calls[r].next)
    BY <1>3 DEF RunTool, LoopOf
  <2>1. /\ log'[r] = Append(log[r], [role |-> "tool", n |-> calls[r].next])
        /\ tries' = tries /\ pc[r] = "tools"
    BY <1>3 DEF RunTool, ToolResult
  <2>2. calls[r].of \in 0..MaxCalls /\ calls[r].next \in 1..MaxCalls
    OBVIOUS
  <2>3. CASE calls[r].next = calls[r].of
    <3>1. pc'[r] = "agent"
      BY <1>3, <2>3 DEF RunTool, NextCall, Goto
    <3>2. AnsweredUpTo(log'[r], Len(log'[r]))
      BY <2>1, <2>2, <2>3, NextResult
    <3> QED
      BY <2>1, <3>1, <3>2 DEF LoopOf
  <2>4. CASE calls[r].next # calls[r].of
    <3>1. pc'[r] = "tools" /\ calls'[r].of = calls[r].of /\ calls'[r].next = calls[r].next + 1
      BY <1>3, <2>4 DEF RunTool, NextCall
    <3>2. Answering(log'[r], p, calls'[r].of, calls'[r].next)
      BY <2>1, <2>2, <2>4, <3>1, NextResult
    <3> QED
      BY <2>1, <3>1, <3>2 DEF LoopOf
  <2> QED  BY <2>3, <2>4
<1>4. CASE pc'[r] \notin {"new", "agent", "tools"}
  BY <1>4 DEF LoopOf
<1> QED
  BY <1>1, <1>2, <1>3, <1>4, StepEffect DEF Effect

-----------------------------------------------------------------------------
(* The inductive invariant *)

\* An answer that may be cached stays given: nothing changes it any more.
LEMMA GaveStays ==
    ASSUME TypeOK, NEW r \in Requests, OnlyOf(r), Effect(r), pc[r] \notin Ended,
           NEW q \in Requests, NEW k, NEW a, Gave(q, k, a)
    PROVE  Gave(q, k, a)'
<1>1. CASE q = r
  BY <1>1 DEF Gave, Effect, OnlyOf, Ended
<1>2. CASE q # r
  BY <1>2 DEF Gave, OnlyOf
<1> QED  BY <1>1, <1>2

\* A step of a request keeps the invariant.
LEMMA StepInv ==
    ASSUME IInv, NEW r \in Requests, Step(r) \/ ClientGone(r)
    PROVE  IInv'
<1>1. OnlyOf(r) /\ Effect(r) /\ pc[r] \notin Ended
  BY StepFrame, StepEffect DEF IInv
<1>2. TypeOK' /\ LoopInv'
  BY StepType, StepLoop DEF IInv
<1>3. Unsaid'
  <2> SUFFICES ASSUME NEW q \in Requests, pc'[q] \in {"new"} \cup (Waiting \ {"stream"})
               PROVE  answer'[q] = <<>>
    BY DEF Unsaid
  <2> QED  BY <1>1 DEF OnlyOf, Effect, IInv, Unsaid
<1>4. CacheUsers'
  <2> SUFFICES ASSUME NEW q \in Requests
               PROVE  /\ pc'[q] \in {"lookup", "store"} \/ storing'[q] => ~shape'[q].stream /\ ~shape'[q].tools
                      /\ pc'[q] = "store" => \E text \in Texts : answer'[q] = <<text>>
    BY DEF CacheUsers
  <2> QED  BY <1>1 DEF OnlyOf, Effect, IInv, CacheUsers
<1>5. \A k \in Keys : cache[k] # <<>> =>
        \E q \in Requests : Gave(q, k, cache[k]) /\ \A a : a = cache[k] => Gave(q, k, a)'
  BY <1>1, GaveStays DEF IInv, CacheIsGiven
<1>6. CacheIsGiven'
  <2> SUFFICES ASSUME NEW k \in Keys, cache'[k] # <<>>
               PROVE  /\ \E text \in Texts : cache'[k] = <<text>>
                      /\ \E q \in Requests : Gave(q, k, cache[k])'
    BY DEF CacheIsGiven
  <2>1. CASE cache'[k] = cache[k]
    BY <1>5, <2>1 DEF IInv, CacheIsGiven, Gave
  <2>2. CASE cache'[k] # cache[k]
    <3>1. /\ pc[r] = "store" /\ pc'[r] = "persist" /\ answer' = answer
          /\ k = Key(shape[r]) /\ cache'[k] = answer[r]
      BY <1>1, <2>2 DEF Effect, IInv, TypeOK
    <3>2. ~shape[r].stream /\ ~shape[r].tools /\ \E text \in Texts : answer[r] = <<text>>
      BY <3>1 DEF IInv, CacheUsers
    <3>3. Gave(r, k, cache[k])'
      BY <1>1, <3>1, <3>2 DEF Gave, OnlyOf
    <3> QED  BY <3>1, <3>2, <3>3
  <2> QED  BY <2>1, <2>2
<1>7. HitIsGiven'
  <2> SUFFICES ASSUME NEW h \in Requests, pc'[h] = "hit"
               PROVE  \E q \in Requests : Gave(q, Key(shape[h]), answer[h])'
    BY DEF HitIsGiven
  <2>1. CASE h = r
    <3>1. Key(shape[r]) \in Keys
      BY DEF IInv, TypeOK, Keys
    <3>2. cache[Key(shape[r])] # <<>> /\ answer'[r] = cache[Key(shape[r])] /\ shape' = shape
      BY <1>1, <2>1 DEF Effect, OnlyOf
    <3> QED  BY <1>5, <2>1, <3>1, <3>2 DEF Gave
  <2>2. CASE h # r
    <3>1. pc[h] = "hit" /\ answer'[h] = answer[h] /\ shape' = shape
      BY <1>1, <2>2 DEF OnlyOf
    <3>2. PICK q \in Requests : Gave(q, Key(shape[h]), answer[h])
      BY <3>1 DEF IInv, HitIsGiven
    <3>3. \A k, a : Gave(q, k, a) => Gave(q, k, a)'
      BY <1>1, GaveStays DEF IInv
    <3> QED  BY <3>1, <3>2, <3>3 DEF Gave
  <2> QED  BY <2>1, <2>2
<1> QED
  BY <1>2, <1>3, <1>4, <1>6, <1>7 DEF IInv

\* An expiry takes an entry away and leaves the rest given.
LEMMA ExpireInv ==
    ASSUME IInv, NEW k \in Keys, Expire(k)
    PROVE  IInv'
<1>1. /\ cache' = [cache EXCEPT ![k] = <<>>]
      /\ UNCHANGED <<shape, pc, answer, turn, signal, log, calls, tries, storing>>
  BY DEF Expire, history, loop
<1>2. TypeOK'
  BY <1>1 DEF IInv, TypeOK
<1>3. \A i \in Keys : cache'[i] = IF i = k THEN <<>> ELSE cache[i]
  BY <1>1 DEF IInv, TypeOK
<1>4. CacheIsGiven'
  BY <1>1, <1>3 DEF IInv, CacheIsGiven, Gave
<1>5. Unsaid' /\ CacheUsers' /\ HitIsGiven'
  BY <1>1 DEF IInv, Unsaid, CacheUsers, HitIsGiven, Gave
<1>6. LoopInv'
  BY <1>1 DEF IInv, LoopInv, LoopOf
<1> QED
  BY <1>2, <1>4, <1>5, <1>6 DEF IInv

\* The inductive invariant: what a request has said at each place, who comes near
\* the cache, where its entries come from, and the order of the tool loop's messages.
THEOREM PipelineInvariant == Spec => []IInv
<1>1. Init => IInv
  <2> SUFFICES ASSUME Init PROVE IInv
    OBVIOUS
  <2>1. TypeOK
    BY BoundsAssumption, ShapesAssumption DEF Init, TypeOK, PcType
  <2>2. Unsaid /\ CacheUsers /\ CacheIsGiven /\ HitIsGiven
    BY DEF Init, Unsaid, CacheUsers, CacheIsGiven, HitIsGiven
  <2>3. LoopInv
    BY DEF Init, LoopInv, LoopOf, AnsweredUpTo
  <2> QED  BY <2>1, <2>2, <2>3 DEF IInv
<1>2. IInv /\ [Next]_vars => IInv'
  <2> SUFFICES ASSUME IInv, [Next]_vars PROVE IInv'
    OBVIOUS
  <2>1. CASE UNCHANGED vars
    BY <2>1 DEF IInv, TypeOK, Unsaid, CacheUsers, CacheIsGiven, HitIsGiven, Gave, LoopInv, LoopOf,
                vars, history, loop
  <2> QED
    BY <2>1, StepInv, ExpireInv DEF Next
<1> QED
  BY <1>1, <1>2, PTL DEF Spec

\* Every variable keeps its type, for any requests, texts and bounds.
THEOREM PipelineTypeOK == Spec => []TypeOK
<1>1. IInv => TypeOK
  BY DEF IInv
<1> QED  BY <1>1, PipelineInvariant, PTL

\* However many requests share the cache, whatever is lost, expired or overwritten: a
\* hit is the answer that another request, asking the same without tools, was given.
THEOREM HitsAreEarlierAnswers == Spec => []HitIsAnEarlierAnswer
<1>1. IInv => HitIsAnEarlierAnswer
  <2> SUFFICES ASSUME IInv, NEW r \in Requests, pc[r] = "hit"
               PROVE  \E q \in Requests \ {r} :
                        /\ shape[q].ask = shape[r].ask
                        /\ shape[q].opts = shape[r].opts
                        /\ ~shape[q].tools
                        /\ answer[q] = answer[r]
    BY DEF HitIsAnEarlierAnswer
  <2>1. PICK q \in Requests : Gave(q, Key(shape[r]), answer[r])
    BY DEF IInv, HitIsGiven
  <2>2. q # r
    BY <2>1 DEF Gave
  <2>3. shape[q].ask = shape[r].ask /\ shape[q].opts = shape[r].opts
    BY <2>1 DEF Gave, Key
  <2> QED  BY <2>1, <2>2, <2>3 DEF Gave
<1> QED  BY <1>1, PipelineInvariant, PTL

\* For any bound on the iterations and any number of calls in a reply, the model is
\* never asked with a call unanswered, answered twice or out of order.
THEOREM AgentKeepsProtocol == Spec => []AgentProtocol
<1>1. IInv => AgentProtocol
  <2> SUFFICES ASSUME IInv, NEW r \in Requests, pc[r] = "agent"
               PROVE  Answered(log[r]) /\ tries[r] <= MaxIters
    BY DEF AgentProtocol
  <2>1. AnsweredUpTo(log[r], Len(log[r])) /\ tries[r] <= MaxIters
    BY DEF IInv, LoopInv, LoopOf
  <2>2. DOMAIN log[r] = 1..Len(log[r])
    BY DEF IInv, TypeOK
  <2> QED  BY <2>1, <2>2 DEF Answered, AnsweredUpTo
<1> QED  BY <1>1, PipelineInvariant, PTL

\* The chat route implements AnsweredTurn: whichever strategies a request asks for
\* and whatever fails, its turn is recorded once, last and whole, or not at all.
THEOREM PipelineImplementsTurns == Spec => TurnSpec
<1>1. Init => Turns!TurnInit
  BY DEF Init, Turns!TurnInit, Ended
<1>2. IInv /\ [Next]_vars => [Turns!TurnNext]_(Turns!turnVars)
  <2> SUFFICES ASSUME IInv, [Next]_vars, ~UNCHANGED Turns!turnVars
               PROVE  Turns!TurnNext
    OBVIOUS
  <2>1. PICK r \in Requests : Step(r) \/ ClientGone(r)
    BY DEF Next, Expire, vars, history, loop, Turns!turnVars
  <2>2. OnlyOf(r) /\ Effect(r) /\ pc[r] \notin Ended
    BY <2>1, StepFrame, StepEffect DEF IInv
  <2> DEFINE over == {q \in Requests : pc[q] \in Ended}
  <2>3. r \notin over /\ over' = IF pc'[r] \in Ended THEN over \cup {r} ELSE over
    BY <2>2 DEF OnlyOf
  <2>4. CASE Says(r)
    <3> Turns!Say(r)
      BY <2>3, <2>4 DEF Turns!Say, Says
    <3> QED  BY DEF Turns!TurnNext
  <2>5. CASE Records(r)
    <3> Turns!Note(r)
      BY <2>3, <2>5 DEF Turns!Note, Records
    <3> QED  BY DEF Turns!TurnNext
  <2>6. CASE SaysNothing
    <3> Turns!Close(r)
      BY <2>3, <2>6 DEF Turns!Close, SaysNothing, Turns!turnVars
    <3> QED  BY DEF Turns!TurnNext
  <2> QED
    BY <2>2, <2>4, <2>5, <2>6 DEF Effect
<1> QED
  BY <1>1, <1>2, PipelineInvariant, PTL DEF Spec, TurnSpec, Turns!TurnSpec

=============================================================================
