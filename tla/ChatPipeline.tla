---------------------------- MODULE ChatPipeline ----------------------------
(***************************************************************************)
(* POST /v1/chat/completions: gateway/routes/chat.py with the strategies   *)
(* it calls (agent_loop.py, cascade.py, bestofn.py, verifiers.py, moa.py,  *)
(* constrained.py) and the exact response cache (cache/responses.py).      *)
(*                                                                         *)
(* A request is taken through the stages in the order of the code; it      *)
(* waits at every call of a model or a tool, and other requests run        *)
(* meanwhile.  The cache and the history are separate steps: replicas      *)
(* that share them may come in between.  What a model replies is external  *)
(* to the gateway.  The rate limiter and the rows of a conversation have   *)
(* modules of their own; here a request is admitted or not, and a turn is  *)
(* recorded or not.                                                        *)
(***************************************************************************)
EXTENDS Integers, Sequences, FiniteSets

CONSTANTS
    Requests,
    Asks,           \* model, messages and sampling parameters, after RAG
    Shapes,         \* the requests that clients make
    Texts,          \* answers and chunks of answers
    Valid,          \* the texts that validate against a constraint
    NoTurn,         \* nothing recorded
    CacheOn,        \* MIXLE_ENABLE_RESPONSE_CACHE
    MaxChunks,      \* chunks of a stream (bound)
    MaxIters,       \* max_tool_iters, 6 by default
    MaxCalls,       \* tool calls in one reply (bound)
    Layers,         \* layers of a mixture of agents
    MaxRepairs,     \* max_repairs, 2 by default
    Samples,        \* n of best_of_n
    Quorum          \* fewest votes whose fraction reaches the threshold

\* What a request's extra asks for, as far as the gateway can follow it: the
\* frontier and the proposers it names are registered, n is above 1.  "backend"
\* stands for options that only the backend reads.
Options == {"agent", "cascade", "best", "verifier", "moa", "masked", "constrained", "backend"}
Shape == [ask : Asks, opts : SUBSET Options, stream : BOOLEAN, tools : BOOLEAN, signedIn : BOOLEAN]

ASSUME ShapesAssumption == Shapes \subseteq Shape
ASSUME ValidAssumption == Valid \subseteq Texts
ASSUME CacheOnAssumption == CacheOn \in BOOLEAN
ASSUME BoundsAssumption ==
    /\ MaxChunks \in Nat
    /\ MaxIters \in Nat
    /\ MaxCalls \in Nat \ {0}
    /\ Layers \in Nat \ {0}
    /\ MaxRepairs \in Nat
ASSUME SamplesAssumption == Samples \in Nat \ {0, 1} /\ Quorum \in Nat
ASSUME NoTurnAssumption == NoTurn \notin Seq(Texts)

VARIABLES
    shape,      \* shape[r]: what was asked
    pc,         \* pc[r]: what a request waits for, or how it ended
    answer,     \* answer[r]: sequence of texts the client is answered
    turn,       \* turn[r]: the answer in the conversation history
    log,        \* log[r]: what the tool loop added to the messages
    calls,      \* calls[r]: the tool calls being run, and the one to run next
    tries,      \* tries[r]: asks, layers or repairs of the strategy's loop
    storing,    \* storing[r]: rc is not None
    signal,     \* signal[r]: the usage signal recorded for self-evolution
    cache       \* cache[k]: the cached answer, or <<>>

history == <<turn, signal>>
loop == <<log, calls, tries>>
vars == <<shape, pc, answer, history, loop, storing, cache>>

\* Mutated form of Key: the extra options are left out as well.
KeyWithoutExtra(q) == [ask |-> q.ask, opts |-> {}]

\* chat_request_key: stream, tools, tool_choice and user are left out.
Key(q) == [ask |-> q.ask, opts |-> q.opts]

Keys == {Key(q) : q \in Shapes}

Entry == [role : {"assistant", "tool"}, n : 1..MaxCalls]
Waiting == {"agent", "tools", "signal", "frontier", "cascade", "best", "moa", "aggregate",
            "masked", "constrained", "lookup", "plain", "stream"}
Ended == {"rejected", "hit", "answered", "failed", "gone"}
PcType == {"new", "store", "persist"} \cup Waiting \cup Ended

TypeOK ==
    /\ shape \in [Requests -> Shapes]
    /\ pc \in [Requests -> PcType]
    /\ answer \in [Requests -> Seq(Texts)]
    /\ turn \in [Requests -> Seq(Texts) \cup {NoTurn}]
    /\ log \in [Requests -> Seq(Entry)]
    /\ calls \in [Requests -> [of : 0..MaxCalls, next : 1..MaxCalls]]
    /\ tries \in [Requests -> Nat]
    /\ storing \in [Requests -> BOOLEAN]
    /\ signal \in [Requests -> {"none", "kept", "escalated", "vote"}]
    /\ cache \in [Keys -> Seq(Texts)]

Init ==
    /\ shape \in [Requests -> Shapes]
    /\ pc = [r \in Requests |-> "new"]
    /\ answer = [r \in Requests |-> <<>>]
    /\ turn = [r \in Requests |-> NoTurn]
    /\ log = [r \in Requests |-> <<>>]
    /\ calls = [r \in Requests |-> [of |-> 0, next |-> 1]]
    /\ tries = [r \in Requests |-> 0]
    /\ storing = [r \in Requests |-> FALSE]
    /\ signal = [r \in Requests |-> "none"]
    /\ cache = [k \in Keys |-> <<>>]

Goto(r, where) == pc' = [pc EXCEPT ![r] = where]

\* The strategy has its completion: it is said, and recorded next.
AnswerWith(r, text) ==
    /\ answer' = [answer EXCEPT ![r] = <<text>>]
    /\ Goto(r, "persist")

-----------------------------------------------------------------------------
(* Stages 1 to 5 of chat_completions: which strategy answers *)

Asked(q, option) == option \in q.opts /\ ~q.stream

Cacheable(q) == CacheOn /\ ~q.stream /\ ~q.tools

Route(q) ==
    CASE "agent" \in q.opts      -> "agent"
      [] Asked(q, "cascade")     -> "signal"
      [] Asked(q, "best")        -> "best"
      [] Asked(q, "moa")         -> "moa"
      [] Asked(q, "masked")      -> "masked"
      [] Asked(q, "constrained") -> "constrained"
      [] Cacheable(q)            -> "lookup"
      [] q.stream                -> "stream"
      [] OTHER                   -> "plain"

\* Unknown model, rate limit, or a file reference that cannot be resolved.
Reject(r) ==
    /\ pc[r] = "new"
    /\ Goto(r, "rejected")
    /\ UNCHANGED <<shape, answer, history, loop, storing, cache>>

Start(r) ==
    /\ pc[r] = "new"
    /\ Goto(r, Route(shape[r]))
    /\ UNCHANGED <<shape, answer, history, loop, storing, cache>>

\* A model, or the judge of best_of_n_verified, raises: nothing is recorded.
ModelRaises(r) ==
    /\ pc[r] \in Waiting \ {"tools", "masked", "lookup", "stream"}
    /\ Goto(r, "failed")
    /\ UNCHANGED <<shape, answer, history, loop, storing, cache>>

-----------------------------------------------------------------------------
(* run_agent_loop *)

\* The reply asks for tools; without iterations left it would be the answer.
AgentCalls(r) ==
    /\ pc[r] = "agent"
    /\ tries[r] < MaxIters
    /\ \E n \in 1..MaxCalls :
        /\ log' = [log EXCEPT ![r] = Append(@, [role |-> "assistant", n |-> n])]
        /\ calls' = [calls EXCEPT ![r] = [of |-> n, next |-> 1]]
    /\ tries' = [tries EXCEPT ![r] = @ + 1]
    /\ Goto(r, "tools")
    /\ UNCHANGED <<shape, answer, history, storing, cache>>

NextCall(r) ==
    IF calls[r].next = calls[r].of
    THEN Goto(r, "agent") /\ UNCHANGED calls
    ELSE calls' = [calls EXCEPT ![r].next = @ + 1] /\ UNCHANGED pc

ToolResult(r) == [log EXCEPT ![r] = Append(@, [role |-> "tool", n |-> calls[r].next])]

\* Mutated form of RunTool: a tool that raises leaves its call unanswered.
RunToolOrSkip(r) ==
    /\ pc[r] = "tools"
    /\ log' \in {log, ToolResult(r)}
    /\ NextCall(r)
    /\ UNCHANGED <<shape, answer, history, tries, storing, cache>>

\* One call: its result, or what the tool raised, is appended.
RunTool(r) ==
    /\ pc[r] = "tools"
    /\ log' = ToolResult(r)
    /\ NextCall(r)
    /\ UNCHANGED <<shape, answer, history, tries, storing, cache>>

AgentAnswers(r) ==
    /\ pc[r] = "agent"
    /\ \E text \in Texts : AnswerWith(r, text)
    /\ UNCHANGED <<shape, history, loop, storing, cache>>

-----------------------------------------------------------------------------
(* best_of_n, best_of_n_verified and cascade *)

\* Texts stand for their extract_answer: two candidates agree when equal.
Votes(cands, i) == Cardinality({j \in DOMAIN cands : cands[j] = cands[i]})

\* The first candidate with the most votes, as Counter.most_common has it.
Wins(cands, i) ==
    \A j \in DOMAIN cands :
        Votes(cands, i) > Votes(cands, j) \/ (Votes(cands, i) = Votes(cands, j) /\ i <= j)

Candidates == [1..Samples -> Texts]

\* _record_signal may fail, which nobody notices.
Signal(r, kind) == signal' \in {signal, [signal EXCEPT ![r] = kind]}

BestAnswers(r) ==
    /\ pc[r] = "best"
    /\ \E cands \in Candidates : \E i \in DOMAIN cands :
        /\ AnswerWith(r, cands[i])
        /\ \/ "verifier" \in shape[r].opts /\ UNCHANGED signal
           \/ "verifier" \notin shape[r].opts /\ i = 1 /\ UNCHANGED signal
           \/ "verifier" \notin shape[r].opts /\ Wins(cands, i) /\ Signal(r, "vote")
    /\ UNCHANGED <<shape, turn, loop, storing, cache>>

\* escalation_decision: the local model's own signal, if it has one.
CascadeSignal(r) ==
    /\ pc[r] = "signal"
    /\ \/ Goto(r, "cascade") /\ UNCHANGED <<answer, signal>>
       \/ Goto(r, "frontier") /\ UNCHANGED <<answer, signal>>
       \/ (\E text \in Texts : AnswerWith(r, text)) /\ Signal(r, "kept")
    /\ UNCHANGED <<shape, turn, loop, storing, cache>>

CascadeVote(r) ==
    /\ pc[r] = "cascade"
    /\ \E cands \in Candidates : \E i \in DOMAIN cands :
        /\ Wins(cands, i)
        /\ IF Votes(cands, i) >= Quorum
           THEN AnswerWith(r, cands[i]) /\ Signal(r, "kept")
           ELSE Goto(r, "frontier") /\ UNCHANGED <<answer, signal>>
    /\ UNCHANGED <<shape, turn, loop, storing, cache>>

FrontierAnswers(r) ==
    /\ pc[r] = "frontier"
    /\ \E text \in Texts : AnswerWith(r, text)
    /\ Signal(r, "escalated")
    /\ UNCHANGED <<shape, turn, loop, storing, cache>>

-----------------------------------------------------------------------------
(* mixture_of_agents and constrained_complete *)

LayerProposes(r) ==
    /\ pc[r] = "moa"
    /\ tries' = [tries EXCEPT ![r] = @ + 1]
    /\ Goto(r, IF tries[r] + 1 = Layers THEN "aggregate" ELSE "moa")
    /\ UNCHANGED <<shape, answer, history, log, calls, storing, cache>>

AggregatorAnswers(r) ==
    /\ pc[r] = "aggregate"
    /\ \E text \in Texts : AnswerWith(r, text)
    /\ UNCHANGED <<shape, history, loop, storing, cache>>

\* In-decode masking; at the token budget the text may yet be invalid.
MaskedAnswers(r) ==
    /\ pc[r] = "masked"
    /\ \E text \in Texts : AnswerWith(r, text)
    /\ UNCHANGED <<shape, history, loop, storing, cache>>

\* Mutated form of MaskedRaises: what raises is raised after _persist.
MaskedRaisesLate(r) ==
    /\ pc[r] = "masked"
    /\ \E text \in Texts : turn' = [turn EXCEPT ![r] = <<text>>]
    /\ Goto(r, "constrained")
    /\ UNCHANGED <<shape, answer, signal, loop, storing, cache>>

\* No FSA for the constraint, or decoding raises: on to the backend path.
MaskedRaises(r) ==
    /\ pc[r] = "masked"
    /\ Goto(r, "constrained")
    /\ UNCHANGED <<shape, answer, history, loop, storing, cache>>

\* A valid reply is the answer, and so is the last one allowed.
ConstrainedAnswers(r) ==
    /\ pc[r] = "constrained"
    /\ \E text \in Texts :
        /\ text \in Valid \/ tries[r] = MaxRepairs
        /\ AnswerWith(r, text)
    /\ UNCHANGED <<shape, history, loop, storing, cache>>

\* Mutated form of Repair: a repair starts from the beginning, uncounted.
RepairFromTheStart(r) ==
    /\ pc[r] = "constrained"
    /\ \E text \in Texts : text \notin Valid
    /\ tries[r] < MaxRepairs
    /\ Goto(r, Route(shape[r]))
    /\ UNCHANGED <<shape, answer, history, loop, storing, cache>>

\* An invalid reply is sent back with what is wrong in it.
Repair(r) ==
    /\ pc[r] = "constrained"
    /\ \E text \in Texts : text \notin Valid
    /\ tries[r] < MaxRepairs
    /\ tries' = [tries EXCEPT ![r] = @ + 1]
    /\ UNCHANGED <<shape, pc, answer, history, log, calls, storing, cache>>

-----------------------------------------------------------------------------
(* The response cache and plain dispatch *)

\* A hit is returned as it is, and not recorded.  When the cache raises the
\* request goes on without it.
Lookup(r) ==
    /\ pc[r] = "lookup"
    /\ LET found == cache[Key(shape[r])] IN
        \/ /\ found # <<>>
           /\ answer' = [answer EXCEPT ![r] = found]
           /\ Goto(r, "hit")
           /\ UNCHANGED storing
        \/ /\ found = <<>>
           /\ storing' = [storing EXCEPT ![r] = TRUE]
           /\ Goto(r, "plain")
           /\ UNCHANGED answer
        \/ /\ Goto(r, "plain")
           /\ UNCHANGED <<answer, storing>>
    /\ UNCHANGED <<shape, history, loop, cache>>

PlainAnswers(r) ==
    /\ pc[r] = "plain"
    /\ \E text \in Texts : answer' = [answer EXCEPT ![r] = <<text>>]
    /\ Goto(r, IF storing[r] THEN "store" ELSE "persist")
    /\ UNCHANGED <<shape, history, loop, storing, cache>>

\* rc.set, which may fail.
Store(r) ==
    /\ pc[r] = "store"
    /\ cache' \in {cache, [cache EXCEPT ![Key(shape[r])] = answer[r]]}
    /\ Goto(r, "persist")
    /\ UNCHANGED <<shape, answer, history, loop, storing>>

\* The time to live of an entry is over, or Redis evicts it.
Expire(k) ==
    /\ cache[k] # <<>>
    /\ cache' = [cache EXCEPT ![k] = <<>>]
    /\ UNCHANGED <<shape, pc, answer, history, loop, storing>>

-----------------------------------------------------------------------------
(* event_stream, agent_stream and _persist *)

Chunk(r) ==
    /\ pc[r] = "stream"
    /\ Len(answer[r]) < MaxChunks
    /\ \E text \in Texts : answer' = [answer EXCEPT ![r] = Append(@, text)]
    /\ UNCHANGED <<shape, pc, history, loop, storing, cache>>

\* The model is done or raises; what was streamed is recorded either way.
StreamEnds(r) ==
    /\ pc[r] = "stream"
    /\ Goto(r, "persist")
    /\ UNCHANGED <<shape, answer, history, loop, storing, cache>>

\* The client disconnects: the generator is cancelled where it waits.
ClientGone(r) ==
    /\ shape[r].stream
    /\ pc[r] \in Waiting \cup {"persist"}
    /\ Goto(r, "gone")
    /\ UNCHANGED <<shape, answer, history, loop, storing, cache>>

\* _persist is best effort, and only for a signed-in user.
Persist(r) ==
    /\ pc[r] = "persist"
    /\ \/ UNCHANGED turn
       \/ /\ shape[r].signedIn
          /\ turn' = [turn EXCEPT ![r] = answer[r]]
    /\ Goto(r, "answered")
    /\ UNCHANGED <<shape, answer, signal, loop, storing, cache>>

-----------------------------------------------------------------------------
Step(r) ==
    \/ Reject(r) \/ Start(r) \/ ModelRaises(r)
    \/ AgentCalls(r) \/ RunTool(r) \/ AgentAnswers(r)
    \/ BestAnswers(r)
    \/ CascadeSignal(r) \/ CascadeVote(r) \/ FrontierAnswers(r)
    \/ LayerProposes(r) \/ AggregatorAnswers(r)
    \/ MaskedAnswers(r) \/ MaskedRaises(r) \/ ConstrainedAnswers(r) \/ Repair(r)
    \/ Lookup(r) \/ PlainAnswers(r) \/ Store(r)
    \/ Chunk(r) \/ StreamEnds(r)
    \/ Persist(r)

Next ==
    \/ \E r \in Requests : Step(r) \/ ClientGone(r)
    \/ \E k \in Keys : Expire(k)

Spec == Init /\ [][Next]_vars

\* Models and tools return or raise (their calls have timeouts), and the event
\* loop resumes a handler whose call is over.  No client has to disconnect.
FairSpec == Spec /\ \A r \in Requests : WF_vars(Step(r))

-----------------------------------------------------------------------------
(* Properties *)

\* Whatever strategy answers, falls through or breaks off, the history gets a
\* turn once and with all that the client was answered, or not at all.
Turns == INSTANCE AnsweredTurn
    WITH heard <- answer, noted <- turn, closed <- {r \in Requests : pc[r] \in Ended}
TurnSpec == Turns!TurnSpec

\* A cached answer was given to another request that asked the same with the same
\* options and no tools, however stores, expiries and failures interleave.
HitIsAnEarlierAnswer ==
    \A r \in Requests : pc[r] = "hit" =>
        \E q \in Requests \ {r} :
            /\ shape[q].ask = shape[r].ask
            /\ shape[q].opts = shape[r].opts
            /\ ~shape[q].tools
            /\ answer[q] = answer[r]

\* The function-calling protocol of agent_loop.py: whenever the model is asked, each
\* of its earlier replies is followed by the results of all its calls, in order,
\* and by nothing else; and it is asked at most MaxIters times with tools.
Answered(entries) ==
    \A i \in DOMAIN entries :
        IF entries[i].role = "assistant"
        THEN \A n \in 1..entries[i].n :
                i + n \in DOMAIN entries /\ entries[i + n] = [role |-> "tool", n |-> n]
        ELSE LET asked == i - entries[i].n IN
                /\ asked \in DOMAIN entries
                /\ entries[asked].role = "assistant"
                /\ entries[i].n <= entries[asked].n
AgentProtocol ==
    \A r \in Requests : pc[r] = "agent" => Answered(log[r]) /\ tries[r] <= MaxIters

\* Every request ends: the tool loop, the repairs, the layers and the fallbacks all
\* run out.
RequestsEnd == \A r \in Requests : <>(pc[r] \in Ended)
=============================================================================
