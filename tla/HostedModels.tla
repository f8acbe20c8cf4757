---------------------------- MODULE HostedModels ----------------------------
(* A hosted model and what its endpoints answer (models/mixle_model.py,      *)
(* models/task_cascade.py, core/predictive.py, core/adapters.py,             *)
(* core/registry.py, gateway/routes/mixle.py): what it says it can do, what  *)
(* it does, and a promotion that puts another model in its place meanwhile.  *)
(*                                                                           *)
(* A fitted model is the set of the features its answers depend on:          *)
(*   cdf, sampler, log_density, seq_log_density, encoder, latent, viterbi,   *)
(*   conditions (on a context), sliced_cdf and sliced_sampler (what is left  *)
(*   of the first two then), coarse (its density is no better than an        *)
(*   estimate).                                                              *)
(* A task model is the set of calibrated, classifier or extractor.           *)
EXTENDS Naturals, Sequences, FiniteSets

CONSTANTS Challenger,   \* models that may be promoted
          MaxQueries    \* bound on the queries of a behaviour

VARIABLES host,      \* the registered adapter: [kind, service, fitData, task, input]
          law,       \* MixleAdapter._model
          asked,     \* the query being answered: [route, ...]
          densities, \* the models that computed the densities of a score being answered
          told,      \* what capabilities() said last
          fresh,     \* no model has been promoted since
          served,    \* the models served since the query was asked
          reply,     \* the last answer: [query, status, how, tag, parts]
          said,      \* what a task model said of its input at each endpoint
          queries    \* how many queries have been asked

vars == <<host, law, asked, densities, told, fresh, served, reply, said, queries>>

Nothing == "-"
NoQuery == [route |-> Nothing]
NoReply == [query |-> NoQuery, status |-> Nothing, how |-> <<>>, tag |-> Nothing, parts |-> {}]
TaskEndpoints == {"predict", "chat", "decision"}

\* host.service: the model of the Service the adapter was built from, or {}.
InitIn(hosts, laws) ==
    /\ host \in hosts
    /\ law \in IF host.kind # "mixle" THEN {{}} ELSE IF host.service = {} THEN laws ELSE {host.service}
    /\ asked = NoQuery
    /\ densities = {}
    /\ told = {}
    /\ fresh = FALSE
    /\ served = {}
    /\ reply = NoReply
    /\ said = [e \in TaskEndpoints |-> Nothing]
    /\ queries = 0

-----------------------------------------------------------------------------
(* core/predictive.py.                                                      *)

Sliced == [cdf |-> "sliced_cdf", sampler |-> "sliced_sampler"]

\* A record is a context the model is conditioned on, one it refuses to be, a
\* dict that names its target ("y"), or anything else.
Conditioned(m, r) ==
    IF r = "context" /\ "conditions" \in m
    THEN {f \in {"cdf", "sampler"} : Sliced[f] \in m} ELSE m

\* What the numbers of one record are: read off the inverse CDF, drawn, or none.
\* The name of a target is taken for the index of a coordinate.
RecordPrediction(m, r) ==
    LET dist == Conditioned(m, r)
    IN  CASE r = "target" /\ "conditions" \in m -> "error"
          [] ~(r = "target" /\ "conditions" \in m) /\ "cdf" \in dist ->
                 IF "sampler" \in m \ dist THEN "error" ELSE "exact"
          [] OTHER -> IF "sampler" \in dist THEN "drawn" ELSE "refused"

\* Mutated form of PredictiveSemantics: the model's own word is all that counts.
PredictiveSemanticsDeclared(m) == IF "coarse" \in m THEN "estimate" ELSE "exact"

PredictiveSemantics(m) == IF "cdf" \in m /\ "coarse" \notin m THEN "exact" ELSE "estimate"

\* The first record that cannot be predicted ends the batch.
PredictiveBatch(m, records) ==
    LET how == [i \in DOMAIN records |-> RecordPrediction(m, records[i])]
        bad == {i \in DOMAIN how : how[i] \in {"error", "refused"}}
        status == CASE {"cdf", "sampler"} \cap m = {} -> "refused"
                    [] {"cdf", "sampler"} \cap m # {} /\ bad # {} ->
                           how[CHOOSE i \in bad : \A j \in bad : i <= j]
                    [] OTHER -> "ok"
    IN  IF status = "ok"
        THEN [status |-> "ok", how |-> how, tag |-> PredictiveSemantics(m), parts |-> {m}]
        ELSE [status |-> status, how |-> <<>>, tag |-> Nothing, parts |-> {}]

-----------------------------------------------------------------------------
(* MixleAdapter and ModelAdapter.                                           *)

Plain(status, parts) == [status |-> status, how |-> <<>>, tag |-> Nothing, parts |-> parts]
OkIf(can, m) == IF can THEN Plain("ok", {m}) ELSE Plain("refused", {})

\* Mutated form of Capabilities: a model with a most probable path only is left out.
CapabilitiesOfPosteriors(m) ==
    {"chat"} \cup (IF {"cdf", "sampler"} \cap m # {} THEN {"predict"} ELSE {})
             \cup (IF {"log_density", "seq_log_density"} \cap m # {} THEN {"score"} ELSE {})
             \cup (IF "latent" \in m THEN {"latent"} ELSE {})
             \cup (IF "sampler" \in m THEN {"decide"} ELSE {})

Capabilities(m) ==
    {"chat"} \cup (IF {"cdf", "sampler"} \cap m # {} THEN {"predict"} ELSE {})
             \cup (IF {"log_density", "seq_log_density"} \cap m # {} THEN {"score"} ELSE {})
             \cup (IF {"latent", "viterbi"} \cap m # {} THEN {"latent"} ELSE {})
             \cup (IF "sampler" \in m THEN {"decide"} ELSE {})

\* The densities of a whole batch at once, when it can be encoded; else one by one.
Scores(m, encodes) ==
    \/ {"encoder", "seq_log_density"} \subseteq m /\ encodes
    \/ "log_density" \in m

DensitySemantics(m) == IF "coarse" \in m THEN "estimate" ELSE "exact"

Latent(m) == OkIf({"latent", "viterbi"} \cap m # {}, m)

\* mixle.inference.posterior: whether it can be had.
Posterior(m, over) == CASE over = "predictive" -> "sampler" \in m
                        [] over = "latent" -> "latent" \in m
                        [] over = "params" -> TRUE

\* _build_loss: the losses with a name.
BuildLoss(q) == q.loss \in {"squared", "absolute", "linex", "newsvendor"}

\* Another loss is refused by the route; bayes_action raises when it is given no action.
Decide(m, q) ==
    CASE ~BuildLoss(q) -> Plain("unprocessable", {})
      [] BuildLoss(q) /\ q.over = "params" /\ ~host.fitData -> Plain("refused", {})
      [] OTHER -> IF Posterior(m, q.over) /\ q.actions THEN Plain("ok", {m}) ELSE Plain("error", {})

\* A message is a JSON list of records, one JSON record, or neither.
ParseRecords(text) ==
    CASE text.json = "list" /\ text.records # <<>> -> text.records
      [] text.json = "record" -> <<text.records[1]>>
      [] OTHER -> <<"plain">>

\* What cannot be predicted is said in words.
ChatSummary(m, text) ==
    LET p == PredictiveBatch(m, ParseRecords(text))
    IN  IF p.status = "refused" THEN Plain("ok", {m}) ELSE p

-----------------------------------------------------------------------------
(* TaskCascadeAdapter.  Its input has a best label, a conformal set that     *)
(* contains it unless it is empty, and may be out of distribution; what an   *)
(* extractor finds of it may be unsure.                                      *)

Calibrated == "calibrated" \in host.task
Extractor == "extractor" \in host.task

\* CalibratedTaskModel._escalate_flags
Escalated(input) == Cardinality(input.set) # 1 \/ input.unfamiliar
LabelOr(escalate, label) == IF escalate THEN "escalates" ELSE label

TaskPredict(input) == LabelOr(Calibrated /\ Escalated(input), input.best)
TaskChat(input) == LabelOr(Calibrated /\ Cardinality(input.set) # 1, input.best)

\* Mutated form of EscalationDecision: the gate on the density is forgotten.
EscalationDecisionOfSet(input) ==
    IF Extractor THEN LabelOr(input.unsure, input.best)
    ELSE LabelOr(Calibrated /\ Cardinality(input.set) # 1, input.best)

EscalationDecision(input) ==
    IF Extractor THEN LabelOr(input.unsure, input.best)
    ELSE LabelOr(Calibrated /\ Escalated(input), input.best)

TaskCapabilities == {"chat", "predict"} \cup IF "classifier" \in host.task THEN {"score"} ELSE {}

\* ModelAdapter: any other model only chats.
PlainCapabilities == {"chat"}

CapabilitiesOf == CASE host.kind = "mixle" -> Capabilities(law)
                    [] host.kind = "task" -> TaskCapabilities
                    [] OTHER -> PlainCapabilities

-----------------------------------------------------------------------------
(* The routes.                                                              *)

Ask(q) ==
    /\ asked = NoQuery /\ queries < MaxQueries
    /\ asked' = q
    /\ served' = {law}
    /\ reply' = NoReply
    /\ queries' = queries + 1
    /\ UNCHANGED <<host, law, densities, told, fresh, said>>

Asked(route) == asked.route = route
Reply(r) ==
    /\ asked' = NoQuery
    /\ reply' = [query |-> asked, status |-> r.status, how |-> r.how, tag |-> r.tag, parts |-> r.parts]

Resolve == /\ Asked("elsewhere") /\ Reply(Plain("missing", {}))
           /\ UNCHANGED <<host, law, densities, told, fresh, served, said, queries>>

TellCapabilities ==
    /\ Asked("capabilities")
    /\ told' = CapabilitiesOf /\ fresh' = TRUE
    /\ Reply(Plain("ok", {law}))
    /\ UNCHANGED <<host, law, densities, served, said, queries>>

\* Each of these reads the model once.
Answer ==
    /\ \/ /\ host.kind = "mixle"
          /\ \/ Asked("predict") /\ Reply(PredictiveBatch(law, asked.records))
             \/ Asked("latent") /\ Reply(Latent(law))
             \/ Asked("decide") /\ Reply(Decide(law, asked))
             \/ Asked("chat") /\ Reply(ChatSummary(law, asked.text))
       \/ /\ host.kind = "task" /\ asked.route \in {"score", "latent", "decide"}
          /\ Reply(OkIf(asked.route \in TaskCapabilities, law))
       \/ /\ host.kind = "plain" /\ asked.route \in {"predict", "score", "latent", "decide", "chat"}
          /\ Reply(OkIf(asked.route \in PlainCapabilities, law))
    /\ UNCHANGED <<host, law, densities, told, fresh, served, said, queries>>

\* The densities are the Service's, if there is one, else the model's.
Score ==
    /\ Asked("score") /\ host.kind = "mixle" /\ densities = {}
    /\ LET by == IF host.service # {} THEN host.service ELSE law
       IN  IF host.service # {} \/ Scores(law, asked.encodes)
           THEN densities' = {by} /\ UNCHANGED <<asked, reply>>
           ELSE Reply(Plain("refused", {})) /\ UNCHANGED densities
    /\ UNCHANGED <<host, law, told, fresh, served, said, queries>>

\* Their semantics are those of the model by then.
ScoreSemantics ==
    /\ densities # {}
    /\ densities' = {}
    /\ Reply([status |-> "ok", how |-> <<>>, tag |-> DensitySemantics(law), parts |-> densities \cup {law}])
    /\ UNCHANGED <<host, law, told, fresh, served, said, queries>>

SayOfTask(endpoint, outcome) ==
    /\ said' = [said EXCEPT ![endpoint] = outcome]
    /\ Reply(Plain("ok", {law}))
    /\ UNCHANGED <<host, law, densities, told, fresh, served, queries>>

\* What the task model says of its input; a cascade asks for the decision.
AnswerTask ==
    /\ host.kind = "task"
    /\ \/ Asked("predict") /\ SayOfTask("predict", TaskPredict(host.input))
       \/ Asked("chat") /\ SayOfTask("chat", TaskChat(host.input))
       \/ Asked("decision") /\ SayOfTask("decision", EscalationDecision(host.input))

\* EvolutionWorker._promote, in a thread of its own: only _model changes.
Promote(m) ==
    /\ host.kind = "mixle" /\ law # m
    /\ law' = m
    /\ served' = served \cup {m}
    /\ fresh' = FALSE
    /\ UNCHANGED <<host, asked, densities, told, reply, said, queries>>

Next(queried) ==
    \/ \E q \in queried : Ask(q)
    \/ Resolve \/ TellCapabilities \/ Answer \/ Score \/ ScoreSemantics \/ AnswerTask
    \/ \E m \in Challenger : Promote(m)

-----------------------------------------------------------------------------
(* What the endpoints promise.                                              *)

Query == reply.query
RecordsOf(q) == IF q.route = "chat" THEN ParseRecords(q.text) ELSE q.records
OfService == Query.route = "score" /\ host.service # {}

\* The last query was a prediction given a context, on a model that conditions.
OnASlice == /\ Query.route = "predict" /\ "conditions" \in law
            /\ \E i \in DOMAIN Query.records : Query.records[i] = "context"

\* MixleAdapter.capabilities and TaskCascadeAdapter.capabilities against the
\* endpoints: as long as nothing is promoted in between, a query that is not
\* advertised is refused as such, and one that is advertised is not.  But for:
\* scores of a Service, which are not advertised when its model has no density;
\* decisions, which fail otherwise without a sampler, or are had from the other
\* posteriors, or want data; slices that have lost what the model had; batches
\* that cannot be encoded, of a model with no density of single records.
CapabilitiesAreHonest ==
    fresh /\ Query.route \in {"predict", "score", "latent", "decide", "chat"} =>
        LET refused == reply.status = "refused"
        IN  IF Query.route \in told
            THEN refused => \/ OnASlice
                            \/ Query.route = "score" /\ "log_density" \notin law
                            \/ Query.route = "decide" /\ Query.over = "params" /\ ~host.fitData
            ELSE \/ refused
                 \/ OfService
                 \/ Query.route = "decide" /\ (reply.status = "ok" => Query.over # "predictive")

\* MixleAdapter.score and predictive_batch against a promotion: an answer is
\* computed by models that were served while it was, a Service's scores aside,
\* and is called exact only when nothing in it was drawn, a slice aside that
\* has lost the CDF its model had.
AnswersAreHonest ==
    reply.status = "ok" =>
        /\ reply.parts \subseteq served \cup IF OfService THEN {host.service} ELSE {}
        /\ reply.tag = "exact" =>
               /\ \E m \in reply.parts : "coarse" \notin m
               /\ \A i \in DOMAIN reply.how : reply.how[i] = "drawn" => RecordsOf(Query)[i] = "context"

\* TaskCascadeAdapter.predict, stream and escalation_decision: they escalate the
\* same inputs and give the others the same label.  But the chat knows nothing of
\* the gate on the density, nor of what the extractor is unsure of.
EscalationAgrees ==
    \A e, f \in TaskEndpoints :
        /\ e # f /\ Nothing \notin {said[e], said[f]}
        /\ said[e] # said[f]
        => IF Extractor THEN host.input.unsure /\ "decision" \in {e, f}
                        ELSE host.input.unfamiliar /\ "chat" \in {e, f}

=============================================================================
