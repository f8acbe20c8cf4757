----------------------------- MODULE MCServices -----------------------------
(* The services around the pipeline, one at a time: accounts, MCP, documents *)
(* and their index, the standalone model server, the chat page, the hosted   *)
(* models, the selection of a panel, datasets, feedback.  They share no      *)
(* state in the code either; each behaviour is one of a single part, and the *)
(* other parts stay as they begin.                                           *)
EXTENDS MCInputs

CONSTANTS Request, Subject, Email, NoEmail, NoPassword, someone, another, here, there,
          Call, Model,
          CharsPerToken, Dimension,
          Retrain, Seed, Server, NoModel,
          Turn, MaxChats, MaxSlips, None, Earlier, OtherTab,
          MaxQueries, MaxPosts

\* What a job is called is no file content, and is told from no sample.
ASSUME JobAssumption == "cut" \notin Retrain \cup {Seed} /\ NoModel \notin Seq(Retrain \cup {Seed, "cut"})

\* There are as many requests as MCInit has asks for.
ASSUME AccountAssumption ==
    /\ Request \subseteq 1 .. 3
    /\ {someone, another} \subseteq Subject /\ {here, there} \subseteq Email /\ NoEmail \notin Email

\* A conversation is told from none; an earlier one and another tab's from those
\* of the page, and from each other.
ASSUME PageAssumption ==
    None \notin Turn /\ Earlier \notin Turn \cup {None} /\ OtherTab \notin Turn \cup {None, Earlier}

\* A token stands for some characters.
ASSUME CharsAssumption == CharsPerToken \in Nat \ {0}

VARIABLES
    part,
    users, registered, identities, keys, ask, req, overlaps, cut,            \* Accounts
    over, wants, callAt, id, nextId, queue, writes, readers, toServer, fromServer, open, reply,
                                                                             \* McpSession
    plan, jobAt, bin, meta, docs, rows, doomed, dim, raced, failed,          \* Documents
    production, reference, runAt, sample, service, load, whole, alone, steady,  \* ModelServer
    messages, streaming, abortRef, conversationRef, turn, recorded, gateway, recent, chat,
    hasty, crossed, upsets,                                                  \* ChatPage
    host, law, asked, densities, told, fresh, served, response, said, queries,  \* HostedModels
    pool, selected,                                                          \* Selection
    spec, job, source, generated, schema, blob, artifact, outcome,           \* Datasets
    table, sent, known, fitted, verdict, answer                              \* Feedback

accountVars == <<users, registered, identities, keys, ask, req, overlaps, cut>>
mcpVars == <<over, wants, callAt, id, nextId, queue, writes, readers, toServer, fromServer, open, reply>>
documentVars == <<plan, jobAt, bin, meta, docs, rows, doomed, dim, raced, failed>>
serverVars == <<production, reference, runAt, sample, service, load, whole, alone, steady>>
pageVars == <<messages, streaming, abortRef, conversationRef, turn, recorded, gateway, recent, chat,
              hasty, crossed, upsets>>
modelVars == <<host, law, asked, densities, told, fresh, served, response, said, queries>>
poolVars == <<pool, selected>>
datasetVars == <<spec, job, source, generated, schema, blob, artifact, outcome>>
feedbackVars == <<table, sent, known, fitted, verdict, answer>>

Scores(m) == m = "scorer"

Acc == INSTANCE Accounts
Mcp == INSTANCE McpSession WITH at <- callAt
Doc == INSTANCE Documents WITH Job <- 1 .. 3, at <- jobAt, cut <- failed
Srv == INSTANCE ModelServer WITH at <- runAt
Page == INSTANCE ChatPage WITH overlaps <- crossed
Host == INSTANCE HostedModels WITH Challenger <- Challengers, reply <- response
Sel == INSTANCE Selection WITH Orthogonal <- 2
Data == INSTANCE Datasets WITH rows <- generated, status <- outcome
Fb == INSTANCE Feedback WITH status <- answer

-----------------------------------------------------------------------------
(* Accounts: sign-ins of one or two provider users with a signup or a login, *)
(* or requests that carry the key of an account.                             *)

SignIn(s) == [kind |-> "signin", subject |-> s]
SignupAs(email) == [kind |-> "signup", email |-> email, password |-> "p"]
Login == [kind |-> "login", email |-> there, password |-> "p"]
Keyed(kind) == [kind |-> kind]

Asks == {<<SignIn(someone), SignIn(someone), x>> : x \in {SignIn(someone), SignIn(another), SignupAs(here),
                                                       SignupAs(Acc!Placeholder(someone))}}
        \cup {<<SignIn(another), SignupAs(here), Login>>}
        \cup {<<Keyed("revoke_key"), Keyed(k), x>> : k \in {"revoke_key", "me", "create_key"},
                                                    x \in {Login, Keyed("me"), Keyed("revoke_key")}}
TheAccount == [u \in {there} |-> "p"]
TheKey == <<[owner |-> there, used |-> FALSE, revoked |-> FALSE]>>

(* MCP: a session is opened while two others call over the same transport.  *)

Ask(method) == [method |-> method, tool |-> <<>>, goes |-> "-"]
UseTool(tool, goes) == [method |-> "tools/call", tool |-> tool, goes |-> goes]
Wants == {<<Ask("initialize"), x, y>> :
            x \in {Ask("initialize"), Ask("tools/list"), UseTool(<<"score", "scorer">>, "raises"),
                   UseTool(<<"score", "talker">>, "well")},
            y \in {UseTool(Mcp!ListModels, "well"), UseTool(<<"chat", "talker">>, "refused"), Ask("other")}}

(* Documents: the upload of every text of up to seven characters with every *)
(* chunk size and overlap at the clamps, and re-indexings of a conversation  *)
(* that shrank, grew or was emptied.                                         *)

Texts == UNION {[1 .. n -> {"x", Doc!Blank}] : n \in 0 .. 7}
Long(n) == [i \in 1 .. n |-> "x"]
Upload(text, tokens, overlap) ==
    [kind |-> "document", user |-> "u", source |-> "d", text |-> text, tokens |-> tokens, overlap |-> overlap]
ReIndex(text) ==
    [kind |-> "conversation", user |-> "u", source |-> "c", text |-> text, tokens |-> 1, overlap |-> 0]
Blanks == [Upload(<<>>, 1, 0) EXCEPT !.source = "e"]
Plans == {<<Upload(t, c, o), Blanks, Blanks>> : t \in Texts, c \in {0, 1, 2}, o \in {-1, 0, 1, 2}}
         \cup {<<ReIndex(Long(3)), ReIndex(Long(n)), ReIndex(Long(6))>> : n \in {0, 5}}
         \cup {<<ReIndex(Long(3)), ReIndex(Long(6)), Upload(Long(5), 1, 0)>>}

-----------------------------------------------------------------------------
Slips == Cardinality(upsets) + Cardinality(hasty) + IF crossed THEN 1 ELSE 0
Bodies == Judgements \cup IF sent = <<>> THEN OtherBodies ELSE {}

\* What a part begins with, and any one of it for a part that stays there.
Of(name, inputs) == IF part = name THEN inputs ELSE {CHOOSE x \in inputs : TRUE}

\* Chosen once: there are many pools.
OnePool == {CHOOSE x \in Pools : TRUE}

MCInit ==
    /\ part \in {"accounts", "mcp", "documents", "server", "page",
                 "models", "selection", "datasets", "feedback"}
    /\ Acc!InitIn(Of("accounts", Asks), TheAccount, TheKey)
    /\ Mcp!InitIn(Of("mcp", {"stdio", "http"}), Of("mcp", Wants))
    /\ Doc!InitIn(Of("documents", Plans))
    /\ Srv!Init
    /\ Page!Init /\ (part # "page" => recent = None)
    /\ Host!InitIn(Of("models", Hosts), Of("models", Laws))
    /\ Sel!InitIn(IF part = "selection" THEN Pools ELSE OnePool)
    /\ Data!InitIn(Of("datasets", Orders))
    /\ Fb!Init

AccountsStep == /\ part = "accounts" /\ Acc!Next
                /\ UNCHANGED <<part, mcpVars, documentVars, serverVars, pageVars,
                               modelVars, poolVars, datasetVars, feedbackVars>>
McpStep == /\ part = "mcp" /\ Mcp!Next
           /\ UNCHANGED <<part, accountVars, documentVars, serverVars, pageVars,
                          modelVars, poolVars, datasetVars, feedbackVars>>
DocumentsStep == /\ part = "documents" /\ Doc!Next
                 /\ UNCHANGED <<part, accountVars, mcpVars, serverVars, pageVars,
                                modelVars, poolVars, datasetVars, feedbackVars>>
ServerStep == /\ part = "server" /\ Srv!Next
              /\ UNCHANGED <<part, accountVars, mcpVars, documentVars, pageVars,
                             modelVars, poolVars, datasetVars, feedbackVars>>
\* MaxSlips bounds how many of the things that can go wrong on the page do.
PageStep == /\ part = "page" /\ Page!Next /\ Slips' <= MaxSlips
            /\ UNCHANGED <<part, accountVars, mcpVars, documentVars, serverVars,
                           modelVars, poolVars, datasetVars, feedbackVars>>
ModelsStep == /\ part = "models" /\ Host!Next(QueriesOf(host))
              /\ UNCHANGED <<part, accountVars, mcpVars, documentVars, serverVars,
                             pageVars, poolVars, datasetVars, feedbackVars>>
SelectionStep == /\ part = "selection" /\ Sel!Next
                 /\ UNCHANGED <<part, accountVars, mcpVars, documentVars, serverVars,
                                pageVars, modelVars, datasetVars, feedbackVars>>
DatasetsStep == /\ part = "datasets" /\ Data!Next(Draws, LlmTexts)
                /\ UNCHANGED <<part, accountVars, mcpVars, documentVars, serverVars,
                               pageVars, modelVars, poolVars, feedbackVars>>
\* MaxPosts bounds the bodies that are sent.
FeedbackStep == /\ part = "feedback" /\ Fb!Next(Bodies, {NoModel, "m"}) /\ Len(sent') <= MaxPosts
                /\ UNCHANGED <<part, accountVars, mcpVars, documentVars, serverVars,
                               pageVars, modelVars, poolVars, datasetVars>>

allVars == <<part, accountVars, mcpVars, documentVars, serverVars, pageVars,
             modelVars, poolVars, datasetVars, feedbackVars>>
MCNext ==
    \/ AccountsStep \/ McpStep \/ DocumentsStep \/ ServerStep \/ PageStep
    \/ ModelsStep \/ SelectionStep \/ DatasetsStep \/ FeedbackStep
MCSpec == MCInit /\ [][MCNext]_allVars

-----------------------------------------------------------------------------
(* The properties of the parts, each stated and explained in its module.    *)

\* find_or_create_user: a provider's user comes back to the same account.
SameAccountEachTime == part = "accounts" => Acc!SameAccountEachTime

\* revoke_key against resolve_api_key: a revoked key is never valid again.
RevokedStaysOut == Acc!RevokedStaysOut

\* StdioTransport.request: whose answer a caller is given, and that there is one.
AnswersAreOwn == part = "mcp" => Mcp!AnswersAreOwn

\* upload_document: a listed document has its file and its passages are found.
DocumentsAreKept == part = "documents" => Doc!DocumentsAreKept

\* index_conversation: the rows of a conversation are those of one run.
MemoryIsOfOneRun == part = "documents" => Doc!MemoryIsOfOneRun

\* drift_retrain.main against _load_service: drift is measured against the
\* sample of the model that is served.
DriftIsAgainstOwnSample == part = "server" => Srv!DriftIsAgainstOwnSample

\* runCompletion: the turns of a chat are in one conversation, of its own.
ConversationPerChat == part = "page" => Page!ConversationPerChat

\* stop, and the ends of runCompletion: Stop is shown for, and reaches, the
\* turn that runs.
StopReachesTheTurn == part = "page" => Page!StopReachesTheTurn

\* MixleAdapter and TaskCascadeAdapter: what capabilities promise is answered.
CapabilitiesAreHonest == part = "models" => Host!CapabilitiesAreHonest

\* predictive_batch, score and _density_semantics: an answer is what it is
\* said to be.
AnswersAreHonest == part = "models" => Host!AnswersAreHonest

\* The chat, the route and the cascade escalate the same inputs.
EscalationAgrees == part = "models" => Host!EscalationAgrees

\* focal_diversity_select: nobody left out would have spread the panel further.
SelectionIsSpread == part = "selection" => Sel!SelectionIsSpread

\* generate_dataset: a listed dataset has the rows and columns it names.
DatasetIsWhole == part = "datasets" => Data!DatasetIsWhole

\* ingest, preference_pairs and export_dpo_records: every judgement counts as
\* often as it was kept, for the model and for the export.
PreferencesCount == part = "feedback" => Fb!PreferencesCount({NoModel, "m"})

=============================================================================
